------------------------- MODULE SessionWireProofs -------------------------
(***************************************************************************)
(* What a client sees on its connection: the hello frame first and once,   *)
(* and, once settled, every unacked event, in order but for a batch that   *)
(* live events overtook.  And what the session knows about it: no resume   *)
(* is pending while it is connected.                                       *)
(***************************************************************************)
EXTENDS SessionDeliveryProofs

\* An event may be written to c: hello is out, or c takes no frame any more.
Greeted(c) == wire[c] # <<>> \/ broken[c] = TRUE

\* Before Attach, nothing is known of a connection.
Untouched(c) == wire[c] = <<>> /\ sink # c /\ \A p \in Procs : to[p] # c

\* The handler of c is about to write hello, or has just written it.
Greeting(c) ==
  /\ to[Handler(c)] = c
  /\ \/ frames[Handler(c)] = <<HelloFrame>> /\ wire[c] = <<>>
     \/ frames[Handler(c)] = <<>> /\ wire[c] # <<>>

\* Events are in the hands of processes for greeted connections only, and
\* settled says that the current connection is one.
HelloInv ==
  /\ HelloFirst
  /\ \A c \in Conns : pc[Handler(c)] = "new" => Untouched(c)
  /\ \A c \in Conns : InHello(c) => Greeting(c)
  /\ \A c \in Conns : sink = c /\ ~InHello(c) => Greeted(c)
  /\ \A c \in Conns : sink = c /\ settled = TRUE => ~InHello(c)
  /\ \A p \in Procs : Writing(p) /\ after[p] = "note" =>
       frames[p] \in Seq(EventFrames) /\ Greeted(to[p])

LEMMA HelloIsNoEvent == HelloFrame \notin EventFrames /\ HelloFrame \in Frames
BY DEF HelloFrame, EventFrames, Frames

\* A step that leaves wires and writers alone keeps HelloInv.
LEMMA QuietKeepsHello ==
  ASSUME HelloInv, UNCHANGED <<wire, frames, to, after>>,
         sink' \in {sink, NoConn}, sink' = sink => (settled' = TRUE => settled = TRUE),
         \A c \in Conns : broken[c] = TRUE => broken'[c] = TRUE,
         \A p \in Procs : /\ pc'[p] \in {"check", "write"} <=> pc[p] \in {"check", "write"}
                          /\ pc'[p] = "new" => pc[p] = "new",
         \A p \in Procs : Writing(p) => to[p] \in Conns
  PROVE  HelloInv'
<1>1. /\ \A p \in Procs : Writing(p)' <=> Writing(p)
      /\ \A c \in Conns : InHello(c)' <=> InHello(c)
  BY ProcFacts DEF Writing, InHello
<1>2. \A c \in Conns : Greeted(c) => Greeted(c)'
  BY DEF Greeted
<1>3. HelloFirst' /\ \A c \in Conns : pc'[Handler(c)] = "new" => Untouched(c)'
  BY ProcFacts, ConnsAssumption DEF HelloInv, HelloFirst, Untouched
<1>4. \A c \in Conns : InHello(c)' => Greeting(c)'
  BY <1>1 DEF HelloInv, Greeting
<1>5. \A c \in Conns : /\ sink' = c /\ ~InHello(c)' => Greeted(c)'
                       /\ sink' = c /\ settled' = TRUE => ~InHello(c)'
  BY <1>1, <1>2, ConnsAssumption DEF HelloInv
<1>6. \A p \in Procs : Writing(p)' /\ after'[p] = "note" =>
        frames'[p] \in Seq(EventFrames) /\ Greeted(to[p])'
  BY <1>1, <1>2 DEF HelloInv
<1> QED
  BY <1>3, <1>4, <1>5, <1>6 DEF HelloInv

\* Handing events to a process that is not greeting, for the current and greeted
\* connection, keeps HelloInv.
LEMMA DeliverKeepsHello ==
  ASSUME TypeInv, HelloInv, UNCHANGED <<wire, broken, sink>>,
         NEW p \in Procs, NEW c \in Conns, sink = c, ~InHello(c),
         pc[p] \notin {"new", "check", "write"},
         NEW keys \in Seq(Nat), Deliver(p, c, keys)
  PROVE  HelloInv'
<1>1. /\ frames'[p] \in Seq(EventFrames) /\ to'[p] = c
      /\ pc'[p] = "check" /\ after'[p] = "note"
      /\ \A q \in Procs \ {p} : /\ frames'[q] = frames[q] /\ to'[q] = to[q]
                                /\ pc'[q] = pc[q] /\ after'[q] = after[q]
  BY DeliverEffect DEF TypeInv, TypeOK
<1>2. \A d \in Conns : InHello(d)' <=> InHello(d) /\ Handler(d) # p
  BY <1>1, ProcFacts DEF InHello, Writing
<1>3. \A d \in Conns : Greeted(d)' <=> Greeted(d)
  BY DEF Greeted
<1>4. HelloFirst' /\ \A d \in Conns : pc'[Handler(d)] = "new" => Untouched(d)'
  BY <1>1, ProcFacts DEF HelloInv, HelloFirst, Untouched
<1>5. \A d \in Conns : InHello(d)' => Greeting(d)'
  BY <1>1, <1>2, ProcFacts DEF HelloInv, Greeting
<1>6. \A d \in Conns : Handler(d) = p => ~InHello(d)
  BY DEF InHello, Writing
<1>7. \A d \in Conns : /\ sink' = d /\ ~InHello(d)' => Greeted(d)'
                       /\ sink' = d /\ settled' = TRUE => ~InHello(d)'
  BY <1>2, <1>3, <1>6 DEF HelloInv
<1>8. \A q \in Procs : Writing(q)' /\ after'[q] = "note" =>
        frames'[q] \in Seq(EventFrames) /\ Greeted(to[q])'
  <2>1. ASSUME NEW q \in Procs \ {p}, Writing(q)', after'[q] = "note"
        PROVE  frames'[q] \in Seq(EventFrames) /\ Greeted(to[q])'
    <3>1. Writing(q) /\ after[q] = "note"
      BY <1>1, <2>1 DEF Writing
    <3> QED
      BY <1>1, <3>1 DEF HelloInv, Greeted
  <2>2. Greeted(c)
    BY DEF HelloInv
  <2>3. Greeted(to[p])'
    BY <1>1, <2>2 DEF Greeted
  <2> QED
    BY <1>1, <2>1, <2>3
<1> QED
  BY <1>4, <1>5, <1>7, <1>8 DEF HelloInv

\* Where a process stands after Finish: in no writeToSink call, and without frames.
LEMMA FinishEffect ==
  ASSUME TypeInv, NEW p \in Procs, Writing(p), Finish(p)
  PROVE  /\ pc'[p] = after[p] /\ after[p] \in {"note", "settle", "arm", "read"}
         /\ frames'[p] = <<>>
         /\ \A q \in Procs \ {p} : pc'[q] = pc[q] /\ frames'[q] = frames[q]
BY DEF Finish, TypeInv, TypeOK, ProcsOK, ControlInv

\* Ending a writeToSink call keeps HelloInv: a greeting that ends has greeted, or
\* was told that its connection is stale or broken.
LEMMA FinishKeepsHello ==
  ASSUME TypeInv, HelloInv, NEW p \in Procs, Writing(p), Finish(p),
         UNCHANGED <<wire, sink, settled, to, after>>,
         \A c \in Conns : broken[c] = TRUE => broken'[c] = TRUE,
         \A c \in Conns : p = Handler(c) /\ InHello(c) /\ sink = c => Greeted(c)'
  PROVE  HelloInv'
<1>1. /\ pc'[p] \in {"note", "settle", "arm", "read"}
      /\ \A q \in Procs \ {p} : pc'[q] = pc[q] /\ frames'[q] = frames[q]
  BY FinishEffect
<1>2. /\ ~Writing(p)' /\ \A q \in Procs \ {p} : Writing(q)' <=> Writing(q)
      /\ \A c \in Conns : InHello(c)' <=> InHello(c) /\ Handler(c) # p
  BY <1>1, ProcFacts DEF Writing, InHello
<1>3. \A c \in Conns : Greeted(c) => Greeted(c)'
  BY DEF Greeted
<1>4. HelloFirst' /\ \A c \in Conns : pc'[Handler(c)] = "new" => Untouched(c)'
  BY <1>1, ProcFacts DEF HelloInv, HelloFirst, Untouched
<1>5. \A c \in Conns : InHello(c)' => Greeting(c)'
  BY <1>1, <1>2, ProcFacts DEF HelloInv, Greeting
<1>6. \A c \in Conns : /\ sink' = c /\ ~InHello(c)' => Greeted(c)'
                       /\ sink' = c /\ settled' = TRUE => ~InHello(c)'
  BY <1>2, <1>3 DEF HelloInv
<1>7. \A q \in Procs : Writing(q)' /\ after'[q] = "note" =>
        frames'[q] \in Seq(EventFrames) /\ Greeted(to[q])'
  <2>1. ASSUME NEW q \in Procs \ {p}, Writing(q), after[q] = "note"
        PROVE  frames'[q] \in Seq(EventFrames) /\ Greeted(to[q])'
    <3>1. PICK c \in Conns : c = to[q]
      BY <2>1 DEF TypeInv, ControlInv
    <3>2. Greeted(c)'
      BY <1>3, <2>1, <3>1 DEF HelloInv
    <3> QED
      BY <1>1, <2>1, <3>1, <3>2 DEF HelloInv, Greeted
  <2> QED
    BY <1>2, <2>1
<1> QED
  BY <1>4, <1>5, <1>6, <1>7 DEF HelloInv

\* Writing a frame keeps HelloInv: the first frame of a connection is its hello,
\* and every later one is an event.
LEMMA WriteKeepsHello ==
  ASSUME TypeInv, HelloInv, NEW p \in Procs, WriteOk(p)
  PROVE  HelloInv'
<1>1. PICK c \in Conns : c = to[p]
  BY DEF WriteOk, TypeInv, ControlInv, Writing
<1>2. broken[c] # TRUE
  BY <1>1, Zenon DEF WriteOk
<1>3. /\ wire \in [Conns -> Seq(Frames)] /\ frames \in [Procs -> Seq(Frames)]
      /\ pc \in [Procs -> PC] /\ frames[p] # <<>> /\ Writing(p)
  BY DEF WriteOk, TypeInv, TypeOK, NetOK, ProcsOK, ControlInv, Writing
<1>4. /\ wire'[c] = Append(wire[c], Head(frames[p])) /\ wire'[c] # <<>>
      /\ \A d \in Conns \ {c} : wire'[d] = wire[d]
      /\ frames'[p] = Tail(frames[p]) /\ pc'[p] = "check"
      /\ \A q \in Procs \ {p} : frames'[q] = frames[q] /\ pc'[q] = pc[q]
      /\ UNCHANGED <<sink, settled, after, to, broken>>
  <2>1. UNCHANGED <<sink, settled, after, to, broken>>
    BY Zenon DEF WriteOk, sessionVars
  <2>2. Append(wire[c], Head(frames[p])) # <<>>
    <3>1. Head(frames[p]) \in Frames /\ wire[c] \in Seq(Frames)
      BY <1>3
    <3>2. Len(Append(wire[c], Head(frames[p]))) = Len(wire[c]) + 1 /\ Len(wire[c]) \in Nat
      BY <3>1
    <3>3. PICK w : w = Append(wire[c], Head(frames[p]))
      OBVIOUS
    <3>4. w # <<>>
      <4>1. Len(w) # 0
        BY <3>2, <3>3
      <4> QED
        BY <4>1
    <3> QED
      BY <3>3, <3>4
  <2>3. /\ wire' = [wire EXCEPT ![c] = Append(wire[c], Head(frames[p]))]
        /\ frames' = [frames EXCEPT ![p] = Tail(frames[p])]
        /\ pc' = [pc EXCEPT ![p] = "check"]
    BY <1>1 DEF WriteOk
  <2> QED
    BY <1>3, <2>1, <2>2, <2>3
<1>5. /\ \A q \in Procs : Writing(q)' <=> Writing(q)
      /\ \A d \in Conns : InHello(d)' <=> InHello(d)
  BY <1>3, <1>4, ProcFacts DEF Writing, InHello
<1>6. \A d \in Conns : Greeted(d) => Greeted(d)'
  BY <1>4 DEF Greeted
\* Either the handler of c greets, or an event goes to a greeted connection.
<1>7. \/ p = Handler(c) /\ InHello(c) /\ frames[p] = <<HelloFrame>> /\ wire[c] = <<>>
      \/ after[p] = "note" /\ frames[p] \in Seq(EventFrames) /\ wire[c] # <<>>
  <2>1. CASE after[p] = "note"
    BY <1>1, <1>2, <1>3, <2>1 DEF HelloInv, Greeted
  <2>2. CASE after[p] # "note"
    <3>1. PICK d \in Conns : p = Handler(d)
      BY <1>3, <2>2, ProcFacts DEF TypeInv, ControlInv
    <3>2. InHello(d) /\ Greeting(d)
      BY <1>3, <2>2, <3>1 DEF InHello, HelloInv
    <3> QED
      BY <1>1, <1>3, <3>1, <3>2 DEF Greeting
  <2> QED
    BY <2>1, <2>2
<1>8. HelloFirst'
  <2>1. ASSUME NEW i \in DOMAIN wire'[c] PROVE wire'[c][i] = HelloFrame <=> i = 1
    <3>1. CASE wire[c] = <<>> /\ frames[p] = <<HelloFrame>>
      <4>1. wire'[c] = <<HelloFrame>>
        BY <1>4, <3>1
      <4> QED
        BY <2>1, <4>1
    <3>2. CASE wire[c] # <<>> /\ frames[p] \in Seq(EventFrames)
      <4>1. Head(frames[p]) \in EventFrames
        BY <1>3, <3>2
      <4>2. /\ DOMAIN wire'[c] = 1..(Len(wire[c]) + 1) /\ Len(wire[c]) \in Nat \ {0}
            /\ DOMAIN wire[c] = 1..Len(wire[c])
            /\ wire'[c][Len(wire[c]) + 1] = Head(frames[p])
            /\ \A j \in 1..Len(wire[c]) : wire'[c][j] = wire[c][j]
        BY <1>3, <1>4, <3>2, <4>1 DEF Frames
      <4>3. CASE i = Len(wire[c]) + 1
        BY <4>1, <4>2, <4>3, HelloIsNoEvent
      <4>4. CASE i \in 1..Len(wire[c])
        BY <4>2, <4>4 DEF HelloInv, HelloFirst
      <4> QED
        BY <2>1, <4>2, <4>3, <4>4
    <3> QED
      BY <1>7, <3>1, <3>2
  <2> QED
    BY <1>4, <2>1 DEF HelloInv, HelloFirst
<1>9. \A d \in Conns : pc'[Handler(d)] = "new" => Untouched(d)'
  BY <1>1, <1>4, ProcFacts DEF HelloInv, Untouched
<1>10. ASSUME NEW d \in Conns, InHello(d)' PROVE Greeting(d)'
  <2>1. Greeting(d) /\ InHello(d)
    BY <1>5, <1>10 DEF HelloInv
  <2>2. CASE p = Handler(d)
    <3>1. c = d /\ frames[p] = <<HelloFrame>>
      BY <1>1, <1>7, <2>1, <2>2 DEF Greeting, InHello
    <3>2. frames'[p] = <<>>
      BY <1>4, <3>1
    <3> QED
      BY <1>4, <2>1, <2>2, <3>1, <3>2 DEF Greeting
  <2>3. CASE p # Handler(d)
    BY <1>4, <1>7, <2>1, <2>3, ProcFacts DEF Greeting
  <2> QED
    BY <2>2, <2>3
<1>11. \A d \in Conns : /\ sink' = d /\ ~InHello(d)' => Greeted(d)'
                        /\ sink' = d /\ settled' = TRUE => ~InHello(d)'
  BY <1>4, <1>5, <1>6 DEF HelloInv
<1>12. \A q \in Procs : Writing(q)' /\ after'[q] = "note" =>
         frames'[q] \in Seq(EventFrames) /\ Greeted(to[q])'
  <2>1. ASSUME NEW q \in Procs, Writing(q), after[q] = "note"
        PROVE  frames'[q] \in Seq(EventFrames) /\ Greeted(to[q])'
    <3>1. PICK d \in Conns : d = to[q]
      BY <2>1 DEF TypeInv, ControlInv
    <3>2. Greeted(d)' /\ frames[q] \in Seq(EventFrames)
      BY <1>6, <2>1, <3>1 DEF HelloInv
    <3>3. frames'[q] \in Seq(EventFrames)
      <4>1. CASE q = p
        <5>1. Tail(frames[p]) \in Seq(EventFrames)
          BY <1>3, <3>2, <4>1
        <5> QED
          BY <1>4, <4>1, <5>1
      <4>2. CASE q # p
        BY <1>4, <3>2, <4>2
      <4> QED
        BY <4>1, <4>2
    <3> QED
      BY <1>4, <3>1, <3>2, <3>3 DEF Greeted
  <2> QED
    BY <1>4, <1>5, <2>1
<1> QED
  BY <1>8, <1>9, <1>10, <1>11, <1>12 DEF HelloInv

\* Attach begins the greeting of a new connection.
LEMMA AttachKeepsHello ==
  ASSUME TypeInv, HelloInv, NEW c \in Conns, Attach(c)
  PROVE  HelloInv'
<1>1. /\ pc \in [Procs -> PC] /\ to \in [Procs -> Conns \cup {NoConn}]
      /\ frames \in [Procs -> Seq(Frames)] /\ after \in [Procs -> PC]
  BY DEF TypeInv, TypeOK, ProcsOK
<1>2. /\ pc[Handler(c)] = "new" /\ pc'[Handler(c)] = "check" /\ to'[Handler(c)] = c
      /\ frames'[Handler(c)] = <<HelloFrame>> /\ after'[Handler(c)] # "note"
      /\ \A q \in Procs \ {Handler(c)} : /\ pc'[q] = pc[q] /\ to'[q] = to[q]
                                         /\ frames'[q] = frames[q] /\ after'[q] = after[q]
      /\ UNCHANGED <<wire, broken>> /\ sink' = c /\ settled' = FALSE
  BY <1>1, ProcFacts DEF Attach, AdoptSink, netVars
<1>3. /\ \A q \in Procs \ {Handler(c)} : Writing(q)' <=> Writing(q)
      /\ \A d \in Conns \ {c} : InHello(d)' <=> InHello(d)
      /\ InHello(c)' /\ Untouched(c)
  BY <1>2, ProcFacts DEF Writing, InHello, HelloInv
<1>4. HelloFirst' /\ \A d \in Conns : pc'[Handler(d)] = "new" => Untouched(d)'
  BY <1>2, ProcFacts DEF HelloInv, HelloFirst, Untouched
<1>5. \A d \in Conns : InHello(d)' => Greeting(d)'
  BY <1>2, <1>3, ProcFacts DEF HelloInv, Greeting, Untouched
<1>6. \A d \in Conns : /\ sink' = d /\ ~InHello(d)' => Greeted(d)'
                       /\ sink' = d /\ settled' = TRUE => ~InHello(d)'
  BY <1>2, <1>3
<1>7. \A q \in Procs : Writing(q)' /\ after'[q] = "note" =>
        frames'[q] \in Seq(EventFrames) /\ Greeted(to[q])'
  BY <1>2, <1>3, ProcFacts DEF HelloInv, Greeted
<1> QED
  BY <1>4, <1>5, <1>6, <1>7 DEF HelloInv

LEMMA HelloStep == TypeInv /\ HelloInv /\ [Next]_vars => HelloInv'
<1> SUFFICES ASSUME TypeInv, HelloInv, [Next]_vars PROVE HelloInv'
  OBVIOUS
<1>1. /\ pc \in [Procs -> PC] /\ buffer \in Seq(Nat) /\ nextKey \in Nat
      /\ \A p \in Procs : Writing(p) => to[p] \in Conns
  BY DEF TypeInv, TypeOK, ProcsOK, FieldsOK, ControlInv
<1>2. CASE UNCHANGED deliveryVars
  BY <1>1, <1>2, QuietKeepsHello DEF deliveryVars, procVars, netVars
<1>3. CASE Hold
  <2>1. UNCHANGED <<wire, broken, frames, to, after, pc, sink, settled>>
    BY <1>3, Zenon DEF Hold, OnEventHold, OnEventResume, procVars, netVars
  <2> QED
    BY <1>1, <2>1, QuietKeepsHello
<1>4. CASE OnEventDeliver
  <2>1. PICK c \in Conns : c = sink
    BY <1>4 DEF OnEventDeliver, TypeInv, TypeOK, FieldsOK
  <2>2. ~InHello(c)
    <3>1. settled = TRUE
      BY <1>4, Zenon DEF OnEventDeliver, TypeInv, TypeOK, FlagsOK
    <3> QED
      BY <2>1, <3>1 DEF HelloInv
  <2>3. /\ UNCHANGED <<wire, broken, sink>> /\ pc[Reader] = "idle"
        /\ Deliver(Reader, c, <<nextKey>>)
    BY <1>4, <2>1 DEF OnEventDeliver, Buffered, netVars
  <2>4. <<nextKey>> \in Seq(Nat)
    BY <1>1
  <2> QED
    BY <1>1, <2>1, <2>2, <2>3, <2>4, ProcFacts, DeliverKeepsHello
<1>5. ASSUME NEW p \in Procs, Check(p) PROVE HelloInv'
  <2>1. UNCHANGED <<wire, broken, sink, settled, to, after>> /\ Writing(p) /\ pc[p] = "check"
    BY <1>5, Zenon DEF Check, Writing, sessionVars, netVars
  <2>2. CASE Finish(p) /\ (frames[p] = <<>> \/ sink # to[p])
    <3>1. ASSUME NEW c \in Conns, p = Handler(c), InHello(c), sink = c PROVE Greeted(c)'
      <4>1. Greeting(c) /\ HelloFrame \in Frames
        BY <3>1, HelloIsNoEvent DEF HelloInv
      <4>2. frames[p] = <<>>
        BY <2>2, <3>1, <4>1 DEF Greeting
      <4>3. <<HelloFrame>> # <<>>
        OBVIOUS
      <4>4. wire[c] # <<>>
        BY <3>1, <4>1, <4>2, <4>3 DEF Greeting
      <4> QED
        BY <2>1, <4>4 DEF Greeted
    <3> QED
      BY <2>1, <2>2, <3>1, FinishKeepsHello
  <2>3. CASE pc' = [pc EXCEPT ![p] = "write"] /\ frames' = frames
    BY <1>1, <2>1, <2>3, QuietKeepsHello
  <2> QED
    BY <1>5, <2>2, <2>3 DEF Check
<1>6. ASSUME NEW p \in Procs, WriteOk(p) PROVE HelloInv'
  BY <1>6, WriteKeepsHello
<1>7. ASSUME NEW p \in Procs, WriteErr(p) PROVE HelloInv'
  <2>1. /\ UNCHANGED <<wire, sink, settled, to, after>> /\ Writing(p) /\ Finish(p)
        /\ broken' = [broken EXCEPT ![to[p]] = TRUE]
    BY <1>7, Zenon DEF WriteErr, Writing, sessionVars
  <2>2. PICK c \in Conns : c = to[p]
    BY <1>1, <2>1
  <2>3. broken'[c] = TRUE /\ \A d \in Conns : broken[d] = TRUE => broken'[d] = TRUE
    BY <2>1, <2>2 DEF TypeInv, TypeOK, NetOK
  <2>4. ASSUME NEW d \in Conns, p = Handler(d), InHello(d) PROVE Greeted(d)'
    BY <2>2, <2>3, <2>4 DEF HelloInv, Greeting, Greeted
  <2> QED
    BY <2>1, <2>3, <2>4, FinishKeepsHello
<1>8. ASSUME NEW p \in Procs, NoteActivity(p) PROVE HelloInv'
  <2>1. /\ UNCHANGED <<wire, broken, frames, to, after, sink, settled>> /\ pc[p] = "note"
        /\ pc' = [pc EXCEPT ![p] = ReturnPC(p)] /\ ReturnPC(p) \in {"read", "idle"}
    BY <1>8, Zenon DEF NoteActivity, ReturnPC, netVars
  <2> QED
    BY <1>1, <2>1, QuietKeepsHello
<1>9. ASSUME NEW c \in Conns, NEW p \in Procs, Batch(p, c) PROVE HelloInv'
  <2>1. p \in {Handler(c), Timer(c)} /\ pc[p] \in {"settle", "read"}
    BY <1>9 DEF Batch
  <2>2. CASE BatchDelivers(p, c)
    <3>1. ~InHello(c)
      BY <2>1, ProcFacts DEF InHello, Writing, TypeInv, ControlInv, TimerPC, ReaderPC
    <3>2. UNCHANGED <<wire, broken, sink>> /\ sink = c /\ Deliver(p, c, buffer)
      BY <2>2 DEF BatchDelivers, netVars
    <3> QED
      BY <1>1, <2>1, <3>1, <3>2, DeliverKeepsHello
  <2>3. CASE BatchSkips(p, c)
    <3>1. /\ UNCHANGED <<wire, broken, frames, to, after, sink, settled>>
          /\ pc' = [pc EXCEPT ![p] = ReturnPC(p)] /\ ReturnPC(p) \in {"read", "idle"}
      BY <2>3, Zenon DEF BatchSkips, ReturnPC, netVars
    <3> QED
      BY <1>1, <2>1, <3>1, QuietKeepsHello
  <2> QED
    BY <1>9, <2>2, <2>3, BatchCases
<1>10. ASSUME NEW c \in Conns, Attach(c) PROVE HelloInv'
  BY <1>10, AttachKeepsHello
<1>11. ASSUME NEW c \in Conns, ArmFallback(c) \/ FallbackFires(c) \/ Ack(c) PROVE HelloInv'
  <2>1. UNCHANGED <<wire, broken, frames, to, after, sink, settled>>
    BY <1>11, Zenon DEF ArmFallback, FallbackFires, Ack, sessionVars, procVars, netVars
  <2>2. \A q \in Procs : /\ pc'[q] \in {"check", "write"} <=> pc[q] \in {"check", "write"}
                         /\ pc'[q] = "new" => pc[q] = "new"
    <3>1. ~(pc[Timer(c)] \in {"check", "write"}) \/ ~FallbackFires(c)
      BY ProcFacts DEF FallbackFires, TypeInv, ControlInv
    <3> QED
      BY <1>1, <1>11, <3>1, ProcFacts DEF ArmFallback, FallbackFires, Ack, procVars
  <2> QED
    BY <1>1, <2>1, <2>2, QuietKeepsHello
<1>12. ASSUME NEW c \in Conns, Detach(c) \/ CloseConn(c) PROVE HelloInv'
  <2>1. /\ UNCHANGED <<wire, frames, to, after>>
        /\ (sink' = sink /\ settled' = settled) \/ (sink' = NoConn /\ sink # NoConn)
    <3>1. CASE Detach(c)
      BY <3>1, ConnsAssumption, Zenon DEF Detach, netVars
    <3>2. CASE CloseConn(c)
      BY <3>2, Zenon DEF CloseConn, sessionVars
    <3> QED
      BY <1>12, <3>1, <3>2
  <2>2. \A d \in Conns : broken[d] = TRUE => broken'[d] = TRUE
    BY <1>12 DEF Detach, CloseConn, netVars, TypeInv, TypeOK, NetOK
  <2>3. \A q \in Procs : /\ pc'[q] \in {"check", "write"} <=> pc[q] \in {"check", "write"}
                         /\ pc'[q] = "new" => pc[q] = "new"
    BY <1>1, <1>12, ProcFacts DEF Detach, CloseConn
  <2> QED
    BY <1>1, <2>1, <2>2, <2>3, QuietKeepsHello
<1> QED
  BY <1>2, <1>3, <1>4, <1>5, <1>6, <1>7, <1>8, <1>9, <1>10, <1>11, <1>12, NextCases

LEMMA HelloInvariant == Spec => []HelloInv
<1>1. Init => HelloInv
  <2> SUFFICES ASSUME Init PROVE HelloInv
    OBVIOUS
  <2>1. \A p \in Procs : ~Writing(p)
    BY DEF Init, Writing
  <2>2. \A c \in Conns : ~InHello(c) /\ Untouched(c) /\ sink # c
    BY <2>1, ProcFacts, ConnsAssumption DEF Init, InHello, Untouched
  <2>3. HelloFirst
    BY DEF Init, HelloFirst
  <2> QED
    BY <2>1, <2>2, <2>3 DEF HelloInv
<1> QED
  BY <1>1, HelloStep, TypeInvariant, PTL DEF Spec

\* On every connection, whatever the Slack reader, timers and other handlers write
\* to the session meanwhile, the client sees hello first and never again.
THEOREM HelloAlwaysFirst == Spec => []HelloFirst
<1>1. HelloInv => HelloFirst
  BY DEF HelloInv
<1> QED
  BY <1>1, HelloInvariant, PTL

-----------------------------------------------------------------------------
(* The resuming flag.                                                      *)

\* Attach is the only step that connects, and it clears resuming; no other step
\* sets it while a connection is there: the flag never survives into a connection,
\* where the next disconnect would take it for a resume on its way.
THEOREM NeverResumingWhileConnected == Spec => []NoResumeWhileConnected
<1>1. Init => NoResumeWhileConnected
  BY DEF Init, NoResumeWhileConnected
<1>2. NoResumeWhileConnected /\ [Next]_vars => NoResumeWhileConnected'
  <2> SUFFICES ASSUME NoResumeWhileConnected, [Next]_vars PROVE NoResumeWhileConnected'
    OBVIOUS
  <2> USE DEF NoResumeWhileConnected
  <2>1. ASSUME UNCHANGED <<sink, resuming>> PROVE NoResumeWhileConnected'
    BY <2>1, Zenon
  <2>2. CASE OnEvent
    BY <2>1, <2>2, Zenon DEF OnEvent, OnEventDeliver, OnEventHold, OnEventResume
  <2>3. CASE ResumeOk \/ ResumeErr \/ IdleFires \/ OnIdle \/ SuspendOk \/ SuspendErr
    BY <2>1, <2>3, Zenon
       DEF ResumeOk, ResumeErr, IdleFires, OnIdle, SuspendOk, SuspendErr, sessionVars
  <2>4. CASE \E p \in Procs : WriteStep(p)
    BY <2>1, <2>4, Zenon DEF WriteStep, Check, WriteOk, WriteErr, NoteActivity, sessionVars
  <2>5. CASE \E f \in Forwards : BeginForward(f) \/ EndForward(f)
    BY <2>1, <2>5, Zenon DEF BeginForward, EndForward
  <2>6. ASSUME NEW c \in Conns, ConnStep(c) PROVE NoResumeWhileConnected'
    <3>1. CASE Attach(c)
      BY <3>1, Zenon DEF Attach, AdoptSink
    <3>2. CASE Detach(c)
      BY <2>1, <3>2, Zenon DEF Detach
    <3>3. CASE ArmFallback(c) \/ FallbackFires(c) \/ Ack(c) \/ CloseConn(c)
      BY <2>1, <3>3, Zenon DEF ArmFallback, FallbackFires, Ack, CloseConn, sessionVars
    <3>4. CASE SettleOnAttach(c) \/ SettleOnFallback(c) \/ MarkReady(c)
      BY <2>1, <3>4, Zenon
         DEF SettleOnAttach, SettleOnFallback, MarkReady, DeliverBufferedNow, sessionVars
    <3> QED
      BY <2>6, <3>1, <3>2, <3>3, <3>4 DEF ConnStep
  <2>7. CASE UNCHANGED vars
    BY <2>1, <2>7, Zenon DEF vars, sessionVars
  <2> QED
    BY <2>2, <2>3, <2>4, <2>5, <2>6, <2>7 DEF Next
<1> QED
  BY <1>1, <1>2, PTL DEF Spec

-----------------------------------------------------------------------------
(* Nothing is left behind.                                                 *)

\* Connection c receives events as they arrive.
Serves(c) == sink = c /\ settled = TRUE /\ broken[c] # TRUE

\* Event k was written to c, or a process is about to.
Covered(c, k) == k \in KeysOn(c) \/ \E p \in Procs : to[p] = c /\ k \in KeysHeld(p)

LEMMA CompleteForm ==
  ASSUME FlagsOK, NetOK
  PROVE  SettledComplete <=> \A c \in Conns : Serves(c) => \A k \in ToSet(buffer) : Covered(c, k)
<1>1. \A c \in Conns : broken[c] \in BOOLEAN
  BY DEF NetOK
<1>2. \A c \in Conns : (sink = c /\ settled /\ ~broken[c]) <=> Serves(c)
  BY <1>1, Zenon DEF Serves, FlagsOK
<1> QED
  BY <1>2, Zenon DEF SettledComplete, Covered

\* The invariant in the form used below.
AllCovered == \A c \in Conns : Serves(c) => \A k \in ToSet(buffer) : Covered(c, k)

\* The events of a delivery are held by the process that makes it.
LEMMA DeliveryHolds ==
  ASSUME TypeInv, NEW p \in Procs, NEW c \in Conns, NEW keys \in Seq(Nat), Deliver(p, c, keys)
  PROVE  /\ to'[p] = c /\ \A k \in ToSet(keys) : k \in KeysHeld(p)'
         /\ \A q \in Procs \ {p} : to'[q] = to[q] /\ KeysHeld(q)' = KeysHeld(q)
<1>1. /\ frames'[p] = Stamped(keys, nextID) /\ to'[p] = c
      /\ \A q \in Procs \ {p} : frames'[q] = frames[q] /\ to'[q] = to[q]
  BY DeliverEffect DEF TypeInv, TypeOK
<1>2. ASSUME NEW k \in ToSet(keys) PROVE k \in KeysHeld(p)'
  <2>1. PICK i \in 1..Len(keys) : keys[i] = k
    BY DEF ToSet
  <2>2. /\ DOMAIN Stamped(keys, nextID) = 1..Len(keys)
        /\ Stamped(keys, nextID)[i] = EventFrame(nextID + i, k)
        /\ ToSet(Stamped(keys, nextID)) \subseteq EventFrames
    BY <2>1, StampedFrames DEF TypeInv, TypeOK, FieldsOK
  <2>3. PICK x : x = EventFrame(nextID + i, k)
    OBVIOUS
  <2>4. x \in ToSet(frames'[p])
    BY <1>1, <2>2, <2>3, Zenon DEF ToSet
  <2>5. x \in EventFrames
    BY <1>1, <2>2, <2>4
  <2>6. x.key = k
    BY <2>3 DEF EventFrame
  <2> QED
    BY <2>4, <2>5, <2>6, KeysMember
<1> QED
  BY <1>1, <1>2, KeysKept

LEMMA CompleteStep == TypeInv /\ AllCovered /\ [Next]_vars => AllCovered'
<1> SUFFICES ASSUME TypeInv, AllCovered, [Next]_vars PROVE AllCovered'
  OBVIOUS
<1>1. /\ pc \in [Procs -> PC] /\ buffer \in Seq(Nat) /\ nextKey \in Nat
      /\ broken \in [Conns -> BOOLEAN] /\ frames \in [Procs -> Seq(Frames)]
      /\ \A p \in Procs : Writing(p) => to[p] \in Conns
      /\ \A p \in Procs : ~Writing(p) => frames[p] = <<>>
  BY DEF TypeInv, TypeOK, ProcsOK, NetOK, FieldsOK, ControlInv
<1>2. \A p \in Procs : ~Writing(p) => KeysHeld(p) = {}
  <2>1. ToSet(<<>>) = {}
    BY DEF ToSet
  <2> QED
    BY <1>1, <2>1, KeysMember
<1>3. ASSUME \A c \in Conns : Serves(c)' => Serves(c),
             \A k \in ToSet(buffer') : k \in ToSet(buffer), UNCHANGED <<wire, frames, to>>
      PROVE  AllCovered'
  <2>1. \A c \in Conns : KeysOn(c)' = KeysOn(c)
    BY <1>3, KeysKept
  <2>2. \A p \in Procs : KeysHeld(p)' = KeysHeld(p) /\ to'[p] = to[p]
    BY <1>3, KeysKept
  <2>3. \A c \in Conns : \A k : Covered(c, k)' <=> Covered(c, k)
    BY <2>1, <2>2 DEF Covered
  <2> QED
    BY <1>3, <2>3 DEF AllCovered
<1>4. CASE UNCHANGED deliveryVars
  BY <1>3, <1>4 DEF deliveryVars, procVars, netVars, Serves
<1>5. CASE Hold
  <2>1. \A c \in Conns : ~Serves(c)'
    BY <1>5, ConnsAssumption, Zenon DEF Hold, OnEventHold, OnEventResume, Serves
  <2> QED
    BY <2>1 DEF AllCovered
<1>6. CASE OnEventDeliver
  <2>1. PICK c \in Conns : c = sink
    BY <1>6 DEF OnEventDeliver, TypeInv, TypeOK, FieldsOK
  <2>2. UNCHANGED <<wire, broken, sink, settled>>
    BY <1>6, Zenon DEF OnEventDeliver, netVars
  <2>3. Buffered /\ Deliver(Reader, c, <<nextKey>>) /\ pc[Reader] = "idle"
    BY <1>6, <2>1 DEF OnEventDeliver, Buffered
  <2>4. ToSet(buffer') = ToSet(buffer) \cup {nextKey}
    BY <2>3, BufferedEffect DEF TypeInv, TypeOK
  <2>5. <<nextKey>> \in Seq(Nat) /\ nextKey \in ToSet(<<nextKey>>)
    BY <1>1 DEF ToSet
  <2>6. /\ to'[Reader] = c /\ nextKey \in KeysHeld(Reader)'
        /\ \A q \in Procs \ {Reader} : to'[q] = to[q] /\ KeysHeld(q)' = KeysHeld(q)
        /\ KeysHeld(Reader) = {} /\ \A d \in Conns : KeysOn(d)' = KeysOn(d)
    BY <1>2, <2>2, <2>3, <2>5, ProcFacts, DeliveryHolds, KeysKept DEF Writing
  <2>7. \A k : Covered(c, k) \/ k = nextKey => Covered(c, k)'
    BY <2>6, ProcFacts DEF Covered
  <2>8. \A d \in Conns : Serves(d)' => Serves(d) /\ d = c
    BY <2>1, <2>2 DEF Serves
  <2> QED
    BY <2>4, <2>7, <2>8 DEF AllCovered
<1>7. ASSUME NEW p \in Procs, Writing(p), Finish(p), UNCHANGED <<wire, sink, settled, to, buffer>>,
             \A c \in Conns : broken[c] = TRUE => broken'[c] = TRUE,
             \A c \in Conns : to[p] = c => frames[p] = <<>> \/ sink # c \/ broken'[c] = TRUE
      PROVE  AllCovered'
  <2>1. \A q \in Procs \ {p} : frames'[q] = frames[q]
    BY <1>1, <1>7 DEF Finish
  <2>2. /\ \A c \in Conns : KeysOn(c)' = KeysOn(c)
        /\ \A q \in Procs \ {p} : KeysHeld(q)' = KeysHeld(q)
        /\ frames[p] = <<>> => KeysHeld(p) = {}
    <3>1. ToSet(<<>>) = {}
      BY DEF ToSet
    <3> QED
      BY <1>7, <2>1, <3>1, KeysKept, KeysMember
  <2>3. ASSUME NEW c \in Conns, Serves(c)', NEW k, Covered(c, k) PROVE Covered(c, k)'
    <3>1. to[p] = c => KeysHeld(p) = {}
      BY <1>7, <2>2, <2>3 DEF Serves
    <3> QED
      BY <1>7, <2>2, <2>3, <3>1 DEF Covered
  <2>4. \A c \in Conns : Serves(c)' => Serves(c)
    BY <1>7 DEF Serves
  <2> QED
    BY <1>7, <2>3, <2>4 DEF AllCovered
<1>8. ASSUME NEW p \in Procs, Check(p) PROVE AllCovered'
  <2>1. UNCHANGED <<wire, broken, sink, settled, to, buffer>> /\ Writing(p)
    BY <1>8, Zenon DEF Check, Writing, sessionVars, netVars
  <2>2. CASE Finish(p) /\ (frames[p] = <<>> \/ sink # to[p])
    BY <1>7, <2>1, <2>2
  <2>3. CASE frames' = frames
    BY <1>3, <2>1, <2>3 DEF Serves
  <2> QED
    BY <1>8, <2>2, <2>3 DEF Check
<1>9. ASSUME NEW p \in Procs, WriteErr(p) PROVE AllCovered'
  <2>1. /\ UNCHANGED <<wire, sink, settled, to, buffer>> /\ Writing(p) /\ Finish(p)
        /\ broken' = [broken EXCEPT ![to[p]] = TRUE]
    BY <1>9, Zenon DEF WriteErr, Writing, sessionVars
  <2>2. PICK c \in Conns : c = to[p]
    BY <1>1, <2>1
  <2>3. broken'[c] = TRUE /\ \A d \in Conns : broken[d] = TRUE => broken'[d] = TRUE
    BY <1>1, <2>1, <2>2
  <2> QED
    BY <1>7, <2>1, <2>2, <2>3
<1>10. ASSUME NEW p \in Procs, WriteOk(p) PROVE AllCovered'
  <2>1. PICK c \in Conns : c = to[p]
    BY <1>10, SentWrite
  <2>2. /\ ToSet(frames[p]) = {Head(frames[p])} \cup ToSet(frames'[p])
        /\ ToSet(wire'[c]) = ToSet(wire[c]) \cup {Head(frames[p])}
        /\ \A q \in Procs \ {p} : frames'[q] = frames[q]
        /\ \A d \in Conns \ {c} : wire'[d] = wire[d]
    BY <1>10, <2>1, SentWrite
  <2>3. UNCHANGED <<broken, sink, settled, to, buffer>>
    BY <1>10, Zenon DEF WriteOk, sessionVars
  <2>4. \A k : /\ k \in KeysHeld(p) => k \in KeysHeld(p)' \/ k \in KeysOn(c)'
               /\ k \in KeysOn(c) => k \in KeysOn(c)'
    BY <2>2, KeysMember
  <2>5. /\ \A q \in Procs \ {p} : KeysHeld(q)' = KeysHeld(q)
        /\ \A d \in Conns \ {c} : KeysOn(d)' = KeysOn(d)
    BY <2>2, KeysKept
  <2>6. \A d \in Conns : \A k : Covered(d, k) => Covered(d, k)'
    BY <2>1, <2>3, <2>4, <2>5 DEF Covered
  <2> QED
    BY <2>3, <2>6 DEF AllCovered, Serves
<1>11. ASSUME NEW c \in Conns, NEW p \in Procs, Batch(p, c) PROVE AllCovered'
  <2>1. CASE BatchDelivers(p, c)
    <3>1. /\ UNCHANGED <<wire, broken, sink, buffer>> /\ sink = c /\ Deliver(p, c, buffer)
      BY <2>1 DEF BatchDelivers, netVars
    <3>2. to'[p] = c /\ \A k \in ToSet(buffer) : k \in KeysHeld(p)'
      BY <1>1, <3>1, DeliveryHolds
    <3>3. \A k \in ToSet(buffer') : Covered(c, k)'
      BY <3>1, <3>2 DEF Covered
    <3>4. \A d \in Conns : Serves(d)' => d = c
      BY <3>1 DEF Serves
    <3> QED
      BY <3>3, <3>4 DEF AllCovered
  <2>2. CASE BatchSkips(p, c)
    BY <1>3, <2>2 DEF BatchSkips, netVars, Serves
  <2> QED
    BY <1>11, <2>1, <2>2, BatchCases
<1>12. ASSUME NEW p \in Procs, NoteActivity(p) PROVE AllCovered'
  <2>1. UNCHANGED <<wire, broken, frames, to, sink, settled, buffer>>
    BY <1>12, Zenon DEF NoteActivity, netVars
  <2> QED
    BY <1>3, <2>1 DEF Serves
<1>13. ASSUME NEW c \in Conns, Attach(c) PROVE AllCovered'
  <2>1. settled' = FALSE
    BY <1>13, Zenon DEF Attach, AdoptSink
  <2> QED
    BY <2>1 DEF AllCovered, Serves
<1>14. ASSUME NEW c \in Conns, ArmFallback(c) \/ FallbackFires(c) PROVE AllCovered'
  <2>1. UNCHANGED <<wire, broken, frames, to, sink, settled, buffer>>
    BY <1>14, Zenon DEF ArmFallback, FallbackFires, sessionVars, netVars
  <2> QED
    BY <1>3, <2>1 DEF Serves
<1>15. ASSUME NEW c \in Conns, Ack(c) PROVE AllCovered'
  <2>1. UNCHANGED <<wire, broken, frames, to, sink, settled>>
    BY <1>15, Zenon DEF Ack, procVars, netVars
  <2>2. PICK f : AckFrame(f)
    BY <1>15, Zenon DEF Ack
  <2>3. \A k \in ToSet(buffer') : k \in ToSet(buffer)
    BY <2>2, AckEffect DEF TypeInv, TypeOK
  <2> QED
    BY <1>3, <2>1, <2>3 DEF Serves
<1>16. ASSUME NEW c \in Conns, Detach(c) PROVE AllCovered'
  <2>1. /\ UNCHANGED <<wire, broken, frames, to, buffer>>
        /\ UNCHANGED <<sink, settled>> \/ sink' = NoConn
    BY <1>16, Zenon DEF Detach, netVars
  <2> QED
    BY <1>3, <2>1, ConnsAssumption DEF Serves
<1>17. ASSUME NEW c \in Conns, CloseConn(c) PROVE AllCovered'
  <2>1. /\ UNCHANGED <<wire, frames, to, buffer, sink, settled>>
        /\ broken' = [broken EXCEPT ![c] = TRUE]
    BY <1>17, Zenon DEF CloseConn, sessionVars
  <2>2. \A d \in Conns : broken[d] = TRUE => broken'[d] = TRUE
    BY <1>1, <2>1
  <2> QED
    BY <1>3, <2>1, <2>2 DEF Serves
<1> QED
  BY <1>4, <1>5, <1>6, <1>8, <1>9, <1>10, <1>11, <1>12, <1>13, <1>14, <1>15, <1>16, <1>17, NextCases

\* No event is left behind between the batch of deliverBufferedNow and the direct
\* delivery of onEvent: on a settled connection that takes frames, every unacked
\* event is on the wire or in the hands of a goroutine writing to it.
THEOREM AlwaysComplete == Spec => []SettledComplete
<1>1. Init => AllCovered
  BY ConnsAssumption DEF Init, AllCovered, Serves
<1>2. TypeInv /\ AllCovered => SettledComplete
  BY CompleteForm DEF TypeInv, TypeOK, AllCovered
<1> QED
  BY <1>1, <1>2, CompleteStep, TypeInvariant, PTL DEF Spec

-----------------------------------------------------------------------------
(* The order of events on a connection.                                    *)

\* Event y was written to connection c after event x.
Precedes(c, x, y) ==
  \E i, j \in DOMAIN wire[c] :
    /\ i < j
    /\ wire[c][i] \in EventFrames /\ wire[c][i].key = x
    /\ wire[c][j] \in EventFrames /\ wire[c][j].key = y

\* Writing event h next leaves no event between two of the same batch.
Fits(c, h) ==
  \A x, y \in KeysOn(c) : Precedes(c, x, y) => ~(x < h /\ h < y) /\ ~(h < y /\ y < x)

\* Live events overtake the batch of deliverBufferedNow as a whole or not at all: when
\* z comes after the newer y, everything before y was live too, and in order.
OvertakenWhole ==
  \A c \in Conns : \A x, y, z \in KeysOn(c) :
    (Precedes(c, x, y) /\ Precedes(c, y, z) /\ z < y) => z < x /\ x < y

\* One batch at a time is on its way to a connection, and each of its events fits; a
\* connection sees no event twice.
OrderInv ==
  /\ HandedInOrder
  /\ \A c \in Conns : \A x \in KeysOn(c) : ~Precedes(c, x, x)
  /\ \A p, q \in Procs \ {Reader} :
       (to[p] = to[q] /\ KeysHeld(p) # {} /\ KeysHeld(q) # {}) => p = q
  /\ \A c \in Conns, p \in Procs \ {Reader} : to[p] = c => \A h \in KeysHeld(p) : Fits(c, h)
  /\ OvertakenWhole

LEMMA KeysAreNat ==
  /\ \A c : KeysOn(c) \subseteq Nat /\ KeysOn(c)' \subseteq Nat
  /\ \A p : KeysHeld(p) \subseteq Nat /\ KeysHeld(p)' \subseteq Nat
BY KeysMember DEF EventFrames

\* The order on a wire nobody writes to.
LEMMA PrecedesKept ==
  ASSUME NEW c, wire'[c] = wire[c]
  PROVE  \A x, y : Precedes(c, x, y)' <=> Precedes(c, x, y)
BY DEF Precedes

LEMMA FitsKept ==
  ASSUME NEW c, wire'[c] = wire[c], NEW h, Fits(c, h)
  PROVE  Fits(c, h)'
<1>1. KeysOn(c)' = KeysOn(c)
  BY KeysKept
<1> QED
  BY <1>1, PrecedesKept DEF Fits

LEMMA OvertakenKept ==
  ASSUME OrderInv, UNCHANGED wire
  PROVE  /\ OvertakenWhole'
         /\ \A c \in Conns : \A x \in KeysOn(c)' : ~Precedes(c, x, x)'
<1>1. \A c \in Conns : KeysOn(c)' = KeysOn(c)
  BY KeysKept
<1>2. \A c \in Conns : \A x, y : Precedes(c, x, y)' <=> Precedes(c, x, y)
  BY PrecedesKept
<1> QED
  BY <1>1, <1>2 DEF OrderInv, OvertakenWhole

\* What a written frame adds to the order: it comes after all others.
LEMMA PrecedesWrite ==
  ASSUME TypeInv, NEW p \in Procs, WriteOk(p), NEW c \in Conns, c = to[p],
         NEW x, NEW y, Precedes(c, x, y)'
  PROVE  \/ Precedes(c, x, y)
         \/ /\ Head(frames[p]) \in EventFrames /\ y = Head(frames[p]).key
            /\ x \in KeysOn(c)
<1> DEFINE h == Head(frames[p])
           n == Len(wire[c])
<1>1. wire[c] \in Seq(Frames) /\ h \in Frames
  BY SentWrite DEF TypeInv, TypeOK, NetOK
<1>2. wire'[c] = Append(wire[c], h)
  BY DEF WriteOk, TypeInv, TypeOK, NetOK
<1>3. /\ n \in Nat /\ DOMAIN wire[c] = 1..n /\ DOMAIN wire'[c] = 1..(n + 1)
      /\ \A i \in 1..n : wire'[c][i] = wire[c][i]
      /\ wire'[c][n + 1] = h
  BY <1>1, <1>2
<1> HIDE DEF h, n
<1>4. PICK i \in 1..(n + 1), j \in 1..(n + 1) :
        /\ i < j
        /\ wire'[c][i] \in EventFrames /\ wire'[c][i].key = x
        /\ wire'[c][j] \in EventFrames /\ wire'[c][j].key = y
  BY <1>3 DEF Precedes
<1>5. i \in 1..n /\ wire[c][i] \in EventFrames /\ wire[c][i].key = x
  BY <1>3, <1>4
<1>6. x \in KeysOn(c)
  BY <1>3, <1>5, KeysMember DEF ToSet
<1>7. CASE j = n + 1
  BY <1>3, <1>4, <1>6, <1>7 DEF h
<1>8. CASE j \in 1..n
  BY <1>3, <1>4, <1>5, <1>8 DEF Precedes
<1> QED
  BY <1>3, <1>4, <1>7, <1>8

LEMMA PrecedesIsOn ==
  ASSUME NEW c, NEW x, NEW y, Precedes(c, x, y)
  PROVE  x \in KeysOn(c) /\ y \in KeysOn(c)
BY KeysMember DEF Precedes, ToSet

\* The frames of a list have increasing keys.
Rising(s) == \A i, j \in DOMAIN s : i < j => s[i].key < s[j].key

\* A step that writes nothing and hands out no event keeps the order: whoever keeps
\* events keeps sinkWrite if it had it.
LEMMA QuietKeepsOrder ==
  ASSUME OrderInv, UNCHANGED wire,
         \A p \in Procs : \/ /\ frames'[p] = frames[p] /\ to'[p] = to[p]
                             /\ sinkWrite = p => sinkWrite' = p
                          \/ frames'[p] \in {<<>>, <<HelloFrame>>}
  PROVE  OrderInv'
<1>1. \A c \in Conns : KeysOn(c)' = KeysOn(c)
  BY KeysKept
<1>2. \A p \in Procs : \/ KeysHeld(p)' = {}
                       \/ /\ KeysHeld(p)' = KeysHeld(p) /\ to'[p] = to[p]
                          /\ sinkWrite = p => sinkWrite' = p
  BY KeysKept
<1>3. \A p \in Procs : Rising(frames'[p])
  <2>1. Rising(<<>>) /\ Rising(<<HelloFrame>>)
    BY DEF Rising
  <2>2. \A p \in Procs : Rising(frames[p])
    BY DEF OrderInv, HandedInOrder, Rising
  <2> QED
    BY <2>1, <2>2
<1>4. \A p \in Procs \ {Reader} : to'[p] = to'[Reader] =>
        \A h \in KeysHeld(p)', k \in KeysHeld(Reader)' : h < k
  BY <1>2, ProcFacts DEF OrderInv, HandedInOrder
<1>5. \A c \in Conns, p \in Procs : to'[p] = c =>
        \A h \in KeysHeld(p)', k \in KeysOn(c)' :
          /\ p = Reader => k < h
          /\ (p # Reader /\ sinkWrite' # p) => h < k
  BY <1>1, <1>2 DEF OrderInv, HandedInOrder
<1>6. \A p, q \in Procs \ {Reader} :
        (to'[p] = to'[q] /\ KeysHeld(p)' # {} /\ KeysHeld(q)' # {}) => p = q
  BY <1>2 DEF OrderInv
<1>7. ASSUME NEW c \in Conns, NEW p \in Procs \ {Reader}, to'[p] = c, NEW h \in KeysHeld(p)'
      PROVE  Fits(c, h)'
  BY <1>2, <1>7, FitsKept DEF OrderInv
<1> QED
  BY <1>3, <1>4, <1>5, <1>6, <1>7, OvertakenKept DEF OrderInv, HandedInOrder, Rising

\* What a process holds after Deliver.
LEMMA DeliverKeys ==
  ASSUME TypeInv, UNCHANGED wire, NEW p \in Procs, NEW c \in Conns,
         NEW keys \in Seq(Nat), Deliver(p, c, keys),
         \A i, j \in DOMAIN keys : i < j => keys[i] < keys[j]
  PROVE  /\ to'[p] = c /\ Rising(frames'[p]) /\ KeysHeld(p)' \subseteq ToSet(keys)
         /\ \A q \in Procs \ {p} : /\ to'[q] = to[q] /\ frames'[q] = frames[q]
                                   /\ KeysHeld(q)' = KeysHeld(q)
         /\ \A d \in Conns : KeysOn(d)' = KeysOn(d)
<1>1. /\ frames'[p] = Stamped(keys, nextID) /\ to'[p] = c
      /\ \A q \in Procs \ {p} : frames'[q] = frames[q] /\ to'[q] = to[q]
  BY DeliverEffect DEF TypeInv, TypeOK
<1>2. nextID \in Nat /\ DOMAIN keys = 1..Len(keys)
  BY DEF TypeInv, TypeOK, FieldsOK
<1>3. /\ DOMAIN Stamped(keys, nextID) = 1..Len(keys)
      /\ \A i \in 1..Len(keys) : Stamped(keys, nextID)[i] = EventFrame(nextID + i, keys[i])
  BY <1>2, StampedFrames
<1>4. \A i \in 1..Len(keys) : frames'[p][i].key = keys[i]
  <2>1. \A n, k : EventFrame(n, k).key = k
    BY DEF EventFrame
  <2>2. ASSUME NEW i \in 1..Len(keys) PROVE frames'[p][i].key = keys[i]
    <3>1. frames'[p][i] = EventFrame(nextID + i, keys[i])
      BY <1>1, <1>3
    <3>2. EventFrame(nextID + i, keys[i]).key = keys[i]
      BY <2>1
    <3> QED
      BY <3>1, <3>2
  <2> QED
    BY <2>2
<1>5. DOMAIN frames'[p] = 1..Len(keys)
  BY <1>1, <1>3
<1>6. Rising(frames'[p])
  BY <1>2, <1>4, <1>5, Zenon DEF Rising
<1>7. KeysHeld(p)' \subseteq ToSet(keys)
  <2>1. ASSUME NEW x \in ToSet(frames'[p]) PROVE x.key \in ToSet(keys)
    BY <1>2, <1>4, <1>5, <2>1 DEF ToSet
  <2> QED
    BY <2>1, KeysMember
<1> QED
  BY <1>1, <1>6, <1>7, KeysKept

\* onEvent hands the reader the newest event there is.
LEMMA LiveKeepsOrder ==
  ASSUME TypeInv, StampInv, OrderInv, OnEventDeliver
  PROVE  OrderInv'
<1>1. PICK c \in Conns : c = sink
  BY DEF OnEventDeliver, TypeInv, TypeOK, FieldsOK
<1>2. UNCHANGED <<wire, sinkWrite>> /\ Deliver(Reader, c, <<nextKey>>)
  BY <1>1 DEF OnEventDeliver, netVars
<1>3. /\ nextKey \in Nat /\ <<nextKey>> \in Seq(Nat) /\ ToSet(<<nextKey>>) = {nextKey}
      /\ \A i, j \in DOMAIN <<nextKey>> : i < j => <<nextKey>>[i] < <<nextKey>>[j]
  BY DEF TypeInv, TypeOK, FieldsOK, ToSet
<1>4. \A f \in Sent : f.key \in Nat /\ f.key < nextKey
  BY SentMember DEF StampInv, EventFrames
<1>5. /\ \A d \in Conns : \A k \in KeysOn(d) : k < nextKey
      /\ \A q \in Procs : \A k \in KeysHeld(q) : k < nextKey
  BY <1>4, KeysMember, SentMember
<1>6. PICK keys \in Seq(Nat) : keys = <<nextKey>>
  BY <1>3
<1>7. /\ to'[Reader] = c /\ Rising(frames'[Reader]) /\ KeysHeld(Reader)' \subseteq {nextKey}
      /\ \A q \in Procs \ {Reader} : /\ to'[q] = to[q] /\ frames'[q] = frames[q]
                                     /\ KeysHeld(q)' = KeysHeld(q)
      /\ \A d \in Conns : KeysOn(d)' = KeysOn(d)
  BY <1>2, <1>3, <1>6, ProcFacts, DeliverKeys
<1>8. \A p \in Procs : Rising(frames'[p])
  BY <1>7 DEF OrderInv, HandedInOrder, Rising
<1>9. \A p \in Procs \ {Reader} : to'[p] = to'[Reader] =>
        \A h \in KeysHeld(p)', k \in KeysHeld(Reader)' : h < k
  BY <1>5, <1>7
<1>10. \A d \in Conns, p \in Procs : to'[p] = d =>
         \A h \in KeysHeld(p)', k \in KeysOn(d)' :
           /\ p = Reader => k < h
           /\ (p # Reader /\ sinkWrite' # p) => h < k
  BY <1>2, <1>5, <1>7 DEF OrderInv, HandedInOrder
<1>11. \A p, q \in Procs \ {Reader} :
         (to'[p] = to'[q] /\ KeysHeld(p)' # {} /\ KeysHeld(q)' # {}) => p = q
  BY <1>7 DEF OrderInv
<1>12. ASSUME NEW d \in Conns, NEW p \in Procs \ {Reader}, to'[p] = d, NEW h \in KeysHeld(p)'
       PROVE  Fits(d, h)'
  BY <1>2, <1>7, <1>12, FitsKept DEF OrderInv
<1>13. OvertakenWhole' /\ \A d \in Conns : \A x \in KeysOn(d)' : ~Precedes(d, x, x)'
  BY <1>2, OvertakenKept
<1> QED
  BY <1>8, <1>9, <1>10, <1>11, <1>12, <1>13 DEF OrderInv, HandedInOrder, Rising

\* deliverBufferedNow hands out a batch for a connection that has seen no event and
\* for which nobody else holds one.
LEMMA BatchKeepsOrder ==
  ASSUME TypeInv, OnceInv, OrderInv, NEW p \in Procs, NEW c \in Conns, BatchDelivers(p, c)
  PROVE  OrderInv'
<1>1. /\ UNCHANGED <<wire, sinkWrite>> /\ Deliver(p, c, buffer)
      /\ sink = c /\ ~settled /\ p # Reader
  BY ProcFacts DEF BatchDelivers, Batch, netVars
<1>2. buffer \in Seq(Nat) /\ \A i, j \in DOMAIN buffer : i < j => buffer[i] < buffer[j]
  BY DEF TypeInv, TypeOK, FieldsOK, BufferOrdered
<1>3. KeysOn(c) = {} /\ \A q \in Procs : to[q] = c => KeysHeld(q) = {}
  BY <1>1 DEF OnceInv
<1>4. /\ to'[p] = c /\ Rising(frames'[p])
      /\ \A q \in Procs \ {p} : /\ to'[q] = to[q] /\ frames'[q] = frames[q]
                                /\ KeysHeld(q)' = KeysHeld(q)
      /\ \A d \in Conns : KeysOn(d)' = KeysOn(d)
  BY <1>1, <1>2, DeliverKeys
<1>5. KeysOn(c)' = {} /\ \A q \in Procs \ {p} : to'[q] = c => KeysHeld(q)' = {}
  BY <1>3, <1>4
<1>6. \A q \in Procs : Rising(frames'[q])
  BY <1>4 DEF OrderInv, HandedInOrder, Rising
<1>7. \A q \in Procs \ {Reader} : to'[q] = to'[Reader] =>
        \A h \in KeysHeld(q)', k \in KeysHeld(Reader)' : h < k
  BY <1>1, <1>4, <1>5, ProcFacts DEF OrderInv, HandedInOrder
<1>8. \A d \in Conns, q \in Procs : to'[q] = d =>
        \A h \in KeysHeld(q)', k \in KeysOn(d)' :
          /\ q = Reader => k < h
          /\ (q # Reader /\ sinkWrite' # q) => h < k
  BY <1>1, <1>4, <1>5 DEF OrderInv, HandedInOrder
<1>9. \A q, r \in Procs \ {Reader} :
        (to'[q] = to'[r] /\ KeysHeld(q)' # {} /\ KeysHeld(r)' # {}) => q = r
  BY <1>4, <1>5 DEF OrderInv
<1>10. ASSUME NEW d \in Conns, NEW q \in Procs \ {Reader}, to'[q] = d, NEW h \in KeysHeld(q)'
       PROVE  Fits(d, h)'
  <2>1. CASE q = p
    BY <1>4, <1>5, <1>10, <2>1 DEF Fits
  <2>2. CASE q # p
    BY <1>1, <1>4, <1>10, <2>2, FitsKept DEF OrderInv
  <2> QED
    BY <2>1, <2>2
<1>11. OvertakenWhole' /\ \A d \in Conns : \A x \in KeysOn(d)' : ~Precedes(d, x, x)'
  BY <1>1, OvertakenKept
<1> QED
  BY <1>6, <1>7, <1>8, <1>9, <1>10, <1>11 DEF OrderInv, HandedInOrder, Rising

\* What a written frame moves: its process holds only newer events afterwards.
LEMMA WriteKeys ==
  ASSUME TypeInv, OrderInv, NEW p \in Procs, WriteOk(p), NEW c \in Conns, c = to[p]
  PROVE  LET h == Head(frames[p]) IN
         /\ Rising(frames'[p]) /\ KeysHeld(p)' \subseteq KeysHeld(p)
         /\ h \in EventFrames => /\ h.key \in KeysHeld(p)
                                 /\ KeysOn(c)' = KeysOn(c) \cup {h.key}
                                 /\ \A k \in KeysHeld(p)' : h.key < k
         /\ h \notin EventFrames => KeysOn(c)' = KeysOn(c)
         /\ \A q \in Procs \ {p} : frames'[q] = frames[q] /\ KeysHeld(q)' = KeysHeld(q)
         /\ \A d \in Conns \ {c} : wire'[d] = wire[d] /\ KeysOn(d)' = KeysOn(d)
<1> DEFINE h == Head(frames[p])
           n == Len(frames[p])
<1>1. /\ frames[p] \in Seq(Frames) /\ frames[p] # <<>>
      /\ ToSet(frames[p]) = {h} \cup ToSet(frames'[p])
      /\ ToSet(wire'[c]) = ToSet(wire[c]) \cup {h}
      /\ \A q \in Procs \ {p} : frames'[q] = frames[q]
      /\ \A d \in Conns \ {c} : wire'[d] = wire[d]
  BY SentWrite
<1>2. frames'[p] = Tail(frames[p])
  BY DEF WriteOk, TypeInv, TypeOK, ProcsOK
<1>3. /\ n \in Nat /\ n > 0 /\ DOMAIN frames[p] = 1..n /\ h = frames[p][1]
      /\ DOMAIN frames'[p] = 1..(n - 1)
      /\ \A i \in 1..(n - 1) : frames'[p][i] = frames[p][i + 1]
  BY <1>1, <1>2
<1> HIDE DEF h, n
<1>4. \A i, j \in 1..n : i < j => frames[p][i].key < frames[p][j].key
  BY <1>3, Zenon DEF OrderInv, HandedInOrder
<1>5. Rising(frames'[p])
  <2>1. ASSUME NEW i \in 1..(n - 1), NEW j \in 1..(n - 1), i < j
        PROVE  frames'[p][i].key < frames'[p][j].key
    <3>1. i + 1 \in 1..n /\ j + 1 \in 1..n /\ i + 1 < j + 1
      BY <1>3, <2>1
    <3>2. frames[p][i + 1].key < frames[p][j + 1].key
      BY <1>4, <3>1
    <3>3. frames'[p][i] = frames[p][i + 1] /\ frames'[p][j] = frames[p][j + 1]
      BY <1>3
    <3> QED
      BY <3>2, <3>3
  <2> QED
    BY <1>3, <2>1 DEF Rising
<1>6. ASSUME NEW x \in ToSet(frames'[p]) PROVE h.key < x.key
  <2>1. PICK i \in 1..(n - 1) : x = frames[p][i + 1]
    BY <1>3 DEF ToSet
  <2>2. 1 \in 1..n /\ i + 1 \in 1..n /\ 1 < i + 1
    BY <1>3
  <2>3. frames[p][1].key < frames[p][i + 1].key
    BY <1>4, <2>2
  <2> QED
    BY <1>3, <2>1, <2>3
<1>7. KeysHeld(p)' \subseteq KeysHeld(p)
  BY <1>1, KeysMember
<1>8. ASSUME h \in EventFrames
      PROVE  /\ h.key \in KeysHeld(p)
             /\ KeysOn(c)' = KeysOn(c) \cup {h.key}
             /\ \A k \in KeysHeld(p)' : h.key < k
  BY <1>1, <1>6, <1>8, KeysMember
<1>9. ASSUME h \notin EventFrames PROVE KeysOn(c)' = KeysOn(c)
  <2>1. \A k : k \in KeysOn(c)' <=> k \in KeysOn(c)
    BY <1>1, <1>9, KeysMember
  <2> QED
    BY <2>1
<1>10. /\ \A q \in Procs \ {p} : KeysHeld(q)' = KeysHeld(q)
       /\ \A d \in Conns \ {c} : KeysOn(d)' = KeysOn(d)
  BY <1>1, KeysKept
<1> QED
  BY <1>1, <1>5, <1>7, <1>8, <1>9, <1>10 DEF h

\* A written event is the newest, from the reader, or fits, from a batch; either way
\* what is still held keeps its place, because nobody else writes meanwhile.
LEMMA WriteKeepsOrder ==
  ASSUME TypeInv, OnceInv, OneWriter, OrderInv, NEW p \in Procs, WriteOk(p)
  PROVE  OrderInv'
<1> DEFINE h == Head(frames[p])
           new == h.key
<1>0. PICK c \in Conns : c = to[p]
  BY SentWrite
<1>1. /\ Rising(frames'[p]) /\ KeysHeld(p)' \subseteq KeysHeld(p)
      /\ h \in EventFrames => /\ new \in KeysHeld(p)
                              /\ KeysOn(c)' = KeysOn(c) \cup {new}
                              /\ \A k \in KeysHeld(p)' : new < k
      /\ h \notin EventFrames => KeysOn(c)' = KeysOn(c)
      /\ \A q \in Procs \ {p} : frames'[q] = frames[q] /\ KeysHeld(q)' = KeysHeld(q)
      /\ \A d \in Conns \ {c} : wire'[d] = wire[d] /\ KeysOn(d)' = KeysOn(d)
  BY <1>0, WriteKeys
<1>2. sinkWrite = p /\ sinkWrite' = p /\ to' = to
  BY DEF WriteOk, OneWriter
<1>3. h \in EventFrames => new \notin KeysOn(c) /\ new \in Nat
  BY <1>0, WriteKeepsOnce DEF EventFrames
<1>4. \A x, y : Precedes(c, x, y)' =>
        \/ Precedes(c, x, y) /\ x \in KeysOn(c) /\ y \in KeysOn(c)
        \/ h \in EventFrames /\ y = new /\ x \in KeysOn(c)
  BY <1>0, PrecedesWrite, PrecedesIsOn
<1> HIDE DEF h, new
<1>5. \A q \in Procs : Rising(frames'[q])
  BY <1>1 DEF OrderInv, HandedInOrder, Rising
<1>6. \A q \in Procs \ {Reader} : to'[q] = to'[Reader] =>
        \A g \in KeysHeld(q)', k \in KeysHeld(Reader)' : g < k
  <2>1. \A q \in Procs : KeysHeld(q)' \subseteq KeysHeld(q)
    BY <1>1
  <2> QED
    BY <1>2, <2>1, ProcFacts DEF OrderInv, HandedInOrder
\* The new event against what the others hold for c, and what p holds.
<1>7. ASSUME h \in EventFrames, NEW q \in Procs, to[q] = c, NEW g \in KeysHeld(q)'
      PROVE  /\ q = Reader => new < g
             /\ q \notin {p, Reader} => p = Reader /\ g < new /\ \A k \in KeysOn(c) : g < k
  <2>1. CASE q = p
    BY <1>1, <1>7, <2>1
  <2>2. CASE q # p /\ q = Reader
    BY <1>0, <1>1, <1>7, <2>2, ProcFacts DEF OrderInv, HandedInOrder
  <2>3. CASE q \notin {p, Reader}
    <3>1. g \in KeysHeld(q) /\ new \in KeysHeld(p) /\ to[p] = to[q]
      BY <1>0, <1>1, <1>7, <2>3
    <3>2. p = Reader
      BY <2>3, <3>1 DEF OrderInv
    <3>3. g < new
      BY <1>7, <2>3, <3>1, <3>2 DEF OrderInv, HandedInOrder
    <3>4. \A k \in KeysOn(c) : g < k
      BY <1>2, <1>7, <2>3, <3>1 DEF OrderInv, HandedInOrder
    <3> QED
      BY <2>3, <3>2, <3>3, <3>4
  <2> QED
    BY <2>1, <2>2, <2>3
<1>8. \A d \in Conns, q \in Procs : to'[q] = d =>
        \A g \in KeysHeld(q)', k \in KeysOn(d)' :
          /\ q = Reader => k < g
          /\ (q # Reader /\ sinkWrite' # q) => g < k
  <2> SUFFICES ASSUME NEW d \in Conns, NEW q \in Procs, to[q] = d,
                      NEW g \in KeysHeld(q)', NEW k \in KeysOn(d)'
               PROVE  /\ q = Reader => k < g
                      /\ (q # Reader /\ sinkWrite' # q) => g < k
    BY <1>2
  <2>1. g \in KeysHeld(q)
    BY <1>1
  <2>2. CASE k \in KeysOn(d)
    BY <1>2, <2>1, <2>2 DEF OrderInv, HandedInOrder
  <2>3. CASE k \notin KeysOn(d)
    <3>1. d = c /\ h \in EventFrames /\ k = new
      BY <1>1, <2>3
    <3> QED
      BY <1>2, <1>7, <3>1
  <2> QED
    BY <2>2, <2>3
<1>9. \A q, r \in Procs \ {Reader} :
        (to'[q] = to'[r] /\ KeysHeld(q)' # {} /\ KeysHeld(r)' # {}) => q = r
  <2>1. \A q \in Procs : KeysHeld(q)' # {} => KeysHeld(q) # {}
    BY <1>1
  <2> QED
    BY <1>2, <2>1 DEF OrderInv
<1>10. ASSUME NEW d \in Conns, NEW q \in Procs \ {Reader}, to'[q] = d, NEW g \in KeysHeld(q)'
       PROVE  Fits(d, g)'
  <2>1. to[q] = d /\ g \in KeysHeld(q) /\ Fits(d, g)
    BY <1>1, <1>2, <1>10 DEF OrderInv
  <2>2. CASE d # c
    BY <1>1, <2>1, <2>2, FitsKept
  <2>3. CASE d = c
    <3> SUFFICES ASSUME NEW x \in KeysOn(c)', NEW y \in KeysOn(c)', Precedes(c, x, y)'
                 PROVE  ~(x < g /\ g < y) /\ ~(g < y /\ y < x)
      BY <2>3 DEF Fits
    <3>1. CASE Precedes(c, x, y) /\ x \in KeysOn(c) /\ y \in KeysOn(c)
      BY <2>1, <2>3, <3>1 DEF Fits
    <3>2. CASE h \in EventFrames /\ y = new /\ x \in KeysOn(c)
      <4>1. x \in Nat /\ y \in Nat /\ g \in Nat
        BY <1>3, <1>10, <3>2, KeysAreNat
      <4>2. CASE q = p
        <5>1. new < g
          BY <1>1, <1>10, <3>2, <4>2
        <5> QED
          BY <3>2, <4>1, <5>1
      <4>3. CASE q # p
        <5>1. p = Reader /\ g < new /\ g < x
          BY <1>7, <1>10, <2>1, <2>3, <3>2, <4>3
        <5>2. x < new
          BY <1>0, <1>1, <3>2, <5>1 DEF OrderInv, HandedInOrder
        <5> QED
          BY <3>2, <4>1, <5>1, <5>2
      <4> QED
        BY <4>2, <4>3
    <3> QED
      BY <1>4, <3>1, <3>2
  <2> QED
    BY <2>2, <2>3
<1>11. OvertakenWhole'
  <2> SUFFICES ASSUME NEW d \in Conns,
                      NEW x \in KeysOn(d)', NEW y \in KeysOn(d)', NEW z \in KeysOn(d)',
                      Precedes(d, x, y)', Precedes(d, y, z)', z < y
               PROVE  z < x /\ x < y
    BY DEF OvertakenWhole
  <2>1. CASE d # c
    <3>1. KeysOn(d)' = KeysOn(d) /\ Precedes(d, x, y) /\ Precedes(d, y, z)
      BY <1>1, <2>1, PrecedesKept
    <3> QED
      BY <3>1 DEF OrderInv, OvertakenWhole
  <2>2. CASE d = c
    <3>1. y \in KeysOn(c) /\ x \in KeysOn(c)
      BY <1>4, <2>2
    <3>2. Precedes(c, x, y)
      BY <1>3, <1>4, <2>2, <3>1
    <3>3. CASE Precedes(c, y, z) /\ z \in KeysOn(c)
      BY <3>1, <3>2, <3>3 DEF OrderInv, OvertakenWhole
    <3>4. CASE h \in EventFrames /\ z = new
      <4>1. x \in Nat /\ y \in Nat /\ z \in Nat /\ x # z
        BY <1>3, <3>1, <3>4, KeysAreNat
      <4>2. p # Reader
        <5>1. p = Reader => y < new
          BY <1>0, <1>1, <3>1, <3>4 DEF OrderInv, HandedInOrder
        <5> QED
          BY <3>4, <4>1, <5>1
      <4>3. Fits(c, z)
        BY <1>0, <1>1, <3>4, <4>2 DEF OrderInv
      <4>4. ~(x < z /\ z < y) /\ ~(z < y /\ y < x)
        BY <3>1, <3>2, <4>3 DEF Fits
      <4>5. x # y
        BY <3>1, <3>2 DEF OrderInv
      <4> QED
        BY <4>1, <4>4, <4>5
    <3> QED
      BY <1>4, <2>2, <3>3, <3>4
  <2> QED
    BY <2>1, <2>2
<1>12. ASSUME NEW d \in Conns, NEW x \in KeysOn(d)' PROVE ~Precedes(d, x, x)'
  <2>1. CASE d = c
    BY <1>3, <1>4, <2>1 DEF OrderInv
  <2>2. CASE d # c
    BY <1>1, <1>12, <2>2, PrecedesKept DEF OrderInv
  <2> QED
    BY <2>1, <2>2
<1> QED
  BY <1>5, <1>6, <1>8, <1>9, <1>10, <1>11, <1>12 DEF OrderInv, HandedInOrder, Rising

LEMMA OrderStep ==
  TypeInv /\ StampInv /\ OnceInv /\ OneWriter /\ OrderInv /\ [Next]_vars => OrderInv'
<1> SUFFICES ASSUME TypeInv, StampInv, OnceInv, OneWriter, OrderInv, [Next]_vars
             PROVE  OrderInv'
  OBVIOUS
<1> USE DEF deliveryVars, sessionVars, callVars, procVars, netVars
<1>1. ProcsOK /\ NoProc \notin Procs
  BY DEF TypeInv, TypeOK, NoProc, Procs, Reader, Handlers, Timers, Handler, Timer
<1>2. ASSUME UNCHANGED <<wire, frames, to, sinkWrite>> PROVE OrderInv'
  BY <1>2, QuietKeepsOrder
<1>3. CASE UNCHANGED deliveryVars \/ Hold
  BY <1>2, <1>3 DEF Hold, OnEventHold, OnEventResume
<1>4. CASE \E c \in Conns : ArmFallback(c) \/ FallbackFires(c) \/ Ack(c) \/ Detach(c) \/ CloseConn(c)
  BY <1>2, <1>4 DEF ArmFallback, FallbackFires, Ack, Detach, CloseConn
<1>5. ASSUME NEW p \in Procs, NoteActivity(p) PROVE OrderInv'
  BY <1>2, <1>5 DEF NoteActivity
<1>6. ASSUME NEW p \in Procs, NEW c \in Conns, Batch(p, c) PROVE OrderInv'
  BY <1>2, <1>6, BatchCases, BatchKeepsOrder DEF BatchSkips
<1>7. ASSUME NEW p \in Procs, Check(p) \/ WriteErr(p) PROVE OrderInv'
  <2>1. UNCHANGED <<wire, to>> /\ sinkWrite \in {NoProc, p}
    BY <1>7 DEF Check, WriteErr, LockFree, OneWriter
  <2>2. \/ frames' = frames /\ sinkWrite' = p
        \/ frames' = [frames EXCEPT ![p] = <<>>]
    BY <1>7 DEF Check, WriteErr, Finish
  <2>3. \A q \in Procs \ {p} : frames'[q] = frames[q] /\ sinkWrite # q
    BY <1>1, <2>1, <2>2 DEF ProcsOK
  <2>4. frames'[p] = <<>> \/ (frames'[p] = frames[p] /\ sinkWrite' = p)
    BY <1>1, <2>2 DEF ProcsOK
  <2> QED
    BY <2>1, <2>3, <2>4, QuietKeepsOrder
<1>8. ASSUME NEW c \in Conns, Attach(c) PROVE OrderInv'
  <2>1. UNCHANGED <<wire, sinkWrite>>
    BY <1>8 DEF Attach
  <2>2. /\ frames'[Handler(c)] = <<HelloFrame>>
        /\ \A q \in Procs \ {Handler(c)} : frames'[q] = frames[q] /\ to'[q] = to[q]
    BY <1>1, <1>8, ProcFacts DEF Attach, ProcsOK
  <2> QED
    BY <2>1, <2>2, QuietKeepsOrder
<1> QED
  BY <1>3, <1>4, <1>5, <1>6, <1>7, <1>8, LiveKeepsOrder, WriteKeepsOrder, NextCases

LEMMA OrderInvariant == Spec => []OrderInv
<1>1. Init => OrderInv
  <2> SUFFICES ASSUME Init PROVE OrderInv
    OBVIOUS
  <2>1. /\ \A c \in Conns : wire[c] = <<>>
        /\ \A p \in Procs : frames[p] = <<>>
        /\ ToSet(<<>>) = {}
    BY DEF Init, ToSet
  <2>2. /\ \A c \in Conns : KeysOn(c) = {}
        /\ \A p \in Procs : KeysHeld(p) = {} /\ DOMAIN frames[p] = {}
    BY <2>1, KeysMember
  <2> QED
    BY <2>2, ProcFacts DEF OrderInv, HandedInOrder, OvertakenWhole
<1> QED
  BY <1>1, OrderStep, DeliveryInvariant, AlwaysOneWriter, PTL DEF Spec

\* Each goroutine writes its events in the order they arrived, the reader's is newer
\* than all its connection sees, and only newer events get ahead of a batch that
\* waits for sinkWrite: for any number of events, connections and writers.
THEOREM AlwaysHandedInOrder == Spec => []HandedInOrder
<1>1. OrderInv => HandedInOrder
  BY DEF OrderInv
<1> QED
  BY <1>1, OrderInvariant, PTL

\* On every connection an event out of place belongs to a batch of deliverBufferedNow
\* that newer events overtook as a whole: none of them splits the batch, and the
\* batch and what overtook it are each in order.
THEOREM BatchNeverSplit == Spec => []OvertakenWhole
<1>1. OrderInv => OvertakenWhole
  BY DEF OrderInv
<1> QED
  BY <1>1, OrderInvariant, PTL
=============================================================================
