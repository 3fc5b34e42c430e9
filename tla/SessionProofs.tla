--------------------------- MODULE SessionProofs ---------------------------
(***************************************************************************)
(* Theorems about Session, for every set of connections and forwards and   *)
(* every bound.  The inductive invariant is a conjunction of named parts,  *)
(* each proved preserved by every action from the parts it needs.          *)
(***************************************************************************)
EXTENDS Session, SequenceTheorems, FiniteSetTheorems, TLAPS

-----------------------------------------------------------------------------
(* Processes are distinct.                                                 *)

\* The process names of different goroutines differ.
LEMMA ProcFacts ==
  /\ Reader \in Procs /\ Reader \notin Handlers /\ Reader \notin Timers
  /\ \A c \in Conns : /\ Handler(c) \in Procs /\ Handler(c) \in Handlers
                      /\ Timer(c) \in Procs /\ Timer(c) \notin Handlers
                      /\ Handler(c) # Reader /\ Timer(c) # Reader
  /\ \A c, d \in Conns : /\ Handler(c) = Handler(d) => c = d
                         /\ Timer(c) = Timer(d) => c = d
                         /\ Handler(c) # Timer(d)
  /\ \A p \in Procs : p = Reader \/ (\E c \in Conns : p = Handler(c))
                                 \/ (\E c \in Conns : p = Timer(c))
  /\ \A p \in Handlers : p \in Procs /\ \E c \in Conns : p = Handler(c)
BY DEF Reader, Handler, Timer, Handlers, Timers, Procs

-----------------------------------------------------------------------------
(* Sequences: what Ack's RemoveFirst does to an increasing buffer.         *)

Increasing(s) == \A i, j \in DOMAIN s : i < j => s[i] < s[j]

\* RemoveAt drops exactly the element at position i and shifts the rest.
LEMMA RemoveAtElements ==
  ASSUME NEW s \in Seq(Nat), NEW i \in 1..Len(s)
  PROVE  /\ RemoveAt(s, i) \in Seq(Nat)
         /\ Len(RemoveAt(s, i)) = Len(s) - 1
         /\ \A j \in 1..(Len(s) - 1) :
               RemoveAt(s, i)[j] = IF j < i THEN s[j] ELSE s[j + 1]
<1> DEFINE a == SubSeq(s, 1, i - 1)
           b == SubSeq(s, i + 1, Len(s))
<1>1. a \in Seq(Nat) /\ Len(a) = i - 1 /\ \A j \in 1..(i - 1) : a[j] = s[j]
  BY SubSeqProperties
<1>2. b \in Seq(Nat) /\ Len(b) = Len(s) - i /\ \A j \in 1..(Len(s) - i) : b[j] = s[i + j]
  BY SubSeqProperties
<1>3. RemoveAt(s, i) = a \o b
  BY DEF RemoveAt
<1> HIDE DEF a, b
<1>4. /\ a \o b \in Seq(Nat)
      /\ Len(a \o b) = Len(a) + Len(b)
      /\ \A j \in 1..(Len(a) + Len(b)) : (a \o b)[j] = IF j <= Len(a) THEN a[j] ELSE b[j - Len(a)]
  BY <1>1, <1>2, ConcatProperties
<1>5. Len(a) + Len(b) = Len(s) - 1
  BY <1>1, <1>2
<1>6. ASSUME NEW j \in 1..(Len(s) - 1)
      PROVE  (a \o b)[j] = IF j < i THEN s[j] ELSE s[j + 1]
  <2>0. i \in Nat /\ j \in Nat /\ Len(s) \in Nat /\ 1 <= j /\ j <= Len(s) - 1
    OBVIOUS
  <2>1. CASE j < i
    <3>1. (a \o b)[j] = a[j]
      BY <1>1, <1>4, <1>5, <2>0, <2>1
    <3>2. a[j] = s[j]
      BY <1>1, <2>0, <2>1
    <3> QED
      BY <2>1, <3>1, <3>2
  <2>2. CASE ~(j < i)
    <3>a. Len(a) = i - 1 /\ j \in 1..(Len(a) + Len(b)) /\ ~(j <= Len(a))
      BY <1>1, <1>5, <2>0, <2>2
    <3>1. (a \o b)[j] = b[j - (i - 1)]
      BY <1>4, <3>a
    <3>2. j - (i - 1) \in 1..(Len(s) - i) /\ i + (j - (i - 1)) = j + 1
      BY <2>0, <2>2
    <3>3. b[j - (i - 1)] = s[i + (j - (i - 1))]
      BY <1>2, <3>2
    <3>4. b[j - (i - 1)] = s[j + 1]
      BY <3>2, <3>3
    <3> QED
      BY <2>2, <3>1, <3>4
  <2> QED
    BY <2>1, <2>2
<1> QED
  BY <1>3, <1>4, <1>5, <1>6

\* In an increasing sequence RemoveFirst removes the only occurrence.
LEMMA RemoveFirstIncreasing ==
  ASSUME NEW s \in Seq(Nat), Increasing(s), NEW i \in 1..Len(s)
  PROVE  RemoveFirst(s, s[i]) = RemoveAt(s, i)
<1> DEFINE I == {j \in 1..Len(s) : s[j] = s[i]}
<1>1. I = {i}
  BY DEF Increasing
<1>2. Min(I) = i
  BY <1>1 DEF Min
<1>3. SelectInSeq(s, LAMBDA v : v = s[i]) = Min(I)
  BY <1>1 DEF SelectInSeq
<1>4. \E j \in 1..Len(s) : s[j] = s[i]
  OBVIOUS
<1> QED
  BY <1>2, <1>3, <1>4 DEF RemoveFirst

\* RemoveFirst keeps an increasing sequence increasing and removes one element
\* from its set of elements.
LEMMA RemoveFirstSet ==
  ASSUME NEW s \in Seq(Nat), Increasing(s), NEW e
  PROVE  /\ RemoveFirst(s, e) \in Seq(Nat)
         /\ Increasing(RemoveFirst(s, e))
         /\ ToSet(RemoveFirst(s, e)) = ToSet(s) \ {e}
<1>1. CASE \A i \in 1..Len(s) : s[i] # e
  <2>1. RemoveFirst(s, e) = s
    BY <1>1 DEF RemoveFirst
  <2>2. e \notin ToSet(s)
    BY <1>1 DEF ToSet
  <2> QED
    BY <2>1, <2>2
<1>2. CASE \E i \in 1..Len(s) : s[i] = e
  <2>1. PICK i \in 1..Len(s) : s[i] = e
    BY <1>2
  <2> DEFINE r == RemoveAt(s, i)
  <2>2. RemoveFirst(s, e) = r
    BY <2>1, RemoveFirstIncreasing
  <2>3. /\ r \in Seq(Nat)
        /\ Len(r) = Len(s) - 1
        /\ \A j \in 1..(Len(s) - 1) : r[j] = IF j < i THEN s[j] ELSE s[j + 1]
    BY RemoveAtElements
  <2> HIDE DEF r
  <2>a. DOMAIN r = 1..(Len(s) - 1) /\ DOMAIN s = 1..Len(s) /\ Len(s) \in Nat
    BY <2>3
  <2>4. Increasing(r)
    <3> SUFFICES ASSUME NEW m \in 1..(Len(s) - 1), NEW n \in 1..(Len(s) - 1), m < n
                 PROVE  r[m] < r[n]
      BY <2>a DEF Increasing
    <3>1. m \in DOMAIN s /\ n \in DOMAIN s /\ m + 1 \in DOMAIN s /\ n + 1 \in DOMAIN s
      BY <2>a
    <3>2. s[m] < s[n] /\ s[m] < s[n + 1] /\ s[m + 1] < s[n + 1]
      <4>1. m < n + 1 /\ m + 1 < n + 1
        BY <2>a
      <4> QED
        BY <3>1, <4>1, Zenon DEF Increasing
    <3>3. r[m] = (IF m < i THEN s[m] ELSE s[m + 1]) /\ r[n] = (IF n < i THEN s[n] ELSE s[n + 1])
      BY <2>3
    <3>4. i \in Nat /\ m \in Nat /\ n \in Nat
      BY <2>a
    <3>5. CASE n < i
      BY <3>2, <3>3, <3>4, <3>5
    <3>6. CASE ~(n < i) /\ m < i
      BY <3>2, <3>3, <3>4, <3>6
    <3>7. CASE ~(n < i) /\ ~(m < i)
      BY <3>2, <3>3, <3>4, <3>7
    <3> QED
      BY <3>5, <3>6, <3>7
  <2>5. ASSUME NEW x \in ToSet(r) PROVE x \in ToSet(s) \ {e}
    <3>1. PICK j \in 1..(Len(s) - 1) : x = r[j]
      BY <2>a DEF ToSet
    <3>2. PICK m \in 1..Len(s) : x = s[m] /\ m # i
      <4>1. CASE j < i
        <5>1. Len(s) \in Nat
          BY <2>a
        <5>2. j \in 1..Len(s) /\ j # i
          BY <4>1, <5>1
        <5>3. r[j] = s[j]
          BY <2>3, <4>1
        <5> QED
          BY <3>1, <5>2, <5>3
      <4>2. CASE j >= i
        <5>1. j + 1 \in 1..Len(s) /\ r[j] = s[j + 1] /\ j + 1 # i
          BY <2>3, <4>2
        <5> QED
          BY <3>1, <5>1
      <4> QED
        BY <4>1, <4>2
    <3>3. s[m] # s[i]
      <4>1. m < i \/ i < m
        BY <3>2
      <4>2. s[m] \in Nat /\ s[i] \in Nat
        BY <3>2
      <4>3. s[m] < s[i] \/ s[i] < s[m]
        BY <2>a, <4>1, Zenon DEF Increasing
      <4> QED
        BY <4>2, <4>3
    <3> QED
      BY <2>1, <2>a, <3>2, <3>3 DEF ToSet
  <2>6. ASSUME NEW x \in ToSet(s), x # e PROVE x \in ToSet(r)
    <3>1. PICK j \in 1..Len(s) : x = s[j]
      BY DEF ToSet
    <3>2. CASE j < i
      <4>1. j \in 1..(Len(s) - 1)
        BY <2>a, <3>2
      <4>2. r[j] = x
        BY <2>3, <3>1, <3>2, <4>1
      <4> QED
        BY <2>a, <4>1, <4>2, Zenon DEF ToSet
    <3>3. CASE j > i
      <4>1. PICK m \in 1..(Len(s) - 1) : m = j - 1
        BY <2>a, <3>3
      <4>2. r[m] = x
        <5>1. ~(m < i) /\ m + 1 = j
          BY <2>a, <3>3, <4>1
        <5>2. r[m] = IF m < i THEN s[m] ELSE s[m + 1]
          BY <2>3
        <5>3. r[m] = s[m + 1]
          BY <5>1, <5>2
        <5> QED
          BY <3>1, <5>1, <5>3
      <4> QED
        BY <2>a, <4>2, Zenon DEF ToSet
    <3>4. j # i
      BY <2>1, <2>6, <3>1
    <3> QED
      BY <3>2, <3>3, <3>4
  <2> QED
    BY <2>2, <2>3, <2>4, <2>5, <2>6
<1> QED
  BY <1>1, <1>2

-----------------------------------------------------------------------------
(* The inductive invariant, part by part.                                  *)

Writing(p) == pc[p] \in {"check", "write"}

\* Handler c is still writing the hello frame of Attach.
InHello(c) == Writing(Handler(c)) /\ after[Handler(c)] # "note"

\* Each kind of goroutine stays in its own control states, a process holds
\* frames only inside writeToSink, and a fallback timer is armed once, at the end
\* of its connection's Attach.
ControlInv ==
  /\ pc[Reader] \in ReaderPC
  /\ \A c \in Conns : pc[Timer(c)] \in TimerPC /\ pc[Handler(c)] \in HandlerPC
  /\ \A p \in Procs :
       /\ Writing(p) => to[p] \in Conns /\ after[p] \in {"note", "settle", "arm", "read"}
       /\ Writing(p) /\ p \notin Handlers => after[p] = "note"
       /\ ~Writing(p) => frames[p] = <<>>
       /\ pc[p] = "write" => frames[p] # <<>>
  /\ \A c \in Conns :
       /\ c \in armedTmr => pc[Timer(c)] = "idle"
       /\ (pc[Handler(c)] \in {"new", "arm"} \/ InHello(c)) =>
             c \notin armedTmr /\ pc[Timer(c)] = "idle"

TypeInv == TypeOK /\ ControlInv /\ BufferOrdered

-----------------------------------------------------------------------------
(* Types and control.                                                      *)

\* Stamping a list of keys yields as many event frames, with the fresh ids
\* above n in order.
LEMMA StampedFrames ==
  ASSUME NEW keys \in Seq(Nat), NEW n \in Nat
  PROVE  /\ Stamped(keys, n) \in Seq(EventFrames)
         /\ Stamped(keys, n) \in Seq(Frames)
         /\ Len(Stamped(keys, n)) = Len(keys)
         /\ DOMAIN Stamped(keys, n) = 1..Len(keys)
         /\ \A i \in 1..Len(keys) : Stamped(keys, n)[i] = EventFrame(n + i, keys[i])
         /\ ToSet(Stamped(keys, n)) \subseteq EventFrames
<1> DEFINE s == Stamped(keys, n)
<1>1. \A i \in 1..Len(keys) : s[i] = EventFrame(n + i, keys[i]) /\ s[i] \in EventFrames
  BY DEF Stamped, EventFrame, EventFrames
<1>2. DOMAIN s = 1..Len(keys) /\ s = [i \in 1..Len(keys) |-> s[i]]
  BY DEF Stamped
<1> HIDE DEF s
<1>3. s \in Seq(EventFrames)
  BY <1>1, <1>2, IsASeq
<1>4. s \in Seq(Frames)
  BY <1>1, <1>2, IsASeq DEF Frames
<1>5. Len(s) = Len(keys)
  BY <1>2, <1>3
<1>6. ToSet(s) \subseteq EventFrames
  BY <1>1, <1>2 DEF ToSet
<1> QED
  BY <1>1, <1>2, <1>3, <1>4, <1>5, <1>6 DEF s

\* What the steps of the delivery path look like, all others leaving its state
\* alone: the case distinction every proof below follows.
deliveryVars == <<sink, settled, buffer, nextKey, freshIDs, nextID, armedTmr, procVars, netVars>>

\* An event that is only buffered.
Hold == OnEventHold \/ OnEventResume

\* deliverBufferedNow(c), from Attach, a heartbeat or the fallback timer.
Batch(p, c) ==
  /\ p \in {Handler(c), Timer(c)}
  /\ pc[p] \in {"settle", "read"}
  /\ DeliverBufferedNow(p, c)

BatchDelivers(p, c) ==
  /\ Batch(p, c) /\ sink = c /\ ~settled
  /\ settled' = TRUE /\ Deliver(p, c, buffer)
  /\ armedTmr' \subseteq armedTmr
  /\ UNCHANGED <<sink, buffer, nextKey, sinkWrite, netVars>>

BatchSkips(p, c) ==
  /\ Batch(p, c)
  /\ pc' = [pc EXCEPT ![p] = ReturnPC(p)]
  /\ UNCHANGED <<sink, settled, buffer, nextKey, freshIDs, nextID, armedTmr,
                 sinkWrite, after, to, frames, netVars>>

LEMMA BatchCases ==
  ASSUME NEW p, NEW c, Batch(p, c)
  PROVE  BatchDelivers(p, c) \/ BatchSkips(p, c)
BY DEF Batch, BatchDelivers, BatchSkips, DeliverBufferedNow, StopDeliverTmr, sessionVars, callVars

LEMMA NextCases ==
  ASSUME [Next]_vars
  PROVE  \/ UNCHANGED deliveryVars
         \/ Hold
         \/ OnEventDeliver
         \/ \E p \in Procs : Check(p) \/ WriteOk(p) \/ WriteErr(p) \/ NoteActivity(p)
         \/ \E c \in Conns : \E p \in Procs : Batch(p, c)
         \/ \E c \in Conns : \/ Attach(c) \/ ArmFallback(c) \/ FallbackFires(c)
                             \/ Ack(c) \/ Detach(c) \/ CloseConn(c)
<1> USE DEF deliveryVars, sessionVars, callVars, procVars, netVars
<1>1. CASE ResumeOk \/ ResumeErr \/ IdleFires \/ OnIdle \/ SuspendOk \/ SuspendErr
  BY <1>1 DEF ResumeOk, ResumeErr, IdleFires, OnIdle, SuspendOk, SuspendErr
<1>2. CASE \E f \in Forwards : BeginForward(f) \/ EndForward(f)
  BY <1>2 DEF BeginForward, EndForward
<1>3. CASE UNCHANGED vars
  BY <1>3 DEF vars
<1>4. CASE OnEvent
  BY <1>4 DEF OnEvent, Hold
<1>5. ASSUME NEW c \in Conns, ConnStep(c)
      PROVE  \/ \E p \in Procs : Batch(p, c)
             \/ Attach(c) \/ ArmFallback(c) \/ FallbackFires(c)
             \/ Ack(c) \/ Detach(c) \/ CloseConn(c)
  <2>1. CASE SettleOnAttach(c)
    <3>1. Batch(Handler(c), c)
      BY <2>1 DEF SettleOnAttach, Batch
    <3> QED
      BY <3>1, ProcFacts
  <2>2. CASE MarkReady(c)
    <3>1. Batch(Handler(c), c)
      BY <2>2 DEF MarkReady, Batch
    <3> QED
      BY <3>1, ProcFacts
  <2>3. CASE SettleOnFallback(c)
    <3>1. Batch(Timer(c), c)
      BY <2>3 DEF SettleOnFallback, Batch
    <3> QED
      BY <3>1, ProcFacts
  <2> QED
    BY <1>5, <2>1, <2>2, <2>3 DEF ConnStep
<1> QED
  BY <1>1, <1>2, <1>3, <1>4, <1>5 DEF Next, WriteStep

\* The flags stay Boolean.
LEMMA FlagsStep == TypeInv /\ [Next]_vars => FlagsOK'
<1> SUFFICES ASSUME FlagsOK, [Next]_vars
             PROVE  FlagsOK'
  BY DEF TypeInv, TypeOK
<1> USE FlagsAssumption DEF FlagsOK, sessionVars, Armed
<1>1. CASE OnEvent
  BY <1>1, Zenon DEF OnEvent, OnEventDeliver, OnEventHold, OnEventResume
<1>2. CASE \E p \in Procs : WriteStep(p)
  BY <1>2, Zenon DEF WriteStep, Check, WriteOk, WriteErr, NoteActivity
<1>3. ASSUME NEW c \in Conns, Ack(c) PROVE FlagsOK'
  <2>1. idleTmr' = Armed(sink, suspending, inFlight)
    BY <1>3, Zenon DEF Ack, AckFrame
  <2> QED
    BY <1>3, <2>1, Zenon DEF Ack
<1>4. ASSUME NEW c \in Conns,
             Attach(c) \/ ArmFallback(c) \/ FallbackFires(c) \/ Detach(c) \/ CloseConn(c)
      PROVE  FlagsOK'
  BY <1>4, Zenon DEF Attach, AdoptSink, ArmFallback, FallbackFires, Detach, CloseConn
<1>5. ASSUME NEW c \in Conns, SettleOnAttach(c) \/ SettleOnFallback(c) \/ MarkReady(c)
      PROVE  FlagsOK'
  BY <1>5, Zenon DEF SettleOnAttach, SettleOnFallback, MarkReady, DeliverBufferedNow
<1>6. CASE ResumeOk \/ ResumeErr \/ IdleFires \/ OnIdle \/ SuspendOk \/ SuspendErr
  BY <1>6, Zenon DEF ResumeOk, ResumeErr, IdleFires, OnIdle, SuspendOk, SuspendErr
<1>7. CASE \E f \in Forwards : BeginForward(f) \/ EndForward(f)
  BY <1>7, Zenon DEF BeginForward, EndForward
<1>8. CASE UNCHANGED vars
  BY <1>8, Zenon DEF vars
<1> QED
  BY <1>1, <1>2, <1>3, <1>4, <1>5, <1>6, <1>7, <1>8 DEF Next, ConnStep

\* Counters and pointers keep their types.
LEMMA CallsStep == TypeInv /\ [Next]_vars => CallsOK'
<1> SUFFICES ASSUME CallsOK, [Next]_vars
             PROVE  CallsOK'
  BY DEF TypeInv, TypeOK
<1> USE DEF CallsOK, callVars
<1>1. CASE OnEvent
  BY <1>1 DEF OnEvent, OnEventDeliver, OnEventHold, OnEventResume, Buffered
<1>2. CASE \E p \in Procs : WriteStep(p)
  BY <1>2 DEF WriteStep, Check, WriteOk, WriteErr, NoteActivity
<1>3. ASSUME NEW c \in Conns, ConnStep(c) PROVE CallsOK'
  BY <1>3 DEF ConnStep, Attach, ArmFallback, FallbackFires, SettleOnAttach, SettleOnFallback,
              MarkReady, DeliverBufferedNow, StopDeliverTmr, Ack, Detach, CloseConn
<1>4. CASE ResumeOk \/ ResumeErr \/ SuspendOk \/ SuspendErr
  <2>1. CASE ResumeOk \/ ResumeErr
    BY <2>1 DEF ResumeOk, ResumeErr
  <2>2. CASE SuspendOk
    BY <2>2 DEF SuspendOk
  <2>3. CASE SuspendErr
    BY <2>3 DEF SuspendErr, Armed
  <2> QED
    BY <1>4, <2>1, <2>2, <2>3
<1>7. CASE IdleFires \/ OnIdle
  <2>1. CASE IdleFires
    BY <2>1 DEF IdleFires
  <2>2. CASE OnIdle
    BY <2>2 DEF OnIdle
  <2> QED
    BY <1>7, <2>1, <2>2
<1>5. CASE \E f \in Forwards : BeginForward(f) \/ EndForward(f)
  BY <1>5 DEF BeginForward, EndForward
<1>6. CASE UNCHANGED vars
  BY <1>6 DEF vars
<1> QED
  BY <1>1, <1>2, <1>3, <1>4, <1>5, <1>6, <1>7 DEF Next

\* The frames that Deliver hands over are event frames, stamped with new ids.
LEMMA DeliverEffect ==
  ASSUME FieldsOK, ProcsOK,
         NEW p \in Procs, NEW c \in Conns, NEW keys \in Seq(Nat), Deliver(p, c, keys)
  PROVE  /\ ProcsOK' \/ sinkWrite' # sinkWrite
         /\ freshIDs' \in SUBSET EventFrames
         /\ nextID' \in Nat
         /\ frames'[p] = Stamped(keys, nextID)
         /\ frames'[p] \in Seq(EventFrames)
         /\ to'[p] = c /\ pc'[p] = "check" /\ after'[p] = "note"
         /\ \A q \in Procs \ {p} : /\ frames'[q] = frames[q] /\ to'[q] = to[q]
                                   /\ pc'[q] = pc[q] /\ after'[q] = after[q]
<1>1. /\ Stamped(keys, nextID) \in Seq(EventFrames)
      /\ Stamped(keys, nextID) \in Seq(Frames)
      /\ ToSet(Stamped(keys, nextID)) \subseteq EventFrames
  BY StampedFrames DEF FieldsOK
<1>2. Len(keys) \in Nat
  OBVIOUS
<1> QED
  BY <1>1, <1>2 DEF Deliver, FieldsOK, ProcsOK, PC, ReaderPC, TimerPC, HandlerPC

\* Buffering one more event keeps the buffer a list of known keys in order.
LEMMA BufferedEffect ==
  ASSUME FieldsOK, BufferOrdered, Buffered
  PROVE  /\ buffer' \in Seq(Nat) /\ nextKey' \in Nat /\ nextKey' = nextKey + 1
         /\ BufferOrdered'
         /\ ToSet(buffer') = ToSet(buffer) \cup {nextKey}
<1>1. /\ buffer' \in Seq(Nat) /\ nextKey' \in Nat /\ nextKey' = nextKey + 1
      /\ Len(buffer') = Len(buffer) + 1 /\ Len(buffer) \in Nat
      /\ DOMAIN buffer = 1..Len(buffer) /\ DOMAIN buffer' = 1..(Len(buffer) + 1)
      /\ \A i \in 1..Len(buffer) : buffer'[i] = buffer[i]
      /\ buffer'[Len(buffer) + 1] = nextKey
      /\ \A i \in 1..Len(buffer) : buffer[i] \in Nat
  BY DEF FieldsOK, Buffered
<1>2. BufferOrdered'
  <2>1. ASSUME NEW i \in 1..(Len(buffer) + 1), NEW j \in 1..(Len(buffer) + 1), i < j
        PROVE  buffer'[i] < buffer'[j]
    <3>1. i \in 1..Len(buffer) /\ buffer'[i] = buffer[i] /\ buffer[i] < nextKey
      <4>1. i \in 1..Len(buffer)
        BY <1>1, <2>1
      <4> QED
        BY <1>1, <4>1 DEF BufferOrdered
    <3>2. CASE j = Len(buffer) + 1
      BY <1>1, <3>1, <3>2
    <3>3. CASE j \in 1..Len(buffer)
      BY <1>1, <2>1, <3>1, <3>3 DEF BufferOrdered
    <3> QED
      BY <1>1, <3>2, <3>3
  <2>2. ASSUME NEW i \in 1..(Len(buffer) + 1) PROVE buffer'[i] < nextKey'
    <3>1. CASE i = Len(buffer) + 1
      BY <1>1, <3>1 DEF FieldsOK
    <3>2. CASE i \in 1..Len(buffer)
      <4>1. buffer[i] < nextKey /\ buffer[i] \in Nat /\ nextKey \in Nat
        BY <1>1, <3>2 DEF BufferOrdered, FieldsOK
      <4> QED
        BY <1>1, <3>2, <4>1
    <3> QED
      BY <1>1, <3>1, <3>2
  <2> QED
    BY <1>1, <2>1, <2>2 DEF BufferOrdered
<1>3. ToSet(buffer') = ToSet(buffer) \cup {nextKey}
  <2>1. /\ ToSet(buffer) = {buffer[i] : i \in 1..Len(buffer)}
        /\ ToSet(buffer') = {buffer'[i] : i \in 1..(Len(buffer) + 1)}
    BY <1>1, Zenon DEF ToSet
  <2>2. 1..(Len(buffer) + 1) = 1..Len(buffer) \cup {Len(buffer) + 1}
    BY <1>1
  <2>3. \A k : k \in ToSet(buffer') <=> k \in ToSet(buffer) \/ k = nextKey
    BY <1>1, <2>1, <2>2, Zenon
  <2> QED
    BY <2>3, Zenon
<1> QED
  BY <1>1, <1>2, <1>3

\* An ack removes one key from the buffer and its stamps from freshIDs, and
\* leaves the rest in order.
LEMMA AckEffect ==
  ASSUME FieldsOK, BufferOrdered, NEW f, AckFrame(f)
  PROVE  \E g \in freshIDs :
           /\ g.id = f.id
           /\ buffer' \in Seq(Nat)
           /\ ToSet(buffer') = ToSet(buffer) \ {g.key}
           /\ freshIDs' = {h \in freshIDs : h.key # g.key}
           /\ nextKey' = nextKey => BufferOrdered'
<1> DEFINE g == CHOOSE h \in freshIDs : h.id = f.id
<1>1. g \in freshIDs /\ g.id = f.id
  BY DEF AckFrame
<1>2. buffer' = RemoveFirst(buffer, g.key) /\ freshIDs' = {h \in freshIDs : h.key # g.key}
  BY DEF AckFrame
<1> HIDE DEF g
<1>3. buffer \in Seq(Nat) /\ Increasing(buffer)
  BY DEF FieldsOK, BufferOrdered, Increasing
<1>4. /\ buffer' \in Seq(Nat) /\ Increasing(buffer')
      /\ ToSet(buffer') = ToSet(buffer) \ {g.key}
  BY <1>2, <1>3, RemoveFirstSet
<1>5. ASSUME nextKey' = nextKey PROVE BufferOrdered'
  <2>1. \A k \in ToSet(buffer) : k < nextKey
    BY DEF BufferOrdered, ToSet
  <2>2. \A i \in DOMAIN buffer' : buffer'[i] \in ToSet(buffer')
    BY DEF ToSet
  <2> QED
    BY <1>4, <1>5, <2>1, <2>2 DEF BufferOrdered, Increasing
<1> QED
  BY <1>1, <1>2, <1>4, <1>5

\* The session's fields keep their types.
LEMMA FieldsStep == TypeInv /\ [Next]_vars => FieldsOK'
<1> SUFFICES ASSUME TypeInv, [Next]_vars
             PROVE  FieldsOK'
  OBVIOUS
<1>0. FieldsOK /\ ProcsOK /\ BufferOrdered
  BY DEF TypeInv, TypeOK
<1>1. ASSUME OnEventDeliver PROVE FieldsOK'
  <2>1. <<nextKey>> \in Seq(Nat) /\ sink \in Conns
    BY <1>0, <1>1 DEF FieldsOK, OnEventDeliver
  <2>2. freshIDs' \in SUBSET EventFrames /\ nextID' \in Nat
    BY <1>0, <1>1, <2>1, DeliverEffect, ProcFacts DEF OnEventDeliver
  <2>3. buffer' \in Seq(Nat) /\ nextKey' \in Nat
    BY <1>0, <1>1, BufferedEffect DEF OnEventDeliver
  <2> QED
    BY <1>0, <1>1, <2>2, <2>3 DEF OnEventDeliver, FieldsOK
<1>2. ASSUME Hold PROVE FieldsOK'
  <2>1. buffer' \in Seq(Nat) /\ nextKey' \in Nat
    BY <1>0, <1>2, BufferedEffect DEF Hold, OnEventHold, OnEventResume
  <2> QED
    BY <1>0, <1>2, <2>1 DEF Hold, OnEventHold, OnEventResume, FieldsOK
<1>3. CASE \E p \in Procs : WriteStep(p)
  BY <1>0, <1>3 DEF WriteStep, Check, WriteOk, WriteErr, NoteActivity, FieldsOK, sessionVars
<1>4. ASSUME NEW c \in Conns,
             SettleOnAttach(c) \/ SettleOnFallback(c) \/ MarkReady(c)
      PROVE  FieldsOK'
  <2>1. PICK p \in Procs : DeliverBufferedNow(p, c)
    BY <1>4, ProcFacts DEF SettleOnAttach, SettleOnFallback, MarkReady
  <2>2. CASE sink # c \/ settled
    BY <1>0, <2>1, <2>2 DEF DeliverBufferedNow, FieldsOK, sessionVars
  <2>3. CASE ~(sink # c \/ settled)
    <3>1. freshIDs' \in SUBSET EventFrames /\ nextID' \in Nat
      BY <1>0, <2>1, <2>3, DeliverEffect DEF DeliverBufferedNow, FieldsOK
    <3> QED
      BY <1>0, <2>1, <2>3, <3>1 DEF DeliverBufferedNow, StopDeliverTmr, FieldsOK
  <2> QED
    BY <2>2, <2>3
<1>5. ASSUME NEW c \in Conns, Ack(c) PROVE FieldsOK'
  <2>1. buffer' \in Seq(Nat) /\ freshIDs' \subseteq freshIDs
    BY <1>0, <1>5, AckEffect DEF Ack
  <2> QED
    BY <1>0, <1>5, <2>1 DEF Ack, FieldsOK
<1>6. ASSUME NEW c \in Conns,
             Attach(c) \/ ArmFallback(c) \/ FallbackFires(c) \/ Detach(c) \/ CloseConn(c)
      PROVE  FieldsOK'
  BY <1>0, <1>6 DEF Attach, AdoptSink, StopDeliverTmr, ArmFallback, FallbackFires, Detach,
                    CloseConn, FieldsOK, sessionVars
<1>7. CASE ResumeOk \/ ResumeErr \/ IdleFires \/ OnIdle \/ SuspendOk \/ SuspendErr
  BY <1>0, <1>7 DEF ResumeOk, ResumeErr, IdleFires, OnIdle, SuspendOk, SuspendErr, FieldsOK,
                    sessionVars
<1>8. CASE \E f \in Forwards : BeginForward(f) \/ EndForward(f)
  BY <1>0, <1>8 DEF BeginForward, EndForward, Decremented, FieldsOK, ForwardState
<1>9. CASE UNCHANGED vars
  BY <1>0, <1>9 DEF vars, FieldsOK, sessionVars
<1> QED
  BY <1>1, <1>2, <1>3, <1>4, <1>5, <1>6, <1>7, <1>8, <1>9 DEF Next, OnEvent, Hold, ConnStep

\* The buffer stays ordered: only onEvent and Ack touch it.
LEMMA BufferStep == TypeInv /\ [Next]_vars => BufferOrdered'
<1> SUFFICES ASSUME TypeInv, [Next]_vars
             PROVE  BufferOrdered'
  OBVIOUS
<1>0. FieldsOK /\ BufferOrdered
  BY DEF TypeInv, TypeOK
<1>1. CASE OnEventDeliver \/ Hold
  BY <1>0, <1>1, BufferedEffect DEF OnEventDeliver, Hold, OnEventHold, OnEventResume
<1>2. ASSUME NEW c \in Conns, Ack(c) PROVE BufferOrdered'
  BY <1>0, <1>2, AckEffect DEF Ack
<1>3. CASE UNCHANGED <<buffer, nextKey>>
  BY <1>0, <1>3 DEF BufferOrdered
<1>4. CASE UNCHANGED deliveryVars
  BY <1>3, <1>4 DEF deliveryVars
<1>5. CASE \E p \in Procs : Check(p) \/ WriteOk(p) \/ WriteErr(p) \/ NoteActivity(p)
  BY <1>3, <1>5 DEF Check, WriteOk, WriteErr, NoteActivity, sessionVars
<1>6. CASE \E c \in Conns : \E p \in Procs : Batch(p, c)
  BY <1>3, <1>6, BatchCases DEF BatchDelivers, BatchSkips
<1>7. CASE \E c \in Conns : \/ Attach(c) \/ ArmFallback(c) \/ FallbackFires(c)
                            \/ Detach(c) \/ CloseConn(c)
  BY <1>3, <1>7 DEF Attach, ArmFallback, FallbackFires, Detach, CloseConn, sessionVars
<1> QED
  BY <1>1, <1>2, <1>4, <1>5, <1>6, <1>7, NextCases

\* Processes and wires keep their types, and processes their control states.
ProcInv == ProcsOK /\ NetOK /\ ControlInv

\* A process that starts writeToSink with stamped events keeps ProcInv.
LEMMA DeliverKeepsProcInv ==
  ASSUME FieldsOK, ProcInv, UNCHANGED <<sinkWrite, netVars>>, armedTmr' \subseteq armedTmr,
         NEW p \in Procs, NEW c \in Conns, NEW keys \in Seq(Nat), Deliver(p, c, keys),
         \A d \in Conns : p = Timer(d) => d \notin armedTmr,
         \A d \in Conns : p = Timer(d) => pc[p] = "settle"
  PROVE  ProcInv'
<1>1. ProcsOK /\ NetOK /\ ControlInv
  BY DEF ProcInv
<1>2. ProcsOK' /\ NetOK'
  BY <1>1, DeliverEffect DEF NetOK, netVars
<1>3. ControlInv'
  <2>1. /\ to'[p] = c /\ pc'[p] = "check" /\ after'[p] = "note"
        /\ \A q \in Procs \ {p} : /\ frames'[q] = frames[q] /\ to'[q] = to[q]
                                  /\ pc'[q] = pc[q] /\ after'[q] = after[q]
    BY <1>1, DeliverEffect
  <2> QED
    BY <1>1, <2>1, ProcFacts DEF ControlInv, Writing, InHello, ReaderPC, TimerPC, HandlerPC
<1> QED
  BY <1>2, <1>3 DEF ProcInv

LEMMA ProcStep == TypeInv /\ [Next]_vars => ProcInv'
<1> SUFFICES ASSUME TypeInv, [Next]_vars
             PROVE  ProcInv'
  OBVIOUS
<1>0. FieldsOK /\ CallsOK /\ ProcInv /\ ProcsOK /\ NetOK /\ ControlInv
  BY DEF TypeInv, TypeOK, ProcInv
<1> USE DEF sessionVars, callVars, procVars, netVars
<1>1. CASE OnEventDeliver
  <2>1. sink \in Conns /\ <<nextKey>> \in Seq(Nat)
    BY <1>0, <1>1 DEF OnEventDeliver, FieldsOK
  <2>2. /\ Deliver(Reader, sink, <<nextKey>>)
        /\ UNCHANGED <<sinkWrite, netVars>> /\ armedTmr' \subseteq armedTmr
    BY <1>1 DEF OnEventDeliver
  <2> QED
    BY <1>0, <2>1, <2>2, DeliverKeepsProcInv, ProcFacts
<1>2. CASE UNCHANGED <<armedTmr, procVars, netVars>>
  BY <1>0, <1>2 DEF ProcInv, ProcsOK, NetOK, ControlInv, Writing, InHello
<1>3. CASE Hold \/ UNCHANGED deliveryVars \/ \E c \in Conns : Ack(c)
  BY <1>2, <1>3 DEF Hold, OnEventHold, OnEventResume, deliveryVars, Ack
<1>4. ASSUME NEW p \in Procs, Check(p) PROVE ProcInv'
  <2>1. CASE Finish(p)
    <3>1. after[p] \in PC /\ pc[p] = "check"
      BY <1>0, <1>4 DEF Check, ProcsOK
    <3>2. ProcsOK' /\ NetOK'
      BY <1>0, <1>4, <2>1, <3>1 DEF Check, Finish, ProcsOK, NetOK
    <3>3. ControlInv'
      BY <1>0, <1>4, <2>1, ProcFacts DEF Check, Finish, ProcsOK, ControlInv, Writing, InHello,
                                         ReaderPC, TimerPC, HandlerPC
    <3> QED
      BY <3>2, <3>3 DEF ProcInv
  <2>2. CASE ~Finish(p)
    <3>1. /\ frames[p] # <<>> /\ sinkWrite' = p /\ pc[p] = "check"
          /\ pc' = [pc EXCEPT ![p] = "write"]
          /\ UNCHANGED <<armedTmr, frames, after, to, netVars>>
      BY <1>4, <2>2 DEF Check
    <3>2. ProcsOK' /\ NetOK'
      BY <1>0, <3>1 DEF ProcsOK, NetOK, PC, ReaderPC, TimerPC
    <3>3. ControlInv'
      BY <1>0, <3>1, ProcFacts DEF ProcsOK, ControlInv, Writing, InHello, ReaderPC, TimerPC, HandlerPC
    <3> QED
      BY <3>2, <3>3 DEF ProcInv
  <2> QED
    BY <2>1, <2>2
<1>5. ASSUME NEW p \in Procs, WriteOk(p) PROVE ProcInv'
  <2>1. /\ frames[p] \in Seq(Frames) /\ frames[p] # <<>>
        /\ Head(frames[p]) \in Frames /\ Tail(frames[p]) \in Seq(Frames)
    BY <1>0, <1>5 DEF WriteOk, ProcsOK, ControlInv
  <2>2. ProcsOK'
    BY <1>0, <1>5, <2>1 DEF WriteOk, ProcsOK, PC, ReaderPC, TimerPC
  <2>3. NetOK'
    <3>1. to[p] \in Conns
      BY <1>0, <1>5 DEF WriteOk, ControlInv, Writing
    <3>2. Append(wire[to[p]], Head(frames[p])) \in Seq(Frames)
      BY <1>0, <2>1, <3>1 DEF NetOK
    <3> QED
      BY <1>0, <1>5, <3>1, <3>2 DEF WriteOk, NetOK
  <2>4. ControlInv'
    BY <1>0, <1>5, ProcFacts DEF WriteOk, ProcsOK, ControlInv, Writing, InHello, ReaderPC, TimerPC, HandlerPC
  <2> QED
    BY <2>2, <2>3, <2>4 DEF ProcInv
<1>6. ASSUME NEW p \in Procs, WriteErr(p) PROVE ProcInv'
  <2>a. ProcsOK'
    BY <1>0, <1>6 DEF WriteErr, Finish, ProcsOK
  <2>b. NetOK'
    BY <1>0, <1>6 DEF WriteErr, NetOK
  <2>1. ProcsOK' /\ NetOK'
    BY <2>a, <2>b
  <2>2. ControlInv'
    BY <1>0, <1>6, ProcFacts DEF WriteErr, Finish, ProcsOK, ControlInv, Writing, InHello,
                                 ReaderPC, TimerPC, HandlerPC
  <2> QED
    BY <2>1, <2>2 DEF ProcInv
<1>7. ASSUME NEW p \in Procs, NoteActivity(p) PROVE ProcInv'
  <2>1. ProcsOK' /\ NetOK'
    BY <1>0, <1>7 DEF NoteActivity, ReturnPC, ProcsOK, NetOK, PC, ReaderPC, TimerPC, HandlerPC
  <2>2. ControlInv'
    BY <1>0, <1>7, ProcFacts DEF NoteActivity, ReturnPC, ProcsOK, ControlInv, Writing, InHello,
                                 ReaderPC, TimerPC, HandlerPC
  <2> QED
    BY <2>1, <2>2 DEF ProcInv
<1>8. ASSUME NEW c \in Conns, NEW p \in Procs, Batch(p, c) PROVE ProcInv'
  <2>1. \A d \in Conns : p = Timer(d) => d \notin armedTmr /\ pc[p] = "settle"
    BY <1>0, <1>8, ProcFacts DEF Batch, ControlInv, TimerPC, ReaderPC
  <2>2. CASE BatchDelivers(p, c)
    BY <1>0, <2>1, <2>2, DeliverKeepsProcInv DEF BatchDelivers, FieldsOK
  <2>3. CASE BatchSkips(p, c)
    <3>1. ProcsOK' /\ NetOK'
      BY <1>0, <2>3 DEF BatchSkips, ReturnPC, ProcsOK, NetOK, PC, ReaderPC, TimerPC, HandlerPC
    <3>2. ControlInv'
      BY <1>0, <2>1, <2>3, ProcFacts DEF Batch, BatchSkips, ReturnPC, ProcsOK, ControlInv, Writing,
                                  InHello, ReaderPC, TimerPC, HandlerPC
    <3> QED
      BY <3>1, <3>2 DEF ProcInv
  <2> QED
    BY <1>8, <2>2, <2>3, BatchCases
<1>9. ASSUME NEW c \in Conns, Attach(c) PROVE ProcInv'
  <2>1. <<HelloFrame>> \in Seq(Frames)
    BY DEF Frames
  <2>2. ProcsOK' /\ NetOK'
    BY <1>0, <1>9, <2>1, ProcFacts DEF Attach, ProcsOK, NetOK, PC, ReaderPC, TimerPC, HandlerPC
  <2>3. ControlInv'
    BY <1>0, <1>9, ProcFacts DEF Attach, StopDeliverTmr, ProcsOK, ControlInv, Writing, InHello,
                                 ReaderPC, TimerPC, HandlerPC
  <2> QED
    BY <2>2, <2>3 DEF ProcInv
<1>10. ASSUME NEW c \in Conns, ArmFallback(c) \/ FallbackFires(c) PROVE ProcInv'
  <2>a. /\ \E q \in Procs, v \in PC : pc' = [pc EXCEPT ![q] = v]
        /\ UNCHANGED <<sinkWrite, after, to, frames, netVars>>
    BY <1>10, ProcFacts DEF ArmFallback, FallbackFires, PC, TimerPC, HandlerPC
  <2>1. ProcsOK' /\ NetOK'
    BY <1>0, <2>a DEF ProcsOK, NetOK
  <2>2. CASE ArmFallback(c)
    <3>1. ControlInv'
      BY <1>0, <2>2, ProcFacts DEF ArmFallback, ProcsOK, ControlInv, Writing, InHello,
                                   ReaderPC, TimerPC, HandlerPC
    <3> QED
      BY <2>1, <3>1 DEF ProcInv
  <2>3. CASE FallbackFires(c)
    <3>1. ControlInv'
      BY <1>0, <2>3, ProcFacts DEF FallbackFires, ProcsOK, ControlInv, Writing, InHello,
                                   ReaderPC, TimerPC, HandlerPC
    <3> QED
      BY <2>1, <3>1 DEF ProcInv
  <2> QED
    BY <1>10, <2>2, <2>3
<1>11. ASSUME NEW c \in Conns, Detach(c) \/ CloseConn(c) PROVE ProcInv'
  <2>1. ProcsOK' /\ NetOK'
    <3>1. CASE Detach(c)
      BY <1>0, <3>1, ProcFacts DEF Detach, netVars, ProcsOK, NetOK, PC, HandlerPC
    <3>2. CASE CloseConn(c)
      BY <1>0, <3>2, ProcFacts DEF CloseConn, ProcsOK, NetOK, PC, HandlerPC
    <3> QED
      BY <1>11, <3>1, <3>2
  <2>2. /\ pc[Handler(c)] \in {"read", "closing"}
        /\ \E v \in {"closing", "closed"} : pc' = [pc EXCEPT ![Handler(c)] = v]
        /\ armedTmr' \subseteq armedTmr
        /\ UNCHANGED <<after, to, frames>>
    BY <1>11 DEF Detach, CloseConn, StopDeliverTmr
  <2>3. /\ pc'[Handler(c)] \in {"closing", "closed"}
        /\ \A q \in Procs : q # Handler(c) => pc'[q] = pc[q]
        /\ \A q \in Procs : Writing(q)' <=> Writing(q)
    BY <1>0, <2>2, ProcFacts DEF ProcsOK, Writing
  <2>4. \A d \in Conns : /\ InHello(d)' <=> InHello(d)
                         /\ pc'[Handler(d)] \in {"new", "arm"} => pc[Handler(d)] \in {"new", "arm"}
                         /\ pc'[Timer(d)] = pc[Timer(d)]
                         /\ pc'[Handler(d)] \in HandlerPC
    BY <1>0, <2>2, <2>3, ProcFacts DEF InHello, ControlInv, HandlerPC
  <2>5. ControlInv'
    BY <1>0, <2>2, <2>3, <2>4, ProcFacts DEF ControlInv
  <2> QED
    BY <2>1, <2>5 DEF ProcInv
<1> QED
  BY <1>1, <1>3, <1>4, <1>5, <1>6, <1>7, <1>8, <1>9, <1>10, <1>11, NextCases

\* The types and the control states are an inductive invariant.
LEMMA TypeInit == Init => TypeInv
<1> SUFFICES ASSUME Init PROVE TypeInv
  OBVIOUS
<1>1. FlagsOK
  BY Zenon DEF Init, FlagsOK
<1>2. FieldsOK /\ CallsOK /\ BufferOrdered
  BY DEF Init, FieldsOK, CallsOK, BufferOrdered, ForwardState
<1>3. ProcsOK /\ NetOK
  BY DEF Init, ProcsOK, NetOK, PC, ReaderPC, TimerPC, HandlerPC
<1>4. ControlInv
  BY ProcFacts DEF Init, ControlInv, Writing, InHello, ReaderPC, TimerPC, HandlerPC
<1> QED
  BY <1>1, <1>2, <1>3, <1>4 DEF TypeInv, TypeOK

LEMMA TypeStep == TypeInv /\ [Next]_vars => TypeInv'
BY FlagsStep, FieldsStep, CallsStep, BufferStep, ProcStep DEF TypeInv, TypeOK, ProcInv

LEMMA TypeInvariant == Spec => []TypeInv
BY TypeInit, TypeStep, PTL DEF Spec

\* Every reachable state is well typed: the session, the goroutines and the
\* wires of Session keep the shapes the code relies on.
THEOREM TypeCorrect == Spec => []TypeOK
<1>1. TypeInv => TypeOK
  BY DEF TypeInv
<1> QED
  BY <1>1, TypeInvariant, PTL

\* The buffer lists distinct events in arrival order in every reachable state.
THEOREM BufferAlwaysOrdered == Spec => []BufferOrdered
<1>1. TypeInv => BufferOrdered
  BY DEF TypeInv
<1> QED
  BY <1>1, TypeInvariant, PTL

-----------------------------------------------------------------------------
(* The write lock.                                                         *)

\* A step that leaves the lock alone, and the place of whoever is writing, keeps
\* OneWriter, provided nobody enters a write.
LEMMA LockKept ==
  ASSUME OneWriter, sinkWrite' = sinkWrite,
         \A p \in Procs : pc'[p] = "write" => pc[p] = "write",
         sinkWrite # NoProc => pc'[sinkWrite] = pc[sinkWrite]
  PROVE  OneWriter'
BY DEF OneWriter

\* A process outside writeToSink moves on, to anywhere but the write itself.
LEMMA OutsiderKeepsLock ==
  ASSUME TypeInv, OneWriter, sinkWrite' = sinkWrite, NEW q \in Procs, NEW s \in PC,
         ~Writing(q), s # "write", pc' = [pc EXCEPT ![q] = s]
  PROVE  OneWriter'
<1>1. pc \in [Procs -> PC] /\ sinkWrite \in Procs \cup {NoProc}
  BY DEF TypeInv, TypeOK, ProcsOK
<1>2. sinkWrite # q \/ sinkWrite = NoProc
  BY DEF OneWriter, Writing
<1> QED
  BY <1>1, <1>2, LockKept

\* At most one goroutine writes to an actor connection at any moment, and it holds
\* sinkWrite; nobody leaves writeToSink with the lock, on whichever path it returns.
THEOREM AlwaysOneWriter == Spec => []OneWriter
<1>0. NoProc \notin Procs
  BY DEF NoProc, Procs, Reader, Handlers, Timers, Handler, Timer
<1>1. Init => OneWriter
  BY DEF Init, OneWriter
<1>2. TypeInv /\ OneWriter /\ [Next]_vars => OneWriter'
  <2> SUFFICES ASSUME TypeInv, OneWriter, [Next]_vars PROVE OneWriter'
    OBVIOUS
  <2>0. /\ pc \in [Procs -> PC] /\ after \in [Procs -> PC] /\ sinkWrite \in Procs \cup {NoProc}
        /\ \A p \in Procs : Writing(p) => after[p] \in {"note", "settle", "arm", "read"}
    BY DEF TypeInv, TypeOK, ProcsOK, ControlInv
  <2>1. ASSUME UNCHANGED <<pc, sinkWrite>> PROVE OneWriter'
    BY <2>1 DEF OneWriter
  <2>2. CASE UNCHANGED deliveryVars \/ Hold
    BY <2>1, <2>2 DEF deliveryVars, procVars, Hold, OnEventHold, OnEventResume
  <2>3. ASSUME NEW q \in Procs, pc[q] \in PC \ {"check", "write"}, sinkWrite' = sinkWrite,
               \E s \in PC \ {"write"} : pc' = [pc EXCEPT ![q] = s]
        PROVE  OneWriter'
    BY <2>3, OutsiderKeepsLock DEF Writing
  <2>4. CASE OnEventDeliver
    BY <2>3, <2>4, ProcFacts
       DEF OnEventDeliver, Buffered, Deliver, PC, TimerPC, ReaderPC, HandlerPC
  <2>5. ASSUME NEW p \in Procs, Check(p) PROVE OneWriter'
    <3>1. /\ Writing(p) /\ sinkWrite \in {NoProc, p} /\ \A q \in Procs : pc[q] = "write" => q = p
      BY <1>0, <2>5 DEF Check, LockFree, Writing, OneWriter
    <3>2. CASE Finish(p)
      <4>1. sinkWrite' = NoProc /\ pc' = [pc EXCEPT ![p] = after[p]] /\ after[p] # "write"
        BY <2>0, <3>1, <3>2 DEF Finish
      <4>2. \A q \in Procs : pc'[q] # "write"
        BY <2>0, <3>1, <4>1
      <4> QED
        BY <4>1, <4>2 DEF OneWriter
    <3>3. CASE sinkWrite' = p /\ pc' = [pc EXCEPT ![p] = "write"]
      BY <2>0, <3>1, <3>3 DEF OneWriter
    <3> QED
      BY <2>5, <3>2, <3>3 DEF Check
  <2>6. ASSUME NEW p \in Procs, WriteOk(p) \/ WriteErr(p) PROVE OneWriter'
    <3>1. /\ Writing(p) /\ sinkWrite = p /\ \A q \in Procs : pc[q] = "write" => q = p
      BY <2>6 DEF WriteOk, WriteErr, Writing, OneWriter
    <3>2. CASE WriteErr(p)
      BY <2>0, <3>1, <3>2 DEF WriteErr, Finish, OneWriter
    <3>3. CASE WriteOk(p)
      BY <2>0, <3>1, <3>3 DEF WriteOk, OneWriter
    <3> QED
      BY <2>6, <3>2, <3>3
  <2>7. ASSUME NEW p \in Procs, NoteActivity(p) PROVE OneWriter'
    BY <2>3, <2>7 DEF NoteActivity, ReturnPC, PC, TimerPC, ReaderPC, HandlerPC
  <2>8. ASSUME NEW c \in Conns, NEW p \in Procs, Batch(p, c) PROVE OneWriter'
    <3>1. pc[p] \in PC \ {"check", "write"}
      BY <2>8 DEF Batch, PC, TimerPC, HandlerPC
    <3>2. CASE BatchDelivers(p, c)
      BY <2>3, <3>1, <3>2 DEF BatchDelivers, Deliver, PC, HandlerPC
    <3>3. CASE BatchSkips(p, c)
      BY <2>3, <3>1, <3>3 DEF BatchSkips, ReturnPC, PC, TimerPC, ReaderPC, HandlerPC
    <3> QED
      BY <2>8, <3>2, <3>3, BatchCases
  <2>9. ASSUME NEW c \in Conns, Attach(c) \/ ArmFallback(c) \/ Detach(c) \/ CloseConn(c)
        PROVE  OneWriter'
    BY <2>3, <2>9, ProcFacts DEF Attach, ArmFallback, Detach, CloseConn, PC, HandlerPC
  <2>10. ASSUME NEW c \in Conns, Ack(c) PROVE OneWriter'
    BY <2>1, <2>10 DEF Ack, procVars
  <2>11. ASSUME NEW c \in Conns, FallbackFires(c) PROVE OneWriter'
    <3>1. pc[Timer(c)] = "idle"
      BY <2>11 DEF FallbackFires, TypeInv, ControlInv
    <3> QED
      BY <2>3, <2>11, <3>1, ProcFacts DEF FallbackFires, PC, TimerPC, ReaderPC
  <2> QED
    BY <2>2, <2>4, <2>5, <2>6, <2>7, <2>8, <2>9, <2>10, <2>11, NextCases
<1> QED
  BY <1>1, <1>2, TypeInvariant, PTL DEF Spec

-----------------------------------------------------------------------------
(* The idle countdown and the counter of forwards that holds it off.       *)

LEMMA SendingFinite ==
  IsFiniteSet(Sending) /\ Cardinality(Sending) \in Nat
<1>1. Sending \in SUBSET Forwards
  BY DEF Sending
<1>2. IsFiniteSet(Sending)
  BY <1>1, ForwardsAssumption, FS_Subset
<1> QED
  BY <1>2, FS_CardinalityType

\* beginForward and endForward move the counter with the forwards under way.
LEMMA ForwardCount ==
  ASSUME TypeInv, NEW f \in Forwards, BeginForward(f) \/ EndForward(f)
  PROVE  \/ inFlight' = inFlight + 1 /\ Cardinality(Sending') = Cardinality(Sending) + 1
         \/ /\ inFlight' = Decremented(inFlight) /\ Cardinality(Sending) # 0
            /\ Cardinality(Sending') = Cardinality(Sending) - 1
<1>1. fwd \in [Forwards -> ForwardState]
  BY DEF TypeInv, TypeOK, FieldsOK
<1>2. CASE BeginForward(f)
  <2>1. f \notin Sending /\ Sending' = Sending \cup {f}
    BY <1>1, <1>2 DEF BeginForward, Sending
  <2>2. Cardinality(Sending') = Cardinality(Sending) + 1
    BY <2>1, SendingFinite, FS_AddElement
  <2> QED
    BY <1>2, <2>2 DEF BeginForward
<1>3. CASE EndForward(f)
  <2>1. f \in Sending /\ Sending' = Sending \ {f}
    BY <1>1, <1>3 DEF EndForward, Sending
  <2>2. Cardinality(Sending') = Cardinality(Sending) - 1
    BY <2>1, SendingFinite, FS_RemoveElement
  <2>3. Cardinality(Sending) # 0
    <3>1. Sending # {}
      BY <2>1
    <3> QED
      BY <3>1, SendingFinite, FS_EmptySet
  <2> QED
    BY <1>3, <2>2, <2>3 DEF EndForward
<1> QED
  BY <1>2, <1>3

\* A timer that armIdleLocked left running means no forward is counted.
LEMMA ArmedMeansNone ==
  ASSUME NEW snk, NEW susp, NEW n \in Nat
  PROVE  n > 0 => ~Armed(snk, susp, n)
BY DEF Armed

\* What a step other than a forward's does to the counter and the timer.
LEMMA IdleCases ==
  ASSUME [Next]_vars, \A f \in Forwards : ~BeginForward(f) /\ ~EndForward(f)
  PROVE  /\ fwd' = fwd
         /\ inFlight' = inFlight \/ (inFlight' = 0 /\ sink # NoConn /\ sink' = NoConn)
         /\ \/ idleTmr' = idleTmr /\ inFlight' = inFlight
            \/ idleTmr' = FALSE
            \/ \E susp \in {suspending, FALSE} :
                  idleTmr' = Armed(sink, susp, inFlight) /\ inFlight' = inFlight
<1> DEFINE P == /\ fwd' = fwd
                /\ inFlight' = inFlight \/ (inFlight' = 0 /\ sink # NoConn /\ sink' = NoConn)
                /\ \/ idleTmr' = idleTmr /\ inFlight' = inFlight
                   \/ idleTmr' = FALSE
                   \/ \E susp \in {suspending, FALSE} :
                         idleTmr' = Armed(sink, susp, inFlight) /\ inFlight' = inFlight
<1>1. ASSUME UNCHANGED <<fwd, inFlight, idleTmr>> PROVE P
  BY <1>1, Zenon
<1>2. CASE OnEvent
  BY <1>2, Zenon DEF OnEvent, OnEventDeliver, OnEventHold, OnEventResume
<1>3. CASE ResumeOk \/ ResumeErr \/ IdleFires \/ OnIdle \/ SuspendOk
  BY <1>3, Zenon DEF ResumeOk, ResumeErr, IdleFires, OnIdle, SuspendOk, sessionVars
<1>4. CASE SuspendErr
  BY <1>4, Zenon DEF SuspendErr
<1>5. ASSUME NEW p \in Procs, WriteStep(p) PROVE P
  <2>1. CASE NoteActivity(p)
    BY <2>1, Zenon DEF NoteActivity
  <2>2. CASE Check(p) \/ WriteOk(p) \/ WriteErr(p)
    BY <2>2, Zenon DEF Check, WriteOk, WriteErr, sessionVars
  <2> QED
    BY <1>5, <2>1, <2>2, Zenon DEF WriteStep
<1>6. ASSUME NEW c \in Conns, ConnStep(c) PROVE P
  <2>1. CASE Attach(c) \/ ArmFallback(c) \/ FallbackFires(c) \/ CloseConn(c)
    BY <2>1, Zenon DEF Attach, ArmFallback, FallbackFires, CloseConn, sessionVars
  <2>2. CASE SettleOnAttach(c) \/ SettleOnFallback(c) \/ MarkReady(c)
    BY <2>2, Zenon DEF SettleOnAttach, SettleOnFallback, MarkReady, DeliverBufferedNow, sessionVars
  <2>3. CASE Ack(c)
    <3>1. fwd' = fwd /\ inFlight' = inFlight /\ idleTmr' = Armed(sink, suspending, inFlight)
      BY <2>3, Zenon DEF Ack, AckFrame
    <3> QED
      BY <3>1, Zenon
  <2>4. CASE Detach(c)
    <3>1. c # NoConn
      BY ConnsAssumption
    <3> QED
      BY <2>4, <3>1, Zenon DEF Detach
  <2> QED
    BY <1>6, <2>1, <2>2, <2>3, <2>4, Zenon DEF ConnStep
<1>7. CASE UNCHANGED vars
  BY <1>7, Zenon DEF vars, sessionVars
<1> QED
  BY <1>2, <1>3, <1>4, <1>5, <1>6, <1>7, Zenon DEF Next

\* The counter never exceeds the forwards under way, and while it is not zero no
\* idle timer runs, although Detach zeroes it under forwards that end later.
THEOREM ForwardsAlwaysCounted == Spec => []ForwardsCounted
<1>1. Init => ForwardsCounted
  <2> SUFFICES ASSUME Init PROVE ForwardsCounted
    OBVIOUS
  <2>1. inFlight = 0 /\ ~idleTmr
    BY Zenon DEF Init
  <2> QED
    BY <2>1, SendingFinite DEF ForwardsCounted, Sending
<1>2. TypeInv /\ ForwardsCounted /\ [Next]_vars => ForwardsCounted'
  <2> SUFFICES ASSUME TypeInv, ForwardsCounted, [Next]_vars PROVE ForwardsCounted'
    OBVIOUS
  <2>1. /\ inFlight \in Nat /\ Cardinality(Sending) \in Nat
        /\ inFlight <= Cardinality(Sending) /\ (inFlight > 0 => ~idleTmr)
    BY SendingFinite DEF TypeInv, TypeOK, FieldsOK, ForwardsCounted, Sending
  <2>2. ASSUME NEW f \in Forwards, BeginForward(f) \/ EndForward(f) PROVE ForwardsCounted'
    <3>1. inFlight' <= Cardinality(Sending')
      BY <2>1, <2>2, ForwardCount DEF Decremented
    <3>2. inFlight' \in Nat
      BY <2>1, <2>2 DEF BeginForward, EndForward, Decremented
    <3>3. inFlight' > 0 => ~idleTmr'
      <4>1. CASE BeginForward(f)
        BY <4>1, Zenon DEF BeginForward
      <4>2. CASE EndForward(f)
        <5>1. idleTmr' = Armed(sink, suspending, inFlight')
          BY <4>2, Zenon DEF EndForward
        <5>2. inFlight' > 0 => ~Armed(sink, suspending, inFlight')
          BY <3>2 DEF Armed
        <5> QED
          BY <5>1, <5>2, Zenon
      <4> QED
        BY <2>2, <4>1, <4>2
    <3> QED
      BY <3>1, <3>3, Zenon DEF ForwardsCounted, Sending
  <2>3. CASE \A f \in Forwards : ~BeginForward(f) /\ ~EndForward(f)
    <3>1. /\ fwd' = fwd
          /\ inFlight' = inFlight \/ (inFlight' = 0 /\ sink # NoConn /\ sink' = NoConn)
          /\ \/ idleTmr' = idleTmr /\ inFlight' = inFlight
             \/ idleTmr' = FALSE
             \/ \E susp \in {suspending, FALSE} :
                   idleTmr' = Armed(sink, susp, inFlight) /\ inFlight' = inFlight
      BY <2>3, IdleCases, Zenon
    <3>2. Sending' = Sending
      BY <3>1 DEF Sending
    <3>3. inFlight' <= Cardinality(Sending')
      BY <2>1, <3>1, <3>2
    <3>4. \A susp : inFlight > 0 => ~Armed(sink, susp, inFlight)
      BY <2>1, ArmedMeansNone
    <3>5. inFlight' > 0 => ~idleTmr'
      BY <2>1, <3>1, <3>4, Zenon
    <3> QED
      BY <3>3, <3>5, Zenon DEF ForwardsCounted, Sending
  <2> QED
    BY <2>2, <2>3, Zenon
<1> QED
  BY <1>1, <1>2, TypeInvariant, PTL DEF Spec

\* A suspend starts in onIdle alone, which has just read a zero count.
LEMMA SuspendStarts ==
  ASSUME TypeInv, [Next]_vars, suspendCalls' > suspendCalls
  PROVE  inFlight = 0 /\ fwd' = fwd /\ inFlight' = inFlight
<1>1. suspendCalls \in Nat /\ inFlight \in Nat
  BY DEF TypeInv, TypeOK, CallsOK, FieldsOK
<1>2. suspendCalls' # suspendCalls
  BY <1>1
<1>3. CASE OnIdle
  <2>1. ~ReturnsEarly
    BY <1>2, <1>3 DEF OnIdle
  <2> QED
    BY <1>1, <1>3, <2>1 DEF OnIdle, ReturnsEarly
<1>4. CASE SuspendOk \/ SuspendErr
  <2>1. suspendCalls' = suspendCalls - 1
    BY <1>4, Zenon DEF SuspendOk, SuspendErr
  <2> QED
    BY <1>1, <2>1
<1>5. CASE OnEvent \/ ResumeOk \/ ResumeErr \/ IdleFires
  BY <1>2, <1>5, Zenon
     DEF OnEvent, OnEventDeliver, OnEventHold, OnEventResume, ResumeOk, ResumeErr, IdleFires, callVars
<1>6. ASSUME NEW p \in Procs, WriteStep(p) PROVE FALSE
  BY <1>2, <1>6, Zenon DEF WriteStep, Check, WriteOk, WriteErr, NoteActivity, callVars
<1>7. ASSUME NEW c \in Conns, ConnStep(c) PROVE FALSE
  <2>1. CASE Attach(c) \/ ArmFallback(c) \/ FallbackFires(c) \/ Ack(c) \/ Detach(c) \/ CloseConn(c)
    BY <1>2, <2>1, Zenon DEF Attach, ArmFallback, FallbackFires, Ack, Detach, CloseConn, callVars
  <2>2. CASE SettleOnAttach(c) \/ SettleOnFallback(c) \/ MarkReady(c)
    BY <1>2, <2>2, Zenon DEF SettleOnAttach, SettleOnFallback, MarkReady, DeliverBufferedNow, callVars
  <2> QED
    BY <1>7, <2>1, <2>2 DEF ConnStep
<1>8. ASSUME NEW f \in Forwards, BeginForward(f) \/ EndForward(f) PROVE FALSE
  BY <1>2, <1>8, Zenon DEF BeginForward, EndForward, callVars
<1>9. CASE UNCHANGED vars
  BY <1>2, <1>9, Zenon DEF vars, callVars
<1> QED
  BY <1>3, <1>4, <1>5, <1>6, <1>7, <1>8, <1>9 DEF Next

\* A suspend under a forward needs an earlier Detach: as long as the count is exact
\* onIdle refuses, and every step but the end of the current connection keeps it exact.
THEOREM MidSendOnlyAfterDetach == Spec => MidSendNeedsDetach
<1> DEFINE A == inFlight = Cardinality(Sending) =>
                  /\ suspendCalls' > suspendCalls => Sending = {}
                  /\ inFlight' = Cardinality(Sending') \/ (sink # NoConn /\ sink' = NoConn)
<1>1. TypeInv /\ [Next]_vars => [A]_vars
  <2> SUFFICES ASSUME TypeInv, [Next]_vars, inFlight = Cardinality(Sending)
               PROVE  /\ suspendCalls' > suspendCalls => Sending = {}
                      /\ inFlight' = Cardinality(Sending') \/ (sink # NoConn /\ sink' = NoConn)
    OBVIOUS
  <2>1. suspendCalls' > suspendCalls => Sending = {}
    <3>1. ASSUME suspendCalls' > suspendCalls PROVE Cardinality(Sending) = 0
      BY <3>1, SuspendStarts
    <3> QED
      BY <3>1, SendingFinite, FS_EmptySet
  <2>2. ASSUME NEW f \in Forwards, BeginForward(f) \/ EndForward(f)
        PROVE  inFlight' = Cardinality(Sending')
    BY <2>2, ForwardCount, SendingFinite DEF Decremented
  <2>3. CASE \A f \in Forwards : ~BeginForward(f) /\ ~EndForward(f)
    <3>1. /\ fwd' = fwd
          /\ inFlight' = inFlight \/ (sink # NoConn /\ sink' = NoConn)
      BY <2>3, IdleCases, Zenon
    <3>2. Sending' = Sending
      BY <3>1 DEF Sending
    <3> QED
      BY <2>1, <3>1, <3>2
  <2> QED
    BY <2>1, <2>2, <2>3, Zenon
<1>2. MidSendNeedsDetach <=> [][A]_vars
  BY DEF MidSendNeedsDetach
<1> QED
  BY <1>1, <1>2, TypeInvariant, PTL DEF Spec

-----------------------------------------------------------------------------
(* The countdown.                                                          *)

\* settled belongs to a connection, so armIdleLocked does not refuse for want of
\* one when the last thing that holds off the countdown ends.
SettledConnected == settled => sink # NoConn

IdleInv == SettledConnected /\ AgesOut

LEMMA SettledStep == SettledConnected /\ [Next]_vars => SettledConnected'
<1> SUFFICES ASSUME SettledConnected, [Next]_vars PROVE SettledConnected'
  OBVIOUS
<1> USE DEF SettledConnected
<1>1. ASSUME UNCHANGED <<sink, settled>> PROVE SettledConnected'
  BY <1>1, Zenon
<1>2. CASE OnEvent
  BY <1>1, <1>2, Zenon DEF OnEvent, OnEventDeliver, OnEventHold, OnEventResume
<1>3. CASE ResumeOk \/ ResumeErr \/ IdleFires \/ OnIdle \/ SuspendOk \/ SuspendErr
  BY <1>1, <1>3, Zenon
     DEF ResumeOk, ResumeErr, IdleFires, OnIdle, SuspendOk, SuspendErr, sessionVars
<1>4. ASSUME NEW p \in Procs, WriteStep(p) PROVE SettledConnected'
  BY <1>1, <1>4, Zenon DEF WriteStep, Check, WriteOk, WriteErr, NoteActivity, sessionVars
<1>5. ASSUME NEW f \in Forwards, BeginForward(f) \/ EndForward(f) PROVE SettledConnected'
  BY <1>1, <1>5, Zenon DEF BeginForward, EndForward
<1>6. ASSUME NEW c \in Conns, ConnStep(c) PROVE SettledConnected'
  <2>1. CASE Attach(c) \/ Detach(c)
    BY <1>1, <2>1, Zenon DEF Attach, AdoptSink, Detach
  <2>2. CASE ArmFallback(c) \/ FallbackFires(c) \/ Ack(c) \/ CloseConn(c)
    BY <1>1, <2>2, Zenon DEF ArmFallback, FallbackFires, Ack, CloseConn, sessionVars
  <2>3. ASSUME NEW p, DeliverBufferedNow(p, c) PROVE SettledConnected'
    <3>1. c # NoConn
      BY ConnsAssumption
    <3>2. UNCHANGED <<sink, settled>> \/ (sink = c /\ sink' = sink)
      BY <2>3, Zenon DEF DeliverBufferedNow, sessionVars
    <3> QED
      BY <1>1, <3>1, <3>2, Zenon
  <2> QED
    BY <1>6, <2>1, <2>2, <2>3 DEF ConnStep, SettleOnAttach, SettleOnFallback, MarkReady
<1>7. CASE UNCHANGED vars
  BY <1>1, <1>7, Zenon DEF vars, sessionVars
<1> QED
  BY <1>2, <1>3, <1>4, <1>5, <1>6, <1>7 DEF Next

\* armIdleLocked on a connected session: the timer runs, or a suspend or a forward
\* is under way that will call it again.
LEMMA ArmedOrHeld ==
  ASSUME IdleGrace, NEW snk, snk # NoConn, NEW susp, NEW n \in Nat
  PROVE  Armed(snk, susp, n) \/ susp \/ n > 0
<1>1. n = 0 \/ n > 0
  OBVIOUS
<1> QED
  BY <1>1, Zenon DEF Armed

\* A process keeps the noteActivity call it owes, unless it makes it now.
LEMMA OwedNoteKept ==
  ASSUME TypeInv, [Next]_vars, NEW p \in Procs, WillNote(p), ~NoteActivity(p)
  PROVE  WillNote(p)'
<1>1. /\ pc \in [Procs -> PC] /\ after \in [Procs -> PC]
      /\ pc[p] = "note" \/ (pc[p] \in {"check", "write"} /\ after[p] = "note")
  BY DEF TypeInv, TypeOK, ProcsOK, WillNote
<1>2. ASSUME pc'[p] = pc[p], after'[p] = after[p] PROVE WillNote(p)'
  BY <1>1, <1>2 DEF WillNote
<1>3. CASE UNCHANGED deliveryVars \/ Hold
  <2>1. UNCHANGED <<pc, after>>
    BY <1>3 DEF deliveryVars, procVars, Hold, OnEventHold, OnEventResume
  <2> QED
    BY <1>2, <2>1
<1>4. CASE OnEventDeliver
  BY <1>1, <1>2, <1>4, ProcFacts DEF OnEventDeliver, Buffered, Deliver
<1>5. ASSUME NEW q \in Procs, Check(q) \/ WriteOk(q) \/ WriteErr(q) \/ NoteActivity(q)
      PROVE  WillNote(p)'
  <2>1. CASE q # p
    BY <1>1, <1>2, <1>5, <2>1 DEF Check, WriteOk, WriteErr, NoteActivity, Finish
  <2>2. CASE q = p
    <3>1. after' = after /\ (pc'[p] \in {"check", "write"} \/ pc'[p] = after[p])
      BY <1>1, <1>5, <2>2 DEF Check, WriteOk, WriteErr, Finish
    <3>2. pc[p] \in {"check", "write"}
      BY <1>5, <2>2 DEF Check, WriteOk, WriteErr
    <3> QED
      BY <1>1, <3>1, <3>2 DEF WillNote
  <2> QED
    BY <2>1, <2>2
<1>6. ASSUME NEW c \in Conns, NEW q \in Procs, Batch(q, c) PROVE WillNote(p)'
  <2>1. pc[q] \in {"settle", "read"}
    BY <1>6 DEF Batch
  <2>2. CASE BatchDelivers(q, c)
    BY <1>1, <1>2, <2>1, <2>2 DEF BatchDelivers, Deliver
  <2>3. CASE BatchSkips(q, c)
    BY <1>1, <1>2, <2>1, <2>3 DEF BatchSkips
  <2> QED
    BY <1>6, <2>2, <2>3, BatchCases
<1>7. ASSUME NEW c \in Conns, Attach(c) \/ ArmFallback(c) \/ Ack(c) \/ Detach(c) \/ CloseConn(c)
      PROVE  WillNote(p)'
  BY <1>1, <1>2, <1>7, ProcFacts DEF Attach, ArmFallback, Ack, Detach, CloseConn, procVars
<1>8. ASSUME NEW c \in Conns, FallbackFires(c) PROVE WillNote(p)'
  <2>1. pc[Timer(c)] = "idle"
    BY <1>8 DEF FallbackFires, TypeInv, ControlInv
  <2> QED
    BY <1>1, <1>2, <1>8, <2>1, ProcFacts DEF FallbackFires
<1> QED
  BY <1>3, <1>4, <1>5, <1>6, <1>7, <1>8, NextCases

\* The flag is set, or something other than a pending noteActivity restarts or ends
\* the countdown.
Held == idleTmr \/ idleCalls > 0 \/ suspending \/ inFlight > 0

\* When no goroutine owes a noteActivity, every step that leaves the session settled
\* leaves it held, or makes a goroutine owe one.
LEMMA HeldStep ==
  ASSUME TypeInv, SettledConnected, [Next]_vars, IdleGrace, settled', settled => Held,
         \A p \in Procs : ~NoteActivity(p)
  PROVE  Held' \/ \E p \in Procs : WillNote(p)'
<1>1. inFlight \in Nat /\ idleCalls \in Nat
  BY DEF TypeInv, TypeOK, FieldsOK, CallsOK
<1>2. ASSUME settled' = settled, UNCHANGED <<idleTmr, idleCalls, suspending, inFlight>>
      PROVE  Held'
  BY <1>2, Zenon DEF Held
<1>3. ASSUME settled' = settled, sink' = sink, NEW susp, NEW n \in Nat,
             idleTmr' = Armed(sink, susp, n), suspending' = susp, inFlight' = n
      PROVE  Held'
  <2>1. sink # NoConn
    BY <1>3, Zenon DEF SettledConnected
  <2>2. Armed(sink, susp, n) \/ susp \/ n > 0
    BY <2>1, ArmedOrHeld
  <2> QED
    BY <1>3, <2>2, Zenon DEF Held
<1>4. CASE OnEvent
  BY <1>2, <1>4, Zenon DEF OnEvent, OnEventDeliver, OnEventHold, OnEventResume, callVars
<1>5. CASE ResumeOk \/ ResumeErr \/ SuspendOk
  BY <1>2, <1>5, Zenon DEF ResumeOk, ResumeErr, SuspendOk, sessionVars
<1>6. CASE SuspendErr
  <2>1. /\ settled' = settled /\ sink' = sink /\ suspending' = FALSE /\ inFlight' = inFlight
        /\ idleTmr' = Armed(sink, FALSE, inFlight)
    BY <1>6, Zenon DEF SuspendErr
  <2> QED
    BY <1>1, <1>3, <2>1
<1>7. CASE IdleFires
  <2>1. idleCalls' > 0
    BY <1>1, <1>7 DEF IdleFires
  <2> QED
    BY <2>1, Zenon DEF Held
<1>8. CASE OnIdle
  <2>1. sink # NoConn
    BY <1>8, Zenon DEF OnIdle, SettledConnected
  <2>2. suspending' \/ (inFlight > 0 /\ inFlight' = inFlight)
    <3>1. inFlight' = inFlight
      BY <1>8, Zenon DEF OnIdle
    <3>2. CASE suspending \/ inFlight > 0
      <4>1. suspending' = suspending
        BY <1>8, <3>2, Zenon DEF OnIdle, ReturnsEarly
      <4> QED
        BY <3>1, <3>2, <4>1, Zenon
    <3>3. CASE ~(suspending \/ inFlight > 0)
      <4>1. suspending' = TRUE
        BY <1>8, <2>1, <3>3, Zenon DEF OnIdle, ReturnsEarly
      <4> QED
        BY <4>1, Zenon
    <3> QED
      BY <3>2, <3>3, Zenon
  <2>3. suspending' \/ inFlight' > 0
    BY <2>2, Zenon
  <2> QED
    BY <2>3, Zenon DEF Held
<1>9. ASSUME NEW p \in Procs, WriteStep(p) PROVE Held'
  <2>1. Check(p) \/ WriteOk(p) \/ WriteErr(p)
    BY <1>9, Zenon DEF WriteStep
  <2> QED
    BY <1>2, <2>1, Zenon DEF Check, WriteOk, WriteErr, sessionVars, callVars
<1>10. ASSUME NEW f \in Forwards, BeginForward(f) PROVE Held'
  <2>1. inFlight' > 0
    BY <1>1, <1>10 DEF BeginForward
  <2> QED
    BY <2>1, Zenon DEF Held
<1>11. ASSUME NEW f \in Forwards, EndForward(f) PROVE Held'
  <2>1. /\ settled' = settled /\ sink' = sink /\ suspending' = suspending
        /\ idleTmr' = Armed(sink, suspending, inFlight')
    BY <1>11, Zenon DEF EndForward
  <2>2. inFlight' \in Nat
    BY <1>1, <1>11 DEF EndForward, Decremented
  <2> QED
    BY <1>3, <2>1, <2>2
<1>12. ASSUME NEW c \in Conns, ConnStep(c) PROVE Held' \/ \E p \in Procs : WillNote(p)'
  <2>1. CASE Attach(c)
    BY <2>1, Zenon DEF Attach, AdoptSink
  <2>2. CASE ArmFallback(c) \/ FallbackFires(c) \/ CloseConn(c)
    BY <1>2, <2>2, Zenon DEF ArmFallback, FallbackFires, CloseConn, sessionVars, callVars
  <2>3. CASE Ack(c)
    <3>1. /\ settled' = settled /\ sink' = sink /\ suspending' = suspending
          /\ inFlight' = inFlight /\ idleTmr' = Armed(sink, suspending, inFlight)
      BY <2>3, Zenon DEF Ack, AckFrame
    <3> QED
      BY <1>1, <1>3, <3>1
  <2>4. CASE Detach(c)
    BY <1>2, <2>4, Zenon DEF Detach
  <2>5. ASSUME NEW p \in Procs, DeliverBufferedNow(p, c) PROVE Held' \/ \E q \in Procs : WillNote(q)'
    <3>1. CASE UNCHANGED sessionVars /\ UNCHANGED callVars
      BY <1>2, <3>1, Zenon DEF sessionVars, callVars
    <3>2. CASE Deliver(p, c, buffer)
      <4>1. pc'[p] = "check" /\ after'[p] = "note"
        BY <3>2 DEF Deliver, TypeInv, TypeOK, ProcsOK
      <4> QED
        BY <4>1 DEF WillNote
    <3> QED
      BY <2>5, <3>1, <3>2, Zenon DEF DeliverBufferedNow
  <2>6. Handler(c) \in Procs /\ Timer(c) \in Procs
    BY ProcFacts
  <2> QED
    BY <1>12, <2>1, <2>2, <2>3, <2>4, <2>5, <2>6
       DEF ConnStep, SettleOnAttach, SettleOnFallback, MarkReady
<1>13. CASE UNCHANGED vars
  BY <1>2, <1>13, Zenon DEF vars, sessionVars, callVars
<1> QED
  BY <1>4, <1>5, <1>6, <1>7, <1>8, <1>9, <1>10, <1>11, <1>12, <1>13 DEF Next

LEMMA AgesStep == TypeInv /\ IdleInv /\ [Next]_vars => AgesOut'
<1> SUFFICES ASSUME TypeInv, SettledConnected, AgesOut, [Next]_vars, IdleGrace, settled'
             PROVE  Held' \/ \E p \in Procs : WillNote(p)'
  BY Zenon DEF IdleInv, AgesOut, Held
<1>1. CASE \E p \in Procs : WillNote(p) /\ ~NoteActivity(p)
  BY <1>1, OwedNoteKept
<1>2. ASSUME NEW p \in Procs, NoteActivity(p) PROVE Held'
  <2>1. /\ sink' = sink /\ settled' = settled /\ suspending' = suspending
        /\ inFlight' = inFlight /\ idleTmr' = Armed(sink, suspending, inFlight)
    BY <1>2, Zenon DEF NoteActivity
  <2>2. sink # NoConn /\ inFlight \in Nat
    BY <2>1 DEF SettledConnected, TypeInv, TypeOK, FieldsOK
  <2>3. Armed(sink, suspending, inFlight) \/ suspending \/ inFlight > 0
    BY <2>2, ArmedOrHeld
  <2> QED
    BY <2>1, <2>3, Zenon DEF Held
<1>3. CASE \A p \in Procs : ~NoteActivity(p) /\ ~WillNote(p)
  <2>1. settled => Held
    BY <1>3, Zenon DEF AgesOut, Held
  <2> QED
    BY <1>3, <2>1, HeldStep
<1> QED
  BY <1>1, <1>2, <1>3

\* No interleaving of deliveries, acks, forwards, late idle callbacks, failed
\* suspends and disconnects leaves a settled connection on which no suspend was
\* started without its countdown.
THEOREM AlwaysAgesOut == Spec => []AgesOut
<1>1. Init => IdleInv
  BY Zenon DEF Init, IdleInv, SettledConnected, AgesOut
<1>2. TypeInv /\ IdleInv /\ [Next]_vars => IdleInv'
  BY SettledStep, AgesStep DEF IdleInv
<1>3. IdleInv => AgesOut
  BY DEF IdleInv
<1> QED
  BY <1>1, <1>2, <1>3, TypeInvariant, PTL DEF Spec
=============================================================================
