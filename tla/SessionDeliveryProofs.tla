----------------------- MODULE SessionDeliveryProofs -----------------------
(***************************************************************************)
(* The session implements Delivery: no unacked event is dropped, no event  *)
(* is acked undelivered, none is written twice to one connection.          *)
(***************************************************************************)
EXTENDS SessionProofs

\* The event frames on some wire or in the hands of some process.
Sent == {x \in EventFrames : \/ \E c \in Conns : x \in ToSet(wire[c])
                             \/ \E p \in Procs : x \in ToSet(frames[p])}

\* A stamp is known exactly while its event is buffered, and ids never clash.
StampInv ==
  /\ \A g \in freshIDs : g.id <= nextID /\ g.key \in ToSet(buffer)
  /\ \A g, h \in freshIDs : g.id = h.id => g = h
  /\ \A f \in Sent : /\ f.id <= nextID /\ f.key < nextKey
                     /\ f.key \in ToSet(buffer) => f \in freshIDs
                     /\ \A g \in freshIDs : g.id = f.id => g = f

\* No event is held twice for one connection, or held for a connection it was
\* already written to.
OnceInv ==
  /\ \A p \in Procs : \A i, j \in DOMAIN frames[p] :
       (/\ i # j
        /\ frames[p][i] \in EventFrames
        /\ frames[p][j] \in EventFrames) => frames[p][i].key # frames[p][j].key
  /\ \A p \in Procs, c \in Conns : to[p] = c => KeysHeld(p) \cap KeysOn(c) = {}
  /\ \A p, q \in Procs : (p # q /\ to[p] = to[q]) => KeysHeld(p) \cap KeysHeld(q) = {}
  /\ \A c \in Conns : (sink = c /\ ~settled) =>
       /\ KeysOn(c) = {}
       /\ \A p \in Procs : to[p] = c => KeysHeld(p) = {}
  /\ \A c \in Conns : pc[Handler(c)] = "new" =>
       sink # c /\ KeysOn(c) = {} /\ \A p \in Procs : to[p] # c

-----------------------------------------------------------------------------
(* Sequences of frames and the sets they carry.                            *)

LEMMA ToSetFacts ==
  ASSUME NEW S, NEW s \in Seq(S)
  PROVE  /\ \A x : x \in ToSet(s) <=> \E i \in 1..Len(s) : s[i] = x
         /\ ToSet(s) \subseteq S
         /\ \A x \in S : ToSet(Append(s, x)) = ToSet(s) \cup {x}
         /\ s # <<>> => /\ Head(s) \in ToSet(s) /\ Head(s) \in S
                        /\ ToSet(Tail(s)) \subseteq ToSet(s)
                        /\ ToSet(s) = {Head(s)} \cup ToSet(Tail(s))
         /\ ToSet(<<>>) = {}
<1>1. DOMAIN s = 1..Len(s) /\ Len(s) \in Nat /\ \A i \in 1..Len(s) : s[i] \in S
  OBVIOUS
<1>2. \A x : x \in ToSet(s) <=> \E i \in 1..Len(s) : s[i] = x
  BY <1>1 DEF ToSet
<1>3. ToSet(s) \subseteq S
  BY <1>1, <1>2
<1>4. ASSUME NEW x \in S PROVE ToSet(Append(s, x)) = ToSet(s) \cup {x}
  <2> DEFINE t == Append(s, x)
  <2>1. /\ DOMAIN t = 1..(Len(s) + 1)
        /\ \A i \in 1..Len(s) : t[i] = s[i]
        /\ t[Len(s) + 1] = x
    BY <1>1
  <2> HIDE DEF t
  <2> QED
    BY <1>1, <2>1 DEF ToSet, t
<1>5. ASSUME s # <<>>
      PROVE  /\ Head(s) \in ToSet(s) /\ Head(s) \in S
             /\ ToSet(s) = {Head(s)} \cup ToSet(Tail(s))
  <2> DEFINE t == Tail(s)
  <2>1. /\ Len(s) > 0 /\ Head(s) = s[1]
        /\ DOMAIN t = 1..(Len(s) - 1)
        /\ \A i \in 1..(Len(s) - 1) : t[i] = s[i + 1]
    BY <1>1, <1>5
  <2> HIDE DEF t
  <2>2. Head(s) \in ToSet(s) /\ Head(s) \in S
    BY <1>1, <2>1 DEF ToSet
  <2>3. ASSUME NEW x \in ToSet(t) PROVE x \in ToSet(s)
    BY <1>1, <2>1, <2>3 DEF ToSet
  <2>4. ASSUME NEW x \in ToSet(s), x # Head(s) PROVE x \in ToSet(t)
    <3>1. PICK i \in 1..Len(s) : s[i] = x
      BY <1>2
    <3>2. i # 1
      BY <2>1, <2>4, <3>1
    <3>3. i - 1 \in 1..(Len(s) - 1) /\ t[i - 1] = x
      BY <1>1, <2>1, <3>1, <3>2
    <3> QED
      BY <2>1, <3>3 DEF ToSet
  <2> QED
    BY <2>2, <2>3, <2>4 DEF t
<1>6. ToSet(<<>>) = {}
  BY DEF ToSet
<1> QED
  BY <1>2, <1>3, <1>4, <1>5, <1>6

\* Membership in Sent, unfolded.
LEMMA SentMember ==
  /\ \A f : f \in Sent <=> /\ f \in EventFrames
                           /\ \/ \E c \in Conns : f \in ToSet(wire[c])
                              \/ \E p \in Procs : f \in ToSet(frames[p])
  /\ \A f : f \in Sent' <=> /\ f \in EventFrames
                            /\ \/ \E c \in Conns : f \in ToSet(wire'[c])
                               \/ \E p \in Procs : f \in ToSet(frames'[p])
BY DEF Sent

\* A step that neither writes nor hands out frames leaves Sent alone or shrinks it.
LEMMA SentShrinks ==
  ASSUME UNCHANGED wire, \A p \in Procs : frames'[p] \in {frames[p], <<>>, <<HelloFrame>>}
  PROVE  Sent' \subseteq Sent
<1>1. ToSet(<<>>) = {} /\ \A f \in ToSet(<<HelloFrame>>) : f \notin EventFrames
  BY DEF ToSet, HelloFrame, EventFrames
<1> QED
  BY <1>1, SentMember

\* Writing a frame moves it from its process to the wire.
LEMMA SentWrite ==
  ASSUME TypeInv, NEW p \in Procs, WriteOk(p)
  PROVE  /\ to[p] \in Conns
         /\ frames[p] \in Seq(Frames) /\ frames[p] # <<>> /\ Head(frames[p]) \in Frames
         /\ ToSet(frames[p]) = {Head(frames[p])} \cup ToSet(frames'[p])
         /\ ToSet(wire'[to[p]]) = ToSet(wire[to[p]]) \cup {Head(frames[p])}
         /\ \A q \in Procs \ {p} : frames'[q] = frames[q]
         /\ \A c \in Conns \ {to[p]} : wire'[c] = wire[c]
         /\ Sent' \subseteq Sent
<1>1. /\ to[p] \in Conns /\ frames[p] \in Seq(Frames) /\ frames[p] # <<>>
      /\ wire[to[p]] \in Seq(Frames)
  BY DEF TypeInv, TypeOK, ProcsOK, NetOK, ControlInv, Writing, WriteOk
<1>2. /\ wire'[to[p]] = Append(wire[to[p]], Head(frames[p]))
      /\ frames'[p] = Tail(frames[p])
      /\ \A q \in Procs \ {p} : frames'[q] = frames[q]
      /\ \A c \in Conns \ {to[p]} : wire'[c] = wire[c]
  BY <1>1 DEF TypeInv, TypeOK, ProcsOK, NetOK, WriteOk
<1>3. /\ Head(frames[p]) \in Frames
      /\ ToSet(frames[p]) = {Head(frames[p])} \cup ToSet(frames'[p])
  BY <1>1, <1>2, ToSetFacts
<1>4. ToSet(wire'[to[p]]) = ToSet(wire[to[p]]) \cup {Head(frames[p])}
  BY <1>1, <1>2, <1>3, ToSetFacts
<1>5. Sent' \subseteq Sent
  BY <1>1, <1>2, <1>3, <1>4, SentMember
<1> QED
  BY <1>1, <1>2, <1>3, <1>4, <1>5

\* Handing out stamped frames adds exactly those to Sent.
LEMMA SentDeliver ==
  ASSUME TypeInv, UNCHANGED wire,
         NEW p \in Procs, NEW c \in Conns, NEW keys \in Seq(Nat), Deliver(p, c, keys)
  PROVE  Sent' \subseteq Sent \cup ToSet(Stamped(keys, nextID))
<1>1. /\ frames'[p] = Stamped(keys, nextID)
      /\ \A q \in Procs \ {p} : frames'[q] = frames[q]
  BY DeliverEffect DEF TypeInv, TypeOK
<1> QED
  BY <1>1, SentMember

-----------------------------------------------------------------------------
(* Stamps.                                                                 *)

\* New stamps for buffered keys keep StampInv.
LEMMA DeliverKeepsStamps ==
  ASSUME TypeInv, StampInv, UNCHANGED wire,
         NEW p \in Procs, NEW c \in Conns, NEW keys \in Seq(Nat), Deliver(p, c, keys),
         nextKey' \in Nat, nextKey' >= nextKey,
         ToSet(keys) \subseteq ToSet(buffer'),
         \A k \in ToSet(keys) : k < nextKey',
         ToSet(buffer) \subseteq ToSet(buffer'),
         \A k \in ToSet(buffer') : k \in ToSet(buffer) \/ k >= nextKey
  PROVE  StampInv'
<1> DEFINE st == Stamped(keys, nextID)
<1>1. /\ nextID \in Nat /\ nextKey \in Nat /\ freshIDs \in SUBSET EventFrames
      /\ Len(keys) \in Nat
  BY DEF TypeInv, TypeOK, FieldsOK
<1>2. /\ DOMAIN st = 1..Len(keys)
      /\ \A i \in 1..Len(keys) : st[i] = EventFrame(nextID + i, keys[i])
      /\ ToSet(st) \subseteq EventFrames
  BY <1>1, StampedFrames
<1>3. freshIDs' = freshIDs \cup ToSet(st) /\ nextID' = nextID + Len(keys)
  BY DEF Deliver
<1> HIDE DEF st
<1>4. ASSUME NEW g \in ToSet(st)
      PROVE  \E i \in 1..Len(keys) : /\ g = EventFrame(nextID + i, keys[i])
                                     /\ g.id = nextID + i /\ g.key = keys[i]
                                     /\ g.key \in ToSet(keys)
  BY <1>2 DEF ToSet, EventFrame
<1>5. ASSUME NEW g \in freshIDs' PROVE g.id <= nextID' /\ g.key \in ToSet(buffer')
  BY <1>1, <1>3, <1>4, <1>5 DEF StampInv, EventFrames
<1>6. \A g \in ToSet(st) : g.id > nextID /\ g.id <= nextID' /\ g.id \in Nat
  BY <1>1, <1>3, <1>4
<1>7. ASSUME NEW g \in freshIDs', NEW h \in freshIDs', g.id = h.id PROVE g = h
  <2>1. CASE g \in ToSet(st) /\ h \in ToSet(st)
    BY <1>1, <1>4, <1>7, <2>1
  <2>2. CASE g \in freshIDs /\ h \in freshIDs
    BY <1>7, <2>2 DEF StampInv
  <2>3. \A x \in freshIDs : x.id <= nextID /\ x.id \in Nat
    BY <1>1 DEF StampInv, EventFrames
  <2> QED
    BY <1>1, <1>3, <1>6, <1>7, <2>1, <2>2, <2>3
<1>9. \A x \in Sent : /\ x.id <= nextID /\ x.key < nextKey
                      /\ x.key \in ToSet(buffer) => x \in freshIDs
                      /\ \A y \in freshIDs : y.id = x.id => y = x
  BY Zenon DEF StampInv
<1>8. ASSUME NEW f \in Sent'
      PROVE  /\ f.id <= nextID' /\ f.key < nextKey'
             /\ f.key \in ToSet(buffer') => f \in freshIDs'
             /\ \A g \in freshIDs' : g.id = f.id => g = f
  <2>1. CASE f \in ToSet(st)
    <3>1. f \in freshIDs'
      BY <1>3, <2>1
    <3>2. f.id <= nextID' /\ f.key < nextKey'
      BY <1>4, <1>6, <2>1
    <3> QED
      BY <1>7, <3>1, <3>2
  <2>2. CASE f \in Sent
    <3>1. f.id \in Nat /\ f.key \in Nat
      BY <1>8, SentMember DEF EventFrames
    <3>2. f.id <= nextID /\ f.key < nextKey
      BY <1>1, <1>9, <2>2, <3>1
    <3>3. f.key \in ToSet(buffer') => f \in freshIDs
      BY <1>1, <1>9, <2>2, <3>1, <3>2
    <3>4. \A g \in freshIDs : g.id = f.id => g = f
      BY <1>9, <2>2, Zenon
    <3>5. \A g \in ToSet(st) : g.id # f.id
      BY <1>1, <1>6, <3>1, <3>2
    <3> QED
      BY <1>1, <1>3, <3>1, <3>2, <3>3, <3>4, <3>5
  <2> QED
    BY <1>8, <2>1, <2>2, SentDeliver DEF st
<1> QED
  BY <1>5, <1>7, <1>8 DEF StampInv

\* A step that keeps the session's event fields and does not add to Sent.
LEMMA QuietKeepsStamps ==
  ASSUME StampInv, Sent' \subseteq Sent, UNCHANGED <<buffer, nextKey, freshIDs, nextID>>
  PROVE  StampInv'
BY DEF StampInv

\* What each kind of step does to the frames, for the steps that hand out none.
LEMMA NoNewFrames ==
  ASSUME TypeInv, [Next]_vars, ~OnEventDeliver,
         ~\E c \in Conns, p \in Procs : BatchDelivers(p, c)
  PROVE  Sent' \subseteq Sent
<1> USE DEF sessionVars, callVars, procVars, netVars
<1>0. frames \in [Procs -> Seq(Frames)]
  BY DEF TypeInv, TypeOK, ProcsOK
<1>1. CASE UNCHANGED <<wire, frames>>
  BY <1>1, SentShrinks
<1>2. CASE Hold \/ UNCHANGED deliveryVars
  BY <1>1, <1>2 DEF Hold, OnEventHold, OnEventResume, deliveryVars
<1>3. CASE \E c \in Conns : ArmFallback(c) \/ FallbackFires(c) \/ Ack(c) \/ Detach(c) \/ CloseConn(c)
  BY <1>1, <1>3 DEF ArmFallback, FallbackFires, Ack, Detach, CloseConn
<1>4. CASE \E c \in Conns, p \in Procs : Batch(p, c)
  BY <1>1, <1>4, BatchCases DEF BatchSkips
<1>5. ASSUME NEW c \in Conns, Attach(c) PROVE Sent' \subseteq Sent
  <2>1. \A p \in Procs : frames'[p] \in {frames[p], <<>>, <<HelloFrame>>}
    BY <1>0, <1>5 DEF Attach
  <2> QED
    BY <1>5, <2>1, SentShrinks DEF Attach
<1>6. ASSUME NEW p \in Procs, Check(p) \/ WriteErr(p) \/ NoteActivity(p) PROVE Sent' \subseteq Sent
  <2>1. wire' = wire /\ \A q \in Procs : frames'[q] \in {frames[q], <<>>, <<HelloFrame>>}
    BY <1>0, <1>6 DEF Check, WriteErr, NoteActivity, Finish
  <2> QED
    BY <2>1, SentShrinks
<1>7. ASSUME NEW p \in Procs, WriteOk(p) PROVE Sent' \subseteq Sent
  BY <1>7, SentWrite
<1> QED
  BY <1>2, <1>3, <1>4, <1>5, <1>6, <1>7, NextCases

LEMMA StampStep == TypeInv /\ StampInv /\ [Next]_vars => StampInv'
<1> SUFFICES ASSUME TypeInv, StampInv, [Next]_vars
             PROVE  StampInv'
  OBVIOUS
<1> USE DEF sessionVars, callVars, procVars, netVars
<1>0. FieldsOK /\ BufferOrdered
  BY DEF TypeInv, TypeOK
<1>a. \A k \in ToSet(buffer) : k < nextKey /\ k \in Nat
  BY <1>0 DEF FieldsOK, BufferOrdered, ToSet
<1>1. CASE OnEventDeliver
  <2>1. /\ sink \in Conns /\ <<nextKey>> \in Seq(Nat) /\ nextKey \in Nat
        /\ ToSet(<<nextKey>>) = {nextKey}
    BY <1>0, <1>1 DEF OnEventDeliver, FieldsOK, ToSet
  <2>2. nextKey' = nextKey + 1 /\ ToSet(buffer') = ToSet(buffer) \cup {nextKey}
    BY <1>0, <1>1, BufferedEffect DEF OnEventDeliver
  <2>3. Deliver(Reader, sink, <<nextKey>>) /\ UNCHANGED wire
    BY <1>1 DEF OnEventDeliver
  <2>4. /\ nextKey' \in Nat /\ nextKey' >= nextKey
        /\ \A k \in ToSet(buffer') : k \in ToSet(buffer) \/ k >= nextKey
        /\ \A k \in ToSet(<<nextKey>>) : k < nextKey' /\ k \in ToSet(buffer')
    BY <2>1, <2>2
  <2>5. Reader \in Procs /\ ToSet(buffer) \subseteq ToSet(buffer')
    BY <2>2, ProcFacts
  <2> QED
    BY <2>1, <2>3, <2>4, <2>5, DeliverKeepsStamps
<1>2. ASSUME NEW c \in Conns, NEW p \in Procs, BatchDelivers(p, c) PROVE StampInv'
  <2>1. /\ Deliver(p, c, buffer) /\ UNCHANGED <<wire, buffer, nextKey>>
    BY <1>2 DEF BatchDelivers
  <2>2. buffer \in Seq(Nat) /\ nextKey \in Nat
    BY <1>0 DEF FieldsOK
  <2> QED
    BY <1>a, <2>1, <2>2, DeliverKeepsStamps
<1>3. CASE ~OnEventDeliver /\ ~\E c \in Conns, p \in Procs : BatchDelivers(p, c)
  <2>0. Sent' \subseteq Sent
    BY <1>3, NoNewFrames
  <2>1. CASE Hold
    <3>1. nextKey' = nextKey + 1 /\ nextKey \in Nat /\ ToSet(buffer') = ToSet(buffer) \cup {nextKey}
      BY <1>0, <2>1, BufferedEffect DEF Hold, OnEventHold, OnEventResume, FieldsOK
    <3>2. UNCHANGED <<freshIDs, nextID>>
      BY <2>1 DEF Hold, OnEventHold, OnEventResume
    <3>3. \A f \in Sent : f.key \in Nat /\ f.key < nextKey
      BY SentMember DEF StampInv, EventFrames
    <3> QED
      BY <2>0, <3>1, <3>2, <3>3 DEF StampInv
  <2>2. ASSUME NEW c \in Conns, Ack(c) PROVE StampInv'
    <3>1. PICK g \in freshIDs : /\ ToSet(buffer') = ToSet(buffer) \ {g.key}
                                /\ freshIDs' = {h \in freshIDs : h.key # g.key}
      BY <1>0, <2>2, AckEffect DEF Ack
    <3>2. UNCHANGED <<nextID, nextKey>>
      BY <2>2 DEF Ack
    <3> QED
      BY <2>0, <3>1, <3>2 DEF StampInv
  <2>3. CASE UNCHANGED <<buffer, nextKey, freshIDs, nextID>>
    BY <2>0, <2>3, QuietKeepsStamps
  <2>4. CASE UNCHANGED deliveryVars
    BY <2>3, <2>4 DEF deliveryVars
  <2>5. CASE \E p \in Procs : Check(p) \/ WriteOk(p) \/ WriteErr(p) \/ NoteActivity(p)
    BY <2>3, <2>5 DEF Check, WriteOk, WriteErr, NoteActivity
  <2>6. CASE \E c \in Conns, p \in Procs : Batch(p, c)
    BY <1>3, <2>3, <2>6, BatchCases DEF BatchSkips
  <2>7. CASE \E c \in Conns : Attach(c) \/ ArmFallback(c) \/ FallbackFires(c) \/ Detach(c) \/ CloseConn(c)
    BY <2>3, <2>7 DEF Attach, ArmFallback, FallbackFires, Detach, CloseConn
  <2> QED
    BY <1>3, <2>1, <2>2, <2>4, <2>5, <2>6, <2>7, NextCases
<1> QED
  BY <1>1, <1>2, <1>3

\* The stamps are sound in every reachable state: an ack removes its own event
\* and no other (stampLocked and Ack of registry.go).
THEOREM StampsAlwaysSound == Spec => []StampsSound
<1>1. Init => StampInv
  <2>1. Init => Sent = {} /\ freshIDs = {}
    BY SentMember DEF Init, ToSet
  <2> QED
    BY <2>1 DEF StampInv
<1>2. TypeInv /\ StampInv => StampsSound
  <2> SUFFICES ASSUME TypeInv, StampInv PROVE StampsSound
    OBVIOUS
  <2>1. ASSUME NEW c \in Conns, NEW k \in KeysOn(c), k \in ToSet(buffer)
        PROVE  \E g \in freshIDs : g.key = k /\ g \in ToSet(wire[c])
    <3>1. PICK f \in ToSet(wire[c]) \cap EventFrames : f.key = k
      BY DEF KeysOn
    <3>2. f \in Sent
      BY <3>1, SentMember
    <3> QED
      BY <2>1, <3>1, <3>2 DEF StampInv
  <2> QED
    BY <2>1 DEF StampInv, StampsSound
<1> QED
  BY <1>1, <1>2, StampStep, TypeInvariant, PTL DEF Spec

-----------------------------------------------------------------------------
(* At most once per connection.                                            *)

\* Membership in KeysOn and KeysHeld, unfolded, before and after a step.
LEMMA KeysMember ==
  /\ \A c, k : k \in KeysOn(c) <=> \E x \in ToSet(wire[c]) : x \in EventFrames /\ x.key = k
  /\ \A p, k : k \in KeysHeld(p) <=> \E x \in ToSet(frames[p]) : x \in EventFrames /\ x.key = k
  /\ \A c, k : k \in KeysOn(c)' <=> \E x \in ToSet(wire'[c]) : x \in EventFrames /\ x.key = k
  /\ \A p, k : k \in KeysHeld(p)' <=> \E x \in ToSet(frames'[p]) : x \in EventFrames /\ x.key = k
BY DEF KeysOn, KeysHeld

\* What leaves the two key sets alone, or empties them.
LEMMA KeysKept ==
  /\ \A c : wire'[c] = wire[c] => KeysOn(c)' = KeysOn(c)
  /\ \A p : frames'[p] = frames[p] => KeysHeld(p)' = KeysHeld(p)
  /\ \A p : frames'[p] \in {<<>>, <<HelloFrame>>} => KeysHeld(p)' = {}
<1>1. /\ HelloFrame \notin EventFrames
      /\ ToSet(<<>>) = {} /\ ToSet(<<HelloFrame>>) = {HelloFrame}
  BY DEF HelloFrame, EventFrames, ToSet
<1>2. ASSUME NEW c, wire'[c] = wire[c] PROVE KeysOn(c)' = KeysOn(c)
  BY <1>2, Zenon DEF KeysOn
<1>3. ASSUME NEW p, frames'[p] = frames[p] PROVE KeysHeld(p)' = KeysHeld(p)
  BY <1>3, Zenon DEF KeysHeld
<1>4. ASSUME NEW p, frames'[p] \in {<<>>, <<HelloFrame>>} PROVE KeysHeld(p)' = {}
  BY <1>1, <1>4, KeysMember
<1> QED
  BY <1>2, <1>3, <1>4

\* The connection part of OnceInv.
FreshConnInv ==
  /\ \A c \in Conns : (sink = c /\ ~settled) =>
       /\ KeysOn(c) = {}
       /\ \A p \in Procs : to[p] = c => KeysHeld(p) = {}
  /\ \A c \in Conns : pc[Handler(c)] = "new" =>
       sink # c /\ KeysOn(c) = {} /\ \A p \in Procs : to[p] # c

\* A step that writes no event and hands out none keeps OnceInv.
LEMMA QuietKeepsOnce ==
  ASSUME TypeInv, OnceInv, UNCHANGED wire,
         \A p \in Procs : \/ frames'[p] = frames[p] /\ to'[p] = to[p]
                          \/ frames'[p] \in {<<>>, <<HelloFrame>>},
         \A c \in Conns : (sink' = c /\ ~settled') =>
            (sink = c /\ ~settled) \/ pc[Handler(c)] = "new",
         \A c \in Conns : pc'[Handler(c)] = "new" =>
            pc[Handler(c)] = "new" /\ sink' # c /\ \A p \in Procs : to'[p] # c
  PROVE  OnceInv'
<1>1. /\ HelloFrame \notin EventFrames
      /\ ToSet(<<>>) = {} /\ ToSet(<<HelloFrame>>) = {HelloFrame}
      /\ DOMAIN <<HelloFrame>> = {1} /\ DOMAIN <<>> = {}
  BY DEF HelloFrame, EventFrames, ToSet
<1>2. \A c \in Conns : KeysOn(c)' = KeysOn(c)
  BY KeysKept
<1>3. \A p \in Procs : KeysHeld(p)' = {} \/ (KeysHeld(p)' = KeysHeld(p) /\ to'[p] = to[p])
  BY KeysKept
<1>4. \A p \in Procs : \A i, j \in DOMAIN frames'[p] :
         (/\ i # j
          /\ frames'[p][i] \in EventFrames
          /\ frames'[p][j] \in EventFrames) => frames'[p][i].key # frames'[p][j].key
  BY <1>1 DEF OnceInv
<1>5. \A p \in Procs, c \in Conns : to'[p] = c => KeysHeld(p)' \cap KeysOn(c)' = {}
  BY <1>2, <1>3 DEF OnceInv
<1>6. \A p, q \in Procs : (p # q /\ to'[p] = to'[q]) => KeysHeld(p)' \cap KeysHeld(q)' = {}
  BY <1>3 DEF OnceInv
<1>7. FreshConnInv'
  BY <1>2, <1>3 DEF OnceInv, FreshConnInv
<1> QED
  BY <1>4, <1>5, <1>6, <1>7 DEF OnceInv, FreshConnInv

\* Handing out, for connection c, distinct keys that c has neither seen nor is
\* about to see keeps OnceInv.
LEMMA DeliverKeepsOnce ==
  ASSUME TypeInv, OnceInv, UNCHANGED <<wire, sink>>, settled' = TRUE,
         NEW p \in Procs, NEW c \in Conns, sink = c, pc[p] # "new",
         NEW keys \in Seq(Nat), Deliver(p, c, keys),
         \A i, j \in DOMAIN keys : i # j => keys[i] # keys[j],
         \A k \in ToSet(keys) : k \notin KeysOn(c),
         \A k \in ToSet(keys), q \in Procs : to[q] = c => k \notin KeysHeld(q)
  PROVE  OnceInv'
<1>1. /\ frames'[p] = Stamped(keys, nextID) /\ to'[p] = c /\ pc'[p] = "check"
      /\ \A q \in Procs \ {p} : frames'[q] = frames[q] /\ to'[q] = to[q] /\ pc'[q] = pc[q]
  BY DeliverEffect DEF TypeInv, TypeOK
<1>2. nextID \in Nat
  BY DEF TypeInv, TypeOK, FieldsOK
<1>3. /\ DOMAIN Stamped(keys, nextID) = 1..Len(keys)
      /\ \A i \in 1..Len(keys) : Stamped(keys, nextID)[i] = EventFrame(nextID + i, keys[i])
  BY <1>2, StampedFrames
<1>4. KeysHeld(p)' \subseteq ToSet(keys)
  <2>1. \A x \in ToSet(Stamped(keys, nextID)) : x.key \in ToSet(keys)
    BY <1>3 DEF ToSet, EventFrame
  <2> QED
    BY <1>1, <2>1, KeysMember
<1>5. /\ \A d \in Conns : KeysOn(d)' = KeysOn(d)
      /\ \A q \in Procs \ {p} : KeysHeld(q)' = KeysHeld(q)
  BY <1>1, KeysKept
<1>6. \A q \in Procs : \A i, j \in DOMAIN frames'[q] :
         (/\ i # j
          /\ frames'[q][i] \in EventFrames
          /\ frames'[q][j] \in EventFrames) => frames'[q][i].key # frames'[q][j].key
  <2>1. \A i, j \in DOMAIN frames'[p] : i # j => frames'[p][i].key # frames'[p][j].key
    <3>1. /\ DOMAIN frames'[p] = 1..Len(keys) /\ DOMAIN keys = 1..Len(keys)
          /\ \A i \in 1..Len(keys) : frames'[p][i] = EventFrame(nextID + i, keys[i])
      BY <1>1, <1>3
    <3>2. \A i \in 1..Len(keys) : frames'[p][i].key = keys[i]
      <4>1. \A n, k : EventFrame(n, k).key = k
        BY DEF EventFrame
      <4>2. ASSUME NEW i \in 1..Len(keys) PROVE frames'[p][i].key = keys[i]
        <5>1. frames'[p][i] = EventFrame(nextID + i, keys[i])
          BY <3>1
        <5>2. EventFrame(nextID + i, keys[i]).key = keys[i]
          BY <4>1
        <5> QED
          BY <5>1, <5>2
      <4> QED
        BY <4>2
    <3>3. ASSUME NEW i \in 1..Len(keys), NEW j \in 1..Len(keys), i # j
          PROVE  frames'[p][i].key # frames'[p][j].key
      <4>1. keys[i] # keys[j]
        BY <3>1, <3>3, Zenon
      <4> QED
        BY <3>2, <4>1, Zenon
    <3> QED
      BY <3>1, <3>3, Zenon
  <2>2. ASSUME NEW q \in Procs, q # p, NEW i \in DOMAIN frames'[q], NEW j \in DOMAIN frames'[q],
               i # j, frames'[q][i] \in EventFrames, frames'[q][j] \in EventFrames
        PROVE  frames'[q][i].key # frames'[q][j].key
    BY <1>1, <2>2 DEF OnceInv
  <2> QED
    BY <2>1, <2>2
<1>7. \A q \in Procs, d \in Conns : to'[q] = d => KeysHeld(q)' \cap KeysOn(d)' = {}
  BY <1>1, <1>4, <1>5 DEF OnceInv
<1>8. \A q, r \in Procs : (q # r /\ to'[q] = to'[r]) => KeysHeld(q)' \cap KeysHeld(r)' = {}
  BY <1>1, <1>4, <1>5 DEF OnceInv
<1>9. FreshConnInv'
  <2>1. \A d \in Conns : ~(sink' = d /\ ~settled')
    OBVIOUS
  <2>2. ASSUME NEW d \in Conns, pc'[Handler(d)] = "new"
        PROVE  sink' # d /\ KeysOn(d)' = {} /\ \A q \in Procs : to'[q] # d
    <3>1. pc[Handler(d)] = "new"
      BY <1>1, <2>2, ProcFacts
    <3> QED
      BY <1>1, <1>5, <3>1 DEF OnceInv
  <2> QED
    BY <2>1, <2>2 DEF FreshConnInv
<1> QED
  BY <1>6, <1>7, <1>8, <1>9 DEF OnceInv, FreshConnInv

\* Writing the head frame keeps OnceInv, and an event written is new to the
\* connection it is written to.
LEMMA WriteKeepsOnce ==
  ASSUME TypeInv, OnceInv, NEW p \in Procs, WriteOk(p)
  PROVE  /\ OnceInv'
         /\ Head(frames[p]) \in EventFrames => Head(frames[p]).key \notin KeysOn(to[p])
<1>0. to[p] \in Conns
  BY SentWrite
<1>a. PICK c \in Conns : c = to[p]
  BY <1>0
<1> DEFINE h == Head(frames[p])
           isEvent == h \in EventFrames
<1>1. /\ c \in Conns /\ frames[p] \in Seq(Frames) /\ frames[p] # <<>>
      /\ ToSet(frames[p]) = {h} \cup ToSet(frames'[p])
      /\ ToSet(wire'[c]) = ToSet(wire[c]) \cup {h}
      /\ \A q \in Procs \ {p} : frames'[q] = frames[q]
      /\ \A d \in Conns \ {c} : wire'[d] = wire[d]
  BY <1>a, SentWrite
<1>2. /\ UNCHANGED <<sink, settled, to>>
      /\ \A q \in Procs : pc'[q] = "new" => pc[q] = "new"
  BY DEF WriteOk, sessionVars, TypeInv, TypeOK, ProcsOK
<1>3. /\ DOMAIN frames[p] = 1..Len(frames[p]) /\ Len(frames[p]) \in Nat /\ Len(frames[p]) > 0
      /\ h = frames[p][1]
      /\ DOMAIN frames'[p] = 1..(Len(frames[p]) - 1)
      /\ \A i \in 1..(Len(frames[p]) - 1) : frames'[p][i] = frames[p][i + 1]
  <2>1. frames'[p] = Tail(frames[p])
    BY DEF WriteOk, TypeInv, TypeOK, ProcsOK
  <2> QED
    BY <1>1, <2>1
<1> HIDE DEF h
<1>4. \A q \in Procs : \A i, j \in DOMAIN frames'[q] :
         (/\ i # j
          /\ frames'[q][i] \in EventFrames
          /\ frames'[q][j] \in EventFrames) => frames'[q][i].key # frames'[q][j].key
  <2>1. ASSUME NEW i \in DOMAIN frames'[p], NEW j \in DOMAIN frames'[p], i # j,
               frames'[p][i] \in EventFrames, frames'[p][j] \in EventFrames
        PROVE  frames'[p][i].key # frames'[p][j].key
    <3>1. /\ i + 1 \in DOMAIN frames[p] /\ j + 1 \in DOMAIN frames[p] /\ i + 1 # j + 1
          /\ frames'[p][i] = frames[p][i + 1] /\ frames'[p][j] = frames[p][j + 1]
      <4>1. i \in 1..(Len(frames[p]) - 1) /\ j \in 1..(Len(frames[p]) - 1)
        BY <1>3, <2>1
      <4>2. i + 1 \in 1..Len(frames[p]) /\ j + 1 \in 1..Len(frames[p]) /\ i + 1 # j + 1
        BY <1>3, <2>1, <4>1
      <4> QED
        BY <1>3, <4>1, <4>2
    <3> QED
      BY <2>1, <3>1 DEF OnceInv
  <2> QED
    BY <1>1, <2>1 DEF OnceInv
<1>5. ASSUME isEvent, NEW x \in ToSet(frames'[p]), x \in EventFrames PROVE x.key # h.key
  <2>1. PICK i \in 1..(Len(frames[p]) - 1) : x = frames[p][i + 1]
    BY <1>3 DEF ToSet
  <2>2. i + 1 \in DOMAIN frames[p] /\ 1 \in DOMAIN frames[p] /\ i + 1 # 1
    BY <1>3
  <2> QED
    BY <1>3, <1>5, <2>1, <2>2 DEF OnceInv
<1>6. /\ \A q \in Procs \ {p} : KeysHeld(q)' = KeysHeld(q)
      /\ \A d \in Conns \ {c} : KeysOn(d)' = KeysOn(d)
  BY <1>1, KeysKept
<1>7. CASE isEvent
  <2>1. /\ h.key \in KeysHeld(p) /\ KeysHeld(p)' \subseteq KeysHeld(p)
        /\ h.key \notin KeysHeld(p)'
    BY <1>1, <1>5, <1>7, KeysMember
  <2>2. KeysOn(c)' = KeysOn(c) \cup {h.key}
    BY <1>1, <1>7, KeysMember
  <2>3. h.key \notin KeysOn(c) /\ \A q \in Procs \ {p} : to[q] = c => h.key \notin KeysHeld(q)
    BY <1>1, <2>1, <1>a DEF OnceInv
  <2>4. \A q \in Procs, d \in Conns : to'[q] = d => KeysHeld(q)' \cap KeysOn(d)' = {}
    BY <1>1, <1>2, <1>6, <2>1, <2>2, <2>3 DEF OnceInv
  <2>5. \A q, r \in Procs : (q # r /\ to'[q] = to'[r]) => KeysHeld(q)' \cap KeysHeld(r)' = {}
    BY <1>2, <1>6, <2>1 DEF OnceInv
  <2>6. FreshConnInv'
    <3>1. ~(sink = c /\ ~settled) /\ pc[Handler(c)] # "new"
      BY <1>1, <2>1, <1>a DEF OnceInv
    <3> QED
      BY <1>2, <1>6, <2>1, <3>1, ProcFacts DEF OnceInv, FreshConnInv
  <2> QED
    BY <1>a, <1>4, <2>3, <2>4, <2>5, <2>6 DEF OnceInv, FreshConnInv, h
<1>8. CASE ~isEvent
  <2>1. KeysHeld(p)' = KeysHeld(p) /\ KeysOn(c)' = KeysOn(c)
    <3>1. \A k : k \in KeysHeld(p)' <=> k \in KeysHeld(p)
      BY <1>1, <1>8, KeysMember
    <3>2. \A k : k \in KeysOn(c)' <=> k \in KeysOn(c)
      BY <1>1, <1>8, KeysMember
    <3> QED
      BY <3>1, <3>2
  <2>2. \A q \in Procs, d \in Conns : to'[q] = d => KeysHeld(q)' \cap KeysOn(d)' = {}
    BY <1>1, <1>2, <1>6, <2>1 DEF OnceInv
  <2>3. \A q, r \in Procs : (q # r /\ to'[q] = to'[r]) => KeysHeld(q)' \cap KeysHeld(r)' = {}
    BY <1>2, <1>6, <2>1 DEF OnceInv
  <2>4. FreshConnInv'
    BY <1>1, <1>2, <1>6, <2>1, ProcFacts DEF OnceInv, FreshConnInv
  <2> QED
    BY <1>4, <1>8, <2>2, <2>3, <2>4 DEF OnceInv, FreshConnInv, h
<1> QED
  BY <1>7, <1>8

LEMMA OnceStep == TypeInv /\ StampInv /\ OnceInv /\ [Next]_vars => OnceInv'
<1> SUFFICES ASSUME TypeInv, StampInv, OnceInv, [Next]_vars
             PROVE  OnceInv'
  OBVIOUS
<1>1. ProcsOK /\ FieldsOK
  BY DEF TypeInv, TypeOK
<1> USE DEF deliveryVars, sessionVars, callVars, procVars, netVars
<1>2. CASE UNCHANGED deliveryVars
  BY <1>2, QuietKeepsOnce DEF OnceInv
<1>3. CASE Hold
  BY <1>3, QuietKeepsOnce DEF Hold, OnEventHold, OnEventResume, OnceInv
<1>4. CASE OnEventDeliver
  <2>1. /\ sink \in Conns /\ settled /\ UNCHANGED <<wire, sink, settled>>
        /\ Deliver(Reader, sink, <<nextKey>>) /\ pc[Reader] = "idle"
    BY <1>1, <1>4 DEF OnEventDeliver, Buffered, FieldsOK
  <2>2. <<nextKey>> \in Seq(Nat) /\ ToSet(<<nextKey>>) = {nextKey} /\ DOMAIN <<nextKey>> = {1}
    BY <1>1 DEF FieldsOK, ToSet
  <2>3. nextKey \in Nat /\ \A f \in Sent : f.key \in Nat /\ f.key < nextKey
    BY <1>1 DEF FieldsOK, StampInv, Sent, EventFrames
  <2>4. \A c \in Conns : nextKey \notin KeysOn(c)
    BY <2>3, KeysMember, SentMember
  <2>5. \A p \in Procs : nextKey \notin KeysHeld(p)
    BY <2>3, KeysMember, SentMember
  <2>6. settled' = TRUE
    BY <2>1 DEF TypeInv, TypeOK, FlagsOK
  <2>7. PICK c \in Conns : c = sink
    BY <2>1
  <2>8. Deliver(Reader, c, <<nextKey>>)
    BY <2>1, <2>7
  <2>9. PICK keys \in Seq(Nat) : keys = <<nextKey>>
    BY <2>2
  <2>10. /\ \A i, j \in DOMAIN keys : i # j => keys[i] # keys[j]
         /\ \A k \in ToSet(keys) : k \notin KeysOn(c)
         /\ \A k \in ToSet(keys), q \in Procs : to[q] = c => k \notin KeysHeld(q)
    BY <2>2, <2>4, <2>5, <2>9
  <2>11. Deliver(Reader, c, keys)
    BY <2>8, <2>9
  <2> QED
    BY <2>1, <2>6, <2>7, <2>10, <2>11, ProcFacts, DeliverKeepsOnce
<1>5. ASSUME NEW p \in Procs, Check(p) \/ WriteErr(p) \/ NoteActivity(p)
      PROVE  OnceInv'
  <2>1. /\ UNCHANGED <<wire, sink, settled, to>>
        /\ \A q \in Procs : frames'[q] \in {frames[q], <<>>}
    BY <1>1, <1>5 DEF Check, Finish, WriteErr, NoteActivity, ProcsOK
  <2>2. \A q \in Procs : pc'[q] = "new" => pc[q] = "new"
    <3>1. CASE NoteActivity(p)
      BY <1>1, <3>1 DEF NoteActivity, ReturnPC, ProcsOK
    <3>2. CASE Check(p) \/ WriteErr(p)
      <4>1. Writing(p) /\ after[p] # "new"
        BY <3>2 DEF Check, WriteErr, Writing, TypeInv, ControlInv
      <4> QED
        BY <1>1, <3>2, <4>1 DEF Check, WriteErr, Finish, ProcsOK
    <3> QED
      BY <1>5, <3>1, <3>2
  <2> QED
    BY <2>1, <2>2, ProcFacts, QuietKeepsOnce DEF OnceInv
<1>6. ASSUME NEW p \in Procs, WriteOk(p) PROVE OnceInv'
  BY <1>6, WriteKeepsOnce
<1>7. ASSUME NEW p \in Procs, NEW c \in Conns, Batch(p, c) PROVE OnceInv'
  <2>1. CASE BatchDelivers(p, c)
    <3>1. /\ UNCHANGED <<wire, sink>> /\ settled' = TRUE /\ sink = c /\ ~settled
          /\ Deliver(p, c, buffer) /\ pc[p] # "new"
      BY <2>1 DEF BatchDelivers, Batch
    <3>2. buffer \in Seq(Nat) /\ \A i, j \in DOMAIN buffer : i # j => buffer[i] # buffer[j]
      <4>1. buffer \in Seq(Nat) /\ \A i, j \in DOMAIN buffer : i < j => buffer[i] < buffer[j]
        BY DEF TypeInv, TypeOK, FieldsOK, BufferOrdered
      <4>2. \A i \in DOMAIN buffer : i \in Nat /\ buffer[i] \in Nat
        BY <4>1
      <4> QED
        BY <4>1, <4>2
    <3>3. KeysOn(c) = {} /\ \A q \in Procs : to[q] = c => KeysHeld(q) = {}
      BY <3>1 DEF OnceInv
    <3> QED
      BY <3>1, <3>2, <3>3, DeliverKeepsOnce
  <2>2. CASE BatchSkips(p, c)
    <3>1. \A q \in Procs : pc'[q] = "new" => pc[q] = "new"
      BY <1>1, <2>2 DEF BatchSkips, ReturnPC, ProcsOK
    <3> QED
      BY <2>2, <3>1, ProcFacts, QuietKeepsOnce DEF BatchSkips, OnceInv
  <2> QED
    BY <1>7, <2>1, <2>2, BatchCases
<1>8. ASSUME NEW c \in Conns, Attach(c) PROVE OnceInv'
  <2>1. /\ pc[Handler(c)] = "new" /\ pc'[Handler(c)] = "check"
        /\ UNCHANGED wire /\ sink' = c
        /\ frames'[Handler(c)] = <<HelloFrame>> /\ to'[Handler(c)] = c
        /\ \A q \in Procs \ {Handler(c)} :
              frames'[q] = frames[q] /\ to'[q] = to[q] /\ pc'[q] = pc[q]
    BY <1>1, <1>8, ProcFacts DEF Attach, AdoptSink, ProcsOK
  <2>2. \A d \in Conns : (sink' = d /\ ~settled') => pc[Handler(d)] = "new"
    BY <2>1
  <2>3. \A d \in Conns : pc'[Handler(d)] = "new" =>
           pc[Handler(d)] = "new" /\ sink' # d /\ \A q \in Procs : to'[q] # d
    BY <2>1, ProcFacts DEF OnceInv
  <2> QED
    BY <2>1, <2>2, <2>3, QuietKeepsOnce
<1>9. ASSUME NEW c \in Conns,
             ArmFallback(c) \/ FallbackFires(c) \/ Ack(c) \/ Detach(c) \/ CloseConn(c)
      PROVE  OnceInv'
  <2>1. /\ UNCHANGED <<wire, frames, to>>
        /\ (sink' = sink /\ settled' = settled) \/ sink' = NoConn
    BY <1>9 DEF ArmFallback, FallbackFires, Ack, Detach, CloseConn
  <2>2. \A q \in Procs : pc'[q] = "new" => pc[q] = "new"
    BY <1>1, <1>9, ProcFacts DEF ArmFallback, FallbackFires, Ack, Detach, CloseConn, ProcsOK
  <2> QED
    BY <2>1, <2>2, ProcFacts, ConnsAssumption, QuietKeepsOnce DEF OnceInv
<1> QED
  BY <1>2, <1>3, <1>4, <1>5, <1>6, <1>7, <1>8, <1>9, NextCases

-----------------------------------------------------------------------------
(* The refinement.                                                         *)

\* The abstract state, as the instance D of Session defines it.
Acked == (0..(nextKey - 1)) \ ToSet(buffer)
Delivered == [c \in Conns |-> KeysOn(c)]

LEMMA KeysBelow ==
  ASSUME TypeInv, StampInv
  PROVE  /\ \A c \in Conns : \A k \in KeysOn(c) : k \in 0..(nextKey - 1)
         /\ ToSet(buffer) \subseteq 0..(nextKey - 1)
<1>1. nextKey \in Nat /\ buffer \in Seq(Nat)
  BY DEF TypeInv, TypeOK, FieldsOK
<1>2. ASSUME NEW c \in Conns, NEW k \in KeysOn(c) PROVE k \in 0..(nextKey - 1)
  <2>1. PICK f \in ToSet(wire[c]) : f \in EventFrames /\ f.key = k
    BY KeysMember
  <2>2. f \in Sent
    BY <2>1, SentMember
  <2>3. f.key \in Nat /\ f.key < nextKey
    BY <2>1, <2>2 DEF StampInv, EventFrames
  <2> QED
    BY <1>1, <2>1, <2>3
<1>3. ASSUME NEW k \in ToSet(buffer) PROVE k \in 0..(nextKey - 1)
  <2>1. PICK i \in 1..Len(buffer) : buffer[i] = k
    BY <1>1, <1>3, ToSetFacts
  <2>2. i \in DOMAIN buffer /\ k \in Nat
    BY <1>1, <2>1
  <2>3. k < nextKey
    BY <2>1, <2>2 DEF TypeInv, BufferOrdered
  <2> QED
    BY <1>1, <2>2, <2>3
<1> QED
  BY <1>2, <1>3

\* onEvent accepts the event: it is pending and delivered nowhere.
LEMMA RefineAccept ==
  ASSUME TypeInv, Buffered, UNCHANGED wire
  PROVE  D!Next
<1>1. FieldsOK /\ BufferOrdered /\ nextKey \in Nat
  BY DEF TypeInv, TypeOK, FieldsOK
<1>2. nextKey' = nextKey + 1 /\ ToSet(buffer') = ToSet(buffer) \cup {nextKey}
  BY <1>1, BufferedEffect
<1>3. Acked' = Acked
  BY <1>1, <1>2 DEF Acked
<1>4. Delivered' = Delivered
  BY KeysKept DEF Delivered
<1> QED
  BY <1>2, <1>3, <1>4 DEF D!Next, D!Accept, Acked, Delivered

\* Ack acknowledges one event that was delivered and not acked before.
LEMMA RefineAck ==
  ASSUME TypeInv, StampInv, NEW c \in Conns, Ack(c)
  PROVE  D!Next
<1>1. FieldsOK /\ BufferOrdered /\ nextKey \in Nat
  BY DEF TypeInv, TypeOK, FieldsOK
<1>2. PICK d \in Conns, f \in EventFrames : f \in ToSet(wire[d]) /\ AckFrame(f)
  BY DEF Ack
<1>3. PICK g \in freshIDs : g.id = f.id /\ ToSet(buffer') = ToSet(buffer) \ {g.key}
  BY <1>1, <1>2, AckEffect
<1>4. f \in Sent
  BY <1>2, SentMember
<1>5. g = f
  BY <1>3, <1>4 DEF StampInv
<1>6. f.key \in ToSet(buffer)
  BY <1>3, <1>5 DEF StampInv
<1>7. f.key \in KeysOn(d)
  BY <1>2, KeysMember
<1>8. f.key \in 0..(nextKey - 1)
  BY <1>7, KeysBelow
<1>9. UNCHANGED <<nextKey, wire>>
  BY DEF Ack, netVars
<1>10. Acked' = Acked \cup {f.key} /\ f.key \notin Acked
  BY <1>3, <1>5, <1>6, <1>8, <1>9 DEF Acked
<1>11. Delivered' = Delivered
  BY <1>9, KeysKept DEF Delivered
<1>12. f.key \in Delivered[d]
  BY <1>7 DEF Delivered
<1> QED
  BY <1>8, <1>9, <1>10, <1>11, <1>12 DEF D!Next, D!Acknowledge, Acked, Delivered

\* A frame written is one delivery, or the hello frame and no delivery.
LEMMA RefineWrite ==
  ASSUME TypeInv, StampInv, OnceInv, NEW p \in Procs, WriteOk(p)
  PROVE  D!Next \/ UNCHANGED <<nextKey, Acked, Delivered>>
<1> DEFINE h == Head(frames[p])
<1>0. PICK c \in Conns : c = to[p]
  BY SentWrite
<1>1. /\ ToSet(wire'[c]) = ToSet(wire[c]) \cup {h}
      /\ \A d \in Conns \ {c} : wire'[d] = wire[d]
      /\ h \in ToSet(frames[p])
  BY <1>0, SentWrite
<1>2. h \in EventFrames => h.key \notin KeysOn(c)
  BY <1>0, WriteKeepsOnce
<1>3. UNCHANGED <<nextKey, buffer>>
  BY DEF WriteOk, sessionVars
<1>4. Acked' = Acked
  BY <1>3 DEF Acked
<1>5. \A d \in Conns \ {c} : KeysOn(d)' = KeysOn(d)
  BY <1>1, KeysKept
<1> HIDE DEF h
<1>6. CASE h \in EventFrames
  <2>1. KeysOn(c)' = KeysOn(c) \cup {h.key}
    BY <1>1, <1>6, KeysMember
  <2>2. h \in Sent
    BY <1>1, <1>6, SentMember
  <2>3. h.key \in 0..(nextKey - 1)
    <3>1. h.key \in Nat /\ h.key < nextKey
      BY <1>6, <2>2 DEF StampInv, EventFrames
    <3>2. nextKey \in Nat
      BY DEF TypeInv, TypeOK, FieldsOK
    <3> QED
      BY <3>1, <3>2
  <2>4. h.key \notin Delivered[c]
    BY <1>2, <1>6 DEF Delivered
  <2>5. Delivered' = [Delivered EXCEPT ![c] = @ \cup {h.key}]
    BY <1>5, <2>1 DEF Delivered
  <2> QED
    BY <1>3, <1>4, <2>3, <2>4, <2>5 DEF D!Next, D!DeliverOn, Acked, Delivered
<1>7. CASE h \notin EventFrames
  <2>1. \A k : k \in KeysOn(c)' <=> k \in KeysOn(c)
    BY <1>1, <1>7, KeysMember
  <2>2. KeysOn(c)' = KeysOn(c)
    BY <2>1
  <2>3. Delivered' = Delivered
    BY <1>5, <2>2 DEF Delivered
  <2> QED
    BY <1>3, <1>4, <2>3
<1> QED
  BY <1>6, <1>7

LEMMA RefineStep ==
  TypeInv /\ StampInv /\ OnceInv /\ [Next]_vars => [D!Next]_(D!dvars)
<1> SUFFICES ASSUME TypeInv, StampInv, OnceInv, [Next]_vars
             PROVE  D!Next \/ UNCHANGED <<nextKey, Acked, Delivered>>
  BY DEF D!dvars, Acked, Delivered
<1> USE DEF deliveryVars, sessionVars, callVars, procVars, netVars
<1>1. ASSUME UNCHANGED <<nextKey, buffer, wire>>
      PROVE  UNCHANGED <<nextKey, Acked, Delivered>>
  BY <1>1, KeysKept DEF Acked, Delivered
<1>2. CASE UNCHANGED deliveryVars
  BY <1>1, <1>2
<1>3. CASE Hold \/ OnEventDeliver
  BY <1>3, RefineAccept DEF Hold, OnEventHold, OnEventResume, OnEventDeliver
<1>4. ASSUME NEW p \in Procs, Check(p) \/ WriteErr(p) \/ NoteActivity(p)
      PROVE  UNCHANGED <<nextKey, buffer, wire>>
  BY <1>4 DEF Check, WriteErr, NoteActivity
<1>5. ASSUME NEW p \in Procs, NEW c \in Conns, Batch(p, c)
      PROVE  UNCHANGED <<nextKey, buffer, wire>>
  BY <1>5, BatchCases DEF BatchDelivers, BatchSkips
<1>6. ASSUME NEW c \in Conns,
             Attach(c) \/ ArmFallback(c) \/ FallbackFires(c) \/ Detach(c) \/ CloseConn(c)
      PROVE  UNCHANGED <<nextKey, buffer, wire>>
  BY <1>6 DEF Attach, ArmFallback, FallbackFires, Detach, CloseConn
<1> QED
  BY <1>1, <1>2, <1>3, <1>4, <1>5, <1>6, RefineAck, RefineWrite, NextCases

LEMMA DeliveryInit == Init => StampInv /\ OnceInv /\ D!Init
<1> SUFFICES ASSUME Init PROVE StampInv /\ OnceInv /\ D!Init
  OBVIOUS
<1>1. /\ freshIDs = {} /\ sink = NoConn /\ nextKey = 0 /\ buffer = <<>>
      /\ \A c \in Conns : wire[c] = <<>>
      /\ \A p \in Procs : frames[p] = <<>> /\ to[p] = NoConn
      /\ ToSet(<<>>) = {}
  BY DEF Init, ToSet
<1>2. Sent = {}
  BY <1>1, SentMember
<1>3. /\ \A c \in Conns : KeysOn(c) = {}
      /\ \A p \in Procs : KeysHeld(p) = {} /\ DOMAIN frames[p] = {}
  BY <1>1, KeysMember
<1>4. StampInv
  BY <1>1, <1>2 DEF StampInv
<1>5. OnceInv
  BY <1>1, <1>3, ConnsAssumption DEF OnceInv
<1>6. D!Init
  BY <1>1, <1>3 DEF D!Init
<1> QED
  BY <1>4, <1>5, <1>6

LEMMA DeliveryInvariant == Spec => [](TypeInv /\ StampInv /\ OnceInv)
BY DeliveryInit, TypeInvariant, StampStep, OnceStep, PTL DEF Spec

\* The session implements Delivery: for every number of connections and events
\* and whatever the interleaving of readers, handlers, timers and acks, an
\* accepted event stays pending until the actor acks a delivery of it, and no
\* connection receives it twice (onEvent, deliverBufferedNow, Ack, writeToSink).
THEOREM SessionImplementsDelivery == Spec => ImplementsDelivery
BY DeliveryInit, DeliveryInvariant, RefineStep, PTL DEF Spec, ImplementsDelivery, D!Spec

\* An event leaves the buffer only after some connection carried it.
KeptUntilDelivered ==
  \A k \in 0..(nextKey - 1) : k \in ToSet(buffer) \/ \E c \in Conns : k \in KeysOn(c)

\* No accepted event is ever lost inside the broker: it is buffered, or was written to
\* an actor connection, whatever acks, reconnects and failed writes come in between.
THEOREM NothingLost == Spec => []KeptUntilDelivered
<1> DEFINE Carried == \A k \in Acked : \E c \in Conns : k \in Delivered[c]
<1>1. KeptUntilDelivered <=> Carried
  BY DEF KeptUntilDelivered, Acked, Delivered
<1>2. Init => Carried
  BY DEF Init, Acked
<1>3. Carried /\ [D!Next]_(D!dvars) => Carried'
  <2> SUFFICES ASSUME Carried, D!Next \/ UNCHANGED <<nextKey, Acked, Delivered>> PROVE Carried'
    BY DEF D!dvars, Acked, Delivered
  <2>1. CASE D!Accept
    <3>1. Acked' = Acked /\ Delivered' = Delivered
      BY <2>1 DEF D!Accept, Acked, Delivered
    <3> QED
      BY <3>1
  <2>2. ASSUME NEW c \in Conns, D!DeliverOn(c) PROVE Carried'
    <3>1. PICK k : /\ Delivered' = [Delivered EXCEPT ![c] = @ \cup {k}]
                   /\ Acked' = Acked
      BY <2>2 DEF D!DeliverOn, Acked, Delivered
    <3>2. \A d \in Conns : Delivered[d] \subseteq Delivered'[d]
      BY <3>1 DEF Delivered
    <3> QED
      BY <3>1, <3>2
  <2>3. CASE D!Acknowledge
    <3>1. PICK k : /\ Acked' = Acked \cup {k} /\ Delivered' = Delivered
                   /\ \E c \in Conns : k \in Delivered[c]
      BY <2>3 DEF D!Acknowledge, Acked, Delivered
    <3> QED
      BY <3>1
  <2>4. CASE UNCHANGED <<nextKey, Acked, Delivered>>
    BY <2>4
  <2> QED
    BY <2>1, <2>2, <2>3, <2>4 DEF D!Next
<1> QED
  BY <1>1, <1>2, <1>3, DeliveryInvariant, RefineStep, PTL DEF Spec
=============================================================================
