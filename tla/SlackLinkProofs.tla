-------------------------- MODULE SlackLinkProofs --------------------------
(***************************************************************************)
(* The Slack link, for any number of loops, tokens, events and resends:    *)
(* one read loop, no acked event lost, duplicates only for lost acks and   *)
(* resends that did not wait for one.                                      *)
(***************************************************************************)
EXTENDS SlackLink, FiniteSetTheorems, TLAPS

\* At most one loop was ever started, a loop that was not has no connection, and
\* one that acks or hands over carries an event.
LoopInv ==
  /\ ~started => \A l \in Loops : pc[l] = "off"
  /\ \A l, m \in Loops : (pc[l] # "off" /\ pc[m] # "off") => l = m
  /\ \A l \in Loops : pc[l] = "off" => ~up[l]
  /\ \A l \in Loops : pc[l] \in {"ack", "hand"} => hand[l] \in Events

\* Calls of onEvent for e, made or about to be made by l.
Given(l, e) == handed[e] + (IF pc[l] = "hand" /\ hand[l] = e THEN 1 ELSE 0)

\* Copies of e that l will read or ack.
Unacked(l, e) == wire[l][e] + (IF pc[l] = "ack" /\ hand[l] = e THEN 1 ELSE 0)

\* Every call but one is paid for by a lost ack or an early resend, those still to
\* come included; before the first ack arrived, by a lost ack each.
Paid(l, e) ==
  /\ Given(l, e) + Unacked(l, e) <= 1 + lost[e] + late[e]
  /\ e \notin acked => Given(l, e) <= lost[e]
  /\ e \in acked => Given(l, e) > 0

HandInv ==
  /\ \A l \in Loops, e \in Events : pc[l] # "off" => Paid(l, e)
  /\ \A l \in Loops, e \in Events : pc[l] = "off" => wire[l][e] = 0
  /\ (\A l \in Loops : pc[l] = "off") => \A e \in Events : handed[e] = 0 /\ e \notin acked

LinkInv == TypeOK /\ LoopInv /\ HandInv

-----------------------------------------------------------------------------
LEMMA TypeStep == TypeOK /\ LoopInv /\ [Next]_vars => TypeOK'
<1> SUFFICES ASSUME TypeOK, LoopInv, [Next]_vars PROVE TypeOK'
  OBVIOUS
<1> USE DEF TypeOK, PC, sessionVars, loopVars, slackVars, Goto
<1>1. ASSUME NEW t \in Tokens, EnsureStarted(t) PROVE TypeOK'
  BY <1>1 DEF EnsureStarted
<1>2. CASE Close
  BY <1>2 DEF Close
<1>3. ASSUME NEW l \in Loops, LoopStep(l) PROVE TypeOK'
  <2>1. CASE LoopTop(l)
    BY <2>1 DEF LoopTop
  <2>9. CASE DialErr(l)
    BY <2>9 DEF DialErr
  <2>7. CASE DialOk(l)
    BY <2>7 DEF DialOk
  <2>8. CASE CloseConn(l)
    BY <2>8 DEF CloseConn
  <2>2. CASE SleepOver(l)
    <3>1. NextBackoff(backoff[l]) \in {1, 2, 4, 8, 16, 30}
      BY DEF NextBackoff
    <3> QED
      BY <2>2, <3>1 DEF SleepOver
  <2>3. CASE SleepStopped(l) \/ ReadCheck(l)
    BY <2>3 DEF SleepStopped, ReadCheck, AfterCheck
  <2>4. CASE AckOk(l)
    BY <2>4 DEF AckOk, LoopInv
  <2>5. CASE AckLost(l)
    BY <2>5 DEF AckLost, LoopInv
  <2>6. CASE HandOver(l)
    BY <2>6 DEF HandOver, OnEvent, LoopInv
  <2> QED
    BY <1>3, <2>1, <2>9, <2>7, <2>8, <2>2, <2>3, <2>4, <2>5, <2>6 DEF LoopStep
<1>4. ASSUME NEW l \in Loops, ReadStep(l) PROVE TypeOK'
  <2>1. CASE ReadErr(l)
    BY <2>1 DEF ReadErr
  <2>2. ASSUME NEW type \in OtherTypes, ReadOther(l, type) PROVE TypeOK'
    BY <2>2 DEF ReadOther
  <2>3. ASSUME NEW e \in Events, ReadEvent(l, e) PROVE TypeOK'
    BY <2>3 DEF ReadEvent, AfterEvent
  <2> QED
    BY <1>4, <2>1, <2>2, <2>3 DEF ReadStep
<1>6. ASSUME NEW l \in Loops, NEW e \in Events, SlackSends(l, e) PROVE TypeOK'
  BY <1>6 DEF SlackSends
<1>5. CASE UNCHANGED vars
  BY <1>5 DEF vars
<1> QED
  BY <1>1, <1>2, <1>3, <1>4, <1>5, <1>6 DEF Next

LEMMA LoopInvStep == TypeOK /\ LoopInv /\ [Next]_vars => LoopInv'
<1> SUFFICES ASSUME TypeOK, LoopInv, [Next]_vars PROVE LoopInv'
  OBVIOUS
<1> USE DEF TypeOK, sessionVars, loopVars, slackVars, Goto
<1>1. ASSUME NEW t \in Tokens, EnsureStarted(t) PROVE LoopInv'
  <2>1. CASE MayStart
    <3>1. PICK l \in Loops : pc' = [pc EXCEPT ![l] = "top"]
      BY <1>1, <2>1 DEF EnsureStarted
    <3>2. \A m \in Loops : pc[m] = "off"
      BY <2>1 DEF MayStart, LoopInv
    <3> QED
      BY <1>1, <2>1, <3>1, <3>2 DEF EnsureStarted, LoopInv
  <2>2. CASE ~MayStart
    BY <1>1, <2>2 DEF EnsureStarted, LoopInv
  <2> QED
    BY <2>1, <2>2
<1>2. CASE Close
  BY <1>2 DEF Close, LoopInv
<1>3. ASSUME NEW l \in Loops, LoopStep(l) \/ ReadStep(l)
      PROVE  /\ started' = started /\ pc[l] # "off"
             /\ \A m \in Loops \ {l} : pc'[m] = pc[m] /\ hand'[m] = hand[m] /\ up'[m] = up[m]
             /\ pc'[l] # "off" /\ (pc'[l] \in {"ack", "hand"} => hand'[l] \in Events)
  <2> USE DEF LoopInv
  <2>1. CASE LoopTop(l) \/ DialOk(l) \/ DialErr(l) \/ SleepOver(l) \/ SleepStopped(l)
    BY <2>1 DEF LoopTop, DialOk, DialErr, SleepOver, SleepStopped
  <2>2. CASE CloseConn(l) \/ ReadCheck(l)
    BY <2>2 DEF CloseConn, ReadCheck, AfterCheck
  <2>3. CASE AckOk(l) \/ AckLost(l) \/ HandOver(l)
    BY <2>3 DEF AckOk, AckLost, HandOver
  <2>4. CASE ReadStep(l)
    BY <2>4 DEF ReadStep, ReadErr, ReadOther, ReadEvent, AfterEvent
  <2> QED
    BY <1>3, <2>1, <2>2, <2>3, <2>4 DEF LoopStep
<1>5. ASSUME NEW l \in Loops, NEW e \in Events, SlackSends(l, e) PROVE LoopInv'
  BY <1>5 DEF SlackSends, LoopInv
<1>4. CASE UNCHANGED vars
  BY <1>4 DEF vars, LoopInv
<1>6. CASE \E l \in Loops : LoopStep(l) \/ ReadStep(l)
  BY <1>3, <1>6 DEF LoopInv
<1> QED
  BY <1>1, <1>2, <1>4, <1>5, <1>6 DEF Next

LEMMA CountsAreNat ==
  ASSUME TypeOK, NEW l \in Loops, NEW e \in Events
  PROVE  /\ Given(l, e) \in Nat /\ Unacked(l, e) \in Nat /\ wire[l][e] \in Nat
         /\ handed[e] \in Nat /\ lost[e] \in Nat /\ late[e] \in Nat
BY DEF TypeOK, Given, Unacked

\* The loop that was started is the only one with accounts to keep.
LEMMA OneLoopKeepsHand ==
  ASSUME LoopInv, HandInv, NEW l \in Loops, pc[l] # "off", pc'[l] # "off",
         \A m \in Loops \ {l} : pc'[m] = pc[m] /\ wire'[m] = wire[m],
         \A e \in Events : Paid(l, e)'
  PROVE  HandInv'
BY DEF LoopInv, HandInv

\* A step that neither acks nor hands over, and adds no copy, keeps the accounts.
LEMMA QuietKeepsPaid ==
  ASSUME TypeOK, TypeOK', NEW l \in Loops, NEW e \in Events, Paid(l, e),
         UNCHANGED <<acked, lost, late, handed>>, pc[l] # "hand", pc'[l] # "hand",
         Unacked(l, e)' <= Unacked(l, e)
  PROVE  Paid(l, e)'
<1>1. Given(l, e)' = Given(l, e)
  BY DEF Given
<1>2. /\ Given(l, e) \in Nat /\ Unacked(l, e) \in Nat /\ Unacked(l, e)' \in Nat
      /\ lost[e] \in Nat /\ late[e] \in Nat
  BY CountsAreNat DEF TypeOK, Unacked
<1> QED
  BY <1>1, <1>2 DEF Paid

\* An ack: the copy moves from the unacked ones to the calls.
LEMMA AckKeepsPaid ==
  ASSUME TypeOK, LoopInv, NEW l \in Loops, NEW e \in Events, Paid(l, e), AckOk(l) \/ AckLost(l)
  PROVE  Paid(l, e)'
<1> USE DEF TypeOK, sessionVars, loopVars, slackVars, Goto
<1>1. /\ pc[l] = "ack" /\ pc'[l] = "hand" /\ UNCHANGED <<hand, wire, handed, late>>
      /\ hand[l] \in Events
  BY DEF AckOk, AckLost, LoopInv
<1>2. /\ handed[e] \in Nat /\ wire[l][e] \in Nat /\ lost[e] \in Nat /\ late[e] \in Nat
  OBVIOUS
<1>3. CASE hand[l] # e
  <2>1. Given(l, e)' = Given(l, e) /\ Unacked(l, e)' = Unacked(l, e)
    BY <1>1, <1>3 DEF Given, Unacked
  <2>2. lost'[e] = lost[e] /\ (e \in acked' <=> e \in acked)
    BY <1>3 DEF AckOk, AckLost
  <2> QED
    BY <1>1, <2>1, <2>2 DEF Paid
<1>4. CASE hand[l] = e
  <2>1. /\ Given(l, e) = handed[e] /\ Given(l, e)' = handed[e] + 1
        /\ Unacked(l, e) = wire[l][e] + 1 /\ Unacked(l, e)' = wire[l][e]
    BY <1>1, <1>2, <1>4 DEF Given, Unacked
  <2>2. CASE AckOk(l)
    <3>1. e \in acked' /\ lost' = lost
      BY <2>2, <1>4 DEF AckOk
    <3> QED
      BY <1>1, <1>2, <2>1, <3>1 DEF Paid
  <2>3. CASE AckLost(l)
    <3>1. acked' = acked /\ lost'[e] = lost[e] + 1
      BY <2>3, <1>4 DEF AckLost
    <3> QED
      BY <1>1, <1>2, <2>1, <3>1 DEF Paid
  <2> QED
    BY <2>2, <2>3
<1> QED
  BY <1>3, <1>4

\* onEvent: the call about to be made is made.
LEMMA HandOverKeepsPaid ==
  ASSUME TypeOK, LoopInv, NEW l \in Loops, NEW e \in Events, Paid(l, e), HandOver(l)
  PROVE  Paid(l, e)'
<1> USE DEF TypeOK, sessionVars, loopVars, slackVars, Goto
<1>1. /\ pc[l] = "hand" /\ pc'[l] = "check" /\ UNCHANGED <<wire, acked, lost, late>>
      /\ hand[l] \in Events /\ handed' = [handed EXCEPT ![hand[l]] = @ + 1]
  BY DEF HandOver, OnEvent, LoopInv
<1>2. handed[e] \in Nat /\ wire[l][e] \in Nat
  OBVIOUS
<1>3. handed'[e] = IF hand[l] = e THEN handed[e] + 1 ELSE handed[e]
  BY <1>1
<1>4. Given(l, e)' = Given(l, e) /\ Unacked(l, e)' = Unacked(l, e)
  BY <1>1, <1>2, <1>3 DEF Given, Unacked
<1> QED
  BY <1>1, <1>4 DEF Paid

\* A send: the first copy is paid for by the call allowed for, another by late.
LEMMA SendKeepsPaid ==
  ASSUME TypeOK, NEW l \in Loops, NEW e \in Events, NEW f \in Events, Paid(l, f), SlackSends(l, e)
  PROVE  Paid(l, f)'
<1> USE DEF TypeOK, sessionVars, loopVars, slackVars
<1>1. /\ UNCHANGED <<pc, hand, handed, acked, lost>> /\ e \notin acked
      /\ wire' = [wire EXCEPT ![l][e] = @ + 1]
  BY DEF SlackSends
<1>2. /\ handed[f] \in Nat /\ wire[l][f] \in Nat /\ lost[f] \in Nat /\ late[f] \in Nat
      /\ Given(l, f) \in Nat /\ Unacked(l, f) \in Nat
  BY CountsAreNat
<1>3. Given(l, f)' = Given(l, f)
  BY <1>1 DEF Given
<1>4. CASE f # e
  <2>1. wire'[l][f] = wire[l][f] /\ late'[f] = late[f]
    BY <1>1, <1>4 DEF SlackSends
  <2>2. Unacked(l, f)' = Unacked(l, f)
    BY <1>1, <2>1 DEF Unacked
  <2> QED
    BY <1>1, <1>3, <2>1, <2>2 DEF Paid
<1>5. CASE f = e
  <2>1. wire'[l][f] = wire[l][f] + 1
    BY <1>1, <1>5
  <2>2. Unacked(l, f)' = Unacked(l, f) + 1
    BY <1>1, <1>2, <2>1 DEF Unacked
  <2>3. CASE Outstanding(l, e)
    <3>1. late'[f] = late[f] + 1
      BY <1>5, <2>3 DEF SlackSends
    <3> QED
      BY <1>1, <1>2, <1>3, <2>2, <3>1 DEF Paid
  <2>4. CASE ~Outstanding(l, e)
    <3>1. Unacked(l, f) = 0
      BY <1>2, <1>5, <2>4 DEF Outstanding, Unacked
    <3>2. late' = late
      BY <2>4 DEF SlackSends
    <3> QED
      BY <1>1, <1>2, <1>3, <1>5, <2>2, <3>1, <3>2 DEF Paid
  <2> QED
    BY <2>3, <2>4
<1> QED
  BY <1>4, <1>5

LEMMA HandInvStep == LinkInv /\ [Next]_vars => HandInv'
<1> SUFFICES ASSUME TypeOK, LoopInv, HandInv, [Next]_vars PROVE HandInv'
  BY DEF LinkInv
<1>t. TypeOK' /\ LoopInv'
  BY TypeStep, LoopInvStep
<1> USE DEF sessionVars, loopVars, slackVars, Goto
<1>1. ASSUME NEW t \in Tokens, EnsureStarted(t) PROVE HandInv'
  <2>1. UNCHANGED <<acked, lost, late, handed, hand, wire>>
    BY <1>1 DEF EnsureStarted
  <2>2. CASE MayStart
    <3>1. PICK l \in Loops : pc[l] = "off" /\ pc' = [pc EXCEPT ![l] = "top"]
      BY <1>1, <2>2 DEF EnsureStarted
    <3>2. \A m \in Loops : pc[m] = "off"
      BY <2>2 DEF MayStart, LoopInv
    <3>3. pc'[l] = "top" /\ \A m \in Loops \ {l} : pc'[m] = "off"
      BY <3>1, <3>2 DEF TypeOK
    <3>4. ASSUME NEW e \in Events PROVE Paid(l, e)'
      <4>1. handed[e] = 0 /\ e \notin acked /\ wire[l][e] = 0 /\ lost[e] \in Nat /\ late[e] \in Nat
        BY <3>2 DEF HandInv, TypeOK
      <4>2. Given(l, e)' = 0 /\ Unacked(l, e)' = 0
        BY <2>1, <3>3, <4>1 DEF Given, Unacked
      <4> QED
        BY <2>1, <4>1, <4>2 DEF Paid
    <3> QED
      BY <2>1, <3>2, <3>3, <3>4 DEF HandInv
  <2>3. CASE ~MayStart
    BY <1>1, <2>1, <2>3 DEF EnsureStarted, HandInv, Paid, Given, Unacked
  <2> QED
    BY <2>2, <2>3
<1>2. CASE Close \/ UNCHANGED vars
  BY <1>2 DEF Close, vars, HandInv, Paid, Given, Unacked
<1>3. ASSUME NEW l \in Loops, LoopStep(l) PROVE HandInv'
  <2>0. /\ pc[l] # "off" /\ pc'[l] # "off"
        /\ \A m \in Loops \ {l} : pc'[m] = pc[m] /\ wire'[m] = wire[m]
    BY <1>3 DEF TypeOK, LoopStep, LoopTop, DialOk, DialErr, SleepOver, SleepStopped, CloseConn,
                ReadCheck, AfterCheck, AckOk, AckLost, HandOver
  <2>p. \A e \in Events : Paid(l, e)
    BY <2>0 DEF HandInv
  <2>1. ASSUME NEW e \in Events PROVE Paid(l, e)'
    <3>1. CASE LoopTop(l) \/ DialOk(l) \/ DialErr(l) \/ SleepOver(l) \/ SleepStopped(l) \/ ReadCheck(l)
      <4>1. /\ UNCHANGED <<acked, lost, late, handed, wire>>
            /\ pc[l] \notin {"hand", "ack"} /\ pc'[l] \notin {"hand", "ack"}
        BY <3>1 DEF TypeOK, LoopTop, DialOk, DialErr, SleepOver, SleepStopped, ReadCheck, AfterCheck
      <4>2. Unacked(l, e)' <= Unacked(l, e)
        BY <4>1 DEF Unacked, TypeOK
      <4> QED
        BY <1>t, <2>p, <4>1, <4>2, QuietKeepsPaid
    <3>2. CASE CloseConn(l)
      <4>1. /\ UNCHANGED <<acked, lost, late, handed>> /\ wire'[l][e] = 0
            /\ pc[l] \notin {"hand", "ack"} /\ pc'[l] \notin {"hand", "ack"}
        BY <3>2 DEF TypeOK, CloseConn
      <4>2. Unacked(l, e)' <= Unacked(l, e)
        BY <4>1 DEF Unacked, TypeOK
      <4> QED
        BY <1>t, <2>p, <4>1, <4>2, QuietKeepsPaid
    <3>3. CASE AckOk(l) \/ AckLost(l)
      BY <2>p, <3>3, AckKeepsPaid
    <3>4. CASE HandOver(l)
      BY <2>p, <3>4, HandOverKeepsPaid
    <3> QED
      BY <1>3, <3>1, <3>2, <3>3, <3>4 DEF LoopStep
  <2> QED
    BY <2>0, <2>1, OneLoopKeepsHand
<1>4. ASSUME NEW l \in Loops, ReadStep(l) PROVE HandInv'
  <2>0. /\ pc[l] # "off" /\ pc'[l] # "off"
        /\ \A m \in Loops \ {l} : pc'[m] = pc[m] /\ wire'[m] = wire[m]
    BY <1>4 DEF TypeOK, ReadStep, ReadErr, ReadOther, ReadEvent, AfterEvent
  <2>p. \A e \in Events : Paid(l, e)
    BY <2>0 DEF HandInv
  <2>1. ASSUME NEW f \in Events PROVE Paid(l, f)'
    <3>0. /\ UNCHANGED <<acked, lost, late, handed>> /\ pc[l] = "read" /\ pc'[l] # "hand"
      BY <1>4 DEF TypeOK, ReadStep, ReadErr, ReadOther, ReadEvent, AfterEvent
    <3>1. CASE ReadErr(l) \/ \E type \in OtherTypes : ReadOther(l, type)
      <4>1. UNCHANGED wire /\ pc'[l] # "ack"
        BY <3>1 DEF TypeOK, ReadErr, ReadOther
      <4>2. Unacked(l, f)' <= Unacked(l, f)
        BY <3>0, <4>1 DEF Unacked, TypeOK
      <4> QED
        BY <1>t, <2>p, <3>0, <4>2, QuietKeepsPaid
    <3>2. ASSUME NEW e \in Events, ReadEvent(l, e) PROVE Paid(l, f)'
      <4>1. /\ wire' = [wire EXCEPT ![l][e] = @ - 1] /\ wire[l][e] > 0 /\ hand'[l] = e
        BY <3>2 DEF TypeOK, ReadEvent
      <4>2. wire'[l][f] = IF f = e THEN wire[l][f] - 1 ELSE wire[l][f]
        BY <4>1 DEF TypeOK
      <4>3. Unacked(l, f)' <= Unacked(l, f)
        BY <3>0, <4>1, <4>2 DEF Unacked, TypeOK
      <4> QED
        BY <1>t, <2>p, <3>0, <4>3, QuietKeepsPaid
    <3> QED
      BY <1>4, <3>1, <3>2 DEF ReadStep
  <2> QED
    BY <2>0, <2>1, OneLoopKeepsHand
<1>5. ASSUME NEW l \in Loops, NEW e \in Events, SlackSends(l, e) PROVE HandInv'
  <2>1. /\ pc[l] # "off" /\ pc' = pc
        /\ \A m \in Loops \ {l} : wire'[m] = wire[m]
    BY <1>5 DEF SlackSends, LoopInv, TypeOK
  <2>2. \A f \in Events : Paid(l, f)
    BY <2>1 DEF HandInv
  <2>3. \A f \in Events : Paid(l, f)'
    BY <1>5, <2>2, SendKeepsPaid
  <2> QED
    BY <2>1, <2>3, OneLoopKeepsHand
<1> QED
  BY <1>1, <1>2, <1>3, <1>4, <1>5 DEF Next

LEMMA LinkInvariant == Spec => []LinkInv
<1>1. Init => LinkInv
  <2> SUFFICES ASSUME Init PROVE TypeOK /\ LoopInv /\ HandInv
    BY DEF LinkInv
  <2>1. TypeOK
    BY DEF Init, TypeOK, PC
  <2>2. LoopInv
    BY DEF Init, LoopInv
  <2>3. HandInv
    BY DEF Init, HandInv
  <2> QED
    BY <2>1, <2>2, <2>3
<1>2. LinkInv /\ [Next]_vars => LinkInv'
  BY TypeStep, LoopInvStep, HandInvStep DEF LinkInv
<1> QED
  BY <1>1, <1>2, PTL DEF Spec

\* Racing calls of EnsureStarted never start a second read loop.
THEOREM AlwaysOneLink == Spec => []OneLink
<1>1. LinkInv => OneLink
  <2> SUFFICES ASSUME LinkInv PROVE OneLink
    OBVIOUS
  <2> DEFINE A == {l \in Loops : pc[l] \notin {"off", "ended"}}
  <2>1. CASE A = {}
    <3>1. Cardinality(A) = 0
      BY <2>1, FS_EmptySet
    <3> QED
      BY <3>1 DEF OneLink
  <2>2. CASE \E l \in Loops : l \in A
    <3>1. PICK l \in Loops : l \in A
      BY <2>2
    <3>2. A = {l}
      BY <3>1 DEF LinkInv, LoopInv
    <3>3. Cardinality(A) = 1
      BY <3>2, FS_Singleton
    <3> QED
      BY <3>3 DEF OneLink
  <2> QED
    BY <2>1, <2>2
<1> QED
  BY <1>1, LinkInvariant, PTL

\* An event acked to Slack is never lost between conn.Ack and onEvent.
THEOREM AckedAlwaysHanded == Spec => []AckedIsHanded
<1>1. LinkInv => AckedIsHanded
  <2> SUFFICES ASSUME LinkInv, NEW e \in acked
               PROVE  handed[e] > 0 \/ \E l \in Loops : pc[l] = "hand" /\ hand[l] = e
    BY DEF AckedIsHanded
  <2>1. e \in Events /\ handed[e] \in Nat
    BY DEF LinkInv, TypeOK
  <2>2. PICK l \in Loops : Paid(l, e)
    BY <2>1 DEF LinkInv, HandInv
  <2> QED
    BY <2>1, <2>2 DEF Paid, Given
<1> QED
  BY <1>1, LinkInvariant, PTL

\* Each extra call of onEvent for an event is paid for by an ack that was lost or a
\* resend that came before the ack.
THEOREM DuplicatesAlwaysExplained == Spec => []DuplicatesExplained
<1>1. LinkInv => DuplicatesExplained
  <2> SUFFICES ASSUME LinkInv, NEW e \in Events PROVE handed[e] <= 1 + lost[e] + late[e]
    BY DEF DuplicatesExplained
  <2>1. handed[e] \in Nat /\ lost[e] \in Nat /\ late[e] \in Nat
    BY DEF LinkInv, TypeOK
  <2>2. CASE \A l \in Loops : pc[l] = "off"
    BY <2>1, <2>2 DEF LinkInv, HandInv
  <2>3. ASSUME NEW l \in Loops, pc[l] # "off" PROVE handed[e] <= 1 + lost[e] + late[e]
    <3>1. Paid(l, e) /\ Unacked(l, e) \in Nat
      BY <2>3, CountsAreNat DEF LinkInv, HandInv
    <3> QED
      BY <2>1, <3>1 DEF Paid, Given
  <2> QED
    BY <2>2, <2>3
<1> QED
  BY <1>1, LinkInvariant, PTL

\* The variables keep their types, the backoff its six values: nextBackoff stops
\* doubling at 30 s.
THEOREM LinkTypeCorrect == Spec => []TypeOK
<1>1. LinkInv => TypeOK
  BY DEF LinkInv
<1> QED
  BY <1>1, LinkInvariant, PTL
=============================================================================
