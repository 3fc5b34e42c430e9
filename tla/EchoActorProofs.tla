-------------------------- MODULE EchoActorProofs --------------------------
(***************************************************************************)
(* How often a message is echoed, and that none is swallowed, for any      *)
(* number of events, connections, suspends, expired timers and retries.    *)
(***************************************************************************)
EXTENDS EchoActor, TLAPS

\* Whether a further handler of message t would send a reply.
Chance(t) == IF t \in echoed THEN 0 ELSE 1

\* Replies sent, being sent and still possible are paid for.
Budget == \A t \in Stamps : posts[t] + sending[t] + Chance(t) <= 1 + deaths + expiries + retries

\* Message t was taken up by a handler: its reply is out, on its way, or failed.
Taken(t) == posts[t] > 0 \/ sending[t] > 0 \/ t \in failed

Accounted(k) ==
  \/ Taken(TsOf[k]) \/ TsOf[k] \in gone
  \/ \E e \in queue : e[2] \notin Skipped /\ TsOf[e[2]] = TsOf[k]

\* firstTime records a message only for a handler that takes it up, and every
\* delivered event is accounted for, acked or not.
CopyInv ==
  /\ \A t \in echoed : Taken(t)
  /\ \A c \in Conns : \A k \in delivered[c] \ Skipped : Accounted(k)
  /\ \A k \in acked : \E c \in Conns : k \in delivered[c]

EchoInv == EchoTypeOK /\ Budget /\ CopyInv

LEMMA StampOf == \A k \in EventKeys : TsOf[k] \in Stamps
  BY DEF Stamps

LEMMA EchoTypeStep == EchoTypeOK /\ [ENext]_allVars => EchoTypeOK'
<1> SUFFICES ASSUME EchoTypeOK, [ENext]_allVars PROVE EchoTypeOK'
  OBVIOUS
<1> USE EventsAssumption DEF EchoTypeOK, echoVars, procVars, countVars, dvars
<1>1. CASE AcceptEvent
  BY <1>1 DEF AcceptEvent, Accept
<1>2. CASE Resume
  BY <1>2 DEF Resume
<1>3. CASE Suspend
  <2>1. {TsOf[e[2]] : e \in queue} \subseteq Stamps
    BY StampOf
  <2> QED
    BY <1>3, <2>1 DEF Suspend
<1>4. ASSUME NEW c \in Conns, Connect(c) PROVE EchoTypeOK'
  BY <1>4 DEF Connect
<1>5. CASE Dispatch
  <2>1. PICK k \in 0..(accepted - 1) :
          delivered' = [delivered EXCEPT ![conn] = @ \cup {k}] /\ UNCHANGED <<accepted, acked>>
    BY <1>5 DEF Dispatch, DeliverOn
  <2>2. k \in EventKeys
    BY <2>1 DEF EventKeys
  <2>3. conn \in Conns
    BY <1>5 DEF Dispatch
  <2>4. delivered' \in [Conns -> SUBSET EventKeys]
    BY <2>1, <2>2, <2>3
  <2>5. {conn} \X (delivered'[conn] \ delivered[conn]) \subseteq Conns \X EventKeys
    BY <2>3, <2>4
  <2> QED
    BY <1>5, <2>1, <2>4, <2>5 DEF Dispatch
<1>6. CASE AckArrives
  BY <1>6 DEF AckArrives, Acknowledge, EventKeys
<1>7. ASSUME NEW c \in Conns, NEW k \in EventKeys, EchoReply(c, k) PROVE EchoTypeOK'
  BY <1>7, StampOf DEF EchoReply, Marked
<1>8. ASSUME NEW t \in Stamps, Forget(t) \/ SayStep(t) PROVE EchoTypeOK'
  BY <1>8 DEF Forget, SayStep, SayOk, SayRetried, SayFails
<1>9. CASE UNCHANGED allVars
  BY <1>9 DEF allVars
<1> QED
  BY <1>1, <1>2, <1>3, <1>4, <1>5, <1>6, <1>7, <1>8, <1>9 DEF ENext

LEMMA BudgetStep == EchoTypeOK /\ Budget /\ [ENext]_allVars => Budget'
<1> SUFFICES ASSUME EchoTypeOK, Budget, [ENext]_allVars, NEW s \in Stamps
             PROVE  (posts[s] + sending[s] + Chance(s) <= 1 + deaths + expiries + retries)'
  BY DEF Budget
<1>0. /\ posts[s] + sending[s] + Chance(s) <= 1 + deaths + expiries + retries
      /\ posts[s] \in Nat /\ sending[s] \in Nat
      /\ deaths \in Nat /\ expiries \in Nat /\ retries \in Nat
  BY DEF Budget, EchoTypeOK
<1> USE DEF EchoTypeOK, Chance, echoVars, procVars, countVars, dvars
<1>1. CASE UNCHANGED <<posts, sending, echoed, countVars>>
  BY <1>0, <1>1
<1>2. CASE AcceptEvent \/ Resume \/ (\E c \in Conns : Connect(c)) \/ Dispatch \/ AckArrives
  BY <1>1, <1>2 DEF AcceptEvent, Resume, Connect, Dispatch, AckArrives
<1>3. CASE Suspend
  BY <1>0, <1>3 DEF Suspend
<1>4. ASSUME NEW c \in Conns, NEW k \in EventKeys, EchoReply(c, k)
      PROVE  (posts[s] + sending[s] + Chance(s) <= 1 + deaths + expiries + retries)'
  BY <1>0, <1>4, StampOf DEF EchoReply, Marked, FirstTime
<1>5. ASSUME NEW t \in Stamps, Forget(t)
      PROVE  (posts[s] + sending[s] + Chance(s) <= 1 + deaths + expiries + retries)'
  BY <1>0, <1>5 DEF Forget
<1>6. ASSUME NEW t \in Stamps, SayStep(t)
      PROVE  (posts[s] + sending[s] + Chance(s) <= 1 + deaths + expiries + retries)'
  BY <1>0, <1>6 DEF SayStep, SayOk, SayRetried, SayFails
<1>7. CASE UNCHANGED allVars
  BY <1>1, <1>7 DEF allVars
<1> QED
  BY <1>2, <1>3, <1>4, <1>5, <1>6, <1>7 DEF ENext

LEMMA CopyStep == EchoTypeOK /\ CopyInv /\ [ENext]_allVars => CopyInv'
<1> SUFFICES ASSUME EchoTypeOK, CopyInv, [ENext]_allVars PROVE CopyInv'
  OBVIOUS
<1> USE DEF EchoTypeOK, CopyInv, Taken, Accounted, echoVars, procVars, countVars, dvars
\* Nothing that accounts for an event is taken back.
<1>1. ASSUME UNCHANGED <<accepted, acked, delivered, queue, gone>>, echoed' \subseteq echoed,
             \A t \in Stamps : Taken(t) => Taken(t)'
      PROVE  CopyInv'
  <2>1. \A t \in echoed' : Taken(t)'
    BY <1>1
  <2>2. ASSUME NEW c \in Conns, NEW k \in delivered[c] \ Skipped PROVE Accounted(k)'
    <3>1. Accounted(k) /\ TsOf[k] \in Stamps
      BY StampOf
    <3> QED
      BY <1>1, <3>1
  <2> QED
    BY <1>1, <2>1, <2>2
<1>2. CASE AcceptEvent \/ Resume \/ \E c \in Conns : Connect(c)
  BY <1>2 DEF AcceptEvent, Accept, Resume, Connect
<1>3. CASE Suspend
  <2>1. ASSUME NEW c \in Conns, NEW k \in delivered[c] \ Skipped PROVE Accounted(k)'
    <3>1. Accounted(k) /\ TsOf[k] \in Stamps
      BY StampOf
    <3>2. CASE \E e \in queue : e[2] \notin Skipped /\ TsOf[e[2]] = TsOf[k]
      <4>1. TsOf[k] \in gone'
        BY <1>3, <3>2 DEF Suspend
      <4> QED
        BY <4>1
    <3>3. CASE Taken(TsOf[k]) \/ TsOf[k] \in gone
      BY <1>3, <3>1, <3>3 DEF Suspend
    <3> QED
      BY <3>1, <3>2, <3>3
  <2>2. echoed' = {} /\ UNCHANGED <<acked, delivered>>
    BY <1>3 DEF Suspend
  <2> QED
    BY <2>1, <2>2
<1>4. CASE Dispatch
  <2>1. PICK j \in 0..(accepted - 1) :
          delivered' = [delivered EXCEPT ![conn] = @ \cup {j}] /\ UNCHANGED <<accepted, acked>>
    BY <1>4 DEF Dispatch, DeliverOn
  <2>2. /\ conn \in Conns /\ j \notin delivered[conn] => <<conn, j>> \in queue'
        /\ queue \subseteq queue'
        /\ UNCHANGED <<echoed, sending, posts, failed, gone>>
    BY <1>4, <2>1 DEF Dispatch
  <2>3. ASSUME NEW c \in Conns, NEW k \in delivered'[c] \ Skipped PROVE Accounted(k)'
    <3>1. CASE \E d \in Conns : k \in delivered[d]
      <4>1. Accounted(k)
        BY <3>1
      <4> QED
        BY <2>2, <4>1
    <3>2. CASE ~\E d \in Conns : k \in delivered[d]
      <4>1. k = j /\ j \notin delivered[conn]
        BY <1>4, <2>1, <3>2 DEF Dispatch
      <4>2. <<conn, k>> \in queue'
        BY <1>4, <2>2, <4>1 DEF Dispatch
      <4> QED
        BY <4>2
    <3> QED
      BY <3>1, <3>2
  <2>4. \A k \in acked' : \E c \in Conns : k \in delivered'[c]
    BY <2>1
  <2>5. \A t \in echoed' : Taken(t)'
    BY <2>2
  <2> QED
    BY <2>3, <2>4, <2>5
<1>5. CASE AckArrives
  <2>1. /\ \A k \in acked' : \E c \in Conns : k \in delivered[c]
        /\ UNCHANGED <<delivered, echoVars>>
    BY <1>5 DEF AckArrives, Acknowledge
  <2> QED
    BY <2>1
<1>6. ASSUME NEW d \in Conns, NEW j \in EventKeys, EchoReply(d, j) PROVE CopyInv'
  <2>1. /\ queue' = queue \ {<<d, j>>} /\ <<d, j>> \in queue
        /\ UNCHANGED <<delivered, acked, posts, failed, gone>>
    BY <1>6 DEF EchoReply
  <2>2. \A t \in Stamps : Taken(t) => Taken(t)'
    BY <1>6, StampOf DEF EchoReply
  <2>3. j \notin Skipped => Taken(TsOf[j])'
    <3> SUFFICES ASSUME j \notin Skipped PROVE Taken(TsOf[j])'
      OBVIOUS
    <3>1. CASE FirstTime(TsOf[j])
      BY <1>6, <3>1, StampOf DEF EchoReply
    <3>2. CASE ~FirstTime(TsOf[j])
      <4>1. Taken(TsOf[j])
        BY <3>2 DEF FirstTime
      <4> QED
        BY <2>2, <4>1, StampOf
    <3> QED
      BY <3>1, <3>2
  <2>4. \A t \in echoed' : Taken(t)'
    <3>1. \A t \in echoed : Taken(t)'
      BY <2>2
    <3>2. \A t \in echoed' : t \in echoed \/ (j \notin Skipped /\ t = TsOf[j])
      BY <1>6 DEF EchoReply, Marked
    <3> QED
      BY <2>3, <3>1, <3>2
  <2>5. ASSUME NEW c \in Conns, NEW k \in delivered[c] \ Skipped PROVE Accounted(k)'
    <3>1. Accounted(k) /\ TsOf[k] \in Stamps
      BY StampOf
    <3>2. CASE Taken(TsOf[k]) \/ TsOf[k] \in gone
      BY <2>1, <2>2, <3>1, <3>2
    <3>3. CASE \E e \in queue : e[2] \notin Skipped /\ TsOf[e[2]] = TsOf[k]
      <4>1. PICK e \in queue : e[2] \notin Skipped /\ TsOf[e[2]] = TsOf[k]
        BY <3>3
      <4>2. CASE e = <<d, j>>
        BY <2>3, <4>1, <4>2
      <4>3. CASE e # <<d, j>>
        BY <2>1, <4>1, <4>3
      <4> QED
        BY <4>2, <4>3
    <3> QED
      BY <3>1, <3>2, <3>3
  <2> QED
    BY <2>1, <2>4, <2>5
<1>7. ASSUME NEW t \in Stamps, Forget(t) \/ SayStep(t) PROVE CopyInv'
  <2>1. \A s \in Stamps : Taken(s) => Taken(s)'
    BY <1>7 DEF Forget, SayStep, SayOk, SayRetried, SayFails
  <2> QED
    BY <1>1, <1>7, <2>1 DEF Forget, SayStep, SayOk, SayRetried, SayFails
<1>8. CASE UNCHANGED allVars
  BY <1>1, <1>8 DEF allVars
<1> QED
  BY <1>2, <1>3, <1>4, <1>5, <1>6, <1>7, <1>8 DEF ENext

LEMMA EchoInvariant == ESpec => []EchoInv
<1>1. EInit => EchoInv
  BY EventsAssumption DEF EInit, Init, EchoInv, EchoTypeOK, Budget, Chance, CopyInv
<1>2. EchoInv /\ [ENext]_allVars => EchoInv'
  BY EchoTypeStep, BudgetStep, CopyStep DEF EchoInv
<1> QED
  BY <1>1, <1>2, PTL DEF ESpec

\* Every reply of a message beyond the first is paid for by a process that ended, a
\* timer of firstTime that expired or a reply that was lost.
THEOREM RepeatsAlwaysExplained == ESpec => []RepeatsExplained
<1>1. EchoInv => RepeatsExplained
  <2> SUFFICES ASSUME EchoInv, NEW t \in Stamps
               PROVE  posts[t] <= 1 + deaths + expiries + retries
    BY DEF RepeatsExplained
  <2>1. /\ posts[t] \in Nat /\ sending[t] \in Nat /\ Chance(t) \in {0, 1}
        /\ deaths \in Nat /\ expiries \in Nat /\ retries \in Nat
        /\ posts[t] + sending[t] + Chance(t) <= 1 + deaths + expiries + retries
    BY DEF EchoInv, EchoTypeOK, Budget, Chance
  <2> QED
    BY <2>1
<1> QED
  BY <1>1, EchoInvariant, PTL

\* echoReply never drops the last copy of a message: once an event is acked its
\* message is answered, or lost for a reason outside the handlers.
THEOREM AckedAlwaysEchoed == ESpec => []AckedIsEchoed
<1>1. EchoInv => AckedIsEchoed
  BY DEF EchoInv, CopyInv, Accounted, Taken, AckedIsEchoed
<1> QED
  BY <1>1, EchoInvariant, PTL

\* The variables of the actor keep their types.
THEOREM EchoTypeCorrect == ESpec => []EchoTypeOK
<1>1. EchoInv => EchoTypeOK
  BY DEF EchoInv
<1> QED
  BY <1>1, EchoInvariant, PTL

\* What the actor sees of the broker is what Delivery allows, and Session implements
\* Delivery: the echo theorems rest on no behaviour the session might not have promised.
THEOREM EchoUsesDelivery == ESpec => Spec
<1>1. EInit => Init
  BY DEF EInit
<1>2. EchoTypeOK /\ [ENext]_allVars => [Next]_dvars
  <2> SUFFICES ASSUME EchoTypeOK, [ENext]_allVars PROVE [Next]_dvars
    OBVIOUS
  <2>1. CASE AcceptEvent \/ AckArrives
    BY <2>1 DEF AcceptEvent, AckArrives, Next
  <2>2. CASE Dispatch
    BY <2>2 DEF Dispatch, EchoTypeOK, Next
  <2>3. CASE Resume \/ Suspend \/ \E c \in Conns : Connect(c)
    BY <2>3 DEF Resume, Suspend, Connect
  <2>4. CASE \E c \in Conns, k \in EventKeys : EchoReply(c, k)
    BY <2>4 DEF EchoReply
  <2>5. CASE \E t \in Stamps : Forget(t) \/ SayStep(t)
    BY <2>5 DEF Forget, SayStep, SayOk, SayRetried, SayFails
  <2>6. CASE UNCHANGED allVars
    BY <2>6 DEF allVars
  <2> QED
    BY <2>1, <2>2, <2>3, <2>4, <2>5, <2>6 DEF ENext
<1> QED
  BY <1>1, <1>2, EchoTypeCorrect, PTL DEF ESpec, Spec
=============================================================================
