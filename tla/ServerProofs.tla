---------------------------- MODULE ServerProofs ----------------------------
(***************************************************************************)
(* Tickets and identities, for any number of actors, requests and sockets. *)
(***************************************************************************)
EXTENDS Server, TLAPS

\* What is known of a request from its state: its mount names it or a golden
\* actor, and once identified it has the announced identity if there was one.
OpenInv ==
  \A o \in Opens :
    /\ mount[o] = caller[o] \/ mount[o] \in Golden
    /\ open[o] = "locate" => header[o] # "good"
    /\ open[o] \in {"known", "issue", "done"} =>
         ref[o] \in Refs /\ (header[o] = "good" => ref[o] = mount[o])

\* The identity is linked, or golden, from its admission until its socket ends;
\* a restart forgets the link and with it every ticket and socket.
LinkInv ==
  /\ \A o \in Opens : (open[o] = "issue" \/ tickets[o] # NoTicket) => ref[o] \in started \cup Golden
  /\ \A s \in Sockets : sock[s] \in {"redeemed", "attached"} => sref[s] \in started \cup Golden

\* A ticket is in the map or spent, never both, and stands for its request.
TicketInv ==
  /\ \A o \in Opens : tickets[o] # NoTicket => open[o] = "done" /\ tickets[o].ref = ref[o]
  /\ \A s \in Sockets : sock[s] = "new" => used[s] = NoOpen
  /\ \A s \in Sockets : sock[s] \in {"redeemed", "attached", "closed"} => used[s] # NoOpen
  /\ \A s \in Sockets : used[s] # NoOpen =>
       open[used[s]] = "done" /\ tickets[used[s]] = NoTicket /\ sref[s] = ref[used[s]]

ServerInv ==
  TypeOK /\ OpenInv /\ LinkInv /\ TicketInv /\ TicketOnce

LEMMA TypeStep == ServerInv /\ [Next]_vars => TypeOK'
<1> SUFFICES ASSUME TypeOK, OpenInv, TicketInv, [Next]_vars PROVE TypeOK'
  BY DEF ServerInv
<1> USE DEF TypeOK, Pages, OpenState, SockState, ForwardState, regVars, openVars, sockVars
<1>1. ASSUME NEW o \in Opens, OpenUnauthed(o) \/ OpenBegin(o) PROVE TypeOK'
  BY <1>1 DEF OpenUnauthed, OpenBegin, HeaderRef, ActorRef
<1>2. ASSUME NEW o \in Opens, LocateNextPage(o) \/ LocateMisses(o) PROVE TypeOK'
  BY <1>2, TimesAssumption DEF LocateNextPage, LocateMisses, Locating, MoreTries, NextTry
<1>3. ASSUME NEW o \in Opens, LocateFails(o) \/ \E r \in Refs : LocateFound(o, r) PROVE TypeOK'
  BY <1>3, TimesAssumption DEF LocateFails, LocateFound, LocateReturns
<1>4. ASSUME NEW o \in Opens, Admit(o) PROVE TypeOK'
  BY <1>4 DEF Admit, OpenInv
<1>5. ASSUME NEW o \in Opens, IssueTicket(o) PROVE TypeOK'
  <2>1. [ref |-> ref[o], expires |-> clock + TicketTTL] \in Tickets
    BY TimesAssumption DEF Tickets
  <2> QED
    BY <1>5, <2>1 DEF IssueTicket
<1>6. ASSUME NEW s \in Sockets, NEW o \in Opens, Redeem(s, o) PROVE TypeOK'
  <2>1. NoTicket \in Tickets
    BY DEF NoTicket, Tickets
  <2>2. tickets[o].ref \in Refs \cup {NoRef}
    BY DEF Tickets
  <2> QED
    BY <1>6, <2>1, <2>2 DEF Redeem, SpentTicket
<1>7. ASSUME NEW s \in Sockets, UpgradeFails(s) \/ AttachSocket(s) \/ DetachSocket(s)
      PROVE  TypeOK'
  <2>1. CASE AttachSocket(s)
    <3>1. used[s] \in Opens /\ sref[s] = ref[used[s]] /\ open[used[s]] = "done"
      BY <2>1 DEF AttachSocket, TicketInv
    <3>2. sref[s] \in Refs
      BY <3>1 DEF OpenInv
    <3> QED
      BY <2>1, <3>2 DEF AttachSocket
  <2> QED
    BY <1>7, <2>1 DEF UpgradeFails, DetachSocket
<1>8. ASSUME NEW f \in Forwards, ForwardEnds(f) \/ \E r \in Refs \cup {NoRef} : Forward(f, r)
      PROVE  TypeOK'
  BY <1>8 DEF ForwardEnds, Forward
<1>9. CASE Tick \/ UNCHANGED vars
  BY <1>9 DEF Tick, vars
<1>10. CASE Restart
  <2>1. NewTickets \in [Opens -> Tickets]
    BY DEF NewTickets, NoTicket, Tickets
  <2> QED
    BY <1>10, <2>1, TimesAssumption DEF Restart
<1> QED
  BY <1>1, <1>2, <1>3, <1>4, <1>5, <1>6, <1>7, <1>8, <1>9, <1>10 DEF Next, OpenStep, SockStep

LEMMA OpenStepInv == ServerInv /\ [Next]_vars => OpenInv'
<1> SUFFICES ASSUME ServerInv, [Next]_vars PROVE OpenInv'
  OBVIOUS
<1>0. TypeOK /\ OpenInv /\ TicketInv
  BY DEF ServerInv
<1> USE DEF TypeOK, OpenInv, regVars, openVars, sockVars
<1>1. ASSUME NEW o \in Opens, OpenUnauthed(o) \/ LocateFails(o)
      PROVE  OpenInv'
  BY <1>0, <1>1 DEF OpenUnauthed, LocateFails, LocateReturns
<1>2. ASSUME NEW o \in Opens, OpenBegin(o) PROVE OpenInv'
  <2>1. /\ HeaderRef(o) # NoRef => HeaderRef(o) \in Refs /\ HeaderRef(o) = mount[o]
        /\ HeaderRef(o) = NoRef => header[o] # "good"
    BY <1>0, RefsAssumption DEF HeaderRef, ActorRef
  <2> HIDE DEF HeaderRef
  <2> QED
    BY <1>0, <1>2, <2>1 DEF OpenBegin
<1>3. ASSUME NEW o \in Opens,
             LocateNextPage(o) \/ LocateMisses(o) \/ \E r \in Refs : LocateFound(o, r)
      PROVE  OpenInv'
  BY <1>0, <1>3 DEF LocateNextPage, LocateMisses, LocateFound, Locating, LocateReturns
<1>4. ASSUME NEW o \in Opens, Admit(o) PROVE OpenInv'
  BY <1>0, <1>4 DEF Admit, MayLink
<1>5. ASSUME NEW o \in Opens, IssueTicket(o) PROVE OpenInv'
  BY <1>0, <1>5 DEF IssueTicket
<1>6. ASSUME NEW s \in Sockets, SockStep(s) PROVE OpenInv'
  BY <1>0, <1>6 DEF SockStep, UpgradeFails, AttachSocket, DetachSocket, Redeem
<1>7. ASSUME NEW f \in Forwards, ForwardEnds(f) \/ \E r \in Refs \cup {NoRef} : Forward(f, r)
      PROVE  OpenInv'
  BY <1>0, <1>7 DEF ForwardEnds, Forward
<1>8. CASE Restart \/ Tick \/ UNCHANGED vars
  BY <1>0, <1>8 DEF Restart, Tick, vars
<1> QED
  BY <1>1, <1>2, <1>3, <1>4, <1>5, <1>6, <1>7, <1>8 DEF Next, OpenStep

LEMMA LinkStep == ServerInv /\ [Next]_vars => LinkInv'
<1> SUFFICES ASSUME TypeOK, OpenInv, LinkInv, TicketInv, [Next]_vars PROVE LinkInv'
  BY DEF ServerInv
<1> USE DEF TypeOK, LinkInv, regVars, openVars, sockVars
<1>1. ASSUME UNCHANGED <<tickets, sock, sref>>, started \subseteq started',
             \A o \in Opens : /\ open'[o] = "issue" => open[o] = "issue"
                              /\ open[o] \in {"issue", "done"} => ref'[o] = ref[o]
      PROVE  LinkInv'
  <2>1. ASSUME NEW o \in Opens, (open[o] = "issue" \/ tickets[o] # NoTicket)'
        PROVE  ref'[o] \in started' \cup Golden
    <3>1. open[o] = "issue" \/ tickets[o] # NoTicket
      BY <1>1, <2>1 DEF NoTicket
    <3>2. open[o] \in {"issue", "done"}
      BY <3>1 DEF TicketInv
    <3>3. ref'[o] = ref[o] /\ ref[o] \in started \cup Golden
      BY <1>1, <3>1, <3>2
    <3> QED
      BY <1>1, <3>3
  <2>2. ASSUME NEW s \in Sockets, sock'[s] \in {"redeemed", "attached"}
        PROVE  sref'[s] \in started' \cup Golden
    BY <1>1, <2>2
  <2> QED
    BY <2>1, <2>2, Zenon DEF LinkInv
<1>2. ASSUME NEW o \in Opens,
             \/ OpenUnauthed(o) \/ OpenBegin(o) \/ LocateNextPage(o) \/ LocateMisses(o)
             \/ LocateFails(o) \/ \E r \in Refs : LocateFound(o, r)
      PROVE  LinkInv'
  BY <1>1, <1>2 DEF OpenUnauthed, OpenBegin, LocateNextPage, LocateMisses, LocateFails,
                    LocateFound, Locating, LocateReturns
<1>3. ASSUME NEW o \in Opens, Admit(o) PROVE LinkInv'
  <2>1. ref[o] \in Refs
    BY <1>3 DEF Admit, OpenInv
  <2>2. ref[o] \in started' \cup Golden /\ started \subseteq started'
    BY <1>3, <2>1 DEF Admit, MayLink
  <2> QED
    BY <1>3, <2>2 DEF Admit
<1>4. ASSUME NEW o \in Opens, IssueTicket(o) PROVE LinkInv'
  BY <1>4 DEF IssueTicket
<1>5. ASSUME NEW s \in Sockets, NEW o \in Opens, Redeem(s, o) PROVE LinkInv'
  <2>1. /\ tickets' = [tickets EXCEPT ![o] = NoTicket]
        /\ UNCHANGED <<open, ref, started>>
    BY <1>5 DEF Redeem, SpentTicket
  <2>2. CASE Valid(o)
    <3>1. sref' = [sref EXCEPT ![s] = ref[o]] /\ sock' = [sock EXCEPT ![s] = "redeemed"]
      BY <1>5, <2>2 DEF Redeem, Valid, TicketInv
    <3>2. ref[o] \in started \cup Golden
      BY <2>2 DEF Valid
    <3> QED
      BY <2>1, <3>1, <3>2
  <2>3. CASE ~Valid(o)
    <3>1. sock' = [sock EXCEPT ![s] = "refused"] /\ sref' = sref
      BY <1>5, <2>3 DEF Redeem
    <3> QED
      BY <2>1, <3>1
  <2> QED
    BY <2>2, <2>3
<1>6. ASSUME NEW s \in Sockets, UpgradeFails(s) \/ AttachSocket(s) \/ DetachSocket(s)
      PROVE  LinkInv'
  BY <1>6 DEF UpgradeFails, AttachSocket, DetachSocket
<1>7. ASSUME NEW f \in Forwards, ForwardEnds(f) \/ \E r \in Refs \cup {NoRef} : Forward(f, r)
      PROVE  LinkInv'
  BY <1>1, <1>7 DEF ForwardEnds, Forward
<1>8. CASE Tick \/ UNCHANGED vars
  BY <1>1, <1>8 DEF Tick, vars
<1>9. CASE Restart
  BY <1>9 DEF Restart, NewTickets
<1> QED
  BY <1>2, <1>3, <1>4, <1>5, <1>6, <1>7, <1>8, <1>9 DEF Next, OpenStep, SockStep

LEMMA TicketStep == ServerInv /\ [Next]_vars => TicketInv' /\ TicketOnce'
<1> SUFFICES ASSUME ServerInv, [Next]_vars PROVE TicketInv' /\ TicketOnce'
  OBVIOUS
<1>0. TypeOK /\ OpenInv /\ TicketInv /\ TicketOnce
  BY DEF ServerInv
<1> USE DEF TypeOK, TicketInv, TicketOnce, regVars, openVars, sockVars
<1>1. ASSUME UNCHANGED <<tickets, sockVars>>,
             \A o \in Opens : open[o] = "done" => open'[o] = "done" /\ ref'[o] = ref[o]
      PROVE  TicketInv' /\ TicketOnce'
  BY <1>0, <1>1
<1>2. ASSUME NEW o \in Opens,
             \/ OpenUnauthed(o) \/ OpenBegin(o) \/ LocateNextPage(o) \/ LocateMisses(o)
             \/ LocateFails(o) \/ (\E r \in Refs : LocateFound(o, r)) \/ Admit(o)
      PROVE  TicketInv' /\ TicketOnce'
  BY <1>0, <1>1, <1>2
     DEF OpenUnauthed, OpenBegin, LocateNextPage, LocateMisses, LocateFails, LocateFound,
         Locating, LocateReturns, Admit
<1>3. ASSUME NEW o \in Opens, IssueTicket(o) PROVE TicketInv' /\ TicketOnce'
  BY <1>0, <1>3 DEF IssueTicket
<1>4. ASSUME NEW s \in Sockets, NEW o \in Opens, Redeem(s, o)
      PROVE  TicketInv' /\ TicketOnce'
  <2>1. CASE Valid(o)
    <3>1. /\ sock' = [sock EXCEPT ![s] = "redeemed"] /\ used' = [used EXCEPT ![s] = o]
          /\ sref' = [sref EXCEPT ![s] = tickets[o].ref]
          /\ tickets' = [tickets EXCEPT ![o] = NoTicket]
          /\ UNCHANGED <<open, ref>>
          /\ tickets[o] # NoTicket /\ open[o] = "done" /\ tickets[o].ref = ref[o]
      BY <1>0, <1>4, <2>1 DEF Redeem, Valid, SpentTicket
    <3>2. \A t \in Sockets : used[t] # o
      BY <1>0, <3>1, RefsAssumption
    <3> QED
      BY <1>0, <3>1, <3>2, RefsAssumption
  <2>2. CASE ~Valid(o)
    <3>1. /\ sock[s] = "new" /\ sock' = [sock EXCEPT ![s] = "refused"]
          /\ UNCHANGED <<used, sref, open, ref>>
          /\ tickets' = [tickets EXCEPT ![o] = NoTicket]
      BY <1>4, <2>2 DEF Redeem, SpentTicket
    <3> QED
      BY <1>0, <3>1
  <2> QED
    BY <2>1, <2>2
<1>5. ASSUME NEW s \in Sockets, UpgradeFails(s) \/ AttachSocket(s) \/ DetachSocket(s)
      PROVE  TicketInv' /\ TicketOnce'
  BY <1>0, <1>5 DEF UpgradeFails, AttachSocket, DetachSocket
<1>6. ASSUME NEW f \in Forwards, ForwardEnds(f) \/ \E r \in Refs \cup {NoRef} : Forward(f, r)
      PROVE  TicketInv' /\ TicketOnce'
  BY <1>1, <1>6 DEF ForwardEnds, Forward
<1>7. CASE Tick \/ UNCHANGED vars
  BY <1>1, <1>7 DEF Tick, vars
<1>8. CASE Restart
  BY <1>0, <1>8 DEF Restart, NewTickets
<1> QED
  BY <1>2, <1>3, <1>4, <1>5, <1>6, <1>7, <1>8 DEF Next, OpenStep, SockStep

LEMMA ServerInvariant == Spec => []ServerInv
<1>1. Init => ServerInv
  <2> SUFFICES ASSUME Init PROVE ServerInv
    OBVIOUS
  <2>1. TypeOK
    BY TimesAssumption DEF Init, TypeOK, Pages, OpenState, SockState, ForwardState, Tickets, NoTicket
  <2>2. OpenInv /\ LinkInv /\ TicketInv /\ TicketOnce
    BY DEF Init, OpenInv, LinkInv, TicketInv, TicketOnce
  <2> QED
    BY <2>1, <2>2 DEF ServerInv
<1>2. ServerInv /\ [Next]_vars => ServerInv'
  BY TypeStep, OpenStepInv, LinkStep, TicketStep DEF ServerInv
<1> QED
  BY <1>1, <1>2, PTL DEF Spec

\* redeemTicket lets each ticket through once, however requests race for it.
THEOREM TicketAlwaysOnce == Spec => []TicketOnce
<1>1. ServerInv => TicketOnce
  BY DEF ServerInv
<1> QED
  BY <1>1, ServerInvariant, PTL

\* An announced identity survives retries, tickets and restarts: the socket
\* attaches as its caller, or as a golden actor where the mount says so.
THEOREM AlwaysOwnSession == Spec => []OwnSession
<1>1. ServerInv => OwnSession
  <2> SUFFICES ASSUME ServerInv, NEW s \in Sockets, used[s] # NoOpen, header[used[s]] = "good"
               PROVE  \/ sref[s] = caller[used[s]]
                      \/ mount[used[s]] # caller[used[s]] /\ sref[s] \in Golden
    BY DEF OwnSession
  <2>1. used[s] \in Opens /\ open[used[s]] = "done" /\ sref[s] = ref[used[s]]
    BY DEF ServerInv, TypeOK, TicketInv
  <2> QED
    BY <2>1 DEF ServerInv, OpenInv
<1> QED
  BY <1>1, ServerInvariant, PTL

\* Every actor attached under an identity that is not golden has a Slack connection,
\* also when the broker was restarted between its bootstrap call and its socket.
THEOREM AlwaysAttachedLinked == Spec => []AttachedIsLinked
<1>1. ServerInv => AttachedIsLinked
  BY DEF ServerInv, LinkInv, AttachedIsLinked
<1> QED
  BY <1>1, ServerInvariant, PTL

\* The variables of the server keep their types: the attempts stay within the
\* loop bound of locateWithRetry.
THEOREM ServerTypeCorrect == Spec => []TypeOK
<1>1. ServerInv => TypeOK
  BY DEF ServerInv
<1> QED
  BY <1>1, ServerInvariant, PTL
=============================================================================
