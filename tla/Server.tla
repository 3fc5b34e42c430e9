------------------------------- MODULE Server -------------------------------
(***************************************************************************)
(* The actor-facing HTTP server of cmd/egress-broker/server.go: identifying*)
(* the caller of apps.connections.open, starting its session, one-time     *)
(* tickets, the WebSocket that redeems one, and the forwarding of other    *)
(* calls; with the Registry's map of sessions.                             *)
(*                                                                         *)
(* Every request is served by its own goroutine; one action is one critical*)
(* section or one call out.  The control plane's listing of actors is      *)
(* external, comes in any number of pages and lags behind: it may report   *)
(* any actor, or none, at the pod IP a request comes from.  The identity   *)
(* mount of an actor is external too: it names the actor, or the golden    *)
(* one it was cloned from (docs/sidecar-egress-proxy-plan.md:59, 257).     *)
(*                                                                         *)
(* The broker process may end at any step, by a signal or a crash, and is  *)
(* started again: what it kept in memory is gone, actors and control plane *)
(* go on.                                                                  *)
(***************************************************************************)
EXTENDS Naturals

CONSTANTS
  Refs,         \* actor identities
  Golden,       \* those in the golden-snapshot atespace
  NoRef,        \* no identity
  Opens,        \* apps.connections.open requests; each names its ticket
  NoOpen,       \* a ticket that was never issued
  Sockets,      \* WebSocket requests
  Forwards,     \* goroutines that serve other Slack API calls
  MaxAttempts,  \* attempts of locateWithRetry (20 in the code)
  MaxRestarts,  \* bound on the restarts of the broker
  TicketTTL,    \* life of a ticket, in clock ticks (2 minutes in the code)
  MaxTime       \* bound on the clock

ASSUME RefsAssumption == NoRef \notin Refs /\ Golden \subseteq Refs /\ NoOpen \notin Opens
ASSUME TimesAssumption == MaxAttempts \in Nat \ {0} /\ TicketTTL \in Nat /\ MaxTime \in Nat
ASSUME RestartsAssumption == MaxRestarts \in Nat

VARIABLES
  sessions,   \* Registry.sessions: identities that have a session
  started,    \* sessions whose EnsureStarted was called
  tickets,    \* Server.tickets
  clock,      \* time.Now
  open,       \* state of each open request
  caller,     \* the actor that really sent it
  mount,      \* the identity its mount /run/ate names
  header,     \* its X-Ate-Actor header
  ref,        \* the identity the broker settled on
  tries,      \* attempts of locateWithRetry
  page,       \* which page of the listing its LocateByPodIP asks for next
  sock,       \* state of each WebSocket request
  used,       \* the ticket it redeemed
  sref,       \* the identity it attaches as
  fwd,        \* state of each forwarded call: "idle", "counted" or "plain"
  restarts    \* restarts of the broker so far

regVars == <<sessions, started>>
openVars == <<open, caller, mount, header, ref, tries, page>>
sockVars == <<sock, used, sref>>
vars == <<regVars, tickets, clock, openVars, sockVars, fwd, restarts>>

Headers == {"good", "malformed", "none"}
Pages == {"first", "later"}

NoTicket == [ref |-> NoRef, expires |-> 0]
Tickets == [ref : Refs \cup {NoRef}, expires : Nat]

Init ==
  /\ sessions = {} /\ started = {}
  /\ tickets = [o \in Opens |-> NoTicket]
  /\ clock = 0
  /\ open = [o \in Opens |-> "new"]
  /\ caller \in [Opens -> Refs]
  /\ mount \in [Opens -> Refs]
  /\ \A o \in Opens : mount[o] \in Golden \cup {caller[o]}
  /\ header \in [Opens -> Headers]
  /\ ref = [o \in Opens |-> NoRef]
  /\ tries = [o \in Opens |-> 0]
  /\ page = [o \in Opens |-> "first"]
  /\ sock = [s \in Sockets |-> "new"]
  /\ used = [s \in Sockets |-> NoOpen]
  /\ sref = [s \in Sockets |-> NoRef]
  /\ fwd = [f \in Forwards |-> "idle"]
  /\ restarts = 0

-----------------------------------------------------------------------------
(* handleConnectionsOpen.                                                  *)

\* No bearer token: the reply is not_authed.
OpenUnauthed(o) ==
  /\ open[o] = "new"
  /\ open' = [open EXCEPT ![o] = "refused"]
  /\ UNCHANGED <<regVars, tickets, clock, caller, mount, header, ref, tries, page, sockVars, fwd, restarts>>

RememberedRef(o) == IF header[o] = "none" THEN NoRef ELSE CHOOSE g \in Golden : TRUE

\* The actor's side: the identity is read from its mount for each request, not
\* remembered, since a clone of a golden snapshot remembers the golden one.
ActorRef(o) == IF header[o] = "none" THEN NoRef ELSE mount[o]

\* The broker's side: parseActorRef refuses a malformed header.
HeaderRef(o) == IF header[o] = "malformed" THEN NoRef ELSE ActorRef(o)

OpenBegin(o) ==
  /\ open[o] = "new"
  /\ ref' = [ref EXCEPT ![o] = HeaderRef(o)]
  /\ open' = [open EXCEPT ![o] = IF HeaderRef(o) # NoRef THEN "known" ELSE "locate"]
  /\ UNCHANGED <<regVars, tickets, clock, caller, mount, header, tries, page, sockVars, fwd, restarts>>

SameTry(n) == n

\* The counter of locateWithRetry.
NextTry(n) == n + 1

MoreTriesByOne(n) == n <= MaxAttempts

\* The condition of its loop.
MoreTries(n) == n < MaxAttempts

Locating(o) == open[o] = "locate" /\ MoreTries(tries[o])

\* The function returns, and its locals are gone.
LocateReturns(o) ==
  /\ tries' = [tries EXCEPT ![o] = 0]
  /\ page' = [page EXCEPT ![o] = "first"]
  /\ UNCHANGED <<regVars, tickets, clock, caller, mount, header, sockVars, fwd, restarts>>

\* LocateByPodIP asks for one page, which lists r as running at the IP.
LocateFound(o, r) ==
  /\ Locating(o)
  /\ ref' = [ref EXCEPT ![o] = r]
  /\ open' = [open EXCEPT ![o] = "known"]
  /\ LocateReturns(o)

\* The page does not list it, and there is another one, as often as the control
\* plane likes.  The listing may change between two pages: an entry can move to a
\* page already read.
LocateNextPage(o) ==
  /\ Locating(o)
  /\ page' = [page EXCEPT ![o] = "later"]
  /\ UNCHANGED <<regVars, tickets, clock, open, caller, mount, header, ref, tries, sockVars, fwd, restarts>>

\* Neither does the last page, or ListActors fails: the attempt is over.
LocateMisses(o) ==
  /\ Locating(o)
  /\ tries' = [tries EXCEPT ![o] = NextTry(@)]
  /\ page' = [page EXCEPT ![o] = "first"]
  /\ UNCHANGED <<regVars, tickets, clock, open, caller, mount, header, ref, sockVars, fwd, restarts>>

\* The last attempt failed, or the caller went away between two attempts: the
\* reply, if any, is actor_not_identified.
LocateFails(o) ==
  /\ open[o] = "locate" /\ tries[o] > 0 /\ page[o] = "first"
  /\ open' = [open EXCEPT ![o] = "refused"]
  /\ LocateReturns(o)
  /\ UNCHANGED ref

\* Only real actors get a Slack session.
MayLink(r) == r \notin Golden

\* GetOrCreate(ref).EnsureStarted(token), which a golden actor skips.
Admit(o) ==
  /\ open[o] = "known"
  /\ open' = [open EXCEPT ![o] = "issue"]
  /\ IF MayLink(ref[o])
       THEN sessions' = sessions \cup {ref[o]} /\ started' = started \cup {ref[o]}
       ELSE UNCHANGED regVars
  /\ UNCHANGED <<tickets, clock, caller, mount, header, ref, tries, page, sockVars, fwd, restarts>>

\* issueTicket, and the reply with the wss URL.
IssueTicket(o) ==
  /\ open[o] = "issue"
  /\ open' = [open EXCEPT ![o] = "done"]
  /\ tickets' = [tickets EXCEPT ![o] = [ref |-> ref[o], expires |-> clock + TicketTTL]]
  /\ UNCHANGED <<regVars, clock, caller, mount, header, ref, tries, page, sockVars, fwd, restarts>>

-----------------------------------------------------------------------------
(* handleActorSocket.                                                      *)

KeptTicket(o) == tickets[o]

\* What redeemTicket leaves in the map under the ticket: nothing.
SpentTicket(o) == NoTicket

\* redeemTicket's test: known and not expired.
Valid(o) == tickets[o] # NoTicket /\ clock <= tickets[o].expires

\* A request with the ticket of a reply, whether or not another request
\* presented it before.
Redeem(s, o) ==
  /\ sock[s] = "new" /\ open[o] = "done"
  /\ IF Valid(o)
       THEN /\ sock' = [sock EXCEPT ![s] = "redeemed"]
            /\ used' = [used EXCEPT ![s] = o]
            /\ sref' = [sref EXCEPT ![s] = tickets[o].ref]
       ELSE /\ sock' = [sock EXCEPT ![s] = "refused"]
            /\ UNCHANGED <<used, sref>>
  /\ tickets' = [tickets EXCEPT ![o] = SpentTicket(o)]
  /\ UNCHANGED <<regVars, clock, openVars, fwd, restarts>>

\* The upgrade fails after the ticket was spent.
UpgradeFails(s) ==
  /\ sock[s] = "redeemed"
  /\ sock' = [sock EXCEPT ![s] = "refused"]
  /\ UNCHANGED <<regVars, tickets, clock, openVars, used, sref, fwd, restarts>>

\* GetOrCreate(ref) and Attach; Session models what follows.
AttachSocket(s) ==
  /\ sock[s] = "redeemed"
  /\ sock' = [sock EXCEPT ![s] = "attached"]
  /\ sessions' = sessions \cup {sref[s]}
  /\ UNCHANGED <<started, tickets, clock, openVars, used, sref, fwd, restarts>>

\* The read loop ends; the session stays in the registry.
DetachSocket(s) ==
  /\ sock[s] = "attached"
  /\ sock' = [sock EXCEPT ![s] = "closed"]
  /\ UNCHANGED <<regVars, tickets, clock, openVars, used, sref, fwd, restarts>>

-----------------------------------------------------------------------------
(* handlePassthrough: count the call if the header names a known session.  *)
(* r is NoRef for a call without a usable header.                          *)

Forward(f, r) ==
  /\ fwd[f] = "idle"
  /\ fwd' = [fwd EXCEPT ![f] = IF r \in sessions THEN "counted" ELSE "plain"]
  /\ UNCHANGED <<regVars, tickets, clock, openVars, sockVars, restarts>>

ForwardEnds(f) ==
  /\ fwd[f] \in {"counted", "plain"}
  /\ fwd' = [fwd EXCEPT ![f] = "idle"]
  /\ UNCHANGED <<regVars, tickets, clock, openVars, sockVars, restarts>>

-----------------------------------------------------------------------------
(* The process ends and main runs again: NewRegistry and NewServer start   *)
(* with empty maps, and every request and socket of the old process breaks.*)

TicketsSurvive == tickets

\* The tickets map of a new Server.
NewTickets == [o \in Opens |-> NoTicket]

Restart ==
  /\ restarts < MaxRestarts
  /\ restarts' = restarts + 1
  /\ sessions' = {} /\ started' = {}
  /\ tickets' = NewTickets
  /\ open' = [o \in Opens |-> IF open[o] \in {"locate", "known", "issue"} THEN "refused" ELSE open[o]]
  /\ sock' = [s \in Sockets |-> IF sock[s] \in {"redeemed", "attached"} THEN "closed" ELSE sock[s]]
  /\ fwd' = [f \in Forwards |-> "idle"]
  /\ tries' = [o \in Opens |-> 0] /\ page' = [o \in Opens |-> "first"]
  /\ UNCHANGED <<clock, caller, mount, header, ref, used, sref>>

-----------------------------------------------------------------------------
Tick ==
  /\ clock < MaxTime
  /\ clock' = clock + 1
  /\ UNCHANGED <<regVars, tickets, openVars, sockVars, fwd, restarts>>

OpenStep(o) ==
  \/ OpenBegin(o) \/ Admit(o) \/ IssueTicket(o)
  \/ \E r \in Refs : LocateFound(o, r)
  \/ LocateNextPage(o) \/ LocateMisses(o) \/ LocateFails(o)

SockStep(s) ==
  UpgradeFails(s) \/ AttachSocket(s) \/ DetachSocket(s) \/ \E o \in Opens : Redeem(s, o)

Next ==
  \/ \E o \in Opens : OpenUnauthed(o) \/ OpenStep(o)
  \/ \E s \in Sockets : SockStep(s)
  \/ \E f \in Forwards : ForwardEnds(f) \/ \E r \in Refs \cup {NoRef} : Forward(f, r)
  \/ Tick
  \/ Restart

Spec == Init /\ [][Next]_vars

\* The steps a request's goroutine takes without the control plane.
HandlerStep(o) == OpenBegin(o) \/ Admit(o) \/ IssueTicket(o) \/ LocateFails(o)

\* An assumption on the control plane that no deadline of the code enforces: a
\* listing comes to its end, or to the actor, or fails.
ListingEnds(o) == LocateMisses(o) \/ \E r \in Refs : LocateFound(o, r)

FairSpec == Spec /\ \A o \in Opens : WF_vars(HandlerStep(o)) /\ WF_vars(ListingEnds(o))

-----------------------------------------------------------------------------
(* Properties.                                                             *)

OpenState == {"new", "locate", "known", "issue", "done", "refused"}
SockState == {"new", "redeemed", "attached", "closed", "refused"}
ForwardState == {"idle", "counted", "plain"}

\* Every variable keeps its type.
TypeOK ==
  /\ sessions \subseteq Refs /\ started \subseteq Refs
  /\ tickets \in [Opens -> Tickets]
  /\ clock \in Nat
  /\ open \in [Opens -> OpenState]
  /\ caller \in [Opens -> Refs]
  /\ mount \in [Opens -> Refs]
  /\ header \in [Opens -> Headers]
  /\ ref \in [Opens -> Refs \cup {NoRef}]
  /\ tries \in [Opens -> 0..MaxAttempts]
  /\ page \in [Opens -> Pages]
  /\ sock \in [Sockets -> SockState]
  /\ used \in [Sockets -> Opens \cup {NoOpen}]
  /\ sref \in [Sockets -> Refs \cup {NoRef}]
  /\ fwd \in [Forwards -> ForwardState]
  /\ restarts \in Nat

\* A ticket opens one WebSocket, however many requests present it at once, or
\* again after a restart.
TicketOnce ==
  \A s, t \in Sockets : (used[s] = used[t] /\ used[s] # NoOpen) => s = t

\* An actor that announces an identity is attached to its own session, whatever
\* the lagging listing would suggest and its memory holds; if its mount still
\* names the golden actor, to a golden session, never to another real actor's.
OwnSession ==
  \A s \in Sockets :
    LET o == used[s] IN
    (o # NoOpen /\ header[o] = "good") =>
      sref[s] = caller[o] \/ (mount[o] # caller[o] /\ sref[s] \in Golden)

\* An actor attached under an identity that is not golden has a Slack connection
\* behind its session: the session was started before its ticket went out, and after
\* a restart, which forgets both, the actor must open again (README.md:221).
AttachedIsLinked ==
  \A s \in Sockets : sock[s] = "attached" => sref[s] \in started \cup Golden

\* As long as the listings end, every bootstrap call is answered, also when none of
\* them ever shows the actor: locateWithRetry gives up.  Without that assumption
\* the call waits for ListActors for ever, unless its caller goes away.
OpenAnswered == \A o \in Opens : (open[o] = "locate") ~> (open[o] \in {"done", "refused"})
=============================================================================
