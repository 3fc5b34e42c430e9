----------------------------- MODULE SlackLink -----------------------------
(***************************************************************************)
(* The persistent Slack connection of one session: EnsureStarted, the      *)
(* runSlack loop with its backoff, readSlackUntilClose, Close, and the     *)
(* dialer and connection of realslack.go.  Slack itself is external: it    *)
(* sends an event on the open connection, again and again, until an ack    *)
(* for it arrives; a copy is under way until the broker reads it, so Slack *)
(* may send the next one before the ack of the first was even written.     *)
(*                                                                         *)
(* A loop is one runSlack goroutine.  onEvent is one step here; Session    *)
(* models what it does.                                                    *)
(***************************************************************************)
EXTENDS Naturals, FiniteSets

CONSTANTS
  Loops,      \* runSlack goroutines that may be started
  Tokens,     \* app-level tokens an actor may present
  NoToken,    \* appToken before the first EnsureStarted
  Events,     \* Slack events, records with the type of their envelope
  NoEvent,    \* no event in hand
  MaxResends  \* bound: sends of an event after a lost ack or before a late one

EventTypes == {"events_api", "slash_commands", "interactive"}
OtherTypes == {"hello", "disconnect", "unknown"}

ASSUME TokensAssumption == NoToken \notin Tokens
ASSUME ResendsAssumption == MaxResends \in Nat
ASSUME EventsAssumption == NoEvent \notin Events /\ \A e \in Events : e.type \in EventTypes

VARIABLES
  appToken, started, closed,   \* session fields, guarded by mu
  pc,          \* where each loop stands
  tok,         \* the token it dials with
  backoff,     \* its backoff, in seconds
  hand,        \* the event it is handling
  up,          \* its Slack connection can still carry frames
  wire,        \* copies of each event under way on its connection
  acked,       \* Slack: events whose ack arrived
  lost,        \* how many acks of each event failed or were lost
  late,        \* how often Slack sent an event again while a copy was unacked
  handed       \* how often onEvent was called with each event

sessionVars == <<appToken, started, closed>>
loopVars == <<pc, tok, backoff, hand, up, wire>>
slackVars == <<acked, lost, late>>
vars == <<sessionVars, loopVars, slackVars, handed>>

Init ==
  /\ appToken = NoToken /\ started = FALSE /\ closed = FALSE
  /\ pc = [l \in Loops |-> "off"]
  /\ tok = [l \in Loops |-> NoToken]
  /\ backoff = [l \in Loops |-> 1]
  /\ hand = [l \in Loops |-> NoEvent]
  /\ up = [l \in Loops |-> FALSE]
  /\ wire = [l \in Loops |-> [e \in Events |-> 0]]
  /\ acked = {}
  /\ lost = [e \in Events |-> 0] /\ late = [e \in Events |-> 0]
  /\ handed = [e \in Events |-> 0]

\* The stop channel exists once the loop was started, and Close closes it.
Stopped == started /\ closed

Goto(l, where) == pc' = [pc EXCEPT ![l] = where]

-----------------------------------------------------------------------------
(* Classification of envelopes and the backoff.                            *)

IsEventWithoutInteractive(type) == type \in {"events_api", "slash_commands"}

IsConnectionManagement(type) == type \in {"hello", "disconnect"}
IsEvent(type) == type \in EventTypes

NextBackoffUncapped(d) == 2 * d

\* nextBackoff: double, at most 30 seconds.
NextBackoff(d) == IF 2 * d > 30 THEN 30 ELSE 2 * d

-----------------------------------------------------------------------------
(* The session's side.                                                     *)

MayStartUnlessClosed == ~closed

\* The guard of EnsureStarted.
MayStart == ~started /\ ~closed

\* EnsureStarted: record the token; the first call starts the loop.
EnsureStarted(t) ==
  /\ appToken' = t
  /\ IF MayStart
       THEN /\ started' = TRUE
            /\ \E l \in Loops : pc[l] = "off" /\ Goto(l, "top")
       ELSE UNCHANGED <<started, pc>>
  /\ UNCHANGED <<closed, tok, backoff, hand, up, wire, slackVars, handed>>

\* Close: a second call, or a call before the loop was started, closes no channel.
Close ==
  /\ ~closed
  /\ closed' = TRUE
  /\ UNCHANGED <<appToken, started, loopVars, slackVars, handed>>

-----------------------------------------------------------------------------
(* runSlack.                                                               *)

\* The top of the loop: leave if stopped, else read the token and dial.
LoopTop(l) ==
  /\ pc[l] = "top"
  /\ IF Stopped
       THEN Goto(l, "ended") /\ UNCHANGED tok
       ELSE Goto(l, "dial") /\ tok' = [tok EXCEPT ![l] = appToken]
  /\ UNCHANGED <<sessionVars, backoff, hand, up, wire, slackVars, handed>>

\* Dial: apps.connections.open, then the WebSocket.
DialOk(l) ==
  /\ pc[l] = "dial"
  /\ Goto(l, "check")
  /\ up' = [up EXCEPT ![l] = TRUE]
  /\ backoff' = [backoff EXCEPT ![l] = 1]
  /\ UNCHANGED <<sessionVars, tok, hand, wire, slackVars, handed>>

\* Either call fails, or both together exceed 30 s.
DialErr(l) ==
  /\ pc[l] = "dial"
  /\ Goto(l, "sleep")
  /\ UNCHANGED <<sessionVars, tok, backoff, hand, up, wire, slackVars, handed>>

\* sleepOrStop: when both channels are ready the select takes either.
SleepOver(l) ==
  /\ pc[l] = "sleep"
  /\ Goto(l, "top")
  /\ backoff' = [backoff EXCEPT ![l] = NextBackoff(@)]
  /\ UNCHANGED <<sessionVars, tok, hand, up, wire, slackVars, handed>>

SleepStopped(l) ==
  /\ pc[l] = "sleep" /\ Stopped
  /\ Goto(l, "ended")
  /\ UNCHANGED <<sessionVars, tok, backoff, hand, up, wire, slackVars, handed>>

\* conn.Close after the read loop, which drops what was not read, and the second
\* look at stop.
CloseConn(l) ==
  /\ pc[l] = "close"
  /\ up' = [up EXCEPT ![l] = FALSE]
  /\ wire' = [wire EXCEPT ![l] = [e \in Events |-> 0]]
  /\ Goto(l, IF Stopped THEN "ended" ELSE "top")
  /\ UNCHANGED <<sessionVars, tok, backoff, hand, slackVars, handed>>

-----------------------------------------------------------------------------
(* readSlackUntilClose.                                                    *)

AfterCheckNeverStops == "read"

\* Where the select at the head of the read loop leads.
AfterCheck == IF Stopped THEN "close" ELSE "read"

ReadCheck(l) ==
  /\ pc[l] = "check"
  /\ Goto(l, AfterCheck)
  /\ UNCHANGED <<sessionVars, tok, backoff, hand, up, wire, slackVars, handed>>

\* Read fails: the connection is gone, or the frame is not a JSON envelope.
ReadErr(l) ==
  /\ pc[l] = "read"
  /\ up' = [up EXCEPT ![l] = FALSE]
  /\ Goto(l, "close")
  /\ UNCHANGED <<sessionVars, tok, backoff, hand, wire, slackVars, handed>>

\* A frame that carries no event: hello and unknown frames are skipped, a
\* disconnect ends the read loop.
ReadOther(l, type) ==
  /\ pc[l] = "read" /\ up[l]
  /\ ~IsEvent(type)
  /\ Goto(l, IF type = "disconnect" THEN "close" ELSE "check")
  /\ UNCHANGED <<sessionVars, tok, backoff, hand, up, wire, slackVars, handed>>

AfterEventWithoutAck(type) == IF IsEvent(type) THEN "hand" ELSE "check"

\* Where the switch on the type of an envelope with an event leads.
AfterEvent(type) == IF IsEvent(type) THEN "ack" ELSE "check"

\* A copy is read.  What arrived before the connection broke is still read.
ReadEvent(l, e) ==
  /\ pc[l] = "read" /\ wire[l][e] > 0
  /\ wire' = [wire EXCEPT ![l][e] = @ - 1]
  /\ hand' = [hand EXCEPT ![l] = e]
  /\ Goto(l, AfterEvent(e.type))
  /\ UNCHANGED <<sessionVars, tok, backoff, up, slackVars, handed>>

\* The ack is written and arrives ...
AckOk(l) ==
  /\ pc[l] = "ack" /\ up[l]
  /\ acked' = acked \cup {hand[l]}
  /\ Goto(l, "hand")
  /\ UNCHANGED <<sessionVars, tok, backoff, hand, up, wire, lost, late, handed>>

\* ... or the write fails, or it succeeds and the connection dies before the
\* ack arrives.  The event is handed on in each case.
AckLost(l) ==
  /\ pc[l] = "ack"
  /\ lost' = [lost EXCEPT ![hand[l]] = @ + 1]
  /\ up' = [up EXCEPT ![l] = FALSE]
  /\ Goto(l, "hand")
  /\ UNCHANGED <<sessionVars, tok, backoff, hand, wire, acked, late, handed>>

OnEventUnlessStopped(e) ==
  handed' = IF Stopped THEN handed ELSE [handed EXCEPT ![e] = @ + 1]

OnEvent(e) == handed' = [handed EXCEPT ![e] = @ + 1]

HandOver(l) ==
  /\ pc[l] = "hand"
  /\ OnEvent(hand[l])
  /\ hand' = [hand EXCEPT ![l] = NoEvent]
  /\ Goto(l, "check")
  /\ UNCHANGED <<sessionVars, tok, backoff, up, wire, slackVars>>

-----------------------------------------------------------------------------
(* Slack.                                                                  *)

\* A copy of e that Slack sent on l's connection is unread or not yet acked.
Outstanding(l, e) == wire[l][e] > 0 \/ (pc[l] = "ack" /\ hand[l] = e)

\* Slack sends e: the first time, again on a later connection, again after an ack
\* that was lost, or again because none came within its ~3 s although a copy is
\* still under way.  The last two are bounded.
SlackSends(l, e) ==
  /\ up[l] /\ e \notin acked
  /\ (Outstanding(l, e) \/ lost[e] > 0) => lost[e] + late[e] < MaxResends
  /\ wire' = [wire EXCEPT ![l][e] = @ + 1]
  /\ late' = IF Outstanding(l, e) THEN [late EXCEPT ![e] = @ + 1] ELSE late
  /\ UNCHANGED <<sessionVars, pc, tok, backoff, hand, up, acked, lost, handed>>

-----------------------------------------------------------------------------
ReadStep(l) ==
  \/ ReadErr(l)
  \/ \E type \in OtherTypes : ReadOther(l, type)
  \/ \E e \in Events : ReadEvent(l, e)

LoopStep(l) ==
  \/ LoopTop(l) \/ DialOk(l) \/ DialErr(l) \/ SleepOver(l) \/ SleepStopped(l)
  \/ CloseConn(l) \/ ReadCheck(l) \/ AckOk(l) \/ AckLost(l) \/ HandOver(l)

Next ==
  \/ \E t \in Tokens : EnsureStarted(t)
  \/ Close
  \/ \E l \in Loops : LoopStep(l) \/ ReadStep(l) \/ \E e \in Events : SlackSends(l, e)

Spec == Init /\ [][Next]_vars

\* Every goroutine that can run does, and dials end by their timeout.  Slack may
\* stay silent for ever.
FairSpec == Spec /\ \A l \in Loops : WF_vars(LoopStep(l))

\* Slack does not refuse every dial and sends an event again until it was acked;
\* not every copy comes too late for its connection or is lost with it, and a
\* connection does not stay silent for ever.
SlackFairness ==
  /\ WF_vars(\E l \in Loops : ReadStep(l))
  /\ SF_vars(\E l \in Loops : DialOk(l))
  /\ \A e \in Events :
       /\ SF_vars(\E l \in Loops : pc[l] # "close" /\ SlackSends(l, e))
       /\ SF_vars(\E l \in Loops : ReadEvent(l, e))

LiveSpec == FairSpec /\ SlackFairness

-----------------------------------------------------------------------------
(* Properties.                                                             *)

PC == {"off", "top", "dial", "sleep", "check", "read", "ack", "hand", "close", "ended"}

\* Every variable keeps its type; the backoff takes the six values of its doubling.
TypeOK ==
  /\ appToken \in Tokens \cup {NoToken} /\ started \in BOOLEAN /\ closed \in BOOLEAN
  /\ pc \in [Loops -> PC]
  /\ tok \in [Loops -> Tokens \cup {NoToken}]
  /\ backoff \in [Loops -> {1, 2, 4, 8, 16, 30}]
  /\ hand \in [Loops -> Events \cup {NoEvent}]
  /\ up \in [Loops -> BOOLEAN]
  /\ wire \in [Loops -> [Events -> Nat]]
  /\ acked \subseteq Events
  /\ lost \in [Events -> Nat] /\ late \in [Events -> Nat] /\ handed \in [Events -> Nat]

\* However many actors' bootstrap calls race, a session has one read loop and
\* so one Slack connection: Slack would spread the events over several.
OneLink == Cardinality({l \in Loops : pc[l] \notin {"off", "ended"}}) <= 1

\* Slack forgets an acked event, so the broker must not: it was handed to the
\* session, or the loop that acked it is about to, also when Close or a broken
\* connection comes in between.
AckedIsHanded ==
  \A e \in acked : handed[e] > 0 \/ \E l \in Loops : pc[l] = "hand" /\ hand[l] = e

\* The loop acks an event before it hands it on, so every second buffering of an
\* event is paid for: by an ack that was lost, or by Slack, which sent the event
\* again while a copy of it was unread or unacked (a late ack).  Copies lost with
\* a connection pay for nothing.
DuplicatesExplained == \A e \in Events : handed[e] <= 1 + lost[e] + late[e]

\* Every event reaches the session, over whatever sequence of refused dials,
\* broken connections, disconnect requests and malformed frames.
EventHanded == \A e \in Events : started ~> (handed[e] > 0 \/ closed)

\* Once the session is closed the loop ends, provided Slack does not stay silent.
LoopEnds == \A l \in Loops : (Stopped /\ pc[l] # "off") ~> pc[l] = "ended"
=============================================================================
