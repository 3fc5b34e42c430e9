----------------------------- MODULE EchoActor -----------------------------
(***************************************************************************)
(* The echo actor of echo-actor/app.js behind a session that keeps the     *)
(* promise of Delivery, which Session is shown to implement.               *)
(*                                                                         *)
(* The actor is one Node process: handlers interleave where they await.    *)
(* Bolt acks an event when it dispatches it, before the handler has sent   *)
(* its reply.  A suspend ends the process (deploy/echo-actor.yaml.tmpl:    *)
(* onPause: Data), and the next resume boots it from the image: the set of *)
(* echoed messages, the handlers and their timers are gone.                *)
(***************************************************************************)
EXTENDS Delivery

CONSTANTS
  NoConn,       \* no connection
  TsOf,         \* event -> ts of the message it is about
  Skipped,      \* events with a bot_id, a subtype or no ts
  MaxEvents,    \* bound: events Slack sends
  MaxDeaths,    \* bound: suspends of the process
  MaxExpiries,  \* bound: 60 s timers that expire
  MaxRetries    \* bound: replies of chat.postMessage that are lost

EventKeys == 0..(MaxEvents - 1)
Stamps == {TsOf[k] : k \in EventKeys}

ASSUME EventsAssumption == MaxEvents \in Nat /\ Skipped \subseteq EventKeys
ASSUME EchoConnsAssumption == NoConn \notin Conns

VARIABLES
  \* The process.
  actor,     \* "running" or "suspended"
  conn,      \* its Socket Mode connection
  queue,     \* events dispatched whose handler has not run yet, with their connection
  echoed,    \* the ts that firstTime remembers
  sending,   \* for each ts, the handlers that await say
  \* Slack.
  posts,     \* replies posted for each ts
  \* History.
  failed,    \* ts whose reply was given up
  gone,      \* ts whose handlers ended with the process
  deaths, expiries, retries   \* processes ended, timers expired, replies lost

procVars == <<actor, conn, queue, echoed, sending>>
countVars == <<deaths, expiries, retries>>
echoVars == <<procVars, posts, failed, gone, countVars>>
allVars == <<dvars, echoVars>>

EInit ==
  /\ Init
  /\ actor = "running" /\ conn = NoConn /\ queue = {} /\ echoed = {}
  /\ sending = [t \in Stamps |-> 0]
  /\ posts = [t \in Stamps |-> 0]
  /\ failed = {} /\ gone = {}
  /\ deaths = 0 /\ expiries = 0 /\ retries = 0

-----------------------------------------------------------------------------
(* The broker.                                                             *)

AcceptEvent ==
  /\ accepted < MaxEvents
  /\ Accept
  /\ UNCHANGED echoVars

\* An event that found no connection has the actor resumed: a cold boot.
Resume ==
  /\ actor = "suspended" /\ accepted > 0
  /\ actor' = "running"
  /\ UNCHANGED <<dvars, conn, queue, echoed, sending, posts, failed, gone, countVars>>

\* A suspend ends the process wherever it is.
Suspend ==
  /\ actor = "running" /\ deaths < MaxDeaths
  /\ actor' = "suspended" /\ deaths' = deaths + 1
  /\ conn' = NoConn /\ queue' = {} /\ echoed' = {}
  /\ sending' = [t \in Stamps |-> 0]
  /\ gone' = gone \cup {TsOf[e[2]] : e \in queue} \cup {t \in Stamps : sending[t] > 0}
  /\ UNCHANGED <<dvars, posts, failed, expiries, retries>>

-----------------------------------------------------------------------------
(* Bolt.                                                                   *)

\* app.start, and each reconnect: a fresh connection replaces the old one.
Connect(c) ==
  /\ actor = "running" /\ c # conn /\ delivered[c] = {}
  /\ conn' = c
  /\ UNCHANGED <<dvars, actor, queue, echoed, sending, posts, failed, gone, countVars>>

\* The session writes an event to the connection, Bolt reads it and sends the ack.
Dispatch ==
  /\ conn # NoConn
  /\ DeliverOn(conn)
  /\ queue' = queue \cup ({conn} \X (delivered'[conn] \ delivered[conn]))
  /\ UNCHANGED <<actor, conn, echoed, sending, posts, failed, gone, countVars>>

\* An ack arrives.  One that is lost with its connection leaves the event to be
\* delivered again on the next.
AckArrives == Acknowledge /\ UNCHANGED echoVars

-----------------------------------------------------------------------------
(* app.js.                                                                 *)

SeenBefore(t) == t \in echoed

\* firstTime: whether the ts was not seen within the last 60 s of this process.
FirstTime(t) == t \notin echoed

NotMarked(k) == echoed
MarkedByKey(k) == echoed \cup {k}
MarkedBeforeSkip(k) == echoed \cup {TsOf[k]}

\* What firstTime remembers once echoReply has looked at event k.
Marked(k) == IF k \in Skipped THEN echoed ELSE echoed \cup {TsOf[k]}

\* echoReply up to its await: from the test of firstTime to echoed.add no other
\* handler runs.
EchoReply(c, k) ==
  /\ <<c, k>> \in queue
  /\ queue' = queue \ {<<c, k>>}
  /\ echoed' = Marked(k)
  /\ sending' = IF k \notin Skipped /\ FirstTime(TsOf[k])
                  THEN [sending EXCEPT ![TsOf[k]] = @ + 1] ELSE sending
  /\ UNCHANGED <<dvars, actor, conn, posts, failed, gone, countVars>>

\* The timer of firstTime expires.
Forget(t) ==
  /\ t \in echoed /\ expiries < MaxExpiries
  /\ echoed' = echoed \ {t}
  /\ expiries' = expiries + 1
  /\ UNCHANGED <<dvars, actor, conn, queue, sending, posts, failed, gone, deaths, retries>>

SayOk(t) ==
  /\ sending[t] > 0
  /\ posts' = [posts EXCEPT ![t] = @ + 1]
  /\ sending' = [sending EXCEPT ![t] = @ - 1]
  /\ UNCHANGED <<dvars, actor, conn, queue, echoed, failed, gone, countVars>>

\* Slack posts the message but the reply is lost: the Web API client tries again.
SayRetried(t) ==
  /\ sending[t] > 0 /\ retries < MaxRetries
  /\ posts' = [posts EXCEPT ![t] = @ + 1]
  /\ retries' = retries + 1
  /\ UNCHANGED <<dvars, procVars, failed, gone, deaths, expiries>>

\* chat.postMessage fails: the error is logged, and the ts stays recorded.
SayFails(t) ==
  /\ sending[t] > 0
  /\ failed' = failed \cup {t}
  /\ sending' = [sending EXCEPT ![t] = @ - 1]
  /\ UNCHANGED <<dvars, actor, conn, queue, echoed, posts, gone, countVars>>

SayStep(t) == SayOk(t) \/ SayRetried(t) \/ SayFails(t)

-----------------------------------------------------------------------------
ENext ==
  \/ AcceptEvent \/ Resume \/ Suspend
  \/ (\E c \in Conns : Connect(c)) \/ Dispatch \/ AckArrives
  \/ \E c \in Conns, k \in EventKeys : EchoReply(c, k)
  \/ \E t \in Stamps : Forget(t) \/ SayStep(t)

ESpec == EInit /\ [][ENext]_allVars

\* The session delivers what it holds to a connected actor (HeldEventReachesWire of
\* Session), Bolt connects when it has no connection, Node runs its handlers and
\* every chat.postMessage ends.
EFairSpec ==
  /\ ESpec
  /\ WF_allVars(Dispatch)
  /\ WF_allVars(conn = NoConn /\ \E c \in Conns : Connect(c))
  /\ WF_allVars(\E c \in Conns, k \in EventKeys : EchoReply(c, k))
  /\ \A t \in Stamps : WF_allVars(SayStep(t))

-----------------------------------------------------------------------------
(* Properties.                                                             *)

\* Every variable keeps its type.
EchoTypeOK ==
  /\ accepted \in 0..MaxEvents /\ acked \subseteq EventKeys
  /\ delivered \in [Conns -> SUBSET EventKeys]
  /\ actor \in {"running", "suspended"}
  /\ conn \in Conns \cup {NoConn} /\ queue \subseteq Conns \X EventKeys
  /\ echoed \subseteq Stamps /\ failed \subseteq Stamps /\ gone \subseteq Stamps
  /\ sending \in [Stamps -> Nat] /\ posts \in [Stamps -> Nat]
  /\ deaths \in Nat /\ expiries \in Nat /\ retries \in Nat

\* A message is echoed more than once only for a reason: a process that ended, a
\* timer of firstTime that expired, or a reply that was lost.  A mention that
\* arrives as two events, and an event delivered again on a new connection of the
\* same process, are none.
RepeatsExplained == \A t \in Stamps : posts[t] <= 1 + deaths + expiries + retries

\* An acked event is never sent again, so echoReply must not drop the last copy: a
\* message whose event was acked has been echoed, or is about to be, or its reply
\* failed or its handler ended with the process.
AckedIsEchoed ==
  \A k \in acked \ Skipped :
    \/ posts[TsOf[k]] > 0 \/ sending[TsOf[k]] > 0
    \/ TsOf[k] \in failed \cup gone
    \/ \E e \in queue : e[2] \notin Skipped /\ TsOf[e[2]] = TsOf[k]

\* Connections are bounded: the client has none, and none left to open.
NoneLeft == conn = NoConn /\ \A c \in Conns : delivered[c] # {}

\* While the actor runs, a message is answered, or its reply fails for a reason
\* outside the actor: no order of copies, reconnects and timers leaves it unanswered.
RunningActorEchoes ==
  \A k \in EventKeys \ Skipped :
    (k < accepted /\ actor = "running") ~>
      (posts[TsOf[k]] > 0 \/ TsOf[k] \in failed \cup gone \/ actor = "suspended" \/ NoneLeft)
=============================================================================
