----------------------------- MODULE Lifecycle -----------------------------
(***************************************************************************)
(* A session together with the control-plane client it resumes its actor   *)
(* through, and the actor itself.  A suspend ends the actor's process or   *)
(* freezes it; the connections it had never carry a heartbeat or an ack    *)
(* again, also after a resume, and end with a read error on the broker's   *)
(* side.  The resume goroutine that onEvent starts for event k is caller k *)
(* of ControlClient.  Forwards only hold off the idle timer; Session       *)
(* covers them.                                                            *)
(***************************************************************************)
EXTENDS Session, ControlClient

CONSTANT RPCErrors   \* whether calls to the control plane may fail or time out

ASSUME RPCAssumption == RPCErrors \in BOOLEAN
ASSUME CallersAssumption == Callers = 0..(MaxEvents - 1)

\* The defaults of main.go: no fallback delivery timer.
ASSUME HeartbeatOnly == ~DeliverDelay

VARIABLES
  dead,           \* connections that did not survive a suspend
  suspendsServed, \* Suspend calls served whose reply is still under way
  undone          \* history: a suspend took back the resume the session counts on

lifeVars == <<controlVars, dead, suspendsServed, undone>>
allVars == <<vars, lifeVars>>

LInit == Init /\ ControlInit /\ dead = {} /\ suspendsServed = 0 /\ undone = FALSE

-----------------------------------------------------------------------------
(* resumeActor and the control-plane client.                               *)

\* go resumeActor(): the goroutine has not called Resume yet.
ResumeStarts ==
  /\ OnEventResume
  /\ caller' = [caller EXCEPT ![nextKey] = "called"]
  /\ UNCHANGED <<actor, flightVars, dead, suspendsServed, undone>>

\* Resume returns: after an error resumeActor clears the flag.
ResumeReturns(c) ==
  /\ \/ caller[c] = "nil" /\ ResumeOk
     \/ caller[c] = "err" /\ ResumeErr
  /\ Returns(c)
  /\ UNCHANGED <<dead, suspendsServed, undone>>

\* No caller gives up: the 60 s context of resumeActor outlives the flight's 30 s.
ControlStep ==
  /\ \/ ResumeActor /\ undone' = FALSE
     \/ /\ (\E c \in Callers : Resume(c)) \/ FlightStep \/ (RPCErrors /\ ResumeFails)
        /\ UNCHANGED undone
  /\ UNCHANGED <<vars, dead, suspendsServed>>

-----------------------------------------------------------------------------
(* Suspend: one SuspendActor call, served before its reply.                *)

SuspendActor ==
  /\ suspendsServed < suspendCalls
  /\ suspendsServed' = suspendsServed + 1
  /\ actor' = "suspended"
  /\ dead' = dead \cup {c \in Conns : pc[Handler(c)] # "new"}
  /\ undone' = (undone \/ (actor = "running" /\ (resuming \/ woken)))
  /\ UNCHANGED <<vars, flightVars, caller>>

\* The reply.  An error may hide a call that was served.
SuspendReturns ==
  /\ \/ SuspendOk /\ suspendsServed > 0 /\ suspendsServed' = suspendsServed - 1
     \/ /\ RPCErrors /\ SuspendErr
        /\ suspendsServed' \in {suspendsServed, suspendsServed - 1} \cap (0..suspendCalls')
  /\ UNCHANGED <<controlVars, dead, undone>>

-----------------------------------------------------------------------------
(* The actor: what it does over its connections needs it to run.           *)

Live(c) == actor = "running" /\ c \notin dead

ActorStep(c) ==
  /\ Live(c)
  /\ Attach(c) \/ MarkReady(c) \/ Ack(c)
  /\ UNCHANGED lifeVars

\* The broker's own goroutines do not wait for the actor.
HandlerStep(c) ==
  /\ SettleOnAttach(c) \/ Detach(c) \/ CloseConn(c)
  /\ UNCHANGED lifeVars

LNext ==
  \/ ResumeStarts \/ ControlStep
  \/ \E c \in Callers : ResumeReturns(c)
  \/ SuspendActor \/ SuspendReturns
  \/ (OnEventDeliver \/ OnEventHold) /\ UNCHANGED lifeVars
  \/ \E p \in Procs : WriteStep(p) /\ UNCHANGED lifeVars
  \/ \E c \in Conns : ActorStep(c) \/ HandlerStep(c)
  \/ (IdleFires \/ OnIdle) /\ UNCHANGED lifeVars

LSpec == LInit /\ [][LNext]_allVars

\* A connection that carries data both ways, whatever the session makes of it.
Up(c) ==
  /\ pc[Handler(c)] \notin {"new", "closing", "closed"}
  /\ ~broken[c] /\ c \notin dead

ClientConnected == \E c \in Conns : Up(c)

\* Goroutines, timers and RPCs make progress; a broken or frozen connection is
\* noticed; a running client heartbeats, and opens a connection when it has none: it
\* knows nothing of the broker's sink.
LFairness ==
  /\ \A p \in Procs \ Timers :
       /\ WF_allVars(Check(p) /\ UNCHANGED lifeVars)
       /\ WF_allVars((WriteOk(p) \/ WriteErr(p)) /\ UNCHANGED lifeVars)
       /\ WF_allVars(NoteActivity(p) /\ UNCHANGED lifeVars)
  /\ \A c \in Conns :
       /\ WF_allVars(SettleOnAttach(c) /\ UNCHANGED lifeVars)
       /\ WF_allVars((c \in dead \/ broken[c]) /\ Detach(c) /\ UNCHANGED lifeVars)
       /\ WF_allVars(Live(c) /\ MarkReady(c) /\ UNCHANGED lifeVars)
  /\ WF_allVars(\E c \in Conns : ~ClientConnected /\ Live(c) /\ Attach(c) /\ UNCHANGED lifeVars)
  /\ WF_allVars(ControlStep)
  /\ \A c \in Callers : WF_allVars(ResumeReturns(c))
  /\ WF_allVars(SuspendActor) /\ WF_allVars(SuspendReturns)
  /\ WF_allVars((IdleFires \/ OnIdle) /\ UNCHANGED lifeVars)

LFairSpec == LSpec /\ LFairness

-----------------------------------------------------------------------------
(* Properties.                                                             *)

\* The bound on connections is met: the client has none and none left to open.
Exhausted == ~ClientConnected /\ \A c \in Conns : pc[Handler(c)] # "new"

\* Two connections met and the one that attached last is gone: the session has no
\* sink, while the client is content with a connection nobody writes to.
Overtaken == sink = NoConn /\ ClientConnected

\* An event held for an actor that runs reaches it, over dropped connections, failed
\* writes, restores and control-plane errors: the connection that replaces a lost one
\* gets what the lost one left, unless it was itself attached out of turn.
PendingReachesRunningActor ==
  \A k \in 0..(MaxEvents - 1) :
    (k \in ToSet(buffer) /\ actor = "running") ~>
      \/ k \notin ToSet(buffer) \/ actor = "suspended"
      \/ \E c \in Conns : sink = c /\ k \in KeysOn(c)
      \/ Exhausted \/ Overtaken

\* What registry.go:124 keeps of "a resume is in flight (or the actor is booting)":
\* while the flag holds every event back somebody is on the way to wake the actor,
\* or it runs, unless a suspend was served after the resume: either while the flag
\* was set, or before a later event joined the flight that had been served.
ComingUnlessUndone ==
  (resuming /\ ~undone) => (resumeCalls > 0 \/ actor = "running")

\* The flag that refuses further suspends has a Suspend call still to be served, or
\* a current connection that ended with the actor and whose Detach clears it.
Going == suspending => (suspendsServed < suspendCalls \/ sink \in dead)

\* Only a connection that takes the session over can leave the flag stuck: no
\* lost, failed or late reply does, nor a disconnect, nor a second suspend.
SuspendTakesEffect ==
  [][Going => Going' \/ (sink' # sink /\ sink' # NoConn)]_allVars

-----------------------------------------------------------------------------
(* What documentation and comments say, and the code does not keep.        *)

\* README.md:15: "When a real message arrives, the broker resumes the actor, the
\* actor reconnects, and the broker delivers the buffered message".  An event
\* written to a connection that froze with its actor wakes nobody: Detach leaves
\* it in the buffer and starts no resume.
WokenForEvent ==
  \A k \in 0..(MaxEvents - 1) :
    (k \in ToSet(buffer) /\ actor = "suspended") ~>
      (k \notin ToSet(buffer) \/ actor = "running")

\* registry.go:124: "a resume is in flight (or the actor is booting)".  A suspend
\* served after the resume leaves the flag set with nobody on the way, and every
\* later event is held for ever.
ResumingMeansComing == resuming => (resumeCalls > 0 \/ actor = "running")

\* registry.go:145: "so a quiet-but-connected actor still ages out and suspends".
\* suspending survives an Attach: when the restored actor connects before its
\* frozen connection was noticed, the flag blocks every further suspend.
QuietActorAgesOut == (IdleGrace /\ settled) ~> (~settled \/ actor = "suspended")
=============================================================================
