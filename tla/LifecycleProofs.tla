-------------------------- MODULE LifecycleProofs --------------------------
(***************************************************************************)
(* The control-plane client, for any number of callers and attempts, and   *)
(* its composition with the session and the actor: every behaviour of      *)
(* Lifecycle is one of Session and one of ControlClient, so what is proved *)
(* of the parts holds of the whole, and two facts neither part can state   *)
(* follow: when a resume is really on its way, and what ends a suspend.    *)
(***************************************************************************)
EXTENDS Lifecycle, SessionWireProofs

-----------------------------------------------------------------------------
(* The client alone: what an answer of Resume means.                       *)

\* A positive answer of the control plane was preceded by its service; without a
\* flight there is no answer, and one under way has an attempt left.
FlightInv ==
  /\ answer = "ok" => woken
  /\ flight = "none" => answer = "none"
  /\ flight # "none" => steps > 0

ClientInv == ControlTypeOK /\ FlightInv

LEMMA CallerStep ==
  ASSUME ClientInv, NEW c \in Callers, Call(c) \/ Resume(c) \/ GiveUp(c) \/ Returns(c)
  PROVE  ClientInv'
<1> USE StepsAssumption DEF ClientInv, ControlTypeOK, FlightInv, CallerState, flightVars
<1>1. CASE Resume(c)
  BY <1>1 DEF Resume
<1>2. CASE Call(c) \/ GiveUp(c) \/ Returns(c)
  BY <1>2 DEF Call, GiveUp, Returns
<1> QED
  BY <1>1, <1>2

LEMMA EndFlightStep ==
  ASSUME ClientInv, NEW result \in {"nil", "err"}, EndFlight(result)
  PROVE  ClientInv'
<1>1. caller' \in [Callers -> CallerState]
  BY DEF EndFlight, AnsweredWith, ClientInv, ControlTypeOK, CallerState
<1>2. steps' \in 0..Steps
  BY StepsAssumption DEF EndFlight
<1>3. /\ actor' \in {"running", "suspended"} /\ flight' = "none" /\ answer' = "none"
      /\ woken' \in BOOLEAN /\ due' \in BOOLEAN /\ starter' \subseteq Callers
  BY DEF EndFlight, ClientInv, ControlTypeOK
<1> QED
  BY <1>1, <1>2, <1>3 DEF ClientInv, ControlTypeOK, FlightInv

LEMMA FlightSteps ==
  ASSUME ClientInv, ResumeActor \/ ResumeFails \/ FlightStep \/ SuspendedMeanwhile
  PROVE  ClientInv'
<1> USE StepsAssumption DEF ClientInv, ControlTypeOK, FlightInv
<1>1. CASE FlightExpires \/ AttemptSucceeds \/ AttemptFails
  BY <1>1, EndFlightStep DEF FlightExpires, AttemptSucceeds, AttemptFails
<1>2. CASE AttemptConflicts
  <2>1. CASE StepsLeft(steps) > 0
    BY <1>2, <2>1 DEF AttemptConflicts, StepsLeft
  <2>2. CASE ~(StepsLeft(steps) > 0)
    BY <1>2, <2>2, EndFlightStep DEF AttemptConflicts
  <2> QED
    BY <2>1, <2>2
<1>3. CASE BackoffOver
  BY <1>3 DEF BackoffOver
<1>4. CASE ResumeActor
  BY <1>4 DEF ResumeActor
<1>5. ASSUME NEW code \in {"aborted", "error"}, ResumeRefused(code) PROVE ClientInv'
  BY <1>5 DEF ResumeRefused
<1>6. CASE SuspendedMeanwhile
  BY <1>6 DEF SuspendedMeanwhile, flightVars
<1>7. CASE DeadlinePasses
  BY <1>7 DEF DeadlinePasses
<1> QED
  BY <1>1, <1>2, <1>3, <1>4, <1>5, <1>6, <1>7 DEF ResumeFails, FlightStep

LEMMA ClientStep == ClientInv /\ [ControlNext]_controlVars => ClientInv'
<1>1. ASSUME ClientInv, UNCHANGED controlVars PROVE ClientInv'
  BY <1>1 DEF controlVars, flightVars, ClientInv, ControlTypeOK, FlightInv
<1> QED
  BY <1>1, CallerStep, FlightSteps DEF ControlNext

LEMMA ClientInitially == ControlInit => ClientInv
<1> SUFFICES ASSUME ControlInit PROVE ClientInv
  OBVIOUS
<1>1. caller \in [Callers -> CallerState]
  BY DEF ControlInit, CallerState
<1>2. steps \in 0..Steps
  BY StepsAssumption DEF ControlInit
<1>3. /\ actor \in {"running", "suspended"} /\ flight = "none" /\ answer = "none"
      /\ woken \in BOOLEAN /\ due \in BOOLEAN /\ starter \subseteq Callers
  BY DEF ControlInit
<1> QED
  BY <1>1, <1>2, <1>3 DEF ClientInv, ControlTypeOK, FlightInv

LEMMA ClientInvariant == ControlSpec => []ClientInv
BY ClientInitially, ClientStep, PTL DEF ControlSpec

\* The variables keep their types: a flight never has more attempts left than its
\* backoff has steps.
THEOREM ControlTypeCorrect == ControlSpec => []ControlTypeOK
<1>1. ClientInv => ControlTypeOK
  BY DEF ClientInv
<1> QED
  BY <1>1, ClientInvariant, PTL

\* No caller of Resume is answered nil by a flight the control plane did not serve.
THEOREM NilAlwaysServed == ControlSpec => NilMeansServed
<1> DEFINE Told == \A c \in Callers : (caller[c] = "waiting" /\ caller'[c] = "nil") => woken
<1>1. ClientInv /\ [ControlNext]_controlVars => [Told]_controlVars
  <2> SUFFICES ASSUME ClientInv, ControlNext, NEW c \in Callers,
                      caller[c] = "waiting", caller'[c] = "nil"
               PROVE  woken
    BY DEF controlVars
  <2> USE DEF ClientInv, ControlTypeOK, FlightInv
  <2>1. ASSUME NEW d \in Callers, Call(d) \/ Resume(d) \/ GiveUp(d) \/ Returns(d) PROVE woken
    BY <2>1 DEF Call, Resume, GiveUp, Returns
  <2>2. CASE AttemptSucceeds
    BY <2>2 DEF AttemptSucceeds, Succeeded
  <2>3. CASE FlightExpires \/ AttemptFails \/ AttemptConflicts
    BY <2>3 DEF FlightExpires, AttemptFails, AttemptConflicts, EndFlight, AnsweredWith
  <2>4. CASE ResumeActor \/ BackoffOver \/ SuspendedMeanwhile \/ DeadlinePasses
    BY <2>4 DEF ResumeActor, BackoffOver, SuspendedMeanwhile, DeadlinePasses
  <2>5. ASSUME NEW code \in {"aborted", "error"}, ResumeRefused(code) PROVE woken
    BY <2>5 DEF ResumeRefused
  <2> QED
    BY <2>1, <2>2, <2>3, <2>4, <2>5 DEF ControlNext, ResumeFails, FlightStep
<1> QED
  BY <1>1, ClientInvariant, PTL DEF ControlSpec, NilMeansServed

\* A shared call answers an error only after a refusal, its last conflict or its own
\* 30 s, whichever of its callers gave up meanwhile.
THEOREM ErrorAlwaysEarned == ControlSpec => ErrorIsEarned
<1> DEFINE Earned == \A c \in Callers :
             (caller[c] = "waiting" /\ caller'[c] = "err" /\ flight' # flight) =>
               \/ due \/ answer = "error"
               \/ answer = "aborted" /\ steps = 1
<1>1. ClientInv /\ [ControlNext]_controlVars => [Earned]_controlVars
  <2> SUFFICES ASSUME ClientInv, ControlNext, NEW c \in Callers,
                      caller[c] = "waiting", caller'[c] = "err", flight' # flight
               PROVE  due \/ answer = "error" \/ (answer = "aborted" /\ steps = 1)
    BY DEF controlVars
  <2> DEFINE P == due \/ answer = "error" \/ (answer = "aborted" /\ steps = 1)
  <2>0. caller \in [Callers -> CallerState] /\ steps \in Nat
        /\ (flight # "none" => steps > 0)
    BY StepsAssumption DEF ClientInv, ControlTypeOK, FlightInv
  <2>1. ASSUME NEW d \in Callers, Call(d) \/ GiveUp(d) \/ Returns(d) PROVE P
    BY <2>1 DEF Call, GiveUp, Returns, flightVars
  <2>2. ASSUME NEW d \in Callers, Resume(d) PROVE P
    BY <2>0, <2>2 DEF Resume
  <2>3. CASE FlightExpires \/ AttemptFails
    BY <2>3 DEF FlightExpires, FlightCtxDone, AttemptFails
  <2>4. CASE AttemptConflicts
    <3>1. CASE StepsLeft(steps) > 0
      BY <2>4, <3>1 DEF AttemptConflicts
    <3>2. CASE ~(StepsLeft(steps) > 0)
      BY <2>0, <2>4, <3>2 DEF AttemptConflicts, StepsLeft
    <3> QED
      BY <3>1, <3>2
  <2>5. CASE AttemptSucceeds
    BY <2>5 DEF AttemptSucceeds, EndFlight, AnsweredWith
  <2>6. CASE ResumeActor \/ BackoffOver \/ SuspendedMeanwhile \/ DeadlinePasses
    BY <2>6 DEF ResumeActor, BackoffOver, SuspendedMeanwhile, DeadlinePasses
  <2>7. ASSUME NEW code \in {"aborted", "error"}, ResumeRefused(code) PROVE P
    BY <2>7 DEF ResumeRefused
  <2> QED
    BY <2>1, <2>2, <2>3, <2>4, <2>5, <2>6, <2>7 DEF ControlNext, ResumeFails, FlightStep
<1> QED
  BY <1>1, ClientInvariant, PTL DEF ControlSpec, ErrorIsEarned

-----------------------------------------------------------------------------
(* The whole contains the parts.                                           *)

\* Every step of the whole is a step of the session or leaves it alone.
LEMMA SessionPart == [LNext]_allVars => [Next]_vars
<1> SUFFICES ASSUME [LNext]_allVars PROVE [Next]_vars
  OBVIOUS
<1>1. CASE ResumeStarts
  BY <1>1 DEF ResumeStarts, Next, OnEvent
<1>2. CASE ControlStep \/ SuspendActor
  BY <1>2 DEF ControlStep, SuspendActor
<1>3. CASE \E c \in Callers : ResumeReturns(c)
  BY <1>3 DEF ResumeReturns, Next
<1>4. CASE SuspendReturns
  BY <1>4 DEF SuspendReturns, Next
<1>5. CASE (OnEventDeliver \/ OnEventHold) /\ UNCHANGED lifeVars
  BY <1>5 DEF Next, OnEvent
<1>6. CASE \E p \in Procs : WriteStep(p) /\ UNCHANGED lifeVars
  BY <1>6 DEF Next
<1>7. CASE \E c \in Conns : ActorStep(c) \/ HandlerStep(c)
  BY <1>7 DEF ActorStep, HandlerStep, Next, ConnStep
<1>8. CASE (IdleFires \/ OnIdle) /\ UNCHANGED lifeVars
  BY <1>8 DEF Next
<1>9. CASE UNCHANGED allVars
  BY <1>9 DEF allVars
<1> QED
  BY <1>1, <1>2, <1>3, <1>4, <1>5, <1>6, <1>7, <1>8, <1>9 DEF LNext

LEMMA LifecycleIsSession == LSpec => Spec
<1>1. LInit => Init
  BY DEF LInit
<1> QED
  BY <1>1, SessionPart, PTL DEF LSpec, Spec

\* No goroutine of an event yet to come has called Resume: caller k belongs to event k.
FreshCallers == \A c \in Callers : c >= nextKey => caller[c] = "idle"

\* The session's steps that meet neither the control plane nor its client.
Alone ==
  \/ OnEventDeliver \/ OnEventHold \/ IdleFires \/ OnIdle
  \/ \E p \in Procs : WriteStep(p)
  \/ \E c \in Conns : ConnStep(c)
  \/ UNCHANGED vars

LEMMA LifeCases ==
  ASSUME [LNext]_allVars
  PROVE  \/ ResumeStarts \/ ControlStep
         \/ \E c \in Callers : ResumeReturns(c)
         \/ SuspendActor \/ SuspendReturns
         \/ Alone /\ UNCHANGED lifeVars
BY DEF LNext, ActorStep, HandlerStep, ConnStep, Alone, allVars

\* Every step of the whole is a step of the client or leaves it alone.
LEMMA ControlPart ==
  ASSUME TypeInv, ClientInv, FreshCallers, [LNext]_allVars
  PROVE  [ControlNext]_controlVars
<1>1. CASE ResumeStarts
  <2>1. nextKey \in Callers
    BY <1>1, CallersAssumption, BoundsAssumption
       DEF ResumeStarts, OnEventResume, Buffered, TypeInv, TypeOK, FieldsOK
  <2>2. caller[nextKey] = "idle"
    BY <2>1 DEF FreshCallers, TypeInv, TypeOK, FieldsOK
  <2>3. Call(nextKey)
    BY <1>1, <2>2 DEF ResumeStarts, Call
  <2> QED
    BY <2>1, <2>3 DEF ControlNext
<1>2. CASE ControlStep
  BY <1>2 DEF ControlStep, ControlNext
<1>3. CASE \E c \in Callers : ResumeReturns(c)
  BY <1>3 DEF ResumeReturns, ControlNext
<1>4. CASE SuspendActor
  BY <1>4 DEF SuspendActor, SuspendedMeanwhile, ControlNext
<1>5. CASE SuspendReturns
  BY <1>5 DEF SuspendReturns
<1>6. CASE UNCHANGED lifeVars
  BY <1>6 DEF lifeVars
<1> QED
  BY <1>1, <1>2, <1>3, <1>4, <1>5, <1>6, LifeCases

\* Event keys are never reused.
LEMMA KeysGrow ==
  ASSUME TypeInv, [Next]_vars
  PROVE  nextKey \in Nat /\ nextKey' \in Nat /\ nextKey' >= nextKey
<1>0. nextKey \in Nat
  BY DEF TypeInv, TypeOK, FieldsOK
<1>1. CASE OnEventDeliver \/ Hold
  BY <1>0, <1>1 DEF OnEventDeliver, Hold, OnEventHold, OnEventResume, Buffered
<1>2. CASE nextKey' = nextKey
  BY <1>0, <1>2
<1>3. CASE UNCHANGED deliveryVars
  BY <1>2, <1>3 DEF deliveryVars
<1>4. CASE \E p \in Procs : Check(p) \/ WriteOk(p) \/ WriteErr(p) \/ NoteActivity(p)
  BY <1>2, <1>4 DEF Check, WriteOk, WriteErr, NoteActivity, sessionVars
<1>5. CASE \E c \in Conns : \E p \in Procs : Batch(p, c)
  BY <1>2, <1>5, BatchCases DEF BatchDelivers, BatchSkips
<1>6. CASE \E c \in Conns : \/ Attach(c) \/ ArmFallback(c) \/ FallbackFires(c)
                            \/ Ack(c) \/ Detach(c) \/ CloseConn(c)
  BY <1>2, <1>6 DEF Attach, ArmFallback, FallbackFires, Ack, Detach, CloseConn, sessionVars
<1> QED
  BY <1>1, <1>3, <1>4, <1>5, <1>6, NextCases

\* What the client does with its callers: it starts none and finishes none.
Busy == {c \in Callers : caller[c] \notin {"idle", "done"}}

LEMMA ControlStepCallers ==
  ASSUME ClientInv, ControlStep
  PROVE  /\ \A c \in Callers : caller[c] = "idle" => caller'[c] = "idle"
         /\ Busy' = Busy
<1>1. caller \in [Callers -> CallerState]
  BY DEF ClientInv, ControlTypeOK
<1>2. ASSUME caller' = caller
      PROVE  Busy' = Busy /\ \A c \in Callers : caller[c] = "idle" => caller'[c] = "idle"
  BY <1>2 DEF Busy
<1>3. ASSUME NEW c \in Callers, Resume(c)
      PROVE  Busy' = Busy /\ \A d \in Callers : caller[d] = "idle" => caller'[d] = "idle"
  BY <1>1, <1>3 DEF Resume, Busy
<1>4. ASSUME NEW result \in {"nil", "err"}, EndFlight(result)
      PROVE  Busy' = Busy /\ \A d \in Callers : caller[d] = "idle" => caller'[d] = "idle"
  BY <1>1, <1>4 DEF EndFlight, AnsweredWith, Busy
<1>5. CASE ResumeActor \/ FlightStep
  BY <1>2, <1>4, <1>5
     DEF ResumeActor, FlightStep, AttemptSucceeds, AttemptFails, AttemptConflicts, BackoffOver
<1>6. CASE ResumeFails
  BY <1>2, <1>4, <1>6 DEF ResumeFails, DeadlinePasses, FlightExpires, ResumeRefused
<1> QED
  BY <1>3, <1>5, <1>6 DEF ControlStep

LEMMA FreshStep ==
  ASSUME TypeInv, ClientInv, FreshCallers, [LNext]_allVars
  PROVE  FreshCallers'
<1>1. nextKey \in Nat /\ nextKey' \in Nat /\ nextKey' >= nextKey
  BY SessionPart, KeysGrow
<1>2. Callers \subseteq Nat /\ caller \in [Callers -> CallerState]
  BY CallersAssumption, BoundsAssumption DEF ClientInv, ControlTypeOK
<1>3. ASSUME \A c \in Callers : caller[c] = "idle" => caller'[c] = "idle" PROVE FreshCallers'
  BY <1>1, <1>2, <1>3 DEF FreshCallers
<1>4. CASE ResumeStarts
  <2>1. nextKey' = nextKey + 1 /\ caller' = [caller EXCEPT ![nextKey] = "called"]
    BY <1>4 DEF ResumeStarts, OnEventResume, Buffered
  <2> QED
    BY <1>1, <1>2, <2>1 DEF FreshCallers
<1>5. CASE ControlStep
  BY <1>3, <1>5, ControlStepCallers
<1>6. CASE \E c \in Callers : ResumeReturns(c)
  BY <1>2, <1>3, <1>6 DEF ResumeReturns, Returns
<1>7. CASE SuspendActor
  BY <1>3, <1>7 DEF SuspendActor
<1>8. CASE SuspendReturns \/ UNCHANGED lifeVars
  BY <1>3, <1>8 DEF SuspendReturns, lifeVars, controlVars
<1> QED
  BY <1>4, <1>5, <1>6, <1>7, <1>8, LifeCases

\* The parts of the invariant of the whole that come from its parts.
PartsInv == TypeInv /\ ClientInv /\ FreshCallers

LEMMA PartsInvariant == LSpec => []PartsInv
<1>1. LInit => PartsInv
  <2> SUFFICES ASSUME LInit PROVE PartsInv
    OBVIOUS
  <2>1. TypeInv /\ ClientInv
    BY TypeInit, ClientInitially DEF LInit
  <2>2. FreshCallers
    BY DEF LInit, ControlInit, FreshCallers
  <2> QED
    BY <2>1, <2>2 DEF PartsInv
<1>2. PartsInv /\ [LNext]_allVars => PartsInv'
  BY SessionPart, TypeStep, ControlPart, ClientStep, FreshStep DEF PartsInv
<1> QED
  BY <1>1, <1>2, PTL DEF LSpec

LEMMA LifecycleIsControl == LSpec => ControlSpec
<1>1. LInit => ControlInit
  BY DEF LInit
<1>2. PartsInv /\ [LNext]_allVars => [ControlNext]_controlVars
  BY ControlPart DEF PartsInv
<1> QED
  BY <1>1, <1>2, PartsInvariant, PTL DEF LSpec, ControlSpec

\* With an actor that is suspended, restored and loses its connections, and a control
\* plane that fails, the session still implements at-least-once delivery, and a
\* resume goroutine is told nil only by a flight that was served.
THEOREM LifecycleKeepsItsParts == LSpec => ImplementsDelivery /\ NilMeansServed
BY LifecycleIsSession, LifecycleIsControl, SessionImplementsDelivery, NilAlwaysServed, PTL

-----------------------------------------------------------------------------
(* Who is on the way to wake the actor.                                    *)

\* A goroutine that has not been told nil: it will call, is waiting, or will clear
\* the flag.
Unanswered == \E c \in Callers : caller[c] \in {"called", "waiting", "err"}

\* The calls the session counts are the callers that have not returned; a flight that
\* was served and a suspended actor mean a suspend in between; and a flag nobody
\* undid has a goroutine behind it as long as the actor is down.
WakeInv ==
  /\ undone \in BOOLEAN
  /\ resumeCalls = Cardinality(Busy)
  /\ (woken = TRUE /\ actor = "suspended") => undone = TRUE
  /\ (resuming = TRUE /\ actor = "suspended" /\ undone = FALSE) => Unanswered

LEMMA BusyFinite == IsFiniteSet(Busy) /\ Cardinality(Busy) \in Nat
<1>1. IsFiniteSet(Callers)
  BY CallersAssumption, BoundsAssumption, FS_Interval
<1>2. Busy \subseteq Callers
  BY DEF Busy
<1> QED
  BY <1>1, <1>2, FS_Subset, FS_CardinalityType

\* The session alone neither counts a call nor sets the flag.
LEMMA FlagNotSet ==
  ASSUME Alone
  PROVE  resumeCalls' = resumeCalls /\ (resuming' = resuming \/ resuming' = FALSE)
<1> DEFINE P == resumeCalls' = resumeCalls /\ (resuming' = resuming \/ resuming' = FALSE)
<1>1. CASE OnEventDeliver \/ OnEventHold
  BY <1>1, Zenon DEF OnEventDeliver, OnEventHold, callVars
<1>2. CASE IdleFires \/ OnIdle
  BY <1>2, Zenon DEF IdleFires, OnIdle
<1>3. CASE \E p \in Procs : WriteStep(p)
  BY <1>3, Zenon DEF WriteStep, Check, WriteOk, WriteErr, NoteActivity, sessionVars, callVars
<1>4. ASSUME NEW c \in Conns, ConnStep(c) PROVE P
  <2>1. CASE Attach(c)
    BY <2>1, Zenon DEF Attach, AdoptSink
  <2>2. CASE ArmFallback(c) \/ FallbackFires(c) \/ Ack(c) \/ Detach(c) \/ CloseConn(c)
    BY <2>2, Zenon DEF ArmFallback, FallbackFires, Ack, Detach, CloseConn, sessionVars, callVars
  <2>3. CASE SettleOnAttach(c) \/ SettleOnFallback(c) \/ MarkReady(c)
    BY <2>3, Zenon DEF SettleOnAttach, SettleOnFallback, MarkReady, DeliverBufferedNow,
                       sessionVars, callVars
  <2> QED
    BY <1>4, <2>1, <2>2, <2>3 DEF ConnStep
<1>5. CASE UNCHANGED vars
  BY <1>5, Zenon DEF vars, sessionVars, callVars
<1> QED
  BY <1>1, <1>2, <1>3, <1>4, <1>5 DEF Alone

\* A step that leaves the client, the actor and the history alone keeps WakeInv.
LEMMA SessionKeepsWake ==
  ASSUME WakeInv, UNCHANGED <<controlVars, undone>>, resumeCalls' = resumeCalls,
         resuming' = resuming \/ resuming' = FALSE
  PROVE  WakeInv'
<1>1. Busy' = Busy /\ (Unanswered <=> Unanswered')
  BY DEF controlVars, Busy, Unanswered
<1>2. resumeCalls' = Cardinality(Busy')
  BY <1>1 DEF WakeInv
<1> QED
  BY <1>1, <1>2 DEF WakeInv, controlVars, flightVars

\* A goroutine starts: it is the one behind the flag.
LEMMA StartKeepsWake ==
  ASSUME PartsInv, WakeInv, ResumeStarts
  PROVE  WakeInv'
<1>1. caller \in [Callers -> CallerState] /\ nextKey \in Callers /\ caller[nextKey] = "idle"
  BY CallersAssumption, BoundsAssumption
     DEF PartsInv, ClientInv, ControlTypeOK, FreshCallers, ResumeStarts, OnEventResume,
         Buffered, TypeInv, TypeOK, FieldsOK
<1>2. caller' = [caller EXCEPT ![nextKey] = "called"]
  BY DEF ResumeStarts
<1>3. nextKey \notin Busy /\ Busy' = Busy \cup {nextKey} /\ Unanswered'
  BY <1>1, <1>2 DEF Busy, Unanswered
<1>4. Cardinality(Busy') = Cardinality(Busy) + 1
  BY <1>3, BusyFinite, FS_AddElement
<1>5. resumeCalls' = resumeCalls + 1
  BY DEF ResumeStarts, OnEventResume
<1> QED
  BY <1>3, <1>4, <1>5 DEF WakeInv, ResumeStarts, flightVars

\* A goroutine returns: with nil it was not counted on, with an error it clears the flag.
LEMMA ReturnKeepsWake ==
  ASSUME PartsInv, WakeInv, NEW c \in Callers, ResumeReturns(c)
  PROVE  WakeInv'
<1>1. caller \in [Callers -> CallerState]
  BY DEF PartsInv, ClientInv, ControlTypeOK
<1>2. caller[c] \in {"nil", "err"} /\ caller' = [caller EXCEPT ![c] = "done"]
  BY DEF ResumeReturns, Returns
<1>3. c \in Busy /\ Busy' = Busy \ {c}
  BY <1>1, <1>2 DEF Busy
<1>4. Cardinality(Busy') = Cardinality(Busy) - 1
  BY <1>3, BusyFinite, FS_RemoveElement
<1>5. resumeCalls' = resumeCalls - 1
  BY DEF ResumeReturns, ResumeOk, ResumeErr
<1>6. UNCHANGED <<woken, actor, undone>>
  BY DEF ResumeReturns, Returns, flightVars
<1>7. CASE caller[c] = "nil" /\ ResumeOk
  <2>1. Unanswered => Unanswered'
    BY <1>1, <1>2, <1>7 DEF Unanswered
  <2>2. resuming' = resuming
    BY <1>7 DEF ResumeOk, sessionVars
  <2> QED
    BY <1>4, <1>5, <1>6, <2>1, <2>2 DEF WakeInv
<1>8. CASE ResumeErr
  BY <1>4, <1>5, <1>6, <1>8 DEF WakeInv, ResumeErr
<1> QED
  BY <1>7, <1>8 DEF ResumeReturns

\* The client's own steps: a flight that ends well was served, so the actor runs or
\* was suspended since; one that ends badly leaves its waiters to clear the flag.
LEMMA ControlKeepsWake ==
  ASSUME PartsInv, WakeInv, ControlStep
  PROVE  WakeInv'
<1>0. /\ caller \in [Callers -> CallerState] /\ ClientInv /\ FlightInv
      /\ woken \in BOOLEAN
  BY DEF PartsInv, ClientInv, ControlTypeOK
<1>1. resumeCalls' = Cardinality(Busy')
  <2>1. Busy' = Busy /\ resumeCalls' = resumeCalls
    BY <1>0, ControlStepCallers DEF ControlStep, vars, callVars
  <2> QED
    BY <2>1 DEF WakeInv
<1>2. resuming' = resuming
  BY DEF ControlStep, vars, sessionVars
<1>3. CASE ResumeActor /\ undone' = FALSE
  BY <1>1, <1>2, <1>3 DEF WakeInv, ResumeActor
<1>4. ASSUME undone' = undone, actor' = actor, woken' = woken \/ woken' = FALSE,
             Unanswered => Unanswered' \/ (actor = "suspended" => undone = TRUE)
      PROVE  WakeInv'
  BY <1>1, <1>2, <1>4 DEF WakeInv
<1>5. ASSUME NEW c \in Callers, Resume(c), undone' = undone PROVE WakeInv'
  <2>1. Unanswered'
    BY <1>0, <1>5 DEF Resume, Unanswered
  <2> QED
    BY <1>4, <1>5, <2>1 DEF Resume
<1>6. ASSUME EndFlight("err"), undone' = undone PROVE WakeInv'
  <2>1. Unanswered => Unanswered'
    BY <1>0, <1>6 DEF EndFlight, AnsweredWith, Unanswered
  <2> QED
    BY <1>4, <1>6, <2>1 DEF EndFlight
<1>7. ASSUME AttemptSucceeds, undone' = undone PROVE WakeInv'
  <2>1. woken = TRUE
    BY <1>0, <1>7 DEF AttemptSucceeds, Succeeded, FlightInv
  <2>2. actor = "suspended" => undone = TRUE
    BY <2>1 DEF WakeInv
  <2> QED
    BY <1>4, <1>7, <2>2 DEF AttemptSucceeds, EndFlight
<1>8. ASSUME UNCHANGED <<actor, woken, caller, undone>> PROVE WakeInv'
  <2>1. Unanswered => Unanswered'
    BY <1>8 DEF Unanswered
  <2> QED
    BY <1>4, <1>8, <2>1
<1>9. ASSUME FlightStep, undone' = undone PROVE WakeInv'
  BY <1>6, <1>7, <1>8, <1>9 DEF FlightStep, AttemptFails, AttemptConflicts, BackoffOver
<1>10. ASSUME ResumeFails, undone' = undone PROVE WakeInv'
  BY <1>6, <1>8, <1>10 DEF ResumeFails, DeadlinePasses, FlightExpires, ResumeRefused
<1> QED
  BY <1>3, <1>5, <1>9, <1>10 DEF ControlStep

\* A suspend is served: it undoes what the flag or a served flight promised.
LEMMA SuspendKeepsWake ==
  ASSUME PartsInv, WakeInv, SuspendActor
  PROVE  WakeInv'
<1>1. resuming \in BOOLEAN /\ woken \in BOOLEAN /\ actor \in {"running", "suspended"}
  BY DEF PartsInv, TypeInv, TypeOK, FlagsOK, ClientInv, ControlTypeOK
<1>2. UNCHANGED <<caller, woken, resumeCalls, resuming>>
  BY DEF SuspendActor, vars, callVars, sessionVars, flightVars
<1>3. Busy' = Busy /\ (Unanswered => Unanswered')
  BY <1>2 DEF Busy, Unanswered
<1>4. undone' = (undone \/ (actor = "running" /\ (resuming \/ woken)))
  BY DEF SuspendActor
<1>5. undone' \in BOOLEAN /\ (undone = TRUE => undone' = TRUE)
  BY <1>4 DEF WakeInv
<1>6. (woken = TRUE \/ resuming = TRUE) /\ actor = "running" => undone' = TRUE
  BY <1>4 DEF WakeInv
<1>7. CASE actor = "running"
  BY <1>1, <1>2, <1>3, <1>5, <1>6, <1>7 DEF WakeInv
<1>8. CASE actor = "suspended"
  BY <1>2, <1>3, <1>5, <1>8 DEF WakeInv
<1> QED
  BY <1>1, <1>7, <1>8

LEMMA WakeStep == PartsInv /\ WakeInv /\ [LNext]_allVars => WakeInv'
<1> SUFFICES ASSUME PartsInv, WakeInv, [LNext]_allVars PROVE WakeInv'
  OBVIOUS
<1>1. CASE SuspendReturns
  <2>1. resumeCalls' = resumeCalls /\ resuming' = resuming
    BY <1>1, Zenon DEF SuspendReturns, SuspendOk, SuspendErr, sessionVars
  <2> QED
    BY <1>1, <2>1, SessionKeepsWake DEF SuspendReturns
<1>2. CASE Alone /\ UNCHANGED lifeVars
  <2>1. UNCHANGED <<controlVars, undone>>
    BY <1>2 DEF lifeVars
  <2> QED
    BY <1>2, <2>1, FlagNotSet, SessionKeepsWake
<1> QED
  BY <1>1, <1>2, LifeCases, StartKeepsWake, ReturnKeepsWake, ControlKeepsWake, SuspendKeepsWake

\* While the flag holds events back, a Resume call is under way or the actor runs,
\* unless a suspend was served after the resume: for any number of events, callers
\* and attempts, with conflicts, expired flights and lost replies.
THEOREM ComingUnlessSuspended == LSpec => []ComingUnlessUndone
<1>1. LInit => WakeInv
  <2> SUFFICES ASSUME LInit PROVE WakeInv
    OBVIOUS
  <2>1. Busy = {} /\ resumeCalls = 0
    BY DEF LInit, ControlInit, Init, Busy
  <2>2. resumeCalls = Cardinality(Busy)
    BY <2>1, FS_EmptySet
  <2> QED
    BY <2>2 DEF LInit, ControlInit, WakeInv
<1>2. PartsInv /\ WakeInv => ComingUnlessUndone
  <2> SUFFICES ASSUME PartsInv, WakeInv, resuming, ~undone, actor # "running"
               PROVE  resumeCalls > 0
    BY DEF ComingUnlessUndone
  <2>1. resuming = TRUE /\ undone = FALSE /\ actor = "suspended"
    BY DEF PartsInv, TypeInv, TypeOK, FlagsOK, ClientInv, ControlTypeOK, WakeInv
  <2>2. PICK c \in Callers : caller[c] \in {"called", "waiting", "err"}
    BY <2>1 DEF WakeInv, Unanswered
  <2>3. Busy # {}
    BY <2>2 DEF Busy
  <2>4. Cardinality(Busy) # 0
    BY <2>3, BusyFinite, FS_EmptySet
  <2> QED
    BY <2>4, BusyFinite DEF WakeInv
<1> QED
  BY <1>1, <1>2, WakeStep, PartsInvariant, PTL DEF LSpec

-----------------------------------------------------------------------------
(* What ends a suspend.                                                    *)

\* A suspend is under way only with a connection, and no more calls are served than
\* were made.
SuspendInv ==
  /\ sink = NoConn => suspending = FALSE
  /\ suspendsServed \in Nat /\ suspendsServed <= suspendCalls

\* What the session alone does to a suspend: it starts one on the current connection,
\* clears the flag, leaves everything, or lets a new connection take over.
LEMMA SuspendCases ==
  ASSUME TypeInv, HelloInv, Alone
  PROVE  \/ UNCHANGED <<sink, suspending, suspendCalls>>
         \/ suspending' = FALSE /\ suspendCalls' = suspendCalls
         \/ sink' # sink /\ sink' # NoConn /\ suspendCalls' = suspendCalls
         \/ sink' = sink /\ sink # NoConn /\ suspendCalls' = suspendCalls + 1
<1> DEFINE P == \/ UNCHANGED <<sink, suspending, suspendCalls>>
                \/ suspending' = FALSE /\ suspendCalls' = suspendCalls
                \/ sink' # sink /\ sink' # NoConn /\ suspendCalls' = suspendCalls
                \/ sink' = sink /\ sink # NoConn /\ suspendCalls' = suspendCalls + 1
<1>1. CASE OnEventDeliver \/ OnEventHold \/ IdleFires
  BY <1>1, Zenon DEF OnEventDeliver, OnEventHold, IdleFires, callVars
<1>2. CASE OnIdle
  BY <1>2, Zenon DEF OnIdle, ReturnsEarly
<1>3. CASE \E p \in Procs : WriteStep(p)
  BY <1>3, Zenon DEF WriteStep, Check, WriteOk, WriteErr, NoteActivity, sessionVars, callVars
<1>4. ASSUME NEW c \in Conns, ConnStep(c) PROVE P
  <2>1. CASE Attach(c)
    <3>1. sink # c
      BY <2>1 DEF Attach, HelloInv, Untouched
    <3>2. c # NoConn
      BY ConnsAssumption
    <3> QED
      BY <2>1, <3>1, <3>2, Zenon DEF Attach, AdoptSink
  <2>2. CASE ArmFallback(c) \/ FallbackFires(c) \/ Ack(c) \/ Detach(c) \/ CloseConn(c)
    BY <2>2, Zenon DEF ArmFallback, FallbackFires, Ack, Detach, CloseConn, sessionVars, callVars
  <2>3. CASE SettleOnAttach(c) \/ SettleOnFallback(c) \/ MarkReady(c)
    BY <2>3, Zenon DEF SettleOnAttach, SettleOnFallback, MarkReady, DeliverBufferedNow,
                       sessionVars, callVars
  <2> QED
    BY <1>4, <2>1, <2>2, <2>3 DEF ConnStep
<1>5. CASE UNCHANGED vars
  BY <1>5, Zenon DEF vars, sessionVars, callVars
<1> QED
  BY <1>1, <1>2, <1>3, <1>4, <1>5 DEF Alone

\* Waking the actor does not touch a suspend.
LEMMA ResumeLeavesSuspend ==
  ASSUME ResumeStarts \/ ControlStep \/ \E c \in Callers : ResumeReturns(c)
  PROVE  UNCHANGED <<sink, suspending, suspendCalls, suspendsServed, dead>>
<1>1. CASE ResumeStarts
  BY <1>1, Zenon DEF ResumeStarts, OnEventResume
<1>2. CASE ControlStep
  BY <1>2, Zenon DEF ControlStep, vars, sessionVars, callVars
<1>3. CASE \E c \in Callers : ResumeReturns(c)
  BY <1>3, Zenon DEF ResumeReturns, ResumeOk, ResumeErr, sessionVars
<1> QED
  BY <1>1, <1>2, <1>3

LEMMA SuspendStep == PartsInv /\ HelloInv /\ SuspendInv /\ [LNext]_allVars => SuspendInv'
<1> SUFFICES ASSUME PartsInv, HelloInv, SuspendInv, [LNext]_allVars PROVE SuspendInv'
  OBVIOUS
<1> USE DEF SuspendInv
<1>0. suspendCalls \in Nat
  BY DEF PartsInv, TypeInv, TypeOK, CallsOK
<1>1. CASE ResumeStarts \/ ControlStep \/ \E c \in Callers : ResumeReturns(c)
  BY <1>1, ResumeLeavesSuspend
<1>2. CASE SuspendActor
  <2>1. UNCHANGED <<sink, suspending, suspendCalls>> /\ suspendsServed' = suspendsServed + 1
    BY <1>2 DEF SuspendActor, vars, sessionVars, callVars
  <2> QED
    BY <1>0, <1>2, <2>1 DEF SuspendActor
<1>3. CASE SuspendReturns
  <2>1. sink' = sink /\ (suspending' = suspending \/ suspending' = FALSE)
    BY <1>3, Zenon DEF SuspendReturns, SuspendOk, SuspendErr, sessionVars
  <2>2. /\ suspendCalls > 0 /\ suspendCalls' = suspendCalls - 1
        /\ \/ suspendsServed > 0 /\ suspendsServed' = suspendsServed - 1
           \/ suspendsServed' \in 0..suspendCalls'
    BY <1>3, Zenon DEF SuspendReturns, SuspendOk, SuspendErr
  <2>3. suspendsServed' \in Nat /\ suspendsServed' <= suspendCalls'
    BY <1>0, <2>2
  <2> QED
    BY <2>1, <2>3
<1>4. CASE Alone /\ UNCHANGED lifeVars
  <2>1. suspendsServed' = suspendsServed
    BY <1>4 DEF lifeVars
  <2>2. \/ UNCHANGED <<sink, suspending, suspendCalls>>
        \/ suspending' = FALSE /\ suspendCalls' = suspendCalls
        \/ sink' # NoConn /\ suspendCalls' = suspendCalls
        \/ sink' # NoConn /\ suspendCalls' = suspendCalls + 1
    BY <1>4, SuspendCases DEF PartsInv
  <2>3. sink' = NoConn => suspending' = FALSE
    BY <2>2, Zenon
  <2>4. suspendCalls' = suspendCalls \/ suspendCalls' = suspendCalls + 1
    BY <2>2, Zenon
  <2>5. suspendsServed' <= suspendCalls'
    BY <1>0, <2>1, <2>4
  <2> QED
    BY <2>1, <2>3, <2>5
<1> QED
  BY <1>1, <1>2, <1>3, <1>4, LifeCases

\* Only a connection that takes the session over while the flag is set leaves it with
\* neither a call to be served nor a dead connection behind it: no reply, lost, failed
\* or late, no disconnect and no second idle callback does.
THEOREM SuspendAlwaysTakesEffect == LSpec => SuspendTakesEffect
<1> DEFINE A == Going => Going' \/ (sink' # sink /\ sink' # NoConn)
<1>1. LInit => SuspendInv
  <2> SUFFICES ASSUME LInit PROVE SuspendInv
    OBVIOUS
  <2>1. suspending = FALSE /\ suspendsServed = 0 /\ suspendCalls = 0
    BY DEF LInit, Init
  <2> QED
    BY <2>1 DEF SuspendInv
<1>2. PartsInv /\ HelloInv /\ SuspendInv /\ [LNext]_allVars => [A]_allVars
  <2> SUFFICES ASSUME PartsInv, HelloInv, SuspendInv, [LNext]_allVars, Going
               PROVE  Going' \/ (sink' # sink /\ sink' # NoConn)
    OBVIOUS
  <2>0. /\ suspendCalls \in Nat /\ suspendsServed \in Nat /\ suspendsServed <= suspendCalls
        /\ sink \in Conns \cup {NoConn}
    BY DEF PartsInv, TypeInv, TypeOK, CallsOK, FieldsOK, SuspendInv
  <2>1. ASSUME UNCHANGED <<sink, suspending, suspendCalls, suspendsServed, dead>> PROVE Going'
    BY <2>1, Zenon DEF Going
  <2>2. ASSUME suspending' = FALSE PROVE Going'
    BY <2>2, Zenon DEF Going
  <2>3. CASE SuspendActor
    <3>1. sink' = sink /\ suspending' = suspending
      BY <2>3 DEF SuspendActor, vars, sessionVars
    <3>2. CASE sink = NoConn
      BY <2>2, <3>1, <3>2 DEF SuspendInv
    <3>3. CASE sink \in Conns
      <4>1. pc[Handler(sink)] # "new"
        BY <3>3 DEF HelloInv, Untouched
      <4>2. sink' \in dead'
        BY <2>3, <3>1, <3>3, <4>1 DEF SuspendActor
      <4> QED
        BY <4>2, Zenon DEF Going
    <3> QED
      BY <2>0, <3>2, <3>3
  <2>4. CASE SuspendReturns
    <3>1. CASE SuspendErr
      BY <2>2, <3>1, Zenon DEF SuspendErr
    <3>2. CASE SuspendOk /\ suspendsServed' = suspendsServed - 1
      <4>1. UNCHANGED <<sink, suspending, dead>>
        BY <2>4, <3>2, Zenon DEF SuspendReturns, SuspendOk, sessionVars
      <4>2. suspendsServed < suspendCalls => suspendsServed' < suspendCalls'
        BY <2>0, <3>2 DEF SuspendOk
      <4> QED
        BY <4>1, <4>2, Zenon DEF Going
    <3> QED
      BY <2>4, <3>1, <3>2 DEF SuspendReturns
  <2>5. CASE Alone /\ UNCHANGED lifeVars
    <3>1. UNCHANGED <<suspendsServed, dead>>
      BY <2>5 DEF lifeVars
    <3>2. CASE UNCHANGED <<sink, suspending, suspendCalls>>
      BY <2>1, <3>1, <3>2
    <3>3. CASE suspendCalls' = suspendCalls + 1
      <4>1. suspendsServed' < suspendCalls'
        BY <2>0, <3>1, <3>3
      <4> QED
        BY <4>1, Zenon DEF Going
    <3> QED
      BY <2>2, <2>5, <3>2, <3>3, SuspendCases DEF PartsInv
  <2> QED
    BY <2>1, <2>3, <2>4, <2>5, ResumeLeavesSuspend, LifeCases
<1>3. SuspendTakesEffect <=> [][A]_allVars
  BY DEF SuspendTakesEffect
<1> QED
  BY <1>1, <1>2, <1>3, SuspendStep, PartsInvariant, LifecycleIsSession, HelloInvariant, PTL
     DEF LSpec
=============================================================================
