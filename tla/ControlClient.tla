--------------------------- MODULE ControlClient ---------------------------
(***************************************************************************)
(* The control-plane client of cmd/egress-broker/ateapi.go: Resume, which  *)
(* shares one call among concurrent callers (singleflight), retries it on  *)
(* a conflict, and answers each caller unless its own context ends first.  *)
(* One key of the singleflight group is modelled: the calls for different  *)
(* actors never meet.                                                      *)
(*                                                                         *)
(* The control plane is external.  It serves a ResumeActor at some moment  *)
(* between the call and its return; another component may suspend the      *)
(* actor at any time, also in between.                                     *)
(***************************************************************************)
EXTENDS Naturals

CONSTANTS
  Callers,   \* goroutines that call Resume for the actor
  Steps      \* attempts of wait.Backoff (7 in the code)

ASSUME StepsAssumption == Steps \in Nat \ {0}

VARIABLES
  actor,    \* "running" or "suspended"
  flight,   \* the shared call: "none", "call" (ResumeActor under way) or "backoff"
  steps,    \* attempts it has left
  answer,   \* what the control plane decided for the attempt: "none" before it did
  woken,    \* history: the flight had the actor resumed
  due,      \* the 30 s of the flight's context are over
  starter,  \* history: the goroutine that started the flight; {} without one
  caller    \* where each goroutine stands in Resume

flightVars == <<flight, steps, answer, woken, due, starter>>
controlVars == <<actor, flightVars, caller>>

CallerState == {"idle", "called", "waiting", "nil", "err", "done"}

ControlInit ==
  /\ actor = "running"
  /\ flight = "none" /\ steps = 0 /\ answer = "none" /\ woken = FALSE
  /\ due = FALSE /\ starter = {}
  /\ caller = [c \in Callers |-> "idle"]

-----------------------------------------------------------------------------
(* The callers.                                                            *)

\* A goroutine is about to call Resume: at first, or again for a later event.
Call(c) ==
  /\ caller[c] \in {"idle", "done"}
  /\ caller' = [caller EXCEPT ![c] = "called"]
  /\ UNCHANGED <<actor, flightVars>>

\* DoChan: start the flight, or join the one under way.
Resume(c) ==
  /\ caller[c] = "called"
  /\ caller' = [caller EXCEPT ![c] = "waiting"]
  /\ IF flight = "none"
       THEN flight' = "call" /\ steps' = Steps /\ starter' = {c}
       ELSE UNCHANGED <<flight, steps, starter>>
  /\ UNCHANGED <<actor, answer, woken, due>>

\* The caller's context ends first.  The flight goes on; when both are ready the
\* select takes either.
GiveUp(c) ==
  /\ caller[c] \in {"waiting", "nil"}
  /\ caller' = [caller EXCEPT ![c] = "err"]
  /\ UNCHANGED <<actor, flightVars>>

\* Resume returns what it received.
Returns(c) ==
  /\ caller[c] \in {"nil", "err"}
  /\ caller' = [caller EXCEPT ![c] = "done"]
  /\ UNCHANGED <<actor, flightVars>>

-----------------------------------------------------------------------------
(* The control plane.                                                      *)

\* ResumeActor is served: it returns when the actor's readyz probe does.
ResumeActor ==
  /\ flight = "call" /\ answer = "none"
  /\ answer' = "ok" /\ woken' = TRUE
  /\ actor' = "running"
  /\ UNCHANGED <<flight, steps, due, starter, caller>>

\* It is refused: Aborted for a concurrent resume, or any other error.
ResumeRefused(code) ==
  /\ flight = "call" /\ answer = "none"
  /\ answer' = code
  /\ UNCHANGED <<actor, flight, steps, woken, due, starter, caller>>

\* Somebody else suspends the actor: the idle timer of the session, or an operator.
SuspendedMeanwhile ==
  /\ actor' = "suspended"
  /\ UNCHANGED <<flightVars, caller>>

-----------------------------------------------------------------------------
(* The flight: wait.ExponentialBackoffWithContext around ResumeActor.      *)

\* doCall sends the result to every channel that joined.
AnsweredWith(result) ==
  [c \in Callers |-> IF caller[c] = "waiting" THEN result ELSE caller[c]]

EndFlight(result) ==
  /\ flight' = "none" /\ steps' = 0 /\ answer' = "none" /\ woken' = FALSE
  /\ due' = FALSE /\ starter' = {}
  /\ caller' = AnsweredWith(result)
  /\ UNCHANGED actor

SettlesAborted(code) == code \in {"ok", "aborted"}

\* The condition is met: the attempt returned nil.
Succeeded(code) == code = "ok"

AttemptSucceeds ==
  /\ flight = "call" /\ Succeeded(answer)
  /\ EndFlight("nil")

\* Any error but Aborted ends the flight.
AttemptFails ==
  /\ flight = "call" /\ answer = "error"
  /\ EndFlight("err")

StepsAdded(n) == n + 1

StepsLeft(n) == n - 1

\* Aborted: wait and try again, unless this was the last step.
AttemptConflicts ==
  /\ flight = "call" /\ answer = "aborted" /\ ~Succeeded(answer)
  /\ IF StepsLeft(steps) > 0
       THEN /\ flight' = "backoff" /\ steps' = StepsLeft(steps)
            /\ UNCHANGED <<actor, answer, woken, due, starter, caller>>
       ELSE EndFlight("err")

BackoffOver ==
  /\ flight = "backoff"
  /\ flight' = "call" /\ answer' = "none"
  /\ UNCHANGED <<actor, steps, woken, due, starter, caller>>

\* context.WithTimeout of the flight.
DeadlinePasses ==
  /\ flight # "none" /\ ~due
  /\ due' = TRUE
  /\ UNCHANGED <<actor, flight, steps, answer, woken, starter, caller>>

FlightCtxOfCaller == due \/ \E c \in starter : caller[c] # "waiting"

FlightCtxNoDeadline == FALSE

\* The flight's context is its own: not that of the caller that started it.
FlightCtxDone == due

\* Its end is noticed during the wait, or in the attempt, where the error hides
\* whether it was served.
FlightExpires ==
  /\ flight # "none" /\ FlightCtxDone
  /\ EndFlight("err")

FlightStep == AttemptSucceeds \/ AttemptFails \/ AttemptConflicts \/ BackoffOver

ResumeFails ==
  DeadlinePasses \/ FlightExpires \/ \E code \in {"aborted", "error"} : ResumeRefused(code)

-----------------------------------------------------------------------------
ControlNext ==
  \/ \E c \in Callers : Call(c) \/ Resume(c) \/ GiveUp(c) \/ Returns(c)
  \/ ResumeActor \/ ResumeFails \/ FlightStep
  \/ SuspendedMeanwhile

ControlSpec == ControlInit /\ [][ControlNext]_controlVars

\* Goroutines run and the 30 s pass.  The control plane need not answer an attempt,
\* and no caller has to give up.
ControlFairSpec ==
  /\ ControlSpec
  /\ WF_controlVars(DeadlinePasses) /\ WF_controlVars(FlightExpires)
  /\ \A c \in Callers : WF_controlVars(Resume(c) \/ Returns(c))

-----------------------------------------------------------------------------
(* Properties.                                                             *)

\* Every variable keeps its type; a flight makes at most the attempts of its backoff.
ControlTypeOK ==
  /\ actor \in {"running", "suspended"}
  /\ flight \in {"none", "call", "backoff"} /\ steps \in 0..Steps
  /\ answer \in {"none", "ok", "aborted", "error"} /\ woken \in BOOLEAN
  /\ due \in BOOLEAN /\ starter \subseteq Callers
  /\ caller \in [Callers -> CallerState]

\* A caller of Resume is told that the actor runs only when the control plane
\* served the flight it waited for, whether it started that flight or joined it,
\* and after however many conflicts.
NilMeansServed ==
  [][\A c \in Callers : (caller[c] = "waiting" /\ caller'[c] = "nil") => woken]_controlVars

\* A caller that another one's call answers with an error is told so for a reason
\* of the call: a refusal, the last of its conflicts, or its own 30 s.  A caller that
\* gives up, the one that started the call included, fails nobody else's event.
ErrorIsEarned ==
  [][\A c \in Callers :
       (caller[c] = "waiting" /\ caller'[c] = "err" /\ flight' # flight) =>
         \/ due \/ answer = "error"
         \/ answer = "aborted" /\ steps = 1]_controlVars

\* Every call of Resume returns although the control plane answers nothing, or
\* conflicts without end: the call carries a deadline of its own (ateapi.go:85).
ResumeAnswered == \A c \in Callers : (caller[c] = "called") ~> (caller[c] = "done")
=============================================================================
