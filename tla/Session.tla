------------------------------ MODULE Session ------------------------------
(***************************************************************************)
(* One broker session: the state cmd/egress-broker/registry.go keeps for   *)
(* one actor, and every goroutine that works on it.                        *)
(*                                                                         *)
(* The goroutines ("processes") are                                        *)
(*   Reader      the persistent Slack read loop, which calls onEvent;      *)
(*   Handler(c)  the HTTP handler of actor connection c (Attach, then the  *)
(*               read loop with heartbeats and acks, then Detach);         *)
(*   Timer(c)    the callback of the fallback delivery timer of c;         *)
(* and, as anonymous ones, the idle-timer callbacks (onIdle), the resume   *)
(* goroutines (resumeActor) and the forwards of handlePassthrough.         *)
(*                                                                         *)
(* One action is one critical section of session.mu, or one frame written  *)
(* under session.sinkWrite.  Everything between two sections interleaves.  *)
(***************************************************************************)
EXTENDS Integers, Sequences, FiniteSets, SequencesExt

CONSTANTS
  Conns,         \* actor WebSocket connections (actorSink values); each attaches once
  NoConn,        \* the nil sink
  Forwards,      \* actor->Slack API calls through handlePassthrough
  MaxEvents,     \* bound: Slack events the reader hands to the session
  MaxIdleCalls,  \* bound: fired idle callbacks that have not yet taken mu
  DeliverDelay,  \* deliverDelay > 0: a fallback delivery timer is used
  IdleGrace      \* idleGrace > 0: broker-driven suspend is on

ASSUME ConnsAssumption == NoConn \notin Conns
ASSUME BoundsAssumption == MaxEvents \in Nat /\ MaxIdleCalls \in Nat
ASSUME FlagsAssumption == DeliverDelay \in BOOLEAN /\ IdleGrace \in BOOLEAN
ASSUME ForwardsAssumption == IsFiniteSet(Forwards)

Reader == <<"reader", NoConn>>
Handler(c) == <<"conn", c>>
Timer(c) == <<"timer", c>>
NoProc == <<"none", NoConn>>
Handlers == {Handler(c) : c \in Conns}
Timers == {Timer(c) : c \in Conns}
Procs == {Reader} \cup Handlers \cup Timers

\* A frame written to an actor connection: the hello frame, or an event
\* stamped with a fresh envelope id.
HelloFrame == [type |-> "hello"]
EventFrame(id, key) == [type |-> "event", id |-> id, key |-> key]
EventFrames == [type : {"event"}, id : Nat, key : Nat]
Frames == {HelloFrame} \cup EventFrames

VARIABLES
  \* Fields of the session struct, guarded by mu.
  sink,          \* current actor connection, or NoConn
  resuming,      \* a resume is in flight or the actor is booting
  settled,       \* the current connection receives events as they arrive
  suspending,    \* a suspend is in flight
  buffer,        \* keys of the events awaiting the actor's ack, in arrival order
  nextKey,       \* generator of event keys
  freshIDs,      \* stamped frames not acked yet: the map envelope id -> event key
  inFlight,      \* counter of outstanding forwards
  deliverTmr,    \* connection of the fallback timer the session points to
  idleTmr,       \* the idle timer is armed and has not expired
  \* State of the runtime and of the goroutines.
  nextID,        \* ids drawn by randID, taken to be distinct
  armedTmr,      \* connections whose fallback timer is running
  idleCalls,     \* onIdle callbacks started that have not taken mu yet
  suspendCalls,  \* Suspend RPCs in flight
  resumeCalls,   \* Resume RPCs in flight
  sinkWrite,     \* holder of the sinkWrite lock, or NoProc
  pc,            \* where each process stands
  after,         \* where it goes on after writeToSink
  to,            \* the sink argument of its writeToSink call
  frames,        \* the frames it still has to write
  wire,          \* frames written to each connection so far
  broken,        \* writes on this connection fail from now on
  fwd            \* state of each forward

sessionVars == <<sink, resuming, settled, suspending, buffer, nextKey, freshIDs,
                 inFlight, deliverTmr, idleTmr, nextID>>
callVars == <<armedTmr, idleCalls, suspendCalls, resumeCalls>>
procVars == <<sinkWrite, pc, after, to, frames>>
netVars == <<wire, broken>>
vars == <<sessionVars, callVars, procVars, netVars, fwd>>

ReaderPC == {"idle", "check", "write", "note"}
TimerPC == ReaderPC \cup {"settle"}
HandlerPC == {"new", "check", "write", "settle", "arm", "read", "note", "closing", "closed"}
PC == TimerPC \cup HandlerPC
ForwardState == {"idle", "sending", "done"}

Init ==
  /\ sink = NoConn /\ resuming = FALSE /\ settled = FALSE /\ suspending = FALSE
  /\ buffer = <<>> /\ nextKey = 0 /\ freshIDs = {} /\ inFlight = 0
  /\ deliverTmr = NoConn /\ idleTmr = FALSE /\ nextID = 0
  /\ armedTmr = {} /\ idleCalls = 0 /\ suspendCalls = 0 /\ resumeCalls = 0
  /\ sinkWrite = NoProc
  /\ pc = [p \in Procs |-> IF p \in Handlers THEN "new" ELSE "idle"]
  /\ after = [p \in Procs |-> "idle"]
  /\ to = [p \in Procs |-> NoConn]
  /\ frames = [p \in Procs |-> <<>>]
  /\ wire = [c \in Conns |-> <<>>]
  /\ broken = [c \in Conns |-> FALSE]
  /\ fwd = [f \in Forwards |-> "idle"]

-----------------------------------------------------------------------------
(* Helpers.                                                                *)

\* Variants of definitions below, each with one mistake a change to the code
\* could introduce; the properties must tell them apart from the code.
ArmedUnlessUnacked(snk, susp, n) ==
  IdleGrace /\ snk # NoConn /\ ~susp /\ n = 0 /\ buffer = <<>>
DecrementedBelowZero(n) == n - 1
NotDecremented(n) == n
StampedButLast(keys, n) == [i \in 1..(Len(keys) - 1) |-> EventFrame(n + i, keys[i])]
StampedReversed(keys, n) == [i \in 1..Len(keys) |-> EventFrame(n + i, keys[Len(keys) + 1 - i])]

\* armIdleLocked: whether the idle timer runs after it was called in a state
\* with these values of sink, suspending and inFlight.
Armed(snk, susp, n) == IdleGrace /\ snk # NoConn /\ ~susp /\ n = 0

\* endForward's decrement, which stops at zero.
Decremented(n) == IF n > 0 THEN n - 1 ELSE 0

\* Where a process goes when the call it made is over: a handler returns to its
\* read loop, the reader to conn.Read, a timer callback ends.
ReturnPC(p) == IF p \in Handlers THEN "read" ELSE "idle"

\* stampLocked over a list of keys: the i-th frame gets the i-th fresh id.
Stamped(keys, n) == [i \in 1..Len(keys) |-> EventFrame(n + i, keys[i])]

\* Stamp the keys and hand the frames to writeToSink(snk, ...), then noteActivity.
Deliver(p, snk, keys) ==
  /\ freshIDs' = freshIDs \cup ToSet(Stamped(keys, nextID))
  /\ nextID' = nextID + Len(keys)
  /\ pc' = [pc EXCEPT ![p] = "check"]
  /\ after' = [after EXCEPT ![p] = "note"]
  /\ to' = [to EXCEPT ![p] = snk]
  /\ frames' = [frames EXCEPT ![p] = Stamped(keys, nextID)]

\* if s.deliverTmr != nil { Stop(); = nil }
StopDeliverTmr ==
  /\ armedTmr' = armedTmr \ {deliverTmr}
  /\ deliverTmr' = NoConn

-----------------------------------------------------------------------------
(* The reader: onEvent.  The event is buffered in every case.              *)

BufferedInFront ==
  /\ pc[Reader] = "idle"
  /\ nextKey < MaxEvents
  /\ buffer' = <<nextKey>> \o buffer
  /\ nextKey' = nextKey + 1

Buffered ==
  /\ pc[Reader] = "idle"
  /\ nextKey < MaxEvents
  /\ buffer' = Append(buffer, nextKey)
  /\ nextKey' = nextKey + 1

\* Connected and settled: stamp it and write it to the sink read under mu.
OnEventDeliver ==
  /\ Buffered
  /\ sink # NoConn /\ settled
  /\ Deliver(Reader, sink, <<nextKey>>)
  /\ UNCHANGED <<sink, resuming, settled, suspending, inFlight, deliverTmr, idleTmr,
                 callVars, sinkWrite, netVars, fwd>>

\* Connected but not settled, or a resume is on its way: leave it buffered.
OnEventHold ==
  /\ Buffered
  /\ IF sink # NoConn THEN ~settled ELSE resuming
  /\ UNCHANGED <<sink, resuming, settled, suspending, freshIDs, inFlight, deliverTmr,
                 idleTmr, nextID, callVars, procVars, netVars, fwd>>

\* Disconnected and no resume on its way: go resumeActor().
OnEventResume ==
  /\ Buffered
  /\ sink = NoConn /\ ~resuming
  /\ resuming' = TRUE
  /\ resumeCalls' = resumeCalls + 1
  /\ UNCHANGED <<sink, settled, suspending, freshIDs, inFlight, deliverTmr, idleTmr,
                 nextID, armedTmr, idleCalls, suspendCalls, procVars, netVars, fwd>>

\* resumeActor: the Resume RPC returns nil ...
ResumeOk ==
  /\ resumeCalls > 0
  /\ resumeCalls' = resumeCalls - 1
  /\ UNCHANGED <<sessionVars, armedTmr, idleCalls, suspendCalls, procVars, netVars, fwd>>

ResumeErrKeepsFlag ==
  /\ resumeCalls > 0
  /\ resumeCalls' = resumeCalls - 1
  /\ UNCHANGED <<sessionVars, armedTmr, idleCalls, suspendCalls, procVars, netVars, fwd>>

\* ... or an error (or its 60 s timeout).
ResumeErr ==
  /\ resumeCalls > 0
  /\ resumeCalls' = resumeCalls - 1
  /\ resuming' = FALSE
  /\ UNCHANGED <<sink, settled, suspending, buffer, nextKey, freshIDs, inFlight,
                 deliverTmr, idleTmr, nextID, armedTmr, idleCalls, suspendCalls,
                 procVars, netVars, fwd>>

-----------------------------------------------------------------------------
(* writeToSink: under sinkWrite, one currency check and one write per      *)
(* frame; the lock is taken at the first check and released on return.     *)

FinishKeepsLock(p) ==
  /\ sinkWrite' = p
  /\ pc' = [pc EXCEPT ![p] = after[p]]
  /\ frames' = [frames EXCEPT ![p] = <<>>]

Finish(p) ==
  /\ sinkWrite' = NoProc
  /\ pc' = [pc EXCEPT ![p] = after[p]]
  /\ frames' = [frames EXCEPT ![p] = <<>>]

LockIgnored(p) == TRUE

\* sinkWrite.Lock() at the first frame; at the next ones the process has it.
LockFree(p) == sinkWrite \in {NoProc, p}

Check(p) ==
  /\ pc[p] = "check"
  /\ LockFree(p)
  /\ IF frames[p] = <<>> \/ sink # to[p]
       THEN Finish(p)
       ELSE /\ sinkWrite' = p
            /\ pc' = [pc EXCEPT ![p] = "write"]
            /\ UNCHANGED frames
  /\ UNCHANGED <<sessionVars, callVars, after, to, netVars, fwd>>

WriteOk(p) ==
  /\ pc[p] = "write"
  /\ ~broken[to[p]]
  /\ wire' = [wire EXCEPT ![to[p]] = Append(@, Head(frames[p]))]
  /\ frames' = [frames EXCEPT ![p] = Tail(@)]
  /\ pc' = [pc EXCEPT ![p] = "check"]
  /\ UNCHANGED <<sessionVars, callVars, sinkWrite, after, to, broken, fwd>>

\* WriteFrame fails: gorilla keeps the write error, every later write fails too.
WriteErr(p) ==
  /\ pc[p] = "write"
  /\ broken' = [broken EXCEPT ![to[p]] = TRUE]
  /\ Finish(p)
  /\ UNCHANGED <<sessionVars, callVars, after, to, wire, fwd>>

\* noteActivity after a delivery.
NoteActivity(p) ==
  /\ pc[p] = "note"
  /\ idleTmr' = Armed(sink, suspending, inFlight)
  /\ pc' = [pc EXCEPT ![p] = ReturnPC(p)]
  /\ UNCHANGED <<sink, resuming, settled, suspending, buffer, nextKey, freshIDs, inFlight,
                 deliverTmr, nextID, callVars, sinkWrite, after, to, frames, netVars, fwd>>

-----------------------------------------------------------------------------
(* The connection handler: Attach, heartbeats, acks, Detach.               *)

AdoptSinkKeepsSettled(c) == sink' = c /\ resuming' = FALSE /\ UNCHANGED settled
AdoptSinkKeepsResuming(c) == sink' = c /\ settled' = FALSE /\ UNCHANGED resuming

\* The fields Attach sets for the new connection.
AdoptSink(c) ==
  /\ sink' = c
  /\ resuming' = FALSE
  /\ settled' = FALSE

\* Attach up to its first unlock, and the choice it makes after the hello frame
\* from the buffer length and the delay read under mu.
Attach(c) ==
  /\ pc[Handler(c)] = "new"
  /\ AdoptSink(c)
  /\ StopDeliverTmr
  /\ pc' = [pc EXCEPT ![Handler(c)] = "check"]
  /\ to' = [to EXCEPT ![Handler(c)] = c]
  /\ frames' = [frames EXCEPT ![Handler(c)] = <<HelloFrame>>]
  /\ after' = [after EXCEPT ![Handler(c)] =
                 IF buffer = <<>> THEN "settle" ELSE IF DeliverDelay THEN "arm" ELSE "read"]
  /\ UNCHANGED <<suspending, buffer, nextKey, freshIDs, inFlight, idleTmr, nextID,
                 idleCalls, suspendCalls, resumeCalls, sinkWrite, netVars, fwd>>

\* The second critical section of Attach: arm the fallback timer.
ArmFallback(c) ==
  /\ pc[Handler(c)] = "arm"
  /\ armedTmr' = armedTmr \cup {c}
  /\ deliverTmr' = c
  /\ pc' = [pc EXCEPT ![Handler(c)] = "read"]
  /\ UNCHANGED <<sink, resuming, settled, suspending, buffer, nextKey, freshIDs, inFlight,
                 idleTmr, nextID, idleCalls, suspendCalls, resumeCalls, sinkWrite, after,
                 to, frames, netVars, fwd>>

FallbackFires(c) ==
  /\ c \in armedTmr
  /\ armedTmr' = armedTmr \ {c}
  /\ pc' = [pc EXCEPT ![Timer(c)] = "settle"]
  /\ UNCHANGED <<sessionVars, idleCalls, suspendCalls, resumeCalls, sinkWrite, after, to,
                 frames, netVars, fwd>>

\* deliverBufferedNow(c) called by process p, up to its writeToSink.
DeliverBufferedNow(p, c) ==
  IF sink # c \/ settled
    THEN /\ pc' = [pc EXCEPT ![p] = ReturnPC(p)]
         /\ UNCHANGED <<sessionVars, callVars, sinkWrite, after, to, frames, netVars, fwd>>
    ELSE /\ settled' = TRUE
         /\ StopDeliverTmr
         /\ Deliver(p, c, buffer)
         /\ UNCHANGED <<sink, resuming, suspending, buffer, nextKey, inFlight, idleTmr,
                        idleCalls, suspendCalls, resumeCalls, sinkWrite, netVars, fwd>>

\* ... at the end of Attach when nothing was buffered, and from the fallback timer.
SettleOnAttach(c) ==
  /\ pc[Handler(c)] = "settle"
  /\ DeliverBufferedNow(Handler(c), c)

SettleOnFallback(c) ==
  /\ pc[Timer(c)] = "settle"
  /\ DeliverBufferedNow(Timer(c), c)

\* MarkReady, called by the ping handler inside the read loop.
MarkReady(c) ==
  /\ pc[Handler(c)] = "read"
  /\ DeliverBufferedNow(Handler(c), c)

AckFrameDropsOneStamp(f) ==
  /\ f \in freshIDs
  /\ buffer' = RemoveFirst(buffer, f.key)
  /\ freshIDs' = freshIDs \ {f}
  /\ idleTmr' = Armed(sink, suspending, inFlight)
AckFrameDropsOldest(f) ==
  /\ \E g \in freshIDs : g.id = f.id
  /\ buffer' = Tail(buffer)
  /\ freshIDs' = {g \in freshIDs : g.key # Head(buffer)}
  /\ idleTmr' = Armed(sink, suspending, inFlight)

\* Ack: the client acks, over connection c, a frame it received on any of its
\* connections.  An id no longer in freshIDs changes nothing.
AckFrame(f) ==
  /\ \E g \in freshIDs : g.id = f.id
  /\ LET key == (CHOOSE g \in freshIDs : g.id = f.id).key
     IN  /\ buffer' = RemoveFirst(buffer, key)
         /\ freshIDs' = {g \in freshIDs : g.key # key}
  /\ idleTmr' = Armed(sink, suspending, inFlight)

Ack(c) ==
  /\ pc[Handler(c)] = "read"
  /\ \E d \in Conns : \E f \in ToSet(wire[d]) \cap EventFrames : AckFrame(f)
  /\ UNCHANGED <<sink, resuming, settled, suspending, nextKey, inFlight, deliverTmr, nextID,
                 callVars, procVars, netVars, fwd>>

\* The read loop ends with a read error; the deferred Detach runs.
Detach(c) ==
  /\ pc[Handler(c)] = "read"
  /\ pc' = [pc EXCEPT ![Handler(c)] = "closing"]
  /\ IF sink = c
       THEN /\ sink' = NoConn /\ settled' = FALSE /\ suspending' = FALSE
            /\ inFlight' = 0 /\ idleTmr' = FALSE
            /\ StopDeliverTmr
       ELSE UNCHANGED <<sink, settled, suspending, inFlight, idleTmr, armedTmr, deliverTmr>>
  /\ UNCHANGED <<resuming, buffer, nextKey, freshIDs, nextID, idleCalls, suspendCalls,
                 resumeCalls, sinkWrite, after, to, frames, netVars, fwd>>

\* The deferred conn.Close, after Detach.
CloseConn(c) ==
  /\ pc[Handler(c)] = "closing"
  /\ pc' = [pc EXCEPT ![Handler(c)] = "closed"]
  /\ broken' = [broken EXCEPT ![c] = TRUE]
  /\ UNCHANGED <<sessionVars, callVars, sinkWrite, after, to, frames, wire, fwd>>

-----------------------------------------------------------------------------
(* Idle suspend.                                                           *)

IdleFires ==
  /\ idleTmr
  /\ idleCalls < MaxIdleCalls
  /\ idleTmr' = FALSE
  /\ idleCalls' = idleCalls + 1
  /\ UNCHANGED <<sink, resuming, settled, suspending, buffer, nextKey, freshIDs, inFlight,
                 deliverTmr, nextID, armedTmr, suspendCalls, resumeCalls, procVars, netVars,
                 fwd>>

ReturnsEarlyIfGone == sink = NoConn \/ suspending

\* The condition of onIdle's early return, read again under mu.
ReturnsEarly == sink = NoConn \/ suspending \/ inFlight > 0

\* onIdle up to the Suspend RPC, or its early return.
OnIdle ==
  /\ idleCalls > 0
  /\ idleCalls' = idleCalls - 1
  /\ IF ReturnsEarly
       THEN UNCHANGED <<suspending, suspendCalls>>
       ELSE /\ suspending' = TRUE
            /\ suspendCalls' = suspendCalls + 1
  /\ UNCHANGED <<sink, resuming, settled, buffer, nextKey, freshIDs, inFlight, deliverTmr,
                 idleTmr, nextID, armedTmr, resumeCalls, procVars, netVars, fwd>>

SuspendOk ==
  /\ suspendCalls > 0
  /\ suspendCalls' = suspendCalls - 1
  /\ UNCHANGED <<sessionVars, armedTmr, idleCalls, resumeCalls, procVars, netVars, fwd>>

SuspendErrKeepsFlag ==
  /\ suspendCalls > 0
  /\ suspendCalls' = suspendCalls - 1
  /\ idleTmr' = Armed(sink, suspending, inFlight)
  /\ UNCHANGED <<sink, resuming, settled, suspending, buffer, nextKey, freshIDs, inFlight,
                 deliverTmr, nextID, armedTmr, idleCalls, resumeCalls, procVars, netVars, fwd>>

\* The RPC fails or times out: clear the flag and re-arm.
SuspendErr ==
  /\ suspendCalls > 0
  /\ suspendCalls' = suspendCalls - 1
  /\ suspending' = FALSE
  /\ idleTmr' = Armed(sink, FALSE, inFlight)
  /\ UNCHANGED <<sink, resuming, settled, buffer, nextKey, freshIDs, inFlight, deliverTmr,
                 nextID, armedTmr, idleCalls, resumeCalls, procVars, netVars, fwd>>

-----------------------------------------------------------------------------
(* Forwards: handlePassthrough brackets the call to Slack.                 *)

BeginForward(f) ==
  /\ fwd[f] = "idle"
  /\ fwd' = [fwd EXCEPT ![f] = "sending"]
  /\ inFlight' = inFlight + 1
  /\ idleTmr' = FALSE
  /\ UNCHANGED <<sink, resuming, settled, suspending, buffer, nextKey, freshIDs, deliverTmr,
                 nextID, callVars, procVars, netVars>>

EndForward(f) ==
  /\ fwd[f] = "sending"
  /\ fwd' = [fwd EXCEPT ![f] = "done"]
  /\ inFlight' = Decremented(inFlight)
  /\ idleTmr' = Armed(sink, suspending, inFlight')
  /\ UNCHANGED <<sink, resuming, settled, suspending, buffer, nextKey, freshIDs, deliverTmr,
                 nextID, callVars, procVars, netVars>>

-----------------------------------------------------------------------------
OnEvent == OnEventDeliver \/ OnEventHold \/ OnEventResume

ConnStep(c) ==
  \/ Attach(c) \/ ArmFallback(c) \/ FallbackFires(c)
  \/ SettleOnAttach(c) \/ SettleOnFallback(c) \/ MarkReady(c)
  \/ Ack(c) \/ Detach(c) \/ CloseConn(c)

WriteStep(p) == Check(p) \/ WriteOk(p) \/ WriteErr(p) \/ NoteActivity(p)

Next ==
  \/ OnEvent
  \/ ResumeOk \/ ResumeErr
  \/ \E p \in Procs : WriteStep(p)
  \/ \E c \in Conns : ConnStep(c)
  \/ IdleFires \/ OnIdle \/ SuspendOk \/ SuspendErr
  \/ \E f \in Forwards : BeginForward(f) \/ EndForward(f)

Spec == Init /\ [][Next]_vars

-----------------------------------------------------------------------------
(* Properties.                                                             *)

\* Every variable keeps its type.
FlagsOK ==
  /\ resuming \in BOOLEAN /\ settled \in BOOLEAN
  /\ suspending \in BOOLEAN /\ idleTmr \in BOOLEAN
FieldsOK ==
  /\ sink \in Conns \cup {NoConn} /\ deliverTmr \in Conns \cup {NoConn}
  /\ buffer \in Seq(Nat) /\ nextKey \in Nat
  /\ freshIDs \in SUBSET EventFrames /\ nextID \in Nat
  /\ inFlight \in Nat
  /\ fwd \in [Forwards -> ForwardState]
CallsOK ==
  /\ armedTmr \in SUBSET Conns
  /\ idleCalls \in Nat /\ suspendCalls \in Nat /\ resumeCalls \in Nat
ProcsOK ==
  /\ sinkWrite \in Procs \cup {NoProc}
  /\ pc \in [Procs -> PC]
  /\ after \in [Procs -> PC]
  /\ to \in [Procs -> Conns \cup {NoConn}]
  /\ frames \in [Procs -> Seq(Frames)]
NetOK ==
  /\ wire \in [Conns -> Seq(Frames)]
  /\ broken \in [Conns -> BOOLEAN]
TypeOK == FlagsOK /\ FieldsOK /\ CallsOK /\ ProcsOK /\ NetOK

\* Keys of the events written to connection c, and of those process p holds.
KeysOn(c) == {f.key : f \in ToSet(wire[c]) \cap EventFrames}
KeysHeld(p) == {f.key : f \in ToSet(frames[p]) \cap EventFrames}

\* The buffer lists distinct events in the order onEvent accepted them, whatever
\* acks arrive in between and on whichever connection.
BufferOrdered ==
  /\ \A i, j \in DOMAIN buffer : i < j => buffer[i] < buffer[j]
  /\ \A i \in DOMAIN buffer : buffer[i] < nextKey

\* Every envelope id that can still be acked stands for exactly one buffered
\* event: an ack neither removes another event nor fails to remove its own
\* (the freshIDs bookkeeping of stampLocked and Ack).
StampsSound ==
  /\ \A g \in freshIDs : g.key \in ToSet(buffer)
  /\ \A g, h \in freshIDs : g.id = h.id => g = h
  /\ \A c \in Conns : \A k \in KeysOn(c) :
        k \in ToSet(buffer) =>
          \E g \in freshIDs : g.key = k /\ g \in ToSet(wire[c])

\* A client never sees an event before the hello frame, and sees hello once:
\* Attach holds events back until its own hello is out, although the Slack
\* reader, the fallback timer and other handlers write to the same session.
HelloFirst ==
  \A c \in Conns : \A i \in DOMAIN wire[c] : wire[c][i] = HelloFrame <=> i = 1

\* One goroutine at a time writes to an actor connection, as gorilla demands, and
\* the lock it does so under is never left behind by one that stopped writing:
\* whatever reader, handler or timer comes to writeToSink, over however many
\* connections, and whether the write succeeds, fails or is found outdated.
OneWriter ==
  /\ \A p \in Procs : pc[p] = "write" => sinkWrite = p
  /\ sinkWrite # NoProc => pc[sinkWrite] \in {"check", "write"}

\* Once a connection is settled, every unacked event has been written to it or
\* is in the hands of a goroutine that is writing to it, unless a write failed:
\* no event is left behind between the batch of deliverBufferedNow and the
\* direct delivery of onEvent.
SettledComplete ==
  \A c \in Conns :
    (sink = c /\ settled /\ ~broken[c]) =>
      \A k \in ToSet(buffer) :
        \/ k \in KeysOn(c)
        \/ \E p \in Procs : to[p] = c /\ k \in KeysHeld(p)

\* What "(re)delivers the buffered events in order" (registry_test.go:167) comes to
\* on a busy session.  A goroutine writes its events in the order they arrived; the
\* reader's event is newer than all its connection has seen or is about to see; and
\* what was written before a batch got sinkWrite is newer than the whole batch: live
\* events that overtook it.
HandedInOrder ==
  /\ \A p \in Procs : \A i, j \in DOMAIN frames[p] : i < j => frames[p][i].key < frames[p][j].key
  /\ \A p \in Procs \ {Reader} : to[p] = to[Reader] =>
       \A h \in KeysHeld(p), k \in KeysHeld(Reader) : h < k
  /\ \A c \in Conns, p \in Procs : to[p] = c =>
       \A h \in KeysHeld(p), k \in KeysOn(c) :
         /\ p = Reader => k < h
         /\ (p # Reader /\ sinkWrite # p) => h < k

\* A process that will call noteActivity once its write is over.
WillNote(p) == pc[p] = "note" \/ (pc[p] \in {"check", "write"} /\ after[p] = "note")

\* As long as no suspend was started, a settled connection has its countdown: an
\* idle timer, a callback, or a forward or delivery that restarts it when it ends.
\* No interleaving leaves such a session without one.  What a set flag is worth is
\* another question, which Lifecycle answers (SuspendTakesEffect, QuietActorAgesOut).
AgesOut ==
  (IdleGrace /\ settled /\ ~suspending) =>
    \/ idleTmr \/ idleCalls > 0 \/ inFlight > 0
    \/ \E p \in Procs : WillNote(p)

\* The forwards under way.
Sending == {f \in Forwards : fwd[f] = "sending"}

\* The counter that holds off suspend never exceeds the forwards really under
\* way, so no leaked count keeps an actor awake for ever; and while it is not
\* zero no idle timer runs.
ForwardsCounted ==
  /\ inFlight <= Cardinality(Sending)
  /\ inFlight > 0 => ~idleTmr

\* What registry.go:133 keeps of "so we never suspend mid-send": while inFlight
\* counts the forwards exactly no suspend starts under one, and only the end of
\* the current connection, where Detach zeroes it, makes an exact count wrong.
MidSendNeedsDetach ==
  [][inFlight = Cardinality(Sending) =>
       /\ suspendCalls' > suspendCalls => Sending = {}
       /\ inFlight' = Cardinality(Sending') \/ (sink # NoConn /\ sink' = NoConn)]_vars

\* No resume is pending while an actor is connected: Attach cleared the flag, so
\* the first event after the next disconnect wakes the actor again.
NoResumeWhileConnected == sink # NoConn => ~resuming

\* The session implements at-least-once delivery: the accepted events are the
\* keys handed out, the acked ones those no longer buffered, the delivered ones
\* those on the wire.
D == INSTANCE Delivery WITH
       accepted <- nextKey,
       acked <- (0..(nextKey - 1)) \ ToSet(buffer),
       delivered <- [c \in Conns |-> KeysOn(c)]

\* No interleaving of churning connections, late acks, failed writes and stale
\* timers drops an unacked event, acks an undelivered one, or writes the same
\* event twice to one connection.
ImplementsDelivery == D!Spec

-----------------------------------------------------------------------------
(* Liveness.  The Go scheduler runs every goroutine that can run, writes   *)
(* return (with an error if the peer is gone), timers expire, HTTP calls   *)
(* end by their timeout, and a connected client keeps sending heartbeats.  *)

ProcessFairness ==
  /\ \A p \in Procs :
       WF_vars(Check(p)) /\ WF_vars(WriteOk(p) \/ WriteErr(p)) /\ WF_vars(NoteActivity(p))
  /\ \A c \in Conns :
       /\ WF_vars(ArmFallback(c)) /\ WF_vars(FallbackFires(c))
       /\ WF_vars(SettleOnAttach(c)) /\ WF_vars(SettleOnFallback(c))
       /\ WF_vars(MarkReady(c))

IdleFairness ==
  /\ WF_vars(IdleFires) /\ WF_vars(OnIdle) /\ WF_vars(SuspendOk \/ SuspendErr)
  /\ \A f \in Forwards : WF_vars(EndForward(f))

FairSpec == Spec /\ ProcessFairness /\ IdleFairness

\* A buffered event reaches the wire of the current connection, or that
\* connection fails or is replaced, or the event is acked elsewhere: neither
\* the settle window nor the write lock strands it.
HeldEventReachesWire ==
  \A c \in Conns : \A k \in 0..(MaxEvents - 1) :
    (sink = c /\ k \in ToSet(buffer)) ~>
      (sink # c \/ broken[c] \/ k \notin ToSet(buffer) \/ k \in KeysOn(c))

\* A settled connection on which no suspend was started gets one of its own, with
\* its Suspend call, unless it ends or is replaced first: late callbacks, forwards
\* and deliveries only put it off.  A flag that an Attach takes over from the
\* previous connection does not count; it starts out set (see QuietActorAgesOut).
QuietActorSuspended ==
  (IdleGrace /\ settled /\ ~suspending) ~> (suspending \/ ~settled)

-----------------------------------------------------------------------------
(* What comments of the code say, and the code does not keep.              *)

\* registry.go:133: "inFlight counts outstanding actor->Slack forwards
\* (chat.postMessage) so we never suspend mid-send".  Detach zeroes the counter
\* while forwards are still under way.
NeverSuspendMidSend ==
  [][suspendCalls' > suspendCalls => \A f \in Forwards : fwd[f] # "sending"]_vars
=============================================================================
