# Verification of the Slack egress broker

The repository runs a Slack bot (the *actor*) that is suspended almost all the
time. An always-on *egress broker* (`cmd/egress-broker`) owns the Socket Mode
WebSocket to Slack, buffers the events that arrive, resumes the actor through
the control plane, delivers the events when the actor reconnects, and suspends
the actor again when its connection goes quiet. These modules model the broker
with the goroutines, timers, connections and calls that interleave in it; TLC
checks them on small instances, and TLAPS proves the central safety results for
every value of the constants. The actor's own code, the control-plane client and
the certificate minter have modules too.

## 1. The system

| Component | Code | State | Operations |
|---|---|---|---|
| Session | `registry.go` | `sink`, `resuming`, `settled`, `suspending`, `buffer`, `freshIDs`, `inFlight`, two timers, locks `mu` and `sinkWrite` | `onEvent`, `Attach`, `MarkReady`, `deliverBufferedNow`, `writeToSink`, `Ack`, `Detach`, `noteActivity`, `onIdle`, `resumeActor`, `beginForward`, `endForward` |
| Slack link | `registry.go`, `realslack.go`, `protocol.go` | `appToken`, `started`, `closed`, `stop`; the loop's backoff and connection | `EnsureStarted`, `runSlack`, `readSlackUntilClose`, `Dial`, `Read`, `Ack`, `Close` |
| HTTP server | `server.go` | `tickets`; `Registry.sessions` | `handleConnectionsOpen`, `locateWithRetry`, `issueTicket`, `redeemTicket`, `handleActorSocket`, `handlePassthrough` |
| Control-plane client | `ateapi.go` | singleflight group: the call under way for each actor | `Resume`, `Suspend`, `LocateByPodIP` |
| Certificate minter | `tlsmint.go` | cache of leaf certificates | `GetCertificate` |
| Echo actor | `echo-actor/app.js` | `echoed`, the timestamps seen in the last 60 s; handlers that await a reply | `actorRef`, `firstTime`, `echoReply`, `/readyz` |
| Wiring, helper, scripts | `main.go`, `suspend-helper`, `demo`, `deploy`, `certs` | none that lasts | flags, one call, presentation |

How they interact:

* an actor calls `apps.connections.open`; the **server** finds out who it is,
  makes its **session**, starts the session's **Slack link** and answers with a
  URL that holds a one-time ticket;
* the actor redeems the ticket with a WebSocket request; its handler goroutine
  calls `Attach`, then reads: a ping calls `MarkReady`, an envelope calls `Ack`,
  the end of the connection calls `Detach`;
* the Slack link acks each event to Slack and calls `onEvent`; the session
  writes it to the connection, holds it, or starts a **resume** in a goroutine;
* every delivery, ack and forwarded API call restarts an idle countdown; when
  it expires, `onIdle` **suspends** the actor, its connection dies, and the
  handler calls `Detach`;
* concurrent resumes of one actor share one call of the **control-plane client**,
  which retries it on a conflict;
* the **echo actor** acks each event, replies once per message `ts`, and names
  itself in a header of every request;
* every handshake of an actor is answered with a leaf of the **minter**.

What is hard here: `mu` is released before every write and every RPC, so each of
these sequences can be overtaken by another connection, an older timer callback,
a late reply, or a failed write. The complete list, with line numbers, is
`hazards` in `PROJECT.json`.

## 2. Modules

| Module | What it is |
|---|---|
| `Delivery` | Abstract: at-least-once delivery, at most once per connection, acks only for delivered events |
| `Session` | One session and every goroutine working on it |
| `SessionProofs` | Its types, its buffer, the idle countdown, the counter of forwards and the write lock |
| `SessionDeliveryProofs` | Soundness of envelope ids; `Session` implements `Delivery`; nothing is lost |
| `SessionWireProofs` | Hello first; nothing left behind; the order of events; no resume pending while connected |
| `SlackLink`, `SlackLinkProofs` | The Slack read loop of one session |
| `ControlClient` | `Resume`: the shared call, its retries and its callers |
| `Lifecycle` | `Session` composed with `ControlClient` and the actor that is frozen and restored |
| `LifecycleProofs` | `ControlClient` alone; that `Lifecycle` is a `Session` and a `ControlClient`; what its flags still mean |
| `Server`, `ServerProofs` | Bootstrap calls, tickets, sockets, registry, restarts of the broker |
| `EchoActor`, `EchoActorProofs` | The actor's message handler, over `Delivery` |
| `CertMinter`, `CertMinterProofs` | The cache of leaf certificates |
| `MC*` | Model values, event sets and symmetry for TLC |

**Session.** One action is one critical section of `mu`, or one currency check
or frame write under `sinkWrite`. The processes are the Slack reader, one
handler per connection and one fallback-timer callback per connection; idle
callbacks, resume goroutines and Suspend RPCs are counted, since they carry no
state of their own. `pc`, `after`, `to` and `frames` are the position, the
continuation and the arguments of a `writeToSink` call. `wire[c]` is what was
written to connection `c`. Payloads are dropped; an event is its key, a stamped
frame its key and envelope id. Ids from `randID` are taken to be distinct. A
connection attaches once, as an `actorSink` does. Timers are abstracted from
time: an armed timer may fire at any moment, and a fired callback may wait for
`mu` arbitrarily long, which is what Go's `time.AfterFunc` allows. A failed write
is final for its connection, as in gorilla/websocket.

**SlackLink.** One action per blocking point of `runSlack` and
`readSlackUntilClose`. Slack is external: it sends an event on an open
connection until an ack arrives. A copy is under way (`wire`) until the broker reads
it or closes the connection, so Slack can send an event again while a copy is unread
or unacked, which is the late ack of `registry.go:311`, as well as after a lost ack
and on a later connection. An ack is received, or lost together with the connection.

**ControlClient.** `flight` is the shared call for one actor: an attempt under
way, a wait between attempts, or none. A caller starts it or joins it
(`DoChan`), and is answered when it ends, unless its own context ends first
(`GiveUp`), which leaves the call running. An attempt is served at some moment
before its reply, or refused with Aborted or another error, or never answered. The
call has a context of its own: `due` says that its 30 s are over, after which
`FlightExpires` may end it, whether or not the attempt was served. `starter` is a
history variable: who started the call, whose context must not matter. A call that
was given up is not served later: this is how the control plane is taken to behave here and in
`Lifecycle`.

**Lifecycle** extends `Session` and `ControlClient`: the goroutine that `onEvent`
starts for event `k` is caller `k` of `Resume`, and what it returns drives
`ResumeOk` and `ResumeErr` of the session. No caller gives up, because the 60 s
context of `resumeActor` outlives the flight. A Suspend is served between its call
and its reply, and an error may hide one that was served. A suspend kills the
connections the actor had; a frozen actor sends no heartbeat and no ack. `Up(c)` is
what the client knows: its connection carries data, whether or not the session still
writes to it. The constants are the defaults of `main.go`: `deliver-delay` 0 and `idle-grace` on.
`undone` is a history variable, which no guard reads: a suspend took back the resume
that the session, or a flight others may still join, counts on. The next resume that
is served resets it.

**Server.** One action per critical section or call out of a request's
goroutine. The control plane's listing is external: it comes in any number of pages,
may change between two of them, and may report any actor at the caller's pod IP, or
none. `ActorRef` is the actor's side of the header, read from the identity mount for
each request, and `HeaderRef` the broker's. The mount is external and not always
right: `mount` is the actor itself or a golden one, because `/run/ate` can report the
golden actor to those cloned from it (`docs/sidecar-egress-proxy-plan.md:59-62,
257-262`). `Restart` ends the process at any step
and starts it with empty maps. An attached socket's life is `Session`'s.

**EchoActor** stands on `Delivery` instead of on `Session`, which implements it:
the session accepts events, delivers each at most once per connection, and drops
it on an ack. `queue` holds the handlers Bolt has dispatched, `sending` those that
await `say`. The code between two awaits is one action, as in Node. A suspend ends
the process and a resume boots it from the image, as `onPause: Data` in
`deploy/echo-actor.yaml.tmpl` says. Events about one message share its `ts`; an
event in `Skipped` has a `bot_id`, a `subtype` or no `ts`.

**CertMinter.** A leaf is its name and its validity. `certFor` holds `mu`
throughout and is one action per outcome. The clock of actor and broker is one. The
client compares the leaf with the host it `dialled`; one without SNI is given the
leaf of `slack.com` whatever it dialled, and the properties leave it out.

## 3. Runs

| Run | Shows |
|---|---|
| `Session_delivery` | The buffer stays ordered (`BufferOrdered`), an envelope id stands for one buffered event (`StampsSound`), hello comes first and once (`HelloFirst`), nothing is left behind between the batch and live delivery (`SettledComplete`), one goroutine at a time writes and the lock is never left behind (`OneWriter`), each goroutine writes its events in order and only newer events get ahead of a waiting batch (`HandedInOrder`), no resume is pending while connected (`NoResumeWhileConnected`), and the session implements `Delivery` (`ImplementsDelivery`) |
| `Session_live` | Types; a settled connection on which no suspend was started always has its countdown (`AgesOut`); the forward count never leaks or goes negative although `Detach` zeroes it (`ForwardsCounted`); a suspend starts in the middle of a send only after a disconnect spoiled the count (`MidSendNeedsDetach`); a buffered event reaches the wire of the current connection (`HeldEventReachesWire`); such a connection gets a Suspend call of its own when it is quiet (`QuietActorSuspended`) |
| `Link` | One read loop (`OneLink`); an acked event was or is being handed over (`AckedIsHanded`); an event is buffered again only for a lost ack or for a copy sent before a late one (`DuplicatesExplained`); every event arrives (`EventHanded`); a closed loop ends (`LoopEnds`) |
| `Control` | nil means that the shared call was served (`NilMeansServed`); an error that it was refused, used up its attempts or its 30 s, and not that another caller gave up (`ErrorIsEarned`); every call of `Resume` returns although the control plane may never answer (`ResumeAnswered`); the attempts stay within the backoff (`ControlTypeOK`) |
| `Lifecycle_live` | An event held for a running actor is written to its connection, and again to the one that replaces it after a failed write, a dropped connection or a restore (`PendingReachesRunningActor`; the exceptions are that the bound on connections is met, and `Overtaken`, below); while `resuming` holds events back somebody is waking the actor or it runs, unless a suspend was served after the resume (`ComingUnlessUndone`); only a new connection can leave `suspending` set with nothing behind it (`SuspendTakesEffect`) |
| `Server` | Tickets open one socket, also across a restart (`TicketOnce`), on the announced actor's own session, or a golden one if its mount names the golden actor, never on another real actor's (`OwnSession`); who attaches as a real actor has a Slack connection (`AttachedIsLinked`); bootstrap calls are answered if the listings end (`OpenAnswered`) |
| `Echo` | A message is echoed again only after a process ended, a 60 s timer expired or a reply was lost (`RepeatsExplained`); an acked message is not dropped by the de-duplication (`AckedIsEchoed`); a running actor answers (`RunningActorEchoes`) |

Five further runs end in a counterexample, each for a sentence of the repository
that the code does not keep:

| Run | Sentence | What happens |
|---|---|---|
| `Claim_mid_send` | `registry.go:133` "so we never suspend mid-send" | `Detach` zeroes `inFlight` while a forward runs; the next connection goes idle and is suspended |
| `Claim_woken` | `README.md:15` "When a real message arrives, the broker resumes the actor" | an event written to the connection of a frozen actor wakes nobody; `Detach` leaves it buffered and starts no resume |
| `Claim_resuming` | `registry.go:124` "a resume is in flight (or the actor is booting)" | a Suspend served after the Resume leaves `resuming` set, and later events are held |
| `Claim_ages_out` | `registry.go:145` "still ages out and suspends" | `suspending` survives an `Attach` that overtakes the `Detach` of the frozen connection |
| `Claim_leaf` | `tlsmint.go:33` "On each handshake it mints a leaf certificate" so that "the actor's TLS validation succeeds" | leaves are cached for ever; a year after the first handshake for a name its leaf has expired |

The first is a consequence of `Detach`. The next three need the actor in the
picture and, like the last, are reported as bugs. Three of these sentences have a counterpart that does hold, and
that names the one step which breaks the sentence: `MidSendNeedsDetach`
(`Claim_mid_send`), `ComingUnlessUndone` (`Claim_resuming`) and `SuspendTakesEffect`
(`Claim_ages_out`). `AgesOut` and `QuietActorSuspended`
therefore speak only of connections on which the flag is not set: once it is, only
`SuspendTakesEffect` says what it is worth. Three smaller observations follow
from the same windows: `Detach` clears `suspending` while the Suspend RPC runs, so
a second one can start (`registry.go:134` "guards against a double suspend"), and a
live event can take `sinkWrite` before the batch of `deliverBufferedNow`, so
"(re)delivers the buffered events in order" (`registry_test.go:167`) is not
guaranteed on a busy session; `HandedInOrder` and the theorem `BatchNeverSplit` say
what is. And `Attach` takes whichever handler comes last: a handler of an older
connection that is late takes the session over, and when its connection ends the
session has no sink, while the client is content with a newer connection that nobody
writes to (`Overtaken` in `Lifecycle`). "At most once" in `app.js:119` holds for one life of the process and 60 s, as
`RepeatsExplained` counts it.

### Bounds

* Two connections: every race in the session is between a current connection and
  one that was replaced. Two events in `Session_delivery`, because ordering and
  `StampsSound` need two; one elsewhere.
* `Session_live` has one forward, which crosses a `Detach` and meets the next
  connection, and one late idle callback; `ForwardsAlwaysCounted` and
  `AlwaysAgesOut` are proved for any number of both. The delivery run has the
  fallback timer on, the idle run has it off (the default) and the idle grace on:
  the two mechanisms share `mu` only.
* Three callers of `Resume`: one starts, one joins and one gives up. Three steps of
  backoff stand for seven, so that a first, a middle and a last attempt differ.
* `Lifecycle` has one event, two connections and one attempt per resume (`Control`
  has the retries): the second connection is the reconnect, and must get what the
  first left behind. Its two safety properties are proved for any number of each.
* `MaxResends` 2 lets Slack send an event again twice, for a lost ack, a late one or
  one of each; sends on later connections are not bounded. Two loops are available so
  that a second one could start; one token, since nothing depends on which it is. Backoff takes all its six values.
* The server has one real and one golden actor, two bootstrap calls and two
  sockets, so that both kinds of caller race; a ticket lives until the next tick of a clock
  that has one; two attempts stand for the twenty of the code; a listing has any
  number of pages; the broker restarts once.
* The echo actor meets three events about one message (a mention, its plain copy
  and one to skip), two connections, one suspend, one expiry and one lost reply.
* Leaves live three ticks of a clock that reaches six, so that one expires.

`CHECK_DEADLOCK FALSE` is set in the runs of `Session`, `Lifecycle`, `Server`,
`EchoActor` and `CertMinter` only because connections, events and requests are bounded: when they are used up
the model stops, while the broker would wait for the next one. `SlackLink` and
`ControlClient` have no such stop (`EnsureStarted`, and `Resume` by a caller that
returned, can always be called) and deadlock is checked.
Symmetry over connections is used in `Session_delivery` only, which has no liveness
property.

### Fairness

* Goroutines and locks: each step of a goroutine that can be taken is taken
  (`ProcessFairness`): the Go scheduler runs runnable goroutines, and nobody
  holds `mu` or `sinkWrite` across anything that does not end. Writes end,
  successfully or not; no fairness is asked of either outcome.
* Timers expire and RPCs return: both RPCs have a timeout in the code.
* A connected client heartbeats (`MarkReady`): Bolt pings every few seconds; in
  `Lifecycle` only while the actor runs.
* In `Lifecycle` a dead connection is noticed (TCP keepalive and the read error),
  and a running client that has no usable connection opens one, as a Socket Mode
  client does; what the broker holds as its sink does not enter. Nothing is assumed
  of acks.
* In `ControlClient` the 30 s of a call pass and its end is then noticed. Nothing is
  assumed of the control plane, nor that a caller gives up.
* In `EchoActor` the session delivers to a connected actor (`HeldEventReachesWire`
  of `Session`), a client without a connection opens one, Node runs its handlers
  and every `chat.postMessage` ends, one way or the other. Acks need not arrive.
* In `Server` each goroutine of a bootstrap call makes progress. `ListingEnds` is an
  assumption on the control plane that the code does not enforce: a listing comes to
  its last page, shows the actor, or fails. `ListActors` runs under the request's
  context without a deadline (`ateapi.go:127`), and the loop over pages has no bound.
* `SlackFairness` is about Slack: it accepts a dial again and again, sends again
  what was not acked, not every copy is lost with its connection, and a connection
  does not stay silent for ever. `LoopEnds` needs the last one: `conn.Read` has no deadline and `Close` does not
  close the connection.

## 4. Proofs

All theorems are about a specification without fairness, for any set of
connections, forwards (finite), requests and events. Assumptions: the model values for
"nothing" are not members of the sets they complete, bounds are naturals, flags
are Booleans, events have an event type. In `Lifecycle` the callers are the event keys
(`CallersAssumption`) and there is no fallback timer (`HeartbeatOnly`, the default).

* **`TypeCorrect`, `BufferAlwaysOrdered`** (`SessionProofs`). Types are not
  inductive alone: a writer's `Head(frames[p])` needs `frames[p]` nonempty and
  `to[p]` a connection. `TypeInv` adds `ControlInv` (where each kind of process
  may stand, that it holds frames only inside `writeToSink`, at least one before
  a write, and that a fallback timer is armed once, after its connection's hello)
  and `BufferOrdered`: an ack removes the first entry with its key, which takes
  the key out of the buffer only because the entries are distinct.
* **`StampsAlwaysSound`** (`SessionDeliveryProofs`). `StampInv` speaks of all
  frames *sent*, on a wire or still in the hands of a writer: ids are unique
  among them and below `nextID`, and the stamps of a buffered event are all
  still in `freshIDs`. Only over the frames in flight as well is it inductive.
* **`SessionImplementsDelivery`**: refinement with `accepted <- nextKey`,
  `acked <-` the keys no longer buffered, `delivered <-` the keys on each wire.
  "At most once per connection" needs `OnceInv`: a key is on the wire of `c`, or
  held by one process for `c`, but not both; a connection that is not settled has
  neither. `settled` is the only thing that keeps the batch and live delivery
  apart, and `Attach` runs once per connection (`FreshConnInv`).
* **`HelloAlwaysFirst`** (`SessionWireProofs`). `HelloInv` says what a handler
  between `Attach` and the end of its hello holds, that the current connection
  was greeted (or broke) as soon as its handler is past that, and that events are
  held for greeted connections only. `settled` is false throughout the greeting,
  which is what keeps the Slack reader away.
* **`AlwaysComplete`**: `SettledComplete` is inductive once writers in flight count
  as coverage; the only step that drops frames held for the current connection is
  a failed write, after which the connection is broken.
* **`AlwaysHandedInOrder`, `BatchNeverSplit`** (`SessionWireProofs`). `OrderInv` says
  that one batch at a time is on its way to a connection, that until it has
  `sinkWrite` everything on the wire is newer than it, and that each of its events
  `Fits`: written next, it would neither come between two that are in order around
  it nor follow two newer ones that are out of order. The reader's event is the newest
  of all, the batch starts on a connection without events (`OnceInv`), and nobody else
  writes while it goes out (`OneWriter`). What follows for the wire, `OvertakenWhole`,
  is about three events and so has content only beyond the bounds of
  `Session_delivery`.
* **`NeverResumingWhileConnected`**: inductive as it stands.
* **`NothingLost`** (`SessionDeliveryProofs`): an invariant of `Delivery` (what is
  acked was carried by some connection) brought back through the refinement: every
  accepted event is buffered or was written to an actor's connection.
* **`ForwardsAlwaysCounted`** (`SessionProofs`): by the cardinality of the set
  of forwards under way.
* **`MidSendOnlyAfterDetach`**: each action moves `inFlight` and that cardinality
  together, except `Detach` of the current connection; a suspend starts with
  `inFlight` 0, so an exact count means that nothing is being sent.
* **`AlwaysOneWriter`**: by cases on who steps. The holder of `sinkWrite` is inside
  `writeToSink` and leaves it through `Finish`; nobody else moves it there.
* **`AlwaysAgesOut`**: while no suspend was started there is a countdown. It needs `SettledConnected` (`armIdleLocked` refuses without a
  connection) and that a goroutine keeps the `noteActivity` it owes.
* **`AlwaysOneLink`, `AckedAlwaysHanded`, `DuplicatesAlwaysExplained`,
  `LinkTypeCorrect`** (`SlackLinkProofs`): `LinkInv` says that a loop runs only if `started`, that no
  two run, and `HandInv` relates, for each event, the times it was handed over to what
  paid for them (acks lost, copies sent before a late ack, and the first send), with
  the event in hand and the copies still under way counted apart: a copy under way
  after the first has been paid for already.
* **`TicketAlwaysOnce`, `AlwaysOwnSession`, `AlwaysAttachedLinked`,
  `ServerTypeCorrect`** (`ServerProofs`): `ServerInv`
  relates a pending ticket to the request that issued it, and a spent one to the
  socket that used it. For `AttachedIsLinked` it adds `LinkInv`: whoever holds a
  ticket, redeemed it or is about to be issued one is golden or linked. `Restart`
  keeps it because tickets, sockets and sessions end together.
* **`NilAlwaysServed`, `ErrorAlwaysEarned`, `ControlTypeCorrect`**
  (`LifecycleProofs`): a positive answer was preceded by its service, there is no
  answer without a flight, and one under way has an attempt left.
* **`LifecycleKeepsItsParts`**: composition. Every step of `Lifecycle` is a step of
  `Session` or leaves it alone (`LifecycleIsSession`), so all theorems about `Session`
  hold of it; the refinement of `Delivery` is stated. It is also a step of
  `ControlClient` (`LifecycleIsControl`), which takes `FreshCallers`: the caller of
  the next event has not called yet, or one goroutine would call twice.
* **`ComingUnlessSuspended`**: `WakeInv` says that `resumeCalls` counts the callers
  that have not returned, that a served flight with a suspended actor is `undone`, and
  that a flag nobody undid has, while the actor is down, a caller that was not told
  nil. The last is more than the property says and is what survives a return: a
  caller told nil may go, because the actor ran when its flight was served.
* **`SuspendAlwaysTakesEffect`**: `SuspendInv` says that `suspending` needs a
  connection and that no more calls are served than were made. With `HelloInv` the
  current connection's handler is past `Attach`, so a suspend that is served takes
  the connection with it.
* **`RepeatsAlwaysExplained`, `AckedAlwaysEchoed`, `EchoTypeCorrect`**
  (`EchoActorProofs`): replies posted or being sent for a message are counted
  against the times its `ts` was forgotten, with one more while it is remembered;
  an event delivered on a connection was dispatched, so its handler is queued, has
  marked its `ts`, or ended with the process.
* **`EchoUsesDelivery`**: the actor's world is `Delivery`, step by step. With
  `SessionImplementsDelivery` the echo theorems ask nothing of the broker that the
  session does not keep.
* **`AlwaysAcceptedWhileYoung`** (`CertMinterProofs`): what the minter keeps where
  `LeafAccepted` fails. A cached leaf was minted after the process started, so it
  is valid until the process is older than a leaf's lifetime.

Every safety property of the passing runs is proved. Model-checked only:
`HeldEventReachesWire`, `QuietActorSuspended`, `EventHanded`, `LoopEnds`,
`PendingReachesRunningActor`, `OpenAnswered`, `ResumeAnswered` and
`RunningActorEchoes`, because the prover does not handle liveness under fairness.

## 5. Not modelled

* Recovery of events: the broker persists nothing, so events acked to Slack and not
  yet to the actor are lost when it dies (`README.md:221`). `Restart` of `Server`
  shows what a restart leaves of tickets, sockets and sessions; for the buffer there
  is no code to model.
* Real time: the lengths of `idleGrace`, backoff and ticket life; only their order
  relative to other steps. A Slack connection that is accepted and closed at once is
  redialled without delay, and an unused ticket stays in the map: neither has a
  wrong state to reach.
* `internal/slackapi`: constants and response types. `suspend-helper`: one
  `SuspendActor` call, the same as `SuspendActor` of `Lifecycle`; `app.js` does not
  use it. `main.go` beyond `Restart`: flags and construction.
* Payloads, JSON, PEM and keys, logging, DNS, deployment scripts, the dashboard.

## 6. Plan

Worth proving next: that what `SlackLink` hands over is what
`Delivery` accepts, so that `AckedIsHanded` and `NothingLost` join into one statement
from Slack to the actor.
