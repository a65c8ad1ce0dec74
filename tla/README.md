# A verification of j60870 (IEC 60870-5-104)

TLA+ models of the library's connection layer, TLC configurations that check
them on small instances, and TLAPS proofs of what matters most for every value
of the parameters. Paths without a prefix are relative to
`src/main/java/org/openmuc/j60870/`; line numbers are those of the commit this
project stands beside.

Contents: [the system](#the-system), [hard behaviour](#what-is-hard),
[modules](#modules), [model and code](#how-the-model-corresponds-to-the-code),
[runs](#runs), [disagreements
found](#disagreements-between-the-documentation-and-the-code),
[fairness](#fairness), [proofs](#proofs), [not
modelled](#abstractions-and-what-is-not-modelled), [plan](#plan).

## The system

The library lets an application be a *controlling station* (client) or a
*controlled station* (server). Each side of a TCP connection is one `Connection`
object. Everything of interest happens between the two objects and the threads
that work on each.

| Component | State it keeps | Operations | Correct when |
|---|---|---|---|
| `Connection.java` | send and receive sequence numbers and how far each is acknowledged, `closed`, `stopped`, `pending`, the listener and its backup, latches of the CON frames, five timers | `send`, `startDataTransfer`, `stopDataTransfer`, `setConnectionListener`, `close`, one handler per frame type, `execute` of the timers, `start` | ASDUs reach the other listener once and in order; at most k unacknowledged; nothing is held for acknowledged that was not received; every outstanding frame is supervised; STARTDT/STOPDT gate the data; every close is noticed at both ends |
| `TimeoutManager.java`, `TimeoutTask.java` | a priority queue of tasks by due time; `planned`, `canceled`, `done` per task | `addTimerTask`, `cancel`, `run`, `executeManually` | a planned task that is not cancelled is never lost and runs soon after its time |
| `internal/SerialExecutor.java` | a queue of Runnables, the active one | `execute`, `scheduleNext` | tasks run one at a time, in order |
| `APdu.java` | none | `encode`, `decode` | decoding an encoded frame gives it back |
| `ServerThread.java`, `Server.java` | count of connections, the socket | accept, `connectionClosedSignal`, `stopServer` | never more than the maximum; a place comes back once, when its connection ends; the thread does not end without a sign |
| `ConnectionSettings.java`, builders | k, w, t0..t3, lengths; a static thread pool and its user count | setters, `incremntConnectionsCounter`, `decrementConnectionsCounter` | t2 < t1 < t3; the pool lives while someone uses it |
| `ASdu.java`, `ASduType.java`, `CauseOfTransmission.java`, `ie/*` | none | encode and decode of the payload | the reader finds the end of every frame; the structure arrives as it was sent |
| command methods (`Connection.java:528-1186`) | none | build an `ASdu`, call `send` | the right type and cause |
| `cli-app` (beside the library) | cached state of the console and of the sample server | start with retries, select before operate | the sequence of answers |

How they interact: `send` and the timers write to the socket while they hold the
monitor of the `Connection`; the `ConnectionReader` decodes a frame without it
and handles it under it; `stopDataTransfer` and `startDataTransfer` mostly run
without it and meet the reader through two latches. Handlers add and cancel
timers in the `TimeoutManager`, whose thread calls back into the connection; a
received I-frame becomes a Runnable of the `SerialExecutor`, which calls the
application's listener. At the end of `ConnectionReader.run` the executor is
shut down if it is not shared, and `ServerThread` gets its slot back.

## What is hard

The hazards with their lines are listed in `PROJECT.json`. In groups:

* **Windows over wrapping counters.** Both counters are 15 bits; their
  distances, the extra S-frame at the wrap (`:217`), acknowledgement by I-frame,
  by S-frame after w frames and by S-frame after t2 all interleave in both
  directions.
* **A monitor with waiting senders.** `send` waits in a loop for the window; who
  wakes it, and what it finds when it wakes.
* **Timers that run while they are changed.** A task is taken from the queue and
  its `canceled` is read before it has the monitor; `done` is set after it has
  released it. In between a handler may cancel or re-add it.
* **A queue whose elements change under it.** The `TimeoutManager` sleeps with
  the head put back in the queue; adding updates the due time of a task that is
  still in the heap, removes by `equals` and notifies a thread that may not wait
  yet.
* **Calls without the monitor.** `stopDataTransfer` reads the counter, writes it
  in an S-frame, records it and cancels t2 in separate steps while frames are
  handled.
* **A frame in hand.** The reader decodes without the monitor and handles what
  it has decoded with it, without a look at `closed`: a connection that closes
  in between still counts and forwards one frame.
* **Start, stop and start again** with calls that time out and answers that come
  late.
* **Closing** from either end, by timer, by application, by the network, while
  senders wait and tasks are queued.
* **A place and a pool shared by connections that come and go.** The place of
  a connection is taken by the thread of the server and given back by whoever
  closes first: the reader, t1, the application or a handler that fails. The
  static pool is counted by `start()` and released by the reader, which
  `start()` starts *before* it counts.
* **A reader that is not told where a frame ends.** `ASdu.decode` takes what the
  type and the qualifier say and does not look at the length of the APDU; the
  counter in the qualifier has seven bits, the buffer 255 octets, and `send`
  takes a number before it knows that the ASDU fits.

## Modules

| Module | What it is |
|---|---|
| `SequenceNumbers` | the counters modulo `SeqModulus` (the code's 2^15): successor, difference, wrap |
| `Connection` | two connections, their threads and the TCP streams between them; properties |
| `WindowProtocol` | the abstract specification: ASDUs sent, received, acknowledged, open or not |
| `MCConnection` | gives the per-endpoint constants of `Connection` their values |
| `TimeoutManager`, `MCTimeoutManager` | the manager's thread, its queue with due times, the threads that add and cancel; discrete time |
| `TimeoutManagerProofs` | proof that planned tasks are not lost, duplicates are few and delays bounded |
| `Apci` | the four control octets of a frame: `encode`, `decode` |
| `SequenceNumberProofs`, `ApciProofs` | lemmas and theorems on the two pure modules |
| `ConnectionTypes` | proof of `TypeOK` |
| `ConnectionProofs` | the inductive invariants and the safety theorems |
| `ConnectionRefinement` | proof that `Connection` implements `WindowProtocol`, and of `NoLostWakeup` |
| `ServerThread` | a server, its thread and handlers, the connections it accepts and those the same program builds, the shared pool |
| `ConnectionLimit` | the abstract specification: places taken and given back, never more than the maximum |
| `ServerThreadProofs` | proof of the count, the limit and the life of the pool |
| `ASduFormat` | the table of element lengths, the elements of each type, `ASdu.encode` and `decode` as to lengths and structure, what the command methods build |
| `Framing`, `MCFraming` | one direction of a connection as a stream of octets: `send` with an encode that may throw, the reader that looks for the next frame |
| `FramingProofs` | proof that the reader keeps in step, that a gap is never crossed and that commands fit; sums over sequences of elements |

`Connection` EXTENDS `SequenceNumbers` and instantiates `WindowProtocol`. Its
`state` is refined to `WindowState`: "open" until `closed`, then "closing" while
the reader has a frame in hand and "closed" otherwise; the other three abstract
variables are history variables of the same names. `TimeoutManager` stands by itself: there
the tasks have due times and the queue is the code's, and what a task does is
only to add another one; in `Connection` the tasks do everything the code's do,
and the queue is a set that expires a task at any moment and loses one only as
the first shows it can: a task may disappear when an equal one is added
(`Duplicates`; the tasks made for t1 are equal if they are planned in the same
millisecond, disagreement 5). That nothing else is lost is what
`TimeoutManagerProofs` proves.

`ServerThread` has what `Connection` takes for granted, the way a connection
comes to be started, and reduces what is in between to "its reader works, it is
closed, its peer has left". `Framing` opens up what is one step in `Connection`:
the frame that `send` writes and the reader takes is there of a certain length,
and the two may disagree about it. The theorems of `Framing` say when they do
not, which is what the channel of frames in `Connection` assumes. An operator
whose name ends in `Mutant` is a plausible bug of the definition below it. None
is used by the specification: `PROJECT.json` says which property each one
breaks.

## How the model corresponds to the code

A variable has the name of the field it stands for, as a function of the
endpoint where both have it. The exceptions:

* `planned` is the set of timers whose `isPlanned()` is true, `queued` those in
  the `TimeoutManager`'s queue and not cancelled. They differ while a task runs,
  which is exactly when the code's "if planned, cancel" can be wrong, and when
  an equal task has removed another one from the queue. `dropped` (history) is
  the set of those.
* `tm` and `task` are where the `TimeoutManager`'s thread is: `"idle"`;
  `"ready"`, a task taken whose `execute` does not have the monitor yet;
  `"interrupted"`, the same after `shutdownNow`; `"ran"`, `execute` over but
  `done` not yet set; `"dead"`.
* `waiting` and `awake` count the threads in `send`'s `wait()` and those
  notified that do not have the monitor back. `control` is the program counter
  of the client's thread in `startDataTransfer` or `stopDataTransfer`, and
  `stopNr` its local copy of `receiveSequenceNumber`, from the line where
  `sendSFormatPdu` reads it to the line where it is on the wire.
* `reader` is where the `ConnectionReader` is: `"reading"`; `"late"`, the
  connection has closed while it had a decoded frame in hand; `"failing"`, an
  exception is on its way to the finally clause; `"done"`.
* `wire[p]` is the TCP stream towards `p`, a sequence of frames.
* `sent`, `received`, `acked`, `confirmed`, `delivered`, `lost`, `notified`,
  `closedBecause`, `stopCount` and the fields `vs`, `vr` of a frame are history:
  absolute counts behind the modular numbers, and what the applications have
  seen. `overtaken` is history too: `stopDataTransfer` has written an N(R) that
  the reader had by then left behind. No guard reads these, except that
  `MaxSends` bounds `sent`.

| Code | Actions |
|---|---|
| `send` `:475` | `Send`, `SendWaits` (the window is full), `SenderResumes` (after `notifyAll`: everything is examined again) |
| `ConnectionReader.run` `:1285` | one action per frame type (`HandleIFrame`, `HandleSFrame`, `HandleStartDtAct`, ...), each the whole handler with `resetMaxIdleTimeTimer`; `RejectFrame` when a handler throws; `LateIFrame`, `LateSFrame`, `LateAct`, `LateCon` for the frame in hand of a connection that has closed; `ReaderStops`, `ReaderBroken` when decoding throws; `ReaderExit`, the finally clause |
| the timers `:1191-1283` with `TimeoutManager.run` and `executeManually` | `TakeTimer`, then `ExecuteNoAckReceived` (t1), `ExecuteNoAckSent` (t2), `ExecuteIdle` (t3), `ExecuteStopDt`, or `TimerWriteFails`/`TimerInterrupted`, then `TimerDone` |
| `startDataTransfer` `:345` | `StartDataTransfer`, then `StartConfirmed` or `StartTimesOut` |
| `stopDataTransfer` `:289` | `StopDataTransfer`, `StopReadsDiff`, `StopReadsNumber`, `StopWritesSFrame`, `StopRecordsSFrame`, `StopCancelsTimer`, `StopSendsAct`, `StopReturns`; `StopFails` when a write throws |
| `close` `:428`, `setConnectionListener` `:371` | `AppClose` (and whatever else closes, with `FrameInHand`), `setConnectionListener` |
| `SerialExecutor` | `ForwardASdu` |

In `TimeoutManager`:

| Code | Actions |
|---|---|
| `addTimerTask` `TimeoutManager.java:37` | `UpdateDueTime`, `RemoveDuplicates`, `AddToQueue`, `NotifyLock` |
| `run` `:61` | `Take`, `CheckDueTime`, then `Put`, `Wait`, `WaitEnds`, or |
| `executeManually` `TimeoutTask.java:39` | `ReadCanceled`, `Enter`, `Leave`, `SetDone`; `RunManually` when a handler calls it |
| `cancel` `TimeoutTask.java:71` | `Cancel` |

`queue` counts how often a task is in the heap. `left[t]` is the due time seen
from now, so that `Tick` takes one from it instead of advancing a clock, and
`dueTime != 0` is `t \in scheduled`. A task whose due time changes while it is
in the heap may be found by its old or its new one (`Keys`). `Holder` is the
caller that has the monitor of the `Connection`, which `execute` needs; the
others (a thread in `stopDataTransfer`) call without it.

In `ServerThread`:

| Code | Actions |
|---|---|
| `Server.start` `Server.java:70` | `ServerStarts`, then `CreateServerSocketFails` or `ServerListens` |
| `Server.stop` | `StopServer`, then `StopReleasesPool` |
| `ServerThread.run` | `Accept`, then `Refuse`, or `TakeSlot` and `ExecuteHandler`; `AcceptStopped`, `AcceptFails` |
| `ConnectionHandler.run`, `build` of a client, `Connection.start` `Connection.java:259` | `Connect`, `ConstructorFails`, `CallbackThrows`, then `StartReader`, `AssignExecutor`, `CountConnection`, `StartManager` |
| `close`, and the end of `ConnectionReader.run` | `CloseHere`, `PeerLeaves`, `ReaderFails`, then `ReaderReleases`, or `ReaderThrows` (a callback throws, or `closeThreadPool` finds no executor yet) |

`numOpenConnections` and `poolShut` are the static count and pool of
`ConnectionSettings`. `phase[c]` is how far the thread that starts `c` has got;
`"orphan"` is a connection whose handler was never run to the end, so that
nobody will close it. `released`, `early`, `cutOff` and `indicated` are history. `gone`
is reset when a connection closes, since nobody looks at its peer any more.
A connection whose `start()` has not come to the end can already be read and
closed: this is the code, and the source of the proviso below.

In `Framing` and `ASduFormat`:

| Code | Definitions |
|---|---|
| `ASdu.encode`, `InformationObject.encode`, `encode` of each element | `Vsq`, `PayloadOctets`, `ASduOctets`, `ElementOctets` |
| `ASdu.decode`, `InformationObject.decode` | `ObjectsRead`, `SetsRead`, `Elements`, `OctetsRead`, `Decoded` |
| `Connection.java:528-1132`, the command methods | `Commands`, `SendSegment`, `SendDirectory`, `Confirmable` |
| `send`, `APdu.encode` | `Send`; `EncodeThrows`, when the ASDU does not fit into the buffer |
| `ConnectionReader.run`, `APdu.decode`, `handleIFrame` | `HandleIFrame`, `LosesStep` (it has read fewer or more octets than were written), `RejectFrame`, `LostReaderCloses` |
| `handleReceiveSequenceNumber`, t1 | `HandleReceiveSequenceNumber`, `NoAckReceived` |

An ASDU is a record of what its length depends on: the type, the number of
information objects, of sets in each and of elements in a set, and the octets of
a file segment or of private information. `Regular` says which ones the decoder
reads in the lengths they were written.

A step is what a thread does while it holds the monitor, or one unsynchronized
access. So every interleaving the JVM can produce between those is explored.
One access has no step of its own: decoding a frame takes it from the stream,
which nobody else reads, so that it can be put at the moment the frame is
handled, unless its own connection closes in between. For that case a close
decides (`FrameInHand`) whether the reader, having a frame before it, had
decoded it; the socket being closed, it can have no other after it.

## Runs

The first eight runs of the table use `MCConnection`. Bounds: `MaxSends` (calls of `send` per
endpoint), `MaxStarts`, `MaxStops` (calls of the two methods), `Expiring` (which
timers of an endpoint may expire), `MaxInFlight` (t3 expires only with fewer
frames on the wire: otherwise test frames could pile up without end), `Closers`,
`Attachers`, `LinkMayFail`. `CHECK_DEADLOCK FALSE` is right everywhere: two
connections whose callers have made all the calls they may make, and with no
timer allowed to expire, really stop; so does a program whose server is stopped
and whose connections have ended, and a stream that is closed.

| Run | Instance | What it shows |
|---|---|---|
| `duplex` | k = w = 2, counters modulo 3, 2 and 4 sends, t2 at both ends | `TypeOK`; `NoSequenceError`, `AckedWasReceived`, `WindowRespected`: numbering; `NoLostWakeup`: the wait set; `SentIsTimed`, `ReceivedIsTimed`: t1 and t2 run when they must; `ConfirmedIsRecorded`: what is recorded as acknowledged was acknowledged on the wire; `ForwardedInOrder`; the refinement |
| `window` | k = 1/2, w = 2/1, four callers at a server window of two, a close by the client at any moment | liveness: `EveryIFrameAcknowledged`, `BlockedSendsReturn`, `CloseCompletes` (a close at one end ends both, and nobody is left in `send`); the refinement with a closed endpoint, a frame in its hand and callers that wake to find it closed |
| `restart` | two starts, one stop, both can time out, data both ways, t2 and the STOPDT timer, an application that sets its listener by hand | `NoSequenceError`, `AckedWasReceived`: numbering while `stopDataTransfer` writes an S-frame of its own; `NoDataWhileStopped`: no I-frame reaches a stopped server; `FirstStopConfirmsAll` |
| `close` | a start and a stop, t1 at both ends, t3 and the test frame of the server, `close()` at the client, a failing network, frames in hand, one endpoint with the shared pool | `LinkSupervised`: t3 and the test frame hand over to each other; `SentIsTimed`: t1 is lost only to an equal timer; `ServerIsTold`, `ClientIsTold`: both applications hear of the end |
| `stop_timeout`, `start_gap`, `stop_race`, `stale_ack` | small instances of start and stop | disagreements 1 to 4 and 6 below |
| `timers` | timeouts 2 and 3, two threads that add, two calls per unit of time | `UniqueIsQueued`: what says it is planned will run, if its timeout is its own; `DuplicatesBounded`; `DelayBounded`: how late a lost notification makes a task; `PlannedComesDue` (liveness) |
| `timers_equal` | two tasks of timeout t1, one caller | disagreement 5 |
| `server` | one place, two peers, a client of the same program; all share the pool or none does; the callbacks of one peer may throw; one start and stop | `SlotsCounted`: a place is given back once, whoever closes; the refinement of `ConnectionLimit`; `NobodyCutOff`: the pool outlives its users; `NoSilentEnd`: the thread of the server does not end unnoticed; `SlotReturns`, `AttemptIsSettled` (liveness) |
| `framing` | 18 ASDUs, four choices of field lengths, three calls of `send`, counters modulo 3, k = 2 | `InStep`, `DeliveredAsSent`: regular ASDUs are read where they stand and arrive as they were; `NothingAfterGap`, `GapCloses`: an encode that throws costs the connection and nothing else; `AnswersRegular`: sending back what was received cannot put the peer out of step; `CommandsArrive`: every command method builds an ASDU that its reader understands |

Why the bounds are enough: a counter modulo 3 wraps within four sends, in the
position the window has in the code (k < modulus), and the modulus is *the
largest window plus one*, the hardest case; the theorems remove this bound for
the numbering. Two I-frames outstanding in one direction are what tells partial
from full acknowledgement; two waiting senders are what tells `notify` from
`notifyAll`, and with only one place freed the second of them finds the window
full again. Two starts and one stop are the least that lets the answer of one
call meet the latch of the next. In `close` only the server has t3, and one
I-frame is sent: test frames multiply the states (at both endpoints, past 10
million). One I-frame is enough there, since what is lost is a timer, and the
window is the business of the other runs; waiting callers meet a close in
`window`. In `restart` the server does not close while it has a frame in hand,
so that `NoDataWhileStopped` says nothing of that case but in the theorem.

In `server`, one place and two peers are what it takes for one to be refused,
and to get the place of the other when that has ended; a counter that goes wrong
by one is seen at once. Two sets of sharers are enough: who does not share is
counted as well (`Connection.java:275`, `Server.java:71`) and never released, so
that a mixture only keeps the pool longer, and the hard case is that all share.
With one outbound connection and the server the pool has two users that come and
go independently of the places. Once an inbound connection has taken its place,
the end of its peer may come at any step (`PeerLeaves`); an outbound one may
fail at any step of its reader, without a variable for its peer. `MaxStarts` is
one: a `start` that fails leaves the count one too high, which again only keeps
the pool longer.

In `framing`, the ASDUs lie at the limits: 127 and 128 of what the counter
counts, 16 and 17 objects and 240 and 241 elements at the end of the buffer
(which of them fit depends on the field lengths), private types with counts of
their own, types the decoder reads once whatever the qualifier says, an unknown
type, a directory of three entries. Three calls under a window of two let the
sender's numbers wrap and leave a gap of one or two in any position; the
theorems remove the bound.

In `timers`, time passes only when neither a caller nor the manager has anything
to do, and `CallsPerTick` lets at most two calls begin between two ticks:
without it callers could stop time. Two calls in one unit are what it takes to
notify in the gap between `Put` and `Wait` and to replan a task meanwhile. The
two timeouts differ, so that either task can be due first; so both tasks of
`UniqueIsQueued` are alone. That a pair of equal ones beside them does them no
harm is left to the theorem: with three or four tasks the liveness property
takes too many states. `CHECK_DEADLOCK
FALSE` changes little there, since the clock goes on; a queue that is empty for
ever is no deadlock either.

The bound of `DelayBounded` is one longest timeout for each *other* task. The
manager may sleep the timeout of a task that is no longer the head (its
notification was lost), and a task being replanned can still be taken by its old
due time before the one that is late, once for each other task. With two tasks
the bound is reached.

`NoSequenceError`, `AckedWasReceived` and the refinement hold up to the moment
when `stopDataTransfer` writes an N(R) that its reader has already left behind
(`overtaken`). The proviso is needed (disagreement 6): such an N(R) may follow a
higher one, and then it either makes the peer close over a sequence number or,
should the peer's counters have moved on far enough, acknowledges frames nobody
has received. Everything without a stop is covered, and every stop during which
no I-frame is counted between `:384` and `:386`. (A frame that is counted there
but not acknowledged does no harm; the proviso excludes it as well.)

`FirstStopConfirmsAll` is restricted to the first start. Afterwards the property
is false: `stopDtOutstandingSFormatTimer` is never reset
(`Connection.java:1304`), so every S-frame after a restart makes the server send
a `STOPDT_CON`. `ReceivedIsTimed` and `ConfirmedIsRecorded` are checked without
`stopDataTransfer`, which breaks them (run `stop_race`), and so are their
theorems (`MaxStops = 0`). `ClientIsTold` is restricted to one
`stopDataTransfer`: a second one overwrites the saved listener with null
(`:293`), and nobody is told. `NobodyCutOff` and `NoSilentEnd` presuppose that
no sharing connection has ended before `start()` counted it (`early = {}`,
`:275`): then the count is one too low for a moment, the pool may be shut down
under a running server, and the server's thread ends by an exception that nobody
catches. Without the proviso TLC finds both violated. `CommandsArrive` takes a
directory of one entry: `sendDirectory` (`:1121`) puts several entries into one
object without the sequence bit, contrary to the two layouts of
`ASdu.java:68-71`, and the reader takes the first only. `InStep` is about
regular ASDUs; with others the reader does lose its place (`LosesStep` occurs in
the run).

## Disagreements between the documentation and the code

1. **STOPDT_ACT may never be answered** (`stop_timeout`). With unacknowledged
   I-frames the server waits with `STOPDT_CON`; but the timer that shall send it
   returns at once because data transfer is stopped (`:1272`), which it always
   is, since `handleStopDtAct` has just stopped it. `docs/CHANGELOG.txt:20` says
   the waiting was made to work.
2. **A stopDataTransfer that times out does not close** (`stop_timeout`), though
   its comment (`:286-287`) says so; it throws and leaves the connection open
   and stopped. The run `stop_timeout` shows both: the answer never comes, and the
   client never closes.
3. **An ASDU can be dropped during the start** (`start_gap`). The server may
   send as soon as it has answered; the client's listener is set only when the
   calling thread has returned from `await` (`:365`). The reader acknowledges
   and drops what it handles before.
4. **stopDataTransfer races with reception** (`stop_race`). It examines the
   counters under the monitor, but sends, records and cancels t2 outside it
   (`:298-302`). An I-frame handled in between has its t2 cancelled and no
   S-frame, or is recorded as acknowledged when it is not.
5. **A timer can silently disappear** (`timers_equal`). `TimeoutTask.equals`
   (`TimeoutTask.java:95`) compares due time, timeout and flags. Both
   `maxTimeNoAckReceived` and `maxTimeNoTestConReceived` have the timeout t1.
   When t3 fires and `send` is called in the same millisecond, `addTimerTask` of
   the one removes the other from the queue. Its `isPlanned()` stays true, so it
   is not planned again, and the missing acknowledgement or TESTFR_CON is not
   noticed (`CommonBuilder.java:88-89` promises it for both). In `Connection`
   the loss is part of every step that adds a timer of t1; `SentIsTimed` says
   that t1 is lost in no other way, and `LinkSupervised` that the link stays
   supervised all the same, because whatever adds such a timer adds t3.
6. **stopDataTransfer may take an acknowledgement back** (`stale_ack`). It reads
   `receiveSequenceNumber` at `:384` and writes it at `:386`. The reader may in
   between count a further I-frame and acknowledge it (w reached, or a wrap), so
   that the lower N(R) follows the higher one. `sequenceNumberDiff` relies on
   `ackNumber <= number` (`:110`); the server gets nearly the modulus for the
   difference, throws (`:236-240`) and closes.

## Fairness

`FairSpec` adds weak fairness of each thread: the reader, the timer thread, a
notified sender, the executor, the thread inside `startDataTransfer` or
`stopDataTransfer` (both wait with a timeout, so they return). These are Java
threads that are never suspended; nothing is assumed of their order. For the
timers in `Expiring`, `WF(TakeTimer(p, t))` says that a task that *stays* in the
queue comes due, which the clock guarantees; one cancelled or re-added for ever
may never run. Weak fairness of a whole thread is enough, as at any time a
thread has at most one thing to do, or, for the reader, one frame at the head of
the stream. In `TimeoutManager`, `FairSpec` is weak fairness of the manager's
thread, of each caller inside `addTimerTask` (a thread that is in the middle of
it goes on) and of `Tick`: time passes. In `ServerThread` it is weak fairness of
the server's thread, and for each inbound connection of the thread that runs its
handler and of its reader; in `Framing`, of the reader, and of t1 while it stays
planned. None is assumed of accepting failures, of the peers or of the one who
calls `start` and `stop`. There is no fairness of calls by the application
(`Send`, `StartDataTransfer`, `StopDataTransfer`, `AppClose`), nor of failures
(`ReaderBroken`). Senders need no strong fairness: in `window` the calls are
finitely many, so a woken sender that loses its place to a newcomer does so only
finitely often. With an endless stream of newcomers `wait`/`notifyAll` promises
no order, and the property would not hold.

## Proofs

All are checked by `tlapm` for every modulus above 1, every k and w below the
modulus at each endpoint, and all bounds; the assumptions are the named ones of
`SequenceNumbers` and `Connection` (`WindowAssumption`, `BoundAssumption`,
`EndpointAssumption`, and that the modulus is above 1), which TLC evaluates in
the runs. Those of `TimeoutManager` ask for finitely many tasks and callers and
positive timeouts, those of `ServerThread` for finitely many connections, those
of `Framing` for a window below the modulus, field lengths the builder admits
and ASDUs of the shape the class can have. The builder's ranges for k and w
(1..32767, `CommonBuilder.java`) are these for 2^15.

| Theorem | Statement |
|---|---|
| `SequenceNumberProofs!DiffIsDistance` | `sequenceNumberDiff(a % M, b % M) = a - b` whenever 0 <= a - b < M |
| `ApciProofs!IFrameRoundTrip`, `SFrameRoundTrip`, `UFrameRoundTrip` | `decode` inverts `encode` for every 15-bit counter and type |
| `ConnectionTypes!TypeCorrect` | `Spec => []TypeOK` |
| `ConnectionProofs!NumbersCorrect` | `Spec => []NumberInv`, the inductive invariant |
| `ConnectionProofs!NeverSequenceError`, `OnlyReceivedIsAcked` | `NoSequenceError` and `AckedWasReceived`, for any number of starts and stops as long as none is overtaken |
| `ConnectionProofs!WindowKept` | `Spec => []WindowRespected`, without a proviso |
| `ConnectionProofs!TimersCorrect`, `SentFramesAreTimed`, `LinksAreSupervised` | `TimerInv`, and hence `SentIsTimed` (with the loss to an equal timer) and `LinkSupervised` (without) |
| `ConnectionProofs!ReceivedFramesAreTimed`, `RecordIsTrue` | `ReceivedIsTimed` and `ConfirmedIsRecorded`, when `MaxStops = 0` |
| `ConnectionProofs!ServerIsAlwaysTold` | `Spec => []ServerIsTold` |
| `ConnectionProofs!ASdusForwardedInOrder` | `Spec => []ForwardedInOrder` |
| `ConnectionProofs!DataOnlyWhileStarted` | `Spec => []NoDataWhileStopped`, for a frame in hand as well |
| `ConnectionProofs!FirstStopIsHonest`, `ClientIsAlwaysTold` | `FirstStopConfirmsAll` and `ClientIsTold`, each with the restriction in the property |
| `ConnectionRefinement!Refinement` | `Spec /\ [](~overtaken) => ImplementsWindowProtocol` |
| `ConnectionRefinement!WaitersHaveReason` | `Spec => []NoLostWakeup` |
| `TimeoutManagerProofs!AloneIsNotLost` | `Spec => []UniqueIsQueued`: a task whose timeout no other has is, while planned, in the queue, in the manager's hand or being added, whatever the others are |
| `TimeoutManagerProofs!FewDuplicates` | `Spec => []DuplicatesBounded` |
| `TimeoutManagerProofs!DelayIsBounded` | `Spec => []DelayBounded`, for any tasks and timeouts, equal ones too |
| `ServerThreadProofs!TypeCorrect`, `SlotsAreCounted` | `TypeOK` and `SlotsCounted`, for any number of connections |
| `ServerThreadProofs!LimitKept` | `Spec => ImplementsConnectionLimit` |
| `ServerThreadProofs!PoolOutlivesUsers`, `ThreadEndsWithSign` | `NobodyCutOff` and `NoSilentEnd` |
| `FramingProofs!ReaderStaysInStep`, `RegularAsDusArrive` | `InStep` and `DeliveredAsSent`, for every set of ASDUs and field lengths |
| `FramingProofs!GapIsNeverCrossed` | `NothingAfterGap`, for every window below the modulus |
| `FramingProofs!AnswersAreRegular` | `AnswersRegular` |
| `FramingProofs!FramingTypeCorrect`, `CommandsAlwaysArrive` | `TypeOK` and `CommandsArrive`, for all field lengths |

**The argument.** None of the three invariants is inductive: whether an N(R) is
accepted depends on frames written long ago. `NumberInv` adds what relates them:

* `Counted`: the send, receive and acknowledged-send counters are their history
  counts modulo `SeqModulus`;
* `Windowed`: acked <= sent <= acked + k at each endpoint, received is at most
  what the other one has sent, and an open endpoint's acked at most what the
  other one has received, while no N(R) has been overtaken;
* `OnTheWay`: the frames from q to a p that will read them (open, or with a
  frame in hand) form a chain. Their `vs` climb from what p has received to what
  q has sent, by one at each I-frame and not at all at the others; `ns` and `nr`
  are these counts modulo the modulus; and while p is open and no N(R) has been
  overtaken, their `vr` never fall, from what p holds for acknowledged up to
  what q has received;
* `Trusted`: until then no reason for closing is a sequence number.

`StopInv` says of the copy in the hand of `stopDataTransfer` that it was the
counter: it is its count modulo the modulus, and not above what is received.

From the chain the frame at the head carries exactly the next N(S), and an N(R)
between what is acknowledged and what is sent. With the window below the modulus
`DiffIsDistance` turns each modular comparison of the code into the comparison
of counts, so no check throws (`RejectFrame` only for a stopped connection) and
an acknowledgement adds exactly what it should. Once an N(R) has been overtaken
the `vs` still climb by one, since no number of an I-frame is involved; what is
lost is the order of the `vr`. The window is kept even so, as the first check of
`handleReceiveSequenceNumber` lets no N(R) beyond what was sent; the second
(`WindowExceeded`) never throws. The proof has one step per
action; the chain lemmas (appending one or several frames at one end, taking one
at the other) are stated once and used by all.

The refinement proof maps each action to `Send`, `Receive`, `Close`,
`ReceiveLate` (the frame in hand, of which only the ASDU counts) or a stutter;
its hypothesis is that nothing has been overtaken. It needs one more invariant, `WrittenOff`: at a closed endpoint acked
equals sent, so that closing a second time (t1 and then the reader) is a
stutter. `NoLostWakeup` rests on the same invariant: a closed endpoint's window
counts as open, so a step that leaves a thread waiting can only be one that
neither closes nor acknowledges anything.

The timers need an invariant of their own, `TimerInv`: on an open connection a
planned t1 is in the queue or about to be executed, or an equal timer has
removed it (`dropped`). It is not a matter of
definition, since a task keeps its `planned` from the moment it is taken until
`done` is set. But t1 closes when it is executed, so the bad moment is never one
of an open connection; and a task that was cancelled while it was taken is
planned again by its handler, which also puts it in the queue. t3 hands over to
the timer of the test frame in the same step; that timer can be removed by an
equal one too, but whatever adds one, except t3 itself, adds t3.

For t2 the invariant `ConfirmInv` is `ReceivedIsTimed` and `ConfirmedIsRecorded`
together: that an unacknowledged I-frame has t2 needs the distance the code
computes to be the true one (t2 is started only when it is 1), and that the
distance stays below w is what makes `DiffIsDistance` applicable.
`stopDataTransfer` breaks it, hence `MaxStops = 0`. `ListenerInv` says that the
server's listener is set, or saved while stopped; `ForwardInv` follows the queue
of the executor through shutdown, where the tasks that are cut off become
`lost`.

Three invariants are about starting and stopping, with what the frames of that
dialogue say while they are under way:

* `DataInv`: in front of every I-frame on the wire to the server there is a
  STARTDT_ACT that no STOPDT_ACT follows, or there need not be, because the
  server is started and no STOPDT_ACT is in front of it; if the client is started
  the same holds of the next frame it writes. So a request that has timed out
  and is answered late, or repeated, does no harm.
* `ToldInv`: until the second stop, a listener that has had an ASDU is set, or it
  is in `aSduListenerBack` and the client is stopped, which is when
  `connectionClosed` looks there. It needs from `DataInv` that a client is never
  asked to start or stop, which would replace its listener too.
* `FirstStopInv`: the timer that sends STOPDT_CON without an acknowledgement is
  queued only while `stopDtOutstandingSFormatTimer` is set, never running before
  the connection closes, and while a first STARTDT_ACT is under way the server
  has sent nothing. With it every STOPDT_CON on the wire was written when
  everything was acknowledged. `handleStopDtAct` knows that only from
  `isPlanned()` of t1: `PlannedInv` says that t1 is planned while an I-frame of
  an open connection is unacknowledged.

`SlotInv` of `ServerThread` is the types, that nothing is read or closed before
it is started, and `SlotsCounted`; a step changes at most one member of
`Holding`. That `numConnections` is never negative follows from it and is no
part of it. `PoolInv` has instead of `SlotsCounted` that the count of the pool
is what was counted less what was released, and that only what was counted is
released while `early` is empty; hence the count is at least the number of users
and reaches zero only without them. The last conjuncts say of a server whose
thread has ended, or whose pool is shut down, that it was stopped.

`FramingInvariant` has, besides the types and the counters: that the window is
kept and nothing is acknowledged that was not delivered; that every frame on the
wire is the encoding of the accepted ASDU at its position; that its number is
its position plus at least one for the failed encodes before it, if there is a
gap; that what was delivered is what was accepted, in structure; and
`NothingAfterGap`. The first frame behind a gap is at least one and at most a
window ahead of the expected number, because none behind the gap is delivered
and so none acknowledged; while the window is below the modulus the number
cannot come round, so this one is not delivered either. That a regular ASDU is
read in the length it was written is arithmetic on the two formulas, with the
sum over the elements left as it is.

For the `TimeoutManager`, `NotLost(t)` is inductive with `TypeOK` once the
timeout of t is its own, since only then does `equals` find nothing but t
itself, whatever is equal among the others: two tasks of t1 may remove each
other, t2 and t3 stay. The run `timers_equal` shows that the hypothesis is
needed.
`DuplicatesBounded` is not inductive: a caller that has removed the duplicates
adds one copy whatever came in between, and the manager puts back what it has in
hand. The invariant counts the copies that exist together with the callers that
have removed and not yet added, and one step of each kind moves a copy from one
part of the sum to another.

`DelayBounded` says nothing of what the manager is about to do, and a late task
could be put behind another again and again. `DelayInv` counts what can still go
in front of it: `AheadOf(t)` are the tasks that the manager may take before t by
the due time they have, or had when a caller read them. Once t is overdue this
set only shrinks, because a task that is planned anew is due later; each time
the manager sleeps, it does so for one member of it, which then leaves. So t is
late by at most one longest timeout for each member that has left. Callers may
replan as often as they like, and the timeouts may be equal.

The lengths of `ASduFormat` are folds over a sequence of elements. The library
defines a fold by a recursive function over the subsets of the positions, whose
next position is a CHOOSE, and its induction theorems take an operator as a
parameter, which the provers cannot instantiate. So each fact is shown of a
smallest counterexample: the subsets of a finite set, and the naturals, are
well-founded (`WFMin`). `SumsExist` and `SumsUnique` make the fold a function;
`SumsInAnyOrder` says that it does not matter which position is taken first;
`SetOctetsAppend` that one more element adds its length. Hence an encoded ASDU
has a natural number of octets (`FramingTypeCorrect`), and a set of n elements
without a file segment at most 7n (`SetOctetsAtMost`). No type has more than
four elements, so each command fits the buffer with room to spare; a segment of
236 octets, the largest that `CommandsArrive` names, fills it to the last octet
when all fields are as long as they can be.

**Only model-checked.** The liveness properties (`EveryIFrameAcknowledged`,
`BlockedSendsReturn`, `CloseCompletes`, `PlannedComesDue`, `SlotReturns`,
`AttemptIsSettled`, `GapCloses`): fairness and ENABLED are beyond the prover.
Every safety property of a passing run is stated by a theorem.

Induction over data is within reach only as above, case by case, and RECURSIVE
operators are not, so the modules with theorems use none. The violations are
found by TLC and are statements about one instance each.

## Abstractions, and what is not modelled

* Time in `Connection`: a queued timer may expire at any moment. So the order
  t2 < t1 < t3 is not used, but that the three are distinct is: only tasks made
  for t1 can be equal (`Alike`). The builder admits t2 = t1 and t3 = t1, which
  would let more timers remove each other. `stopDtOutstandingSFormatTimer` gets
  what is left of t1; it counts as alike, though it is so only if nothing has
  passed. Should the rest be just t2, the timer of t2 has been cancelled by then
  (`:141`).
* Which of two equal timers is lost is that of the queue: the one that is added
  stays.
* `TimeoutManager` has neither the interrupt of `shutdownNow` nor the manager's
  own `canceled`: its thread runs for ever. The interrupt is in `Connection`.
  `queue.remove` until nothing is found is one step. A task may be executed
  although it was replanned after the manager found it due, as in the code.
* A frame is decoded and handled in one step while its connection is open; one
  decoded before a `close()` of its own connection and handled after it is the
  frame in hand. What an endpoint writes after it has closed is lost (the socket
  throws), also when the peer would still have read it.
* TCP is an unbounded FIFO: no write blocks. Frames written to a peer that has
  closed are never read.
* `Connection` begins when `start()` has returned at both ends. `start()`
  itself is in `ServerThread`; what a timer or a handler does to a connection
  between is only "it closes".
* `ServerThread`: one `Server`, started successfully at most once. Callbacks that
  throw are `setConnectionEventListenerBeforeStart` and `connectionClosed`; the
  others are taken not to. The thread of the `TimeoutManager` in the shared pool
  is not followed.
* `Framing`: one direction, without the start and stop of data transfer. An
  octet stream is cut where the frames were written; a reader that has lost its
  place closes or waits, since what it finds is not a frame.
  The values inside elements, the cause of transmission and the addresses have
  no influence on lengths and are left out. Types reserved by the standard are
  unknown to the decoder (`ReservedASduTypeDecoder` of an application is not
  modelled). `DeliveredAsSent` compares what can arrive of an ASDU (`Content`):
  of one without objects, or without elements in an object (C_RD_NA_1, of which
  the decoder makes no set), the number of sets leaves no trace.
* Only the client calls `startDataTransfer` and `stopDataTransfer`, from one
  thread at a time.
* A second `handleStopDtAct` with frames outstanding creates a new timer in the
  code; the model has one.
* A call of `send` that throws at once is no action. In `Connection` ASDUs
  always fit the buffer; in `Framing` they need not.
* A shared pool has threads to spare and is not shut down.
* Octets: `Connection` knows frames only as records; `Apci` has the control
  octets, `Framing` the lengths. `sendSFormatPdu` without the monitor also fills
  the shared `buffer`: a frame torn between two S-frames is not represented, the
  order of their N(R) is.

Not modelled: the setters of the builders (range checks), the values inside
information elements with their helpers (`ByteUtils`, `Util`), the cause of
transmission, the command-line programs (`cli-app`: console parsing, canned
answers), formatting (`toString`). `docs/javadoc` has the HTML that the javadoc
tool generates, with the JavaScript it brings along (`script.js`, `search.js`
and three index files): a search box that is generated, third-party and no part
of the protocol library.

## Plan

1. Done: the connection layer as above.
2. Done: `TimeoutManager`, the priority queue with due times, `equals`, wait and
   notify.
3. Done: `ServerThread` with the settings' counter and pool, refining
   `ConnectionLimit`, and its proofs.
4. Done: `start()` against the reader (`ServerThread`), a frame in hand at
   `close()`, the unsynchronized S-frame. Left: writes that block on full
   buffers, the octets of the shared buffer.
5. Done: `ASduFormat` and `Framing` with the type table and the command methods.
   Left: elements with arithmetic (normalized values, times, counters) as
   operators with round trips; select before operate of the sample server.
6. Done: the proofs of every safety property a passing run checks, and of the
   refinements. Left: the composition of the modules as a theorem (the channel
   of `Framing` as that of `Connection`).
