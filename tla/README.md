# NKEngine: a TLA+ verification project

NKEngine is a C++ server engine for Windows. A pool of worker threads serves one
I/O completion port; jobs that must not overlap are run by a *serializer*, jobs
that are to run later wait in a *timing wheel* per worker, and asynchronous
sockets carry *packets* between peers. This directory holds TLA+ models of these
parts, TLC configurations that check them on small instances, and theorems with
proofs for TLAPS that hold for every instance.

Sources are quoted as `File.cpp:line`; the files are below `src/NKEngine/`, in
`NKCore`, `NKScheduler`, `NKNetwork` and `NKLog`. `PROJECT.json` maps every
definition to the lines it models and lists the hazards each property is for.

## 1. Inventory

### The parts

| Part | State | Operations | Talks to |
|---|---|---|---|
| **Worker pool** `IOCPManager`, `WorkerThread`, `NKThread` | the port, the worker objects, `_run` and `_t` of each thread | `create`, `postEvent`, `postStop`, `allWorkerThreadsJoinable`, `close`; `onRun`, `onUpdate`; `create`, `join`, `run` | completions from the system; posted events; calls the handlers of everything below |
| **Scheduler** `Scheduler`, `ExecutionIndex`, `JobSlot`, `addJob` | one `thread_local` wheel per worker: current index, slots, the time the next update is due | `addJob`, `execute`, `JobSlot::onProcess`, `postJob` | updated by its worker's loop; posts `JobSlot`s to the port; hands jobs to serializers |
| **Serializer** `Serializer`, `TSpinLockQueue` | `_count`, `_queue` | `execute`, `onExecute` | called by any worker; calls `onExecute` of the jobs |
| **Service** `Service`, `AsyncServerSocket` | the listening socket, the outstanding accept, the map of connections | `start`, `close`, `accept`, `onProcess`, `onProcessFailed`, `onAccepted`, `onClosed` | accept completions; arms the first receive of a connection, `AsyncSocket` the others; its users may close a connection |
| **AsyncSocket** | `_socket`, the armed receive, the callbacks | `connect`, `disconnect`, `close`, `recv`, `send`, `onProcess`, `onProcessFailed`, `raiseCloseEvent` | completions; the user's callbacks, which may call it again |
| **Packet stream** `ByteStream`, `RecvStream`, `SendStream`, `Packet` | buffer, `_offset`, `_length` | `write`, `update`, `peek`, `read`, `moveRead`; the copies of packets; the packet loop of `AsyncSocket::onProcess` | filled by receives, emptied by the handler |
| **Log** `AsyncLog`, `LogThread`, `NKLogger`, `NKEngineLog`, `DailyFileLog`, `ConsoleLog` | a queue of lines, a thread started by the first; the open file and its day; what the console shows | `write`, `onRun`, `flush`, the destructor; `onWrite`, `create`, `errorHandling`; `turnoffConsole` | called by everything |
| **Crash report** `CrashReport.cpp` | `_report_mutex`, the report file | the filter for exceptions, the handlers for invalid parameters and pure calls; `RaiseCrash` | called on any thread; writes to the log and destroys it |
| **Singletons, other queues** `Singleton`, `TWaitFreeQueue`, `TQueue` | a pointer; head and tail | `getInstance`, `destroy`; `push`, `popQueue` | the managers; the unit tests |
| **Utilities** clock, strings, configuration, console of commands | - | - | input and output |
| **`Connection`, `SerializeContainer`** | - | - | commented out as a whole |

### How they interact

`StartEngine` (`NKEngine.cpp`) creates the pool and registers the scheduler's
callback with every worker. A worker loops over `onRun`: it waits for a
completion until its next update is due, handles the completion - a socket's
`onProcess`, or a posted `JobSlot` - and turns its wheel. What a wheel finds due
it hands to the job's serializer, on the same thread: a worker that becomes the
owner stays in `Serializer::execute` until the counter is back to 0. Jobs and
callbacks may add jobs, send, disconnect and close, on whatever thread they run.
All of them write to the log, and any of them may crash: the handler then runs on
the thread that crashed, and takes the log down with whatever is queued.

### What is hard, and what makes it right

* **Serializer.** `++_count`, `push`, `popQueue` and `--_count` of several workers
  interleave. Right: one job at a time, in the order of the pushes, none lost or
  doubled; calls come back; a job that was added is executed.
* **Scheduler.** Posted jobs reach any worker, ready or not; slots are reused every
  turn; jobs add jobs to the wheel being walked; updates are late, and slices of an
  interval are counted from the last one. Right: a job is in one place at a time,
  leaves the wheel in the update it was reserved for, not much too early, and is not
  sent round for ever.
* **Service.** Accepting is a chain - completion, callbacks, first receive, next
  accept - across workers, with a close or a dying peer at any point, and users who
  close connections from `onAccepted` on. Right: one accept at a time, the chain goes
  on, connections leave the map and never before they entered it, the owner hears of
  the close.
* **AsyncSocket.** The end of a connection is noticed by a receive, a send, a wrong
  packet, a failed call or the user, by several of them at once. Right: one receive
  at a time, `onClosed` once and last, no open socket that hears nothing, both
  ends closed after a `disconnect`.
* **Packet stream.** Packets are cut anywhere, in the size field too, and sizes are
  claimed by the peer. Right: reads stay within what was received, the buffer
  never fills up, a well-formed stream comes out as it went in, copies included.
* **Log.** The first writer starts the log thread; a batch is on its way to the file
  when the day changes, the file fails, the console is turned off or the log is
  destroyed. Right: every line once, in order, in the file of its day, none left
  behind; what was written with the console off is not shown.
* **Crash report.** Several threads crash at once, the log thread among them, and
  the handler joins it with a mutex held. Right: each crash has its report, in one
  piece; the lines of before are written; no handler waits for ever.
* **Worker pool.** Creation fails half-way; END events are taken by whichever worker
  is free; joins time out and start over with threads already detached. Right: no
  worker ends before `close`, none is destroyed while it runs, `close` ends.

## 2. Modules

| Module | Models | Variables for the code's state |
|---|---|---|
| `SerialExecutor` | *abstract*: requests wait in a line and are executed one by one, in order. `Serializer` implements it for jobs, `AsyncLog` for lines | `waiting`, `current`, `finished` |
| `TimedExecutor` | *abstract*: a request waits for its interval, less a tolerance, and is then executed, once, alone. `JobSystem` implements it | `added`, `delay`, `current`, `finished` |
| `ServerCallbacks` | *abstract*: the calls of `ServerCallback` do not overlap, a connection enters the service with its `onAccepted` and leaves it later, `onClosed` is the last call. `Service` implements it | `call`, `member`, `told` |
| `ClientCallbacks` | *abstract*: at each end of a connection `onConnected`, then `onReceived`s, then `onClosed`; or `onConnectFailed` alone; one at a time. `AsyncSocket` implements it | `stage`, `call` |
| `EventPool` | *abstract*: an event that is posted is handled once at most; when the pool is closed nothing is being handled, and what waits is dropped. `WorkerPool` implements it | `state`, `place` |
| `Serializer` | `Serializer::execute`/`onExecute`, one action per atomic step (`Increment`, `Push`, `PopQueue`, `Fetch`, `Execute`, `Release`); a queue operation is atomic, it runs under the spin lock | `count` = `_count`, `queue`, `chain` = the nodes from `iter` on, `result` = what `++_count` returned; `arrived`, `done` are history |
| `Scheduler` | `addJob` from outside, from workers and from `JobSlot`, the wheel of each worker, the time its update is due, `execute` up to the hand-over. `Tick` is a millisecond; an update that is late moves all later ones | `index`, `slot`, `node` = the nodes of the update, `events` = posted job slots, `inWorker` = whether the thread's wheel was updated once, `wait` = the time left until `_next_update_time`; `interval`, `left`, `reserve`, `handed` are history |
| `JobSystem` | **composes** `Scheduler` (extended) and `Serializer` (an instance whose threads are the workers): inside `execute` a worker neither updates nor dequeues | both modules' variables |
| `Service` | `Service` and `AsyncServerSocket`; each step of `onProcess` that meets another thread is an action; `close` has two. Of each connection, what matters to the chain and the map: its receives with data and their `recv`, the end of its peer, its `close` | `listener`, `owner`, `accepts`, `port`, `map` = `_connection_map`, `conn` = what became of a connection and its receive, `shut` = the connections whose socket was closed here, `at`/`on` = the worker in its handler |
| `AsyncSocket` | both ends of a connection, from `bind` and `connect` to `close`, and their completions | `link` = how far the connection is, `handle` = `_socket`, `recvs`/`sending` = operations the system holds, `inbox`, `shut`, `reset`, `told` = calls of `onClosed` |
| `PacketStream` | the peer's `SendStream`, `RecvStream`, `ByteStream`'s offsets, `Packet(RecvStream&)`, the packet loop and the copy of each packet | `offset` = `_offset`, `length` = `_length`; `base`, `start`, `claim` = where the buffer is in the peer's stream, and what is on the wire; `delivered` = the sizes of the copies |
| `WorkerPool` | `create` and all it may be refused, the loop of the workers, `postEvent`, `postStop`, `join`, `close` | `thread`, `run` = `_run`, `attached` = `_t.joinable()`, `created`, `port`, `phase`/`k` = the manager's place in its loops |
| `AsyncLog` | `AsyncLog::write`, `LogThread`, `~AsyncLog`, and the devices of `NKEngineLog`: the daily file and the console; each atomic step is an action, `onRun` runs in the log thread and in `flush` | `queue`, `started` = `_start_thread`, `run` = `_run`, `thread`, `chain` = the nodes from `iter` on, `created` = `_last_creation_time`, `file` = the file that is open, `bad` = its stream has failed, `console` = what passes the console's filter; `arrived`, `written`, `shown`, `hushed` are history |
| `CrashReport` | **composes** an instance of `AsyncLog` and the crash handlers of its threads; the handler that destroys the log runs the steps of its destructor | AsyncLog's variables; `step`/`kind` = each thread in its handler, `owner` = `_report_mutex`, `opened` = the report file, `alive` = the process; `report`, `failed`, `before` are history |
| `...Proofs` | theorems about the module of that name, which it extends: Serializer, JobSystem (and the Scheduler it extends), Service, AsyncSocket, PacketStream, WorkerPool, AsyncLog, CrashReport | |
| `MC...` | values for TLC | |

Definitions under a comment "Mutation of ..." are variants of the action they
precede, with a fault that is easily made there; nothing uses them in a
specification. Putting one in the place of the original makes TLC report the
property that `PROJECT.json` names, so every property is known to be able to fail.

Abstractions. Jobs, events, clients, lines and workers are model values. A byte has no
value: the peer's stream is where packets begin and what sizes their headers
claim; where a header is read in the middle of something else, the size may be
anything. A day is a number with a day of the year (`DayOfYear`, `tm_yday`), and midnight
may come between any two steps. What
the system does - accepts, receives and sends completing, connections reset,
sockets running out, files that do not open - is a choice or an action of its own;
the actions are marked external in the map. Formatting and assertions that only log
are left out. No module has a recursive operator.

## 3. Runs

Each run is `tlc -config <run>.cfg MC<module>.tla`. Deadlock is not reported: all
these systems may come to rest, with nothing to do or with a bound reached.

| Run | Question | Bounds |
|---|---|---|
| `Serializer` | `MutualExclusion`, `InOrderOnce` in every interleaving; `OwnerLeavesNothingOlder`: a call that returns true leaves nothing older than its own job; `EveryCallReturns`; `AnnouncedIsExecuted`; it implements `SerialExecutor` (`ImplementsSerialExecutor`) | 3 threads, 4 requests; 129,593 states. Three threads are an owner, one that overtakes it between its two steps and one that comes after; with four requests a thread calls again |
| `JobSystem` | `HeldOnce` across both parts; `LessThanOneTurn`, `ExecutedWhenDue`, `NotTooEarly` with workers held up in the serializer; `AddedIsHandedOver`; both together implement `TimedExecutor` (`ImplementsTimedExecutor`) | 2 workers, 2 requests, 3 slots, unit 2 ms, updates up to index 3: a whole turn, so that slots are reused; intervals 0, 1, 2, 5, 6 are the least, the unit, the greatest accepted and the nearest ones refused; 1,198,123 states |
| `JobSystem_stranded` | *violated*: `DueIsExecuted` (finding 1) | 2 workers, 2 requests, 2 slots, one interval |
| `Service` | `OneAccept`, `ErasedAfterInserted`, `KeepsAccepting`; `DeadConnectionErased`; it implements `ServerCallbacks` (`ImplementsServerCallbacks`) | 2 workers, 2 clients, which send, leave or reset; users that close connections at any time, in `onAccepted` too (`UserMayClose`); sockets may run out; close at any time; 95,683 states. Two clients are what it takes for the close of one connection to be handled beside the accept of the next |
| `Service_reset` | *violated*: `EveryClientAccepted` (finding 2) | 2 workers, 2 clients, no closes by users |
| `Service_close` | *violated*: `CloseIsTold` (finding 3) | 2 workers, 1 client, no closes by users |
| `AsyncSocket` | `OneReceive`, `ClosedIsLast`, `NeverDeaf`; `DisconnectEndsBoth`, `ArmedIsTold`; it implements `ClientCallbacks` (`ImplementsClientCallbacks`) | 2 workers, one connection, 1 send per end, every call, a bind or a connect that fails, wrong packets and resets; 386,441 states. The two workers are shared by both ends, so that handlers of one connection overlap in every way two can |
| `AsyncSocket_untold` | *violated*: `ClosedIsTold` (finding 4) | the same, without `close` and wrong packets |
| `PacketStream` | `InBuffer`, `DeliveredAsSent`; `AllDelivered` | buffer 8, header 4, size field 2, `SendStream` 10; 3 packets of the ten kinds in `MCPacketStream`: well-formed ones of three sizes, claims of 0, below the header, more or less than was sent, above the buffer, and data the `SendStream` refuses; every way of cutting; sizes modulo 16; 402,926 states |
| `WorkerPool` | `ThreadsSpanPool`; `CloseEnds`, `PostedIsHandled`; it implements `EventPool` (`ImplementsEventPool`) | 3 workers, 2 events, 2 joins that time out: the second one meets threads ended, detached and running; every step of `create` may be refused; 270,035 states |
| `AsyncLog` | `InOrderOnce`, `NothingLeft`, `FileOfItsDay`, `QuietOnceOff`; `EveryLineWritten`; it implements `SerialExecutor` (`ImplementsSerialExecutor`) | 2 threads, 3 lines, two of them informative, 3 days in years of two (`TwoDayYears`), files that fail to open and writes that fail; 866,525 states. Two writers race for the start of the log thread and one writes again; two midnights fall anywhere, between the two times asked for, too, and a silence of both is a whole year |
| `CrashReport` | `CrashLinesKept`, `EveryCrashReported`; `CrashEnds` | 2 users and the log thread, 1 line written in the ordinary way, 3 kinds of crashes, of which 2 happen; 559,331 states. Two crashes are one that reports and one that waits for it, on any two threads |

`TypeOK` is checked with `CrashReport`, where the log's is part of it, and proved of
every module. A refinement says of whole behaviours what invariants say of single
states; the runs keep both, since it is the invariants that name what went wrong.

### Fairness

* *Workers and threads* (`WF` of each worker's step): the operating system
  schedules threads, and handlers, callbacks and jobs return. No worker is
  promised a particular event of the port, only some step. In `JobSystem`
  updating and handling an event are fair one by one: `onRun` does both in every
  round, the update first.
* *Time* (`Tick` of `JobSystem`) passes.
* *The system* (`AsyncSocket`, `Service`): data, ends of connections and accepts
  are completed. Accepting a client is strongly fair in `Service`: the accept is
  taken back and issued again between clients, and the backlog is served in turn.
* *Users and peers* owe nothing: no fairness on `addJob`, `execute`, `send`,
  `disconnect`, `close` of a server or a connection, on clients coming, sending (in
  `Service`) or leaving, resets, shortage or crashes.
* *AsyncLog*: the steps of each writer inside `write`, of the log thread and of the
  destructor are fair; nobody has to write or to destroy the log, and the day need
  not change. The log is destroyed when nobody writes any more, as `ReleaseEngine`
  does after the pool is closed.
* *CrashReport*: the same, as long as the process is alive, and the steps of each
  handler are fair: the calls of the system return, a lock that is free is taken.
  Here the log is destroyed while others write, as the filter does.
* *WorkerPool* assumes that only `MaxTimeouts` joins time out; a handler that never
  returns keeps `close` waiting for ever, as the code would.

## 4. Findings

1. **A due job may be stranded** (`Serializer.cpp:26`, `DueIsExecuted`). A call is
   counted before its job is pushed. The owner can take the count back to 0 in
   between; the caller was told it is not the owner, so it pushes and returns, and
   nobody executes the job until another one comes. `AnnouncedIsExecuted`
   and `OwnerLeavesNothingOlder` say what does hold.
2. **One early reset stops the accept loop** (`AsyncServerSocket.cpp:150`,
   `EveryClientAccepted`). If the first `recv` of a connection fails, the handler
   returns before it issues the next accept. A reset peer makes it fail, and so does a
   user that closes the connection in `onAccepted` (lines 144-147). `KeepsAccepting`
   shows that, but for a failed first `recv` and shortage of sockets, the chain never
   breaks: no later end of a connection, and no other close, takes it along.
3. **A close may be told to nobody** (`AsyncServerSocket.cpp:157`, `CloseIsTold`).
   `ServerCallback::onClosed` comes with the abortion of an outstanding accept. While
   a worker handles an accepted connection there is none.
4. **A closed connection may be told to nobody** (`AsyncSocket.cpp:165`,
   `ClosedIsTold`). `onClosed` comes with a receive the system held; a socket closed
   while its receive is being handled has none, and stays in the service's map.
   `ArmedIsTold` says when it is told. In `Service` the `recv` that fails for such a
   socket is the fate `dropped` (the first one) or `unarmed` (one after data);
   `DeadConnectionErased` shows that every other connection that ends leaves the map.
5. **A job of one unit may run a unit early** (`ExecutionIndex.h:23`, `NotTooEarly`). The
   slices of an interval are counted from the worker's last update, and the next one
   may be due: 50 ms are one slice, and the job may run at once. The test of the
   scheduler expects it less than 49 ms early (`NKSchedulerTest.cpp:36`, `:50`, `:66`).
   What the code does keep is `NotTooEarly`: a job is early by no more than a unit and
   what its interval has beyond a whole slice (`Earliness`), which is almost two units
   for 99 ms.
6. **The same day of another year is the same day** (`LogDeviceDetails.cpp:202`,
   `FileOfItsDay`). `onWrite` creates a new file when `tm_yday` has changed, while its
   comment says "if date has changed" (`:195`). If nothing was written for a whole
   year, a line goes to the file of the year before. `FileOfItsDay` says in which files
   a line may be (`Serves`): of its day or a later one, or of its day in another year.

Findings 1 to 4 are runs that end in a violation. The evidence for 5 and 6 is a mutant
each, which puts what the text says in the place of what the code does -
`EarlinessAsTested` for `Earliness`, `ServesAsSaid` for `Serves` -: TLC then reports the
property of the passing run as violated, and its trace is a behaviour of the code that
the text excludes.

What the models say beyond these, where no text of the repository promises
otherwise:

* The handler of an exception joins the log thread with `_report_mutex` held
  (`CrashReport.cpp:79`). If the log thread crashes as well, it waits for the mutex,
  and the handler for it; and if another thread was just between
  `compare_exchange_strong` and `create` of `AsyncLog::write`, the log thread is
  started when it has already been told to stop. `CrashEnds` holds but for these
  two cases, which `Entangled` names.

## 5. Proofs

All proofs are of safety, for any number of threads, workers, clients, requests,
slots, bytes and days; the assumptions on constants are those the modules name
(`...Assumption`, `TwoEnds`, `None...`), which TLC evaluates in every run.

**Serializer** (`SerializerProofs`).
`TypeCorrect`, `OneOwner`, `JobsExclude`: types alone are not inductive - `--_count`
stays in the naturals only because the thread that releases is the owner, and
the owner is counted. The inductive invariant is `TypeOK /\ Ownership`: at most
one thread owns the serializer, and the count is 0 exactly when none does.
`++_count` from 0 makes the only owner, `--_count` to 0 ends its ownership.
`OrderKept` needs in addition that threads other than the walking owner hold no
nodes (`ChainOwned`): `Push` appends to `arrived` and to the queue, `PopQueue` moves
the queue to the owner's chain, `Execute` moves the chain's head to `done`, and their
concatenation stays `arrived`. `Refines`: under the mapping of `Serializer`, `Push`
is `Accept`, `Fetch` of a job is `Start`, `Execute` is `Finish`, and every other step
is a stutter; `Push` needs that a request is pushed once (`PushFresh`). `OneAtATime`
and `NextInLine` say the same of one step, for the modules that use a serializer.
`OwnerClearsTheLine`: from its push on, the owner's request is among the first
`Len(done) + Len(chain)` arrived (`OwnRequest`), so that a chain that is empty leaves
it executed, and everything older with it.

**Scheduler** (first part of `JobSystemProofs`). `OneTurn`, `DueInTime`, `NoEarlierThanSlices`.
The inductive invariant joins the properties to four more. `Posted`, `New`: a request
that is posted is posted once and has no index yet, so that its index is reserved
once. `Walking`: a wheel that walks its nodes has been turned. `InTime`: what is
left of an interval is no more than the time until the update the request is reserved
for, and its `Earliness` - the two sides shrink together with every `Tick`, and an update
takes a unit from the one and gives one to `wait`. The arithmetic of slots modulo the
wheel and of `IndexAfter` is in lemmas of its own: an interval is its slices after the
first, and its `Earliness` (`SlicesFit`), which is less than two units (`EarlyByLess`).

**JobSystem** (`JobSystemProofs`). The composition is proved from its parts.
`WheelsAsAlone` and `SerializerAsAlone` show that it implements each of them, whatever
the other makes it wait for, so that their theorems are carried over
(`WheelsInTime`, `JobsOfOneSerializerExclude`, `ExecutedInOrder`). What belongs to
neither is `NeverLostOrDoubled` (`HeldOnce`): inductive is `OnePlace`, that a request
that was added is at exactly one place of the port, the slots, the updates, the
pushes and the line of the serializer, each step moving it from one to the next.
`Refines`: a request is added when its interval is recorded, its `delay` is what
`left` exceeds two units by, and it starts when the serializer's owner fetches it. That
`delay` is 0 by then joins three facts: what is with the serializer came off a wheel
(`HandedFirst`), what came off a wheel has less than two units left
(`NoEarlierThanSlices`, `EarlyByLess`), and what the owner fetches is the next in the
line, which is not finished (`NextInLine`). Finding 1 is no contradiction: `TimedExecutor` starts a job
when it is due or later, and does not promise that it starts.

**Service** (`ServiceProofs`). `OneAcceptAtATime`, `InsertedFirst`, `ServerKeepsAccepting`.
The accept loop is a token: with the system, in the port as a completion, or in the
hands of a worker (`OnePlace`), lost only to a first `recv` that fails, a shortage or a
close (`Alive`). What a worker does about a connection that was accepted earlier is
beside the chain (`Aside`): it takes no token and gives none. A connection's receive is a token of its own, in one
completion or with one worker at most (`OneReceiver`).
`Fresh` says that what a completion says about a connection is still so when a
worker comes to it; insertion before erasure rests on it. `Refines`: a call of the
owner begins when a worker takes the completion and ends with its handler's step; the
token makes them exclude one another, and an accept that completed is of a connection
the map has not seen (`Newcomers`). The two steps of `close` are stutters: what the
owner sees of a close is `onClosed`, if anything (finding 3).

**AsyncSocket** (`AsyncSocketProofs`). `OneReceiveAtATime`, `OnClosedComesLast`,
`OpenIsNeverDeaf`. For each end the receive is such a token (`OnePlace`); its
`Lifetime` begins with the connection and ends with the handle closed, and nothing
of the end is left when `onClosed` was called (`ClosedFirst`: a worker that is about to
call it finds the handle closed). `Refines`: a call begins when a worker takes a
completion (`onClosed`, when `raiseCloseEvent` has closed) and ends with its handler's
step. Calls that come with a receive exclude each other as the receive does; `onConnectFailed` comes without one, and excludes them
since a refusal is told once, to the end that connects, of a connection that is never
made (`Refusal`). All that the users call, the network does and the system holds is a
stutter (`Quiet`, `Stutters`).

**Packet stream** (`PacketStreamProofs`), for any sizes of buffer, header and size
field (`StreamAssumption`: the header holds the size field, the longest packet is as
long as the buffer and fits a `size_type`). `StaysInBuffer`, `NeverFull`: inductive is
`TypeOK`, that packets begin one after the other (`Wire`), `InBuffer`, and that a receive
is armed at offset 0 only (`ArmedAtFront`: `moveRead` comes before `recv`). A size that
is accepted is at most the buffer's, and an incomplete packet is shorter than it
claims. `WholePackets`: as long as only well-formed packets were sent (`Orderly`), the
offset stands where the packet after those delivered begins; starts are strictly
increasing, so only that packet's claim can be peeked there, and a delivery moves the
offset to the next start.

**Worker pool** (`WorkerPoolProofs`). `ThreadsOfPool`: until `close` begins nothing in the
port or in `_run` tells a worker to end (`NoEnd`); a worker is detached only when its
thread was seen to end (`Ended`), also after a join that timed out began it all anew;
and whatever `create` fails at, it has started all workers or none that is left
(`Started`). `Refines`: an event is posted, taken from the port, handled; ENDs,
time-outs, joins and all that `create` does before it has a port are stutters. An event
is in the port once, or with one worker, or through (`EventsOnce`), and `close` drops
the port when no worker is left that could have taken one from it.

**Log** (`AsyncLogProofs`). `LinesInOrderOnce`: at most one reader is at the queue, the
log thread while it lives and the flush afterwards (`OneReader`), which rests on the
thread being created once, before the destructor begins (`Starting`); then what was
handled, the two chains and the queue are `arrived` (`Order`). `NoLineLeft`: what the
flush finds is all there is (`Flushed`). `FilesOfTheirDays`: the open file is of the
last creation, and serves for the day of the line it takes (`Dates`), whatever the days of
the year are. `Refines`, of the
same `SerialExecutor` as the serializer's: the line is what the log thread has taken,
what the flush has taken and the queue, one after the other, and a reader executes its
first element from `Check` on until the devices have it; two readers are one, since the
flush begins when the log thread has ended. `TurnedOffIsQuiet`:
lines that are hushed stay turned off (`HushedOff`), so that the filter, late as it is
asked, does not let them pass; and the places of what is shown among what is written
are extended by the last one whenever a line passes (`InStep`).

**Crash report** (`CrashReportProofs`). `CrashesReported`: past the mutex there is one
thread, and it alone has the file open (`Handlers`), so that the parts of its report
are the last ones (`Reports`). `LinesBeforeTheCrash` needs the log again, but what was
proved of it does not carry over: here others write while it is destroyed. What is
left is weaker, and enough: a line that was queued is in the queue, with a reader or
written (`Kept`), the flush takes the queue once, and a log thread that lives at that
time was started late and does not end (`Reading`).

Only model-checked: every liveness property, which rests on fairness and ENABLED and
is not within the prover's reach. The abstract specifications promise safety only, for
the same reason: that a job is executed, an event handled, a line written and an end
told is what `AddedIsHandedOver`, `AnnouncedIsExecuted`, `PostedIsHandled`,
`EveryLineWritten` and `ArmedIsTold` check.

## 6. Not modelled

* *Log*: layout and formatting of lines; devices that are registered later. A
  `DailyFileLog` with a root name of its own (`LogDeviceDetails.cpp:163` takes a
  directory that exists for a failure), which nobody uses. A file that failed to
  open is not tried again that day: modelled, and counted as it is. A call of
  `NKEngineLog` after it was destroyed (`NKEngine.cpp:42`).
* *Crash report*: a crash in the middle of a write, or inside the queue's lock; the
  contents of reports and dumps and the names of their files (`GetLogicalAddress`, the
  depth of `Guard.cpp:19`). The handler of pure calls does not destroy the log
  (`CrashReport.cpp:144`): that is modelled, its lines may be lost. Nothing in the
  repository calls `CrashReport::Create`; the handlers are modelled as installed.
* *Jobs shared by serializers*: `addJob` overwrites `job->_serializer`; a request
  belongs to one serializer here, and is added once.
* *Handles*: `AsyncSocket::close` is one step; that it tests, closes and invalidates
  without a lock, and that a number may be used again meanwhile, is not modelled.
* *Packets*: single fields that are written or read after the header; writes that
  are longer than a whole buffer, and copies of packets that claim less than their
  header: `ByteStream::write` subtracts without regard to the sign (`ByteStream.h:88`).
* *Failures of the system* in `bind` and `listen` of a server, and in the calls that
  post events; a wait for a thread that fails (`WAIT_FAILED`, which `NKThread.cpp:59`
  takes for an end), and a `std::thread` that throws (`NKThread.cpp:21`). A connection
  is tried once.
* *The registration of callbacks* while workers run is modelled by its outcome, not
  as the race on a list that it is.
* *Memory*: lifetimes of streams and contexts. *Singletons*: a second instance that a
  late call creates; their destruction is part of `AsyncLog` and `CrashReport`.
* *`TWaitFreeQueue`* is used by its unit test alone.
* `Connection`, `SerializeContainer`: commented out. Utilities: no state.

## 7. Plan

Done: Serializer and its abstract executor, Scheduler with time, JobSystem, Service,
AsyncSocket, PacketStream, WorkerPool, AsyncLog with its devices, CrashReport; all
their safety properties, proved; and abstract specifications of what the serializer,
the job system, the server, a connection, the pool and the log promise, which they are
proved to implement.

What is left, in this order:

1. `close` of sockets in its three steps, with two closers and reuse of the number,
   composed with `AsyncSocket` and `Service`.
2. `Singleton`: the read outside its lock, and the second instance.
3. `TWaitFreeQueue`: exchange and link as two steps.
4. What is still without an abstract specification: the packet stream (a channel of
   whole packets) and the crash report.
