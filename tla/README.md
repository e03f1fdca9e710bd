# bun-rs in TLA+

Models of bun-rs, a JavaScript runtime on JavaScriptCore written in Rust: the parts whose correctness depends
on the order of events (timers, event loops, workers, the module cache, streams, fetch and serve, sockets,
readline, child processes, files, database transactions), the ownership of memory between Rust and
JavaScriptCore, and the algorithms that are easy to get subtly wrong (test hooks, the installer's walk,
bundles, paths). They are translated from the sources under `crates/`; `PROJECT.json` says
for each definition which lines it stands for.

| module | what it is |
| --- | --- |
| `TimerService` | what the timer functions promise a script (abstract) |
| `Timers`, `MCTimers` | `timers.rs`: the registry of one JavaScript thread, nested event loops included |
| `Timers_proofs` | its inductive invariant, safety, action properties and refinement |
| `AsyncProcess` | what a process promises about asynchronous operations (abstract) |
| `EventLoop`, `MCEventLoop` | `await_promise`, `run_event_loop`, `drain_js_tasks`, the gauge, workers |
| `EventLoop_proofs` | its inductive invariant, the invariants of its runs and the refinement of `AsyncProcess` |
| `ModuleLoader`, `MCModuleLoader` | `load_module`, `require`, the cache, mocks, and what the rewriter and the resolver decide |
| `ModuleLoader_proofs` | one evaluation per module, what late importers get, and when they get a part |
| `ChunkPipe` | what a stream promises (abstract) |
| `WebStreams` | `web/streams.js`: readable, writable and transform streams, pipeTo, tee |
| `WebStreams_proofs` | reads in order, whole branches, and both refinements of `ChunkPipe` |
| `NodeStreams` | `node_builtins/stream.rs`: Readable, Writable, pipe, iterator, toWeb |
| `MCStreams` | both, one shape at a time |
| `Http` | `web/fetch.rs`, `bun_api/serve.rs` and AbortSignal |
| `Sockets` | `web/websocket.rs` |
| `Readline` | `node_builtins/readline.rs` |
| `Network_proofs` | the safety of `Http`; lines arrive in order; both directions of the socket refine `ChunkPipe` |
| `ChildProcess` | `node_builtins/child_process.rs` |
| `MCNetwork` | these four, one at a time |
| `TestRunner` | `test_runner.rs` |
| `Installer` | the crate `bun-install` |
| `Paths` | `node_builtins/path.rs` as operators |
| `Bundler` | the crate `bun-bundler` and the loader inside a bundle |
| `Files` | `node_builtins/fs.rs` and `bun_api/file.rs` |
| `Sqlite` | `bun_api/sqlite.rs` |
| `Bindings` | the crate `bun-jsc` |
| `Tooling_proofs` | a bundle runs each module once, an installed tree is closed, transactions are atomic, owners exact, hooks bracket tests |
| `Files_proofs` | awaited data is read; the path operations agree |
| `Subsequences`, `Subsequences_proofs` | what `SelectSeq` keeps and what a common prefix is; induction over numbers and sequences |
| `MCTooling` | these seven, one at a time |

Each `.cfg` is named after the MC module it belongs to or the property it refutes: `tlc -config MCTimers.cfg
MCTimers`, `MCTimersLive.cfg` with `MCTimers`; `MCEventLoop.cfg`, `MCWorkers.cfg`, `MCTasksRunAtHome.cfg` and
`MCErrorsDelivered.cfg` with `MCEventLoop`; `MCModuleLoader.cfg` and `MCCommonJsPickedUp.cfg` with
`MCModuleLoader`; `MCStreams.cfg` and `MCFinishAfterWrites.cfg` with `MCStreams`; `MCNetwork.cfg`;
`MCTooling.cfg`. The proofs: `tlapm Timers_proofs.tla` and so on.

## The system

The CLI runs the entry script through the module loader, waits for it in `await_promise`, then calls
`run_event_loop` and exits when that returns. JavaScript runs on one thread, plus one per `Worker`;
asynchronous I/O runs on a tokio runtime of two threads, which never touches JavaScript: a completion posts a
closure on one process-wide queue, and an atomic gauge counts the operations that have not been delivered.
Nothing is persisted but files, so crashes matter as "what is left half done": the installer is the one
component that is started again on top of that.

| component | state | operations | interacts by | hard part | what makes it correct |
| --- | --- | --- | --- | --- | --- |
| timers (`timers.rs`) | heap, cancelled ids, next id (shared by all threads), protect counts, handles | set*, clear*, refresh, one tick | called by every loop; callbacks re-enter it | ticks nest inside callbacks; lazy cancellation; manual GC protection | one owner per timer, never early, never after a clear, in order, protection exact |
| loops (`modules.rs`, `timers.rs`, `async_rt.rs`) | queue, gauge, settled promises | await, drain, tick, probe, nap, exit | flags of every other component | flags read one after another while tokio posts; nested awaits | delivered once, no early exit, no missed wake-up, exits at last |
| workers (`web/worker.rs`) | handle table, two channels per worker, `stopped` | spawn, post, terminate, pump, fail | channels, the shared queue | second JavaScript thread on the same queue; errors against the exit | nothing lost, terminated workers leave |
| module loader (`modules.rs`), resolver and rewriter (`bun-loader`) | cache of exports, mocks | import, require, import(), mock | blocks in `await_promise` | cache filled before the body runs; two kinds of wrapper; failures stay cached | one evaluation; late importers see final exports; no circular wait |
| fetch, WebSocket (`web/`) | cancel table; socket table, ready state | start, abort, send, close | jobs on tokio, tasks to JavaScript | abort against completion; close against open | promise settled once; messages in order, close event after them |
| `Bun.serve` | server list, responder table | serve, request, respond, stop | accept loop on tokio | stop against requests in progress | each answer to its own request |
| readline | listener table, stdin thread | create, question, line, end, close | stdin thread posts tasks | close against a broadcast in progress | every line once, in order |
| web and node streams | queue, pending reads, state | enqueue, read, close, error, tee, pipe | callbacks | re-entrant callbacks, backpressure | chunks in order, reads and writes settled |
| child_process | pipes, status, deadline | six blocking calls | pipes of limited size | parent and child waiting for each other | the call returns, with all the output |
| fs, Bun.file | files, descriptors | synchronous calls, promises | pool threads on the same files | overlapping operations | a settled write is seen |
| test runner, mocks, fake timers | test tree, hooks, fake clock | collect, run, advance | replaces the timer functions | hooks that fail; hooks by path | hooks bracket their tests |
| installer, bundler, transpiler | work list, lock file, module graph | walk, choose, emit | file system, registry | failure half way, cycles | a closed tree; each module of a bundle once |
| path, url, querystring and the other builtins | none | pure functions | - | boundaries | agree with the reference definition |
| sqlite (`bun_api/sqlite.rs`) | connection, transaction | statements, `transaction(fn)`, close | callbacks, other connections on the file | calls from inside `fn` and from getters; a busy file | all or nothing; what is stored reads back |
| JavaScriptCore bindings (`bun-jsc`) | reference and protect counts, closures | call, throw, drop, finalize | FFI, both ways | exceptions that outlive the context; the collector | one owner for each reference |
| ffi, crypto, zlib | none, or foreign | synchronous calls | FFI | - | outside what a state model shows |

`PROJECT.json` lists all components with their sources, and the hazards with their lines. How the models fit
together: `EventLoop` has the loops and, as anonymous jobs and sources, everything that posts to them; the
other modules have one component each, down to the tasks it posts, and see the loop only as "takes the next
task". The rules of the exit are in `EventLoop` for all sources and again in `Http`, where a fetch and a
server of one process keep each other alive.

## Timers

State. `heap` is `TIMERS` (a set: ids are unique, and the order `Before` is that of `TimerEntry::cmp`),
`canceled` is `CANCELED`, `nextId` is `NEXT_ID`, `protect` counts `JSValueProtect` minus `JSValueUnprotect`
per registration, `handle` holds the fields of each `TimerHandle`, `now` is `Instant::now()`. `frames` is the
stack of turns of the thread: a tick pushes the turn of its timer and the code after the call (re-arming or
releasing) is the end of that turn, `EndTurn`; a turn may block in `require()` (`Await`), and then the loop
inside it ticks. `reg`, `starts` and `past` are history variables; `past` has the ids a handle ever named and
those among them that must stay silent because the handle was cleared or refreshed.

Actions. `SetTimer` is `setTimeout`, `setInterval` and `setImmediate` through the wrapper, `Clear` and
`Refresh` the methods of the handle, `ClearNumber` the clear of a plain number, whether or not it was ever
handed out. `TickFire` and `TickIdle` are the two ways `run_one_tick` ends, with all the cancelled entries it
drops on the way; `StartTask` is any other call into JavaScript; `IdTakenElsewhere` is another thread's
`fetch_add`. A handle object is used for one timer and its refreshes. Milliseconds are the clock's unit and
delays are in tenths, because the truncation to whole milliseconds is where an interval of half a millisecond
becomes one of period 0.

Runs.

* `timers` (8 properties): three ids, two handles, delays of 0.5 and 1 ms, a clock of 0..2, two nested turns,
  an id cleared by number, an id taken by another thread; 1.1 million states. Three ids let two timers tie
  while a third is refreshed; depth 2 is enough to tick above a blocked callback, which is the only way ticks
  interleave with a turn.
* `timers_live` (`TimeoutsFire`): two ids and the fairness of `FairSpec`. Turns that are not blocked return,
  at each depth (`SF` on `EndTurn`, because deeper turns disable it), promises that turns wait for settle
  (otherwise the code reports a deadlock), the outermost loop ticks (`SF`, because tasks come between; each
  iteration of both loops calls `run_one_tick` unless tasks keep coming, see below), time passes.

Bounds: `MaxId`, `MaxNow` (timers are set only if due before the clock stops, so that liveness is not refuted
by the end of time), `MaxDepth`, `Foreign`. `starts` counts to 2.

Proved, for every value of the constants: the seven invariants and action properties named under "theorems" and
the refinement of `TimerService`. The only assumptions are that the bounds are natural numbers and the delays
integers. The properties are not inductive: whether a tick may start a callback depends on where its entry came
from. `Inductive` adds that every entry of the heap and of the turns is the one its id was registered with
(`HeapRegistered`, `TurnsRegistered`), that ids in use are below `nextId` and were registered in the order of
the clock (`RegisteredInOrder`), that a timeout neither started nor cleared is still in the heap
(`TimeoutsKept`), and that every live timer is owned by a handle (`HeapOwned`, `TurnsOwned`, `HandlesDistinct`).
`SameDelayOrder` then follows for a tick from the order of registration, the order of the delays and the
minimality of the entry; `ProtectExact` from `SingleOwner`. Registration is proved once (`RegisterStep`) and
used for the set functions and for refresh. `NeverEarly` needs one more invariant, `NotBefore`: no entry's
deadline precedes the one its timer was set with; `ClearedStaysSilent` needs `PastCleared`: every id that must
stay silent is in `CANCELED`, whatever was armed again since. The refinement maps an id to `free`, `armed`,
`running` or `retired` by its place; a tick is a `Sweep`, other steps map to one operation or a stutter.

Only model-checked: `TimeoutsFire`, which is liveness under fairness.

## Event loops, queue and workers

State. Each thread has a stack of loops (`stack`): `await` frames for `await_promise`, then `main` for
`run_event_loop` or `worker` for the loop of `run_worker_thread`. A frame has a program counter (`at`),
whether a script runs for it (`js`), the work it found (`did`), its promise, the task it runs and the parent
events it took out. A step is what a thread does between two points where another thread can interfere: the
queue lock is taken per task, the flags are read in two groups (gauge, servers and listeners; then the workers
under their lock, with the thread's own timers). A job is an operation on tokio (`fetch`, fs promises,
sockets): `StartJob` is `note_started` and `spawn`, `Complete` posts the task, `TakeTask` runs it, and the end
of that turn is `note_finished`. A source is a server or a readline interface. Timers are here only idle,
armed, due or done; their registry is the module above.

Scripts do anything between turns, in any order: start and clear, settle any promise a loop of their thread
waits for, block.

Runs.

* `event_loop`: no worker, two jobs, one timer, one source with one event, two nested loops; 66,000 states.
  Two jobs are needed for one to complete while the other's task blocks; depth 2 puts an await above the entry
  script's await and above the main loop.
* `workers`: one worker, two messages each way, an interface on the standard input that the main thread may open
  and close or leave open; 152,000 states. Two messages make "at most one late" different from "none late"; the
  interface is something that keeps the process and that holds up a terminated worker. The run has no operation
  and no timer: those parts of `ExitClean` are checked for one thread by `IdleIsFresh` and `ImplementsProcess`
  in `event_loop`, and proved for any number of threads.
* `tasks_on_own_thread` and `worker_error_lost` are expected to fail: see the findings.

Fairness: threads are scheduled (`WF` of each thread's loop step), a turn that is not blocked returns at each
depth (`SF`, since a nested loop disables it), operations complete, time passes. Nothing is assumed of
promises or of the outside world. In particular an interface that reads the standard input may stay open for
ever, and a worker need not be told to stop. `await_promise` counts both as work, of whichever thread they are
(`modules.rs:1035-1039`), so a terminated worker whose script waits for a promise goes on waiting with them.
`TerminatedStop` therefore promises that a terminated worker leaves its thread unless it is held up
(`HeldUp`) time and again. Events per source are bounded, so
starvation of timers by an endless stream of tasks in `await_promise` (it looks at timers only when the queue
is empty) cannot appear in the runs; it is a listed hazard.

`ImplementsProcess` maps a job to idle, pending or settled; the process exits only when no operation of the
main thread is pending. Operations of a worker need not be settled at exit: the process ends with the main
thread.

`IdleIsFresh` speaks of what a loop can rely on when it gives up: the operations and timers of its own thread,
and, on the main thread, the sources. A worker asks for the readline interfaces as well, but the main thread
may open one right after it looked.

Proved, for any number of workers, operations, timers and sources, and loops nested to any depth: the five
invariants of the runs, that the gauge is the number of undelivered operations (`GaugeExact`), and
`ImplementsProcess`. The assumptions are the three named ones of the module: `Main` is no worker, the jobs are
finite, each job and timer has an owner, and a stack may have at least one loop. None of the properties is
inductive. The invariant `Core` adds what a stack can look like (`Tower`: all loops but the innermost are
busy, only `await_promise` nests, and a loop that is not busy holds no task), that tasks in the queue and
tasks on the stacks are in step with the stages of the jobs (`PostedOnce`, `RunOnce`; a loop that holds a
task is busy, so it cannot take another over it), that the gauge counts (`InFlightExact`), that from the
reading of the flags on no script of the thread can have started anything (`Probed`), and that a stopped
worker that received a message is past its last `recv` (`LateOnce`). Every step that changes one stack goes
through `StackStep`, which says what has to hold of the new stack alone. The exit is correct because `Probed`
and the second group of flags together give `FreshWhenIdle`. In the refinement `StartJob` is a start, the end
of a job's turn settles it, `Exit` and a failing `Return` of the entry script end the process, and every other
step stutters.

Only model-checked: `JobsDelivered`, `ProcessEnds` and `TerminatedStop`, which are liveness under fairness.

## Module loader

State. `loads` is the sequence of evaluations that have started; a load has the path it was loaded for
(`key`), the statements still to run (`todo`), which wrapper runs it (`sync`), what it waits for and the
exports object it has now. `cache` is `CACHE`, `mocks` is `__bun_mocked_modules`, `stack` the JavaScript
stack, `watches` the `import()` expressions still pending. `receipts` is history: which object each importer
was given and whether its module was done by then. An exports object is named by its load and by whether
`module.exports` was assigned.

A program (`text`) is a function from files to statements: `import`, `require`, `import()` (`spawn`), await
something else (`pause`), assign `module.exports`, throw, `mock.module`. `Prepared` is what the loader makes
of a file: imports hoisted, data files turned into an assignment, malformed ones failing early or late.
`is_sync` is the guess of `load_module` from the prepared text, with `mentionsAwait` for an `await ` in it that
is not at the top level: in a function, in a comment, or in the data of a data file, which that text embeds.

Actions. The four ways a request is answered are `RequestMock`, `RequestBuiltin`, `RequestCached` and
`RequestLoad`, in the order of the lookups in the code (the guards of the later ones exclude the earlier).
`Returned` is the return of the wrapper into `__bun_require`: exports, an exception, or a promise, for which
`require` starts a nested `await_promise`. `RunStatement` and `Finish` are the body, `Resume` a continuation
after an await, `Unblock` the end of a nested `await_promise`, which may give up although its promise needs
nothing but a microtask.

Runs. `module_loader` checks every program of three files in which the entry makes two requests and the others
one, in all combinations of the request forms, with pauses, failures, assignments, cycles back to either file,
a data file reached by two paths, builtins, missing names, and a mock before, between or after the imports; at
most `MaxLoads` = 5 evaluations (three paths, and mocks that make the loader forget). 20,400 states. Three
files are enough for a diamond with a cycle; two requests for one while the other is in progress. Fairness is
`WF_vars(Next)`: JavaScript runs to its next await, timers fire, promises settle. `ImportsSettle` says that
imports never wait for each other in a circle. `commonjs_exports_lost` is expected to fail, see the findings.

Proved, for every set of programs, with any number of modules and loads: `OneInstance` and
`LateImportersGetFinal`. `OneInstance` is not inductive, because that no second load of a path starts is
decided by its slot in the cache: `Remembered` says that the slot of every load is taken until `mock.module`
empties it. What a late importer gets is decided when the slot is filled and again when the load is done:
`CacheFinal` says which object a slot holds in between, `ReceiptsTrue` that nothing done comes undone.
`LateImportersGetFinal` excepts modules that assign `module.exports` under the async wrapper: among them are the
data files with `await ` in their data, of which a late importer gets the empty object (see the findings).
`SyncPartialsAreCycles` speaks of programs without async modules up to now. In such a run nothing leaves the
stack before it has ended, so every load that has not ended is on it, and whatever is above a load on the
stack was started for it (`SyncNested`, with `StartedFor` as the loads a load was started for): an importer
that is handed an unfinished module is above it, hence a true cycle. The assumptions used are
`EntryAssumption` and `ProgramAssumption` (a program has a text for every module).

Only model-checked: `ImportsSettle`, which is liveness.

## Streams

`ChunkPipe` is what every form of a stream promises: chunks come out in order, each once; it is reported
complete only when none is missing; a cancel discards what nobody has taken; a failure may come at any time.

`WebStreams`. A source stream (`rs["source"]`) and what is built on it (`shape`): a reader, a pipe into a
writable stream, a pipe through a transform whose readable side is read, a tee with two branches; or a
writable stream alone. The methods of the code run without interruption, so they are operators on the record
of a stream under their names (`enqueue`, `read`, `pullIfNeeded`, `finalizeIfDone`, `errorWritable`, ...), and
the actions are the calls of the script, of the underlying source and sink, and the turns of the async
functions inside `pipeTo`, `tee` and the writable pump. Promises are outcomes in `reads`, `writes` and
`closes`.

`NodeStreams`. A Readable that is pushed into, with one consumer: `pipe()` into a Writable with a synchronous
or an asynchronous `_write`, the async iterator, or `toWeb`, whose web stream is the source stream of
`WebStreams`. Events call their listeners at once: `emitData`, `_drain`, `resume`, `writeDone` and the others
are those nested calls on the record of everything they can change.

Runs. `streams`: a queue of 1, two chunks, two reads, two calls of the script, one shape at a time (the shapes
are initial states), so that each side can be both ahead of and behind the other. `WebImplementsPipe` and
`NodeImplementsPipe` are the refinement of `ChunkPipe` for all shapes. `finish_before_write` is expected to
fail. Fairness: the sink settles the promises it returned, and microtasks run; nothing of the source and the
script. The system may really stop (a source that never pushes), so deadlock is not checked.

Proved, of `WebSpec`, for any number of chunks, reads, writes and calls: `ReadsSettleInOrder`,
`BranchesComplete` and the refinement `WebImplementsPipe`. The argument has three layers.

1. One readable stream. None of the parts of `ReadsSettleInOrder` is kept by itself: that a read is answered
   with the next chunk needs to know what the queue holds, and that a read waits on an empty queue only, which
   of the reads wait. `Good` says it of one record: the i-th read that got a chunk got the i-th one that was
   enqueued (`Ordered`), the waiting reads are the last ones, in the order of `pendingReads` (`Numbered`), the
   queue holds exactly the chunks no read got, unless the stream was cancelled (`Queued`), and which states go
   with all this (`Stated`). Every method keeps it (`CloseGood`, `ErrorGood`, `CancelGood`, `EnqueueGood`,
   `ReadGood`).
2. One writable stream. `GoodSink` is what every call keeps, `PipeSink` what a caller has that writes a chunk
   only after the one before: the chunk in the hands of the sink is its last write, behind which only ends are
   queued, and a resolved write is in the sink. Scripts that call `close()` or `abort()` of a stream that is
   piped into, which the code lets them do, keep it too.
3. The async functions. `Branch` and `Carried` relate the two sides: a branch, or the sink, has got what the
   reads of the source got before the one that is under way, and is ended by a read that said done.

For the refinement, every step of one source changes what was sent, what came out and what was told as
`ChunkPipe` allows (`Piped`): a chunk that comes out in a read that waited is the only one on its way
(`WaitedForAll`), so that an end or an error can only be told after it. The assumption is `WebAssumption`: the
bounds are natural numbers.

Proved, of `NodeSpec`, for any number of chunks, calls and reads: the refinement `NodeImplementsPipe`.
Everything in node:stream happens in nested calls, so the lemmas are about one value, the record of all that
a call can change (`World`), and the invariant (`NodeInv`) says of this record:

1. A Readable that flows, or that has emitted `end`, holds nothing in its buffer (`FlowOK`).
2. What the consumer was given, and what it holds back itself, followed by the buffer, is what was pushed
   (`ConsumerOK`, with `PipeOK`, `IteratorOK` and `ToWebOK` for the three consumers). A consumer that failed has
   a beginning of it. A consumer is ended only when the Readable is, so that by 1. nothing is missing then.

Neither is kept by single calls. While `_drain` runs, the chunk it has taken out is in nobody's hands, and a
listener may pause, resume or call back in the middle. So there is one relation for each kind of call.
`Takes` says what one `data` event does to a consumer: it takes the chunk, and lets it out only if nothing
waits before it. That the whole buffer goes out in this way (`emitEach`) follows by induction over its chunks.
`Onward` holds from before to after every nest of calls: nothing that came out is taken back, and an end that was
told stays. `Dropped` is `destroy()`, which throws the buffer away. Each of them is a step of `ChunkPipe` or none
(`Outward`). The assumptions are `WebAssumption` and `NodeAssumption` (the high-water mark is a natural number).

The end of a stream made by `toWeb` is what its reads were told (`WasTold`), as for the other streams that are
read. Its state is not: a stream that still holds chunks, or that nobody has read, can be closed or errored
without anybody being told.

Only model-checked: `WritesSettle`, which is liveness.

Behaviour seen on the way, which no doc or test calls wrong: a pull that settles without enqueueing is asked
again at once, for ever (streams.js, `pullIfNeeded`); a transform that fails errors its writable side and
leaves reads of the readable side waiting; a node Writable whose `_write` calls back with an error never takes
the next item; `pause()` inside `_drain` has no effect on the rest of the buffer.

## Network

`Http`. A call is a request on its way to the server of this process, its own fetch or an outside client's.
`conn` is the state of its connection, `responders` and `nextId` are `RESPONDERS` and `NEXT_RESPOND_ID`,
`tasks` the queue of the JavaScript thread, `cancels` is `CANCELS`, `fired` the senders that have been used.
`Accept`, `AcceptEnds`, `handle_request`, `Written` and the fetch actions are tokio tasks; `Handle` and
`Deliver` are the tasks they post; `HandlerSettles` a handler's promise, in any order or never.
`ScriptAborts`, `MakeAny`, `StartFetch`, `Serve` and `Stop` are the script. Clients may leave at any time, a
fetch elsewhere may fail or never answer. An abort is only looked at until the headers are there, as in the
code. `Exit` is the return of the loop.

`Sockets`. One WebSocket: `link` is the loop of the task, `outbox` the channel into it, `wire` the frames it
has not read, `events` the tasks it posted. `close_ws` is the method `close`; an `open` event that was already
on its way sets `readyState` back to open after a close, as in the code. A send that fails ends the task without
a word to the script. Both directions are pipes of messages: `HeardImplementsPipe` from the peer to the
listeners, `SendsImplementPipe` from `send()` to the peer, where what was accepted before the first `close()`
(`closedAt`) goes out before the close, and what is accepted after it, which the `readyState` that moved back
allows, does not go out. A connection that fails, or that the peer closes, may lose the rest.

`Readline`. `listeners` is `LISTENERS`, `pump` the stdin thread, `batch` the part of a broadcast that has not
been posted, `posted` the tasks. A callback that is unregistered before its task runs is no longer protected
and may have been collected: then that task is not delivered.

`ChildProcess`. The parent goes through `input`, `poll` (only with a timeout) and `read`; the child does
anything a program can do with three pipes of size `Capacity`, and may leave a grandchild that holds them
open.

`MCNetwork` composes them one at a time: they share no state, so interleaving them would multiply the states
and add no behaviour.

Run `network`: one fetch, two outside calls, two signals, one of them made by `AbortSignal.any`, 2 messages
each way, 2 interfaces, 2 lines, 2 questions, pipes of 1, 2 units of output to each pipe and of input; 239,000
states. Two calls let handlers settle out of order, and a second call use a connection that was kept; two
interfaces let one close while a line is on its way to the other; output and input larger than a pipe are what
makes a blocking call hard. Fairness: the loop takes its next task, tokio polls a connection with an answer
and a fetch that can go on, the operating system runs parent and child, the deadline passes. Nothing is
assumed of clients, peers, handlers and users. The system may stop (nobody calls, the peer is silent), so
deadlock is not checked.

`CallsReturn` leaves out an input larger than the pipe (written completely before anything is read, and before
the deadline counts) and a grandchild that keeps the pipes open: in both the code blocks for ever.
`LinesDelivered` speaks of the lines that were delivered, since a closed interface hears no more. `stop()`
ends the accept loop, and connections that are kept alive go on being served; a fetch that completes leaves
its entry in `CANCELS`. A socket that is closed before it is connected goes back from CLOSING to OPEN when its
`open` event arrives (`websocket.rs:262`).

Proved, for any number of fetches, clients and signals, of `HttpSpec` (the component without fairness):
`AnswersBelong` and `AbortHonoured`. A respond id lives on in the queue and in the closures of the handlers
after its request has gone; `Belong` says that whoever still holds an id holds it for the call the table
names, if it names one. `Wiring` follows a fired sender from the signal to the fetch that listens. The
assumption is `HttpAssumption`.

Proved of `ReadlineSpec`, for any number of interfaces, lines and questions: `LinesDelivered`. What an
interface has got says nothing of what it will get. `Coming` says that the tasks on their way to it, posted or
in a broadcast that is not over, carry the very next lines in order and without a gap, and the end of the
input after them; `Complete`, that for a registered interface they reach the last line read. A line to others
leaves both alone, the next line of one's own moves `Heard` up by one, and an interface that is created in the
middle of a broadcast begins after that line. The assumption is `ReadlineAssumption`.

Proved of `SocketSpec`, for any number of messages: both halves of `SocketImplementsPipe`. For the
first, `peerSent` is what was written and `heard` what came out. The invariant says where the numbers of the
messages are: up to `Len(heard)` heard, up to some `m` in the tasks, the rest on the wire as long as the socket
task reads it (`Placed`); and that a close is the last thing on the wire and the last task a listener is told of
(`CloseLast`). Hence a close that is not an error is reported when nothing is missing. For the second, `sends`
is what was written and `peerGot` what came out: the channel begins with the messages that were accepted before
the close and have not gone out, in order and without a gap, and the close stands right behind them (`OutInv`).
The assumption is `SocketAssumption`.

Only model-checked: `AnsweredFetchesSettle`, `CallsReturn`, which are liveness under fairness.

## Tooling

`TestRunner`. Loading a file registers blocks, hooks and tests (`stack`, `collector`); a test keeps a copy of
the hooks declared so far. The run takes one test after the other: `prevPath` and `pathAfterAlls` decide which
`afterAll` hooks fire on the way from one path to the next, `ranBeforeAll` which `beforeAll` hooks are left.
`BodyEnds` has the ways a body settles and which hooks then run, `LoadFails` a file that throws, `NextFile`
what is reset for the next one (not the hooks at the top level, and not `__bun_inner_afterAll` after a failed
test). `log` is what ran in the file.

`Installer`. `deps` is the work list, taken from its end; `install_one` asks the registry and `pick_version`
chooses; `Unpack` writes entry after entry, package.json in pieces, and ends with
the archive, which need not have a package.json where it is looked for, or one that parses (entries without the
`package/` prefix are unpacked elsewhere below the package, and that is no error); `WalkOn` pushes the package's own
dependencies; `WriteLock` ends the run. `Dies` may come anywhere (an error or a kill) and leaves the disk as
it is; `Start` begins again, with a project that may have changed. A package whose package.json is there
counts as installed, complete or not, and one that is missing or does not parse is read as having no
dependencies: `InstalledClosed` is stated of what can be read on disk, and says of a locked package that it has
a package.json or that its archive was unpacked to the end.

`Paths`. Operators on paths as segments; `PathsAgree` compares them with each other over every pair of texts
of up to two segments: normalizing changes nothing about where a path leads, `relative` leads there, `join` is
`resolve` one after the other, a path is its basename in its dirname. `normalize("./")` is `/`, and such texts
are left out.

`Bundler`. The walk numbers the modules (`Visit`, `Skip`, `PrepareFailed`), then the bundle runs with the
loader it carries (`__cache` and `__pending` are `state`). `import()` goes on beside the others; a body that
throws leaves its module in `__pending`; a call the bundle does not contain goes to the host's loader.

`Files`. A file tree of any depth with inodes; an operation is a few system calls (`Plan`), made on the script's
thread by a `*Sync` function and on a pool thread by `fs.promises`, which posts a task that settles its promise.
A recursive `rm` clears a directory entry by entry and goes into the directories in it (`Unfolded`), and a
recursive `mkdir` makes the directories above that are missing; other threads act between their calls.
Descriptors have one cursor. `known` is history: what the script may expect of a file, namely what an operation
wrote that nothing overlapped and whose promise has settled. A renamed file takes the handles on it along, so
operations that overlap and share a path, directly or through others, count as operations on the paths of all of
them (`Together`): an `appendFile` that has `q` open writes into `p` once `q` is renamed to `p`. Links
(`linkSync`, `symlinkSync`), which give a file a second path, and the renaming of a directory, which moves all
the paths below it, are left out. `appendFileSync` and `FileSink` write a typed array as its digits, `readSync`
with a position moves the cursor, `writeSync` ignores offset and length: modelled as they are.

`Sqlite`. Several Database objects on one file, each of one thread; `conn` is the `Option` behind the handle
that a database shares with its statements. Script runs inside a call in two places, which is what makes
transactions hard: in the function of `transaction()`, and in the getters of an object with parameters.
`frames` is the stack of such calls, `BeginTransaction` and `TransactionEnds` are the two ends of the wrapper
(the COMMIT in the `try`, the ROLLBACK in the `catch`), `DatabaseCollects`, `StatementCollects` and
`Collected` the two ends of a call with getters: `Database.run` collects before it borrows the handle, a
statement after, so that a `close()` in a getter makes the one do nothing and is refused by the other.
`pending` and `saved` are the rows SQLite keeps for a connection and for the file, and `Busy` what it refuses
while others read or write. A statement that fails changes nothing or, as SQLite does on a full disk, an I/O
error or OR ROLLBACK, ends the transaction (`Fails`): the function is not told more than the error, and what it
inserts from then on is committed at once although COMMIT will fail and the call throw. `bind_params`,
`js_to_sql` and `sql_to_js` are operators on the types of values, NaN being a type of its own, and `Bound` and
`Converted` are what SQLite makes of a value: NULL of a NaN, text or numbers of what a column with a declared
type is given, a new number of a NULL in an INTEGER PRIMARY KEY. `TransactionsAtomic` says what the file holds
after any of this (rows of a call that returned, and rows inserted outside of a transaction, be it that SQLite
has ended it; none of a transaction that was not committed), and as what an argument reads back from which
column. Left out: BEGIN, COMMIT and ROLLBACK written by the script itself, triggers and expressions over the
parameters, column names, values beyond their types.

`Bindings`. Who owns the references of the global context and the protections of values. `native` is the
native stack, Rust and script in turns; a `JsException` owns a reference and a protection, belongs to the
scope of the closure that got it, and may be moved out of it or kept after the `Context` is gone. `Released`
is JavaScriptCore's side: with the last reference the heap goes and every finalizer runs. `Collect` is the
collector, at any time script or Rust can run it. Left out: the conversion of values, strings and byte arrays,
and the `Drop` of property lists, which begin and end inside one call.

Run `tooling`, one part at a time: 1.5 million states. Test files: two names, depth 2, two blocks, two tests,
one hook, two files (two tests in two blocks are the smallest path change, two files the smallest inheritance;
hooks of all kinds are separate behaviours). Installs: two packages, one version and the tag, two runs. Paths:
segments of three names, `.` and `..`, two long (the working directory is two of the names). Bundles: three
modules with two imports each, one `import()`. Files: a path beside a directory, and either two operations in a
tree of three levels (the smallest in which a recursive removal goes into a directory, or a recursive creation
makes one on the way) or two levels with one descriptor and three calls. Databases: two connections of the same
or of two threads, two inserts by name with NaN and a missing value, one more that fails, two transactions, two
calls inside each other (a nested call is the smallest that can go wrong, a second connection the smallest that
can be in the way). Bindings: two callbacks, three exceptions of the callbacks themselves or of one more object,
a native stack of four, which is script in Rust in script in Rust. Names, packages, databases, callbacks and
non-entry modules are symmetric: they come in pairs, and all pairs are exchanged at once. No property of the run
is a liveness property. The runs end, so deadlock is not checked.

Proved, of `BundleSpec`, `InstallSpec`, `DatabaseSpec`, `BindingsSpec`, `FilesSpec`, `TestSpec` and `PathsSpec`,
for any sets of modules, packages, databases, threads, objects, paths, tests and names, lists of any length and
any number of runs: `BundleRunsOnce`, `InstalledClosed`, `TransactionsAtomic`, `OwnersExact`, `AwaitedDataRead`,
`HooksBracketTests` and `PathsAgree`. A body begins only for a module that is `"new"`. That a body sees an
unfinished module only in a cycle rests on `OneStack`: as long as no `import()` ran, the modules that wait for
another one form one chain that ends at the active body. For the installer, `Covered` says that while a run goes
on, each name that the project or the readable package.json of an installed package asks for is installed, in
the work list, or the package in hand, also when the package was there before the run; the list is empty when
the lock file is written. Taking names out of the list (`NotInstalled`) keeps this by the lemmas of
`Subsequences_proofs`, which say what a filtered list contains. The assumptions are `EntryIsModule`,
`NotModules` and `BundleBounds`, `InstallBounds` and `NotLists`.

`TransactionsAtomic` is not inductive, since whether a row is kept is decided by the call that is in progress
when it is inserted. `ConnectionOK` relates the two: a connection in a transaction has exactly one call in
progress, whose rows are the pending ones; one that is open and in none has no call in progress, so that a row
inserted there belongs to none; one that was closed may still have a call, which can only fail. A failure that
ends a transaction marks its call as lost, so that it is in progress no more (`OverKeeps`). A row reads back by
`BoundReadsBack`, for every way to pass parameters, and `KeptReadsBack`, for every column. The assumption is
`InsertAssumption` (an insert has lists of parameters and of arguments, and a column for each parameter).

`OwnersExact` needs to know that nothing runs when the last reference is released. `StackSound` says why:
while the native stack is not empty the embedder has its `Context`, or the lowest script was run to read an
exception that is still there, because it is of the outermost scope and cannot be dropped or moved by those
above it. Counting is by the cardinality of the set of exceptions, each identified once (`CountsExact`). The
assumption is `ScriptNoFunction` (the mark of a script frame is no function object).

`AwaitedDataRead` follows from `OnItsWay`, which says of every operation that is alone which file it has open
and what is in it. That nobody else changes this file rests on four facts. A file has one path (`OneName`). The
inodes that are still to be created have no path and no handle (`Unmade`). An operation that changes files
knows the path of the file it has open, after a rename too (`HandlesFollowed`), which is inductive only because
operations that overlap share all their paths or none (`Groups`). And no operation under way changes a file of
which something is known (`KnownHolds`). The paths of an operation include everything below them, and for a
recursive `mkdir` everything above (`Under`, `Above`); the calls it unfolds into stay within (`Nested`,
`UnfoldedIs`), at any depth. The assumption is `FilesAssumption` (the paths are finite in number, each in
another or in `Top`, which is none of them; the marks of a directory and of nothing are no inodes).

`HooksBracketTests` looks back at everything that ran, so its invariant (`TestInductive`) says what the
variables of the runner remember of that. A hook is in lists of one kind only, each of which has it once
(`HooksApart`). Of the `beforeAll` hooks, those in `ranBeforeAll` ran, once, and no other did
(`BeforeAllsRan`), so that a body finds each of its own exactly once behind it. An `afterAll` hook of a test
that ran has run after it or waits under the test's path (`AfterAllsWait`), and a path under which hooks wait
is one the runner is in (`PathsOpen`): when the file is over it is in none, so only hooks of the top level can
still wait. `TodoIsRest` says that the tests still to run are the last of those that were registered, so that
none runs twice. What a body, a failure or the way to the next path appends to the log is a list flattened from
one list per block; which hooks are in it (`FlattenHas`) follows by induction over the blocks. The assumption
is `NoHookList` (`undefined` is no array).

`PathsAgree` is about what a loop over the segments of a path computes. Three facts carry it: one list of
segments behind another is one loop behind the other (`WalkOver`), a name is pushed and a `..` takes it back
(`WalkNames`, `WalkUp`), and what a relative path is reduced to, names with `..` in front of them (`Shape`),
leads from everywhere where the path leads (`WalkReduced`). All are proved by induction over the segments.
Then each of the four parts compares two walks. The assumptions are `SegmentAssumption` (`.` and `..` are no
names) and `CwdAssumption` (the working directory is an absolute path of names).

Induction over numbers and sequences (`AllNumbers`, `AllSequences` in `Subsequences_proofs`) is stated of the
set of those for which the claim holds, and rests on the fact that a set of numbers has a least one.

## Findings

* Tasks run on the wrong thread (`tasks_on_own_thread`). `async_rt.rs:3-8` describes one JavaScript thread
  draining the queue; with a worker, both drain it, and the closure that settles one thread's promise runs on
  the other with that thread's context.
* A worker's error is lost (`worker_error_lost`). The error is sent and `stopped` is set in two steps; if both
  fall between the pump and the reading of the worker flags, the main loop exits and `onerror` is never
  called, although `run_event_loop` is documented to run until nothing is in flight.
* CommonJS exports are lost (`commonjs_exports_lost`). `modules.rs:340` says that `module.exports = fn` can be
  picked up through the indirection object. That holds for the plain wrapper; a body whose prepared text contains
  `await ` anywhere is run by the async one (`modules.rs:354`), which does not replace the cache slot, and the
  next importer gets an empty object. The same happens to a `.json`, `.txt`, `.toml` or `.yaml` file with
  `await ` in its data.
* `finish` before the last write (`finish_before_write`). `_pump` emits `drain` before it looks at its own end
  (`stream.rs:273-274`). The source resumes inside that event, writes, and ends; `finish` is then emitted with
  that write still pending. `e2e.rs:1445-1446` waits for `finish` and expects every chunk in the sink.

## Plan

Done: the modules above and the proofs listed in their sections. Left, in this order:

1. Models of fake timers over the functions of `Timers`, `pipeline` and `Duplex` on `NodeStreams`, and the
   order of worker events when a handler blocks (a listed hazard).

## Not modelled

Text processing (transpiler, the emitted text of the rewriter, source maps, console formatting), what crosses
the borders to C libraries (the conversion of JavaScriptCore's values, ffi, crypto, zlib) and independent
synchronous helpers (most of the Bun API, url, querystring, util and the like, `process`, Headers, Blob,
FormData) have no interleaving and little state. The garbage collector is modelled by protect counts in
`Timers`, and by a callback that may have gone in `Readline`. Uncaught exceptions in timer callbacks are printed
and ignored by the code, so they are ordinary ends of a turn. Extra arguments of a timer, which `refresh()`
loses for the callback, are data the models do not carry. TLS, the text of HTTP and of WebSocket frames belong
to libraries; what can happen on the network is nondeterminism. In the resolver only the choice between paths is
modelled; the lookup itself is a library's. Directory listings, stat, links and permissions of files read or set
metadata only.
