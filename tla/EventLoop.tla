----------------------------- MODULE EventLoop ------------------------------
(***************************************************************************)
(* The event loops of the runtime and what they share.                     *)
(*                                                                         *)
(*   await_promise     crates/bun-runtime/src/modules.rs                   *)
(*   run_event_loop    crates/bun-runtime/src/timers.rs                    *)
(*   task queue        crates/bun-runtime/src/async_rt.rs                  *)
(*   workers           crates/bun-runtime/src/web/worker.rs                *)
(*                                                                         *)
(* Every JavaScript thread has a stack of loops.  The entry script is      *)
(* awaited by await_promise; then the main thread runs run_event_loop and  *)
(* a worker thread its own loop.  A loop that calls into JavaScript is     *)
(* busy with that turn (field js), and a turn that calls require() stacks  *)
(* another await_promise on top.  Each step below is what a thread does    *)
(* between two points where another thread can interfere.                  *)
(*                                                                         *)
(* The jobs are the asynchronous operations (fetch, fs promises, sockets)  *)
(* that run on tokio and post one task when they complete.  The sources    *)
(* are servers and readline interfaces: they keep the main loop alive and  *)
(* post a task per event without counting it as in flight.                 *)
(***************************************************************************)
EXTENDS Naturals, Sequences, FiniteSets

CONSTANTS
    Main,           \* the main JavaScript thread
    Worker,         \* the worker threads, named as their handles are
    Job, Timer,     \* asynchronous operations and one-shot timers
    Owner,          \* the thread whose script starts a job or a timer
    Source,         \* servers and readline interfaces of the main thread
    Readline,       \* those of them that every thread's loop sees
    MaxEvents,      \* bound: events per source
    MaxPosts,       \* bound: messages to each worker, and from each worker
    MaxDepth        \* bound: loops on one stack

Thread == {Main} \cup Worker

ASSUME ThreadAssumption == Main \notin Worker /\ Readline \subseteq Source
ASSUME JobAssumption ==
    IsFiniteSet(Job) /\ Owner \in [Job \cup Timer -> Thread]
ASSUME BoundsAssumption == MaxEvents \in Nat /\ MaxPosts \in Nat /\ MaxDepth \in Nat \ {0}

VARIABLES
    stack,          \* the loops of each thread, the innermost last
    outcome,        \* of the process: running, exited or failed
    queue,          \* the task queue all threads drain
    inflight,       \* IN_FLIGHT
    job,            \* the stage of each job
    timer,          \* the stage of each timer
    source,         \* whether each source is unopened, open or closed
    events,         \* events posted so far by each source
    spawned,        \* the workers started so far
    stopped,        \* WorkerHandle.stopped
    mailbox,        \* WorkerHandle.to_worker
    parent,         \* WorkerHandle.from_worker
    posts,          \* messages sent so far to and from each worker
    ran,            \* history: the thread that ran the task of each job
    late            \* history: messages a worker received after it was stopped

loopVars == <<stack, outcome>>
asyncVars == <<queue, inflight, job, ran>>
localVars == <<timer, source, events>>
workerVars == <<spawned, stopped, mailbox, parent, posts, late>>
vars == <<loopVars, asyncVars, localVars, workerVars>>

JobStage == {"idle", "running", "posted", "delivering", "settled"}
TimerStage == {"idle", "armed", "due", "done"}
Outcome == {"running", "exited", "failed"}
Task == [kind : {"none", "job", "event"}, of : Job \cup Source \cup {Main}]
NoTask == [kind |-> "none", of |-> Main]

(* A loop: which one, the point it is at, whether a script runs for it, the *)
(* work it found this time round, the promise await_promise waits for, the  *)
(* task being run, and the parent events it took out but has not delivered. *)
WorkerMsg == {"message", "terminate"}
ParentEvent == {"message", "error"}
Loop == {"await", "main", "worker"}
Point == {"check", "drain", "pump", "dispatch", "tick", "probe", "probeWorkers",
          "recv", "fail", "stop"}
Frame == [loop : Loop, at : Point, js : BOOLEAN, did : BOOLEAN,
          promise : {"pending", "resolved", "rejected"},
          task : Task, batch : [Worker -> Seq(ParentEvent)]]

EmptyBatch == [w \in Worker |-> <<>>]
NewLoop(loop, at) ==
    [loop |-> loop, at |-> at, js |-> FALSE, did |-> FALSE,
     promise |-> "pending", task |-> NoTask, batch |-> EmptyBatch]
EntryLoop == [NewLoop("await", "check") EXCEPT !.js = TRUE]

Outstanding == {j \in Job : job[j] \in {"running", "posted", "delivering"}}
Open == {s \in Source : source[s] = "open"}
Armed(t) == {x \in Timer : Owner[x] = t /\ timer[x] \in {"armed", "due"}}
ActiveAll == spawned                        \* mutant: terminate() does not count
Active == {w \in spawned : ~stopped[w]}

TypeOK ==
    /\ stack \in [Thread -> Seq(Frame)]
    /\ outcome \in Outcome
    /\ queue \in Seq(Task)
    /\ inflight \in Nat
    /\ job \in [Job -> JobStage]
    /\ timer \in [Timer -> TimerStage]
    /\ source \in [Source -> {"unopened", "open", "closed"}]
    /\ events \in [Source -> 0 .. MaxEvents]
    /\ spawned \subseteq Worker
    /\ stopped \in [Worker -> BOOLEAN]
    /\ mailbox \in [Worker -> Seq(WorkerMsg)]
    /\ parent \in [Worker -> Seq(ParentEvent)]
    /\ posts \in [Worker -> [to : 0 .. MaxPosts, from : 0 .. MaxPosts]]
    /\ ran \in [Job -> Thread]
    /\ late \in [Worker -> Nat]

(* The process starts by running the entry script's synchronous part.       *)
Init ==
    /\ stack = [t \in Thread |-> IF t = Main THEN <<EntryLoop>> ELSE <<>>]
    /\ outcome = "running"
    /\ queue = <<>>
    /\ inflight = 0
    /\ job = [j \in Job |-> "idle"]
    /\ timer = [x \in Timer |-> "idle"]
    /\ source = [s \in Source |-> "unopened"]
    /\ events = [s \in Source |-> 0]
    /\ spawned = {}
    /\ stopped = [w \in Worker |-> FALSE]
    /\ mailbox = [w \in Worker |-> <<>>]
    /\ parent = [w \in Worker |-> <<>>]
    /\ posts = [w \in Worker |-> [to |-> 0, from |-> 0]]
    /\ ran = [j \in Job |-> Owner[j]]
    /\ late = [w \in Worker |-> 0]

Alive(t) == outcome = "running" /\ stack[t] # <<>>
Depth(t) == Len(stack[t])
Top(t) == stack[t][Depth(t)]
InTurn(t) == Alive(t) /\ Top(t).js
At(t, point) == Alive(t) /\ ~Top(t).js /\ Top(t).at = point

(* The thread's innermost loop becomes f; it goes on at another point, or   *)
(* calls into JavaScript and goes on there once the turn is over.           *)
Become(t, f) == stack' = [stack EXCEPT ![t][Depth(t)] = f]
GoTo(t, point) == Become(t, [Top(t) EXCEPT !.at = point])
Call(t, point) == Become(t, [Top(t) EXCEPT !.at = point, !.js = TRUE, !.did = TRUE])

-----------------------------------------------------------------------------
(* What a script does in a turn on thread t                                 *)

(* note_started and spawn.                                                  *)
StartJob(t, j) ==
    /\ InTurn(t)
    /\ Owner[j] = t
    /\ job[j] = "idle"
    /\ job' = [job EXCEPT ![j] = "running"]
    /\ inflight' = inflight + 1
    /\ UNCHANGED <<loopVars, queue, ran, localVars, workerVars>>

SetTimer(t, x) ==
    /\ InTurn(t)
    /\ Owner[x] = t
    /\ timer[x] = "idle"
    /\ timer' = [timer EXCEPT ![x] = "armed"]
    /\ UNCHANGED <<loopVars, asyncVars, source, events, workerVars>>

ClearTimer(t, x) ==
    /\ InTurn(t)
    /\ x \in Armed(t)
    /\ timer' = [timer EXCEPT ![x] = "done"]
    /\ UNCHANGED <<loopVars, asyncVars, source, events, workerVars>>

(* Bun.serve or readline.createInterface; server.stop() or rl.close().      *)
OpenSource(s) ==
    /\ InTurn(Main)
    /\ source[s] = "unopened"
    /\ source' = [source EXCEPT ![s] = "open"]
    /\ UNCHANGED <<loopVars, asyncVars, timer, events, workerVars>>

CloseSource(s) ==
    /\ InTurn(Main)
    /\ source[s] = "open"
    /\ source' = [source EXCEPT ![s] = "closed"]
    /\ UNCHANGED <<loopVars, asyncVars, timer, events, workerVars>>

(* A promise that one of the thread's await_promise calls waits for.        *)
SettlePromise(t, k, r) ==
    /\ InTurn(t)
    /\ stack[t][k].loop = "await"
    /\ stack[t][k].promise = "pending"
    /\ stack' = [stack EXCEPT ![t][k].promise = r]
    /\ UNCHANGED <<outcome, asyncVars, localVars, workerVars>>

(* require() of a module whose body has not finished.                       *)
Block(t) ==
    /\ InTurn(t)
    /\ Depth(t) < MaxDepth
    /\ stack' = [stack EXCEPT ![t] = Append(@, NewLoop("await", "check"))]
    /\ UNCHANGED <<outcome, asyncVars, localVars, workerVars>>

(* The turn returns.  If it ran the task of a job, the task's last act is   *)
(* note_finished.                                                           *)
NoteFinished == inflight - 1

EndTurn(t) ==
    /\ InTurn(t)
    /\ Become(t, [Top(t) EXCEPT !.js = FALSE, !.task = NoTask])
    /\ IF Top(t).task.kind = "job"
       THEN /\ job' = [job EXCEPT ![Top(t).task.of] = "settled"]
            /\ inflight' = NoteFinished
       ELSE UNCHANGED <<job, inflight>>
    /\ UNCHANGED <<outcome, queue, ran, localVars, workerVars>>

(* new Worker(path)                                                         *)
Spawn(w) ==
    /\ InTurn(Main)
    /\ w \notin spawned
    /\ spawned' = spawned \cup {w}
    /\ stack' = [stack EXCEPT ![w] = <<EntryLoop>>]
    /\ UNCHANGED <<outcome, asyncVars, localVars, stopped, mailbox, parent, posts, late>>

PostToWorker(w) ==
    /\ InTurn(Main)
    /\ w \in spawned
    /\ posts[w].to < MaxPosts
    /\ posts' = [posts EXCEPT ![w].to = @ + 1]
    /\ mailbox' = [mailbox EXCEPT ![w] = Append(@, "message")]
    /\ UNCHANGED <<loopVars, asyncVars, localVars, spawned, stopped, parent, late>>

(* worker.terminate().  Bound: only of a worker that is not stopped.        *)
Terminate(w) ==
    /\ InTurn(Main)
    /\ w \in Active
    /\ stopped' = [stopped EXCEPT ![w] = TRUE]
    /\ mailbox' = [mailbox EXCEPT ![w] = Append(@, "terminate")]
    /\ UNCHANGED <<loopVars, asyncVars, localVars, spawned, parent, posts, late>>

(* postMessage() inside the worker.                                         *)
PostToParent(w) ==
    /\ InTurn(w)
    /\ posts[w].from < MaxPosts
    /\ posts' = [posts EXCEPT ![w].from = @ + 1]
    /\ parent' = [parent EXCEPT ![w] = Append(@, "message")]
    /\ UNCHANGED <<loopVars, asyncVars, localVars, spawned, stopped, mailbox, late>>

-----------------------------------------------------------------------------
(* drain_js_tasks: tasks are taken one at a time, each run with the queue   *)
(* unlocked, until none is left.                                            *)

RestKept == queue                           \* mutant: the task is only peeked at
Rest == Tail(queue)

TakeTask(t) ==
    LET task == Head(queue) IN
    /\ At(t, "drain")
    /\ queue # <<>>
    /\ queue' = Rest
    /\ Become(t, [Top(t) EXCEPT !.js = TRUE, !.did = TRUE, !.task = task])
    /\ IF task.kind = "job"
       THEN /\ job' = [job EXCEPT ![task.of] = "delivering"]
            /\ ran' = [ran EXCEPT ![task.of] = t]
       ELSE UNCHANGED <<job, ran>>
    /\ UNCHANGED <<outcome, inflight, localVars, workerVars>>

AfterDrain(f) ==
    CASE f.loop = "await" -> IF f.did THEN "check" ELSE "pump"
      [] f.loop = "main" -> "pump"
      [] f.loop = "worker" -> "tick"

Drained(t) ==
    /\ At(t, "drain")
    /\ queue = <<>>
    /\ GoTo(t, AfterDrain(Top(t)))
    /\ UNCHANGED <<outcome, asyncVars, localVars, workerVars>>

(* pump_parent_events: the events of all workers are taken out under the    *)
(* lock, then delivered; the order of the workers is that of a hash map.    *)
Pump(t) ==
    /\ At(t, "pump")
    /\ Become(t, [Top(t) EXCEPT !.at = "dispatch", !.batch = parent,
                                !.did = @ \/ parent # EmptyBatch])
    /\ parent' = EmptyBatch
    /\ UNCHANGED <<outcome, asyncVars, localVars, spawned, stopped, mailbox, posts, late>>

Deliver(t, w) ==
    /\ At(t, "dispatch")
    /\ Top(t).batch[w] # <<>>
    /\ Become(t, [Top(t) EXCEPT !.js = TRUE, !.batch[w] = Tail(@)])
    /\ UNCHANGED <<outcome, asyncVars, localVars, workerVars>>

AfterPump(f) ==
    IF f.loop = "main" THEN "probe" ELSE IF f.did THEN "check" ELSE "tick"

Pumped(t) ==
    /\ At(t, "dispatch")
    /\ Top(t).batch = EmptyBatch
    /\ GoTo(t, AfterPump(Top(t)))
    /\ UNCHANGED <<outcome, asyncVars, localVars, workerVars>>

(* run_one_tick: one due timer fires, if there is one.  In run_event_loop   *)
(* the tick begins the iteration, which has found no work yet.              *)
AfterTick(f) == IF f.loop = "main" THEN "drain" ELSE "check"
AfterIdleTickSkip(f) ==                     \* mutant: an idle tick skips the queue
    IF f.loop = "await" THEN "probe" ELSE IF f.loop = "main" THEN "pump" ELSE "check"
AfterIdleTick(f) == IF f.loop = "await" THEN "probe" ELSE AfterTick(f)

Fire(t, x) ==
    /\ At(t, "tick")
    /\ Owner[x] = t
    /\ timer[x] = "due"
    /\ timer' = [timer EXCEPT ![x] = "done"]
    /\ Call(t, AfterTick(Top(t)))
    /\ UNCHANGED <<outcome, asyncVars, source, events, workerVars>>

FoundSticky(t) == Top(t).did                \* mutant: the flags survive the iteration
Found(t) == FALSE

IdleTick(t) ==
    /\ At(t, "tick")
    /\ \A x \in Armed(t) : timer[x] # "due"
    /\ Become(t, [Top(t) EXCEPT !.at = AfterIdleTick(Top(t)), !.did = Found(t)])
    /\ UNCHANGED <<outcome, asyncVars, localVars, workerVars>>

-----------------------------------------------------------------------------
(* await_promise                                                            *)

Check(t) ==
    /\ At(t, "check")
    /\ Top(t).loop = "await"
    /\ Top(t).promise = "pending"
    /\ Become(t, [Top(t) EXCEPT !.at = "drain", !.did = FALSE])
    /\ UNCHANGED <<outcome, asyncVars, localVars, workerVars>>

(* await_promise returns: to the turn that called require(), or, for the    *)
(* entry script, to the CLI or to run_worker_thread.                        *)
Return(t, ok) ==
    \/ /\ Depth(t) > 1
       /\ stack' = [stack EXCEPT ![t] = SubSeq(@, 1, Len(@) - 1)]
       /\ UNCHANGED outcome
    \/ /\ Depth(t) = 1 /\ t = Main /\ ok
       /\ stack' = [stack EXCEPT ![t] = <<NewLoop("main", "tick")>>]
       /\ UNCHANGED outcome
    \/ /\ Depth(t) = 1 /\ t = Main /\ ~ok
       /\ outcome' = "failed"
       /\ UNCHANGED stack
    \/ /\ Depth(t) = 1 /\ t # Main
       /\ stack' = [stack EXCEPT ![t] =
                       <<NewLoop("worker", IF ok THEN "check" ELSE "fail")>>]
       /\ UNCHANGED outcome

PromiseSettled(t) ==
    /\ At(t, "check")
    /\ Top(t).loop = "await"
    /\ Top(t).promise # "pending"
    /\ Return(t, Top(t).promise = "resolved")
    /\ UNCHANGED <<asyncVars, localVars, workerVars>>

(* Is anything left to wait for?  The flags are read one after the other;   *)
(* the workers' under their lock, after the others.                         *)
KeepsNothing(t) == {}                       \* mutant: the sources are not asked
Keeps(t) == IF t = Main THEN Open ELSE Open \cap Readline
BusySources(t) == Keeps(t) # {}             \* mutant: the gauge is not asked
Busy(t) == inflight > 0 \/ Keeps(t) # {}

Probe(t) ==
    /\ At(t, "probe")
    /\ IF Top(t).loop = "main" /\ Top(t).did
       THEN GoTo(t, "tick")
       ELSE Become(t, [Top(t) EXCEPT !.at = "probeWorkers", !.did = Busy(t)])
    /\ UNCHANGED <<outcome, asyncVars, localVars, workerVars>>

WaitingNoWorkers(t) == Top(t).did \/ Armed(t) # {}          \* mutant
Waiting(t) == Top(t).did \/ Active # {} \/ Armed(t) # {}

(* The loop sleeps and goes round again.                                    *)
Nap(t) ==
    /\ At(t, "probeWorkers")
    /\ Waiting(t)
    /\ GoTo(t, IF Top(t).loop = "main" THEN "tick" ELSE "check")
    /\ UNCHANGED <<outcome, asyncVars, localVars, workerVars>>

(* "event loop deadlocked: promise pending with no work to do"              *)
Deadlocked(t) ==
    /\ At(t, "probeWorkers")
    /\ Top(t).loop = "await"
    /\ ~Waiting(t)
    /\ Return(t, FALSE)
    /\ UNCHANGED <<asyncVars, localVars, workerVars>>

(* run_event_loop returns, and the process exits.                           *)
Exit ==
    /\ At(Main, "probeWorkers")
    /\ Top(Main).loop = "main"
    /\ ~Waiting(Main)
    /\ outcome' = "exited"
    /\ UNCHANGED <<stack, asyncVars, localVars, workerVars>>

-----------------------------------------------------------------------------
(* run_worker_thread                                                        *)

ThreadEnds(w) == stack' = [stack EXCEPT ![w] = <<>>]

MustStopNever(w) == FALSE                   \* mutant: only the Terminate message stops
MustStop(w) == stopped[w]

CheckStopped(w) ==
    /\ At(w, "check")
    /\ Top(w).loop = "worker"
    /\ IF MustStop(w) THEN ThreadEnds(w) ELSE GoTo(w, "recv")
    /\ UNCHANGED <<outcome, asyncVars, localVars, workerVars>>

Receive(w) ==
    /\ At(w, "recv")
    /\ mailbox[w] # <<>>
    /\ mailbox' = [mailbox EXCEPT ![w] = Tail(@)]
    /\ IF Head(mailbox[w]) = "message"
       THEN /\ Call(w, "drain")
            /\ late' = [late EXCEPT ![w] = IF stopped[w] THEN @ + 1 ELSE @]
       ELSE ThreadEnds(w) /\ UNCHANGED late
    /\ UNCHANGED <<outcome, asyncVars, localVars, spawned, stopped, parent, posts>>

NoMessage(w) ==
    /\ At(w, "recv")
    /\ mailbox[w] = <<>>
    /\ GoTo(w, "drain")
    /\ UNCHANGED <<outcome, asyncVars, localVars, workerVars>>

(* The entry script failed: report it, then count as stopped.               *)
SendError(w) ==
    /\ At(w, "fail")
    /\ parent' = [parent EXCEPT ![w] = Append(@, "error")]
    /\ GoTo(w, "stop")
    /\ UNCHANGED <<outcome, asyncVars, localVars, spawned, stopped, mailbox, posts, late>>

StopFailed(w) ==
    /\ At(w, "stop")
    /\ stopped' = [stopped EXCEPT ![w] = TRUE]
    /\ ThreadEnds(w)
    /\ UNCHANGED <<outcome, asyncVars, localVars, spawned, mailbox, parent, posts, late>>

-----------------------------------------------------------------------------
(* The tokio runtime, the clock, and the outside world                      *)

(* The operation ends and posts its task; the gauge stays up.               *)
GaugeAtPostEarly == inflight - 1            \* mutant: note_finished on tokio as well
GaugeAtPost == inflight

Complete(j) ==
    /\ outcome = "running"
    /\ job[j] = "running"
    /\ job' = [job EXCEPT ![j] = "posted"]
    /\ queue' = Append(queue, [kind |-> "job", of |-> j])
    /\ inflight' = GaugeAtPost
    /\ UNCHANGED <<loopVars, ran, localVars, workerVars>>

FallDue(x) ==
    /\ outcome = "running"
    /\ timer[x] = "armed"
    /\ timer' = [timer EXCEPT ![x] = "due"]
    /\ UNCHANGED <<loopVars, asyncVars, source, events, workerVars>>

(* A request or a line arrives.  It still can after the source was closed:  *)
(* on a connection that was accepted before, or in a broadcast that had     *)
(* already listed the listeners.                                            *)
Arrive(s) ==
    /\ outcome = "running"
    /\ source[s] \in {"open", "closed"}
    /\ events[s] < MaxEvents
    /\ events' = [events EXCEPT ![s] = @ + 1]
    /\ queue' = Append(queue, [kind |-> "event", of |-> s])
    /\ UNCHANGED <<loopVars, inflight, job, ran, timer, source, workerVars>>

-----------------------------------------------------------------------------

Script(t) ==
    \/ \E j \in Job : StartJob(t, j)
    \/ \E x \in Timer : SetTimer(t, x) \/ ClearTimer(t, x)
    \/ \E k \in 1 .. Depth(t), r \in {"resolved", "rejected"} : SettlePromise(t, k, r)
    \/ Block(t)

MainScript ==
    \/ \E s \in Source : OpenSource(s) \/ CloseSource(s)
    \/ \E w \in Worker : Spawn(w) \/ PostToWorker(w) \/ Terminate(w)

LoopStep(t) ==
    \/ TakeTask(t) \/ Drained(t)
    \/ Pump(t) \/ (\E w \in Worker : Deliver(t, w)) \/ Pumped(t)
    \/ (\E x \in Timer : Fire(t, x)) \/ IdleTick(t)
    \/ Check(t) \/ PromiseSettled(t)
    \/ Probe(t) \/ Nap(t) \/ Deadlocked(t)

WorkerStep(w) ==
    CheckStopped(w) \/ Receive(w) \/ NoMessage(w) \/ SendError(w) \/ StopFailed(w)

World ==
    \/ \E j \in Job : Complete(j)
    \/ \E x \in Timer : FallDue(x)
    \/ \E s \in Source : Arrive(s)

(* The process is gone.                                                     *)
Gone == outcome # "running" /\ UNCHANGED vars

Next ==
    \/ \E t \in Thread : Script(t) \/ EndTurn(t) \/ LoopStep(t)
    \/ MainScript
    \/ \E w \in Worker : PostToParent(w) \/ WorkerStep(w)
    \/ Exit
    \/ World
    \/ Gone

Spec == Init /\ [][Next]_vars

(* Fairness.  Threads are scheduled; a turn that is not blocked returns, at *)
(* every depth; operations complete and time passes.  Nothing is assumed of *)
(* the promises scripts wait for, nor of what arrives from outside.         *)
Fairness ==
    /\ \A t \in Thread : WF_vars(LoopStep(t))
    /\ \A t \in Thread, d \in 1 .. MaxDepth : SF_vars(Depth(t) = d /\ EndTurn(t))
    /\ \A w \in Worker : WF_vars(WorkerStep(w))
    /\ WF_vars(Exit)
    /\ \A j \in Job : WF_vars(Complete(j))
    /\ \A x \in Timer : WF_vars(FallDue(x))

FairSpec == Spec /\ Fairness

-----------------------------------------------------------------------------
(* Properties                                                               *)

(* A completed operation reaches JavaScript exactly once: its task is in    *)
(* the queue once until a thread takes it, and one turn runs it.            *)
TaskOf(j) == [kind |-> "job", of |-> j]
Queued(j) == {i \in 1 .. Len(queue) : queue[i] = TaskOf(j)}
Turns(j) == {c \in Thread \X (1 .. MaxDepth) :
                c[2] <= Depth(c[1]) /\ stack[c[1]][c[2]].task = TaskOf(j)}
DeliveredOnce ==
    \A j \in Job :
        /\ IF job[j] = "posted" THEN \E i \in Queued(j) : Queued(j) = {i}
                                ELSE Queued(j) = {}
        /\ IF job[j] = "delivering" THEN \E c \in Turns(j) : Turns(j) = {c}
                                    ELSE Turns(j) = {}

(* What a thread has started and not seen the end of.                       *)
Pending(t) == {j \in Outstanding : Owner[j] = t} \cup Armed(t)

(* A loop that found its flags down has nothing of its own left: no         *)
(* operation can have been started, and no source opened, since it looked.  *)
(* Exiting and reporting a deadlock rest on this.  (A worker also looks at  *)
(* the readline interfaces of the main thread: those may open since.)       *)
IdleIsFresh ==
    \A t \in Thread :
        At(t, "probeWorkers") /\ ~Waiting(t) =>
            Pending(t) = {} /\ (t = Main => Open = {})

(* The process exits normally only when the entry script is through, every  *)
(* operation and timer of the main thread has been delivered, every server  *)
(* is stopped and every worker has stopped.                                 *)
ExitClean ==
    outcome = "exited" => Pending(Main) = {} /\ Open = {} /\ Active = {}

(* An event of an open source is never dropped by the exit.                 *)
OpenEventsServed ==
    outcome = "exited" =>
        \A i \in 1 .. Len(queue) : queue[i].kind = "event" => source[queue[i].of] = "closed"

(* Once a worker is stopped it receives at most the one message it was      *)
(* about to take, however many are in its mailbox.                          *)
AtMostOneLate == \A w \in Worker : late[w] <= 1

(* Every operation that is started is delivered to a script, unless the     *)
(* process ends first: nested loops and busy sources do not starve it.      *)
JobsDelivered ==
    \A j \in Job : job[j] \in {"running", "posted"} ~>
        job[j] \in {"delivering", "settled"} \/ outcome # "running"

(* The main loop ends once nothing can happen any more.                     *)
Quiet ==
    /\ Depth(Main) = 1 /\ Top(Main).loop = "main" /\ ~Top(Main).js
    /\ Outstanding = {} /\ queue = <<>> /\ Armed(Main) = {} /\ Open = {}
    /\ \A s \in Source : events[s] = MaxEvents \/ source[s] = "unopened"
    /\ Active = {} /\ parent = EmptyBatch /\ Top(Main).batch = EmptyBatch
    /\ \A w \in Worker : stack[w] = <<>>
ProcessEnds == Quiet ~> outcome # "running"

(* Something await_promise counts as work holds up a thread that waits for  *)
(* a promise: an operation of any thread, an interface that reads the       *)
(* standard input, a worker that is not stopped, a timer of its own.        *)
HeldUp(t) ==
    /\ \E k \in 1 .. Depth(t) : stack[t][k].loop = "await" /\ stack[t][k].promise = "pending"
    /\ inflight > 0 \/ Open \cap Readline # {} \/ (\E w \in spawned : ~stopped[w]) \/ Armed(t) # {}

(* A worker that is terminated leaves its thread, although its script waits *)
(* for a promise that nothing will settle, unless something else in the     *)
(* process holds it up time and again: once that is over, await_promise     *)
(* gives up.                                                                *)
TerminatedStop ==
    \A w \in Worker : (w \in spawned /\ stopped[w] /\ []~HeldUp(w)) ~>
        (stack[w] = <<>> \/ outcome # "running")

OpOf(j) == CASE job[j] = "idle" -> "idle"
             [] j \in Outstanding -> "pending"
             [] OTHER -> "settled"

Process == INSTANCE AsyncProcess WITH
    Op <- Job,
    MainOp <- {j \in Job : Owner[j] = Main},
    op <- [j \in Job |-> OpOf(j)],
    process <- outcome

(* The loops and the task queue implement the asynchronous process.         *)
ImplementsProcess == Process!ProcessSpec

-----------------------------------------------------------------------------
(* Claims of the sources that the code does not keep                        *)

(* "the task posts a closure ... whose receiver the JS thread drains"       *)
(* (async_rt.rs): the task of an operation runs on the thread that owns its *)
(* promise.                                                                 *)
TasksRunAtHome == \A j \in Job : ran[j] = Owner[j]

(* The main loop runs "until nothing is in flight" (timers.rs): the error   *)
(* of a worker is not still undelivered when the process exits.             *)
ErrorsDelivered ==
    outcome = "exited" =>
        \A w \in Worker : \A i \in 1 .. Len(parent[w]) : parent[w][i] # "error"
=============================================================================
