-------------------------- MODULE EventLoop_proofs --------------------------
(***************************************************************************)
(* The safety properties of EventLoop and its refinement of AsyncProcess,  *)
(* for any number of workers, operations, timers and sources, and loops    *)
(* nested to any depth.                                                    *)
(*                                                                         *)
(* None of the properties is inductive.  That an operation is delivered    *)
(* once, and that the gauge can be trusted, rests on a frame that holds a  *)
(* task being busy with it (Tower): then no loop of the thread takes a     *)
(* second task over it.  That a loop which found nothing is right rests on *)
(* Probed: from the reading of its flags on, no script of its thread runs. *)
(***************************************************************************)
EXTENDS EventLoop, FiniteSetTheorems, TLAPS

(* The points each loop has.                                                *)
PointOf(loop) ==
    CASE loop = "await" -> {"check", "drain", "pump", "dispatch", "tick", "probe", "probeWorkers"}
      [] loop = "main" -> {"tick", "drain", "pump", "dispatch", "probe", "probeWorkers"}
      [] loop = "worker" -> {"check", "recv", "drain", "tick", "fail", "stop"}

(* f can be the k-th loop of thread t: only await_promise nests, a loop     *)
(* that is not busy holds no task, and one that asks for work is not busy.  *)
GoodFrame(t, k, f) ==
    /\ f.loop = "main" => t = Main
    /\ f.loop = "worker" => t # Main
    /\ k > 1 => f.loop = "await"
    /\ f.at \in PointOf(f.loop)
    /\ ~f.js => f.task = NoTask
    /\ f.js => f.at # "probeWorkers"
    /\ f.task.kind = "job" => f.task.of \in Job

(* s can be the stack of thread t: all loops but the innermost are busy.    *)
Tower(t, s) ==
    /\ s \in Seq(Frame)
    /\ Len(s) <= MaxDepth
    /\ \A k \in 1 .. Len(s) : GoodFrame(t, k, s[k]) /\ (k < Len(s) => s[k].js)

Shape ==
    /\ \A t \in Thread : Tower(t, stack[t])
    /\ \A w \in Worker \ spawned : stack[w] = <<>>

(* The k-th loop of the stack s runs the task of j.                         *)
Runs(s, k, j) == k \in 1 .. Len(s) /\ s[k].task = TaskOf(j)

RunOnce ==
    \A j \in Job :
        /\ job[j] = "delivering" <=> \E t \in Thread, k \in 1 .. MaxDepth : Runs(stack[t], k, j)
        /\ \A t, u \in Thread : \A k, m \in 1 .. MaxDepth :
              Runs(stack[t], k, j) /\ Runs(stack[u], m, j) => t = u /\ k = m

PostedOnce ==
    \A j \in Job :
        /\ job[j] = "posted" <=> \E i \in 1 .. Len(queue) : queue[i] = TaskOf(j)
        /\ \A i, m \in 1 .. Len(queue) : queue[i] = TaskOf(j) /\ queue[m] = TaskOf(j) => i = m

(* What a task of the queue is about.                                       *)
Carried ==
    \A i \in 1 .. Len(queue) :
        /\ queue[i].kind = "job" => queue[i].of \in Job
        /\ queue[i].kind = "event" => queue[i].of \in Source /\ source[queue[i].of] # "unopened"

(* The gauge counts the operations that have not been delivered.            *)
InFlightExact == inflight = Cardinality(Outstanding)

Probed ==
    \A t \in Thread : At(t, "probeWorkers") /\ ~Top(t).did =>
        /\ \A j \in Outstanding : Owner[j] # t
        /\ t = Main => Open = {}

(* A stopped worker that has received a message is past its last recv.      *)
LateOnce ==
    \A w \in Worker : late[w] > 0 =>
        /\ late[w] = 1 /\ stopped[w] /\ w \in spawned
        /\ stack[w] # <<>> => stack[w][1].at # "recv"

EndsClean == ExitClean /\ OpenEventsServed

-----------------------------------------------------------------------------
(* Stacks.                                                                  *)

LEMMA NewLoopIsFrame ==
    ASSUME NEW loop \in Loop, NEW at \in Point
    PROVE  /\ NewLoop(loop, at) \in Frame
           /\ NewLoop(loop, at).task = NoTask /\ ~NewLoop(loop, at).js
           /\ NewLoop(loop, at).loop = loop /\ NewLoop(loop, at).at = at
  <1>1. EmptyBatch \in [Worker -> Seq(ParentEvent)]
    BY DEF EmptyBatch
  <1>2. NoTask \in Task
    BY DEF NoTask, Task
  <1> QED
    BY <1>1, <1>2 DEF NewLoop, Frame

LEMMA EntryLoopIsFrame ==
    /\ EntryLoop \in Frame
    /\ EntryLoop.task = NoTask /\ EntryLoop.js
    /\ EntryLoop.loop = "await" /\ EntryLoop.at = "check"
  <1>1. EmptyBatch \in [Worker -> Seq(ParentEvent)]
    BY DEF EmptyBatch
  <1>2. NoTask \in Task
    BY DEF NoTask, Task
  <1> QED
    BY <1>1, <1>2 DEF EntryLoop, NewLoop, Frame, Loop, Point

LEMMA TopIsGood ==
    ASSUME Shape, NEW t \in Thread, stack[t] # <<>>
    PROVE  /\ stack[t] \in Seq(Frame)
           /\ Depth(t) \in 1 .. MaxDepth /\ Depth(t) = Len(stack[t])
           /\ Top(t) \in Frame /\ Top(t) = stack[t][Depth(t)]
           /\ GoodFrame(t, Depth(t), Top(t))
  <1>1. stack[t] \in Seq(Frame) /\ Len(stack[t]) <= MaxDepth
    BY DEF Shape, Tower
  <1>2. Len(stack[t]) \in Nat /\ Len(stack[t]) # 0
    BY <1>1
  <1>3. Len(stack[t]) \in 1 .. Len(stack[t])
    BY <1>2
  <1>4. stack[t][Len(stack[t])] \in Frame
    BY <1>1, <1>3
  <1> QED
    BY <1>1, <1>2, <1>3, <1>4, BoundsAssumption DEF Shape, Tower, Depth, Top

(* A job's task names the job.                                              *)
LEMMA TasksNameJobs ==
    /\ \A i, j \in Job : TaskOf(i) = TaskOf(j) => i = j
    /\ \A j \in Job : TaskOf(j) # NoTask /\ TaskOf(j) \in Task
    /\ \A x \in Task : x.kind = "job" => x = TaskOf(x.of)
  BY DEF TaskOf, NoTask, Task

-----------------------------------------------------------------------------
(* The stack of one thread changes to s, which runs the same tasks.         *)
SameRuns(s, r) == \A k \in 1 .. MaxDepth : \A j \in Job : Runs(s, k, j) <=> Runs(r, k, j)

LEMMA StackTyped ==
    ASSUME TypeOK, NEW t \in Thread, NEW s \in Seq(Frame), stack' = [stack EXCEPT ![t] = s]
    PROVE  /\ stack' \in [Thread -> Seq(Frame)]
           /\ stack'[t] = s
           /\ \A u \in Thread : u # t => stack'[u] = stack[u]
  BY DEF TypeOK

LEMMA StackKeepsShape ==
    ASSUME TypeOK, Shape, RunOnce, NEW t \in Thread, NEW s, Tower(t, s),
           stack' = [stack EXCEPT ![t] = s], SameRuns(s, stack[t]),
           spawned \subseteq spawned', t \in Worker => t \in spawned', job' = job
    PROVE  Shape' /\ RunOnce' /\ stack' \in [Thread -> Seq(Frame)]
  <1>1. s \in Seq(Frame)
    BY DEF Tower
  <1>2. /\ stack' \in [Thread -> Seq(Frame)]
        /\ stack'[t] = s
        /\ \A u \in Thread : u # t => stack'[u] = stack[u]
    BY <1>1, StackTyped
  <1>3. Shape'
    <2>1. \A u \in Thread : Tower(u, stack'[u])
      BY <1>2 DEF Shape
    <2>2. \A w \in Worker \ spawned' : stack'[w] = <<>>
      BY <1>2 DEF Shape, Thread
    <2> QED
      BY <2>1, <2>2 DEF Shape, Tower, GoodFrame
  <1>4. RunOnce'
    <2>1. \A u \in Thread : \A k \in 1 .. MaxDepth : \A j \in Job :
             Runs(stack'[u], k, j) <=> Runs(stack[u], k, j)
      BY <1>2 DEF SameRuns
    <2> QED
      BY <2>1 DEF RunOnce
  <1> QED
    BY <1>2, <1>3, <1>4

LEMMA FrameReplaced ==
    ASSUME Shape, NEW t \in Thread, NEW k \in 1 .. Len(stack[t]), NEW f \in Frame,
           GoodFrame(t, k, f), k < Len(stack[t]) => f.js
    PROVE  LET s == [stack[t] EXCEPT ![k] = f]
           IN  /\ Tower(t, s) /\ Len(s) = Len(stack[t]) /\ s[k] = f
               /\ \A m \in 1 .. Len(s) : m # k => s[m] = stack[t][m]
  <1> DEFINE s == [stack[t] EXCEPT ![k] = f]
  <1>1. Tower(t, stack[t])
    BY DEF Shape
  <1>2. /\ s \in Seq(Frame) /\ Len(s) = Len(stack[t]) /\ s[k] = f
        /\ \A m \in 1 .. Len(s) : m # k => s[m] = stack[t][m]
    BY <1>1 DEF Tower
  <1> QED
    BY <1>1, <1>2 DEF Tower

LEMMA FrameKeepsTask ==
    ASSUME NEW r, NEW s, NEW k \in 1 .. Len(r), Len(s) = Len(r), s[k].task = r[k].task,
           \A m \in 1 .. Len(s) : m # k => s[m] = r[m]
    PROVE  SameRuns(s, r)
  BY DEF SameRuns, Runs

LEMMA LoopPushed ==
    ASSUME Shape, NEW t \in Thread, InTurn(t), Depth(t) < MaxDepth
    PROVE  LET s == Append(stack[t], NewLoop("await", "check"))
           IN  /\ Tower(t, s) /\ SameRuns(s, stack[t])
               /\ Len(s) = Len(stack[t]) + 1 /\ s[Len(s)].at = "check"
               /\ s[1] = stack[t][1]
  <1> DEFINE s == Append(stack[t], NewLoop("await", "check"))
  <1>1. Tower(t, stack[t])
    BY DEF Shape
  <1>2. /\ NewLoop("await", "check") \in Frame
        /\ NewLoop("await", "check").task = NoTask /\ ~NewLoop("await", "check").js
        /\ NewLoop("await", "check").loop = "await" /\ NewLoop("await", "check").at = "check"
    BY NewLoopIsFrame DEF Loop, Point
  <1>3. /\ stack[t] # <<>> /\ stack[t][Len(stack[t])].js /\ Len(stack[t]) < MaxDepth
        /\ Len(stack[t]) \in Nat \ {0}
    BY <1>1 DEF InTurn, Alive, Top, Depth, Tower
  <1>4. /\ s \in Seq(Frame) /\ Len(s) = Len(stack[t]) + 1
        /\ s[Len(s)] = NewLoop("await", "check")
        /\ \A m \in 1 .. Len(stack[t]) : s[m] = stack[t][m]
    BY <1>1, <1>2 DEF Tower
  <1>5. GoodFrame(t, Len(s), s[Len(s)])
    BY <1>2, <1>4 DEF GoodFrame, PointOf, NoTask
  <1>6. \A m \in 1 .. Len(s) : GoodFrame(t, m, s[m]) /\ (m < Len(s) => s[m].js)
    <2> SUFFICES ASSUME NEW m \in 1 .. Len(s)
                 PROVE  GoodFrame(t, m, s[m]) /\ (m < Len(s) => s[m].js)
      OBVIOUS
    <2>1. CASE m = Len(s)
      BY <2>1, <1>5
    <2>2. CASE m # Len(s)
      <3>1. m \in 1 .. Len(stack[t])
        BY <2>2, <1>3, <1>4
      <3> QED
        BY <3>1, <1>1, <1>3, <1>4 DEF Tower
    <2> QED
      BY <2>1, <2>2
  <1>7. Tower(t, s)
    BY <1>3, <1>4, <1>6, BoundsAssumption DEF Tower
  <1>8. SameRuns(s, stack[t])
    <2> SUFFICES ASSUME NEW k \in 1 .. MaxDepth, NEW j \in Job
                 PROVE  Runs(s, k, j) <=> Runs(stack[t], k, j)
      BY DEF SameRuns
    <2>1. s[Len(s)].task # TaskOf(j)
      BY <1>2, <1>4, TasksNameJobs
    <2> QED
      BY <2>1, <1>3, <1>4 DEF Runs
  <1> QED
    BY <1>2, <1>3, <1>4, <1>7, <1>8

LEMMA LoopPopped ==
    ASSUME Shape, NEW t \in Thread, stack[t] # <<>>, ~Top(t).js, Depth(t) > 1
    PROVE  LET s == SubSeq(stack[t], 1, Len(stack[t]) - 1)
           IN  /\ Tower(t, s) /\ SameRuns(s, stack[t])
               /\ s # <<>> /\ s[Len(s)].js /\ s[1] = stack[t][1]
  <1> DEFINE s == SubSeq(stack[t], 1, Len(stack[t]) - 1)
  <1>1. Tower(t, stack[t])
    BY DEF Shape
  <1>2. Len(stack[t]) \in Nat /\ Len(stack[t]) > 1
    BY <1>1 DEF Tower, Depth
  <1>3. /\ s \in Seq(Frame) /\ Len(s) = Len(stack[t]) - 1
        /\ \A m \in 1 .. Len(s) : s[m] = stack[t][m]
    BY <1>1, <1>2 DEF Tower
  <1> HIDE DEF s
  <1>4. ASSUME NEW m \in 1 .. Len(s) PROVE GoodFrame(t, m, s[m]) /\ s[m].js
    <2>1. m \in 1 .. Len(stack[t]) /\ m < Len(stack[t])
      BY <1>2, <1>3
    <2>2. GoodFrame(t, m, stack[t][m]) /\ stack[t][m].js
      BY <1>1, <2>1 DEF Tower
    <2> QED
      BY <1>3, <2>2
  <1>5. Tower(t, s)
    BY <1>1, <1>2, <1>3, <1>4, BoundsAssumption DEF Tower
  <1>6. SameRuns(s, stack[t])
    <2> SUFFICES ASSUME NEW k \in 1 .. MaxDepth, NEW j \in Job
                 PROVE  Runs(s, k, j) <=> Runs(stack[t], k, j)
      BY DEF SameRuns
    <2>1. stack[t][Len(stack[t])].task # TaskOf(j)
      BY TopIsGood, TasksNameJobs DEF GoodFrame
    <2> QED
      BY <2>1, <1>2, <1>3 DEF Runs
  <1> QED
    BY <1>2, <1>3, <1>4, <1>5, <1>6 DEF s

(* The thread has no loop, or one that is not busy, and gets another.       *)
Idle(t) == stack[t] # <<>> => Depth(t) = 1 /\ ~Top(t).js

LEMMA IdleRunsNothing ==
    ASSUME Shape, NEW t \in Thread, Idle(t), NEW j \in Job, NEW k \in 1 .. MaxDepth
    PROVE  ~Runs(stack[t], k, j)
  <1>1. CASE stack[t] = <<>>
    BY <1>1 DEF Runs
  <1>2. CASE stack[t] # <<>>
    <2>1. /\ Len(stack[t]) = 1 /\ stack[t][1].task = NoTask
      BY <1>2, TopIsGood DEF GoodFrame, Idle
    <2> QED
      BY <2>1, TasksNameJobs DEF Runs
  <1> QED
    BY <1>1, <1>2

LEMMA LoopReplaced ==
    ASSUME Shape, NEW t \in Thread, Idle(t), NEW f \in Frame, GoodFrame(t, 1, f), f.task = NoTask
    PROVE  Tower(t, <<f>>) /\ SameRuns(<<f>>, stack[t])
  <1>1. Tower(t, <<f>>)
    BY BoundsAssumption DEF Tower
  <1>2. \A j \in Job, k \in 1 .. MaxDepth : ~Runs(<<f>>, k, j)
    BY TasksNameJobs DEF Runs
  <1> QED
    BY <1>1, <1>2, IdleRunsNothing DEF SameRuns

LEMMA LoopGone ==
    ASSUME Shape, NEW t \in Thread, Idle(t)
    PROVE  Tower(t, <<>>) /\ SameRuns(<<>>, stack[t])
  <1>1. Tower(t, <<>>)
    BY BoundsAssumption DEF Tower
  <1>2. \A j \in Job, k \in 1 .. MaxDepth : ~Runs(<<>>, k, j)
    BY DEF Runs
  <1> QED
    BY <1>1, <1>2, IdleRunsNothing DEF SameRuns

-----------------------------------------------------------------------------
(* What the change of one stack does to Probed and to LateOnce.             *)
LEMMA StackKeepsProbed ==
    ASSUME TypeOK, Probed, outcome = "running", NEW t \in Thread, NEW s \in Seq(Frame),
           stack' = [stack EXCEPT ![t] = s],
           s = <<>> \/ s[Len(s)].js \/ s[Len(s)].at # "probeWorkers",
           Outstanding' \subseteq Outstanding, Open' \subseteq Open
    PROVE  Probed'
  <1>1. stack'[t] = s /\ \A u \in Thread : u # t => stack'[u] = stack[u]
    BY StackTyped
  <1> SUFFICES ASSUME NEW u \in Thread, At(u, "probeWorkers")', ~Top(u).did'
               PROVE  /\ \A j \in Outstanding' : Owner[j] # u
                      /\ u = Main => Open' = {}
    BY DEF Probed
  <1>2. u # t
    BY <1>1 DEF At, Alive, Top, Depth
  <1>3. At(u, "probeWorkers") /\ ~Top(u).did
    BY <1>1, <1>2 DEF At, Alive, Top, Depth
  <1> QED
    BY <1>3 DEF Probed

LEMMA StackKeepsLate ==
    ASSUME TypeOK, LateOnce, NEW t \in Thread, NEW s \in Seq(Frame),
           stack' = [stack EXCEPT ![t] = s],
           s = <<>> \/ s[1].at # "recv" \/ (stack[t] # <<>> /\ s[1].at = stack[t][1].at),
           late' = late, spawned \subseteq spawned',
           \A w \in Worker : stopped[w] => stopped'[w]
    PROVE  LateOnce'
  <1>1. stack'[t] = s /\ \A u \in Thread : u # t => stack'[u] = stack[u]
    BY StackTyped
  <1> QED
    BY <1>1 DEF LateOnce, Thread

-----------------------------------------------------------------------------
(* Steps that change one stack and run the same tasks.                      *)
Core ==
    /\ Shape /\ Carried /\ PostedOnce /\ RunOnce /\ InFlightExact
    /\ Probed /\ LateOnce /\ EndsClean

LEMMA StackStep ==
    ASSUME TypeOK, Core, outcome = "running", NEW t \in Thread, NEW s,
           Tower(t, s), SameRuns(s, stack[t]), stack' = [stack EXCEPT ![t] = s],
           s = <<>> \/ s[Len(s)].js \/ s[Len(s)].at # "probeWorkers",
           s = <<>> \/ s[1].at # "recv" \/ (stack[t] # <<>> /\ s[1].at = stack[t][1].at),
           UNCHANGED <<outcome, queue, inflight, job, source, late>>,
           spawned \subseteq spawned', t \in Worker => t \in spawned',
           \A w \in Worker : stopped[w] => stopped'[w]
    PROVE  Core' /\ stack' \in [Thread -> Seq(Frame)]
  <1>1. s \in Seq(Frame)
    BY DEF Tower
  <1>2. Shape' /\ RunOnce' /\ stack' \in [Thread -> Seq(Frame)]
    BY StackKeepsShape DEF Core
  <1>3. Probed'
    BY <1>1, StackKeepsProbed DEF Core, Outstanding, Open
  <1>4. LateOnce'
    BY <1>1, StackKeepsLate DEF Core
  <1>5. Carried' /\ PostedOnce' /\ InFlightExact'
    BY DEF Core, Carried, PostedOnce, InFlightExact, Outstanding, TaskOf
  <1>6. EndsClean'
    BY DEF EndsClean, ExitClean, OpenEventsServed
  <1> QED
    BY <1>2, <1>3, <1>4, <1>5, <1>6 DEF Core

(* A thread that has a loop is the main thread or a worker that was spawned. *)
LEMMA RunningIsSpawned ==
    ASSUME Shape, NEW t \in Thread, stack[t] # <<>>
    PROVE  t \in Worker => t \in spawned
  BY DEF Shape

(* The innermost loop goes on as f: at another point, still or not any more *)
(* idle.                                                                    *)
GoesOn(t, f) ==
    /\ f \in Frame
    /\ f.loop = Top(t).loop /\ f.task = Top(t).task /\ f.at \in PointOf(f.loop)
    /\ f.js \/ ~Top(t).js
    /\ f.js => f.at # "probeWorkers"

LEMMA GoesOnFrame ==
    ASSUME Core, NEW t \in Thread, Alive(t), NEW f, GoesOn(t, f)
    PROVE  LET s == [stack[t] EXCEPT ![Depth(t)] = f]
           IN  /\ Tower(t, s) /\ SameRuns(s, stack[t]) /\ Len(s) = Len(stack[t])
               /\ s # <<>> /\ s[Len(s)] = f
               /\ \A k \in 1 .. Len(s) : k # Depth(t) => s[k] = stack[t][k]
  <1> DEFINE s == [stack[t] EXCEPT ![Depth(t)] = f]
  <1>1. /\ stack[t] \in Seq(Frame) /\ stack[t] # <<>>
        /\ Depth(t) \in 1 .. Len(stack[t]) /\ Depth(t) = Len(stack[t])
        /\ Top(t) = stack[t][Depth(t)] /\ GoodFrame(t, Depth(t), Top(t))
    BY TopIsGood DEF Core, Alive
  <1>2. GoodFrame(t, Depth(t), f)
    BY <1>1 DEF GoodFrame, GoesOn, Frame
  <1>3. /\ Tower(t, s) /\ Len(s) = Len(stack[t]) /\ s[Depth(t)] = f
        /\ \A m \in 1 .. Len(s) : m # Depth(t) => s[m] = stack[t][m]
    BY <1>1, <1>2, FrameReplaced DEF Core, GoesOn
  <1>4. SameRuns(s, stack[t])
    BY <1>1, <1>3, FrameKeepsTask DEF GoesOn
  <1> QED
    BY <1>1, <1>3, <1>4

LEMMA LoopStepKeeps ==
    ASSUME TypeOK, Core, NEW t \in Thread, Alive(t), NEW f, GoesOn(t, f), Become(t, f),
           f.js \/ f.at # "probeWorkers", f.at # "recv",
           UNCHANGED <<outcome, queue, inflight, job, source, spawned, late>>,
           \A w \in Worker : stopped[w] => stopped'[w]
    PROVE  Core' /\ stack' \in [Thread -> Seq(Frame)]
  <1> DEFINE s == [stack[t] EXCEPT ![Depth(t)] = f]
  <1>1. /\ stack[t] # <<>> /\ outcome = "running" /\ Depth(t) = Len(stack[t])
    BY TopIsGood DEF Core, Alive
  <1>2. stack' = [stack EXCEPT ![t] = s]
    BY DEF Become
  <1>3. /\ Tower(t, s) /\ SameRuns(s, stack[t]) /\ Len(s) = Len(stack[t])
        /\ s # <<>> /\ s[Len(s)] = f
        /\ \A k \in 1 .. Len(s) : k # Depth(t) => s[k] = stack[t][k]
    BY GoesOnFrame
  <1>4. s[1].at # "recv" \/ s[1].at = stack[t][1].at
    <2>1. Len(s) \in Nat \ {0}
      BY <1>3 DEF Tower
    <2> QED
      BY <2>1, <1>1, <1>3
  <1> QED
    BY <1>1, <1>2, <1>3, <1>4, StackStep, RunningIsSpawned DEF Core

-----------------------------------------------------------------------------
(* Steps of a loop.                                                         *)
LEMMA KeepDrained ==
    ASSUME TypeOK, Core, NEW t \in Thread, Drained(t)
    PROVE  TypeOK' /\ Core'
  <1>1. Alive(t) /\ ~Top(t).js /\ Top(t).at = "drain" /\ Top(t) \in Frame
    BY TopIsGood DEF Drained, At, Core, Alive
  <1> DEFINE f == [Top(t) EXCEPT !.at = AfterDrain(Top(t))]
  <1>2. GoesOn(t, f) /\ f.at \in {"check", "pump", "tick"}
    BY <1>1 DEF GoesOn, Frame, Loop, Point, PointOf, AfterDrain
  <1>3. Core' /\ stack' \in [Thread -> Seq(Frame)]
    BY <1>1, <1>2, LoopStepKeeps DEF Drained, GoTo, asyncVars, localVars, workerVars
  <1> QED
    BY <1>3 DEF TypeOK, Drained, asyncVars, localVars, workerVars

LEMMA KeepPump ==
    ASSUME TypeOK, Core, NEW t \in Thread, Pump(t)
    PROVE  TypeOK' /\ Core'
  <1>1. Alive(t) /\ ~Top(t).js /\ Top(t).at = "pump" /\ Top(t) \in Frame
    BY TopIsGood DEF Pump, At, Core, Alive
  <1> DEFINE f == [Top(t) EXCEPT !.at = "dispatch", !.batch = parent,
                                 !.did = @ \/ parent # EmptyBatch]
  <1>2. Top(t).loop \in {"await", "main"}
    BY <1>1, TopIsGood DEF GoodFrame, PointOf, Frame, Loop, Core, Alive
  <1>3. GoesOn(t, f) /\ f.at = "dispatch"
    BY <1>1, <1>2 DEF GoesOn, Frame, Point, PointOf, TypeOK
  <1>4. Core' /\ stack' \in [Thread -> Seq(Frame)]
    BY <1>1, <1>3, LoopStepKeeps DEF Pump, asyncVars, localVars
  <1>5. EmptyBatch \in [Worker -> Seq(ParentEvent)]
    BY DEF EmptyBatch
  <1> QED
    BY <1>4, <1>5 DEF TypeOK, Pump, asyncVars, localVars

LEMMA KeepDeliver ==
    ASSUME TypeOK, Core, NEW t \in Thread, NEW w \in Worker, Deliver(t, w)
    PROVE  TypeOK' /\ Core'
  <1>1. Alive(t) /\ ~Top(t).js /\ Top(t).at = "dispatch" /\ Top(t) \in Frame
    BY TopIsGood DEF Deliver, At, Core, Alive
  <1> DEFINE f == [Top(t) EXCEPT !.js = TRUE, !.batch[w] = Tail(@)]
  <1>2. Top(t).at \in PointOf(Top(t).loop)
    BY <1>1, TopIsGood DEF GoodFrame, Core, Alive
  <1>3. Top(t).batch[w] \in Seq(ParentEvent) /\ Top(t).batch[w] # <<>>
    BY <1>1 DEF Deliver, Frame
  <1>4. [Top(t).batch EXCEPT ![w] = Tail(@)] \in [Worker -> Seq(ParentEvent)]
    BY <1>1, <1>3 DEF Frame
  <1>5. GoesOn(t, f) /\ f.at = "dispatch"
    BY <1>1, <1>2, <1>4 DEF GoesOn, Frame
  <1>6. Core' /\ stack' \in [Thread -> Seq(Frame)]
    BY <1>1, <1>5, LoopStepKeeps DEF Deliver, asyncVars, localVars, workerVars
  <1> QED
    BY <1>6 DEF TypeOK, Deliver, asyncVars, localVars, workerVars

LEMMA KeepPumped ==
    ASSUME TypeOK, Core, NEW t \in Thread, Pumped(t)
    PROVE  TypeOK' /\ Core'
  <1>1. Alive(t) /\ ~Top(t).js /\ Top(t).at = "dispatch" /\ Top(t) \in Frame
    BY TopIsGood DEF Pumped, At, Core, Alive
  <1> DEFINE f == [Top(t) EXCEPT !.at = AfterPump(Top(t))]
  <1>2. Top(t).loop \in {"await", "main"}
    BY <1>1, TopIsGood DEF GoodFrame, PointOf, Frame, Loop, Core, Alive
  <1>3. GoesOn(t, f) /\ f.at \in {"check", "probe", "tick"}
    BY <1>1, <1>2 DEF GoesOn, Frame, Point, PointOf, AfterPump
  <1>4. Core' /\ stack' \in [Thread -> Seq(Frame)]
    BY <1>1, <1>3, LoopStepKeeps DEF Pumped, GoTo, asyncVars, localVars, workerVars
  <1> QED
    BY <1>4 DEF TypeOK, Pumped, asyncVars, localVars, workerVars

LEMMA KeepFire ==
    ASSUME TypeOK, Core, NEW t \in Thread, NEW x \in Timer, Fire(t, x)
    PROVE  TypeOK' /\ Core'
  <1>1. Alive(t) /\ ~Top(t).js /\ Top(t).at = "tick" /\ Top(t) \in Frame
    BY TopIsGood DEF Fire, At, Core, Alive
  <1> DEFINE f == [Top(t) EXCEPT !.at = AfterTick(Top(t)), !.js = TRUE, !.did = TRUE]
  <1>2. GoesOn(t, f) /\ f.js /\ f.at \in {"check", "drain"}
    BY <1>1 DEF GoesOn, Frame, Loop, Point, PointOf, AfterTick
  <1>3. Core' /\ stack' \in [Thread -> Seq(Frame)]
    BY <1>1, <1>2, LoopStepKeeps DEF Fire, Call, asyncVars, workerVars
  <1> QED
    BY <1>3 DEF TypeOK, Fire, TimerStage, asyncVars, workerVars

LEMMA KeepIdleTick ==
    ASSUME TypeOK, Core, NEW t \in Thread, IdleTick(t)
    PROVE  TypeOK' /\ Core'
  <1>1. Alive(t) /\ ~Top(t).js /\ Top(t).at = "tick" /\ Top(t) \in Frame
    BY TopIsGood DEF IdleTick, At, Core, Alive
  <1> DEFINE f == [Top(t) EXCEPT !.at = AfterIdleTick(Top(t)), !.did = Found(t)]
  <1>2. GoesOn(t, f) /\ f.at \in {"check", "drain", "probe"}
    BY <1>1 DEF GoesOn, Frame, Loop, Point, PointOf, AfterTick, AfterIdleTick, Found
  <1>3. Core' /\ stack' \in [Thread -> Seq(Frame)]
    BY <1>1, <1>2, LoopStepKeeps DEF IdleTick, asyncVars, localVars, workerVars
  <1> QED
    BY <1>3 DEF TypeOK, IdleTick, asyncVars, localVars, workerVars

LEMMA KeepCheck ==
    ASSUME TypeOK, Core, NEW t \in Thread, Check(t)
    PROVE  TypeOK' /\ Core'
  <1>1. Alive(t) /\ ~Top(t).js /\ Top(t).loop = "await" /\ Top(t) \in Frame
    BY TopIsGood DEF Check, At, Core, Alive
  <1> DEFINE f == [Top(t) EXCEPT !.at = "drain", !.did = FALSE]
  <1>2. GoesOn(t, f) /\ f.at = "drain"
    BY <1>1 DEF GoesOn, Frame, Point, PointOf
  <1>3. Core' /\ stack' \in [Thread -> Seq(Frame)]
    BY <1>1, <1>2, LoopStepKeeps DEF Check, asyncVars, localVars, workerVars
  <1> QED
    BY <1>3 DEF TypeOK, Check, asyncVars, localVars, workerVars

LEMMA KeepNap ==
    ASSUME TypeOK, Core, NEW t \in Thread, Nap(t)
    PROVE  TypeOK' /\ Core'
  <1>1. Alive(t) /\ ~Top(t).js /\ Top(t).at = "probeWorkers" /\ Top(t) \in Frame
    BY TopIsGood DEF Nap, At, Core, Alive
  <1> DEFINE f == [Top(t) EXCEPT !.at = IF Top(t).loop = "main" THEN "tick" ELSE "check"]
  <1>2. GoesOn(t, f) /\ f.at \in {"check", "tick"}
    BY <1>1 DEF GoesOn, Frame, Loop, Point, PointOf
  <1>3. Core' /\ stack' \in [Thread -> Seq(Frame)]
    BY <1>1, <1>2, LoopStepKeeps DEF Nap, GoTo, asyncVars, localVars, workerVars
  <1> QED
    BY <1>3 DEF TypeOK, Nap, asyncVars, localVars, workerVars

LEMMA KeepNoMessage ==
    ASSUME TypeOK, Core, NEW w \in Worker, NoMessage(w)
    PROVE  TypeOK' /\ Core'
  <1>1. w \in Thread /\ Alive(w) /\ ~Top(w).js /\ Top(w).at = "recv" /\ Top(w) \in Frame
    BY TopIsGood DEF NoMessage, At, Core, Alive, Thread
  <1> DEFINE f == [Top(w) EXCEPT !.at = "drain"]
  <1>2. GoesOn(w, f) /\ f.at = "drain"
    BY <1>1 DEF GoesOn, Frame, Loop, Point, PointOf
  <1>3. Core' /\ stack' \in [Thread -> Seq(Frame)]
    BY <1>1, <1>2, LoopStepKeeps DEF NoMessage, GoTo, asyncVars, localVars, workerVars
  <1> QED
    BY <1>3 DEF TypeOK, NoMessage, asyncVars, localVars, workerVars

LEMMA KeepSendError ==
    ASSUME TypeOK, Core, NEW w \in Worker, SendError(w)
    PROVE  TypeOK' /\ Core'
  <1>1. w \in Thread /\ Alive(w) /\ ~Top(w).js /\ Top(w).at = "fail" /\ Top(w) \in Frame
    BY TopIsGood DEF SendError, At, Core, Alive, Thread
  <1> DEFINE f == [Top(w) EXCEPT !.at = "stop"]
  <1>2. Top(w).loop = "worker"
    BY <1>1, TopIsGood DEF GoodFrame, PointOf, Frame, Loop, Core, Alive
  <1>3. GoesOn(w, f) /\ f.at = "stop"
    BY <1>1, <1>2 DEF GoesOn, Frame, Point, PointOf
  <1>4. Core' /\ stack' \in [Thread -> Seq(Frame)]
    BY <1>1, <1>3, LoopStepKeeps DEF SendError, GoTo, asyncVars, localVars
  <1>5. parent' \in [Worker -> Seq(ParentEvent)]
    BY DEF SendError, TypeOK, ParentEvent
  <1> QED
    BY <1>4, <1>5 DEF TypeOK, SendError, asyncVars, localVars

(* Below the worker's own loop there is none, so it can end the thread.     *)
LEMMA WorkerLoopIsOuter ==
    ASSUME Core, NEW w \in Worker, Alive(w), Top(w).loop = "worker"
    PROVE  w \in Thread /\ Depth(w) = 1
  BY TopIsGood DEF Core, Alive, GoodFrame, Thread

LEMMA ThreadEndKeeps ==
    ASSUME TypeOK, Core, NEW w \in Worker, Alive(w), Top(w).loop = "worker", ~Top(w).js,
           ThreadEnds(w), UNCHANGED <<outcome, queue, inflight, job, source, spawned, late>>,
           \A v \in Worker : stopped[v] => stopped'[v]
    PROVE  Core' /\ stack' \in [Thread -> Seq(Frame)]
  <1>1. w \in Thread /\ Idle(w) /\ stack[w] # <<>> /\ outcome = "running"
    BY WorkerLoopIsOuter DEF Idle, Alive
  <1>2. Tower(w, <<>>) /\ SameRuns(<<>>, stack[w])
    BY <1>1, LoopGone DEF Core
  <1>3. stack' = [stack EXCEPT ![w] = <<>>]
    BY DEF ThreadEnds
  <1> QED
    BY <1>1, <1>2, <1>3, StackStep, RunningIsSpawned DEF Core

LEMMA KeepCheckStopped ==
    ASSUME TypeOK, Core, NEW w \in Worker, CheckStopped(w)
    PROVE  TypeOK' /\ Core'
  <1>1. /\ w \in Thread /\ Alive(w) /\ ~Top(w).js /\ Top(w) \in Frame
        /\ Top(w).loop = "worker" /\ Depth(w) = 1
        /\ stack[w] # <<>> /\ outcome = "running"
    BY TopIsGood, WorkerLoopIsOuter DEF CheckStopped, At, Core, Alive, Thread
  <1>2. CASE stopped[w]
    <2>1. Core' /\ stack' \in [Thread -> Seq(Frame)]
      BY <1>1, <1>2, ThreadEndKeeps
         DEF CheckStopped, MustStop, asyncVars, localVars, workerVars
    <2> QED
      BY <2>1 DEF TypeOK, CheckStopped, asyncVars, localVars, workerVars
  <1>3. CASE ~stopped[w]
    <2> DEFINE f == [Top(w) EXCEPT !.at = "recv"]
               s == [stack[w] EXCEPT ![Depth(w)] = f]
    <2>1. GoesOn(w, f) /\ f.at = "recv"
      BY <1>1 DEF GoesOn, Frame, Point, PointOf
    <2>2. /\ Tower(w, s) /\ SameRuns(s, stack[w]) /\ s # <<>> /\ s[Len(s)] = f
          /\ s \in Seq(Frame)
      BY <1>1, <2>1, GoesOnFrame DEF Tower
    <2>3. stack' = [stack EXCEPT ![w] = s]
      BY <1>3 DEF CheckStopped, MustStop, GoTo, Become
    <2> HIDE DEF f, s
    <2>4. Shape' /\ RunOnce' /\ stack' \in [Thread -> Seq(Frame)]
      BY <1>1, <2>2, <2>3, StackKeepsShape, RunningIsSpawned
         DEF Core, CheckStopped, asyncVars, workerVars
    <2>5. Probed'
      BY <1>1, <2>1, <2>2, <2>3, StackKeepsProbed
         DEF Core, CheckStopped, asyncVars, localVars, Outstanding, Open
    <2>6. LateOnce'
      <3>1. \A v \in Worker : v # w => stack'[v] = stack[v]
        BY <1>1, <2>2, <2>3, StackTyped DEF Thread
      <3>2. ~(late[w] > 0)
        BY <1>3 DEF Core, LateOnce
      <3> QED
        BY <3>1, <3>2 DEF Core, LateOnce, CheckStopped, workerVars
    <2>7. Carried' /\ PostedOnce' /\ InFlightExact' /\ EndsClean'
      BY <1>1 DEF Core, Carried, PostedOnce, InFlightExact, Outstanding, TaskOf, EndsClean, ExitClean,
                  OpenEventsServed, CheckStopped, asyncVars, localVars
    <2> QED
      BY <2>4, <2>5, <2>6, <2>7 DEF Core, TypeOK, CheckStopped, asyncVars, localVars, workerVars
  <1> QED
    BY <1>2, <1>3

LEMMA KeepReceive ==
    ASSUME TypeOK, Core, NEW w \in Worker, Receive(w)
    PROVE  TypeOK' /\ Core'
  <1>1. /\ w \in Thread /\ Alive(w) /\ ~Top(w).js /\ Top(w).at = "recv" /\ Top(w) \in Frame
        /\ stack[w] # <<>> /\ outcome = "running"
    BY TopIsGood DEF Receive, At, Core, Alive, Thread
  <1>2. Top(w).loop = "worker" /\ Depth(w) = 1 /\ Top(w) = stack[w][1]
    BY <1>1, TopIsGood, WorkerLoopIsOuter DEF GoodFrame, PointOf, Frame, Loop, Core
  <1>3. mailbox' \in [Worker -> Seq(WorkerMsg)]
    BY DEF TypeOK, Receive
  <1>4. CASE Head(mailbox[w]) = "message"
    <2> DEFINE f == [Top(w) EXCEPT !.at = "drain", !.js = TRUE, !.did = TRUE]
               s == [stack[w] EXCEPT ![Depth(w)] = f]
    <2>1. GoesOn(w, f) /\ f.at = "drain" /\ f.js
      BY <1>1, <1>2 DEF GoesOn, Frame, Point, PointOf
    <2>2. /\ Tower(w, s) /\ SameRuns(s, stack[w]) /\ s # <<>> /\ s[Len(s)] = f
          /\ s \in Seq(Frame) /\ Len(s) = Len(stack[w])
      BY <1>1, <2>1, GoesOnFrame DEF Tower
    <2>3. stack' = [stack EXCEPT ![w] = s]
      BY <1>4 DEF Receive, Call, Become
    <2>4. s[1].at = "drain"
      BY <1>1, <1>2, <2>1, <2>2, TopIsGood DEF Core
    <2> HIDE DEF f, s
    <2>5. Shape' /\ RunOnce' /\ stack' \in [Thread -> Seq(Frame)]
      BY <1>1, <2>2, <2>3, StackKeepsShape, RunningIsSpawned DEF Core, Receive, asyncVars
    <2>6. Probed'
      BY <1>1, <2>1, <2>2, <2>3, StackKeepsProbed DEF Core, Receive, asyncVars, localVars, Outstanding, Open
    <2>7. late' = [late EXCEPT ![w] = IF stopped[w] THEN @ + 1 ELSE @] /\ late \in [Worker -> Nat]
      BY <1>4 DEF Receive, TypeOK
    <2>8. LateOnce'
      <3>1. stack'[w] = s /\ \A v \in Worker : v # w => stack'[v] = stack[v]
        BY <1>1, <2>2, <2>3, StackTyped DEF Thread
      <3>2. late[w] = 0 /\ w \in spawned
        <4>1. late[w] > 0 => stack[w][1].at # "recv"
          BY <1>1 DEF Core, LateOnce
        <4> QED
          BY <4>1, <1>1, <1>2, <2>7, RunningIsSpawned DEF Core
      <3>3. late'[w] > 0 => late'[w] = 1 /\ stopped[w]
        BY <3>2, <2>7
      <3>4. \A v \in Worker : v # w => late'[v] = late[v]
        BY <2>7
      <3> QED
        BY <3>1, <3>2, <3>3, <3>4, <2>4 DEF Core, LateOnce, Receive
    <2>9. Carried' /\ PostedOnce' /\ InFlightExact' /\ EndsClean'
      BY <1>1 DEF Core, Carried, PostedOnce, InFlightExact, Outstanding, TaskOf, EndsClean, ExitClean,
                  OpenEventsServed, Receive, asyncVars, localVars
    <2>10. late' \in [Worker -> Nat]
      BY <2>7
    <2>11. TypeOK'
      BY <1>3, <2>5, <2>10 DEF TypeOK, Receive, asyncVars, localVars
    <2> QED
      BY <2>5, <2>6, <2>8, <2>9, <2>11 DEF Core
  <1>5. CASE Head(mailbox[w]) # "message"
    <2>1. Core' /\ stack' \in [Thread -> Seq(Frame)]
      BY <1>1, <1>2, <1>5, ThreadEndKeeps DEF Receive, asyncVars, localVars
    <2> QED
      BY <1>3, <1>5, <2>1 DEF TypeOK, Receive, asyncVars, localVars
  <1> QED
    BY <1>4, <1>5

LEMMA KeepStopFailed ==
    ASSUME TypeOK, Core, NEW w \in Worker, StopFailed(w)
    PROVE  TypeOK' /\ Core'
  <1>1. w \in Thread /\ Alive(w) /\ ~Top(w).js /\ Top(w).at = "stop" /\ Top(w) \in Frame
    BY TopIsGood DEF StopFailed, At, Core, Alive, Thread
  <1>2. Top(w).loop = "worker"
    BY <1>1, TopIsGood DEF GoodFrame, PointOf, Frame, Loop, Core, Alive
  <1>3. stopped' \in [Worker -> BOOLEAN] /\ \A v \in Worker : stopped[v] => stopped'[v]
    BY DEF StopFailed, TypeOK
  <1>4. Core' /\ stack' \in [Thread -> Seq(Frame)]
    BY <1>1, <1>2, <1>3, ThreadEndKeeps DEF StopFailed, asyncVars, localVars
  <1> QED
    BY <1>3, <1>4 DEF TypeOK, StopFailed, asyncVars, localVars

LEMMA KeepProbe ==
    ASSUME TypeOK, Core, NEW t \in Thread, Probe(t)
    PROVE  TypeOK' /\ Core'
  <1>1. /\ Alive(t) /\ ~Top(t).js /\ Top(t).at = "probe" /\ Top(t) \in Frame
        /\ stack[t] # <<>> /\ outcome = "running" /\ Depth(t) = Len(stack[t])
    BY TopIsGood DEF Probe, At, Core, Alive
  <1>2. Top(t).loop \in {"await", "main"}
    BY <1>1, TopIsGood DEF GoodFrame, PointOf, Frame, Loop, Core
  <1>3. CASE Top(t).loop = "main" /\ Top(t).did
    <2> DEFINE f == [Top(t) EXCEPT !.at = "tick"]
    <2>1. GoesOn(t, f) /\ f.at = "tick"
      BY <1>1, <1>3 DEF GoesOn, Frame, Point, PointOf
    <2>2. Core' /\ stack' \in [Thread -> Seq(Frame)]
      BY <1>1, <1>3, <2>1, LoopStepKeeps DEF Probe, GoTo, asyncVars, localVars, workerVars
    <2> QED
      BY <2>2 DEF TypeOK, Probe, asyncVars, localVars, workerVars
  <1>4. CASE ~(Top(t).loop = "main" /\ Top(t).did)
    <2> DEFINE f == [Top(t) EXCEPT !.at = "probeWorkers", !.did = Busy(t)]
               s == [stack[t] EXCEPT ![Depth(t)] = f]
    <2>1. GoesOn(t, f) /\ f.at = "probeWorkers" /\ f.did = Busy(t)
      BY <1>1, <1>2 DEF GoesOn, Frame, Point, PointOf, Busy
    <2>2. /\ Tower(t, s) /\ SameRuns(s, stack[t]) /\ s # <<>> /\ s[Len(s)] = f
          /\ s \in Seq(Frame) /\ Len(s) = Len(stack[t])
          /\ \A k \in 1 .. Len(s) : k # Depth(t) => s[k] = stack[t][k]
      BY <1>1, <2>1, GoesOnFrame DEF Tower
    <2>3. stack' = [stack EXCEPT ![t] = s]
      BY <1>4 DEF Probe, Become
    <2>4. s[1].at # "recv" \/ s[1].at = stack[t][1].at
      BY <1>1, <2>1, <2>2
    <2> HIDE DEF f, s
    <2>5. Shape' /\ RunOnce' /\ stack' \in [Thread -> Seq(Frame)]
      BY <1>1, <2>2, <2>3, StackKeepsShape, RunningIsSpawned
         DEF Core, Probe, asyncVars, workerVars
    <2>6. Probed'
      <3>1. stack'[t] = s /\ \A u \in Thread : u # t => stack'[u] = stack[u]
        BY <2>2, <2>3, StackTyped
      <3>2. Outstanding' = Outstanding /\ Open' = Open
        BY DEF Outstanding, Open, Probe, asyncVars, localVars
      <3>3. ~Busy(t) => Outstanding = {} /\ (t = Main => Open = {})
        <4>1. IsFiniteSet(Outstanding) /\ Cardinality(Outstanding) \in Nat
          BY FS_Subset, FS_CardinalityType, JobAssumption DEF Outstanding
        <4>2. ~Busy(t) => Cardinality(Outstanding) = 0
          BY <4>1 DEF Busy, Core, InFlightExact
        <4> QED
          BY <4>1, <4>2, FS_EmptySet DEF Busy, Keeps
      <3> SUFFICES ASSUME NEW u \in Thread, At(u, "probeWorkers")', ~Top(u).did'
                   PROVE  /\ \A j \in Outstanding : Owner[j] # u
                          /\ u = Main => Open = {}
        BY <3>2 DEF Probed
      <3>4. CASE u = t
        BY <3>1, <3>3, <3>4, <2>1, <2>2 DEF Top, Depth
      <3>5. CASE u # t
        <4>1. At(u, "probeWorkers") /\ ~Top(u).did
          BY <3>1, <3>5, <1>1 DEF At, Alive, Top, Depth
        <4> QED
          BY <4>1 DEF Probed, Core
      <3> QED
        BY <3>4, <3>5
    <2>7. LateOnce'
      BY <1>1, <2>2, <2>3, <2>4, StackKeepsLate DEF Core, Probe, workerVars
    <2>8. Carried' /\ PostedOnce' /\ InFlightExact' /\ EndsClean'
      BY <1>1 DEF Core, Carried, PostedOnce, InFlightExact, Outstanding, TaskOf, EndsClean, ExitClean,
                  OpenEventsServed, Probe, asyncVars, localVars
    <2> QED
      BY <2>5, <2>6, <2>7, <2>8 DEF Core, TypeOK, Probe, asyncVars, localVars, workerVars
  <1> QED
    BY <1>3, <1>4

-----------------------------------------------------------------------------
(* await_promise returns, and the main loop exits.                          *)
LEMMA ReturnKeeps ==
    ASSUME TypeOK, Core, NEW t \in Thread, NEW ok \in BOOLEAN, Alive(t), ~Top(t).js,
           Return(t, ok), UNCHANGED <<asyncVars, localVars, workerVars>>
    PROVE  TypeOK' /\ Core'
  <1>1. stack[t] # <<>> /\ outcome = "running" /\ Shape
    BY DEF Alive, Core
  <1>2. CASE Depth(t) > 1
    <2> DEFINE s == SubSeq(stack[t], 1, Len(stack[t]) - 1)
    <2>1. /\ Tower(t, s) /\ SameRuns(s, stack[t])
          /\ s # <<>> /\ s[Len(s)].js /\ s[1] = stack[t][1]
      BY <1>1, <1>2, LoopPopped
    <2>2. stack' = [stack EXCEPT ![t] = s] /\ outcome' = outcome
      BY <1>2, TopIsGood, <1>1 DEF Return
    <2> HIDE DEF s
    <2>3. Core' /\ stack' \in [Thread -> Seq(Frame)]
      BY <1>1, <2>1, <2>2, StackStep, RunningIsSpawned DEF asyncVars, localVars, workerVars
    <2> QED
      BY <2>2, <2>3 DEF TypeOK, asyncVars, localVars, workerVars
  <1>3. CASE Depth(t) = 1 /\ t = Main /\ ok
    <2> DEFINE f == NewLoop("main", "tick")
    <2>1. f \in Frame /\ f.task = NoTask /\ ~f.js /\ f.loop = "main" /\ f.at = "tick"
      BY NewLoopIsFrame DEF Loop, Point
    <2>2. GoodFrame(t, 1, f)
      BY <2>1, <1>3 DEF GoodFrame, PointOf, NoTask
    <2>3. stack' = [stack EXCEPT ![t] = <<f>>] /\ outcome' = outcome
      BY <1>3 DEF Return
    <2> HIDE DEF f
    <2>4. Tower(t, <<f>>) /\ SameRuns(<<f>>, stack[t])
      BY <1>1, <1>3, <2>1, <2>2, LoopReplaced DEF Idle
    <2>5. Core' /\ stack' \in [Thread -> Seq(Frame)]
      BY <1>1, <2>1, <2>3, <2>4, StackStep, RunningIsSpawned DEF asyncVars, localVars, workerVars
    <2> QED
      BY <2>3, <2>5 DEF TypeOK, asyncVars, localVars, workerVars
  <1>4. CASE Depth(t) = 1 /\ t = Main /\ ~ok
    <2>1. outcome' = "failed" /\ stack' = stack
      BY <1>4 DEF Return
    <2>2. Shape' /\ Carried' /\ PostedOnce' /\ RunOnce' /\ InFlightExact' /\ LateOnce'
      BY <2>1 DEF Core, Shape, Tower, GoodFrame, Carried, PostedOnce, RunOnce, Runs, TaskOf, InFlightExact,
                  Outstanding, LateOnce, asyncVars, localVars, workerVars
    <2>3. Probed' /\ EndsClean'
      BY <2>1 DEF Probed, EndsClean, ExitClean, OpenEventsServed, At, Alive
    <2> QED
      BY <2>1, <2>2, <2>3 DEF Core, TypeOK, Outcome, asyncVars, localVars, workerVars
  <1>5. CASE Depth(t) = 1 /\ t # Main
    <2> DEFINE f == NewLoop("worker", IF ok THEN "check" ELSE "fail")
    <2>1. /\ f \in Frame /\ f.task = NoTask /\ ~f.js /\ f.loop = "worker"
          /\ f.at \in {"check", "fail"}
      BY NewLoopIsFrame DEF Loop, Point
    <2>2. GoodFrame(t, 1, f)
      BY <2>1, <1>5 DEF GoodFrame, PointOf, NoTask
    <2>3. stack' = [stack EXCEPT ![t] = <<f>>] /\ outcome' = outcome
      BY <1>5 DEF Return
    <2> HIDE DEF f
    <2>4. Tower(t, <<f>>) /\ SameRuns(<<f>>, stack[t])
      BY <1>1, <1>5, <2>1, <2>2, LoopReplaced DEF Idle
    <2>5. Core' /\ stack' \in [Thread -> Seq(Frame)]
      BY <1>1, <2>1, <2>3, <2>4, StackStep, RunningIsSpawned DEF asyncVars, localVars, workerVars
    <2> QED
      BY <2>3, <2>5 DEF TypeOK, asyncVars, localVars, workerVars
  <1> QED
    BY <1>1, <1>2, <1>3, <1>4, <1>5, TopIsGood DEF Return

LEMMA KeepPromiseSettled ==
    ASSUME TypeOK, Core, NEW t \in Thread, PromiseSettled(t)
    PROVE  TypeOK' /\ Core'
  BY ReturnKeeps DEF PromiseSettled, At

LEMMA KeepDeadlocked ==
    ASSUME TypeOK, Core, NEW t \in Thread, Deadlocked(t)
    PROVE  TypeOK' /\ Core'
  BY ReturnKeeps DEF Deadlocked, At

LEMMA FreshWhenIdle ==
    ASSUME Core, NEW t \in Thread, At(t, "probeWorkers"), ~Waiting(t)
    PROVE  Pending(t) = {} /\ (t = Main => Open = {}) /\ Active = {}
  BY DEF Core, Probed, Waiting, Pending

LEMMA KeepExit ==
    ASSUME TypeOK, Core, Exit
    PROVE  TypeOK' /\ Core'
  <1>1. outcome' = "exited" /\ stack' = stack
    BY DEF Exit
  <1>2. Pending(Main) = {} /\ Open = {} /\ Active = {}
    BY FreshWhenIdle DEF Exit, Thread
  <1>3. EndsClean'
    <2>1. ExitClean'
      BY <1>2 DEF ExitClean, Exit, Pending, Outstanding, Armed, Open, Active, asyncVars, localVars, workerVars
    <2>2. OpenEventsServed'
      <3> SUFFICES ASSUME NEW i \in 1 .. Len(queue), queue[i].kind = "event"
                   PROVE  source[queue[i].of] = "closed"
        BY DEF OpenEventsServed, Exit, asyncVars, localVars
      <3>1. queue[i].of \in Source /\ source[queue[i].of] # "unopened"
        BY DEF Core, Carried
      <3> QED
        BY <3>1, <1>2 DEF Open, TypeOK
    <2> QED
      BY <2>1, <2>2 DEF EndsClean
  <1>4. Shape' /\ Carried' /\ PostedOnce' /\ RunOnce' /\ InFlightExact' /\ LateOnce'
    BY <1>1 DEF Core, Shape, Tower, GoodFrame, Carried, PostedOnce, RunOnce, Runs, TaskOf, InFlightExact,
                Outstanding, LateOnce, Exit, asyncVars, localVars, workerVars
  <1>5. Probed'
    BY <1>1 DEF Probed, At, Alive
  <1> QED
    BY <1>1, <1>3, <1>4, <1>5 DEF Core, TypeOK, Outcome, Exit, asyncVars, localVars, workerVars

-----------------------------------------------------------------------------
(* A turn takes a task, and returns.                                        *)

(* The innermost loop of a thread gets the task that f has.                 *)
LEMMA RunsAfter ==
    ASSUME TypeOK, Shape, NEW t \in Thread, stack[t] # <<>>, NEW f \in Frame,
           GoodFrame(t, Depth(t), f), Become(t, f)
    PROVE  LET s == [stack[t] EXCEPT ![Depth(t)] = f]
           IN  /\ Tower(t, s) /\ s # <<>> /\ s[Len(s)] = f /\ Len(s) = Len(stack[t])
               /\ s[1] = stack[t][1] \/ (Depth(t) = 1 /\ s[1] = f)
               /\ stack' = [stack EXCEPT ![t] = s] /\ stack' \in [Thread -> Seq(Frame)]
               /\ \A u \in Thread : \A k \in 1 .. MaxDepth : \A j \in Job :
                     Runs(stack'[u], k, j) <=>
                        IF u = t /\ k = Depth(t) THEN f.task = TaskOf(j) ELSE Runs(stack[u], k, j)
  <1> DEFINE s == [stack[t] EXCEPT ![Depth(t)] = f]
  <1>1. /\ Depth(t) \in 1 .. Len(stack[t]) /\ Depth(t) = Len(stack[t])
        /\ stack[t] \in Seq(Frame)
    BY TopIsGood
  <1>2. /\ Tower(t, s) /\ Len(s) = Len(stack[t]) /\ s[Depth(t)] = f
        /\ \A m \in 1 .. Len(s) : m # Depth(t) => s[m] = stack[t][m]
    <2>1. ~(Depth(t) < Len(stack[t]))
      BY <1>1
    <2> QED
      BY <2>1, <1>1, FrameReplaced
  <1>3. stack' = [stack EXCEPT ![t] = s]
    BY DEF Become
  <1>4. s \in Seq(Frame)
    BY <1>2 DEF Tower
  <1>5. s # <<>> /\ (s[1] = stack[t][1] \/ (Depth(t) = 1 /\ s[1] = f))
    BY <1>1, <1>2, <1>4
  <1> HIDE DEF s
  <1>6. /\ stack'[t] = s /\ \A u \in Thread : u # t => stack'[u] = stack[u]
        /\ stack' \in [Thread -> Seq(Frame)]
    BY <1>3, <1>4, StackTyped
  <1>7. \A u \in Thread : \A k \in 1 .. MaxDepth : \A j \in Job :
           Runs(stack'[u], k, j) <=>
              IF u = t /\ k = Depth(t) THEN f.task = TaskOf(j) ELSE Runs(stack[u], k, j)
    <2> SUFFICES ASSUME NEW u \in Thread, NEW k \in 1 .. MaxDepth, NEW j \in Job
                 PROVE  Runs(stack'[u], k, j) <=>
                           IF u = t /\ k = Depth(t) THEN f.task = TaskOf(j) ELSE Runs(stack[u], k, j)
      OBVIOUS
    <2>1. CASE u # t
      BY <2>1, <1>6
    <2>2. CASE u = t
      BY <2>2, <1>1, <1>2, <1>6 DEF Runs
    <2> QED
      BY <2>1, <2>2
  <1> QED
    BY <1>1, <1>2, <1>3, <1>5, <1>6, <1>7 DEF s

LEMMA ShapeAfter ==
    ASSUME TypeOK, Shape, NEW t \in Thread, NEW s, Tower(t, s), stack' = [stack EXCEPT ![t] = s],
           t \in Worker => t \in spawned, spawned' = spawned
    PROVE  Shape'
  <1>1. stack'[t] = s /\ \A u \in Thread : u # t => stack'[u] = stack[u]
    BY StackTyped DEF Tower
  <1>2. \A u \in Thread : Tower(u, stack'[u])
    BY <1>1 DEF Shape
  <1>3. \A w \in Worker \ spawned' : stack'[w] = <<>>
    BY <1>1 DEF Shape, Thread
  <1> QED
    BY <1>2, <1>3 DEF Shape, Tower, GoodFrame

LEMMA HeadAndTail ==
    ASSUME NEW q \in Seq(Task), q # <<>>
    PROVE  /\ Head(q) = q[1] /\ Head(q) \in Task /\ Tail(q) \in Seq(Task)
           /\ 1 \in 1 .. Len(q) /\ Len(Tail(q)) = Len(q) - 1 /\ Len(q) \in Nat
           /\ \A i \in 1 .. Len(Tail(q)) : i + 1 \in 1 .. Len(q) /\ Tail(q)[i] = q[i + 1]
           /\ \A i \in 1 .. Len(q) : i # 1 => i - 1 \in 1 .. Len(Tail(q)) /\ Tail(q)[i - 1] = q[i]
  OBVIOUS

LEMMA KeepTakeTask ==
    ASSUME TypeOK, Core, NEW t \in Thread, TakeTask(t)
    PROVE  TypeOK' /\ Core'
  <1> DEFINE task == Head(queue)
             f == [Top(t) EXCEPT !.js = TRUE, !.did = TRUE, !.task = task]
             s == [stack[t] EXCEPT ![Depth(t)] = f]
  <1>1. /\ stack[t] # <<>> /\ outcome = "running" /\ Shape
        /\ ~Top(t).js /\ Top(t).at = "drain" /\ Top(t) \in Frame /\ GoodFrame(t, Depth(t), Top(t))
        /\ Depth(t) \in 1 .. MaxDepth /\ Depth(t) = Len(stack[t]) /\ Top(t) = stack[t][Depth(t)]
    BY TopIsGood DEF TakeTask, At, Core, Alive
  <1>2. queue \in Seq(Task) /\ queue # <<>>
    BY DEF TakeTask, TypeOK
  <1>3. /\ task = queue[1] /\ task \in Task
        /\ task.kind = "job" => task.of \in Job /\ task = TaskOf(task.of)
    <2>1. task = queue[1] /\ task \in Task /\ 1 \in 1 .. Len(queue)
      BY <1>2, HeadAndTail
    <2> QED
      BY <2>1, TasksNameJobs DEF Core, Carried
  <1>4. f \in Frame /\ f.task = task /\ f.js /\ f.at = "drain" /\ f.loop = Top(t).loop
    BY <1>1, <1>3 DEF Frame
  <1>5. GoodFrame(t, Depth(t), f)
    BY <1>1, <1>3, <1>4 DEF GoodFrame
  <1>6. Become(t, f)
    BY DEF TakeTask
  <1> HIDE DEF f
  <1>7. /\ Tower(t, s) /\ s # <<>> /\ s[Len(s)] = f
        /\ s[1] = stack[t][1] \/ s[1] = f
        /\ stack' = [stack EXCEPT ![t] = s] /\ stack' \in [Thread -> Seq(Frame)]
        /\ \A u \in Thread : \A k \in 1 .. MaxDepth : \A j \in Job :
              Runs(stack'[u], k, j) <=>
                 IF u = t /\ k = Depth(t) THEN task = TaskOf(j) ELSE Runs(stack[u], k, j)
    BY <1>1, <1>4, <1>5, <1>6, RunsAfter
  <1>8. s \in Seq(Frame)
    BY <1>7 DEF Tower
  <1>9. /\ queue' = Tail(queue)
        /\ UNCHANGED <<outcome, inflight, timer, source, events, spawned, stopped, mailbox, parent, posts, late>>
    BY DEF TakeTask, Rest, localVars, workerVars
  <1>10. queue' \in Seq(Task)
    BY <1>2, <1>9, HeadAndTail
  <1>11. /\ job' \in [Job -> JobStage] /\ ran' \in [Job -> Thread]
         /\ \A j \in Job : IF task = TaskOf(j) THEN job'[j] = "delivering" ELSE job'[j] = job[j]
         /\ \A j \in Job : task = TaskOf(j) => job[j] = "posted"
    <2>1. \A j \in Job : task = TaskOf(j) => job[j] = "posted"
      BY <1>2, <1>3, HeadAndTail DEF Core, PostedOnce
    <2>2. CASE task.kind = "job"
      <3>1. /\ job' = [job EXCEPT ![task.of] = "delivering"]
            /\ ran' = [ran EXCEPT ![task.of] = t]
        BY <2>2 DEF TakeTask
      <3>2. \A j \in Job : task = TaskOf(j) <=> j = task.of
        BY <1>3, <2>2, TasksNameJobs
      <3> QED
        BY <1>3, <2>1, <2>2, <3>1, <3>2 DEF TypeOK, JobStage
    <2>3. CASE task.kind # "job"
      <3>1. job' = job /\ ran' = ran
        BY <2>3 DEF TakeTask
      <3>2. \A j \in Job : task # TaskOf(j)
        BY <2>3 DEF TaskOf
      <3> QED
        BY <3>1, <3>2 DEF TypeOK
    <2> QED
      BY <2>2, <2>3
  <1> HIDE DEF task, s
  <1>12. TypeOK'
    BY <1>7, <1>9, <1>10, <1>11 DEF TypeOK
  <1>13. Shape'
    BY <1>1, <1>7, <1>9, ShapeAfter, RunningIsSpawned
  <1>14. Carried'
    BY <1>2, <1>9, HeadAndTail DEF Core, Carried
  <1>15. PostedOnce'
    <2> SUFFICES ASSUME NEW j \in Job
                 PROVE  /\ job'[j] = "posted" <=> \E i \in 1 .. Len(queue') : queue'[i] = TaskOf(j)
                        /\ \A i, m \in 1 .. Len(queue') :
                              queue'[i] = TaskOf(j) /\ queue'[m] = TaskOf(j) => i = m
      BY DEF PostedOnce, TaskOf
    <2>1. \A i \in 1 .. Len(queue') : i + 1 \in 1 .. Len(queue) /\ queue'[i] = queue[i + 1]
      BY <1>2, <1>9, HeadAndTail
    <2>2. \A i, m \in 1 .. Len(queue) : queue[i] = TaskOf(j) /\ queue[m] = TaskOf(j) => i = m
      BY DEF Core, PostedOnce
    <2>3. \A i, m \in 1 .. Len(queue') :
             queue'[i] = TaskOf(j) /\ queue'[m] = TaskOf(j) => i = m
      BY <2>1, <2>2
    <2>4. CASE task = TaskOf(j)
      <3>1. \A i \in 1 .. Len(queue') : queue'[i] # TaskOf(j)
        BY <2>1, <2>2, <2>4, <1>2, <1>3, HeadAndTail
      <3> QED
        BY <2>3, <2>4, <3>1, <1>11
    <2>5. CASE task # TaskOf(j)
      <3>1. (\E i \in 1 .. Len(queue) : queue[i] = TaskOf(j)) <=> job[j] = "posted"
        BY DEF Core, PostedOnce
      <3>2. (\E i \in 1 .. Len(queue') : queue'[i] = TaskOf(j)) <=>
               \E i \in 1 .. Len(queue) : queue[i] = TaskOf(j)
        <4>1. ASSUME NEW i \in 1 .. Len(queue), queue[i] = TaskOf(j)
              PROVE  i - 1 \in 1 .. Len(queue') /\ queue'[i - 1] = TaskOf(j)
          <5>1. i # 1
            BY <4>1, <2>5, <1>3
          <5> QED
            BY <4>1, <5>1, <1>2, <1>9, HeadAndTail
        <4> QED
          BY <2>1, <4>1
      <3> QED
        BY <2>3, <2>5, <3>1, <3>2, <1>11
    <2> QED
      BY <2>4, <2>5
  <1>16. RunOnce'
    <2> SUFFICES ASSUME NEW j \in Job
                 PROVE  /\ job'[j] = "delivering" <=>
                              \E u \in Thread, k \in 1 .. MaxDepth : Runs(stack'[u], k, j)
                        /\ \A u, v \in Thread : \A k, m \in 1 .. MaxDepth :
                              Runs(stack'[u], k, j) /\ Runs(stack'[v], m, j) => u = v /\ k = m
      BY DEF RunOnce
    <2>1. /\ job[j] = "delivering" <=> \E u \in Thread, k \in 1 .. MaxDepth : Runs(stack[u], k, j)
          /\ \A u, v \in Thread : \A k, m \in 1 .. MaxDepth :
                Runs(stack[u], k, j) /\ Runs(stack[v], m, j) => u = v /\ k = m
      BY DEF Core, RunOnce
    <2>2. ~Runs(stack[t], Depth(t), j)
      BY <1>1, TasksNameJobs DEF Runs, GoodFrame
    <2>3. CASE task = TaskOf(j)
      BY <1>1, <1>7, <1>11, <2>1, <2>3
    <2>4. CASE task # TaskOf(j)
      BY <1>1, <1>7, <1>11, <2>1, <2>2, <2>4
    <2> QED
      BY <2>3, <2>4
  <1>17. Outstanding' = Outstanding
    BY <1>11 DEF Outstanding
  <1>18. InFlightExact'
    BY <1>9, <1>17 DEF Core, InFlightExact
  <1>19. Probed'
    BY <1>1, <1>4, <1>7, <1>8, <1>9, <1>17, StackKeepsProbed DEF Core, Open
  <1>20. LateOnce'
    BY <1>1, <1>4, <1>7, <1>8, <1>9, StackKeepsLate DEF Core
  <1>21. EndsClean'
    BY <1>1, <1>9 DEF EndsClean, ExitClean, OpenEventsServed
  <1> QED
    BY <1>12, <1>13, <1>14, <1>15, <1>16, <1>18, <1>19, <1>20, <1>21 DEF Core

LEMMA KeepEndTurn ==
    ASSUME TypeOK, Core, NEW t \in Thread, EndTurn(t)
    PROVE  TypeOK' /\ Core'
  <1> DEFINE task == Top(t).task
             f == [Top(t) EXCEPT !.js = FALSE, !.task = NoTask]
             s == [stack[t] EXCEPT ![Depth(t)] = f]
  <1>1. /\ stack[t] # <<>> /\ outcome = "running" /\ Shape
        /\ Top(t).js /\ Top(t) \in Frame /\ GoodFrame(t, Depth(t), Top(t))
        /\ Depth(t) \in 1 .. MaxDepth /\ Depth(t) = Len(stack[t]) /\ Top(t) = stack[t][Depth(t)]
    BY TopIsGood DEF EndTurn, InTurn, Core, Alive
  <1>2. /\ task \in Task
        /\ task.kind = "job" => task.of \in Job /\ task = TaskOf(task.of)
    BY <1>1, TasksNameJobs DEF Frame, GoodFrame
  <1>3. /\ f \in Frame /\ f.task = NoTask /\ ~f.js /\ f.at = Top(t).at
        /\ f.at # "probeWorkers" /\ f.loop = Top(t).loop
    BY <1>1 DEF Frame, GoodFrame, NoTask, Task
  <1>4. GoodFrame(t, Depth(t), f)
    BY <1>1, <1>3 DEF GoodFrame, NoTask
  <1>5. Become(t, f)
    BY DEF EndTurn
  <1> HIDE DEF f
  <1>6. /\ Tower(t, s) /\ s # <<>> /\ s[Len(s)] = f
        /\ s[1] = stack[t][1] \/ (Depth(t) = 1 /\ s[1] = f)
        /\ stack' = [stack EXCEPT ![t] = s] /\ stack' \in [Thread -> Seq(Frame)]
        /\ \A u \in Thread : \A k \in 1 .. MaxDepth : \A j \in Job :
              Runs(stack'[u], k, j) <=>
                 IF u = t /\ k = Depth(t) THEN f.task = TaskOf(j) ELSE Runs(stack[u], k, j)
    BY <1>1, <1>3, <1>4, <1>5, RunsAfter
  <1>7. s \in Seq(Frame) /\ s[1].at = stack[t][1].at
    BY <1>1, <1>3, <1>6 DEF Tower
  <1>8. UNCHANGED <<outcome, queue, ran, timer, source, events, spawned, stopped, mailbox, parent, posts, late>>
    BY DEF EndTurn, localVars, workerVars
  <1>9. \A j \in Job : Runs(stack[t], Depth(t), j) <=> task = TaskOf(j)
    BY <1>1 DEF Runs
  <1>10. /\ job' \in [Job -> JobStage]
         /\ \A j \in Job : IF task = TaskOf(j) THEN job[j] = "delivering" /\ job'[j] = "settled"
                                               ELSE job'[j] = job[j]
         /\ inflight' \in Nat /\ inflight' = Cardinality(Outstanding')
         /\ Outstanding' \subseteq Outstanding
    <2>1. IsFiniteSet(Outstanding) /\ inflight = Cardinality(Outstanding) /\ inflight \in Nat
      BY FS_Subset, JobAssumption DEF Outstanding, Core, InFlightExact, TypeOK
    <2>2. \A j \in Job : task = TaskOf(j) => job[j] = "delivering"
      BY <1>1, <1>9 DEF Core, RunOnce
    <2>3. CASE task.kind = "job"
      <3>1. /\ job' = [job EXCEPT ![task.of] = "settled"]
            /\ inflight' = inflight - 1
        BY <2>3 DEF EndTurn, NoteFinished
      <3>2. \A j \in Job : task = TaskOf(j) <=> j = task.of
        BY <1>2, <2>3, TasksNameJobs
      <3>3. /\ task.of \in Job /\ job[task.of] = "delivering"
            /\ job' \in [Job -> JobStage]
            /\ \A j \in Job : IF j = task.of THEN job'[j] = "settled" ELSE job'[j] = job[j]
        BY <1>2, <2>2, <2>3, <3>1, <3>2 DEF TypeOK, JobStage
      <3>4. Outstanding' = Outstanding \ {task.of} /\ task.of \in Outstanding
        BY <3>3 DEF Outstanding
      <3>5. Cardinality(Outstanding') = Cardinality(Outstanding) - 1 /\ Cardinality(Outstanding') \in Nat
        BY <2>1, <3>4, FS_RemoveElement, FS_CardinalityType
      <3> QED
        BY <2>1, <2>2, <3>1, <3>2, <3>3, <3>4, <3>5
    <2>4. CASE task.kind # "job"
      <3>1. job' = job /\ inflight' = inflight
        BY <2>4 DEF EndTurn
      <3>2. Outstanding' = Outstanding
        BY <3>1 DEF Outstanding
      <3>3. \A j \in Job : task # TaskOf(j)
        BY <2>4 DEF TaskOf
      <3> QED
        BY <2>1, <3>1, <3>2, <3>3 DEF TypeOK
    <2> QED
      BY <2>3, <2>4
  <1> HIDE DEF task, s
  <1>11. TypeOK'
    BY <1>6, <1>8, <1>10 DEF TypeOK
  <1>12. Shape'
    BY <1>1, <1>6, <1>8, ShapeAfter, RunningIsSpawned
  <1>13. Carried'
    BY <1>8 DEF Core, Carried
  <1>14. PostedOnce'
    BY <1>8, <1>10 DEF Core, PostedOnce, TaskOf
  <1>15. RunOnce'
    <2> SUFFICES ASSUME NEW j \in Job
                 PROVE  /\ job'[j] = "delivering" <=>
                              \E u \in Thread, k \in 1 .. MaxDepth : Runs(stack'[u], k, j)
                        /\ \A u, v \in Thread : \A k, m \in 1 .. MaxDepth :
                              Runs(stack'[u], k, j) /\ Runs(stack'[v], m, j) => u = v /\ k = m
      BY DEF RunOnce
    <2>1. /\ job[j] = "delivering" <=> \E u \in Thread, k \in 1 .. MaxDepth : Runs(stack[u], k, j)
          /\ \A u, v \in Thread : \A k, m \in 1 .. MaxDepth :
                Runs(stack[u], k, j) /\ Runs(stack[v], m, j) => u = v /\ k = m
      BY DEF Core, RunOnce
    <2>2. ~Runs(stack'[t], Depth(t), j)
      BY <1>1, <1>3, <1>6, TasksNameJobs
    <2>3. CASE task = TaskOf(j)
      <3>1. \A u \in Thread, k \in 1 .. MaxDepth : ~Runs(stack'[u], k, j)
        BY <1>1, <1>6, <1>9, <2>1, <2>2, <2>3
      <3> QED
        BY <3>1, <2>3, <1>10
    <2>4. CASE task # TaskOf(j)
      <3>1. \A u \in Thread, k \in 1 .. MaxDepth : Runs(stack'[u], k, j) <=> Runs(stack[u], k, j)
        BY <1>1, <1>6, <1>9, <2>2, <2>4
      <3> QED
        BY <3>1, <2>1, <2>4, <1>10
    <2> QED
      BY <2>3, <2>4
  <1>16. InFlightExact'
    BY <1>10 DEF InFlightExact
  <1>17. Probed'
    BY <1>1, <1>3, <1>6, <1>7, <1>8, <1>10, StackKeepsProbed DEF Core, Open
  <1>18. LateOnce'
    BY <1>1, <1>6, <1>7, <1>8, StackKeepsLate DEF Core
  <1>19. EndsClean'
    BY <1>1, <1>8 DEF EndsClean, ExitClean, OpenEventsServed
  <1> QED
    BY <1>11, <1>12, <1>13, <1>14, <1>15, <1>16, <1>17, <1>18, <1>19 DEF Core

-----------------------------------------------------------------------------
(* What scripts do.                                                         *)
LEMMA KeepSettlePromise ==
    ASSUME TypeOK, Core, NEW t \in Thread, NEW k \in 1 .. Depth(t),
           NEW r \in {"resolved", "rejected"}, SettlePromise(t, k, r)
    PROVE  TypeOK' /\ Core'
  <1> DEFINE f == [stack[t][k] EXCEPT !.promise = r]
             s == [stack[t] EXCEPT ![k] = f]
  <1>1. /\ stack[t] # <<>> /\ outcome = "running" /\ Shape /\ stack[t] \in Seq(Frame)
        /\ Top(t).js /\ Depth(t) = Len(stack[t]) /\ Top(t) = stack[t][Depth(t)]
        /\ Depth(t) \in 1 .. Len(stack[t])
    BY TopIsGood DEF SettlePromise, InTurn, Core, Alive
  <1>2. /\ k \in 1 .. Len(stack[t]) /\ stack[t][k] \in Frame
        /\ GoodFrame(t, k, stack[t][k]) /\ stack[t][k].js
    BY <1>1 DEF Shape, Tower
  <1>3. /\ f \in Frame /\ f.task = stack[t][k].task /\ f.js
        /\ f.at = stack[t][k].at /\ f.loop = stack[t][k].loop
    BY <1>2 DEF Frame
  <1>4. GoodFrame(t, k, f)
    BY <1>2, <1>3 DEF GoodFrame
  <1>5. stack' = [stack EXCEPT ![t] = s]
    BY DEF SettlePromise
  <1> HIDE DEF f
  <1>6. /\ Tower(t, s) /\ Len(s) = Len(stack[t]) /\ s[k] = f
        /\ \A m \in 1 .. Len(s) : m # k => s[m] = stack[t][m]
    BY <1>1, <1>2, <1>3, <1>4, FrameReplaced
  <1> HIDE DEF s
  <1>7. SameRuns(s, stack[t])
    BY <1>2, <1>3, <1>6, FrameKeepsTask
  <1>8. s[Len(s)].js /\ s[1].at = stack[t][1].at
    BY <1>1, <1>2, <1>3, <1>6
  <1>9. UNCHANGED <<outcome, queue, inflight, job, source, late, spawned, stopped>>
    BY DEF SettlePromise, asyncVars, localVars, workerVars
  <1>10. Core' /\ stack' \in [Thread -> Seq(Frame)]
    BY <1>1, <1>5, <1>6, <1>7, <1>8, <1>9, StackStep, RunningIsSpawned
  <1> QED
    BY <1>10 DEF TypeOK, SettlePromise, asyncVars, localVars, workerVars

LEMMA KeepBlock ==
    ASSUME TypeOK, Core, NEW t \in Thread, Block(t)
    PROVE  TypeOK' /\ Core'
  <1> DEFINE s == Append(stack[t], NewLoop("await", "check"))
  <1>1. stack[t] # <<>> /\ outcome = "running" /\ Shape /\ InTurn(t) /\ Depth(t) < MaxDepth
    BY DEF Block, InTurn, Alive, Core
  <1>2. /\ Tower(t, s) /\ SameRuns(s, stack[t])
        /\ s[Len(s)].at = "check" /\ s[1] = stack[t][1]
    BY <1>1, LoopPushed
  <1>3. stack' = [stack EXCEPT ![t] = s]
    BY DEF Block
  <1> HIDE DEF s
  <1>4. UNCHANGED <<outcome, queue, inflight, job, source, late, spawned, stopped>>
    BY DEF Block, asyncVars, localVars, workerVars
  <1>5. Core' /\ stack' \in [Thread -> Seq(Frame)]
    BY <1>1, <1>2, <1>3, <1>4, StackStep, RunningIsSpawned
  <1> QED
    BY <1>5 DEF TypeOK, Block, asyncVars, localVars, workerVars

LEMMA KeepSpawn ==
    ASSUME TypeOK, Core, NEW w \in Worker, Spawn(w)
    PROVE  TypeOK' /\ Core'
  <1>1. w \in Thread /\ w # Main /\ outcome = "running" /\ Shape /\ stack[w] = <<>>
    BY ThreadAssumption DEF Spawn, InTurn, Alive, Core, Shape, Thread
  <1>2. GoodFrame(w, 1, EntryLoop)
    BY EntryLoopIsFrame DEF GoodFrame, PointOf, NoTask
  <1>3. Tower(w, <<EntryLoop>>) /\ SameRuns(<<EntryLoop>>, stack[w])
    BY <1>1, <1>2, EntryLoopIsFrame, LoopReplaced DEF Idle
  <1>4. stack' = [stack EXCEPT ![w] = <<EntryLoop>>] /\ spawned' = spawned \cup {w}
    BY DEF Spawn
  <1>5. UNCHANGED <<outcome, queue, inflight, job, source, late, stopped>>
    BY DEF Spawn, asyncVars, localVars
  <1>6. Core' /\ stack' \in [Thread -> Seq(Frame)]
    BY <1>1, <1>3, <1>4, <1>5, EntryLoopIsFrame, StackStep
  <1> QED
    BY <1>6 DEF TypeOK, Spawn, asyncVars, localVars

(* Steps that change no stack and no operation.                             *)
LEMMA LocalStepKeeps ==
    ASSUME TypeOK, Core, outcome = "running",
           UNCHANGED <<stack, outcome, queue, inflight, job, spawned, late>>,
           \A s \in Source : source[s] # "unopened" => source'[s] # "unopened",
           Open' \subseteq Open \/ InTurn(Main),
           \A w \in Worker : stopped[w] => stopped'[w]
    PROVE  Core'
  <1>1. Shape' /\ PostedOnce' /\ RunOnce' /\ InFlightExact'
    BY DEF Core, Shape, Tower, GoodFrame, PostedOnce, RunOnce, Runs, TaskOf, InFlightExact, Outstanding
  <1>2. Carried' /\ LateOnce'
    BY DEF Core, Carried, LateOnce
  <1>3. Probed'
    <2> SUFFICES ASSUME NEW t \in Thread, At(t, "probeWorkers"), ~Top(t).did
                 PROVE  /\ \A j \in Outstanding : Owner[j] # t
                        /\ t = Main => Open' = {}
      BY DEF Probed, At, Alive, Top, Depth, Outstanding
    <2> QED
      BY DEF Core, Probed, At, InTurn
  <1>4. EndsClean'
    BY DEF EndsClean, ExitClean, OpenEventsServed
  <1> QED
    BY <1>1, <1>2, <1>3, <1>4 DEF Core

LEMMA KeepTimerSteps ==
    ASSUME TypeOK, Core, NEW x \in Timer,
           FallDue(x) \/ \E t \in Thread : SetTimer(t, x) \/ ClearTimer(t, x)
    PROVE  TypeOK' /\ Core'
  <1>1. /\ outcome = "running" /\ timer' \in [Timer -> TimerStage]
        /\ UNCHANGED <<loopVars, asyncVars, source, events, workerVars>>
    BY DEF TypeOK, TimerStage, FallDue, SetTimer, ClearTimer, InTurn, Alive
  <1>2. Core'
    BY <1>1, LocalStepKeeps DEF Open, loopVars, asyncVars, workerVars
  <1> QED
    BY <1>1, <1>2 DEF TypeOK, loopVars, asyncVars, workerVars

LEMMA KeepSourceSteps ==
    ASSUME TypeOK, Core, NEW s \in Source, OpenSource(s) \/ CloseSource(s)
    PROVE  TypeOK' /\ Core'
  <1>1. /\ outcome = "running" /\ InTurn(Main)
        /\ source' \in [Source -> {"unopened", "open", "closed"}]
        /\ \A z \in Source : source[z] # "unopened" => source'[z] # "unopened"
        /\ UNCHANGED <<loopVars, asyncVars, timer, events, workerVars>>
    BY DEF TypeOK, OpenSource, CloseSource, InTurn, Alive
  <1>2. Core'
    BY <1>1, LocalStepKeeps DEF loopVars, asyncVars, workerVars
  <1> QED
    BY <1>1, <1>2 DEF TypeOK, loopVars, asyncVars, workerVars

LEMMA KeepMessageSteps ==
    ASSUME TypeOK, Core, NEW w \in Worker, PostToWorker(w) \/ PostToParent(w) \/ Terminate(w)
    PROVE  TypeOK' /\ Core'
  <1>1. /\ outcome = "running"
        /\ UNCHANGED <<loopVars, asyncVars, localVars, spawned, late>>
    BY DEF PostToWorker, PostToParent, Terminate, InTurn, Alive
  <1>2. /\ stopped' \in [Worker -> BOOLEAN]
        /\ \A v \in Worker : stopped[v] => stopped'[v]
    BY DEF TypeOK, PostToWorker, PostToParent, Terminate
  <1>3. /\ mailbox' \in [Worker -> Seq(WorkerMsg)] /\ parent' \in [Worker -> Seq(ParentEvent)]
        /\ posts' \in [Worker -> [to : 0 .. MaxPosts, from : 0 .. MaxPosts]]
    <2>1. posts[w] \in [to : 0 .. MaxPosts, from : 0 .. MaxPosts]
      BY DEF TypeOK
    <2>2. CASE PostToWorker(w)
      <3>1. Append(mailbox[w], "message") \in Seq(WorkerMsg)
        BY DEF TypeOK, WorkerMsg
      <3>2. [posts[w] EXCEPT !.to = @ + 1] \in [to : 0 .. MaxPosts, from : 0 .. MaxPosts]
        BY <2>1, <2>2, BoundsAssumption DEF PostToWorker
      <3>3. posts' = [posts EXCEPT ![w] = [posts[w] EXCEPT !.to = @ + 1]]
        BY <2>2 DEF PostToWorker
      <3> QED
        BY <2>2, <3>1, <3>2, <3>3 DEF TypeOK, PostToWorker
    <2>3. CASE PostToParent(w)
      <3>1. Append(parent[w], "message") \in Seq(ParentEvent)
        BY DEF TypeOK, ParentEvent
      <3>2. [posts[w] EXCEPT !.from = @ + 1] \in [to : 0 .. MaxPosts, from : 0 .. MaxPosts]
        BY <2>1, <2>3, BoundsAssumption DEF PostToParent
      <3>3. posts' = [posts EXCEPT ![w] = [posts[w] EXCEPT !.from = @ + 1]]
        BY <2>3 DEF PostToParent
      <3> QED
        BY <2>3, <3>1, <3>2, <3>3 DEF TypeOK, PostToParent
    <2>4. CASE Terminate(w)
      <3>1. Append(mailbox[w], "terminate") \in Seq(WorkerMsg)
        BY DEF TypeOK, WorkerMsg
      <3> QED
        BY <2>4, <3>1 DEF TypeOK, Terminate
    <2> QED
      BY <2>2, <2>3, <2>4
  <1>5. Core'
    BY <1>1, <1>2, LocalStepKeeps DEF Open, loopVars, asyncVars, localVars
  <1> QED
    BY <1>1, <1>2, <1>3, <1>5 DEF TypeOK, loopVars, asyncVars, localVars

(* Steps that change no stack, but an operation or the queue.               *)
LEMMA KeepStartJob ==
    ASSUME TypeOK, Core, NEW t \in Thread, NEW j \in Job, StartJob(t, j)
    PROVE  TypeOK' /\ Core'
  <1>1. /\ outcome = "running" /\ InTurn(t) /\ Owner[j] = t /\ job[j] = "idle"
        /\ job' = [job EXCEPT ![j] = "running"] /\ inflight' = inflight + 1
        /\ UNCHANGED <<stack, outcome, queue, ran, timer, source, events, spawned, stopped, mailbox,
                       parent, posts, late>>
    BY DEF StartJob, InTurn, Alive, loopVars, localVars, workerVars
  <1>2. /\ job' \in [Job -> JobStage]
        /\ \A i \in Job : IF i = j THEN job'[i] = "running" ELSE job'[i] = job[i]
    BY <1>1 DEF TypeOK, JobStage
  <1>3. Outstanding' = Outstanding \cup {j} /\ j \notin Outstanding
    BY <1>1, <1>2 DEF Outstanding
  <1>4. InFlightExact'
    <2>1. IsFiniteSet(Outstanding)
      BY FS_Subset, JobAssumption DEF Outstanding
    <2> QED
      BY <1>1, <1>3, <2>1, FS_AddElement DEF Core, InFlightExact
  <1>5. TypeOK'
    BY <1>1, <1>2 DEF TypeOK
  <1>6. Shape' /\ Carried' /\ LateOnce'
    BY <1>1 DEF Core, Shape, Tower, GoodFrame, Carried, LateOnce
  <1>7. PostedOnce' /\ RunOnce'
    <2>1. /\ UNCHANGED <<stack, queue>>
          /\ \A i \in Job : /\ job'[i] = "posted" <=> job[i] = "posted"
                            /\ job'[i] = "delivering" <=> job[i] = "delivering"
      BY <1>1, <1>2
    <2>2. PostedOnce'
      BY <2>1 DEF Core, PostedOnce, TaskOf
    <2>3. RunOnce'
      BY <2>1 DEF Core, RunOnce, Runs, TaskOf
    <2> QED
      BY <2>2, <2>3
  <1>8. Probed'
    <2> SUFFICES ASSUME NEW u \in Thread, At(u, "probeWorkers"), ~Top(u).did
                 PROVE  /\ \A i \in Outstanding \cup {j} : Owner[i] # u
                        /\ u = Main => Open = {}
      BY <1>1, <1>3 DEF Probed, At, Alive, Top, Depth, Open
    <2>1. u # t
      BY <1>1 DEF At, InTurn
    <2> QED
      BY <1>1, <2>1 DEF Core, Probed
  <1>9. EndsClean'
    BY <1>1 DEF EndsClean, ExitClean, OpenEventsServed
  <1> QED
    BY <1>4, <1>5, <1>6, <1>7, <1>8, <1>9 DEF Core

LEMMA AppendTask ==
    ASSUME NEW q \in Seq(Task), NEW x \in Task
    PROVE  /\ Append(q, x) \in Seq(Task) /\ Len(Append(q, x)) = Len(q) + 1 /\ Len(q) \in Nat
           /\ \A i \in 1 .. Len(q) : Append(q, x)[i] = q[i]
           /\ Append(q, x)[Len(q) + 1] = x
  OBVIOUS

LEMMA KeepComplete ==
    ASSUME TypeOK, Core, NEW j \in Job, Complete(j)
    PROVE  TypeOK' /\ Core'
  <1>1. /\ outcome = "running" /\ job[j] = "running" /\ job' = [job EXCEPT ![j] = "posted"]
        /\ queue' = Append(queue, TaskOf(j))
        /\ UNCHANGED <<stack, outcome, inflight, ran, timer, source, events, spawned, stopped, mailbox,
                       parent, posts, late>>
    BY DEF Complete, GaugeAtPost, TaskOf, loopVars, localVars, workerVars
  <1>2. /\ job' \in [Job -> JobStage]
        /\ \A i \in Job : IF i = j THEN job'[i] = "posted" ELSE job'[i] = job[i]
    BY <1>1 DEF TypeOK, JobStage
  <1>3. Outstanding' = Outstanding
    BY <1>1, <1>2 DEF Outstanding
  <1>4. /\ queue \in Seq(Task) /\ queue' \in Seq(Task) /\ Len(queue') = Len(queue) + 1 /\ Len(queue) \in Nat
        /\ \A i \in 1 .. Len(queue) : queue'[i] = queue[i]
        /\ queue'[Len(queue) + 1] = TaskOf(j)
    BY <1>1, AppendTask, TasksNameJobs DEF TypeOK
  <1>5. TypeOK'
    BY <1>1, <1>2, <1>4 DEF TypeOK
  <1>6. Shape' /\ LateOnce' /\ InFlightExact'
    BY <1>1, <1>3 DEF Core, Shape, Tower, GoodFrame, LateOnce, InFlightExact
  <1>7. Carried'
    BY <1>1, <1>4 DEF Core, Carried, TaskOf
  <1>8. RunOnce'
    BY <1>1, <1>2 DEF Core, RunOnce, Runs, TaskOf
  <1>9. PostedOnce'
    <2> SUFFICES ASSUME NEW i \in Job
                 PROVE  /\ job'[i] = "posted" <=> \E m \in 1 .. Len(queue') : queue'[m] = TaskOf(i)
                        /\ \A m, n \in 1 .. Len(queue') :
                              queue'[m] = TaskOf(i) /\ queue'[n] = TaskOf(i) => m = n
      BY DEF PostedOnce, TaskOf
    <2>1. /\ job[i] = "posted" <=> \E m \in 1 .. Len(queue) : queue[m] = TaskOf(i)
          /\ \A m, n \in 1 .. Len(queue) : queue[m] = TaskOf(i) /\ queue[n] = TaskOf(i) => m = n
      BY DEF Core, PostedOnce
    <2>2. 1 .. Len(queue') = 1 .. Len(queue) \cup {Len(queue) + 1}
      BY <1>4
    <2>3. CASE i = j
      BY <1>1, <1>2, <1>4, <2>1, <2>2, <2>3
    <2>4. CASE i # j
      BY <1>2, <1>4, <2>1, <2>2, <2>4, TasksNameJobs
    <2> QED
      BY <2>3, <2>4
  <1>10. Probed'
    BY <1>1, <1>3 DEF Core, Probed, At, Alive, Top, Depth, Open
  <1>11. EndsClean'
    BY <1>1 DEF EndsClean, ExitClean, OpenEventsServed
  <1> QED
    BY <1>5, <1>6, <1>7, <1>8, <1>9, <1>10, <1>11 DEF Core

LEMMA KeepArrive ==
    ASSUME TypeOK, Core, NEW s \in Source, Arrive(s)
    PROVE  TypeOK' /\ Core'
  <1> DEFINE x == [kind |-> "event", of |-> s]
  <1>1. /\ outcome = "running" /\ source[s] # "unopened" /\ queue' = Append(queue, x)
        /\ UNCHANGED <<stack, outcome, inflight, job, ran, timer, source, spawned, stopped, mailbox,
                       parent, posts, late>>
    BY DEF Arrive, loopVars, workerVars
  <1>2. x \in Task /\ x.kind = "event" /\ x.of = s /\ \A i \in Job : x # TaskOf(i)
    BY DEF Task, TaskOf
  <1> HIDE DEF x
  <1>3. /\ queue \in Seq(Task) /\ queue' \in Seq(Task) /\ Len(queue') = Len(queue) + 1 /\ Len(queue) \in Nat
        /\ \A i \in 1 .. Len(queue) : queue'[i] = queue[i]
        /\ queue'[Len(queue) + 1] = x
    BY <1>1, <1>2, AppendTask DEF TypeOK
  <1>4. events' \in [Source -> 0 .. MaxEvents]
    BY BoundsAssumption DEF Arrive, TypeOK
  <1>5. TypeOK'
    BY <1>1, <1>3, <1>4 DEF TypeOK
  <1>6. Shape' /\ LateOnce' /\ InFlightExact' /\ RunOnce'
    BY <1>1 DEF Core, Shape, Tower, GoodFrame, LateOnce, InFlightExact, Outstanding, RunOnce, Runs, TaskOf
  <1>7. Carried'
    BY <1>1, <1>2, <1>3 DEF Core, Carried
  <1>8. PostedOnce'
    <2> SUFFICES ASSUME NEW i \in Job
                 PROVE  /\ job'[i] = "posted" <=> \E m \in 1 .. Len(queue') : queue'[m] = TaskOf(i)
                        /\ \A m, n \in 1 .. Len(queue') :
                              queue'[m] = TaskOf(i) /\ queue'[n] = TaskOf(i) => m = n
      BY DEF PostedOnce, TaskOf
    <2>1. /\ job[i] = "posted" <=> \E m \in 1 .. Len(queue) : queue[m] = TaskOf(i)
          /\ \A m, n \in 1 .. Len(queue) : queue[m] = TaskOf(i) /\ queue[n] = TaskOf(i) => m = n
      BY DEF Core, PostedOnce
    <2>2. 1 .. Len(queue') = 1 .. Len(queue) \cup {Len(queue) + 1}
      BY <1>3
    <2> QED
      BY <1>1, <1>2, <1>3, <2>1, <2>2
  <1>9. Probed'
    BY <1>1 DEF Core, Probed, At, Alive, Top, Depth, Open, Outstanding
  <1>10. EndsClean'
    BY <1>1 DEF EndsClean, ExitClean, OpenEventsServed
  <1> QED
    BY <1>5, <1>6, <1>7, <1>8, <1>9, <1>10 DEF Core

-----------------------------------------------------------------------------
(* The invariant.                                                           *)

LEMMA InitCore == Init => TypeOK /\ Core
  <1> SUFFICES ASSUME Init PROVE TypeOK /\ Core
    OBVIOUS
  <1>1. TypeOK
    <2>1. /\ <<EntryLoop>> \in Seq(Frame)
          /\ \A t \in Thread : (IF t = Main THEN <<EntryLoop>> ELSE <<>>) \in Seq(Frame)
      BY EntryLoopIsFrame
    <2>2. stack \in [Thread -> Seq(Frame)]
      BY <2>1 DEF Init
    <2>3. /\ queue \in Seq(Task) /\ mailbox \in [Worker -> Seq(WorkerMsg)]
          /\ parent \in [Worker -> Seq(ParentEvent)]
      BY DEF Init
    <2>4. /\ events \in [Source -> 0 .. MaxEvents]
          /\ posts \in [Worker -> [to : 0 .. MaxPosts, from : 0 .. MaxPosts]]
      BY BoundsAssumption DEF Init
    <2>5. ran \in [Job -> Thread]
      BY JobAssumption DEF Init
    <2>6. job \in [Job -> JobStage] /\ timer \in [Timer -> TimerStage]
      BY DEF Init, JobStage, TimerStage
    <2> QED
      BY <2>2, <2>3, <2>4, <2>5, <2>6 DEF Init, TypeOK, Outcome
  <1>2. /\ \A t \in Thread : stack[t] = IF t = Main THEN <<EntryLoop>> ELSE <<>>
        /\ queue = <<>> /\ outcome = "running" /\ Outstanding = {}
    BY DEF Init, Outstanding
  <1>3. Shape
    <2>1. \A t \in Thread : stack[t] # <<>> =>
             /\ t = Main /\ Len(stack[t]) = 1 /\ stack[t][1] = EntryLoop
      BY <1>2
    <2>2. GoodFrame(Main, 1, EntryLoop)
      BY EntryLoopIsFrame DEF GoodFrame, PointOf, NoTask
    <2>3. ASSUME NEW t \in Thread PROVE Tower(t, stack[t])
      <3>1. stack[t] \in Seq(Frame) /\ Len(<<>>) = 0
        BY <1>1 DEF TypeOK
      <3>2. CASE stack[t] = <<>>
        BY <3>1, <3>2, BoundsAssumption DEF Tower
      <3>3. CASE stack[t] # <<>>
        <4>1. t = Main /\ Len(stack[t]) = 1 /\ stack[t][1] = EntryLoop /\ 1 <= MaxDepth
          BY <2>1, <3>3, BoundsAssumption
        <4>2. \A k \in 1 .. Len(stack[t]) : k = 1
          BY <4>1
        <4> QED
          BY <2>2, <3>1, <4>1, <4>2 DEF Tower
      <3> QED
        BY <3>2, <3>3
    <2> QED
      BY <1>2, <2>3, ThreadAssumption DEF Shape, Thread
  <1>4. PostedOnce /\ Carried /\ EndsClean /\ LateOnce
    BY <1>2 DEF PostedOnce, Carried, EndsClean, ExitClean, OpenEventsServed, LateOnce, Init
  <1>5. RunOnce
    <2>1. \A t \in Thread, k \in 1 .. MaxDepth : \A j \in Job : ~Runs(stack[t], k, j)
      BY <1>2, EntryLoopIsFrame, TasksNameJobs DEF Runs
    <2> QED
      BY <2>1 DEF RunOnce, Init
  <1>6. InFlightExact
    BY <1>2, FS_EmptySet DEF InFlightExact, Init
  <1>7. Probed
    BY <1>2, EntryLoopIsFrame DEF Probed, At, Alive, Top, Depth
  <1> QED
    BY <1>1, <1>3, <1>4, <1>5, <1>6, <1>7 DEF Core

LEMMA StutterKeeps ==
    ASSUME TypeOK, Core, UNCHANGED vars
    PROVE  TypeOK' /\ Core'
  <1>1. UNCHANGED <<stack, outcome, queue, inflight, job, ran, timer, source, events,
                    spawned, stopped, mailbox, parent, posts, late>>
    BY DEF vars, loopVars, asyncVars, localVars, workerVars
  <1>2. TypeOK'
    BY <1>1 DEF TypeOK
  <1>3. Shape' /\ Carried' /\ LateOnce' /\ InFlightExact'
    BY <1>1 DEF Core, Shape, Tower, GoodFrame, Carried, LateOnce, InFlightExact, Outstanding
  <1>4. PostedOnce' /\ RunOnce'
    BY <1>1 DEF Core, PostedOnce, RunOnce, Runs, TaskOf
  <1>5. Probed'
    BY <1>1 DEF Core, Probed, At, Alive, Top, Depth, Open, Outstanding
  <1>6. EndsClean'
    BY <1>1 DEF Core, EndsClean, ExitClean, OpenEventsServed, Pending, Outstanding, Armed, Open, Active
  <1> QED
    BY <1>2, <1>3, <1>4, <1>5, <1>6 DEF Core

LEMMA NextCore == TypeOK /\ Core /\ [Next]_vars => TypeOK' /\ Core'
  <1> SUFFICES ASSUME TypeOK, Core, [Next]_vars PROVE TypeOK' /\ Core'
    OBVIOUS
  <1>1. CASE UNCHANGED vars
    BY <1>1, StutterKeeps
  <1>2. ASSUME NEW t \in Thread, Script(t) PROVE TypeOK' /\ Core'
    BY <1>2, KeepStartJob, KeepTimerSteps, KeepSettlePromise, KeepBlock DEF Script
  <1>3. ASSUME NEW t \in Thread, LoopStep(t) PROVE TypeOK' /\ Core'
    BY <1>3, KeepTakeTask, KeepDrained, KeepPump, KeepDeliver, KeepPumped, KeepFire, KeepIdleTick,
       KeepCheck, KeepPromiseSettled, KeepProbe, KeepNap, KeepDeadlocked DEF LoopStep
  <1>4. CASE MainScript
    BY <1>4, KeepSourceSteps, KeepSpawn, KeepMessageSteps DEF MainScript
  <1>5. ASSUME NEW w \in Worker, PostToParent(w) \/ WorkerStep(w) PROVE TypeOK' /\ Core'
    BY <1>5, KeepMessageSteps, KeepCheckStopped, KeepReceive, KeepNoMessage, KeepSendError,
       KeepStopFailed DEF WorkerStep
  <1>6. CASE World
    BY <1>6, KeepComplete, KeepTimerSteps, KeepArrive DEF World
  <1>7. CASE Gone
    BY <1>7, StutterKeeps DEF Gone
  <1> QED
    BY <1>1, <1>2, <1>3, <1>4, <1>5, <1>6, <1>7, KeepEndTurn, KeepExit DEF Next

(* Every reachable state has the types of TypeOK and the shape of Core.     *)
THEOREM CoreHolds == Spec => [](TypeOK /\ Core)
  BY InitCore, NextCore, PTL DEF Spec

-----------------------------------------------------------------------------
(* What follows from it.                                                    *)

(* Every variable keeps its type, the gauge never below zero.               *)
THEOREM TypeCorrect == Spec => []TypeOK
  BY CoreHolds, PTL

(* The gauge counts exactly the operations that have not been delivered.    *)
THEOREM GaugeExact == Spec => []InFlightExact
  <1>1. TypeOK /\ Core => InFlightExact
    BY DEF Core
  <1> QED
    BY <1>1, CoreHolds, PTL

LEMMA CoreDelivers ==
    ASSUME TypeOK, Core
    PROVE  DeliveredOnce
  <1> SUFFICES ASSUME NEW j \in Job
               PROVE  /\ IF job[j] = "posted" THEN \E i \in Queued(j) : Queued(j) = {i}
                                              ELSE Queued(j) = {}
                      /\ IF job[j] = "delivering" THEN \E c \in Turns(j) : Turns(j) = {c}
                                                  ELSE Turns(j) = {}
    BY DEF DeliveredOnce
  <1>1. IF job[j] = "posted" THEN \E i \in Queued(j) : Queued(j) = {i} ELSE Queued(j) = {}
    <2>1. /\ job[j] = "posted" <=> \E i \in 1 .. Len(queue) : queue[i] = TaskOf(j)
          /\ \A i, m \in 1 .. Len(queue) : queue[i] = TaskOf(j) /\ queue[m] = TaskOf(j) => i = m
      BY DEF Core, PostedOnce
    <2> QED
      BY <2>1 DEF Queued
  <1>2. \A c \in Thread \X (1 .. MaxDepth) : c \in Turns(j) <=> Runs(stack[c[1]], c[2], j)
    <2> SUFFICES ASSUME NEW t \in Thread, NEW k \in 1 .. MaxDepth
                 PROVE  <<t, k>> \in Turns(j) <=> Runs(stack[t], k, j)
      OBVIOUS
    <2>1. Len(stack[t]) \in Nat
      BY DEF TypeOK
    <2> QED
      BY <2>1, BoundsAssumption DEF Turns, Runs, Depth
  <1>3. Turns(j) \subseteq Thread \X (1 .. MaxDepth)
    BY DEF Turns
  <1>4. CASE job[j] = "delivering"
    <2>1. PICK t \in Thread, k \in 1 .. MaxDepth : Runs(stack[t], k, j)
      BY <1>4 DEF Core, RunOnce
    <2>2. <<t, k>> \in Turns(j)
      BY <1>2, <2>1
    <2>3. ASSUME NEW c \in Turns(j) PROVE c = <<t, k>>
      <3>1. PICK u \in Thread, m \in 1 .. MaxDepth : c = <<u, m>>
        BY <1>3
      <3>2. Runs(stack[u], m, j)
        BY <1>2, <3>1
      <3> QED
        BY <2>1, <3>1, <3>2 DEF Core, RunOnce
    <2> QED
      BY <1>1, <1>4, <2>2, <2>3
  <1>5. CASE job[j] # "delivering"
    <2>1. \A t \in Thread, k \in 1 .. MaxDepth : ~Runs(stack[t], k, j)
      BY <1>5 DEF Core, RunOnce
    <2>2. \A c \in Thread \X (1 .. MaxDepth) : c \notin Turns(j)
      BY <1>2, <2>1
    <2> QED
      BY <1>1, <1>3, <1>5, <2>2
  <1> QED
    BY <1>4, <1>5

(* A completed operation is in the queue once until a thread takes it, and  *)
(* then exactly one turn of one thread runs its task, however the loops     *)
(* that drain the queue nest and interleave.                                *)
THEOREM DeliveredOnceHolds == Spec => []DeliveredOnce
  <1>1. TypeOK /\ Core => DeliveredOnce
    BY CoreDelivers
  <1> QED
    BY <1>1, CoreHolds, PTL

(* A loop about to give up has nothing of its thread left to wait for,      *)
(* although it read the flags one after the other.                          *)
THEOREM IdleIsFreshHolds == Spec => []IdleIsFresh
  <1>1. TypeOK /\ Core => IdleIsFresh
    BY FreshWhenIdle DEF IdleIsFresh
  <1> QED
    BY <1>1, CoreHolds, PTL

(* A normal exit leaves no operation or timer of the main thread, no open   *)
(* source and no active worker.                                             *)
THEOREM ExitCleanHolds == Spec => []ExitClean
  <1>1. TypeOK /\ Core => ExitClean
    BY DEF Core, EndsClean
  <1> QED
    BY <1>1, CoreHolds, PTL

(* A normal exit drops no event of a source that is still open.             *)
THEOREM OpenEventsServedHolds == Spec => []OpenEventsServed
  <1>1. TypeOK /\ Core => OpenEventsServed
    BY DEF Core, EndsClean
  <1> QED
    BY <1>1, CoreHolds, PTL

(* A stopped worker receives at most one more message.                      *)
THEOREM AtMostOneLateHolds == Spec => []AtMostOneLate
  <1>1. TypeOK /\ Core => AtMostOneLate
    <2>1. TypeOK /\ Core => \A w \in Worker : late[w] \in Nat /\ (late[w] > 0 => late[w] = 1)
      BY DEF Core, LateOnce, TypeOK
    <2> QED
      BY <2>1 DEF AtMostOneLate
  <1> QED
    BY <1>1, CoreHolds, PTL

-----------------------------------------------------------------------------
(* The loops implement the asynchronous process.                            *)

ops == [j \in Job |-> OpOf(j)]

LEMMA OpStages ==
    ASSUME TypeOK, NEW j \in Job
    PROVE  /\ OpOf(j) = "idle" <=> job[j] = "idle"
           /\ OpOf(j) = "pending" <=> job[j] \in {"running", "posted", "delivering"}
           /\ OpOf(j) = "settled" <=> job[j] = "settled"
  BY DEF OpOf, Outstanding, TypeOK, JobStage

(* A step that starts and settles nothing leaves the abstract operations.   *)
LEMMA SameOps ==
    ASSUME TypeOK, TypeOK',
           \A j \in Job : \/ job'[j] = job[j]
                          \/ /\ job[j] \in {"running", "posted", "delivering"}
                             /\ job'[j] \in {"running", "posted", "delivering"}
    PROVE  ops' = ops
  <1>1. \A j \in Job : OpOf(j)' = OpOf(j)
    BY DEF OpOf, Outstanding, TypeOK, JobStage
  <1> QED
    BY <1>1 DEF ops

LEMMA StartImplements ==
    ASSUME TypeOK, TypeOK', NEW t \in Thread, NEW j \in Job, StartJob(t, j)
    PROVE  Process!Start(j)
  <1>1. /\ outcome = "running" /\ outcome' = outcome
        /\ job[j] = "idle" /\ job' = [job EXCEPT ![j] = "running"]
    BY DEF StartJob, InTurn, Alive, loopVars
  <1>2. OpOf(j) = "idle" /\ OpOf(j)' = "pending"
    BY <1>1 DEF OpOf, Outstanding, TypeOK
  <1>3. \A i \in Job : i # j => OpOf(i)' = OpOf(i)
    BY <1>1 DEF OpOf, Outstanding, TypeOK
  <1>4. ops[j] = "idle" /\ ops' = [ops EXCEPT ![j] = "pending"]
    BY <1>2, <1>3 DEF ops
  <1> QED
    BY <1>1, <1>4 DEF Process!Start, Process!Move, ops

LEMMA EndTurnImplements ==
    ASSUME TypeOK, Core, TypeOK', NEW t \in Thread, EndTurn(t)
    PROVE  (\E j \in Job : Process!Settle(j)) \/ (ops' = ops /\ outcome' = outcome)
  <1>1. outcome = "running" /\ outcome' = outcome /\ stack[t] # <<>>
    BY DEF EndTurn, InTurn, Alive
  <1>2. CASE Top(t).task.kind = "job"
    <2>1. /\ Depth(t) \in 1 .. MaxDepth /\ Depth(t) \in 1 .. Len(stack[t])
          /\ Top(t) \in Frame /\ Top(t) = stack[t][Depth(t)]
          /\ GoodFrame(t, Depth(t), Top(t))
      BY <1>1, TopIsGood, BoundsAssumption DEF Core
    <2>2. PICK j \in Job : j = Top(t).task.of
      BY <1>2, <2>1 DEF GoodFrame
    <2>3. Top(t).task = TaskOf(j)
      BY <1>2, <2>1, <2>2, TasksNameJobs DEF Frame
    <2>4. job[j] = "delivering"
      BY <2>1, <2>3 DEF Core, RunOnce, Runs
    <2>5. job' = [job EXCEPT ![j] = "settled"]
      BY <1>2, <2>2 DEF EndTurn
    <2>6. OpOf(j) = "pending" /\ OpOf(j)' = "settled"
      BY <2>4, <2>5 DEF OpOf, Outstanding, TypeOK
    <2>7. \A i \in Job : i # j => OpOf(i)' = OpOf(i)
      BY <2>5 DEF OpOf, Outstanding, TypeOK
    <2>8. ops[j] = "pending" /\ ops' = [ops EXCEPT ![j] = "settled"]
      BY <2>6, <2>7 DEF ops
    <2> QED
      BY <1>1, <2>8 DEF Process!Settle, Process!Move, ops
  <1>3. CASE Top(t).task.kind # "job"
    BY <1>1, <1>3, SameOps DEF EndTurn
  <1> QED
    BY <1>2, <1>3

LEMMA ReturnImplements ==
    ASSUME TypeOK, TypeOK', NEW t \in Thread, NEW ok \in BOOLEAN, Alive(t), Return(t, ok),
           UNCHANGED <<asyncVars, localVars, workerVars>>
    PROVE  Process!FailProcess \/ (ops' = ops /\ outcome' = outcome)
  <1>1. ops' = ops
    BY SameOps DEF asyncVars
  <1>2. outcome = "running" /\ (outcome' = outcome \/ outcome' = "failed")
    BY DEF Return, Alive
  <1> QED
    BY <1>1, <1>2 DEF Process!FailProcess, ops

LEMMA ExitImplements ==
    ASSUME TypeOK, Core, TypeOK', Exit
    PROVE  Process!ExitProcess
  <1>1. /\ outcome = "running" /\ outcome' = "exited" /\ job' = job
        /\ At(Main, "probeWorkers") /\ ~Waiting(Main) /\ Main \in Thread
    BY DEF Exit, At, Alive, asyncVars, Thread
  <1>2. Pending(Main) = {}
    BY <1>1, FreshWhenIdle
  <1>3. \A j \in Job : Owner[j] = Main => OpOf(j) # "pending"
    BY <1>2, OpStages DEF Pending, Outstanding
  <1>4. ops' = ops
    BY <1>1, SameOps
  <1> QED
    BY <1>1, <1>3, <1>4 DEF Process!ExitProcess, ops

LEMMA LoopStepImplements ==
    ASSUME TypeOK, Core, TypeOK', NEW t \in Thread, LoopStep(t)
    PROVE  Process!FailProcess \/ (ops' = ops /\ outcome' = outcome)
  <1>1. CASE TakeTask(t)
    <2>1. \A j \in Job : \/ job'[j] = job[j]
                         \/ job[j] = "posted" /\ job'[j] = "delivering"
      <3>1. queue # <<>> /\ queue \in Seq(Task)
        BY <1>1 DEF TakeTask, TypeOK
      <3>2. Head(queue) = queue[1] /\ 1 \in 1 .. Len(queue) /\ Head(queue) \in Task
        BY <3>1, HeadAndTail
      <3>3. CASE Head(queue).kind = "job"
        <4>1. Head(queue).of \in Job /\ Head(queue) = TaskOf(Head(queue).of)
          BY <3>2, <3>3, TasksNameJobs DEF Core, Carried
        <4>2. job[Head(queue).of] = "posted"
          BY <3>2, <4>1 DEF Core, PostedOnce
        <4> QED
          BY <1>1, <3>3, <4>1, <4>2 DEF TakeTask, TypeOK
      <3>4. CASE Head(queue).kind # "job"
        BY <1>1, <3>4 DEF TakeTask
      <3> QED
        BY <3>3, <3>4
    <2> QED
      BY <1>1, <2>1, SameOps DEF TakeTask
  <1>2. CASE PromiseSettled(t)
    BY <1>2, ReturnImplements DEF PromiseSettled, At
  <1>3. CASE Deadlocked(t)
    BY <1>3, ReturnImplements DEF Deadlocked, At
  <1>4. CASE ~(TakeTask(t) \/ PromiseSettled(t) \/ Deadlocked(t))
    <2>1. job' = job /\ outcome' = outcome
      BY <1>4 DEF LoopStep, Drained, Pump, Deliver, Pumped, Fire, IdleTick, Check, Probe, Nap, asyncVars
    <2> QED
      BY <2>1, SameOps
  <1> QED
    BY <1>1, <1>2, <1>3, <1>4

LEMMA StepImplements ==
    TypeOK /\ Core /\ TypeOK' /\ [Next]_vars => [Process!ProcessNext]_(Process!processVars)
  <1> SUFFICES ASSUME TypeOK, Core, TypeOK', [Next]_vars
               PROVE  \/ \E j \in Job : Process!Start(j) \/ Process!Settle(j)
                      \/ Process!ExitProcess \/ Process!FailProcess
                      \/ ops' = ops /\ outcome' = outcome
    BY DEF Process!ProcessNext, Process!processVars, ops
  <1>1. CASE UNCHANGED vars
    BY <1>1, SameOps DEF vars, loopVars, asyncVars
  <1>2. ASSUME NEW t \in Thread, Script(t)
        PROVE  (\E j \in Job : Process!Start(j)) \/ (ops' = ops /\ outcome' = outcome)
    <2>1. CASE \E j \in Job : StartJob(t, j)
      BY <2>1, StartImplements
    <2>2. CASE ~\E j \in Job : StartJob(t, j)
      <3>1. job' = job /\ outcome' = outcome
        BY <1>2, <2>2 DEF Script, SetTimer, ClearTimer, SettlePromise, Block, loopVars, asyncVars
      <3> QED
        BY <3>1, SameOps
    <2> QED
      BY <2>1, <2>2
  <1>3. CASE MainScript
    <2>1. job' = job /\ outcome' = outcome
      BY <1>3 DEF MainScript, OpenSource, CloseSource, Spawn, PostToWorker, Terminate, loopVars, asyncVars
    <2> QED
      BY <2>1, SameOps
  <1>4. ASSUME NEW w \in Worker, PostToParent(w) \/ WorkerStep(w)
        PROVE  ops' = ops /\ outcome' = outcome
    <2>1. job' = job /\ outcome' = outcome
      BY <1>4 DEF PostToParent, WorkerStep, CheckStopped, Receive, NoMessage, SendError, StopFailed,
                  loopVars, asyncVars
    <2> QED
      BY <2>1, SameOps
  <1>5. CASE World
    <2>1. outcome' = outcome /\ \A j \in Job : \/ job'[j] = job[j]
                                               \/ job[j] = "running" /\ job'[j] = "posted"
      BY <1>5 DEF World, Complete, FallDue, Arrive, loopVars, asyncVars, TypeOK
    <2> QED
      BY <2>1, SameOps
  <1>6. CASE Gone
    BY <1>1, <1>6 DEF Gone
  <1> QED
    BY <1>1, <1>2, <1>3, <1>4, <1>5, <1>6, EndTurnImplements, LoopStepImplements, ExitImplements DEF Next

(* The threads, their loops and the queue implement AsyncProcess: each      *)
(* operation settles at most once, and the process does not exit normally   *)
(* while one of the main thread is pending.                                 *)
THEOREM ProcessImplemented == Spec => ImplementsProcess
  <1>1. Init => Process!ProcessInit
    <2>1. Init => outcome = "running" /\ \A j \in Job : OpOf(j) = "idle"
      <3>1. \A j \in Job : job[j] = "idle" => OpOf(j) = "idle"
        BY DEF OpOf, Outstanding
      <3>2. Init => outcome = "running" /\ \A j \in Job : job[j] = "idle"
        BY DEF Init
      <3> QED
        BY <3>1, <3>2
    <2> QED
      BY <2>1 DEF Process!ProcessInit
  <1>2. TypeOK /\ Core /\ (TypeOK /\ Core)' /\ [Next]_vars => [Process!ProcessNext]_(Process!processVars)
    BY StepImplements
  <1> QED
    BY <1>1, <1>2, CoreHolds, PTL DEF Spec, ImplementsProcess, Process!ProcessSpec
=============================================================================
