---- MODULE TestRunner ----
(***************************************************************************)
(* `bun test` (crates/bun-runtime/src/test_runner.rs): the files are taken *)
(* one by one; loading a file collects its tests, each with a copy of the  *)
(* hooks that the blocks around it have declared so far, and the runner    *)
(* then runs the tests in order, one at a time.  All files share one       *)
(* runtime: what is not reset for a file is inherited from the file before.*)
(*                                                                         *)
(* A hook is the number of its declaration; `log` records which hooks and  *)
(* which tests of the current file ran, in order.                          *)
(***************************************************************************)
EXTENDS Naturals, Sequences, FiniteSets, SequencesExt, Subsequences

CONSTANTS Name,         \* names of describe blocks
          MaxDepth,     \* nesting of describe blocks
          MaxBlocks,    \* describe calls in a file
          MaxTests,     \* tests in a file
          MaxHooks,     \* hooks in all files
          MaxFiles,     \* files in a run
          undefined     \* not a sequence of hooks

\* JavaScript's undefined is no array.
ASSUME NoHookList == undefined \notin Seq(Nat)

HookKind == {"beforeAll", "afterAll", "beforeEach", "afterEach"}

VARIABLES
    phase,          \* "load", "run", "in test" or "exit"
    file,           \* number of the current file
    stack,          \* the describe stack: path and inherited hooks
    blocks,         \* describe calls so far in this file (bound)
    hooks,          \* hooks declared so far (numbers them)
    collector,      \* __bun_test_collector
    has_only,       \* __bun_has_only
    inner,          \* __bun_inner_afterAll: a sequence of hooks or undefined
    todo,           \* the tests of `all` that have not run yet
    prevPath,
    pathAfterAlls,  \* path -> hooks
    ranBeforeAll,
    failed,         \* total_fail > 0: the exit code
    log             \* what ran in this file

testVars == <<phase, file, stack, blocks, hooks, collector, has_only, inner, todo,
             prevPath, pathAfterAlls, ranBeforeAll, failed, log>>

NoHooks == [k \in HookKind |-> <<>>]
TopLevel == [path |-> <<>>, hooks |-> NoHooks, forceSkip |-> FALSE]
curr == Last(stack)

Event == [what : {"hook", "test"}, id : Nat]
HookRan(h) == [what |-> "hook", id |-> h]
TestRan(t) == [what |-> "test", id |-> t.id]
Ran(hs) == [i \in DOMAIN hs |-> HookRan(hs[i])]

----------------------------------------------------------------------------
\* Loading a file: describe, hooks and tests register themselves.

\* describe(name, body) runs the body at once, between a push and a pop.
\* A skipped block marks only its own level: a block inside it copies the
\* hooks of its parent but not forceSkip.
DescribeEnters ==
    /\ phase = "load" /\ blocks < MaxBlocks /\ Len(stack) <= MaxDepth
    /\ \E n \in Name, skip \in BOOLEAN :
          stack' = Append(stack, [path      |-> Append(curr.path, n),
                                  hooks     |-> curr.hooks,
                                  forceSkip |-> skip])
    /\ blocks' = blocks + 1
    /\ UNCHANGED <<phase, file, hooks, collector, has_only, inner, todo, prevPath,
                   pathAfterAlls, ranBeforeAll, failed, log>>

DescribeLeaves ==
    /\ phase = "load" /\ Len(stack) > 1
    /\ stack' = Front(stack)
    /\ UNCHANGED <<phase, file, blocks, hooks, collector, has_only, inner, todo,
                   prevPath, pathAfterAlls, ranBeforeAll, failed, log>>

\* beforeAll/afterAll/beforeEach/afterEach.  afterAll asks first whether a
\* test body is running; the flag it asks is cleared only after a test that
\* passed, so after a failed one the next file's hook is lost here.
DeclareHook(k) ==
    /\ hooks < MaxHooks
    /\ hooks' = hooks + 1
    /\ IF k = "afterAll" /\ inner # undefined
       THEN inner' = Append(inner, hooks') /\ UNCHANGED stack
       ELSE /\ stack' = [stack EXCEPT ![Len(stack)].hooks[k] = Append(@, hooks')]
            /\ UNCHANGED inner

HookDeclared ==
    /\ phase = "load"
    /\ \E k \in HookKind : DeclareHook(k)
    /\ UNCHANGED <<phase, file, blocks, collector, has_only, todo, prevPath,
                   pathAfterAlls, ranBeforeAll, failed, log>>

\* pushTest: the record keeps copies of the hooks declared so far.
pushTest(opts) ==
    collector' = Append(collector,
        [id      |-> Len(collector) + 1, path |-> curr.path, hooks |-> curr.hooks,
         skip    |-> opts = "skip" \/ curr.forceSkip,
         failing |-> opts = "failing", only |-> opts = "only"])

\* test and its variants; test.each pushes one test per row.
TestDeclared ==
    /\ phase = "load" /\ Len(collector) < MaxTests
    /\ \E opts \in {"plain", "skip", "failing", "only"} :
          pushTest(opts) /\ has_only' = (has_only \/ opts = "only")
    /\ UNCHANGED <<phase, file, stack, blocks, hooks, inner, todo, prevPath,
                   pathAfterAlls, ranBeforeAll, failed, log>>

----------------------------------------------------------------------------
\* Running the tests of a file.

\* The tests to run: with a .only anywhere, the others are skipped.
Selected(tests) ==
    [i \in DOMAIN tests |->
        IF has_only /\ ~tests[i].only THEN [tests[i] EXCEPT !.skip = TRUE] ELSE tests[i]]

\* Exited, but the outermost path that is left is forgotten.
ExitedOffByOne(p, q) ==
    [i \in 1..(Len(p) - Shared(p, q) - 1) |-> SubSeq(p, 1, Len(p) + 1 - i)]

\* The paths left on the way from p to q, the deepest first.
Exited(p, q) ==
    [i \in 1..(Len(p) - Shared(p, q)) |-> SubSeq(p, 1, Len(p) + 1 - i)]

\* fireExitedAfterAlls(newPath): the hooks kept for every path that is left,
\* the deepest path first, and of one path the last hook first.
Fired(newPath) ==
    FlattenSeq([i \in DOMAIN Exited(prevPath, newPath) |->
        LET k == Exited(prevPath, newPath)[i] IN
        IF k \in DOMAIN pathAfterAlls THEN Ran(Reverse(pathAfterAlls[k])) ELSE <<>>])

Kept(newPath) ==
    [k \in DOMAIN pathAfterAlls \ Range(Exited(prevPath, newPath)) |-> pathAfterAlls[k]]

\* The load is over; the run starts with nothing remembered of other files
\* but `inner`.
LoadEnds ==
    /\ phase = "load" /\ Len(stack) = 1
    /\ phase' = "run"
    /\ todo' = Selected(collector)
    /\ prevPath' = <<>> /\ pathAfterAlls' = <<>> /\ ranBeforeAll' = {}
    /\ UNCHANGED <<file, stack, blocks, hooks, collector, has_only, inner, failed, log>>

\* The next file: the collector and the .only flag are reset, the describe
\* stack and `inner` are not.
NextFile ==
    /\ file < MaxFiles
    /\ phase' = "load"
    /\ file' = file + 1
    /\ blocks' = 0
    /\ collector' = <<>> /\ has_only' = FALSE /\ log' = <<>>

LastFile ==
    /\ file = MaxFiles
    /\ phase' = "exit"
    /\ UNCHANGED <<file, blocks, collector, has_only, log>>

\* A file whose body throws counts as one failure and none of its tests run;
\* `describe` has popped its block by then.
LoadFails ==
    /\ phase = "load"
    /\ failed' = TRUE
    /\ stack' = SubSeq(stack, 1, 1)
    /\ NextFile \/ LastFile
    /\ UNCHANGED <<hooks, inner, todo, prevPath, pathAfterAlls, ranBeforeAll>>

\* The beforeAll hooks of a test that have not run yet.
Unran(t) ==
    LET hs == t.hooks["beforeAll"] IN Picked(hs, {i \in DOMAIN hs : hs[i] \notin ranBeforeAll})

\* A test's afterAll hooks wait under its own path, each once.
Registered(afterAlls, t) ==
    LET hs == t.hooks["afterAll"]
        seen == IF t.path \in DOMAIN afterAlls THEN afterAlls[t.path] ELSE <<>>
        new  == Picked(hs, {i \in DOMAIN hs : ~Contains(seen, hs[i])})
    IN  IF hs = <<>> THEN afterAlls
        ELSE [k \in DOMAIN afterAlls \cup {t.path} |->
                IF k = t.path THEN seen \o new ELSE afterAlls[k]]

\* runOne up to the body: leave the old paths, skip or run the pending
\* beforeAll hooks, register the afterAll hooks, run the beforeEach hooks.
SkipTest ==
    /\ phase = "run" /\ todo # <<>> /\ Head(todo).skip
    /\ log' = log \o Fired(Head(todo).path)
    /\ pathAfterAlls' = Kept(Head(todo).path)
    /\ prevPath' = Head(todo).path
    /\ todo' = Tail(todo)
    /\ UNCHANGED <<phase, file, stack, blocks, hooks, collector, has_only, inner,
                   ranBeforeAll, failed>>

Prepare(t, last) ==
    /\ log' = log \o Fired(t.path) \o Ran(Unran(t)) \o last
    /\ pathAfterAlls' = Registered(Kept(t.path), t)
    /\ prevPath' = t.path
    /\ ranBeforeAll' = ranBeforeAll \cup Range(t.hooks["beforeAll"])

BodyStarts ==
    /\ phase = "run" /\ todo # <<>> /\ ~Head(todo).skip
    /\ LET t == Head(todo) IN
          Prepare(t, Append(Ran(t.hooks["beforeEach"]), TestRan(t)))
    /\ phase' = "in test"
    /\ inner' = <<>>
    /\ UNCHANGED <<file, stack, blocks, hooks, collector, has_only, todo, failed>>

\* A beforeEach hook throws: the test fails, its body does not run.
BeforeEachThrows ==
    /\ phase = "run" /\ todo # <<>> /\ ~Head(todo).skip
    /\ LET t == Head(todo) IN
          /\ t.hooks["beforeEach"] # <<>>
          /\ \E n \in DOMAIN t.hooks["beforeEach"] :
                Prepare(t, Ran(SubSeq(t.hooks["beforeEach"], 1, n)))
    /\ todo' = Tail(todo)
    /\ failed' = TRUE
    /\ UNCHANGED <<phase, file, stack, blocks, hooks, collector, has_only, inner>>

\* The body of a test calls afterAll.
BodyDeclaresAfterAll ==
    /\ phase = "in test"
    /\ DeclareHook("afterAll")
    /\ UNCHANGED <<phase, file, blocks, collector, has_only, todo, prevPath,
                   pathAfterAlls, ranBeforeAll, failed, log>>

\* The race of the body and its timeout is settled.
Settles(log1, inner1, failed1) ==
    /\ phase = "in test"
    /\ phase' = "run"
    /\ todo' = Tail(todo)
    /\ log' = log1 /\ inner' = inner1 /\ failed' = failed1
    /\ UNCHANGED <<file, stack, blocks, hooks, collector, has_only, prevPath,
                   pathAfterAlls, ranBeforeAll>>

AfterEach(t) == Reverse(t.hooks["afterEach"])

\* The body passes: the inner afterAll hooks, then the afterEach hooks, one of
\* which may throw: then the others do not run and the test fails after all.
BodyPasses ==
    LET t == Head(todo)
        after(n) == log \o Ran(inner) \o Ran(SubSeq(AfterEach(t), 1, n))
    IN  /\ ~t.failing
        /\ \/ Settles(after(Len(AfterEach(t))), undefined, failed)
           \/ \E n \in DOMAIN AfterEach(t) : Settles(after(n), undefined, TRUE)

\* A .failing test that throws has passed: its afterEach hooks run, the inner
\* afterAll hooks do not and `inner` stays.
FailingThrows ==
    LET t == Head(todo) IN
    t.failing /\ Settles(log \o Ran(AfterEach(t)), inner, failed)

\* The body throws or times out, or a .failing test passes: no hook but
\* those of onTestFinished runs, and `inner` stays.
BodyFails == Settles(log, inner, TRUE)

BodyEnds ==
    /\ phase = "in test"
    /\ BodyPasses \/ FailingThrows \/ BodyFails

\* After the last test the runner leaves the last path; then the next file.
RunEnds ==
    /\ phase = "run" /\ todo = <<>> /\ prevPath # <<>>
    /\ log' = log \o Fired(<<>>)
    /\ pathAfterAlls' = Kept(<<>>)
    /\ prevPath' = <<>>
    /\ UNCHANGED <<phase, file, stack, blocks, hooks, collector, has_only, inner,
                   todo, ranBeforeAll, failed>>

FileEnds ==
    /\ phase = "run" /\ todo = <<>> /\ prevPath = <<>>
    /\ NextFile \/ LastFile
    /\ UNCHANGED <<stack, hooks, inner, todo, prevPath, pathAfterAlls, ranBeforeAll, failed>>

TestInit ==
    /\ phase = "load" /\ file = 1 /\ stack = <<TopLevel>> /\ blocks = 0 /\ hooks = 0
    /\ collector = <<>> /\ has_only = FALSE /\ inner = undefined /\ todo = <<>>
    /\ prevPath = <<>> /\ pathAfterAlls = <<>> /\ ranBeforeAll = {}
    /\ failed = FALSE /\ log = <<>>

TestNext ==
    \/ DescribeEnters \/ DescribeLeaves \/ HookDeclared \/ TestDeclared
    \/ LoadEnds \/ LoadFails
    \/ SkipTest \/ BodyStarts \/ BeforeEachThrows \/ BodyDeclaresAfterAll \/ BodyEnds
    \/ RunEnds \/ FileEnds

TestSpec == TestInit /\ [][TestNext]_testVars

----------------------------------------------------------------------------

At(e) == {i \in DOMAIN log : log[i] = e}
FileIsOver == phase = "run" /\ todo = <<>> /\ prevPath = <<>>

\* Hooks bracket the tests of their block: the beforeAll hooks a test inherits
\* have run exactly once when its body runs, and before it; and when the file
\* is over, every afterAll hook a test inside a block inherits has run after
\* that test.  (An afterAll hook of a test outside all blocks never runs, and
\* a hook declared after a test is not inherited by it.)
HooksBracketTests ==
    \A t \in Range(collector) : \A i \in At(TestRan(t)) :
        /\ \A h \in Range(t.hooks["beforeAll"]) :
              \E j \in 1..(i - 1) : At(HookRan(h)) = {j}
        /\ FileIsOver /\ t.path # <<>> =>
              \A h \in Range(t.hooks["afterAll"]) : \E j \in At(HookRan(h)) : j > i
====
