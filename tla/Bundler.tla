---- MODULE Bundler ----
(***************************************************************************)
(* The bundler (crates/bun-bundler/src/lib.rs): first it walks the static  *)
(* imports from the entry and numbers the modules; then the bundle runs,   *)
(* with a loader of its own (BUNDLE_RUNTIME) that keeps finished modules   *)
(* in __cache and unfinished ones in __pending.                            *)
(***************************************************************************)
EXTENDS Naturals, SequencesExt, Subsequences

CONSTANTS Module, Entry, External, Nobody, MaxImports, MaxDynamic,
          MaxBodies     \* runs of one module's body

ASSUME EntryIsModule == Entry \in Module
ASSUME NotModules == External \notin Module /\ Nobody \notin Module
ASSUME BundleBounds == MaxImports \in Nat /\ MaxDynamic \in Nat /\ MaxBodies \in Nat

VARIABLES
    stage,      \* "walk", "run" or "failed"
    queue,      \* paths to visit, the last one next
    modules,    \* the numbered modules: id -> path
    imports,    \* static imports of each prepared module
    state,      \* of each module: "new", "pending", "cached", "broken"
    next,       \* the import its body is at
    waiter,     \* who awaits the load: a module, Nobody (nobody or import())
    partial,    \* <<m, d>>: m got d's exports while d was pending
    bodies,       \* runs of each module's body, in the bundle
    host,       \* modules that the host runtime was asked to load
    dynamics    \* import() calls so far (bound)

bundleVars == <<stage, queue, modules, imports, state, next, waiter, partial, bodies,
                host, dynamics>>

----------------------------------------------------------------------------
\* bundle(): number the modules.

\* prepare and resolve one path; its resolvable imports are queued, those that
\* do not resolve stay external.
Visit ==
    /\ stage = "walk" /\ queue # <<>> /\ ~Contains(modules, Last(queue))
    /\ modules' = Append(modules, Last(queue))
    /\ \E specs \in SeqOf(Module \cup {External}, MaxImports) :
          /\ imports' = [imports EXCEPT ![Last(queue)] = specs]
          /\ queue' = Front(queue) \o Picked(specs, {i \in DOMAIN specs : specs[i] # External})
    /\ UNCHANGED <<stage, state, next, waiter, partial, bodies, host, dynamics>>

\* A path that has its number already.
Skip ==
    /\ stage = "walk" /\ queue # <<>> /\ Contains(modules, Last(queue))
    /\ queue' = Front(queue)
    /\ UNCHANGED <<stage, modules, imports, state, next, waiter, partial, bodies, host,
                   dynamics>>

\* A module that cannot be prepared ends the build: nothing is written.
PrepareFailed ==
    /\ stage = "walk" /\ queue # <<>>
    /\ stage' = "failed"
    /\ UNCHANGED <<queue, modules, imports, state, next, waiter, partial, bodies, host,
                   dynamics>>

----------------------------------------------------------------------------
\* The bundle runs.

InBundle(m) == Contains(modules, m)

\* rewrite_require_calls: a call goes to __bun_load when the file imports the
\* same text statically too, otherwise to the host.
Internal(m, d) == d # External /\ Contains(imports[m], d) /\ InBundle(d)

\* __bun_load(d), called by m: finished exports, or unfinished ones, or a run.
FoundFinished(d) == state[d] = "cached"
Found(d) == state[d] \in {"cached", "pending", "broken"}

BeginModule(d, by) ==
    /\ state' = [state EXCEPT ![d] = "pending"]
    /\ next' = [next EXCEPT ![d] = 1]
    /\ waiter' = [waiter EXCEPT ![d] = by]
    /\ bodies' = [bodies EXCEPT ![d] = @ + 1]

Awaits(m) == \E d \in Module : waiter[d] = m /\ state[d] = "pending"
Active(m) == stage = "run" /\ state[m] = "pending" /\ ~Awaits(m)

StartBundle ==
    /\ stage = "walk" /\ queue = <<>>
    /\ stage' = "run"
    /\ BeginModule(Entry, Nobody)
    /\ UNCHANGED <<queue, modules, imports, partial, host, dynamics>>

\* The next static import of m: external, found, or to be run first.
ImportExternal(m) ==
    /\ Active(m) /\ next[m] <= Len(imports[m]) /\ imports[m][next[m]] = External
    /\ next' = [next EXCEPT ![m] = @ + 1]
    /\ UNCHANGED <<stage, queue, modules, imports, state, waiter, partial, bodies, host,
                   dynamics>>

ImportFound(m) ==
    /\ Active(m) /\ next[m] <= Len(imports[m])
    /\ LET d == imports[m][next[m]] IN
          /\ d # External /\ Found(d)
          /\ partial' = IF state[d] = "cached" THEN partial ELSE partial \cup {<<m, d>>}
    /\ next' = [next EXCEPT ![m] = @ + 1]
    /\ UNCHANGED <<stage, queue, modules, imports, state, waiter, bodies, host, dynamics>>

ImportRuns(m) ==
    /\ Active(m) /\ next[m] <= Len(imports[m])
    /\ LET d == imports[m][next[m]] IN
          d # External /\ ~Found(d) /\ bodies[d] < MaxBodies /\ BeginModule(d, m)
    /\ UNCHANGED <<stage, queue, modules, imports, partial, host, dynamics>>

\* import(d) in a body is not awaited here: the load goes on beside it.
ImportLater(m) ==
    /\ Active(m) /\ next[m] > Len(imports[m]) /\ dynamics < MaxDynamic
    /\ dynamics' = dynamics + 1
    /\ \E d \in Module :
          \/ /\ Internal(m, d) /\ ~Found(d)
             /\ BeginModule(d, Nobody)
             /\ UNCHANGED host
          \/ /\ ~Internal(m, d)
             /\ host' = host \cup {d}
             /\ UNCHANGED <<state, next, waiter, bodies>>
    /\ UNCHANGED <<stage, queue, modules, imports, partial>>

\* The body is through: the exports move to the cache and the importer, if
\* one waits, goes on with its next import.
BodyEnd(m) ==
    /\ Active(m) /\ next[m] > Len(imports[m])
    /\ state' = [state EXCEPT ![m] = "cached"]
    /\ next' = IF waiter[m] = Nobody THEN next ELSE [next EXCEPT ![waiter[m]] = @ + 1]
    /\ UNCHANGED <<stage, queue, modules, imports, waiter, partial, bodies, host, dynamics>>

\* The body throws: the module stays in __pending for ever, and the error goes
\* up the chain of importers that wait for it.
Chain(m) ==
    {x \in Module :
        \A S \in SUBSET Module :
            m \in S /\ (\A d \in S : waiter[d] # Nobody => waiter[d] \in S) => x \in S}

BodyThrow(m) ==
    /\ Active(m)
    /\ state' = [d \in Module |-> IF d \in Chain(m) THEN "broken" ELSE state[d]]
    /\ UNCHANGED <<stage, queue, modules, imports, next, waiter, partial, bodies, host,
                   dynamics>>

BundleInit ==
    /\ stage = "walk" /\ queue = <<Entry>> /\ modules = <<>>
    /\ imports = [m \in Module |-> <<>>] /\ state = [m \in Module |-> "new"]
    /\ next = [m \in Module |-> 1] /\ waiter = [m \in Module |-> Nobody]
    /\ partial = {} /\ bodies = [m \in Module |-> 0] /\ host = {} /\ dynamics = 0

BundleNext ==
    \/ Visit \/ Skip \/ PrepareFailed \/ StartBundle
    \/ \E m \in Module :
          ImportExternal(m) \/ ImportFound(m) \/ ImportRuns(m) \/ ImportLater(m)
          \/ BodyEnd(m) \/ BodyThrow(m)

BundleSpec == BundleInit /\ [][BundleNext]_bundleVars

----------------------------------------------------------------------------

\* What the static imports of d lead to: the least set that has them and what
\* its members import.
Reaches(d) ==
    {x \in Module :
        \A S \in SUBSET Module :
            (\A e \in S \cup {d} : ToSet(imports[e]) \ {External} \subseteq S) => x \in S}

\* A bundle runs each module once, and only modules it contains; and while no
\* import() runs beside the others, a module is given the unfinished exports
\* of another only where the two import each other in a circle.  (The host's
\* own copies of modules are not counted: see `host`.)
BundleRunsOnce ==
    /\ \A m \in Module : bodies[m] <= 1 /\ (bodies[m] = 1 => InBundle(m))
    /\ dynamics = 0 => \A e \in partial : e[1] \in Reaches(e[2])
====
