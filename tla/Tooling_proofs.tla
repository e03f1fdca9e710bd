--------------------------- MODULE Tooling_proofs ---------------------------
(***************************************************************************)
(* BundleRunsOnce, InstalledClosed, TransactionsAtomic, OwnersExact,       *)
(* HooksBracketTests: for any modules, packages, databases, objects and    *)
(* tests, lists of any length and any number of runs.                      *)
(*                                                                         *)
(* The bundler: a body begins only for a module that is "new", so once; it *)
(* is in the bundle because the walk queued every import of what it        *)
(* numbered.  While no import() ran, the loads are one stack: every        *)
(* pending module is on the chain of those that wait for the active one    *)
(* (OneStack), and reaches, by static imports, the one it waits for.       *)
(*                                                                         *)
(* The installer: while a run goes on, whatever the project or an          *)
(* installed package asks for is installed, in the worklist or the one in  *)
(* hand (Covered), also when the package was on disk before the run.       *)
(*                                                                         *)
(* The database: a connection that is in a transaction has one call in     *)
(* progress, and pending are the rows of that call; one that is open and   *)
(* in none has no call at all (ConnectionOK).                              *)
(*                                                                         *)
(* The bindings: while anything is on the native stack the embedder has    *)
(* its Context or the exception that the lowest script is run to read is   *)
(* there, kept by who reads it (StackSound), so the last reference is      *)
(* released only when nothing runs.                                        *)
(*                                                                         *)
(* The test runner: a hook is in lists of one kind only, each of which has *)
(* it once (HooksApart); of the beforeAll hooks those that ran are the     *)
(* ones that are remembered (BeforeAllsRan); an afterAll hook of a test    *)
(* that ran has run after it or waits under the test's path                *)
(* (AfterAllsWait), and a path under which hooks wait leads to where the   *)
(* runner is (PathsOpen), so at the end only hooks of the top level wait.  *)
(***************************************************************************)
EXTENDS Bundler, Installer, Sqlite, Bindings, TestRunner, Subsequences_proofs,
        Integers, FiniteSetTheorems, SequenceTheorems, TLAPS

-----------------------------------------------------------------------------
(* Sequences as the bundler uses them.                                      *)

In(s, m) == \E i \in 1 .. Len(s) : s[i] = m

LEMMA FrontKeeps ==
    ASSUME NEW S, NEW s \in Seq(S), s # <<>>
    PROVE  /\ Front(s) \in Seq(S) /\ Last(s) \in S
           /\ \A x : In(s, x) => In(Front(s), x) \/ x = Last(s)
  <1>1. Len(s) \in Nat /\ Len(s) >= 1
    BY EmptySeq
  <1>2. Front(s) \in Seq(S) /\ Len(Front(s)) = Len(s) - 1 /\ \A i \in 1 .. Len(s) - 1 : Front(s)[i] = s[i]
    <2>1. \A i \in 1 .. Len(s) - 1 : s[i] \in S
      BY <1>1
    <2>2. 1 \in Int /\ Len(s) - 1 \in Int
      BY <1>1
    <2>3. /\ Front(s) \in Seq(S)
          /\ Len(Front(s)) = IF 1 <= Len(s) - 1 THEN Len(s) - 1 - 1 + 1 ELSE 0
          /\ \A i \in 1 .. Len(s) - 1 - 1 + 1 : Front(s)[i] = s[1 + i - 1]
      BY <2>1, <2>2, SubSeqProperties DEF Front
    <2> DEFINE n == Len(s) - 1  t == Front(s)
    <2>4. n \in Nat /\ n - 1 + 1 = n /\ (1 <= n \/ n = 0)
      <3>1. ASSUME NEW k \in Nat, k >= 1
            PROVE  k - 1 \in Nat /\ k - 1 - 1 + 1 = k - 1 /\ (1 <= k - 1 \/ k - 1 = 0)
        BY <3>1
      <3> QED
        BY <1>1, <3>1
    <2>5. \A i \in 1 .. n : 1 + i - 1 = i
      BY <2>4
    <2>6. t \in Seq(S) /\ Len(t) = (IF 1 <= n THEN n - 1 + 1 ELSE 0) /\ \A i \in 1 .. n - 1 + 1 : t[i] = s[1 + i - 1]
      BY <2>3
    <2> HIDE DEF n, t
    <2>7. t \in Seq(S) /\ Len(t) = n /\ \A i \in 1 .. n : t[i] = s[i]
      BY <2>4, <2>5, <2>6
    <2> QED
      BY <2>7 DEF n, t
  <1>3. Last(s) \in S
    BY <1>1 DEF Last
  <1>4. ASSUME NEW x, In(s, x), x # Last(s) PROVE In(Front(s), x)
    <2>1. PICK i \in 1 .. Len(s) : s[i] = x
      BY <1>4 DEF In
    <2>2. i \in 1 .. Len(s) - 1
      BY <1>1, <1>4, <2>1 DEF Last
    <2> QED
      BY <1>2, <2>1, <2>2 DEF In
  <1> QED
    BY <1>2, <1>3, <1>4

LEMMA ConcatHas ==
    ASSUME NEW S, NEW s \in Seq(S), NEW t \in Seq(S)
    PROVE  s \o t \in Seq(S) /\ \A x : In(s, x) \/ In(t, x) => In(s \o t, x)
  <1> DEFINE r == s \o t
  <1>1. r \in Seq(S) /\ Len(r) = Len(s) + Len(t) /\ Len(s) \in Nat /\ Len(t) \in Nat
    OBVIOUS
  <1>2. \A i \in 1 .. Len(s) : r[i] = s[i] /\ i \in 1 .. Len(r)
    BY <1>1
  <1>3. \A i \in 1 .. Len(t) : r[Len(s) + i] = t[i] /\ Len(s) + i \in 1 .. Len(r)
    BY <1>1
  <1> HIDE DEF r
  <1>4. \A x : In(s, x) => In(r, x)
    BY <1>2 DEF In
  <1>5. \A x : In(t, x) => In(r, x)
    <2> TAKE x
    <2> HAVE In(t, x)
    <2>1. PICK i \in 1 .. Len(t) : t[i] = x
      BY DEF In
    <2>2. r[Len(s) + i] = x /\ Len(s) + i \in 1 .. Len(r)
      BY <1>3, <2>1
    <2> QED
      BY <2>2 DEF In
  <1> QED
    BY <1>1, <1>4, <1>5 DEF r

LEMMA AppendHas ==
    ASSUME NEW S, NEW s \in Seq(S), NEW m \in S
    PROVE  Append(s, m) \in Seq(S) /\ \A x : In(Append(s, m), x) <=> In(s, x) \/ x = m
  <1>1. /\ Append(s, m) \in Seq(S) /\ Len(Append(s, m)) = Len(s) + 1 /\ Len(s) \in Nat
        /\ Append(s, m)[Len(s) + 1] = m
    OBVIOUS
  <1>2. \A i \in 1 .. Len(s) : Append(s, m)[i] = s[i] /\ i \in 1 .. Len(s) + 1
    OBVIOUS
  <1>3. \A i \in 1 .. Len(s) + 1 : i \in 1 .. Len(s) \/ i = Len(s) + 1
    BY <1>1
  <1> QED
    BY <1>1, <1>2, <1>3 DEF In

-----------------------------------------------------------------------------
(* The bundler.                                                             *)

LEMMA Specifiers ==
    ASSUME NEW specs \in SeqOf(Module \cup {External}, MaxImports)
    PROVE  specs \in Seq(Module \cup {External})
  BY BundleBounds DEF SeqOf

LEMMA SmallerRange ==
    ASSUME NEW S, NEW T, NEW s \in Seq(T), \A n \in 1 .. Len(s) : s[n] \in S
    PROVE  s \in Seq(S)
  OBVIOUS

(* What Visit queues: every import that is a module.                        *)
LEMMA QueuedImports ==
    ASSUME NEW specs \in Seq(Module \cup {External})
    PROVE  LET found == Picked(specs, {i \in DOMAIN specs : specs[i] # External}) IN
           found \in Seq(Module) /\ \A i \in 1 .. Len(specs) : specs[i] = External \/ In(found, specs[i])
  <1> DEFINE K == {i \in DOMAIN specs : specs[i] # External}  found == Picked(specs, K)
  <1>1. K \in SUBSET (1 .. Len(specs)) /\ \A i \in 1 .. Len(specs) : i \in K \/ specs[i] = External
    OBVIOUS
  <1>2. \A i \in K : specs[i] \in Module
    BY <1>1
  <1> HIDE DEF K
  <1>3. /\ found \in Seq(Module \cup {External})
        /\ \A i \in K : \E n \in 1 .. Len(found) : found[n] = specs[i]
        /\ \A n \in 1 .. Len(found) : \E i \in K : found[n] = specs[i]
    BY <1>1, PickedKeeps
  <1> HIDE DEF found
  <1>4. \A n \in 1 .. Len(found) : found[n] \in Module
    BY <1>2, <1>3
  <1>5. found \in Seq(Module)
    BY <1>3, <1>4, SmallerRange
  <1> QED
    BY <1>1, <1>3, <1>5 DEF In, K, found

-----------------------------------------------------------------------------
(* The inductive invariant.                                                 *)

Unfinished(m) == state[m] = "pending"

BundleTypes ==
    /\ stage \in {"walk", "run", "failed"}
    /\ queue \in Seq(Module) /\ modules \in Seq(Module)
    /\ imports \in [Module -> Seq(Module \cup {External})]
    /\ state \in [Module -> {"new", "pending", "cached", "broken"}]
    /\ next \in [Module -> Nat \ {0}]
    /\ waiter \in [Module -> Module \cup {Nobody}]
    /\ partial \subseteq Module \X Module /\ bodies \in [Module -> 0 .. 1]
    /\ host \subseteq Module /\ dynamics \in Nat

(* The walk: what a numbered module imports is numbered or queued.          *)
Walked ==
    /\ stage # "run" => partial = {} /\ \A m \in Module : state[m] = "new"
    /\ stage = "run" => queue = <<>>
    /\ In(modules, Entry) \/ In(queue, Entry)
    /\ \A m \in Module : In(modules, m) =>
          \A i \in 1 .. Len(imports[m]) :
             imports[m][i] = External \/ In(modules, imports[m][i]) \/ In(queue, imports[m][i])

(* A body ran once, of a module of the bundle, unless the module is new.    *)
Counted ==
    \A m \in Module :
       /\ (state[m] = "new") = (bodies[m] = 0)
       /\ state[m] = "new" => waiter[m] = Nobody
       /\ state[m] # "new" => In(modules, m)

(* Who waits is pending, at the import it waits for.                        *)
WaitsFor(im, st, nx, w, d) ==
    st[w] = "pending" /\ nx[w] \in 1 .. Len(im[w]) /\ im[w][nx[w]] = d
Waiting ==
    \A d \in Module : Unfinished(d) /\ waiter[d] # Nobody => WaitsFor(imports, state, next, waiter[d], d)

(* Without import(), what is pending is on the chain of the active module;  *)
(* after a throw nothing is pending.                                        *)
OneStack ==
    dynamics = 0 =>
       /\ \A m, d \in Module : Unfinished(m) /\ ~Awaits(m) /\ Unfinished(d) => d \in Chain(m)
       /\ \A m, d \in Module : state[m] = "broken" => ~Unfinished(d)
       /\ \A e \in partial : e[1] \in Reaches(e[2])

BundleInductive == BundleTypes /\ Walked /\ Counted /\ Waiting /\ OneStack

-----------------------------------------------------------------------------
(* Chains of waiting modules, and what static imports lead to.              *)

Closed(w, S) == \A d \in S : w[d] # Nobody => w[d] \in S
Above(w, m) == {x \in Module : \A S \in SUBSET Module : m \in S /\ Closed(w, S) => x \in S}

LEMMA ChainIsAbove == \A m : Chain(m) = Above(waiter, m)
  BY DEF Chain, Above, Closed

LEMMA AboveFacts ==
    ASSUME NEW w \in [Module -> Module \cup {Nobody}], NEW m \in Module
    PROVE  /\ m \in Above(w, m) /\ Above(w, m) \subseteq Module /\ Closed(w, Above(w, m))
           /\ \A T \in SUBSET Module : m \in T /\ Closed(w, T) => Above(w, m) \subseteq T
           /\ \A x \in Above(w, m) : x = m \/ \E e \in Above(w, m) : w[e] = x
  <1>1. m \in Above(w, m) /\ Above(w, m) \subseteq Module
    BY DEF Above
  <1>2. \A T \in SUBSET Module : m \in T /\ Closed(w, T) => Above(w, m) \subseteq T
    BY DEF Above
  <1>3. Closed(w, Above(w, m))
    <2>1. SUFFICES ASSUME NEW d \in Above(w, m), w[d] # Nobody,
                          NEW S \in SUBSET Module, m \in S, Closed(w, S)
                   PROVE  w[d] \in S
      BY <1>1 DEF Closed, Above
    <2>2. d \in S
      BY <2>1 DEF Above
    <2> QED
      BY <2>1, <2>2 DEF Closed
  <1>4. \A x \in Above(w, m) : x = m \/ \E e \in Above(w, m) : w[e] = x
    <2> DEFINE T == {x \in Above(w, m) : x = m \/ \E e \in Above(w, m) : w[e] = x}
    <2>1. Closed(w, T)
      BY <1>3 DEF Closed
    <2>2. m \in T /\ T \in SUBSET Module
      BY <1>1
    <2> QED
      BY <1>2, <2>1, <2>2
  <1> QED
    BY <1>1, <1>2, <1>3, <1>4

ImportedBy(m, d) == \E i \in 1 .. Len(imports[m]) : imports[m][i] = d

LEMMA ReachFacts ==
    ASSUME imports \in [Module -> Seq(Module \cup {External})], NEW w \in Module, NEW d \in Module,
           ImportedBy(w, d)
    PROVE  d \in Reaches(w) /\ Reaches(d) \subseteq Reaches(w)
  <1>1. d \in ToSet(imports[w]) \ {External}
    BY NotModules DEF ImportedBy, ToSet
  <1>2. d \in Reaches(w)
    BY <1>1 DEF Reaches
  <1>3. ASSUME NEW x \in Reaches(d) PROVE x \in Reaches(w)
    <2>1. SUFFICES ASSUME NEW S \in SUBSET Module,
                          \A e \in S \cup {w} : ToSet(imports[e]) \ {External} \subseteq S
                   PROVE  x \in S
      BY <1>3 DEF Reaches
    <2>2. d \in S
      BY <1>1, <2>1
    <2>3. \A e \in S \cup {d} : ToSet(imports[e]) \ {External} \subseteq S
      BY <2>1, <2>2
    <2> QED
      BY <1>3, <2>3 DEF Reaches
  <1> QED
    BY <1>2, <1>3

(* Who is on the chain of m is pending and leads to m.                      *)
LEMMA ChainLeads ==
    ASSUME BundleTypes, Waiting, NEW m \in Module, Unfinished(m)
    PROVE  \A d \in Chain(m) : Unfinished(d) /\ (d = m \/ m \in Reaches(d))
  <1> DEFINE T == {x \in Module : Unfinished(x) /\ (x = m \/ m \in Reaches(x))}
  <1>1. ASSUME NEW d \in T, waiter[d] # Nobody PROVE waiter[d] \in T
    <2> DEFINE w == waiter[d]
    <2>1. d \in Module /\ Unfinished(d) /\ (d = m \/ m \in Reaches(d))
      BY <1>1
    <2>2. w \in Module /\ Unfinished(w) /\ ImportedBy(w, d)
      BY <1>1, <2>1 DEF BundleTypes, Waiting, WaitsFor, Unfinished, ImportedBy
    <2>3. d \in Reaches(w) /\ Reaches(d) \subseteq Reaches(w)
      BY <2>1, <2>2, ReachFacts DEF BundleTypes
    <2> QED
      BY <2>1, <2>2, <2>3
  <1>2. Closed(waiter, T) /\ m \in T /\ T \in SUBSET Module
    BY <1>1 DEF Closed
  <1>3. Above(waiter, m) \subseteq T
    BY <1>2, AboveFacts DEF BundleTypes
  <1> QED
    BY <1>3, ChainIsAbove

(* Without import() one module at most is active.                           *)
LEMMA OneActive ==
    ASSUME BundleTypes, Waiting, OneStack, dynamics = 0,
           NEW m \in Module, Unfinished(m), ~Awaits(m),
           NEW x \in Module, Unfinished(x), ~Awaits(x)
    PROVE  x = m
  <1>1. x \in Chain(m)
    BY DEF OneStack
  <1>2. x = m \/ \E e \in Chain(m) : waiter[e] = x
    BY <1>1, AboveFacts, ChainIsAbove DEF BundleTypes
  <1>3. ASSUME NEW e \in Chain(m), waiter[e] = x PROVE FALSE
    <2>1. e \in Module /\ Unfinished(e)
      BY <1>3, ChainLeads DEF Chain
    <2> QED
      BY <1>3, <2>1 DEF Awaits, Unfinished
  <1> QED
    BY <1>2, <1>3

-----------------------------------------------------------------------------
(* The walk.                                                                *)

LEMMA EntryQueued == <<Entry>> \in Seq(Module) /\ In(<<Entry>>, Entry)
  <1>1. <<Entry>> \in Seq(Module) /\ Len(<<Entry>>) = 1 /\ <<Entry>>[1] = Entry
    BY EntryIsModule
  <1>2. 1 \in 1 .. Len(<<Entry>>)
    BY <1>1
  <1> QED
    BY <1>1, <1>2 DEF In

LEMMA EmptyHasNone == Len(<<>>) = 0 /\ \A S : <<>> \in Seq(S) /\ \A x : ~In(<<>>, x)
  BY DEF In

LEMMA InitHolds == BundleInit => BundleInductive
  <1> SUFFICES ASSUME BundleInit PROVE BundleInductive
    OBVIOUS
  <1>1. BundleTypes
    BY EntryQueued, EmptyHasNone DEF BundleInit, BundleTypes
  <1>2. Walked
    BY EntryQueued, EmptyHasNone DEF BundleInit, Walked
  <1>3. Counted /\ Waiting /\ OneStack
    BY DEF BundleInit, Counted, Waiting, OneStack, Unfinished
  <1> QED
    BY <1>1, <1>2, <1>3 DEF BundleInductive

LEMMA VisitHolds == BundleInductive /\ Visit => BundleInductive'
  <1> SUFFICES ASSUME BundleInductive, Visit PROVE BundleInductive'
    OBVIOUS
  <1> USE DEF BundleInductive
  <1> DEFINE m == Last(queue)
  <1>1. PICK specs \in SeqOf(Module \cup {External}, MaxImports) :
           /\ imports' = [imports EXCEPT ![m] = specs]
           /\ queue' = Front(queue) \o Picked(specs, {i \in DOMAIN specs : specs[i] # External})
    BY DEF Visit
  <1> DEFINE found == Picked(specs, {i \in DOMAIN specs : specs[i] # External})
  <1>2. /\ stage = "walk" /\ queue # <<>> /\ modules' = Append(modules, m)
        /\ UNCHANGED <<stage, state, next, waiter, partial, bodies, host, dynamics>>
    BY DEF Visit
  <1>3. specs \in Seq(Module \cup {External})
    BY Specifiers
  <1>4. found \in Seq(Module) /\ \A i \in 1 .. Len(specs) : specs[i] = External \/ In(found, specs[i])
    BY <1>3, QueuedImports
  <1>5. Front(queue) \in Seq(Module) /\ m \in Module /\ \A x : In(queue, x) => In(Front(queue), x) \/ x = m
    BY <1>2, FrontKeeps DEF BundleTypes
  <1>6. queue' = Front(queue) \o found
    BY <1>1
  <1> HIDE DEF m, found
  <1>7. queue' \in Seq(Module) /\ \A x : In(Front(queue), x) \/ In(found, x) => In(queue', x)
    BY <1>4, <1>5, <1>6, ConcatHas
  <1>8. modules' \in Seq(Module) /\ \A x : In(modules', x) <=> In(modules, x) \/ x = m
    BY <1>2, <1>5, AppendHas DEF BundleTypes
  <1>9. /\ imports' \in [Module -> Seq(Module \cup {External})]
        /\ imports'[m] = specs /\ \A x \in Module : x # m => imports'[x] = imports[x]
    BY <1>1, <1>3, <1>5 DEF BundleTypes
  <1>10. BundleTypes'
    BY <1>2, <1>7, <1>8, <1>9 DEF BundleTypes
  <1>11. ASSUME NEW x \in Module, In(modules', x), NEW i \in 1 .. Len(imports'[x])
         PROVE  imports'[x][i] = External \/ In(modules', imports'[x][i]) \/ In(queue', imports'[x][i])
    <2>1. CASE x = m
      BY <1>4, <1>7, <1>9, <1>11, <2>1
    <2>2. CASE x # m
      <3>1. In(modules, x) /\ imports'[x] = imports[x]
        BY <1>8, <1>9, <1>11, <2>2
      <3>2. i \in 1 .. Len(imports[x])
        BY <1>11, <3>1
      <3>3. imports[x][i] = External \/ In(modules, imports[x][i]) \/ In(queue, imports[x][i])
        BY <3>1, <3>2 DEF Walked
      <3> QED
        BY <1>5, <1>7, <1>8, <3>1, <3>3
    <2> QED
      BY <2>1, <2>2
  <1>12. Walked'
    BY <1>2, <1>5, <1>7, <1>8, <1>11 DEF Walked
  <1>13. Counted'
    BY <1>2, <1>8 DEF Counted
  <1>14. Waiting' /\ OneStack'
    BY <1>2 DEF Walked, Waiting, OneStack, Unfinished
  <1> QED
    BY <1>10, <1>12, <1>13, <1>14

LEMMA SkipHolds == BundleInductive /\ Skip => BundleInductive'
  <1> SUFFICES ASSUME BundleInductive, Skip PROVE BundleInductive'
    OBVIOUS
  <1> USE DEF BundleInductive
  <1>1. /\ stage = "walk" /\ queue # <<>> /\ In(modules, Last(queue)) /\ queue' = Front(queue)
        /\ UNCHANGED <<stage, modules, imports, state, next, waiter, partial, bodies, host, dynamics>>
    BY DEF Skip, In, Contains
  <1>2. queue' \in Seq(Module) /\ \A x : In(queue, x) => In(queue', x) \/ In(modules, x)
    BY <1>1, FrontKeeps DEF BundleTypes
  <1>3. BundleTypes'
    BY <1>1, <1>2 DEF BundleTypes
  <1>4. Walked'
    BY <1>1, <1>2 DEF Walked
  <1>5. Counted' /\ Waiting' /\ OneStack'
    BY <1>1 DEF Walked, Counted, Waiting, OneStack, Unfinished
  <1> QED
    BY <1>3, <1>4, <1>5

LEMMA PrepareFailedHolds == BundleInductive /\ PrepareFailed => BundleInductive'
  <1> SUFFICES ASSUME BundleInductive, PrepareFailed PROVE BundleInductive'
    OBVIOUS
  <1> USE DEF BundleInductive, PrepareFailed
  <1>1. BundleTypes' /\ Walked'
    BY DEF BundleTypes, Walked
  <1>2. Counted' /\ Waiting' /\ OneStack'
    BY DEF Walked, Counted, Waiting, OneStack, Unfinished
  <1> QED
    BY <1>1, <1>2

-----------------------------------------------------------------------------
(* The bundle runs.                                                         *)

(* A body begins: what does not depend on who else is pending.              *)
LEMMA BeginHolds ==
    ASSUME BundleInductive, NEW d \in Module, NEW by \in Module \cup {Nobody},
           state[d] = "new", In(modules, d), BeginModule(d, by),
           by # Nobody => WaitsFor(imports, state, next, by, d),
           UNCHANGED <<modules, imports>>
    PROVE  /\ state' \in [Module -> {"new", "pending", "cached", "broken"}]
           /\ next' \in [Module -> Nat \ {0}] /\ waiter' \in [Module -> Module \cup {Nobody}]
           /\ bodies' \in [Module -> 0 .. 1]
           /\ Counted' /\ Waiting'
           /\ state'[d] = "pending" /\ \A x \in Module : x # d => state'[x] = state[x]
           /\ waiter'[d] = by /\ waiter[d] = Nobody /\ \A x \in Module : x # d => waiter'[x] = waiter[x]
  <1> USE DEF BundleInductive
  <1>1. bodies[d] = 0 /\ waiter[d] = Nobody
    BY DEF Counted, BundleTypes
  <1>2. /\ state' \in [Module -> {"new", "pending", "cached", "broken"}]
        /\ next' \in [Module -> Nat \ {0}] /\ waiter' \in [Module -> Module \cup {Nobody}]
        /\ bodies' \in [Module -> 0 .. 1]
        /\ state'[d] = "pending" /\ \A x \in Module : x # d => state'[x] = state[x]
        /\ waiter'[d] = by /\ \A x \in Module : x # d => waiter'[x] = waiter[x]
        /\ bodies'[d] = 1 /\ \A x \in Module : x # d => bodies'[x] = bodies[x]
        /\ \A x \in Module : x # d => next'[x] = next[x]
    BY <1>1 DEF BundleTypes, BeginModule
  <1>3. Counted'
    BY <1>2 DEF Counted
  <1>4. ASSUME NEW x \in Module, Unfinished(x)', waiter'[x] # Nobody
        PROVE  WaitsFor(imports', state', next', waiter'[x], x)
    <2>1. CASE x = d
      <3>1. WaitsFor(imports, state, next, by, d) /\ by \in Module /\ by # d
        BY <1>2, <1>4, <2>1 DEF WaitsFor
      <3> QED
        BY <1>2, <2>1, <3>1 DEF WaitsFor
    <2>2. CASE x # d
      <3> DEFINE w == waiter[x]
      <3>1. waiter'[x] = w /\ Unfinished(x) /\ w # Nobody /\ w \in Module
        BY <1>2, <1>4, <2>2 DEF Unfinished, BundleTypes
      <3>2. WaitsFor(imports, state, next, w, x)
        BY <3>1 DEF Waiting
      <3>3. w # d
        BY <3>2 DEF WaitsFor
      <3> QED
        BY <1>2, <3>1, <3>2, <3>3 DEF WaitsFor
    <2> QED
      BY <2>1, <2>2
  <1>5. Waiting'
    BY <1>4 DEF Waiting
  <1> QED
    BY <1>1, <1>2, <1>3, <1>5

LEMMA StartHolds == BundleInductive /\ StartBundle => BundleInductive'
  <1> SUFFICES ASSUME BundleInductive, StartBundle PROVE BundleInductive'
    OBVIOUS
  <1>1. /\ stage = "walk" /\ queue = <<>> /\ stage' = "run" /\ BeginModule(Entry, Nobody)
        /\ UNCHANGED <<queue, modules, imports, partial, host, dynamics>>
    BY DEF StartBundle
  <1>2. Entry \in Module /\ state[Entry] = "new" /\ In(modules, Entry) /\ partial = {}
    BY <1>1, EntryIsModule, EmptyHasNone DEF BundleInductive, Walked
  <1>3. /\ state' \in [Module -> {"new", "pending", "cached", "broken"}]
        /\ next' \in [Module -> Nat \ {0}] /\ waiter' \in [Module -> Module \cup {Nobody}]
        /\ bodies' \in [Module -> 0 .. 1]
        /\ Counted' /\ Waiting'
        /\ state'[Entry] = "pending" /\ \A x \in Module : x # Entry => state'[x] = state[x]
    BY <1>1, <1>2, BeginHolds
  <1>4. BundleTypes'
    BY <1>1, <1>3 DEF BundleInductive, BundleTypes
  <1>5. Walked'
    BY <1>1, <1>2 DEF BundleInductive, Walked
  <1>6. \A x \in Module : x # Entry => state'[x] = "new"
    BY <1>1, <1>3 DEF BundleInductive, Walked
  <1>7. Entry \in Chain(Entry)'
    BY <1>2, <1>3 DEF Chain
  <1>8. OneStack'
    BY <1>1, <1>2, <1>3, <1>6, <1>7 DEF OneStack, Unfinished
  <1> QED
    BY <1>3, <1>4, <1>5, <1>8 DEF BundleInductive

(* The active module goes on with its next import.                          *)
LEMMA AdvanceHolds ==
    ASSUME BundleInductive, NEW m \in Module, Active(m), next' = [next EXCEPT ![m] = @ + 1],
           partial' \subseteq Module \X Module,
           dynamics = 0 => \A e \in partial' : e[1] \in Reaches(e[2]),
           UNCHANGED <<stage, queue, modules, imports, state, waiter, bodies, host, dynamics>>
    PROVE  BundleInductive'
  <1>1. /\ next' \in [Module -> Nat \ {0}] /\ \A x \in Module : x # m => next'[x] = next[x]
        /\ stage = "run" /\ ~Awaits(m)
    BY DEF BundleInductive, BundleTypes, Active
  <1>2. BundleTypes'
    BY <1>1 DEF BundleInductive, BundleTypes
  <1>3. Walked' /\ Counted'
    BY <1>1 DEF BundleInductive, Walked, Counted
  <1>4. Waiting'
    <2>1. ASSUME NEW x \in Module, Unfinished(x), waiter[x] # Nobody
          PROVE  WaitsFor(imports, state, next', waiter[x], x)
      <3>1. waiter[x] \in Module /\ waiter[x] # m
        BY <1>1, <2>1 DEF BundleInductive, BundleTypes, Awaits, Unfinished
      <3>2. WaitsFor(imports, state, next, waiter[x], x)
        BY <2>1 DEF BundleInductive, Waiting
      <3> QED
        BY <1>1, <3>1, <3>2 DEF WaitsFor
    <2> QED
      BY <2>1 DEF Waiting, Unfinished
  <1>5. (\A x : Chain(x)' = Chain(x)) /\ (\A x : Awaits(x)' = Awaits(x)) /\ (\A x : Reaches(x)' = Reaches(x))
    BY DEF Chain, Awaits, Reaches
  <1>6. OneStack'
    BY <1>5 DEF BundleInductive, OneStack, Unfinished
  <1> QED
    BY <1>2, <1>3, <1>4, <1>6 DEF BundleInductive

LEMMA ImportExternalHolds ==
    ASSUME BundleInductive, NEW m \in Module, ImportExternal(m) PROVE BundleInductive'
  BY AdvanceHolds DEF ImportExternal, BundleInductive, BundleTypes, OneStack

LEMMA ImportFoundHolds ==
    ASSUME BundleInductive, NEW m \in Module, ImportFound(m) PROVE BundleInductive'
  <1> DEFINE d == imports[m][next[m]]
  <1>1. /\ Active(m) /\ next[m] <= Len(imports[m]) /\ d # External /\ Found(d)
        /\ partial' = (IF state[d] = "cached" THEN partial ELSE partial \cup {<<m, d>>})
        /\ next' = [next EXCEPT ![m] = @ + 1]
        /\ UNCHANGED <<stage, queue, modules, imports, state, waiter, bodies, host, dynamics>>
    BY DEF ImportFound
  <1>2. d \in Module /\ ImportedBy(m, d)
    <2>1. imports[m] \in Seq(Module \cup {External}) /\ next[m] \in 1 .. Len(imports[m])
      BY <1>1 DEF BundleInductive, BundleTypes
    <2>2. d \in Module \cup {External}
      BY <2>1
    <2> QED
      BY <1>1, <2>1, <2>2 DEF ImportedBy
  <1> HIDE DEF d
  <1>3. partial' \subseteq Module \X Module
    BY <1>1, <1>2 DEF BundleInductive, BundleTypes
  <1>4. ASSUME dynamics = 0, NEW e \in partial' PROVE e[1] \in Reaches(e[2])
    <2>1. CASE e \in partial
      BY <1>4, <2>1 DEF BundleInductive, OneStack
    <2>2. CASE e \notin partial
      <3>1. e = <<m, d>> /\ state[d] \in {"pending", "broken"}
        BY <1>1, <1>4, <2>2 DEF Found
      <3>2. Unfinished(m) /\ ~Awaits(m)
        BY <1>1 DEF Active, Unfinished
      <3>3. Unfinished(d)
        BY <1>2, <1>4, <3>1, <3>2 DEF BundleInductive, OneStack, Unfinished
      <3>4. d \in Chain(m)
        BY <1>2, <1>4, <3>2, <3>3 DEF BundleInductive, OneStack
      <3>5. d = m \/ m \in Reaches(d)
        BY <3>2, <3>4, ChainLeads DEF BundleInductive
      <3>6. m \in Reaches(d)
        BY <1>2, <3>5, ReachFacts DEF BundleInductive, BundleTypes
      <3> QED
        BY <3>1, <3>6
    <2> QED
      BY <2>1, <2>2
  <1> QED
    BY <1>1, <1>3, <1>4, AdvanceHolds

(* A closed set of modules stays so when one begins that waits for another  *)
(* of the set or for nobody.                                                *)
LEMMA ChainGrows ==
    ASSUME NEW w \in [Module -> Module \cup {Nobody}], NEW v \in [Module -> Module \cup {Nobody}],
           NEW d \in Module, NEW m \in Module, w[d] = Nobody, v[d] = m,
           \A x \in Module : x # d => v[x] = w[x]
    PROVE  Above(w, m) \cup {d} \subseteq Above(v, d)
  <1>1. d \in Above(v, d) /\ Above(v, d) \subseteq Module /\ Closed(v, Above(v, d))
    BY AboveFacts
  <1>2. m \in Above(v, d)
    BY <1>1, NotModules DEF Closed
  <1>3. Closed(w, Above(v, d))
    BY <1>1 DEF Closed
  <1> QED
    BY <1>1, <1>2, <1>3, AboveFacts

LEMMA ImportRunsHolds ==
    ASSUME BundleInductive, NEW m \in Module, ImportRuns(m) PROVE BundleInductive'
  <1>1. PICK d : /\ d = imports[m][next[m]] /\ d # External /\ ~Found(d) /\ BeginModule(d, m)
                 /\ Active(m) /\ next[m] <= Len(imports[m])
                 /\ UNCHANGED <<stage, queue, modules, imports, partial, host, dynamics>>
    BY DEF ImportRuns
  <1>2. imports[m] \in Seq(Module \cup {External}) /\ next[m] \in 1 .. Len(imports[m]) /\ d \in Module
    <2>1. imports[m] \in Seq(Module \cup {External}) /\ next[m] \in 1 .. Len(imports[m])
      BY <1>1 DEF BundleInductive, BundleTypes
    <2>2. d \in Module \cup {External}
      BY <1>1, <2>1
    <2> QED
      BY <1>1, <2>1, <2>2
  <1>3. state[m] = "pending" /\ ~Awaits(m) /\ stage = "run" /\ In(modules, m) /\ queue = <<>>
    BY <1>1 DEF Active, BundleInductive, Walked, Counted
  <1>4. state[d] = "new" /\ In(modules, d)
    <2>1. state[d] = "new"
      BY <1>1, <1>2 DEF Found, BundleInductive, BundleTypes
    <2>2. In(modules, d) \/ In(queue, d)
      BY <1>1, <1>2, <1>3 DEF BundleInductive, Walked
    <2> QED
      BY <1>3, <2>1, <2>2, EmptyHasNone
  <1>5. WaitsFor(imports, state, next, m, d)
    BY <1>1, <1>2, <1>3 DEF WaitsFor
  <1>6. /\ state' \in [Module -> {"new", "pending", "cached", "broken"}]
        /\ next' \in [Module -> Nat \ {0}] /\ waiter' \in [Module -> Module \cup {Nobody}]
        /\ bodies' \in [Module -> 0 .. 1]
        /\ Counted' /\ Waiting'
        /\ state'[d] = "pending" /\ \A x \in Module : x # d => state'[x] = state[x]
        /\ waiter'[d] = m /\ waiter[d] = Nobody /\ \A x \in Module : x # d => waiter'[x] = waiter[x]
    BY <1>1, <1>2, <1>4, <1>5, BeginHolds
  <1>7. BundleTypes' /\ Walked'
    BY <1>1, <1>3, <1>6 DEF BundleInductive, BundleTypes, Walked
  <1>8. ASSUME dynamics = 0, NEW x \in Module, Unfinished(x)', ~Awaits(x)' PROVE x = d
    <2>1. SUFFICES ASSUME x # d PROVE FALSE
      OBVIOUS
    <2>2. Unfinished(x) /\ x # m
      <3>1. Awaits(m)'
        BY <1>2, <1>6 DEF Awaits
      <3> QED
        BY <1>6, <1>8, <2>1, <3>1 DEF Unfinished
    <2>3. ~Awaits(x)
      <3>1. SUFFICES ASSUME NEW e \in Module, waiter[e] = x, state[e] = "pending" PROVE FALSE
        BY DEF Awaits
      <3>2. e # d
        BY <1>4, <3>1
      <3> QED
        BY <1>6, <1>8, <3>1, <3>2 DEF Awaits
    <2>4. x = m
      BY <1>3, <1>8, <2>2, <2>3, OneActive DEF BundleInductive, Unfinished
    <2> QED
      BY <2>2, <2>4
  <1>9. ASSUME dynamics = 0, NEW x \in Module, Unfinished(x)' PROVE x \in Chain(d)'
    <2>1. waiter \in [Module -> Module \cup {Nobody}]
      BY DEF BundleInductive, BundleTypes
    <2>2. Chain(d)' = Above(waiter', d) /\ Chain(m) = Above(waiter, m)
      BY DEF Chain, Above, Closed
    <2>3. Above(waiter, m) \cup {d} \subseteq Above(waiter', d)
      BY <1>2, <1>6, <2>1, ChainGrows
    <2>4. x = d \/ x \in Chain(m)
      BY <1>3, <1>6, <1>9 DEF BundleInductive, OneStack, Unfinished
    <2> QED
      BY <2>2, <2>3, <2>4
  <1>10. \A x : Reaches(x)' = Reaches(x)
    BY <1>1 DEF Reaches
  <1>11. ASSUME dynamics = 0, NEW x \in Module PROVE state'[x] # "broken"
    <2>1. Unfinished(m) /\ \A y, z \in Module : state[y] = "broken" => ~Unfinished(z)
      BY <1>3, <1>11 DEF BundleInductive, OneStack, Unfinished
    <2>2. state[x] # "broken"
      BY <2>1
    <2> QED
      BY <1>6, <2>2 DEF BundleTypes, BundleInductive
  <1>12. OneStack'
    BY <1>1, <1>8, <1>9, <1>10, <1>11 DEF BundleInductive, OneStack
  <1> QED
    BY <1>6, <1>7, <1>12 DEF BundleInductive

LEMMA ImportLaterHolds ==
    ASSUME BundleInductive, NEW m \in Module, ImportLater(m) PROVE BundleInductive'
  <1>1. /\ Active(m) /\ dynamics' = dynamics + 1
        /\ UNCHANGED <<stage, queue, modules, imports, partial>>
    BY DEF ImportLater
  <1>2. PICK d \in Module :
           \/ Internal(m, d) /\ ~Found(d) /\ BeginModule(d, Nobody) /\ UNCHANGED host
           \/ host' = host \cup {d} /\ UNCHANGED <<state, next, waiter, bodies>>
    BY DEF ImportLater
  <1>3. stage = "run" /\ dynamics' \in Nat /\ dynamics' # 0
    BY <1>1 DEF Active, BundleInductive, BundleTypes
  <1>4. OneStack'
    BY <1>3 DEF OneStack
  <1>5. CASE Internal(m, d) /\ ~Found(d) /\ BeginModule(d, Nobody) /\ UNCHANGED host
    <2>1. state[d] = "new" /\ In(modules, d)
      BY <1>5 DEF Internal, InBundle, Contains, In, Found, BundleInductive, BundleTypes
    <2>2. /\ state' \in [Module -> {"new", "pending", "cached", "broken"}]
          /\ next' \in [Module -> Nat \ {0}] /\ waiter' \in [Module -> Module \cup {Nobody}]
          /\ bodies' \in [Module -> 0 .. 1]
          /\ Counted' /\ Waiting'
      BY <1>1, <1>5, <2>1, BeginHolds
    <2>3. BundleTypes' /\ Walked'
      BY <1>1, <1>3, <1>5, <2>2 DEF BundleInductive, BundleTypes, Walked
    <2> QED
      BY <1>4, <2>2, <2>3 DEF BundleInductive
  <1>6. CASE host' = host \cup {d} /\ UNCHANGED <<state, next, waiter, bodies>>
    <2>1. BundleTypes' /\ Walked'
      BY <1>1, <1>3, <1>6 DEF BundleInductive, BundleTypes, Walked
    <2>2. Counted' /\ Waiting'
      BY <1>1, <1>6 DEF BundleInductive, Counted, Waiting, Unfinished
    <2> QED
      BY <1>4, <2>1, <2>2 DEF BundleInductive
  <1> QED
    BY <1>2, <1>5, <1>6

LEMMA BodyEndHolds ==
    ASSUME BundleInductive, NEW m \in Module, BodyEnd(m) PROVE BundleInductive'
  <1>1. /\ Active(m) /\ state' = [state EXCEPT ![m] = "cached"]
        /\ next' = (IF waiter[m] = Nobody THEN next ELSE [next EXCEPT ![waiter[m]] = @ + 1])
        /\ UNCHANGED <<stage, queue, modules, imports, waiter, partial, bodies, host, dynamics>>
    BY DEF BodyEnd
  <1>2. state[m] = "pending" /\ ~Awaits(m) /\ stage = "run"
    BY <1>1 DEF Active
  <1>3. /\ state' \in [Module -> {"new", "pending", "cached", "broken"}]
        /\ state'[m] = "cached" /\ \A x \in Module : x # m => state'[x] = state[x]
        /\ next' \in [Module -> Nat \ {0}] /\ \A x \in Module : x # waiter[m] => next'[x] = next[x]
    BY <1>1 DEF BundleInductive, BundleTypes
  <1>4. BundleTypes' /\ Walked' /\ Counted'
    BY <1>1, <1>2, <1>3 DEF BundleInductive, BundleTypes, Walked, Counted
  <1>5. Waiting'
    <2>1. ASSUME NEW x \in Module, Unfinished(x)', waiter[x] # Nobody
          PROVE  WaitsFor(imports, state', next', waiter[x], x)
      <3> DEFINE w == waiter[x]
      <3>1. x # m /\ Unfinished(x) /\ w \in Module
        BY <1>3, <2>1 DEF Unfinished, BundleInductive, BundleTypes
      <3>2. WaitsFor(imports, state, next, w, x) /\ w # m
        BY <1>2, <2>1, <3>1 DEF BundleInductive, Waiting, Awaits, Unfinished
      <3>3. w # waiter[m]
        <4>1. SUFFICES ASSUME w = waiter[m] PROVE FALSE
          OBVIOUS
        <4>2. WaitsFor(imports, state, next, w, m)
          BY <1>2, <3>1, <4>1, NotModules DEF BundleInductive, Waiting, Unfinished
        <4> QED
          BY <3>1, <3>2, <4>2 DEF WaitsFor
      <3> QED
        BY <1>3, <3>1, <3>2, <3>3 DEF WaitsFor
    <2> QED
      BY <1>1, <2>1 DEF Waiting
  <1>6. Chain(m) = Above(waiter, m) /\ \A x : Chain(x)' = Above(waiter, x) /\ Reaches(x)' = Reaches(x)
    BY <1>1 DEF Chain, Above, Closed, Reaches
  <1>7. waiter \in [Module -> Module \cup {Nobody}]
    BY DEF BundleInductive, BundleTypes
  <1>8. ASSUME dynamics = 0, NEW x \in Module, Unfinished(x)', ~Awaits(x)',
               NEW y \in Module, Unfinished(y)'
        PROVE  y \in Chain(x)'
    <2>1. x # m /\ Unfinished(x) /\ y # m /\ Unfinished(y)
      BY <1>3, <1>8 DEF Unfinished
    <2>2. Awaits(x)
      BY <1>2, <1>8, <2>1, OneActive DEF BundleInductive, Unfinished
    <2>3. waiter[m] = x
      BY <1>1, <1>3, <1>8, <2>2 DEF Awaits
    <2>4. y \in Above(waiter, m)
      BY <1>2, <1>6, <1>8, <2>1 DEF BundleInductive, OneStack, Unfinished
    <2>5. Above(waiter, m) \subseteq Above(waiter, x) \cup {m}
      <3> DEFINE T == Above(waiter, x) \cup {m}
      <3>1. Closed(waiter, Above(waiter, x)) /\ x \in Above(waiter, x) /\ Above(waiter, x) \subseteq Module
        BY <1>7, AboveFacts
      <3>2. Closed(waiter, T) /\ m \in T /\ T \in SUBSET Module
        BY <2>3, <3>1 DEF Closed
      <3> QED
        BY <1>7, <3>2, AboveFacts
    <2> QED
      BY <1>6, <2>1, <2>4, <2>5
  <1>9. ASSUME dynamics = 0, NEW x \in Module PROVE state'[x] # "broken"
    BY <1>2, <1>3, <1>9 DEF BundleInductive, OneStack, Unfinished
  <1>10. OneStack'
    BY <1>1, <1>6, <1>8, <1>9 DEF BundleInductive, OneStack
  <1> QED
    BY <1>4, <1>5, <1>10 DEF BundleInductive

LEMMA BodyThrowHolds ==
    ASSUME BundleInductive, NEW m \in Module, BodyThrow(m) PROVE BundleInductive'
  <1>1. /\ Active(m)
        /\ state' = [d \in Module |-> IF d \in Chain(m) THEN "broken" ELSE state[d]]
        /\ UNCHANGED <<stage, queue, modules, imports, next, waiter, partial, bodies, host, dynamics>>
    BY DEF BodyThrow
  <1>2. Unfinished(m) /\ ~Awaits(m) /\ stage = "run"
    BY <1>1 DEF Active, Unfinished
  <1>3. \A d \in Chain(m) : Unfinished(d) /\ d \in Module
    BY <1>2, ChainLeads DEF BundleInductive, Chain
  <1>4. /\ state' \in [Module -> {"new", "pending", "cached", "broken"}]
        /\ \A d \in Module : state'[d] = IF d \in Chain(m) THEN "broken" ELSE state[d]
    BY <1>1 DEF BundleInductive, BundleTypes
  <1>5. BundleTypes' /\ Walked'
    BY <1>1, <1>2, <1>4 DEF BundleInductive, BundleTypes, Walked
  <1>6. Counted'
    BY <1>1, <1>3, <1>4 DEF BundleInductive, Counted, Unfinished
  <1>7. Waiting'
    <2>1. ASSUME NEW x \in Module, Unfinished(x)', waiter[x] # Nobody
          PROVE  WaitsFor(imports, state', next, waiter[x], x)
      <3> DEFINE w == waiter[x]
      <3>1. Unfinished(x) /\ x \notin Chain(m) /\ w \in Module
        BY <1>4, <2>1 DEF Unfinished, BundleInductive, BundleTypes
      <3>2. WaitsFor(imports, state, next, w, x)
        BY <2>1, <3>1 DEF BundleInductive, Waiting
      <3>3. w \notin Chain(m)
        <4>1. SUFFICES ASSUME w \in Chain(m) PROVE FALSE
          OBVIOUS
        <4>2. w # m
          BY <1>2, <3>1 DEF Awaits, Unfinished
        <4>3. PICK e \in Chain(m) : waiter[e] = w
          BY <4>1, <4>2, ChainIsAbove, AboveFacts DEF BundleInductive, BundleTypes
        <4>4. WaitsFor(imports, state, next, w, e)
          BY <1>3, <3>1, <4>3, NotModules DEF BundleInductive, Waiting
        <4> QED
          BY <3>1, <3>2, <4>3, <4>4 DEF WaitsFor
      <3> QED
        BY <1>4, <3>1, <3>2, <3>3 DEF WaitsFor
    <2> QED
      BY <1>1, <2>1 DEF Waiting
  <1>8. \A x : Reaches(x)' = Reaches(x)
    BY <1>1 DEF Reaches
  <1>9. ASSUME dynamics = 0, NEW x \in Module PROVE ~Unfinished(x)'
    BY <1>2, <1>4, <1>9 DEF BundleInductive, OneStack, Unfinished
  <1>10. OneStack'
    BY <1>1, <1>8, <1>9 DEF BundleInductive, OneStack
  <1> QED
    BY <1>5, <1>6, <1>7, <1>10 DEF BundleInductive

-----------------------------------------------------------------------------

(* Every step of the walk and of the bundle keeps the invariant.            *)
THEOREM BundleHolds == BundleSpec => []BundleInductive
  <1>1. BundleInductive /\ [BundleNext]_bundleVars => BundleInductive'
    <2> SUFFICES ASSUME BundleInductive, [BundleNext]_bundleVars PROVE BundleInductive'
      OBVIOUS
    <2>1. CASE Visit \/ Skip \/ PrepareFailed \/ StartBundle
      BY <2>1, VisitHolds, SkipHolds, PrepareFailedHolds, StartHolds
    <2>2. ASSUME NEW m \in Module,
                 \/ ImportExternal(m) \/ ImportFound(m) \/ ImportRuns(m) \/ ImportLater(m)
                 \/ BodyEnd(m) \/ BodyThrow(m)
          PROVE  BundleInductive'
      BY <2>2, ImportExternalHolds, ImportFoundHolds, ImportRunsHolds, ImportLaterHolds,
         BodyEndHolds, BodyThrowHolds
    <2>3. CASE UNCHANGED bundleVars
      <3> USE <2>3 DEF bundleVars
      <3>1. BundleTypes' /\ Walked' /\ Counted' /\ Waiting'
        BY DEF BundleInductive, BundleTypes, Walked, Counted, Waiting, Unfinished
      <3>2. OneStack'
        BY DEF BundleInductive, OneStack, Unfinished, Awaits, Chain, Reaches
      <3> QED
        BY <3>1, <3>2 DEF BundleInductive
    <2> QED
      BY <2>1, <2>2, <2>3 DEF BundleNext
  <1> QED
    BY <1>1, InitHolds, PTL DEF BundleSpec

(* A bundle runs each of its modules once, and while no import() ran beside *)
(* the others an unfinished module is given only to one it leads to.        *)
THEOREM BundleOnce == BundleSpec => []BundleRunsOnce
  <1>1. BundleInductive => BundleRunsOnce
    <2>1. \A m : InBundle(m) = In(modules, m)
      BY DEF InBundle, Contains, In
    <2>2. ASSUME BundleInductive, NEW m \in Module PROVE bodies[m] <= 1 /\ (bodies[m] = 1 => In(modules, m))
      <3>1. bodies[m] \in 0 .. 1 /\ (bodies[m] # 0 => In(modules, m))
        BY <2>2 DEF BundleInductive, BundleTypes, Counted
      <3> QED
        BY <3>1
    <2> QED
      BY <2>1, <2>2 DEF BundleInductive, OneStack, BundleRunsOnce
  <1> QED
    BY <1>1, BundleHolds, PTL

-----------------------------------------------------------------------------
(* The installer.                                                           *)

(* The names of a list of dependencies.                                     *)
NamesOf(ds) == {ds[i][1] : i \in DOMAIN ds}

LEMMA NamedHas ==
    ASSUME NEW s \in Seq(Dependency)
    PROVE  /\ NamesOf(s) \subseteq Package
           /\ \A p : p \in NamesOf(s) <=> \E d \in Dependency : d[1] = p /\ In(s, d)
  <1>1. DOMAIN s = 1 .. Len(s) /\ \A i \in 1 .. Len(s) : s[i] \in Dependency
    OBVIOUS
  <1>2. \A d \in Dependency : d[1] \in Package
    BY DEF Dependency
  <1>3. \A p : p \in NamesOf(s) <=> \E i \in 1 .. Len(s) : s[i][1] = p
    BY <1>1 DEF NamesOf
  <1> QED
    BY <1>1, <1>2, <1>3 DEF In

LEMMA NamedJoined ==
    ASSUME NEW s \in Seq(Dependency), NEW t \in Seq(Dependency)
    PROVE  NamesOf(s) \cup NamesOf(t) \subseteq NamesOf(s \o t)
  <1>1. s \o t \in Seq(Dependency) /\ \A x : In(s, x) \/ In(t, x) => In(s \o t, x)
    BY ConcatHas
  <1> QED
    BY <1>1, NamedHas

LEMMA NamedRest ==
    ASSUME NEW s \in Seq(Dependency), s # <<>>
    PROVE  /\ Front(s) \in Seq(Dependency) /\ Last(s) \in Dependency /\ Last(s)[1] \in Package
           /\ NamesOf(s) \subseteq NamesOf(Front(s)) \cup {Last(s)[1]}
  <1>1. /\ Front(s) \in Seq(Dependency) /\ Last(s) \in Dependency
        /\ \A x : In(s, x) => In(Front(s), x) \/ x = Last(s)
    BY FrontKeeps
  <1>2. Last(s)[1] \in Package
    BY <1>1 DEF Dependency
  <1> QED
    BY <1>1, <1>2, NamedHas

LEMMA NamedNone == NamesOf(<<>>) = {} /\ <<>> \in Seq(Dependency)
  BY DEF NamesOf

LEMMA ListTypes == DepLists \subseteq Seq(Dependency)
  BY InstallBounds DEF DepLists, SeqOf

(* What is pushed of a package: the dependencies that are not installed.    *)
LEMMA PushedNames ==
    ASSUME NEW name, OnDisk(name) \in Seq(Dependency)
    PROVE  /\ Nested(name) \in Seq(Dependency)
           /\ NamesOf(OnDisk(name)) \subseteq DOMAIN installed \cup NamesOf(Nested(name))
  <1> DEFINE s == OnDisk(name)  K == NotInstalled(name)
  <1>1. DOMAIN s = 1 .. Len(s) /\ K \in SUBSET (1 .. Len(s))
    BY DEF NotInstalled
  <1>2. \A i \in 1 .. Len(s) : i \in K \/ s[i][1] \in DOMAIN installed
    BY <1>1 DEF NotInstalled
  <1>3. Nested(name) = Picked(s, K)
    BY DEF Nested
  <1> HIDE DEF K, s
  <1>4. s \in Seq(Dependency)
    BY DEF s
  <1>5. /\ Picked(s, K) \in Seq(Dependency)
        /\ \A i \in K : \E n \in 1 .. Len(Picked(s, K)) : Picked(s, K)[n] = s[i]
    BY <1>1, <1>4, PickedKeeps
  <1>6. ASSUME NEW i \in 1 .. Len(s), s[i][1] \notin DOMAIN installed PROVE s[i][1] \in NamesOf(Picked(s, K))
    <2>1. PICK n \in 1 .. Len(Picked(s, K)) : Picked(s, K)[n] = s[i]
      BY <1>2, <1>5, <1>6
    <2>2. n \in DOMAIN Picked(s, K)
      BY <1>5
    <2> QED
      BY <2>1, <2>2 DEF NamesOf
  <1>7. NamesOf(s) \subseteq DOMAIN installed \cup NamesOf(Picked(s, K))
    BY <1>1, <1>6 DEF NamesOf
  <1> QED
    BY <1>3, <1>5, <1>7 DEF s

-----------------------------------------------------------------------------
(* The inductive invariant: whatever a package on disk or the project asks  *)
(* for is installed, in the worklist, or the one in hand.                   *)

Installation == [manifest : DepLists \cup {None, Torn}, whole : BOOLEAN]
InHand == pc \in {"unpack", "nested"}

InstallTypes ==
    /\ pc \in {"idle", "walk", "unpack", "nested", "done"}
    /\ root \in [dependencies : DepLists, devDependencies : DepLists]
    /\ production \in BOOLEAN /\ deps \in Seq(Dependency) /\ DOMAIN installed \subseteq Package
    /\ disk \in [Package -> Installation]
    /\ InHand => current.name \in Package

Covered == DOMAIN installed \cup NamesOf(deps) \cup {p \in Package : InHand /\ p = current.name}

InstallInductive ==
    /\ InstallTypes
    /\ pc # "idle" => NamesOf(collect_top_deps(root, production)) \subseteq Covered
    /\ \A p \in DOMAIN installed : Populated(p) /\ NamesOf(OnDisk(p)) \subseteq Covered
    /\ InHand => current.name \notin DOMAIN installed
    /\ pc = "nested" => Populated(current.name)
    /\ pc = "done" => lock = installed /\ deps = <<>>

LEMMA OnDiskTypes ==
    InstallTypes => \A p \in Package : OnDisk(p) \in Seq(Dependency)
  BY ListTypes, NamedNone DEF InstallTypes, Installation, OnDisk

LEMMA InstallInitHolds == InstallInit => InstallInductive
  <1> SUFFICES ASSUME InstallInit PROVE InstallInductive
    OBVIOUS
  <1>1. <<>> \in DepLists
    BY InstallBounds DEF DepLists, SeqOf
  <1>2. DOMAIN installed = {} /\ pc = "idle"
    BY DEF InstallInit
  <1>3. disk \in [Package -> Installation]
    BY DEF InstallInit, Missing, Installation
  <1>4. InstallTypes
    BY <1>1, <1>2, <1>3, NamedNone DEF InstallInit, InstallTypes, InHand
  <1> QED
    BY <1>2, <1>4 DEF InstallInductive, InHand

LEMMA StartKeeps == InstallInductive /\ Start => InstallInductive'
  <1> SUFFICES ASSUME InstallInductive, Start PROVE InstallInductive'
    OBVIOUS
  <1>1. /\ root' \in [dependencies : DepLists, devDependencies : DepLists]
        /\ production' \in BOOLEAN /\ deps' = collect_top_deps(root', production')
        /\ pc' = "walk" /\ DOMAIN installed' = {} /\ disk' = disk
    BY DEF Start
  <1>2. deps' \in Seq(Dependency)
    <2>1. root'.dependencies \in Seq(Dependency) /\ root'.devDependencies \in Seq(Dependency)
      BY <1>1, ListTypes
    <2> QED
      BY <1>1, <2>1 DEF collect_top_deps
  <1>3. InstallTypes'
    BY <1>1, <1>2 DEF InstallInductive, InstallTypes, InHand
  <1> QED
    BY <1>1, <1>3 DEF InstallInductive, Covered, InHand, collect_top_deps

LEMMA PopKeeps == InstallInductive /\ PopInstalled => InstallInductive'
  <1> SUFFICES ASSUME InstallInductive, PopInstalled PROVE InstallInductive'
    OBVIOUS
  <1>1. /\ pc = "walk" /\ deps # <<>> /\ Last(deps)[1] \in DOMAIN installed /\ deps' = Front(deps)
        /\ UNCHANGED <<pc, runs, root, production, current, installed, disk, lock>>
    BY DEF PopInstalled
  <1>2. deps' \in Seq(Dependency) /\ NamesOf(deps) \subseteq NamesOf(deps') \cup DOMAIN installed
    BY <1>1, NamedRest DEF InstallInductive, InstallTypes
  <1>3. Covered \subseteq Covered'
    BY <1>1, <1>2 DEF Covered, InHand
  <1>4. \A p : OnDisk(p)' = OnDisk(p) /\ Populated(p)' = Populated(p)
    BY <1>1 DEF OnDisk, Populated, HasManifest
  <1>5. InstallTypes'
    BY <1>1, <1>2 DEF InstallInductive, InstallTypes, InHand
  <1>6. collect_top_deps(root, production)' = collect_top_deps(root, production)
    BY <1>1
  <1> QED
    BY <1>1, <1>3, <1>4, <1>5, <1>6 DEF InstallInductive, InHand

LEMMA InstallOneKeeps == InstallInductive /\ install_one => InstallInductive'
  <1> SUFFICES ASSUME InstallInductive, install_one PROVE InstallInductive'
    OBVIOUS
  <1> DEFINE name == Last(deps)[1]
  <1>1. /\ pc = "walk" /\ deps # <<>> /\ name \notin DOMAIN installed /\ deps' = Front(deps)
        /\ current'.name = name
        /\ pc' = IF HasManifest(name) THEN "nested" ELSE "unpack"
        /\ UNCHANGED <<runs, root, production, installed, disk, lock>>
    BY DEF install_one
  <1>2. deps' \in Seq(Dependency) /\ name \in Package /\ NamesOf(deps) \subseteq NamesOf(deps') \cup {name}
    BY <1>1, NamedRest DEF InstallInductive, InstallTypes
  <1> HIDE DEF name
  <1>3. Covered \subseteq Covered'
    BY <1>1, <1>2 DEF Covered, InHand
  <1>4. \A p : OnDisk(p)' = OnDisk(p) /\ Populated(p)' = Populated(p)
    BY <1>1 DEF OnDisk, Populated, HasManifest
  <1>5. InstallTypes'
    BY <1>1, <1>2 DEF InstallInductive, InstallTypes, InHand
  <1>6. collect_top_deps(root, production)' = collect_top_deps(root, production)
    BY <1>1
  <1>7. pc' = "nested" => Populated(current.name)'
    BY <1>1, <1>4 DEF HasManifest, Populated
  <1> QED
    BY <1>1, <1>2, <1>3, <1>4, <1>5, <1>6, <1>7 DEF InstallInductive, InHand

LEMMA UnpackKeeps == InstallInductive /\ Unpack => InstallInductive'
  <1> SUFFICES ASSUME InstallInductive, Unpack PROVE InstallInductive'
    OBVIOUS
  <1>1. /\ pc = "unpack"
        /\ UNCHANGED <<runs, root, production, deps, current, installed, lock>>
    BY DEF Unpack
  <1>2. /\ disk' \in [Package -> Installation]
        /\ \A p \in Package : p # current.name => disk'[p] = disk[p]
    <2> DEFINE c == current.name  d == disk[c]
    <2>1. c \in Package /\ d \in Installation
      BY <1>1 DEF InstallInductive, InstallTypes, InHand
    <2>2. PICK e \in Installation : disk' = [disk EXCEPT ![c] = e]
      <3>1. CASE disk' = [disk EXCEPT ![c].manifest = Torn]
        <4>1. disk' = [disk EXCEPT ![c] = [d EXCEPT !.manifest = Torn]]
          BY <3>1
        <4> QED
          BY <2>1, <4>1 DEF Installation
      <3>2. ASSUME NEW ds \in DepLists, disk' = [disk EXCEPT ![c].manifest = ds]
            PROVE  \E e \in Installation : disk' = [disk EXCEPT ![c] = e]
        <4>1. disk' = [disk EXCEPT ![c] = [d EXCEPT !.manifest = ds]]
          BY <3>2
        <4> QED
          BY <2>1, <4>1 DEF Installation
      <3>3. CASE disk' = [disk EXCEPT ![c].whole = TRUE]
        <4>1. disk' = [disk EXCEPT ![c] = [d EXCEPT !.whole = TRUE]]
          BY <3>3
        <4> QED
          BY <2>1, <4>1 DEF Installation
      <3>4. CASE disk' = disk
        <4>1. disk' = [disk EXCEPT ![c] = d]
          BY <2>1, <3>4 DEF InstallInductive, InstallTypes
        <4> QED
          BY <2>1, <4>1
      <3> QED
        BY <3>1, <3>2, <3>3, <3>4 DEF Unpack
    <2> QED
      BY <2>1, <2>2 DEF InstallInductive, InstallTypes
  <1>3. /\ pc' \in {"unpack", "nested"}
        /\ pc' = "nested" => disk'[current.name].whole
    BY <1>1 DEF Unpack
  <1>4. Covered' = Covered
    BY <1>1, <1>3 DEF Covered, InHand
  <1>5. ASSUME NEW p \in DOMAIN installed PROVE OnDisk(p)' = OnDisk(p) /\ Populated(p)' = Populated(p)
    <2>1. p \in Package /\ p # current.name
      BY <1>1 DEF InstallInductive, InstallTypes, InHand
    <2> QED
      BY <1>2, <2>1 DEF OnDisk, Populated, HasManifest
  <1>6. InstallTypes'
    BY <1>1, <1>2, <1>3 DEF InstallInductive, InstallTypes, InHand
  <1>7. collect_top_deps(root, production)' = collect_top_deps(root, production)
    BY <1>1
  <1>8. pc' = "nested" => Populated(current.name)'
    BY <1>1, <1>3 DEF Populated
  <1> QED
    BY <1>1, <1>3, <1>4, <1>5, <1>6, <1>7, <1>8 DEF InstallInductive, InHand

LEMMA WalkOnKeeps == InstallInductive /\ WalkOn => InstallInductive'
  <1> SUFFICES ASSUME InstallInductive, WalkOn PROVE InstallInductive'
    OBVIOUS
  <1> DEFINE name == current.name
  <1>1. /\ pc = "nested" /\ deps' = deps \o Nested(name) /\ pc' = "walk"
        /\ UNCHANGED <<runs, root, production, current, disk, lock>>
    BY DEF WalkOn
  <1>2. DOMAIN installed' = DOMAIN installed \cup {name}
    BY DEF WalkOn
  <1>3. name \in Package /\ Populated(name) /\ OnDisk(name) \in Seq(Dependency)
    BY <1>1, OnDiskTypes DEF InstallInductive, InstallTypes, InHand
  <1>4. /\ Nested(name) \in Seq(Dependency)
        /\ NamesOf(OnDisk(name)) \subseteq DOMAIN installed \cup NamesOf(Nested(name))
    BY <1>3, PushedNames
  <1> HIDE DEF name
  <1>5. deps' \in Seq(Dependency) /\ NamesOf(deps) \cup NamesOf(Nested(name)) \subseteq NamesOf(deps')
    BY <1>1, <1>4, NamedJoined DEF InstallInductive, InstallTypes
  <1>6. Covered \subseteq Covered' /\ NamesOf(OnDisk(name)) \subseteq Covered'
    <2>1. Covered \subseteq DOMAIN installed \cup NamesOf(deps) \cup {name}
      BY DEF Covered, name
    <2> QED
      BY <1>2, <1>4, <1>5, <2>1 DEF Covered
  <1>7. \A p : OnDisk(p)' = OnDisk(p) /\ Populated(p)' = Populated(p)
    BY <1>1 DEF OnDisk, Populated, HasManifest
  <1>8. InstallTypes'
    BY <1>1, <1>2, <1>3, <1>5 DEF InstallInductive, InstallTypes, InHand
  <1>9. collect_top_deps(root, production)' = collect_top_deps(root, production)
    BY <1>1
  <1> QED
    BY <1>1, <1>2, <1>3, <1>6, <1>7, <1>8, <1>9 DEF InstallInductive, InHand

LEMMA WriteLockKeeps == InstallInductive /\ WriteLock => InstallInductive'
  <1> SUFFICES ASSUME InstallInductive, WriteLock PROVE InstallInductive'
    OBVIOUS
  <1>1. /\ pc = "walk" /\ deps = <<>> /\ lock' = installed /\ pc' = "done"
        /\ UNCHANGED <<runs, root, production, deps, current, installed, disk>>
    BY DEF WriteLock
  <1>2. Covered' = Covered
    BY <1>1 DEF Covered, InHand
  <1>3. \A p : OnDisk(p)' = OnDisk(p) /\ Populated(p)' = Populated(p)
    BY <1>1 DEF OnDisk, Populated, HasManifest
  <1>4. InstallTypes'
    BY <1>1 DEF InstallInductive, InstallTypes, InHand
  <1>5. collect_top_deps(root, production)' = collect_top_deps(root, production)
    BY <1>1
  <1> QED
    BY <1>1, <1>2, <1>3, <1>4, <1>5 DEF InstallInductive, InHand

LEMMA DiesKeeps == InstallInductive /\ Dies => InstallInductive'
  <1> SUFFICES ASSUME InstallInductive, Dies PROVE InstallInductive'
    OBVIOUS
  <1>1. /\ pc' = "idle" /\ deps' = <<>> /\ DOMAIN installed' = {}
        /\ UNCHANGED <<runs, root, production, current, disk, lock>>
    BY DEF Dies
  <1>2. InstallTypes'
    BY <1>1, NamedNone DEF InstallInductive, InstallTypes, InHand
  <1> QED
    BY <1>1, <1>2 DEF InstallInductive, InHand

(* Every step of the installer keeps the invariant.                         *)
THEOREM InstallHolds == InstallSpec => []InstallInductive
  <1>1. InstallInductive /\ [InstallNext]_installVars => InstallInductive'
    <2> SUFFICES ASSUME InstallInductive, [InstallNext]_installVars PROVE InstallInductive'
      OBVIOUS
    <2>1. CASE InstallNext
      BY <2>1, StartKeeps, PopKeeps, InstallOneKeeps, UnpackKeeps, WalkOnKeeps, WriteLockKeeps,
         DiesKeeps DEF InstallNext
    <2>2. CASE UNCHANGED installVars
      <3> USE <2>2 DEF installVars
      <3>1. InstallTypes' /\ Covered' = Covered /\ InHand' = InHand
        BY DEF InstallInductive, InstallTypes, Covered, InHand
      <3>2. \A p : OnDisk(p)' = OnDisk(p) /\ Populated(p)' = Populated(p)
        BY DEF OnDisk, Populated, HasManifest
      <3>3. collect_top_deps(root, production)' = collect_top_deps(root, production)
        OBVIOUS
      <3> QED
        BY <3>1, <3>2, <3>3 DEF InstallInductive
    <2> QED
      BY <2>1, <2>2
  <1> QED
    BY <1>1, InstallInitHolds, PTL DEF InstallSpec

(* A run of the installer that ends well leaves a closed tree, whatever     *)
(* earlier runs left on disk, for any packages, lists and number of runs,   *)
(* and whatever the archives hold.                                          *)
THEOREM InstallCloses == InstallSpec => []InstalledClosed
  <1>1. InstallInductive => InstalledClosed
    <2> SUFFICES ASSUME InstallInductive, pc = "done"
                 PROVE  /\ NamesOf(collect_top_deps(root, production)) \subseteq DOMAIN lock
                        /\ \A p \in DOMAIN lock : Populated(p) /\ NamesOf(OnDisk(p)) \subseteq DOMAIN lock
      BY DEF InstalledClosed, NamesOf
    <2>1. lock = installed /\ deps = <<>> /\ Covered = DOMAIN installed
      BY NamedNone DEF InstallInductive, Covered, InHand
    <2> QED
      BY <2>1 DEF InstallInductive
  <1> QED
    BY <1>1, InstallHolds, PTL

-----------------------------------------------------------------------------
(* The database.                                                            *)

Frame == [op : {"run", "borrowed", "transaction"}, db : Database]
Call == [db : Database, state : {"running", "returned", "threw", "lost"}]
Write == [call : Nat, insert : Insert, cells : UNION {[1 .. n -> SqlType] : n \in Nat}]

(* A row reads back as what was given for it.                               *)
BackAt(write) ==
    \A i \in DOMAIN write.cells :
        sql_to_js(write.cells[i]) \in BackAs(Given(write.insert, i), write.insert.columns[i])

(* What holds of the database d: a transaction is open while its one call   *)
(* is in progress, and a connection that is open and in none has no call.   *)
ConnectionOK(d) ==
    /\ conn[d] \in {"new", "open", "closed"}
    /\ conn[d] # "open" => ~tx[d]
    /\ conn[d] = "new" => InProgress(d) = {}
    /\ conn[d] = "open" /\ ~tx[d] => InProgress(d) = {}
    /\ tx[d] => \E k \in DOMAIN calls : InProgress(d) = {k} /\ pending[d] = RowsOf(k)
    /\ ~tx[d] => pending[d] = {}
    /\ Borrowed(d) => conn[d] = "open"

DatabaseTypes ==
    /\ home \in [Database -> Thread]
    /\ DOMAIN conn = Database /\ DOMAIN tx = Database
    /\ tx \in [Database -> BOOLEAN]
    /\ DOMAIN reading = Database /\ DOMAIN pending = Database
    /\ frames \in [Thread -> Seq(Frame)]
    /\ calls \in Seq(Call)
    /\ writes \in Seq(Write)

RowsKnown ==
    /\ \A n \in DOMAIN writes : writes[n].call \in 0 .. Len(calls) /\ BackAt(writes[n])
    /\ AllOrNothing

DatabaseInductive == DatabaseTypes /\ RowsKnown /\ \A d \in Database : ConnectionOK(d)

(* What a column keeps of a value reads back as the value.                 *)
LEMMA KeptReadsBack ==
    ASSUME NEW given \in JsType, NEW column \in Column, NEW bound \in Bound(given),
           NEW cell \in Converted(column, bound)
    PROVE  sql_to_js(cell) \in BackAs(given, column)
  <1>1. bound \in SqlType /\ (given \in {"null", "nan"} => bound = "Null")
    BY DEF Bound, js_to_sql, JsType, SqlType
  <1>2. /\ given = "bytes" => bound = "Blob"
        /\ given = "number" => bound \in {"Integer", "Real"}
        /\ given = "string" => bound = "Text"
    BY DEF Bound, js_to_sql
  <1>3. /\ bound = "Blob" => cell = "Blob"
        /\ bound = "Null" /\ column # "rowid" => cell = "Null"
        /\ bound \in {"Integer", "Real"} /\ column # "text" => cell \in {"Integer", "Real"}
        /\ bound = "Text" /\ column \in {"none", "text"} => cell = "Text"
        /\ cell \in SqlType
    BY <1>1 DEF Converted, Column, SqlType
  <1> QED
    BY <1>1, <1>2, <1>3 DEF BackAs, sql_to_js, JsType, SqlType

(* What is inserted reads back.                                             *)
LEMMA RowsReadBack ==
    ASSUME NEW i \in Insert, NEW c, ~BindFails(i.params, i.args), NEW cells \in Rows(i)
    PROVE  LET r == [call |-> c, insert |-> i, cells |-> cells] IN
           BackAt(r) /\ (c \in Nat => r \in Write)
  <1> DEFINE r == [call |-> c, insert |-> i, cells |-> cells]
  <1>1. /\ i.params \in Seq(Property) /\ i.args \in Seq(Argument)
        /\ i.columns \in [DOMAIN i.params -> Column]
    BY InsertAssumption
  <1>2. DOMAIN i.params = 1 .. Len(i.params) /\ Len(i.params) \in Nat
    BY <1>1
  <1>3. PICK bound \in bind_params(i.params, i.args) :
            /\ cells \in [1 .. Len(i.params) -> SqlType]
            /\ \A p \in DOMAIN i.params : cells[p] \in Converted(i.columns[p], bound[p])
    BY <1>2 DEF Rows
  <1>4. ASSUME NEW k \in 1 .. Len(i.params)
        PROVE  sql_to_js(cells[k]) \in BackAs(Given(i, k), i.columns[k])
    <2>1. Given(i, k) \in JsType /\ bound[k] \in Bound(Given(i, k))
      <3>1. CASE Named(i.args)
        <4> DEFINE list == i.args[1].props  name == i.params[k]
        <4>1. collect_params(i.args) = list
          BY <3>1 DEF collect_params
        <4>2. bound[k] \in IF name \in DOMAIN list THEN Bound(list[name]) ELSE {"Null"}
          BY <1>2, <3>1, <4>1 DEF bind_params
        <4>3. Given(i, k) = IF name \in DOMAIN list THEN list[name] ELSE "null"
          BY <3>1 DEF Given
        <4>4. name \in DOMAIN list => list[name] \in JsType
          <5>1. i.args[1] \in Argument
            BY <1>1, <3>1 DEF Named
          <5> QED
            BY <5>1 DEF Argument
        <4> HIDE DEF list, name
        <4> QED
          BY <4>2, <4>3, <4>4 DEF Bound, js_to_sql, JsType
      <3>2. CASE ~Named(i.args)
        <4> DEFINE list == [j \in DOMAIN i.args |-> i.args[j].type]
        <4>1. collect_params(i.args) = list /\ DOMAIN list = 1 .. Len(i.args) /\ Len(i.args) \in Nat
          BY <1>1, <3>2 DEF collect_params
        <4>2. bound[k] \in IF k \in DOMAIN list THEN Bound(list[k]) ELSE {"Null"}
          BY <1>2, <3>2, <4>1 DEF bind_params
        <4>3. Given(i, k) = IF k \in DOMAIN list THEN list[k] ELSE "null"
          <5>1. k \in DOMAIN list <=> k <= Len(i.args)
            BY <1>2, <4>1
          <5> QED
            BY <3>2, <4>1, <5>1 DEF Given
        <4>4. k \in DOMAIN list => list[k] \in JsType
          <5>1. \A j \in 1 .. Len(i.args) : i.args[j] \in Argument
            BY <1>1
          <5>2. \A arg \in Argument : arg.type \in JsType
            BY DEF Argument
          <5> QED
            BY <4>1, <5>1, <5>2
        <4> HIDE DEF list
        <4> QED
          BY <4>2, <4>3, <4>4 DEF Bound, js_to_sql, JsType
      <3> QED
        BY <3>1, <3>2
    <2>2. i.columns[k] \in Column /\ cells[k] \in Converted(i.columns[k], bound[k])
      BY <1>1, <1>2, <1>3
    <2> QED
      BY <2>1, <2>2, KeptReadsBack
  <1>5. BackAt(r)
    BY <1>3, <1>4 DEF BackAt
  <1>6. c \in Nat => r \in Write
    BY <1>2, <1>3 DEF Write
  <1> QED
    BY <1>5, <1>6

(* The rows of a call when one is inserted.                                 *)
LEMMA RowAdded ==
    ASSUME NEW r \in Write, writes \in Seq(Write), writes' = Append(writes, r)
    PROVE  /\ writes' \in Seq(Write) /\ DOMAIN writes' = DOMAIN writes \cup {Len(writes) + 1}
           /\ writes'[Len(writes) + 1] = r /\ \A n \in DOMAIN writes : writes'[n] = writes[n]
           /\ Len(writes) + 1 \notin DOMAIN writes
           /\ \A k : RowsOf(k)' = IF k = r.call THEN RowsOf(k) \cup {Len(writes) + 1} ELSE RowsOf(k)
  <1>1. /\ writes' \in Seq(Write) /\ DOMAIN writes' = DOMAIN writes \cup {Len(writes) + 1}
        /\ Len(writes) + 1 \notin DOMAIN writes
    OBVIOUS
  <1>2. writes'[Len(writes) + 1] = r /\ \A n \in DOMAIN writes : writes'[n] = writes[n]
    OBVIOUS
  <1> QED
    BY <1>1, <1>2 DEF RowsOf

(* The call a row is inserted for.                                          *)
LEMMA CallOfOpen ==
    ASSUME DatabaseInductive, NEW d \in Database, conn[d] = "open"
    PROVE  /\ CallOf(d) \in 0 .. Len(calls) /\ CallOf(d) \in Nat
           /\ ~tx[d] => CallOf(d) = 0
           /\ tx[d] => /\ InProgress(d) = {CallOf(d)} /\ CallOf(d) \in DOMAIN calls /\ CallOf(d) # 0
                       /\ pending[d] = RowsOf(CallOf(d))
  <1>1. DOMAIN calls = 1 .. Len(calls) /\ Len(calls) \in Nat
    BY DEF DatabaseInductive, DatabaseTypes
  <1>2. ConnectionOK(d)
    BY DEF DatabaseInductive
  <1>3. ~tx[d] => CallOf(d) = 0
    BY <1>2 DEF ConnectionOK, CallOf
  <1>4. tx[d] => /\ InProgress(d) = {CallOf(d)} /\ CallOf(d) \in DOMAIN calls
                 /\ pending[d] = RowsOf(CallOf(d))
    BY <1>2 DEF ConnectionOK, CallOf
  <1> QED
    BY <1>1, <1>3, <1>4

(* A call in progress is of one database, and has not returned.             *)
LEMMA InProgressApart ==
    ASSUME NEW d \in Database, NEW e \in Database, NEW k \in InProgress(d)
    PROVE  k \notin CallsThat("returned") /\ (k \in InProgress(e) => d = e)
  BY DEF InProgress, CallsThat

(* A row is inserted on d, whatever else the step does to the frames.       *)
LEMMA InsertsKeep ==
    ASSUME DatabaseInductive, NEW d \in Database, conn[d] = "open", Inserts(d),
           UNCHANGED conn
    PROVE  /\ writes' \in Seq(Write) /\ DOMAIN pending' = Database /\ UNCHANGED <<tx, reading, calls>>
           /\ RowsKnown'
           /\ \A e \in Database :
                 /\ tx[e] => \E k \in DOMAIN calls : InProgress(e) = {k} /\ pending'[e] = RowsOf(k)'
                 /\ ~tx[e] => pending'[e] = {}
  <1> DEFINE c == CallOf(d)  n == Len(writes) + 1
  <1>0. PICK i \in Insert :
            /\ ~BindFails(i.params, i.args)
            /\ \E cells \in Rows(i) :
                  writes' = Append(writes, [call |-> c, insert |-> i, cells |-> cells])
    BY DEF Inserts
  <1>1. PICK cells \in Rows(i) :
            writes' = Append(writes, [call |-> c, insert |-> i, cells |-> cells])
    BY <1>0
  <1> DEFINE r == [call |-> c, insert |-> i, cells |-> cells]
  <1>2. /\ c \in 0 .. Len(calls) /\ c \in Nat /\ (~tx[d] => c = 0)
        /\ tx[d] => InProgress(d) = {c} /\ c \in DOMAIN calls /\ c # 0 /\ pending[d] = RowsOf(c)
    BY CallOfOpen
  <1>3. BackAt(r) /\ r \in Write /\ r.call = c
    BY <1>0, <1>1, <1>2, RowsReadBack
  <1>4. writes \in Seq(Write) /\ writes' = Append(writes, r) /\ DOMAIN pending = Database
    BY <1>1 DEF DatabaseInductive, DatabaseTypes
  <1>5. /\ IF tx[d] THEN pending' = [pending EXCEPT ![d] = @ \cup {n}] /\ UNCHANGED saved
           ELSE saved' = saved \cup {n} /\ UNCHANGED pending
        /\ UNCHANGED <<tx, reading, calls>>
    BY DEF Inserts
  <1> HIDE DEF c, n, r
  <1>6. /\ writes' \in Seq(Write) /\ DOMAIN writes' = DOMAIN writes \cup {n}
        /\ writes'[n] = r /\ \A m \in DOMAIN writes : writes'[m] = writes[m]
        /\ \A k : RowsOf(k)' = IF k = c THEN RowsOf(k) \cup {n} ELSE RowsOf(k)
    BY <1>3, <1>4, RowAdded DEF n
  <1>7. \A e \in Database :
           /\ tx[e] => \E k \in DOMAIN calls : InProgress(e) = {k} /\ pending'[e] = RowsOf(k)'
           /\ ~tx[e] => pending'[e] = {}
    <2> SUFFICES ASSUME NEW e \in Database
                 PROVE  /\ tx[e] => \E k \in DOMAIN calls : InProgress(e) = {k} /\ pending'[e] = RowsOf(k)'
                        /\ ~tx[e] => pending'[e] = {}
      OBVIOUS
    <2>1. /\ tx[e] => \E k \in DOMAIN calls : InProgress(e) = {k} /\ pending[e] = RowsOf(k)
          /\ ~tx[e] => pending[e] = {}
      BY DEF DatabaseInductive, ConnectionOK
    <2>2. CASE e = d /\ tx[d]
      BY <1>2, <1>4, <1>5, <1>6, <2>2
    <2>3. CASE e # d /\ tx[e]
      <3>1. PICK k \in DOMAIN calls : InProgress(e) = {k} /\ pending[e] = RowsOf(k)
        BY <2>1, <2>3
      <3>2. k # c
        <4>1. k # 0
          BY DEF DatabaseInductive, DatabaseTypes
        <4>2. tx[d] => k # c
          BY <1>2, <2>3, <3>1, InProgressApart
        <4> QED
          BY <1>2, <4>1, <4>2
      <3>3. pending'[e] = pending[e] /\ RowsOf(k)' = RowsOf(k)
        BY <1>4, <1>5, <1>6, <2>3, <3>2
      <3> QED
        BY <2>3, <3>1, <3>3
    <2>4. CASE ~tx[e]
      BY <1>4, <1>5, <2>1, <2>4
    <2> QED
      BY <2>2, <2>3, <2>4
  <1>8. AllOrNothing'
    <2>1. saved = RowsOf(0) \cup UNION {RowsOf(k) : k \in CallsThat("returned")}
      BY DEF DatabaseInductive, RowsKnown, AllOrNothing
    <2>2. CallsThat("returned")' = CallsThat("returned")
      BY <1>5 DEF CallsThat
    <2>3. CASE tx[d]
      <3>1. c # 0 /\ c \notin CallsThat("returned") /\ saved' = saved
        BY <1>2, <1>5, <2>3, InProgressApart
      <3>2. RowsOf(0)' = RowsOf(0) /\ \A k \in CallsThat("returned") : RowsOf(k)' = RowsOf(k)
        BY <1>6, <3>1
      <3> QED
        BY <2>1, <2>2, <3>1, <3>2 DEF AllOrNothing
    <2>4. CASE ~tx[d]
      <3>1. c = 0 /\ 0 \notin CallsThat("returned") /\ saved' = saved \cup {n}
        <4>1. 0 \notin DOMAIN calls
          BY DEF DatabaseInductive, DatabaseTypes
        <4> QED
          BY <1>2, <1>5, <2>4, <4>1 DEF CallsThat
      <3>2. RowsOf(0)' = RowsOf(0) \cup {n} /\ \A k \in CallsThat("returned") : RowsOf(k)' = RowsOf(k)
        BY <1>6, <3>1
      <3> QED
        BY <2>1, <2>2, <3>1, <3>2 DEF AllOrNothing
    <2> QED
      BY <2>3, <2>4
  <1>9. \A m \in DOMAIN writes' : writes'[m].call \in 0 .. Len(calls') /\ BackAt(writes'[m])
    <2>1. \A m \in DOMAIN writes : writes[m].call \in 0 .. Len(calls) /\ BackAt(writes[m])
      BY DEF DatabaseInductive, RowsKnown
    <2> QED
      BY <1>2, <1>3, <1>5, <1>6, <2>1
  <1>10. RowsKnown'
    BY <1>8, <1>9 DEF RowsKnown, BackAt
  <1> QED
    BY <1>4, <1>5, <1>6, <1>7, <1>10

(* A transaction ends, with its call or in the middle of it.                *)
LEMMA OverKeeps ==
    ASSUME DatabaseInductive, NEW d \in Database, NEW rows,
           NEW outcome \in {"returned", "threw", "lost"},
           TransactionOver(d, rows), CallEnds(d, outcome),
           outcome = "returned" => CanCommit(d) /\ rows = pending[d],
           outcome # "returned" => rows = {},
           UNCHANGED <<home, conn, writes>>, frames' \in [Thread -> Seq(Frame)],
           \A e \in Database : Borrowed(e)' => Borrowed(e)
    PROVE  DatabaseInductive'
  <1>1. /\ TransactionOver(d, rows) /\ CallEnds(d, outcome)
        /\ outcome = "returned" => CanCommit(d) /\ rows = pending[d]
        /\ outcome # "returned" => rows = {}
    OBVIOUS
  <1>2. UNCHANGED <<home, conn, writes>>
    OBVIOUS
  <1>3. DatabaseTypes /\ RowsKnown
    BY DEF DatabaseInductive
  <1>4. /\ frames' \in [Thread -> Seq(Frame)]
        /\ \A e \in Database : Borrowed(e)' => Borrowed(e)
    OBVIOUS
  <1>5. d \in Database
    OBVIOUS
  <1>6. /\ calls' \in Seq(Call) /\ DOMAIN calls' = DOMAIN calls /\ Len(calls') = Len(calls)
        /\ \A k \in DOMAIN calls :
              calls'[k] = IF k \in InProgress(d) THEN [calls[k] EXCEPT !.state = outcome] ELSE calls[k]
    <2>1. calls \in Seq(Call)
      BY <1>3 DEF DatabaseTypes
    <2>2. calls' = [k \in DOMAIN calls |->
                      IF k \in InProgress(d) THEN [calls[k] EXCEPT !.state = outcome] ELSE calls[k]]
      BY <1>1 DEF CallEnds
    <2>3. ASSUME NEW k \in DOMAIN calls PROVE calls'[k] \in Call
      <3>1. calls[k] \in Call
        BY <2>1
      <3>2. [calls[k] EXCEPT !.state = outcome] \in Call
        BY <3>1 DEF Call
      <3> QED
        BY <2>2, <3>1, <3>2
    <2>4. calls' \in [1 .. Len(calls) -> Call] /\ Len(calls) \in Nat
      BY <2>1, <2>2, <2>3
    <2> QED
      BY <2>1, <2>2, <2>4
  <1>7. \A k \in DOMAIN calls : calls[k] \in Call
    BY <1>3 DEF DatabaseTypes
  <1>8. \A e \in Database : InProgress(e)' = IF e = d THEN {} ELSE InProgress(e)
    <2>1. \A k \in InProgress(d) : k \in DOMAIN calls /\ calls'[k].state = outcome /\ calls[k].db = d
      BY <1>6, <1>7 DEF InProgress, Call
    <2>2. \A e \in Database : \A k \in DOMAIN calls :
             calls'[k] = [db |-> e, state |-> "running"] <=> e # d /\ calls[k] = [db |-> e, state |-> "running"]
      <3> TAKE e \in Database
      <3> TAKE k \in DOMAIN calls
      <3>1. CASE k \in InProgress(d)
        BY <2>1, <3>1 DEF InProgress
      <3>2. CASE k \notin InProgress(d)
        BY <1>6, <3>2 DEF InProgress
      <3> QED
        BY <3>1, <3>2
    <2> QED
      BY <1>6, <2>2 DEF InProgress
  <1>9. /\ outcome # "returned" => CallsThat("returned")' = CallsThat("returned")
        /\ outcome = "returned" => CallsThat("returned")' = CallsThat("returned") \cup InProgress(d)
    <2>1. \A k \in DOMAIN calls : calls'[k].state = IF k \in InProgress(d) THEN outcome ELSE calls[k].state
      BY <1>6, <1>7 DEF Call
    <2>2. InProgress(d) \subseteq DOMAIN calls /\ \A k \in InProgress(d) : calls[k].state = "running"
      BY DEF InProgress
    <2> QED
      BY <1>6, <2>1, <2>2 DEF CallsThat
  <1>10. \A j : RowsOf(j)' = RowsOf(j)
    BY <1>2 DEF RowsOf
  <1>11. /\ DOMAIN tx' = Database /\ tx' \in [Database -> BOOLEAN]
         /\ DOMAIN reading' = Database /\ DOMAIN pending' = Database
         /\ \A e \in Database : /\ tx'[e] = IF e = d THEN FALSE ELSE tx[e]
                                /\ pending'[e] = IF e = d THEN {} ELSE pending[e]
         /\ saved' = saved \cup rows
    BY <1>1, <1>3, <1>5 DEF TransactionOver, DatabaseTypes
  <1>12. DatabaseTypes'
    BY <1>2, <1>3, <1>4, <1>6, <1>11 DEF DatabaseTypes
  <1>13. AllOrNothing'
    <2>1. saved = RowsOf(0) \cup UNION {RowsOf(k) : k \in CallsThat("returned")}
      BY <1>3 DEF RowsKnown, AllOrNothing
    <2>2. CASE outcome # "returned"
      BY <1>1, <1>9, <1>10, <1>11, <2>1, <2>2 DEF AllOrNothing
    <2>3. CASE outcome = "returned"
      <3>1. PICK k \in DOMAIN calls : InProgress(d) = {k} /\ pending[d] = RowsOf(k)
        BY <1>1, <1>5, <2>3 DEF CanCommit, DatabaseInductive, ConnectionOK
      <3>2. saved' = saved \cup RowsOf(k)
        BY <1>1, <1>11, <2>3, <3>1
      <3>3. CallsThat("returned")' = CallsThat("returned") \cup {k}
        BY <1>9, <2>3, <3>1
      <3> QED
        BY <1>10, <2>1, <3>2, <3>3 DEF AllOrNothing
    <2> QED
      BY <2>2, <2>3
  <1>14. RowsKnown'
    BY <1>2, <1>3, <1>6, <1>13 DEF RowsKnown, BackAt
  <1>15. ASSUME NEW e \in Database PROVE ConnectionOK(e)'
    <2>1. ConnectionOK(e) /\ (Borrowed(e)' => Borrowed(e))
      BY <1>4 DEF DatabaseInductive
    <2>2. CASE e = d
      BY <1>2, <1>8, <1>11, <2>1, <2>2 DEF ConnectionOK
    <2>3. CASE e # d
      <3>1. tx'[e] = tx[e] /\ pending'[e] = pending[e] /\ InProgress(e)' = InProgress(e)
        BY <1>8, <1>11, <2>3
      <3> QED
        BY <1>2, <1>6, <1>10, <2>1, <3>1 DEF ConnectionOK
    <2> QED
      BY <2>2, <2>3
  <1> QED
    BY <1>12, <1>14, <1>15 DEF DatabaseInductive

(* A statement, whether the frames of its thread stay or one ends.          *)
LEMMA ExecutesKeep ==
    ASSUME DatabaseInductive, NEW d \in Database, conn[d] = "open", Executes(d),
           UNCHANGED <<home, conn>>, frames' \in [Thread -> Seq(Frame)],
           \A e \in Database : Borrowed(e)' => Borrowed(e)
    PROVE  DatabaseInductive'
  <1> DEFINE Lost == TransactionOver(d, {}) /\ CallEnds(d, "lost") /\ UNCHANGED writes
  <1>1. CASE Lost
    BY <1>1, OverKeeps
  <1>2. CASE ~Lost
    <2>1. Inserts(d) \/ (UNCHANGED <<tx, pending, saved, calls, writes>> /\ DOMAIN reading' = Database)
      BY <1>2 DEF Executes, Queries, Fails, DatabaseInductive, DatabaseTypes
    <2> HIDE DEF Lost
    <2>2. UNCHANGED <<tx, calls>>
      BY <2>1 DEF Inserts
    <2>3. \A e \in Database : InProgress(e)' = InProgress(e)
      BY <2>2 DEF InProgress
    <2>4. /\ writes' \in Seq(Write) /\ DOMAIN pending' = Database /\ DOMAIN reading' = Database
          /\ RowsKnown'
          /\ \A e \in Database :
                /\ tx[e] => \E k \in DOMAIN calls : InProgress(e) = {k} /\ pending'[e] = RowsOf(k)'
                /\ ~tx[e] => pending'[e] = {}
      <3>1. CASE Inserts(d)
        <4>1. DOMAIN reading = Database
          BY DEF DatabaseInductive, DatabaseTypes
        <4> QED
          BY <3>1, <4>1, InsertsKeep
      <3>2. CASE UNCHANGED <<pending, saved, writes>> /\ DOMAIN reading' = Database
        <4>1. /\ writes' \in Seq(Write) /\ DOMAIN pending' = Database
          BY <3>2 DEF DatabaseInductive, DatabaseTypes
        <4>2. \A k : RowsOf(k)' = RowsOf(k)
          BY <3>2 DEF RowsOf
        <4>3. RowsKnown'
          BY <2>2, <3>2 DEF DatabaseInductive, RowsKnown, AllOrNothing, BackAt, CallsThat, RowsOf
        <4>4. \A e \in Database :
                 /\ tx[e] => \E k \in DOMAIN calls : InProgress(e) = {k} /\ pending'[e] = RowsOf(k)'
                 /\ ~tx[e] => pending'[e] = {}
          BY <3>2, <4>2 DEF DatabaseInductive, ConnectionOK
        <4> QED
          BY <3>2, <4>1, <4>3, <4>4
      <3> QED
        BY <2>1, <3>1, <3>2
    <2>5. DatabaseTypes'
      BY <2>2, <2>4 DEF DatabaseInductive, DatabaseTypes
    <2>6. ASSUME NEW e \in Database PROVE ConnectionOK(e)'
      <3>1. ConnectionOK(e) /\ (Borrowed(e)' => Borrowed(e))
        BY DEF DatabaseInductive
      <3> QED
        BY <2>2, <2>3, <2>4, <3>1 DEF ConnectionOK
    <2> QED
      BY <2>4, <2>5, <2>6 DEF DatabaseInductive
  <1> QED
    BY <1>1, <1>2

(* What a call, and its end, do to the calls the threads are inside of.     *)
LEMMA EnteredFrames ==
    ASSUME DatabaseTypes, NEW d \in Database, NEW entry \in {"run", "borrowed", "transaction"},
           Entered(home[d], entry, d), UNCHANGED home
    PROVE  /\ frames' \in [Thread -> Seq(Frame)]
           /\ \A e \in Database : Borrowed(e)' => Borrowed(e) \/ (entry = "borrowed" /\ e = d)
  <1> DEFINE t == home[d]  frame == [op |-> entry, db |-> d]
  <1>1. frame \in Frame /\ t \in Thread /\ frames \in [Thread -> Seq(Frame)]
    BY DEF Frame, DatabaseTypes
  <1>2. frames' = [frames EXCEPT ![t] = Append(frames[t], frame)]
    BY DEF Entered
  <1>3. ASSUME NEW e \in Database, Borrowed(e)'
        PROVE  Borrowed(e) \/ (entry = "borrowed" /\ e = d)
    <2>1. home[e] \in Thread
      BY DEF DatabaseTypes
    <2>2. PICK i \in DOMAIN frames'[home[e]] : frames'[home[e]][i] = [op |-> "borrowed", db |-> e]
      BY <1>3 DEF Borrowed
    <2>3. CASE home[e] # t
      BY <1>1, <1>2, <2>1, <2>2, <2>3 DEF Borrowed
    <2>4. CASE home[e] = t
      <3> HIDE DEF t, frame
      <3>1. frames[t] \in Seq(Frame) /\ frames'[t] = Append(frames[t], frame)
        BY <1>1, <1>2
      <3>2. (i \in DOMAIN frames[t] /\ frames'[t][i] = frames[t][i]) \/ frames'[t][i] = frame
        BY <2>2, <2>4, <3>1
      <3> QED
        BY <2>2, <2>4, <3>2 DEF Borrowed, frame
    <2> QED
      BY <2>3, <2>4
  <1>4. frames' \in [Thread -> Seq(Frame)]
    <2> HIDE DEF t, frame
    <2>1. Append(frames[t], frame) \in Seq(Frame)
      BY <1>1
    <2> QED
      BY <1>1, <1>2, <2>1
  <1> QED
    BY <1>3, <1>4

LEMMA LeavesFrames ==
    ASSUME DatabaseTypes, NEW t \in Thread, frames[t] # <<>>, Leaves(t), UNCHANGED home
    PROVE  /\ frames' \in [Thread -> Seq(Frame)] /\ Innermost(t) \in Frame
           /\ \A e \in Database : Borrowed(e)' => Borrowed(e)
  <1> DEFINE inside == frames[t]  left == SubSeq(inside, 1, Len(inside) - 1)
  <1>1. frames \in [Thread -> Seq(Frame)] /\ inside \in Seq(Frame) /\ inside # <<>>
    BY DEF DatabaseTypes
  <1>2. frames' = [frames EXCEPT ![t] = left]
    BY DEF Leaves
  <1>3. Innermost(t) = inside[Len(inside)]
    BY DEF Innermost
  <1> HIDE DEF inside
  <1>4. /\ Len(inside) \in DOMAIN inside /\ inside[Len(inside)] \in Frame
        /\ left \in Seq(Frame) /\ \A i \in DOMAIN left : i \in DOMAIN inside /\ left[i] = inside[i]
    BY <1>1
  <1> HIDE DEF left
  <1>5. frames' \in [Thread -> Seq(Frame)]
    BY <1>1, <1>2, <1>4
  <1>6. ASSUME NEW e \in Database, Borrowed(e)' PROVE Borrowed(e)
    <2>1. home[e] \in Thread
      BY DEF DatabaseTypes
    <2>2. PICK i \in DOMAIN frames'[home[e]] : frames'[home[e]][i] = [op |-> "borrowed", db |-> e]
      BY <1>6 DEF Borrowed
    <2>3. i \in DOMAIN frames[home[e]] /\ frames[home[e]][i] = frames'[home[e]][i]
      <3>1. CASE home[e] = t
        BY <1>1, <1>2, <1>4, <2>2, <3>1 DEF inside
      <3>2. CASE home[e] # t
        BY <1>1, <1>2, <2>1, <2>2, <3>2
      <3> QED
        BY <3>1, <3>2
    <2> QED
      BY <2>2, <2>3 DEF Borrowed
  <1> QED
    BY <1>3, <1>4, <1>5, <1>6

(* A step that only changes what the threads are inside of.                 *)
LEMMA FramesKeep ==
    ASSUME DatabaseInductive, frames' \in [Thread -> Seq(Frame)],
           \A e \in Database : Borrowed(e)' => conn[e] = "open",
           UNCHANGED <<home, conn, tx, reading, pending, saved, calls, writes>>
    PROVE  DatabaseInductive'
  <1>1. DatabaseTypes'
    BY DEF DatabaseInductive, DatabaseTypes
  <1>2. RowsKnown'
    BY DEF DatabaseInductive, RowsKnown, AllOrNothing, BackAt, CallsThat, RowsOf
  <1>3. ASSUME NEW e \in Database PROVE ConnectionOK(e)'
    <2>1. ConnectionOK(e) /\ (Borrowed(e)' => conn[e] = "open")
      BY DEF DatabaseInductive
    <2>2. InProgress(e)' = InProgress(e) /\ \A k : RowsOf(k)' = RowsOf(k)
      BY DEF InProgress, RowsOf
    <2> QED
      BY <2>1, <2>2 DEF ConnectionOK
  <1> QED
    BY <1>1, <1>2, <1>3 DEF DatabaseInductive

(* One action after the other.                                              *)
LEMMA OpenKeeps ==
    ASSUME DatabaseInductive, NEW d \in Database, OpenDatabase(d)
    PROVE  DatabaseInductive'
  <1>1. DatabaseTypes'
    BY DEF DatabaseInductive, DatabaseTypes, OpenDatabase
  <1>2. RowsKnown'
    BY DEF DatabaseInductive, RowsKnown, AllOrNothing, BackAt, CallsThat, RowsOf, OpenDatabase
  <1>3. ASSUME NEW e \in Database PROVE ConnectionOK(e)'
    <2>1. ConnectionOK(e) /\ DOMAIN conn = Database
      BY DEF DatabaseInductive, DatabaseTypes
    <2>2. /\ InProgress(e)' = InProgress(e) /\ Borrowed(e)' = Borrowed(e)
          /\ \A k : RowsOf(k)' = RowsOf(k)
      BY DEF InProgress, RowsOf, Borrowed, OpenDatabase
    <2>3. /\ conn'[e] = (IF e = d THEN "open" ELSE conn[e]) /\ conn[d] = "new"
          /\ UNCHANGED <<tx, pending, calls>>
      BY <2>1 DEF OpenDatabase
    <2> QED
      BY <2>1, <2>2, <2>3 DEF ConnectionOK
  <1> QED
    BY <1>1, <1>2, <1>3 DEF DatabaseInductive

LEMMA StatementKeeps ==
    ASSUME DatabaseInductive, NEW d \in Database, Statement(d)
    PROVE  DatabaseInductive'
  <1>1. frames' \in [Thread -> Seq(Frame)] /\ \A e \in Database : Borrowed(e)' => Borrowed(e)
    BY DEF Statement, DatabaseInductive, DatabaseTypes, Borrowed
  <1> QED
    BY <1>1, ExecutesKeep DEF Statement

LEMMA CollectsKeep ==
    ASSUME DatabaseInductive, NEW d \in Database, DatabaseCollects(d) \/ StatementCollects(d)
    PROVE  DatabaseInductive'
  <1>1. DatabaseTypes /\ \A e \in Database : Borrowed(e) => conn[e] = "open"
    BY DEF DatabaseInductive, ConnectionOK
  <1>2. UNCHANGED <<home, conn, tx, reading, pending, saved, calls, writes>>
    BY DEF DatabaseCollects, StatementCollects
  <1>3. /\ frames' \in [Thread -> Seq(Frame)]
        /\ \A e \in Database : Borrowed(e)' => Borrowed(e) \/ (conn[d] = "open" /\ e = d)
    <2>1. CASE DatabaseCollects(d)
      BY <1>1, <1>2, <2>1, EnteredFrames DEF DatabaseCollects
    <2>2. CASE StatementCollects(d)
      BY <1>1, <1>2, <2>2, EnteredFrames DEF StatementCollects
    <2> QED
      BY <2>1, <2>2
  <1>4. \A e \in Database : Borrowed(e)' => conn[e] = "open"
    BY <1>1, <1>3
  <1> QED
    BY <1>2, <1>3, <1>4, FramesKeep

LEMMA CollectedKeeps ==
    ASSUME DatabaseInductive, NEW t \in Thread, Collected(t)
    PROVE  DatabaseInductive'
  <1> DEFINE d == Innermost(t).db
  <1>1. /\ Inside(t, {"run", "borrowed"}) /\ Leaves(t) /\ UNCHANGED <<home, conn>>
        /\ IF conn[d] = "open" THEN Executes(d)
           ELSE UNCHANGED <<tx, reading, pending, saved, calls, writes>>
    BY DEF Collected
  <1>2. DatabaseTypes /\ \A e \in Database : Borrowed(e) => conn[e] = "open"
    BY DEF DatabaseInductive, ConnectionOK
  <1>3. /\ frames' \in [Thread -> Seq(Frame)] /\ Innermost(t) \in Frame
        /\ \A e \in Database : Borrowed(e)' => Borrowed(e)
    BY <1>1, <1>2, LeavesFrames DEF Inside
  <1>4. d \in Database
    BY <1>3 DEF Frame
  <1> HIDE DEF d
  <1>5. CASE conn[d] = "open"
    BY <1>1, <1>3, <1>4, <1>5, ExecutesKeep
  <1>6. CASE conn[d] # "open"
    BY <1>1, <1>2, <1>3, <1>6, FramesKeep
  <1> QED
    BY <1>5, <1>6

LEMMA BeginKeeps ==
    ASSUME DatabaseInductive, NEW d \in Database, BeginTransaction(d)
    PROVE  DatabaseInductive'
  <1> DEFINE k == Len(calls) + 1  call == [db |-> d, state |-> "running"]
  <1>1. /\ conn[d] = "open" /\ ~tx[d] /\ tx' = [tx EXCEPT ![d] = TRUE]
        /\ Entered(home[d], "transaction", d) /\ calls' = Append(calls, call)
        /\ UNCHANGED <<home, conn, reading, pending, saved, writes>>
    BY DEF BeginTransaction
  <1>2. DatabaseTypes /\ RowsKnown
    BY DEF DatabaseInductive
  <1>3. /\ frames' \in [Thread -> Seq(Frame)]
        /\ \A e \in Database : Borrowed(e)' => Borrowed(e)
    BY <1>1, <1>2, EnteredFrames
  <1>4. call \in Call /\ call.state = "running" /\ call.db = d
    BY DEF Call
  <1>5. calls \in Seq(Call)
    BY <1>2 DEF DatabaseTypes
  <1>6. calls' = Append(calls, call)
    BY <1>1
  <1>7. \A e \in Database : call = [db |-> e, state |-> "running"] <=> e = d
    OBVIOUS
  <1> HIDE DEF call
  <1>8. /\ calls' \in Seq(Call) /\ DOMAIN calls' = DOMAIN calls \cup {k} /\ k \notin DOMAIN calls
        /\ calls'[k] = call /\ \A j \in DOMAIN calls : calls'[j] = calls[j]
        /\ Len(calls') = k /\ Len(calls) \in Nat
    BY <1>4, <1>5, <1>6
  <1>9. \A j : RowsOf(j)' = RowsOf(j)
    BY <1>1 DEF RowsOf
  <1>10. RowsOf(k) = {}
    <2>1. \A n \in DOMAIN writes : writes[n].call \in 0 .. Len(calls)
      BY <1>2 DEF RowsKnown
    <2> QED
      BY <1>8, <2>1 DEF RowsOf
  <1>11. \A e \in Database : InProgress(e)' = IF e = d THEN InProgress(e) \cup {k} ELSE InProgress(e)
    BY <1>7, <1>8 DEF InProgress
  <1>12. CallsThat("returned")' = CallsThat("returned")
    BY <1>4, <1>8 DEF CallsThat
  <1> HIDE DEF k
  <1>13. DatabaseTypes'
    BY <1>1, <1>2, <1>3, <1>8 DEF DatabaseTypes
  <1>14. RowsKnown'
    <2>1. AllOrNothing'
      BY <1>1, <1>2, <1>9, <1>12 DEF RowsKnown, AllOrNothing
    <2>2. 0 .. Len(calls) \subseteq 0 .. Len(calls')
      BY <1>8 DEF k
    <2> QED
      BY <1>1, <1>2, <2>1, <2>2 DEF RowsKnown, BackAt
  <1>15. ASSUME NEW e \in Database PROVE ConnectionOK(e)'
    <2>1. ConnectionOK(e) /\ ConnectionOK(d) /\ DOMAIN tx = Database /\ (Borrowed(e)' => Borrowed(e))
      BY <1>3 DEF DatabaseInductive, DatabaseTypes
    <2>2. CASE e = d
      BY <1>1, <1>8, <1>9, <1>10, <1>11, <2>1, <2>2 DEF ConnectionOK
    <2>3. CASE e # d
      <3>1. tx'[e] = tx[e] /\ InProgress(e)' = InProgress(e)
        BY <1>1, <1>11, <2>1, <2>3
      <3> QED
        BY <1>1, <1>8, <1>9, <2>1, <3>1 DEF ConnectionOK
    <2> QED
      BY <2>2, <2>3
  <1> QED
    BY <1>13, <1>14, <1>15 DEF DatabaseInductive

LEMMA EndsKeep ==
    ASSUME DatabaseInductive, NEW t \in Thread, TransactionEnds(t)
    PROVE  DatabaseInductive'
  <1> DEFINE d == Innermost(t).db
  <1>1. PICK outcome \in {"returned", "threw"}, rows \in {pending[d], {}} :
            /\ TransactionOver(d, rows) /\ CallEnds(d, outcome)
            /\ outcome = "returned" => CanCommit(d) /\ rows = pending[d]
            /\ outcome # "returned" => rows = {}
    BY DEF TransactionEnds
  <1>2. Inside(t, {"transaction"}) /\ Leaves(t) /\ UNCHANGED <<home, conn, writes>>
    BY DEF TransactionEnds
  <1>3. DatabaseTypes
    BY DEF DatabaseInductive
  <1>4. /\ frames' \in [Thread -> Seq(Frame)] /\ Innermost(t) \in Frame
        /\ \A e \in Database : Borrowed(e)' => Borrowed(e)
    BY <1>2, <1>3, LeavesFrames DEF Inside
  <1>5. d \in Database
    BY <1>4 DEF Frame
  <1> HIDE DEF d
  <1> QED
    BY <1>1, <1>2, <1>4, <1>5, OverKeeps

LEMMA CloseKeeps ==
    ASSUME DatabaseInductive, NEW d \in Database, CloseDatabase(d)
    PROVE  DatabaseInductive'
  <1>1. /\ conn[d] = "open" /\ ~Borrowed(d) /\ conn' = [conn EXCEPT ![d] = "closed"]
        /\ TransactionOver(d, {}) /\ UNCHANGED <<home, frames, calls, writes>>
    BY DEF CloseDatabase
  <1>2. DatabaseTypes /\ RowsKnown
    BY DEF DatabaseInductive
  <1>3. /\ DOMAIN conn' = Database
        /\ DOMAIN tx' = Database /\ tx' \in [Database -> BOOLEAN]
        /\ DOMAIN reading' = Database /\ DOMAIN pending' = Database
        /\ \A e \in Database : /\ conn'[e] = IF e = d THEN "closed" ELSE conn[e]
                               /\ tx'[e] = IF e = d THEN FALSE ELSE tx[e]
                               /\ pending'[e] = IF e = d THEN {} ELSE pending[e]
        /\ saved' = saved
    BY <1>1, <1>2 DEF TransactionOver, DatabaseTypes
  <1>4. /\ \A j : RowsOf(j)' = RowsOf(j)
        /\ \A e : InProgress(e)' = InProgress(e) /\ Borrowed(e)' = Borrowed(e)
    BY <1>1 DEF RowsOf, InProgress, Borrowed
  <1>5. DatabaseTypes'
    BY <1>1, <1>2, <1>3 DEF DatabaseTypes
  <1>6. RowsKnown'
    BY <1>1, <1>2, <1>3 DEF RowsKnown, AllOrNothing, BackAt, CallsThat, RowsOf
  <1>7. ASSUME NEW e \in Database PROVE ConnectionOK(e)'
    <2>1. ConnectionOK(e)
      BY DEF DatabaseInductive
    <2> QED
      BY <1>1, <1>3, <1>4, <2>1 DEF ConnectionOK
  <1> QED
    BY <1>5, <1>6, <1>7 DEF DatabaseInductive

(* The invariant of the database.                                           *)
THEOREM DatabaseHolds == DatabaseSpec => []DatabaseInductive
  <1>1. DatabaseInit => DatabaseInductive
    <2> SUFFICES ASSUME DatabaseInit PROVE DatabaseInductive
      OBVIOUS
    <2>1. calls = <<>> /\ writes = <<>> /\ saved = {}
      BY DEF DatabaseInit
    <2>2. DOMAIN calls = {} /\ DOMAIN writes = {}
      BY <2>1
    <2>3. \A k : RowsOf(k) = {}
      BY <2>2 DEF RowsOf
    <2>4. DatabaseTypes
      BY DEF DatabaseInit, DatabaseTypes
    <2>5. RowsKnown
      BY <2>1, <2>2, <2>3 DEF RowsKnown, AllOrNothing
    <2>6. ASSUME NEW d \in Database PROVE ConnectionOK(d)
      <3>1. InProgress(d) = {}
        BY <2>2 DEF InProgress
      <3>2. ~Borrowed(d)
        <4>1. frames[home[d]] = <<>>
          BY DEF DatabaseInit
        <4> QED
          BY <4>1 DEF Borrowed
      <3> QED
        BY <3>1, <3>2 DEF DatabaseInit, ConnectionOK
    <2> QED
      BY <2>4, <2>5, <2>6 DEF DatabaseInductive
  <1>2. DatabaseInductive /\ [DatabaseNext]_databaseVars => DatabaseInductive'
    <2> SUFFICES ASSUME DatabaseInductive, [DatabaseNext]_databaseVars PROVE DatabaseInductive'
      OBVIOUS
    <2>1. ASSUME NEW d \in Database,
                 \/ OpenDatabase(d) \/ Statement(d) \/ BeginTransaction(d)
                 \/ DatabaseCollects(d) \/ StatementCollects(d) \/ CloseDatabase(d)
          PROVE  DatabaseInductive'
      BY <2>1, OpenKeeps, StatementKeeps, BeginKeeps, CollectsKeep, CloseKeeps
    <2>2. ASSUME NEW t \in Thread, Collected(t) \/ TransactionEnds(t)
          PROVE  DatabaseInductive'
      BY <2>2, CollectedKeeps, EndsKeep
    <2>3. CASE UNCHANGED databaseVars
      <3>1. /\ frames' \in [Thread -> Seq(Frame)]
            /\ \A e \in Database : Borrowed(e)' => conn[e] = "open"
        BY <2>3 DEF databaseVars, DatabaseInductive, DatabaseTypes, ConnectionOK, Borrowed
      <3> QED
        BY <2>3, <3>1, FramesKeep DEF databaseVars
    <2> QED
      BY <2>1, <2>2, <2>3 DEF DatabaseNext
  <1> QED
    BY <1>1, <1>2, PTL DEF DatabaseSpec

(* Transactions are all or nothing, one call is in one at a time and what   *)
(* it inserted is what is pending, a row reads back as what was given for   *)
(* it, and no connection goes away in the middle of a statement, for any    *)
(* databases, threads, statements and bounds.                               *)
THEOREM DatabaseAtomic == DatabaseSpec => []TransactionsAtomic
  <1>1. DatabaseInductive => TransactionsAtomic
    <2> SUFFICES ASSUME DatabaseInductive PROVE TransactionsAtomic
      OBVIOUS
    <2>1. AllOrNothing
      BY DEF DatabaseInductive, RowsKnown
    <2>2. OneCallPerTransaction
      BY DEF DatabaseInductive, ConnectionOK, OneCallPerTransaction
    <2>3. ReadsBack
      BY DEF DatabaseInductive, RowsKnown, BackAt, ReadsBack
    <2>4. \A d \in Database : Borrowed(d) => conn[d] = "open"
      BY DEF DatabaseInductive, ConnectionOK
    <2> QED
      BY <2>1, <2>2, <2>3, <2>4 DEF TransactionsAtomic
  <1> QED
    BY <1>1, DatabaseHolds, PTL

-----------------------------------------------------------------------------
(* The bindings.                                                            *)

Exception == [id : Nat, value : Thrown, scope : Nat]
NativeFrame == [runs : Function \cup {Script}, reads : Nat]
Holding(v) == {e \in exceptions : e.value = v}

BindingsTypes ==
    /\ context \in BOOLEAN
    /\ box \in [Function -> {"none", "held", "freed"}]
    /\ object \in [Function \cup Thrown -> {"none", "used", "unused", "collected"}]
    /\ DOMAIN protected = Thrown
    /\ IsFiniteSet(exceptions) /\ exceptions \subseteq Exception
    /\ nextException \in Nat
    /\ native \in Seq(NativeFrame)

(* The counts are those of the owners, each exception counted once.         *)
CountsExact ==
    /\ retained = Owners
    /\ \A v \in Thrown : protected[v] = Cardinality(Holding(v))
    /\ \A e \in exceptions : e.id < nextException
    /\ \A e, f \in exceptions : e.id = f.id => e = f

(* A function object and its closure come and go together.                  *)
ObjectsKept ==
    /\ \A e \in exceptions : object[e.value] \in {"used", "unused"}
    /\ \A f \in Function : /\ (box[f] = "freed") = (object[f] = "collected")
                           /\ (box[f] = "none") = (object[f] = "none")
    /\ retained = 0 => \A f \in Function : box[f] # "held"

(* Rust code runs on the embedder or on script; an exception is of the      *)
(* scope of Rust code that has not ended, and something that stays while    *)
(* the native stack is not empty owns a reference to the context: the       *)
(* embedder, or the exception that the lowest script is run to read.        *)
StackSound(pile, held, ctx) ==
    /\ \A i \in 1 .. Len(pile) : pile[i].runs = Script => i = 1 \/ pile[i - 1].runs # Script
    /\ \A e \in held : e.scope = 0 \/ (e.scope \in 1 .. Len(pile) /\ pile[e.scope].runs # Script)
    /\ pile # <<>> => ctx \/ \E e \in held : e.scope = 0 /\ e.id = pile[1].reads

(* The closures on the stack have their boxes.                              *)
BoxesHeld(pile, boxes) ==
    \A i \in 1 .. Len(pile) : pile[i].runs # Script => boxes[pile[i].runs] = "held"

BindingsInductive ==
    /\ BindingsTypes /\ CountsExact /\ ObjectsKept
    /\ StackSound(native, exceptions, context)
    /\ BoxesHeld(native, box)

(* The native stack when a frame is entered, and when one is left.          *)
LEMMA StackEntered ==
    ASSUME NEW pile \in Seq(NativeFrame), NEW frame \in NativeFrame, NEW held, NEW ctx, NEW boxes,
           held \subseteq Exception, StackSound(pile, held, ctx), BoxesHeld(pile, boxes),
           frame.runs = Script => pile = <<>> \/ pile[Len(pile)].runs # Script,
           pile = <<>> => ctx \/ \E e \in held : e.scope = 0 /\ e.id = frame.reads,
           frame.runs # Script => boxes[frame.runs] = "held"
    PROVE  /\ Append(pile, frame) \in Seq(NativeFrame)
           /\ StackSound(Append(pile, frame), held, ctx) /\ BoxesHeld(Append(pile, frame), boxes)
  <1> DEFINE now == Append(pile, frame)
  <1>1. /\ Len(pile) \in Nat /\ Len(now) = Len(pile) + 1 /\ now \in Seq(NativeFrame)
        /\ \A i \in 1 .. Len(pile) : now[i] = pile[i]
        /\ now[Len(pile) + 1] = frame /\ (pile = <<>> <=> Len(pile) = 0)
    OBVIOUS
  <1> HIDE DEF now
  <1>2. 1 .. Len(now) = 1 .. Len(pile) \cup {Len(pile) + 1}
    BY <1>1
  <1>3. ASSUME NEW i \in 1 .. Len(now), now[i].runs = Script PROVE i = 1 \/ now[i - 1].runs # Script
    <2>1. CASE i \in 1 .. Len(pile)
      <3>1. i = 1 \/ (i - 1 \in 1 .. Len(pile) /\ pile[i - 1].runs # Script)
        BY <1>1, <1>3, <2>1 DEF StackSound
      <3> QED
        BY <1>1, <3>1
    <2>2. CASE i = Len(pile) + 1
      <3>1. CASE pile = <<>>
        BY <1>1, <2>2, <3>1
      <3>2. CASE pile # <<>>
        <4>1. pile[Len(pile)].runs # Script /\ Len(pile) \in 1 .. Len(pile) /\ i - 1 = Len(pile)
          BY <1>1, <1>3, <2>2, <3>2
        <4> QED
          BY <1>1, <4>1
      <3> QED
        BY <3>1, <3>2
    <2> QED
      BY <1>2, <2>1, <2>2
  <1>4. ASSUME NEW e \in held
        PROVE  e.scope = 0 \/ (e.scope \in 1 .. Len(now) /\ now[e.scope].runs # Script)
    BY <1>1, <1>2 DEF StackSound
  <1>5. ctx \/ \E e \in held : e.scope = 0 /\ e.id = now[1].reads
    <2>1. CASE pile = <<>>
      BY <1>1, <2>1
    <2>2. CASE pile # <<>>
      <3>1. now[1] = pile[1]
        <4>1. 1 \in 1 .. Len(pile)
          BY <1>1, <2>2
        <4> QED
          BY <1>1, <4>1
      <3> QED
        BY <2>2, <3>1 DEF StackSound
    <2> QED
      BY <2>1, <2>2
  <1>6. StackSound(now, held, ctx)
    BY <1>3, <1>4, <1>5 DEF StackSound
  <1>7. BoxesHeld(now, boxes)
    BY <1>1, <1>2 DEF BoxesHeld
  <1> QED
    BY <1>1, <1>6, <1>7 DEF now

LEMMA StackLeft ==
    ASSUME NEW pile \in Seq(NativeFrame), pile # <<>>, NEW held, NEW kept, NEW ctx, NEW boxes,
           kept \subseteq Exception, StackSound(pile, held, ctx), BoxesHeld(pile, boxes),
           \A e \in kept : e.scope = 0 \/ (e.scope \in 1 .. Len(pile) - 1 /\ pile[e.scope].runs # Script),
           \A e \in held : e.scope = 0 => e \in kept
    PROVE  LET left == SubSeq(pile, 1, Len(pile) - 1) IN
           left \in Seq(NativeFrame) /\ StackSound(left, kept, ctx) /\ BoxesHeld(left, boxes)
  <1> DEFINE left == SubSeq(pile, 1, Len(pile) - 1)
  <1>1. /\ Len(pile) \in Nat /\ Len(pile) >= 1 /\ Len(left) = Len(pile) - 1
        /\ left \in Seq(NativeFrame) /\ \A i \in 1 .. Len(pile) - 1 : left[i] = pile[i]
        /\ left # <<>> => Len(pile) - 1 >= 1
    <2>1. Len(pile) \in Nat /\ Len(pile) >= 1
      OBVIOUS
    <2>2. \A i \in 1 .. Len(pile) - 1 : pile[i] \in NativeFrame
      BY <2>1
    <2>3. left \in Seq(NativeFrame)
      BY <2>1, <2>2
    <2>4. Len(left) = Len(pile) - 1
      <3>1. ASSUME NEW n \in Nat, \A i \in 1 .. n : pile[i] \in NativeFrame
            PROVE  Len(SubSeq(pile, 1, n)) = n
        <4>1. Len(SubSeq(pile, 1, n)) = IF 1 <= n THEN n - 1 + 1 ELSE 0
          BY <3>1, SubSeqProperties
        <4> QED
          BY <4>1
      <3>2. Len(pile) - 1 \in Nat
        BY <2>1
      <3> QED
        BY <2>2, <3>1, <3>2
    <2>5. \A i \in 1 .. Len(pile) - 1 : left[i] = pile[i]
      BY <2>1, <2>2
    <2> HIDE DEF left
    <2>6. left # <<>> => Len(left) # 0
      BY <2>3
    <2> QED
      BY <2>1, <2>3, <2>4, <2>5, <2>6
  <1> HIDE DEF left
  <1>2. ASSUME NEW i \in 1 .. Len(left), left[i].runs = Script PROVE i = 1 \/ left[i - 1].runs # Script
    <2>1. i \in 1 .. Len(pile) /\ left[i] = pile[i] /\ (i = 1 \/ left[i - 1] = pile[i - 1])
      BY <1>1
    <2> QED
      BY <1>2, <2>1 DEF StackSound
  <1>3. \A e \in kept : e.scope = 0 \/ (e.scope \in 1 .. Len(left) /\ left[e.scope].runs # Script)
    BY <1>1
  <1>4. left # <<>> => ctx \/ \E e \in kept : e.scope = 0 /\ e.id = left[1].reads
    <2> SUFFICES ASSUME left # <<>> PROVE ctx \/ \E e \in kept : e.scope = 0 /\ e.id = left[1].reads
      OBVIOUS
    <2>1. left[1] = pile[1]
      BY <1>1
    <2> QED
      BY <2>1 DEF StackSound
  <1>5. StackSound(left, kept, ctx)
    BY <1>2, <1>3, <1>4 DEF StackSound
  <1>6. BoxesHeld(left, boxes)
    BY <1>1 DEF BoxesHeld
  <1> QED
    BY <1>1, <1>5, <1>6 DEF left

(* Whoever runs or owns something has the context.                          *)
LEMMA ContextThere ==
    ASSUME BindingsInductive
    PROVE  /\ retained \in Nat
           /\ context \/ exceptions # {} \/ native # <<>> <=> retained > 0
  <1>1. Cardinality(exceptions) \in Nat /\ (Cardinality(exceptions) = 0 <=> exceptions = {})
    BY FS_CardinalityType, FS_EmptySet DEF BindingsInductive, BindingsTypes
  <1>2. retained = Owners /\ context \in BOOLEAN
    BY DEF BindingsInductive, BindingsTypes, CountsExact
  <1>3. native # <<>> => context \/ exceptions # {}
    BY DEF BindingsInductive, StackSound
  <1>4. CASE context
    <2>1. retained = 1 + Cardinality(exceptions)
      BY <1>2, <1>4 DEF Owners
    <2> QED
      BY <1>1, <1>4, <2>1
  <1>5. CASE ~context
    <2>1. retained = 0 + Cardinality(exceptions)
      BY <1>2, <1>5 DEF Owners
    <2> QED
      BY <1>1, <1>3, <1>5, <2>1
  <1> QED
    BY <1>4, <1>5

(* What a release of the context leaves.                                    *)
LEMMA ReleasedLeaves ==
    ASSUME BindingsTypes, NEW n \in Nat, Released(n),
           \A f \in Function : /\ (box[f] = "freed") = (object[f] = "collected")
                               /\ (box[f] = "none") = (object[f] = "none")
    PROVE  /\ retained' = n /\ (n # 0 => UNCHANGED <<box, object>>)
           /\ box' \in [Function -> {"none", "held", "freed"}]
           /\ object' \in [Function \cup Thrown -> {"none", "used", "unused", "collected"}]
           /\ \A f \in Function : /\ (box'[f] = "freed") = (object'[f] = "collected")
                                  /\ (box'[f] = "none") = (object'[f] = "none")
           /\ n = 0 => \A f \in Function : box'[f] # "held"
  <1>1. /\ box \in [Function -> {"none", "held", "freed"}]
        /\ object \in [Function \cup Thrown -> {"none", "used", "unused", "collected"}]
    BY DEF BindingsTypes
  <1>2. CASE n > 0
    BY <1>1, <1>2 DEF Released
  <1>3. CASE n = 0
    <2>1. /\ retained' = n
          /\ object' = [o \in Function \cup Thrown |-> IF object[o] = "none" THEN "none" ELSE "collected"]
          /\ box' = [f \in Function |-> IF box[f] = "held" THEN "freed" ELSE box[f]]
      BY <1>1, <1>3 DEF Released, finalize
    <2> QED
      BY <1>1, <1>3, <2>1
  <1> QED
    BY <1>2, <1>3

(* The counts after exceptions are dropped.                                 *)
LEMMA CountDropped ==
    ASSUME NEW S, IsFiniteSet(S), NEW D \in SUBSET S
    PROVE  /\ IsFiniteSet(S \ D) /\ Cardinality(S) \in Nat /\ Cardinality(D) \in Nat
           /\ Cardinality(S \ D) \in Nat /\ Cardinality(S \ D) = Cardinality(S) - Cardinality(D)
  <1>1. IsFiniteSet(S \ D) /\ IsFiniteSet(D)
    BY FS_Subset
  <1>2. /\ Cardinality((S \ D) \cup D) = Cardinality(S \ D) + Cardinality(D) - Cardinality((S \ D) \cap D)
    BY <1>1, FS_Union
  <1>3. (S \ D) \cup D = S /\ (S \ D) \cap D = {}
    OBVIOUS
  <1>4. Cardinality(S) \in Nat /\ Cardinality(D) \in Nat /\ Cardinality(S \ D) \in Nat /\ Cardinality({}) = 0
    BY <1>1, FS_CardinalityType, FS_EmptySet
  <1>5. Cardinality(S) = Cardinality(S \ D) + Cardinality(D) - Cardinality({})
    BY <1>2, <1>3
  <1> QED
    BY <1>1, <1>4, <1>5

(* A release that leaves as many references as there are owners.            *)
LEMMA ReleaseKeeps ==
    ASSUME BindingsInductive, NEW n \in Nat, Released(n), n = Owners', context' \in BOOLEAN,
           exceptions' \subseteq exceptions, UNCHANGED nextException, DOMAIN protected' = Thrown,
           \A v \in Thrown : protected'[v] = Cardinality(Holding(v)'),
           native' \in Seq(NativeFrame), StackSound(native', exceptions', context'),
           BoxesHeld(native', box)
    PROVE  BindingsInductive'
  <1>1. BindingsTypes /\ CountsExact /\ ObjectsKept
    BY DEF BindingsInductive
  <1>2. /\ retained' = n /\ (n # 0 => UNCHANGED <<box, object>>)
        /\ box' \in [Function -> {"none", "held", "freed"}]
        /\ object' \in [Function \cup Thrown -> {"none", "used", "unused", "collected"}]
        /\ \A f \in Function : /\ (box'[f] = "freed") = (object'[f] = "collected")
                               /\ (box'[f] = "none") = (object'[f] = "none")
        /\ n = 0 => \A f \in Function : box'[f] # "held"
    <2>1. \A f \in Function : /\ (box[f] = "freed") = (object[f] = "collected")
                              /\ (box[f] = "none") = (object[f] = "none")
      BY <1>1 DEF ObjectsKept
    <2> QED
      BY <1>1, <2>1, ReleasedLeaves
  <1>3. IsFiniteSet(exceptions') /\ Cardinality(exceptions') \in Nat
    BY <1>1, FS_Subset, FS_CardinalityType DEF BindingsTypes
  <1>4. context' \/ exceptions' # {} => n # 0
    <2>1. Cardinality(exceptions') = 0 <=> exceptions' = {}
      BY <1>3, FS_EmptySet
    <2>2. n = IF context' THEN 1 + Cardinality(exceptions') ELSE 0 + Cardinality(exceptions')
      BY DEF Owners
    <2> QED
      BY <1>3, <2>1, <2>2
  <1>5. native' # <<>> => n # 0
    BY <1>4 DEF StackSound
  <1>6. BindingsTypes'
    BY <1>1, <1>2, <1>3 DEF BindingsTypes
  <1>7. CountsExact'
    <2>1. /\ \A e \in exceptions' : e.id < nextException'
          /\ \A e, f \in exceptions' : e.id = f.id => e = f
      BY <1>1 DEF CountsExact
    <2> QED
      BY <1>2, <2>1 DEF CountsExact
  <1>8. ObjectsKept'
    <2>1. \A e \in exceptions' : object'[e.value] \in {"used", "unused"}
      BY <1>1, <1>2, <1>4 DEF ObjectsKept
    <2> QED
      BY <1>2, <2>1 DEF ObjectsKept
  <1>9. BoxesHeld(native', box')
    <2>1. CASE n # 0
      BY <1>2, <2>1
    <2>2. CASE n = 0
      <3>1. Len(native') = 0
        BY <1>5, <2>2
      <3> QED
        BY <3>1 DEF BoxesHeld
    <2> QED
      BY <2>1, <2>2
  <1> QED
    BY <1>6, <1>7, <1>8, <1>9 DEF BindingsInductive

LEMMA DropsKeep ==
    ASSUME BindingsInductive, NEW D \in SUBSET exceptions, DropExceptions(D),
           UNCHANGED <<context, nextException>>,
           native' \in Seq(NativeFrame), StackSound(native', exceptions \ D, context),
           BoxesHeld(native', box)
    PROVE  BindingsInductive'
  <1> DEFINE n == retained - Cardinality(D)
  <1>1. BindingsTypes /\ CountsExact
    BY DEF BindingsInductive
  <1>2. /\ exceptions' = exceptions \ D /\ Released(n)
        /\ protected' = [v \in Thrown |-> protected[v] - Cardinality({e \in D : e.value = v})]
    BY DEF DropExceptions
  <1>3. n \in Nat /\ n = Owners'
    <2>1. /\ Cardinality(exceptions) \in Nat /\ Cardinality(D) \in Nat
          /\ Cardinality(exceptions') \in Nat
          /\ Cardinality(exceptions') = Cardinality(exceptions) - Cardinality(D)
      BY <1>1, <1>2, CountDropped DEF BindingsTypes
    <2>2. CASE context
      <3>1. retained = 1 + Cardinality(exceptions) /\ Owners' = 1 + Cardinality(exceptions')
        BY <1>1, <2>2 DEF CountsExact, Owners
      <3> QED
        BY <2>1, <3>1
    <2>3. CASE ~context
      <3>1. retained = 0 + Cardinality(exceptions) /\ Owners' = 0 + Cardinality(exceptions')
        BY <1>1, <2>3 DEF CountsExact, Owners
      <3> QED
        BY <2>1, <3>1
    <2> QED
      BY <2>2, <2>3
  <1> HIDE DEF n
  <1>4. ASSUME NEW v \in Thrown PROVE protected'[v] = Cardinality(Holding(v)')
    <2> DEFINE of == {e \in D : e.value = v}
    <2>1. of \in SUBSET Holding(v) /\ IsFiniteSet(Holding(v))
      BY <1>1, FS_Subset DEF Holding, BindingsTypes
    <2>2. Cardinality(Holding(v) \ of) = Cardinality(Holding(v)) - Cardinality(of)
      BY <2>1, CountDropped
    <2>3. Holding(v)' = Holding(v) \ of
      BY <1>2 DEF Holding
    <2>4. protected'[v] = Cardinality(Holding(v)) - Cardinality(of)
      BY <1>1, <1>2 DEF CountsExact
    <2> QED
      BY <2>2, <2>3, <2>4
  <1>5. exceptions' \subseteq exceptions /\ DOMAIN protected' = Thrown /\ context' \in BOOLEAN
    BY <1>1, <1>2 DEF BindingsTypes
  <1> QED
    BY <1>2, <1>3, <1>4, <1>5, ReleaseKeeps

(* A step that touches no count and no object keeps what holds of them.     *)
LEMMA CountsStay ==
    ASSUME BindingsInductive, UNCHANGED <<context, retained, protected, exceptions, nextException>>
    PROVE  CountsExact'
  <1>1. \A v \in Thrown : Holding(v)' = Holding(v)
    BY DEF Holding
  <1>2. Owners' = Owners
    BY DEF Owners
  <1> QED
    BY <1>1, <1>2 DEF BindingsInductive, CountsExact

LEMMA StackKeeps ==
    ASSUME BindingsInductive, native' \in Seq(NativeFrame),
           StackSound(native', exceptions, context), BoxesHeld(native', box),
           UNCHANGED <<context, retained, box, object, protected, exceptions, nextException>>
    PROVE  BindingsInductive'
  <1>1. BindingsTypes'
    BY DEF BindingsInductive, BindingsTypes
  <1>2. CountsExact'
    BY CountsStay
  <1>3. ObjectsKept'
    BY DEF BindingsInductive, ObjectsKept
  <1> QED
    BY <1>1, <1>2, <1>3 DEF BindingsInductive

LEMMA ObjectKeeps ==
    ASSUME BindingsInductive, ObjectsKept', BoxesHeld(native, box'),
           box' \in [Function -> {"none", "held", "freed"}],
           object' \in [Function \cup Thrown -> {"none", "used", "unused", "collected"}],
           UNCHANGED <<context, retained, protected, exceptions, nextException, native>>
    PROVE  BindingsInductive'
  <1>1. BindingsTypes'
    BY DEF BindingsInductive, BindingsTypes
  <1>2. CountsExact'
    BY CountsStay
  <1> QED
    BY <1>1, <1>2 DEF BindingsInductive

(* One action after the other.                                              *)
LEMMA NewCallbackKeeps ==
    ASSUME BindingsInductive, NEW f \in Function, NewCallback(f)
    PROVE  BindingsInductive'
  <1>1. /\ CanCall /\ object[f] = "none"
        /\ object' = [object EXCEPT ![f] = "used"] /\ box' = [box EXCEPT ![f] = "held"]
        /\ UNCHANGED <<context, retained, protected, exceptions, nextException, native>>
    BY DEF NewCallback
  <1>2. BindingsTypes /\ ObjectsKept /\ BoxesHeld(native, box)
    BY DEF BindingsInductive
  <1>3. /\ box' \in [Function -> {"none", "held", "freed"}]
        /\ object' \in [Function \cup Thrown -> {"none", "used", "unused", "collected"}]
        /\ \A o \in Function \cup Thrown : object'[o] = IF o = f THEN "used" ELSE object[o]
        /\ \A g \in Function : box'[g] = IF g = f THEN "held" ELSE box[g]
    BY <1>1, <1>2 DEF BindingsTypes
  <1>4. retained # 0
    BY <1>1, ContextThere DEF CanCall
  <1>5. \A e \in exceptions : e.value \in Thrown
    BY <1>2 DEF BindingsTypes, Exception
  <1>6. ObjectsKept'
    BY <1>1, <1>2, <1>3, <1>4, <1>5 DEF ObjectsKept
  <1>7. BoxesHeld(native, box')
    <2>1. \A i \in 1 .. Len(native) : native[i] \in NativeFrame
      BY <1>2 DEF BindingsTypes
    <2>2. \A i \in 1 .. Len(native) : native[i].runs # Script => native[i].runs \in Function
      BY <2>1 DEF NativeFrame
    <2> QED
      BY <1>2, <1>3, <2>2 DEF BoxesHeld
  <1> QED
    BY <1>1, <1>3, <1>6, <1>7, ObjectKeeps

LEMMA EntersKeep ==
    ASSUME BindingsInductive, NEW code \in Function \cup {Script}, NEW reads \in Nat, Enters(code, reads),
           code = Script => RustRuns,
           native = <<>> => context \/ \E e \in exceptions : e.scope = 0 /\ e.id = reads,
           code # Script => box[code] = "held",
           UNCHANGED <<context, retained, box, object, protected, exceptions, nextException>>
    PROVE  BindingsInductive'
  <1> DEFINE frame == [runs |-> code, reads |-> reads]
  <1>1. /\ native \in Seq(NativeFrame) /\ exceptions \subseteq Exception
        /\ StackSound(native, exceptions, context) /\ BoxesHeld(native, box)
    BY DEF BindingsInductive, BindingsTypes
  <1>2. frame \in NativeFrame /\ frame.runs = code /\ frame.reads = reads
    BY DEF NativeFrame
  <1>3. native' = Append(native, frame)
    BY DEF Enters
  <1>4. code = Script => native = <<>> \/ native[Len(native)].runs # Script
    BY DEF RustRuns, ScriptRuns, Depth
  <1> HIDE DEF frame
  <1>5. /\ native' \in Seq(NativeFrame)
        /\ StackSound(native', exceptions, context) /\ BoxesHeld(native', box)
    BY <1>1, <1>2, <1>3, <1>4, StackEntered
  <1> QED
    BY <1>5, StackKeeps

LEMMA RunsKeep ==
    ASSUME BindingsInductive,
           \/ RunScript
           \/ \E e \in exceptions : ReadException(e)
           \/ \E f \in Function : CallClosure(f)
    PROVE  BindingsInductive'
  <1>1. CASE RunScript
    <2>1. /\ Enters(Script, 0) /\ RustRuns /\ (native = <<>> => context)
          /\ UNCHANGED <<context, retained, box, object, protected, exceptions, nextException>>
      BY <1>1 DEF RunScript, CanCall
    <2> QED
      BY <2>1, EntersKeep
  <1>2. ASSUME NEW e \in exceptions, ReadException(e) PROVE BindingsInductive'
    <2>1. /\ Enters(Script, e.id) /\ RustRuns
          /\ UNCHANGED <<context, retained, box, object, protected, exceptions, nextException>>
      BY <1>2 DEF ReadException
    <2>2. e.id \in Nat
      BY DEF BindingsInductive, BindingsTypes, Exception
    <2>3. native = <<>> => e.scope = 0
      BY DEF BindingsInductive, StackSound
    <2> QED
      BY <2>1, <2>2, <2>3, EntersKeep
  <1>3. ASSUME NEW f \in Function, CallClosure(f) PROVE BindingsInductive'
    <2>1. /\ Enters(f, 0) /\ ScriptRuns /\ object[f] = "used"
          /\ UNCHANGED <<context, retained, box, object, protected, exceptions, nextException>>
      BY <1>3 DEF CallClosure
    <2>2. f # Script /\ native # <<>>
      BY <2>1, ScriptNoFunction DEF Script, ScriptRuns
    <2>3. box[f] = "held"
      BY <2>1 DEF BindingsInductive, BindingsTypes, ObjectsKept
    <2> QED
      BY <2>1, <2>2, <2>3, EntersKeep
  <1> QED
    BY <1>1, <1>2, <1>3

LEMMA DropExceptionKeeps ==
    ASSUME BindingsInductive, NEW e \in exceptions, DropException(e)
    PROVE  BindingsInductive'
  <1>1. ~Reading(e) /\ DropExceptions({e}) /\ UNCHANGED <<context, nextException, native>>
    BY DEF DropException
  <1>2. /\ native \in Seq(NativeFrame)
        /\ StackSound(native, exceptions, context) /\ BoxesHeld(native, box)
    BY DEF BindingsInductive, BindingsTypes
  <1>3. native # <<>> => native[1].reads # e.id
    <2>1. native # <<>> => 1 \in 1 .. Depth
      BY <1>2 DEF Depth
    <2> QED
      BY <1>1, <2>1 DEF Reading
  <1>4. StackSound(native, exceptions \ {e}, context)
    BY <1>2, <1>3 DEF StackSound
  <1> QED
    BY <1>1, <1>2, <1>4, DropsKeep

LEMMA KeepExceptionKeeps ==
    ASSUME BindingsInductive, NEW e \in exceptions, KeepException(e)
    PROVE  BindingsInductive'
  <1> DEFINE moved == [e EXCEPT !.scope = 0]  rest == exceptions \ {e}
  <1>1. /\ ~Reading(e) /\ exceptions' = rest \cup {moved}
        /\ UNCHANGED <<context, retained, box, object, protected, nextException, native>>
    BY DEF KeepException
  <1>2. BindingsTypes /\ CountsExact /\ ObjectsKept /\ StackSound(native, exceptions, context)
    BY DEF BindingsInductive
  <1>3. e \in Exception
    BY <1>2 DEF BindingsTypes
  <1>4. moved \in Exception /\ moved.id = e.id /\ moved.value = e.value /\ moved.scope = 0
    BY <1>3 DEF Exception
  <1>5. rest \subseteq exceptions /\ e \notin rest /\ exceptions = rest \cup {e}
    OBVIOUS
  <1> HIDE DEF moved, rest
  <1>6. moved \notin rest
    BY <1>2, <1>4, <1>5 DEF CountsExact
  <1>7. IsFiniteSet(rest) /\ IsFiniteSet(exceptions')
    BY <1>1, <1>2, <1>5, FS_Subset, FS_AddElement DEF BindingsTypes
  <1>8. ASSUME NEW S \in SUBSET rest
        PROVE  Cardinality(S \cup {moved}) = Cardinality(S \cup {e})
    <2>1. IsFiniteSet(S) /\ moved \notin S /\ e \notin S
      BY <1>5, <1>6, <1>7, FS_Subset
    <2> QED
      BY <2>1, FS_AddElement
  <1>9. Cardinality(exceptions') = Cardinality(exceptions)
    BY <1>1, <1>5, <1>8
  <1>10. ASSUME NEW v \in Thrown PROVE Cardinality(Holding(v)') = Cardinality(Holding(v))
    <2> DEFINE S == {x \in rest : x.value = v}
    <2>1. CASE e.value = v
      <3>1. Holding(v) = S \cup {e} /\ Holding(v)' = S \cup {moved}
        BY <1>1, <1>4, <1>5, <2>1 DEF Holding
      <3> QED
        BY <1>8, <3>1
    <2>2. CASE e.value # v
      BY <1>1, <1>4, <1>5, <2>2 DEF Holding
    <2> QED
      BY <2>1, <2>2
  <1>11. BindingsTypes'
    BY <1>1, <1>2, <1>4, <1>5, <1>7 DEF BindingsTypes
  <1>12. CountsExact'
    <2>1. retained' = Owners'
      BY <1>1, <1>2, <1>9 DEF CountsExact, Owners
    <2>2. \A x \in exceptions' : \E y \in exceptions : x.id = y.id /\ (x = moved <=> y = e) /\ (x # moved => x = y)
      BY <1>1, <1>4, <1>5, <1>6
    <2>3. /\ \A x \in exceptions' : x.id < nextException'
          /\ \A x, y \in exceptions' : x.id = y.id => x = y
      BY <1>1, <1>2, <2>2 DEF CountsExact
    <2> QED
      BY <1>1, <1>2, <1>10, <2>1, <2>3 DEF CountsExact
  <1>13. ObjectsKept'
    BY <1>1, <1>2, <1>4, <1>5 DEF ObjectsKept
  <1>14. StackSound(native', exceptions', context')
    <2>1. native # <<>> => native[1].reads # e.id
      <3>1. native # <<>> => 1 \in 1 .. Depth
        BY <1>2 DEF BindingsTypes, Depth
      <3> QED
        BY <1>1, <3>1 DEF Reading
    <2> QED
      BY <1>1, <1>2, <1>4, <1>5, <2>1 DEF StackSound
  <1>15. BoxesHeld(native', box')
    BY <1>1 DEF BindingsInductive
  <1> QED
    BY <1>11, <1>12, <1>13, <1>14, <1>15 DEF BindingsInductive

LEMMA DropContextKeeps ==
    ASSUME BindingsInductive, DropContext
    PROVE  BindingsInductive'
  <1>1. /\ native = <<>> /\ context /\ context' = FALSE /\ Released(retained - 1)
        /\ UNCHANGED <<protected, exceptions, nextException, native>>
    BY DEF DropContext
  <1>2. BindingsTypes /\ CountsExact /\ StackSound(native, exceptions, context) /\ BoxesHeld(native, box)
    BY DEF BindingsInductive
  <1>3. retained - 1 \in Nat /\ retained - 1 = Owners'
    <2>1. Cardinality(exceptions) \in Nat
      BY <1>2, FS_CardinalityType DEF BindingsTypes
    <2>2. retained = 1 + Cardinality(exceptions) /\ Owners' = 0 + Cardinality(exceptions)
      BY <1>1, <1>2 DEF CountsExact, Owners
    <2> QED
      BY <2>1, <2>2
  <1>4. \A v \in Thrown : protected'[v] = Cardinality(Holding(v)')
    BY <1>1, <1>2 DEF CountsExact, Holding
  <1>5. StackSound(native', exceptions', context')
    BY <1>1, <1>2 DEF StackSound
  <1>6. /\ native' \in Seq(NativeFrame) /\ DOMAIN protected' = Thrown /\ context' \in BOOLEAN
        /\ exceptions' \subseteq exceptions
    BY <1>1, <1>2 DEF BindingsTypes
  <1> QED
    BY <1>1, <1>2, <1>3, <1>4, <1>5, <1>6, ReleaseKeeps

LEMMA ClosureEndsKeeps ==
    ASSUME BindingsInductive, ClosureEnds
    PROVE  BindingsInductive'
  <1> DEFINE D == {e \in exceptions : e.scope = Depth}
  <1>1. native # <<>> /\ Exits /\ DropExceptions(D) /\ UNCHANGED <<context, nextException>>
    BY DEF ClosureEnds
  <1>2. /\ native \in Seq(NativeFrame) /\ exceptions \ D \subseteq Exception
        /\ StackSound(native, exceptions, context) /\ BoxesHeld(native, box)
    BY DEF BindingsInductive, BindingsTypes
  <1>3. Depth \in Nat /\ Depth # 0 /\ Depth = Len(native)
    BY <1>1, <1>2, EmptySeq DEF Depth
  <1>4. /\ \A e \in exceptions \ D : e.scope = 0 \/ (e.scope \in 1 .. Len(native) - 1 /\ native[e.scope].runs # Script)
        /\ \A e \in exceptions : e.scope = 0 => e \in exceptions \ D
    BY <1>2, <1>3 DEF StackSound
  <1> HIDE DEF D
  <1>5. native' = SubSeq(native, 1, Len(native) - 1)
    BY <1>1, <1>3 DEF Exits
  <1>6. /\ native' \in Seq(NativeFrame)
        /\ StackSound(native', exceptions \ D, context) /\ BoxesHeld(native', box)
    BY <1>1, <1>2, <1>4, <1>5, StackLeft
  <1>7. D \in SUBSET exceptions
    BY DEF D
  <1> QED
    BY <1>1, <1>6, <1>7, DropsKeep

(* What script leaves: nothing that is kept is of its scope.                *)
LEMMA ScriptLeaves ==
    ASSUME BindingsInductive, ScriptRuns, Exits, NEW kept, kept \subseteq Exception,
           exceptions \subseteq kept, \A e \in kept : e \in exceptions \/ e.scope = Depth - 1
    PROVE  /\ native' \in Seq(NativeFrame)
           /\ StackSound(native', kept, context) /\ BoxesHeld(native', box)
  <1>1. /\ native \in Seq(NativeFrame) /\ native # <<>>
        /\ StackSound(native, exceptions, context) /\ BoxesHeld(native, box)
    BY DEF BindingsInductive, BindingsTypes, ScriptRuns
  <1>2. Depth \in Nat /\ Depth # 0 /\ Depth = Len(native) /\ native[Len(native)].runs = Script
    BY <1>1, EmptySeq DEF Depth, ScriptRuns
  <1>3. Len(native) = 1 \/ native[Len(native) - 1].runs # Script
    <2>1. Len(native) \in 1 .. Len(native)
      BY <1>2
    <2> QED
      BY <1>1, <1>2, <2>1 DEF StackSound
  <1>4. \A e \in kept : e.scope = 0 \/ (e.scope \in 1 .. Len(native) - 1 /\ native[e.scope].runs # Script)
    <2> SUFFICES ASSUME NEW e \in kept, e.scope # 0
                 PROVE  e.scope \in 1 .. Len(native) - 1 /\ native[e.scope].runs # Script
      OBVIOUS
    <2>1. CASE e \in exceptions
      <3>1. e.scope \in 1 .. Len(native) /\ native[e.scope].runs # Script
        BY <1>1, <2>1 DEF StackSound
      <3> QED
        BY <1>2, <3>1
    <2>2. CASE e.scope = Depth - 1
      BY <1>2, <1>3, <2>2
    <2> QED
      BY <2>1, <2>2
  <1>5. native' = SubSeq(native, 1, Len(native) - 1)
    BY <1>2 DEF Exits
  <1> QED
    BY <1>1, <1>4, <1>5, StackLeft

LEMMA ScriptReturnsKeeps ==
    ASSUME BindingsInductive, ScriptReturns
    PROVE  BindingsInductive'
  <1>1. /\ ScriptRuns /\ Exits
        /\ UNCHANGED <<context, retained, box, object, protected, exceptions, nextException>>
    BY DEF ScriptReturns
  <1>2. exceptions \subseteq Exception
    BY DEF BindingsInductive, BindingsTypes
  <1> QED
    BY <1>1, <1>2, ScriptLeaves, StackKeeps

LEMMA ScriptThrowsKeeps ==
    ASSUME BindingsInductive, NEW v \in Thrown, ScriptThrows(v)
    PROVE  BindingsInductive'
  <1> DEFINE e == [id |-> nextException, value |-> v, scope |-> Depth - 1]
  <1>1. /\ ScriptRuns /\ Exits /\ UNCHANGED <<context, box>>
        /\ object[v] = "used" \/ (object[v] = "none" /\ v \notin Function)
        /\ object' = [object EXCEPT ![v] = IF @ = "none" THEN "unused" ELSE @]
    BY DEF ScriptThrows
  <1>2. /\ nextException' = nextException + 1 /\ exceptions' = exceptions \cup {e}
        /\ protected' = [protected EXCEPT ![v] = @ + 1] /\ retained' = retained + 1
    BY DEF ScriptThrows, adopt
  <1>3. BindingsTypes /\ CountsExact /\ ObjectsKept
    BY DEF BindingsInductive
  <1>4. Depth - 1 \in Nat
    <2>1. native \in Seq(NativeFrame) /\ native # <<>>
      BY <1>1, <1>3 DEF BindingsTypes, ScriptRuns
    <2>2. Len(native) \in Nat \ {0}
      BY <2>1, EmptySeq
    <2> QED
      BY <2>2 DEF Depth
  <1>5. e \in Exception /\ e.id = nextException /\ e.value = v /\ e.scope = Depth - 1
    BY <1>3, <1>4 DEF Exception, BindingsTypes
  <1> HIDE DEF e
  <1>6. e \notin exceptions /\ \A x \in exceptions : x.id # e.id
    <2>1. \A x \in exceptions : x.id \in Nat /\ x.id < nextException
      BY <1>3 DEF BindingsTypes, CountsExact, Exception
    <2> QED
      BY <1>3, <1>5, <2>1 DEF BindingsTypes
  <1>7. /\ IsFiniteSet(exceptions) /\ IsFiniteSet(exceptions')
        /\ Cardinality(exceptions') = Cardinality(exceptions) + 1
    BY <1>2, <1>3, <1>6, FS_AddElement DEF BindingsTypes
  <1>8. ASSUME NEW w \in Thrown PROVE protected'[w] = Cardinality(Holding(w)')
    <2>1. IsFiniteSet(Holding(w)) /\ protected[w] = Cardinality(Holding(w)) /\ e \notin Holding(w)
      BY <1>3, <1>6, <1>7, FS_Subset DEF Holding, CountsExact
    <2>2. protected'[w] = IF w = v THEN protected[w] + 1 ELSE protected[w]
      BY <1>2, <1>3 DEF BindingsTypes
    <2>3. CASE w = v
      <3>1. Holding(w)' = Holding(w) \cup {e}
        BY <1>2, <1>5, <2>3 DEF Holding
      <3> QED
        <4>1. Cardinality(Holding(w)') = Cardinality(Holding(w)) + 1
          BY <2>1, <3>1, FS_AddElement
        <4> QED
          BY <2>1, <2>2, <2>3, <4>1
    <2>4. CASE w # v
      <3>1. Holding(w)' = Holding(w)
        BY <1>2, <1>5, <2>4 DEF Holding
      <3> QED
        BY <2>1, <2>2, <2>4, <3>1
    <2> QED
      BY <2>3, <2>4
  <1>9. retained' = Owners' /\ retained' # 0
    <2>1. Cardinality(exceptions) \in Nat
      BY <1>7, FS_CardinalityType
    <2>2. CASE context
      <3>1. retained = 1 + Cardinality(exceptions) /\ Owners' = 1 + Cardinality(exceptions')
        BY <1>1, <1>3, <2>2 DEF CountsExact, Owners
      <3> QED
        BY <1>2, <1>7, <2>1, <3>1
    <2>3. CASE ~context
      <3>1. retained = 0 + Cardinality(exceptions) /\ Owners' = 0 + Cardinality(exceptions')
        BY <1>1, <1>3, <2>3 DEF CountsExact, Owners
      <3> QED
        BY <1>2, <1>7, <2>1, <3>1
    <2> QED
      BY <2>2, <2>3
  <1>10. /\ native' \in Seq(NativeFrame)
         /\ StackSound(native', exceptions', context') /\ BoxesHeld(native', box')
    <2>1. exceptions' \subseteq Exception /\ exceptions \subseteq exceptions'
      BY <1>2, <1>3, <1>5 DEF BindingsTypes
    <2>2. \A x \in exceptions' : x \in exceptions \/ x.scope = Depth - 1
      BY <1>2, <1>5
    <2> QED
      BY <1>1, <2>1, <2>2, ScriptLeaves
  <1>11. /\ object' \in [Function \cup Thrown -> {"none", "used", "unused", "collected"}]
         /\ \A o \in Function \cup Thrown :
               object'[o] = IF o = v /\ object[o] = "none" THEN "unused" ELSE object[o]
    BY <1>1, <1>3 DEF BindingsTypes
  <1>12. BindingsTypes'
    BY <1>1, <1>2, <1>3, <1>5, <1>7, <1>10, <1>11 DEF BindingsTypes
  <1>13. CountsExact'
    <2>1. \A x \in exceptions' : x.id < nextException'
      <3>1. \A x \in exceptions : x.id \in Nat /\ x.id < nextException
        BY <1>3 DEF BindingsTypes, CountsExact, Exception
      <3> QED
        BY <1>2, <1>3, <1>5, <3>1 DEF BindingsTypes
    <2>2. \A x, y \in exceptions' : x.id = y.id => x = y
      BY <1>2, <1>3, <1>6 DEF CountsExact
    <2> QED
      BY <1>8, <1>9, <2>1, <2>2 DEF CountsExact
  <1>14. ObjectsKept'
    <2>1. \A x \in exceptions' : object'[x.value] \in {"used", "unused"}
      <3>1. \A x \in exceptions : x.value \in Thrown /\ object[x.value] \in {"used", "unused"}
        BY <1>3 DEF BindingsTypes, Exception, ObjectsKept
      <3> QED
        BY <1>1, <1>2, <1>5, <1>11, <3>1
    <2>2. \A f \in Function : object'[f] = object[f] /\ box'[f] = box[f]
      BY <1>1, <1>11
    <2> QED
      BY <1>3, <1>9, <2>1, <2>2 DEF ObjectsKept
  <1> QED
    BY <1>10, <1>12, <1>13, <1>14 DEF BindingsInductive

LEMMA ReachKeeps ==
    ASSUME BindingsInductive,
           \/ \E o \in Function \cup Thrown : LetGo(o)
           \/ \E e \in exceptions : as_value(e)
    PROVE  BindingsInductive'
  <1>1. PICK o \in Function \cup Thrown, to \in {"used", "unused"} :
            /\ object[o] \in {"used", "unused"} /\ object' = [object EXCEPT ![o] = to]
            /\ UNCHANGED <<context, retained, box, protected, exceptions, nextException, native>>
    <2>1. \A e \in exceptions : e.value \in Function \cup Thrown
      BY DEF BindingsInductive, BindingsTypes, Exception
    <2> QED
      BY <2>1 DEF LetGo, as_value
  <1>2. BindingsTypes /\ ObjectsKept /\ BoxesHeld(native, box)
    BY DEF BindingsInductive
  <1>3. /\ object' \in [Function \cup Thrown -> {"none", "used", "unused", "collected"}]
        /\ \A p \in Function \cup Thrown : object'[p] = IF p = o THEN to ELSE object[p]
    BY <1>1, <1>2 DEF BindingsTypes
  <1>4. ObjectsKept'
    <2>1. \A x \in exceptions : x.value \in Thrown
      BY <1>2 DEF BindingsTypes, Exception
    <2> QED
      BY <1>1, <1>2, <1>3, <2>1 DEF ObjectsKept
  <1>5. box' \in [Function -> {"none", "held", "freed"}] /\ BoxesHeld(native, box')
    BY <1>1, <1>2 DEF BindingsTypes
  <1> QED
    BY <1>1, <1>3, <1>4, <1>5, ObjectKeeps

LEMMA CollectKeeps ==
    ASSUME BindingsInductive, NEW o \in Function \cup Thrown, Collect(o)
    PROVE  BindingsInductive'
  <1>1. /\ retained > 0 /\ object[o] = "unused"
        /\ o \in Thrown => protected[o] = 0
        /\ o \in Function => ~OnStack(o)
        /\ object' = [object EXCEPT ![o] = "collected"] /\ box' = finalize({o})
        /\ UNCHANGED <<context, retained, protected, exceptions, nextException, native>>
    BY DEF Collect
  <1>2. BindingsTypes /\ CountsExact /\ ObjectsKept /\ BoxesHeld(native, box)
    BY DEF BindingsInductive
  <1>3. /\ object' \in [Function \cup Thrown -> {"none", "used", "unused", "collected"}]
        /\ \A p \in Function \cup Thrown : object'[p] = IF p = o THEN "collected" ELSE object[p]
        /\ box' \in [Function -> {"none", "held", "freed"}]
        /\ \A f \in Function : box'[f] = IF f = o /\ box[f] = "held" THEN "freed" ELSE box[f]
    BY <1>1, <1>2 DEF BindingsTypes, finalize
  <1>4. ASSUME NEW e \in exceptions PROVE e.value \in Thrown /\ e.value # o
    <2>1. e.value \in Thrown
      BY <1>2 DEF BindingsTypes, Exception
    <2>2. ASSUME e.value = o PROVE FALSE
      <3>1. IsFiniteSet(Holding(o)) /\ Cardinality(Holding(o)) = 0
        BY <1>1, <1>2, <2>1, <2>2, FS_Subset DEF Holding, BindingsTypes, CountsExact
      <3>2. Holding(o) = {}
        BY <3>1, FS_EmptySet
      <3> QED
        BY <2>2, <3>2 DEF Holding
    <2> QED
      BY <2>1, <2>2
  <1>6. ObjectsKept'
    <2>1. \A e \in exceptions' : object'[e.value] \in {"used", "unused"}
      BY <1>1, <1>2, <1>3, <1>4 DEF ObjectsKept
    <2>2. ASSUME NEW f \in Function
          PROVE  /\ (box'[f] = "freed") = (object'[f] = "collected")
                 /\ (box'[f] = "none") = (object'[f] = "none")
      <3>1. /\ (box[f] = "freed") = (object[f] = "collected") /\ (box[f] = "none") = (object[f] = "none")
            /\ box[f] \in {"none", "held", "freed"}
        BY <1>2 DEF ObjectsKept, BindingsTypes
      <3> QED
        BY <1>1, <1>3, <3>1
    <2>3. retained' # 0
      BY <1>1, ContextThere
    <2> QED
      BY <2>1, <2>2, <2>3 DEF ObjectsKept
  <1>7. BoxesHeld(native, box')
    <2>1. \A i \in 1 .. Len(native) :
             native[i].runs # Script => native[i].runs \in Function /\ native[i].runs # o
      <3>1. \A i \in 1 .. Len(native) : native[i] \in NativeFrame
        BY <1>2 DEF BindingsTypes
      <3> QED
        BY <1>1, <3>1 DEF NativeFrame, OnStack, Depth
    <2> QED
      BY <1>2, <1>3, <2>1 DEF BoxesHeld
  <1> QED
    BY <1>1, <1>3, <1>6, <1>7, ObjectKeeps

(* The invariant of the bindings.                                           *)
THEOREM BindingsHold == BindingsSpec => []BindingsInductive
  <1>1. BindingsInit => BindingsInductive
    <2> SUFFICES ASSUME BindingsInit PROVE BindingsInductive
      OBVIOUS
    <2>1. /\ context = TRUE /\ retained = 1 /\ exceptions = {} /\ nextException = 1 /\ native = <<>>
          /\ box = [f \in Function |-> "none"] /\ object = [o \in Function \cup Thrown |-> "none"]
          /\ protected = [v \in Thrown |-> 0]
      BY DEF BindingsInit
    <2>2. IsFiniteSet({}) /\ Cardinality({}) = 0
      BY FS_EmptySet
    <2>3. BindingsTypes
      BY <2>1, <2>2 DEF BindingsTypes
    <2>4. CountsExact
      <3>1. \A v \in Thrown : Holding(v) = {}
        BY <2>1 DEF Holding
      <3>2. retained = Owners
        <4>1. Owners = 1 + 0
          BY <2>1, <2>2 DEF Owners
        <4> QED
          BY <2>1, <4>1
      <3> QED
        BY <2>1, <2>2, <3>1, <3>2 DEF CountsExact
    <2>5. ObjectsKept
      BY <2>1 DEF ObjectsKept
    <2>6. Len(native) = 0
      BY <2>1
    <2>7. StackSound(native, exceptions, context) /\ BoxesHeld(native, box)
      BY <2>1, <2>6 DEF StackSound, BoxesHeld
    <2> QED
      BY <2>3, <2>4, <2>5, <2>7 DEF BindingsInductive
  <1>2. BindingsInductive /\ [BindingsNext]_bindingsVars => BindingsInductive'
    <2> SUFFICES ASSUME BindingsInductive, [BindingsNext]_bindingsVars PROVE BindingsInductive'
      OBVIOUS
    <2>1. ASSUME NEW f \in Function, NewCallback(f) \/ CallClosure(f) PROVE BindingsInductive'
      BY <2>1, NewCallbackKeeps, RunsKeep
    <2>2. CASE RunScript \/ DropContext \/ ClosureEnds \/ ScriptReturns
      BY <2>2, RunsKeep, DropContextKeeps, ClosureEndsKeeps, ScriptReturnsKeeps
    <2>3. ASSUME NEW e \in exceptions,
                 ReadException(e) \/ DropException(e) \/ KeepException(e) \/ as_value(e)
          PROVE  BindingsInductive'
      BY <2>3, RunsKeep, DropExceptionKeeps, KeepExceptionKeeps, ReachKeeps
    <2>4. ASSUME NEW v \in Thrown, ScriptThrows(v) PROVE BindingsInductive'
      BY <2>4, ScriptThrowsKeeps
    <2>5. ASSUME NEW o \in Function \cup Thrown, LetGo(o) \/ Collect(o) PROVE BindingsInductive'
      BY <2>5, ReachKeeps, CollectKeeps
    <2>6. CASE UNCHANGED bindingsVars
      <3>1. /\ native' \in Seq(NativeFrame)
            /\ StackSound(native', exceptions, context) /\ BoxesHeld(native', box)
        BY <2>6 DEF bindingsVars, BindingsInductive, BindingsTypes
      <3> QED
        BY <2>6, <3>1, StackKeeps DEF bindingsVars
    <2> QED
      BY <2>1, <2>2, <2>3, <2>4, <2>5, <2>6 DEF BindingsNext
  <1> QED
    BY <1>1, <1>2, PTL DEF BindingsSpec

(* Every reference to the context and every protection has one owner, what  *)
(* an exception holds is not collected, no closure is freed before its      *)
(* function object is collected or while it runs, and the last release      *)
(* frees them all, for any callbacks, objects and depth of the stack.       *)
THEOREM BindingsExact == BindingsSpec => []OwnersExact
  <1>1. BindingsInductive => OwnersExact
    <2> SUFFICES ASSUME BindingsInductive PROVE OwnersExact
      OBVIOUS
    <2>1. native # <<>> => retained > 0
      BY ContextThere
    <2>2. /\ retained = Owners
          /\ \A v \in Thrown : protected[v] = Cardinality({e \in exceptions : e.value = v})
      BY DEF BindingsInductive, CountsExact, Holding
    <2>3. /\ \A e \in exceptions : object[e.value] \in {"used", "unused"}
          /\ \A f \in Function : (box[f] = "freed") = (object[f] = "collected")
          /\ retained = 0 => \A f \in Function : box[f] # "held"
      BY DEF BindingsInductive, ObjectsKept
    <2>4. \A i \in 1 .. Depth : native[i].runs # Script => box[native[i].runs] = "held"
      BY DEF BindingsInductive, BoxesHeld, Depth
    <2> QED
      BY <2>1, <2>2, <2>3, <2>4 DEF OwnersExact
  <1> QED
    BY <1>1, BindingsHold, PTL

-----------------------------------------------------------------------------
(* The test runner: lists that are put one behind the other.                *)

LEMMA ConcatExact ==
    ASSUME NEW S, NEW s \in Seq(S), NEW t \in Seq(S)
    PROVE  s \o t \in Seq(S) /\ \A x : In(s \o t, x) <=> In(s, x) \/ In(t, x)
  <1>1. /\ s \o t \in Seq(S) /\ Len(s \o t) = Len(s) + Len(t) /\ Len(s) \in Nat /\ Len(t) \in Nat
        /\ \A i \in 1 .. Len(s) + Len(t) : (s \o t)[i] = IF i <= Len(s) THEN s[i] ELSE t[i - Len(s)]
    BY ConcatProperties
  <1>2. \A i \in 1 .. Len(s) + Len(t) : i \in 1 .. Len(s) \/ (i - Len(s) \in 1 .. Len(t) /\ ~(i <= Len(s)))
    BY <1>1
  <1>3. \A x : In(s \o t, x) => In(s, x) \/ In(t, x)
    <2> TAKE x
    <2> HAVE In(s \o t, x)
    <2>1. PICK i \in 1 .. Len(s) + Len(t) : (s \o t)[i] = x
      BY <1>1 DEF In
    <2>2. CASE i \in 1 .. Len(s)
      BY <1>1, <2>1, <2>2 DEF In
    <2>3. CASE i - Len(s) \in 1 .. Len(t) /\ ~(i <= Len(s))
      BY <1>1, <2>1, <2>3 DEF In
    <2> QED
      BY <1>2, <2>2, <2>3
  <1> QED
    BY <1>1, <1>3, ConcatHas

(* FlattenSeq puts the lists one behind the other: what is in one of them    *)
(* is in the result, and nothing else is.                                    *)
LEMMA FlattenHas ==
    ASSUME NEW S, NEW ss \in Seq(Seq(S))
    PROVE  /\ FlattenSeq(ss) \in Seq(S)
           /\ \A x : In(FlattenSeq(ss), x) <=> \E n \in 1 .. Len(ss) : In(ss[n], x)
  <1>0. Len(ss) \in Nat /\ \A i \in 1 .. Len(ss) : ss[i] \in Seq(S)
    OBVIOUS
  <1>1. CASE Len(ss) = 0
    <2>1. ss = <<>> /\ FlattenSeq(ss) = ss
      BY <1>1 DEF FlattenSeq
    <2>2. FlattenSeq(ss) \in Seq(S) /\ \A x : ~In(FlattenSeq(ss), x)
      <3>1. <<>> \in Seq(S) /\ \A x : ~In(<<>>, x)
        BY DEF In
      <3> QED
        BY <2>1, <3>1
    <2>3. ~\E n \in 1 .. Len(ss) : TRUE
      BY <1>1
    <2> QED
      BY <2>2, <2>3
  <1>2. CASE Len(ss) # 0
    <2> DEFINE n == Len(ss)
               flatten[i \in 1 .. Len(ss)] == IF i = 1 THEN ss[i] ELSE flatten[i-1] \o ss[i]
               Value(f, i) == IF i = 1 THEN ss[i] ELSE f[i-1] \o ss[i]
               T == {m \in Nat : m <= n => \E f \in [1 .. m -> Seq(S)] : \A i \in 1 .. m : f[i] = Value(f, i)}
    <2>0. n \in Nat /\ n >= 1 /\ \A i \in 1 .. n : ss[i] \in Seq(S)
      BY <1>0, <1>2
    <2>1. FlattenSeq(ss) = flatten[n]
      BY <1>2, Zenon DEF FlattenSeq
    <2>2. T = Nat
      <3>1. 0 \in T
        <4>1. [i \in 1 .. 0 |-> <<>>] \in [1 .. 0 -> Seq(S)] /\ \A i \in 1 .. 0 : FALSE
          OBVIOUS
        <4> QED
          BY <4>1
      <3>2. ASSUME NEW m \in T PROVE m + 1 \in T
        <4> SUFFICES ASSUME m + 1 <= n
                     PROVE  \E g \in [1 .. m + 1 -> Seq(S)] : \A i \in 1 .. m + 1 : g[i] = Value(g, i)
          <5>1. m + 1 \in Nat
            OBVIOUS
          <5> QED
            BY <5>1, Zenon
        <4>1. m \in Nat /\ m <= n
          BY <2>0
        <4>2. PICK f \in [1 .. m -> Seq(S)] : \A i \in 1 .. m : f[i] = Value(f, i)
          BY <4>1
        <4> DEFINE g == [i \in 1 .. m + 1 |-> IF i <= m THEN f[i] ELSE IF m = 0 THEN ss[1] ELSE f[m] \o ss[m + 1]]
        <4>3. m # 0 => f[m] \o ss[m + 1] \in Seq(S)
          <5>1. ASSUME m # 0 PROVE f[m] \in Seq(S) /\ ss[m + 1] \in Seq(S)
            BY <2>0, <4>1, <4>2, <5>1
          <5> QED
            BY <5>1
        <4>4. ss[1] \in Seq(S)
          BY <2>0
        <4>5. g \in [1 .. m + 1 -> Seq(S)]
          BY <4>1, <4>2, <4>3, <4>4
        <4>6. ASSUME NEW i \in 1 .. m + 1 PROVE g[i] = Value(g, i)
          <5>1. CASE i <= m
            <6>1. i \in 1 .. m /\ g[i] = f[i] /\ (i # 1 => g[i - 1] = f[i - 1])
              BY <4>1, <5>1
            <6> QED
              BY <4>2, <6>1
          <5>2. CASE i = m + 1 /\ m = 0
            BY <5>2
          <5>3. CASE i = m + 1 /\ m # 0
            <6>0. m \in 1 .. m + 1 /\ i - 1 = m /\ i # 1 /\ ~(i <= m)
              BY <4>1, <5>3
            <6>1. g[i] = f[m] \o ss[m + 1] /\ g[m] = f[m]
              BY <5>3, <6>0
            <6> QED
              BY <5>3, <6>0, <6>1
          <5> QED
            BY <4>1, <5>1, <5>2, <5>3
        <4> QED
          BY <4>5, <4>6
      <3> QED
        BY <3>1, <3>2, AllNumbers
    <2>3. PICK f \in [1 .. n -> Seq(S)] : \A i \in 1 .. n : f[i] = Value(f, i)
      <3>1. n \in T
        BY <2>0, <2>2
      <3> QED
        BY <3>1
    <2>4. f = [i \in 1 .. Len(ss) |-> IF i = 1 THEN ss[i] ELSE f[i-1] \o ss[i]]
      BY <2>3
    <2>5. flatten = [i \in 1 .. Len(ss) |-> IF i = 1 THEN ss[i] ELSE flatten[i-1] \o ss[i]]
      <3> HIDE DEF n
      <3> QED
        BY <2>4, Zenon
    <2> HIDE DEF flatten
    <2> DEFINE Known(i) == /\ flatten[i] \in Seq(S)
                           /\ \A x : In(flatten[i], x) <=> \E k \in 1 .. i : In(ss[k], x)
               R == {m \in Nat : m + 1 <= n => Known(m + 1)}
    <2>6. R = Nat
      <3>1. 0 \in R
        <4>1. flatten[1] = ss[1] /\ ss[1] \in Seq(S)
          BY <2>0, <2>5
        <4>2. \A x : In(flatten[1], x) <=> \E k \in 1 .. 1 : In(ss[k], x)
          BY <4>1
        <4> QED
          BY <4>1, <4>2
      <3>2. ASSUME NEW m \in R PROVE m + 1 \in R
        <4> SUFFICES ASSUME m + 2 <= n PROVE Known(m + 2)
          OBVIOUS
        <4>1. Known(m + 1)
          BY <2>0
        <4>2. flatten[m + 2] = flatten[m + 1] \o ss[m + 2]
          <5> DEFINE k == m + 2
          <5>1. k \in 1 .. Len(ss) /\ k # 1 /\ k - 1 = m + 1
            BY <2>0
          <5>2. \A i \in 1 .. Len(ss) : i # 1 => flatten[i] = flatten[i - 1] \o ss[i]
            BY <2>5
          <5> HIDE DEF k
          <5>3. flatten[k] = flatten[k - 1] \o ss[k]
            BY <5>1, <5>2
          <5> QED
            BY <5>1, <5>3 DEF k
        <4>3. ss[m + 2] \in Seq(S)
          BY <2>0
        <4>4. /\ flatten[m + 2] \in Seq(S)
              /\ \A x : In(flatten[m + 2], x) <=> In(flatten[m + 1], x) \/ In(ss[m + 2], x)
          BY <4>1, <4>2, <4>3, ConcatExact
        <4>5. \A k \in 1 .. m + 2 : k \in 1 .. m + 1 \/ k = m + 2
          OBVIOUS
        <4>6. \A k \in 1 .. m + 1 : k \in 1 .. m + 2
          OBVIOUS
        <4>7. m + 2 \in 1 .. m + 2
          OBVIOUS
        <4> QED
          BY <4>1, <4>4, <4>5, <4>6, <4>7
      <3> HIDE DEF Known
      <3> QED
        BY <3>1, <3>2, AllNumbers
    <2>7. Known(n)
      <3> HIDE DEF Known
      <3>1. n - 1 \in R /\ n - 1 + 1 = n
        <4>1. n - 1 \in Nat /\ n - 1 + 1 = n
          BY <2>0
        <4> QED
          BY <2>6, <4>1
      <3> QED
        BY <3>1
    <2> QED
      BY <2>1, <2>7
  <1> QED
    BY <1>1, <1>2

-----------------------------------------------------------------------------
(* The inductive invariant.                                                 *)

(* The lists of hooks that some block or test of the file has.              *)
HookLists == {stack[i].hooks : i \in DOMAIN stack} \cup {collector[i].hooks : i \in DOMAIN collector}

HasHook(h, k) == \E hs \in HookLists : \E i \in DOMAIN hs[k] : hs[k][i] = h

HooksOfKind == [HookKind -> Seq(Nat)]
BlockRecord == [path : Seq(Name), hooks : HooksOfKind, forceSkip : BOOLEAN]
TestRecord == [id : Nat, path : Seq(Name), hooks : HooksOfKind, skip : BOOLEAN, failing : BOOLEAN, only : BOOLEAN]

TestTypes ==
    /\ phase \in {"load", "run", "in test", "exit"}
    /\ hooks \in Nat
    /\ stack \in Seq(BlockRecord) /\ stack # <<>>
    /\ collector \in Seq(TestRecord)
    /\ todo \in Seq(TestRecord)
    /\ inner = undefined \/ inner \in Seq(Nat)
    /\ prevPath \in Seq(Name)
    /\ pathAfterAlls \in [DOMAIN pathAfterAlls -> Seq(Nat)]
    /\ log \in Seq(Event)

(* A hook was declared once, and is a beforeAll hook or something else.     *)
HooksApart ==
    /\ \A h : \A k \in HookKind : HasHook(h, k) => h \in 1 .. hooks
    /\ \A h : HasHook(h, "beforeAll") => \A k \in HookKind \ {"beforeAll"} : ~HasHook(h, k)
    /\ inner # undefined =>
          \A i \in DOMAIN inner : inner[i] \in 1 .. hooks /\ ~HasHook(inner[i], "beforeAll")
    /\ \A hs \in HookLists : \A i, j \in DOMAIN hs["beforeAll"] :
          hs["beforeAll"][i] = hs["beforeAll"][j] => i = j

(* A path the runner remembers leads to where it is.                        *)
OnTheWay(p, q) == \E n \in 0 .. Len(q) : p = SubSeq(q, 1, n)
PathsOpen == \A k \in DOMAIN pathAfterAlls : OnTheWay(k, prevPath)

(* What is left to do, and what has been done.                              *)
Running == phase \in {"run", "in test"}
Done == Len(collector) - Len(todo)
TodoIsRest ==
    /\ \A i \in DOMAIN collector : collector[i].id = i
    /\ Running =>
          /\ Done >= 0
          /\ \A i \in DOMAIN todo :
                /\ todo[i].id = Done + i
                /\ todo[i].path = collector[Done + i].path
                /\ todo[i].hooks = collector[Done + i].hooks
          /\ \A i \in DOMAIN log : log[i].what = "test" =>
                log[i].id <= IF phase = "run" THEN Done ELSE Done + 1
    /\ phase = "in test" => todo # <<>> /\ inner # undefined
    /\ phase = "load" => log = <<>>

(* Of the beforeAll hooks those that ran are remembered, and ran once.      *)
BeforeAllsRan ==
    /\ \A h : HasHook(h, "beforeAll") =>
          \A i, j \in At(HookRan(h)) : i = j /\ h \in ranBeforeAll
    /\ Running => \A h \in ranBeforeAll : At(HookRan(h)) # {}
    /\ \A t \in Range(collector) : \A i \in At(TestRan(t)) : \A h \in Range(t.hooks["beforeAll"]) :
          \E j \in At(HookRan(h)) : j < i

(* An afterAll hook of a test that ran has run after it, or waits.          *)
AfterAllsWait ==
    Running =>
        /\ \A k \in DOMAIN pathAfterAlls : \A i \in DOMAIN pathAfterAlls[k] :
              \E t \in Range(collector) : \E j \in DOMAIN t.hooks["afterAll"] : t.hooks["afterAll"][j] = pathAfterAlls[k][i]
        /\ \A t \in Range(collector) : \A i \in At(TestRan(t)) : \A h \in Range(t.hooks["afterAll"]) :
              \/ \E j \in At(HookRan(h)) : j > i
              \/ t.path \in DOMAIN pathAfterAlls /\ \E j \in DOMAIN pathAfterAlls[t.path] : pathAfterAlls[t.path][j] = h

TestInductive ==
    TestTypes /\ HooksApart /\ PathsOpen /\ TodoIsRest /\ BeforeAllsRan /\ AfterAllsWait

-----------------------------------------------------------------------------
(* Hooks, the log, and the paths that are left.                             *)

LEMMA RangeHas ==
    ASSUME NEW S, NEW s \in Seq(S), NEW x
    PROVE  x \in Range(s) <=> In(s, x)
  BY DEF Range, In

LEMMA ReverseHas ==
    ASSUME NEW S, NEW s \in Seq(S)
    PROVE  Reverse(s) \in Seq(S) /\ Len(Reverse(s)) = Len(s) /\ \A x : In(Reverse(s), x) <=> In(s, x)
  <1> DEFINE n == Len(s)
  <1>0. n \in Nat /\ DOMAIN s = 1 .. n /\ \A i \in 1 .. n : s[i] \in S
    OBVIOUS
  <1>1. \A i \in 1 .. n : (n - i) + 1 \in 1 .. n /\ (n - ((n - i) + 1)) + 1 = i
    BY <1>0
  <1>2. Reverse(s) = [i \in 1 .. n |-> s[(n - i) + 1]]
    BY DEF Reverse
  <1>3. Reverse(s) \in [1 .. n -> S]
    BY <1>0, <1>1, <1>2
  <1>4. Reverse(s) \in Seq(S) /\ Len(Reverse(s)) = n
    BY <1>0, <1>3
  <1>5. \A i \in 1 .. n : Reverse(s)[(n - i) + 1] = s[i]
    BY <1>1, <1>2
  <1>6. \A i \in 1 .. n : Reverse(s)[i] = s[(n - i) + 1]
    BY <1>2
  <1> QED
    BY <1>1, <1>4, <1>5, <1>6 DEF In

(* Places pick different elements of a list that has none twice.            *)
LEMMA PickedOnce ==
    ASSUME NEW S, NEW s \in Seq(S), NEW K \in SUBSET (1 .. Len(s)),
           \A i, j \in 1 .. Len(s) : s[i] = s[j] => i = j
    PROVE  \A m, n \in 1 .. Len(Picked(s, K)) : Picked(s, K)[m] = Picked(s, K)[n] => m = n
  <1>0. Len(s) \in Nat
    OBVIOUS
  <1>1. /\ Cardinality(K) \in Nat
        /\ \A n \in 1 .. Cardinality(K) : Place(K, n) \in K /\ Cardinality(UpTo(K, Place(K, n))) = n
    BY <1>0, PlacesCounted
  <1>2. Len(Picked(s, K)) = Cardinality(K) /\ \A n \in 1 .. Cardinality(K) : Picked(s, K)[n] = s[Place(K, n)]
    BY <1>1 DEF Picked
  <1>3. \A m, n \in 1 .. Cardinality(K) : s[Place(K, m)] = s[Place(K, n)] => Place(K, m) = Place(K, n)
    BY <1>1
  <1>4. \A m, n \in 1 .. Cardinality(K) : Place(K, m) = Place(K, n) => m = n
    BY <1>1
  <1> QED
    BY <1>2, <1>3, <1>4

LEMMA EventsOfHooks ==
    ASSUME NEW hs \in Seq(Nat)
    PROVE  /\ Ran(hs) \in Seq(Event) /\ Len(Ran(hs)) = Len(hs)
           /\ \A n \in 1 .. Len(hs) : Ran(hs)[n] = HookRan(hs[n])
           /\ \A h : In(Ran(hs), HookRan(h)) <=> In(hs, h)
           /\ \A e : In(Ran(hs), e) => \E h : In(hs, h) /\ e = HookRan(h)
  <1>1. \A h \in Nat : HookRan(h) \in Event
    BY DEF HookRan, Event
  <1>2. \A g, h : HookRan(g) = HookRan(h) => g = h
    <2> TAKE g, h
    <2> HAVE HookRan(g) = HookRan(h)
    <2>1. HookRan(g).id = g /\ HookRan(h).id = h
      BY DEF HookRan
    <2> QED
      BY <2>1
  <1>3. Ran(hs) = [i \in 1 .. Len(hs) |-> HookRan(hs[i])] /\ Len(hs) \in Nat /\ \A i \in 1 .. Len(hs) : hs[i] \in Nat
    BY DEF Ran
  <1>4. Ran(hs) \in Seq(Event) /\ Len(Ran(hs)) = Len(hs)
    BY <1>1, <1>3
  <1> HIDE DEF Ran
  <1>5. \A n \in 1 .. Len(hs) : Ran(hs)[n] = HookRan(hs[n])
    BY <1>3
  <1> QED
    BY <1>2, <1>4, <1>5 DEF In

(* The paths that are left are those longer than what is shared.            *)
LEMMA ExitedHas ==
    ASSUME NEW S, NEW p \in Seq(S), NEW q \in Seq(S)
    PROVE  /\ Exited(p, q) \in Seq(Seq(S))
           /\ \A n \in 0 .. Len(p) : In(Exited(p, q), SubSeq(p, 1, n)) \/ OnTheWay(SubSeq(p, 1, n), q)
  <1> DEFINE m == Shared(p, q)  d == Len(p) - m
  <1>0. Len(p) \in Nat /\ m \in 0 .. Len(p) /\ m <= Len(q) /\ Len(q) \in Nat /\ SubSeq(p, 1, m) = SubSeq(q, 1, m)
    <2>1. Len(p) \in Nat /\ Len(q) \in Nat
      OBVIOUS
    <2>2. /\ Shared(p, q) \in 0 .. Len(p) /\ Shared(p, q) <= Len(q)
          /\ SubSeq(p, 1, Shared(p, q)) = SubSeq(q, 1, Shared(p, q))
      BY SharedHas, Zenon
    <2> QED
      BY <2>1, <2>2, Zenon
  <1> HIDE DEF m
  <1>1. \A n \in 0 .. Len(p) : SubSeq(p, 1, n) \in Seq(S)
    <2> TAKE n \in 0 .. Len(p)
    <2>1. \A i \in 1 .. n : p[i] \in S
      BY <1>0
    <2> QED
      BY <2>1, SubSeqProperties
  <1>2. d \in Nat /\ Exited(p, q) = [i \in 1 .. d |-> SubSeq(p, 1, Len(p) + 1 - i)]
    BY <1>0 DEF Exited, m
  <1>3. \A i \in 1 .. d : Len(p) + 1 - i \in 0 .. Len(p)
    BY <1>0, <1>2
  <1>4. \A i \in 1 .. d : SubSeq(p, 1, Len(p) + 1 - i) \in Seq(S)
    BY <1>1, <1>3
  <1>5. Exited(p, q) \in [1 .. d -> Seq(S)]
    BY <1>2, <1>4
  <1>6. Exited(p, q) \in Seq(Seq(S)) /\ Len(Exited(p, q)) = d
    <2> DEFINE x == Exited(p, q)
    <2>1. d \in Nat /\ x \in [1 .. d -> Seq(S)]
      BY <1>2, <1>5
    <2> HIDE DEF x, d
    <2>2. x \in Seq(Seq(S)) /\ Len(x) = d
      BY <2>1
    <2> QED
      BY <2>2 DEF x
  <1>7. ASSUME NEW n \in 0 .. Len(p) PROVE In(Exited(p, q), SubSeq(p, 1, n)) \/ OnTheWay(SubSeq(p, 1, n), q)
    <2>1. CASE n > m
      <3> DEFINE i == Len(p) + 1 - n
      <3>1. i \in 1 .. d /\ Len(p) + 1 - i = n
        BY <1>0, <2>1
      <3>2. Exited(p, q)[i] = SubSeq(p, 1, n)
        BY <1>2, <3>1
      <3> QED
        BY <1>6, <3>1, <3>2 DEF In
    <2>2. CASE n <= m
      <3>1. n \in 0 .. Len(q)
        BY <1>0, <2>2
      <3>2. \A i \in 1 .. n : p[i] = q[i]
        <4> TAKE i \in 1 .. n
        <4>1. i \in 1 .. m
          BY <1>0, <2>2
        <4>2. SubSeq(p, 1, m)[i] = p[i] /\ SubSeq(q, 1, m)[i] = q[i]
          BY <1>0, <4>1
        <4> QED
          BY <1>0, <4>2
      <3>3. SubSeq(p, 1, n) = [i \in 1 .. n |-> p[i]] /\ SubSeq(q, 1, n) = [i \in 1 .. n |-> q[i]]
        BY <1>0
      <3>4. SubSeq(p, 1, n) = SubSeq(q, 1, n)
        BY <3>2, <3>3
      <3> QED
        BY <3>1, <3>4 DEF OnTheWay
    <2> QED
      BY <1>0, <2>1, <2>2
  <1> QED
    BY <1>6, <1>7

(* Leaving for another path: the hooks of a path that is left run, the other *)
(* paths lead to the new one.                                               *)
LEMMA LeavingHas ==
    ASSUME TestTypes, PathsOpen, NEW q \in Seq(Name)
    PROVE  /\ Fired(q) \in Seq(Event)
           /\ \A e : In(Fired(q), e) =>
                 \E k \in DOMAIN pathAfterAlls : \E i \in DOMAIN pathAfterAlls[k] : e = HookRan(pathAfterAlls[k][i])
           /\ \A k \in DOMAIN pathAfterAlls :
                 \/ k \in DOMAIN Kept(q) /\ Kept(q)[k] = pathAfterAlls[k]
                 \/ \A i \in DOMAIN pathAfterAlls[k] : In(Fired(q), HookRan(pathAfterAlls[k][i]))
           /\ Kept(q) \in [DOMAIN Kept(q) -> Seq(Nat)]
           /\ \A k \in DOMAIN Kept(q) :
                 k \in DOMAIN pathAfterAlls /\ Kept(q)[k] = pathAfterAlls[k] /\ OnTheWay(k, q)
  <1> DEFINE ex == Exited(prevPath, q)
             Leaving(k) == IF k \in DOMAIN pathAfterAlls THEN Ran(Reverse(pathAfterAlls[k])) ELSE <<>>
             ss == [i \in DOMAIN ex |-> Leaving(ex[i])]
  <1>1. /\ ex \in Seq(Seq(Name))
        /\ \A n \in 0 .. Len(prevPath) : In(ex, SubSeq(prevPath, 1, n)) \/ OnTheWay(SubSeq(prevPath, 1, n), q)
    BY ExitedHas DEF TestTypes
  <1>2. \A k \in DOMAIN pathAfterAlls : pathAfterAlls[k] \in Seq(Nat)
    BY DEF TestTypes
  <1>3. \A k : Leaving(k) \in Seq(Event)
    <2> SUFFICES ASSUME NEW k PROVE Leaving(k) \in Seq(Event)
      OBVIOUS
    <2>1. CASE k \in DOMAIN pathAfterAlls
      BY <1>2, <2>1, ReverseHas, EventsOfHooks
    <2>2. CASE k \notin DOMAIN pathAfterAlls
      BY <2>2
    <2> QED
      BY <2>1, <2>2
  <1>4. \A k, e : In(Leaving(k), e) <=>
           k \in DOMAIN pathAfterAlls /\ \E i \in DOMAIN pathAfterAlls[k] : e = HookRan(pathAfterAlls[k][i])
    <2> SUFFICES ASSUME NEW k, NEW e
                 PROVE  In(Leaving(k), e) <=>
                          k \in DOMAIN pathAfterAlls /\ \E i \in DOMAIN pathAfterAlls[k] : e = HookRan(pathAfterAlls[k][i])
      OBVIOUS
    <2>1. CASE k \in DOMAIN pathAfterAlls
      <3> DEFINE hs == pathAfterAlls[k]
      <3>1. hs \in Seq(Nat) /\ Reverse(hs) \in Seq(Nat) /\ \A x : In(Reverse(hs), x) <=> In(hs, x)
        BY <1>2, <2>1, ReverseHas
      <3>2. In(Ran(Reverse(hs)), e) <=> \E h : In(hs, h) /\ e = HookRan(h)
        BY <3>1, EventsOfHooks
      <3>3. DOMAIN hs = 1 .. Len(hs)
        BY <3>1
      <3> QED
        BY <2>1, <3>2, <3>3 DEF In
    <2>2. CASE k \notin DOMAIN pathAfterAlls
      BY <2>2 DEF In
    <2> QED
      BY <2>1, <2>2
  <1>5. ss \in Seq(Seq(Event)) /\ Len(ss) = Len(ex) /\ \A i \in 1 .. Len(ex) : ss[i] = Leaving(ex[i])
    <2> HIDE DEF Leaving, ex
    <2>1. Len(ex) \in Nat /\ DOMAIN ex = 1 .. Len(ex)
      BY <1>1
    <2>2. ss \in [1 .. Len(ex) -> Seq(Event)]
      BY <1>3, <2>1
    <2> QED
      BY <2>1, <2>2
  <1>6. Fired(q) = FlattenSeq(ss)
    BY DEF Fired
  <1> HIDE DEF ss, Leaving, ex
  <1>7. /\ Fired(q) \in Seq(Event)
        /\ \A e : In(Fired(q), e) <=> \E n \in 1 .. Len(ex) : In(Leaving(ex[n]), e)
    BY <1>5, <1>6, FlattenHas
  <1>8. \A k : k \in Range(ex) <=> In(ex, k)
    BY <1>1, RangeHas
  <1>9. Kept(q) = [k \in DOMAIN pathAfterAlls \ Range(ex) |-> pathAfterAlls[k]]
    BY DEF Kept, ex
  <1>10. ASSUME NEW e, In(Fired(q), e)
         PROVE  \E k \in DOMAIN pathAfterAlls : \E i \in DOMAIN pathAfterAlls[k] : e = HookRan(pathAfterAlls[k][i])
    BY <1>4, <1>7, <1>10
  <1>11. ASSUME NEW k \in DOMAIN pathAfterAlls, k \in Range(ex), NEW i \in DOMAIN pathAfterAlls[k]
         PROVE  In(Fired(q), HookRan(pathAfterAlls[k][i]))
    <2>1. PICK n \in 1 .. Len(ex) : ex[n] = k
      BY <1>8, <1>11 DEF In
    <2>2. In(Leaving(k), HookRan(pathAfterAlls[k][i]))
      BY <1>4
    <2> QED
      BY <1>7, <2>1, <2>2
  <1>12. ASSUME NEW k \in DOMAIN pathAfterAlls, k \notin Range(ex) PROVE OnTheWay(k, q)
    <2>1. PICK n \in 0 .. Len(prevPath) : k = SubSeq(prevPath, 1, n)
      BY DEF PathsOpen, OnTheWay
    <2> QED
      BY <1>1, <1>8, <1>12, <2>1
  <1>13. Kept(q) \in [DOMAIN Kept(q) -> Seq(Nat)]
    BY <1>2, <1>9
  <1> QED
    BY <1>7, <1>9, <1>10, <1>11, <1>12, <1>13

-----------------------------------------------------------------------------
(* The log grows.                                                           *)

(* The log grows: what was in it is still at its place, what is new comes    *)
(* after it.                                                                *)
LEMMA LogGrows ==
    ASSUME log \in Seq(Event), NEW ext \in Seq(Event), log' = log \o ext
    PROVE  /\ log' \in Seq(Event)
           /\ \A e : \A i \in At(e) : i \in At(e)' /\ i \in Nat /\ i <= Len(log)
           /\ \A e : \A i \in At(e)' :
                 i \in At(e) \/ \E n \in 1 .. Len(ext) : i = Len(log) + n /\ ext[n] = e
           /\ \A e : \A n \in 1 .. Len(ext) : ext[n] = e => Len(log) + n \in At(e)'
           /\ Len(log) \in Nat /\ Len(ext) \in Nat
  <1>1. /\ log' \in Seq(Event) /\ Len(log') = Len(log) + Len(ext)
        /\ Len(log) \in Nat /\ Len(ext) \in Nat
        /\ \A i \in 1 .. Len(log) + Len(ext) : log'[i] = IF i <= Len(log) THEN log[i] ELSE ext[i - Len(log)]
    BY ConcatProperties
  <1>2. DOMAIN log = 1 .. Len(log) /\ DOMAIN log' = 1 .. Len(log) + Len(ext)
    BY <1>1
  <1>3. \A i \in 1 .. Len(log) : i \in 1 .. Len(log) + Len(ext) /\ log'[i] = log[i] /\ i \in Nat /\ i <= Len(log)
    BY <1>1
  <1>4. \A n \in 1 .. Len(ext) : Len(log) + n \in 1 .. Len(log) + Len(ext) /\ log'[Len(log) + n] = ext[n]
    BY <1>1
  <1>5. \A i \in 1 .. Len(log) + Len(ext) : i \in 1 .. Len(log) \/ \E n \in 1 .. Len(ext) : i = Len(log) + n
    <2> TAKE i \in 1 .. Len(log) + Len(ext)
    <2>1. CASE i <= Len(log)
      BY <1>1, <2>1
    <2>2. CASE i > Len(log)
      <3>1. i - Len(log) \in 1 .. Len(ext) /\ i = Len(log) + (i - Len(log))
        BY <1>1, <2>2
      <3> QED
        BY <3>1
    <2> QED
      BY <1>1, <2>1, <2>2
  <1> QED
    BY <1>1, <1>2, <1>3, <1>4, <1>5 DEF At

(* What a step may add to the log.  A beforeAll hook is added once and only  *)
(* if it had not run; a test is added last, all its beforeAll hooks have     *)
(* been run and its afterAll hooks wait.                                    *)
LogExtends(ext) ==
    /\ ext \in Seq(Event)
    /\ log' = log \o ext
    /\ ranBeforeAll \subseteq ranBeforeAll'
    /\ \A h : HasHook(h, "beforeAll") =>
          /\ \A m, n \in 1 .. Len(ext) : ext[m] = HookRan(h) /\ ext[n] = HookRan(h) => m = n
          /\ In(ext, HookRan(h)) => h \notin ranBeforeAll /\ h \in ranBeforeAll'
    /\ \A h \in ranBeforeAll' : h \in ranBeforeAll \/ In(ext, HookRan(h))
    /\ \A t \in Range(collector) : \A n \in 1 .. Len(ext) : ext[n] = TestRan(t) =>
          /\ n = Len(ext)
          /\ At(TestRan(t)) = {}
          /\ \A h \in Range(t.hooks["beforeAll"]) : h \in ranBeforeAll'
          /\ \A h \in Range(t.hooks["afterAll"]) :
                t.path \in DOMAIN pathAfterAlls' /\ \E j \in DOMAIN pathAfterAlls'[t.path] : pathAfterAlls'[t.path][j] = h

PathsExtend(ext) ==
    /\ \A k \in DOMAIN pathAfterAlls : \A i \in DOMAIN pathAfterAlls[k] :
          \/ In(ext, HookRan(pathAfterAlls[k][i]))
          \/ k \in DOMAIN pathAfterAlls' /\ \E j \in DOMAIN pathAfterAlls'[k] : pathAfterAlls'[k][j] = pathAfterAlls[k][i]
    /\ \A k \in DOMAIN pathAfterAlls' : \A i \in DOMAIN pathAfterAlls'[k] :
          \E t \in Range(collector) : \E j \in DOMAIN t.hooks["afterAll"] :
              t.hooks["afterAll"][j] = pathAfterAlls'[k][i]

LEMMA LogKeeps ==
    ASSUME TestTypes, BeforeAllsRan, AfterAllsWait, Running, Running',
           stack' = stack, collector' = collector,
           NEW ext, LogExtends(ext), PathsExtend(ext)
    PROVE  BeforeAllsRan' /\ AfterAllsWait'
  <1>0. log \in Seq(Event) /\ ext \in Seq(Event) /\ log' = log \o ext
    BY DEF TestTypes, LogExtends
  <1>1. /\ Len(log) \in Nat /\ Len(ext) \in Nat
        /\ \A e : \A i \in At(e) : i \in At(e)' /\ i \in Nat /\ i <= Len(log)
        /\ \A e : \A i \in At(e)' :
              i \in At(e) \/ \E n \in 1 .. Len(ext) : i = Len(log) + n /\ ext[n] = e
        /\ \A e : \A n \in 1 .. Len(ext) : ext[n] = e => Len(log) + n \in At(e)'
    BY <1>0, LogGrows
  <1>2. HookLists' = HookLists /\ \A h, k : HasHook(h, k)' <=> HasHook(h, k)
    BY DEF HookLists, HasHook
  <1>3. \A t : TestRan(t)' = TestRan(t)
    BY DEF TestRan
  <1>4. \A h : HookRan(h)' = HookRan(h)
    BY DEF HookRan
  <1>5. Range(collector)' = Range(collector)
    BY DEF Range
  <1>6. ASSUME NEW h, HasHook(h, "beforeAll"), NEW i \in At(HookRan(h))', NEW j \in At(HookRan(h))'
        PROVE  i = j /\ h \in ranBeforeAll'
    <2> DEFINE e == HookRan(h)
    <2>1. /\ \A m, n \in 1 .. Len(ext) : ext[m] = e /\ ext[n] = e => m = n
          /\ In(ext, e) => h \notin ranBeforeAll /\ h \in ranBeforeAll'
          /\ ranBeforeAll \subseteq ranBeforeAll'
      BY <1>6 DEF LogExtends
    <2>2. \A a, b \in At(e) : a = b /\ h \in ranBeforeAll
      BY <1>6 DEF BeforeAllsRan
    <2> HIDE DEF e
    <2>3. CASE i \in At(e) /\ j \in At(e)
      BY <2>1, <2>2, <2>3
    <2>4. CASE \E n \in 1 .. Len(ext) : i = Len(log) + n /\ ext[n] = e
      <3>1. In(ext, e)
        BY <2>4 DEF In
      <3>2. At(e) = {}
        BY <2>1, <2>2, <3>1
      <3>3. \E n \in 1 .. Len(ext) : j = Len(log) + n /\ ext[n] = e
        BY <1>1, <3>2 DEF e
      <3> QED
        BY <2>1, <2>4, <3>1, <3>3
    <2>5. CASE \E n \in 1 .. Len(ext) : j = Len(log) + n /\ ext[n] = e
      <3>1. In(ext, e)
        BY <2>5 DEF In
      <3>2. At(e) = {}
        BY <2>1, <2>2, <3>1
      <3>3. \E n \in 1 .. Len(ext) : i = Len(log) + n /\ ext[n] = e
        BY <1>1, <3>2 DEF e
      <3> QED
        BY <2>1, <2>5, <3>1, <3>3
    <2> QED
      BY <1>1, <2>3, <2>4, <2>5 DEF e
  <1>7. ASSUME NEW h \in ranBeforeAll' PROVE At(HookRan(h))' # {}
    <2>1. CASE h \in ranBeforeAll
      <3>1. At(HookRan(h)) # {}
        BY <2>1 DEF BeforeAllsRan
      <3> QED
        BY <1>1, <3>1
    <2>2. CASE In(ext, HookRan(h))
      BY <1>1, <2>2 DEF In
    <2> QED
      BY <2>1, <2>2 DEF LogExtends
  <1>8. ASSUME NEW t \in Range(collector), NEW i \in At(TestRan(t))', NEW h \in Range(t.hooks["beforeAll"])
        PROVE  \E j \in At(HookRan(h))' : j < i
    <2>1. CASE i \in At(TestRan(t))
      <3>1. PICK j \in At(HookRan(h)) : j < i
        BY <2>1 DEF BeforeAllsRan
      <3> QED
        BY <1>1, <3>1
    <2>2. ASSUME NEW n \in 1 .. Len(ext), i = Len(log) + n, ext[n] = TestRan(t)
          PROVE  \E j \in At(HookRan(h))' : j < i
      <3>1. n = Len(ext) /\ h \in ranBeforeAll'
        BY <2>2 DEF LogExtends
      <3>2. PICK j : j \in At(HookRan(h))'
        BY <1>7, <3>1
      <3>3. HookRan(h) # TestRan(t)
        <4>1. HookRan(h).what = "hook" /\ TestRan(t).what = "test"
          BY DEF HookRan, TestRan
        <4> QED
          BY <4>1
      <3>4. CASE j \in At(HookRan(h))
        <4>1. j \in Nat /\ j <= Len(log)
          BY <1>1, <3>4
        <4> QED
          BY <1>1, <2>2, <3>2, <4>1
      <3>5. ASSUME NEW m \in 1 .. Len(ext), j = Len(log) + m, ext[m] = HookRan(h)
            PROVE  j < i
        <4>1. m # n
          BY <2>2, <3>3, <3>5
        <4>2. m < n
          BY <1>1, <3>1, <4>1
        <4> QED
          BY <1>1, <2>2, <3>5, <4>2
      <3> QED
        BY <1>1, <3>2, <3>4, <3>5
    <2> QED
      BY <1>1, <2>1, <2>2
  <1>9. BeforeAllsRan'
    BY <1>2, <1>3, <1>4, <1>5, <1>6, <1>7, <1>8 DEF BeforeAllsRan
  <1>10. ASSUME NEW t \in Range(collector), NEW i \in At(TestRan(t))', NEW h \in Range(t.hooks["afterAll"])
         PROVE  \/ \E j \in At(HookRan(h))' : j > i
                \/ t.path \in DOMAIN pathAfterAlls' /\ \E j \in DOMAIN pathAfterAlls'[t.path] : pathAfterAlls'[t.path][j] = h
    <2>1. CASE i \in At(TestRan(t))
      <3>0. i \in Nat /\ i <= Len(log)
        BY <1>1, <2>1
      <3>1. CASE \E j \in At(HookRan(h)) : j > i
        BY <1>1, <3>1
      <3>2. ASSUME t.path \in DOMAIN pathAfterAlls, NEW j \in DOMAIN pathAfterAlls[t.path], pathAfterAlls[t.path][j] = h,
                   In(ext, HookRan(h))
            PROVE  \E a \in At(HookRan(h))' : a > i
        <4>1. PICK n \in 1 .. Len(ext) : ext[n] = HookRan(h)
          BY <3>2 DEF In
        <4>2. Len(log) + n \in At(HookRan(h))' /\ Len(log) + n > i
          BY <1>1, <3>0, <4>1
        <4> QED
          BY <4>2
      <3> QED
        BY <2>1, <3>1, <3>2 DEF AfterAllsWait, PathsExtend
    <2>2. ASSUME NEW n \in 1 .. Len(ext), i = Len(log) + n, ext[n] = TestRan(t)
          PROVE  t.path \in DOMAIN pathAfterAlls' /\ \E j \in DOMAIN pathAfterAlls'[t.path] : pathAfterAlls'[t.path][j] = h
      BY <2>2 DEF LogExtends
    <2> QED
      BY <1>1, <2>1, <2>2
  <1>11. AfterAllsWait'
    BY <1>3, <1>4, <1>5, <1>10 DEF AfterAllsWait, PathsExtend
  <1> QED
    BY <1>9, <1>11

-----------------------------------------------------------------------------
(* Loading a file, and its end.                                             *)

LEMMA NextNumber ==
    ASSUME NEW n \in Nat
    PROVE  n + 1 \in 1 .. n + 1 /\ n + 1 \notin 1 .. n /\ \A i \in 1 .. n : i \in 1 .. n + 1
  OBVIOUS

LEMMA CurrHas ==
    ASSUME TestTypes
    PROVE  /\ Len(stack) \in Nat /\ Len(stack) >= 1 /\ DOMAIN stack = 1 .. Len(stack)
           /\ \A i \in 1 .. Len(stack) : stack[i] \in BlockRecord
           /\ curr = stack[Len(stack)] /\ curr \in BlockRecord /\ curr.hooks \in HookLists
  <1>1. stack \in Seq(BlockRecord) /\ stack # <<>>
    BY DEF TestTypes
  <1>2. /\ Len(stack) \in Nat /\ Len(stack) >= 1 /\ DOMAIN stack = 1 .. Len(stack)
        /\ \A i \in 1 .. Len(stack) : stack[i] \in BlockRecord
    BY <1>1, EmptySeq
  <1>3. curr = stack[Len(stack)] /\ Len(stack) \in 1 .. Len(stack)
    BY <1>2 DEF curr, Last
  <1> QED
    BY <1>2, <1>3 DEF HookLists

(* No list of hooks is new: the hooks are as far apart as before.           *)
LEMMA ApartKept ==
    ASSUME HooksApart, HookLists' \subseteq HookLists, hooks' = hooks,
           inner' = inner \/ inner' = undefined \/ inner' = <<>>
    PROVE  HooksApart'
  <1>1. \A h, k : HasHook(h, k)' => HasHook(h, k)
    BY DEF HasHook
  <1>2. /\ \A h : \A k \in HookKind : HasHook(h, k)' => h \in 1 .. hooks'
        /\ \A h : HasHook(h, "beforeAll")' => \A k \in HookKind \ {"beforeAll"} : ~HasHook(h, k)'
    BY <1>1 DEF HooksApart
  <1>3. \A hs \in HookLists' : \A i, j \in DOMAIN hs["beforeAll"] :
          hs["beforeAll"][i] = hs["beforeAll"][j] => i = j
    BY DEF HooksApart
  <1>4. (inner # undefined =>
          \A i \in DOMAIN inner : inner[i] \in 1 .. hooks /\ ~HasHook(inner[i], "beforeAll"))'
    <2>1. CASE inner' = inner
      <3>1. inner # undefined => \A i \in DOMAIN inner : inner[i] \in 1 .. hooks /\ ~HasHook(inner[i], "beforeAll")
        BY DEF HooksApart
      <3>2. \A h : HasHook(h, "beforeAll")' => HasHook(h, "beforeAll")
        BY <1>1
      <3>3. \A i \in DOMAIN inner : ~HasHook(inner[i], "beforeAll") => ~HasHook(inner[i], "beforeAll")'
        BY <2>1, <3>2
      <3> QED
        BY <2>1, <3>1, <3>3
    <2>2. CASE inner' = <<>>
      BY <2>2
    <2> QED
      BY <2>1, <2>2
  <1> QED
    BY <1>2, <1>3, <1>4 DEF HooksApart

(* A new hook is none of those there were.                                  *)
LEMMA ApartGrows ==
    ASSUME TestTypes, HooksApart, NEW gs \in HookLists, NEW k \in HookKind, NEW hs,
           hooks' = hooks + 1, inner' = inner,
           gs \in HooksOfKind,
           hs = [gs EXCEPT ![k] = Append(@, hooks + 1)],
           HookLists' \subseteq HookLists \cup {hs}
    PROVE  HooksApart'
  <1> DEFINE new == hooks + 1
  <1>0. hooks \in Nat /\ new \in 1 .. new /\ new \notin 1 .. hooks /\ \A h \in 1 .. hooks : h \in 1 .. new
    <2>1. hooks \in Nat
      BY DEF TestTypes
    <2> QED
      BY <2>1, NextNumber
  <1> HIDE DEF new
  <1>1. /\ \A j \in HookKind : j # k => hs[j] = gs[j]
        /\ hs[k] = Append(gs[k], new) /\ gs[k] \in Seq(Nat)
        /\ DOMAIN hs[k] = 1 .. Len(gs[k]) + 1 /\ DOMAIN gs[k] = 1 .. Len(gs[k]) /\ Len(gs[k]) \in Nat
        /\ \A i \in 1 .. Len(gs[k]) : hs[k][i] = gs[k][i]
        /\ hs[k][Len(gs[k]) + 1] = new
    BY DEF HooksOfKind, new
  <1>2. \A i \in DOMAIN hs[k] : i \in DOMAIN gs[k] \/ i = Len(gs[k]) + 1
    BY <1>1
  <1>3. \A h : \A j \in HookKind : HasHook(h, j)' => HasHook(h, j) \/ (j = k /\ h = new)
    <2> TAKE h
    <2> TAKE j \in HookKind
    <2> HAVE HasHook(h, j)'
    <2>1. PICK ls \in HookLists' : \E i \in DOMAIN ls[j] : ls[j][i] = h
      BY DEF HasHook
    <2>2. CASE ls \in HookLists
      BY <2>1, <2>2 DEF HasHook
    <2>3. CASE ls = hs /\ j # k
      BY <1>1, <2>1, <2>3 DEF HasHook
    <2>4. CASE ls = hs /\ j = k
      <3>1. PICK i \in DOMAIN hs[k] : hs[k][i] = h
        BY <2>1, <2>4
      <3>2. CASE i \in DOMAIN gs[k]
        <4>1. gs[k][i] = h
          BY <1>1, <3>1, <3>2
        <4> QED
          BY <2>4, <3>2, <4>1 DEF HasHook
      <3>3. CASE i = Len(gs[k]) + 1
        BY <1>1, <2>4, <3>1, <3>3
      <3> QED
        BY <1>2, <3>2, <3>3
    <2> QED
      BY <2>2, <2>3, <2>4
  <1>4. \A j \in HookKind : ~HasHook(new, j)
    BY <1>0 DEF HooksApart
  <1>5. \A h : \A j \in HookKind : HasHook(h, j)' => h \in 1 .. hooks'
    BY <1>0, <1>3 DEF HooksApart, new
  <1>6. "beforeAll" \in HookKind
    BY DEF HookKind
  <1>7. \A h : HasHook(h, "beforeAll")' => \A j \in HookKind \ {"beforeAll"} : ~HasHook(h, j)'
    <2> SUFFICES ASSUME NEW h, HasHook(h, "beforeAll")', NEW j \in HookKind \ {"beforeAll"}, HasHook(h, j)' PROVE FALSE
      OBVIOUS
    <2>1. HasHook(h, "beforeAll") \/ (k = "beforeAll" /\ h = new)
      BY <1>3, <1>6
    <2>2. HasHook(h, j) \/ (j = k /\ h = new)
      BY <1>3
    <2> QED
      BY <1>4, <1>6, <2>1, <2>2 DEF HooksApart
  <1>8. ASSUME NEW ls \in HookLists', NEW i \in DOMAIN ls["beforeAll"], NEW j \in DOMAIN ls["beforeAll"],
               ls["beforeAll"][i] = ls["beforeAll"][j]
        PROVE  i = j
    <2>1. CASE ls \in HookLists
      BY <1>8, <2>1 DEF HooksApart
    <2>2. CASE ls = hs /\ k # "beforeAll"
      BY <1>1, <1>6, <1>8, <2>2 DEF HooksApart
    <2>3. CASE ls = hs /\ k = "beforeAll"
      <3>1. \A n \in DOMAIN gs[k] : gs[k][n] # new
        BY <1>4, <1>6, <2>3 DEF HasHook
      <3>2. \A m, n \in DOMAIN gs[k] : gs[k][m] = gs[k][n] => m = n
        BY <2>3 DEF HooksApart
      <3> QED
        BY <1>1, <1>2, <1>8, <2>3, <3>1, <3>2
    <2> QED
      BY <2>1, <2>2, <2>3
  <1>9. (inner # undefined =>
          \A i \in DOMAIN inner : inner[i] \in 1 .. hooks /\ ~HasHook(inner[i], "beforeAll"))'
    <2>1. inner # undefined => \A i \in DOMAIN inner : inner[i] \in 1 .. hooks /\ ~HasHook(inner[i], "beforeAll")
      BY DEF HooksApart
    <2>2. \A h : h \in 1 .. hooks /\ ~HasHook(h, "beforeAll") => h \in 1 .. new /\ ~HasHook(h, "beforeAll")'
      BY <1>0, <1>3, <1>6
    <2>3. \A i \in DOMAIN inner : inner[i] \in 1 .. hooks /\ ~HasHook(inner[i], "beforeAll")
             => inner[i] \in 1 .. new /\ ~HasHook(inner[i], "beforeAll")'
      BY <2>2
    <2> QED
      BY <2>1, <2>3 DEF new
  <1> QED
    BY <1>5, <1>7, <1>8, <1>9 DEF HooksApart

(* A new hook in the list of the test that runs.                            *)
LEMMA ApartInner ==
    ASSUME TestTypes, HooksApart, inner # undefined,
           hooks' = hooks + 1, inner' = Append(inner, hooks + 1), HookLists' = HookLists
    PROVE  HooksApart'
  <1> DEFINE new == hooks + 1
  <1>0. hooks \in Nat /\ new \in 1 .. new /\ new \notin 1 .. hooks /\ \A h \in 1 .. hooks : h \in 1 .. new
    <2>1. hooks \in Nat
      BY DEF TestTypes
    <2> QED
      BY <2>1, NextNumber
  <1> HIDE DEF new
  <1>1. \A h, k : HasHook(h, k)' <=> HasHook(h, k)
    BY DEF HasHook
  <1>2. "beforeAll" \in HookKind
    BY DEF HookKind
  <1>3. inner \in Seq(Nat) /\ new \in Nat
    <2>1. inner \in Seq(Nat)
      BY DEF TestTypes
    <2> QED
      BY <1>0, <2>1
  <1>4. /\ DOMAIN inner' = 1 .. Len(inner) + 1 /\ DOMAIN inner = 1 .. Len(inner) /\ Len(inner) \in Nat
        /\ \A i \in 1 .. Len(inner) : inner'[i] = inner[i]
        /\ inner'[Len(inner) + 1] = new
    BY <1>3 DEF new
  <1>5. \A i \in DOMAIN inner' : inner'[i] = new \/ (i \in DOMAIN inner /\ inner'[i] = inner[i])
    BY <1>4
  <1>6. \A i \in DOMAIN inner : inner[i] \in 1 .. hooks /\ ~HasHook(inner[i], "beforeAll")
    BY DEF HooksApart
  <1>7. ~HasHook(new, "beforeAll")
    BY <1>0, <1>2 DEF HooksApart
  <1>8. \A i \in DOMAIN inner' : inner'[i] \in 1 .. new /\ ~HasHook(inner'[i], "beforeAll")
    BY <1>0, <1>5, <1>6, <1>7
  <1>9. (\A i \in DOMAIN inner : inner[i] \in 1 .. hooks /\ ~HasHook(inner[i], "beforeAll"))'
    <2>1. (\A i \in DOMAIN inner : inner[i] \in 1 .. hooks)'
      BY <1>8 DEF new
    <2>2. (\A i \in DOMAIN inner : ~HasHook(inner[i], "beforeAll"))'
      BY <1>8 DEF HasHook
    <2> QED
      BY <2>1, <2>2
  <1>10. \A h : \A k \in HookKind : HasHook(h, k)' => h \in 1 .. hooks'
    BY <1>0, <1>1 DEF HooksApart, new
  <1>11. /\ \A h : HasHook(h, "beforeAll")' => \A k \in HookKind \ {"beforeAll"} : ~HasHook(h, k)'
         /\ \A hs \in HookLists' : \A i, j \in DOMAIN hs["beforeAll"] :
               hs["beforeAll"][i] = hs["beforeAll"][j] => i = j
    BY <1>1 DEF HooksApart
  <1> QED
    BY <1>9, <1>10, <1>11 DEF HooksApart

LEMMA TestStarts == TestInit => TestInductive
  <1> SUFFICES ASSUME TestInit PROVE TestInductive
    OBVIOUS
  <1>1. /\ phase = "load" /\ stack = <<TopLevel>> /\ hooks = 0 /\ collector = <<>>
        /\ inner = undefined /\ todo = <<>> /\ prevPath = <<>> /\ pathAfterAlls = <<>> /\ log = <<>>
    BY DEF TestInit
  <1>2. NoHooks \in HooksOfKind /\ \A k \in HookKind : NoHooks[k] = <<>>
    BY DEF NoHooks, HooksOfKind
  <1>3. TopLevel \in BlockRecord /\ TopLevel.hooks = NoHooks
    BY <1>2 DEF TopLevel, BlockRecord
  <1>4. stack \in Seq(BlockRecord) /\ stack # <<>> /\ DOMAIN stack = {1} /\ stack[1] = TopLevel
    BY <1>1, <1>3
  <1>5. TestTypes
    BY <1>1, <1>4 DEF TestTypes
  <1>6. HookLists = {NoHooks}
    BY <1>1, <1>3, <1>4 DEF HookLists
  <1>7. \A h : \A k \in HookKind : ~HasHook(h, k)
    BY <1>2, <1>6 DEF HasHook
  <1>8. "beforeAll" \in HookKind
    BY DEF HookKind
  <1>9. HooksApart
    BY <1>1, <1>2, <1>6, <1>7, <1>8 DEF HooksApart
  <1>10. \A e : At(e) = {}
    BY <1>1 DEF At
  <1> QED
    BY <1>1, <1>5, <1>9, <1>10
       DEF TestInductive, PathsOpen, TodoIsRest, BeforeAllsRan, AfterAllsWait, Running

(* Nothing ran while a file is loaded.                                      *)
LEMMA LoadingKeeps ==
    ASSUME TestInductive, log' = <<>>, phase' \in {"load", "exit"},
           prevPath' = prevPath, pathAfterAlls' = pathAfterAlls,
           \A i \in DOMAIN collector' : collector'[i].id = i
    PROVE  PathsOpen' /\ TodoIsRest' /\ BeforeAllsRan' /\ AfterAllsWait'
  <1>1. \A e : At(e)' = {}
    BY DEF At
  <1>2. ~Running' /\ phase' # "in test"
    BY DEF Running
  <1>3. PathsOpen'
    BY DEF TestInductive, PathsOpen
  <1>4. TodoIsRest'
    BY <1>2 DEF TodoIsRest
  <1>5. BeforeAllsRan'
    BY <1>1, <1>2 DEF BeforeAllsRan
  <1>6. AfterAllsWait'
    BY <1>2 DEF AfterAllsWait
  <1> QED
    BY <1>3, <1>4, <1>5, <1>6

LEMMA DescribeEntersKeeps == TestInductive /\ DescribeEnters => TestInductive'
  <1> SUFFICES ASSUME TestInductive, DescribeEnters PROVE TestInductive'
    OBVIOUS
  <1>0. TestTypes /\ HooksApart /\ phase = "load" /\ log = <<>> /\ \A i \in DOMAIN collector : collector[i].id = i
    BY DEF TestInductive, DescribeEnters, TodoIsRest
  <1>1. /\ phase' = phase /\ hooks' = hooks /\ collector' = collector /\ inner' = inner /\ todo' = todo
        /\ prevPath' = prevPath /\ pathAfterAlls' = pathAfterAlls /\ log' = log
    BY DEF DescribeEnters
  <1>2. PICK n \in Name, skip \in BOOLEAN :
          stack' = Append(stack, [path |-> Append(curr.path, n), hooks |-> curr.hooks, forceSkip |-> skip])
    BY DEF DescribeEnters
  <1> DEFINE new == [path |-> Append(curr.path, n), hooks |-> curr.hooks, forceSkip |-> skip]
  <1>3. curr \in BlockRecord /\ curr.hooks \in HookLists
    BY <1>0, CurrHas
  <1>4. new \in BlockRecord /\ new.hooks = curr.hooks
    <2>1. curr.path \in Seq(Name) /\ curr.hooks \in HooksOfKind
      BY <1>3 DEF BlockRecord
    <2> QED
      BY <2>1 DEF BlockRecord
  <1>5. stack' = Append(stack, new) /\ stack \in Seq(BlockRecord)
    BY <1>0, <1>2 DEF TestTypes
  <1> HIDE DEF new
  <1>6. /\ stack' \in Seq(BlockRecord) /\ stack' # <<>> /\ DOMAIN stack' = 1 .. Len(stack) + 1
        /\ Len(stack) \in Nat /\ DOMAIN stack = 1 .. Len(stack)
        /\ \A i \in 1 .. Len(stack) : stack'[i] = stack[i]
        /\ stack'[Len(stack) + 1] = new
    BY <1>4, <1>5, AppendProperties
  <1>7. \A i \in DOMAIN stack' : i \in DOMAIN stack \/ i = Len(stack) + 1
    BY <1>6
  <1>8. HookLists' \subseteq HookLists
    BY <1>1, <1>3, <1>4, <1>6, <1>7 DEF HookLists
  <1>9. TestTypes'
    BY <1>0, <1>1, <1>6 DEF TestTypes
  <1>10. HooksApart'
    BY <1>0, <1>1, <1>8, ApartKept
  <1>11. PathsOpen' /\ TodoIsRest' /\ BeforeAllsRan' /\ AfterAllsWait'
    <2>1. log' = <<>> /\ phase' \in {"load", "exit"} /\ \A i \in DOMAIN collector' : collector'[i].id = i
      BY <1>0, <1>1
    <2> QED
      BY <1>1, <2>1, LoadingKeeps
  <1> QED
    BY <1>9, <1>10, <1>11 DEF TestInductive

(* The outer blocks of a stack.                                             *)
LEMMA OuterBlocks ==
    ASSUME TestTypes, NEW n \in 1 .. Len(stack), stack' = SubSeq(stack, 1, n)
    PROVE  /\ stack' \in Seq(BlockRecord) /\ stack' # <<>>
           /\ collector' \in {collector, <<>>} => HookLists' \subseteq HookLists
  <1>1. Len(stack) \in Nat /\ DOMAIN stack = 1 .. Len(stack) /\ stack \in Seq(BlockRecord)
    BY CurrHas DEF TestTypes
  <1>2. \A i \in 1 .. n : i \in 1 .. Len(stack) /\ stack[i] \in BlockRecord
    BY <1>1
  <1>3. stack' = [i \in 1 .. n |-> stack[i]]
    BY <1>1
  <1>4. stack' \in Seq(BlockRecord) /\ DOMAIN stack' = 1 .. n /\ \A i \in 1 .. n : stack'[i] = stack[i]
    BY <1>2, <1>3
  <1>5. stack' # <<>>
    BY <1>4
  <1>6. ASSUME collector' \in {collector, <<>>} PROVE HookLists' \subseteq HookLists
    BY <1>1, <1>2, <1>4, <1>6 DEF HookLists
  <1> QED
    BY <1>4, <1>5, <1>6

LEMMA DescribeLeavesKeeps == TestInductive /\ DescribeLeaves => TestInductive'
  <1> SUFFICES ASSUME TestInductive, DescribeLeaves PROVE TestInductive'
    OBVIOUS
  <1>0. TestTypes /\ HooksApart /\ phase = "load" /\ log = <<>> /\ \A i \in DOMAIN collector : collector[i].id = i
    BY DEF TestInductive, DescribeLeaves, TodoIsRest
  <1>1. /\ phase' = phase /\ hooks' = hooks /\ collector' = collector /\ inner' = inner /\ todo' = todo
        /\ prevPath' = prevPath /\ pathAfterAlls' = pathAfterAlls /\ log' = log
        /\ Len(stack) > 1 /\ stack' = SubSeq(stack, 1, Len(stack) - 1)
    BY DEF DescribeLeaves, Front
  <1>2. Len(stack) - 1 \in 1 .. Len(stack)
    BY <1>0, <1>1, CurrHas
  <1>3. stack' \in Seq(BlockRecord) /\ stack' # <<>> /\ HookLists' \subseteq HookLists
    BY <1>0, <1>1, <1>2, OuterBlocks
  <1>4. TestTypes'
    BY <1>0, <1>1, <1>3 DEF TestTypes
  <1>5. HooksApart'
    BY <1>0, <1>1, <1>3, ApartKept
  <1>6. PathsOpen' /\ TodoIsRest' /\ BeforeAllsRan' /\ AfterAllsWait'
    <2>1. log' = <<>> /\ phase' \in {"load", "exit"} /\ \A i \in DOMAIN collector' : collector'[i].id = i
      BY <1>0, <1>1
    <2> QED
      BY <1>1, <2>1, LoadingKeeps
  <1> QED
    BY <1>4, <1>5, <1>6 DEF TestInductive

(* A declared hook goes to the innermost block or to the test that runs.    *)
LEMMA DeclareHookKeeps ==
    ASSUME TestTypes, HooksApart, NEW k \in HookKind, DeclareHook(k), collector' = collector
    PROVE  /\ HooksApart'
           /\ hooks' \in Nat
           /\ stack' \in Seq(BlockRecord) /\ stack' # <<>>
           /\ inner' = undefined \/ inner' \in Seq(Nat)
           /\ inner # undefined => inner' # undefined
           /\ k = "afterAll" /\ inner # undefined => stack' = stack
  <1>1. hooks \in Nat /\ hooks' = hooks + 1 /\ hooks + 1 \in Nat
    <2>1. hooks \in Nat
      BY DEF TestTypes
    <2>2. hooks' = hooks + 1
      BY DEF DeclareHook
    <2> QED
      BY <2>1, <2>2
  <1>2. CASE k = "afterAll" /\ inner # undefined
    <2>1. inner' = Append(inner, hooks + 1) /\ stack' = stack
      BY <1>1, <1>2 DEF DeclareHook
    <2>2. inner \in Seq(Nat)
      BY <1>2 DEF TestTypes
    <2>3. inner' \in Seq(Nat)
      BY <1>1, <2>1, <2>2
    <2>4. inner' # undefined
      BY <2>3, NoHookList
    <2>5. HookLists' = HookLists
      BY <2>1 DEF HookLists
    <2>6. HooksApart'
      BY <1>1, <1>2, <2>1, <2>5, ApartInner
    <2> QED
      BY <1>1, <2>1, <2>3, <2>4, <2>6 DEF TestTypes
  <1>3. CASE ~(k = "afterAll" /\ inner # undefined)
    <2> DEFINE n == Len(stack)
    <2>1. /\ n \in Nat /\ n \in 1 .. n /\ DOMAIN stack = 1 .. n
          /\ \A i \in 1 .. n : stack[i] \in BlockRecord
          /\ curr = stack[n] /\ curr \in BlockRecord /\ curr.hooks \in HookLists
      BY CurrHas
    <2>2. /\ stack' = [stack EXCEPT ![Len(stack)].hooks[k] = Append(@, hooks + 1)]
          /\ inner' = inner
      BY <1>1, <1>3 DEF DeclareHook
    <2> DEFINE hs == [curr.hooks EXCEPT ![k] = Append(@, hooks + 1)]
               b == [curr EXCEPT !.hooks = hs]
    <2>3. curr.hooks \in HooksOfKind /\ curr.path \in Seq(Name) /\ curr.forceSkip \in BOOLEAN
      BY <2>1 DEF BlockRecord
    <2>4. hs \in HooksOfKind
      BY <1>1, <2>3 DEF HooksOfKind
    <2>5. b \in BlockRecord /\ b.hooks = hs
      BY <2>1, <2>4 DEF BlockRecord
    <2>6. DOMAIN stack' = 1 .. n /\ stack'[n] = b /\ \A i \in 1 .. n : i # n => stack'[i] = stack[i]
      BY <2>1, <2>2
    <2>7. stack' = [i \in 1 .. n |-> stack'[i]]
      BY <2>1, <2>2
    <2> HIDE DEF b, hs
    <2>8. \A i \in 1 .. n : stack'[i] \in BlockRecord
      BY <2>1, <2>5, <2>6
    <2>9. stack' \in Seq(BlockRecord) /\ stack' # <<>>
      BY <2>1, <2>6, <2>7, <2>8
    <2>10. HookLists' \subseteq HookLists \cup {hs}
      BY <2>1, <2>5, <2>6 DEF HookLists
    <2>11. HooksApart'
      BY <1>1, <2>1, <2>2, <2>3, <2>10, ApartGrows DEF hs
    <2> QED
      BY <1>1, <1>3, <2>2, <2>9, <2>11 DEF TestTypes
  <1> QED
    BY <1>2, <1>3

LEMMA HookDeclaredKeeps == TestInductive /\ HookDeclared => TestInductive'
  <1> SUFFICES ASSUME TestInductive, HookDeclared PROVE TestInductive'
    OBVIOUS
  <1>0. TestTypes /\ HooksApart /\ phase = "load" /\ log = <<>> /\ \A i \in DOMAIN collector : collector[i].id = i
    BY DEF TestInductive, HookDeclared, TodoIsRest
  <1>1. /\ phase' = phase /\ collector' = collector /\ todo' = todo
        /\ prevPath' = prevPath /\ pathAfterAlls' = pathAfterAlls /\ log' = log
        /\ \E k \in HookKind : DeclareHook(k)
    BY DEF HookDeclared
  <1>2. /\ HooksApart' /\ hooks' \in Nat /\ stack' \in Seq(BlockRecord) /\ stack' # <<>>
        /\ inner' = undefined \/ inner' \in Seq(Nat)
    BY <1>0, <1>1, DeclareHookKeeps
  <1>3. TestTypes'
    BY <1>0, <1>1, <1>2 DEF TestTypes
  <1>4. PathsOpen' /\ TodoIsRest' /\ BeforeAllsRan' /\ AfterAllsWait'
    <2>1. log' = <<>> /\ phase' \in {"load", "exit"} /\ \A i \in DOMAIN collector' : collector'[i].id = i
      BY <1>0, <1>1
    <2> QED
      BY <1>1, <2>1, LoadingKeeps
  <1> QED
    BY <1>2, <1>3, <1>4 DEF TestInductive

LEMMA TestDeclaredKeeps == TestInductive /\ TestDeclared => TestInductive'
  <1> SUFFICES ASSUME TestInductive, TestDeclared PROVE TestInductive'
    OBVIOUS
  <1>0. TestTypes /\ HooksApart /\ phase = "load" /\ log = <<>> /\ \A i \in DOMAIN collector : collector[i].id = i
    BY DEF TestInductive, TestDeclared, TodoIsRest
  <1>1. /\ phase' = phase /\ hooks' = hooks /\ stack' = stack /\ inner' = inner /\ todo' = todo
        /\ prevPath' = prevPath /\ pathAfterAlls' = pathAfterAlls /\ log' = log
    BY DEF TestDeclared
  <1>2. PICK opts : pushTest(opts)
    BY DEF TestDeclared
  <1> DEFINE new == [id |-> Len(collector) + 1, path |-> curr.path, hooks |-> curr.hooks,
                     skip |-> opts = "skip" \/ curr.forceSkip,
                     failing |-> opts = "failing", only |-> opts = "only"]
  <1>3. curr \in BlockRecord /\ curr.hooks \in HookLists
    BY <1>0, CurrHas
  <1>4. collector \in Seq(TestRecord) /\ Len(collector) \in Nat /\ DOMAIN collector = 1 .. Len(collector)
    BY <1>0 DEF TestTypes
  <1>5. new \in TestRecord /\ new.hooks = curr.hooks /\ new.id = Len(collector) + 1
    BY <1>3, <1>4 DEF BlockRecord, TestRecord
  <1>6. collector' = Append(collector, new)
    BY <1>2 DEF pushTest
  <1> HIDE DEF new
  <1>7. /\ collector' \in Seq(TestRecord) /\ DOMAIN collector' = 1 .. Len(collector) + 1
        /\ \A i \in 1 .. Len(collector) : collector'[i] = collector[i]
        /\ collector'[Len(collector) + 1] = new
    BY <1>4, <1>5, <1>6, AppendProperties
  <1>8. \A i \in DOMAIN collector' : i \in DOMAIN collector \/ i = Len(collector) + 1
    BY <1>4, <1>7
  <1>9. HookLists' \subseteq HookLists
    BY <1>1, <1>3, <1>4, <1>5, <1>7, <1>8 DEF HookLists
  <1>10. TestTypes'
    BY <1>0, <1>1, <1>7 DEF TestTypes
  <1>11. HooksApart'
    BY <1>0, <1>1, <1>9, ApartKept
  <1>12. PathsOpen' /\ TodoIsRest' /\ BeforeAllsRan' /\ AfterAllsWait'
    <2>1. \A i \in DOMAIN collector' : collector'[i].id = i
      BY <1>0, <1>4, <1>5, <1>7, <1>8
    <2>2. log' = <<>> /\ phase' \in {"load", "exit"}
      BY <1>0, <1>1
    <2> QED
      BY <1>1, <2>1, <2>2, LoadingKeeps
  <1> QED
    BY <1>10, <1>11, <1>12 DEF TestInductive

LEMMA LoadFailsKeeps == TestInductive /\ LoadFails => TestInductive'
  <1> SUFFICES ASSUME TestInductive, LoadFails PROVE TestInductive'
    OBVIOUS
  <1>0. TestTypes /\ HooksApart /\ phase = "load" /\ log = <<>> /\ \A i \in DOMAIN collector : collector[i].id = i
    BY DEF TestInductive, LoadFails, TodoIsRest
  <1>1. /\ hooks' = hooks /\ inner' = inner /\ todo' = todo
        /\ prevPath' = prevPath /\ pathAfterAlls' = pathAfterAlls
        /\ stack' = SubSeq(stack, 1, 1)
    BY DEF LoadFails
  <1>2. log' = <<>> /\ phase' \in {"load", "exit"} /\ collector' \in {collector, <<>>}
    BY <1>0 DEF LoadFails, NextFile, LastFile
  <1>3. 1 \in 1 .. Len(stack)
    BY <1>0, CurrHas
  <1>4. stack' \in Seq(BlockRecord) /\ stack' # <<>> /\ HookLists' \subseteq HookLists
    BY <1>0, <1>1, <1>2, <1>3, OuterBlocks
  <1>5. TestTypes'
    <2>1. collector' \in Seq(TestRecord) /\ log' \in Seq(Event)
      <3>1. collector \in Seq(TestRecord)
        BY <1>0 DEF TestTypes
      <3>2. <<>> \in Seq(TestRecord) /\ <<>> \in Seq(Event)
        OBVIOUS
      <3> QED
        BY <1>2, <3>1, <3>2
    <2>2. phase' \in {"load", "run", "in test", "exit"}
      BY <1>2
    <2> QED
      BY <1>0, <1>1, <1>4, <2>1, <2>2 DEF TestTypes
  <1>6. HooksApart'
    BY <1>0, <1>1, <1>4, ApartKept
  <1>7. \A i \in DOMAIN collector' : collector'[i].id = i
    BY <1>0, <1>2
  <1>8. PathsOpen' /\ TodoIsRest' /\ BeforeAllsRan' /\ AfterAllsWait'
    BY <1>1, <1>2, <1>7, LoadingKeeps
  <1> QED
    BY <1>5, <1>6, <1>8 DEF TestInductive

(* The tests to run are those collected, but for which are skipped.         *)
LEMMA SelectedHas ==
    ASSUME NEW tests \in Seq(TestRecord)
    PROVE  /\ Selected(tests) \in Seq(TestRecord) /\ Len(Selected(tests)) = Len(tests)
           /\ \A i \in 1 .. Len(tests) :
                 /\ Selected(tests)[i].id = tests[i].id
                 /\ Selected(tests)[i].path = tests[i].path
                 /\ Selected(tests)[i].hooks = tests[i].hooks
  <1> DEFINE Sel(t) == IF has_only /\ ~t.only THEN [t EXCEPT !.skip = TRUE] ELSE t
  <1>1. \A t \in TestRecord : Sel(t) \in TestRecord /\ Sel(t).id = t.id /\ Sel(t).path = t.path /\ Sel(t).hooks = t.hooks
    BY DEF TestRecord
  <1>2. Selected(tests) = [i \in 1 .. Len(tests) |-> Sel(tests[i])] /\ Len(tests) \in Nat
    BY DEF Selected
  <1> HIDE DEF Sel
  <1>3. \A i \in 1 .. Len(tests) : tests[i] \in TestRecord
    OBVIOUS
  <1>4. Selected(tests) \in [1 .. Len(tests) -> TestRecord]
    BY <1>1, <1>2, <1>3
  <1>5. Selected(tests) \in Seq(TestRecord) /\ Len(Selected(tests)) = Len(tests)
    BY <1>2, <1>4
  <1>6. \A i \in 1 .. Len(tests) : Selected(tests)[i] = Sel(tests[i])
    BY <1>2
  <1> QED
    BY <1>1, <1>3, <1>5, <1>6

LEMMA LoadEndsKeeps == TestInductive /\ LoadEnds => TestInductive'
  <1> SUFFICES ASSUME TestInductive, LoadEnds PROVE TestInductive'
    OBVIOUS
  <1>0. TestTypes /\ HooksApart /\ phase = "load" /\ log = <<>> /\ \A i \in DOMAIN collector : collector[i].id = i
    BY DEF TestInductive, LoadEnds, TodoIsRest
  <1>1. /\ phase' = "run" /\ hooks' = hooks /\ stack' = stack /\ collector' = collector /\ inner' = inner
        /\ todo' = Selected(collector) /\ prevPath' = <<>> /\ pathAfterAlls' = <<>> /\ ranBeforeAll' = {}
        /\ log' = log
    BY DEF LoadEnds
  <1>2. collector \in Seq(TestRecord) /\ Len(collector) \in Nat /\ DOMAIN collector = 1 .. Len(collector)
    BY <1>0 DEF TestTypes
  <1>3. /\ todo' \in Seq(TestRecord) /\ Len(todo') = Len(collector)
        /\ \A i \in 1 .. Len(collector) :
              /\ todo'[i].id = collector[i].id
              /\ todo'[i].path = collector[i].path
              /\ todo'[i].hooks = collector[i].hooks
    BY <1>1, <1>2, SelectedHas
  <1>4. TestTypes'
    BY <1>0, <1>1, <1>3 DEF TestTypes
  <1>5. HooksApart'
    <2>1. HookLists' \subseteq HookLists
      BY <1>1 DEF HookLists
    <2> QED
      BY <1>0, <1>1, <2>1, ApartKept
  <1>6. \A e : At(e)' = {}
    BY <1>0, <1>1 DEF At
  <1>7. Done' = 0 /\ \A i \in 1 .. Len(collector) : 0 + i = i
    BY <1>1, <1>2, <1>3 DEF Done
  <1>8. TodoIsRest'
    <2>1. \A i \in DOMAIN todo' : i \in 1 .. Len(collector)
      BY <1>3
    <2> QED
      BY <1>0, <1>1, <1>2, <1>3, <1>7, <2>1 DEF TodoIsRest, Running
  <1>9. PathsOpen'
    BY <1>1 DEF PathsOpen
  <1>10. BeforeAllsRan' /\ AfterAllsWait'
    BY <1>1, <1>6 DEF BeforeAllsRan, AfterAllsWait
  <1> QED
    BY <1>4, <1>5, <1>8, <1>9, <1>10 DEF TestInductive

LEMMA FileEndsKeeps == TestInductive /\ FileEnds => TestInductive'
  <1> SUFFICES ASSUME TestInductive, FileEnds PROVE TestInductive'
    OBVIOUS
  <1>0. TestTypes /\ HooksApart /\ phase = "run" /\ \A i \in DOMAIN collector : collector[i].id = i
    BY DEF TestInductive, FileEnds, TodoIsRest
  <1>1. /\ stack' = stack /\ hooks' = hooks /\ inner' = inner /\ todo' = todo
        /\ prevPath' = prevPath /\ pathAfterAlls' = pathAfterAlls /\ ranBeforeAll' = ranBeforeAll
        /\ NextFile \/ LastFile
    BY DEF FileEnds
  <1>2. CASE NextFile
    <2>1. phase' = "load" /\ collector' = <<>> /\ log' = <<>>
      BY <1>2 DEF NextFile
    <2>2. TestTypes'
      BY <1>0, <1>1, <2>1 DEF TestTypes
    <2>3. HookLists' \subseteq HookLists
      BY <1>1, <2>1 DEF HookLists
    <2>4. HooksApart'
      BY <1>0, <1>1, <2>3, ApartKept
    <2>5. PathsOpen' /\ TodoIsRest' /\ BeforeAllsRan' /\ AfterAllsWait'
      BY <1>1, <2>1, LoadingKeeps
    <2> QED
      BY <2>2, <2>4, <2>5 DEF TestInductive
  <1>3. CASE LastFile
    <2>1. phase' = "exit" /\ collector' = collector /\ log' = log /\ ~Running'
      BY <1>3 DEF LastFile, Running
    <2>2. TestTypes'
      BY <1>0, <1>1, <2>1 DEF TestTypes
    <2>3. HookLists' = HookLists
      BY <1>1, <2>1 DEF HookLists
    <2>4. HooksApart'
      BY <1>0, <1>1, <2>3, ApartKept
    <2>5. PathsOpen' /\ TodoIsRest' /\ AfterAllsWait'
      BY <1>0, <1>1, <2>1 DEF TestInductive, PathsOpen, TodoIsRest, AfterAllsWait
    <2>6. BeforeAllsRan'
      <3>1. \A h, k : HasHook(h, k)' <=> HasHook(h, k)
        BY <2>3 DEF HasHook
      <3>2. \A e : At(e)' = At(e)
        BY <2>1 DEF At
      <3>3. \A t : TestRan(t)' = TestRan(t)
        BY DEF TestRan
      <3>4. BeforeAllsRan
        BY DEF TestInductive
      <3>5. \A h : HasHook(h, "beforeAll")' =>
              \A i, j \in At(HookRan(h))' : i = j /\ h \in ranBeforeAll'
        BY <1>1, <3>1, <3>2, <3>4 DEF BeforeAllsRan, HookRan
      <3>6. \A t \in Range(collector)' : \A i \in At(TestRan(t))' : \A h \in Range(t.hooks["beforeAll"]) :
              \E j \in At(HookRan(h))' : j < i
        BY <2>1, <3>2, <3>4 DEF BeforeAllsRan, HookRan, TestRan, Range
      <3> QED
        BY <2>1, <3>5, <3>6 DEF BeforeAllsRan
    <2> QED
      BY <2>2, <2>4, <2>5, <2>6 DEF TestInductive
  <1> QED
    BY <1>1, <1>2, <1>3

-----------------------------------------------------------------------------
(* Running its tests.                                                       *)

(* The next test is the record of a collected one that has not run.         *)
LEMMA NextTest ==
    ASSUME TestTypes, TodoIsRest, Running, todo # <<>>, NEW t, t = Head(todo)
    PROVE  /\ t \in TestRecord
           /\ Tail(todo) \in Seq(TestRecord)
           /\ \E c \in Range(collector) :
                 c \in TestRecord /\ TestRan(c) = TestRan(t) /\ c.path = t.path /\ c.hooks = t.hooks
                 /\ \A d \in Range(collector) : TestRan(d) = TestRan(t) => d = c
           /\ phase = "run" => At(TestRan(t)) = {}
           /\ t.hooks \in HookLists
  <1>1. todo \in Seq(TestRecord) /\ collector \in Seq(TestRecord) /\ log \in Seq(Event)
    BY DEF TestTypes
  <1>2. /\ Len(todo) \in Nat /\ Len(todo) >= 1 /\ DOMAIN todo = 1 .. Len(todo)
        /\ Len(collector) \in Nat /\ DOMAIN collector = 1 .. Len(collector)
        /\ t = todo[1] /\ t \in TestRecord /\ Tail(todo) \in Seq(TestRecord)
    BY <1>1, EmptySeq
  <1> DEFINE n == Done + 1
  <1>0. Done >= 0 /\ \A i \in DOMAIN collector : collector[i].id = i
    BY DEF TodoIsRest
  <1>3. n \in 1 .. Len(collector) /\ 1 \in DOMAIN todo
    BY <1>0, <1>2 DEF Done
  <1>4. t.id = n /\ t.path = collector[n].path /\ t.hooks = collector[n].hooks
    BY <1>2, <1>3 DEF TodoIsRest
  <1>5. \A i \in 1 .. Len(collector) : collector[i].id = i /\ collector[i] \in TestRecord
    BY <1>0, <1>1, <1>2
  <1>6. collector[n] \in Range(collector) /\ collector[n] \in TestRecord /\ collector[n].hooks \in HookLists
    BY <1>2, <1>3, <1>5 DEF Range, HookLists
  <1>7. TestRan(collector[n]) = TestRan(t)
    BY <1>3, <1>4, <1>5 DEF TestRan
  <1>8. ASSUME NEW d \in Range(collector), TestRan(d) = TestRan(t) PROVE d = collector[n]
    <2>1. PICK i \in 1 .. Len(collector) : d = collector[i]
      BY <1>2 DEF Range
    <2>2. TestRan(d).id = d.id /\ TestRan(t).id = t.id
      BY DEF TestRan
    <2>3. d.id = n
      BY <1>4, <1>8, <2>2
    <2> QED
      BY <1>5, <2>1, <2>3
  <1>9. ASSUME phase = "run" PROVE At(TestRan(t)) = {}
    <2> SUFFICES ASSUME NEW i \in DOMAIN log, log[i] = TestRan(t) PROVE FALSE
      BY DEF At
    <2>1. log[i].what = "test" /\ log[i].id = n
      BY <1>4 DEF TestRan
    <2>2. n <= Done
      BY <1>9, <2>1 DEF TodoIsRest
    <2>3. Done \in Int
      BY <1>2 DEF Done
    <2> QED
      BY <2>2, <2>3
  <1> HIDE DEF n
  <1> QED
    BY <1>2, <1>4, <1>6, <1>7, <1>8, <1>9

(* A test is taken off the list; no test that is still on it was added.     *)
LEMMA TodoShrinks ==
    ASSUME TestTypes, TodoIsRest, Running, todo # <<>>,
           phase' = "run", todo' = Tail(todo), collector' = collector,
           NEW ext \in Seq(Event), log' = log \o ext,
           \A n \in 1 .. Len(ext) : ext[n].what = "hook"
    PROVE  TodoIsRest'
  <1>1. todo \in Seq(TestRecord) /\ collector \in Seq(TestRecord) /\ log \in Seq(Event)
    BY DEF TestTypes
  <1>2. /\ Len(todo) \in Nat /\ Len(todo) >= 1 /\ DOMAIN todo = 1 .. Len(todo)
        /\ Len(collector) \in Nat
    BY <1>1, EmptySeq
  <1>3. /\ Len(todo') = Len(todo) - 1 /\ DOMAIN todo' = 1 .. Len(todo) - 1
        /\ \A i \in 1 .. Len(todo) - 1 : todo'[i] = todo[i + 1] /\ i + 1 \in DOMAIN todo
    BY <1>1, <1>2
  <1>4. Done \in Int /\ Done' = Done + 1 /\ Done >= 0 /\ \A i \in 1 .. Len(todo) - 1 : Done + 1 + i = Done + (i + 1)
    <2>1. Done >= 0
      BY DEF TodoIsRest
    <2> QED
      BY <1>2, <1>3, <2>1 DEF Done
  <1>5. \A i \in DOMAIN todo' :
           /\ todo'[i].id = Done' + i
           /\ todo'[i].path = collector[Done' + i].path
           /\ todo'[i].hooks = collector[Done' + i].hooks
    <2> TAKE i \in DOMAIN todo'
    <2>1. todo'[i] = todo[i + 1] /\ i + 1 \in DOMAIN todo /\ Done' + i = Done + (i + 1)
      BY <1>3, <1>4
    <2> QED
      BY <2>1 DEF TodoIsRest
  <1>6. \A i \in DOMAIN log' : log'[i].what = "test" => log'[i].id <= Done'
    <2> SUFFICES ASSUME NEW i \in DOMAIN log', log'[i].what = "test" PROVE log'[i].id <= Done'
      OBVIOUS
    <2>1. i \in DOMAIN log /\ log'[i] = log[i]
      <3>1. PICK e : e = log'[i]
        OBVIOUS
      <3>2. i \in At(e)'
        BY <3>1 DEF At
      <3>3. i \in At(e) \/ \E n \in 1 .. Len(ext) : i = Len(log) + n /\ ext[n] = e
        <4>1. \A x : \A j \in At(x)' :
                 j \in At(x) \/ \E n \in 1 .. Len(ext) : j = Len(log) + n /\ ext[n] = x
          BY <1>1, LogGrows, Zenon
        <4> QED
          BY <3>2, <4>1, Zenon
      <3>4. e.what = "test"
        BY <3>1
      <3>5. ~\E n \in 1 .. Len(ext) : i = Len(log) + n /\ ext[n] = e
        BY <3>4
      <3> QED
        BY <3>1, <3>3, <3>5 DEF At
    <2>2. log[i].id <= Done \/ log[i].id <= Done + 1
      BY <2>1 DEF TodoIsRest
    <2>3. log[i].id \in Nat
      <3>1. log[i] \in Event
        BY <1>1, <2>1
      <3> QED
        BY <3>1 DEF Event
    <2> QED
      BY <1>4, <2>1, <2>2, <2>3
  <1>7. \A i \in DOMAIN collector' : collector'[i].id = i
    BY DEF TodoIsRest
  <1> QED
    <2>1. Done' >= 0
      BY <1>4
    <2> QED
      BY <1>5, <1>6, <1>7, <2>1 DEF TodoIsRest

LEMMA HooksTyped ==
    ASSUME TestTypes
    PROVE  \A hs \in HookLists : hs \in HooksOfKind
  <1>1. \A i \in DOMAIN stack : stack[i].hooks \in HooksOfKind
    <2>1. stack \in Seq(BlockRecord)
      BY DEF TestTypes
    <2>2. \A i \in DOMAIN stack : stack[i] \in BlockRecord
      BY <2>1
    <2> QED
      BY <2>2 DEF BlockRecord
  <1>2. \A i \in DOMAIN collector : collector[i].hooks \in HooksOfKind
    <2>1. collector \in Seq(TestRecord)
      BY DEF TestTypes
    <2>2. \A i \in DOMAIN collector : collector[i] \in TestRecord
      BY <2>1
    <2> QED
      BY <2>2 DEF TestRecord
  <1> QED
    BY <1>1, <1>2 DEF HookLists

LEMMA SamePathsExtend ==
    ASSUME AfterAllsWait, Running, pathAfterAlls' = pathAfterAlls, NEW ext
    PROVE  PathsExtend(ext)
  <1>1. \A k \in DOMAIN pathAfterAlls : \A i \in DOMAIN pathAfterAlls[k] :
          \E t \in Range(collector) : \E j \in DOMAIN t.hooks["afterAll"] : t.hooks["afterAll"][j] = pathAfterAlls[k][i]
    BY DEF AfterAllsWait
  <1>2. \A k \in DOMAIN pathAfterAlls : \A i \in DOMAIN pathAfterAlls[k] :
          k \in DOMAIN pathAfterAlls' /\ \E j \in DOMAIN pathAfterAlls'[k] : pathAfterAlls'[k][j] = pathAfterAlls[k][i]
    OBVIOUS
  <1> QED
    BY <1>1, <1>2 DEF PathsExtend

(* Hooks other than beforeAll hooks may be added at any time.               *)
LEMMA OtherHooksExtend ==
    ASSUME NEW ext \in Seq(Event), log' = log \o ext, ranBeforeAll' = ranBeforeAll,
           \A e : In(ext, e) => \E h : e = HookRan(h) /\ ~HasHook(h, "beforeAll")
    PROVE  LogExtends(ext) /\ \A n \in 1 .. Len(ext) : ext[n].what = "hook"
  <1>1. \A n \in 1 .. Len(ext) : \E h : ext[n] = HookRan(h) /\ ~HasHook(h, "beforeAll")
    BY DEF In
  <1>2. \A h : HookRan(h).what = "hook" /\ HookRan(h).id = h
    BY DEF HookRan
  <1>3. \A n \in 1 .. Len(ext) : ext[n].what = "hook" /\ ~HasHook(ext[n].id, "beforeAll")
    BY <1>1, <1>2
  <1>4. \A t : TestRan(t).what = "test"
    BY DEF TestRan
  <1>5. \A t : \A n \in 1 .. Len(ext) : ext[n] # TestRan(t)
    <2> SUFFICES ASSUME NEW t, NEW n \in 1 .. Len(ext), ext[n] = TestRan(t) PROVE FALSE
      OBVIOUS
    <2>1. TestRan(t).what = "hook"
      BY <1>3
    <2> QED
      BY <1>4, <2>1
  <1>6. \A h : HasHook(h, "beforeAll") => \A n \in 1 .. Len(ext) : ext[n] # HookRan(h)
    BY <1>2, <1>3
  <1> QED
    BY <1>3, <1>5, <1>6 DEF LogExtends, In

(* Leaving fires none but afterAll hooks.                                   *)
LEMMA FiredIsOther ==
    ASSUME TestTypes, HooksApart, PathsOpen, AfterAllsWait, Running, NEW q \in Seq(Name)
    PROVE  \A e : In(Fired(q), e) => \E h : e = HookRan(h) /\ ~HasHook(h, "beforeAll")
  <1> TAKE e
  <1> HAVE In(Fired(q), e)
  <1>1. PICK k \in DOMAIN pathAfterAlls : \E i \in DOMAIN pathAfterAlls[k] : e = HookRan(pathAfterAlls[k][i])
    BY LeavingHas
  <1>2. PICK i \in DOMAIN pathAfterAlls[k] : e = HookRan(pathAfterAlls[k][i])
    BY <1>1
  <1>3. PICK t \in Range(collector) : \E j \in DOMAIN t.hooks["afterAll"] : t.hooks["afterAll"][j] = pathAfterAlls[k][i]
    BY DEF AfterAllsWait
  <1>4. t.hooks \in HookLists
    BY DEF Range, HookLists
  <1>5. HasHook(pathAfterAlls[k][i], "afterAll")
    BY <1>3, <1>4 DEF HasHook
  <1>6. "afterAll" \in HookKind \ {"beforeAll"}
    BY DEF HookKind
  <1>7. ~HasHook(pathAfterAlls[k][i], "beforeAll")
    BY <1>5, <1>6 DEF HooksApart
  <1> QED
    BY <1>2, <1>7

LEMMA KeptExtends ==
    ASSUME TestTypes, PathsOpen, AfterAllsWait, Running, NEW q \in Seq(Name),
           pathAfterAlls' = Kept(q), NEW ext, ext = Fired(q)
    PROVE  PathsExtend(ext)
  <1>1. /\ \A k \in DOMAIN pathAfterAlls :
                 \/ k \in DOMAIN Kept(q) /\ Kept(q)[k] = pathAfterAlls[k]
                 \/ \A i \in DOMAIN pathAfterAlls[k] : In(Fired(q), HookRan(pathAfterAlls[k][i]))
        /\ \A k \in DOMAIN Kept(q) : k \in DOMAIN pathAfterAlls /\ Kept(q)[k] = pathAfterAlls[k]
    BY LeavingHas
  <1>2. \A k \in DOMAIN pathAfterAlls : \A i \in DOMAIN pathAfterAlls[k] :
          \E t \in Range(collector) : \E j \in DOMAIN t.hooks["afterAll"] : t.hooks["afterAll"][j] = pathAfterAlls[k][i]
    BY DEF AfterAllsWait
  <1> QED
    BY <1>1, <1>2 DEF PathsExtend

LEMMA SkipTestKeeps == TestInductive /\ SkipTest => TestInductive'
  <1> SUFFICES ASSUME TestInductive, SkipTest PROVE TestInductive'
    OBVIOUS
  <1> DEFINE t == Head(todo)  ext == Fired(t.path)
  <1>0. /\ TestTypes /\ HooksApart /\ PathsOpen /\ TodoIsRest /\ BeforeAllsRan /\ AfterAllsWait
        /\ phase = "run" /\ Running /\ todo # <<>>
    BY DEF TestInductive, SkipTest, Running
  <1>1. /\ phase' = phase /\ stack' = stack /\ hooks' = hooks /\ collector' = collector /\ inner' = inner
        /\ ranBeforeAll' = ranBeforeAll /\ todo' = Tail(todo)
        /\ log' = log \o ext /\ pathAfterAlls' = Kept(t.path) /\ prevPath' = t.path
    BY DEF SkipTest
  <1>2. t \in TestRecord /\ Tail(todo) \in Seq(TestRecord)
    BY <1>0, NextTest
  <1>3. t.path \in Seq(Name)
    BY <1>2 DEF TestRecord
  <1> HIDE DEF t
  <1>4. /\ ext \in Seq(Event) /\ Kept(t.path) \in [DOMAIN Kept(t.path) -> Seq(Nat)]
        /\ \A k \in DOMAIN Kept(t.path) : OnTheWay(k, t.path)
    BY <1>0, <1>3, LeavingHas
  <1>5. \A e : In(ext, e) => \E h : e = HookRan(h) /\ ~HasHook(h, "beforeAll")
    BY <1>0, <1>3, FiredIsOther
  <1>6. PathsExtend(ext)
    BY <1>0, <1>1, <1>3, KeptExtends
  <1> HIDE DEF ext
  <1>7. LogExtends(ext) /\ \A n \in 1 .. Len(ext) : ext[n].what = "hook"
    BY <1>1, <1>4, <1>5, OtherHooksExtend
  <1>8. BeforeAllsRan' /\ AfterAllsWait'
    <2>1. Running'
      BY <1>0, <1>1 DEF Running
    <2> QED
      BY <1>0, <1>1, <1>6, <1>7, <2>1, LogKeeps
  <1>9. TodoIsRest'
    BY <1>0, <1>1, <1>4, <1>7, TodoShrinks
  <1>10. PathsOpen'
    BY <1>1, <1>4 DEF PathsOpen, OnTheWay
  <1>11. HooksApart'
    <2>1. HookLists' \subseteq HookLists
      BY <1>1 DEF HookLists
    <2> QED
      BY <1>0, <1>1, <2>1, ApartKept
  <1>12. TestTypes'
    <2>1. log' \in Seq(Event)
      BY <1>0, <1>1, <1>4, LogGrows DEF TestTypes
    <2> QED
      BY <1>0, <1>1, <1>2, <1>3, <1>4, <2>1 DEF TestTypes
  <1> QED
    BY <1>8, <1>9, <1>10, <1>11, <1>12 DEF TestInductive

LEMMA RunEndsKeeps == TestInductive /\ RunEnds => TestInductive'
  <1> SUFFICES ASSUME TestInductive, RunEnds PROVE TestInductive'
    OBVIOUS
  <1> DEFINE ext == Fired(<<>>)
  <1>0. /\ TestTypes /\ HooksApart /\ PathsOpen /\ TodoIsRest /\ BeforeAllsRan /\ AfterAllsWait
        /\ phase = "run" /\ Running
    BY DEF TestInductive, RunEnds, Running
  <1>1. /\ phase' = phase /\ stack' = stack /\ hooks' = hooks /\ collector' = collector /\ inner' = inner
        /\ ranBeforeAll' = ranBeforeAll /\ todo' = todo
        /\ log' = log \o ext /\ pathAfterAlls' = Kept(<<>>) /\ prevPath' = <<>>
    BY DEF RunEnds
  <1>3. <<>> \in Seq(Name)
    OBVIOUS
  <1>4. /\ ext \in Seq(Event) /\ Kept(<<>>) \in [DOMAIN Kept(<<>>) -> Seq(Nat)]
        /\ \A k \in DOMAIN Kept(<<>>) : OnTheWay(k, <<>>)
    BY <1>0, <1>3, LeavingHas
  <1>5. \A e : In(ext, e) => \E h : e = HookRan(h) /\ ~HasHook(h, "beforeAll")
    BY <1>0, <1>3, FiredIsOther
  <1>6. PathsExtend(ext)
    BY <1>0, <1>1, <1>3, KeptExtends
  <1> HIDE DEF ext
  <1>7. LogExtends(ext) /\ \A n \in 1 .. Len(ext) : ext[n].what = "hook"
    BY <1>1, <1>4, <1>5, OtherHooksExtend
  <1>8. BeforeAllsRan' /\ AfterAllsWait'
    <2>1. Running'
      BY <1>0, <1>1 DEF Running
    <2> QED
      BY <1>0, <1>1, <1>6, <1>7, <2>1, LogKeeps
  <1>9. TodoIsRest'
    <2>1. \A i \in DOMAIN log' : log'[i].what = "test" => i \in DOMAIN log /\ log'[i] = log[i]
      <3> SUFFICES ASSUME NEW i \in DOMAIN log', log'[i].what = "test" PROVE i \in DOMAIN log /\ log'[i] = log[i]
        OBVIOUS
      <3>1. PICK e : e = log'[i]
        OBVIOUS
      <3>2. i \in At(e)'
        BY <3>1 DEF At
      <3>3. i \in At(e) \/ \E n \in 1 .. Len(ext) : i = Len(log) + n /\ ext[n] = e
        BY <1>0, <1>1, <1>4, <3>2, LogGrows DEF TestTypes
      <3>4. ~\E n \in 1 .. Len(ext) : i = Len(log) + n /\ ext[n] = e
        BY <1>7, <3>1
      <3> QED
        BY <3>1, <3>3, <3>4 DEF At
    <2>2. Done' = Done
      BY <1>1 DEF Done
    <2>3. \A i \in DOMAIN log : log[i].what = "test" => log[i].id <= Done
      BY <1>0 DEF TodoIsRest
    <2>4. \A i \in DOMAIN log' : log'[i].what = "test" => log'[i].id <= Done'
      BY <2>1, <2>2, <2>3
    <2> QED
      BY <1>0, <1>1, <2>2, <2>4 DEF TodoIsRest
  <1>10. PathsOpen'
    BY <1>1, <1>4 DEF PathsOpen, OnTheWay
  <1>11. HooksApart'
    <2>1. HookLists' \subseteq HookLists
      BY <1>1 DEF HookLists
    <2> QED
      BY <1>0, <1>1, <2>1, ApartKept
  <1>12. TestTypes'
    <2>1. log' \in Seq(Event)
      BY <1>0, <1>1, <1>4, LogGrows DEF TestTypes
    <2> QED
      BY <1>0, <1>1, <1>3, <1>4, <2>1 DEF TestTypes
  <1> QED
    BY <1>8, <1>9, <1>10, <1>11, <1>12 DEF TestInductive

LEMMA BodyDeclaresKeeps == TestInductive /\ BodyDeclaresAfterAll => TestInductive'
  <1> SUFFICES ASSUME TestInductive, BodyDeclaresAfterAll PROVE TestInductive'
    OBVIOUS
  <1>0. /\ TestTypes /\ HooksApart /\ PathsOpen /\ TodoIsRest /\ BeforeAllsRan /\ AfterAllsWait
        /\ phase = "in test" /\ inner # undefined
    BY DEF TestInductive, BodyDeclaresAfterAll, TodoIsRest
  <1>1. /\ phase' = phase /\ collector' = collector /\ todo' = todo
        /\ prevPath' = prevPath /\ pathAfterAlls' = pathAfterAlls /\ ranBeforeAll' = ranBeforeAll
        /\ log' = log
        /\ DeclareHook("afterAll")
    BY DEF BodyDeclaresAfterAll
  <1>2. "afterAll" \in HookKind
    BY DEF HookKind
  <1>3. /\ HooksApart' /\ hooks' \in Nat /\ stack' = stack /\ inner' # undefined
        /\ inner' = undefined \/ inner' \in Seq(Nat)
    BY <1>0, <1>1, <1>2, DeclareHookKeeps
  <1>4. TestTypes'
    BY <1>0, <1>1, <1>3 DEF TestTypes
  <1>5. TodoIsRest'
    <2>1. Done' = Done
      BY <1>1 DEF Done
    <2> QED
      BY <1>0, <1>1, <1>3, <2>1 DEF TodoIsRest, Running
  <1>6. PathsOpen'
    BY <1>0, <1>1 DEF PathsOpen
  <1>7. BeforeAllsRan' /\ AfterAllsWait'
    <2> DEFINE ext == <<>>
    <2>0. ext \in Seq(Event)
      OBVIOUS
    <2>1. log \in Seq(Event) /\ ext \in Seq(Event)
      BY <1>0, <2>0 DEF TestTypes
    <2>2. log' = log \o ext
      BY <1>1, <2>1, ConcatEmptySeq
    <2>3. \A e : ~In(ext, e)
      BY DEF In
    <2> HIDE DEF ext
    <2>4. LogExtends(ext)
      BY <1>1, <2>1, <2>2, <2>3, OtherHooksExtend
    <2>5. Running /\ Running'
      BY <1>0, <1>1 DEF Running
    <2>6. PathsExtend(ext)
      BY <1>0, <1>1, <2>5, SamePathsExtend
    <2> QED
      BY <1>0, <1>1, <1>3, <2>4, <2>5, <2>6, LogKeeps
  <1> QED
    BY <1>3, <1>4, <1>5, <1>6, <1>7 DEF TestInductive

(* A body settles: hooks of the test and of its body may follow, and the     *)
(* next test is due.                                                        *)
LEMMA SettlesKeeps ==
    ASSUME TestInductive, NEW ext \in Seq(Event), NEW inner1, NEW failed1,
           Settles(log \o ext, inner1, failed1),
           inner1 \in {inner, undefined},
           \A e : In(ext, e) => \E h : e = HookRan(h) /\ ~HasHook(h, "beforeAll")
    PROVE  TestInductive'
  <1>0. /\ TestTypes /\ HooksApart /\ PathsOpen /\ TodoIsRest /\ BeforeAllsRan /\ AfterAllsWait
        /\ phase = "in test" /\ Running /\ todo # <<>>
    BY DEF TestInductive, Settles, TodoIsRest, Running
  <1>1. /\ phase' = "run" /\ stack' = stack /\ hooks' = hooks /\ collector' = collector
        /\ inner' = inner \/ inner' = undefined
        /\ ranBeforeAll' = ranBeforeAll /\ todo' = Tail(todo)
        /\ log' = log \o ext /\ pathAfterAlls' = pathAfterAlls /\ prevPath' = prevPath
    BY DEF Settles
  <1>2. Tail(todo) \in Seq(TestRecord)
    BY <1>0, NextTest
  <1>3. LogExtends(ext) /\ \A n \in 1 .. Len(ext) : ext[n].what = "hook"
    BY <1>1, OtherHooksExtend
  <1>4. BeforeAllsRan' /\ AfterAllsWait'
    <2>1. Running'
      BY <1>1 DEF Running
    <2>2. PathsExtend(ext)
      BY <1>0, <1>1, SamePathsExtend
    <2> QED
      BY <1>0, <1>1, <1>3, <2>1, <2>2, LogKeeps
  <1>5. TodoIsRest'
    BY <1>0, <1>1, <1>3, TodoShrinks
  <1>6. PathsOpen'
    BY <1>0, <1>1 DEF PathsOpen
  <1>7. HooksApart'
    <2>1. HookLists' \subseteq HookLists
      BY <1>1 DEF HookLists
    <2> QED
      BY <1>0, <1>1, <2>1, ApartKept
  <1>8. TestTypes'
    <2>1. log' \in Seq(Event)
      BY <1>0, <1>1, LogGrows DEF TestTypes
    <2> QED
      BY <1>0, <1>1, <1>2, <2>1 DEF TestTypes
  <1> QED
    BY <1>4, <1>5, <1>6, <1>7, <1>8 DEF TestInductive

(* The hooks of one kind that a test has are not beforeAll hooks unless that *)
(* is their kind; neither are any of the first ones in another order.        *)
LEMMA KindHas ==
    ASSUME TestTypes, HooksApart, NEW hs \in HookLists, NEW k \in HookKind \ {"beforeAll"}
    PROVE  \A h : In(hs[k], h) => ~HasHook(h, "beforeAll")
  <1> TAKE h
  <1> HAVE In(hs[k], h)
  <1>1. hs \in HooksOfKind
    BY HooksTyped
  <1>2. hs[k] \in Seq(Nat)
    BY <1>1 DEF HooksOfKind
  <1>3. HasHook(h, k)
    BY <1>2 DEF In, HasHook
  <1> QED
    BY <1>3 DEF HooksApart

LEMMA Grouped == \A x, y, z \in Seq(Event) : (x \o y) \o z = x \o (y \o z)
  <1> TAKE x, y, z \in Seq(Event)
  <1> QED
    BY ConcatAssociative

LEMMA BodyEndsKeeps == TestInductive /\ BodyEnds => TestInductive'
  <1> SUFFICES ASSUME TestInductive, BodyEnds PROVE TestInductive'
    OBVIOUS
  <1> DEFINE t == Head(todo)  ae == t.hooks["afterEach"]
  <1>0. /\ TestTypes /\ HooksApart /\ TodoIsRest /\ Running
        /\ phase = "in test" /\ todo # <<>> /\ inner # undefined /\ log \in Seq(Event)
    BY DEF TestInductive, BodyEnds, TodoIsRest, Running, TestTypes
  <1>1. t \in TestRecord /\ t.hooks \in HookLists
    BY <1>0, NextTest
  <1>2. "afterEach" \in HookKind \ {"beforeAll"}
    BY DEF HookKind
  <1>3. ae \in Seq(Nat) /\ \A h : In(ae, h) => ~HasHook(h, "beforeAll")
    <2>1. ae \in Seq(Nat)
      BY <1>1, <1>2 DEF TestRecord, HooksOfKind
    <2> QED
      BY <1>0, <1>1, <1>2, <2>1, KindHas
  <1>4. inner \in Seq(Nat) /\ \A h : In(inner, h) => ~HasHook(h, "beforeAll")
    <2>1. inner \in Seq(Nat)
      BY <1>0 DEF TestTypes
    <2>2. \A i \in DOMAIN inner : ~HasHook(inner[i], "beforeAll")
      BY <1>0 DEF HooksApart
    <2>3. DOMAIN inner = 1 .. Len(inner)
      BY <2>1
    <2> QED
      BY <2>1, <2>2, <2>3 DEF In
  <1>5. AfterEach(t) = Reverse(ae)
    BY DEF AfterEach
  <1> HIDE DEF t, ae
  <1>6. /\ AfterEach(t) \in Seq(Nat) /\ Len(AfterEach(t)) \in Nat
        /\ \A h : In(AfterEach(t), h) => ~HasHook(h, "beforeAll")
    BY <1>3, <1>5, ReverseHas
  <1>7. \A n \in 0 .. Len(AfterEach(t)) :
           /\ SubSeq(AfterEach(t), 1, n) \in Seq(Nat)
           /\ \A h : In(SubSeq(AfterEach(t), 1, n), h) => ~HasHook(h, "beforeAll")
    <2> TAKE n \in 0 .. Len(AfterEach(t))
    <2> DEFINE s == AfterEach(t)
    <2>1. SubSeq(s, 1, n) = [i \in 1 .. n |-> s[i]] /\ \A i \in 1 .. n : i \in 1 .. Len(s) /\ s[i] \in Nat
      BY <1>6
    <2>2. SubSeq(s, 1, n) \in Seq(Nat) /\ Len(SubSeq(s, 1, n)) = n /\ \A i \in 1 .. n : SubSeq(s, 1, n)[i] = s[i]
      BY <2>1
    <2> QED
      BY <1>6, <2>1, <2>2 DEF In
  <1>8. \A n \in 0 .. Len(AfterEach(t)) :
           LET ext == Ran(inner) \o Ran(SubSeq(AfterEach(t), 1, n)) IN
           /\ ext \in Seq(Event)
           /\ log \o Ran(inner) \o Ran(SubSeq(AfterEach(t), 1, n)) = log \o ext
           /\ \A e : In(ext, e) => \E h : e = HookRan(h) /\ ~HasHook(h, "beforeAll")
    <2> TAKE n \in 0 .. Len(AfterEach(t))
    <2> DEFINE s == SubSeq(AfterEach(t), 1, n)
    <2>1. s \in Seq(Nat) /\ \A h : In(s, h) => ~HasHook(h, "beforeAll")
      BY <1>7
    <2> HIDE DEF s
    <2>2. Ran(inner) \in Seq(Event) /\ Ran(s) \in Seq(Event)
      BY <1>4, <2>1, EventsOfHooks
    <2>3. \A e : In(Ran(inner) \o Ran(s), e) => In(Ran(inner), e) \/ In(Ran(s), e)
      BY <2>2, ConcatExact
    <2>4. \A e : In(Ran(inner), e) => \E h : e = HookRan(h) /\ ~HasHook(h, "beforeAll")
      BY <1>4, EventsOfHooks
    <2>5. \A e : In(Ran(s), e) => \E h : e = HookRan(h) /\ ~HasHook(h, "beforeAll")
      BY <2>1, EventsOfHooks
    <2>6. log \o Ran(inner) \o Ran(s) = log \o (Ran(inner) \o Ran(s))
      <3>1. log \in Seq(Event)
        BY <1>0
      <3> QED
        BY <2>2, <3>1, Grouped, Zenon
    <2>7. Ran(inner) \o Ran(s) \in Seq(Event)
      BY <2>2, ConcatExact
    <2> QED
      BY <2>3, <2>4, <2>5, <2>6, <2>7 DEF s
  <1>9. CASE BodyPasses
    <2>1. PICK n \in 0 .. Len(AfterEach(t)) : \E f :
             Settles(log \o Ran(inner) \o Ran(SubSeq(AfterEach(t), 1, n)), undefined, f)
      <3>1. Len(AfterEach(t)) \in 0 .. Len(AfterEach(t)) /\ \A n \in DOMAIN AfterEach(t) : n \in 0 .. Len(AfterEach(t))
        BY <1>6
      <3> QED
        BY <1>9, <3>1 DEF BodyPasses, t
    <2> PICK failed1 : Settles(log \o Ran(inner) \o Ran(SubSeq(AfterEach(t), 1, n)), undefined, failed1)
      BY <2>1
    <2> DEFINE ext == Ran(inner) \o Ran(SubSeq(AfterEach(t), 1, n))
    <2>2. /\ ext \in Seq(Event) /\ Settles(log \o ext, undefined, failed1)
          /\ \A e : In(ext, e) => \E h : e = HookRan(h) /\ ~HasHook(h, "beforeAll")
      BY <1>8
    <2> HIDE DEF ext
    <2> QED
      BY <2>2, SettlesKeeps
  <1>10. CASE FailingThrows
    <2> DEFINE ext == Ran(AfterEach(t))
    <2>1. Settles(log \o ext, inner, failed)
      BY <1>10 DEF FailingThrows, t
    <2>2. ext \in Seq(Event) /\ \A e : In(ext, e) => \E h : e = HookRan(h) /\ ~HasHook(h, "beforeAll")
      BY <1>6, EventsOfHooks
    <2> HIDE DEF ext
    <2> QED
      BY <2>1, <2>2, SettlesKeeps
  <1>11. CASE BodyFails
    <2> DEFINE ext == <<>>
    <2>1. ext \in Seq(Event) /\ \A e : ~In(ext, e)
      BY DEF In
    <2>2. log \o ext = log
      BY <1>0, ConcatEmptySeq
    <2>3. Settles(log \o ext, inner, TRUE)
      BY <1>11, <2>2 DEF BodyFails
    <2> HIDE DEF ext
    <2> QED
      BY <2>1, <2>3, SettlesKeeps
  <1> QED
    BY <1>9, <1>10, <1>11 DEF BodyEnds

(* The hooks that a test adds wait under its path beside those that did.    *)
LEMMA RegisteredHas ==
    ASSUME NEW A, A \in [DOMAIN A -> Seq(Nat)], NEW t \in TestRecord
    PROVE  LET R == Registered(A, t) IN
           /\ R \in [DOMAIN R -> Seq(Nat)]
           /\ \A k \in DOMAIN A : k \in DOMAIN R /\ \A h : In(A[k], h) => In(R[k], h)
           /\ \A h : In(t.hooks["afterAll"], h) => t.path \in DOMAIN R /\ In(R[t.path], h)
           /\ \A k \in DOMAIN R : k \in DOMAIN A \/ k = t.path
           /\ \A k \in DOMAIN R : \A h : In(R[k], h) =>
                 (k \in DOMAIN A /\ In(A[k], h)) \/ In(t.hooks["afterAll"], h)
  <1> DEFINE hs == t.hooks["afterAll"]
             seen == IF t.path \in DOMAIN A THEN A[t.path] ELSE <<>>
             K == {i \in DOMAIN hs : ~Contains(seen, hs[i])}
             new == Picked(hs, K)
             R == Registered(A, t)
  <1>1. hs \in Seq(Nat) /\ DOMAIN hs = 1 .. Len(hs)
    BY DEF TestRecord, HooksOfKind, HookKind
  <1>2. seen \in Seq(Nat)
    OBVIOUS
  <1>3. K \in SUBSET (1 .. Len(hs))
    BY <1>1
  <1>4. CASE hs = <<>>
    <2>1. R = A
      BY <1>4 DEF Registered
    <2>2. \A h : ~In(hs, h)
      BY <1>4 DEF In
    <2> HIDE DEF hs, R
    <2> QED
      BY <2>1, <2>2 DEF hs, R
  <1>5. CASE hs # <<>>
    <2>1. R = [k \in DOMAIN A \cup {t.path} |-> IF k = t.path THEN seen \o new ELSE A[k]]
      BY <1>5, Zenon DEF Registered
    <2>2. \A i \in 1 .. Len(hs) : i \in K \/ In(seen, hs[i])
      <3>1. \A i \in 1 .. Len(hs) : Contains(seen, hs[i]) => In(seen, hs[i])
        BY DEF Contains, In
      <3> QED
        BY <1>1, <3>1
    <2> HIDE DEF K
    <2>3. /\ new \in Seq(Nat)
          /\ \A i \in K : \E n \in 1 .. Len(new) : new[n] = hs[i]
          /\ \A n \in 1 .. Len(new) : \E i \in K : new[n] = hs[i]
      BY <1>1, <1>3, PickedKeeps
    <2> HIDE DEF hs, seen, new, R
    <2>4. seen \o new \in Seq(Nat) /\ \A h : In(seen \o new, h) <=> In(seen, h) \/ In(new, h)
      BY <1>2, <2>3, ConcatExact
    <2>5. \A h : In(hs, h) => In(seen \o new, h)
      <3> TAKE h
      <3> HAVE In(hs, h)
      <3>1. PICK i \in 1 .. Len(hs) : hs[i] = h
        BY DEF In
      <3>2. CASE i \in K
        BY <2>3, <2>4, <3>1, <3>2 DEF In
      <3>3. CASE In(seen, hs[i])
        BY <2>4, <3>1, <3>3
      <3> QED
        BY <2>2, <3>2, <3>3
    <2>6. \A h : In(new, h) => In(hs, h)
      <3> TAKE h
      <3> HAVE In(new, h)
      <3>1. PICK n \in 1 .. Len(new) : new[n] = h
        BY DEF In
      <3>2. PICK i \in K : new[n] = hs[i]
        BY <2>3
      <3>3. i \in 1 .. Len(hs)
        BY <1>3
      <3> QED
        BY <3>1, <3>2, <3>3 DEF In
    <2>7. \A h : In(seen, h) => t.path \in DOMAIN A /\ In(A[t.path], h)
      BY DEF seen, In
    <2>8. t.path \in DOMAIN A => seen = A[t.path]
      BY DEF seen
    <2>9. /\ DOMAIN R = DOMAIN A \cup {t.path} /\ R[t.path] = seen \o new
          /\ \A k \in DOMAIN A : k # t.path => R[k] = A[k]
      BY <2>1
    <2>10. R \in [DOMAIN R -> Seq(Nat)]
      BY <2>1, <2>4
    <2>11. \A k \in DOMAIN A : k \in DOMAIN R /\ \A h : In(A[k], h) => In(R[k], h)
      BY <2>4, <2>8, <2>9
    <2>12. \A k \in DOMAIN R : \A h : In(R[k], h) => (k \in DOMAIN A /\ In(A[k], h)) \/ In(hs, h)
      BY <2>4, <2>6, <2>7, <2>9
    <2> QED
      BY <2>5, <2>9, <2>10, <2>11, <2>12 DEF hs, R
  <1> QED
    BY <1>4, <1>5

(* What stands where when three lists of events follow each other.          *)
Parts(x, a, b, c) ==
    /\ x \in Seq(Event) /\ Len(a) \in Nat /\ Len(b) \in Nat /\ Len(c) \in Nat
    /\ Len(x) = Len(a) + Len(b) + Len(c)
    /\ \A n \in 1 .. Len(x) :
          \/ n \in 1 .. Len(a) /\ x[n] = a[n]
          \/ n - Len(a) \in 1 .. Len(b) /\ x[n] = b[n - Len(a)]
          \/ n - (Len(a) + Len(b)) \in 1 .. Len(c) /\ x[n] = c[n - (Len(a) + Len(b))]
    /\ \A e : In(a, e) \/ In(b, e) \/ In(c, e) => In(x, e)

LEMMA ThreeParts == \A a, b, c \in Seq(Event) : Parts((a \o b) \o c, a, b, c)
  <1> TAKE a, b, c \in Seq(Event)
  <1> PICK x : x = (a \o b) \o c
    OBVIOUS
  <1> SUFFICES Parts(x, a, b, c)
    OBVIOUS
  <1> DEFINE y == a \o b
  <1>1. /\ y \in Seq(Event) /\ Len(y) = Len(a) + Len(b) /\ Len(a) \in Nat /\ Len(b) \in Nat
        /\ \A i \in 1 .. Len(a) + Len(b) : y[i] = IF i <= Len(a) THEN a[i] ELSE b[i - Len(a)]
        /\ \A e : In(y, e) <=> In(a, e) \/ In(b, e)
    BY ConcatProperties, ConcatExact
  <1> HIDE DEF y
  <1>2. x = y \o c
    BY DEF y
  <1>3. /\ x \in Seq(Event) /\ Len(x) = Len(y) + Len(c) /\ Len(c) \in Nat
        /\ \A i \in 1 .. Len(y) + Len(c) : x[i] = IF i <= Len(y) THEN y[i] ELSE c[i - Len(y)]
        /\ \A e : In(x, e) <=> In(y, e) \/ In(c, e)
    <2>1. x = y \o c /\ y \in Seq(Event) /\ c \in Seq(Event)
      BY <1>1, <1>2
    <2>2. \A e : In(x, e) <=> In(y, e) \/ In(c, e)
      BY <2>1, ConcatExact
    <2>3. /\ x \in Seq(Event) /\ Len(x) = Len(y) + Len(c) /\ Len(c) \in Nat
          /\ \A i \in 1 .. Len(y) + Len(c) : x[i] = IF i <= Len(y) THEN y[i] ELSE c[i - Len(y)]
      BY <2>1, ConcatProperties
    <2> QED
      BY <2>2, <2>3
  <1>4. ASSUME NEW n \in 1 .. Len(x)
        PROVE  \/ n \in 1 .. Len(a) /\ x[n] = a[n]
               \/ n - Len(a) \in 1 .. Len(b) /\ x[n] = b[n - Len(a)]
               \/ n - (Len(a) + Len(b)) \in 1 .. Len(c) /\ x[n] = c[n - (Len(a) + Len(b))]
    <2>1. n \in 1 .. Len(y) + Len(c)
      BY <1>3
    <2>2. CASE n <= Len(y)
      <3>1. n \in 1 .. Len(a) + Len(b) /\ x[n] = y[n]
        BY <1>1, <1>3, <2>1, <2>2
      <3>2. CASE n <= Len(a)
        BY <1>1, <3>1, <3>2
      <3>3. CASE ~(n <= Len(a))
        <4>1. n - Len(a) \in 1 .. Len(b)
          BY <1>1, <3>1, <3>3
        <4> QED
          BY <1>1, <3>1, <3>3, <4>1
      <3> QED
        BY <3>2, <3>3
    <2>3. CASE ~(n <= Len(y))
      <3>1. n - Len(y) \in 1 .. Len(c) /\ x[n] = c[n - Len(y)]
        BY <1>1, <1>3, <2>1, <2>3
      <3> QED
        BY <1>1, <3>1
    <2> QED
      BY <2>2, <2>3
  <1> QED
    BY <1>1, <1>3, <1>4 DEF Parts

(* Hooks other than beforeAll hooks, and the body of the test at most last.  *)
Preparation(last, t) ==
    \A n \in 1 .. Len(last) :
        \/ \E h : last[n] = HookRan(h) /\ ~HasHook(h, "beforeAll")
        \/ n = Len(last) /\ last[n] = TestRan(t)

(* A test starts: the paths it does not lie under are left, its beforeAll    *)
(* hooks that had not run do, and its afterAll hooks wait.                  *)
LEMMA Prepares ==
    ASSUME TestInductive, phase = "run", todo # <<>>, NEW t, t = Head(todo),
           NEW last \in Seq(Event), Prepare(t, last),
           stack' = stack, collector' = collector,
           Preparation(last, t)
    PROVE  \E ext \in Seq(Event) :
              /\ log' = log \o ext
              /\ LogExtends(ext) /\ PathsExtend(ext) /\ PathsOpen'
              /\ pathAfterAlls' \in [DOMAIN pathAfterAlls' -> Seq(Nat)]
              /\ \A n \in 1 .. Len(ext) : ext[n].what = "hook" \/ In(last, ext[n])
  <1> DEFINE hs == t.hooks["beforeAll"]
             K == {i \in DOMAIN hs : hs[i] \notin ranBeforeAll}
             u == Unran(t)
             a == Fired(t.path)
             b == Ran(u)
             ext == (a \o b) \o last
  <1>0. /\ TestTypes /\ HooksApart /\ PathsOpen /\ TodoIsRest /\ BeforeAllsRan /\ AfterAllsWait
        /\ Running /\ log \in Seq(Event)
    BY DEF TestInductive, TestTypes, Running
  <1>1. t \in TestRecord /\ t.hooks \in HookLists /\ At(TestRan(t)) = {}
    BY <1>0, NextTest
  <1>2. PICK c \in Range(collector) :
           /\ TestRan(c) = TestRan(t) /\ c.path = t.path /\ c.hooks = t.hooks
           /\ \A d \in Range(collector) : TestRan(d) = TestRan(t) => d = c
    BY <1>0, NextTest
  <1>3. t.path \in Seq(Name)
    BY <1>1 DEF TestRecord
  <1>4. t.hooks["afterAll"] \in Seq(Nat) /\ hs \in Seq(Nat) /\ DOMAIN hs = 1 .. Len(hs)
    BY <1>1 DEF TestRecord, HooksOfKind, HookKind
  <1>5. /\ a \in Seq(Event)
        /\ \A k \in DOMAIN pathAfterAlls :
              \/ k \in DOMAIN Kept(t.path) /\ Kept(t.path)[k] = pathAfterAlls[k]
              \/ \A i \in DOMAIN pathAfterAlls[k] : In(a, HookRan(pathAfterAlls[k][i]))
        /\ Kept(t.path) \in [DOMAIN Kept(t.path) -> Seq(Nat)]
        /\ \A k \in DOMAIN Kept(t.path) :
              k \in DOMAIN pathAfterAlls /\ Kept(t.path)[k] = pathAfterAlls[k] /\ OnTheWay(k, t.path)
    BY <1>0, <1>3, LeavingHas
  <1>6. \A e : In(a, e) => \E h : e = HookRan(h) /\ ~HasHook(h, "beforeAll")
    BY <1>0, <1>3, FiredIsOther
  <1>7. /\ K \in SUBSET (1 .. Len(hs)) /\ u = Picked(hs, K)
        /\ \A i \in 1 .. Len(hs) : i \in K <=> hs[i] \notin ranBeforeAll
    BY <1>4 DEF Unran
  <1>8. \A i, j \in 1 .. Len(hs) : hs[i] = hs[j] => i = j
    BY <1>0, <1>1, <1>4 DEF HooksApart
  <1>9. /\ log' = ((log \o a) \o b) \o last
        /\ pathAfterAlls' = Registered(Kept(t.path), t)
        /\ prevPath' = t.path
        /\ ranBeforeAll' = ranBeforeAll \cup Range(hs)
    BY DEF Prepare
  <1> HIDE DEF K, u
  <1>10. /\ u \in Seq(Nat)
         /\ \A i \in K : \E n \in 1 .. Len(u) : u[n] = hs[i]
         /\ \A n \in 1 .. Len(u) : \E i \in K : u[n] = hs[i]
         /\ \A m, n \in 1 .. Len(u) : u[m] = u[n] => m = n
    <2>0. hs \in Seq(Nat) /\ K \in SUBSET (1 .. Len(hs))
      BY <1>4, <1>7
    <2>1. PICK s \in Seq(Nat) : s = hs
      BY <2>0
    <2>2. PICK J \in SUBSET (1 .. Len(s)) : J = K
      BY <2>0, <2>1
    <2>3. /\ Picked(s, J) \in Seq(Nat)
          /\ \A i \in J : \E n \in 1 .. Len(Picked(s, J)) : Picked(s, J)[n] = s[i]
          /\ \A n \in 1 .. Len(Picked(s, J)) : \E i \in J : Picked(s, J)[n] = s[i]
      BY PickedKeeps
    <2>4. \A i, j \in 1 .. Len(s) : s[i] = s[j] => i = j
      BY <1>8, <2>1
    <2>5. \A m, n \in 1 .. Len(Picked(s, J)) : Picked(s, J)[m] = Picked(s, J)[n] => m = n
      BY <2>4, PickedOnce
    <2>6. Picked(s, J) = u
      BY <1>7, <2>1, <2>2
    <2> QED
      BY <2>1, <2>2, <2>3, <2>5, <2>6
  <1>11. /\ b \in Seq(Event) /\ Len(b) = Len(u)
         /\ \A n \in 1 .. Len(u) : b[n] = HookRan(u[n])
         /\ \A h : In(b, HookRan(h)) <=> In(u, h)
    BY <1>10, EventsOfHooks
  <1>12. \A h : h \in Range(hs) <=> In(hs, h)
    BY <1>4, RangeHas
  <1> HIDE DEF hs
  <1>13. \A n \in 1 .. Len(u) : u[n] \notin ranBeforeAll /\ u[n] \in Range(hs)
    <2> TAKE n \in 1 .. Len(u)
    <2>1. PICK i \in K : u[n] = hs[i]
      BY <1>10
    <2>2. i \in 1 .. Len(hs) /\ hs[i] \notin ranBeforeAll
      BY <1>7
    <2> QED
      BY <1>12, <2>1, <2>2 DEF In
  <1>14. \A h \in Range(hs) : h \in ranBeforeAll \/ In(u, h)
    <2> TAKE h \in Range(hs)
    <2>1. PICK i \in 1 .. Len(hs) : hs[i] = h
      BY <1>12 DEF In
    <2> QED
      BY <1>7, <1>10, <2>1 DEF In
  <1>15. \A h : HookRan(h).what = "hook" /\ HookRan(h).id = h
    BY DEF HookRan
  <1>16. \A d : TestRan(d).what = "test"
    BY DEF TestRan
  <1>17. \A g, h : HookRan(g) = HookRan(h) => g = h
    BY <1>15
  <1>18. \A h, d : HookRan(h) # TestRan(d)
    <2> SUFFICES ASSUME NEW h, NEW d, HookRan(h) = TestRan(d) PROVE FALSE
      OBVIOUS
    <2>1. HookRan(h).what = "test"
      BY <1>16
    <2> QED
      BY <1>15, <2>1
  <1> HIDE DEF a, b, ext
  <1>19. ext = (a \o b) \o last
    BY DEF ext
  <1>20. /\ ext \in Seq(Event) /\ Len(a) \in Nat /\ Len(b) \in Nat /\ Len(last) \in Nat
         /\ Len(ext) = Len(a) + Len(b) + Len(last)
         /\ \A n \in 1 .. Len(ext) :
               \/ n \in 1 .. Len(a) /\ ext[n] = a[n]
               \/ n - Len(a) \in 1 .. Len(b) /\ ext[n] = b[n - Len(a)]
               \/ n - (Len(a) + Len(b)) \in 1 .. Len(last) /\ ext[n] = last[n - (Len(a) + Len(b))]
         /\ \A e : In(a, e) \/ In(b, e) \/ In(last, e) => In(ext, e)
    <2>1. a \in Seq(Event) /\ b \in Seq(Event)
      BY <1>5, <1>11
    <2>2. Parts(ext, a, b, last)
      BY <1>19, <2>1, ThreeParts, Zenon
    <2> QED
      BY <2>2 DEF Parts
  <1>21. log' = log \o ext
    <2>0. log \in Seq(Event) /\ a \in Seq(Event) /\ b \in Seq(Event) /\ a \o b \in Seq(Event)
      BY <1>0, <1>5, <1>11, ConcatExact
    <2>1. (log \o a) \o b = log \o (a \o b)
      BY <2>0, Grouped, Zenon
    <2>2. (log \o (a \o b)) \o last = log \o ((a \o b) \o last)
      BY <2>0, Grouped, Zenon
    <2> QED
      BY <1>9, <1>19, <2>1, <2>2
  (* Where an event that is added may stand.                                *)
  <1>22. ASSUME NEW n \in 1 .. Len(ext)
         PROVE  \/ \E h : ext[n] = HookRan(h) /\ ~HasHook(h, "beforeAll")
                \/ n - Len(a) \in 1 .. Len(u) /\ ext[n] = HookRan(u[n - Len(a)])
                \/ n = Len(ext) /\ ext[n] = TestRan(t)
    <2>1. CASE n \in 1 .. Len(a) /\ ext[n] = a[n]
      BY <1>6, <2>1 DEF In
    <2>2. CASE n - Len(a) \in 1 .. Len(b) /\ ext[n] = b[n - Len(a)]
      BY <1>11, <2>2
    <2>3. CASE n - (Len(a) + Len(b)) \in 1 .. Len(last) /\ ext[n] = last[n - (Len(a) + Len(b))]
      <3> DEFINE m == n - (Len(a) + Len(b))
      <3>1. m \in 1 .. Len(last) /\ (m = Len(last) => n = Len(ext))
        BY <1>20, <2>3
      <3>2. ext[n] = last[m]
        BY <2>3
      <3> HIDE DEF m
      <3> QED
        BY <3>1, <3>2 DEF Preparation
    <2> QED
      BY <1>20, <2>1, <2>2, <2>3
  <1>23. ASSUME NEW n \in 1 .. Len(ext), NEW h, HasHook(h, "beforeAll"), ext[n] = HookRan(h)
         PROVE  n - Len(a) \in 1 .. Len(u) /\ u[n - Len(a)] = h
    <2>1. ~\E g : ext[n] = HookRan(g) /\ ~HasHook(g, "beforeAll")
      BY <1>17, <1>23
    <2>2. ext[n] # TestRan(t)
      BY <1>18, <1>23
    <2>3. n - Len(a) \in 1 .. Len(u) /\ ext[n] = HookRan(u[n - Len(a)])
      BY <1>22, <2>1, <2>2
    <2> QED
      BY <1>17, <1>23, <2>3
  <1>24. ASSUME NEW h, HasHook(h, "beforeAll")
         PROVE  /\ \A m, n \in 1 .. Len(ext) : ext[m] = HookRan(h) /\ ext[n] = HookRan(h) => m = n
                /\ In(ext, HookRan(h)) => h \notin ranBeforeAll /\ h \in ranBeforeAll'
    <2>1. \A m, n \in 1 .. Len(ext) : ext[m] = HookRan(h) /\ ext[n] = HookRan(h) => m - Len(a) = n - Len(a)
      <3> SUFFICES ASSUME NEW m \in 1 .. Len(ext), NEW n \in 1 .. Len(ext), ext[m] = HookRan(h), ext[n] = HookRan(h)
                   PROVE  m - Len(a) = n - Len(a)
        OBVIOUS
      <3>1. m - Len(a) \in 1 .. Len(u) /\ u[m - Len(a)] = h
        BY <1>23, <1>24
      <3>2. n - Len(a) \in 1 .. Len(u) /\ u[n - Len(a)] = h
        BY <1>23, <1>24
      <3> QED
        BY <1>10, <3>1, <3>2
    <2>2. \A m, n \in 1 .. Len(ext) : m - Len(a) = n - Len(a) => m = n
      BY <1>20
    <2>3. In(ext, HookRan(h)) => h \notin ranBeforeAll /\ h \in Range(hs)
      BY <1>13, <1>23, <1>24 DEF In
    <2> QED
      BY <1>9, <2>1, <2>2, <2>3
  <1>25. \A h \in ranBeforeAll' : h \in ranBeforeAll \/ In(ext, HookRan(h))
    BY <1>9, <1>11, <1>14, <1>20
  <1>26. /\ pathAfterAlls' \in [DOMAIN pathAfterAlls' -> Seq(Nat)]
         /\ \A k \in DOMAIN Kept(t.path) : k \in DOMAIN pathAfterAlls' /\ \A h : In(Kept(t.path)[k], h) => In(pathAfterAlls'[k], h)
         /\ \A h : In(t.hooks["afterAll"], h) => t.path \in DOMAIN pathAfterAlls' /\ In(pathAfterAlls'[t.path], h)
         /\ \A k \in DOMAIN pathAfterAlls' : k \in DOMAIN Kept(t.path) \/ k = t.path
         /\ \A k \in DOMAIN pathAfterAlls' : \A h : In(pathAfterAlls'[k], h) =>
               (k \in DOMAIN Kept(t.path) /\ In(Kept(t.path)[k], h)) \/ In(t.hooks["afterAll"], h)
    <2> DEFINE A == Kept(t.path)
    <2>1. A \in [DOMAIN A -> Seq(Nat)]
      BY <1>5
    <2> HIDE DEF A
    <2>2. /\ Registered(A, t) \in [DOMAIN Registered(A, t) -> Seq(Nat)]
          /\ \A k \in DOMAIN A : k \in DOMAIN Registered(A, t) /\ \A h : In(A[k], h) => In(Registered(A, t)[k], h)
          /\ \A h : In(t.hooks["afterAll"], h) => t.path \in DOMAIN Registered(A, t) /\ In(Registered(A, t)[t.path], h)
          /\ \A k \in DOMAIN Registered(A, t) : k \in DOMAIN A \/ k = t.path
          /\ \A k \in DOMAIN Registered(A, t) : \A h : In(Registered(A, t)[k], h) =>
               (k \in DOMAIN A /\ In(A[k], h)) \/ In(t.hooks["afterAll"], h)
      BY <1>1, <2>1, RegisteredHas
    <2>3. pathAfterAlls' = Registered(A, t)
      BY <1>9 DEF A
    <2>4. PICK P : P = Registered(A, t)
      OBVIOUS
    <2> QED
      BY <2>2, <2>3 DEF A
  <1>27. \A k \in DOMAIN pathAfterAlls' : DOMAIN pathAfterAlls'[k] = 1 .. Len(pathAfterAlls'[k])
    BY <1>26
  <1>28. \A d \in Range(collector) : \A n \in 1 .. Len(ext) : ext[n] = TestRan(d) =>
          /\ n = Len(ext)
          /\ At(TestRan(d)) = {}
          /\ \A h \in Range(d.hooks["beforeAll"]) : h \in ranBeforeAll'
          /\ \A h \in Range(d.hooks["afterAll"]) :
                d.path \in DOMAIN pathAfterAlls' /\ \E j \in DOMAIN pathAfterAlls'[d.path] : pathAfterAlls'[d.path][j] = h
    <2> SUFFICES ASSUME NEW d \in Range(collector), NEW n \in 1 .. Len(ext), ext[n] = TestRan(d)
                 PROVE  /\ n = Len(ext)
                        /\ At(TestRan(d)) = {}
                        /\ \A h \in Range(d.hooks["beforeAll"]) : h \in ranBeforeAll'
                        /\ \A h \in Range(d.hooks["afterAll"]) :
                              d.path \in DOMAIN pathAfterAlls' /\ \E j \in DOMAIN pathAfterAlls'[d.path] : pathAfterAlls'[d.path][j] = h
      OBVIOUS
    <2>1. n = Len(ext) /\ TestRan(d) = TestRan(t)
      BY <1>18, <1>22
    <2>2. d.path = t.path /\ d.hooks = t.hooks
      BY <1>2, <2>1
    <2>3. \A h \in Range(d.hooks["afterAll"]) : In(t.hooks["afterAll"], h)
      BY <1>4, <2>2, RangeHas
    <2>4. \A h \in Range(d.hooks["beforeAll"]) : h \in ranBeforeAll'
      BY <1>9, <2>2 DEF hs
    <2>5. \A h \in Range(d.hooks["afterAll"]) :
             t.path \in DOMAIN pathAfterAlls' /\ \E j \in DOMAIN pathAfterAlls'[t.path] : pathAfterAlls'[t.path][j] = h
      <3> TAKE h \in Range(d.hooks["afterAll"])
      <3>1. t.path \in DOMAIN pathAfterAlls' /\ In(pathAfterAlls'[t.path], h)
        BY <1>26, <2>3
      <3> QED
        BY <1>27, <3>1 DEF In
    <2> QED
      BY <1>1, <2>1, <2>2, <2>4, <2>5
  <1>29. LogExtends(ext)
    BY <1>9, <1>20, <1>21, <1>24, <1>25, <1>28 DEF LogExtends
  <1>30. PathsExtend(ext)
    <2>1. ASSUME NEW k \in DOMAIN pathAfterAlls, NEW i \in DOMAIN pathAfterAlls[k]
          PROVE  \/ In(ext, HookRan(pathAfterAlls[k][i]))
                 \/ k \in DOMAIN pathAfterAlls' /\ \E j \in DOMAIN pathAfterAlls'[k] : pathAfterAlls'[k][j] = pathAfterAlls[k][i]
      <3>1. CASE \A j \in DOMAIN pathAfterAlls[k] : In(a, HookRan(pathAfterAlls[k][j]))
        BY <1>20, <2>1, <3>1
      <3>2. CASE k \in DOMAIN Kept(t.path) /\ Kept(t.path)[k] = pathAfterAlls[k]
        <4>1. pathAfterAlls[k] \in Seq(Nat)
          BY <1>0, <2>1 DEF TestTypes
        <4>2. In(Kept(t.path)[k], pathAfterAlls[k][i])
          BY <2>1, <3>2, <4>1 DEF In
        <4>3. k \in DOMAIN pathAfterAlls' /\ In(pathAfterAlls'[k], pathAfterAlls[k][i])
          BY <1>26, <3>2, <4>2
        <4> QED
          BY <1>27, <4>3 DEF In
      <3> QED
        BY <1>5, <3>1, <3>2
    <2>2. ASSUME NEW k \in DOMAIN pathAfterAlls', NEW i \in DOMAIN pathAfterAlls'[k]
          PROVE  \E d \in Range(collector) : \E j \in DOMAIN d.hooks["afterAll"] :
                    d.hooks["afterAll"][j] = pathAfterAlls'[k][i]
      <3> DEFINE h == pathAfterAlls'[k][i]
      <3>1. In(pathAfterAlls'[k], h)
        BY <1>27, <2>2 DEF In
      <3> HIDE DEF h
      <3>2. CASE In(t.hooks["afterAll"], h)
        <4>1. PICK j \in DOMAIN t.hooks["afterAll"] : t.hooks["afterAll"][j] = h
          BY <1>4, <3>2 DEF In
        <4> QED
          BY <1>2, <4>1 DEF h
      <3>3. CASE k \in DOMAIN Kept(t.path) /\ In(Kept(t.path)[k], h)
        <4>1. k \in DOMAIN pathAfterAlls /\ Kept(t.path)[k] = pathAfterAlls[k] /\ pathAfterAlls[k] \in Seq(Nat)
          BY <1>0, <1>5, <3>3 DEF TestTypes
        <4>2. PICK j \in DOMAIN pathAfterAlls[k] : pathAfterAlls[k][j] = h
          BY <3>3, <4>1 DEF In
        <4>3. \E d \in Range(collector) : \E l \in DOMAIN d.hooks["afterAll"] :
                 d.hooks["afterAll"][l] = pathAfterAlls[k][j]
          <5>1. \A p \in DOMAIN pathAfterAlls : \A i1 \in DOMAIN pathAfterAlls[p] :
                   \E d \in Range(collector) : \E l \in DOMAIN d.hooks["afterAll"] :
                      d.hooks["afterAll"][l] = pathAfterAlls[p][i1]
            BY <1>0, Zenon DEF AfterAllsWait
          <5> QED
            BY <4>1, <5>1, Zenon
        <4> QED
          BY <4>2, <4>3, Zenon DEF h
      <3> QED
        BY <1>26, <3>1, <3>2, <3>3
    <2> QED
      BY <2>1, <2>2 DEF PathsExtend
  <1>31. PathsOpen'
    <2>1. OnTheWay(t.path, t.path)
      <3>1. Len(t.path) \in 0 .. Len(t.path) /\ SubSeq(t.path, 1, Len(t.path)) = t.path
        BY <1>3, SubSeqFull
      <3> QED
        BY <3>1 DEF OnTheWay
    <2>2. \A k \in DOMAIN pathAfterAlls' : OnTheWay(k, t.path)
      BY <1>5, <1>26, <2>1
    <2> QED
      BY <1>9, <2>2 DEF PathsOpen, OnTheWay
  <1>32. \A n \in 1 .. Len(ext) : ext[n].what = "hook" \/ In(last, ext[n])
    <2> TAKE n \in 1 .. Len(ext)
    <2>1. CASE n = Len(ext) /\ ext[n] = TestRan(t)
      <3>1. n \in 1 .. Len(a) /\ ext[n] = a[n] => \E h : ext[n] = HookRan(h)
        BY <1>6 DEF In
      <3>2. n - Len(a) \in 1 .. Len(b) /\ ext[n] = b[n - Len(a)] => \E h : ext[n] = HookRan(h)
        BY <1>11
      <3>3. n - (Len(a) + Len(b)) \in 1 .. Len(last) /\ ext[n] = last[n - (Len(a) + Len(b))]
        BY <1>18, <1>20, <2>1, <3>1, <3>2
      <3> QED
        BY <3>3 DEF In
    <2> QED
      BY <1>15, <1>22, <2>1
  <1> QED
    BY <1>20, <1>21, <1>26, <1>29, <1>30, <1>31, <1>32

LEMMA BodyStartsKeeps == TestInductive /\ BodyStarts => TestInductive'
  <1> SUFFICES ASSUME TestInductive, BodyStarts PROVE TestInductive'
    OBVIOUS
  <1> DEFINE t == Head(todo)  be == t.hooks["beforeEach"]  last == Append(Ran(be), TestRan(t))
  <1>0. /\ TestTypes /\ HooksApart /\ PathsOpen /\ TodoIsRest /\ BeforeAllsRan /\ AfterAllsWait
        /\ phase = "run" /\ Running /\ todo # <<>>
    BY DEF TestInductive, BodyStarts, Running
  <1>1. /\ phase' = "in test" /\ stack' = stack /\ hooks' = hooks /\ collector' = collector
        /\ inner' = <<>> /\ todo' = todo /\ Prepare(t, last)
    BY DEF BodyStarts
  <1>2. t \in TestRecord /\ t.hooks \in HookLists
    BY <1>0, NextTest
  <1>3. t.id = Done + 1 /\ t.path \in Seq(Name) /\ t.id \in Nat
    <2>1. todo \in Seq(TestRecord)
      BY <1>0 DEF TestTypes
    <2>2. 1 \in DOMAIN todo /\ t = todo[1]
      BY <1>0, <2>1, EmptySeq
    <2>3. todo[1].id = Done + 1
      BY <1>0, <2>2 DEF TodoIsRest
    <2> QED
      BY <1>2, <2>2, <2>3 DEF TestRecord
  <1>4. "beforeEach" \in HookKind \ {"beforeAll"}
    BY DEF HookKind
  <1>5. be \in Seq(Nat)
    BY <1>2, <1>4 DEF TestRecord, HooksOfKind
  <1>6. \A h : In(be, h) => ~HasHook(h, "beforeAll")
    BY <1>0, <1>2, <1>4, KindHas
  <1>7. TestRan(t) \in Event /\ TestRan(t).id = Done + 1
    BY <1>3 DEF TestRan, Event
  <1>8. t = Head(todo)
    OBVIOUS
  <1> HIDE DEF t, be
  <1>9. Ran(be) \in Seq(Event) /\ \A e : In(Ran(be), e) => \E h : In(be, h) /\ e = HookRan(h)
    BY <1>5, EventsOfHooks
  <1>10. last \in Seq(Event) /\ Len(last) = Len(Ran(be)) + 1 /\ Len(Ran(be)) \in Nat
    BY <1>7, <1>9
  <1>11. /\ \A n \in 1 .. Len(Ran(be)) : last[n] = Ran(be)[n]
         /\ last[Len(last)] = TestRan(t)
    BY <1>7, <1>9
  <1> HIDE DEF last
  <1>12. Preparation(last, t)
    <2> SUFFICES ASSUME NEW n \in 1 .. Len(last), n # Len(last)
                 PROVE  \E h : last[n] = HookRan(h) /\ ~HasHook(h, "beforeAll")
      BY <1>11 DEF Preparation
    <2>1. n \in 1 .. Len(Ran(be))
      BY <1>10
    <2>2. In(Ran(be), last[n])
      BY <1>11, <2>1 DEF In
    <2> QED
      BY <1>6, <1>9, <2>2
  <1>13. PICK ext \in Seq(Event) :
            /\ log' = log \o ext
            /\ LogExtends(ext) /\ PathsExtend(ext) /\ PathsOpen'
            /\ pathAfterAlls' \in [DOMAIN pathAfterAlls' -> Seq(Nat)]
            /\ \A n \in 1 .. Len(ext) : ext[n].what = "hook" \/ In(last, ext[n])
    BY <1>0, <1>1, <1>8, <1>10, <1>12, Prepares
  <1>14. BeforeAllsRan' /\ AfterAllsWait'
    <2>1. Running'
      BY <1>1 DEF Running
    <2> QED
      BY <1>0, <1>1, <1>13, <2>1, LogKeeps
  <1>15. TodoIsRest'
    <2>1. \A n \in 1 .. Len(ext) : ext[n].what = "test" => ext[n].id = Done + 1
      <3> SUFFICES ASSUME NEW n \in 1 .. Len(ext), ext[n].what = "test" PROVE ext[n].id = Done + 1
        OBVIOUS
      <3>1. In(last, ext[n])
        BY <1>13
      <3>2. PICK m \in 1 .. Len(last) : last[m] = ext[n]
        BY <3>1 DEF In
      <3>3. ~\E h : last[m] = HookRan(h)
        <4>1. \A h : HookRan(h).what = "hook"
          BY DEF HookRan
        <4>2. last[m].what = "test"
          BY <3>2
        <4> QED
          BY <4>1, <4>2
      <3>4. last[m] = TestRan(t)
        BY <1>12, <3>3 DEF Preparation
      <3> QED
        BY <1>7, <3>2, <3>4
    <2>2. log \in Seq(Event)
      BY <1>0 DEF TestTypes
    <2>3. Done' = Done /\ Done \in Int
      <3>1. Len(collector) \in Nat /\ Len(todo) \in Nat
        BY <1>0 DEF TestTypes
      <3>2. collector' = collector /\ todo' = todo
        BY <1>1
      <3> QED
        BY <3>1, <3>2 DEF Done
    <2>4. \A i \in DOMAIN log' : log'[i].what = "test" => log'[i].id <= Done + 1
      <3> SUFFICES ASSUME NEW i \in DOMAIN log', log'[i].what = "test" PROVE log'[i].id <= Done + 1
        OBVIOUS
      <3>1. PICK e : e = log'[i]
        OBVIOUS
      <3>2. i \in At(e)'
        BY <3>1 DEF At
      <3>3. i \in At(e) \/ \E n \in 1 .. Len(ext) : i = Len(log) + n /\ ext[n] = e
        BY <1>13, <2>2, <3>2, LogGrows
      <3>4. CASE i \in At(e)
        <4>1. log[i] = e /\ i \in DOMAIN log /\ e.what = "test"
          BY <3>1, <3>4 DEF At
        <4>2. e.id <= Done
          BY <1>0, <4>1 DEF TodoIsRest
        <4>3. e \in Event
          BY <2>2, <4>1
        <4>4. e.id \in Nat
          BY <4>3 DEF Event
        <4> QED
          BY <2>3, <3>1, <4>2, <4>4
      <3>5. CASE \E n \in 1 .. Len(ext) : i = Len(log) + n /\ ext[n] = e
        <4>1. e.id = Done + 1
          BY <2>1, <3>1, <3>5
        <4> QED
          BY <2>3, <3>1, <4>1
      <3> QED
        BY <3>3, <3>4, <3>5
    <2>5. inner' # undefined
      <3>1. inner' = <<>> /\ <<>> \in Seq(Nat)
        <4>1. <<>> \in Seq(Nat)
          OBVIOUS
        <4> QED
          BY <1>1, <4>1
      <3> QED
        BY <3>1, NoHookList
    <2>6. /\ \A i \in DOMAIN collector : collector[i].id = i
          /\ Done >= 0
          /\ \A i \in DOMAIN todo :
                /\ todo[i].id = Done + i
                /\ todo[i].path = collector[Done + i].path
                /\ todo[i].hooks = collector[Done + i].hooks
      BY <1>0 DEF TodoIsRest
    <2> QED
      BY <1>0, <1>1, <2>3, <2>4, <2>5, <2>6 DEF TodoIsRest
  <1>16. HooksApart'
    <2>1. HookLists' \subseteq HookLists
      BY <1>1 DEF HookLists
    <2> QED
      BY <1>0, <1>1, <2>1, ApartKept
  <1>17. TestTypes'
    <2>1. log \in Seq(Event)
      BY <1>0 DEF TestTypes
    <2>2. log' \in Seq(Event)
      BY <1>13, <2>1, LogGrows
    <2>3. prevPath' = t.path
      BY <1>1 DEF Prepare
    <2>4. inner' \in Seq(Nat)
      <3>1. inner' = <<>>
        BY <1>1
      <3> QED
        BY <3>1
    <2> QED
      BY <1>0, <1>1, <1>3, <1>13, <2>2, <2>3, <2>4 DEF TestTypes
  <1> QED
    BY <1>13, <1>14, <1>15, <1>16, <1>17 DEF TestInductive

LEMMA BeforeEachThrowsKeeps == TestInductive /\ BeforeEachThrows => TestInductive'
  <1> SUFFICES ASSUME TestInductive, BeforeEachThrows PROVE TestInductive'
    OBVIOUS
  <1> DEFINE t == Head(todo)  be == t.hooks["beforeEach"]
  <1>0. /\ TestTypes /\ HooksApart /\ PathsOpen /\ TodoIsRest /\ BeforeAllsRan /\ AfterAllsWait
        /\ phase = "run" /\ Running /\ todo # <<>>
    BY DEF TestInductive, BeforeEachThrows, Running
  <1>1. /\ phase' = phase /\ stack' = stack /\ hooks' = hooks /\ collector' = collector
        /\ inner' = inner /\ todo' = Tail(todo)
        /\ \E n \in DOMAIN be : Prepare(t, Ran(SubSeq(be, 1, n)))
    BY DEF BeforeEachThrows
  <1>2. t \in TestRecord /\ t.hooks \in HookLists /\ Tail(todo) \in Seq(TestRecord)
    BY <1>0, NextTest
  <1>3. t.path \in Seq(Name)
    BY <1>2 DEF TestRecord
  <1>4. "beforeEach" \in HookKind \ {"beforeAll"}
    BY DEF HookKind
  <1>5. be \in Seq(Nat) /\ DOMAIN be = 1 .. Len(be)
    BY <1>2, <1>4 DEF TestRecord, HooksOfKind
  <1>6. \A h : In(be, h) => ~HasHook(h, "beforeAll")
    BY <1>0, <1>2, <1>4, KindHas
  <1>7. t = Head(todo)
    OBVIOUS
  <1> HIDE DEF t, be
  <1>8. PICK n \in DOMAIN be : Prepare(t, Ran(SubSeq(be, 1, n)))
    BY <1>1
  <1> DEFINE s == SubSeq(be, 1, n)  last == Ran(s)
  <1>9. /\ s \in Seq(Nat)
        /\ \A h : In(s, h) => ~HasHook(h, "beforeAll")
    <2>1. n \in 1 .. Len(be) /\ Len(be) \in Nat
      BY <1>5, <1>8
    <2>2. s = [i \in 1 .. n |-> be[i]] /\ \A i \in 1 .. n : i \in 1 .. Len(be) /\ be[i] \in Nat
      BY <1>5, <2>1
    <2>3. s \in Seq(Nat) /\ Len(s) = n /\ \A i \in 1 .. n : s[i] = be[i]
      BY <2>1, <2>2
    <2> QED
      BY <1>6, <2>2, <2>3 DEF In
  <1> HIDE DEF s
  <1>10. last \in Seq(Event) /\ \A e : In(last, e) => \E h : In(s, h) /\ e = HookRan(h)
    BY <1>9, EventsOfHooks
  <1>11. Prepare(t, last)
    BY <1>8 DEF s
  <1> HIDE DEF last
  <1>12. Preparation(last, t)
    BY <1>9, <1>10 DEF Preparation, In
  <1>13. PICK ext \in Seq(Event) :
            /\ log' = log \o ext
            /\ LogExtends(ext) /\ PathsExtend(ext) /\ PathsOpen'
            /\ pathAfterAlls' \in [DOMAIN pathAfterAlls' -> Seq(Nat)]
            /\ \A m \in 1 .. Len(ext) : ext[m].what = "hook" \/ In(last, ext[m])
    BY <1>0, <1>1, <1>7, <1>10, <1>11, <1>12, Prepares
  <1>14. \A m \in 1 .. Len(ext) : ext[m].what = "hook"
    <2>1. \A h : HookRan(h).what = "hook"
      BY DEF HookRan
    <2> QED
      BY <1>10, <1>13, <2>1
  <1>15. BeforeAllsRan' /\ AfterAllsWait'
    <2>1. Running'
      BY <1>0, <1>1 DEF Running
    <2> QED
      BY <1>0, <1>1, <1>13, <2>1, LogKeeps
  <1>16. TodoIsRest'
    BY <1>0, <1>1, <1>13, <1>14, TodoShrinks
  <1>17. HooksApart'
    <2>1. HookLists' \subseteq HookLists
      BY <1>1 DEF HookLists
    <2> QED
      BY <1>0, <1>1, <2>1, ApartKept
  <1>18. TestTypes'
    <2>1. log \in Seq(Event)
      BY <1>0 DEF TestTypes
    <2>2. log' \in Seq(Event)
      BY <1>13, <2>1, LogGrows
    <2>3. prevPath' = t.path
      BY <1>11 DEF Prepare
    <2> QED
      BY <1>0, <1>1, <1>2, <1>3, <1>13, <2>2, <2>3 DEF TestTypes
  <1> QED
    BY <1>13, <1>15, <1>16, <1>17, <1>18 DEF TestInductive

LEMMA TestStutters == TestInductive /\ UNCHANGED testVars => TestInductive'
  <1> SUFFICES ASSUME TestInductive, UNCHANGED testVars PROVE TestInductive'
    OBVIOUS
  <1>1. /\ phase' = phase /\ stack' = stack /\ hooks' = hooks /\ collector' = collector /\ inner' = inner
        /\ todo' = todo /\ prevPath' = prevPath /\ pathAfterAlls' = pathAfterAlls
        /\ ranBeforeAll' = ranBeforeAll /\ log' = log
    BY DEF testVars
  <1>2. TestTypes'
    BY <1>1 DEF TestInductive, TestTypes
  <1>3. HooksApart'
    BY <1>1 DEF TestInductive, HooksApart, HookLists, HasHook
  <1>4. PathsOpen'
    BY <1>1 DEF TestInductive, PathsOpen, OnTheWay
  <1>5. TodoIsRest'
    BY <1>1 DEF TestInductive, TodoIsRest, Running, Done
  <1>6. /\ \A e : At(e)' = At(e)
        /\ \A h : HookRan(h)' = HookRan(h)
        /\ \A h, k : HasHook(h, k)' <=> HasHook(h, k)
        /\ \A t : TestRan(t)' = TestRan(t)
        /\ Range(collector)' = Range(collector)
        /\ Running' <=> Running
    BY <1>1 DEF At, HookRan, HookLists, HasHook, TestRan, Range, Running
  <1>7. BeforeAllsRan'
    BY <1>1, <1>6 DEF TestInductive, BeforeAllsRan
  <1>8. AfterAllsWait'
    BY <1>1, <1>6 DEF TestInductive, AfterAllsWait
  <1> QED
    BY <1>2, <1>3, <1>4, <1>5, <1>7, <1>8 DEF TestInductive

(* TestInductive, which says which hooks ran, which wait and for which path,  *)
(* holds for any names, any nesting and any number of blocks, tests, hooks   *)
(* and files.                                                               *)
THEOREM TestRunnerInvariant == TestSpec => []TestInductive
  <1>1. TestInit => TestInductive
    BY TestStarts
  <1>2. TestInductive /\ [TestNext]_testVars => TestInductive'
    BY DescribeEntersKeeps, DescribeLeavesKeeps, HookDeclaredKeeps, TestDeclaredKeeps,
       LoadEndsKeeps, LoadFailsKeeps, SkipTestKeeps, BodyStartsKeeps, BeforeEachThrowsKeeps,
       BodyDeclaresKeeps, BodyEndsKeeps, RunEndsKeeps, FileEndsKeeps, TestStutters
    DEF TestNext
  <1> QED
    BY <1>1, <1>2, PTL DEF TestSpec

(* The hooks a test inherits run around it (HooksBracketTests).             *)
THEOREM HooksBracket == TestSpec => []HooksBracketTests
  <1>1. TestInductive => HooksBracketTests
    <2> SUFFICES ASSUME TestInductive, NEW t \in Range(collector), NEW i \in At(TestRan(t))
                 PROVE  /\ \A h \in Range(t.hooks["beforeAll"]) :
                              \E j \in 1 .. (i - 1) : At(HookRan(h)) = {j}
                        /\ FileIsOver /\ t.path # <<>> =>
                              \A h \in Range(t.hooks["afterAll"]) : \E j \in At(HookRan(h)) : j > i
      BY DEF HooksBracketTests
    <2>0. /\ TestTypes /\ BeforeAllsRan /\ AfterAllsWait /\ PathsOpen
          /\ log \in Seq(Event) /\ collector \in Seq(TestRecord)
      BY DEF TestInductive, TestTypes
    <2>1. \A e : \A j \in At(e) : j \in Nat /\ j >= 1
      BY <2>0 DEF At
    <2>2. t \in TestRecord /\ t.hooks \in HookLists
      BY <2>0 DEF Range, HookLists
    <2>3. "beforeAll" \in HookKind /\ t.hooks["beforeAll"] \in Seq(Nat)
      BY <2>2 DEF TestRecord, HooksOfKind, HookKind
    <2>4. ASSUME NEW h \in Range(t.hooks["beforeAll"])
          PROVE  \E j \in 1 .. (i - 1) : At(HookRan(h)) = {j}
      <3>1. PICK j \in At(HookRan(h)) : j < i
        BY <2>0 DEF BeforeAllsRan
      <3>2. HasHook(h, "beforeAll")
        BY <2>2 DEF HasHook, Range
      <3>3. \A a, b \in At(HookRan(h)) : a = b
        BY <2>0, <3>2 DEF BeforeAllsRan
      <3>4. At(HookRan(h)) = {j}
        BY <3>1, <3>3
      <3>5. j \in 1 .. (i - 1)
        BY <2>1, <3>1
      <3> QED
        BY <3>4, <3>5
    <2>5. ASSUME FileIsOver, t.path # <<>>, NEW h \in Range(t.hooks["afterAll"])
          PROVE  \E j \in At(HookRan(h)) : j > i
      <3>1. Running /\ prevPath = <<>>
        BY <2>5 DEF FileIsOver, Running
      <3>2. t.path \notin DOMAIN pathAfterAlls
        <4> SUFFICES ASSUME t.path \in DOMAIN pathAfterAlls PROVE FALSE
          OBVIOUS
        <4>1. PICK n \in 0 .. Len(<<>>) : t.path = SubSeq(<<>>, 1, n)
          BY <2>0, <3>1 DEF PathsOpen, OnTheWay
        <4>2. n = 0
          BY <4>1
        <4>3. SubSeq(<<>>, 1, 0) = <<>>
          OBVIOUS
        <4> QED
          BY <2>5, <4>1, <4>2, <4>3
      <3> QED
        BY <2>0, <3>1, <3>2 DEF AfterAllsWait
    <2> QED
      BY <2>4, <2>5
  <1> QED
    BY <1>1, TestRunnerInvariant, PTL
=============================================================================
