---------------------------- MODULE ModuleLoader ----------------------------
(***************************************************************************)
(* Loading modules: from a specifier in the text of one module to the      *)
(* exports object of another.                                              *)
(*                                                                         *)
(*   load_module, __bun_require, require   crates/bun-runtime/src/modules.rs *)
(*   prepare, rewrite_to_iife              crates/bun-loader/src           *)
(*   Resolver::resolve                     crates/bun-loader/src/resolver.rs *)
(*   mock.module              crates/bun-runtime/src/bun_api/test_module.rs *)
(*                                                                         *)
(* A load is one evaluation of a module body.  The body of a module with   *)
(* static imports, or whose text contains "await ", runs in an async       *)
(* wrapper and leaves the JavaScript stack at each await; any other body   *)
(* runs in a plain function.  An importer is answered with the object in   *)
(* the cache, or with a promise for the exports of the load it started.    *)
(* require() waits for that promise in a nested await_promise, above which *)
(* other bodies may resume.                                                *)
(***************************************************************************)
EXTENDS Naturals, Sequences, FiniteSets, SequencesExt, Subsequences

CONSTANTS
    Module,         \* the files of a program
    Entry,          \* its main module
    Programs,       \* the programs: the text of each file
    MaxLoads        \* bound: evaluations of module bodies

ASSUME EntryAssumption == Entry \in Module
ASSUME LoadsAssumption == MaxLoads \in Nat \ {0}

VARIABLES
    text,           \* the files, which do not change
    mocks,          \* __bun_mocked_modules: the specifiers that are mocked
    cache,          \* CACHE: the exports object of each path, or NoObject
    loads,          \* the evaluations so far, in the order they started
    stack,          \* those on the JavaScript stack, the running one last
    watches,        \* import() expressions whose promise is still pending
    receipts        \* history: the objects importers were given

vars == <<text, mocks, cache, loads, stack, watches, receipts>>

(* A specifier names a file, a file through "..", a builtin, or nothing.    *)
SpecKind == {"file", "up", "builtin", "missing"}
Spec_ == [kind : SpecKind, of : Module]
FileSpec == [kind : {"file", "up"}, of : Module]

(* A statement of a module.  The text has a kind by its extension, may be   *)
(* malformed, and may contain "await " where the top level does not await:  *)
(* in a function, in a comment, or in the data that prepare embeds.         *)
Requests == {"import", "require", "spawn"}
Ops == Requests \cup {"pause", "assign", "throw", "mock"}
Statement == [op : Ops, spec : Spec_]
Extension == {"js", "json", "json5", "toml", "yaml", "text", "asset"}
Text == [ext : Extension, malformed : BOOLEAN, mentionsAwait : BOOLEAN, source : Seq(Statement)]

ASSUME ProgramAssumption == \A p \in Programs : DOMAIN p = Module /\ \A m \in Module : p[m] \in Text

(* The same file reached through ".." has a second path when the fast path  *)
(* for JSON answers.                                                        *)
Key == [file : Module, dotted : BOOLEAN]

(* An exports object: the one a load starts with or the one assigned later. *)
Object == [load : 1 .. MaxLoads, assigned : BOOLEAN]
NoObject == [load |-> 0, assigned |-> FALSE]

Stage == {"run", "call", "await", "pause", "block", "done", "failed"}
Load == [key : Key, todo : Seq(Statement), sync : BOOLEAN, at : Stage,
         wait : 0 .. MaxLoads, object : Object, by : 0 .. MaxLoads]
Receipt == [by : 1 .. MaxLoads, object : Object, ended : BOOLEAN]

-----------------------------------------------------------------------------
(* What the loader makes of a file. *)

Assign(m) == [op |-> "assign", spec |-> [kind |-> "file", of |-> m]]
Throw(m) == [op |-> "throw", spec |-> [kind |-> "file", of |-> m]]
static_imports(source) == {i \in DOMAIN source : source[i].op = "import"}
other_statements(source) == DOMAIN source \ static_imports(source)

(* The rewriter hoists every import above the rest of the body.             *)
rewrite_static(source) ==
    Picked(source, static_imports(source)) \o Picked(source, other_statements(source))

(* The body prepare returns: data files become module.exports = value; JSON *)
(* is parsed when that body runs.                                           *)
Prepared(m) ==
    LET t == text[m] IN
    CASE t.ext = "js" -> rewrite_static(t.source)
      [] t.ext = "json" /\ t.malformed -> <<Throw(m)>>
      [] OTHER -> <<Assign(m)>>

(* The other formats are parsed, and scripts transpiled, by prepare itself. *)
PrepareFails(m) ==
    text[m].malformed /\ text[m].ext \in {"js", "json5", "toml", "yaml"}

(* Mutant: only static imports make a wrapper async. *)
is_syncNoAwait(m) ==
    \A i \in DOMAIN text[m].source : text[m].source[i].op # "import"

(* The guess from the prepared text, which holds the data of a data file.   *)
is_sync(m) ==
    /\ ~text[m].mentionsAwait
    /\ text[m].ext = "js" =>
          \A i \in DOMAIN text[m].source : text[m].source[i].op \notin {"import", "pause"}

(* The path a specifier resolves to.                                        *)
resolve(spec) ==
    [file |-> spec.of,
     dotted |-> spec.kind = "up" /\ text[spec.of].ext \in {"json", "json5"}]

(* The paths that end with a specifier, which mock.module drops.            *)
Invalidated(spec) ==
    {k \in Key : k.file = spec.of /\ (k.dotted \/ spec.kind = "file")}

-----------------------------------------------------------------------------
Top == Last(stack)
Pop == Front(stack)
Running == stack # <<>> /\ loads[Top].at = "run"
Current == Head(loads[Top].todo)
Ended(i) == loads[i].at \in {"done", "failed"}
Holder(obj) == loads[obj.load]

(* A promise is settled: that of a load, or (0) one born resolved.          *)
Settled(i) == i # 0 => Ended(i)
Rejected(i) == i # 0 /\ loads[i].at = "failed"

(* JavaScript may run: nothing is on the stack, or a require() is waiting   *)
(* in its loop.                                                             *)
LoopTurns == stack # <<>> => loads[Top].at = "block"

Given(i, obj) == [by |-> i, object |-> obj, ended |-> Holder(obj).at = "done"]

NewLoad(k, i) ==
    [key |-> k, todo |-> Prepared(k.file), sync |-> is_sync(k.file), at |-> "run",
     wait |-> 0, object |-> [load |-> Len(loads) + 1, assigned |-> FALSE], by |-> i]

(* A body goes on behind the statement it was at, or assigns module.exports. *)
GoesOn(r) == [r EXCEPT !.todo = Tail(r.todo), !.at = "run"]
Assigns(r) == [GoesOn(r) EXCEPT !.object = [load |-> r.object.load, assigned |-> TRUE]]

Init ==
    /\ text \in Programs
    /\ PrepareFails(Entry) = FALSE
    /\ mocks = {}
    /\ loads = <<[key |-> [file |-> Entry, dotted |-> FALSE], todo |-> Prepared(Entry),
                  sync |-> is_sync(Entry), at |-> "run", wait |-> 0,
                  object |-> [load |-> 1, assigned |-> FALSE], by |-> 0]>>
    /\ cache = [k \in Key |-> IF k = [file |-> Entry, dotted |-> FALSE]
                              THEN [load |-> 1, assigned |-> FALSE] ELSE NoObject]
    /\ stack = <<1>>
    /\ watches = {}
    /\ receipts = {}

(* The running body ends with an exception.  A load that an async wrapper   *)
(* runs rejects its promise, the other throws at its caller; the cache keeps *)
(* the entry either way.                                                    *)
Throws ==
    /\ loads' = [loads EXCEPT ![Top].at = "failed"]
    /\ stack' = Pop
    /\ watches' = {w \in watches : w.of # Top}

(* The error of a request: import and import() throw in the body, a         *)
(* require() may sit in a try block.                                        *)
RequestFails(made) ==
    \/ /\ loads' = [made EXCEPT ![Top].at = "failed"]
       /\ stack' = Pop
       /\ watches' = {w \in watches : w.of # Top}
       /\ UNCHANGED receipts
    \/ /\ Current.op = "require"
       /\ loads' = [made EXCEPT ![Top] = GoesOn(@)]
       /\ UNCHANGED <<stack, watches, receipts>>

(* A request is answered with a plain value: require() and import() go on,  *)
(* an import awaits it for one microtask.                                   *)
Answer(objs) ==
    /\ receipts' = receipts \cup {Given(Top, o) : o \in objs}
    /\ IF Current.op = "import"
       THEN /\ loads' = [loads EXCEPT ![Top] = [@ EXCEPT !.at = "await", !.wait = 0]]
            /\ stack' = Pop
       ELSE /\ loads' = [loads EXCEPT ![Top] = GoesOn(@)]
            /\ UNCHANGED stack
    /\ UNCHANGED watches

Requesting == Running /\ loads[Top].todo # <<>> /\ Current.op \in Requests

(* mock.module comes before everything else: the lookup returns a promise   *)
(* of what the factory returns.                                             *)
RequestMock ==
    /\ Requesting
    /\ Current.spec \in mocks
    /\ IF Current.op = "require"
       THEN /\ loads' = [loads EXCEPT ![Top] = [@ EXCEPT !.at = "block", !.wait = 0]]
            /\ UNCHANGED <<stack, watches, receipts>>
       ELSE Answer({})
    /\ UNCHANGED <<text, mocks, cache>>

(* A builtin is answered with its exports, a name nobody knows with an error. *)
RequestBuiltin ==
    /\ Requesting
    /\ Current.spec \notin mocks
    /\ \/ Current.spec.kind = "builtin" /\ Answer({})
       \/ Current.spec.kind = "missing" /\ RequestFails(loads)
    /\ UNCHANGED <<text, mocks, cache>>

(* Mutant: an importer waits for the load in progress. *)
RequestCachedWaits ==
    /\ Requesting
    /\ Current.spec \notin mocks
    /\ Current.spec \in FileSpec
    /\ LET o == cache[resolve(Current.spec)] IN
       /\ o # NoObject
       /\ IF ~Holder(o).sync /\ ~Ended(o.load) /\ Current.op = "import"
          THEN /\ loads' = [loads EXCEPT ![Top] = [@ EXCEPT !.at = "await", !.wait = o.load]]
               /\ stack' = Pop
               /\ UNCHANGED <<watches, receipts>>
          ELSE Answer({o})
    /\ UNCHANGED <<text, mocks, cache>>

(* The specifier names a file that is loaded, or being loaded, or failed to. *)
RequestCached ==
    /\ Requesting
    /\ Current.spec \notin mocks
    /\ Current.spec \in FileSpec
    /\ cache[resolve(Current.spec)] # NoObject
    /\ Answer({cache[resolve(Current.spec)]})
    /\ UNCHANGED <<text, mocks, cache>>

(* Mutant: the object is not stashed before the body runs. *)
StashedLate(k, n) == cache

(* The exports object goes into the cache before the body runs.             *)
Stashed(k, n) == [cache EXCEPT ![k] = [load |-> n, assigned |-> FALSE]]

(* A file that is not in the cache: its exports object goes in first, then  *)
(* it is prepared, then its body runs above the importer's.                 *)
RequestLoad ==
    /\ Requesting
    /\ Current.spec \notin mocks
    /\ Current.spec \in FileSpec
    /\ Len(loads) < MaxLoads
    /\ LET k == resolve(Current.spec)
           n == Len(loads) + 1 IN
       /\ cache[k] = NoObject
       /\ cache' = Stashed(k, n)
       /\ IF PrepareFails(k.file)
          THEN RequestFails(Append(loads, [NewLoad(k, Top) EXCEPT !.at = "failed"]))
          ELSE /\ loads' = Append([loads EXCEPT ![Top] = [@ EXCEPT !.at = "call", !.wait = n]],
                                  NewLoad(k, Top))
               /\ stack' = Append(stack, n)
               /\ UNCHANGED <<watches, receipts>>
    /\ UNCHANGED <<text, mocks>>

(* The wrapper of the load returned: a plain one with the exports or an     *)
(* exception, an async one with the promise of the chained exports.         *)
Returned ==
    /\ stack # <<>>
    /\ loads[Top].at = "call"
    /\ LET c == loads[Top].wait IN
       IF loads[c].sync
       THEN IF loads[c].at = "failed" THEN RequestFails(loads) ELSE Answer({loads[c].object})
       ELSE \/ /\ Current.op = "import"
               /\ loads' = [loads EXCEPT ![Top].at = "await"]
               /\ stack' = Pop
               /\ UNCHANGED <<watches, receipts>>
            \/ /\ Current.op = "require"
               /\ loads' = [loads EXCEPT ![Top].at = "block"]
               /\ UNCHANGED <<stack, watches, receipts>>
            \/ /\ Current.op = "spawn"
               /\ loads' = [loads EXCEPT ![Top] = GoesOn(@)]
               /\ watches' = IF Ended(c) THEN watches ELSE watches \cup {[by |-> Top, of |-> c]}
               /\ receipts' = IF loads[c].at = "done"
                              THEN receipts \cup {Given(Top, loads[c].object)} ELSE receipts
               /\ UNCHANGED stack
    /\ UNCHANGED <<text, mocks, cache>>

(* The other statements of a body: it awaits a timer, assigns               *)
(* module.exports, throws, or mocks a module, which forgets cached paths.   *)
RunStatement ==
    /\ Running
    /\ loads[Top].todo # <<>>
    /\ \/ /\ Current.op = "pause"
          /\ loads' = [loads EXCEPT ![Top].at = "pause"]
          /\ stack' = Pop
          /\ UNCHANGED <<mocks, cache, watches>>
       \/ /\ Current.op = "assign"
          /\ loads' = [loads EXCEPT ![Top] = Assigns(@)]
          /\ UNCHANGED <<mocks, cache, stack, watches>>
       \/ Current.op = "throw" /\ Throws /\ UNCHANGED <<mocks, cache>>
       \/ /\ Current.op = "mock"
          /\ mocks' = mocks \cup {Current.spec}
          /\ cache' = [k \in Key |-> IF k \in Invalidated(Current.spec)
                                     THEN NoObject ELSE cache[k]]
          /\ loads' = [loads EXCEPT ![Top] = GoesOn(@)]
          /\ UNCHANGED <<stack, watches>>
    /\ UNCHANGED <<text, receipts>>

(* Mutant: the cache slot is never replaced. *)
SlotAfterKept(i) == cache

(* The cache slot a finished load leaves: a plain body that assigned        *)
(* module.exports replaces it, an async one does not.                       *)
SlotAfter(i) ==
    IF loads[i].sync /\ loads[i].object.assigned
    THEN [cache EXCEPT ![loads[i].key] = loads[i].object] ELSE cache

Finish ==
    /\ Running
    /\ loads[Top].todo = <<>>
    /\ cache' = SlotAfter(Top)
    /\ loads' = [loads EXCEPT ![Top].at = "done"]
    /\ stack' = Pop
    /\ watches' = {w \in watches : w.of # Top}
    /\ receipts' = receipts \cup {[by |-> w.by, object |-> loads[Top].object, ended |-> TRUE] :
                                  w \in {v \in watches : v.of = Top}}
    /\ UNCHANGED <<text, mocks>>

(* A body that awaits continues: its timer fired, or the module it imports  *)
(* settled.  A rejection ends it.                                           *)
Resume(i) ==
    /\ LoopTurns
    /\ \/ loads[i].at = "pause"
       \/ loads[i].at = "await" /\ Settled(loads[i].wait)
    /\ LET c == loads[i].wait IN
       IF loads[i].at = "await" /\ Rejected(c)
       THEN /\ loads' = [loads EXCEPT ![i].at = "failed"]
            /\ watches' = {w \in watches : w.of # i}
            /\ UNCHANGED <<stack, receipts>>
       ELSE /\ loads' = [loads EXCEPT ![i] = GoesOn(@)]
            /\ stack' = Append(stack, i)
            /\ receipts' = IF loads[i].at = "await" /\ c # 0
                           THEN receipts \cup {Given(i, loads[c].object)} ELSE receipts
            /\ UNCHANGED watches
    /\ UNCHANGED <<text, mocks, cache>>

(* await_promise under require(): the promise settled, or nothing can make  *)
(* progress any more.  Microtasks may not run under a callback, so the loop *)
(* can give up although the promise needs nothing else.                     *)
Unblock ==
    /\ stack # <<>>
    /\ loads[Top].at = "block"
    /\ LET c == loads[Top].wait IN
       \/ /\ Settled(c) /\ ~Rejected(c)
          /\ Answer(IF c = 0 THEN {} ELSE {loads[c].object})
       \/ Settled(c) /\ Rejected(c) /\ RequestFails(loads)
       \/ (\A i \in DOMAIN loads : loads[i].at # "pause") /\ RequestFails(loads)
    /\ UNCHANGED <<text, mocks, cache>>

(* Every load has ended: the program goes on with other things. *)
AllEnded == \A i \in DOMAIN loads : Ended(i)
Idle == AllEnded /\ UNCHANGED vars

Next ==
    \/ RequestMock \/ RequestBuiltin \/ RequestCached \/ RequestLoad
    \/ Returned \/ RunStatement \/ Finish \/ Unblock
    \/ \E i \in DOMAIN loads : Resume(i)
    \/ Idle

(* JavaScript runs to the next await, timers fire, promises settle. *)
Spec == Init /\ [][Next]_vars /\ WF_vars(Next)

-----------------------------------------------------------------------------
(* A module body is evaluated once however many modules import it, also in  *)
(* cycles, concurrently and after a failure: only mock.module makes the     *)
(* loader forget a path.                                                    *)
OneInstance ==
    \A i, j \in DOMAIN loads :
        i # j /\ loads[i].key = loads[j].key
            => \E s \in mocks : loads[i].key \in Invalidated(s)

(* An importer that is answered after a module has finished gets what the   *)
(* module exports in the end.  This leaves out the async wrapper of a       *)
(* module that assigns module.exports, which every data file does whose     *)
(* data contain "await ", see CommonJsPickedUp.                             *)
LateImportersGetFinal ==
    \A r \in receipts :
        r.ended /\ ~(~Holder(r.object).sync /\ Holder(r.object).object.assigned)
            => r.object = Holder(r.object).object

(* The loads that the load i was started for, directly or not.              *)
StartedFor(i) ==
    {x \in DOMAIN loads :
        \A S \in SUBSET DOMAIN loads :
            (\A k \in S \cup {i} : loads[k].by \in S \cup {0}) => x \in S}

(* As long as no module is async, an importer sees an unfinished module     *)
(* only when that module is, directly or not, the reason it is loaded: a    *)
(* true cycle.  A module that failed is the exception: it stays in the      *)
(* cache.                                                                   *)
SyncPartialsAreCycles ==
    (\A i \in DOMAIN loads : loads[i].sync) =>
        \A r \in receipts :
            \/ r.ended
            \/ loads[r.object.load].at = "failed"
            \/ r.object.load \in StartedFor(r.by) \cup {r.by}

(* Imports never wait for each other in a circle: every load that is        *)
(* started ends, whatever the graph.                                        *)
ImportsSettle == <>[]AllEnded

(* A CommonJS file: no static import and no await of its own top level.     *)
(* prepare makes one of every data file ("wrap as a CJS module").           *)
IsCommonJs(m) ==
    text[m].ext = "js" =>
        \A i \in DOMAIN text[m].source : text[m].source[i].op \notin {"import", "pause"}

(* What the module indirection is for: "CJS code that does module.exports = *)
(* fn can be picked up".  Every importer that is answered after a CommonJS  *)
(* file has finished gets what the file assigned.                           *)
CommonJsPickedUp ==
    \A r \in receipts :
        r.ended /\ IsCommonJs(Holder(r.object).key.file)
            => r.object = Holder(r.object).object

=============================================================================
