------------------------------ MODULE Bindings ------------------------------
(***************************************************************************)
(* The crate bun-jsc: who owns what across the border of Rust and          *)
(* JavaScriptCore.  A global context is counted: the embedder's Context    *)
(* owns one reference, and every JsException one more, with a protection   *)
(* of the value that was thrown, because it may outlive the Context.  The  *)
(* Context a callback gets owns nothing.  A callback's closure is a box    *)
(* in the private data of its function object, dropped by the finalizer.   *)
(*                                                                         *)
(* native is the native stack: a script that Rust runs (eval, call, the    *)
(* getter of a property), a Rust closure that the script calls, and so on. *)
(* An exception belongs to the scope of the Rust code that got it, or has  *)
(* been moved to where no scope ends (scope 0, the embedder's).            *)
(***************************************************************************)
EXTENDS Integers, Sequences, FiniteSets

CONSTANTS
    Function,       \* function objects of callbacks
    Thrown,         \* objects a script can throw
    MaxExceptions,  \* exceptions got so far
    MaxNative       \* native

ASSUME BindingsBounds == MaxExceptions \in Nat /\ MaxNative \in Nat
ASSUME ScriptNoFunction == "script" \notin Function

VARIABLES
    context,        \* whether the embedder still has its Context
    retained,       \* the references to the global context that JSC counts
    box,            \* closures: "none", "held" or "freed"
    object,         \* of callbacks and thrown objects: "none", "used" (the
                    \* script can reach it), "unused" or "collected"
    protected,      \* JSValueProtect minus JSValueUnprotect, by thrown object
    exceptions,     \* the JsExceptions that have not been dropped
    nextException,
    native

bindingsVars == <<context, retained, box, object, protected, exceptions, nextException, native>>

Depth == Len(native)
Script == "script"
ScriptRuns == native # <<>> /\ native[Depth].runs = Script
RustRuns == ~ScriptRuns
OnStack(f) == \E i \in 1 .. Depth : native[i].runs = f

(* Code holds a reference to the exception while it reads its message.      *)
Reading(e) == \E i \in 1 .. Depth : native[i].reads = e.id

Exits == native' = SubSeq(native, 1, Depth - 1)
Enters(runs, reads) ==
    /\ Depth < MaxNative
    /\ native' = Append(native, [runs |-> runs, reads |-> reads])

-----------------------------------------------------------------------------
(* Reference counts.                                                        *)

(* The finalizer of a callback drops the closure.                           *)
finalize(gone) == [f \in Function |-> IF f \in gone /\ box[f] = "held" THEN "freed" ELSE box[f]]

(* What JSC does when n references are left: with the last one the heap     *)
(* goes, and every finalizer runs.                                          *)
Released(n) ==
    /\ retained' = n
    /\ IF n > 0 THEN UNCHANGED <<box, object>>
       ELSE /\ object' = [o \in DOMAIN object |-> IF object[o] = "none" THEN "none" ELSE "collected"]
            /\ box' = finalize(Function)

(* JsException::adopt.                                                      *)
adopt(v) ==
    /\ nextException <= MaxExceptions
    /\ nextException' = nextException + 1
    /\ exceptions' = exceptions \cup {[id |-> nextException, value |-> v, scope |-> Depth - 1]}
    /\ protected' = [protected EXCEPT ![v] = @ + 1]
    /\ retained' = retained + 1

(* The Drop of exceptions, one after the other.                             *)
DropExceptions(dropped) ==
    /\ exceptions' = exceptions \ dropped
    /\ protected' = [v \in Thrown |-> protected[v] - Cardinality({e \in dropped : e.value = v})]
    /\ Released(retained - Cardinality(dropped))

-----------------------------------------------------------------------------
(* Rust code: the embedder, or the closure on top of the stack.             *)

CanCall == RustRuns /\ (native = <<>> => context)

(* Callback::new. *)
NewCallback(f) ==
    /\ CanCall
    /\ object[f] = "none"
    /\ object' = [object EXCEPT ![f] = "used"]
    /\ box' = [box EXCEPT ![f] = "held"]
    /\ UNCHANGED <<context, retained, protected, exceptions, nextException, native>>

(* eval, Object::call, construct, get_property, set_property.               *)
RunScript ==
    /\ CanCall
    /\ Enters(Script, 0)
    /\ UNCHANGED <<context, retained, box, object, protected, exceptions, nextException>>

(* message and stack read properties, which may be getters; also after the  *)
(* Context has gone.                                                        *)
ReadException(e) ==
    /\ RustRuns
    /\ Enters(Script, e.id)
    /\ UNCHANGED <<context, retained, box, object, protected, exceptions, nextException>>

(* An exception is dropped, or moved to where its scope does not end it.    *)
DropException(e) ==
    /\ RustRuns /\ ~Reading(e)
    /\ DropExceptions({e})
    /\ UNCHANGED <<context, nextException, native>>

KeepException(e) ==
    /\ RustRuns /\ e.scope # 0 /\ e.scope = Depth /\ ~Reading(e)
    /\ exceptions' = (exceptions \ {e}) \cup {[e EXCEPT !.scope = 0]}
    /\ UNCHANGED <<context, retained, box, object, protected, nextException, native>>

(* The embedder's Context is dropped; nothing of it is on the stack.        *)
DropContext ==
    /\ native = <<>> /\ context
    /\ context' = FALSE
    /\ Released(retained - 1)
    /\ UNCHANGED <<protected, exceptions, nextException, native>>

-----------------------------------------------------------------------------
(* Script.                                                                  *)

(* A callback is called: trampoline finds the closure and lends it the      *)
(* context.                                                                 *)
CallClosure(f) ==
    /\ ScriptRuns
    /\ object[f] = "used"
    /\ Enters(f, 0)
    /\ UNCHANGED <<context, retained, box, object, protected, exceptions, nextException>>

(* A trampoline that does not forget the context it made releases it.       *)
ClosureEndsReleasing ==
    /\ native # <<>> /\ RustRuns
    /\ Exits
    /\ LET dropped == {e \in exceptions : e.scope = Depth} IN
       /\ exceptions' = exceptions \ dropped
       /\ protected' = [v \in Thrown |-> protected[v] - Cardinality({e \in dropped : e.value = v})]
       /\ Released(retained - Cardinality(dropped) - 1)
    /\ UNCHANGED <<context, nextException>>

(* The closure returned a value or an error, or panicked: its scope ends,   *)
(* and the context it was lent is forgotten, not dropped.                   *)
ClosureEnds ==
    /\ native # <<>> /\ RustRuns
    /\ Exits
    /\ DropExceptions({e \in exceptions : e.scope = Depth})
    /\ UNCHANGED <<context, nextException>>

ScriptReturns ==
    /\ ScriptRuns
    /\ Exits
    /\ UNCHANGED <<context, retained, box, object, protected, exceptions, nextException>>

(* The script throws something it can reach (a callback, too), or an error  *)
(* that was made for it (by a closure that failed, too), and the call       *)
(* returns Err.  What a getter throws while an exception is read is not     *)
(* adopted.                                                                 *)
ScriptThrows(v) ==
    /\ ScriptRuns
    /\ native[Depth].reads = 0
    /\ object[v] = "used" \/ (object[v] = "none" /\ v \notin Function)
    /\ Exits
    /\ adopt(v)
    /\ object' = [object EXCEPT ![v] = IF @ = "none" THEN "unused" ELSE @]
    /\ UNCHANGED <<context, box>>

(* The script lets go of an object, or reaches a protected one again        *)
(* through as_value.                                                        *)
LetGo(o) ==
    /\ ScriptRuns
    /\ object[o] = "used"
    /\ object' = [object EXCEPT ![o] = "unused"]
    /\ UNCHANGED <<context, retained, box, protected, exceptions, nextException, native>>

as_value(e) ==
    /\ RustRuns /\ native # <<>>
    /\ object[e.value] = "unused"
    /\ object' = [object EXCEPT ![e.value] = "used"]
    /\ UNCHANGED <<context, retained, box, protected, exceptions, nextException, native>>

(* The collector takes what nobody can reach, protects or runs.             *)
Collect(o) ==
    /\ retained > 0
    /\ object[o] = "unused"
    /\ o \in Thrown => protected[o] = 0
    /\ o \in Function => ~OnStack(o)
    /\ object' = [object EXCEPT ![o] = "collected"]
    /\ box' = finalize({o})
    /\ UNCHANGED <<context, retained, protected, exceptions, nextException, native>>

BindingsInit ==
    /\ context = TRUE
    /\ retained = 1
    /\ box = [f \in Function |-> "none"]
    /\ object = [o \in Function \cup Thrown |-> "none"]
    /\ protected = [v \in Thrown |-> 0]
    /\ exceptions = {}
    /\ nextException = 1
    /\ native = <<>>

BindingsNext ==
    \/ \E f \in Function : NewCallback(f) \/ CallClosure(f)
    \/ RunScript \/ DropContext \/ ClosureEnds \/ ScriptReturns
    \/ \E e \in exceptions : ReadException(e) \/ DropException(e) \/ KeepException(e) \/ as_value(e)
    \/ \E v \in Thrown : ScriptThrows(v)
    \/ \E o \in Function \cup Thrown : LetGo(o) \/ Collect(o)

BindingsSpec == BindingsInit /\ [][BindingsNext]_bindingsVars

-----------------------------------------------------------------------------
Owners == (IF context THEN 1 ELSE 0) + Cardinality(exceptions)

(* The global context is counted for each owner and nobody else, so it is   *)
(* there as long as one is left or anything runs in it and goes with the    *)
(* last; what an exception holds is protected as often as it is held, and   *)
(* cannot be collected; a closure is there while it runs and its box is     *)
(* freed when its function object is collected, once and not before.        *)
OwnersExact ==
    /\ retained = Owners
    /\ native # <<>> => retained > 0
    /\ \A v \in Thrown : protected[v] = Cardinality({e \in exceptions : e.value = v})
    /\ \A e \in exceptions : object[e.value] \in {"used", "unused"}
    /\ \A i \in 1 .. Depth : native[i].runs # Script => box[native[i].runs] = "held"
    /\ \A f \in Function : (box[f] = "freed") = (object[f] = "collected")
    /\ retained = 0 => \A f \in Function : box[f] # "held"
=============================================================================
