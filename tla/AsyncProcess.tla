---------------------------- MODULE AsyncProcess ----------------------------
(***************************************************************************)
(* What a script may count on of the asynchronous operations it starts:    *)
(* each is settled at most once, and the process does not end normally     *)
(* before those of the main thread are.  No loop, queue, gauge or thread.  *)
(***************************************************************************)
EXTENDS Naturals

CONSTANTS
    Op,                 \* asynchronous operations
    MainOp              \* those the main thread starts

VARIABLES
    op,                 \* [Op -> {"idle", "pending", "settled"}]
    process             \* "running", "exited" or "failed"

processVars == <<op, process>>

ProcessInit ==
    /\ op = [o \in Op |-> "idle"]
    /\ process = "running"

Move(o, from, to) ==
    /\ process = "running"
    /\ op[o] = from
    /\ op' = [op EXCEPT ![o] = to]
    /\ UNCHANGED process

Start(o) == Move(o, "idle", "pending")
Settle(o) == Move(o, "pending", "settled")

ExitProcess ==
    /\ process = "running"
    /\ \A o \in MainOp : op[o] # "pending"
    /\ process' = "exited"
    /\ UNCHANGED op

(* The entry script was rejected, or waits for what nothing will settle.    *)
FailProcess ==
    /\ process = "running"
    /\ process' = "failed"
    /\ UNCHANGED op

ProcessNext ==
    \/ \E o \in Op : Start(o) \/ Settle(o)
    \/ ExitProcess
    \/ FailProcess

ProcessSpec == ProcessInit /\ [][ProcessNext]_processVars
=============================================================================
