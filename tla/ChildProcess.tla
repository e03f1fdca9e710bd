---- MODULE ChildProcess ----
(***************************************************************************)
(* node:child_process (crates/bun-runtime/src/node_builtins/child_process  *)
(* .rs) and Bun.spawn/spawnSync on top of it.  Every form blocks the       *)
(* script's thread until the child is through: the parent and the child    *)
(* meet only in the pipes, each of which holds Capacity units.             *)
(*                                                                         *)
(* Three ways to wait are in the code.  "output" reads both pipes while    *)
(* the child runs.  "poll" (spawnSync with a timeout) looks every 10 ms    *)
(* whether the child has exited and reads only afterwards.  With an input  *)
(* the whole input is written first.                                       *)
(***************************************************************************)
EXTENDS Naturals, FiniteSets

CONSTANTS Capacity,     \* of a pipe
          MaxOutput,    \* units a child writes to each pipe
          MaxInput      \* units of `input`

Form == {"execSync", "exec", "execFile", "spawn", "fork", "spawnSync"}
\* Only spawnSync reads `timeout` and `input`.
ChildCall == {c \in [form : Form, timeout : BOOLEAN, input : 0..MaxInput] :
            c.form # "spawnSync" => ~c.timeout /\ c.input = 0}
Pipe == {"out", "err"}

VARIABLES
    call,       \* the call being made
    parent,     \* "script", "input", "poll", "read", "returned"
    unwritten,  \* units of the input not yet written
    child,      \* "none", "running", "exited"
    wants,      \* what the child does next; it blocks until it can
    status,     \* how the child ended
    stdin,      \* units in the input pipe
    closed,     \* the parent's end of the input pipe is closed
    pipe,       \* units in each output pipe
    written,    \* units the child has written to each
    taken,      \* units the parent has read from each
    daemon,     \* a grandchild holds the output pipes open
    due,        \* the deadline has passed
    timed_out,  \* the parent has killed the child
    exitEvent       \* "exit" events: "pending", "emitted"; "none" without

childVars == <<call, parent, unwritten, child, wants, status, stdin, closed, pipe,
               written, taken, daemon, due, timed_out, exitEvent>>

Zero == [p \in Pipe |-> 0]
Alive == child = "running"
\* Every process that could still write to the output pipes is gone.
EndOfFile == ~Alive /\ ~daemon
Polls == call.form = "spawnSync" /\ call.timeout

----------------------------------------------------------------------------

\* Waiting for the exit of the child before reading anything.
WaitsFirst == "poll"

\* After the input, spawnSync polls when it has a deadline; every other call
\* reads at once.
Waits == IF Polls THEN "poll" ELSE "read"

\* The script makes a call and the child starts.  A command that cannot be
\* started (StartFails) returns an error value instead.
StartChild(c) ==
    /\ parent = "script"
    /\ call' = c
    /\ unwritten' = c.input
    /\ child' = "running" /\ wants' = "choose"
    /\ parent' = "input"
    /\ UNCHANGED <<status, stdin, closed, pipe, written, taken, daemon, due,
                   timed_out, exitEvent>>

StartFails(c) ==
    /\ parent = "script"
    /\ call' = c
    /\ parent' = "returned"
    /\ exitEvent' = IF c.form = "spawn" THEN "pending" ELSE "none"
    /\ UNCHANGED <<unwritten, child, wants, status, stdin, closed, pipe, written,
                   taken, daemon, due, timed_out>>

\* write_all, blocking while the pipe is full; an error (the child is gone)
\* ends the writing and is ignored.  Then the input pipe is closed.
WriteInput ==
    /\ parent = "input" /\ unwritten > 0 /\ Alive /\ stdin < Capacity
    /\ stdin' = stdin + 1 /\ unwritten' = unwritten - 1
    /\ UNCHANGED <<call, parent, child, wants, status, closed, pipe, written, taken,
                   daemon, due, timed_out, exitEvent>>

InputDone ==
    /\ parent = "input" /\ (unwritten = 0 \/ ~Alive)
    /\ closed' = TRUE
    /\ parent' = Waits
    /\ UNCHANGED <<call, unwritten, child, wants, status, stdin, pipe, written, taken,
                   daemon, due, timed_out, exitEvent>>

\* try_wait sees the exit.  Otherwise, past the deadline, the parent kills the
\* child, which may have exited just now all the same.
PollSeesExit ==
    /\ parent = "poll" /\ ~Alive
    /\ parent' = "read"
    /\ UNCHANGED <<call, unwritten, child, wants, status, stdin, closed, pipe, written,
                   taken, daemon, due, timed_out, exitEvent>>

PollKills ==
    /\ parent = "poll" /\ due
    /\ timed_out' = TRUE
    /\ parent' = "read"
    /\ IF Alive THEN child' = "exited" /\ status' = "killed"
                ELSE UNCHANGED <<child, status>>
    /\ UNCHANGED <<call, unwritten, wants, stdin, closed, pipe, written, taken, daemon,
                   due, exitEvent>>

\* wait_with_output / output: read both pipes to their ends, then reap.
ReadPipe ==
    /\ parent = "read"
    /\ \E p \in Pipe :
          /\ pipe[p] > 0
          /\ pipe' = [pipe EXCEPT ![p] = @ - 1]
          /\ taken' = [taken EXCEPT ![p] = @ + 1]
    /\ UNCHANGED <<call, parent, unwritten, child, wants, status, stdin, closed, written,
                   daemon, due, timed_out, exitEvent>>

\* spawn (and Bun.spawn) queue the exit and close events as a microtask;
\* exec and execFile have called their callback by now.
Return ==
    /\ parent = "read" /\ pipe = Zero /\ EndOfFile
    /\ parent' = "returned"
    /\ exitEvent' = IF call.form = "spawn" THEN "pending" ELSE "none"
    /\ UNCHANGED <<call, unwritten, child, wants, status, stdin, closed, pipe, written,
                   taken, daemon, due, timed_out>>

EmitExit ==
    /\ parent = "returned" /\ exitEvent = "pending"
    /\ exitEvent' = "emitted"
    /\ UNCHANGED <<call, parent, unwritten, child, wants, status, stdin, closed, pipe,
                   written, taken, daemon, due, timed_out>>

----------------------------------------------------------------------------
\* The child, any program: it decides what to do next and then is blocked
\* until the pipe lets it.

Decides ==
    /\ Alive /\ wants = "choose"
    /\ wants' \in {"read", "exit"} \cup {p \in Pipe : written[p] < MaxOutput}
    /\ UNCHANGED <<call, parent, unwritten, child, status, stdin, closed, pipe, written,
                   taken, daemon, due, timed_out, exitEvent>>

\* Without an input the child's stdin is not the parent's business: at its end.
ReadsInput ==
    /\ Alive /\ wants = "read" /\ (stdin > 0 \/ closed \/ call.input = 0)
    /\ stdin' = IF stdin > 0 THEN stdin - 1 ELSE 0
    /\ wants' \in IF stdin > 0 THEN {"choose"} ELSE {"exit"} \cup Pipe
    /\ UNCHANGED <<call, parent, unwritten, child, status, closed, pipe, written, taken,
                   daemon, due, timed_out, exitEvent>>

Writes ==
    /\ Alive /\ wants \in Pipe /\ pipe[wants] < Capacity
    /\ pipe' = [pipe EXCEPT ![wants] = @ + 1]
    /\ written' = [written EXCEPT ![wants] = @ + 1]
    /\ wants' = IF written[wants] + 1 < MaxOutput THEN "choose" ELSE "exit"
    /\ UNCHANGED <<call, parent, unwritten, child, status, stdin, closed, taken, daemon,
                   due, timed_out, exitEvent>>

Exits ==
    /\ Alive /\ wants = "exit"
    /\ child' = "exited"
    /\ status' \in {"zero", "nonzero"}
    /\ daemon' \in BOOLEAN
    /\ UNCHANGED <<call, parent, unwritten, wants, stdin, closed, pipe, written, taken,
                   due, timed_out, exitEvent>>

DeadlinePasses ==
    /\ Polls /\ parent \in {"input", "poll"} /\ ~due
    /\ due' = TRUE
    /\ UNCHANGED <<call, parent, unwritten, child, wants, status, stdin, closed, pipe,
                   written, taken, daemon, timed_out, exitEvent>>

ChildInit ==
    /\ call = [form |-> "exec", timeout |-> FALSE, input |-> 0]
    /\ parent = "script" /\ unwritten = 0 /\ child = "none" /\ wants = "choose"
    /\ status = "zero" /\ stdin = 0 /\ closed = FALSE /\ pipe = Zero /\ written = Zero
    /\ taken = Zero /\ daemon = FALSE /\ due = FALSE /\ timed_out = FALSE
    /\ exitEvent = "none"

ParentSteps ==
    WriteInput \/ InputDone \/ PollSeesExit \/ PollKills \/ ReadPipe \/ Return \/ EmitExit
ChildSteps == Decides \/ ReadsInput \/ Writes \/ Exits

ChildNext ==
    \/ \E c \in ChildCall : StartChild(c) \/ StartFails(c)
    \/ ParentSteps \/ ChildSteps \/ DeadlinePasses

----------------------------------------------------------------------------

\* A blocking call comes back, with everything the child wrote: the parent and
\* the child never wait for each other for ever.  Not when the input exceeds
\* the pipe, because it is written before anything is read and before the
\* deadline counts; nor when the child leaves a process behind that keeps the
\* pipes open, because the end of the pipes is waited for, timeout or not.
CallsReturn ==
    (parent = "input" /\ call.input <= Capacity)
        ~> (daemon \/ (parent = "returned" /\ taken = written))
====
