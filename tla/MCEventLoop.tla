---------------------------- MODULE MCEventLoop -----------------------------
(* Instances of EventLoop for TLC.                                          *)
EXTENDS EventLoop, TLC

CONSTANTS main, w1, w2, j1, j2, x1, s1

\* One thread
SoleOwner == [o \in {j1, j2, x1} |-> main]

\* The main thread and a worker, an operation of each
SharedOwner == (j1 :> main) @@ (j2 :> w1)

\* Neither operations nor timers
NoOwner == [o \in {} |-> main]
=============================================================================
