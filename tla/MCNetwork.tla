----------------------------- MODULE MCNetwork ------------------------------
(* fetch and Bun.serve, a WebSocket, readline, or a child process, one of   *)
(* them at a time: they share no state.                                     *)
EXTENDS Http, Sockets, Readline, ChildProcess

VARIABLE part

Init ==
    /\ HttpInit /\ SocketInit /\ ReadlineInit /\ ChildInit
    /\ part \in {"http", "socket", "readline", "child"}

Next ==
    /\ UNCHANGED part
    /\ \/ part = "http" /\ HttpNext /\ UNCHANGED <<socketVars, readlineVars, childVars>>
       \/ part = "socket" /\ SocketNext /\ UNCHANGED <<httpVars, readlineVars, childVars>>
       \/ part = "readline" /\ ReadlineNext /\ UNCHANGED <<httpVars, socketVars, childVars>>
       \/ part = "child" /\ ChildNext /\ UNCHANGED <<httpVars, socketVars, readlineVars>>

vars == <<httpVars, socketVars, readlineVars, childVars, part>>

(* A step of a part, the others at rest.                                    *)
OfHttp(A) == part = "http" /\ A /\ UNCHANGED <<socketVars, readlineVars, childVars, part>>
OfChild(A) == part = "child" /\ A /\ UNCHANGED <<httpVars, socketVars, readlineVars, part>>

(* tokio polls a task that can go on, and the loop takes the next task; the *)
(* operating system runs both processes, and time passes.                   *)
Spec ==
    /\ Init /\ [][Next]_vars
    /\ WF_vars(OfHttp(Handle \/ Deliver))
    /\ \A c \in Call : WF_vars(OfHttp(Written(c)))
    /\ \A f \in Fetch : WF_vars(OfHttp(FetchSteps(f)))
    /\ WF_vars(OfChild(ParentSteps))
    /\ WF_vars(OfChild(ChildSteps))
    /\ WF_vars(OfChild(DeadlinePasses))
=============================================================================
