----------------------------- MODULE MCStreams ------------------------------
(* The web streams or the node streams, one of their shapes at a time.      *)
EXTENDS NodeStreams

IdleNode ==
    /\ syncSink = FALSE
    /\ readable = NewNodeReadable
    /\ writable = NewNodeWritable
    /\ iterator = NewIterator

Init == (WebInit /\ IdleNode) \/ NodeInit

Next ==
    \/ shape \in Shape /\ WebNext /\ UNCHANGED nodeVars
    \/ shape \in NodeShape /\ NodeNext

vars == <<webVars, nodeVars>>

Spec == Init /\ [][Next]_vars /\ WF_vars(SinkSettles /\ UNCHANGED nodeVars)
             /\ WF_vars(PumpRuns /\ UNCHANGED nodeVars)
=============================================================================
