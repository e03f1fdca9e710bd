----------------------------- MODULE ChunkPipe ------------------------------
(***************************************************************************)
(* What a stream promises: the chunks one side sends reach the other side  *)
(* in order, each once, and the stream is reported complete only when none *)
(* is missing.  A cancel may discard chunks nobody has taken; a failure    *)
(* may come at any time.  WebStreams and NodeStreams implement it.         *)
(***************************************************************************)
EXTENDS Naturals, Sequences

CONSTANT Chunk      \* the chunks that can be sent

VARIABLES
    sent,           \* the chunks accepted and not discarded
    received,       \* the chunks that came out
    outcome         \* what the receiving side has been told

vars == <<sent, received, outcome>>

Outcomes == {"open", "complete", "failed"}

Init ==
    /\ sent = <<>>
    /\ received = <<>>
    /\ outcome = "open"

Send(c) ==
    /\ outcome # "complete"
    /\ sent' = Append(sent, c)
    /\ UNCHANGED <<received, outcome>>

Deliver(n) ==
    /\ outcome # "complete"
    /\ n \in Len(received) .. Len(sent)
    /\ received' = SubSeq(sent, 1, n)
    /\ UNCHANGED <<sent, outcome>>

(* A chunk for which somebody is already waiting. *)
Pass(c) ==
    /\ outcome # "complete"
    /\ received = sent
    /\ sent' = Append(sent, c)
    /\ received' = Append(received, c)
    /\ UNCHANGED outcome

(* The end: whatever was still on its way has come out. *)
Complete ==
    /\ outcome = "open"
    /\ received' = sent
    /\ outcome' = "complete"
    /\ UNCHANGED sent

Fail ==
    /\ outcome = "open"
    /\ outcome' = "failed"
    /\ UNCHANGED <<sent, received>>

(* A cancel or a failure discards what comes after the first n chunks.  A   *)
(* receiver that waits for the next one may be told in the same step.       *)
Discard(n) ==
    /\ outcome # "complete"
    /\ n \in Len(received) .. Len(sent)
    /\ sent' = SubSeq(sent, 1, n)
    /\ \/ outcome' = outcome
       \/ outcome = "open" /\ outcome' = "failed"
       \/ outcome = "open" /\ n = Len(received) /\ outcome' = "complete"
    /\ UNCHANGED received

Next ==
    \/ \E c \in Chunk : Send(c) \/ Pass(c)
    \/ \E n \in 0 .. Len(sent) : Deliver(n) \/ Discard(n)
    \/ Complete \/ Fail

Spec == Init /\ [][Next]_vars
=============================================================================
