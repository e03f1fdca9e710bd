---------------------------- MODULE NodeStreams -----------------------------
(***************************************************************************)
(* node:stream, crates/bun-runtime/src/node_builtins/stream.rs, and the    *)
(* file streams of fs.rs that are built on it.                             *)
(*                                                                         *)
(* A Readable into which an implementation pushes chunks (for a file: one  *)
(* task per chunk), with one consumer: pipe() into a Writable, an async    *)
(* iterator, or Readable.toWeb, whose web stream is the source stream of   *)
(* WebStreams.  Events call their listeners at once, so a push, a resume   *)
(* or the callback of a write runs everything it sets off before it        *)
(* returns; the operators below are those nested calls.                    *)
(***************************************************************************)
EXTENDS WebStreams

CONSTANT NodeHighWater  \* highWaterMark of the Writable

ASSUME NodeAssumption == NodeHighWater \in Nat

VARIABLES
    syncSink,       \* _write calls back before it returns (createWriteStream)
    readable,       \* the Readable
    writable,       \* the Writable it is piped into
    iterator        \* its async iterator

nodeVars == <<syncSink, readable, writable, iterator>>

NodeShape == {"nodePipe", "nodeIterate", "toWeb"}

NewNodeReadable ==
    [buf |-> <<>>, ended |-> FALSE, closed |-> FALSE, flowing |-> TRUE,
     destroyed |-> FALSE, accepted |-> <<>>]

(* given: history, the chunks _write was called with; acked: how many it     *)
(* called back for; kept: history, given when the script destroyed it.      *)
NewNodeWritable ==
    [queue |-> <<>>, writing |-> FALSE, ended |-> FALSE, finished |-> FALSE,
     destroyed |-> FALSE, given |-> <<>>, acked |-> 0, kept |-> <<>>]

NewIterator ==
    [chunks |-> <<>>, waiting |-> FALSE, ended |-> FALSE, errored |-> FALSE,
     got |-> <<>>, outcome |-> "open"]

(* Everything a synchronous call can change. *)
World == [r |-> readable, w |-> writable, it |-> iterator, web |-> rs["source"]]

Becomes(s) ==
    /\ readable' = s.r
    /\ writable' = s.w
    /\ iterator' = s.it
    /\ rs' = [rs EXCEPT !["source"] = s.web]
    /\ UNCHANGED <<shape, pullSource, ws, pump, syncSink>>

-----------------------------------------------------------------------------
(* Writable *)

_finish(w) == [w EXCEPT !.finished = TRUE]

(* _write is called with the oldest chunk of the queue. *)
NextItem(w) ==
    [w EXCEPT !.writing = TRUE, !.queue = Tail(@), !.given = Append(@, Head(w.queue))]

(* Writable.write when _write calls back later. *)
writeLater(w, c) ==
    LET v == [w EXCEPT !.queue = Append(@, c)] IN IF w.writing THEN v ELSE NextItem(v)

(* end(): the stream finishes now if nothing is being written.              *)
end(w) ==
    LET v == [w EXCEPT !.ended = TRUE] IN
    IF ~w.writing /\ w.queue = <<>> THEN _finish(v) ELSE v

-----------------------------------------------------------------------------
(* Readable: what an event does to the consumer.                            *)

(* 'data': pipe() writes and pauses when write() says so, a write after the *)
(* end is an error; the iterator hands the chunk over or keeps it; toWeb    *)
(* enqueues it, which throws, unnoticed, on a stream that is not active.    *)
emitData(s, c) ==
    CASE shape = "nodePipe" /\ s.w.ended -> [s EXCEPT !.r.flowing = FALSE]
      [] shape = "nodePipe" /\ ~s.w.ended /\ syncSink ->
            [s EXCEPT !.w.given = Append(@, c), !.w.acked = @ + 1, !.r.flowing = TRUE]
      [] shape = "nodePipe" /\ ~s.w.ended /\ ~syncSink ->
            LET v == writeLater(s.w, c) IN
            [s EXCEPT !.w = v, !.r.flowing = @ /\ Len(v.queue) < NodeHighWater]
      [] shape = "nodeIterate" /\ s.it.waiting ->
            [s EXCEPT !.it.waiting = FALSE, !.it.got = Append(@, c)]
      [] shape = "nodeIterate" /\ ~s.it.waiting -> [s EXCEPT !.it.chunks = Append(@, c)]
      [] shape = "toWeb" /\ Active(s.web) -> [s EXCEPT !.web = enqueue(@, c, FALSE)]
      [] OTHER -> s

emitEnd(s) ==
    CASE shape = "nodePipe" -> [s EXCEPT !.w = end(@)]
      [] shape = "nodeIterate" ->
            [s EXCEPT !.it.ended = TRUE, !.it.waiting = FALSE,
                      !.it.outcome = IF s.it.waiting THEN "complete" ELSE @]
      [] OTHER -> [s EXCEPT !.web = closeReadable(@)]

emitError(s) ==
    CASE shape = "nodeIterate" ->
            [s EXCEPT !.it.errored = TRUE, !.it.waiting = FALSE,
                      !.it.outcome = IF s.it.waiting THEN "failed" ELSE @]
      [] shape = "toWeb" -> [s EXCEPT !.web = errorReadable(@)]
      [] OTHER -> s

(* 'data' for one chunk after the other.                                    *)
emitEach(s, chunks) ==
    LET after[n \in 0 .. Len(chunks)] ==
            IF n = 0 THEN s ELSE emitData(after[n - 1], chunks[n])
    IN  after[Len(chunks)]

_endStream(s) == IF s.r.closed THEN s ELSE emitEnd([s EXCEPT !.r.closed = TRUE])

(* Mutant: the end is emitted before the buffer. *)
_drainEndFirst(s) ==
    LET t == IF s.r.ended THEN _endStream(s) ELSE s
    IN emitEach([t EXCEPT !.r.buf = <<>>], s.r.buf)

(* The loop does not look at pause(): the whole buffer goes out.            *)
_drain(s) ==
    LET t == emitEach([s EXCEPT !.r.buf = <<>>], s.r.buf)
    IN IF t.r.ended THEN _endStream(t) ELSE t

resume(s) ==
    LET t == [s EXCEPT !.r.flowing = TRUE] IN
    IF t.r.buf # <<>> THEN _drain(t) ELSE IF t.r.ended THEN _endStream(t) ELSE t

push(s, c) ==
    LET t == [s EXCEPT !.r.buf = Append(@, c), !.r.accepted = Append(@, c)]
    IN IF t.r.flowing THEN _drain(t) ELSE t

pushNull(s) ==
    LET t == [s EXCEPT !.r.ended = TRUE] IN
    IF t.r.buf = <<>> THEN _endStream(t) ELSE IF t.r.flowing THEN _drain(t) ELSE t

(* The buffer is dropped; the implementation may go on pushing.             *)
destroy(s, err) ==
    LET kept == Len(s.r.accepted) - Len(s.r.buf)
        t == [s EXCEPT !.r.destroyed = TRUE, !.r.buf = <<>>,
                       !.r.accepted = SubSeq(@, 1, kept)]
    IN IF err THEN emitError(t) ELSE t

(* The callback of a write: the next item, or 'drain', which resumes the    *)
(* Readable before the end is looked at.                                    *)
writeDone(s) ==
    LET a == [s EXCEPT !.w.acked = @ + 1] IN
    IF a.w.queue # <<>> THEN [a EXCEPT !.w = NextItem(@)]
    ELSE LET b == resume([a EXCEPT !.w.writing = FALSE])
         IN IF b.w.ended /\ b.w.queue = <<>> THEN [b EXCEPT !.w = _finish(@)] ELSE b

(* A turn of the loop of the async iterator.                                *)
NextOf(it) ==
    IF it.errored THEN [it EXCEPT !.outcome = "failed"]
    ELSE IF it.chunks # <<>>
         THEN [it EXCEPT !.chunks = Tail(it.chunks), !.got = Append(it.got, Head(it.chunks))]
    ELSE IF it.ended THEN [it EXCEPT !.outcome = "complete"]
    ELSE [it EXCEPT !.waiting = TRUE]

-----------------------------------------------------------------------------
NodeInit ==
    /\ shape \in NodeShape
    /\ syncSink \in BOOLEAN
    /\ pullSource = FALSE
    /\ rs = [s \in Stream |-> NewReadable]
    /\ ws = NewWritable
    /\ pump = "read"
    /\ readable = NewNodeReadable
    /\ writable = NewNodeWritable
    /\ iterator = NewIterator

(* The implementation pushes chunks and the end, destroyed or not. *)
Push ==
    /\ ~readable.ended
    /\ \/ /\ Len(readable.accepted) < MaxChunks
          /\ Becomes(push(World, Len(readable.accepted) + 1))
       \/ Becomes(pushNull(World))

(* The script pauses, resumes or destroys the Readable. *)
ScriptFlows ==
    \/ Becomes([World EXCEPT !.r.flowing = FALSE])
    \/ Becomes(resume(World))

ScriptDestroys ==
    /\ ~readable.destroyed
    /\ \E err \in BOOLEAN : Becomes(destroy(World, err))

(* The script destroys the Writable: its queue is dropped, the write in     *)
(* progress goes on, and later chunks are still written.                    *)
DestroyWritable ==
    /\ shape = "nodePipe"
    /\ ~writable.destroyed /\ ~writable.finished
    /\ Becomes([World EXCEPT !.w.destroyed = TRUE, !.w.queue = <<>>, !.w.kept = writable.given])

(* _write calls back.  With an error it emits the error and nothing else: the *)
(* next item is never taken, as if the callback had not come.               *)
WriteCallback ==
    /\ shape = "nodePipe" /\ ~syncSink
    /\ writable.writing
    /\ writable.acked < Len(writable.given)
    /\ Becomes(writeDone(World))

(* for await takes the next chunk, or waits for one. *)
IteratorNext ==
    /\ shape = "nodeIterate"
    /\ iterator.outcome = "open" /\ ~iterator.waiting
    /\ Becomes([World EXCEPT !.it = NextOf(@)])

(* The reader of the web stream, and its cancel, which destroys the         *)
(* Readable.                                                                *)
WebReads ==
    /\ shape = "toWeb"
    /\ \/ /\ Len(rs["source"].reads) < MaxReads
          /\ Becomes([World EXCEPT !.web = read(@, FALSE)])
       \/ /\ rs["source"].state # "errored"
          /\ LET s == [World EXCEPT !.web = cancelReadable(@)] IN
             Becomes(IF readable.destroyed THEN s ELSE destroy(s, TRUE))

NodeNext ==
    \/ Push \/ ScriptFlows \/ ScriptDestroys \/ DestroyWritable
    \/ WriteCallback \/ IteratorNext \/ WebReads

NodeSpec == NodeInit /\ [][NodeNext]_<<webVars, nodeVars>>

-----------------------------------------------------------------------------
(* The pipe, the iterator and the web stream are chunk pipes: in order,     *)
(* once, and 'finish', the end of the iteration or done only after the last *)
(* chunk has been handed over.  A Writable the script destroys has failed.  *)
NodeOutcome ==
    CASE shape = "nodePipe" ->
            IF writable.destroyed THEN "failed"
            ELSE IF writable.finished THEN "complete" ELSE "open"
      [] shape = "nodeIterate" -> iterator.outcome
      [] shape = "toWeb" -> WasTold(Source)
      [] OTHER -> "open"

NodeSent ==
    IF shape = "toWeb" /\ Source.cancelled THEN Chunks(Source) ELSE readable.accepted

NodeReceived ==
    CASE shape = "nodePipe" ->
            IF writable.destroyed THEN writable.kept ELSE writable.given
      [] shape = "nodeIterate" -> iterator.got
      [] shape = "toWeb" -> Chunks(Source)
      [] OTHER -> <<>>

NodePipe == INSTANCE ChunkPipe WITH
    Chunk <- 1 .. MaxChunks, sent <- NodeSent, received <- NodeReceived,
    outcome <- NodeOutcome

NodeImplementsPipe == NodePipe!Spec

(* A test of pipe() waits for 'finish' and then looks at what the sink has  *)
(* got: when 'finish' is emitted, every write has called back.              *)
FinishAfterWrites ==
    writable.finished /\ ~writable.destroyed => writable.acked = Len(writable.given)
=============================================================================
