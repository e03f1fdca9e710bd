----------------------------- MODULE WebStreams -----------------------------
(***************************************************************************)
(* The Web Streams of crates/bun-runtime/src/web/streams.js.               *)
(*                                                                         *)
(* A source stream and what is built on it: a reader, a pipe into a        *)
(* writable stream, a pipe through a transform whose readable side is      *)
(* read, or a tee with two branches; or a writable stream alone.  Every    *)
(* method runs to its end without interruption, so the methods are         *)
(* operators on the record of a stream, and the actions are the calls of   *)
(* the script, of the underlying source and sink, and the turns of the     *)
(* async functions inside pipeTo, tee and the writable pump.               *)
(*                                                                         *)
(* Chunks are numbered in the order the source enqueues them; each has     *)
(* size 1.  Promises are outcomes that are set once.                       *)
(***************************************************************************)
EXTENDS Naturals, Sequences, FiniteSets, SequencesExt, Subsequences

CONSTANTS
    HighWater,      \* highWaterMark of the readable streams
    MaxChunks,      \* bound: chunks the source enqueues
    MaxReads,       \* bound: calls of read() on a stream
    MaxCalls        \* bound: write() and close() calls of the script

ASSUME WebAssumption == {HighWater, MaxChunks, MaxReads, MaxCalls} \subseteq Nat

VARIABLES
    shape,          \* what the source stream is connected to
    pullSource,     \* whether the source has a pull method
    rs,             \* the readable streams
    ws,             \* the writable stream
    pump            \* the async function of pipeTo or tee: its point

webVars == <<shape, pullSource, rs, ws, pump>>

Shape == {"reader", "pipe", "through", "tee", "writer"}
Stream == {"source", "left", "right"}

(* Promises. *)
Pending == [kind |-> "pending", chunk |-> 0]
Done == [kind |-> "done", chunk |-> 0]
Error == [kind |-> "error", chunk |-> 0]
GotChunk(c) == [kind |-> "chunk", chunk |-> c]

-----------------------------------------------------------------------------
(* ReadableStream: the internal record, and the methods of its controller   *)
(* and reader.  field accepted: history, the chunks enqueued; cancelled:    *)
(* history, whether _cancel has run; reads: the promises of read().         *)

NewReadable ==
    [state |-> "readable", queue |-> <<>>, pendingReads |-> <<>>,
     closeRequested |-> FALSE, pulling |-> FALSE,
     reads |-> <<>>, accepted |-> <<>>, cancelled |-> FALSE]

Active(s) == s.state = "readable" /\ ~s.closeRequested

pullIfNeeded(s, hasPull) ==
    IF Active(s) /\ ~s.pulling /\ Len(s.queue) < HighWater /\ hasPull
    THEN [s EXCEPT !.pulling = TRUE] ELSE s

(* Settles every pending read the same way. *)
SettleReads(s, outcome) ==
    [s EXCEPT !.pendingReads = <<>>,
              !.reads = [i \in DOMAIN @ |-> IF @[i] = Pending THEN outcome ELSE @[i]]]

finalizeIfDone(s) ==
    IF s.closeRequested /\ s.queue = <<>>
    THEN SettleReads([s EXCEPT !.state = "closed"], Done) ELSE s

(* Mutant: a chunk is queued although a read waits. *)
enqueueBehind(s, c, hasPull) ==
    pullIfNeeded([s EXCEPT !.accepted = Append(@, c), !.queue = Append(@, c)], hasPull)

(* Only on an active stream: otherwise enqueue throws. *)
enqueue(s, c, hasPull) ==
    LET t == [s EXCEPT !.accepted = Append(@, c)] IN
    IF s.pendingReads # <<>>
    THEN [t EXCEPT !.pendingReads = Tail(@), !.reads[Head(s.pendingReads)] = GotChunk(c)]
    ELSE pullIfNeeded([t EXCEPT !.queue = Append(@, c)], hasPull)

(* Mutant: close() discards the queue. *)
closeReadableNow(s) ==
    IF s.state # "readable" THEN s
    ELSE finalizeIfDone([s EXCEPT !.closeRequested = TRUE, !.queue = <<>>])

closeReadable(s) ==
    IF s.state # "readable" THEN s
    ELSE finalizeIfDone([s EXCEPT !.closeRequested = TRUE])

errorReadable(s) ==
    IF s.state # "readable" THEN s
    ELSE SettleReads([s EXCEPT !.state = "errored"], Error)

cancelReadable(s) ==
    SettleReads([s EXCEPT !.queue = <<>>, !.state = "closed", !.cancelled = TRUE], Done)

read(s, hasPull) ==
    CASE s.queue # <<>> ->
            finalizeIfDone(pullIfNeeded(
                [s EXCEPT !.queue = Tail(@), !.reads = Append(@, GotChunk(Head(s.queue)))],
                hasPull))
      [] s.queue = <<>> /\ s.state = "closed" -> [s EXCEPT !.reads = Append(@, Done)]
      [] s.queue = <<>> /\ s.state = "errored" -> [s EXCEPT !.reads = Append(@, Error)]
      [] OTHER ->
            pullIfNeeded([s EXCEPT !.pendingReads = Append(@, Len(s.reads) + 1),
                                   !.reads = Append(@, Pending)], hasPull)

-----------------------------------------------------------------------------
(* WritableStream.  The queue holds chunks and close sentinels; at is the   *)
(* point of the pump, which is in flight unless idle; now is the promise    *)
(* the pump settles next; direct are the close() calls that found nothing   *)
(* queued and wait for underlying.close themselves; own is the close() of   *)
(* pipeTo.  sink: history, the chunks underlying.write was given.           *)

NewWritable ==
    [state |-> "writable", queue |-> <<>>, at |-> "idle", now |-> 0, direct |-> {},
     writes |-> <<>>, closes |-> <<>>, own |-> 0, sink |-> <<>>]

ChunkItem(c, i) == [kind |-> "chunk", chunk |-> c, of |-> i]
CloseItem(i) == [kind |-> "close", chunk |-> 0, of |-> i]
SetOnce(p, i, outcome) == IF p[i] = "pending" THEN [p EXCEPT ![i] = outcome] ELSE p
RejectItems(p, items, kind) ==
    [i \in DOMAIN p |-> IF p[i] = "pending" /\ \E k \in DOMAIN items :
                                                  items[k].kind = kind /\ items[k].of = i
                        THEN "rejected" ELSE p[i]]

(* Mutant: the queued writes are dropped without an answer. *)
errorWritableSilent(w) ==
    IF w.state # "writable" THEN w ELSE [w EXCEPT !.state = "errored", !.queue = <<>>]

errorWritable(w) ==
    IF w.state # "writable" THEN w
    ELSE [w EXCEPT !.state = "errored", !.queue = <<>>,
                   !.writes = RejectItems(@, w.queue, "chunk"),
                   !.closes = RejectItems(@, w.queue, "close")]

IsClose(item) == item.kind = "close"

(* The pump, up to its next await: a sentinel calls underlying.close, a     *)
(* chunk underlying.write; chunks behind a finished close are rejected.     *)
RunPump(w) ==
    LET first == SelectInSeq(w.queue, IsClose)
        refused == IF w.state = "writable" THEN <<>>
                   ELSE IF first = 0 THEN w.queue ELSE SubSeq(w.queue, 1, first - 1)
        rest == SubSeq(w.queue, Len(refused) + 1, Len(w.queue))
        v == [w EXCEPT !.queue = rest, !.writes = RejectItems(@, refused, "chunk")]
    IN IF rest = <<>> THEN [v EXCEPT !.at = "idle", !.now = 0]
       ELSE IF Head(rest).kind = "close"
            THEN [v EXCEPT !.queue = Tail(rest), !.at = "close", !.now = Head(rest).of]
            ELSE [v EXCEPT !.at = "write", !.now = Head(rest).of,
                           !.sink = Append(@, Head(rest).chunk)]

Pumped(w) == IF w.at = "idle" THEN RunPump(w) ELSE w

write(w, c) ==
    LET i == Len(w.writes) + 1 IN
    IF w.state # "writable" THEN [w EXCEPT !.writes = Append(@, "rejected")]
    ELSE Pumped([w EXCEPT !.writes = Append(@, "pending"),
                          !.queue = Append(@, ChunkItem(c, i))])

closeWritable(w) ==
    LET i == Len(w.closes) + 1
        v == [w EXCEPT !.closes = Append(@, "pending")] IN
    IF w.state # "writable" THEN [w EXCEPT !.closes = Append(@, "rejected")]
    ELSE IF w.queue = <<>> /\ w.at = "idle" THEN [v EXCEPT !.direct = @ \cup {i}]
    ELSE Pumped([v EXCEPT !.queue = Append(@, CloseItem(i))])

(* underlying.write has settled: the item leaves the queue, which $error    *)
(* may have emptied meanwhile.                                              *)
WriteSettled(w, ok) ==
    LET v == IF ok THEN w ELSE errorWritable(w) IN
    RunPump([v EXCEPT !.writes = SetOnce(@, w.now, IF ok THEN "resolved" ELSE "rejected"),
                      !.queue = IF @ = <<>> THEN @ ELSE Tail(@)])

(* finalize: underlying.close has settled for the i-th close(). *)
CloseSettled(w, i, ok) ==
    IF ok THEN [w EXCEPT !.state = "closed", !.closes = SetOnce(@, i, "resolved")]
    ELSE [errorWritable(w) EXCEPT !.closes = SetOnce(@, i, "rejected")]

-----------------------------------------------------------------------------
WebInit ==
    /\ shape \in Shape
    /\ pullSource \in BOOLEAN
    /\ rs = [s \in Stream |-> NewReadable]
    /\ ws = NewWritable
    /\ pump = "read"

Piping == shape \in {"pipe", "through"}
HasPull(s) == s = "source" /\ pullSource
Source == rs["source"]
Update(s, r) == rs' = [rs EXCEPT ![s] = r]

(* The streams a script reads itself. *)
Read == CASE shape = "reader" -> {"source"} [] shape = "through" -> {"left"}
          [] shape = "tee" -> {"left", "right"} [] OTHER -> {}

(* The underlying source: start has returned, a pull settles, and in        *)
(* between, or at any time without a pull method, it uses its controller.   *)
SourceStarted ==
    /\ pullSource
    /\ pullIfNeeded(Source, TRUE) # Source
    /\ Update("source", pullIfNeeded(Source, TRUE))
    /\ UNCHANGED <<shape, pullSource, ws, pump>>

SourceEnqueues ==
    /\ shape # "writer"
    /\ Active(Source)
    /\ pullSource => Source.pulling
    /\ Len(Source.accepted) < MaxChunks
    /\ Update("source", enqueue(Source, Len(Source.accepted) + 1, pullSource))
    /\ UNCHANGED <<shape, pullSource, ws, pump>>

SourceEnds ==
    /\ shape # "writer"
    /\ \/ Update("source", closeReadable(Source))
       \/ Update("source", errorReadable(Source))
    /\ UNCHANGED <<shape, pullSource, ws, pump>>

PullSettles ==
    /\ Source.pulling
    /\ LET s == [Source EXCEPT !.pulling = FALSE] IN
       Update("source", pullIfNeeded(s, TRUE)) \/ Update("source", errorReadable(s))
    /\ UNCHANGED <<shape, pullSource, ws, pump>>

(* The script reads, or cancels a stream: an errored one refuses. *)
ScriptReads(s) ==
    /\ s \in Read
    /\ Len(rs[s].reads) < MaxReads
    /\ Update(s, read(rs[s], HasPull(s)))
    /\ UNCHANGED <<shape, pullSource, ws, pump>>

ScriptCancels(s) ==
    /\ s \in Read \cup {"source"}
    /\ shape # "writer"
    /\ rs[s].state # "errored"
    /\ Update(s, cancelReadable(rs[s]))
    /\ UNCHANGED <<shape, pullSource, ws, pump>>

(* The script uses a writer, or close() and abort() of a stream that is     *)
(* piped into: they do not look at the lock.  The sink of a transform hands *)
(* an abort on to its readable side.                                        *)
ScriptWrites ==
    /\ shape = "writer"
    /\ Len(ws.writes) < MaxCalls
    /\ ws' = write(ws, Len(ws.writes) + 1)
    /\ UNCHANGED <<shape, pullSource, rs, pump>>

ScriptCloses ==
    /\ shape = "writer" \/ Piping
    /\ Len(ws.closes) < MaxCalls
    /\ ws' = closeWritable(ws)
    /\ UNCHANGED <<shape, pullSource, rs, pump>>

Abort ==
    /\ ws' = errorWritable(ws)
    /\ rs' = IF shape = "through" /\ ws.state = "writable"
             THEN [rs EXCEPT !["left"] = errorReadable(@)] ELSE rs

ScriptAborts ==
    /\ shape = "writer" \/ Piping
    /\ ws.state = "writable"
    /\ Abort
    /\ UNCHANGED <<shape, pullSource, pump>>

(* The underlying sink settles what it was asked.  That of a transform      *)
(* enqueues the chunk on the readable side, and closes it.                  *)
SinkWrites ==
    /\ ws.at = "write"
    /\ \/ /\ shape = "through" /\ Active(rs["left"])
          /\ ws' = WriteSettled(ws, TRUE)
          /\ Update("left", enqueue(rs["left"], Last(ws.sink), FALSE))
       \/ shape # "through" /\ ws' = WriteSettled(ws, TRUE) /\ UNCHANGED rs
       \/ ws' = WriteSettled(ws, FALSE) /\ UNCHANGED rs
    /\ UNCHANGED <<shape, pullSource, pump>>

SinkCloses ==
    /\ \E ok \in BOOLEAN :
          /\ \/ ws.at = "close" /\ ws' = RunPump(CloseSettled(ws, ws.now, ok))
             \/ \E i \in ws.direct :
                   ws' = [CloseSettled(ws, i, ok) EXCEPT !.direct = @ \ {i}]
          /\ rs' = IF shape = "through" /\ ok
                   THEN [rs EXCEPT !["left"] = closeReadable(@)] ELSE rs
    /\ UNCHANGED <<shape, pullSource, pump>>

SinkErrors ==
    /\ shape = "writer" \/ Piping
    /\ ws.state = "writable"
    /\ ws' = errorWritable(ws)
    /\ UNCHANGED <<shape, pullSource, rs, pump>>

(* pipeTo and tee call read() one at a time. *)
PumpReads ==
    /\ shape \in {"pipe", "through", "tee"}
    /\ pump = "read"
    /\ Update("source", read(Source, pullSource))
    /\ pump' = "reading"
    /\ UNCHANGED <<shape, pullSource, ws>>

(* pipeTo has what it read: it writes the chunk, closes at the end, aborts  *)
(* on an error.                                                             *)
PipeGot ==
    /\ Piping
    /\ pump = "reading"
    /\ \/ /\ Last(Source.reads).kind = "chunk"
          /\ ws' = write(ws, Last(Source.reads).chunk)
          /\ pump' = "writing"
          /\ UNCHANGED rs
       \/ /\ Last(Source.reads) = Done
          /\ ws' = [closeWritable(ws) EXCEPT !.own = Len(ws.closes) + 1]
          /\ pump' = "closing"
          /\ UNCHANGED rs
       \/ Last(Source.reads) = Error /\ Abort /\ pump' = "failed"
    /\ UNCHANGED <<shape, pullSource>>

(* The write or the close settled. A rejection aborts the writable stream.  *)
PipeWrote ==
    /\ pump = "writing"
    /\ \/ Last(ws.writes) = "resolved" /\ pump' = "read" /\ UNCHANGED <<ws, rs>>
       \/ Last(ws.writes) = "rejected" /\ Abort /\ pump' = "failed"
    /\ UNCHANGED <<shape, pullSource>>

PipeClosed ==
    /\ pump = "closing"
    /\ \/ ws.closes[ws.own] = "resolved" /\ pump' = "done" /\ UNCHANGED <<ws, rs>>
       \/ ws.closes[ws.own] = "rejected" /\ Abort /\ pump' = "failed"
    /\ UNCHANGED <<shape, pullSource>>

(* Mutant: a branch that cannot take a chunk is passed over. *)
TeeGotLenient ==
    /\ shape = "tee"
    /\ pump = "reading"
    /\ Last(Source.reads) # Pending
    /\ LET got == Last(Source.reads) IN
       /\ rs' = [s \in Stream |->
                    IF s = "source" THEN Source
                    ELSE IF got.kind = "chunk"
                         THEN IF Active(rs[s]) /\ rs[s].queue = <<>>
                              THEN enqueue(rs[s], got.chunk, FALSE) ELSE rs[s]
                         ELSE IF got = Done THEN closeReadable(rs[s]) ELSE errorReadable(rs[s])]
       /\ pump' = IF got.kind = "chunk" THEN "read" ELSE "done"
    /\ UNCHANGED <<shape, pullSource, ws>>

(* tee has what it read: both branches get it.  A branch the script         *)
(* cancelled makes enqueue throw, and then both get the error.              *)
TeeGot ==
    /\ shape = "tee"
    /\ pump = "reading"
    /\ LET got == Last(Source.reads)
           l == rs["left"]
           r == rs["right"]
           fed == IF Active(l) THEN enqueue(l, got.chunk, FALSE) ELSE l IN
       \/ /\ got.kind = "chunk" /\ Active(l) /\ Active(r)
          /\ rs' = [rs EXCEPT !["left"] = fed, !["right"] = enqueue(r, got.chunk, FALSE)]
          /\ pump' = "read"
       \/ /\ got.kind = "chunk" /\ ~(Active(l) /\ Active(r))
          /\ rs' = [rs EXCEPT !["left"] = errorReadable(fed), !["right"] = errorReadable(r)]
          /\ pump' = "done"
       \/ /\ got = Done
          /\ rs' = [rs EXCEPT !["left"] = closeReadable(l), !["right"] = closeReadable(r)]
          /\ pump' = "done"
       \/ /\ got = Error
          /\ rs' = [rs EXCEPT !["left"] = errorReadable(l), !["right"] = errorReadable(r)]
          /\ pump' = "done"
    /\ UNCHANGED <<shape, pullSource, ws>>

SinkSettles == SinkWrites \/ SinkCloses
PumpRuns == PumpReads \/ PipeGot \/ PipeWrote \/ PipeClosed \/ TeeGot

WebNext ==
    \/ SourceStarted \/ SourceEnqueues \/ SourceEnds \/ PullSettles
    \/ \E s \in Stream : ScriptReads(s) \/ ScriptCancels(s)
    \/ ScriptWrites \/ ScriptCloses \/ ScriptAborts
    \/ SinkSettles \/ SinkErrors \/ PumpRuns

(* The sink settles its promises; microtasks run. *)
WebSpec == WebInit /\ [][WebNext]_webVars /\ WF_webVars(SinkSettles) /\ WF_webVars(PumpRuns)

-----------------------------------------------------------------------------
(* The chunks the promises of read() were resolved with. *)
Answered(s) == {i \in DOMAIN s.reads : s.reads[i].kind = "chunk"}
Chunks(s) == LET got == Picked(s.reads, Answered(s)) IN [i \in DOMAIN got |-> got[i].chunk]

(* Reads are answered in the order they were made, with the chunks in the   *)
(* order they were enqueued and nothing but the end after the end; a read   *)
(* is left waiting only on a stream that is open and has nothing queued.    *)
ReadsSettleInOrder ==
    \A name \in Stream :
        LET s == rs[name] IN
        /\ IsPrefix(Chunks(s), s.accepted)
        /\ \A i, j \in DOMAIN s.reads :
              i < j /\ s.reads[i].kind # "chunk" => s.reads[j].kind = s.reads[i].kind
        /\ (\E i \in DOMAIN s.reads : s.reads[i] = Pending)
              => Active(s) /\ s.queue = <<>>

(* The branches of a tee replay the source: each gets its chunks in order,  *)
(* and a branch the script has not cancelled ends only after all of them.   *)
BranchesComplete ==
    shape = "tee" =>
        \A name \in {"left", "right"} :
            LET b == rs[name] IN
            /\ IsPrefix(b.accepted, Source.accepted)
            /\ (b.closeRequested \/ \E i \in DOMAIN b.reads : b.reads[i] = Done) /\ ~b.cancelled
                  => b.accepted = (IF Source.cancelled THEN Chunks(Source) ELSE Source.accepted)

(* write() never leaves its caller waiting, whatever aborts, errors and     *)
(* closes come in between, if the sink settles what it is given.            *)
WritePending(i) == i \in DOMAIN ws.writes /\ ws.writes[i] = "pending"
WritesSettle == \A i \in 1 .. (MaxCalls + MaxChunks) : WritePending(i) ~> ~WritePending(i)

(* What the reads of a stream were told of its end.                         *)
WasTold(s) ==
    IF \E i \in DOMAIN s.reads : s.reads[i] = Done THEN "complete"
    ELSE IF \E i \in DOMAIN s.reads : s.reads[i] = Error THEN "failed" ELSE "open"

(* A pipe is a chunk pipe from the source to the sink, a stream that is     *)
(* read one to the reader: pipeTo resolves, or read() says done, only when  *)
(* nothing is missing.                                                      *)
(* (A stream made by Readable.toWeb is seen by NodeImplementsPipe.)         *)
PipeSent ==
    CASE shape \notin Shape -> <<>>
      [] shape \in Shape /\ Source.cancelled -> Chunks(Source)
      [] OTHER -> Source.accepted

PipeReceived ==
    CASE shape \notin Shape -> <<>> [] Piping -> ws.sink [] OTHER -> Chunks(Source)

PipeOutcome ==
    IF shape \notin Shape THEN "open"
    ELSE IF Piping
    THEN CASE pump = "done" -> "complete" [] pump = "failed" -> "failed" [] OTHER -> "open"
    ELSE WasTold(Source)

Pipe == INSTANCE ChunkPipe WITH
    Chunk <- 1 .. MaxChunks, sent <- PipeSent, received <- PipeReceived, outcome <- PipeOutcome

WebImplementsPipe == Pipe!Spec
=============================================================================
