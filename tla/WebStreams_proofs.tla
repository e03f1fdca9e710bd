------------------------- MODULE WebStreams_proofs --------------------------
(***************************************************************************)
(* ReadsSettleInOrder, BranchesComplete and the refinement of ChunkPipe,   *)
(* for any number of chunks, reads and calls.                              *)
(*                                                                         *)
(* A method of a stream runs to its end, so the first part is about single *)
(* records: every method of a readable stream keeps Good, every step of a  *)
(* writable one GoodSink, and PipeSink as long as it is given one chunk at *)
(* a time.  The invariant of the whole, WebInv, adds how the two sides of  *)
(* an async function go together: Branch, for tee, that a branch has what  *)
(* the reads of the source got; Carried, for pipeTo, that the sink has     *)
(* been given what they got, and all of it when the sink is closed.        *)
(*                                                                         *)
(* The last part is about node:stream, where everything happens in nested  *)
(* calls on one record (World).  WorldOK says that what a consumer has,    *)
(* followed by the buffer, is what was pushed.  It does not hold between   *)
(* the calls of a nest, so each kind has a relation of its own: Takes for  *)
(* a 'data' event, Onward for a nest, Dropped for destroy(); and Outward   *)
(* says that what they do is a step of ChunkPipe.                          *)
(***************************************************************************)
EXTENDS NodeStreams, Subsequences_proofs, SequenceTheorems

-----------------------------------------------------------------------------
(* A readable stream, by the fields of its record.                          *)

Promise == {Pending, Done, Error} \cup {GotChunk(c) : c \in Nat}

Typed(state, queue, waiting, reads, accepted) ==
    /\ state \in {"readable", "closed", "errored"}
    /\ queue \in Seq(Nat) /\ waiting \in Seq(Nat)
    /\ reads \in Seq(Promise) /\ accepted \in Seq(Nat)

(* The i-th read got the i-th chunk, and after a read that got none no      *)
(* other got one.                                                           *)
Ordered(reads, accepted) ==
    /\ \A i \in 1 .. Len(reads) :
          reads[i].kind = "chunk" => i \in 1 .. Len(accepted) /\ reads[i] = GotChunk(accepted[i])
    /\ \A i, j \in 1 .. Len(reads) : i < j /\ reads[i].kind # "chunk" => reads[j] = reads[i]

(* The reads that wait are the last ones, in the order of pendingReads.     *)
Numbered(waiting, reads) ==
    /\ Len(waiting) <= Len(reads)
    /\ \A k \in 1 .. Len(waiting) : waiting[k] = Len(reads) - Len(waiting) + k
    /\ \A i \in 1 .. Len(reads) : reads[i] = Pending <=> i > Len(reads) - Len(waiting)

(* In the queue are the chunks that no read got, all of them unless the     *)
(* stream was cancelled.                                                    *)
Queued(queue, reads, accepted, cancelled) ==
    /\ queue # <<>> =>
          /\ \A i \in 1 .. Len(reads) : reads[i].kind = "chunk"
          /\ Len(accepted) = Len(reads) + Len(queue)
          /\ \A j \in 1 .. Len(queue) : queue[j] = accepted[Len(reads) + j]
    /\ queue = <<>> /\ ~cancelled =>
          \A j \in 1 .. Len(accepted) : j \in 1 .. Len(reads) /\ reads[j].kind = "chunk"

(* What goes with which state.                                              *)
Stated(state, queue, waiting, closing, reads, cancelled) ==
    /\ waiting # <<>> => state = "readable" /\ ~closing /\ queue = <<>>
    /\ state = "readable" => ~cancelled /\ (closing => queue # <<>>)
    /\ state = "closed" => queue = <<>>
    /\ cancelled => state = "closed"
    /\ \A i \in 1 .. Len(reads) : /\ reads[i] = Done => state = "closed"
                                  /\ reads[i] = Error => state = "errored" /\ queue = <<>>

Sound(state, queue, waiting, closing, reads, accepted, cancelled) ==
    /\ Typed(state, queue, waiting, reads, accepted)
    /\ Ordered(reads, accepted)
    /\ Numbered(waiting, reads)
    /\ Queued(queue, reads, accepted, cancelled)
    /\ Stated(state, queue, waiting, closing, reads, cancelled)

LEMMA PromiseKinds ==
    ASSUME NEW p \in Promise
    PROVE  /\ p.kind \in {"pending", "done", "error", "chunk"}
           /\ (p = Pending <=> p.kind = "pending") /\ (p = Done <=> p.kind = "done")
           /\ (p = Error <=> p.kind = "error")
           /\ p.kind = "chunk" => p = GotChunk(p.chunk) /\ p.chunk \in Nat
  BY DEF Promise, Pending, Done, Error, GotChunk

(* What is appended.                                                        *)
LEMMA Appended ==
    ASSUME NEW S, NEW s \in Seq(S), NEW x \in S
    PROVE  /\ Append(s, x) \in Seq(S) /\ Len(Append(s, x)) = Len(s) + 1 /\ Len(s) \in Nat
           /\ 1 .. Len(Append(s, x)) = 1 .. Len(s) \cup {Len(s) + 1}
           /\ \A i \in 1 .. Len(s) : Append(s, x)[i] = s[i] /\ i # Len(s) + 1 /\ i \in Nat
           /\ Append(s, x)[Len(s) + 1] = x /\ Append(s, x) # <<>>
  <1>1. /\ Append(s, x) \in Seq(S) /\ Len(Append(s, x)) = Len(s) + 1 /\ Len(s) \in Nat
        /\ \A i \in 1 .. Len(s) : Append(s, x)[i] = s[i]
        /\ Append(s, x)[Len(s) + 1] = x
    OBVIOUS
  <1>2. Append(s, x) # <<>>
    BY <1>1, EmptySeq
  <1>3. 1 .. Len(Append(s, x)) = 1 .. Len(s) \cup {Len(s) + 1}
    BY <1>1
  <1> QED
    BY <1>1, <1>2, <1>3

LEMMA Headed ==
    ASSUME NEW S, NEW s \in Seq(S), s # <<>>
    PROVE  /\ Len(s) \in Nat /\ Len(s) >= 1 /\ Head(s) = s[1] /\ Head(s) \in S
           /\ Tail(s) \in Seq(S) /\ Len(Tail(s)) = Len(s) - 1
           /\ \A i \in 1 .. Len(s) - 1 : Tail(s)[i] = s[i + 1]
           /\ (Tail(s) = <<>> <=> Len(s) = 1)
  <1>1. Len(s) \in Nat /\ Len(s) >= 1
    BY EmptySeq
  <1>2. /\ Head(s) = s[1] /\ Head(s) \in S /\ Tail(s) \in Seq(S) /\ Len(Tail(s)) = Len(s) - 1
        /\ \A i \in 1 .. Len(s) - 1 : Tail(s)[i] = s[i + 1]
    BY <1>1, HeadTailProperties
  <1>3. Tail(s) = <<>> <=> Len(Tail(s)) = 0
    BY <1>2, EmptySeq
  <1>4. Tail(s) = <<>> <=> Len(s) = 1
    BY <1>1, <1>2, <1>3
  <1> QED
    BY <1>1, <1>2, <1>4

(* read() takes the next chunk of the queue.                                *)
LEMMA TakesChunk ==
    ASSUME NEW state, NEW queue, NEW waiting, NEW closing, NEW reads, NEW accepted, NEW cancelled,
           Sound(state, queue, waiting, closing, reads, accepted, cancelled), queue # <<>>
    PROVE  /\ Sound(IF closing /\ Tail(queue) = <<>> THEN "closed" ELSE state, Tail(queue), waiting, closing,
                    Append(reads, GotChunk(Head(queue))), accepted, cancelled)
           /\ waiting = <<>>
           /\ \A i \in 1 .. Len(reads) + 1 : Append(reads, GotChunk(Head(queue)))[i] # Pending
  <1> DEFINE chunk == GotChunk(Head(queue))  after == Append(reads, chunk)  rest == Tail(queue)
  <1>1. /\ Typed(state, queue, waiting, reads, accepted) /\ Ordered(reads, accepted)
        /\ Numbered(waiting, reads) /\ Queued(queue, reads, accepted, cancelled)
        /\ Stated(state, queue, waiting, closing, reads, cancelled)
    BY DEF Sound
  <1>2. /\ Len(queue) \in Nat /\ Len(queue) >= 1 /\ Head(queue) = queue[1] /\ Head(queue) \in Nat
        /\ rest \in Seq(Nat) /\ Len(rest) = Len(queue) - 1
        /\ \A i \in 1 .. Len(queue) - 1 : rest[i] = queue[i + 1]
        /\ (rest = <<>> <=> Len(queue) = 1)
    BY <1>1, Headed DEF Typed
  <1>3. chunk \in Promise /\ chunk.kind = "chunk" /\ chunk # Pending /\ chunk # Done /\ chunk # Error
    BY <1>2 DEF Promise, GotChunk, Pending, Done, Error
  <1>4. waiting = <<>>
    BY <1>1 DEF Stated
  <1>5. /\ after \in Seq(Promise) /\ Len(after) = Len(reads) + 1 /\ Len(reads) \in Nat
        /\ 1 .. Len(after) = 1 .. Len(reads) \cup {Len(reads) + 1}
        /\ \A i \in 1 .. Len(reads) : after[i] = reads[i] /\ i # Len(reads) + 1 /\ i \in Nat
        /\ after[Len(reads) + 1] = chunk
    BY <1>1, <1>3, Appended DEF Typed
  <1>6. /\ \A i \in 1 .. Len(reads) : reads[i].kind = "chunk"
        /\ Len(accepted) = Len(reads) + Len(queue) /\ Len(accepted) \in Nat
        /\ \A j \in 1 .. Len(queue) : queue[j] = accepted[Len(reads) + j]
    BY <1>1 DEF Queued, Typed
  <1>7. Len(reads) + 1 \in 1 .. Len(accepted) /\ chunk = GotChunk(accepted[Len(reads) + 1])
    BY <1>2, <1>5, <1>6
  <1> HIDE DEF after, rest, chunk
  <1>8. \A i \in 1 .. Len(after) : after[i].kind = "chunk" /\ after[i] # Pending /\ after[i] # Done /\ after[i] # Error
    <2>1. \A i \in 1 .. Len(reads) : reads[i] # Pending /\ reads[i] # Done /\ reads[i] # Error
      BY <1>6 DEF Pending, Done, Error
    <2> QED
      BY <1>3, <1>5, <1>6, <2>1
  <1>9. Ordered(after, accepted)
    BY <1>1, <1>5, <1>7, <1>8 DEF Ordered
  <1>10. Numbered(waiting, after)
    <2>1. Len(waiting) = 0
      BY <1>4
    <2> QED
      BY <1>5, <1>8, <2>1 DEF Numbered
  <1>11. Queued(rest, after, accepted, cancelled)
    <2>1. /\ Len(accepted) = Len(after) + Len(rest)
          /\ \A j \in 1 .. Len(rest) : rest[j] = accepted[Len(after) + j]
      <3>1. Len(accepted) = Len(after) + Len(rest)
        BY <1>2, <1>5, <1>6
      <3>2. ASSUME NEW j \in 1 .. Len(rest) PROVE rest[j] = accepted[Len(after) + j]
        <4>1. j \in 1 .. Len(queue) - 1 /\ j + 1 \in 1 .. Len(queue) /\ Len(after) + j = Len(reads) + (j + 1)
          BY <1>2, <1>5
        <4> QED
          BY <1>2, <1>6, <4>1
      <3> QED
        BY <3>1, <3>2
    <2>2. rest = <<>> => \A j \in 1 .. Len(accepted) : j \in 1 .. Len(after)
      BY <1>2, <1>5, <1>6
    <2> QED
      BY <1>8, <2>1, <2>2 DEF Queued
  <1> DEFINE next == IF closing /\ rest = <<>> THEN "closed" ELSE state
  <1>12. Stated(next, rest, waiting, closing, after, cancelled)
    BY <1>1, <1>4, <1>8 DEF Stated
  <1>13. Typed(next, rest, waiting, after, accepted)
    BY <1>1, <1>2, <1>5 DEF Typed
  <1> HIDE DEF next
  <1>14. Sound(next, rest, waiting, closing, after, accepted, cancelled)
    BY <1>9, <1>10, <1>11, <1>12, <1>13 DEF Sound
  <1>15. \A i \in 1 .. Len(reads) + 1 : after[i] # Pending
    BY <1>5, <1>8
  <1> QED
    BY <1>4, <1>14, <1>15 DEF next, after, rest, chunk

(* read() finds the queue empty and waits, or is told that it is over.      *)
LEMMA FindsNone ==
    ASSUME NEW state, NEW queue, NEW waiting, NEW closing, NEW reads, NEW accepted, NEW cancelled,
           Sound(state, queue, waiting, closing, reads, accepted, cancelled), queue = <<>>
    PROVE  /\ state = "closed" => Sound(state, queue, waiting, closing, Append(reads, Done), accepted, cancelled)
           /\ state = "errored" => Sound(state, queue, waiting, closing, Append(reads, Error), accepted, cancelled)
           /\ state = "readable" =>
                 Sound(state, queue, Append(waiting, Len(reads) + 1), closing,
                       Append(reads, Pending), accepted, cancelled)
  <1>1. /\ Typed(state, queue, waiting, reads, accepted) /\ Ordered(reads, accepted)
        /\ Numbered(waiting, reads) /\ Queued(queue, reads, accepted, cancelled)
        /\ Stated(state, queue, waiting, closing, reads, cancelled)
    BY DEF Sound
  <1>2. \A i \in 1 .. Len(reads) : reads[i] \in Promise
    BY <1>1 DEF Typed
  <1>3. ASSUME NEW p \in {Pending, Done, Error},
               p = Done => state = "closed", p = Error => state = "errored", p = Pending => state = "readable"
        PROVE  LET after == Append(reads, p) IN
               /\ Ordered(after, accepted) /\ Queued(queue, after, accepted, cancelled)
               /\ \A i \in 1 .. Len(after) : /\ after[i] = Done => state = "closed"
                                             /\ after[i] = Error => state = "errored" /\ queue = <<>>
    <2> DEFINE after == Append(reads, p)
    <2>1. p \in Promise /\ p.kind # "chunk"
      BY DEF Promise, Pending, Done, Error
    <2>2. /\ after \in Seq(Promise) /\ Len(after) = Len(reads) + 1 /\ Len(reads) \in Nat
          /\ 1 .. Len(after) = 1 .. Len(reads) \cup {Len(reads) + 1}
          /\ \A i \in 1 .. Len(reads) : after[i] = reads[i] /\ i # Len(reads) + 1 /\ i \in Nat
          /\ after[Len(reads) + 1] = p
      BY <1>1, <2>1, Appended DEF Typed
    <2> HIDE DEF after
    <2>3. ASSUME NEW i \in 1 .. Len(reads), reads[i].kind # "chunk" PROVE reads[i] = p
      <3>1. reads[i] \in {Pending, Done, Error}
        BY <1>2, <2>3, PromiseKinds
      <3>2. reads[i] = Pending => state = "readable"
        <4>1. ASSUME reads[i] = Pending PROVE waiting # <<>>
          <5>1. i > Len(reads) - Len(waiting)
            BY <1>1, <4>1 DEF Numbered
          <5>2. waiting = <<>> => Len(waiting) = 0
            OBVIOUS
          <5> QED
            BY <2>2, <5>1, <5>2
        <4> QED
          BY <1>1, <4>1 DEF Stated
      <3>3. (reads[i] = Done => state = "closed") /\ (reads[i] = Error => state = "errored")
        BY <1>1 DEF Stated
      <3> QED
        BY <1>3, <3>1, <3>2, <3>3
    <2>4. Ordered(after, accepted)
      <3>1. \A i \in 1 .. Len(after) :
               after[i].kind = "chunk" => i \in 1 .. Len(accepted) /\ after[i] = GotChunk(accepted[i])
        BY <1>1, <2>1, <2>2 DEF Ordered
      <3>2. ASSUME NEW i \in 1 .. Len(after), NEW j \in 1 .. Len(after), i < j, after[i].kind # "chunk"
            PROVE  after[j] = after[i]
        <4>1. i \in 1 .. Len(reads)
          BY <2>2, <3>2
        <4>2. after[i] = p
          BY <2>2, <2>3, <3>2, <4>1
        <4>3. CASE j = Len(reads) + 1
          BY <2>2, <4>2, <4>3
        <4>4. CASE j \in 1 .. Len(reads)
          BY <1>1, <2>2, <3>2, <4>1, <4>4 DEF Ordered
        <4> QED
          BY <2>2, <4>3, <4>4
      <3> QED
        BY <3>1, <3>2 DEF Ordered
    <2>5. Queued(queue, after, accepted, cancelled)
      BY <1>1, <2>2 DEF Queued
    <2>6. \A i \in 1 .. Len(after) : /\ after[i] = Done => state = "closed"
                                     /\ after[i] = Error => state = "errored" /\ queue = <<>>
      <3>1. \A i \in 1 .. Len(reads) : /\ reads[i] = Done => state = "closed"
                                       /\ reads[i] = Error => state = "errored" /\ queue = <<>>
        BY <1>1 DEF Stated
      <3>2. /\ p = Done => state = "closed"
            /\ p = Error => state = "errored" /\ queue = <<>>
        BY <1>3
      <3> QED
        BY <2>2, <3>1, <3>2
    <2> QED
      BY <2>4, <2>5, <2>6 DEF after
  <1>4. ASSUME NEW p \in {Done, Error}, p = Done => state = "closed", p = Error => state = "errored"
        PROVE  Sound(state, queue, waiting, closing, Append(reads, p), accepted, cancelled)
    <2> DEFINE after == Append(reads, p)
    <2>1. p \in Promise /\ p # Pending
      BY DEF Promise, Pending, Done, Error
    <2>2. /\ after \in Seq(Promise) /\ Len(after) = Len(reads) + 1 /\ Len(reads) \in Nat
          /\ 1 .. Len(after) = 1 .. Len(reads) \cup {Len(reads) + 1}
          /\ \A i \in 1 .. Len(reads) : after[i] = reads[i] /\ i # Len(reads) + 1 /\ i \in Nat
          /\ after[Len(reads) + 1] = p
      BY <1>1, <2>1, Appended DEF Typed
    <2>3. waiting = <<>> /\ state # "readable"
      BY <1>1, <1>4 DEF Stated, Done, Error
    <2>4. /\ Ordered(after, accepted) /\ Queued(queue, after, accepted, cancelled)
          /\ \A i \in 1 .. Len(after) : /\ after[i] = Done => state = "closed"
                                        /\ after[i] = Error => state = "errored" /\ queue = <<>>
      BY <1>3, <1>4, <2>1
    <2> HIDE DEF after
    <2>5. Numbered(waiting, after)
      <3>1. Len(waiting) = 0 /\ \A i \in 1 .. Len(reads) : reads[i] # Pending
        BY <1>1, <2>2, <2>3 DEF Numbered
      <3> QED
        BY <2>1, <2>2, <3>1 DEF Numbered
    <2>6. Stated(state, queue, waiting, closing, after, cancelled)
      BY <1>1, <2>3, <2>4 DEF Stated
    <2>7. Typed(state, queue, waiting, after, accepted)
      BY <1>1, <2>2 DEF Typed
    <2> QED
      BY <2>4, <2>5, <2>6, <2>7 DEF Sound, after
  <1>5. ASSUME state = "readable"
        PROVE  Sound(state, queue, Append(waiting, Len(reads) + 1), closing,
                     Append(reads, Pending), accepted, cancelled)
    <2> DEFINE after == Append(reads, Pending)  all == Append(waiting, Len(reads) + 1)
    <2>1. Pending \in Promise /\ Len(reads) + 1 \in Nat
      BY <1>1 DEF Promise, Typed
    <2>2. /\ after \in Seq(Promise) /\ Len(after) = Len(reads) + 1 /\ Len(reads) \in Nat
          /\ 1 .. Len(after) = 1 .. Len(reads) \cup {Len(reads) + 1}
          /\ \A i \in 1 .. Len(reads) : after[i] = reads[i] /\ i # Len(reads) + 1 /\ i \in Nat
          /\ after[Len(reads) + 1] = Pending
      BY <1>1, <2>1, Appended DEF Typed
    <2>3. /\ all \in Seq(Nat) /\ Len(all) = Len(waiting) + 1 /\ Len(waiting) \in Nat
          /\ 1 .. Len(all) = 1 .. Len(waiting) \cup {Len(waiting) + 1}
          /\ \A i \in 1 .. Len(waiting) : all[i] = waiting[i] /\ i # Len(waiting) + 1 /\ i \in Nat
          /\ all[Len(waiting) + 1] = Len(reads) + 1
      BY <1>1, <2>1, Appended DEF Typed
    <2>4. Pending # Done /\ Pending # Error
      BY DEF Pending, Done, Error
    <2>5. /\ Ordered(after, accepted) /\ Queued(queue, after, accepted, cancelled)
          /\ \A i \in 1 .. Len(after) : /\ after[i] = Done => state = "closed"
                                        /\ after[i] = Error => state = "errored" /\ queue = <<>>
      BY <1>3, <1>5, <2>4
    <2> HIDE DEF after, all
    <2>6. Numbered(all, after)
      <3>1. /\ Len(waiting) <= Len(reads)
            /\ \A k \in 1 .. Len(waiting) : waiting[k] = Len(reads) - Len(waiting) + k
            /\ \A i \in 1 .. Len(reads) : reads[i] = Pending <=> i > Len(reads) - Len(waiting)
        BY <1>1 DEF Numbered
      <3>2. Len(all) <= Len(after) /\ Len(after) - Len(all) = Len(reads) - Len(waiting)
        BY <2>2, <2>3, <3>1
      <3>3. ASSUME NEW k \in 1 .. Len(all) PROVE all[k] = Len(reads) - Len(waiting) + k
        <4>1. CASE k \in 1 .. Len(waiting)
          BY <2>3, <3>1, <4>1
        <4>2. CASE k = Len(waiting) + 1
          BY <2>2, <2>3, <4>2
        <4> QED
          BY <2>3, <4>1, <4>2
      <3>4. \A i \in 1 .. Len(after) : after[i] = Pending <=> i > Len(reads) - Len(waiting)
        BY <2>2, <2>3, <3>1
      <3> QED
        BY <3>2, <3>3, <3>4 DEF Numbered
    <2>7. Stated(state, queue, all, closing, after, cancelled)
      BY <1>1, <1>5, <2>5 DEF Stated
    <2>8. Typed(state, queue, all, after, accepted)
      BY <1>1, <2>2, <2>3 DEF Typed
    <2> QED
      BY <2>5, <2>6, <2>7, <2>8 DEF Sound, after, all
  <1>6. Done # Error
    BY DEF Done, Error
  <1>7. /\ state = "closed" => Sound(state, queue, waiting, closing, Append(reads, Done), accepted, cancelled)
        /\ state = "errored" => Sound(state, queue, waiting, closing, Append(reads, Error), accepted, cancelled)
    BY <1>4, <1>6
  <1> QED
    BY <1>5, <1>7

(* enqueue() answers the read that has waited longest.                      *)
LEMMA ServesRead ==
    ASSUME NEW queue, NEW waiting, NEW closing, NEW reads, NEW accepted, NEW cancelled, NEW c \in Nat,
           Sound("readable", queue, waiting, closing, reads, accepted, cancelled), waiting # <<>>
    PROVE  Sound("readable", queue, Tail(waiting), closing,
                 [reads EXCEPT ![Head(waiting)] = GotChunk(c)], Append(accepted, c), cancelled)
  <1> DEFINE h == Len(reads) - Len(waiting) + 1  chunk == GotChunk(c)
             after == [reads EXCEPT ![h] = chunk]  all == Append(accepted, c)  rest == Tail(waiting)
  <1>1. /\ Typed("readable", queue, waiting, reads, accepted) /\ Ordered(reads, accepted)
        /\ Numbered(waiting, reads) /\ Queued(queue, reads, accepted, cancelled)
        /\ Stated("readable", queue, waiting, closing, reads, cancelled)
    BY DEF Sound
  <1>2. /\ Len(waiting) \in Nat /\ Len(waiting) >= 1 /\ Head(waiting) = waiting[1]
        /\ rest \in Seq(Nat) /\ Len(rest) = Len(waiting) - 1
        /\ \A i \in 1 .. Len(waiting) - 1 : rest[i] = waiting[i + 1]
    BY <1>1, Headed DEF Typed
  <1>3. /\ Len(reads) \in Nat /\ Len(waiting) <= Len(reads)
        /\ \A k \in 1 .. Len(waiting) : waiting[k] = Len(reads) - Len(waiting) + k
        /\ \A i \in 1 .. Len(reads) : reads[i] = Pending <=> i > Len(reads) - Len(waiting)
    BY <1>1 DEF Numbered, Typed
  <1>4. h \in 1 .. Len(reads) /\ Head(waiting) = h /\ h \in Nat
        /\ \A i \in 1 .. Len(reads) : reads[i] = Pending <=> i >= h
    BY <1>2, <1>3
  <1>5. chunk \in Promise /\ chunk.kind = "chunk" /\ chunk # Pending /\ chunk # Done /\ chunk # Error
    BY DEF Promise, GotChunk, Pending, Done, Error
  <1>6. /\ after \in Seq(Promise) /\ Len(after) = Len(reads) /\ after[h] = chunk
        /\ \A i \in 1 .. Len(reads) : i # h => after[i] = reads[i]
    <2>1. reads \in Seq(Promise)
      BY <1>1 DEF Typed
    <2> HIDE DEF h, chunk
    <2> QED
      BY <1>4, <1>5, <2>1
  <1>7. /\ all \in Seq(Nat) /\ Len(all) = Len(accepted) + 1 /\ Len(accepted) \in Nat
        /\ 1 .. Len(all) = 1 .. Len(accepted) \cup {Len(accepted) + 1}
        /\ \A i \in 1 .. Len(accepted) : all[i] = accepted[i]
        /\ all[Len(accepted) + 1] = c
    BY <1>1, Appended DEF Typed
  <1>8. queue = <<>> /\ ~cancelled /\ ~closing
    BY <1>1 DEF Stated
  <1>9. \A i \in 1 .. Len(reads) : i < h => reads[i].kind = "chunk"
    <2>1. \A i \in 1 .. Len(reads) : reads[i] \in Promise
      BY <1>1 DEF Typed
    <2>2. \A i \in 1 .. Len(reads) : reads[i] # Done /\ reads[i] # Error
      BY <1>1 DEF Stated
    <2>3. \A i \in 1 .. Len(reads) : i < h => reads[i] # Pending
      BY <1>4
    <2> QED
      BY <2>1, <2>2, <2>3, PromiseKinds
  <1> HIDE DEF h, chunk, after, all, rest
  <1>10. Pending.kind # "chunk"
    BY DEF Pending
  <1>11. Len(accepted) = h - 1
    <2>1. \A j \in 1 .. Len(accepted) : j \in 1 .. Len(reads) /\ reads[j].kind = "chunk"
      BY <1>1, <1>8 DEF Queued
    <2>2. \A j \in 1 .. Len(accepted) : j < h
      BY <1>4, <1>10, <2>1
    <2>3. Len(accepted) < h
      BY <1>4, <1>7, <2>2
    <2>4. h > 1 => h - 1 \in 1 .. Len(accepted)
      <3>1. h > 1 => h - 1 \in 1 .. Len(reads) /\ h - 1 < h
        BY <1>3, <1>4
      <3> QED
        BY <1>1, <1>9, <3>1 DEF Ordered
    <2> QED
      BY <1>4, <1>7, <2>3, <2>4
  <1>12. Ordered(after, all)
    <2>1. ASSUME NEW i \in 1 .. Len(after), after[i].kind = "chunk"
          PROVE  i \in 1 .. Len(all) /\ after[i] = GotChunk(all[i])
      <3>1. CASE i = h
        BY <1>4, <1>6, <1>7, <1>11, <3>1 DEF chunk
      <3>2. CASE i # h
        <4>1. i \in 1 .. Len(accepted) /\ reads[i] = GotChunk(accepted[i])
          BY <1>1, <1>6, <2>1, <3>2 DEF Ordered
        <4> QED
          BY <1>6, <1>7, <3>2, <4>1
      <3> QED
        BY <3>1, <3>2
    <2>2. ASSUME NEW i \in 1 .. Len(after), NEW j \in 1 .. Len(after), i < j, after[i].kind # "chunk"
          PROVE  after[j] = after[i]
      <3>1. i # h /\ ~(i < h)
        BY <1>5, <1>6, <1>9, <2>2
      <3>2. i > h /\ j > h /\ i \in 1 .. Len(reads) /\ j \in 1 .. Len(reads)
        BY <1>3, <1>4, <1>6, <2>2, <3>1
      <3>3. reads[i] = Pending /\ reads[j] = Pending
        BY <1>4, <3>2
      <3> QED
        BY <1>4, <1>6, <3>2, <3>3
    <2> QED
      BY <2>1, <2>2 DEF Ordered
  <1>13. Numbered(rest, after)
    <2>1. Len(rest) <= Len(after) /\ Len(after) - Len(rest) = h
      BY <1>2, <1>3, <1>6 DEF h
    <2>2. \A k \in 1 .. Len(rest) : rest[k] = h + k
      <3> TAKE k \in 1 .. Len(rest)
      <3>1. k \in 1 .. Len(waiting) - 1 /\ k + 1 \in 1 .. Len(waiting)
        BY <1>2
      <3>2. rest[k] = Len(reads) - Len(waiting) + (k + 1)
        BY <1>2, <1>3, <3>1
      <3> QED
        BY <1>2, <1>3, <3>1, <3>2 DEF h
    <2>3. \A i \in 1 .. Len(after) : after[i] = Pending <=> i > h
      BY <1>3, <1>4, <1>5, <1>6
    <2> QED
      BY <2>1, <2>2, <2>3 DEF Numbered
  <1>14. Queued(queue, after, all, cancelled)
    <2>1. ASSUME NEW j \in 1 .. Len(all) PROVE j \in 1 .. Len(after) /\ after[j].kind = "chunk"
      <3>1. CASE j \in 1 .. Len(accepted)
        <4>1. j \in 1 .. Len(reads) /\ j < h /\ j # h
          BY <1>3, <1>4, <1>7, <1>11, <3>1
        <4> QED
          BY <1>6, <1>9, <4>1
      <3>2. CASE j = Len(accepted) + 1
        <4>1. j = h
          BY <1>4, <1>7, <1>11, <3>2
        <4> QED
          BY <1>4, <1>5, <1>6, <4>1
      <3> QED
        BY <1>7, <3>1, <3>2
    <2> QED
      BY <1>8, <2>1 DEF Queued
  <1>15. Stated("readable", queue, rest, closing, after, cancelled)
    <2>1. \A i \in 1 .. Len(after) : after[i] # Done /\ after[i] # Error
      BY <1>1, <1>5, <1>6 DEF Stated
    <2> QED
      BY <1>1, <1>8, <2>1 DEF Stated
  <1>16. Typed("readable", queue, rest, after, all)
    BY <1>1, <1>2, <1>6, <1>7 DEF Typed
  <1>17. Sound("readable", queue, rest, closing, after, all, cancelled)
    BY <1>12, <1>13, <1>14, <1>15, <1>16 DEF Sound
  <1> QED
    BY <1>4, <1>17 DEF rest, after, all, chunk

(* enqueue() queues the chunk when no read waits.                           *)
LEMMA QueuesChunk ==
    ASSUME NEW queue, NEW waiting, NEW closing, NEW reads, NEW accepted, NEW cancelled, NEW c \in Nat,
           Sound("readable", queue, waiting, closing, reads, accepted, cancelled), waiting = <<>>
    PROVE  Sound("readable", Append(queue, c), waiting, closing, reads, Append(accepted, c), cancelled)
  <1> DEFINE more == Append(queue, c)  all == Append(accepted, c)
  <1>1. /\ Typed("readable", queue, waiting, reads, accepted) /\ Ordered(reads, accepted)
        /\ Numbered(waiting, reads) /\ Queued(queue, reads, accepted, cancelled)
        /\ Stated("readable", queue, waiting, closing, reads, cancelled)
    BY DEF Sound
  <1>2. /\ more \in Seq(Nat) /\ Len(more) = Len(queue) + 1 /\ Len(queue) \in Nat
        /\ 1 .. Len(more) = 1 .. Len(queue) \cup {Len(queue) + 1}
        /\ \A i \in 1 .. Len(queue) : more[i] = queue[i]
        /\ more[Len(queue) + 1] = c /\ more # <<>>
    BY <1>1, Appended DEF Typed
  <1>3. /\ all \in Seq(Nat) /\ Len(all) = Len(accepted) + 1 /\ Len(accepted) \in Nat
        /\ 1 .. Len(all) = 1 .. Len(accepted) \cup {Len(accepted) + 1}
        /\ \A i \in 1 .. Len(accepted) : all[i] = accepted[i]
        /\ all[Len(accepted) + 1] = c
    BY <1>1, Appended DEF Typed
  <1> HIDE DEF more, all
  <1>4. Len(reads) \in Nat /\ \A i \in 1 .. Len(reads) : reads[i].kind = "chunk"
    <2>1. \A i \in 1 .. Len(reads) : reads[i] \in Promise
      BY <1>1 DEF Typed
    <2>2. \A i \in 1 .. Len(reads) : reads[i] # Done /\ reads[i] # Error
      BY <1>1 DEF Stated
    <2>3. Len(waiting) = 0 /\ Len(reads) \in Nat
      BY <1>1 DEF Typed
    <2>4. \A i \in 1 .. Len(reads) : reads[i] # Pending
      BY <1>1, <2>3 DEF Numbered
    <2> QED
      BY <2>1, <2>2, <2>3, <2>4, PromiseKinds
  <1>5. Len(accepted) = Len(reads) + Len(queue)
    <2>1. CASE queue # <<>>
      BY <1>1, <2>1 DEF Queued
    <2>2. CASE queue = <<>>
      <3>1. \A j \in 1 .. Len(accepted) : j \in 1 .. Len(reads)
        BY <1>1, <2>2 DEF Queued, Stated
      <3>2. \A i \in 1 .. Len(reads) : i \in 1 .. Len(accepted)
        BY <1>1, <1>4 DEF Ordered
      <3>3. Len(queue) = 0
        BY <2>2
      <3>4. Len(accepted) > 0 => Len(accepted) <= Len(reads)
        BY <1>3, <1>4, <3>1
      <3>5. Len(reads) > 0 => Len(reads) <= Len(accepted)
        BY <1>3, <1>4, <3>2
      <3> QED
        BY <1>3, <1>4, <3>3, <3>4, <3>5
    <2> QED
      BY <2>1, <2>2
  <1>6. Queued(more, reads, all, cancelled)
    <2>1. Len(all) = Len(reads) + Len(more)
      BY <1>2, <1>3, <1>4, <1>5
    <2>2. ASSUME NEW j \in 1 .. Len(more) PROVE more[j] = all[Len(reads) + j]
      <3>1. CASE j \in 1 .. Len(queue)
        <4>1. queue[j] = accepted[Len(reads) + j]
          BY <1>1, <3>1 DEF Queued
        <4>2. Len(reads) + j \in 1 .. Len(accepted)
          BY <1>2, <1>4, <1>5, <3>1
        <4> QED
          BY <1>2, <1>3, <3>1, <4>1, <4>2
      <3>2. CASE j = Len(queue) + 1
        <4>1. Len(reads) + j = Len(accepted) + 1
          BY <1>2, <1>4, <1>5, <3>2
        <4> QED
          BY <1>2, <1>3, <3>2, <4>1
      <3> QED
        BY <1>2, <3>1, <3>2
    <2> QED
      BY <1>2, <1>4, <2>1, <2>2 DEF Queued
  <1>7. Ordered(reads, all)
    BY <1>1, <1>3 DEF Ordered
  <1>8. Stated("readable", more, waiting, closing, reads, cancelled)
    BY <1>1, <1>2, <1>4 DEF Stated, Error
  <1>9. Typed("readable", more, waiting, reads, all)
    BY <1>1, <1>2, <1>3 DEF Typed
  <1>10. Sound("readable", more, waiting, closing, reads, all, cancelled)
    BY <1>1, <1>6, <1>7, <1>8, <1>9 DEF Sound
  <1> QED
    BY <1>10 DEF more, all

(* The end of a stream: whoever waits is told.                              *)
LEMMA SettlesAll ==
    ASSUME NEW state, NEW queue, NEW waiting, NEW closing, NEW reads, NEW accepted, NEW cancelled,
           Sound(state, queue, waiting, closing, reads, accepted, cancelled),
           NEW p \in {Done, Error}, NEW left, NEW ending, NEW dropped \in BOOLEAN,
           state = "readable" \/ (state = "closed" /\ p = Done),
           left = queue \/ (left = <<>> /\ dropped), p = Done => left = <<>>, cancelled => dropped,
           dropped => p = Done
    PROVE  Sound(IF p = Done THEN "closed" ELSE "errored", left, <<>>, ending,
                 [i \in DOMAIN reads |-> IF reads[i] = Pending THEN p ELSE reads[i]], accepted, dropped)
  <1> DEFINE after == [i \in DOMAIN reads |-> IF reads[i] = Pending THEN p ELSE reads[i]]
             next == IF p = Done THEN "closed" ELSE "errored"
  <1>1. /\ Typed(state, queue, waiting, reads, accepted) /\ Ordered(reads, accepted)
        /\ Numbered(waiting, reads) /\ Queued(queue, reads, accepted, cancelled)
        /\ Stated(state, queue, waiting, closing, reads, cancelled)
    BY DEF Sound
  <1>2. p \in Promise /\ p.kind # "chunk" /\ p # Pending /\ Pending.kind # "chunk" /\ Done # Error
    BY DEF Promise, Pending, Done, Error
  <1>3. /\ reads \in Seq(Promise) /\ Len(reads) \in Nat /\ DOMAIN reads = 1 .. Len(reads)
        /\ \A i \in 1 .. Len(reads) : reads[i] \in Promise
    BY <1>1 DEF Typed
  <1>4. /\ after \in Seq(Promise) /\ Len(after) = Len(reads)
        /\ \A i \in 1 .. Len(reads) : after[i] = IF reads[i] = Pending THEN p ELSE reads[i]
    <2>1. \A i \in 1 .. Len(reads) : (IF reads[i] = Pending THEN p ELSE reads[i]) \in Promise
      BY <1>2, <1>3
    <2>2. after \in [1 .. Len(reads) -> Promise]
      BY <1>3, <2>1
    <2> QED
      BY <1>3, <2>2
  <1> HIDE DEF after, next
  <1>5. \A i \in 1 .. Len(after) : /\ after[i] # Pending
                                   /\ after[i].kind = "chunk" <=> reads[i].kind = "chunk"
                                   /\ after[i].kind = "chunk" => after[i] = reads[i]
                                   /\ after[i].kind # "chunk" => after[i] = p
    <2> SUFFICES ASSUME NEW i \in 1 .. Len(after)
                 PROVE  /\ after[i] # Pending
                        /\ after[i].kind = "chunk" <=> reads[i].kind = "chunk"
                        /\ after[i].kind = "chunk" => after[i] = reads[i]
                        /\ after[i].kind # "chunk" => after[i] = p
      OBVIOUS
    <2>1. CASE reads[i] = Pending
      BY <1>2, <1>4, <2>1
    <2>2. CASE reads[i] # Pending
      <3>1. reads[i] = Done => state = "closed"
        BY <1>1, <1>4 DEF Stated
      <3>2. reads[i] # Error
        BY <1>1, <1>4 DEF Stated
      <3>3. reads[i].kind # "chunk" => reads[i] = Done
        BY <1>3, <1>4, <2>2, <3>2, PromiseKinds
      <3> QED
        BY <1>4, <2>2, <3>1, <3>3
    <2> QED
      BY <2>1, <2>2
  <1>6. Ordered(after, accepted)
    <2>1. \A i, j \in 1 .. Len(after) : i < j /\ after[i].kind # "chunk" => after[j].kind # "chunk"
      <3> SUFFICES ASSUME NEW i \in 1 .. Len(after), NEW j \in 1 .. Len(after), i < j, after[i].kind # "chunk"
                   PROVE  after[j].kind # "chunk"
        OBVIOUS
      <3>1. reads[i].kind # "chunk" /\ reads[j] = reads[i]
        BY <1>1, <1>4, <1>5 DEF Ordered
      <3> QED
        BY <1>5, <3>1
    <2>2. \A i \in 1 .. Len(after) :
             after[i].kind = "chunk" => i \in 1 .. Len(accepted) /\ after[i] = GotChunk(accepted[i])
      BY <1>1, <1>4, <1>5 DEF Ordered
    <2> QED
      BY <1>5, <2>1, <2>2 DEF Ordered
  <1>7. Numbered(<<>>, after)
    <2>1. Len(<<>>) = 0 /\ Len(after) \in Nat
      BY <1>3, <1>4
    <2> QED
      BY <1>5, <2>1 DEF Numbered
  <1>8. Queued(left, after, accepted, dropped)
    <2>1. CASE left # <<>>
      <3>1. left = queue
        BY <2>1
      <3> QED
        BY <1>1, <1>4, <1>5, <2>1, <3>1 DEF Queued
    <2>2. CASE left = <<>>
      <3>1. ~dropped => queue = <<>> /\ ~cancelled
        BY <2>2
      <3> QED
        BY <1>1, <1>4, <1>5, <2>2, <3>1 DEF Queued
    <2> QED
      BY <2>1, <2>2
  <1>9. Stated(next, left, <<>>, ending, after, dropped)
    <2>1. \A i \in 1 .. Len(after) : /\ after[i] = Done => p = Done
                                     /\ after[i] = Error => p = Error
      <3>1. Done.kind # "chunk" /\ Error.kind # "chunk"
        BY DEF Done, Error
      <3> QED
        BY <1>5, <3>1
    <2>2. next # "readable" /\ (next = "closed" <=> p = Done) /\ (p # Done => next = "errored")
      BY DEF next
    <2>3. ASSUME NEW i \in 1 .. Len(after), after[i] = Error PROVE left = <<>>
      <3>1. p = Error /\ reads[i].kind # "chunk"
        BY <1>5, <2>1, <2>3 DEF Error
      <3>2. queue = <<>>
        <4>1. i \in 1 .. Len(reads)
          BY <1>4
        <4> QED
          BY <1>1, <3>1, <4>1 DEF Queued
      <3> QED
        BY <3>2
    <2> QED
      BY <1>2, <2>1, <2>2, <2>3 DEF Stated
  <1>10. Typed(next, left, <<>>, after, accepted)
    <2>1. <<>> \in Seq(Nat)
      BY EmptySeq
    <2> QED
      BY <1>1, <1>4, <2>1 DEF Typed, next
  <1> QED
    BY <1>6, <1>7, <1>8, <1>9, <1>10 DEF Sound, after, next

-----------------------------------------------------------------------------
(* The record of a readable stream, and what each method makes of it.       *)

Readables == [state : {"readable", "closed", "errored"}, queue : Seq(Nat), pendingReads : Seq(Nat),
              closeRequested : BOOLEAN, pulling : BOOLEAN, reads : Seq(Promise), accepted : Seq(Nat),
              cancelled : BOOLEAN]

Good(s) == s \in Readables /\ Sound(s.state, s.queue, s.pendingReads, s.closeRequested, s.reads, s.accepted, s.cancelled)

(* A promise that is settled stays as it is.                                *)
Kept(old, new) == \A i \in 1 .. Len(old) : old[i] # Pending => new[i] = old[i]

LEMMA KeptAppended ==
    ASSUME NEW old \in Seq(Promise), NEW p \in Promise
    PROVE  Len(Append(old, p)) = Len(old) + 1 /\ Kept(old, Append(old, p)) /\ Append(old, p)[Len(old) + 1] = p
  BY Appended DEF Kept

LEMMA PullFields ==
    ASSUME NEW s \in Readables, NEW h
    PROVE  LET t == pullIfNeeded(s, h) IN
           /\ t \in Readables /\ t.state = s.state /\ t.queue = s.queue /\ t.pendingReads = s.pendingReads
           /\ t.closeRequested = s.closeRequested /\ t.reads = s.reads /\ t.accepted = s.accepted
           /\ t.cancelled = s.cancelled
  <1>1. [s EXCEPT !.pulling = TRUE] \in Readables
    BY DEF Readables
  <1> QED
    BY <1>1 DEF pullIfNeeded, Readables

LEMMA PullGood ==
    ASSUME NEW s, Good(s), NEW h
    PROVE  Good(pullIfNeeded(s, h))
  BY PullFields DEF Good

(* The promises after all that waited are told the same.                    *)
Told(reads, p) == [i \in DOMAIN reads |-> IF reads[i] = Pending THEN p ELSE reads[i]]

LEMMA SettleFields ==
    ASSUME NEW s, NEW p \in Promise, s \in Readables
    PROVE  LET t == SettleReads(s, p) IN
           /\ t \in Readables /\ t.state = s.state /\ t.queue = s.queue /\ t.pendingReads = <<>>
           /\ t.closeRequested = s.closeRequested /\ t.reads = Told(s.reads, p) /\ t.accepted = s.accepted
           /\ t.cancelled = s.cancelled
  <1>1. Told(s.reads, p) \in Seq(Promise)
    <2>1. s.reads \in Seq(Promise)
      BY DEF Readables
    <2>2. Len(s.reads) \in Nat /\ DOMAIN s.reads = 1 .. Len(s.reads) /\ \A i \in 1 .. Len(s.reads) : s.reads[i] \in Promise
      BY <2>1
    <2>3. Told(s.reads, p) \in [1 .. Len(s.reads) -> Promise]
      BY <2>2 DEF Told
    <2> QED
      BY <2>2, <2>3
  <1>2. SettleReads(s, p) = [s EXCEPT !.pendingReads = <<>>, !.reads = Told(s.reads, p)]
    BY DEF SettleReads, Told
  <1>3. <<>> \in Seq(Nat)
    BY EmptySeq
  <1> QED
    BY <1>1, <1>2, <1>3 DEF Readables

LEMMA ToldKept ==
    ASSUME NEW reads \in Seq(Promise), NEW p
    PROVE  Kept(reads, Told(reads, p)) /\ Len(Told(reads, p)) = Len(reads)
  BY DEF Kept, Told

(* The read that has waited longest.                                        *)
LEMMA FirstWaits ==
    ASSUME NEW waiting \in Seq(Nat), NEW reads \in Seq(Promise), Numbered(waiting, reads), waiting # <<>>
    PROVE  Head(waiting) \in 1 .. Len(reads) /\ reads[Head(waiting)] = Pending
  <1>1. Len(waiting) \in Nat /\ Len(waiting) >= 1 /\ Head(waiting) = waiting[1]
    BY Headed
  <1>2. Len(reads) \in Nat /\ Len(waiting) <= Len(reads) /\ waiting[1] = Len(reads) - Len(waiting) + 1
    BY <1>1 DEF Numbered
  <1>3. waiting[1] \in 1 .. Len(reads) /\ waiting[1] > Len(reads) - Len(waiting)
    BY <1>1, <1>2
  <1> QED
    BY <1>1, <1>3 DEF Numbered

(* A cancel discards the queue and tells whoever waits that it is done.     *)
LEMMA CancelSound ==
    ASSUME NEW state, NEW queue, NEW waiting, NEW closing, NEW reads, NEW accepted, NEW cancelled,
           Sound(state, queue, waiting, closing, reads, accepted, cancelled), state \in {"readable", "closed"}
    PROVE  Sound("closed", <<>>, <<>>, closing, Told(reads, Done), accepted, TRUE)
  <1> DEFINE left == <<>>  dropped == TRUE  p == Done
  <1>1. /\ p \in {Done, Error} /\ dropped \in BOOLEAN /\ (state = "readable" \/ (state = "closed" /\ p = Done))
        /\ (left = queue \/ (left = <<>> /\ dropped)) /\ (p = Done => left = <<>>) /\ (cancelled => dropped)
        /\ (dropped => p = Done)
    OBVIOUS
  <1> HIDE DEF left, dropped, p
  <1>2. Sound(IF p = Done THEN "closed" ELSE "errored", left, <<>>, closing, Told(reads, p), accepted, dropped)
    BY <1>1, SettlesAll DEF Told
  <1> QED
    BY <1>2 DEF left, dropped, p

(* The stream is closed: whoever waits is told that it is done.             *)
LEMMA ClosedGood ==
    ASSUME NEW s, Good(s), s.queue = <<>>, s.state \in {"readable", "closed"},
           NEW u \in Readables, u.queue = s.queue, u.reads = s.reads, u.accepted = s.accepted,
           u.cancelled = s.cancelled
    PROVE  LET t == SettleReads([u EXCEPT !.state = "closed"], Done) IN
           /\ Good(t) /\ t.state = "closed" /\ t.accepted = s.accepted /\ t.closeRequested = u.closeRequested
           /\ t.cancelled = s.cancelled /\ Kept(s.reads, t.reads) /\ Len(t.reads) = Len(s.reads)
  <1> DEFINE v == [u EXCEPT !.state = "closed"]  t == SettleReads(v, Done)
  <1>1. Done \in Promise
    BY DEF Promise
  <1>2. s \in Readables
    BY DEF Good
  <1>3. /\ v \in Readables /\ v.state = "closed" /\ v.queue = s.queue /\ v.closeRequested = u.closeRequested
        /\ v.reads = s.reads /\ v.accepted = s.accepted /\ v.cancelled = s.cancelled
    BY DEF Readables
  <1>4. s.reads \in Seq(Promise) /\ s.cancelled \in BOOLEAN
    BY <1>2 DEF Readables
  <1> HIDE DEF v
  <1>5. /\ t \in Readables /\ t.state = "closed" /\ t.queue = s.queue /\ t.pendingReads = <<>>
        /\ t.closeRequested = u.closeRequested /\ t.reads = Told(s.reads, Done) /\ t.accepted = s.accepted
        /\ t.cancelled = s.cancelled
    BY <1>1, <1>3, SettleFields
  <1> HIDE DEF t
  <1>6. Sound("closed", s.queue, <<>>, u.closeRequested, Told(s.reads, Done), s.accepted, s.cancelled)
    BY <1>4, SettlesAll DEF Good, Told
  <1>7. Good(t)
    BY <1>5, <1>6 DEF Good
  <1> QED
    BY <1>4, <1>5, <1>7, ToldKept DEF t, v

LEMMA CloseGood ==
    ASSUME NEW s, Good(s)
    PROVE  LET t == closeReadable(s) IN
           /\ Good(t) /\ (s.state # "readable" => t = s)
           /\ s.state = "readable" => t.closeRequested /\ t.state \in {"readable", "closed"}
           /\ t.accepted = s.accepted /\ t.cancelled = s.cancelled
           /\ Kept(s.reads, t.reads) /\ Len(t.reads) = Len(s.reads)
  <1> DEFINE u == [s EXCEPT !.closeRequested = TRUE]
  <1>1. s \in Readables /\ Kept(s.reads, s.reads)
    BY DEF Good, Kept
  <1>2. /\ u \in Readables /\ u.state = s.state /\ u.queue = s.queue /\ u.closeRequested = TRUE
        /\ u.pendingReads = s.pendingReads
        /\ u.reads = s.reads /\ u.accepted = s.accepted /\ u.cancelled = s.cancelled
    BY <1>1 DEF Readables
  <1> HIDE DEF u
  <1>3. CASE s.state # "readable"
    BY <1>1, <1>3 DEF closeReadable
  <1>4. CASE s.state = "readable" /\ s.queue = <<>>
    <2>1. closeReadable(s) = SettleReads([u EXCEPT !.state = "closed"], Done)
      BY <1>2, <1>4 DEF closeReadable, finalizeIfDone, u
    <2> QED
      BY <1>2, <1>4, <2>1, ClosedGood
  <1>5. CASE s.state = "readable" /\ s.queue # <<>>
    <2>1. closeReadable(s) = u
      BY <1>2, <1>5 DEF closeReadable, finalizeIfDone, u
    <2>2. s.pendingReads = <<>>
      BY <1>5 DEF Good, Sound, Stated
    <2>3. Stated(s.state, s.queue, s.pendingReads, TRUE, s.reads, s.cancelled)
      BY <1>5, <2>2 DEF Good, Sound, Stated
    <2>4. Good(u)
      BY <1>2, <2>3 DEF Good, Sound
    <2> QED
      BY <1>1, <1>2, <1>5, <2>1, <2>4
  <1> QED
    BY <1>3, <1>4, <1>5

LEMMA ErrorGood ==
    ASSUME NEW s, Good(s)
    PROVE  LET t == errorReadable(s) IN
           /\ Good(t) /\ t.state = (IF s.state = "readable" THEN "errored" ELSE s.state)
           /\ t.accepted = s.accepted /\ t.closeRequested = s.closeRequested
           /\ t.cancelled = s.cancelled /\ Kept(s.reads, t.reads) /\ Len(t.reads) = Len(s.reads)
  <1>1. CASE s.state # "readable"
    BY <1>1 DEF errorReadable, Kept
  <1>2. CASE s.state = "readable"
    <2> DEFINE u == [s EXCEPT !.state = "errored"]  t == SettleReads(u, Error)
    <2>1. Error \in Promise /\ Error # Done
      BY DEF Promise, Error, Done
    <2>2. s \in Readables
      BY DEF Good
    <2>3. /\ u \in Readables /\ u.state = "errored" /\ u.queue = s.queue /\ u.closeRequested = s.closeRequested
          /\ u.reads = s.reads /\ u.accepted = s.accepted /\ u.cancelled = s.cancelled
      BY <2>2 DEF Readables
    <2>4. s.reads \in Seq(Promise) /\ s.cancelled \in BOOLEAN /\ ~s.cancelled
      BY <1>2, <2>2 DEF Readables, Good, Sound, Stated
    <2> HIDE DEF u
    <2>5. /\ t \in Readables /\ t.state = "errored" /\ t.queue = s.queue /\ t.pendingReads = <<>>
          /\ t.closeRequested = s.closeRequested /\ t.reads = Told(s.reads, Error) /\ t.accepted = s.accepted
          /\ t.cancelled = s.cancelled
      BY <2>1, <2>3, SettleFields
    <2> HIDE DEF t
    <2>6. Sound("errored", s.queue, <<>>, s.closeRequested, Told(s.reads, Error), s.accepted, s.cancelled)
      BY <1>2, <2>1, <2>4, SettlesAll DEF Good, Told
    <2>7. Good(t)
      BY <2>5, <2>6 DEF Good
    <2>8. errorReadable(s) = t
      BY <1>2 DEF errorReadable, t, u
    <2> QED
      BY <1>2, <2>4, <2>5, <2>7, <2>8, ToldKept
  <1> QED
    BY <1>1, <1>2

LEMMA CancelGood ==
    ASSUME NEW s, Good(s), s.state # "errored"
    PROVE  LET t == cancelReadable(s) IN
           /\ Good(t) /\ t.state = "closed" /\ t.cancelled
           /\ t.accepted = s.accepted /\ t.closeRequested = s.closeRequested
           /\ Kept(s.reads, t.reads) /\ Len(t.reads) = Len(s.reads)
  <1> DEFINE u == [s EXCEPT !.queue = <<>>, !.state = "closed", !.cancelled = TRUE]  t == SettleReads(u, Done)
  <1>1. Done \in Promise
    BY DEF Promise
  <1>2. s \in Readables /\ <<>> \in Seq(Nat)
    BY EmptySeq DEF Good
  <1>3. /\ u \in Readables /\ u.state = "closed" /\ u.queue = <<>> /\ u.closeRequested = s.closeRequested
        /\ u.reads = s.reads /\ u.accepted = s.accepted /\ u.cancelled = TRUE
    BY <1>2 DEF Readables
  <1>4. s.reads \in Seq(Promise) /\ s.cancelled \in BOOLEAN /\ s.state \in {"readable", "closed"}
    BY <1>2 DEF Readables
  <1> HIDE DEF u
  <1>5. /\ t \in Readables /\ t.state = "closed" /\ t.queue = <<>> /\ t.pendingReads = <<>>
        /\ t.closeRequested = s.closeRequested /\ t.reads = Told(s.reads, Done) /\ t.accepted = s.accepted
        /\ t.cancelled = TRUE
    BY <1>1, <1>3, SettleFields
  <1> HIDE DEF t
  <1>6. Sound("closed", <<>>, <<>>, s.closeRequested, Told(s.reads, Done), s.accepted, TRUE)
    BY <1>4, CancelSound DEF Good
  <1>7. Good(t)
    BY <1>5, <1>6 DEF Good
  <1>8. cancelReadable(s) = t
    BY DEF cancelReadable, t, u
  <1> QED
    BY <1>4, <1>5, <1>7, <1>8, ToldKept

LEMMA EnqueueGood ==
    ASSUME NEW s, Good(s), Active(s), NEW c \in Nat, NEW h
    PROVE  LET t == enqueue(s, c, h) IN
           /\ Good(t) /\ t.state = "readable" /\ ~t.closeRequested
           /\ t.accepted = Append(s.accepted, c) /\ t.cancelled = s.cancelled
           /\ Kept(s.reads, t.reads) /\ Len(t.reads) = Len(s.reads)
  <1>1. /\ s \in Readables /\ s.state = "readable" /\ ~s.closeRequested
        /\ Sound("readable", s.queue, s.pendingReads, s.closeRequested, s.reads, s.accepted, s.cancelled)
    BY DEF Good, Active
  <1>2. Append(s.accepted, c) \in Seq(Nat) /\ Append(s.queue, c) \in Seq(Nat)
    BY <1>1 DEF Readables
  <1>3. CASE s.pendingReads = <<>>
    <2> DEFINE u == [s EXCEPT !.accepted = Append(@, c), !.queue = Append(@, c)]
    <2>1. /\ u \in Readables /\ u.state = "readable" /\ u.queue = Append(s.queue, c)
          /\ u.pendingReads = s.pendingReads /\ u.closeRequested = s.closeRequested
          /\ u.reads = s.reads /\ u.accepted = Append(s.accepted, c) /\ u.cancelled = s.cancelled
      BY <1>1, <1>2 DEF Readables
    <2>2. enqueue(s, c, h) = pullIfNeeded(u, h)
      BY <1>1, <1>3 DEF enqueue, Readables
    <2> HIDE DEF u
    <2>3. Sound("readable", Append(s.queue, c), s.pendingReads, s.closeRequested, s.reads, Append(s.accepted, c), s.cancelled)
      BY <1>1, <1>3, QueuesChunk
    <2>4. Good(u)
      BY <2>1, <2>3 DEF Good
    <2> QED
      BY <1>1, <2>1, <2>2, <2>4, PullFields, PullGood DEF Kept
  <1>4. CASE s.pendingReads # <<>>
    <2> DEFINE first == Head(s.pendingReads)  after == [s.reads EXCEPT ![first] = GotChunk(c)]
               t == enqueue(s, c, h)
    <2>1. Sound("readable", s.queue, Tail(s.pendingReads), s.closeRequested, after, Append(s.accepted, c), s.cancelled)
      BY <1>1, <1>4, ServesRead
    <2>2. Tail(s.pendingReads) \in Seq(Nat) /\ after \in Seq(Promise)
      BY <2>1 DEF Sound, Typed
    <2>3. t = [s EXCEPT !.accepted = Append(@, c), !.pendingReads = Tail(@), !.reads[first] = GotChunk(c)]
      BY <1>4 DEF enqueue
    <2> HIDE DEF t
    <2>4. /\ t \in Readables /\ t.state = "readable" /\ t.queue = s.queue
          /\ t.pendingReads = Tail(s.pendingReads) /\ t.closeRequested = s.closeRequested
          /\ t.reads = after /\ t.accepted = Append(s.accepted, c) /\ t.cancelled = s.cancelled
      BY <1>1, <1>2, <2>2, <2>3 DEF Readables
    <2>5. s.reads[first] = Pending
      <3>1. s.pendingReads \in Seq(Nat) /\ s.reads \in Seq(Promise) /\ Numbered(s.pendingReads, s.reads)
        BY <1>1 DEF Sound, Typed
      <3> QED
        BY <1>4, <3>1, FirstWaits
    <2>6. Kept(s.reads, after) /\ Len(after) = Len(s.reads)
      <3>1. s.reads \in Seq(Promise)
        BY <1>1 DEF Readables
      <3> HIDE DEF first
      <3> QED
        BY <2>5, <3>1 DEF Kept
    <2> HIDE DEF after
    <2>7. Good(t)
      BY <2>1, <2>4 DEF Good
    <2> QED
      BY <1>1, <2>4, <2>6, <2>7 DEF t
  <1> QED
    BY <1>3, <1>4

LEMMA ReadGood ==
    ASSUME NEW s, Good(s), NEW h
    PROVE  LET t == read(s, h) IN
           /\ Good(t) /\ (t.state = s.state \/ (t.state = "closed" /\ s.closeRequested))
           /\ t.accepted = s.accepted /\ t.closeRequested = s.closeRequested
           /\ t.cancelled = s.cancelled /\ Kept(s.reads, t.reads) /\ Len(t.reads) = Len(s.reads) + 1
  <1>1. /\ s \in Readables /\ s.reads \in Seq(Promise) /\ s.queue \in Seq(Nat) /\ s.pendingReads \in Seq(Nat)
        /\ s.state \in {"readable", "closed", "errored"} /\ s.closeRequested \in BOOLEAN /\ s.cancelled \in BOOLEAN
        /\ Sound(s.state, s.queue, s.pendingReads, s.closeRequested, s.reads, s.accepted, s.cancelled)
    BY DEF Good, Readables
  <1>2. Done \in Promise /\ Error \in Promise /\ Pending \in Promise
    BY DEF Promise
  <1>3. ASSUME s.queue # <<>> PROVE LET t == read(s, h) IN
           /\ Good(t) /\ (t.state = s.state \/ (t.state = "closed" /\ s.closeRequested))
           /\ t.accepted = s.accepted /\ t.closeRequested = s.closeRequested
           /\ t.cancelled = s.cancelled /\ Kept(s.reads, t.reads) /\ Len(t.reads) = Len(s.reads) + 1
    <2> DEFINE chunk == GotChunk(Head(s.queue))  after == Append(s.reads, chunk)  rest == Tail(s.queue)
               over == s.closeRequested /\ rest = <<>>
               u == [s EXCEPT !.queue = rest, !.reads = after]  v == pullIfNeeded(u, h)
               t == finalizeIfDone(v)
    <2>1. /\ Sound(IF over THEN "closed" ELSE s.state, rest, s.pendingReads, s.closeRequested, after,
                   s.accepted, s.cancelled)
          /\ s.pendingReads = <<>>
          /\ \A i \in 1 .. Len(s.reads) + 1 : after[i] # Pending
      BY <1>1, <1>3, TakesChunk
    <2>2. chunk \in Promise /\ rest \in Seq(Nat)
      BY <1>1, <1>3, Headed DEF Promise
    <2>3. after \in Seq(Promise) /\ Len(after) = Len(s.reads) + 1 /\ Kept(s.reads, after)
      BY <1>1, <2>2, KeptAppended, Appended
    <2>4. read(s, h) = t
      BY <1>1, <1>3 DEF read, Readables
    <2> HIDE DEF chunk, after, rest, over
    <2>5. /\ u \in Readables /\ u.state = s.state /\ u.queue = rest /\ u.pendingReads = s.pendingReads
          /\ u.closeRequested = s.closeRequested /\ u.reads = after /\ u.accepted = s.accepted
          /\ u.cancelled = s.cancelled
      BY <1>1, <2>2, <2>3 DEF Readables
    <2> HIDE DEF u
    <2>6. /\ v \in Readables /\ v.state = s.state /\ v.queue = rest /\ v.pendingReads = s.pendingReads
          /\ v.closeRequested = s.closeRequested /\ v.reads = after /\ v.accepted = s.accepted
          /\ v.cancelled = s.cancelled
      BY <2>5, PullFields
    <2> HIDE DEF v
    <2>7. /\ t \in Readables /\ t.state = (IF over THEN "closed" ELSE s.state) /\ t.queue = rest
          /\ t.pendingReads = <<>> /\ t.closeRequested = s.closeRequested /\ t.reads = after
          /\ t.accepted = s.accepted /\ t.cancelled = s.cancelled
      <3>1. CASE over
        <4> DEFINE w == [v EXCEPT !.state = "closed"]
        <4>1. /\ w \in Readables /\ w.state = "closed" /\ w.queue = rest
              /\ w.closeRequested = s.closeRequested /\ w.reads = after /\ w.accepted = s.accepted
              /\ w.cancelled = s.cancelled
          BY <2>6 DEF Readables
        <4>2. t = SettleReads(w, Done)
          BY <2>6, <3>1 DEF finalizeIfDone, over
        <4> HIDE DEF w
        <4>3. Told(after, Done) = after
          BY <2>1, <2>3 DEF Told
        <4> QED
          BY <1>2, <3>1, <4>1, <4>2, <4>3, SettleFields
      <3>2. CASE ~over
        BY <2>1, <2>6, <3>2 DEF finalizeIfDone, over
      <3> QED
        BY <3>1, <3>2
    <2> HIDE DEF t
    <2>8. Good(t)
      BY <2>1, <2>7 DEF Good
    <2> QED
      BY <2>3, <2>4, <2>7, <2>8 DEF over
  <1>4. ASSUME NEW p \in {Done, Error}, s.queue = <<>>, p = Done => s.state = "closed",
               p = Error => s.state = "errored"
        PROVE LET t == [s EXCEPT !.reads = Append(@, p)] IN
              /\ Good(t) /\ t.state = s.state
              /\ t.accepted = s.accepted /\ t.closeRequested = s.closeRequested
              /\ t.cancelled = s.cancelled /\ Kept(s.reads, t.reads) /\ Len(t.reads) = Len(s.reads) + 1
    <2> DEFINE after == Append(s.reads, p)  t == [s EXCEPT !.reads = after]
    <2>1. Sound(s.state, s.queue, s.pendingReads, s.closeRequested, after, s.accepted, s.cancelled)
      BY <1>1, <1>4, FindsNone
    <2>2. after \in Seq(Promise) /\ Len(after) = Len(s.reads) + 1 /\ Kept(s.reads, after)
      BY <1>1, <1>2, KeptAppended, Appended
    <2> HIDE DEF after
    <2>3. /\ t \in Readables /\ t.state = s.state /\ t.queue = s.queue /\ t.pendingReads = s.pendingReads
          /\ t.closeRequested = s.closeRequested /\ t.reads = after /\ t.accepted = s.accepted
          /\ t.cancelled = s.cancelled
      BY <1>1, <2>2 DEF Readables
    <2>4. Good(t)
      BY <2>1, <2>3 DEF Good
    <2> QED
      BY <2>2, <2>3, <2>4 DEF after
  <1>5. ASSUME s.queue = <<>>, s.state = "readable" PROVE LET t == read(s, h) IN
           /\ Good(t) /\ t.state = s.state
           /\ t.accepted = s.accepted /\ t.closeRequested = s.closeRequested
           /\ t.cancelled = s.cancelled /\ Kept(s.reads, t.reads) /\ Len(t.reads) = Len(s.reads) + 1
    <2> DEFINE after == Append(s.reads, Pending)  all == Append(s.pendingReads, Len(s.reads) + 1)
               u == [s EXCEPT !.pendingReads = all, !.reads = after]
    <2>1. Sound(s.state, s.queue, all, s.closeRequested, after, s.accepted, s.cancelled)
      BY <1>1, <1>5, FindsNone
    <2>2. after \in Seq(Promise) /\ Len(after) = Len(s.reads) + 1 /\ Kept(s.reads, after) /\ all \in Seq(Nat)
      BY <1>1, <1>2, KeptAppended, Appended
    <2>3. read(s, h) = pullIfNeeded(u, h)
      BY <1>5 DEF read
    <2> HIDE DEF after, all
    <2>4. /\ u \in Readables /\ u.state = s.state /\ u.queue = s.queue /\ u.pendingReads = all
          /\ u.closeRequested = s.closeRequested /\ u.reads = after /\ u.accepted = s.accepted
          /\ u.cancelled = s.cancelled
      BY <1>1, <2>2 DEF Readables
    <2> HIDE DEF u
    <2>5. Good(u)
      BY <2>1, <2>4 DEF Good
    <2> QED
      BY <2>2, <2>3, <2>4, <2>5, PullFields, PullGood
  <1>6. ASSUME s.queue = <<>>, s.state = "closed" PROVE read(s, h) = [s EXCEPT !.reads = Append(@, Done)]
    BY <1>6 DEF read
  <1>7. ASSUME s.queue = <<>>, s.state = "errored" PROVE read(s, h) = [s EXCEPT !.reads = Append(@, Error)]
    BY <1>7 DEF read
  <1>8. Done # Error
    BY DEF Done, Error
  <1> QED
    BY <1>1, <1>3, <1>4, <1>5, <1>6, <1>7, <1>8

-----------------------------------------------------------------------------
(* The writable stream.                                                     *)

Items == [kind : {"chunk", "close"}, chunk : Nat, of : Nat]
Answer == {"pending", "resolved", "rejected"}
Writables == [state : {"writable", "closed", "errored"}, queue : Seq(Items), at : {"idle", "write", "close"},
              now : Nat, direct : SUBSET Nat, writes : Seq(Answer), closes : Seq(Answer), own : Nat,
              sink : Seq(Nat)]

(* The first close sentinel of a queue.                                     *)
LEMMA FirstClose ==
    ASSUME NEW q \in Seq(Items)
    PROVE  LET first == SelectInSeq(q, IsClose) IN
           /\ first = 0 => \A i \in 1 .. Len(q) : q[i].kind # "close"
           /\ first # 0 => first \in 1 .. Len(q) /\ q[first].kind = "close"
  <1> DEFINE I == {i \in 1 .. Len(q) : IsClose(q[i])}
  <1>1. SelectInSeq(q, IsClose) = IF I # {} THEN Min(I) ELSE 0
    BY DEF SelectInSeq
  <1>2. I \in SUBSET (1 .. Len(q)) /\ Len(q) \in Nat
    OBVIOUS
  <1>3. ASSUME I # {} PROVE \E i \in I : \A j \in I : i <= j
    BY <1>2, <1>3, FirstPlace
  <1>4. I # {} => Min(I) \in I
    BY <1>3 DEF Min
  <1>5. 0 \notin I
    OBVIOUS
  <1> QED
    BY <1>1, <1>4, <1>5 DEF IsClose

(* Promises of write() or close(): some of those that waited were rejected. *)
Rejects(old, new) ==
    /\ new \in Seq(Answer) /\ Len(new) = Len(old)
    /\ \A i \in 1 .. Len(old) : new[i] = old[i] \/ (old[i] = "pending" /\ new[i] = "rejected")

LEMMA RejectedItems ==
    ASSUME NEW p \in Seq(Answer), NEW items, NEW kind
    PROVE  Rejects(p, RejectItems(p, items, kind)) /\ RejectItems(p, items, kind) \in Seq(Answer)
  <1> DEFINE new == RejectItems(p, items, kind)
  <1>1. /\ Len(p) \in Nat /\ DOMAIN p = 1 .. Len(p)
        /\ \A i \in 1 .. Len(p) : p[i] \in Answer
    OBVIOUS
  <1>2. DOMAIN new = 1 .. Len(p) /\ \A i \in 1 .. Len(p) : new[i] = p[i] \/ (p[i] = "pending" /\ new[i] = "rejected")
    BY <1>1 DEF RejectItems
  <1>3. new \in [1 .. Len(p) -> Answer]
    <2>1. new = [i \in 1 .. Len(p) |-> new[i]]
      BY <1>1 DEF RejectItems
    <2> HIDE DEF new
    <2> QED
      BY <1>1, <1>2, <2>1 DEF Answer
  <1>4. new \in Seq(Answer) /\ Len(new) = Len(p)
    BY <1>1, <1>3
  <1> QED
    BY <1>2, <1>4 DEF Rejects

LEMMA RejectsNone ==
    ASSUME NEW p \in Seq(Answer)
    PROVE  Rejects(p, p)
  BY DEF Rejects

LEMMA SetOnceOne ==
    ASSUME NEW p \in Seq(Answer), NEW i, NEW o \in Answer
    PROVE  /\ SetOnce(p, i, o) \in Seq(Answer) /\ Len(SetOnce(p, i, o)) = Len(p)
           /\ \A j \in 1 .. Len(p) : SetOnce(p, i, o)[j] = p[j] \/ (j = i /\ p[j] = "pending" /\ SetOnce(p, i, o)[j] = o)
  <1>1. CASE p[i] = "pending"
    <2>1. SetOnce(p, i, o) = [p EXCEPT ![i] = o]
      BY <1>1 DEF SetOnce
    <2> DEFINE new == [p EXCEPT ![i] = o]
    <2>2. /\ Len(p) \in Nat /\ DOMAIN new = 1 .. Len(p)
          /\ \A j \in 1 .. Len(p) : p[j] \in Answer /\ new[j] = IF j = i THEN o ELSE p[j]
      OBVIOUS
    <2>3. new = [j \in 1 .. Len(p) |-> new[j]]
      OBVIOUS
    <2> HIDE DEF new
    <2>4. new \in [1 .. Len(p) -> Answer]
      BY <2>2, <2>3
    <2>5. new \in Seq(Answer) /\ Len(new) = Len(p)
      BY <2>2, <2>4
    <2>6. \A j \in 1 .. Len(p) : new[j] = p[j] \/ (j = i /\ p[j] = "pending" /\ new[j] = o)
      BY <1>1, <2>2
    <2> QED
      BY <2>1, <2>5, <2>6 DEF new
  <1>2. CASE p[i] # "pending"
    BY <1>2 DEF SetOnce
  <1> QED
    BY <1>1, <1>2

(* What the pump does up to its next await.                                 *)
LEMMA RunPumpFields ==
    ASSUME NEW w \in Writables
    PROVE  LET t == RunPump(w) IN
           /\ t \in Writables /\ t.state = w.state /\ t.closes = w.closes /\ t.own = w.own
           /\ t.direct = w.direct /\ Rejects(w.writes, t.writes)
           /\ t.at = "idle" => t.queue = <<>>
           /\ t.at # "write" => t.sink = w.sink
           /\ t.at = "write" => /\ w.state = "writable" /\ w.queue # <<>> /\ Head(w.queue).kind = "chunk"
                                /\ t.queue = w.queue /\ t.now = Head(w.queue).of /\ t.writes = w.writes
                                /\ t.sink = Append(w.sink, Head(w.queue).chunk)
  <1> DEFINE first == SelectInSeq(w.queue, IsClose)
             refused == IF w.state = "writable" THEN <<>>
                        ELSE IF first = 0 THEN w.queue ELSE SubSeq(w.queue, 1, first - 1)
             rest == SubSeq(w.queue, Len(refused) + 1, Len(w.queue))
             after == RejectItems(w.writes, refused, "chunk")
             t == RunPump(w)
  <1>1. /\ w.queue \in Seq(Items) /\ Len(w.queue) \in Nat /\ w.writes \in Seq(Answer) /\ w.sink \in Seq(Nat)
    BY DEF Writables
  <1>2. /\ first = 0 => \A i \in 1 .. Len(w.queue) : w.queue[i].kind # "close"
        /\ first # 0 => first \in 1 .. Len(w.queue) /\ w.queue[first].kind = "close"
    BY <1>1, FirstClose
  <1> HIDE DEF first
  <1>3. /\ Len(refused) \in 0 .. Len(w.queue)
        /\ w.state = "writable" => Len(refused) = 0
        /\ w.state # "writable" => \/ Len(refused) = Len(w.queue)
                                   \/ Len(refused) + 1 = first /\ first # 0
    <2>1. CASE w.state = "writable"
      BY <1>1, <2>1
    <2>2. CASE w.state # "writable" /\ first = 0
      BY <1>1, <2>2
    <2>3. CASE w.state # "writable" /\ first # 0
      <3>1. Len(SubSeq(w.queue, 1, first - 1)) = first - 1
        BY <1>1, <1>2, <2>3, SubSeqProperties
      <3> QED
        BY <1>1, <1>2, <2>3, <3>1
    <2> QED
      BY <2>1, <2>2, <2>3
  <1>4. Rejects(w.writes, after) /\ after \in Seq(Answer)
    BY <1>1, RejectedItems
  <1>5. w.state = "writable" => after = w.writes
    <2>1. ASSUME w.state = "writable" PROVE after = RejectItems(w.writes, <<>>, "chunk")
      BY <2>1
    <2>2. RejectItems(w.writes, <<>>, "chunk") = [i \in DOMAIN w.writes |-> w.writes[i]]
      <3>1. DOMAIN <<>> = {}
        OBVIOUS
      <3> QED
        BY <3>1 DEF RejectItems
    <2>3. [i \in DOMAIN w.writes |-> w.writes[i]] = w.writes
      BY <1>1
    <2> QED
      BY <2>1, <2>2, <2>3
  <1> HIDE DEF refused
  <1>6. /\ rest \in Seq(Items) /\ (w.state = "writable" => rest = w.queue)
        /\ w.state # "writable" /\ rest # <<>> => Head(rest).kind = "close"
    <2>1. rest \in Seq(Items) /\ Len(rest) = (IF Len(refused) + 1 <= Len(w.queue) THEN Len(w.queue) - Len(refused) ELSE 0)
          /\ (Len(refused) + 1 <= Len(w.queue) => rest[1] = w.queue[Len(refused) + 1])
      BY <1>1, <1>3, SubSeqProperties
    <2>2. w.state = "writable" => rest = w.queue
      <3>1. w.state = "writable" => rest = SubSeq(w.queue, 1, Len(w.queue))
        BY <1>3
      <3>2. SubSeq(w.queue, 1, Len(w.queue)) = w.queue
        BY <1>1, SubSeqFull
      <3> QED
        BY <3>1, <3>2
    <2> HIDE DEF rest
    <2>3. ASSUME w.state # "writable", rest # <<>> PROVE Head(rest).kind = "close"
      <3>1. Len(rest) >= 1 /\ Head(rest) = rest[1]
        BY <2>1, <2>3, Headed
      <3>2. Len(refused) + 1 = first /\ first # 0
        BY <1>1, <1>3, <2>1, <2>3, <3>1
      <3> QED
        BY <1>1, <1>2, <2>1, <3>1, <3>2
    <2> QED
      BY <2>1, <2>2, <2>3
  <1>7. t = LET v == [w EXCEPT !.queue = rest, !.writes = after] IN
            IF rest = <<>> THEN [v EXCEPT !.at = "idle", !.now = 0]
            ELSE IF Head(rest).kind = "close"
                 THEN [v EXCEPT !.queue = Tail(rest), !.at = "close", !.now = Head(rest).of]
                 ELSE [v EXCEPT !.at = "write", !.now = Head(rest).of,
                                !.sink = Append(@, Head(rest).chunk)]
    BY DEF RunPump, first, refused
  <1> HIDE DEF rest, after, t
  <1>8. CASE rest = <<>>
    <2>1. t = [w EXCEPT !.queue = rest, !.writes = after, !.at = "idle", !.now = 0]
      BY <1>7, <1>8
    <2>2. /\ t \in Writables /\ t.state = w.state /\ t.closes = w.closes /\ t.own = w.own
          /\ t.direct = w.direct /\ t.writes = after /\ t.at = "idle" /\ t.queue = rest /\ t.sink = w.sink
      BY <1>4, <1>6, <2>1 DEF Writables
    <2> QED
      BY <1>4, <1>8, <2>2 DEF t
  <1>9. ASSUME rest # <<>>
        PROVE  /\ Head(rest) \in Items /\ Head(rest).of \in Nat /\ Head(rest).chunk \in Nat
               /\ Head(rest).kind \in {"chunk", "close"} /\ Tail(rest) \in Seq(Items)
    <2>1. Head(rest) \in Items /\ Tail(rest) \in Seq(Items)
      BY <1>6, <1>9, Headed
    <2> QED
      BY <2>1 DEF Items
  <1>10. CASE rest # <<>> /\ Head(rest).kind = "close"
    <2>1. t = [w EXCEPT !.queue = Tail(rest), !.writes = after, !.at = "close", !.now = Head(rest).of]
      BY <1>7, <1>10
    <2>2. /\ t \in Writables /\ t.state = w.state /\ t.closes = w.closes /\ t.own = w.own
          /\ t.direct = w.direct /\ t.writes = after /\ t.at = "close" /\ t.sink = w.sink
      BY <1>4, <1>9, <1>10, <2>1 DEF Writables
    <2> QED
      BY <1>4, <1>10, <2>2 DEF t
  <1>11. CASE rest # <<>> /\ Head(rest).kind # "close"
    <2> DEFINE more == Append(w.sink, Head(rest).chunk)
    <2>1. t = [w EXCEPT !.queue = rest, !.writes = after, !.at = "write", !.now = Head(rest).of, !.sink = more]
      BY <1>7, <1>11
    <2>2. more \in Seq(Nat)
      BY <1>1, <1>9, <1>11
    <2> HIDE DEF more
    <2>3. /\ t \in Writables /\ t.state = w.state /\ t.closes = w.closes /\ t.own = w.own
          /\ t.direct = w.direct /\ t.writes = after /\ t.at = "write" /\ t.queue = rest
          /\ t.now = Head(rest).of /\ t.sink = more
      BY <1>4, <1>6, <1>9, <1>11, <2>1, <2>2 DEF Writables
    <2>4. w.state = "writable"
      BY <1>6, <1>11
    <2> QED
      BY <1>4, <1>5, <1>6, <1>9, <1>11, <2>3, <2>4 DEF t, more
  <1> QED
    BY <1>8, <1>10, <1>11

(* A writable stream whose pump is at rest has nothing queued.              *)
GoodSink(w) ==
    /\ w \in Writables
    /\ w.at = "write" => w.sink # <<>>
    /\ w.at = "idle" => w.queue = <<>>

(* One that a pipe writes to, a chunk at a time: the sink has the chunk     *)
(* that is written, and behind it only ends are queued.                     *)
PipeSink(w) ==
    /\ w.at = "write" => /\ w.now = Len(w.writes) /\ Len(w.writes) >= 1 /\ Len(w.sink) = Len(w.writes)
                         /\ w.writes[Len(w.writes)] # "resolved"
                         /\ \A k \in 2 .. Len(w.queue) : w.queue[k].kind = "close"
    /\ Len(w.sink) <= Len(w.writes)
    /\ \A i \in 1 .. Len(w.writes) : w.writes[i] = "resolved" => i <= Len(w.sink)

(* What was written stays written.                                          *)
Stays(old, new) ==
    Len(new) = Len(old) /\ \A i \in 1 .. Len(old) : old[i] = "resolved" => new[i] = "resolved"

LEMMA RejectsStays ==
    ASSUME NEW old, NEW new, Rejects(old, new)
    PROVE  Stays(old, new) /\ \A i \in 1 .. Len(old) : new[i] = "resolved" => old[i] = "resolved"
  BY DEF Rejects, Stays

LEMMA ErrorFields ==
    ASSUME NEW w \in Writables
    PROVE  LET t == errorWritable(w) IN
           /\ t \in Writables /\ t.state # "writable" /\ t.at = w.at /\ t.now = w.now /\ t.direct = w.direct
           /\ t.own = w.own /\ t.sink = w.sink /\ Rejects(w.writes, t.writes)
           /\ t.queue = w.queue \/ t.queue = <<>>
  <1> DEFINE writes == RejectItems(w.writes, w.queue, "chunk")  closes == RejectItems(w.closes, w.queue, "close")
             t == errorWritable(w)
  <1>1. w.writes \in Seq(Answer) /\ w.closes \in Seq(Answer) /\ <<>> \in Seq(Items)
    BY EmptySeq DEF Writables
  <1>2. Rejects(w.writes, writes) /\ writes \in Seq(Answer) /\ closes \in Seq(Answer)
    BY <1>1, RejectedItems
  <1>3. CASE w.state # "writable"
    BY <1>1, <1>3, RejectsNone DEF errorWritable
  <1>4. CASE w.state = "writable"
    <2>1. t = [w EXCEPT !.state = "errored", !.queue = <<>>, !.writes = writes, !.closes = closes]
      BY <1>4 DEF errorWritable
    <2> HIDE DEF t, writes, closes
    <2>2. /\ t \in Writables /\ t.state = "errored" /\ t.at = w.at /\ t.now = w.now /\ t.direct = w.direct
          /\ t.own = w.own /\ t.sink = w.sink /\ t.writes = writes /\ t.queue = <<>>
      BY <1>1, <1>2, <2>1 DEF Writables
    <2> QED
      BY <1>2, <2>2 DEF t
  <1> QED
    BY <1>3, <1>4

LEMMA ErrorSink ==
    ASSUME NEW w, GoodSink(w)
    PROVE  LET t == errorWritable(w) IN
           /\ GoodSink(t) /\ t.sink = w.sink /\ Stays(w.writes, t.writes)
           /\ PipeSink(w) => PipeSink(t)
  <1> DEFINE t == errorWritable(w)
  <1>1. /\ t \in Writables /\ t.at = w.at /\ t.now = w.now /\ t.sink = w.sink /\ Rejects(w.writes, t.writes)
        /\ t.queue = w.queue \/ t.queue = <<>>
    BY ErrorFields DEF GoodSink
  <1> HIDE DEF t
  <1>2. GoodSink(t) /\ Stays(w.writes, t.writes)
    BY <1>1, RejectsStays DEF GoodSink
  <1>3. ASSUME PipeSink(w) PROVE PipeSink(t)
    <2>1. /\ Len(t.writes) = Len(w.writes) /\ Len(w.writes) \in Nat
          /\ \A i \in 1 .. Len(w.writes) : t.writes[i] = "resolved" => w.writes[i] = "resolved"
      <3>1. w.writes \in Seq(Answer)
        BY DEF GoodSink, Writables
      <3> QED
        BY <1>1, <3>1, RejectsStays DEF Rejects
    <2>2. \A k \in 2 .. Len(t.queue) : t.queue = w.queue
      BY <1>1
    <2> QED
      BY <1>1, <1>3, <2>1, <2>2 DEF PipeSink
  <1> QED
    BY <1>1, <1>2, <1>3 DEF t

LEMMA CloseSink ==
    ASSUME NEW w, GoodSink(w)
    PROVE  LET t == closeWritable(w) IN
           /\ GoodSink(t) /\ t.sink = w.sink /\ t.writes = w.writes
           /\ PipeSink(w) => PipeSink(t)
  <1> DEFINE i == Len(w.closes) + 1  t == closeWritable(w)
  <1>1. /\ w \in Writables /\ w.closes \in Seq(Answer) /\ w.queue \in Seq(Items) /\ w.direct \in SUBSET Nat
        /\ w.at \in {"idle", "write", "close"} /\ w.state \in {"writable", "closed", "errored"}
    BY DEF GoodSink, Writables
  <1>2. /\ i \in Nat /\ Append(w.closes, "rejected") \in Seq(Answer) /\ Append(w.closes, "pending") \in Seq(Answer)
        /\ CloseItem(i) \in Items /\ CloseItem(i).kind = "close"
    BY <1>1 DEF Answer, CloseItem, Items
  <1> HIDE DEF i
  <1>3. CASE w.state # "writable"
    <2>1. t = [w EXCEPT !.closes = Append(@, "rejected")]
      BY <1>3 DEF closeWritable
    <2> HIDE DEF t
    <2>2. /\ t \in Writables /\ t.sink = w.sink /\ t.writes = w.writes /\ t.at = w.at /\ t.queue = w.queue
          /\ t.now = w.now
      BY <1>1, <1>2, <2>1 DEF Writables
    <2> QED
      BY <2>2 DEF GoodSink, PipeSink, t
  <1>4. CASE w.state = "writable" /\ w.queue = <<>> /\ w.at = "idle"
    <2>1. t = [w EXCEPT !.closes = Append(@, "pending"), !.direct = @ \cup {i}]
      BY <1>4 DEF closeWritable, i
    <2> HIDE DEF t
    <2>2. /\ t \in Writables /\ t.sink = w.sink /\ t.writes = w.writes /\ t.at = w.at /\ t.queue = w.queue
          /\ t.now = w.now
      BY <1>1, <1>2, <2>1 DEF Writables
    <2> QED
      BY <2>2 DEF GoodSink, PipeSink, t
  <1>5. CASE w.state = "writable" /\ w.at # "idle"
    <2> DEFINE more == Append(w.queue, CloseItem(i))
    <2>1. t = [w EXCEPT !.closes = Append(@, "pending"), !.queue = more]
      BY <1>1, <1>5 DEF closeWritable, Pumped, Writables, i
    <2>2. /\ more \in Seq(Items) /\ Len(more) = Len(w.queue) + 1 /\ Len(w.queue) \in Nat
          /\ \A k \in 1 .. Len(w.queue) : more[k] = w.queue[k]
          /\ more[Len(w.queue) + 1] = CloseItem(i)
      BY <1>1, <1>2, Appended
    <2> HIDE DEF t, more
    <2>3. /\ t \in Writables /\ t.sink = w.sink /\ t.writes = w.writes /\ t.at = w.at /\ t.queue = more
          /\ t.now = w.now
      BY <1>1, <1>2, <2>1, <2>2 DEF Writables
    <2>4. ASSUME \A k \in 2 .. Len(w.queue) : w.queue[k].kind = "close"
          PROVE  \A k \in 2 .. Len(more) : more[k].kind = "close"
      <3> TAKE k \in 2 .. Len(more)
      <3>1. CASE k \in 2 .. Len(w.queue)
        BY <2>2, <2>4, <3>1
      <3>2. CASE k = Len(w.queue) + 1
        BY <1>2, <2>2, <3>2
      <3> QED
        BY <2>2, <3>1, <3>2
    <2>5. PipeSink(w) => PipeSink(t)
      BY <2>3, <2>4 DEF PipeSink
    <2> QED
      BY <1>5, <2>3, <2>5 DEF GoodSink, t
  <1> QED
    BY <1>1, <1>3, <1>4, <1>5 DEF GoodSink

LEMMA PumpSink ==
    ASSUME NEW w \in Writables
    PROVE  GoodSink(RunPump(w))
  <1> DEFINE t == RunPump(w)
  <1>1. /\ t \in Writables /\ (t.at = "idle" => t.queue = <<>>)
        /\ t.at = "write" => w.queue # <<>> /\ t.sink = Append(w.sink, Head(w.queue).chunk)
    BY RunPumpFields
  <1>2. w.sink \in Seq(Nat) /\ w.queue \in Seq(Items)
    BY DEF Writables
  <1>3. ASSUME w.queue # <<>> PROVE Append(w.sink, Head(w.queue).chunk) # <<>>
    <2>1. Head(w.queue).chunk \in Nat
      <3>1. Head(w.queue) \in Items
        BY <1>2, <1>3, Headed
      <3> QED
        BY <3>1 DEF Items
    <2> QED
      BY <1>2, <2>1, Appended
  <1> QED
    BY <1>1, <1>3 DEF GoodSink

LEMMA WriteSink ==
    ASSUME NEW w, GoodSink(w), NEW c \in Nat
    PROVE  LET t == write(w, c) IN
           /\ GoodSink(t) /\ Len(t.writes) = Len(w.writes) + 1
           /\ PipeSink(w) /\ (\A i \in 1 .. Len(w.writes) : w.writes[i] = "resolved") =>
                 /\ PipeSink(t) /\ \A i \in 1 .. Len(w.writes) : t.writes[i] = "resolved"
                 /\ t.sink = w.sink \/ t.sink = Append(w.sink, c)
                 /\ Len(w.sink) = Len(w.writes)
  <1> DEFINE n == Len(w.writes)  i == n + 1  t == write(w, c)  item == ChunkItem(c, i)
             waits == Append(w.writes, "pending")  more == Append(w.queue, item)
             v == [w EXCEPT !.writes = waits, !.queue = more]
             Written == \A k \in 1 .. n : w.writes[k] = "resolved"
  <1>1. /\ w \in Writables /\ w.writes \in Seq(Answer) /\ w.queue \in Seq(Items) /\ w.sink \in Seq(Nat)
        /\ w.at \in {"idle", "write", "close"} /\ w.state \in {"writable", "closed", "errored"}
    BY DEF GoodSink, Writables
  <1>2. item \in Items /\ item.kind = "chunk" /\ item.of = i /\ item.chunk = c /\ i \in Nat /\ n \in Nat
    BY <1>1 DEF ChunkItem, Items
  <1>3. ASSUME NEW a \in Answer
        PROVE  LET p == Append(w.writes, a) IN
               /\ p \in Seq(Answer) /\ Len(p) = i /\ p[i] = a /\ \A k \in 1 .. n : p[k] = w.writes[k]
               /\ 1 .. i = 1 .. n \cup {i}
    BY <1>1, Appended
  <1>4. "pending" \in Answer /\ "rejected" \in Answer
    BY DEF Answer
  <1>5. /\ more \in Seq(Items) /\ Len(more) = Len(w.queue) + 1 /\ Len(w.queue) \in Nat
        /\ more[Len(w.queue) + 1] = item /\ more # <<>>
    BY <1>1, <1>2, Appended
  <1>6. ASSUME PipeSink(w), Written
        PROVE  w.at # "write" /\ Len(w.sink) = n
    <2>1. n >= 1 => w.writes[n] = "resolved"
      BY <1>2, <1>6
    <2>2. w.at # "write"
      BY <1>6, <2>1 DEF PipeSink
    <2>3. Len(w.sink) \in Nat /\ Len(w.sink) <= n
      BY <1>1, <1>6 DEF PipeSink
    <2>4. n >= 1 => n <= Len(w.sink)
      BY <1>2, <1>6, <2>1 DEF PipeSink
    <2> QED
      BY <1>2, <2>2, <2>3, <2>4
  <1> HIDE DEF item, i, n
  <1>7. CASE w.state # "writable"
    <2> DEFINE refused == Append(w.writes, "rejected")
    <2>1. t = [w EXCEPT !.writes = refused]
      BY <1>7 DEF write
    <2>2. /\ refused \in Seq(Answer) /\ Len(refused) = i /\ refused[i] = "rejected"
          /\ \A k \in 1 .. n : refused[k] = w.writes[k]
      BY <1>3, <1>4
    <2> HIDE DEF t, refused
    <2>3. /\ t \in Writables /\ t.sink = w.sink /\ t.writes = refused /\ t.at = w.at /\ t.queue = w.queue
      BY <1>1, <2>1, <2>2 DEF Writables
    <2>4. GoodSink(t)
      BY <2>3 DEF GoodSink
    <2>5. ASSUME PipeSink(w), Written PROVE PipeSink(t)
      <3>1. Len(t.sink) = n /\ t.at # "write" /\ Len(t.writes) = n + 1
        BY <1>6, <2>2, <2>3, <2>5 DEF i
      <3>2. \A k \in 1 .. n + 1 : t.writes[k] = "resolved" => k <= n
        BY <1>2, <2>2, <2>3 DEF i
      <3> QED
        BY <1>2, <3>1, <3>2 DEF PipeSink
    <2> QED
      BY <1>6, <2>2, <2>3, <2>4, <2>5 DEF t, n, i
  <1>8. /\ v \in Writables /\ v.sink = w.sink /\ v.writes = waits /\ v.queue = more /\ v.at = w.at
        /\ waits \in Seq(Answer) /\ Len(waits) = i /\ waits[i] = "pending"
        /\ \A k \in 1 .. n : waits[k] = w.writes[k]
    <2>1. /\ waits \in Seq(Answer) /\ Len(waits) = i /\ waits[i] = "pending"
          /\ \A k \in 1 .. n : waits[k] = w.writes[k]
      BY <1>3, <1>4
    <2> HIDE DEF waits, more
    <2> QED
      BY <1>1, <1>5, <2>1 DEF Writables
  <1>9. w.state = "writable" => t = Pumped(v)
    BY DEF write, item, i, n
  <1> HIDE DEF v, waits
  <1>10. CASE w.state = "writable" /\ w.at # "idle"
    <2>1. t = v
      BY <1>8, <1>9, <1>10 DEF Pumped
    <2>2. GoodSink(v)
      BY <1>8, <1>10 DEF GoodSink
    <2>3. ASSUME PipeSink(w), Written PROVE PipeSink(v)
      <3>1. Len(v.sink) = n /\ v.at # "write" /\ Len(v.writes) = n + 1
        BY <1>6, <1>8, <2>3 DEF i
      <3>2. \A k \in 1 .. n + 1 : v.writes[k] = "resolved" => k <= n
        BY <1>2, <1>8 DEF i
      <3> QED
        BY <1>2, <3>1, <3>2 DEF PipeSink
    <2> QED
      BY <1>6, <1>8, <2>1, <2>2, <2>3 DEF n, i
  <1>11. CASE w.state = "writable" /\ w.at = "idle"
    <2>1. t = RunPump(v)
      BY <1>8, <1>9, <1>11 DEF Pumped
    <2> HIDE DEF t, more
    <2>2. GoodSink(t)
      BY <1>8, <2>1, PumpSink
    <2>3. /\ Rejects(waits, t.writes) /\ t.writes \in Seq(Answer)
          /\ t.at # "write" => t.sink = w.sink
          /\ t.at = "write" => /\ t.queue = more /\ t.now = Head(more).of /\ t.writes = waits
                               /\ t.sink = Append(w.sink, Head(more).chunk)
      <3>1. /\ Rejects(v.writes, t.writes)
            /\ t.at # "write" => t.sink = v.sink
            /\ t.at = "write" => /\ t.queue = v.queue /\ t.now = Head(v.queue).of /\ t.writes = v.writes
                                 /\ t.sink = Append(v.sink, Head(v.queue).chunk)
        BY <1>8, <2>1, RunPumpFields
      <3>2. t.writes \in Seq(Answer)
        BY <3>1 DEF Rejects
      <3> QED
        BY <1>8, <3>1, <3>2
    <2>4. Len(more) = 1 /\ Head(more) = item
      <3>1. w.queue = <<>>
        BY <1>11 DEF GoodSink
      <3>2. Len(w.queue) = 0
        BY <3>1
      <3> QED
        BY <1>5, <3>2, Headed
    <2>5. /\ Len(t.writes) = i /\ \A k \in 1 .. n : t.writes[k] = "resolved" <=> w.writes[k] = "resolved"
          /\ t.writes[i] # "resolved"
      <3>1. /\ Len(t.writes) = i
            /\ \A k \in 1 .. i : t.writes[k] = waits[k] \/ (waits[k] = "pending" /\ t.writes[k] = "rejected")
        BY <1>8, <2>3 DEF Rejects
      <3>2. 1 .. i = 1 .. n \cup {i}
        BY <1>2 DEF i
      <3> QED
        BY <1>8, <3>1, <3>2
    <2>6. t.sink = w.sink \/ t.sink = Append(w.sink, c)
      BY <1>2, <2>3, <2>4
    <2>7. ASSUME PipeSink(w), Written PROVE PipeSink(t)
      <3>1. Len(w.sink) = n
        BY <1>6, <2>7
      <3>2. Len(Append(w.sink, c)) = n + 1
        BY <1>1, <3>1
      <3>3. \A k \in 1 .. i : t.writes[k] = "resolved" => k \in 1 .. n
        BY <1>2, <2>5 DEF i
      <3>4. CASE t.at # "write"
        BY <1>2, <2>3, <2>5, <3>1, <3>3, <3>4 DEF PipeSink, i
      <3>5. CASE t.at = "write"
        <4>1. Len(t.sink) = i /\ t.now = i /\ t.queue = more
          BY <1>2, <2>3, <2>4, <3>2, <3>5 DEF i
        <4>2. \A k \in 2 .. Len(t.queue) : FALSE
          <5>1. Len(t.queue) = 1
            BY <2>4, <4>1
          <5> QED
            BY <5>1
        <4>3. \A k \in 1 .. i : k <= i
          BY <1>2
        <4> QED
          BY <1>2, <2>5, <4>1, <4>2, <4>3 DEF PipeSink, i
      <3> QED
        BY <3>4, <3>5
    <2> QED
      BY <1>6, <2>2, <2>5, <2>6, <2>7 DEF n, i, t
  <1> QED
    BY <1>7, <1>10, <1>11

(* underlying.write has settled: nothing more is written by a pipe.         *)
LEMMA SettledSink ==
    ASSUME NEW w, GoodSink(w), w.at = "write", NEW ok \in BOOLEAN
    PROVE  LET t == WriteSettled(w, ok) IN
           /\ GoodSink(t)
           /\ PipeSink(w) => PipeSink(t) /\ t.sink = w.sink /\ Stays(w.writes, t.writes)
  <1> DEFINE v == IF ok THEN w ELSE errorWritable(w)  answer == IF ok THEN "resolved" ELSE "rejected"
             settled == SetOnce(v.writes, w.now, answer)
             rest == IF v.queue = <<>> THEN v.queue ELSE Tail(v.queue)
             u == [v EXCEPT !.writes = settled, !.queue = rest]  t == WriteSettled(w, ok)
  <1>1. w \in Writables /\ w.writes \in Seq(Answer) /\ w.queue \in Seq(Items) /\ answer \in Answer
    BY DEF GoodSink, Writables, Answer
  <1>2. /\ v \in Writables /\ v.sink = w.sink /\ Rejects(w.writes, v.writes)
        /\ v.queue = w.queue \/ v.queue = <<>>
    <2>1. CASE ok
      BY <1>1, <2>1, RejectsNone
    <2>2. CASE ~ok
      BY <1>1, <2>2, ErrorFields
    <2> QED
      BY <2>1, <2>2
  <1>3. t = RunPump(u)
    BY DEF WriteSettled
  <1> HIDE DEF v, answer
  <1>4. v.writes \in Seq(Answer) /\ v.queue \in Seq(Items)
    BY <1>2 DEF Writables
  <1>5. /\ settled \in Seq(Answer) /\ Len(settled) = Len(v.writes)
        /\ \A k \in 1 .. Len(v.writes) :
              settled[k] = v.writes[k] \/ (k = w.now /\ v.writes[k] = "pending" /\ settled[k] = answer)
    BY <1>1, <1>4, SetOnceOne
  <1>6. rest \in Seq(Items)
    BY <1>4, Headed
  <1> HIDE DEF settled, rest, t
  <1>7. u \in Writables /\ u.sink = w.sink /\ u.writes = settled /\ u.queue = rest
    BY <1>2, <1>5, <1>6 DEF Writables
  <1> HIDE DEF u
  <1>8. GoodSink(t)
    BY <1>3, <1>7, PumpSink
  <1>9. ASSUME PipeSink(w) PROVE PipeSink(t) /\ t.sink = w.sink /\ Stays(w.writes, t.writes)
    <2>1. /\ w.now = Len(w.writes) /\ Len(w.sink) = Len(w.writes) /\ Len(w.writes) \in Nat
          /\ \A k \in 2 .. Len(w.queue) : w.queue[k].kind = "close"
          /\ \A k \in 1 .. Len(w.writes) : w.writes[k] = "resolved" => k <= Len(w.sink)
      BY <1>1, <1>9 DEF PipeSink, GoodSink
    <2>2. rest # <<>> => Head(rest).kind = "close"
      <3> SUFFICES ASSUME rest # <<>> PROVE Head(rest).kind = "close"
        OBVIOUS
      <3>1. v.queue # <<>> /\ rest = Tail(v.queue) /\ v.queue = w.queue
        BY <1>2 DEF rest
      <3>2. Len(w.queue) \in Nat /\ Len(w.queue) >= 1 /\ Len(Tail(w.queue)) = Len(w.queue) - 1
            /\ \A k \in 1 .. Len(w.queue) - 1 : Tail(w.queue)[k] = w.queue[k + 1]
        BY <1>1, <3>1, Headed
      <3>3. Len(rest) >= 1 /\ Head(rest) = rest[1]
        BY <1>6, Headed
      <3> QED
        BY <2>1, <3>1, <3>2, <3>3
    <2>3. t.at # "write" /\ t.sink = w.sink /\ Rejects(settled, t.writes)
      BY <1>3, <1>7, <2>2, RunPumpFields
    <2>4. /\ Len(t.writes) = Len(w.writes)
          /\ \A k \in 1 .. Len(w.writes) : w.writes[k] = "resolved" => t.writes[k] = "resolved"
      BY <1>2, <1>5, <2>3 DEF Rejects
    <2>5. PipeSink(t)
      BY <2>1, <2>3, <2>4 DEF PipeSink
    <2> QED
      BY <2>3, <2>4, <2>5 DEF Stays
  <1> QED
    BY <1>8, <1>9 DEF t

(* underlying.close has settled for one of the calls of close().            *)
LEMMA FinalizedSink ==
    ASSUME NEW w, GoodSink(w), NEW i, NEW ok \in BOOLEAN
    PROVE  LET t == CloseSettled(w, i, ok) IN
           /\ GoodSink(t) /\ t.state # "writable" /\ t.sink = w.sink /\ Stays(w.writes, t.writes)
           /\ t.at = w.at /\ (PipeSink(w) => PipeSink(t))
  <1> DEFINE t == CloseSettled(w, i, ok)
  <1>1. w \in Writables /\ w.closes \in Seq(Answer) /\ w.writes \in Seq(Answer)
    BY DEF GoodSink, Writables
  <1>2. CASE ok
    <2> DEFINE closes == SetOnce(w.closes, i, "resolved")
    <2>1. t = [w EXCEPT !.state = "closed", !.closes = closes]
      BY <1>2 DEF CloseSettled
    <2>2. closes \in Seq(Answer)
      BY <1>1, SetOnceOne DEF Answer
    <2> HIDE DEF t, closes
    <2>3. /\ t \in Writables /\ t.state = "closed" /\ t.sink = w.sink /\ t.writes = w.writes /\ t.at = w.at
          /\ t.queue = w.queue /\ t.now = w.now
      BY <1>1, <2>1, <2>2 DEF Writables
    <2> QED
      BY <2>3 DEF GoodSink, PipeSink, Stays, t
  <1>3. CASE ~ok
    <2> DEFINE v == errorWritable(w)  closes == SetOnce(v.closes, i, "rejected")
    <2>1. t = [v EXCEPT !.closes = closes]
      BY <1>3 DEF CloseSettled
    <2>2. /\ GoodSink(v) /\ v.sink = w.sink /\ Stays(w.writes, v.writes) /\ (PipeSink(w) => PipeSink(v))
          /\ v.at = w.at /\ v.state # "writable"
      BY <1>1, ErrorFields, ErrorSink
    <2> HIDE DEF t, v
    <2>3. v \in Writables /\ closes \in Seq(Answer)
      <3>1. v \in Writables /\ v.closes \in Seq(Answer) /\ "rejected" \in Answer
        BY <2>2 DEF GoodSink, Writables, Answer
      <3> QED
        BY <3>1, SetOnceOne
    <2> HIDE DEF closes
    <2>4. /\ t \in Writables /\ t.state = v.state /\ t.sink = v.sink /\ t.writes = v.writes /\ t.at = v.at
          /\ t.queue = v.queue /\ t.now = v.now
      BY <2>1, <2>3 DEF Writables
    <2> QED
      BY <2>2, <2>4 DEF GoodSink, PipeSink, t
  <1> QED
    BY <1>2, <1>3

(* After that the pump writes nothing.                                      *)
LEMMA PumpStops ==
    ASSUME NEW w, GoodSink(w), w.state # "writable"
    PROVE  LET t == RunPump(w) IN
           /\ GoodSink(t) /\ t.sink = w.sink /\ Stays(w.writes, t.writes)
           /\ PipeSink(w) => PipeSink(t)
  <1> DEFINE t == RunPump(w)
  <1>1. w \in Writables /\ w.writes \in Seq(Answer)
    BY DEF GoodSink, Writables
  <1>2. t.at # "write" /\ t.sink = w.sink /\ Rejects(w.writes, t.writes) /\ GoodSink(t)
    BY <1>1, RunPumpFields, PumpSink
  <1> HIDE DEF t
  <1>3. Stays(w.writes, t.writes) /\ \A k \in 1 .. Len(w.writes) : t.writes[k] = "resolved" => w.writes[k] = "resolved"
    BY <1>2, RejectsStays
  <1>4. PipeSink(w) => PipeSink(t)
    BY <1>2, <1>3 DEF PipeSink, Stays
  <1> QED
    BY <1>2, <1>3, <1>4 DEF t

-----------------------------------------------------------------------------
(* What a sound stream shows of its reads.                                  *)

LEMMA PrefixByElements ==
    ASSUME NEW S, NEW a \in Seq(S), NEW b \in Seq(S), Len(a) <= Len(b), \A i \in 1 .. Len(a) : a[i] = b[i]
    PROVE  IsPrefix(a, b)
  <1>1. Len(a) \in Nat /\ Len(b) \in Nat
    OBVIOUS
  <1>2. SubSeq(a, 1, Len(a)) = a
    BY SubSeqFull
  <1>3. SubSeq(b, 1, Len(a)) = [i \in 1 .. Len(a) |-> b[i]]
    BY <1>1
  <1>4. a = [i \in 1 .. Len(a) |-> a[i]]
    OBVIOUS
  <1>5. SubSeq(b, 1, Len(a)) = a
    BY <1>3, <1>4
  <1> QED
    BY <1>2, <1>5 DEF IsPrefix

LEMMA SameByElements ==
    ASSUME NEW S, NEW a \in Seq(S), NEW b \in Seq(S), Len(a) = Len(b), \A i \in 1 .. Len(a) : a[i] = b[i]
    PROVE  a = b
  OBVIOUS

(* The chunks the reads got are the first ones that were enqueued.          *)
LEMMA ChunksFirst ==
    ASSUME NEW s, Good(s)
    PROVE  /\ Chunks(s) \in Seq(Nat) /\ Len(Chunks(s)) \in Nat /\ Len(Chunks(s)) <= Len(s.accepted)
           /\ Len(Chunks(s)) <= Len(s.reads)
           /\ \A i \in 1 .. Len(s.reads) : s.reads[i].kind = "chunk" <=> i <= Len(Chunks(s))
           /\ \A i \in 1 .. Len(Chunks(s)) : Chunks(s)[i] = s.accepted[i]
           /\ IsPrefix(Chunks(s), s.accepted)
  <1> DEFINE K == Answered(s)  got == Picked(s.reads, K)
  <1>1. /\ s.reads \in Seq(Promise) /\ Len(s.reads) \in Nat /\ DOMAIN s.reads = 1 .. Len(s.reads)
        /\ s.accepted \in Seq(Nat) /\ Len(s.accepted) \in Nat /\ Ordered(s.reads, s.accepted)
    BY DEF Good, Sound, Typed
  <1>2. K \in SUBSET (1 .. Len(s.reads)) /\ \A i \in 1 .. Len(s.reads) : i \in K <=> s.reads[i].kind = "chunk"
    BY <1>1 DEF Answered
  <1> HIDE DEF K
  <1>3. \A i \in K, j \in 1 .. Len(s.reads) : j < i => j \in K
    <2> SUFFICES ASSUME NEW i \in K, NEW j \in 1 .. Len(s.reads), j < i, j \notin K PROVE FALSE
      OBVIOUS
    <2>1. s.reads[i] = s.reads[j]
      BY <1>1, <1>2 DEF Ordered
    <2> QED
      BY <1>2, <2>1
  <1>4. /\ got \in Seq(Promise) /\ Len(got) \in Nat /\ K = 1 .. Len(got)
        /\ \A n \in 1 .. Len(got) : got[n] = s.reads[n]
    BY <1>1, <1>2, <1>3, PickedInitial
  <1> HIDE DEF got
  <1>5. Chunks(s) = [i \in 1 .. Len(got) |-> got[i].chunk]
    BY <1>4 DEF Chunks, got, K
  <1>6. \A i \in 1 .. Len(got) : i \in 1 .. Len(s.reads) /\ i \in 1 .. Len(s.accepted) /\ got[i].chunk = s.accepted[i]
    <2> TAKE i \in 1 .. Len(got)
    <2>1. i \in 1 .. Len(s.reads) /\ s.reads[i].kind = "chunk" /\ got[i] = s.reads[i]
      BY <1>1, <1>2, <1>4
    <2>2. i \in 1 .. Len(s.accepted) /\ s.reads[i] = GotChunk(s.accepted[i])
      BY <1>1, <2>1 DEF Ordered
    <2>3. GotChunk(s.accepted[i]).chunk = s.accepted[i]
      BY DEF GotChunk
    <2> QED
      BY <2>1, <2>2, <2>3
  <1>7. /\ Chunks(s) \in Seq(Nat) /\ Len(Chunks(s)) = Len(got)
        /\ \A i \in 1 .. Len(got) : Chunks(s)[i] = s.accepted[i]
    <2>1. \A i \in 1 .. Len(got) : got[i].chunk \in Nat
      BY <1>1, <1>6
    <2> QED
      BY <1>4, <1>5, <1>6, <2>1
  <1>8. Len(got) <= Len(s.accepted) /\ Len(got) <= Len(s.reads)
    BY <1>1, <1>4, <1>6
  <1>9. IsPrefix(Chunks(s), s.accepted)
    BY <1>1, <1>7, <1>8, PrefixByElements
  <1>10. \A i \in 1 .. Len(s.reads) : s.reads[i].kind = "chunk" <=> i <= Len(got)
    BY <1>1, <1>2, <1>4
  <1> QED
    BY <1>4, <1>7, <1>8, <1>9, <1>10

LEMMA SomeoneWaits ==
    ASSUME NEW waiting \in Seq(Nat), NEW reads \in Seq(Promise), Numbered(waiting, reads),
           NEW i \in 1 .. Len(reads), reads[i] = Pending
    PROVE  waiting # <<>>
  <1>1. i > Len(reads) - Len(waiting) /\ i <= Len(reads) /\ Len(reads) \in Nat /\ i \in Nat
    BY DEF Numbered
  <1>2. waiting = <<>> => Len(waiting) = 0
    OBVIOUS
  <1> QED
    BY <1>1, <1>2

(* The three parts of ReadsSettleInOrder.                                   *)
LEMMA GoodReads ==
    ASSUME NEW s, Good(s)
    PROVE  /\ IsPrefix(Chunks(s), s.accepted)
           /\ \A i, j \in DOMAIN s.reads : i < j /\ s.reads[i].kind # "chunk" => s.reads[j].kind = s.reads[i].kind
           /\ (\E i \in DOMAIN s.reads : s.reads[i] = Pending) => Active(s) /\ s.queue = <<>>
  <1>1. /\ s.reads \in Seq(Promise) /\ Len(s.reads) \in Nat /\ DOMAIN s.reads = 1 .. Len(s.reads)
        /\ Ordered(s.reads, s.accepted) /\ Numbered(s.pendingReads, s.reads)
        /\ s.pendingReads \in Seq(Nat)
        /\ Stated(s.state, s.queue, s.pendingReads, s.closeRequested, s.reads, s.cancelled)
    BY DEF Good, Sound, Typed
  <1>2. \A i, j \in DOMAIN s.reads : i < j /\ s.reads[i].kind # "chunk" => s.reads[j].kind = s.reads[i].kind
    BY <1>1 DEF Ordered
  <1>3. ASSUME NEW i \in DOMAIN s.reads, s.reads[i] = Pending PROVE Active(s) /\ s.queue = <<>>
    <2>1. s.pendingReads # <<>>
      BY <1>1, <1>3, SomeoneWaits
    <2> QED
      BY <1>1, <2>1 DEF Stated, Active
  <1> QED
    BY <1>2, <1>3, ChunksFirst

(* The end has been told: every chunk that was not discarded was read.      *)
LEMMA DoneIsAll ==
    ASSUME NEW s, Good(s), NEW i \in 1 .. Len(s.reads), s.reads[i] = Done
    PROVE  /\ s.state = "closed" /\ s.queue = <<>>
           /\ ~s.cancelled => Chunks(s) = s.accepted
  <1>1. s.state = "closed" /\ s.queue = <<>>
    BY DEF Good, Sound, Stated
  <1>2. ASSUME ~s.cancelled PROVE Chunks(s) = s.accepted
    <2>1. \A j \in 1 .. Len(s.accepted) : j \in 1 .. Len(s.reads) /\ s.reads[j].kind = "chunk"
      BY <1>1, <1>2 DEF Good, Sound, Queued
    <2>2. \A j \in 1 .. Len(s.accepted) : j <= Len(Chunks(s))
      BY <2>1, ChunksFirst
    <2>3. s.accepted \in Seq(Nat) /\ Len(s.accepted) \in Nat
      BY DEF Good, Sound, Typed
    <2>4. /\ Chunks(s) \in Seq(Nat) /\ Len(Chunks(s)) \in Nat /\ Len(Chunks(s)) <= Len(s.accepted)
          /\ \A j \in 1 .. Len(Chunks(s)) : Chunks(s)[j] = s.accepted[j]
      BY ChunksFirst
    <2>5. Len(Chunks(s)) = Len(s.accepted)
      <3>1. Len(s.accepted) >= 1 => Len(s.accepted) \in 1 .. Len(s.accepted)
        BY <2>3
      <3>2. Len(s.accepted) >= 1 => Len(s.accepted) <= Len(Chunks(s))
        BY <2>2, <3>1
      <3> QED
        BY <2>3, <2>4, <3>2
    <2> QED
      BY <2>3, <2>4, <2>5, SameByElements
  <1> QED
    BY <1>1, <1>2

-----------------------------------------------------------------------------
(* The invariant.                                                           *)

Streamed(f) == f \in [Stream -> Readables] /\ \A x \in Stream : Good(f[x])

(* A stream after a call that is not a read: nothing settled changed.       *)
Moves(s, t) ==
    /\ Good(t)
    /\ Len(s.accepted) <= Len(t.accepted) /\ \A i \in 1 .. Len(s.accepted) : t.accepted[i] = s.accepted[i]
    /\ Len(t.reads) = Len(s.reads) /\ Kept(s.reads, t.reads)

(* A branch has been given what the reads of the source got before the one  *)
(* under way, and is ended by the end of the source alone.                  *)
Ended(b) == b.closeRequested \/ (b.state = "closed" /\ ~b.cancelled)
Branch(b, s, p) ==
    /\ p \in {"read", "reading", "done"}
    /\ Len(b.accepted) <= Len(s.accepted) /\ Len(b.accepted) <= Len(s.reads)
    /\ \A i \in 1 .. Len(b.accepted) : b.accepted[i] = s.accepted[i] /\ s.reads[i].kind = "chunk"
    /\ p = "read" => Len(b.accepted) = Len(s.reads)
    /\ p = "reading" => Len(b.accepted) + 1 = Len(s.reads)
    /\ Ended(b) => p = "done" /\ Len(b.accepted) + 1 = Len(s.reads) /\ s.reads[Len(s.reads)] = Done

(* A pipe has written what the reads of the source got before the one under *)
(* way, each after the write before it was resolved.                        *)
Carried(w, s, p) ==
    /\ p \in {"read", "reading", "writing", "closing", "done", "failed"}
    /\ \A i \in 1 .. Len(w.sink) : i <= Len(s.reads) /\ s.reads[i] = GotChunk(w.sink[i])
    /\ p \in {"read", "writing"} => Len(w.writes) = Len(s.reads)
    /\ p \in {"reading", "closing", "done"} => Len(w.writes) + 1 = Len(s.reads)
    /\ p \in {"closing", "done"} => s.reads[Len(s.reads)] = Done
    /\ p # "failed" => \A i \in 1 .. Len(w.writes) : s.reads[i].kind = "chunk"
    /\ p \in {"read", "reading", "closing", "done"} => \A i \in 1 .. Len(w.writes) : w.writes[i] = "resolved"
    /\ p = "writing" => /\ Len(w.writes) >= 1
                        /\ \A i \in 1 .. Len(w.writes) - 1 : w.writes[i] = "resolved"

WebInv ==
    /\ shape \in Shape
    /\ Streamed(rs)
    /\ GoodSink(ws)
    /\ shape \in {"reader", "writer"} => pump = "read"
    /\ shape = "tee" => Branch(rs["left"], rs["source"], pump) /\ Branch(rs["right"], rs["source"], pump)
    /\ Piping => PipeSink(ws) /\ Carried(ws, rs["source"], pump)

LEMMA GoodTypes ==
    ASSUME NEW s, Good(s)
    PROVE  /\ s \in Readables /\ s.reads \in Seq(Promise) /\ s.accepted \in Seq(Nat) /\ Len(s.reads) \in Nat
           /\ Len(s.accepted) \in Nat /\ \A i \in 1 .. Len(s.reads) : s.reads[i] \in Promise
           /\ s.state \in {"readable", "closed", "errored"}
  BY DEF Good, Sound, Typed

LEMMA Updated ==
    ASSUME NEW f, Streamed(f), NEW x \in Stream, NEW t, Good(t), NEW g,
           g \in [Stream -> Readables], \A y \in Stream : g[y] = IF y = x THEN t ELSE f[y]
    PROVE  Streamed(g) /\ g[x] = t /\ \A y \in Stream : y # x => g[y] = f[y]
  BY DEF Streamed

LEMMA Unmoved ==
    ASSUME NEW s, Good(s), NEW t, Good(t), t.accepted = s.accepted, Kept(s.reads, t.reads), Len(t.reads) = Len(s.reads)
    PROVE  Moves(s, t)
  BY GoodTypes DEF Moves

LEMMA EnqueueMoves ==
    ASSUME NEW s, Good(s), Active(s), NEW c \in Nat, NEW h
    PROVE  Moves(s, enqueue(s, c, h))
  <1>1. Len(Append(s.accepted, c)) = Len(s.accepted) + 1 /\ Len(s.accepted) \in Nat
        /\ \A i \in 1 .. Len(s.accepted) : Append(s.accepted, c)[i] = s.accepted[i]
    BY GoodTypes, Appended
  <1> QED
    BY <1>1, EnqueueGood DEF Moves

LEMMA PullMoves ==
    ASSUME NEW s, Good(s), NEW h
    PROVE  Moves(s, pullIfNeeded(s, h))
  BY Unmoved, PullGood, PullFields DEF Kept, Good

LEMMA EndsMove ==
    ASSUME NEW s, Good(s)
    PROVE  /\ Moves(s, closeReadable(s)) /\ Moves(s, errorReadable(s))
           /\ s.state # "errored" => Moves(s, cancelReadable(s))
  BY Unmoved, CloseGood, ErrorGood, CancelGood

LEMMA PullingMoves ==
    ASSUME NEW s, Good(s)
    PROVE  LET u == [s EXCEPT !.pulling = FALSE] IN
           /\ Moves(s, pullIfNeeded(u, TRUE)) /\ Moves(s, errorReadable(u))
  <1> DEFINE u == [s EXCEPT !.pulling = FALSE]
  <1>1. /\ u \in Readables /\ u.state = s.state /\ u.queue = s.queue /\ u.pendingReads = s.pendingReads
        /\ u.closeRequested = s.closeRequested /\ u.reads = s.reads /\ u.accepted = s.accepted
        /\ u.cancelled = s.cancelled
    <2>1. s \in Readables
      BY GoodTypes
    <2> QED
      BY <2>1 DEF Readables
  <1> HIDE DEF u
  <1>2. Good(u)
    BY <1>1 DEF Good
  <1>3. Moves(u, pullIfNeeded(u, TRUE)) /\ Moves(u, errorReadable(u))
    BY <1>2, PullMoves, EndsMove
  <1>4. Moves(s, pullIfNeeded(u, TRUE)) /\ Moves(s, errorReadable(u))
    BY <1>1, <1>3 DEF Moves
  <1> QED
    BY <1>4 DEF u

LEMMA BranchFollows ==
    ASSUME NEW b, Good(b), NEW s, Good(s), NEW p, Branch(b, s, p), NEW t, Moves(s, t)
    PROVE  Branch(b, t, p)
  <1>1. /\ Len(b.accepted) \in Nat /\ Len(s.accepted) \in Nat /\ Len(s.reads) \in Nat /\ Len(t.accepted) \in Nat
        /\ \A i \in 1 .. Len(s.reads) : s.reads[i] \in Promise
    BY GoodTypes DEF Moves
  <1>2. /\ Len(s.accepted) <= Len(t.accepted) /\ Len(t.reads) = Len(s.reads)
        /\ \A i \in 1 .. Len(s.accepted) : t.accepted[i] = s.accepted[i]
        /\ \A i \in 1 .. Len(s.reads) : s.reads[i].kind # "pending" => t.reads[i] = s.reads[i]
    BY <1>1, PromiseKinds DEF Moves, Kept
  <1>3. /\ Len(b.accepted) <= Len(s.accepted) /\ Len(b.accepted) <= Len(s.reads)
        /\ \A i \in 1 .. Len(b.accepted) : b.accepted[i] = s.accepted[i] /\ s.reads[i].kind = "chunk"
    BY DEF Branch
  <1>4. \A i \in 1 .. Len(b.accepted) : b.accepted[i] = t.accepted[i] /\ t.reads[i].kind = "chunk"
    <2> TAKE i \in 1 .. Len(b.accepted)
    <2>1. i \in 1 .. Len(s.accepted) /\ i \in 1 .. Len(s.reads)
      BY <1>1, <1>3
    <2> QED
      BY <1>2, <1>3, <2>1
  <1>5. Ended(b) => t.reads[Len(t.reads)] = Done
    <2>1. Done.kind # "pending"
      BY DEF Done
    <2>2. Ended(b) => s.reads[Len(s.reads)] = Done /\ Len(b.accepted) + 1 = Len(s.reads)
      BY DEF Branch
    <2> QED
      BY <1>1, <1>2, <2>1, <2>2
  <1>6. Len(b.accepted) <= Len(t.accepted) /\ Len(b.accepted) <= Len(t.reads)
    BY <1>1, <1>2, <1>3
  <1> QED
    BY <1>2, <1>4, <1>5, <1>6 DEF Branch

LEMMA CarriedFollows ==
    ASSUME NEW w, NEW s, Good(s), NEW p, Carried(w, s, p), NEW t, Moves(s, t), GoodSink(w)
    PROVE  Carried(w, t, p)
  <1>1. /\ Len(s.reads) \in Nat /\ Len(w.writes) \in Nat /\ Len(w.sink) \in Nat
        /\ \A i \in 1 .. Len(s.reads) : s.reads[i] \in Promise
    BY GoodTypes DEF GoodSink, Writables
  <1>2. /\ Len(t.reads) = Len(s.reads)
        /\ \A i \in 1 .. Len(s.reads) : s.reads[i].kind # "pending" => t.reads[i] = s.reads[i]
    BY <1>1, PromiseKinds DEF Moves, Kept
  <1>3. Done.kind # "pending" /\ \A c : GotChunk(c).kind # "pending"
    BY DEF Done, GotChunk
  <1>4. \A i \in 1 .. Len(w.sink) : i <= Len(t.reads) /\ t.reads[i] = GotChunk(w.sink[i])
    <2>1. \A i \in 1 .. Len(w.sink) : i <= Len(s.reads) /\ s.reads[i] = GotChunk(w.sink[i])
      BY DEF Carried
    <2> QED
      BY <1>1, <1>2, <1>3, <2>1
  <1>5. p \in {"closing", "done"} => t.reads[Len(t.reads)] = Done
    <2>1. p \in {"closing", "done"} => s.reads[Len(s.reads)] = Done /\ Len(w.writes) + 1 = Len(s.reads)
      BY DEF Carried
    <2> QED
      BY <1>1, <1>2, <1>3, <2>1
  <1>6. p # "failed" => \A i \in 1 .. Len(w.writes) : t.reads[i].kind = "chunk"
    <2>1. p # "failed" => /\ \A i \in 1 .. Len(w.writes) : s.reads[i].kind = "chunk"
                          /\ Len(w.writes) <= Len(s.reads)
      BY <1>1 DEF Carried
    <2> QED
      BY <1>1, <1>2, <2>1
  <1> QED
    BY <1>2, <1>4, <1>5, <1>6 DEF Carried

-----------------------------------------------------------------------------
(* The initial state.                                                       *)

LEMMA NewGood == Good(NewReadable)
  <1>1. <<>> \in Seq(Nat) /\ <<>> \in Seq(Promise) /\ Len(<<>>) = 0
    BY EmptySeq
  <1>2. NewReadable \in Readables
    BY <1>1 DEF NewReadable, Readables
  <1>3. Sound("readable", <<>>, <<>>, FALSE, <<>>, <<>>, FALSE)
    BY <1>1 DEF Sound, Typed, Ordered, Numbered, Queued, Stated
  <1> QED
    BY <1>2, <1>3 DEF Good, NewReadable

LEMMA WebInitInv ==
    ASSUME WebInit
    PROVE  WebInv
  <1>1. <<>> \in Seq(Items) /\ <<>> \in Seq(Answer) /\ <<>> \in Seq(Nat) /\ Len(<<>>) = 0
    BY EmptySeq
  <1>2. Streamed(rs)
    <2>1. NewReadable \in Readables /\ Good(NewReadable)
      BY NewGood DEF Good
    <2> HIDE DEF NewReadable
    <2> QED
      BY <2>1 DEF WebInit, Streamed
  <1>3. GoodSink(ws) /\ PipeSink(ws)
    BY <1>1 DEF WebInit, NewWritable, GoodSink, PipeSink, Writables
  <1>4. rs["source"] = NewReadable /\ rs["left"] = NewReadable /\ rs["right"] = NewReadable /\ pump = "read"
    BY DEF WebInit, Stream
  <1>5. Branch(NewReadable, NewReadable, "read")
    BY <1>1 DEF Branch, Ended, NewReadable
  <1>6. Carried(ws, NewReadable, "read")
    <2>1. ws.sink = <<>> /\ ws.writes = <<>> /\ NewReadable.reads = <<>>
      BY DEF WebInit, NewWritable, NewReadable
    <2> QED
      BY <1>1, <2>1 DEF Carried
  <1> QED
    BY <1>2, <1>3, <1>4, <1>5, <1>6 DEF WebInv, WebInit

-----------------------------------------------------------------------------
(* The steps.                                                               *)

LEMMA SourceStep ==
    ASSUME WebInv, NEW t, Moves(rs["source"], t), rs' = [rs EXCEPT !["source"] = t],
           UNCHANGED <<shape, ws, pump>>
    PROVE  WebInv'
  <1>1. Good(t) /\ Streamed(rs) /\ "source" \in Stream /\ "left" \in Stream /\ "right" \in Stream
    BY DEF Moves, WebInv, Stream
  <1>2. Streamed(rs') /\ rs'["source"] = t /\ rs'["left"] = rs["left"] /\ rs'["right"] = rs["right"]
    <2>1. rs \in [Stream -> Readables] /\ t \in Readables
      BY <1>1 DEF Streamed, Good
    <2>2. /\ rs' \in [Stream -> Readables]
          /\ \A y \in Stream : rs'[y] = IF y = "source" THEN t ELSE rs[y]
      BY <1>1, <2>1
    <2> QED
      BY <1>1, <2>2, Updated
  <1>3. Good(rs["source"]) /\ Good(rs["left"]) /\ Good(rs["right"]) /\ GoodSink(ws)
    BY <1>1 DEF Streamed, WebInv
  <1>4. shape = "tee" => Branch(rs["left"], t, pump) /\ Branch(rs["right"], t, pump)
    BY <1>3, BranchFollows DEF WebInv
  <1>5. Piping => PipeSink(ws) /\ Carried(ws, t, pump)
    BY <1>3, CarriedFollows DEF WebInv
  <1> QED
    BY <1>2, <1>4, <1>5 DEF WebInv, Piping

LEMMA BranchKept ==
    ASSUME NEW b, NEW c, NEW s, NEW p, Branch(b, s, p), c.accepted = b.accepted, Ended(c) => Ended(b)
    PROVE  Branch(c, s, p)
  BY DEF Branch

(* The script reads or cancels a stream that is not the source.             *)
LEMMA OtherStep ==
    ASSUME WebInv, NEW x \in {"left", "right"}, NEW t, Good(t), t.accepted = rs[x].accepted,
           Ended(t) => Ended(rs[x]), rs' = [rs EXCEPT ![x] = t], UNCHANGED <<shape, ws, pump>>
    PROVE  WebInv'
  <1>1. Streamed(rs) /\ x \in Stream /\ "source" \in Stream /\ "left" \in Stream /\ "right" \in Stream /\ x # "source"
    BY DEF WebInv, Stream
  <1>2. Streamed(rs') /\ rs'[x] = t /\ \A y \in Stream : y # x => rs'[y] = rs[y]
    <2>1. rs \in [Stream -> Readables] /\ t \in Readables
      BY <1>1 DEF Streamed, Good
    <2>2. rs' \in [Stream -> Readables] /\ \A y \in Stream : rs'[y] = IF y = x THEN t ELSE rs[y]
      BY <1>1, <2>1
    <2> QED
      BY <1>1, <2>2, Updated
  <1>3. rs'["source"] = rs["source"]
    BY <1>1, <1>2
  <1>4. ASSUME shape = "tee", NEW y \in {"left", "right"} PROVE Branch(rs'[y], rs["source"], pump)
    <2>1. Branch(rs[y], rs["source"], pump)
      BY <1>4 DEF WebInv
    <2>2. CASE y = x
      BY <1>2, <2>1, <2>2, BranchKept
    <2>3. CASE y # x
      BY <1>1, <1>2, <2>1, <2>3
    <2> QED
      BY <2>2, <2>3
  <1> QED
    BY <1>2, <1>3, <1>4 DEF WebInv, Piping

LEMMA CarriedStays ==
    ASSUME NEW w, NEW v, NEW s, NEW p, Carried(w, s, p), v.sink = w.sink, Stays(w.writes, v.writes), GoodSink(w)
    PROVE  Carried(v, s, p)
  <1>1. Len(w.writes) \in Nat /\ Len(v.writes) = Len(w.writes)
    BY DEF GoodSink, Writables, Stays
  <1>2. /\ (p \in {"read", "reading", "closing", "done"} => \A i \in 1 .. Len(v.writes) : v.writes[i] = "resolved")
        /\ (p = "writing" => \A i \in 1 .. Len(v.writes) - 1 : v.writes[i] = "resolved")
    <2>1. \A i \in 1 .. Len(w.writes) : w.writes[i] = "resolved" => v.writes[i] = "resolved"
      BY DEF Stays
    <2>2. /\ p \in {"read", "reading", "closing", "done"} => \A i \in 1 .. Len(w.writes) : w.writes[i] = "resolved"
          /\ p = "writing" => \A i \in 1 .. Len(w.writes) - 1 : w.writes[i] = "resolved"
      BY DEF Carried
    <2>3. ASSUME p \in {"read", "reading", "closing", "done"} PROVE \A i \in 1 .. Len(v.writes) : v.writes[i] = "resolved"
      BY <1>1, <2>1, <2>2, <2>3
    <2>4. ASSUME p = "writing" PROVE \A i \in 1 .. Len(v.writes) - 1 : v.writes[i] = "resolved"
      BY <1>1, <2>1, <2>2, <2>4
    <2> QED
      BY <2>3, <2>4
  <1> QED
    BY <1>1, <1>2 DEF Carried

(* A step of the writable stream, which may tell the stream behind it:      *)
(* nothing moves between the source and the sink.                           *)
Unseen ==
    /\ shape' = shape /\ rs'["source"] = rs["source"]
    /\ Piping => pump' = pump /\ ws'.sink = ws.sink

LEMMA SinkStep ==
    ASSUME WebInv, NEW w, GoodSink(w), ws' = w,
           Piping => PipeSink(w) /\ w.sink = ws.sink /\ Stays(ws.writes, w.writes),
           Streamed(rs'), rs'["source"] = rs["source"], shape = "tee" => rs' = rs, UNCHANGED <<shape, pump>>
    PROVE  WebInv' /\ Unseen
  <1>1. Piping => Carried(w, rs["source"], pump)
    BY CarriedStays DEF WebInv
  <1> QED
    BY <1>1 DEF WebInv, Piping, Unseen

LEMMA Parts ==
    ASSUME WebInv
    PROVE  /\ Good(rs["source"]) /\ Good(rs["left"]) /\ Good(rs["right"]) /\ GoodSink(ws) /\ Streamed(rs)
           /\ "source" \in Stream /\ "left" \in Stream /\ "right" \in Stream
           /\ \A x \in Stream : x = "source" \/ x \in {"left", "right"}
           /\ \A x \in Stream : Good(rs[x])
  BY DEF WebInv, Streamed, Stream

LEMMA SourceSteps ==
    ASSUME WebInv, SourceStarted \/ SourceEnqueues \/ SourceEnds \/ PullSettles
    PROVE  WebInv'
  <1>1. Good(rs["source"]) /\ UNCHANGED <<shape, ws, pump>>
    BY Parts DEF SourceStarted, SourceEnqueues, SourceEnds, PullSettles
  <1>2. CASE SourceStarted
    BY <1>1, <1>2, PullMoves, SourceStep DEF SourceStarted, Source, Update
  <1>3. CASE SourceEnqueues
    <2>1. Len(rs["source"].accepted) + 1 \in Nat
      BY <1>1, GoodTypes
    <2> QED
      BY <1>1, <1>3, <2>1, EnqueueMoves, SourceStep DEF SourceEnqueues, Source, Update
  <1>4. CASE SourceEnds
    BY <1>1, <1>4, EndsMove, SourceStep DEF SourceEnds, Source, Update
  <1>5. CASE PullSettles
    BY <1>1, <1>5, PullingMoves, SourceStep DEF PullSettles, Source, Update
  <1> QED
    BY <1>2, <1>3, <1>4, <1>5

(* The reads of a script are of a stream that nothing else reads.           *)
LEMMA ReadStep ==
    ASSUME WebInv, NEW t, Good(t), shape \notin {"tee", "pipe", "through"}, rs' = [rs EXCEPT !["source"] = t],
           UNCHANGED <<shape, ws, pump>>
    PROVE  WebInv'
  <1>1. Streamed(rs')
    <2>1. rs \in [Stream -> Readables] /\ t \in Readables /\ "source" \in Stream
      BY Parts DEF Streamed, Good
    <2>2. rs' \in [Stream -> Readables] /\ \A y \in Stream : rs'[y] = IF y = "source" THEN t ELSE rs[y]
      BY <2>1
    <2>3. Streamed(rs)
      BY Parts
    <2> QED
      BY <2>1, <2>2, <2>3, Updated
  <1> QED
    BY <1>1 DEF WebInv, Piping

LEMMA ScriptReadsInv ==
    ASSUME WebInv, NEW x \in Stream, ScriptReads(x)
    PROVE  WebInv'
  <1> DEFINE t == read(rs[x], HasPull(x))
  <1>1. Good(rs[x]) /\ rs' = [rs EXCEPT ![x] = t] /\ UNCHANGED <<shape, ws, pump>> /\ x \in Read /\ shape \in Shape
    BY Parts DEF ScriptReads, Update, WebInv
  <1>2. /\ Good(t) /\ (t.state = rs[x].state \/ (t.state = "closed" /\ rs[x].closeRequested))
        /\ t.accepted = rs[x].accepted /\ t.closeRequested = rs[x].closeRequested
        /\ t.cancelled = rs[x].cancelled
    BY <1>1, ReadGood
  <1> HIDE DEF t
  <1>3. Ended(t) => Ended(rs[x])
    BY <1>2 DEF Ended
  <1>4. CASE x = "source"
    <2>1. shape \notin {"tee", "pipe", "through"}
      BY <1>1, <1>4 DEF Read, Shape
    <2> QED
      BY <1>1, <1>2, <1>4, <2>1, ReadStep
  <1>5. CASE x \in {"left", "right"}
    BY <1>1, <1>2, <1>3, <1>5, OtherStep
  <1> QED
    BY <1>4, <1>5, Parts

LEMMA ScriptCancelsInv ==
    ASSUME WebInv, NEW x \in Stream, ScriptCancels(x)
    PROVE  WebInv'
  <1> DEFINE t == cancelReadable(rs[x])
  <1>1. Good(rs[x]) /\ rs' = [rs EXCEPT ![x] = t] /\ UNCHANGED <<shape, ws, pump>> /\ rs[x].state # "errored"
    BY Parts DEF ScriptCancels, Update
  <1>2. Good(t) /\ t.cancelled /\ t.accepted = rs[x].accepted /\ t.closeRequested = rs[x].closeRequested
    BY <1>1, CancelGood
  <1>3. Moves(rs[x], t)
    BY <1>1, EndsMove
  <1> HIDE DEF t
  <1>4. Ended(t) => Ended(rs[x])
    BY <1>2 DEF Ended
  <1>5. CASE x = "source"
    BY <1>1, <1>3, <1>5, SourceStep
  <1>6. CASE x \in {"left", "right"}
    BY <1>1, <1>2, <1>4, <1>6, OtherStep
  <1> QED
    BY <1>5, <1>6, Parts

(* The readable side of a transform.                                        *)
LEMMA BehindTyped ==
    ASSUME WebInv, NEW t, Good(t), rs' = [rs EXCEPT !["left"] = t]
    PROVE  Streamed(rs') /\ rs'["source"] = rs["source"]
  <1>1. rs \in [Stream -> Readables] /\ t \in Readables /\ "source" \in Stream /\ "left" \in Stream
    BY Parts DEF Streamed, Good
  <1>2. rs' \in [Stream -> Readables] /\ \A y \in Stream : rs'[y] = IF y = "left" THEN t ELSE rs[y]
    BY <1>1
  <1> QED
    BY <1>1, <1>2, Parts, Updated

LEMMA AbortTyped ==
    ASSUME WebInv, Abort
    PROVE  /\ ws' = errorWritable(ws) /\ GoodSink(ws') /\ ws'.sink = ws.sink /\ Stays(ws.writes, ws'.writes)
           /\ PipeSink(ws) => PipeSink(ws')
           /\ Streamed(rs') /\ rs'["source"] = rs["source"] /\ (shape = "tee" => rs' = rs)
  <1>1. ws' = errorWritable(ws)
    BY DEF Abort
  <1>2. /\ GoodSink(ws') /\ ws'.sink = ws.sink /\ Stays(ws.writes, ws'.writes)
        /\ PipeSink(ws) => PipeSink(ws')
    BY <1>1, Parts, ErrorSink
  <1>3. CASE shape = "through" /\ ws.state = "writable"
    <2>1. rs' = [rs EXCEPT !["left"] = errorReadable(rs["left"])]
      BY <1>3 DEF Abort
    <2>2. Good(errorReadable(rs["left"]))
      BY Parts, ErrorGood
    <2> QED
      BY <1>1, <1>2, <1>3, <2>1, <2>2, BehindTyped
  <1>4. CASE ~(shape = "through" /\ ws.state = "writable")
    <2>1. rs' = rs
      BY <1>4 DEF Abort
    <2> QED
      BY <1>1, <1>2, <2>1, Parts
  <1> QED
    BY <1>3, <1>4

LEMMA ScriptSinkSteps ==
    ASSUME WebInv, ScriptWrites \/ ScriptCloses \/ ScriptAborts \/ SinkErrors
    PROVE  WebInv' /\ Unseen
  <1>1. GoodSink(ws) /\ Streamed(rs) /\ (Piping => PipeSink(ws)) /\ Len(ws.writes) \in Nat
    BY Parts DEF WebInv, GoodSink, Writables
  <1>2. CASE ScriptWrites
    <2>1. ~Piping /\ ws' = write(ws, Len(ws.writes) + 1) /\ UNCHANGED <<shape, rs, pump>>
      BY <1>2 DEF ScriptWrites, Piping
    <2>2. GoodSink(ws')
      BY <1>1, <2>1, WriteSink
    <2> QED
      BY <1>1, <2>1, <2>2, SinkStep
  <1>3. CASE ScriptCloses
    <2>1. ws' = closeWritable(ws) /\ UNCHANGED <<shape, rs, pump>>
      BY <1>3 DEF ScriptCloses
    <2>2. GoodSink(ws') /\ ws'.sink = ws.sink /\ ws'.writes = ws.writes /\ (PipeSink(ws) => PipeSink(ws'))
      BY <1>1, <2>1, CloseSink
    <2> QED
      BY <1>1, <2>1, <2>2, SinkStep DEF Stays
  <1>4. CASE ScriptAborts
    BY <1>1, <1>4, AbortTyped, SinkStep DEF ScriptAborts
  <1>5. CASE SinkErrors
    <2>1. ws' = errorWritable(ws) /\ UNCHANGED <<shape, rs, pump>>
      BY <1>5 DEF SinkErrors
    <2>2. GoodSink(ws') /\ ws'.sink = ws.sink /\ Stays(ws.writes, ws'.writes) /\ (PipeSink(ws) => PipeSink(ws'))
      BY <1>1, <2>1, ErrorSink
    <2> QED
      BY <1>1, <2>1, <2>2, SinkStep
  <1> QED
    BY <1>2, <1>3, <1>4, <1>5

LEMMA SinkWritesInv ==
    ASSUME WebInv, SinkWrites
    PROVE  WebInv' /\ Unseen
  <1>1. /\ GoodSink(ws) /\ Streamed(rs) /\ (Piping => PipeSink(ws)) /\ ws.at = "write" /\ UNCHANGED <<shape, pump>>
        /\ ws.sink \in Seq(Nat) /\ ws.sink # <<>>
    BY Parts DEF WebInv, SinkWrites, GoodSink, Writables
  <1>2. ASSUME NEW ok \in BOOLEAN, ws' = WriteSettled(ws, ok)
        PROVE  GoodSink(ws') /\ (Piping => PipeSink(ws') /\ ws'.sink = ws.sink /\ Stays(ws.writes, ws'.writes))
    BY <1>1, <1>2, SettledSink
  <1>3. \/ shape = "through" /\ Active(rs["left"]) /\ ws' = WriteSettled(ws, TRUE)
           /\ rs' = [rs EXCEPT !["left"] = enqueue(rs["left"], Last(ws.sink), FALSE)]
        \/ ws' = WriteSettled(ws, TRUE) /\ rs' = rs
        \/ ws' = WriteSettled(ws, FALSE) /\ rs' = rs
    BY DEF SinkWrites, Update
  <1>4. CASE shape = "through" /\ Active(rs["left"]) /\ ws' = WriteSettled(ws, TRUE)
             /\ rs' = [rs EXCEPT !["left"] = enqueue(rs["left"], Last(ws.sink), FALSE)]
    <2>1. Last(ws.sink) \in Nat
      <3>1. Len(ws.sink) \in Nat /\ Len(ws.sink) >= 1
        BY <1>1, Headed
      <3> QED
        BY <1>1, <3>1 DEF Last
    <2>2. Good(enqueue(rs["left"], Last(ws.sink), FALSE))
      BY <1>4, <2>1, Parts, EnqueueGood
    <2>3. Streamed(rs') /\ rs'["source"] = rs["source"]
      BY <1>4, <2>2, BehindTyped
    <2> QED
      BY <1>1, <1>2, <1>4, <2>3, SinkStep
  <1>5. CASE ws' = WriteSettled(ws, TRUE) /\ rs' = rs
    BY <1>1, <1>2, <1>5, SinkStep
  <1>6. CASE ws' = WriteSettled(ws, FALSE) /\ rs' = rs
    BY <1>1, <1>2, <1>6, SinkStep
  <1> QED
    BY <1>3, <1>4, <1>5, <1>6

LEMMA SinkClosesInv ==
    ASSUME WebInv, SinkCloses
    PROVE  WebInv' /\ Unseen
  <1>1. GoodSink(ws) /\ Streamed(rs) /\ (Piping => PipeSink(ws)) /\ UNCHANGED <<shape, pump>>
    BY Parts DEF WebInv, SinkCloses
  <1>2. PICK ok \in BOOLEAN :
          /\ \/ ws.at = "close" /\ ws' = RunPump(CloseSettled(ws, ws.now, ok))
             \/ \E i \in ws.direct :
                   ws' = [CloseSettled(ws, i, ok) EXCEPT !.direct = @ \ {i}]
          /\ rs' = IF shape = "through" /\ ok
                   THEN [rs EXCEPT !["left"] = closeReadable(@)] ELSE rs
    BY DEF SinkCloses
  <1>3. Streamed(rs') /\ rs'["source"] = rs["source"] /\ (shape = "tee" => rs' = rs)
    <2>1. CASE shape = "through" /\ ok
      <3>1. rs' = [rs EXCEPT !["left"] = closeReadable(rs["left"])] /\ Good(closeReadable(rs["left"]))
        BY <1>2, <2>1, Parts, CloseGood
      <3> QED
        BY <2>1, <3>1, BehindTyped
    <2>2. CASE ~(shape = "through" /\ ok)
      BY <1>1, <1>2, <2>2
    <2> QED
      BY <2>1, <2>2
  <1>4. ASSUME NEW i
        PROVE  LET t == CloseSettled(ws, i, ok) IN
               /\ GoodSink(t) /\ t.state # "writable" /\ t.sink = ws.sink /\ Stays(ws.writes, t.writes)
               /\ PipeSink(ws) => PipeSink(t)
    BY <1>1, <1>2, FinalizedSink
  <1>5. GoodSink(ws') /\ ws'.sink = ws.sink /\ Stays(ws.writes, ws'.writes) /\ (PipeSink(ws) => PipeSink(ws'))
    <2>1. CASE ws.at = "close" /\ ws' = RunPump(CloseSettled(ws, ws.now, ok))
      <3> DEFINE t == CloseSettled(ws, ws.now, ok)
      <3>1. /\ GoodSink(t) /\ t.state # "writable" /\ t.sink = ws.sink /\ Stays(ws.writes, t.writes)
            /\ PipeSink(ws) => PipeSink(t)
        BY <1>4
      <3>2. ws' = RunPump(t)
        BY <2>1
      <3> HIDE DEF t
      <3>3. GoodSink(ws') /\ ws'.sink = t.sink /\ Stays(t.writes, ws'.writes) /\ (PipeSink(t) => PipeSink(ws'))
        BY <3>1, <3>2, PumpStops
      <3> QED
        BY <3>1, <3>3 DEF Stays
    <2>2. ASSUME NEW i \in ws.direct, ws' = [CloseSettled(ws, i, ok) EXCEPT !.direct = @ \ {i}]
          PROVE  GoodSink(ws') /\ ws'.sink = ws.sink /\ Stays(ws.writes, ws'.writes) /\ (PipeSink(ws) => PipeSink(ws'))
      <3> DEFINE t == CloseSettled(ws, i, ok)
      <3>1. /\ GoodSink(t) /\ t.sink = ws.sink /\ Stays(ws.writes, t.writes) /\ (PipeSink(ws) => PipeSink(t))
        BY <1>4
      <3>2. ws' = [t EXCEPT !.direct = @ \ {i}]
        BY <2>2
      <3> HIDE DEF t
      <3>3. /\ ws' \in Writables /\ ws'.sink = t.sink /\ ws'.writes = t.writes /\ ws'.at = t.at
            /\ ws'.queue = t.queue /\ ws'.now = t.now
        <4>1. t \in Writables
          BY <3>1 DEF GoodSink
        <4> QED
          BY <3>2, <4>1 DEF Writables
      <3> QED
        BY <3>1, <3>3 DEF GoodSink, PipeSink
    <2> QED
      BY <1>2, <2>1, <2>2
  <1> QED
    BY <1>1, <1>3, <1>5, SinkStep

(* pipeTo and tee read.                                                     *)
LEMMA BranchReads ==
    ASSUME NEW b, Good(b), NEW s, Good(s), Branch(b, s, "read"), NEW h
    PROVE  Branch(b, read(s, h), "reading")
  <1> DEFINE t == read(s, h)
  <1>1. t.accepted = s.accepted /\ Kept(s.reads, t.reads) /\ Len(t.reads) = Len(s.reads) + 1
    BY ReadGood
  <1> HIDE DEF t
  <1>2. /\ Len(b.accepted) = Len(s.reads) /\ Len(b.accepted) <= Len(s.accepted) /\ ~Ended(b)
        /\ \A i \in 1 .. Len(b.accepted) : b.accepted[i] = s.accepted[i] /\ s.reads[i].kind = "chunk"
    BY DEF Branch
  <1>3. Len(s.reads) \in Nat /\ Len(b.accepted) \in Nat /\ Pending.kind # "chunk"
    BY GoodTypes DEF Pending
  <1>4. \A i \in 1 .. Len(b.accepted) : t.reads[i] = s.reads[i]
    BY <1>1, <1>2, <1>3 DEF Kept
  <1>5. Branch(b, t, "reading")
    BY <1>1, <1>2, <1>3, <1>4 DEF Branch
  <1> QED
    BY <1>5 DEF t

LEMMA CarriedReads ==
    ASSUME NEW w, GoodSink(w), NEW s, Good(s), Carried(w, s, "read"), NEW h
    PROVE  Carried(w, read(s, h), "reading")
  <1> DEFINE t == read(s, h)
  <1>1. Kept(s.reads, t.reads) /\ Len(t.reads) = Len(s.reads) + 1
    BY ReadGood
  <1> HIDE DEF t
  <1>2. /\ Len(w.writes) = Len(s.reads)
        /\ \A i \in 1 .. Len(w.sink) : i <= Len(s.reads) /\ s.reads[i] = GotChunk(w.sink[i])
        /\ \A i \in 1 .. Len(w.writes) : s.reads[i].kind = "chunk" /\ w.writes[i] = "resolved"
    BY DEF Carried
  <1>3. Len(s.reads) \in Nat /\ Len(w.sink) \in Nat /\ Pending.kind # "chunk"
    BY GoodTypes DEF Pending, GoodSink, Writables
  <1>4. \A i \in 1 .. Len(s.reads) : t.reads[i] = s.reads[i]
    BY <1>1, <1>2, <1>3 DEF Kept
  <1>5. \A i \in 1 .. Len(w.sink) : i <= Len(t.reads) /\ t.reads[i] = GotChunk(w.sink[i])
    BY <1>1, <1>2, <1>3, <1>4
  <1>6. \A i \in 1 .. Len(w.writes) : t.reads[i].kind = "chunk"
    BY <1>2, <1>4
  <1>7. Carried(w, t, "reading")
    BY <1>1, <1>2, <1>3, <1>5, <1>6 DEF Carried
  <1> QED
    BY <1>7 DEF t

LEMMA PumpReadsInv ==
    ASSUME WebInv, PumpReads
    PROVE  WebInv'
  <1> DEFINE s == rs["source"]  t == read(s, pullSource)
  <1>1. /\ pump = "read" /\ pump' = "reading" /\ rs' = [rs EXCEPT !["source"] = t] /\ UNCHANGED <<shape, ws>>
        /\ shape \in {"pipe", "through", "tee"}
    BY DEF PumpReads, Update, Source
  <1>2. Good(s) /\ Good(t) /\ Good(rs["left"]) /\ Good(rs["right"]) /\ GoodSink(ws) /\ Streamed(rs)
        /\ "source" \in Stream /\ "left" \in Stream /\ "right" \in Stream
    BY Parts, ReadGood
  <1>3. shape = "tee" => Branch(rs["left"], t, "reading") /\ Branch(rs["right"], t, "reading")
    BY <1>1, <1>2, BranchReads DEF WebInv
  <1>4. Piping => PipeSink(ws) /\ Carried(ws, t, "reading")
    BY <1>1, <1>2, CarriedReads DEF WebInv
  <1> HIDE DEF t
  <1>5. Streamed(rs') /\ rs'["source"] = t /\ rs'["left"] = rs["left"] /\ rs'["right"] = rs["right"]
    <2>1. rs \in [Stream -> Readables] /\ t \in Readables
      BY <1>2, Parts DEF Streamed, Good
    <2>2. /\ rs' \in [Stream -> Readables]
          /\ \A y \in Stream : rs'[y] = IF y = "source" THEN t ELSE rs[y]
      BY <1>1, <1>2, <2>1
    <2> QED
      BY <1>2, <2>2, Updated
  <1> QED
    BY <1>1, <1>2, <1>3, <1>4, <1>5 DEF WebInv, Piping

(* What the last read got.                                                  *)
LEMMA LastRead ==
    ASSUME NEW s, Good(s), Len(s.reads) >= 1
    PROVE  /\ Last(s.reads) = s.reads[Len(s.reads)] /\ Last(s.reads) \in Promise
           /\ Last(s.reads).kind = "chunk" =>
                 /\ Len(s.reads) <= Len(s.accepted) /\ Last(s.reads) = GotChunk(s.accepted[Len(s.reads)])
                 /\ Last(s.reads).chunk = s.accepted[Len(s.reads)] /\ Last(s.reads).chunk \in Nat
                 /\ Last(s.reads) = GotChunk(Last(s.reads).chunk)
  <1>1. Len(s.reads) \in 1 .. Len(s.reads) /\ Last(s.reads) = s.reads[Len(s.reads)]
    BY GoodTypes DEF Last
  <1>2. Last(s.reads) \in Promise
    BY <1>1, GoodTypes
  <1>3. ASSUME Last(s.reads).kind = "chunk"
        PROVE  Len(s.reads) \in 1 .. Len(s.accepted) /\ Last(s.reads) = GotChunk(s.accepted[Len(s.reads)])
    BY <1>1, <1>3 DEF Good, Sound, Ordered
  <1>4. \A c : GotChunk(c).chunk = c
    BY DEF GotChunk
  <1> QED
    BY <1>1, <1>2, <1>3, <1>4, GoodTypes, PromiseKinds

LEMMA PipeGotInv ==
    ASSUME WebInv, PipeGot
    PROVE  WebInv'
  <1> DEFINE s == rs["source"]  n == Len(ws.writes)
  <1>1. /\ Good(s) /\ GoodSink(ws) /\ Streamed(rs) /\ PipeSink(ws) /\ Carried(ws, s, "reading")
        /\ pump = "reading" /\ Piping /\ shape # "tee" /\ UNCHANGED shape
    BY Parts DEF WebInv, PipeGot, Piping
  <1>2. /\ n \in Nat /\ Len(ws.sink) \in Nat /\ ws.sink \in Seq(Nat) /\ n + 1 = Len(s.reads)
        /\ \A i \in 1 .. n : s.reads[i].kind = "chunk" /\ ws.writes[i] = "resolved"
        /\ \A i \in 1 .. Len(ws.sink) : i <= Len(s.reads) /\ s.reads[i] = GotChunk(ws.sink[i])
    BY <1>1 DEF Carried, GoodSink, Writables
  <1>3. /\ Last(s.reads) = s.reads[Len(s.reads)] /\ Last(s.reads) \in Promise
        /\ Last(s.reads).kind = "chunk" =>
              Last(s.reads).chunk \in Nat /\ Last(s.reads) = GotChunk(Last(s.reads).chunk)
    BY <1>1, <1>2, LastRead
  <1>4. PipeGot => \/ /\ Last(s.reads).kind = "chunk" /\ ws' = write(ws, Last(s.reads).chunk)
                      /\ pump' = "writing" /\ UNCHANGED rs
                   \/ /\ Last(s.reads) = Done /\ ws' = [closeWritable(ws) EXCEPT !.own = Len(ws.closes) + 1]
                      /\ pump' = "closing" /\ UNCHANGED rs
                   \/ Abort /\ pump' = "failed"
    BY DEF PipeGot, Source
  <1> HIDE DEF n
  <1>5. CASE Last(s.reads).kind = "chunk" /\ ws' = write(ws, Last(s.reads).chunk) /\ pump' = "writing" /\ UNCHANGED rs
    <2> DEFINE c == Last(s.reads).chunk
    <2>1. c \in Nat /\ s.reads[n + 1] = GotChunk(c)
      BY <1>2, <1>3, <1>5
    <2> HIDE DEF c
    <2>2. /\ GoodSink(ws') /\ Len(ws'.writes) = n + 1 /\ PipeSink(ws')
          /\ \A i \in 1 .. n : ws'.writes[i] = "resolved"
          /\ ws'.sink = ws.sink \/ ws'.sink = Append(ws.sink, c)
          /\ Len(ws.sink) = n
      <3>1. ws' = write(ws, c)
        BY <1>5 DEF c
      <3> QED
        BY <1>1, <1>2, <2>1, <3>1, WriteSink DEF n
    <2>3. \A i \in 1 .. Len(ws'.sink) : i <= Len(s.reads) /\ s.reads[i] = GotChunk(ws'.sink[i])
      <3>1. CASE ws'.sink = ws.sink
        BY <1>2, <3>1
      <3>2. CASE ws'.sink = Append(ws.sink, c)
        <4>1. /\ Len(ws'.sink) = n + 1 /\ ws'.sink[n + 1] = c
              /\ \A i \in 1 .. n : ws'.sink[i] = ws.sink[i]
          BY <1>2, <2>1, <2>2, <3>2, Appended
        <4> QED
          BY <1>2, <2>1, <2>2, <4>1
      <3> QED
        BY <2>2, <3>1, <3>2
    <2>4. \A i \in 1 .. n + 1 : s.reads[i].kind = "chunk"
      <3>1. s.reads[n + 1].kind = "chunk"
        BY <1>2, <1>3, <1>5
      <3> QED
        BY <1>2, <3>1
    <2>5. Carried(ws', s, "writing")
      BY <1>2, <2>2, <2>3, <2>4 DEF Carried
    <2> QED
      BY <1>1, <1>5, <2>2, <2>5 DEF WebInv, Piping
  <1>6. CASE Last(s.reads) = Done /\ ws' = [closeWritable(ws) EXCEPT !.own = Len(ws.closes) + 1]
             /\ pump' = "closing" /\ UNCHANGED rs
    <2> DEFINE t == closeWritable(ws)
    <2>1. GoodSink(t) /\ t.sink = ws.sink /\ t.writes = ws.writes /\ PipeSink(t)
      BY <1>1, CloseSink
    <2>2. ws' = [t EXCEPT !.own = Len(ws.closes) + 1]
      BY <1>6
    <2> HIDE DEF t
    <2>3. /\ ws' \in Writables /\ ws'.sink = t.sink /\ ws'.writes = t.writes /\ ws'.at = t.at
          /\ ws'.queue = t.queue /\ ws'.now = t.now
      <3>1. t \in Writables /\ Len(ws.closes) + 1 \in Nat
        BY <1>1, <2>1 DEF GoodSink, Writables
      <3> QED
        BY <2>2, <3>1 DEF Writables
    <2>4. GoodSink(ws') /\ PipeSink(ws')
      BY <2>1, <2>3 DEF GoodSink, PipeSink
    <2>5. Carried(ws', s, "closing")
      BY <1>2, <1>3, <1>6, <2>1, <2>3 DEF Carried, n
    <2> QED
      BY <1>1, <1>6, <2>4, <2>5 DEF WebInv, Piping
  <1>7. CASE Abort /\ pump' = "failed"
    <2>1. /\ GoodSink(ws') /\ ws'.sink = ws.sink /\ PipeSink(ws') /\ Streamed(rs') /\ rs'["source"] = s
      BY <1>1, <1>7, AbortTyped
    <2>2. Carried(ws', s, "failed")
      BY <1>2, <2>1 DEF Carried
    <2> QED
      BY <1>1, <1>7, <2>1, <2>2 DEF WebInv, Piping
  <1> QED
    BY <1>4, <1>5, <1>6, <1>7

LEMMA CarriedFails ==
    ASSUME NEW w, NEW v, NEW s, NEW p, Carried(w, s, p), v.sink = w.sink
    PROVE  Carried(v, s, "failed")
  BY DEF Carried

LEMMA PipeSettlesInv ==
    ASSUME WebInv, PipeWrote \/ PipeClosed
    PROVE  WebInv'
  <1> DEFINE s == rs["source"]  n == Len(ws.writes)
  <1>1. /\ GoodSink(ws) /\ Streamed(rs) /\ PipeSink(ws) /\ Carried(ws, s, pump) /\ shape # "tee" /\ UNCHANGED shape
        /\ Piping
    <2>1. pump \in {"writing", "closing"} /\ UNCHANGED shape
      BY DEF PipeWrote, PipeClosed
    <2>2. Piping
      BY <2>1 DEF WebInv, Branch, Piping, Shape
    <2> QED
      BY <2>1, <2>2, Parts DEF WebInv, Piping
  <1>2. n \in Nat
    BY <1>1 DEF GoodSink, Writables
  <1>3. CASE Abort /\ pump' = "failed"
    <2>1. GoodSink(ws') /\ ws'.sink = ws.sink /\ PipeSink(ws') /\ Streamed(rs') /\ rs'["source"] = s
      BY <1>1, <1>3, AbortTyped
    <2>2. Carried(ws', s, "failed")
      BY <1>1, <2>1, CarriedFails
    <2> QED
      BY <1>1, <1>3, <2>1, <2>2 DEF WebInv, Piping
  <1>4. CASE pump = "writing" /\ Last(ws.writes) = "resolved" /\ pump' = "read" /\ UNCHANGED <<ws, rs>>
    <2>1. \A i \in 1 .. n : ws.writes[i] = "resolved"
      <3>1. /\ ws.writes[n] = "resolved" /\ n >= 1
            /\ \A i \in 1 .. n - 1 : ws.writes[i] = "resolved"
        BY <1>1, <1>4 DEF Carried, Last
      <3> HIDE DEF n
      <3> QED
        BY <1>2, <3>1
    <2>2. Carried(ws, s, "read")
      BY <1>1, <1>4, <2>1 DEF Carried
    <2> QED
      BY <1>1, <1>4, <2>2 DEF WebInv, Piping
  <1>5. CASE pump = "closing" /\ pump' = "done" /\ UNCHANGED <<ws, rs>>
    <2>1. Carried(ws, s, "done")
      BY <1>1, <1>5 DEF Carried
    <2> QED
      BY <1>1, <1>5, <2>1 DEF WebInv, Piping
  <1> QED
    BY <1>3, <1>4, <1>5 DEF PipeWrote, PipeClosed

(* A branch is given a chunk, or the end or an error.                       *)
LEMMA BranchFed ==
    ASSUME NEW b, Good(b), NEW s, Good(s), Branch(b, s, "reading"), NEW c, NEW t,
           s.reads[Len(s.reads)].kind = "chunk", Len(s.reads) <= Len(s.accepted), c = s.accepted[Len(s.reads)],
           t.accepted = Append(b.accepted, c), ~t.closeRequested, t.state = "closed" => t.cancelled
    PROVE  Branch(t, s, "read") /\ Branch(t, s, "done")
  <1>1. /\ Len(b.accepted) + 1 = Len(s.reads) /\ Len(b.accepted) \in Nat /\ b.accepted \in Seq(Nat)
        /\ \A i \in 1 .. Len(b.accepted) : b.accepted[i] = s.accepted[i] /\ s.reads[i].kind = "chunk"
        /\ Len(s.reads) \in Nat /\ s.accepted \in Seq(Nat) /\ Len(s.accepted) \in Nat
    BY GoodTypes DEF Branch
  <1>2. c \in Nat
    <2>1. Len(s.reads) \in 1 .. Len(s.accepted)
      BY <1>1
    <2> QED
      BY <1>1, <2>1
  <1>3. /\ Len(t.accepted) = Len(s.reads)
        /\ \A i \in 1 .. Len(b.accepted) : t.accepted[i] = b.accepted[i]
        /\ t.accepted[Len(b.accepted) + 1] = c
    <2> DEFINE more == Append(b.accepted, c)
    <2>1. /\ Len(more) = Len(b.accepted) + 1 /\ more[Len(b.accepted) + 1] = c
          /\ \A i \in 1 .. Len(b.accepted) : more[i] = b.accepted[i]
      <3> DEFINE q == b.accepted
      <3>1. q \in Seq(Nat)
        BY <1>1
      <3> HIDE DEF q
      <3>2. /\ Len(Append(q, c)) = Len(q) + 1 /\ Append(q, c)[Len(q) + 1] = c
            /\ \A i \in 1 .. Len(q) : Append(q, c)[i] = q[i]
        BY <1>2, <3>1, Appended
      <3> QED
        BY <3>2 DEF q
    <2>2. t.accepted = more
      OBVIOUS
    <2> HIDE DEF more
    <2> QED
      BY <1>1, <2>1, <2>2
  <1>4. \A i \in 1 .. Len(t.accepted) : t.accepted[i] = s.accepted[i] /\ s.reads[i].kind = "chunk"
    <2> TAKE i \in 1 .. Len(t.accepted)
    <2>1. CASE i \in 1 .. Len(b.accepted)
      BY <1>1, <1>3, <2>1
    <2>2. CASE i = Len(s.reads)
      <3>1. t.accepted[i] = c
        BY <1>1, <1>3, <2>2
      <3> QED
        BY <2>2, <3>1
    <2> QED
      BY <1>1, <1>3, <2>1, <2>2
  <1>5. ~Ended(t)
    BY DEF Ended
  <1>6. Len(t.accepted) <= Len(s.accepted) /\ Len(t.accepted) <= Len(s.reads)
    BY <1>1, <1>3
  <1> QED
    BY <1>3, <1>4, <1>5, <1>6 DEF Branch

LEMMA BranchEnded ==
    ASSUME NEW b, NEW s, Branch(b, s, "reading"), NEW t, t.accepted = b.accepted,
           \/ s.reads[Len(s.reads)] = Done
           \/ ~t.closeRequested /\ (t.state = "closed" => t.cancelled)
    PROVE  Branch(t, s, "done")
  BY DEF Branch, Ended

LEMMA NotEnded ==
    ASSUME NEW b, NEW s, Branch(b, s, "reading")
    PROVE  ~b.closeRequested /\ (b.state = "closed" => b.cancelled)
  BY DEF Branch, Ended

LEMMA TeeGotInv ==
    ASSUME WebInv, TeeGot
    PROVE  WebInv'
  <1> DEFINE s == rs["source"]  l == rs["left"]  r == rs["right"]  got == Last(s.reads)
             fed == IF Active(l) THEN enqueue(l, got.chunk, FALSE) ELSE l
  <1>1. /\ Good(s) /\ Good(l) /\ Good(r) /\ GoodSink(ws) /\ Streamed(rs) /\ shape = "tee" /\ pump = "reading"
        /\ Branch(l, s, "reading") /\ Branch(r, s, "reading") /\ UNCHANGED <<shape, ws>> /\ ~Piping
    BY Parts DEF WebInv, TeeGot, Piping
  <1>2. Len(s.reads) >= 1
    BY <1>1, GoodTypes DEF Branch
  <1>3. /\ got = s.reads[Len(s.reads)]
        /\ got.kind = "chunk" => /\ Len(s.reads) <= Len(s.accepted) /\ got.chunk = s.accepted[Len(s.reads)]
                                 /\ got.chunk \in Nat
    BY <1>1, <1>2, LastRead
  <1>4. \/ /\ got.kind = "chunk" /\ Active(l) /\ Active(r)
           /\ rs' = [rs EXCEPT !["left"] = fed, !["right"] = enqueue(r, got.chunk, FALSE)]
           /\ pump' = "read"
        \/ /\ got.kind = "chunk" /\ ~(Active(l) /\ Active(r))
           /\ rs' = [rs EXCEPT !["left"] = errorReadable(fed), !["right"] = errorReadable(r)]
           /\ pump' = "done"
        \/ /\ got = Done
           /\ rs' = [rs EXCEPT !["left"] = closeReadable(l), !["right"] = closeReadable(r)]
           /\ pump' = "done"
        \/ /\ got = Error
           /\ rs' = [rs EXCEPT !["left"] = errorReadable(l), !["right"] = errorReadable(r)]
           /\ pump' = "done"
    BY DEF TeeGot, Source
  <1>5. ASSUME NEW t, Good(t), NEW u, Good(u), rs' = [rs EXCEPT !["left"] = t, !["right"] = u],
               Branch(t, s, pump'), Branch(u, s, pump')
        PROVE  WebInv'
    <2>1. rs \in [Stream -> Readables] /\ t \in Readables /\ u \in Readables
      BY <1>1, <1>5 DEF Streamed, Good
    <2>2. /\ rs' \in [Stream -> Readables]
          /\ \A y \in Stream : rs'[y] = IF y = "right" THEN u ELSE IF y = "left" THEN t ELSE rs[y]
      BY <1>5, <2>1 DEF Stream
    <2>3. rs'["left"] = t /\ rs'["right"] = u /\ rs'["source"] = s /\ Streamed(rs')
      BY <1>1, <1>5, <2>2 DEF Streamed, Stream
    <2> QED
      BY <1>1, <1>5, <2>3 DEF WebInv, Piping
  <1>6. /\ ~l.closeRequested /\ (l.state = "closed" => l.cancelled)
        /\ ~r.closeRequested /\ (r.state = "closed" => r.cancelled)
    BY <1>1, NotEnded
  <1> HIDE DEF s, l, r, got
  <1>7. ASSUME NEW b, Good(b), Branch(b, s, "reading"), Active(b), got.kind = "chunk"
        PROVE  LET t == enqueue(b, got.chunk, FALSE) IN
               /\ Good(t) /\ ~t.closeRequested /\ t.state = "readable" /\ Branch(t, s, "read") /\ Branch(t, s, "done")
    <2> DEFINE t == enqueue(b, got.chunk, FALSE)
    <2>1. Good(t) /\ t.state = "readable" /\ ~t.closeRequested /\ t.accepted = Append(b.accepted, got.chunk)
      <3>1. got.chunk \in Nat
        BY <1>3, <1>7
      <3> DEFINE c == got.chunk
      <3>2. c \in Nat /\ t = enqueue(b, c, FALSE)
        BY <3>1
      <3> HIDE DEF t, c
      <3>3. Good(t) /\ t.state = "readable" /\ ~t.closeRequested /\ t.accepted = Append(b.accepted, c)
        BY <1>7, <3>2, EnqueueGood
      <3> QED
        BY <3>3 DEF c
    <2> HIDE DEF t
    <2>2. Branch(t, s, "read") /\ Branch(t, s, "done")
      BY <1>1, <1>3, <1>7, <2>1, BranchFed
    <2> QED
      BY <2>1, <2>2 DEF t
  <1>8. ASSUME NEW b, Good(b), ~b.closeRequested, b.state = "closed" => b.cancelled
        PROVE  LET t == errorReadable(b) IN
               /\ Good(t) /\ t.accepted = b.accepted /\ ~t.closeRequested /\ (t.state = "closed" => t.cancelled)
    BY <1>8, ErrorGood
  <1>9. CASE /\ got.kind = "chunk" /\ Active(l) /\ Active(r)
             /\ rs' = [rs EXCEPT !["left"] = fed, !["right"] = enqueue(r, got.chunk, FALSE)]
             /\ pump' = "read"
    BY <1>1, <1>5, <1>7, <1>9
  <1>10. CASE /\ got.kind = "chunk" /\ ~(Active(l) /\ Active(r))
              /\ rs' = [rs EXCEPT !["left"] = errorReadable(fed), !["right"] = errorReadable(r)]
              /\ pump' = "done"
    <2>1. Good(errorReadable(r)) /\ Branch(errorReadable(r), s, "done")
      <3>1. LET t == errorReadable(r) IN
            /\ Good(t) /\ t.accepted = r.accepted /\ ~t.closeRequested /\ (t.state = "closed" => t.cancelled)
        BY <1>1, <1>6, <1>8
      <3> QED
        BY <1>1, <3>1, BranchEnded
    <2>2. Good(fed) /\ ~fed.closeRequested /\ (fed.state = "closed" => fed.cancelled)
      <3>1. CASE Active(l)
        BY <1>1, <1>7, <1>10, <3>1
      <3>2. CASE ~Active(l)
        BY <1>1, <1>6, <3>2
      <3> QED
        BY <3>1, <3>2
    <2>3. /\ Good(errorReadable(fed)) /\ errorReadable(fed).accepted = fed.accepted
          /\ ~errorReadable(fed).closeRequested
          /\ errorReadable(fed).state = "closed" => errorReadable(fed).cancelled
      <3> HIDE DEF fed
      <3>1. LET t == errorReadable(fed) IN
            /\ Good(t) /\ t.accepted = fed.accepted /\ ~t.closeRequested /\ (t.state = "closed" => t.cancelled)
        BY <1>8, <2>2
      <3> QED
        BY <3>1
    <2>4. Branch(errorReadable(fed), s, "done")
      <3>1. CASE Active(l)
        <4>1. Branch(fed, s, "done")
          BY <1>1, <1>7, <1>10, <3>1
        <4> HIDE DEF fed
        <4>2. ~Ended(errorReadable(fed))
          BY <2>3 DEF Ended
        <4> QED
          BY <2>3, <4>1, <4>2, BranchKept
      <3>2. CASE ~Active(l)
        <4>1. fed = l
          BY <3>2
        <4> HIDE DEF fed
        <4> QED
          BY <1>1, <2>3, <4>1, BranchEnded
      <3> QED
        BY <3>1, <3>2
    <2> HIDE DEF fed
    <2> QED
      BY <1>5, <1>10, <2>1, <2>3, <2>4
  <1>11. CASE /\ got = Done
              /\ rs' = [rs EXCEPT !["left"] = closeReadable(l), !["right"] = closeReadable(r)]
              /\ pump' = "done"
    <2>1. /\ Good(closeReadable(l)) /\ closeReadable(l).accepted = l.accepted
          /\ Good(closeReadable(r)) /\ closeReadable(r).accepted = r.accepted
      BY <1>1, CloseGood
    <2>2. Branch(closeReadable(l), s, "done") /\ Branch(closeReadable(r), s, "done")
      BY <1>1, <1>3, <1>11, <2>1, BranchEnded
    <2> QED
      BY <1>5, <1>11, <2>1, <2>2
  <1>12. CASE /\ got = Error
              /\ rs' = [rs EXCEPT !["left"] = errorReadable(l), !["right"] = errorReadable(r)]
              /\ pump' = "done"
    <2>1. ASSUME NEW b, Good(b), Branch(b, s, "reading"), ~b.closeRequested, b.state = "closed" => b.cancelled
          PROVE  Good(errorReadable(b)) /\ Branch(errorReadable(b), s, "done")
      <3>1. LET t == errorReadable(b) IN
            /\ Good(t) /\ t.accepted = b.accepted /\ ~t.closeRequested /\ (t.state = "closed" => t.cancelled)
        BY <1>8, <2>1
      <3> QED
        BY <2>1, <3>1, BranchEnded
    <2> QED
      BY <1>1, <1>5, <1>6, <1>12, <2>1
  <1> QED
    BY <1>4, <1>9, <1>10, <1>11, <1>12

-----------------------------------------------------------------------------
LEMMA WebNextInv ==
    ASSUME WebInv, [WebNext]_webVars
    PROVE  WebInv'
  <1>1. CASE SourceStarted \/ SourceEnqueues \/ SourceEnds \/ PullSettles
    BY <1>1, SourceSteps
  <1>2. ASSUME NEW x \in Stream, ScriptReads(x) \/ ScriptCancels(x) PROVE WebInv'
    BY <1>2, ScriptReadsInv, ScriptCancelsInv
  <1>3. CASE ScriptWrites \/ ScriptCloses \/ ScriptAborts \/ SinkErrors
    BY <1>3, ScriptSinkSteps
  <1>4. CASE SinkSettles
    BY <1>4, SinkWritesInv, SinkClosesInv DEF SinkSettles
  <1>5. CASE PumpReads \/ PipeGot \/ TeeGot
    BY <1>5, PumpReadsInv, PipeGotInv, TeeGotInv
  <1>6. CASE PipeWrote \/ PipeClosed
    BY <1>6, PipeSettlesInv
  <1>7. CASE UNCHANGED webVars
    BY <1>7 DEF webVars, WebInv, Piping
  <1> QED
    BY <1>1, <1>2, <1>3, <1>4, <1>5, <1>6, <1>7 DEF WebNext, PumpRuns

(* The invariant holds: every stream is sound, and the async functions of   *)
(* pipeTo and tee are in step with the reads of the source.                 *)
THEOREM WebHolds == WebSpec => []WebInv
  <1>1. WebInit => WebInv
    BY WebInitInv
  <1>2. WebInv /\ [WebNext]_webVars => WebInv'
    BY WebNextInv
  <1> QED
    BY <1>1, <1>2, PTL DEF WebSpec

(* The reads of every stream are answered in order, with the chunks in      *)
(* order and nothing after the end; none waits on a stream that has ended   *)
(* or has something queued.                                                 *)
THEOREM StreamReads == WebSpec => []ReadsSettleInOrder
  <1>1. WebInv => ReadsSettleInOrder
    BY Parts, GoodReads DEF ReadsSettleInOrder
  <1> QED
    BY <1>1, WebHolds, PTL

(* Each branch of a tee gets the chunks of the source in order, and ends    *)
(* only after all of them unless it was cancelled.                          *)
THEOREM TeeBranches == WebSpec => []BranchesComplete
  <1>1. ASSUME WebInv, shape = "tee", NEW x \in {"left", "right"}
        PROVE  LET b == rs[x] IN
               /\ IsPrefix(b.accepted, Source.accepted)
               /\ (b.closeRequested \/ \E i \in DOMAIN b.reads : b.reads[i] = Done) /\ ~b.cancelled
                     => b.accepted = (IF Source.cancelled THEN Chunks(Source) ELSE Source.accepted)
    <2> DEFINE b == rs[x]  s == rs["source"]
    <2>1. Good(b) /\ Good(s) /\ Branch(b, s, pump)
      BY <1>1, Parts DEF WebInv
    <2> HIDE DEF b, s
    <2>2. /\ b.accepted \in Seq(Nat) /\ s.accepted \in Seq(Nat) /\ Len(b.accepted) \in Nat /\ Len(s.reads) \in Nat
          /\ DOMAIN b.reads = 1 .. Len(b.reads)
      BY <2>1, GoodTypes
    <2>3. /\ Len(b.accepted) <= Len(s.accepted)
          /\ \A i \in 1 .. Len(b.accepted) : b.accepted[i] = s.accepted[i]
          /\ Ended(b) => Len(b.accepted) + 1 = Len(s.reads) /\ s.reads[Len(s.reads)] = Done
          /\ \A i \in 1 .. Len(b.accepted) : s.reads[i].kind = "chunk"
      BY <2>1 DEF Branch
    <2>4. IsPrefix(b.accepted, s.accepted)
      BY <2>2, <2>3, PrefixByElements
    <2>5. ASSUME b.closeRequested \/ \E i \in DOMAIN b.reads : b.reads[i] = Done, ~b.cancelled
          PROVE  b.accepted = (IF s.cancelled THEN Chunks(s) ELSE s.accepted)
      <3>1. Ended(b)
        <4>1. (\E i \in DOMAIN b.reads : b.reads[i] = Done) => b.state = "closed"
          BY <2>1, <2>2, DoneIsAll
        <4> QED
          BY <2>5, <4>1 DEF Ended
      <3>2. Len(s.reads) \in 1 .. Len(s.reads) /\ s.reads[Len(s.reads)] = Done /\ Len(b.accepted) + 1 = Len(s.reads)
        BY <2>2, <2>3, <3>1
      <3>3. /\ Chunks(s) \in Seq(Nat) /\ Len(Chunks(s)) \in Nat
            /\ \A i \in 1 .. Len(s.reads) : s.reads[i].kind = "chunk" <=> i <= Len(Chunks(s))
            /\ \A i \in 1 .. Len(Chunks(s)) : Chunks(s)[i] = s.accepted[i]
            /\ Len(Chunks(s)) <= Len(s.reads)
        BY <2>1, ChunksFirst
      <3>4. Len(Chunks(s)) = Len(b.accepted)
        <4>1. ~(Len(s.reads) <= Len(Chunks(s)))
          BY <3>2, <3>3 DEF Done
        <4>2. Len(b.accepted) >= 1 => Len(b.accepted) <= Len(Chunks(s))
          <5>1. Len(b.accepted) >= 1 =>
                   Len(b.accepted) \in 1 .. Len(b.accepted) /\ Len(b.accepted) \in 1 .. Len(s.reads)
            BY <2>2, <3>2
          <5>2. Len(b.accepted) >= 1 => s.reads[Len(b.accepted)].kind = "chunk"
            BY <2>3, <5>1
          <5> QED
            BY <3>3, <5>1, <5>2
        <4> QED
          BY <2>2, <3>2, <3>3, <4>1, <4>2
      <3>5. b.accepted = Chunks(s)
        BY <2>2, <2>3, <3>3, <3>4, SameByElements
      <3>6. ~s.cancelled => Chunks(s) = s.accepted
        BY <2>1, <3>2, DoneIsAll
      <3> QED
        BY <3>5, <3>6
    <2> QED
      BY <2>4, <2>5 DEF b, s, Source
  <1>2. WebInv => BranchesComplete
    BY <1>1 DEF BranchesComplete
  <1> QED
    BY <1>2, WebHolds, PTL

-----------------------------------------------------------------------------
(* The pipe: what is not discarded, what came out, what was told.           *)

NotDiscarded(s) == IF s.cancelled THEN Chunks(s) ELSE s.accepted
PumpTold(p) == CASE p = "done" -> "complete" [] p = "failed" -> "failed" [] OTHER -> "open"

(* A step of ChunkPipe, or none, of three values.                           *)
Piped(a, b, o, a2, b2, o2) ==
    \/ a2 = a /\ b2 = b /\ o2 = o
    \/ o # "complete" /\ (\E c \in 1 .. MaxChunks : a2 = Append(a, c)) /\ b2 = b /\ o2 = o
    \/ o # "complete" /\ b = a /\ (\E c \in 1 .. MaxChunks : a2 = Append(a, c) /\ b2 = Append(b, c)) /\ o2 = o
    \/ o # "complete" /\ (\E n \in Len(b) .. Len(a) : n \in 0 .. Len(a) /\ b2 = SubSeq(a, 1, n)) /\ a2 = a /\ o2 = o
    \/ /\ o # "complete"
       /\ \E n \in Len(b) .. Len(a) :
             /\ n \in 0 .. Len(a) /\ a2 = SubSeq(a, 1, n)
             /\ o2 = o \/ (o = "open" /\ o2 = "failed") \/ (o = "open" /\ n = Len(b) /\ o2 = "complete")
       /\ b2 = b
    \/ o = "open" /\ b2 = a /\ o2 = "complete" /\ a2 = a
    \/ o = "open" /\ o2 = "failed" /\ a2 = a /\ b2 = b

LEMMA PipedSteps ==
    ASSUME Piped(PipeSent, PipeReceived, PipeOutcome, PipeSent', PipeReceived', PipeOutcome')
    PROVE  [Pipe!Next]_(Pipe!vars)
  BY DEF Piped, Pipe!Next, Pipe!vars, Pipe!Send, Pipe!Pass, Pipe!Deliver, Pipe!Discard, Pipe!Complete, Pipe!Fail

LEMMA FirstPart ==
    ASSUME NEW S, NEW a \in Seq(S), NEW b \in Seq(S), Len(b) <= Len(a), \A i \in 1 .. Len(b) : b[i] = a[i]
    PROVE  b = SubSeq(a, 1, Len(b)) /\ Len(b) \in 0 .. Len(a)
  <1>1. Len(a) \in Nat /\ Len(b) \in Nat
    OBVIOUS
  <1>2. SubSeq(a, 1, Len(b)) = [i \in 1 .. Len(b) |-> a[i]]
    BY <1>1
  <1>3. b = [i \in 1 .. Len(b) |-> b[i]]
    OBVIOUS
  <1> QED
    BY <1>1, <1>2, <1>3

(* What the chunks are among the reads.                                     *)
LEMMA ReadsGrow ==
    ASSUME NEW s, Good(s), NEW t, Good(t), Kept(s.reads, t.reads), Len(s.reads) <= Len(t.reads)
    PROVE  /\ Len(Chunks(s)) <= Len(Chunks(t))
           /\ \A j \in 1 .. Len(s.reads) : s.reads[j].kind \in {"done", "error"} => Len(Chunks(t)) = Len(Chunks(s))
  <1> DEFINE m == Len(Chunks(s))  n == Len(Chunks(t))
  <1>1. /\ m \in Nat /\ m <= Len(s.reads) /\ \A i \in 1 .. Len(s.reads) : s.reads[i].kind = "chunk" <=> i <= m
        /\ n \in Nat /\ n <= Len(t.reads) /\ \A i \in 1 .. Len(t.reads) : t.reads[i].kind = "chunk" <=> i <= n
    BY ChunksFirst
  <1>2. Len(s.reads) \in Nat /\ Len(t.reads) \in Nat /\ \A i \in 1 .. Len(s.reads) : s.reads[i] \in Promise
    BY GoodTypes
  <1>3. \A i \in 1 .. Len(s.reads) : s.reads[i].kind # "pending" => t.reads[i] = s.reads[i]
    BY <1>2, PromiseKinds DEF Kept
  <1> HIDE DEF m, n
  <1>4. m <= n
    <2>1. m >= 1 => m \in 1 .. Len(s.reads) /\ m \in 1 .. Len(t.reads)
      BY <1>1, <1>2
    <2>2. m >= 1 => t.reads[m].kind = "chunk"
      BY <1>1, <1>3, <2>1
    <2> QED
      BY <1>1, <2>1, <2>2
  <1>5. ASSUME NEW j \in 1 .. Len(s.reads), s.reads[j].kind \in {"done", "error"}, n # m PROVE FALSE
    <2>1. m < n /\ t.reads[j] = s.reads[j] /\ j \in 1 .. Len(t.reads) /\ j \in Nat
      BY <1>1, <1>2, <1>3, <1>4, <1>5
    <2>2. ~(j <= n)
      BY <1>1, <1>5, <2>1
    <2>3. m + 1 \in 1 .. Len(s.reads) /\ m + 1 \in 1 .. Len(t.reads) /\ m + 1 < j /\ m + 1 <= n /\ ~(m + 1 <= m)
      BY <1>1, <1>2, <1>5, <2>1, <2>2
    <2>4. s.reads[m + 1].kind # "chunk"
      BY <1>1, <2>3
    <2>5. s.reads[j] = s.reads[m + 1]
      BY <1>5, <2>3, <2>4 DEF Good, Sound, Ordered
    <2>6. t.reads[m + 1] = s.reads[m + 1]
      BY <1>3, <1>5, <2>3, <2>5
    <2>7. t.reads[m + 1].kind = "chunk"
      BY <1>1, <2>3
    <2> QED
      BY <2>4, <2>6, <2>7
  <1> QED
    BY <1>4, <1>5 DEF m, n

(* A chunk comes out in a read that waited only if everything else had come *)
(* out before.                                                              *)
LEMMA WaitedForAll ==
    ASSUME NEW s, Good(s), NEW t, Good(t), Kept(s.reads, t.reads), Len(Chunks(s)) < Len(Chunks(t)),
           Len(Chunks(s)) < Len(s.reads), Len(s.reads) <= Len(t.reads)
    PROVE  Len(Chunks(s)) = Len(s.accepted) /\ ~s.cancelled /\ s.state = "readable"
  <1> DEFINE m == Len(Chunks(s))  n == Len(Chunks(t))
  <1>1. /\ m \in Nat /\ m <= Len(s.reads) /\ \A i \in 1 .. Len(s.reads) : s.reads[i].kind = "chunk" <=> i <= m
        /\ n \in Nat /\ n <= Len(t.reads) /\ \A i \in 1 .. Len(t.reads) : t.reads[i].kind = "chunk" <=> i <= n
        /\ m <= Len(s.accepted)
    BY ChunksFirst
  <1>2. /\ s.reads \in Seq(Promise) /\ Len(s.reads) \in Nat /\ Len(t.reads) \in Nat /\ Len(s.accepted) \in Nat
        /\ \A i \in 1 .. Len(s.reads) : s.reads[i] \in Promise
        /\ s.pendingReads \in Seq(Nat) /\ Numbered(s.pendingReads, s.reads)
    BY GoodTypes DEF Good, Sound, Typed
  <1> HIDE DEF m, n
  <1>3. m + 1 \in 1 .. Len(s.reads) /\ m + 1 \in 1 .. Len(t.reads) /\ m + 1 <= n /\ ~(m + 1 <= m)
    BY <1>1, <1>2 DEF m, n
  <1>4. s.reads[m + 1] = Pending
    <2>1. s.reads[m + 1].kind # "chunk" /\ t.reads[m + 1].kind = "chunk"
      BY <1>1, <1>3
    <2> QED
      BY <1>3, <2>1 DEF Kept
  <1>5. s.pendingReads # <<>>
    BY <1>2, <1>3, <1>4, SomeoneWaits
  <1>6. s.state = "readable" /\ s.queue = <<>> /\ ~s.cancelled
    BY <1>5 DEF Good, Sound, Stated
  <1>7. \A j \in 1 .. Len(s.accepted) : j \in 1 .. Len(s.reads) /\ s.reads[j].kind = "chunk"
    BY <1>6 DEF Good, Sound, Queued
  <1>8. m = Len(s.accepted)
    <2>1. Len(s.accepted) >= 1 => Len(s.accepted) \in 1 .. Len(s.accepted)
      BY <1>2
    <2>2. Len(s.accepted) >= 1 => Len(s.accepted) \in 1 .. Len(s.reads) /\ s.reads[Len(s.accepted)].kind = "chunk"
      BY <1>7, <2>1
    <2>3. Len(s.accepted) >= 1 => Len(s.accepted) <= m
      BY <1>1, <2>2
    <2> QED
      BY <1>1, <1>2, <2>3
  <1> QED
    BY <1>6, <1>8 DEF m

(* The same chunks came out.                                                *)
LEMMA SameChunks ==
    ASSUME NEW s, Good(s), NEW t, Good(t), Len(Chunks(s)) = Len(Chunks(t)),
           \A i \in 1 .. Len(s.accepted) : t.accepted[i] = s.accepted[i]
    PROVE  Chunks(s) = Chunks(t)
  <1>1. /\ Chunks(s) \in Seq(Nat) /\ Chunks(t) \in Seq(Nat) /\ Len(Chunks(s)) <= Len(s.accepted)
        /\ Len(s.accepted) \in Nat /\ Len(Chunks(s)) \in Nat
        /\ \A i \in 1 .. Len(Chunks(s)) : Chunks(s)[i] = s.accepted[i]
        /\ \A i \in 1 .. Len(Chunks(t)) : Chunks(t)[i] = t.accepted[i]
    BY ChunksFirst, GoodTypes
  <1>2. \A i \in 1 .. Len(Chunks(s)) : Chunks(s)[i] = Chunks(t)[i]
    BY <1>1
  <1> QED
    BY <1>1, <1>2, SameByElements

LEMMA AllChunks ==
    ASSUME NEW s, Good(s), Len(Chunks(s)) = Len(s.accepted)
    PROVE  Chunks(s) = s.accepted
  <1>1. /\ Chunks(s) \in Seq(Nat) /\ s.accepted \in Seq(Nat)
        /\ \A i \in 1 .. Len(Chunks(s)) : Chunks(s)[i] = s.accepted[i]
    BY ChunksFirst, GoodTypes
  <1> QED
    BY <1>1, SameByElements

(* What was told goes with the reads, and stays.                            *)
LEMMA ToldOnce ==
    ASSUME NEW s, Good(s)
    PROVE  /\ WasTold(s) \in {"open", "complete", "failed"}
           /\ WasTold(s) = "complete" <=> \E i \in 1 .. Len(s.reads) : s.reads[i] = Done
           /\ WasTold(s) = "failed" <=> \E i \in 1 .. Len(s.reads) : s.reads[i] = Error
           /\ WasTold(s) = "complete" => s.state = "closed" /\ NotDiscarded(s) = Chunks(s)
           /\ WasTold(s) = "failed" => s.state = "errored"
  <1>1. /\ s.reads \in Seq(Promise) /\ DOMAIN s.reads = 1 .. Len(s.reads) /\ Len(s.reads) \in Nat
        /\ Done # Error /\ Done.kind # "chunk" /\ Error.kind # "chunk"
    BY GoodTypes DEF Done, Error
  <1>2. \A i, j \in 1 .. Len(s.reads) : ~(s.reads[i] = Done /\ s.reads[j] = Error)
    <2> SUFFICES ASSUME NEW i \in 1 .. Len(s.reads), NEW j \in 1 .. Len(s.reads), s.reads[i] = Done, s.reads[j] = Error
                 PROVE  FALSE
      OBVIOUS
    <2>1. s.state = "closed" /\ s.state = "errored"
      BY DEF Good, Sound, Stated
    <2> QED
      BY <2>1
  <1>3. (\E i \in 1 .. Len(s.reads) : s.reads[i] = Done) => s.state = "closed" /\ NotDiscarded(s) = Chunks(s)
    BY DoneIsAll DEF NotDiscarded
  <1>4. (\E i \in 1 .. Len(s.reads) : s.reads[i] = Error) => s.state = "errored"
    BY DEF Good, Sound, Stated
  <1> QED
    BY <1>1, <1>2, <1>3, <1>4 DEF WasTold

LEMMA ToldStays ==
    ASSUME NEW s, Good(s), NEW t, Good(t), Kept(s.reads, t.reads), Len(s.reads) <= Len(t.reads), WasTold(s) # "open"
    PROVE  WasTold(t) = WasTold(s) /\ Len(Chunks(t)) = Len(Chunks(s))
  <1>1. \E i \in 1 .. Len(s.reads) : s.reads[i] \in {Done, Error} /\ (s.reads[i] = Done <=> WasTold(s) = "complete")
    BY ToldOnce
  <1>2. PICK i \in 1 .. Len(s.reads) : s.reads[i] \in {Done, Error} /\ (s.reads[i] = Done <=> WasTold(s) = "complete")
    BY <1>1
  <1>3. i \in 1 .. Len(t.reads)
    BY GoodTypes
  <1>4. t.reads[i] = s.reads[i] /\ s.reads[i].kind \in {"done", "error"}
    BY <1>2 DEF Kept, Done, Error, Pending
  <1>5. Len(Chunks(t)) = Len(Chunks(s))
    BY <1>4, ReadsGrow
  <1> QED
    BY <1>2, <1>3, <1>4, <1>5, ToldOnce

(* A reader: what it is given, a step at a time.                            *)
LEMMA PrefixOut ==
    ASSUME NEW s, Good(s)
    PROVE  /\ Chunks(s) = SubSeq(NotDiscarded(s), 1, Len(Chunks(s))) /\ Chunks(s) = SubSeq(s.accepted, 1, Len(Chunks(s)))
           /\ Len(Chunks(s)) \in 0 .. Len(NotDiscarded(s)) /\ Len(Chunks(s)) \in 0 .. Len(s.accepted)
           /\ Chunks(s) \in Seq(Nat) /\ NotDiscarded(s) \in Seq(Nat) /\ s.accepted \in Seq(Nat)
  <1>1. /\ Chunks(s) \in Seq(Nat) /\ s.accepted \in Seq(Nat) /\ Len(Chunks(s)) <= Len(s.accepted)
        /\ \A i \in 1 .. Len(Chunks(s)) : Chunks(s)[i] = s.accepted[i]
    BY ChunksFirst, GoodTypes
  <1>2. Chunks(s) = SubSeq(s.accepted, 1, Len(Chunks(s))) /\ Len(Chunks(s)) \in 0 .. Len(s.accepted)
    BY <1>1, FirstPart
  <1>3. Chunks(s) = SubSeq(Chunks(s), 1, Len(Chunks(s))) /\ Len(Chunks(s)) \in 0 .. Len(Chunks(s))
    BY <1>1, FirstPart
  <1> QED
    BY <1>1, <1>2, <1>3 DEF NotDiscarded

(* A read that fails brings no chunk with it.                               *)
LEMMA FailedReads ==
    ASSUME NEW s, Good(s), NEW t, Good(t), Kept(s.reads, t.reads), Len(s.reads) <= Len(t.reads),
           Len(t.reads) <= Len(s.reads) + 1, t.accepted = s.accepted, WasTold(t) = "failed"
    PROVE  Chunks(t) = Chunks(s)
  <1> SUFFICES ASSUME Len(Chunks(s)) < Len(Chunks(t)) PROVE FALSE
    <2>1. Len(Chunks(s)) <= Len(Chunks(t)) /\ Len(Chunks(s)) \in Nat /\ Len(Chunks(t)) \in Nat
      BY ReadsGrow, ChunksFirst
    <2> QED
      BY <2>1, SameChunks
  <1>1. PICK i \in 1 .. Len(t.reads) : t.reads[i] = Error
    BY ToldOnce
  <1>2. /\ Len(Chunks(s)) \in Nat /\ Len(Chunks(t)) \in Nat /\ Len(Chunks(t)) <= Len(t.accepted)
        /\ t.reads[i].kind = "chunk" <=> i <= Len(Chunks(t))
    BY ChunksFirst
  <1>3. Len(Chunks(s)) < Len(s.reads)
    BY <1>1, <1>2, GoodTypes DEF Error
  <1>4. Len(Chunks(s)) = Len(s.accepted)
    BY <1>3, WaitedForAll
  <1> QED
    BY <1>2, <1>4, GoodTypes

LEMMA ReaderServed ==
    ASSUME NEW s, Good(s), NEW t, Good(t), Kept(s.reads, t.reads), Len(s.reads) <= Len(t.reads),
           Len(t.reads) <= Len(s.reads) + 1, t.accepted = s.accepted, t.cancelled = s.cancelled,
           s.cancelled => Chunks(t) = Chunks(s)
    PROVE  Piped(NotDiscarded(s), Chunks(s), WasTold(s), NotDiscarded(t), Chunks(t), WasTold(t))
  <1> DEFINE a == NotDiscarded(s)  b == Chunks(s)  o == WasTold(s)
             a2 == NotDiscarded(t)  b2 == Chunks(t)  o2 == WasTold(t)
  <1>1. a2 = a
    BY DEF NotDiscarded
  <1>2. /\ o \in {"open", "complete", "failed"} /\ o2 \in {"open", "complete", "failed"}
        /\ o2 = "complete" => b2 = a2
    BY ToldOnce
  <1>3. o # "open" => b2 = b /\ o2 = o
    BY ToldStays, SameChunks
  <1>4. o = "open" /\ o2 = "open" => \E n \in Len(b) .. Len(a) : n \in 0 .. Len(a) /\ b2 = SubSeq(a, 1, n)
    <2>1. Len(b) <= Len(b2) /\ Len(b) \in Nat /\ Len(b2) \in 0 .. Len(a2) /\ b2 = SubSeq(a2, 1, Len(b2))
          /\ Len(a2) \in Nat
      BY ReadsGrow, PrefixOut, ChunksFirst
    <2> HIDE DEF a, b, a2, b2
    <2>2. Len(b2) \in Len(b) .. Len(a) /\ Len(b2) \in 0 .. Len(a) /\ b2 = SubSeq(a, 1, Len(b2))
      BY <1>1, <2>1
    <2> QED
      BY <2>2
  <1>5. o2 = "failed" => b2 = b
    BY FailedReads
  <1> HIDE DEF a, b, o, a2, b2, o2
  <1>6. Piped(a, b, o, a2, b2, o2)
    <2>1. CASE o # "open"
      BY <1>1, <1>3, <2>1 DEF Piped
    <2>2. CASE o = "open" /\ o2 = "open"
      BY <1>1, <1>4, <2>2 DEF Piped
    <2>3. CASE o = "open" /\ o2 = "complete"
      BY <1>1, <1>2, <2>3 DEF Piped
    <2>4. CASE o = "open" /\ o2 = "failed"
      BY <1>1, <1>5, <2>4 DEF Piped
    <2> QED
      BY <1>2, <2>1, <2>2, <2>3, <2>4
  <1> QED
    BY <1>6 DEF a, b, o, a2, b2, o2

LEMMA ReaderFed ==
    ASSUME NEW s, Good(s), Active(s), NEW c \in 1 .. MaxChunks, NEW t, Good(t), t.state = "readable",
           t.accepted = Append(s.accepted, c), Kept(s.reads, t.reads), Len(t.reads) = Len(s.reads)
    PROVE  Piped(NotDiscarded(s), Chunks(s), WasTold(s), NotDiscarded(t), Chunks(t), WasTold(t))
  <1> DEFINE a == NotDiscarded(s)  b == Chunks(s)  o == WasTold(s)
             a2 == NotDiscarded(t)  b2 == Chunks(t)  o2 == WasTold(t)
  <1>1. a = s.accepted /\ a2 = Append(a, c)
    BY DEF NotDiscarded, Active, Good, Sound, Stated
  <1>2. o = "open" /\ o2 = "open"
    BY ToldOnce DEF Active
  <1>3. /\ Len(s.accepted) \in Nat /\ Len(t.accepted) = Len(s.accepted) + 1
        /\ \A i \in 1 .. Len(s.accepted) : t.accepted[i] = s.accepted[i]
    BY GoodTypes, Appended
  <1>4. Len(b) <= Len(b2) /\ Len(b) \in Nat /\ Len(b2) \in Nat /\ Len(b2) <= Len(t.accepted)
        /\ Len(b2) <= Len(t.reads)
    <2>1. Len(b) \in Nat /\ Len(b2) \in Nat /\ Len(b2) <= Len(t.accepted) /\ Len(b2) <= Len(t.reads)
      BY ChunksFirst
    <2>2. Len(b) <= Len(b2)
      BY ReadsGrow, GoodTypes
    <2> QED
      BY <2>1, <2>2
  <1>5. Len(b) = Len(b2) => b2 = b
    BY <1>3, SameChunks
  <1>6. Len(b) < Len(b2) => b = a /\ b2 = Append(b, c)
    <2> SUFFICES ASSUME Len(b) < Len(b2) PROVE b = a /\ b2 = Append(b, c)
      OBVIOUS
    <2>1. Len(b) < Len(s.reads)
      BY <1>4, GoodTypes
    <2>2. Len(b) = Len(s.accepted)
      BY <2>1, WaitedForAll, GoodTypes
    <2>3. Len(b2) = Len(t.accepted)
      BY <1>3, <1>4, <2>2
    <2> QED
      BY <1>1, <2>2, <2>3, AllChunks
  <1> HIDE DEF a, b, o, a2, b2, o2
  <1>7. Piped(a, b, o, a2, b2, o2)
    <2>1. CASE Len(b) = Len(b2)
      BY <1>1, <1>2, <1>5, <2>1 DEF Piped
    <2>2. CASE Len(b) < Len(b2)
      BY <1>1, <1>2, <1>6, <2>2 DEF Piped
    <2> QED
      BY <1>4, <2>1, <2>2
  <1> QED
    BY <1>7 DEF a, b, o, a2, b2, o2

LEMMA ReaderCancels ==
    ASSUME NEW s, Good(s), s.state # "errored", NEW t, Good(t), t.cancelled, t.accepted = s.accepted,
           Kept(s.reads, t.reads), Len(t.reads) = Len(s.reads)
    PROVE  /\ Chunks(t) = Chunks(s) /\ NotDiscarded(t) = Chunks(s)
           /\ Piped(NotDiscarded(s), Chunks(s), WasTold(s), NotDiscarded(t), Chunks(t), WasTold(t))
  <1> DEFINE a == NotDiscarded(s)  b == Chunks(s)  o == WasTold(s)
             a2 == NotDiscarded(t)  b2 == Chunks(t)  o2 == WasTold(t)
  <1>1. b2 = b /\ a2 = b
    <2>1. /\ Len(b) <= Len(b2) /\ Len(b) \in Nat /\ Len(b2) \in Nat /\ Len(b2) <= Len(t.reads)
          /\ Len(b2) <= Len(t.accepted)
      BY ReadsGrow, ChunksFirst, GoodTypes
    <2>2. ~(Len(b) < Len(b2))
      <3> SUFFICES ASSUME Len(b) < Len(b2) PROVE FALSE
        OBVIOUS
      <3>1. Len(b) < Len(s.reads)
        BY <2>1, GoodTypes
      <3>2. Len(b) = Len(s.accepted)
        BY <3>1, WaitedForAll, GoodTypes
      <3> QED
        BY <2>1, <3>2
    <2> QED
      BY <2>1, <2>2, SameChunks DEF NotDiscarded
  <1>2. /\ o \in {"open", "complete", "failed"} /\ o2 \in {"open", "complete", "failed"}
        /\ (o = "complete" => a = b) /\ o # "failed"
    BY ToldOnce
  <1>3. o # "open" => o2 = o
    BY ToldStays, GoodTypes
  <1>4. Len(b) \in 0 .. Len(a) /\ b = SubSeq(a, 1, Len(b)) /\ Len(a) \in Nat
    BY PrefixOut
  <1> HIDE DEF a, b, o, a2, b2, o2
  <1>5. Piped(a, b, o, a2, b2, o2)
    <2>1. CASE o = "complete"
      BY <1>1, <1>2, <1>3, <2>1 DEF Piped
    <2>2. CASE o = "open"
      <3>1. Len(b) \in Len(b) .. Len(a)
        BY <1>4
      <3> QED
        BY <1>1, <1>2, <1>4, <2>2, <3>1 DEF Piped
    <2> QED
      BY <1>2, <2>1, <2>2
  <1> QED
    BY <1>1, <1>5 DEF a, b, o, a2, b2, o2

(* The pipe of the state.                                                   *)
LEMMA SeenPipe ==
    ASSUME shape \in Shape
    PROVE  /\ PipeSent = NotDiscarded(rs["source"])
           /\ Piping => PipeReceived = ws.sink /\ PipeOutcome = PumpTold(pump)
           /\ ~Piping => PipeReceived = Chunks(rs["source"]) /\ PipeOutcome = WasTold(rs["source"])
  <1>1. PipeSent = NotDiscarded(rs["source"])
    BY DEF PipeSent, NotDiscarded, Source
  <1>2. Piping => PipeReceived = ws.sink /\ PipeOutcome = PumpTold(pump)
    BY DEF PipeReceived, PipeOutcome, PumpTold
  <1>3. ~Piping => PipeReceived = Chunks(rs["source"]) /\ PipeOutcome = WasTold(rs["source"])
    BY DEF PipeReceived, PipeOutcome, Source
  <1> QED
    BY <1>1, <1>2, <1>3

LEMMA SeenNext ==
    ASSUME shape' \in Shape
    PROVE  /\ PipeSent' = NotDiscarded(rs'["source"])
           /\ Piping' => PipeReceived' = ws'.sink /\ PipeOutcome' = PumpTold(pump')
           /\ ~Piping' => PipeReceived' = Chunks(rs'["source"]) /\ PipeOutcome' = WasTold(rs'["source"])
  <1>1. PipeSent' = NotDiscarded(rs'["source"])
    BY DEF PipeSent, NotDiscarded, Source
  <1>2. Piping' => PipeReceived' = ws'.sink /\ PipeOutcome' = PumpTold(pump')
    BY DEF PipeReceived, PipeOutcome, PumpTold
  <1>3. ~Piping' => PipeReceived' = Chunks(rs'["source"]) /\ PipeOutcome' = WasTold(rs'["source"])
    BY DEF PipeReceived, PipeOutcome, Source
  <1> QED
    BY <1>1, <1>2, <1>3

LEMMA ReaderStep ==
    ASSUME WebInv, ~Piping, shape' = shape, NEW s, s = rs["source"], NEW t, t = rs'["source"],
           Piped(NotDiscarded(s), Chunks(s), WasTold(s), NotDiscarded(t), Chunks(t), WasTold(t))
    PROVE  [Pipe!Next]_(Pipe!vars)
  <1>1. shape \in Shape /\ shape' \in Shape /\ ~Piping'
    BY DEF WebInv, Piping
  <1>2. Piped(PipeSent, PipeReceived, PipeOutcome, PipeSent', PipeReceived', PipeOutcome')
    BY <1>1, SeenPipe, SeenNext
  <1> QED
    BY <1>2, PipedSteps

LEMMA PipingStep ==
    ASSUME WebInv, Piping, shape' = shape,
           Piped(NotDiscarded(rs["source"]), ws.sink, PumpTold(pump), NotDiscarded(rs'["source"]), ws'.sink, PumpTold(pump'))
    PROVE  [Pipe!Next]_(Pipe!vars)
  <1>1. shape \in Shape /\ shape' \in Shape /\ Piping'
    BY DEF WebInv, Piping
  <1>2. Piped(PipeSent, PipeReceived, PipeOutcome, PipeSent', PipeReceived', PipeOutcome')
    BY <1>1, SeenPipe, SeenNext
  <1> QED
    BY <1>2, PipedSteps

LEMMA UnseenStep ==
    ASSUME WebInv, Unseen
    PROVE  [Pipe!Next]_(Pipe!vars)
  <1> DEFINE s == rs["source"]
  <1>1. CASE Piping
    <2>1. Piped(NotDiscarded(s), ws.sink, PumpTold(pump), NotDiscarded(rs'["source"]), ws'.sink, PumpTold(pump'))
      BY <1>1 DEF Unseen, Piped
    <2> QED
      BY <1>1, <2>1, PipingStep DEF Unseen
  <1>2. CASE ~Piping
    <2>1. Piped(NotDiscarded(s), Chunks(s), WasTold(s), NotDiscarded(s), Chunks(s), WasTold(s))
      BY DEF Piped
    <2> QED
      BY <1>2, <2>1, ReaderStep DEF Unseen
  <1> QED
    BY <1>1, <1>2

(* What a pipe has written are chunks that came out of its source; when it  *)
(* closes the sink, all that were not discarded.                            *)
LEMMA CarriedPart ==
    ASSUME NEW w, GoodSink(w), NEW s, Good(s), NEW p, Carried(w, s, p)
    PROVE  /\ Len(w.sink) \in 0 .. Len(Chunks(s)) /\ w.sink = SubSeq(NotDiscarded(s), 1, Len(w.sink))
           /\ Len(w.sink) \in 0 .. Len(NotDiscarded(s))
           /\ p \in {"closing", "done"} => s.state = "closed" /\ NotDiscarded(s) = Chunks(s)
           /\ PipeSink(w) /\ p \in {"closing", "done"} => w.sink = NotDiscarded(s)
  <1> DEFINE n == Len(w.sink)  k == Len(Chunks(s))
  <1>1. /\ w.sink \in Seq(Nat) /\ n \in Nat /\ Len(w.writes) \in Nat /\ Len(s.reads) \in Nat
        /\ \A i \in 1 .. n : i \in 1 .. Len(s.reads) /\ s.reads[i] = GotChunk(w.sink[i])
    BY GoodTypes DEF GoodSink, Writables, Carried
  <1>2. /\ k \in Nat /\ Chunks(s) \in Seq(Nat) /\ NotDiscarded(s) \in Seq(Nat) /\ k <= Len(NotDiscarded(s))
        /\ \A i \in 1 .. Len(s.reads) : s.reads[i].kind = "chunk" <=> i <= k
        /\ \A i \in 1 .. k : Chunks(s)[i] = s.accepted[i] /\ NotDiscarded(s)[i] = s.accepted[i]
    BY ChunksFirst, PrefixOut DEF NotDiscarded
  <1>3. \A i \in 1 .. n : i <= k /\ w.sink[i] = s.accepted[i]
    <2> TAKE i \in 1 .. n
    <2>1. s.reads[i].kind = "chunk" /\ s.reads[i].chunk = w.sink[i]
      <3>1. s.reads[i] = GotChunk(w.sink[i])
        BY <1>1
      <3> QED
        BY <3>1 DEF GotChunk
    <2>2. s.reads[i] = GotChunk(s.accepted[i])
      BY <1>1, <2>1 DEF Good, Sound, Ordered
    <2>3. s.reads[i].chunk = s.accepted[i]
      BY <2>2 DEF GotChunk
    <2> QED
      BY <1>1, <1>2, <2>1, <2>3
  <1> HIDE DEF k
  <1>4. n <= k
    <2>1. n >= 1 => n \in 1 .. n
      BY <1>1
    <2> QED
      BY <1>1, <1>2, <1>3, <2>1
  <1>5. w.sink = SubSeq(NotDiscarded(s), 1, n) /\ n \in 0 .. Len(NotDiscarded(s))
    <2>1. Len(w.sink) <= Len(NotDiscarded(s)) /\ \A i \in 1 .. Len(w.sink) : w.sink[i] = NotDiscarded(s)[i]
      BY <1>1, <1>2, <1>3, <1>4
    <2> QED
      BY <1>1, <1>2, <2>1, FirstPart
  <1>6. ASSUME p \in {"closing", "done"}
        PROVE  s.state = "closed" /\ NotDiscarded(s) = Chunks(s) /\ (PipeSink(w) => w.sink = NotDiscarded(s))
    <2>1. Len(s.reads) \in 1 .. Len(s.reads) /\ s.reads[Len(s.reads)] = Done /\ Len(w.writes) + 1 = Len(s.reads)
      BY <1>1, <1>6 DEF Carried
    <2>2. s.state = "closed" /\ NotDiscarded(s) = Chunks(s)
      BY <2>1, DoneIsAll DEF NotDiscarded
    <2>3. ASSUME PipeSink(w) PROVE n = k
      <3>1. k < Len(s.reads)
        <4>1. s.reads[Len(s.reads)].kind # "chunk"
          BY <2>1 DEF Done
        <4>2. ~(Len(s.reads) <= k)
          BY <1>2, <2>1, <4>1
        <4> QED
          BY <1>1, <1>2, <4>2
      <3>2. Len(w.writes) >= 1 => Len(w.writes) \in 1 .. Len(w.writes)
        BY <1>1
      <3>3. Len(w.writes) >= 1 => w.writes[Len(w.writes)] = "resolved"
        BY <1>6, <3>2 DEF Carried
      <3>4. Len(w.writes) >= 1 => Len(w.writes) <= n
        BY <2>3, <3>2, <3>3 DEF PipeSink
      <3> QED
        BY <1>1, <1>2, <1>4, <2>1, <3>1, <3>4
    <2>4. PipeSink(w) => w.sink = Chunks(s)
      <3>1. PipeSink(w) => Len(w.sink) = Len(Chunks(s)) /\ \A i \in 1 .. Len(w.sink) : w.sink[i] = Chunks(s)[i]
        BY <1>1, <1>2, <1>3, <2>3 DEF k
      <3> QED
        BY <1>1, <1>2, <3>1, SameByElements
    <2> QED
      BY <2>2, <2>4
  <1> QED
    BY <1>1, <1>2, <1>4, <1>5, <1>6 DEF k

(* The calls on the source.                                                 *)
Rests(s, t) == Moves(s, t) /\ t.accepted = s.accepted /\ t.cancelled = s.cancelled

LEMMA RestsSame ==
    ASSUME NEW s, Good(s), NEW t, Rests(s, t), s.cancelled
    PROVE  Chunks(t) = Chunks(s)
  <1>1. /\ Good(t) /\ Kept(s.reads, t.reads) /\ Len(s.reads) = Len(t.reads) /\ t.accepted = s.accepted
        /\ Len(s.reads) <= Len(t.reads)
    BY GoodTypes DEF Rests, Moves
  <1>2. /\ Len(Chunks(s)) \in Nat /\ Len(Chunks(t)) \in Nat /\ Len(Chunks(s)) <= Len(Chunks(t))
        /\ Len(Chunks(t)) <= Len(s.reads)
    BY <1>1, ReadsGrow, ChunksFirst
  <1>3. ~(Len(Chunks(s)) < Len(Chunks(t)))
    <2>1. Len(Chunks(s)) < Len(Chunks(t)) => Len(Chunks(s)) < Len(s.reads)
      BY <1>1, <1>2, GoodTypes
    <2> QED
      BY <1>1, <2>1, WaitedForAll
  <1> QED
    BY <1>1, <1>2, <1>3, SameChunks

LEMMA RestsPipe ==
    ASSUME WebInv, NEW t, Rests(rs["source"], t), rs'["source"] = t, UNCHANGED <<shape, ws, pump>>
    PROVE  [Pipe!Next]_(Pipe!vars)
  <1> DEFINE s == rs["source"]
  <1>1. /\ Good(s) /\ Good(t) /\ Kept(s.reads, t.reads) /\ Len(t.reads) = Len(s.reads) /\ Len(s.reads) \in Nat
        /\ t.accepted = s.accepted /\ t.cancelled = s.cancelled /\ (s.cancelled => Chunks(t) = Chunks(s))
    BY Parts, GoodTypes, RestsSame DEF Rests, Moves
  <1>2. CASE Piping
    <2>1. NotDiscarded(t) = NotDiscarded(s)
      BY <1>1 DEF NotDiscarded
    <2>2. Piped(NotDiscarded(s), ws.sink, PumpTold(pump), NotDiscarded(t), ws'.sink, PumpTold(pump'))
      BY <2>1 DEF Piped
    <2> QED
      BY <1>2, <2>2, PipingStep
  <1>3. CASE ~Piping
    <2>1. Len(s.reads) <= Len(t.reads) /\ Len(t.reads) <= Len(s.reads) + 1
      BY <1>1
    <2> HIDE DEF s
    <2>2. Piped(NotDiscarded(s), Chunks(s), WasTold(s), NotDiscarded(t), Chunks(t), WasTold(t))
      BY <1>1, <2>1, ReaderServed
    <2> QED
      BY <1>3, <2>2, ReaderStep DEF s
  <1> QED
    BY <1>2, <1>3

LEMMA SourceRests ==
    ASSUME NEW s, Good(s), NEW h
    PROVE  LET u == [s EXCEPT !.pulling = FALSE] IN
           /\ Rests(s, closeReadable(s)) /\ Rests(s, errorReadable(s)) /\ Rests(s, pullIfNeeded(s, h))
           /\ Rests(s, pullIfNeeded(u, h)) /\ Rests(s, errorReadable(u))
  <1> DEFINE u == [s EXCEPT !.pulling = FALSE]
  <1>1. /\ u \in Readables /\ u.state = s.state /\ u.queue = s.queue /\ u.pendingReads = s.pendingReads
        /\ u.closeRequested = s.closeRequested /\ u.reads = s.reads /\ u.accepted = s.accepted
        /\ u.cancelled = s.cancelled
    <2>1. s \in Readables
      BY GoodTypes
    <2> QED
      BY <2>1 DEF Readables
  <1> HIDE DEF u
  <1>2. Good(u)
    BY <1>1 DEF Good
  <1>3. ASSUME NEW v, Good(v)
        PROVE  Rests(v, closeReadable(v)) /\ Rests(v, errorReadable(v)) /\ Rests(v, pullIfNeeded(v, h))
    <2>1. Rests(v, closeReadable(v))
      <3>1. closeReadable(v).accepted = v.accepted /\ closeReadable(v).cancelled = v.cancelled
        BY <1>3, CloseGood
      <3> QED
        BY <1>3, <3>1, EndsMove DEF Rests
    <2>2. Rests(v, errorReadable(v))
      <3>1. errorReadable(v).accepted = v.accepted /\ errorReadable(v).cancelled = v.cancelled
        BY <1>3, ErrorGood
      <3> QED
        BY <1>3, <3>1, EndsMove DEF Rests
    <2>3. Rests(v, pullIfNeeded(v, h))
      <3>1. pullIfNeeded(v, h).accepted = v.accepted /\ pullIfNeeded(v, h).cancelled = v.cancelled
        BY <1>3, PullFields DEF Good
      <3> QED
        BY <1>3, <3>1, PullMoves DEF Rests
    <2> QED
      BY <2>1, <2>2, <2>3
  <1>4. Rests(u, errorReadable(u)) /\ Rests(u, pullIfNeeded(u, h))
    BY <1>2, <1>3
  <1>5. Rests(s, errorReadable(u)) /\ Rests(s, pullIfNeeded(u, h))
    BY <1>1, <1>4 DEF Rests, Moves
  <1> QED
    BY <1>3, <1>5 DEF u

LEMMA SourcePipes ==
    ASSUME WebInv, SourceStarted \/ SourceEnqueues \/ SourceEnds \/ PullSettles
    PROVE  [Pipe!Next]_(Pipe!vars)
  <1> DEFINE s == rs["source"]
  <1>1. Good(s) /\ "source" \in Stream /\ Streamed(rs) /\ UNCHANGED <<shape, ws, pump>>
    BY Parts DEF SourceStarted, SourceEnqueues, SourceEnds, PullSettles
  <1>2. ASSUME NEW t, rs' = [rs EXCEPT !["source"] = t] PROVE rs'["source"] = t
    BY <1>1, <1>2 DEF Streamed
  <1>3. ASSUME NEW t, Rests(s, t), rs' = [rs EXCEPT !["source"] = t] PROVE [Pipe!Next]_(Pipe!vars)
    BY <1>1, <1>2, <1>3, RestsPipe
  <1>4. CASE SourceStarted
    <2>1. rs' = [rs EXCEPT !["source"] = pullIfNeeded(s, TRUE)]
      BY <1>4 DEF SourceStarted, Update, Source
    <2> QED
      BY <1>1, <1>3, <2>1, SourceRests
  <1>5. CASE SourceEnds
    <2>1. \/ rs' = [rs EXCEPT !["source"] = closeReadable(s)]
          \/ rs' = [rs EXCEPT !["source"] = errorReadable(s)]
      BY <1>5 DEF SourceEnds, Update, Source
    <2> QED
      BY <1>1, <1>3, <2>1, SourceRests
  <1>6. CASE PullSettles
    <2> DEFINE u == [s EXCEPT !.pulling = FALSE]
    <2>1. \/ rs' = [rs EXCEPT !["source"] = pullIfNeeded(u, TRUE)]
          \/ rs' = [rs EXCEPT !["source"] = errorReadable(u)]
      BY <1>6 DEF PullSettles, Update, Source
    <2>2. Rests(s, pullIfNeeded(u, TRUE)) /\ Rests(s, errorReadable(u))
      BY <1>1, SourceRests
    <2> HIDE DEF u
    <2> QED
      BY <1>3, <2>1, <2>2
  <1>7. CASE SourceEnqueues
    <2> DEFINE c == Len(s.accepted) + 1  t == enqueue(s, c, pullSource)
    <2>1. Active(s) /\ c \in 1 .. MaxChunks /\ c \in Nat /\ rs' = [rs EXCEPT !["source"] = t]
      BY <1>1, <1>7, GoodTypes, WebAssumption DEF SourceEnqueues, Update, Source
    <2> HIDE DEF s, c
    <2>2. /\ Good(t) /\ t.state = "readable" /\ t.accepted = Append(s.accepted, c)
          /\ t.cancelled = s.cancelled /\ Kept(s.reads, t.reads) /\ Len(t.reads) = Len(s.reads)
      BY <1>1, <2>1, EnqueueGood
    <2> USE DEF s
    <2> HIDE DEF t
    <2>3. rs'["source"] = t
      BY <1>2, <2>1
    <2>4. CASE ~Piping
      <3> HIDE DEF s
      <3>1. Piped(NotDiscarded(s), Chunks(s), WasTold(s), NotDiscarded(t), Chunks(t), WasTold(t))
        BY <1>1, <2>1, <2>2, ReaderFed
      <3> QED
        BY <1>1, <2>3, <2>4, <3>1, ReaderStep DEF s
    <2>5. CASE Piping
      <3>1. Carried(ws, s, pump) /\ GoodSink(ws)
        BY <2>5 DEF WebInv
      <3>2. pump # "done"
        BY <1>1, <2>1, <3>1, CarriedPart DEF Active
      <3>3. NotDiscarded(s) = s.accepted /\ NotDiscarded(t) = t.accepted
        BY <1>1, <2>1, <2>2 DEF NotDiscarded, Active, Good, Sound, Stated
      <3>4. Piped(NotDiscarded(s), ws.sink, PumpTold(pump), NotDiscarded(t), ws'.sink, PumpTold(pump'))
        BY <1>1, <2>1, <2>2, <3>2, <3>3 DEF Piped, PumpTold
      <3> QED
        BY <1>1, <2>3, <2>5, <3>4, PipingStep
    <2> QED
      BY <2>4, <2>5
  <1> QED
    BY <1>4, <1>5, <1>6, <1>7

(* The calls of the script.                                                 *)
LEMMA ReadCancelled ==
    ASSUME NEW s, Good(s), s.cancelled, NEW h
    PROVE  read(s, h).reads = Append(s.reads, Done)
  <1>1. s.queue = <<>> /\ s.state = "closed" /\ s \in Readables
    BY DEF Good, Sound, Stated
  <1>2. read(s, h) = [s EXCEPT !.reads = Append(s.reads, Done)]
    BY <1>1 DEF read
  <1> QED
    BY <1>1, <1>2 DEF Readables

LEMMA ReadServes ==
    ASSUME NEW s, Good(s), NEW h
    PROVE  LET t == read(s, h) IN
           /\ Good(t) /\ Kept(s.reads, t.reads) /\ Len(t.reads) = Len(s.reads) + 1
           /\ t.accepted = s.accepted /\ t.cancelled = s.cancelled
           /\ s.cancelled => Chunks(t) = Chunks(s)
  <1> DEFINE t == read(s, h)
  <1>1. /\ Good(t) /\ Kept(s.reads, t.reads) /\ Len(t.reads) = Len(s.reads) + 1
        /\ t.accepted = s.accepted /\ t.cancelled = s.cancelled
    BY ReadGood
  <1>2. s.cancelled => t.reads = Append(s.reads, Done)
    BY ReadCancelled
  <1> HIDE DEF t
  <1>3. ASSUME s.cancelled PROVE Len(Chunks(t)) = Len(Chunks(s))
    <2>1. /\ Len(Chunks(s)) \in Nat /\ Len(Chunks(t)) \in Nat /\ Len(s.reads) \in Nat
          /\ Len(Chunks(s)) <= Len(s.reads) /\ Len(Chunks(t)) <= Len(t.reads)
          /\ Len(Chunks(s)) <= Len(Chunks(t))
      <3>1. Len(s.reads) <= Len(t.reads) /\ Len(s.reads) \in Nat
        BY <1>1, GoodTypes
      <3> QED
        BY <1>1, <3>1, ReadsGrow, ChunksFirst
    <2>2. t.reads[Len(s.reads) + 1] = Done /\ Len(s.reads) + 1 \in 1 .. Len(t.reads)
      BY <1>1, <1>2, <1>3, <2>1, GoodTypes, Appended
    <2>3. ~(Len(s.reads) + 1 <= Len(Chunks(t)))
      <3>1. t.reads[Len(s.reads) + 1].kind # "chunk"
        BY <2>2 DEF Done
      <3> QED
        BY <1>1, <2>2, <3>1, ChunksFirst
    <2>4. ~(Len(Chunks(s)) < Len(Chunks(t)))
      <3>1. Len(Chunks(s)) < Len(Chunks(t)) => Len(Chunks(s)) < Len(s.reads)
        BY <2>1, <2>3
      <3>2. Len(s.reads) <= Len(t.reads)
        BY <1>1, <2>1
      <3> QED
        BY <1>1, <1>3, <3>1, <3>2, WaitedForAll
    <2> QED
      BY <2>1, <2>4
  <1>4. s.cancelled => Chunks(t) = Chunks(s)
    BY <1>1, <1>3, SameChunks
  <1> QED
    BY <1>1, <1>4 DEF t

LEMMA ScriptPipes ==
    ASSUME WebInv, NEW x \in Stream, ScriptReads(x) \/ ScriptCancels(x)
    PROVE  [Pipe!Next]_(Pipe!vars)
  <1> DEFINE s == rs["source"]
  <1>1. Good(s) /\ "source" \in Stream /\ Streamed(rs) /\ UNCHANGED <<shape, ws, pump>> /\ shape \in Shape
    BY Parts DEF ScriptReads, ScriptCancels, WebInv
  <1>2. ASSUME NEW t, rs' = [rs EXCEPT ![x] = t]
        PROVE  (x = "source" => rs'["source"] = t) /\ (x # "source" => rs'["source"] = s)
    BY <1>1, <1>2 DEF Streamed
  <1>3. CASE x # "source"
    <2>1. rs'["source"] = s
      BY <1>2, <1>3 DEF ScriptReads, ScriptCancels, Update
    <2> QED
      BY <1>1, <2>1, UnseenStep DEF Unseen
  <1>4. CASE x = "source" /\ ScriptReads(x)
    <2> DEFINE t == read(s, HasPull(x))
    <2>1. rs'["source"] = t
      BY <1>2, <1>4 DEF ScriptReads, Update
    <2>2. ~Piping
      BY <1>1, <1>4 DEF ScriptReads, Read, Piping, Shape
    <2>3. /\ Good(t) /\ Kept(s.reads, t.reads) /\ Len(t.reads) = Len(s.reads) + 1 /\ Len(s.reads) \in Nat
          /\ t.accepted = s.accepted /\ t.cancelled = s.cancelled
          /\ s.cancelled => Chunks(t) = Chunks(s)
      BY <1>1, ReadServes, GoodTypes
    <2> HIDE DEF t, s
    <2>4. Len(s.reads) <= Len(t.reads) /\ Len(t.reads) <= Len(s.reads) + 1
      BY <2>3
    <2>5. Piped(NotDiscarded(s), Chunks(s), WasTold(s), NotDiscarded(t), Chunks(t), WasTold(t))
      BY <1>1, <2>3, <2>4, ReaderServed
    <2> QED
      BY <1>1, <2>1, <2>2, <2>5, ReaderStep DEF s
  <1>5. CASE x = "source" /\ ScriptCancels(x)
    <2> DEFINE t == cancelReadable(s)
    <2>1. rs'["source"] = t /\ s.state # "errored"
      BY <1>2, <1>5 DEF ScriptCancels, Update
    <2>2. Good(t) /\ t.cancelled /\ t.accepted = s.accepted /\ Kept(s.reads, t.reads) /\ Len(t.reads) = Len(s.reads)
      BY <1>1, <2>1, CancelGood
    <2> HIDE DEF t
    <2>3. /\ NotDiscarded(t) = Chunks(s)
          /\ Piped(NotDiscarded(s), Chunks(s), WasTold(s), NotDiscarded(t), Chunks(t), WasTold(t))
      BY <1>1, <2>1, <2>2, ReaderCancels
    <2>4. CASE ~Piping
      BY <1>1, <2>1, <2>3, <2>4, ReaderStep
    <2>5. CASE Piping
      <3>1. Carried(ws, s, pump) /\ GoodSink(ws)
        BY <2>5 DEF WebInv
      <3>2. /\ Len(ws.sink) \in 0 .. Len(Chunks(s)) /\ (pump = "done" => NotDiscarded(s) = Chunks(s))
        BY <1>1, <3>1, CarriedPart
      <3>3. /\ Chunks(s) = SubSeq(NotDiscarded(s), 1, Len(Chunks(s))) /\ Len(Chunks(s)) \in 0 .. Len(NotDiscarded(s))
            /\ Len(NotDiscarded(s)) \in Nat
        BY <1>1, PrefixOut
      <3> DEFINE a == NotDiscarded(s)  n == Len(Chunks(s))  b == ws.sink
      <3>4. n \in Len(b) .. Len(a) /\ n \in 0 .. Len(a) /\ NotDiscarded(t) = SubSeq(a, 1, n)
        BY <2>3, <3>2, <3>3
      <3>5. PumpTold(pump) = "complete" => pump = "done"
        BY DEF PumpTold
      <3> HIDE DEF a, n, b
      <3>6. Piped(a, b, PumpTold(pump), NotDiscarded(t), b, PumpTold(pump))
        <4>1. CASE PumpTold(pump) = "complete"
          <5>1. NotDiscarded(t) = a
            BY <2>3, <3>2, <3>5, <4>1 DEF a
          <5> QED
            BY <5>1 DEF Piped
        <4>2. CASE PumpTold(pump) # "complete"
          BY <3>4, <4>2 DEF Piped
        <4> QED
          BY <4>1, <4>2
      <3> QED
        BY <1>1, <2>1, <2>5, <3>6, PipingStep DEF a, b
    <2> QED
      BY <2>4, <2>5
  <1> QED
    BY <1>3, <1>4, <1>5

(* The async function of pipeTo or tee.                                     *)
LEMMA PipeDelivers ==
    ASSUME WebInv, WebInv', Piping, shape' = shape, rs'["source"] = rs["source"],
           Len(ws.sink) <= Len(ws'.sink), PumpTold(pump) = "open", PumpTold(pump') = "open"
    PROVE  [Pipe!Next]_(Pipe!vars)
  <1> DEFINE s == rs["source"]  w == ws'  p == pump'  a == NotDiscarded(s)  b == ws.sink  b2 == ws'.sink
  <1>1. Good(s) /\ GoodSink(w) /\ Carried(w, s, p) /\ Len(b) \in Nat
    <2>1. Good(s) /\ GoodSink(ws)
      BY Parts
    <2>2. Piping'
      BY DEF Piping
    <2>3. GoodSink(w) /\ Carried(w, s, p)
      BY <2>2 DEF WebInv
    <2>4. ws.sink \in Seq(Nat)
      BY <2>1 DEF GoodSink, Writables
    <2>5. Len(b) \in Nat
      BY <2>4
    <2> QED
      BY <2>1, <2>3, <2>5
  <1>2. Len(b2) \in 0 .. Len(a) /\ b2 = SubSeq(a, 1, Len(b2)) /\ Len(a) \in Nat
    <2> HIDE DEF s, w, p
    <2>1. Len(w.sink) \in 0 .. Len(a) /\ w.sink = SubSeq(a, 1, Len(w.sink)) /\ a \in Seq(Nat)
      BY <1>1, CarriedPart, PrefixOut
    <2> QED
      BY <2>1 DEF w
  <1> HIDE DEF a, b, b2
  <1>3. Len(b2) \in Len(b) .. Len(a)
    BY <1>1, <1>2 DEF b, b2
  <1>4. Piped(a, b, PumpTold(pump), a, b2, PumpTold(pump'))
    BY <1>2, <1>3 DEF Piped
  <1> QED
    BY <1>4, PipingStep DEF a, b, b2

LEMMA PipeFails ==
    ASSUME WebInv, Piping, shape' = shape, rs'["source"] = rs["source"], ws'.sink = ws.sink,
           PumpTold(pump) = "open", pump' = "failed"
    PROVE  [Pipe!Next]_(Pipe!vars)
  <1> DEFINE a == NotDiscarded(rs["source"])  b == ws.sink
  <1>1. PumpTold(pump') = "failed"
    BY DEF PumpTold
  <1> HIDE DEF a, b
  <1>2. Piped(a, b, PumpTold(pump), a, b, PumpTold(pump'))
    BY <1>1 DEF Piped
  <1> QED
    BY <1>2, PipingStep DEF a, b

LEMMA PipeGotPipes ==
    ASSUME WebInv, PipeGot
    PROVE  [Pipe!Next]_(Pipe!vars)
  <1> DEFINE s == rs["source"]
  <1>1. /\ Good(s) /\ GoodSink(ws) /\ PipeSink(ws) /\ Carried(ws, s, "reading") /\ pump = "reading" /\ Piping
        /\ shape' = shape /\ WebInv'
    BY Parts, PipeGotInv DEF WebInv, PipeGot
  <1>2. /\ Len(ws.sink) \in Nat /\ ws.sink \in Seq(Nat) /\ Len(s.reads) >= 1
        /\ \A i \in 1 .. Len(ws.writes) : ws.writes[i] = "resolved"
    BY <1>1 DEF Carried, GoodSink, Writables
  <1>3. PumpTold(pump) = "open" /\ PumpTold("writing") = "open" /\ PumpTold("closing") = "open"
    BY <1>1 DEF PumpTold
  <1>4. CASE Last(s.reads).kind = "chunk" /\ ws' = write(ws, Last(s.reads).chunk) /\ pump' = "writing" /\ UNCHANGED rs
    <2> DEFINE c == Last(s.reads).chunk
    <2>1. c \in Nat
      BY <1>1, <1>2, <1>4, LastRead
    <2> HIDE DEF c
    <2>2. ws'.sink = ws.sink \/ ws'.sink = Append(ws.sink, c)
      <3>1. ws' = write(ws, c)
        BY <1>4 DEF c
      <3> QED
        BY <1>1, <1>2, <2>1, <3>1, WriteSink
    <2>3. Len(ws.sink) <= Len(ws'.sink)
      BY <1>2, <2>1, <2>2, Appended
    <2> QED
      BY <1>1, <1>3, <1>4, <2>3, PipeDelivers
  <1>5. CASE ws' = [closeWritable(ws) EXCEPT !.own = Len(ws.closes) + 1] /\ pump' = "closing" /\ UNCHANGED rs
    <2>1. GoodSink(closeWritable(ws)) /\ closeWritable(ws).sink = ws.sink
      BY <1>1, CloseSink
    <2>2. ws'.sink = ws.sink
      BY <1>5, <2>1 DEF GoodSink, Writables
    <2> QED
      BY <1>1, <1>2, <1>3, <1>5, <2>2, PipeDelivers
  <1>6. CASE Abort /\ pump' = "failed"
    BY <1>1, <1>3, <1>6, AbortTyped, PipeFails
  <1> QED
    BY <1>4, <1>5, <1>6 DEF PipeGot, Source

LEMMA PipeSettlesPipes ==
    ASSUME WebInv, PipeWrote \/ PipeClosed
    PROVE  [Pipe!Next]_(Pipe!vars)
  <1> DEFINE s == rs["source"]
  <1>1. /\ pump \in {"writing", "closing"} /\ shape' = shape /\ WebInv'
        /\ \/ Abort /\ pump' = "failed"
           \/ pump = "writing" /\ pump' = "read" /\ UNCHANGED <<ws, rs>>
           \/ pump = "closing" /\ pump' = "done" /\ UNCHANGED <<ws, rs>>
    BY PipeSettlesInv DEF PipeWrote, PipeClosed
  <1>2. Piping
    BY <1>1 DEF WebInv, Branch, Piping, Shape
  <1>3. Good(s) /\ GoodSink(ws) /\ PipeSink(ws) /\ Carried(ws, s, pump) /\ Len(ws.sink) \in Nat
    BY <1>2, Parts DEF WebInv, GoodSink, Writables
  <1>4. PumpTold("read") = "open" /\ PumpTold("done") = "complete" /\ PumpTold(pump) = "open"
    BY <1>1 DEF PumpTold
  <1>5. CASE Abort /\ pump' = "failed"
    BY <1>1, <1>2, <1>4, <1>5, AbortTyped, PipeFails
  <1>6. CASE pump = "writing" /\ pump' = "read" /\ UNCHANGED <<ws, rs>>
    BY <1>1, <1>2, <1>3, <1>4, <1>6, PipeDelivers
  <1>7. CASE pump = "closing" /\ pump' = "done" /\ UNCHANGED <<ws, rs>>
    <2>1. ws.sink = NotDiscarded(s)
      BY <1>3, <1>7, CarriedPart
    <2>2. Piped(NotDiscarded(s), ws.sink, PumpTold(pump), NotDiscarded(rs'["source"]), ws'.sink, PumpTold(pump'))
      BY <1>4, <1>7, <2>1 DEF Piped
    <2> QED
      BY <1>1, <1>2, <2>2, PipingStep
  <1> QED
    BY <1>1, <1>5, <1>6, <1>7

LEMMA PumpReadsPipes ==
    ASSUME WebInv, PumpReads
    PROVE  [Pipe!Next]_(Pipe!vars)
  <1> DEFINE s == rs["source"]  t == read(s, pullSource)
  <1>1. /\ Good(s) /\ "source" \in Stream /\ Streamed(rs) /\ UNCHANGED <<shape, ws>> /\ pump = "read"
        /\ pump' = "reading" /\ rs' = [rs EXCEPT !["source"] = t]
    BY Parts DEF PumpReads, Update, Source
  <1>2. rs'["source"] = t
    BY <1>1 DEF Streamed
  <1>3. /\ Good(t) /\ Kept(s.reads, t.reads) /\ Len(t.reads) = Len(s.reads) + 1 /\ Len(s.reads) \in Nat
        /\ t.accepted = s.accepted /\ t.cancelled = s.cancelled
        /\ s.cancelled => Chunks(t) = Chunks(s)
    BY <1>1, ReadServes, GoodTypes
  <1> HIDE DEF t
  <1>4. CASE Piping
    <2>1. NotDiscarded(t) = NotDiscarded(s) /\ PumpTold(pump) = PumpTold(pump')
      BY <1>1, <1>3 DEF NotDiscarded, PumpTold
    <2>2. Piped(NotDiscarded(s), ws.sink, PumpTold(pump), NotDiscarded(t), ws'.sink, PumpTold(pump'))
      BY <1>1, <2>1 DEF Piped
    <2> QED
      BY <1>1, <1>2, <1>4, <2>2, PipingStep
  <1>5. CASE ~Piping
    <2> HIDE DEF s
    <2>1. Len(s.reads) <= Len(t.reads) /\ Len(t.reads) <= Len(s.reads) + 1
      BY <1>3
    <2>2. Piped(NotDiscarded(s), Chunks(s), WasTold(s), NotDiscarded(t), Chunks(t), WasTold(t))
      BY <1>1, <1>3, <2>1, ReaderServed
    <2> QED
      BY <1>1, <1>2, <1>5, <2>2, ReaderStep DEF s
  <1> QED
    BY <1>4, <1>5

LEMMA TeeGotPipes ==
    ASSUME WebInv, TeeGot
    PROVE  [Pipe!Next]_(Pipe!vars)
  <1>1. Streamed(rs) /\ shape' = shape /\ ~Piping
    BY DEF WebInv, TeeGot, Piping
  <1>2. \E l, r : rs' = [rs EXCEPT !["left"] = l, !["right"] = r]
    BY DEF TeeGot
  <1>3. rs'["source"] = rs["source"]
    BY <1>1, <1>2 DEF Streamed, Stream
  <1> QED
    BY <1>1, <1>3, UnseenStep DEF Unseen

LEMMA WebPipes ==
    ASSUME WebInv, [WebNext]_webVars
    PROVE  [Pipe!Next]_(Pipe!vars)
  <1>1. CASE SourceStarted \/ SourceEnqueues \/ SourceEnds \/ PullSettles
    BY <1>1, SourcePipes
  <1>2. ASSUME NEW x \in Stream, ScriptReads(x) \/ ScriptCancels(x) PROVE [Pipe!Next]_(Pipe!vars)
    BY <1>2, ScriptPipes
  <1>3. CASE ScriptWrites \/ ScriptCloses \/ ScriptAborts \/ SinkErrors
    BY <1>3, ScriptSinkSteps, UnseenStep
  <1>4. CASE SinkSettles
    BY <1>4, SinkWritesInv, SinkClosesInv, UnseenStep DEF SinkSettles
  <1>5. CASE PumpRuns
    BY <1>5, PumpReadsPipes, PipeGotPipes, PipeSettlesPipes, TeeGotPipes DEF PumpRuns
  <1>6. CASE UNCHANGED webVars
    BY <1>6, UnseenStep DEF webVars, Unseen
  <1> QED
    BY <1>1, <1>2, <1>3, <1>4, <1>5, <1>6 DEF WebNext

LEMMA WebPipeInit ==
    ASSUME WebInit
    PROVE  Pipe!Init
  <1> DEFINE s == rs["source"]
  <1>1. shape \in Shape /\ s = NewReadable /\ ws = NewWritable /\ pump = "read"
    BY DEF WebInit, Stream
  <1>2. Good(s)
    BY <1>1, NewGood
  <1>3. s.accepted = <<>> /\ s.reads = <<>> /\ ~s.cancelled /\ ws.sink = <<>>
    BY <1>1 DEF NewReadable, NewWritable
  <1>4. Len(Chunks(s)) = 0 /\ Chunks(s) \in Seq(Nat)
    <2>1. Len(s.accepted) = 0
      BY <1>3
    <2> QED
      BY <1>2, <2>1, ChunksFirst
  <1>5. NotDiscarded(s) = <<>> /\ Chunks(s) = <<>> /\ WasTold(s) = "open" /\ PumpTold(pump) = "open"
    <2>1. Chunks(s) = <<>>
      BY <1>4
    <2>2. ~\E i \in DOMAIN s.reads : s.reads[i] \in {Done, Error}
      BY <1>3
    <2> QED
      BY <1>1, <1>3, <2>1, <2>2 DEF NotDiscarded, WasTold, PumpTold
  <1>6. PipeSent = <<>> /\ PipeReceived = <<>> /\ PipeOutcome = "open"
    BY <1>1, <1>3, <1>5, SeenPipe
  <1> QED
    BY <1>6 DEF Pipe!Init

(* A source that is read, piped or teed is a chunk pipe: the reader, or the *)
(* sink, gets its chunks once and in order, and read() says done, or pipeTo *)
(* resolves, only when no chunk is missing, whatever enqueues, closes,      *)
(* errors, cancels, aborts and settles in between.                          *)
THEOREM WebPipe == WebSpec => WebImplementsPipe
  <1>1. WebInit => Pipe!Init
    BY WebPipeInit
  <1>2. WebInv /\ [WebNext]_webVars => [Pipe!Next]_(Pipe!vars)
    BY WebPipes
  <1> QED
    BY <1>1, <1>2, WebHolds, PTL DEF WebSpec, WebImplementsPipe, Pipe!Spec

-----------------------------------------------------------------------------
(* node:stream: the records, and what the buffer and the consumer hold.     *)

NodeReadables ==
    [buf : Seq(Nat), ended : BOOLEAN, closed : BOOLEAN, flowing : BOOLEAN, destroyed : BOOLEAN,
     accepted : Seq(Nat)]
NodeWritables ==
    [queue : Seq(Nat), writing : BOOLEAN, ended : BOOLEAN, finished : BOOLEAN, destroyed : BOOLEAN,
     given : Seq(Nat), acked : Nat, kept : Seq(Nat)]
Iterators ==
    [chunks : Seq(Nat), waiting : BOOLEAN, ended : BOOLEAN, errored : BOOLEAN, got : Seq(Nat),
     outcome : {"open", "complete", "failed"}]
GoodStreams == {t \in Readables : Good(t)}
Worlds == [r : NodeReadables, w : NodeWritables, it : Iterators, web : GoodStreams]

(* What has come out of the Readable: all that was accepted and is not in   *)
(* its buffer, or the beginning of that.                                    *)
AllOf(out, buf, accepted) == out \o buf = accepted
StartOf(out, buf, accepted) ==
    Len(out) + Len(buf) <= Len(accepted) /\ out = SubSeq(accepted, 1, Len(out))

(* The consumer of a Readable that still holds buf.                         *)
PipeOK(closed, buf, accepted, w) ==
    /\ w.ended = closed
    /\ syncSink \/ ~w.writing => w.queue = <<>>
    /\ w.destroyed => StartOf(w.kept, buf, accepted)
    /\ ~w.destroyed => AllOf(w.given \o w.queue, buf, accepted)
    /\ w.finished /\ ~w.destroyed => w.ended /\ w.queue = <<>>
    /\ Len(buf) <= Len(accepted)

IteratorOK(closed, buf, accepted, it) ==
    /\ AllOf(it.got \o it.chunks, buf, accepted)
    /\ it.ended => closed
    /\ it.waiting => it.chunks = <<>> /\ it.outcome = "open" /\ ~it.ended /\ ~it.errored
    /\ it.outcome = "complete" => it.ended /\ it.chunks = <<>>

ToWebOK(closed, buf, accepted, web) ==
    /\ StartOf(web.accepted, buf, accepted)
    /\ (web.state = "errored" /\ ~web.closeRequested) \/ web.cancelled \/ AllOf(web.accepted, buf, accepted)
    /\ Ended(web) => closed

ConsumerOK(x, buf) ==
    /\ shape = "nodePipe" => PipeOK(x.r.closed, buf, x.r.accepted, x.w)
    /\ shape = "nodeIterate" => IteratorOK(x.r.closed, buf, x.r.accepted, x.it)
    /\ shape = "toWeb" => ToWebOK(x.r.closed, buf, x.r.accepted, x.web)

(* A Readable that flows has nothing in its buffer, nor one that has ended. *)
FlowOK(r) == (r.flowing \/ r.closed => r.buf = <<>>) /\ (r.closed => r.ended)

WorldOK(x) == x \in Worlds /\ FlowOK(x.r) /\ ConsumerOK(x, x.r.buf)

LEMMA AppendMoves == \A a \in Seq(Nat), b \in Seq(Nat), c \in Nat : Append(a \o b, c) = a \o Append(b, c)
  <1> TAKE a \in Seq(Nat), b \in Seq(Nat), c \in Nat
  <1>1. a \o b \in Seq(Nat) /\ <<c>> \in Seq(Nat)
    BY ConcatProperties
  <1>2. Append(a \o b, c) = (a \o b) \o <<c>> /\ Append(b, c) = b \o <<c>>
    BY <1>1, AppendIsConcat
  <1> QED
    BY <1>1, <1>2, ConcatAssociative

LEMMA ChunkMoves == \A a \in Seq(Nat), b \in Seq(Nat), c \in Nat : Append(a, c) \o b = a \o (<<c>> \o b)
  <1> TAKE a \in Seq(Nat), b \in Seq(Nat), c \in Nat
  <1>1. Append(a, c) = a \o <<c>> /\ <<c>> \in Seq(Nat)
    BY AppendIsConcat
  <1> QED
    BY <1>1, ConcatAssociative

LEMMA HeadMoves ==
    \A a \in Seq(Nat), b \in Seq(Nat) : b # <<>> => Append(a, Head(b)) \o Tail(b) = a \o b
  <1> SUFFICES ASSUME NEW a \in Seq(Nat), NEW b \in Seq(Nat), b # <<>>
               PROVE  Append(a, Head(b)) \o Tail(b) = a \o b
    OBVIOUS
  <1>1. Head(b) \in Nat /\ Tail(b) \in Seq(Nat) /\ Len(b) \in Nat /\ Len(b) >= 1 /\ Head(b) = b[1]
        /\ Len(Tail(b)) = Len(b) - 1 /\ \A i \in 1 .. Len(b) - 1 : Tail(b)[i] = b[i + 1]
    BY Headed
  <1>2. <<Head(b)>> \o Tail(b) = b
    <2> DEFINE h == <<Head(b)>>  t == Tail(b)
    <2>1. h \in Seq(Nat) /\ Len(h) = 1 /\ h[1] = b[1]
      BY <1>1
    <2>2. /\ h \o t \in Seq(Nat) /\ Len(h \o t) = Len(b)
          /\ \A i \in 1 .. Len(b) : (h \o t)[i] = IF i <= 1 THEN h[i] ELSE t[i - 1]
      BY <1>1, <2>1, ConcatProperties
    <2> HIDE DEF h, t
    <2>3. \A i \in 1 .. Len(b) : (h \o t)[i] = b[i]
      <3> TAKE i \in 1 .. Len(b)
      <3>1. i <= 1 => i = 1
        BY <1>1
      <3>2. ~(i <= 1) => i - 1 \in 1 .. Len(b) - 1 /\ i - 1 + 1 = i
        BY <1>1
      <3> QED
        BY <1>1, <2>1, <2>2, <3>1, <3>2 DEF t
    <2> QED
      BY <2>2, <2>3, SameByElements DEF h, t
  <1>3. Append(a, Head(b)) \o Tail(b) = a \o (<<Head(b)>> \o Tail(b))
    <2>1. \A c \in Nat, t \in Seq(Nat) : Append(a, c) \o t = a \o (<<c>> \o t)
      BY ChunkMoves, Zenon
    <2> QED
      BY <1>1, <2>1, Zenon
  <1> QED
    BY <1>2, <1>3

(* What is all is the beginning; with nothing left, it is everything.       *)
LEMMA AllStarts ==
    ASSUME NEW out \in Seq(Nat), NEW buf \in Seq(Nat), NEW accepted \in Seq(Nat), AllOf(out, buf, accepted)
    PROVE  /\ StartOf(out, buf, accepted) /\ Len(out) + Len(buf) = Len(accepted)
           /\ SubSeq(accepted, 1, Len(accepted) - Len(buf)) = out
           /\ buf = <<>> => out = accepted
           /\ Len(out) \in 0 .. Len(accepted)
  <1>1. /\ Len(accepted) = Len(out) + Len(buf) /\ Len(out) \in Nat /\ Len(buf) \in Nat
        /\ \A i \in 1 .. Len(out) + Len(buf) : accepted[i] = IF i <= Len(out) THEN out[i] ELSE buf[i - Len(out)]
    BY ConcatProperties DEF AllOf
  <1>2. \A i \in 1 .. Len(out) : out[i] = accepted[i]
    BY <1>1
  <1>3. out = SubSeq(accepted, 1, Len(out)) /\ Len(out) \in 0 .. Len(accepted)
    BY <1>1, <1>2, FirstPart
  <1>4. buf = <<>> => out = accepted
    BY ConcatEmptySeq DEF AllOf
  <1>5. Len(accepted) - Len(buf) = Len(out)
    BY <1>1
  <1> QED
    BY <1>1, <1>3, <1>4, <1>5 DEF StartOf

(* A chunk that is accepted, and goes to the buffer.                        *)
LEMMA BufferGrows ==
    ASSUME NEW out \in Seq(Nat), NEW buf \in Seq(Nat), NEW accepted \in Seq(Nat), NEW c \in Nat
    PROVE  /\ AllOf(out, buf, accepted) => AllOf(out, Append(buf, c), Append(accepted, c))
           /\ StartOf(out, buf, accepted) => StartOf(out, Append(buf, c), Append(accepted, c))
  <1>1. AllOf(out, buf, accepted) => AllOf(out, Append(buf, c), Append(accepted, c))
    <2>1. Append(out \o buf, c) = out \o Append(buf, c)
      BY AppendMoves, Zenon
    <2> QED
      BY <2>1 DEF AllOf
  <1>2. ASSUME StartOf(out, buf, accepted) PROVE StartOf(out, Append(buf, c), Append(accepted, c))
    <2>1. /\ Len(Append(buf, c)) = Len(buf) + 1 /\ Len(Append(accepted, c)) = Len(accepted) + 1
          /\ Len(buf) \in Nat /\ Len(accepted) \in Nat /\ Len(out) \in Nat
          /\ \A i \in 1 .. Len(accepted) : Append(accepted, c)[i] = accepted[i]
      BY Appended
    <2>2. Len(out) + Len(buf) <= Len(accepted) /\ out = SubSeq(accepted, 1, Len(out))
      BY <1>2 DEF StartOf
    <2>3. \A i \in 1 .. Len(out) : out[i] = accepted[i]
      <3>1. SubSeq(accepted, 1, Len(out)) = [i \in 1 .. Len(out) |-> accepted[i]]
        BY <2>1, <2>2
      <3> QED
        BY <2>2, <3>1
    <2>4. \A i \in 1 .. Len(out) : out[i] = Append(accepted, c)[i]
      BY <2>1, <2>2, <2>3
    <2>5. Append(accepted, c) \in Seq(Nat) /\ Len(out) <= Len(Append(accepted, c))
      BY <2>1, <2>2
    <2>6. out = SubSeq(Append(accepted, c), 1, Len(out))
      BY <2>4, <2>5, FirstPart
    <2> QED
      BY <2>1, <2>2, <2>6 DEF StartOf
  <1> QED
    BY <1>1, <1>2

(* A chunk leaves the buffer.                                               *)
LEMMA BufferShrinks ==
    ASSUME NEW out \in Seq(Nat), NEW rest \in Seq(Nat), NEW accepted \in Seq(Nat), NEW c \in Nat
    PROVE  /\ AllOf(out, <<c>> \o rest, accepted) <=> AllOf(Append(out, c), rest, accepted)
           /\ StartOf(out, <<c>> \o rest, accepted) => StartOf(out, rest, accepted)
           /\ Len(<<c>> \o rest) = Len(rest) + 1 /\ <<c>> \o rest # <<>> /\ <<c>> \o rest \in Seq(Nat)
  <1>1. <<c>> \in Seq(Nat) /\ Len(<<c>>) = 1
    OBVIOUS
  <1>2. Len(<<c>> \o rest) = Len(rest) + 1 /\ <<c>> \o rest \in Seq(Nat) /\ Len(rest) \in Nat /\ Len(out) \in Nat
        /\ Len(accepted) \in Nat
    BY <1>1, ConcatProperties
  <1>3. <<c>> \o rest # <<>>
    BY <1>2
  <1>4. Append(out, c) \o rest = out \o (<<c>> \o rest)
    BY ChunkMoves, Zenon
  <1> QED
    BY <1>2, <1>3, <1>4 DEF AllOf, StartOf

-----------------------------------------------------------------------------
(* One 'data'.                                                              *)

LEMMA WorldFields ==
    ASSUME NEW x \in Worlds
    PROVE  /\ x.r \in NodeReadables /\ x.w \in NodeWritables /\ x.it \in Iterators /\ x.web \in Readables /\ Good(x.web)
           /\ x = [r |-> x.r, w |-> x.w, it |-> x.it, web |-> x.web]
           /\ x.r.buf \in Seq(Nat) /\ x.r.accepted \in Seq(Nat) /\ x.r.flowing \in BOOLEAN
           /\ x.r.ended \in BOOLEAN /\ x.r.closed \in BOOLEAN /\ x.r.destroyed \in BOOLEAN
  BY DEF Worlds, GoodStreams, NodeReadables

LEMMA WorldMade ==
    ASSUME NEW r \in NodeReadables, NEW w \in NodeWritables, NEW it \in Iterators, NEW web, Good(web)
    PROVE  [r |-> r, w |-> w, it |-> it, web |-> web] \in Worlds
  BY DEF Worlds, GoodStreams, Good

(* Of the Readable, an event changes only whether it flows.                 *)
OnlyFlow(r, q) ==
    /\ q \in NodeReadables /\ q.buf = r.buf /\ q.ended = r.ended /\ q.closed = r.closed
    /\ q.destroyed = r.destroyed /\ q.accepted = r.accepted

LEMMA FlowSet ==
    ASSUME NEW r \in NodeReadables, NEW b \in BOOLEAN
    PROVE  OnlyFlow(r, [r EXCEPT !.flowing = b]) /\ OnlyFlow(r, r) /\ [r EXCEPT !.flowing = b].flowing = b
  BY DEF OnlyFlow, NodeReadables

(* A write: the chunk is handed to the sink if nothing is being written.    *)
LEMMA WriteFields ==
    ASSUME NEW w \in NodeWritables, NEW c \in Nat, ~w.writing => w.queue = <<>>
    PROVE  LET v == writeLater(w, c) IN
           /\ v \in NodeWritables /\ v.ended = w.ended /\ v.finished = w.finished
           /\ v.destroyed = w.destroyed /\ v.kept = w.kept /\ v.writing = TRUE
           /\ w.writing => v.given = w.given /\ v.queue = Append(w.queue, c)
           /\ ~w.writing => v.given = Append(w.given, c) /\ v.queue = <<>>
  <1>1. /\ w.queue \in Seq(Nat) /\ w.given \in Seq(Nat) /\ w.writing \in BOOLEAN
        /\ Append(w.queue, c) \in Seq(Nat) /\ Append(w.given, c) \in Seq(Nat) /\ <<>> \in Seq(Nat)
    BY EmptySeq DEF NodeWritables
  <1>2. CASE w.writing
    <2>1. writeLater(w, c) = [w EXCEPT !.queue = Append(w.queue, c)]
      BY <1>2 DEF writeLater
    <2> QED
      BY <1>1, <1>2, <2>1 DEF NodeWritables
  <1>3. CASE ~w.writing
    <2> DEFINE u == [w EXCEPT !.queue = Append(w.queue, c)]
    <2>1. u \in NodeWritables /\ u.queue = Append(<<>>, c) /\ u.given = w.given
      BY <1>1, <1>3 DEF NodeWritables
    <2>2. Head(u.queue) = c /\ Tail(u.queue) = <<>>
      BY <2>1, HeadTailAppend, <1>1
    <2>3. writeLater(w, c) = [u EXCEPT !.writing = TRUE, !.queue = <<>>, !.given = Append(w.given, c)]
      BY <1>3, <2>1, <2>2 DEF writeLater, NextItem, NodeWritables
    <2> QED
      BY <1>1, <1>3, <2>3 DEF NodeWritables
  <1> QED
    BY <1>1, <1>2, <1>3

(* What one 'data' changes of a consumer: nothing that has come out is      *)
(* taken back, and a chunk comes out at once only if nothing waits before.  *)
Takes(x, y, c) ==
    /\ y \in Worlds /\ OnlyFlow(x.r, y.r)
    /\ shape = "nodePipe" =>
          /\ y.w.destroyed = x.w.destroyed /\ y.w.kept = x.w.kept
          /\ y.w.finished = x.w.finished /\ y.w.ended = x.w.ended
          /\ y.w.given = x.w.given \/ (y.w.given = Append(x.w.given, c) /\ x.w.queue = <<>>)
    /\ shape = "nodeIterate" =>
          /\ y.it.outcome = x.it.outcome /\ y.it.ended = x.it.ended /\ y.it.errored = x.it.errored
          /\ y.it.got = x.it.got \/ (y.it.got = Append(x.it.got, c) /\ x.it.chunks = <<>>)
    /\ shape = "toWeb" =>
          \/ y.web = x.web
          \/ /\ Active(x.web) /\ y.web.state = "readable" /\ ~y.web.closeRequested
             /\ y.web.accepted = Append(x.web.accepted, c) /\ y.web.cancelled = x.web.cancelled
             /\ Kept(x.web.reads, y.web.reads) /\ Len(y.web.reads) = Len(x.web.reads)

LEMMA PipeTakes ==
    ASSUME shape = "nodePipe", NEW x \in Worlds, NEW c \in Nat, NEW rest \in Seq(Nat),
           ConsumerOK(x, <<c>> \o rest), ~x.r.closed
    PROVE  Takes(x, emitData(x, c), c) /\ ConsumerOK(emitData(x, c), rest)
  <1> DEFINE y == emitData(x, c)  w == x.w  buf == <<c>> \o rest
  <1>0. /\ x.r \in NodeReadables /\ w \in NodeWritables /\ x.it \in Iterators /\ Good(x.web)
        /\ x = [r |-> x.r, w |-> w, it |-> x.it, web |-> x.web]
        /\ x.r.accepted \in Seq(Nat) /\ w.given \in Seq(Nat) /\ w.queue \in Seq(Nat) /\ w.kept \in Seq(Nat)
        /\ w.writing \in BOOLEAN /\ x.r.flowing \in BOOLEAN /\ w.acked \in Nat
    BY WorldFields DEF NodeWritables
  <1>1. PipeOK(x.r.closed, buf, x.r.accepted, w) /\ ~w.ended
    BY DEF ConsumerOK, PipeOK
  <1>2. /\ ~w.destroyed => AllOf(Append(w.given \o w.queue, c), rest, x.r.accepted)
        /\ w.destroyed => StartOf(w.kept, rest, x.r.accepted)
        /\ Len(rest) <= Len(x.r.accepted)
    <2>1. w.given \o w.queue \in Seq(Nat)
      BY <1>0, ConcatProperties
    <2>2. /\ ~w.destroyed => AllOf(w.given \o w.queue, buf, x.r.accepted)
          /\ w.destroyed => StartOf(w.kept, buf, x.r.accepted)
          /\ Len(buf) <= Len(x.r.accepted) /\ Len(buf) = Len(rest) + 1 /\ Len(rest) \in Nat
          /\ Len(x.r.accepted) \in Nat
      BY <1>0, <1>1, BufferShrinks DEF PipeOK
    <2>3. /\ AllOf(w.given \o w.queue, buf, x.r.accepted) => AllOf(Append(w.given \o w.queue, c), rest, x.r.accepted)
          /\ StartOf(w.kept, buf, x.r.accepted) => StartOf(w.kept, rest, x.r.accepted)
      BY <1>0, <2>1, BufferShrinks
    <2> HIDE DEF buf
    <2> QED
      BY <2>2, <2>3
  <1>3. CASE syncSink
    <2> DEFINE v == [w EXCEPT !.given = Append(w.given, c), !.acked = w.acked + 1]
               q == [x.r EXCEPT !.flowing = TRUE]
    <2>1. y = [r |-> q, w |-> v, it |-> x.it, web |-> x.web]
      BY <1>0, <1>1, <1>3 DEF emitData, Worlds, NodeWritables
    <2>2. /\ v \in NodeWritables /\ v.ended = w.ended /\ v.finished = w.finished /\ v.destroyed = w.destroyed
          /\ v.kept = w.kept /\ v.writing = w.writing /\ v.given = Append(w.given, c) /\ v.queue = w.queue
      <3>1. Append(w.given, c) \in Seq(Nat) /\ w.acked + 1 \in Nat
        BY <1>0
      <3> QED
        BY <1>0, <3>1 DEF NodeWritables
    <2>3. q \in NodeReadables /\ OnlyFlow(x.r, q)
      BY <1>0, FlowSet DEF OnlyFlow
    <2> HIDE DEF v, q
    <2>4. w.queue = <<>>
      BY <1>1, <1>3 DEF PipeOK
    <2>5. v.given \o v.queue = Append(w.given \o w.queue, c)
      <3>1. Append(w.given, c) \in Seq(Nat)
        BY <1>0
      <3>2. Append(w.given, c) \o <<>> = Append(w.given, c) /\ w.given \o <<>> = w.given
        BY <1>0, <3>1, ConcatEmptySeq
      <3> QED
        BY <2>2, <2>4, <3>2
    <2>6. y \in Worlds /\ y.r = q /\ y.w = v
      BY <1>0, <2>1, <2>2, <2>3, WorldMade
    <2>7. PipeOK(y.r.closed, rest, y.r.accepted, y.w)
      BY <1>1, <1>2, <1>3, <2>2, <2>3, <2>4, <2>5, <2>6 DEF PipeOK, OnlyFlow
    <2> HIDE DEF y
    <2>8. Takes(x, y, c) /\ ConsumerOK(y, rest)
      BY <2>2, <2>3, <2>4, <2>6, <2>7 DEF Takes, ConsumerOK
    <2> QED
      BY <2>8 DEF y
  <1>4. CASE ~syncSink
    <2> DEFINE v == writeLater(w, c)  f == x.r.flowing /\ Len(v.queue) < NodeHighWater
               q == [x.r EXCEPT !.flowing = f]
    <2>1. y = [r |-> q, w |-> v, it |-> x.it, web |-> x.web]
      BY <1>0, <1>1, <1>4 DEF emitData, Worlds
    <2>2. /\ v \in NodeWritables /\ v.ended = w.ended /\ v.finished = w.finished
          /\ v.destroyed = w.destroyed /\ v.kept = w.kept /\ v.writing = TRUE
          /\ w.writing => v.given = w.given /\ v.queue = Append(w.queue, c)
          /\ ~w.writing => v.given = Append(w.given, c) /\ v.queue = <<>>
      BY <1>0, <1>1, <1>4, WriteFields DEF PipeOK
    <2>3. q \in NodeReadables /\ OnlyFlow(x.r, q)
      <3> HIDE DEF v
      <3>1. f \in BOOLEAN
        BY <1>0
      <3> HIDE DEF f
      <3> QED
        BY <1>0, <3>1, FlowSet DEF OnlyFlow
    <2> HIDE DEF v, q
    <2>4. ~w.writing => w.queue = <<>>
      BY <1>1 DEF PipeOK
    <2>5. v.given \o v.queue = Append(w.given \o w.queue, c)
      <3>1. Append(w.given, c) \in Seq(Nat)
        BY <1>0
      <3>2. Append(w.given, c) \o <<>> = Append(w.given, c) /\ w.given \o <<>> = w.given
        BY <1>0, <3>1, ConcatEmptySeq
      <3>3. Append(w.given \o w.queue, c) = w.given \o Append(w.queue, c)
        BY <1>0, AppendMoves, Zenon
      <3> QED
        BY <1>0, <2>2, <2>4, <3>2, <3>3
    <2>6. y \in Worlds /\ y.r = q /\ y.w = v
      BY <1>0, <2>1, <2>2, <2>3, WorldMade
    <2>7. w.finished /\ ~w.destroyed => FALSE
      BY <1>1 DEF PipeOK
    <2>8. PipeOK(y.r.closed, rest, y.r.accepted, y.w)
      BY <1>1, <1>2, <1>4, <2>2, <2>3, <2>5, <2>6, <2>7 DEF PipeOK, OnlyFlow
    <2> HIDE DEF y
    <2>9. Takes(x, y, c) /\ ConsumerOK(y, rest)
      BY <1>0, <2>2, <2>3, <2>4, <2>6, <2>8 DEF Takes, ConsumerOK
    <2> QED
      BY <2>9 DEF y
  <1> QED
    BY <1>3, <1>4

LEMMA IteratorTakes ==
    ASSUME shape = "nodeIterate", NEW x \in Worlds, NEW c \in Nat, NEW rest \in Seq(Nat),
           ConsumerOK(x, <<c>> \o rest), ~x.r.closed
    PROVE  Takes(x, emitData(x, c), c) /\ ConsumerOK(emitData(x, c), rest)
  <1> DEFINE y == emitData(x, c)  it == x.it  buf == <<c>> \o rest
  <1>0. /\ x.r \in NodeReadables /\ x.w \in NodeWritables /\ it \in Iterators /\ Good(x.web)
        /\ x = [r |-> x.r, w |-> x.w, it |-> it, web |-> x.web]
        /\ x.r.accepted \in Seq(Nat) /\ it.got \in Seq(Nat) /\ it.chunks \in Seq(Nat)
        /\ it.waiting \in BOOLEAN /\ OnlyFlow(x.r, x.r)
        /\ Append(it.got, c) \in Seq(Nat) /\ Append(it.chunks, c) \in Seq(Nat)
    BY WorldFields DEF Iterators, OnlyFlow
  <1>1. IteratorOK(x.r.closed, buf, x.r.accepted, it)
    BY DEF ConsumerOK
  <1>2. AllOf(Append(it.got \o it.chunks, c), rest, x.r.accepted)
    <2>1. it.got \o it.chunks \in Seq(Nat)
      BY <1>0, ConcatProperties
    <2>2. AllOf(it.got \o it.chunks, buf, x.r.accepted)
      BY <1>1 DEF IteratorOK
    <2> QED
      BY <1>0, <2>1, <2>2, BufferShrinks
  <1>3. ASSUME NEW v \in Iterators, y = [r |-> x.r, w |-> x.w, it |-> v, web |-> x.web],
               v.got \o v.chunks = Append(it.got \o it.chunks, c), v.waiting = FALSE,
               v.outcome = it.outcome, v.ended = it.ended, v.errored = it.errored,
               v.got = it.got \/ (v.got = Append(it.got, c) /\ it.chunks = <<>>)
        PROVE  Takes(x, y, c) /\ ConsumerOK(y, rest)
    <2>1. y \in Worlds /\ y.r = x.r /\ y.it = v
      BY <1>0, <1>3, WorldMade
    <2>2. IteratorOK(y.r.closed, rest, y.r.accepted, y.it)
      BY <1>1, <1>2, <1>3, <2>1 DEF IteratorOK
    <2> HIDE DEF y
    <2> QED
      BY <1>0, <1>3, <2>1, <2>2 DEF Takes, ConsumerOK
  <1>4. CASE it.waiting
    <2> DEFINE v == [it EXCEPT !.waiting = FALSE, !.got = Append(it.got, c)]
    <2>1. y = [r |-> x.r, w |-> x.w, it |-> v, web |-> x.web]
      BY <1>0, <1>4 DEF emitData, Worlds, Iterators
    <2>2. /\ v \in Iterators /\ v.waiting = FALSE /\ v.got = Append(it.got, c) /\ v.chunks = it.chunks
          /\ v.outcome = it.outcome /\ v.ended = it.ended /\ v.errored = it.errored
      BY <1>0 DEF Iterators
    <2>3. it.chunks = <<>>
      BY <1>1, <1>4 DEF IteratorOK
    <2>4. Append(it.got, c) \o <<>> = Append(it.got, c) /\ it.got \o <<>> = it.got
      BY <1>0, ConcatEmptySeq
    <2>5. v.got \o v.chunks = Append(it.got \o it.chunks, c)
      BY <2>2, <2>3, <2>4
    <2> HIDE DEF v, y
    <2>6. Takes(x, y, c) /\ ConsumerOK(y, rest)
      BY <1>3, <2>1, <2>2, <2>3, <2>5
    <2> QED
      BY <2>6 DEF y
  <1>5. CASE ~it.waiting
    <2> DEFINE v == [it EXCEPT !.chunks = Append(it.chunks, c)]
    <2>1. y = [r |-> x.r, w |-> x.w, it |-> v, web |-> x.web]
      BY <1>0, <1>5 DEF emitData, Worlds, Iterators
    <2>2. /\ v \in Iterators /\ v.waiting = FALSE /\ v.got = it.got /\ v.chunks = Append(it.chunks, c)
          /\ v.outcome = it.outcome /\ v.ended = it.ended /\ v.errored = it.errored
      BY <1>0, <1>5 DEF Iterators
    <2>3. Append(it.got \o it.chunks, c) = it.got \o Append(it.chunks, c)
      BY <1>0, AppendMoves, Zenon
    <2>4. v.got \o v.chunks = Append(it.got \o it.chunks, c)
      BY <2>2, <2>3
    <2> HIDE DEF v, y
    <2>5. Takes(x, y, c) /\ ConsumerOK(y, rest)
      BY <1>3, <2>1, <2>2, <2>4
    <2> QED
      BY <2>5 DEF y
  <1> QED
    BY <1>4, <1>5

LEMMA WebTakes ==
    ASSUME shape = "toWeb", NEW x \in Worlds, NEW c \in Nat, NEW rest \in Seq(Nat),
           ConsumerOK(x, <<c>> \o rest), ~x.r.closed
    PROVE  Takes(x, emitData(x, c), c) /\ ConsumerOK(emitData(x, c), rest)
  <1> DEFINE y == emitData(x, c)  web == x.web  buf == <<c>> \o rest
  <1>0. /\ x.r \in NodeReadables /\ x.w \in NodeWritables /\ x.it \in Iterators /\ Good(web)
        /\ x = [r |-> x.r, w |-> x.w, it |-> x.it, web |-> web]
        /\ x.r.accepted \in Seq(Nat) /\ web.accepted \in Seq(Nat) /\ OnlyFlow(x.r, x.r)
    BY WorldFields, GoodTypes DEF OnlyFlow
  <1>1. ToWebOK(x.r.closed, buf, x.r.accepted, web) /\ ~Ended(web)
    BY DEF ConsumerOK, ToWebOK
  <1>2. CASE Active(web)
    <2> DEFINE v == enqueue(web, c, FALSE)
    <2>1. y = [r |-> x.r, w |-> x.w, it |-> x.it, web |-> v]
      BY <1>0, <1>2 DEF emitData, Worlds
    <2>2. /\ Good(v) /\ v.state = "readable" /\ ~v.closeRequested
          /\ v.accepted = Append(web.accepted, c) /\ v.cancelled = web.cancelled
          /\ Kept(web.reads, v.reads) /\ Len(v.reads) = Len(web.reads)
      BY <1>0, <1>2, EnqueueGood
    <2> HIDE DEF v
    <2>3. y \in Worlds /\ y.r = x.r /\ y.web = v
      BY <1>0, <2>1, <2>2, WorldMade
    <2>4. AllOf(web.accepted, buf, x.r.accepted)
      <3>1. web.state = "readable" /\ ~web.cancelled
        BY <1>0, <1>2 DEF Active, Good, Sound, Stated
      <3> QED
        BY <1>1, <3>1 DEF ToWebOK
    <2>5. AllOf(v.accepted, rest, x.r.accepted)
      BY <1>0, <2>2, <2>4, BufferShrinks
    <2>6. StartOf(v.accepted, rest, x.r.accepted)
      <3>1. v.accepted \in Seq(Nat)
        BY <2>2, GoodTypes
      <3> QED
        BY <1>0, <2>5, <3>1, AllStarts
    <2>7. ~Ended(v)
      BY <2>2 DEF Ended
    <2>8. ToWebOK(y.r.closed, rest, y.r.accepted, y.web)
      BY <2>3, <2>5, <2>6, <2>7 DEF ToWebOK
    <2> HIDE DEF y
    <2>9. Takes(x, y, c) /\ ConsumerOK(y, rest)
      BY <1>0, <1>2, <2>2, <2>3, <2>8 DEF Takes, ConsumerOK
    <2> QED
      BY <2>9 DEF y
  <1>3. CASE ~Active(web)
    <2>1. y = x
      BY <1>3 DEF emitData
    <2>2. (web.state = "errored" /\ ~web.closeRequested) \/ web.cancelled
      <3>1. web.state \in {"readable", "closed", "errored"}
        BY <1>0, GoodTypes
      <3> QED
        BY <1>1, <1>3, <3>1 DEF Active, Ended
    <2>3. StartOf(web.accepted, rest, x.r.accepted)
      <3>1. StartOf(web.accepted, buf, x.r.accepted)
        BY <1>1 DEF ToWebOK
      <3> QED
        BY <1>0, <3>1, BufferShrinks
    <2>4. ToWebOK(x.r.closed, rest, x.r.accepted, web)
      BY <1>1, <2>2, <2>3 DEF ToWebOK
    <2> HIDE DEF y
    <2>5. Takes(x, y, c) /\ ConsumerOK(y, rest)
      BY <1>0, <2>1, <2>4 DEF Takes, ConsumerOK
    <2> QED
      BY <2>5 DEF y
  <1> QED
    BY <1>2, <1>3

(* One 'data', whoever consumes.                                            *)
LEMMA EmitTakes ==
    ASSUME shape \in NodeShape, NEW x \in Worlds, NEW c \in Nat, NEW rest \in Seq(Nat),
           ConsumerOK(x, <<c>> \o rest), ~x.r.closed
    PROVE  Takes(x, emitData(x, c), c) /\ ConsumerOK(emitData(x, c), rest)
  BY PipeTakes, IteratorTakes, WebTakes DEF NodeShape

-----------------------------------------------------------------------------
(* One 'data' after the other: emitEach is a loop over emitData.            *)
LEMMA WriteTyped ==
    ASSUME NEW w \in NodeWritables, NEW c \in Nat
    PROVE  writeLater(w, c) \in NodeWritables
  <1> DEFINE q == Append(w.queue, c)  u == [w EXCEPT !.queue = q]
  <1>1. q \in Seq(Nat) /\ q # <<>> /\ w.given \in Seq(Nat)
    <2>1. w.queue \in Seq(Nat) /\ w.given \in Seq(Nat)
      BY DEF NodeWritables
    <2>2. q \in Seq(Nat) /\ Len(q) = Len(w.queue) + 1 /\ Len(w.queue) \in Nat
      BY <2>1
    <2> HIDE DEF q
    <2>3. q # <<>>
      <3>1. Len(<<>>) = 0
        OBVIOUS
      <3> QED
        BY <2>2, <3>1
    <2> QED
      BY <2>1, <2>2, <2>3
  <1> HIDE DEF q
  <1>2. u \in NodeWritables /\ u.queue = q /\ u.given = w.given
    BY <1>1 DEF NodeWritables
  <1>3. Head(q) \in Nat /\ Tail(q) \in Seq(Nat)
    BY <1>1, Headed
  <1>4. Append(w.given, Head(q)) \in Seq(Nat)
    BY <1>1, <1>3
  <1>5. NextItem(u) = [u EXCEPT !.writing = TRUE, !.queue = Tail(q), !.given = Append(w.given, Head(q))]
    BY <1>2 DEF NextItem, NodeWritables
  <1> HIDE DEF u
  <1>6. NextItem(u) \in NodeWritables
    BY <1>2, <1>3, <1>4, <1>5 DEF NodeWritables
  <1>7. writeLater(w, c) = IF w.writing THEN u ELSE NextItem(u)
    BY DEF writeLater, u, q
  <1> QED
    BY <1>2, <1>6, <1>7

LEMMA EmitTyped == \A x \in Worlds : \A c \in Nat : emitData(x, c) \in Worlds
  <1> SUFFICES ASSUME NEW x \in Worlds, NEW c \in Nat PROVE emitData(x, c) \in Worlds
    BY Zenon
  <1> DEFINE y == emitData(x, c)  w == x.w  it == x.it
  <1>0. /\ x.r \in NodeReadables /\ w \in NodeWritables /\ it \in Iterators /\ Good(x.web)
        /\ x = [r |-> x.r, w |-> w, it |-> it, web |-> x.web]
    BY WorldFields
  <1>1. /\ Append(w.given, c) \in Seq(Nat) /\ w.acked + 1 \in Nat
        /\ Append(it.got, c) \in Seq(Nat) /\ Append(it.chunks, c) \in Seq(Nat)
    <2>1. w.given \in Seq(Nat) /\ w.acked \in Nat /\ it.got \in Seq(Nat) /\ it.chunks \in Seq(Nat)
      BY <1>0 DEF NodeWritables, Iterators
    <2> QED
      BY <2>1
  <1>2. CASE shape = "nodePipe" /\ w.ended
    <2> DEFINE q == [x.r EXCEPT !.flowing = FALSE]
    <2>1. y = [r |-> q, w |-> w, it |-> it, web |-> x.web]
      BY <1>0, <1>2 DEF emitData, Worlds
    <2>2. q \in NodeReadables
      BY <1>0 DEF NodeReadables
    <2> QED
      BY <1>0, <2>1, <2>2, WorldMade
  <1>3. CASE shape = "nodePipe" /\ ~w.ended /\ syncSink
    <2> DEFINE v == [w EXCEPT !.given = Append(w.given, c), !.acked = w.acked + 1]
               q == [x.r EXCEPT !.flowing = TRUE]
    <2>1. y = [r |-> q, w |-> v, it |-> it, web |-> x.web]
      BY <1>0, <1>3 DEF emitData, Worlds, NodeWritables
    <2>2. q \in NodeReadables /\ v \in NodeWritables
      BY <1>0, <1>1 DEF NodeReadables, NodeWritables
    <2> HIDE DEF q, v
    <2> QED
      BY <1>0, <2>1, <2>2, WorldMade
  <1>4. CASE shape = "nodePipe" /\ ~w.ended /\ ~syncSink
    <2> DEFINE v == writeLater(w, c)  f == x.r.flowing /\ Len(v.queue) < NodeHighWater
               q == [x.r EXCEPT !.flowing = f]
    <2>1. y = [r |-> q, w |-> v, it |-> it, web |-> x.web]
      BY <1>0, <1>4 DEF emitData, Worlds
    <2>2. v \in NodeWritables
      BY <1>0, WriteTyped
    <2> HIDE DEF v
    <2>3. f \in BOOLEAN
      OBVIOUS
    <2> HIDE DEF f
    <2>4. q \in NodeReadables
      BY <1>0, <2>3 DEF NodeReadables
    <2> HIDE DEF q
    <2> QED
      BY <1>0, <2>1, <2>2, <2>4, WorldMade
  <1>5. CASE shape = "nodeIterate" /\ it.waiting
    <2> DEFINE v == [it EXCEPT !.waiting = FALSE, !.got = Append(it.got, c)]
    <2>1. y = [r |-> x.r, w |-> w, it |-> v, web |-> x.web]
      BY <1>0, <1>5 DEF emitData, Worlds, Iterators
    <2>2. v \in Iterators
      BY <1>0, <1>1 DEF Iterators
    <2> HIDE DEF v
    <2> QED
      BY <1>0, <2>1, <2>2, WorldMade
  <1>6. CASE shape = "nodeIterate" /\ ~it.waiting
    <2> DEFINE v == [it EXCEPT !.chunks = Append(it.chunks, c)]
    <2>1. y = [r |-> x.r, w |-> w, it |-> v, web |-> x.web]
      BY <1>0, <1>6 DEF emitData, Worlds, Iterators
    <2>2. v \in Iterators
      BY <1>0, <1>1 DEF Iterators
    <2> HIDE DEF v
    <2> QED
      BY <1>0, <2>1, <2>2, WorldMade
  <1>7. CASE shape = "toWeb" /\ Active(x.web)
    <2> DEFINE v == enqueue(x.web, c, FALSE)
    <2>1. y = [r |-> x.r, w |-> w, it |-> it, web |-> v]
      BY <1>0, <1>7 DEF emitData, Worlds
    <2>2. Good(v)
      BY <1>0, <1>7, EnqueueGood
    <2> HIDE DEF v
    <2> QED
      BY <1>0, <2>1, <2>2, WorldMade
  <1>8. CASE ~(shape = "nodePipe" \/ shape = "nodeIterate" \/ (shape = "toWeb" /\ Active(x.web)))
    BY <1>8 DEF emitData
  <1> QED
    BY <1>2, <1>3, <1>4, <1>5, <1>6, <1>7, <1>8, Zenon

(* The states between two calls of a listener.                              *)
Emitted(f, s, chunks) == f[0] = s /\ \A n \in 1 .. Len(chunks) : f[n] = emitData(f[n - 1], chunks[n])

LEMMA EachRounds ==
    ASSUME NEW s \in Worlds, NEW chunks \in Seq(Nat)
    PROVE  /\ \A f : Emitted(f, s, chunks) => f[Len(chunks)] = emitEach(s, chunks)
           /\ \E f : Emitted(f, s, chunks)
  <1> DEFINE after[n \in 0 .. Len(chunks)] == IF n = 0 THEN s ELSE emitData(after[n - 1], chunks[n])
             round == [n \in 1 .. Len(chunks) |-> [x \in Worlds |-> emitData(x, chunks[n])]]
  <1>0. Len(chunks) \in Nat /\ \A n \in 1 .. Len(chunks) : chunks[n] \in Nat
    OBVIOUS
  <1>1. emitEach(s, chunks) = after[Len(chunks)]
    BY Zenon DEF emitEach
  <1>2. PICK f \in [0 .. Len(chunks) -> Worlds] :
           f[0] = s /\ \A n \in 1 .. Len(chunks) : f[n] = round[n][f[n - 1]]
    <2>1. round \in [1 .. Len(chunks) -> [Worlds -> Worlds]]
      <3>1. \A n \in 1 .. Len(chunks) : \A x \in Worlds : emitData(x, chunks[n]) \in Worlds
        BY <1>0, EmitTyped
      <3> QED
        BY <3>1
    <2> HIDE DEF round
    <2>2. PICK m \in Nat : m = Len(chunks)
      BY <1>0
    <2>3. PICK S : S = Worlds
      OBVIOUS
    <2>4. round \in [1 .. m -> [S -> S]] /\ s \in S
      BY <2>1, <2>2, <2>3
    <2>5. PICK f : f \in Loop(S, m, s, round)
      BY <2>4, LoopRuns, Zenon
    <2>6. f \in [0 .. m -> S] /\ f[0] = s /\ \A n \in 1 .. m : f[n] = round[n][f[n - 1]]
      BY <2>5 DEF Loop
    <2> QED
      BY <2>2, <2>3, <2>6, Zenon
  <1>3. \A n \in 1 .. Len(chunks) : f[n] = emitData(f[n - 1], chunks[n])
    <2> TAKE n \in 1 .. Len(chunks)
    <2>1. n - 1 \in 0 .. Len(chunks)
      BY <1>0
    <2>2. f[n - 1] \in Worlds
      BY <2>1
    <2> QED
      BY <1>2, <2>2
  <1>4. f = [n \in 0 .. Len(chunks) |-> IF n = 0 THEN s ELSE emitData(f[n - 1], chunks[n])]
    <2>1. \A n \in 0 .. Len(chunks) : n # 0 => n \in 1 .. Len(chunks)
      BY <1>0
    <2>2. \A n \in 0 .. Len(chunks) : f[n] = IF n = 0 THEN s ELSE emitData(f[n - 1], chunks[n])
      BY <1>2, <1>3, <2>1
    <2> QED
      BY <2>2
  <1>5. after = [n \in 0 .. Len(chunks) |-> IF n = 0 THEN s ELSE emitData(after[n - 1], chunks[n])]
    BY <1>4, Zenon
  <1> HIDE DEF after
  <1>6. after[0] = s /\ \A n \in 1 .. Len(chunks) : after[n] = emitData(after[n - 1], chunks[n])
    <2>1. 0 \in 0 .. Len(chunks) /\ \A n \in 1 .. Len(chunks) : n \in 0 .. Len(chunks) /\ n # 0
      BY <1>0
    <2> QED
      BY <1>5, <2>1
  <1>7. ASSUME NEW g, g[0] = s, \A n \in 1 .. Len(chunks) : g[n] = emitData(g[n - 1], chunks[n])
        PROVE  g[Len(chunks)] = after[Len(chunks)]
    <2> DEFINE T == {n \in Nat : n <= Len(chunks) => g[n] = after[n]}
    <2>1. 0 \in T
      BY <1>6, <1>7
    <2>2. ASSUME NEW n \in T PROVE n + 1 \in T
      <3>1. n + 1 <= Len(chunks) => n <= Len(chunks) /\ n + 1 \in 1 .. Len(chunks) /\ n + 1 - 1 = n
        BY <1>0
      <3>2. n + 1 <= Len(chunks) => g[n + 1] = after[n + 1]
        BY <1>6, <1>7, <3>1
      <3> QED
        BY <3>2
    <2>3. T = Nat
      <3> HIDE DEF T
      <3>1. T \in SUBSET Nat
        BY DEF T
      <3> QED
        BY <2>1, <2>2, <3>1, AllNumbers
    <2>4. Len(chunks) \in T
      BY <1>0, <2>3
    <2> QED
      BY <1>0, <2>4
  <1> QED
    BY <1>1, <1>6, <1>7 DEF Emitted

LEMMA EachEnds ==
    \A s \in Worlds : \A chunks \in Seq(Nat) : \A f : Emitted(f, s, chunks) => f[Len(chunks)] = emitEach(s, chunks)
  <1> SUFFICES ASSUME NEW s \in Worlds, NEW chunks \in Seq(Nat)
               PROVE  \A f : Emitted(f, s, chunks) => f[Len(chunks)] = emitEach(s, chunks)
    BY Zenon
  <1> QED
    BY EachRounds, Zenon

LEMMA EachNone == \A s \in Worlds : emitEach(s, <<>>) = s
  <1> SUFFICES ASSUME NEW s \in Worlds PROVE emitEach(s, <<>>) = s
    OBVIOUS
  <1>1. <<>> \in Seq(Nat) /\ Len(<<>>) = 0
    BY EmptySeq
  <1>2. PICK f : Emitted(f, s, <<>>)
    BY <1>1, EachRounds, Zenon
  <1>3. f[Len(<<>>)] = emitEach(s, <<>>)
    BY <1>1, <1>2, EachEnds, Zenon
  <1>4. f[0] = s
    BY <1>2 DEF Emitted
  <1> QED
    BY <1>1, <1>3, <1>4, Zenon

LEMMA EachNext ==
    \A s \in Worlds : \A chunks \in Seq(Nat) : \A c \in Nat :
        emitEach(s, Append(chunks, c)) = emitData(emitEach(s, chunks), c)
  <1> SUFFICES ASSUME NEW s \in Worlds, NEW chunks \in Seq(Nat), NEW c \in Nat
               PROVE  emitEach(s, Append(chunks, c)) = emitData(emitEach(s, chunks), c)
    BY Zenon
  <1>1. PICK t : t = Append(chunks, c)
    BY Zenon
  <1>2. /\ t \in Seq(Nat) /\ Len(t) = Len(chunks) + 1 /\ Len(chunks) \in Nat
        /\ t[Len(chunks) + 1] = c /\ \A n \in 1 .. Len(chunks) : t[n] = chunks[n] /\ n \in 1 .. Len(t)
    BY <1>1
  <1>3. PICK f : Emitted(f, s, t)
    BY <1>2, EachRounds, Zenon
  <1>4. Emitted(f, s, chunks)
    BY <1>2, <1>3 DEF Emitted
  <1>5. f[Len(chunks)] = emitEach(s, chunks) /\ f[Len(t)] = emitEach(s, t)
    BY <1>2, <1>3, <1>4, EachEnds, Zenon
  <1>6. Len(t) \in 1 .. Len(t) /\ Len(t) - 1 = Len(chunks)
    BY <1>2
  <1>7. f[Len(t)] = emitData(f[Len(chunks)], c)
    BY <1>2, <1>3, <1>6 DEF Emitted
  <1> QED
    BY <1>1, <1>5, <1>7, Zenon

-----------------------------------------------------------------------------
(* What any of the calls does to the consumer, seen from outside: nothing   *)
(* that came out is taken back, and an end that was told stays.             *)
OnwardWeb(s, t) ==
    /\ Kept(s.reads, t.reads) /\ Len(s.reads) <= Len(t.reads) /\ t.cancelled = s.cancelled
    /\ s.cancelled => Chunks(t) = Chunks(s)
    /\ WasTold(t) = "failed" => WasTold(s) = "failed"

Onward(x, y) ==
    /\ y.r.accepted = x.r.accepted
    /\ shape = "nodePipe" =>
          /\ y.w.destroyed = x.w.destroyed /\ y.w.kept = x.w.kept
          /\ Len(x.w.given) <= Len(y.w.given) /\ (x.w.finished => y.w.finished)
    /\ shape = "nodeIterate" =>
          /\ Len(x.it.got) <= Len(y.it.got)
          /\ y.it.outcome = x.it.outcome \/ (x.it.outcome = "open" /\ y.it.outcome = "complete")
    /\ shape = "toWeb" => OnwardWeb(x.web, y.web)

LEMMA LengthsTyped ==
    ASSUME NEW x \in Worlds
    PROVE  /\ Len(x.w.given) \in Nat /\ Len(x.it.got) \in Nat /\ Len(x.web.reads) \in Nat
           /\ x.w.given \in Seq(Nat) /\ x.w.queue \in Seq(Nat) /\ x.w.kept \in Seq(Nat)
           /\ x.it.got \in Seq(Nat) /\ x.it.chunks \in Seq(Nat) /\ x.web.accepted \in Seq(Nat)
           /\ x.web.reads \in Seq(Promise) /\ Good(x.web)
           /\ x.w.finished \in BOOLEAN /\ x.w.destroyed \in BOOLEAN /\ x.w.ended \in BOOLEAN /\ x.w.writing \in BOOLEAN
           /\ x.it.ended \in BOOLEAN /\ x.it.errored \in BOOLEAN /\ x.it.waiting \in BOOLEAN
           /\ x.it.outcome \in {"open", "complete", "failed"} /\ x.web.cancelled \in BOOLEAN
  <1>1. x.w \in NodeWritables /\ x.it \in Iterators /\ Good(x.web) /\ x.web \in Readables
    BY WorldFields
  <1>2. /\ x.w.given \in Seq(Nat) /\ x.w.queue \in Seq(Nat) /\ x.w.kept \in Seq(Nat)
        /\ x.w.finished \in BOOLEAN /\ x.w.destroyed \in BOOLEAN /\ x.w.ended \in BOOLEAN /\ x.w.writing \in BOOLEAN
    BY <1>1 DEF NodeWritables
  <1>3. /\ x.it.got \in Seq(Nat) /\ x.it.chunks \in Seq(Nat)
        /\ x.it.ended \in BOOLEAN /\ x.it.errored \in BOOLEAN /\ x.it.waiting \in BOOLEAN
        /\ x.it.outcome \in {"open", "complete", "failed"}
    BY <1>1 DEF Iterators
  <1>4. x.web.cancelled \in BOOLEAN
    BY <1>1 DEF Readables
  <1>5. x.web.accepted \in Seq(Nat) /\ x.web.reads \in Seq(Promise) /\ Len(x.web.reads) \in Nat
    BY <1>1, GoodTypes
  <1>6. Len(x.w.given) \in Nat /\ Len(x.it.got) \in Nat
    BY <1>2, <1>3
  <1> QED
    BY <1>1, <1>2, <1>3, <1>4, <1>5, <1>6

LEMMA OnwardSelf ==
    ASSUME NEW x \in Worlds
    PROVE  Onward(x, x)
  BY LengthsTyped DEF Onward, OnwardWeb, Kept

LEMMA OnwardOn ==
    ASSUME NEW x \in Worlds, NEW y \in Worlds, NEW z \in Worlds, Onward(x, y), Onward(y, z)
    PROVE  Onward(x, z)
  <1>1. z.r.accepted = x.r.accepted
    BY DEF Onward
  <1>2. shape = "nodePipe" =>
          /\ z.w.destroyed = x.w.destroyed /\ z.w.kept = x.w.kept
          /\ Len(x.w.given) <= Len(z.w.given) /\ (x.w.finished => z.w.finished)
    <2>1. Len(x.w.given) \in Nat /\ Len(y.w.given) \in Nat /\ Len(z.w.given) \in Nat
      BY LengthsTyped
    <2> QED
      BY <2>1 DEF Onward
  <1>3. shape = "nodeIterate" =>
          /\ Len(x.it.got) <= Len(z.it.got)
          /\ z.it.outcome = x.it.outcome \/ (x.it.outcome = "open" /\ z.it.outcome = "complete")
    <2>1. Len(x.it.got) \in Nat /\ Len(y.it.got) \in Nat /\ Len(z.it.got) \in Nat
      BY LengthsTyped
    <2> QED
      BY <2>1 DEF Onward
  <1>4. ASSUME shape = "toWeb" PROVE OnwardWeb(x.web, z.web)
    <2>1. OnwardWeb(x.web, y.web) /\ OnwardWeb(y.web, z.web)
      BY <1>4 DEF Onward
    <2>2. Len(x.web.reads) \in Nat /\ Len(y.web.reads) \in Nat /\ Len(z.web.reads) \in Nat
      BY LengthsTyped
    <2>3. Kept(x.web.reads, z.web.reads)
      <3>1. Kept(x.web.reads, y.web.reads) /\ Kept(y.web.reads, z.web.reads)
            /\ \A i \in 1 .. Len(x.web.reads) : i \in 1 .. Len(y.web.reads)
        BY <2>1, <2>2 DEF OnwardWeb
      <3> QED
        BY <3>1 DEF Kept
    <2> QED
      BY <2>1, <2>2, <2>3 DEF OnwardWeb
  <1> QED
    BY <1>1, <1>2, <1>3, <1>4 DEF Onward

(* A stream whose reads and chunks are the same: the chunks that came out.  *)
LEMMA QuietSame ==
    ASSUME NEW s, Good(s), NEW t, Good(t), Kept(s.reads, t.reads), Len(t.reads) = Len(s.reads),
           t.accepted = s.accepted
    PROVE  Chunks(t) = Chunks(s)
  <1>1. /\ Len(Chunks(s)) \in Nat /\ Len(Chunks(t)) \in Nat /\ Len(Chunks(s)) <= Len(Chunks(t))
        /\ Len(Chunks(t)) <= Len(s.reads) /\ Len(Chunks(t)) <= Len(s.accepted) /\ Len(s.reads) <= Len(t.reads)
        /\ Len(s.reads) \in Nat /\ Len(s.accepted) \in Nat
    <2>1. Len(s.reads) <= Len(t.reads) /\ Len(s.reads) \in Nat /\ Len(s.accepted) \in Nat
      BY GoodTypes
    <2> QED
      BY <2>1, ReadsGrow, ChunksFirst
  <1>2. ~(Len(Chunks(s)) < Len(Chunks(t)))
    <2> SUFFICES ASSUME Len(Chunks(s)) < Len(Chunks(t)) PROVE FALSE
      OBVIOUS
    <2>1. Len(Chunks(s)) < Len(s.reads)
      BY <1>1
    <2>2. Len(Chunks(s)) = Len(s.accepted)
      BY <1>1, <2>1, WaitedForAll
    <2> QED
      BY <1>1, <2>2
  <1>3. Len(Chunks(s)) = Len(Chunks(t))
    BY <1>1, <1>2
  <1> QED
    BY <1>3, SameChunks

LEMMA TakesOnward ==
    ASSUME shape \in NodeShape, NEW x \in Worlds, NEW y, NEW c \in Nat, Takes(x, y, c)
    PROVE  y \in Worlds /\ OnlyFlow(x.r, y.r) /\ Onward(x, y)
  <1>1. y \in Worlds /\ OnlyFlow(x.r, y.r) /\ y.r.accepted = x.r.accepted
    BY DEF Takes, OnlyFlow
  <1>2. /\ Len(x.w.given) \in Nat /\ Len(x.it.got) \in Nat
        /\ Len(Append(x.w.given, c)) = Len(x.w.given) + 1 /\ Len(Append(x.it.got, c)) = Len(x.it.got) + 1
    <2>1. x.w.given \in Seq(Nat) /\ x.it.got \in Seq(Nat)
      BY LengthsTyped
    <2> QED
      BY <2>1, Appended
  <1>3. CASE shape = "nodePipe"
    BY <1>1, <1>2, <1>3 DEF Takes, Onward
  <1>4. CASE shape = "nodeIterate"
    BY <1>1, <1>2, <1>4 DEF Takes, Onward
  <1>5. CASE shape = "toWeb"
    <2>1. CASE y.web = x.web
      <3>1. Onward(x, x)
        BY OnwardSelf
      <3> QED
        BY <1>1, <1>5, <2>1, <3>1 DEF Onward
    <2>2. CASE /\ Active(x.web) /\ y.web.state = "readable" /\ y.web.cancelled = x.web.cancelled
               /\ Kept(x.web.reads, y.web.reads) /\ Len(y.web.reads) = Len(x.web.reads)
      <3>1. Good(x.web) /\ Good(y.web) /\ Len(x.web.reads) \in Nat
        BY <1>1, LengthsTyped
      <3>2. ~x.web.cancelled
        BY <2>2, <3>1 DEF Active, Good, Sound, Stated
      <3>3. WasTold(y.web) # "failed"
        BY <2>2, <3>1, ToldOnce
      <3>4. OnwardWeb(x.web, y.web)
        BY <2>2, <3>1, <3>2, <3>3 DEF OnwardWeb
      <3> QED
        BY <1>1, <1>5, <3>4 DEF Onward
    <2> QED
      BY <1>5, <2>1, <2>2 DEF Takes
  <1> QED
    BY <1>1, <1>3, <1>4, <1>5 DEF NodeShape

(* All the chunks that were emitted, one after the other.                   *)
LEMMA EachTakes ==
    ASSUME shape \in NodeShape, NEW x \in Worlds, ~x.r.closed
    PROVE  \A chunks \in Seq(Nat) : \A rest \in Seq(Nat) :
              ConsumerOK(x, chunks \o rest) =>
                 /\ emitEach(x, chunks) \in Worlds /\ OnlyFlow(x.r, emitEach(x, chunks).r)
                 /\ Onward(x, emitEach(x, chunks)) /\ ConsumerOK(emitEach(x, chunks), rest)
  <1> DEFINE Good1(y, rest) == y \in Worlds /\ OnlyFlow(x.r, y.r) /\ Onward(x, y) /\ ConsumerOK(y, rest)
             T == {cs \in Seq(Nat) : \A rest \in Seq(Nat) :
                      ConsumerOK(x, cs \o rest) => Good1(emitEach(x, cs), rest)}
  <1>1. <<>> \in T
    <2>1. <<>> \in Seq(Nat) /\ emitEach(x, <<>>) = x
      BY EachNone, EmptySeq
    <2>2. OnlyFlow(x.r, x.r) /\ Onward(x, x)
      BY WorldFields, OnwardSelf DEF OnlyFlow
    <2>3. \A rest \in Seq(Nat) : <<>> \o rest = rest
      BY ConcatEmptySeq
    <2>4. \A rest \in Seq(Nat) : ConsumerOK(x, <<>> \o rest) => Good1(x, rest)
      BY <2>2, <2>3
    <2> HIDE DEF Good1
    <2> QED
      BY <2>1, <2>4
  <1>2. ASSUME NEW cs \in T, NEW c \in Nat PROVE Append(cs, c) \in T
    <2>0. cs \in Seq(Nat) /\ Append(cs, c) \in Seq(Nat)
      <3>1. cs \in Seq(Nat)
        OBVIOUS
      <3> QED
        BY <3>1
    <2>1. PICK y : y = emitEach(x, cs)
      BY Zenon
    <2>2. emitEach(x, Append(cs, c)) = emitData(y, c)
      BY <2>0, <2>1, EachNext, Zenon
    <2>3. ASSUME NEW rest \in Seq(Nat), ConsumerOK(x, Append(cs, c) \o rest)
          PROVE  Good1(emitData(y, c), rest)
      <3>1. PICK more : more = <<c>> \o rest
        BY Zenon
      <3>2. more \in Seq(Nat)
        <4>1. <<c>> \in Seq(Nat)
          OBVIOUS
        <4> QED
          BY <3>1, <4>1, ConcatProperties
      <3>3. Append(cs, c) \o rest = cs \o more
        BY <2>0, <3>1, ChunkMoves, Zenon
      <3>4. Good1(y, more)
        BY <2>1, <2>3, <3>2, <3>3
      <3>5. y \in Worlds /\ ~y.r.closed /\ ConsumerOK(y, <<c>> \o rest)
        BY <3>1, <3>4 DEF OnlyFlow
      <3>6. Takes(y, emitData(y, c), c) /\ ConsumerOK(emitData(y, c), rest)
        BY <3>5, EmitTakes
      <3>7. PICK z : z = emitData(y, c)
        BY Zenon
      <3>8. z \in Worlds /\ OnlyFlow(y.r, z.r) /\ Onward(y, z)
        BY <3>5, <3>6, <3>7, TakesOnward
      <3>9. Onward(x, z)
        BY <3>4, <3>8, OnwardOn
      <3>10. OnlyFlow(x.r, z.r)
        BY <3>4, <3>8 DEF OnlyFlow
      <3>11. Good1(z, rest)
        BY <3>6, <3>7, <3>8, <3>9, <3>10
      <3> QED
        BY <3>7, <3>11, Zenon
    <2> HIDE DEF Good1
    <2> QED
      BY <2>0, <2>2, <2>3
  <1>3. T = Seq(Nat)
    <2> HIDE DEF T
    <2>1. T \in SUBSET Seq(Nat)
      BY DEF T
    <2> QED
      BY <1>1, <1>2, <2>1, AllSequences
  <1> QED
    BY <1>3

-----------------------------------------------------------------------------
(* The calls.                                                               *)

(* A field of the Readable is set.                                          *)
LEMMA ReadableSet ==
    \A x \in Worlds : \A b :
        /\ [x EXCEPT !.r.closed = b] = [r |-> [x.r EXCEPT !.closed = b], w |-> x.w, it |-> x.it, web |-> x.web]
        /\ [x EXCEPT !.r.flowing = b] = [r |-> [x.r EXCEPT !.flowing = b], w |-> x.w, it |-> x.it, web |-> x.web]
        /\ [x EXCEPT !.r.ended = b] = [r |-> [x.r EXCEPT !.ended = b], w |-> x.w, it |-> x.it, web |-> x.web]
  BY DEF Worlds

(* What has been handed over comes before what waits.                       *)
LEMMA HalfStarts ==
    ASSUME NEW out \in Seq(Nat), NEW wait \in Seq(Nat), NEW buf \in Seq(Nat), NEW accepted \in Seq(Nat),
           AllOf(out \o wait, buf, accepted)
    PROVE  StartOf(out, buf, accepted)
  <1>1. /\ out \o wait \in Seq(Nat) /\ Len(out \o wait) = Len(out) + Len(wait)
        /\ \A i \in 1 .. Len(out) + Len(wait) : (out \o wait)[i] = IF i <= Len(out) THEN out[i] ELSE wait[i - Len(out)]
        /\ Len(out) \in Nat /\ Len(wait) \in Nat /\ Len(buf) \in Nat /\ Len(accepted) \in Nat
    BY ConcatProperties
  <1>2. PICK all : all = out \o wait
    BY Zenon
  <1>3. all \in Seq(Nat) /\ Len(all) = Len(out) + Len(wait) /\ AllOf(all, buf, accepted)
        /\ \A i \in 1 .. Len(out) : all[i] = out[i]
    BY <1>1, <1>2
  <1>4. Len(all) + Len(buf) = Len(accepted) /\ all = SubSeq(accepted, 1, Len(all))
    BY <1>3, AllStarts DEF StartOf
  <1>5. Len(out) <= Len(accepted) /\ Len(out) + Len(buf) <= Len(accepted) /\ Len(all) <= Len(accepted)
        /\ \A i \in 1 .. Len(out) : i \in 1 .. Len(all)
    BY <1>1, <1>3, <1>4
  <1>6. \A i \in 1 .. Len(out) : out[i] = accepted[i]
    <2>1. SubSeq(accepted, 1, Len(all)) = [i \in 1 .. Len(all) |-> accepted[i]]
      BY <1>3, <1>5
    <2>2. \A i \in 1 .. Len(all) : all[i] = accepted[i]
      BY <1>4, <2>1
    <2> QED
      BY <1>3, <1>5, <2>2
  <1>7. out = SubSeq(accepted, 1, Len(out))
    BY <1>5, <1>6, FirstPart
  <1> QED
    BY <1>5, <1>7 DEF StartOf

(* The Readable is done with its events: nothing in the buffer.             *)
Emptied(r) == r.buf = <<>> /\ (r.closed => r.ended)

LEMMA EndStream ==
    ASSUME shape \in NodeShape, NEW x \in Worlds, Emptied(x.r), x.r.ended, ConsumerOK(x, <<>>)
    PROVE  WorldOK(_endStream(x)) /\ Onward(x, _endStream(x))
  <1> DEFINE u == [x EXCEPT !.r.closed = TRUE]  q == [x.r EXCEPT !.closed = TRUE]  y == emitEnd(u)
  <1>0. /\ x.r \in NodeReadables /\ x.w \in NodeWritables /\ x.it \in Iterators /\ Good(x.web)
        /\ x = [r |-> x.r, w |-> x.w, it |-> x.it, web |-> x.web]
        /\ x.r.accepted \in Seq(Nat) /\ Onward(x, x)
    BY WorldFields, OnwardSelf
  <1>1. CASE x.r.closed
    <2>1. _endStream(x) = x
      BY <1>1 DEF _endStream
    <2>2. WorldOK(x)
      BY <1>1 DEF WorldOK, FlowOK, Emptied
    <2> QED
      BY <1>0, <2>1, <2>2
  <1>2. CASE ~x.r.closed
    <2>1. _endStream(x) = y
      BY <1>2 DEF _endStream
    <2>2. u = [r |-> q, w |-> x.w, it |-> x.it, web |-> x.web]
      BY <1>0, ReadableSet, Zenon
    <2>3. /\ q \in NodeReadables /\ q.closed = TRUE /\ q.buf = <<>> /\ q.accepted = x.r.accepted /\ q.ended = TRUE
      BY <1>0 DEF NodeReadables, Emptied
    <2>4. FlowOK(q)
      BY <2>3 DEF FlowOK
    <2> HIDE DEF q, u
    <2>5. CASE shape = "nodePipe"
      <3> DEFINE w == x.w  v == end(w)
      <3>1. y = [r |-> q, w |-> v, it |-> x.it, web |-> x.web]
        BY <2>2, <2>5 DEF emitEnd
      <3>2. PipeOK(FALSE, <<>>, x.r.accepted, w) /\ w.ended = FALSE
        <4>1. x.r.closed = FALSE
          BY <1>0, <1>2 DEF NodeReadables
        <4> QED
          BY <2>5, <4>1 DEF ConsumerOK, PipeOK
      <3>3. /\ v \in NodeWritables /\ v.ended = TRUE /\ v.queue = w.queue /\ v.writing = w.writing
            /\ v.destroyed = w.destroyed /\ v.given = w.given /\ v.kept = w.kept
            /\ (w.finished => v.finished) /\ (v.finished => w.finished \/ w.queue = <<>>)
        <4> DEFINE e == [w EXCEPT !.ended = TRUE]
        <4>1. /\ e \in NodeWritables /\ e.ended = TRUE /\ e.queue = w.queue /\ e.writing = w.writing
              /\ e.destroyed = w.destroyed /\ e.given = w.given /\ e.kept = w.kept /\ e.finished = w.finished
          BY <1>0 DEF NodeWritables
        <4> HIDE DEF e
        <4>2. v = IF ~w.writing /\ w.queue = <<>> THEN [e EXCEPT !.finished = TRUE] ELSE e
          BY DEF end, _finish, e
        <4> HIDE DEF v
        <4> QED
          BY <4>1, <4>2 DEF NodeWritables
      <3> HIDE DEF v
      <3>4. y \in Worlds /\ y.r = q /\ y.w = v
        BY <1>0, <2>3, <3>1, <3>3, WorldMade
      <3>5. PipeOK(TRUE, <<>>, x.r.accepted, v)
        BY <3>2, <3>3 DEF PipeOK
      <3> HIDE DEF y
      <3>6. WorldOK(y) /\ Onward(x, y)
        <4>1. Len(w.given) \in Nat
          BY LengthsTyped
        <4>2. ConsumerOK(y, y.r.buf)
          BY <2>3, <2>5, <3>4, <3>5 DEF ConsumerOK
        <4>3. Onward(x, y)
          BY <2>3, <2>5, <3>3, <3>4, <4>1 DEF Onward
        <4> QED
          BY <2>4, <3>4, <4>2, <4>3 DEF WorldOK
      <3> QED
        BY <2>1, <3>6
    <2>6. CASE shape = "nodeIterate"
      <3> DEFINE it == x.it
                 v == [it EXCEPT !.ended = TRUE, !.waiting = FALSE,
                                 !.outcome = IF it.waiting THEN "complete" ELSE it.outcome]
      <3>1. y = [r |-> q, w |-> x.w, it |-> v, web |-> x.web]
        BY <1>0, <2>2, <2>6 DEF emitEnd, Iterators
      <3>2. IteratorOK(FALSE, <<>>, x.r.accepted, it)
        <4>1. x.r.closed = FALSE
          BY <1>0, <1>2 DEF NodeReadables
        <4> QED
          BY <2>6, <4>1 DEF ConsumerOK
      <3>3. /\ v \in Iterators /\ v.ended = TRUE /\ v.waiting = FALSE /\ v.chunks = it.chunks /\ v.got = it.got
            /\ v.outcome = IF it.waiting THEN "complete" ELSE it.outcome
        BY <1>0 DEF Iterators
      <3> HIDE DEF v
      <3>4. y \in Worlds /\ y.r = q /\ y.it = v
        BY <1>0, <2>3, <3>1, <3>3, WorldMade
      <3>5. IteratorOK(TRUE, <<>>, x.r.accepted, v)
        BY <3>2, <3>3 DEF IteratorOK
      <3> HIDE DEF y
      <3>6. WorldOK(y) /\ Onward(x, y)
        <4>1. Len(it.got) \in Nat /\ (it.waiting => it.outcome = "open")
          BY <3>2, LengthsTyped DEF IteratorOK
        <4>2. ConsumerOK(y, y.r.buf)
          BY <2>3, <2>6, <3>4, <3>5 DEF ConsumerOK
        <4>3. Onward(x, y)
          BY <2>3, <2>6, <3>3, <3>4, <4>1 DEF Onward
        <4> QED
          BY <2>4, <3>4, <4>2, <4>3 DEF WorldOK
      <3> QED
        BY <2>1, <3>6
    <2>7. CASE shape = "toWeb"
      <3> DEFINE web == x.web  v == closeReadable(web)
      <3>1. y = [r |-> q, w |-> x.w, it |-> x.it, web |-> v]
        BY <2>2, <2>7 DEF emitEnd
      <3>2. ToWebOK(x.r.closed, <<>>, x.r.accepted, web) /\ ~Ended(web)
        BY <1>2, <2>7 DEF ConsumerOK, ToWebOK
      <3>3. /\ Good(v) /\ (web.state # "readable" => v = web)
            /\ web.state = "readable" => v.closeRequested /\ v.state \in {"readable", "closed"}
            /\ v.accepted = web.accepted /\ v.cancelled = web.cancelled
            /\ Kept(web.reads, v.reads) /\ Len(v.reads) = Len(web.reads)
        BY <1>0, CloseGood
      <3> HIDE DEF v
      <3>4. y \in Worlds /\ y.r = q /\ y.web = v
        BY <1>0, <2>3, <3>1, <3>3, WorldMade
      <3>5. ToWebOK(TRUE, <<>>, x.r.accepted, v)
        BY <3>2, <3>3 DEF ToWebOK
      <3>6. OnwardWeb(web, v)
        <4>1. Chunks(v) = Chunks(web)
          BY <1>0, <3>3, QuietSame
        <4>2. WasTold(v) = "failed" => v = web
          BY <3>3, ToldOnce
        <4>3. Len(web.reads) \in Nat
          BY LengthsTyped
        <4> QED
          BY <3>3, <4>1, <4>2, <4>3 DEF OnwardWeb
      <3> HIDE DEF y
      <3>7. WorldOK(y) /\ Onward(x, y)
        BY <2>3, <2>4, <2>7, <3>4, <3>5, <3>6 DEF WorldOK, ConsumerOK, Onward
      <3> QED
        BY <2>1, <3>7
    <2> QED
      BY <2>5, <2>6, <2>7 DEF NodeShape
  <1> QED
    BY <1>1, <1>2

(* The whole buffer goes out, and then the end.                             *)
LEMMA Drains ==
    ASSUME shape \in NodeShape, NEW x \in Worlds, ConsumerOK(x, x.r.buf), ~x.r.closed
    PROVE  WorldOK(_drain(x)) /\ Onward(x, _drain(x))
  <1> DEFINE q == [x.r EXCEPT !.buf = <<>>]  v == [x EXCEPT !.r.buf = <<>>]  chunks == x.r.buf
             u == emitEach(v, chunks)
  <1>0. /\ x.r \in NodeReadables /\ x.w \in NodeWritables /\ x.it \in Iterators /\ Good(x.web)
        /\ x = [r |-> x.r, w |-> x.w, it |-> x.it, web |-> x.web]
        /\ chunks \in Seq(Nat) /\ <<>> \in Seq(Nat)
    BY WorldFields, EmptySeq
  <1>1. v = [r |-> q, w |-> x.w, it |-> x.it, web |-> x.web]
    BY <1>0 DEF Worlds
  <1>2. /\ q \in NodeReadables /\ q.buf = <<>> /\ q.closed = x.r.closed /\ q.accepted = x.r.accepted
        /\ q.ended = x.r.ended
    BY <1>0 DEF NodeReadables
  <1> HIDE DEF q
  <1>3. v \in Worlds /\ v.r = q /\ v.w = x.w /\ v.it = x.it /\ v.web = x.web
    BY <1>0, <1>1, <1>2, WorldMade
  <1>4. _drain(x) = IF u.r.ended THEN _endStream(u) ELSE u
    BY DEF _drain
  <1> HIDE DEF v
  <1>5. ConsumerOK(v, chunks \o <<>>) /\ ~v.r.closed
    <2>1. chunks \o <<>> = chunks
      BY <1>0, ConcatEmptySeq
    <2> QED
      BY <1>2, <1>3, <2>1 DEF ConsumerOK
  <1>6. u \in Worlds /\ OnlyFlow(v.r, u.r) /\ Onward(v, u) /\ ConsumerOK(u, <<>>)
    BY <1>0, <1>3, <1>5, EachTakes
  <1> HIDE DEF u
  <1>7. Onward(x, v)
    <2>1. Onward(x, x)
      BY OnwardSelf
    <2> QED
      BY <1>2, <1>3, <2>1 DEF Onward
  <1>8. Onward(x, u)
    BY <1>3, <1>6, <1>7, OnwardOn
  <1>9. u.r.buf = <<>> /\ ~u.r.closed
    BY <1>2, <1>3, <1>5, <1>6 DEF OnlyFlow
  <1>10. CASE u.r.ended
    <2>1. WorldOK(_endStream(u)) /\ Onward(u, _endStream(u))
      BY <1>6, <1>9, <1>10, EndStream DEF Emptied
    <2>2. Onward(x, _endStream(u))
      BY <1>6, <1>8, <2>1, OnwardOn DEF WorldOK
    <2> QED
      BY <1>4, <1>10, <2>1, <2>2
  <1>11. CASE ~u.r.ended
    <2>1. WorldOK(u)
      BY <1>6, <1>9 DEF WorldOK, FlowOK
    <2> QED
      BY <1>4, <1>8, <1>11, <2>1
  <1> QED
    BY <1>10, <1>11

LEMMA Resumes ==
    ASSUME shape \in NodeShape, NEW x, WorldOK(x)
    PROVE  WorldOK(resume(x)) /\ Onward(x, resume(x))
  <1> DEFINE q == [x.r EXCEPT !.flowing = TRUE]  t == [x EXCEPT !.r.flowing = TRUE]
  <1>0. /\ x \in Worlds /\ x.r \in NodeReadables /\ x.w \in NodeWritables /\ x.it \in Iterators /\ Good(x.web)
        /\ x = [r |-> x.r, w |-> x.w, it |-> x.it, web |-> x.web]
    BY WorldFields DEF WorldOK
  <1>1. t = [r |-> q, w |-> x.w, it |-> x.it, web |-> x.web]
    BY <1>0, ReadableSet, Zenon
  <1>2. q \in NodeReadables /\ OnlyFlow(x.r, q)
    BY <1>0, FlowSet DEF OnlyFlow
  <1> HIDE DEF q
  <1>3. t \in Worlds /\ t.r = q /\ t.w = x.w /\ t.it = x.it /\ t.web = x.web
    BY <1>0, <1>1, <1>2, WorldMade
  <1>4. resume(x) = IF t.r.buf # <<>> THEN _drain(t) ELSE IF t.r.ended THEN _endStream(t) ELSE t
    BY DEF resume
  <1> HIDE DEF t
  <1>5. ConsumerOK(t, t.r.buf) /\ (t.r.closed => t.r.buf = <<>> /\ t.r.ended)
    BY <1>2, <1>3 DEF WorldOK, ConsumerOK, FlowOK, OnlyFlow
  <1>6. Onward(x, t)
    <2>1. Onward(x, x)
      BY <1>0, OnwardSelf
    <2> QED
      BY <1>2, <1>3, <2>1 DEF Onward, OnlyFlow
  <1>7. WorldOK(resume(x)) /\ Onward(t, resume(x))
    <2>1. CASE t.r.buf # <<>>
      BY <1>3, <1>4, <1>5, <2>1, Drains
    <2>2. CASE t.r.buf = <<>> /\ t.r.ended
      BY <1>3, <1>4, <1>5, <2>2, EndStream DEF Emptied
    <2>3. CASE t.r.buf = <<>> /\ ~t.r.ended
      <3>1. Onward(t, t)
        BY <1>3, OnwardSelf
      <3> QED
        BY <1>3, <1>4, <1>5, <2>3, <3>1 DEF WorldOK, FlowOK
    <2> QED
      BY <2>1, <2>2, <2>3
  <1>8. resume(x) \in Worlds
    BY <1>7 DEF WorldOK
  <1> QED
    BY <1>0, <1>3, <1>6, <1>7, <1>8, OnwardOn

-----------------------------------------------------------------------------
(* The chunk pipe of a world: what was sent, what came out, what was told.  *)
SentBy(x) == IF shape = "toWeb" /\ x.web.cancelled THEN Chunks(x.web) ELSE x.r.accepted
GotBy(x) ==
    CASE shape = "nodePipe" -> IF x.w.destroyed THEN x.w.kept ELSE x.w.given
      [] shape = "nodeIterate" -> x.it.got
      [] shape = "toWeb" -> Chunks(x.web)
      [] OTHER -> <<>>
ToldBy(x) ==
    CASE shape = "nodePipe" ->
            IF x.w.destroyed THEN "failed" ELSE IF x.w.finished THEN "complete" ELSE "open"
      [] shape = "nodeIterate" -> x.it.outcome
      [] shape = "toWeb" -> WasTold(x.web)
      [] OTHER -> "open"

Outward(x, y) == Piped(SentBy(x), GotBy(x), ToldBy(x), SentBy(y), GotBy(y), ToldBy(y))

(* More comes out of what was sent, or all of it and then the end.          *)
LEMMA Advances ==
    ASSUME NEW a \in Seq(Nat), NEW b \in Seq(Nat), NEW b2 \in Seq(Nat), NEW o, NEW o2,
           b2 = SubSeq(a, 1, Len(b2)), Len(b2) \in 0 .. Len(a), Len(b) <= Len(b2),
           o2 = "complete" => b2 = a, o = "complete" => b = a,
           o2 = o \/ (o = "open" /\ o2 = "complete")
    PROVE  Piped(a, b, o, a, b2, o2)
  <1>1. Len(a) \in Nat /\ Len(b) \in Nat /\ Len(b2) \in Nat
    OBVIOUS
  <1>2. CASE o = "complete"
    BY <1>2 DEF Piped
  <1>3. CASE o # "complete" /\ o2 = o
    <2>1. Len(b2) \in Len(b) .. Len(a)
      BY <1>1
    <2> QED
      BY <1>3, <2>1 DEF Piped
  <1>4. CASE o = "open" /\ o2 = "complete"
    BY <1>4 DEF Piped
  <1> QED
    BY <1>2, <1>3, <1>4

LEMMA WorldFacts ==
    ASSUME shape \in NodeShape, NEW x, WorldOK(x)
    PROVE  /\ SentBy(x) \in Seq(Nat) /\ GotBy(x) \in Seq(Nat)
           /\ GotBy(x) = SubSeq(SentBy(x), 1, Len(GotBy(x))) /\ Len(GotBy(x)) \in 0 .. Len(SentBy(x))
           /\ ToldBy(x) \in {"open", "complete", "failed"}
           /\ ToldBy(x) = "complete" => GotBy(x) = SentBy(x) /\ (x.r.closed \/ (shape = "toWeb" /\ x.web.cancelled))
  <1> DEFINE acc == x.r.accepted  buf == x.r.buf
  <1>0. /\ x \in Worlds /\ FlowOK(x.r) /\ ConsumerOK(x, buf) /\ acc \in Seq(Nat) /\ buf \in Seq(Nat)
        /\ Len(acc) \in Nat /\ Len(buf) \in Nat
    BY WorldFields DEF WorldOK
  <1>1. ASSUME NEW out \in Seq(Nat), StartOf(out, buf, acc)
        PROVE  out = SubSeq(acc, 1, Len(out)) /\ Len(out) \in 0 .. Len(acc)
    BY <1>0, <1>1 DEF StartOf
  <1>2. CASE shape = "nodePipe"
    <2> DEFINE w == x.w
    <2>1. PipeOK(x.r.closed, buf, acc, w) /\ SentBy(x) = acc
      BY <1>0, <1>2 DEF ConsumerOK, SentBy
    <2>2. /\ w.given \in Seq(Nat) /\ w.queue \in Seq(Nat) /\ w.kept \in Seq(Nat) /\ w.destroyed \in BOOLEAN
          /\ w.finished \in BOOLEAN
      BY <1>0, LengthsTyped
    <2>3. CASE w.destroyed
      <3>1. GotBy(x) = w.kept /\ ToldBy(x) = "failed"
        BY <1>2, <2>3 DEF GotBy, ToldBy
      <3>2. StartOf(w.kept, buf, acc)
        BY <2>1, <2>3 DEF PipeOK
      <3> QED
        BY <1>0, <1>1, <2>1, <2>2, <3>1, <3>2
    <2>4. CASE ~w.destroyed
      <3>1. GotBy(x) = w.given /\ ToldBy(x) = IF w.finished THEN "complete" ELSE "open"
        BY <1>2, <2>4 DEF GotBy, ToldBy
      <3>2. AllOf(w.given \o w.queue, buf, acc)
        BY <2>1, <2>4 DEF PipeOK
      <3>3. StartOf(w.given, buf, acc)
        BY <1>0, <2>2, <3>2, HalfStarts
      <3>4. w.finished => w.given = acc /\ x.r.closed
        <4> SUFFICES ASSUME w.finished PROVE w.given = acc /\ x.r.closed
          OBVIOUS
        <4>1. w.queue = <<>> /\ x.r.closed /\ buf = <<>>
          BY <1>0, <2>1, <2>4 DEF PipeOK, FlowOK
        <4>2. w.given \o <<>> = w.given
          BY <2>2, ConcatEmptySeq
        <4> QED
          BY <3>2, <4>1, <4>2 DEF AllOf
      <3>5. w.given = SubSeq(acc, 1, Len(w.given)) /\ Len(w.given) \in 0 .. Len(acc)
        BY <1>1, <2>2, <3>3
      <3> QED
        BY <1>0, <2>1, <2>2, <3>1, <3>4, <3>5
    <2> QED
      BY <2>3, <2>4
  <1>3. CASE shape = "nodeIterate"
    <2> DEFINE it == x.it
    <2>1. IteratorOK(x.r.closed, buf, acc, it) /\ SentBy(x) = acc /\ GotBy(x) = it.got /\ ToldBy(x) = it.outcome
      BY <1>0, <1>3 DEF ConsumerOK, SentBy, GotBy, ToldBy
    <2>2. it.got \in Seq(Nat) /\ it.chunks \in Seq(Nat) /\ it.outcome \in {"open", "complete", "failed"}
      BY <1>0, LengthsTyped
    <2>3. AllOf(it.got \o it.chunks, buf, acc)
      BY <2>1 DEF IteratorOK
    <2>4. StartOf(it.got, buf, acc)
      BY <1>0, <2>2, <2>3, HalfStarts
    <2>5. it.outcome = "complete" => it.got = acc /\ x.r.closed
      <3> SUFFICES ASSUME it.outcome = "complete" PROVE it.got = acc /\ x.r.closed
        OBVIOUS
      <3>1. it.chunks = <<>> /\ x.r.closed /\ buf = <<>>
        BY <1>0, <2>1 DEF IteratorOK, FlowOK
      <3>2. it.got \o <<>> = it.got
        BY <2>2, ConcatEmptySeq
      <3> QED
        BY <2>3, <3>1, <3>2 DEF AllOf
    <2>6. it.got = SubSeq(acc, 1, Len(it.got)) /\ Len(it.got) \in 0 .. Len(acc)
      BY <1>1, <2>2, <2>4
    <2> QED
      BY <1>0, <2>1, <2>2, <2>5, <2>6
  <1>4. CASE shape = "toWeb"
    <2> DEFINE web == x.web  b == Chunks(web)
    <2>1. ToWebOK(x.r.closed, buf, acc, web) /\ GotBy(x) = b /\ ToldBy(x) = WasTold(web)
          /\ SentBy(x) = IF web.cancelled THEN b ELSE acc
      BY <1>0, <1>4 DEF ConsumerOK, SentBy, GotBy, ToldBy
    <2>2. Good(web) /\ web.accepted \in Seq(Nat) /\ Len(web.accepted) \in Nat
      BY <1>0, LengthsTyped
    <2>3. /\ b \in Seq(Nat) /\ Len(b) \in Nat /\ Len(b) <= Len(web.accepted)
          /\ \A i \in 1 .. Len(b) : b[i] = web.accepted[i]
      BY <2>2, ChunksFirst
    <2>4. Len(web.accepted) <= Len(acc) /\ \A i \in 1 .. Len(web.accepted) : web.accepted[i] = acc[i]
      <3>1. web.accepted = SubSeq(acc, 1, Len(web.accepted)) /\ Len(web.accepted) \in 0 .. Len(acc)
        BY <1>1, <2>1, <2>2 DEF ToWebOK
      <3>2. SubSeq(acc, 1, Len(web.accepted)) = [i \in 1 .. Len(web.accepted) |-> acc[i]]
        BY <1>0, <3>1
      <3> QED
        BY <3>1, <3>2
    <2>5. WasTold(web) \in {"open", "complete", "failed"}
      BY <2>2, ToldOnce
    <2>6. WasTold(web) = "complete" /\ ~web.cancelled => b = acc /\ x.r.closed
      <3> SUFFICES ASSUME WasTold(web) = "complete", ~web.cancelled PROVE b = acc /\ x.r.closed
        OBVIOUS
      <3>1. web.state = "closed" /\ NotDiscarded(web) = b
        BY <2>2, ToldOnce
      <3>2. x.r.closed /\ buf = <<>> /\ b = web.accepted /\ AllOf(web.accepted, buf, acc)
        BY <1>0, <2>1, <3>1 DEF ToWebOK, Ended, NotDiscarded, FlowOK
      <3>3. web.accepted \o <<>> = web.accepted
        BY <2>2, ConcatEmptySeq
      <3> QED
        BY <3>2, <3>3 DEF AllOf
    <2> HIDE DEF b
    <2>7. b = SubSeq(acc, 1, Len(b)) /\ Len(b) \in 0 .. Len(acc)
      <3>1. Len(b) <= Len(acc) /\ \A i \in 1 .. Len(b) : b[i] = acc[i]
        BY <1>0, <2>2, <2>3, <2>4
      <3> QED
        BY <1>0, <2>3, <3>1, FirstPart
    <2>8. b = SubSeq(b, 1, Len(b)) /\ Len(b) \in 0 .. Len(b)
      BY <2>3, FirstPart
    <2> HIDE DEF web
    <2>9. CASE web.cancelled
      BY <1>4, <2>1, <2>3, <2>5, <2>8, <2>9 DEF web
    <2>10. CASE ~web.cancelled
      BY <1>0, <2>1, <2>3, <2>5, <2>6, <2>7, <2>10
    <2> QED
      BY <2>9, <2>10
  <1> QED
    BY <1>2, <1>3, <1>4 DEF NodeShape

LEMMA OnwardPipes ==
    ASSUME shape \in NodeShape, NEW x, WorldOK(x), NEW y, WorldOK(y), Onward(x, y)
    PROVE  Outward(x, y)
  <1>1. /\ SentBy(x) \in Seq(Nat) /\ GotBy(x) \in Seq(Nat) /\ GotBy(y) \in Seq(Nat)
        /\ GotBy(y) = SubSeq(SentBy(y), 1, Len(GotBy(y))) /\ Len(GotBy(y)) \in 0 .. Len(SentBy(y))
        /\ ToldBy(x) = "complete" => GotBy(x) = SentBy(x)
        /\ ToldBy(y) = "complete" => GotBy(y) = SentBy(y)
    BY WorldFacts
  <1>0. x \in Worlds /\ y \in Worlds
    BY DEF WorldOK
  <1>2. /\ SentBy(y) = SentBy(x) /\ Len(GotBy(x)) <= Len(GotBy(y))
        /\ ToldBy(y) = ToldBy(x) \/ (ToldBy(x) = "open" /\ ToldBy(y) = "complete")
    <2>1. CASE shape = "nodePipe"
      <3>1. SentBy(y) = SentBy(x)
        BY <2>1 DEF Onward, SentBy
      <3>2. Len(GotBy(x)) <= Len(GotBy(y))
        <4>1. Len(GotBy(x)) \in Nat
          BY <1>1
        <4> QED
          BY <2>1, <4>1 DEF Onward, GotBy
      <3>3. ToldBy(y) = ToldBy(x) \/ (ToldBy(x) = "open" /\ ToldBy(y) = "complete")
        BY <2>1 DEF Onward, ToldBy
      <3> QED
        BY <3>1, <3>2, <3>3
    <2>2. CASE shape = "nodeIterate"
      BY <2>2 DEF Onward, SentBy, GotBy, ToldBy
    <2>3. CASE shape = "toWeb"
      <3> DEFINE s == x.web  t == y.web
      <3>1. Good(s) /\ Good(t) /\ OnwardWeb(s, t) /\ y.r.accepted = x.r.accepted
        BY <1>0, <2>3, LengthsTyped DEF Onward
      <3>2. SentBy(y) = SentBy(x)
        BY <2>3, <3>1 DEF OnwardWeb, SentBy
      <3>3. Len(Chunks(s)) <= Len(Chunks(t))
        BY <3>1, ReadsGrow DEF OnwardWeb
      <3>4. /\ WasTold(s) # "open" => WasTold(t) = WasTold(s)
            /\ WasTold(s) \in {"open", "complete", "failed"} /\ WasTold(t) \in {"open", "complete", "failed"}
        BY <3>1, ToldStays, ToldOnce DEF OnwardWeb
      <3> QED
        BY <2>3, <3>1, <3>2, <3>3, <3>4 DEF GotBy, ToldBy, OnwardWeb
    <2> QED
      BY <2>1, <2>2, <2>3 DEF NodeShape
  <1> DEFINE a == SentBy(x)  b == GotBy(x)  o == ToldBy(x)  b2 == GotBy(y)  o2 == ToldBy(y)
  <1>3. /\ a \in Seq(Nat) /\ b \in Seq(Nat) /\ b2 \in Seq(Nat)
        /\ b2 = SubSeq(a, 1, Len(b2)) /\ Len(b2) \in 0 .. Len(a) /\ Len(b) <= Len(b2)
        /\ (o2 = "complete" => b2 = a) /\ (o = "complete" => b = a)
        /\ (o2 = o \/ (o = "open" /\ o2 = "complete"))
    BY <1>1, <1>2
  <1>4. SentBy(y) = a
    BY <1>2
  <1> HIDE DEF a, b, o, b2, o2
  <1>5. Piped(a, b, o, a, b2, o2)
    BY <1>3, Advances
  <1> QED
    BY <1>4, <1>5 DEF Outward, a, b, o, b2, o2

-----------------------------------------------------------------------------
(* A chunk is pushed: it waits in the buffer, or comes out at once.         *)
LEMMA ChunkAccepted ==
    ASSUME NEW x \in Worlds, NEW buf \in Seq(Nat), ConsumerOK(x, buf), NEW c \in Nat, NEW t,
           t.w = x.w, t.it = x.it, t.web = x.web, t.r.closed = x.r.closed,
           t.r.accepted = Append(x.r.accepted, c)
    PROVE  ConsumerOK(t, Append(buf, c))
  <1> DEFINE acc == x.r.accepted  more == Append(acc, c)  bigger == Append(buf, c)
  <1>0. acc \in Seq(Nat) /\ more \in Seq(Nat) /\ bigger \in Seq(Nat)
        /\ Len(more) = Len(acc) + 1 /\ Len(bigger) = Len(buf) + 1 /\ Len(acc) \in Nat /\ Len(buf) \in Nat
    <2>1. acc \in Seq(Nat)
      BY WorldFields
    <2> QED
      BY <2>1, Appended
  <1>1. \A out \in Seq(Nat) : /\ AllOf(out, buf, acc) => AllOf(out, bigger, more)
                              /\ StartOf(out, buf, acc) => StartOf(out, bigger, more)
    <2> SUFFICES ASSUME NEW out \in Seq(Nat)
                 PROVE  /\ AllOf(out, buf, acc) => AllOf(out, bigger, more)
                        /\ StartOf(out, buf, acc) => StartOf(out, bigger, more)
      OBVIOUS
    <2> QED
      BY <1>0, BufferGrows
  <1> HIDE DEF acc, more, bigger
  <1>2. /\ x.w.given \o x.w.queue \in Seq(Nat) /\ x.it.got \o x.it.chunks \in Seq(Nat)
        /\ x.w.kept \in Seq(Nat) /\ x.web.accepted \in Seq(Nat)
    <2>1. /\ x.w.given \in Seq(Nat) /\ x.w.queue \in Seq(Nat) /\ x.it.got \in Seq(Nat) /\ x.it.chunks \in Seq(Nat)
          /\ x.w.kept \in Seq(Nat) /\ x.web.accepted \in Seq(Nat)
      BY LengthsTyped
    <2> QED
      BY <2>1, ConcatProperties
  <1>3. t.r.accepted = more
    BY DEF more, acc
  <1>4. shape = "nodePipe" => PipeOK(x.r.closed, bigger, more, x.w)
    <2> SUFFICES ASSUME shape = "nodePipe" PROVE PipeOK(x.r.closed, bigger, more, x.w)
      OBVIOUS
    <2>1. PipeOK(x.r.closed, buf, acc, x.w)
      BY DEF ConsumerOK, acc
    <2>2. /\ x.w.destroyed => StartOf(x.w.kept, bigger, more)
          /\ ~x.w.destroyed => AllOf(x.w.given \o x.w.queue, bigger, more)
      BY <1>1, <1>2, <2>1 DEF PipeOK
    <2>3. Len(bigger) <= Len(more)
      BY <1>0, <2>1 DEF PipeOK
    <2> QED
      BY <2>1, <2>2, <2>3 DEF PipeOK
  <1>5. shape = "nodeIterate" => IteratorOK(x.r.closed, bigger, more, x.it)
    BY <1>0, <1>1, <1>2 DEF ConsumerOK, IteratorOK, acc
  <1>6. shape = "toWeb" => ToWebOK(x.r.closed, bigger, more, x.web)
    BY <1>0, <1>1, <1>2 DEF ConsumerOK, ToWebOK, acc
  <1>7. ConsumerOK(t, bigger)
    BY <1>3, <1>4, <1>5, <1>6 DEF ConsumerOK
  <1> QED
    BY <1>7 DEF bigger

(* What the chunk that came out at once does to the pipe.                   *)
LEMMA TakesPipes ==
    ASSUME shape \in NodeShape, NEW x, WorldOK(x), x.r.buf = <<>>, ~x.r.closed,
           NEW c \in 1 .. MaxChunks, c \in Nat,
           NEW v \in Worlds, v.w = x.w, v.it = x.it, v.web = x.web, v.r.accepted = Append(x.r.accepted, c),
           NEW y, Takes(v, y, c), y \in Worlds, ConsumerOK(y, <<>>), y.r.buf = <<>>
    PROVE  Outward(x, y)
  <1> DEFINE a == SentBy(x)  b == GotBy(x)  o == ToldBy(x)  a2 == SentBy(y)  b2 == GotBy(y)  o2 == ToldBy(y)
             acc == x.r.accepted
  <1>0. x \in Worlds /\ ConsumerOK(x, <<>>) /\ y.r.accepted = Append(acc, c) /\ acc \in Seq(Nat)
    BY WorldFields DEF WorldOK, Takes, OnlyFlow
  <1>1. o = "complete" => shape = "toWeb" /\ x.web.cancelled
    BY WorldFacts
  <1>2. CASE shape = "nodePipe"
    <2>1. a = acc /\ a2 = Append(acc, c) /\ o2 = o
      BY <1>0, <1>2 DEF SentBy, ToldBy, Takes
    <2>2. b2 = b \/ (b = a /\ b2 = Append(b, c))
      <3>1. CASE x.w.destroyed \/ y.w.given = x.w.given
        BY <1>2, <3>1 DEF GotBy, Takes
      <3>2. CASE ~x.w.destroyed /\ y.w.given = Append(x.w.given, c) /\ x.w.queue = <<>>
        <4>1. AllOf(x.w.given \o <<>>, <<>>, acc)
          BY <1>0, <1>2, <3>2 DEF ConsumerOK, PipeOK
        <4>2. x.w.given \o <<>> = x.w.given
          BY <1>0, LengthsTyped, ConcatEmptySeq
        <4>3. x.w.given = acc
          BY <4>1, <4>2 DEF AllOf
        <4>4. b = x.w.given /\ b2 = y.w.given
          BY <1>2, <3>2 DEF GotBy, Takes
        <4> QED
          BY <2>1, <3>2, <4>3, <4>4
      <3> QED
        BY <1>2, <3>1, <3>2 DEF Takes
    <2> HIDE DEF a, b, o, a2, b2, o2, acc
    <2>3. Piped(a, b, o, a2, b2, o2)
      BY <1>1, <1>2, <2>1, <2>2 DEF Piped
    <2> QED
      BY <2>3 DEF Outward, a, b, o, a2, b2, o2
  <1>3. CASE shape = "nodeIterate"
    <2>1. a = acc /\ a2 = Append(acc, c) /\ o2 = o
      BY <1>0, <1>3 DEF SentBy, ToldBy, Takes
    <2>2. b2 = b \/ (b = a /\ b2 = Append(b, c))
      <3>1. CASE y.it.got = x.it.got
        BY <1>3, <3>1 DEF GotBy
      <3>2. CASE y.it.got = Append(x.it.got, c) /\ x.it.chunks = <<>>
        <4>1. AllOf(x.it.got \o <<>>, <<>>, acc)
          BY <1>0, <1>3, <3>2 DEF ConsumerOK, IteratorOK
        <4>2. x.it.got \o <<>> = x.it.got
          BY <1>0, LengthsTyped, ConcatEmptySeq
        <4>3. x.it.got = acc
          BY <4>1, <4>2 DEF AllOf
        <4>4. b = x.it.got /\ b2 = y.it.got
          BY <1>3 DEF GotBy
        <4> QED
          BY <2>1, <3>2, <4>3, <4>4
      <3> QED
        BY <1>3, <3>1, <3>2 DEF Takes
    <2> HIDE DEF a, b, o, a2, b2, o2, acc
    <2>3. Piped(a, b, o, a2, b2, o2)
      BY <1>1, <1>3, <2>1, <2>2 DEF Piped
    <2> QED
      BY <2>3 DEF Outward, a, b, o, a2, b2, o2
  <1>4. CASE shape = "toWeb"
    <2> DEFINE s == x.web  t == y.web
    <2>1. Good(s) /\ Good(t) /\ b = Chunks(s) /\ b2 = Chunks(t) /\ o = WasTold(s) /\ o2 = WasTold(t)
      BY <1>0, <1>4, LengthsTyped DEF GotBy, ToldBy
    <2>2. CASE t = s
      <3>1. b2 = b /\ o2 = o
        BY <2>1, <2>2
      <3>2. CASE s.cancelled
        <4>1. a = b /\ a2 = b2
          BY <1>4, <2>1, <2>2, <3>2 DEF SentBy
        <4> HIDE DEF a, b, o, a2, b2, o2
        <4>2. Piped(a, b, o, a2, b2, o2)
          BY <3>1, <4>1 DEF Piped
        <4> QED
          BY <4>2 DEF Outward, a, b, o, a2, b2, o2
      <3>3. CASE ~s.cancelled
        <4>1. a = acc /\ a2 = Append(acc, c)
          BY <1>0, <1>4, <2>2, <3>3 DEF SentBy
        <4>2. o # "complete"
          BY <1>1, <3>3
        <4> HIDE DEF a, b, o, a2, b2, o2, acc
        <4>3. Piped(a, b, o, a2, b2, o2)
          BY <3>1, <4>1, <4>2 DEF Piped
        <4> QED
          BY <4>3 DEF Outward, a, b, o, a2, b2, o2
      <3> QED
        BY <3>2, <3>3
    <2>3. CASE t # s
      <3>1. /\ Active(s) /\ t.state = "readable" /\ t.accepted = Append(s.accepted, c) /\ t.cancelled = s.cancelled
            /\ Kept(s.reads, t.reads) /\ Len(t.reads) = Len(s.reads)
        BY <1>4, <2>3 DEF Takes
      <3>2. s.state = "readable" /\ ~s.cancelled
        BY <2>1, <3>1 DEF Active, Good, Sound, Stated
      <3>3. s.accepted = acc
        <4>1. AllOf(s.accepted, <<>>, acc)
          BY <1>0, <1>4, <3>2 DEF ConsumerOK, ToWebOK
        <4>2. s.accepted \o <<>> = s.accepted
          BY <1>0, LengthsTyped, ConcatEmptySeq
        <4> QED
          BY <4>1, <4>2 DEF AllOf
      <3>4. a = NotDiscarded(s) /\ a2 = NotDiscarded(t)
        BY <1>0, <1>4, <3>1, <3>2, <3>3 DEF SentBy, NotDiscarded
      <3> HIDE DEF s, t
      <3>5. Piped(NotDiscarded(s), Chunks(s), WasTold(s), NotDiscarded(t), Chunks(t), WasTold(t))
        BY <2>1, <3>1, ReaderFed
      <3> QED
        BY <2>1, <3>4, <3>5 DEF Outward
    <2> QED
      BY <2>2, <2>3
  <1> QED
    BY <1>2, <1>3, <1>4 DEF NodeShape

LEMMA Pushes ==
    ASSUME shape \in NodeShape, NEW x, WorldOK(x), ~x.r.ended, NEW c \in 1 .. MaxChunks, c \in Nat
    PROVE  WorldOK(push(x, c)) /\ Outward(x, push(x, c))
  <1> DEFINE buf == x.r.buf  acc == x.r.accepted  one == Append(buf, c)  more == Append(acc, c)
             q == [x.r EXCEPT !.buf = one, !.accepted = more]
             t == [x EXCEPT !.r.buf = Append(@, c), !.r.accepted = Append(@, c)]
  <1>0. /\ x \in Worlds /\ x.r \in NodeReadables /\ x.w \in NodeWritables /\ x.it \in Iterators /\ Good(x.web)
        /\ x = [r |-> x.r, w |-> x.w, it |-> x.it, web |-> x.web]
        /\ buf \in Seq(Nat) /\ acc \in Seq(Nat) /\ FlowOK(x.r) /\ ConsumerOK(x, buf) /\ ~x.r.closed
        /\ x.r.ended = FALSE /\ x.r.flowing \in BOOLEAN
    BY WorldFields DEF WorldOK, FlowOK
  <1>1. t = [r |-> q, w |-> x.w, it |-> x.it, web |-> x.web]
    <2>1. t = [x EXCEPT !.r = [[x.r EXCEPT !.buf = one] EXCEPT !.accepted = more]]
      BY <1>0 DEF Worlds, NodeReadables
    <2> QED
      BY <1>0, <2>1 DEF Worlds, NodeReadables
  <1>2. /\ q \in NodeReadables /\ q.buf = one /\ q.accepted = more /\ q.closed = x.r.closed /\ q.ended = x.r.ended
        /\ q.flowing = x.r.flowing
    <2>1. one \in Seq(Nat) /\ more \in Seq(Nat)
      BY <1>0, Appended
    <2> HIDE DEF one, more
    <2> QED
      BY <1>0, <2>1 DEF NodeReadables
  <1>3. push(x, c) = IF t.r.flowing THEN _drain(t) ELSE t
    BY DEF push
  <1> HIDE DEF q, t
  <1>4. t \in Worlds /\ t.r = q /\ t.w = x.w /\ t.it = x.it /\ t.web = x.web
    BY <1>0, <1>1, <1>2, WorldMade
  <1>5. ConsumerOK(t, one)
    BY <1>0, <1>2, <1>4, ChunkAccepted
  <1>6. ToldBy(x) = "complete" => shape = "toWeb" /\ x.web.cancelled
    BY <1>0, WorldFacts
  <1>7. CASE ~x.r.flowing
    <2>1. push(x, c) = t /\ WorldOK(t)
      BY <1>0, <1>2, <1>3, <1>4, <1>5, <1>7 DEF WorldOK, FlowOK
    <2>2. GotBy(t) = GotBy(x) /\ ToldBy(t) = ToldBy(x)
      BY <1>4 DEF GotBy, ToldBy
    <2>3. CASE shape = "toWeb" /\ x.web.cancelled
      <3>1. SentBy(t) = SentBy(x)
        BY <1>4, <2>3 DEF SentBy
      <3> QED
        BY <2>1, <2>2, <3>1 DEF Outward, Piped
    <2>4. CASE ~(shape = "toWeb" /\ x.web.cancelled)
      <3>1. SentBy(t) = Append(SentBy(x), c)
        BY <1>2, <1>4, <2>4 DEF SentBy
      <3> QED
        BY <1>6, <2>1, <2>2, <2>4, <3>1 DEF Outward, Piped
    <2> QED
      BY <2>3, <2>4
  <1>8. CASE x.r.flowing
    <2> DEFINE p == [q EXCEPT !.buf = <<>>]  v == [t EXCEPT !.r.buf = <<>>]  y == emitData(v, c)
    <2>1. buf = <<>> /\ <<>> \in Seq(Nat) /\ one = <<c>> \o <<>>
      <3>1. buf = <<>> /\ <<>> \in Seq(Nat)
        BY <1>0, <1>8, EmptySeq DEF FlowOK
      <3>2. <<c>> \in Seq(Nat) /\ Append(<<>>, c) = <<c>>
        OBVIOUS
      <3>3. <<c>> \o <<>> = <<c>>
        BY <3>2, ConcatEmptySeq
      <3> QED
        BY <3>1, <3>2, <3>3
    <2>2. v = [r |-> p, w |-> x.w, it |-> x.it, web |-> x.web]
      BY <1>4 DEF Worlds
    <2>3. /\ p \in NodeReadables /\ p.buf = <<>> /\ p.accepted = more /\ p.closed = x.r.closed
          /\ p.ended = FALSE
      BY <1>0, <1>2, <2>1 DEF NodeReadables
    <2> HIDE DEF p, v
    <2>4. v \in Worlds /\ v.r = p /\ v.w = x.w /\ v.it = x.it /\ v.web = x.web
      BY <1>0, <2>2, <2>3, WorldMade
    <2>5. emitEach(v, t.r.buf) = y
      <3>1. t.r.buf = Append(<<>>, c)
        BY <1>2, <1>4, <2>1
      <3>2. emitEach(v, Append(<<>>, c)) = emitData(emitEach(v, <<>>), c)
        BY <2>1, <2>4, EachNext, Zenon
      <3>3. emitEach(v, <<>>) = v
        BY <2>4, EachNone, Zenon
      <3> QED
        BY <3>1, <3>2, <3>3
    <2>6. ConsumerOK(v, <<c>> \o <<>>) /\ ~v.r.closed
      BY <1>0, <1>2, <1>4, <1>5, <2>1, <2>3, <2>4 DEF ConsumerOK
    <2>7. Takes(v, y, c) /\ ConsumerOK(y, <<>>)
      BY <2>1, <2>4, <2>6, EmitTakes
    <2> HIDE DEF y
    <2>8. y \in Worlds /\ y.r.buf = <<>> /\ ~y.r.ended /\ ~y.r.closed
      BY <2>3, <2>4, <2>6, <2>7 DEF Takes, OnlyFlow
    <2>9. push(x, c) = y
      <3>1. _drain(t) = IF emitEach(v, t.r.buf).r.ended THEN _endStream(emitEach(v, t.r.buf)) ELSE emitEach(v, t.r.buf)
        BY DEF _drain, v
      <3>2. _drain(t) = y
        BY <2>5, <2>8, <3>1
      <3> QED
        BY <1>2, <1>3, <1>4, <1>8, <3>2
    <2>10. WorldOK(y)
      BY <2>7, <2>8 DEF WorldOK, FlowOK
    <2>11. Outward(x, y)
      BY <1>0, <2>1, <2>3, <2>4, <2>7, <2>8, TakesPipes
    <2> QED
      BY <2>9, <2>10, <2>11
  <1> QED
    BY <1>0, <1>7, <1>8

LEMMA PushesNull ==
    ASSUME shape \in NodeShape, NEW x, WorldOK(x), ~x.r.ended
    PROVE  WorldOK(pushNull(x)) /\ Outward(x, pushNull(x))
  <1> DEFINE q == [x.r EXCEPT !.ended = TRUE]  t == [x EXCEPT !.r.ended = TRUE]
  <1>0. /\ x \in Worlds /\ x.r \in NodeReadables /\ x.w \in NodeWritables /\ x.it \in Iterators /\ Good(x.web)
        /\ x = [r |-> x.r, w |-> x.w, it |-> x.it, web |-> x.web]
        /\ FlowOK(x.r) /\ ConsumerOK(x, x.r.buf) /\ ~x.r.closed
    BY WorldFields DEF WorldOK, FlowOK
  <1>1. t = [r |-> q, w |-> x.w, it |-> x.it, web |-> x.web]
    BY <1>0, ReadableSet, Zenon
  <1>2. /\ q \in NodeReadables /\ q.buf = x.r.buf /\ q.accepted = x.r.accepted /\ q.closed = x.r.closed
        /\ q.ended = TRUE /\ q.flowing = x.r.flowing
    BY <1>0 DEF NodeReadables
  <1> HIDE DEF q
  <1>3. t \in Worlds /\ t.r = q /\ t.w = x.w /\ t.it = x.it /\ t.web = x.web
    BY <1>0, <1>1, <1>2, WorldMade
  <1>4. pushNull(x) = IF t.r.buf = <<>> THEN _endStream(t) ELSE IF t.r.flowing THEN _drain(t) ELSE t
    BY DEF pushNull
  <1> HIDE DEF t
  <1>5. ConsumerOK(t, t.r.buf) /\ ~t.r.closed /\ t.r.ended
    BY <1>0, <1>2, <1>3 DEF ConsumerOK
  <1>6. Onward(x, t)
    <2>1. Onward(x, x)
      BY <1>0, OnwardSelf
    <2> QED
      BY <1>2, <1>3, <2>1 DEF Onward
  <1>7. WorldOK(pushNull(x)) /\ Onward(t, pushNull(x))
    <2>1. CASE t.r.buf = <<>>
      BY <1>3, <1>4, <1>5, <2>1, EndStream DEF Emptied
    <2>2. CASE t.r.buf # <<>>
      <3>1. ~t.r.flowing
        BY <1>0, <1>2, <1>3, <2>2 DEF FlowOK
      <3>2. Onward(t, t)
        BY <1>3, OnwardSelf
      <3> QED
        BY <1>3, <1>4, <1>5, <2>2, <3>1, <3>2 DEF WorldOK, FlowOK
    <2> QED
      BY <2>1, <2>2
  <1>8. Onward(x, pushNull(x))
    BY <1>0, <1>3, <1>6, <1>7, OnwardOn DEF WorldOK
  <1> QED
    BY <1>7, <1>8, OnwardPipes

-----------------------------------------------------------------------------
(* What has not come out is dropped.                                        *)
CutTo(a, b, o, a2, o2, n) ==
    /\ a \in Seq(Nat) /\ b \in Seq(Nat) /\ a2 \in Seq(Nat)
    /\ o \in {"open", "complete", "failed"} /\ o2 \in {"open", "complete", "failed"}
    /\ n \in 0 .. Len(a) /\ Len(b) <= n /\ a2 = SubSeq(a, 1, n) /\ (o = "complete" => a2 = a)
    /\ (o # "open" => o2 = o) /\ (o = "open" /\ o2 = "complete" => n = Len(b))

LEMMA Drops ==
    \A a, b, o, a2, o2, n : CutTo(a, b, o, a2, o2, n) => Piped(a, b, o, a2, b, o2)
  <1> SUFFICES ASSUME NEW a, NEW b, NEW o, NEW a2, NEW o2, NEW n, CutTo(a, b, o, a2, o2, n)
               PROVE  Piped(a, b, o, a2, b, o2)
    BY Zenon
  <1> USE DEF CutTo
  <1>1. n \in Len(b) .. Len(a)
    OBVIOUS
  <1>2. CASE o = "complete"
    BY <1>2 DEF Piped
  <1>3. CASE o # "complete"
    BY <1>1, <1>3 DEF Piped
  <1> QED
    BY <1>2, <1>3

Truncated(buf, acc, less) ==
    /\ less \in Seq(Nat) /\ Len(less) = Len(acc) - Len(buf) /\ Len(acc) - Len(buf) \in 0 .. Len(acc)
    /\ buf = <<>> => less = acc
    /\ \A out \in Seq(Nat) : /\ AllOf(out, buf, acc) => AllOf(out, <<>>, less)
                             /\ StartOf(out, buf, acc) => StartOf(out, <<>>, less)

LEMMA Truncates ==
    \A buf, acc \in Seq(Nat) : \A less :
       Len(buf) <= Len(acc) /\ less = SubSeq(acc, 1, Len(acc) - Len(buf)) => Truncated(buf, acc, less)
  <1> SUFFICES ASSUME NEW buf \in Seq(Nat), NEW acc \in Seq(Nat), NEW less, Len(buf) <= Len(acc),
                      less = SubSeq(acc, 1, Len(acc) - Len(buf))
               PROVE  Truncated(buf, acc, less)
    OBVIOUS
  <1> DEFINE n == Len(acc) - Len(buf)
  <1>1. n \in 0 .. Len(acc) /\ Len(acc) \in Nat /\ Len(buf) \in Nat
    OBVIOUS
  <1>2. less = [i \in 1 .. n |-> acc[i]]
    BY <1>1
  <1>3. less \in Seq(Nat) /\ Len(less) = n /\ \A i \in 1 .. n : less[i] = acc[i]
    <2>1. n \in Nat /\ \A i \in 1 .. n : acc[i] \in Nat
      BY <1>1
    <2> HIDE DEF n
    <2> QED
      BY <1>2, <2>1
  <1>4. buf = <<>> => less = acc
    <2> SUFFICES ASSUME buf = <<>> PROVE less = acc
      OBVIOUS
    <2>1. n = Len(acc)
      BY <1>1
    <2> HIDE DEF n
    <2> QED
      BY <1>3, <2>1, SameByElements
  <1>5. ASSUME NEW out \in Seq(Nat), StartOf(out, buf, acc) PROVE StartOf(out, <<>>, less)
    <2>1. Len(out) + Len(buf) <= Len(acc) /\ out = SubSeq(acc, 1, Len(out)) /\ Len(out) \in Nat
      BY <1>5 DEF StartOf
    <2>2. Len(out) <= n /\ Len(out) <= Len(acc) /\ \A i \in 1 .. Len(out) : i \in 1 .. n
      BY <1>1, <2>1
    <2> HIDE DEF n
    <2>3. SubSeq(acc, 1, Len(out)) = [i \in 1 .. Len(out) |-> acc[i]]
      BY <2>1, <2>2
    <2>4. \A i \in 1 .. Len(out) : out[i] = less[i]
      BY <1>3, <2>1, <2>2, <2>3
    <2>5. out = SubSeq(less, 1, Len(out))
      BY <1>3, <2>2, <2>4, FirstPart
    <2>6. Len(out) + Len(<<>>) <= Len(less)
      BY <1>3, <2>1, <2>2
    <2> QED
      BY <2>5, <2>6 DEF StartOf
  <1>6. ASSUME NEW out \in Seq(Nat), AllOf(out, buf, acc) PROVE AllOf(out, <<>>, less)
    <2>1. less = out
      BY <1>6, AllStarts
    <2>2. out \o <<>> = out
      BY ConcatEmptySeq
    <2> QED
      BY <2>1, <2>2 DEF AllOf
  <1> QED
    BY <1>1, <1>3, <1>4, <1>5, <1>6 DEF Truncated

LEMMA StartsFit ==
    \A out, buf, acc \in Seq(Nat) : StartOf(out, buf, acc) => Len(buf) <= Len(acc)
  <1> SUFFICES ASSUME NEW out \in Seq(Nat), NEW buf \in Seq(Nat), NEW acc \in Seq(Nat), StartOf(out, buf, acc)
               PROVE  Len(buf) <= Len(acc)
    OBVIOUS
  <1>1. Len(out) + Len(buf) <= Len(acc)
    BY DEF StartOf
  <1>2. Len(out) \in Nat /\ Len(buf) \in Nat /\ Len(acc) \in Nat
    OBVIOUS
  <1> QED
    BY <1>1, <1>2

LEMMA BufferFits ==
    ASSUME shape \in NodeShape, NEW x, WorldOK(x)
    PROVE  Len(x.r.buf) <= Len(x.r.accepted)
  <1>0. x \in Worlds /\ ConsumerOK(x, x.r.buf) /\ x.r.buf \in Seq(Nat) /\ x.r.accepted \in Seq(Nat)
    BY WorldFields DEF WorldOK
  <1>1. shape = "nodePipe" => Len(x.r.buf) <= Len(x.r.accepted)
    BY <1>0 DEF ConsumerOK, PipeOK
  <1>2. ASSUME shape = "nodeIterate" PROVE Len(x.r.buf) <= Len(x.r.accepted)
    <2>1. /\ x.it.got \in Seq(Nat) /\ x.it.chunks \in Seq(Nat) /\ AllOf(x.it.got \o x.it.chunks, x.r.buf, x.r.accepted)
      BY <1>0, <1>2, LengthsTyped DEF ConsumerOK, IteratorOK
    <2>2. StartOf(x.it.got, x.r.buf, x.r.accepted)
      BY <1>0, <2>1, HalfStarts
    <2> QED
      BY <1>0, <2>1, <2>2, StartsFit, Zenon
  <1>3. ASSUME shape = "toWeb" PROVE Len(x.r.buf) <= Len(x.r.accepted)
    <2>1. StartOf(x.web.accepted, x.r.buf, x.r.accepted)
      BY <1>0, <1>3 DEF ConsumerOK, ToWebOK
    <2>2. x.web.accepted \in Seq(Nat)
      BY <1>0, LengthsTyped
    <2> QED
      BY <1>0, <2>1, <2>2, StartsFit, Zenon
  <1> QED
    BY <1>1, <1>2, <1>3 DEF NodeShape

(* The Readable drops its buffer; the consumer is as before, or is told.    *)
Rest(x) == SubSeq(x.r.accepted, 1, Len(x.r.accepted) - Len(x.r.buf))

Dropped(x, y) ==
    /\ y \in Worlds /\ y.r.accepted = Rest(x) /\ y.r.buf = <<>>
    /\ y.r.closed = x.r.closed /\ y.r.ended = x.r.ended
    /\ shape = "nodePipe" => y.w = x.w
    /\ shape = "nodeIterate" =>
          /\ y.it.got = x.it.got /\ y.it.chunks = x.it.chunks /\ y.it.ended = x.it.ended
          /\ y.it.outcome = x.it.outcome \/ (x.it.outcome = "open" /\ y.it.outcome = "failed")
          /\ y.it.waiting => y.it = x.it
    /\ shape = "toWeb" =>
          /\ Kept(x.web.reads, y.web.reads) /\ Len(y.web.reads) = Len(x.web.reads)
          /\ y.web.accepted = x.web.accepted /\ y.web.closeRequested = x.web.closeRequested
          /\ \/ /\ y.web.cancelled = x.web.cancelled
                /\ y.web.state = x.web.state \/ (x.web.state = "readable" /\ y.web.state = "errored")
             \/ x.web.state # "errored" /\ y.web.state = "closed" /\ y.web.cancelled

LEMMA DroppedOK ==
    ASSUME shape \in NodeShape, NEW x, WorldOK(x), NEW y, Dropped(x, y)
    PROVE  WorldOK(y)
  <1> DEFINE buf == x.r.buf  acc == x.r.accepted  less == Rest(x)
  <1>0. /\ x \in Worlds /\ y \in Worlds /\ FlowOK(x.r) /\ ConsumerOK(x, buf) /\ buf \in Seq(Nat) /\ acc \in Seq(Nat)
        /\ y.r.accepted = less /\ y.r.buf = <<>> /\ y.r.closed = x.r.closed
    BY WorldFields DEF WorldOK, Dropped
  <1>1. /\ less \in Seq(Nat) /\ Len(less) \in Nat
        /\ \A out \in Seq(Nat) : /\ AllOf(out, buf, acc) => AllOf(out, <<>>, less)
                                 /\ StartOf(out, buf, acc) => StartOf(out, <<>>, less)
    <2>1. Len(buf) <= Len(acc)
      BY BufferFits
    <2>2. less = SubSeq(acc, 1, Len(acc) - Len(buf))
      BY DEF Rest
    <2>3. buf \in Seq(Nat) /\ acc \in Seq(Nat)
      BY <1>0
    <2> HIDE DEF less, buf, acc
    <2>4. Truncated(buf, acc, less)
      BY <2>1, <2>2, <2>3, Truncates, Zenon
    <2>5. less \in Seq(Nat)
      BY <2>4 DEF Truncated
    <2>6. Len(less) \in Nat
      BY <2>5
    <2> QED
      BY <2>4, <2>5, <2>6 DEF Truncated
  <1>2. FlowOK(y.r)
    BY <1>0 DEF FlowOK, Dropped
  <1> HIDE DEF less
  <1>3. ASSUME shape = "nodePipe" PROVE PipeOK(y.r.closed, <<>>, less, y.w)
    <2>1. PipeOK(x.r.closed, buf, acc, x.w) /\ y.w = x.w
      BY <1>0, <1>3 DEF ConsumerOK, Dropped
    <2>2. x.w.kept \in Seq(Nat) /\ x.w.given \o x.w.queue \in Seq(Nat)
      <3>1. x.w.kept \in Seq(Nat) /\ x.w.given \in Seq(Nat) /\ x.w.queue \in Seq(Nat)
        BY <1>0, LengthsTyped
      <3> QED
        BY <3>1, ConcatProperties
    <2>3. /\ x.w.destroyed => StartOf(x.w.kept, <<>>, less)
          /\ ~x.w.destroyed => AllOf(x.w.given \o x.w.queue, <<>>, less)
      BY <1>1, <2>1, <2>2 DEF PipeOK
    <2>4. Len(<<>>) <= Len(less)
      BY <1>1
    <2> QED
      BY <1>0, <2>1, <2>3, <2>4 DEF PipeOK
  <1>4. ASSUME shape = "nodeIterate" PROVE IteratorOK(y.r.closed, <<>>, less, y.it)
    <2>1. IteratorOK(x.r.closed, buf, acc, x.it)
      BY <1>0, <1>4 DEF ConsumerOK
    <2>2. x.it.got \o x.it.chunks \in Seq(Nat)
      <3>1. x.it.got \in Seq(Nat) /\ x.it.chunks \in Seq(Nat)
        BY <1>0, LengthsTyped
      <3> QED
        BY <3>1, ConcatProperties
    <2>3. AllOf(x.it.got \o x.it.chunks, <<>>, less)
      BY <1>1, <2>1, <2>2 DEF IteratorOK
    <2>4. /\ y.it.got = x.it.got /\ y.it.chunks = x.it.chunks /\ y.it.ended = x.it.ended
          /\ y.it.outcome = x.it.outcome \/ (x.it.outcome = "open" /\ y.it.outcome = "failed")
          /\ y.it.waiting => y.it = x.it
      BY <1>4 DEF Dropped
    <2> QED
      BY <1>0, <2>1, <2>3, <2>4 DEF IteratorOK
  <1>5. ASSUME shape = "toWeb" PROVE ToWebOK(y.r.closed, <<>>, less, y.web)
    <2>1. ToWebOK(x.r.closed, buf, acc, x.web) /\ x.web.accepted \in Seq(Nat) /\ Good(x.web)
      BY <1>0, <1>5, LengthsTyped DEF ConsumerOK
    <2>2. /\ StartOf(x.web.accepted, <<>>, less)
          /\ (x.web.state = "errored" /\ ~x.web.closeRequested) \/ x.web.cancelled \/ AllOf(x.web.accepted, <<>>, less)
      BY <1>1, <2>1 DEF ToWebOK
    <2>3. y.web.accepted = x.web.accepted /\ y.web.closeRequested = x.web.closeRequested
      BY <1>5 DEF Dropped
    <2>4. CASE /\ y.web.cancelled = x.web.cancelled
               /\ y.web.state = x.web.state \/ (x.web.state = "readable" /\ y.web.state = "errored")
      BY <1>0, <2>1, <2>2, <2>3, <2>4 DEF ToWebOK, Ended
    <2>5. CASE y.web.state = "closed" /\ y.web.cancelled
      BY <1>0, <2>1, <2>2, <2>3, <2>5 DEF ToWebOK, Ended
    <2> QED
      BY <1>5, <2>4, <2>5 DEF Dropped
  <1> QED
    BY <1>0, <1>2, <1>3, <1>4, <1>5 DEF WorldOK, ConsumerOK

LEMMA DroppedPipes ==
    ASSUME shape \in NodeShape, NEW x, WorldOK(x), NEW y, Dropped(x, y)
    PROVE  WorldOK(y) /\ Outward(x, y)
  <1> DEFINE a == SentBy(x)  b == GotBy(x)  o == ToldBy(x)  a2 == SentBy(y)  b2 == GotBy(y)  o2 == ToldBy(y)
             buf == x.r.buf  acc == x.r.accepted  less == Rest(x)
  <1>0. /\ WorldOK(y) /\ x \in Worlds /\ y \in Worlds /\ buf \in Seq(Nat) /\ acc \in Seq(Nat)
        /\ y.r.accepted = less /\ FlowOK(x.r)
    BY DroppedOK, WorldFields DEF WorldOK, Dropped
  <1>1. /\ a \in Seq(Nat) /\ b \in Seq(Nat) /\ a2 \in Seq(Nat) /\ b = SubSeq(a, 1, Len(b)) /\ Len(b) \in 0 .. Len(a)
        /\ o \in {"open", "complete", "failed"} /\ o2 \in {"open", "complete", "failed"}
        /\ (o = "complete" => b = a /\ (x.r.closed \/ (shape = "toWeb" /\ x.web.cancelled)))
        /\ (o2 = "complete" => b2 = a2) /\ Len(b2) \in 0 .. Len(a2)
    BY <1>0, WorldFacts
  <1>2. /\ less \in Seq(Nat) /\ less = SubSeq(acc, 1, Len(acc) - Len(buf)) /\ Len(less) = Len(acc) - Len(buf)
        /\ Len(acc) - Len(buf) \in 0 .. Len(acc) /\ (buf = <<>> => less = acc)
    <2>1. Len(buf) <= Len(acc)
      BY BufferFits
    <2>2. less = SubSeq(acc, 1, Len(acc) - Len(buf))
      BY DEF Rest
    <2>3. buf \in Seq(Nat) /\ acc \in Seq(Nat)
      BY <1>0
    <2> HIDE DEF less, buf, acc
    <2>4. Truncated(buf, acc, less)
      BY <2>1, <2>2, <2>3, Truncates, Zenon
    <2> QED
      BY <2>2, <2>4 DEF Truncated
  <1>3. b2 = b /\ (o # "open" => o2 = o) /\ (shape # "toWeb" /\ o = "open" => o2 # "complete")
    <2>1. CASE shape = "nodePipe"
      BY <2>1 DEF Dropped, GotBy, ToldBy
    <2>2. CASE shape = "nodeIterate"
      BY <2>2 DEF Dropped, GotBy, ToldBy
    <2>3. CASE shape = "toWeb"
      <3>1. Good(x.web) /\ Good(y.web) /\ Len(x.web.reads) \in Nat
        BY <1>0, LengthsTyped
      <3>2. Kept(x.web.reads, y.web.reads) /\ Len(y.web.reads) = Len(x.web.reads) /\ y.web.accepted = x.web.accepted
        BY <2>3 DEF Dropped
      <3>3. Chunks(y.web) = Chunks(x.web)
        BY <3>1, <3>2, QuietSame
      <3>4. WasTold(x.web) # "open" => WasTold(y.web) = WasTold(x.web)
        BY <3>1, <3>2, ToldStays
      <3> QED
        BY <2>3, <3>3, <3>4 DEF GotBy, ToldBy
    <2> QED
      BY <2>1, <2>2, <2>3 DEF NodeShape
  <1> HIDE DEF a, b, o, a2, b2, o2, less, acc, buf
  <1>4. \A n : CutTo(a, b, o, a2, o2, n) => Outward(x, y)
    <2> SUFFICES ASSUME NEW n, CutTo(a, b, o, a2, o2, n)
                 PROVE  Outward(x, y)
      BY Zenon
    <2>1. Piped(a, b, o, a2, b, o2)
      BY Drops, Zenon
    <2> QED
      BY <1>3, <2>1 DEF Outward, a, b, o, a2, b2, o2
  <1>5. CASE shape = "toWeb" /\ y.web.cancelled
    <2>1. a2 = b
      BY <1>3, <1>5 DEF a2, b, b2, SentBy, GotBy
    <2>2. a2 = SubSeq(a, 1, Len(b)) /\ Len(a2) = Len(b) /\ Len(b) \in 0 .. Len(a) /\ (o = "complete" => a2 = a)
      BY <1>1, <2>1
    <2>3. CutTo(a, b, o, a2, o2, Len(b))
      BY <1>1, <1>3, <2>2 DEF CutTo
    <2> QED
      BY <1>0, <1>4, <2>3, Zenon
  <1>6. CASE ~(shape = "toWeb" /\ y.web.cancelled)
    <2>1. a2 = less /\ a = acc /\ ~(shape = "toWeb" /\ x.web.cancelled)
      BY <1>0, <1>6 DEF SentBy, Dropped, a2, a, less, acc
    <2>2. o = "complete" => less = acc
      BY <1>0, <1>1, <1>2, <2>1 DEF FlowOK, buf
    <2> DEFINE n == Len(acc) - Len(buf)
    <2>3. n \in 0 .. Len(a) /\ a2 = SubSeq(a, 1, n) /\ Len(a2) = n /\ (o = "complete" => a2 = a)
      BY <1>2, <2>1, <2>2
    <2>4. Len(b) <= n /\ (o = "open" /\ o2 = "complete" => n = Len(b))
      BY <1>1, <1>3, <2>3
    <2> HIDE DEF n
    <2>5. CutTo(a, b, o, a2, o2, n)
      BY <1>1, <1>3, <2>3, <2>4 DEF CutTo
    <2> QED
      BY <1>0, <1>4, <2>5, Zenon
  <1> QED
    BY <1>0, <1>5, <1>6

(* destroy() drops the buffer, and with an error tells the consumer.        *)
LEMMA DroppedSet ==
    \A x \in Worlds : \A e :
        /\ [x EXCEPT !.r.destroyed = e] = [r |-> [x.r EXCEPT !.destroyed = e], w |-> x.w, it |-> x.it, web |-> x.web]
        /\ [x EXCEPT !.r.buf = e] = [r |-> [x.r EXCEPT !.buf = e], w |-> x.w, it |-> x.it, web |-> x.web]
        /\ [x EXCEPT !.r.accepted = e] = [r |-> [x.r EXCEPT !.accepted = e], w |-> x.w, it |-> x.it, web |-> x.web]
  BY DEF Worlds

LEMMA IteratorSet ==
    \A x \in Worlds : \A b :
        /\ [x EXCEPT !.it.errored = b] = [r |-> x.r, w |-> x.w, it |-> [x.it EXCEPT !.errored = b], web |-> x.web]
        /\ [x EXCEPT !.it.waiting = b] = [r |-> x.r, w |-> x.w, it |-> [x.it EXCEPT !.waiting = b], web |-> x.web]
        /\ [x EXCEPT !.it.outcome = b] = [r |-> x.r, w |-> x.w, it |-> [x.it EXCEPT !.outcome = b], web |-> x.web]
  BY DEF Worlds

(* The buffer is dropped and nobody is told.                                *)
Bufferless(x) ==
    [x EXCEPT !.r.destroyed = TRUE, !.r.buf = <<>>,
              !.r.accepted = SubSeq(@, 1, Len(x.r.accepted) - Len(x.r.buf))]

LEMMA DropsBuffer ==
    ASSUME shape \in NodeShape, NEW x, WorldOK(x), NEW t, t = Bufferless(x)
    PROVE  /\ t \in Worlds /\ t.w = x.w /\ t.it = x.it /\ t.web = x.web /\ t.r.buf = <<>>
           /\ t.r.accepted = Rest(x) /\ t.r.closed = x.r.closed /\ t.r.ended = x.r.ended
  <1>0. /\ x \in Worlds /\ x.r \in NodeReadables /\ x.w \in NodeWritables /\ x.it \in Iterators /\ Good(x.web)
        /\ x.r.buf \in Seq(Nat) /\ x.r.accepted \in Seq(Nat) /\ TRUE \in BOOLEAN /\ <<>> \in Seq(Nat)
    BY WorldFields, EmptySeq DEF WorldOK
  <1>1. Rest(x) \in Seq(Nat)
    <2> DEFINE buf == x.r.buf  acc == x.r.accepted  less == Rest(x)
    <2>1. Len(buf) <= Len(acc) /\ less = SubSeq(acc, 1, Len(acc) - Len(buf)) /\ buf \in Seq(Nat) /\ acc \in Seq(Nat)
      BY <1>0, BufferFits DEF Rest
    <2> HIDE DEF buf, acc, less
    <2>2. Truncated(buf, acc, less)
      BY <2>1, Truncates, Zenon
    <2>3. less \in Seq(Nat)
      BY <2>2 DEF Truncated
    <2> QED
      BY <2>3 DEF less
  <1>2. PICK x1 : x1 = [x EXCEPT !.r.destroyed = TRUE]
    BY Zenon
  <1>3. PICK q1 : q1 = [x.r EXCEPT !.destroyed = TRUE]
    BY Zenon
  <1>4. x1 = [r |-> q1, w |-> x.w, it |-> x.it, web |-> x.web]
    BY <1>0, <1>2, <1>3, DroppedSet, Zenon
  <1>5. q1 \in NodeReadables /\ q1.accepted = x.r.accepted /\ q1.closed = x.r.closed /\ q1.ended = x.r.ended
    BY <1>0, <1>3 DEF NodeReadables
  <1>6. x1 \in Worlds /\ x1.r = q1 /\ x1.w = x.w /\ x1.it = x.it /\ x1.web = x.web
    BY <1>0, <1>4, <1>5, WorldMade
  <1>7. PICK x2 : x2 = [x1 EXCEPT !.r.buf = <<>>]
    BY Zenon
  <1>8. PICK q2 : q2 = [x1.r EXCEPT !.buf = <<>>]
    BY Zenon
  <1>9. x2 = [r |-> q2, w |-> x1.w, it |-> x1.it, web |-> x1.web]
    BY <1>0, <1>6, <1>7, <1>8, DroppedSet, Zenon
  <1>10. /\ q2 \in NodeReadables /\ q2.accepted = x.r.accepted /\ q2.closed = x.r.closed /\ q2.ended = x.r.ended
         /\ q2.buf = <<>>
    BY <1>0, <1>5, <1>6, <1>8 DEF NodeReadables
  <1>11. x2 \in Worlds /\ x2.r = q2 /\ x2.w = x.w /\ x2.it = x.it /\ x2.web = x.web
    BY <1>0, <1>6, <1>9, <1>10, WorldMade
  <1>12. t = [x2 EXCEPT !.r.accepted = SubSeq(x2.r.accepted, 1, Len(x.r.accepted) - Len(x.r.buf))]
    BY <1>2, <1>7, Zenon DEF Bufferless
  <1>13. SubSeq(x2.r.accepted, 1, Len(x.r.accepted) - Len(x.r.buf)) = Rest(x)
    BY <1>10, <1>11 DEF Rest
  <1>14. PICK q3 : q3 = [x2.r EXCEPT !.accepted = Rest(x)]
    BY Zenon
  <1>15. t = [x2 EXCEPT !.r.accepted = Rest(x)]
    BY <1>12, <1>13, Zenon
  <1>16. t = [r |-> q3, w |-> x2.w, it |-> x2.it, web |-> x2.web]
    BY <1>0, <1>1, <1>11, <1>14, <1>15, DroppedSet, Zenon
  <1>17. /\ q3 \in NodeReadables /\ q3.accepted = Rest(x) /\ q3.closed = x.r.closed /\ q3.ended = x.r.ended
         /\ q3.buf = <<>>
    BY <1>1, <1>10, <1>11, <1>14 DEF NodeReadables
  <1>18. t = [r |-> q3, w |-> x.w, it |-> x.it, web |-> x.web]
    BY <1>11, <1>16, Zenon
  <1>19. t \in Worlds
    BY <1>0, <1>17, <1>18, WorldMade
  <1>20. t.r = q3 /\ t.w = x.w /\ t.it = x.it /\ t.web = x.web
    BY <1>18
  <1> QED
    BY <1>17, <1>19, <1>20

FailsWith(x, e) == [x EXCEPT !.it.errored = TRUE, !.it.waiting = FALSE, !.it.outcome = e]

Failed(x, e, y) ==
    /\ y \in Worlds /\ y.r = x.r /\ y.w = x.w /\ y.web = x.web
    /\ y.it.got = x.it.got /\ y.it.chunks = x.it.chunks /\ y.it.ended = x.it.ended
    /\ y.it.outcome = e /\ y.it.waiting = FALSE

LEMMA IteratorFails ==
    \A x \in Worlds : \A e \in {"open", "complete", "failed"} : \A y : y = FailsWith(x, e) => Failed(x, e, y)
  <1> SUFFICES ASSUME NEW x \in Worlds, NEW e \in {"open", "complete", "failed"}, NEW y, y = FailsWith(x, e)
               PROVE  Failed(x, e, y)
    OBVIOUS
  <1>0. x.r \in NodeReadables /\ x.w \in NodeWritables /\ x.it \in Iterators /\ Good(x.web)
    BY WorldFields
  <1>1. PICK x1 : x1 = [x EXCEPT !.it.errored = TRUE]
    BY Zenon
  <1>2. PICK z1 : z1 = [x.it EXCEPT !.errored = TRUE]
    BY Zenon
  <1>3. x1 = [r |-> x.r, w |-> x.w, it |-> z1, web |-> x.web]
    BY <1>1, <1>2, IteratorSet, Zenon
  <1>4. z1 \in Iterators /\ z1.got = x.it.got /\ z1.chunks = x.it.chunks /\ z1.ended = x.it.ended
    BY <1>0, <1>2 DEF Iterators
  <1>5. x1 \in Worlds /\ x1.r = x.r /\ x1.w = x.w /\ x1.it = z1 /\ x1.web = x.web
    BY <1>0, <1>3, <1>4, WorldMade
  <1>6. PICK x2 : x2 = [x1 EXCEPT !.it.waiting = FALSE]
    BY Zenon
  <1>7. PICK z2 : z2 = [x1.it EXCEPT !.waiting = FALSE]
    BY Zenon
  <1>8. x2 = [r |-> x1.r, w |-> x1.w, it |-> z2, web |-> x1.web]
    BY <1>5, <1>6, <1>7, IteratorSet, Zenon
  <1>9. z2 \in Iterators /\ z2.got = x.it.got /\ z2.chunks = x.it.chunks /\ z2.ended = x.it.ended
        /\ z2.waiting = FALSE
    BY <1>4, <1>5, <1>7 DEF Iterators
  <1>10. x2 \in Worlds /\ x2.r = x.r /\ x2.w = x.w /\ x2.it = z2 /\ x2.web = x.web
    BY <1>0, <1>5, <1>8, <1>9, WorldMade
  <1>11. y = [x2 EXCEPT !.it.outcome = e]
    BY <1>1, <1>6, Zenon DEF FailsWith
  <1>12. PICK z3 : z3 = [x2.it EXCEPT !.outcome = e]
    BY Zenon
  <1>13. y = [r |-> x2.r, w |-> x2.w, it |-> z3, web |-> x2.web]
    BY <1>10, <1>11, <1>12, IteratorSet, Zenon
  <1>14. z3 \in Iterators /\ z3.got = x.it.got /\ z3.chunks = x.it.chunks /\ z3.ended = x.it.ended
         /\ z3.waiting = FALSE /\ z3.outcome = e
    BY <1>9, <1>10, <1>12 DEF Iterators
  <1>15. y = [r |-> x.r, w |-> x.w, it |-> z3, web |-> x.web]
    BY <1>10, <1>13, Zenon
  <1>16. y \in Worlds
    BY <1>0, <1>14, <1>15, WorldMade
  <1>17. y.r = x.r /\ y.w = x.w /\ y.it = z3 /\ y.web = x.web
    BY <1>15
  <1> QED
    BY <1>14, <1>16, <1>17 DEF Failed

LEMMA Destroys ==
    ASSUME shape \in NodeShape, NEW x, WorldOK(x), NEW err \in BOOLEAN
    PROVE  Dropped(x, destroy(x, err))
  <1>0. x \in Worlds /\ Good(x.web) /\ ConsumerOK(x, x.r.buf)
    BY WorldFields DEF WorldOK
  <1>1. PICK t : t = Bufferless(x)
    BY Zenon
  <1>4. destroy(x, err) = IF err THEN emitError(t) ELSE t
    <2>1. destroy(x, err) = IF err THEN emitError(Bufferless(x)) ELSE Bufferless(x)
      BY DEF destroy, Bufferless
    <2> QED
      BY <1>1, <2>1
  <1>2. /\ t \in Worlds /\ t.w = x.w /\ t.it = x.it /\ t.web = x.web /\ t.r.buf = <<>>
        /\ t.r.accepted = Rest(x) /\ t.r.closed = x.r.closed /\ t.r.ended = x.r.ended
    BY <1>1, DropsBuffer
  <1>3. t.r \in NodeReadables /\ t.w \in NodeWritables /\ t.it \in Iterators /\ Good(t.web)
    BY <1>2, WorldFields
  <1>6. Dropped(x, t)
    <2>1. Kept(x.web.reads, x.web.reads)
      BY DEF Kept
    <2> QED
      BY <1>2, <2>1 DEF Dropped
  <1>7. ASSUME shape = "nodeIterate" PROVE Dropped(x, emitError(t))
    <2>1. PICK e : e = IF t.it.waiting THEN "failed" ELSE t.it.outcome
      BY Zenon
    <2>2. PICK y : y = emitError(t)
      BY Zenon
    <2>3. y = [t EXCEPT !.it.errored = TRUE, !.it.waiting = FALSE,
                        !.it.outcome = IF t.it.waiting THEN "failed" ELSE @]
      BY <1>7, <2>2 DEF emitError
    <2>4. y = FailsWith(t, e)
      <3>1. [[t EXCEPT !.it.errored = TRUE] EXCEPT !.it.waiting = FALSE].it.outcome = t.it.outcome
        BY <1>2, <1>3 DEF Worlds, Iterators
      <3> QED
        BY <2>1, <2>3, <3>1, Zenon DEF FailsWith
    <2>5. e \in {"open", "complete", "failed"} /\ (e = x.it.outcome \/ (x.it.outcome = "open" /\ e = "failed"))
      BY <1>0, <1>2, <1>7, <2>1, LengthsTyped DEF ConsumerOK, IteratorOK
    <2>6. /\ y \in Worlds /\ y.r = t.r
          /\ y.it.got = t.it.got /\ y.it.chunks = t.it.chunks /\ y.it.ended = t.it.ended
          /\ y.it.outcome = e /\ y.it.waiting = FALSE
      <3>1. t \in Worlds /\ e \in {"open", "complete", "failed"}
        BY <1>2, <2>5
      <3>2. Failed(t, e, y)
        BY <2>4, <3>1, IteratorFails, Zenon
      <3> QED
        BY <3>2 DEF Failed
    <2>7. Dropped(x, y)
      BY <1>2, <1>7, <2>5, <2>6 DEF Dropped
    <2> QED
      BY <2>2, <2>7
  <1>8. ASSUME shape = "toWeb" PROVE Dropped(x, emitError(t))
    <2> DEFINE v == errorReadable(t.web)
    <2>1. emitError(t) = [r |-> t.r, w |-> t.w, it |-> t.it, web |-> v]
      BY <1>2, <1>8 DEF emitError, Worlds
    <2>2. /\ Good(v) /\ v.state = (IF x.web.state = "readable" THEN "errored" ELSE x.web.state)
          /\ v.accepted = x.web.accepted /\ v.closeRequested = x.web.closeRequested
          /\ v.cancelled = x.web.cancelled /\ Kept(x.web.reads, v.reads) /\ Len(v.reads) = Len(x.web.reads)
      BY <1>0, <1>2, ErrorGood
    <2> HIDE DEF v
    <2>3. PICK y : y = emitError(t)
      BY Zenon
    <2>4. y \in Worlds /\ y.r = t.r /\ y.web = v
      BY <1>3, <2>1, <2>2, <2>3, WorldMade
    <2>5. Dropped(x, y)
      BY <1>2, <1>8, <2>2, <2>4 DEF Dropped
    <2> QED
      BY <2>3, <2>5
  <1>9. ASSUME shape = "nodePipe" PROVE Dropped(x, emitError(t))
    <2>1. emitError(t) = t
      BY <1>9 DEF emitError
    <2> QED
      BY <1>6, <2>1
  <1> QED
    BY <1>4, <1>6, <1>7, <1>8, <1>9 DEF NodeShape

(* The web stream is cancelled.                                             *)
LEMMA CancelPipes ==
    ASSUME shape = "toWeb", NEW x, WorldOK(x), x.web.state # "errored", NEW y,
           y = [x EXCEPT !.web = cancelReadable(@)]
    PROVE  /\ WorldOK(y) /\ Outward(x, y) /\ y.r = x.r
           /\ Good(y.web) /\ y.web.state = "closed" /\ y.web.cancelled
           /\ y.web.accepted = x.web.accepted /\ y.web.closeRequested = x.web.closeRequested
           /\ Kept(x.web.reads, y.web.reads) /\ Len(y.web.reads) = Len(x.web.reads)
  <1> DEFINE v == cancelReadable(x.web)
  <1>0. /\ x \in Worlds /\ x.r \in NodeReadables /\ x.w \in NodeWritables /\ x.it \in Iterators /\ Good(x.web)
        /\ x = [r |-> x.r, w |-> x.w, it |-> x.it, web |-> x.web] /\ shape \in NodeShape
        /\ FlowOK(x.r) /\ ConsumerOK(x, x.r.buf)
    BY WorldFields DEF WorldOK, NodeShape
  <1>1. y = [r |-> x.r, w |-> x.w, it |-> x.it, web |-> v]
    BY <1>0 DEF Worlds
  <1>2. /\ Good(v) /\ v.state = "closed" /\ v.cancelled
        /\ v.accepted = x.web.accepted /\ v.closeRequested = x.web.closeRequested
        /\ Kept(x.web.reads, v.reads) /\ Len(v.reads) = Len(x.web.reads)
    BY <1>0, CancelGood
  <1> HIDE DEF v
  <1>3. y \in Worlds /\ y.r = x.r /\ y.web = v
    BY <1>0, <1>1, <1>2, WorldMade
  <1>4. ToWebOK(x.r.closed, x.r.buf, x.r.accepted, v)
    BY <1>0, <1>2 DEF ConsumerOK, ToWebOK, Ended
  <1>5. WorldOK(y)
    BY <1>0, <1>3, <1>4 DEF WorldOK, ConsumerOK
  <1> DEFINE a == SentBy(x)  b == GotBy(x)  o == ToldBy(x)  a2 == SentBy(y)  b2 == GotBy(y)  o2 == ToldBy(y)
  <1>6. /\ a \in Seq(Nat) /\ b \in Seq(Nat) /\ a2 \in Seq(Nat) /\ b = SubSeq(a, 1, Len(b)) /\ Len(b) \in 0 .. Len(a)
        /\ o \in {"open", "complete", "failed"} /\ o2 \in {"open", "complete", "failed"}
        /\ (o = "complete" => b = a)
    BY <1>0, <1>5, WorldFacts
  <1>7. b2 = b /\ a2 = b /\ (o # "open" => o2 = o)
    <2>1. Chunks(v) = Chunks(x.web)
      BY <1>0, <1>2, ReaderCancels
    <2>2. b = Chunks(x.web) /\ b2 = Chunks(v) /\ a2 = Chunks(v) /\ o = WasTold(x.web) /\ o2 = WasTold(v)
      BY <1>2, <1>3 DEF GotBy, SentBy, ToldBy
    <2>3. WasTold(x.web) # "open" => WasTold(v) = WasTold(x.web)
      <3>1. Len(x.web.reads) <= Len(v.reads)
        BY <1>0, <1>2, GoodTypes
      <3> QED
        BY <1>0, <1>2, <3>1, ToldStays
    <2> QED
      BY <2>1, <2>2, <2>3
  <1> HIDE DEF a, b, o, a2, b2, o2
  <1>8. CutTo(a, b, o, a2, o2, Len(b))
    <2>1. Len(b) <= Len(b)
      BY <1>6
    <2> QED
      BY <1>6, <1>7, <2>1 DEF CutTo
  <1>9. Piped(a, b, o, a2, b, o2)
    BY <1>8, Drops, Zenon
  <1>10. Outward(x, y)
    BY <1>7, <1>9 DEF Outward, a, b, o, a2, b2, o2
  <1> QED
    BY <1>2, <1>3, <1>5, <1>10

LEMMA CancelDestroys ==
    ASSUME shape = "toWeb", NEW x, WorldOK(x), x.web.state # "errored", NEW s,
           s = [x EXCEPT !.web = cancelReadable(@)]
    PROVE  WorldOK(destroy(s, TRUE)) /\ Outward(x, destroy(s, TRUE))
  <1>1. /\ WorldOK(s) /\ s.r = x.r /\ s.web.state = "closed" /\ s.web.cancelled
        /\ s.web.accepted = x.web.accepted /\ s.web.closeRequested = x.web.closeRequested
        /\ Kept(x.web.reads, s.web.reads) /\ Len(s.web.reads) = Len(x.web.reads)
    BY CancelPipes
  <1>2. shape \in NodeShape /\ TRUE \in BOOLEAN
    BY DEF NodeShape
  <1>3. PICK y : y = destroy(s, TRUE)
    BY Zenon
  <1>4. Dropped(s, y)
    BY <1>1, <1>2, <1>3, Destroys
  <1>5. Rest(s) = Rest(x)
    BY <1>1 DEF Rest
  <1>6. Kept(x.web.reads, y.web.reads)
    <2>1. Kept(s.web.reads, y.web.reads) /\ \A i \in 1 .. Len(x.web.reads) : i \in 1 .. Len(s.web.reads)
      BY <1>1, <1>4 DEF Dropped
    <2> QED
      BY <1>1, <2>1 DEF Kept
  <1>7. Dropped(x, y)
    BY <1>1, <1>4, <1>5, <1>6 DEF Dropped
  <1>8. WorldOK(y) /\ Outward(x, y)
    BY <1>2, <1>7, DroppedPipes
  <1> QED
    BY <1>3, <1>8

-----------------------------------------------------------------------------
(* The script and the callbacks.                                            *)
LEMMA ConsumerSet ==
    \A x \in Worlds : \A e :
        /\ [x EXCEPT !.w = e] = [r |-> x.r, w |-> e, it |-> x.it, web |-> x.web]
        /\ [x EXCEPT !.it = e] = [r |-> x.r, w |-> x.w, it |-> e, web |-> x.web]
        /\ [x EXCEPT !.web = e] = [r |-> x.r, w |-> x.w, it |-> x.it, web |-> e]
        /\ [x EXCEPT !.w.destroyed = e] = [r |-> x.r, w |-> [x.w EXCEPT !.destroyed = e], it |-> x.it, web |-> x.web]
        /\ [x EXCEPT !.w.queue = e] = [r |-> x.r, w |-> [x.w EXCEPT !.queue = e], it |-> x.it, web |-> x.web]
        /\ [x EXCEPT !.w.kept = e] = [r |-> x.r, w |-> [x.w EXCEPT !.kept = e], it |-> x.it, web |-> x.web]
        /\ [x EXCEPT !.w.writing = e] = [r |-> x.r, w |-> [x.w EXCEPT !.writing = e], it |-> x.it, web |-> x.web]
        /\ [x EXCEPT !.w.acked = e] = [r |-> x.r, w |-> [x.w EXCEPT !.acked = e], it |-> x.it, web |-> x.web]
  BY DEF Worlds

LEMMA WritableMade ==
    ASSUME NEW x \in Worlds, NEW w \in NodeWritables, NEW y, y = [r |-> x.r, w |-> w, it |-> x.it, web |-> x.web]
    PROVE  y \in Worlds /\ y.r = x.r /\ y.w = w /\ y.it = x.it /\ y.web = x.web
  <1>1. x.r \in NodeReadables /\ x.it \in Iterators /\ Good(x.web)
    BY WorldFields
  <1>2. y \in Worlds
    BY <1>1, WorldMade
  <1> QED
    BY <1>2

Paused(x) == [x EXCEPT !.r.flowing = FALSE]

LEMMA Pauses ==
    ASSUME shape \in NodeShape, NEW x, WorldOK(x), NEW y, y = Paused(x)
    PROVE  WorldOK(y) /\ Outward(x, y)
  <1>0. /\ x \in Worlds /\ x.r \in NodeReadables /\ x.w \in NodeWritables /\ x.it \in Iterators /\ Good(x.web)
        /\ FlowOK(x.r) /\ ConsumerOK(x, x.r.buf) /\ Onward(x, x)
    BY WorldFields, OnwardSelf DEF WorldOK
  <1>1. PICK q : q = [x.r EXCEPT !.flowing = FALSE]
    BY Zenon
  <1>2. y = [r |-> q, w |-> x.w, it |-> x.it, web |-> x.web]
    BY <1>0, <1>1, ReadableSet, Zenon DEF Paused
  <1>3. OnlyFlow(x.r, q) /\ q.flowing = FALSE
    BY <1>0, <1>1, FlowSet
  <1>4. q \in NodeReadables
    BY <1>3 DEF OnlyFlow
  <1>5. y \in Worlds
    BY <1>0, <1>2, <1>4, WorldMade
  <1>6. y.r = q /\ y.w = x.w /\ y.it = x.it /\ y.web = x.web
    BY <1>2
  <1>7. FlowOK(y.r) /\ ConsumerOK(y, y.r.buf)
    BY <1>0, <1>3, <1>6 DEF FlowOK, ConsumerOK, OnlyFlow
  <1>8. Onward(x, y)
    BY <1>0, <1>3, <1>6 DEF Onward, OnlyFlow
  <1>9. WorldOK(y)
    BY <1>5, <1>7 DEF WorldOK
  <1> QED
    BY <1>8, <1>9, OnwardPipes

(* The Writable is destroyed.                                               *)
Queueless(x) == [x EXCEPT !.w.destroyed = TRUE, !.w.queue = <<>>, !.w.kept = x.w.given]

LEMMA DropsQueue ==
    ASSUME NEW x \in Worlds, NEW y, y = Queueless(x)
    PROVE  /\ y \in Worlds /\ y.r = x.r /\ y.it = x.it /\ y.web = x.web
           /\ y.w.destroyed = TRUE /\ y.w.queue = <<>> /\ y.w.kept = x.w.given /\ y.w.ended = x.w.ended
  <1>0. x.w \in NodeWritables /\ <<>> \in Seq(Nat) /\ x.w.given \in Seq(Nat)
    BY WorldFields, LengthsTyped, EmptySeq
  <1>1. PICK x1 : x1 = [x EXCEPT !.w.destroyed = TRUE]
    BY Zenon
  <1>2. PICK w1 : w1 = [x.w EXCEPT !.destroyed = TRUE]
    BY Zenon
  <1>3. x1 = [r |-> x.r, w |-> w1, it |-> x.it, web |-> x.web]
    BY <1>1, <1>2, ConsumerSet, Zenon
  <1>4. w1 \in NodeWritables /\ w1.destroyed = TRUE /\ w1.ended = x.w.ended
    BY <1>0, <1>2 DEF NodeWritables
  <1>5. x1 \in Worlds /\ x1.r = x.r /\ x1.w = w1 /\ x1.it = x.it /\ x1.web = x.web
    BY <1>3, <1>4, WritableMade
  <1>6. PICK x2 : x2 = [x1 EXCEPT !.w.queue = <<>>]
    BY Zenon
  <1>7. PICK w2 : w2 = [x1.w EXCEPT !.queue = <<>>]
    BY Zenon
  <1>8. x2 = [r |-> x1.r, w |-> w2, it |-> x1.it, web |-> x1.web]
    BY <1>5, <1>6, <1>7, ConsumerSet, Zenon
  <1>9. w2 \in NodeWritables /\ w2.destroyed = TRUE /\ w2.ended = x.w.ended /\ w2.queue = <<>>
    BY <1>0, <1>4, <1>5, <1>7 DEF NodeWritables
  <1>10. x2 \in Worlds /\ x2.r = x1.r /\ x2.w = w2 /\ x2.it = x1.it /\ x2.web = x1.web
    BY <1>5, <1>8, <1>9, WritableMade
  <1>11. y = [x2 EXCEPT !.w.kept = x.w.given]
    BY <1>1, <1>6, Zenon DEF Queueless
  <1>12. PICK w3 : w3 = [x2.w EXCEPT !.kept = x.w.given]
    BY Zenon
  <1>13. y = [r |-> x2.r, w |-> w3, it |-> x2.it, web |-> x2.web]
    BY <1>10, <1>11, <1>12, ConsumerSet, Zenon
  <1>14. w3 \in NodeWritables /\ w3.destroyed = TRUE /\ w3.ended = x.w.ended /\ w3.queue = <<>> /\ w3.kept = x.w.given
    BY <1>0, <1>9, <1>10, <1>12 DEF NodeWritables
  <1>15. y \in Worlds /\ y.r = x2.r /\ y.w = w3 /\ y.it = x2.it /\ y.web = x2.web
    BY <1>10, <1>13, <1>14, WritableMade
  <1> QED
    BY <1>5, <1>10, <1>14, <1>15

LEMMA WritableDestroyed ==
    ASSUME shape = "nodePipe", NEW x, WorldOK(x), ~x.w.destroyed, ~x.w.finished, NEW y, y = Queueless(x)
    PROVE  WorldOK(y) /\ Outward(x, y)
  <1>0. /\ x \in Worlds /\ FlowOK(x.r) /\ PipeOK(x.r.closed, x.r.buf, x.r.accepted, x.w)
        /\ x.w.given \in Seq(Nat) /\ x.w.queue \in Seq(Nat) /\ x.r.buf \in Seq(Nat) /\ x.r.accepted \in Seq(Nat)
    BY WorldFields, LengthsTyped DEF WorldOK, ConsumerOK
  <1>1. /\ y \in Worlds /\ y.r = x.r /\ y.it = x.it /\ y.web = x.web
        /\ y.w.destroyed = TRUE /\ y.w.queue = <<>> /\ y.w.kept = x.w.given /\ y.w.ended = x.w.ended
    BY <1>0, DropsQueue
  <1>2. StartOf(x.w.given, x.r.buf, x.r.accepted)
    <2>1. AllOf(x.w.given \o x.w.queue, x.r.buf, x.r.accepted)
      BY <1>0 DEF PipeOK
    <2> QED
      BY <1>0, <2>1, HalfStarts
  <1>3. PipeOK(y.r.closed, y.r.buf, y.r.accepted, y.w)
    BY <1>0, <1>1, <1>2 DEF PipeOK
  <1>4. WorldOK(y)
    BY <1>0, <1>1, <1>3 DEF WorldOK, ConsumerOK
  <1>5. /\ SentBy(y) = SentBy(x) /\ GotBy(y) = GotBy(x) /\ ToldBy(x) = "open" /\ ToldBy(y) = "failed"
    BY <1>1 DEF SentBy, GotBy, ToldBy
  <1>6. Outward(x, y)
    BY <1>5 DEF Outward, Piped
  <1> QED
    BY <1>4, <1>6

(* _write calls back: the next item, or the Readable goes on and then       *)
(* perhaps the stream finishes.                                             *)
LEMMA AckTyped ==
    ASSUME NEW w \in NodeWritables, NEW n \in Nat, NEW v, v = [w EXCEPT !.acked = n]
    PROVE  /\ v \in NodeWritables /\ v.queue = w.queue /\ v.writing = w.writing /\ v.ended = w.ended
           /\ v.finished = w.finished /\ v.destroyed = w.destroyed /\ v.given = w.given /\ v.kept = w.kept
  BY DEF NodeWritables

LEMMA WritingTyped ==
    ASSUME NEW w \in NodeWritables, NEW v, v = [w EXCEPT !.writing = FALSE]
    PROVE  /\ v \in NodeWritables /\ v.queue = w.queue /\ v.writing = FALSE /\ v.ended = w.ended
           /\ v.finished = w.finished /\ v.destroyed = w.destroyed /\ v.given = w.given /\ v.kept = w.kept
  BY DEF NodeWritables

LEMMA FinishTyped ==
    ASSUME NEW w \in NodeWritables
    PROVE  LET v == _finish(w) IN
           /\ v \in NodeWritables /\ v.queue = w.queue /\ v.writing = w.writing /\ v.ended = w.ended
           /\ v.finished = TRUE /\ v.destroyed = w.destroyed /\ v.given = w.given /\ v.kept = w.kept
  BY DEF NodeWritables, _finish

LEMMA NextTyped ==
    ASSUME NEW w \in NodeWritables, w.queue # <<>>
    PROVE  LET v == NextItem(w) IN
           /\ v \in NodeWritables /\ v.writing = TRUE /\ v.ended = w.ended
           /\ v.finished = w.finished /\ v.destroyed = w.destroyed /\ v.kept = w.kept
           /\ v.given \o v.queue = w.given \o w.queue /\ Len(v.given) = Len(w.given) + 1
  <1> DEFINE more == Append(w.given, Head(w.queue))  rest == Tail(w.queue)
  <1>1. w.queue \in Seq(Nat) /\ w.given \in Seq(Nat)
    BY DEF NodeWritables
  <1>2. Head(w.queue) \in Nat /\ rest \in Seq(Nat)
    BY <1>1, Headed
  <1>3. more \in Seq(Nat) /\ Len(more) = Len(w.given) + 1
    BY <1>1, <1>2
  <1>4. more \o rest = w.given \o w.queue
    BY <1>1, HeadMoves, Zenon
  <1>5. NextItem(w) = [w EXCEPT !.writing = TRUE, !.queue = rest, !.given = more]
    BY DEF NextItem, NodeWritables
  <1> HIDE DEF more, rest
  <1> QED
    BY <1>2, <1>3, <1>4, <1>5 DEF NodeWritables

(* The Writable changes, its chunks as before.                              *)
LEMMA WritableMoves ==
    ASSUME shape = "nodePipe", NEW x, WorldOK(x), NEW w \in NodeWritables,
           NEW y, y = [r |-> x.r, w |-> w, it |-> x.it, web |-> x.web],
           w.ended = x.w.ended, w.destroyed = x.w.destroyed, w.kept = x.w.kept,
           w.given \o w.queue = x.w.given \o x.w.queue, Len(x.w.given) <= Len(w.given), x.w.finished => w.finished,
           syncSink \/ ~w.writing => w.queue = <<>>, w.finished /\ ~w.destroyed => w.ended /\ w.queue = <<>>
    PROVE  WorldOK(y) /\ Onward(x, y)
  <1>0. /\ x \in Worlds /\ FlowOK(x.r) /\ PipeOK(x.r.closed, x.r.buf, x.r.accepted, x.w)
    BY DEF WorldOK, ConsumerOK
  <1>1. y \in Worlds /\ y.r = x.r /\ y.w = w /\ y.it = x.it /\ y.web = x.web
    BY <1>0, WritableMade
  <1>2. PipeOK(x.r.closed, x.r.buf, x.r.accepted, w)
    BY <1>0 DEF PipeOK
  <1>3. WorldOK(y)
    BY <1>0, <1>1, <1>2 DEF WorldOK, ConsumerOK
  <1>4. Onward(x, y)
    BY <1>1 DEF Onward
  <1> QED
    BY <1>3, <1>4

LEMMA WriteReturns ==
    ASSUME shape = "nodePipe", ~syncSink, NEW x, WorldOK(x)
    PROVE  WorldOK(writeDone(x)) /\ Outward(x, writeDone(x))
  <1>0. /\ x \in Worlds /\ x.w \in NodeWritables /\ PipeOK(x.r.closed, x.r.buf, x.r.accepted, x.w)
        /\ x.w.acked + 1 \in Nat /\ Len(x.w.given) <= Len(x.w.given) /\ shape \in NodeShape
        /\ x.w.destroyed \in BOOLEAN /\ x.w.finished \in BOOLEAN
    <2>1. x \in Worlds /\ x.w \in NodeWritables /\ PipeOK(x.r.closed, x.r.buf, x.r.accepted, x.w)
      BY WorldFields DEF WorldOK, ConsumerOK
    <2>2. x.w.acked \in Nat /\ Len(x.w.given) \in Nat
      BY <2>1, LengthsTyped DEF NodeWritables
    <2> QED
      BY <2>1, <2>2, LengthsTyped DEF NodeShape
  <1>1. PICK a : a = [x EXCEPT !.w.acked = @ + 1]
    BY Zenon
  <1>2. PICK w1 : w1 = [x.w EXCEPT !.acked = x.w.acked + 1]
    BY Zenon
  <1>3. a = [r |-> x.r, w |-> w1, it |-> x.it, web |-> x.web]
    BY <1>0, <1>1, <1>2, ConsumerSet, Zenon
  <1>4. /\ w1 \in NodeWritables /\ w1.queue = x.w.queue /\ w1.writing = x.w.writing /\ w1.ended = x.w.ended
        /\ w1.finished = x.w.finished /\ w1.destroyed = x.w.destroyed /\ w1.given = x.w.given /\ w1.kept = x.w.kept
    BY <1>0, <1>2, AckTyped
  <1>5. WorldOK(a) /\ Onward(x, a)
    BY <1>0, <1>3, <1>4, WritableMoves DEF PipeOK
  <1>6. a \in Worlds /\ a.w = w1 /\ PipeOK(a.r.closed, a.r.buf, a.r.accepted, a.w) /\ Len(a.w.given) \in Nat
    BY <1>3, <1>5, LengthsTyped DEF WorldOK, ConsumerOK
  <1>7. CASE a.w.queue # <<>>
    <2>1. PICK y : y = [a EXCEPT !.w = NextItem(@)]
      BY Zenon
    <2>2. writeDone(x) = y
      BY <1>1, <1>7, <2>1 DEF writeDone
    <2>3. PICK v : v = NextItem(a.w)
      BY Zenon
    <2>4. y = [r |-> a.r, w |-> v, it |-> a.it, web |-> a.web]
      BY <1>6, <2>1, <2>3, ConsumerSet, Zenon
    <2>5. /\ v \in NodeWritables /\ v.writing = TRUE /\ v.ended = a.w.ended
          /\ v.finished = a.w.finished /\ v.destroyed = a.w.destroyed /\ v.kept = a.w.kept
          /\ v.given \o v.queue = a.w.given \o a.w.queue /\ Len(v.given) = Len(a.w.given) + 1
      BY <1>4, <1>6, <1>7, <2>3, NextTyped
    <2>6. Len(a.w.given) <= Len(v.given) /\ (v.finished => v.destroyed)
      BY <1>6, <1>7, <2>5 DEF PipeOK
    <2>7. WorldOK(y) /\ Onward(a, y)
      BY <1>5, <2>4, <2>5, <2>6, WritableMoves
    <2>8. Onward(x, y)
      BY <1>0, <1>5, <1>6, <2>7, OnwardOn DEF WorldOK
    <2> QED
      BY <1>0, <2>2, <2>7, <2>8, OnwardPipes
  <1>8. CASE a.w.queue = <<>>
    <2>1. PICK c : c = [a EXCEPT !.w.writing = FALSE]
      BY Zenon
    <2>2. PICK w2 : w2 = [a.w EXCEPT !.writing = FALSE]
      BY Zenon
    <2>3. c = [r |-> a.r, w |-> w2, it |-> a.it, web |-> a.web]
      BY <1>6, <2>1, <2>2, ConsumerSet, Zenon
    <2>4. /\ w2 \in NodeWritables /\ w2.queue = a.w.queue /\ w2.writing = FALSE /\ w2.ended = a.w.ended
          /\ w2.finished = a.w.finished /\ w2.destroyed = a.w.destroyed /\ w2.given = a.w.given /\ w2.kept = a.w.kept
      BY <1>4, <1>6, <2>2, WritingTyped
    <2>5. WorldOK(c) /\ Onward(a, c)
      <3>1. /\ Len(a.w.given) <= Len(w2.given) /\ w2.given \o w2.queue = a.w.given \o a.w.queue
            /\ w2.queue = <<>> /\ (w2.finished /\ ~w2.destroyed => w2.ended)
        BY <1>6, <1>8, <2>4 DEF PipeOK
      <3> QED
        BY <1>5, <2>3, <2>4, <3>1, WritableMoves
    <2>6. PICK b : b = resume(c)
      BY Zenon
    <2>7. WorldOK(b) /\ Onward(c, b)
      BY <1>0, <2>5, <2>6, Resumes
    <2>8. Onward(x, b)
      <3>1. Onward(a, b)
        BY <1>6, <2>5, <2>7, OnwardOn DEF WorldOK
      <3> QED
        BY <1>0, <1>5, <1>6, <2>7, <3>1, OnwardOn DEF WorldOK
    <2>9. writeDone(x) = IF b.w.ended /\ b.w.queue = <<>> THEN [b EXCEPT !.w = _finish(@)] ELSE b
      <3>1. writeDone(x) = IF a.w.queue # <<>> THEN [a EXCEPT !.w = NextItem(@)]
                           ELSE LET z == resume([a EXCEPT !.w.writing = FALSE])
                                IN IF z.w.ended /\ z.w.queue = <<>> THEN [z EXCEPT !.w = _finish(@)] ELSE z
        BY <1>1 DEF writeDone
      <3>2. b = resume([a EXCEPT !.w.writing = FALSE])
        BY <2>1, <2>6
      <3> QED
        BY <1>8, <3>1, <3>2, Zenon
    <2>10. CASE b.w.ended /\ b.w.queue = <<>>
      <3>0. b \in Worlds /\ b.w \in NodeWritables /\ Len(b.w.given) \in Nat
        BY <2>7, WorldFields, LengthsTyped DEF WorldOK
      <3>1. PICK y : y = [b EXCEPT !.w = _finish(@)]
        BY Zenon
      <3>2. PICK v : v = _finish(b.w)
        BY Zenon
      <3>3. y = [r |-> b.r, w |-> v, it |-> b.it, web |-> b.web]
        BY <3>0, <3>1, <3>2, ConsumerSet, Zenon
      <3>4. /\ v \in NodeWritables /\ v.queue = b.w.queue /\ v.writing = b.w.writing /\ v.ended = b.w.ended
            /\ v.finished = TRUE /\ v.destroyed = b.w.destroyed /\ v.given = b.w.given /\ v.kept = b.w.kept
        BY <3>0, <3>2, FinishTyped
      <3>5. Len(b.w.given) <= Len(v.given)
        BY <3>0, <3>4
      <3>6. WorldOK(y) /\ Onward(b, y)
        BY <2>7, <2>10, <3>3, <3>4, <3>5, WritableMoves
      <3>7. Onward(x, y)
        BY <1>0, <2>7, <2>8, <3>6, OnwardOn DEF WorldOK
      <3> QED
        BY <1>0, <2>9, <2>10, <3>1, <3>6, <3>7, OnwardPipes
    <2>11. CASE ~(b.w.ended /\ b.w.queue = <<>>)
      BY <1>0, <2>7, <2>8, <2>9, <2>11, OnwardPipes
    <2> QED
      BY <2>10, <2>11
  <1> QED
    BY <1>7, <1>8

(* The async iterator takes the next chunk, is told, or waits.              *)
LEMMA IteratorTyped ==
    ASSUME NEW it \in Iterators, NEW o \in {"open", "complete", "failed"}
    PROVE  /\ LET z == [it EXCEPT !.outcome = o] IN
              /\ z \in Iterators /\ z.outcome = o /\ z.chunks = it.chunks /\ z.got = it.got
              /\ z.ended = it.ended /\ z.errored = it.errored /\ z.waiting = it.waiting
           /\ LET z == [it EXCEPT !.waiting = TRUE] IN
              /\ z \in Iterators /\ z.outcome = it.outcome /\ z.chunks = it.chunks /\ z.got = it.got
              /\ z.ended = it.ended /\ z.errored = it.errored /\ z.waiting = TRUE
  BY DEF Iterators

LEMMA IteratorGoesOn ==
    ASSUME shape = "nodeIterate", NEW x, WorldOK(x), x.it.outcome = "open", ~x.it.waiting,
           NEW y, y = [r |-> x.r, w |-> x.w, it |-> NextOf(x.it), web |-> x.web]
    PROVE  WorldOK(y) /\ Outward(x, y)
  <1> DEFINE it == x.it
  <1>0. /\ x \in Worlds /\ x.r \in NodeReadables /\ x.w \in NodeWritables /\ it \in Iterators /\ Good(x.web)
        /\ FlowOK(x.r) /\ IteratorOK(x.r.closed, x.r.buf, x.r.accepted, it) /\ shape \in NodeShape
        /\ it.chunks \in Seq(Nat) /\ it.got \in Seq(Nat) /\ Len(it.got) \in Nat
    BY WorldFields, LengthsTyped DEF WorldOK, ConsumerOK, NodeShape
  <1>1. PICK z : z = NextOf(it)
    BY Zenon
  <1>2. ASSUME z \in Iterators, IteratorOK(x.r.closed, x.r.buf, x.r.accepted, z)
        PROVE  WorldOK(y) /\ y.r = x.r /\ y.it = z
    <2>1. y = [r |-> x.r, w |-> x.w, it |-> z, web |-> x.web]
      BY <1>1
    <2>2. y \in Worlds
      BY <1>0, <1>2, <2>1, WorldMade
    <2>3. y.r = x.r /\ y.it = z
      BY <2>1
    <2> QED
      BY <1>0, <1>2, <2>2, <2>3 DEF WorldOK, ConsumerOK
  <1>3. CASE it.errored
    <2>1. /\ z \in Iterators /\ z.outcome = "failed" /\ z.chunks = it.chunks /\ z.got = it.got
          /\ z.ended = it.ended /\ z.errored = it.errored /\ z.waiting = it.waiting
      BY <1>0, <1>1, <1>3, IteratorTyped DEF NextOf
    <2>2. IteratorOK(x.r.closed, x.r.buf, x.r.accepted, z)
      BY <1>0, <2>1 DEF IteratorOK
    <2>3. WorldOK(y) /\ y.r = x.r /\ y.it = z
      BY <1>2, <2>1, <2>2
    <2>4. SentBy(y) = SentBy(x) /\ GotBy(y) = GotBy(x) /\ ToldBy(x) = "open" /\ ToldBy(y) = "failed"
      BY <2>1, <2>3 DEF SentBy, GotBy, ToldBy
    <2> QED
      BY <2>3, <2>4 DEF Outward, Piped
  <1>4. CASE ~it.errored /\ it.chunks # <<>>
    <2> DEFINE rest == Tail(it.chunks)  more == Append(it.got, Head(it.chunks))
    <2>1. rest \in Seq(Nat) /\ Head(it.chunks) \in Nat
      BY <1>0, <1>4, Headed
    <2>2. more \in Seq(Nat) /\ Len(more) = Len(it.got) + 1
      BY <1>0, <2>1
    <2>3. more \o rest = it.got \o it.chunks
      BY <1>0, <1>4, HeadMoves, Zenon
    <2>4. z = [it EXCEPT !.chunks = rest, !.got = more]
      BY <1>1, <1>4 DEF NextOf
    <2> HIDE DEF rest, more
    <2>5. /\ z \in Iterators /\ z.outcome = it.outcome /\ z.chunks = rest /\ z.got = more
          /\ z.ended = it.ended /\ z.errored = it.errored /\ z.waiting = it.waiting
      <3>1. it \in Iterators /\ more \in Seq(Nat) /\ rest \in Seq(Nat)
        BY <1>0, <2>1, <2>2
      <3> HIDE DEF it
      <3> QED
        BY <2>4, <3>1 DEF Iterators
    <2>6. IteratorOK(x.r.closed, x.r.buf, x.r.accepted, z)
      BY <1>0, <2>3, <2>5 DEF IteratorOK
    <2>7. WorldOK(y) /\ y.r = x.r /\ y.it = z
      BY <1>2, <2>5, <2>6
    <2>8. Onward(x, y)
      BY <1>0, <2>2, <2>5, <2>7 DEF Onward
    <2> QED
      BY <1>0, <2>7, <2>8, OnwardPipes
  <1>5. CASE ~it.errored /\ it.chunks = <<>> /\ it.ended
    <2>1. /\ z \in Iterators /\ z.outcome = "complete" /\ z.chunks = it.chunks /\ z.got = it.got
          /\ z.ended = it.ended /\ z.errored = it.errored /\ z.waiting = it.waiting
      BY <1>0, <1>1, <1>5, IteratorTyped DEF NextOf
    <2>2. IteratorOK(x.r.closed, x.r.buf, x.r.accepted, z)
      BY <1>0, <1>5, <2>1 DEF IteratorOK
    <2>3. WorldOK(y) /\ y.r = x.r /\ y.it = z
      BY <1>2, <2>1, <2>2
    <2>4. Onward(x, y)
      BY <1>0, <2>1, <2>3 DEF Onward
    <2> QED
      BY <1>0, <2>3, <2>4, OnwardPipes
  <1>6. CASE ~it.errored /\ it.chunks = <<>> /\ ~it.ended
    <2>1. /\ z \in Iterators /\ z.outcome = it.outcome /\ z.chunks = it.chunks /\ z.got = it.got
          /\ z.ended = it.ended /\ z.errored = it.errored /\ z.waiting = TRUE
      BY <1>0, <1>1, <1>6, IteratorTyped DEF NextOf
    <2>2. IteratorOK(x.r.closed, x.r.buf, x.r.accepted, z)
      BY <1>0, <1>6, <2>1 DEF IteratorOK
    <2>3. WorldOK(y) /\ y.r = x.r /\ y.it = z
      BY <1>2, <2>1, <2>2
    <2>4. Onward(x, y)
      BY <1>0, <2>1, <2>3 DEF Onward
    <2> QED
      BY <1>0, <2>3, <2>4, OnwardPipes
  <1> QED
    BY <1>3, <1>4, <1>5, <1>6

(* The reader of the web stream.                                            *)
LEMMA WebReader ==
    ASSUME shape = "toWeb", NEW x, WorldOK(x),
           NEW v, v = read(x.web, FALSE), NEW y, y = [r |-> x.r, w |-> x.w, it |-> x.it, web |-> v]
    PROVE  WorldOK(y) /\ Outward(x, y)
  <1> DEFINE a == SentBy(x)  b == GotBy(x)  o == ToldBy(x)  b2 == GotBy(y)  o2 == ToldBy(y)
  <1>0. /\ x \in Worlds /\ x.r \in NodeReadables /\ x.w \in NodeWritables /\ x.it \in Iterators /\ Good(x.web)
        /\ FlowOK(x.r) /\ ToWebOK(x.r.closed, x.r.buf, x.r.accepted, x.web) /\ shape \in NodeShape
        /\ Len(x.web.reads) \in Nat
    BY WorldFields, LengthsTyped DEF WorldOK, ConsumerOK, NodeShape
  <1>2. /\ Good(v) /\ (v.state = x.web.state \/ (v.state = "closed" /\ x.web.closeRequested))
        /\ v.accepted = x.web.accepted /\ v.closeRequested = x.web.closeRequested
        /\ v.cancelled = x.web.cancelled /\ Kept(x.web.reads, v.reads) /\ Len(v.reads) = Len(x.web.reads) + 1
        /\ (x.web.cancelled => Chunks(v) = Chunks(x.web))
    BY <1>0, ReadGood, ReadServes
  <1>3. Len(x.web.reads) <= Len(v.reads) /\ Len(v.reads) <= Len(x.web.reads) + 1
    <2> DEFINE n == Len(x.web.reads)  m == Len(v.reads)
    <2>1. n \in Nat /\ m = n + 1
      BY <1>0, <1>2
    <2> HIDE DEF n, m
    <2>2. n <= m /\ m <= n + 1
      BY <2>1
    <2> QED
      BY <2>2 DEF n, m
  <1>4. y \in Worlds
    BY <1>0, <1>2, WorldMade
  <1>5. y.r = x.r /\ y.web = v
    OBVIOUS
  <1>6. ToWebOK(x.r.closed, x.r.buf, x.r.accepted, v)
    BY <1>0, <1>2 DEF ToWebOK, Ended
  <1>7. WorldOK(y)
    BY <1>0, <1>4, <1>5, <1>6 DEF WorldOK, ConsumerOK
  <1>8. /\ a \in Seq(Nat) /\ b \in Seq(Nat) /\ b2 \in Seq(Nat) /\ b2 = SubSeq(SentBy(y), 1, Len(b2))
        /\ Len(b2) \in 0 .. Len(SentBy(y)) /\ (o = "complete" => b = a) /\ (o2 = "complete" => b2 = SentBy(y))
        /\ o \in {"open", "complete", "failed"} /\ o2 \in {"open", "complete", "failed"}
    BY <1>0, <1>7, WorldFacts
  <1>9. /\ b = Chunks(x.web) /\ b2 = Chunks(v) /\ o = WasTold(x.web) /\ o2 = WasTold(v)
        /\ Len(x.web.reads) <= Len(v.reads)
    <2>1. b = Chunks(x.web) /\ b2 = Chunks(v) /\ o = WasTold(x.web) /\ o2 = WasTold(v)
      BY <1>5 DEF GotBy, ToldBy
    <2> QED
      BY <1>3, <2>1
  <1>10. SentBy(y) = a
    BY <1>2, <1>5, <1>9 DEF SentBy
  <1>11. Len(b) <= Len(b2)
    BY <1>0, <1>2, <1>9, ReadsGrow
  <1>12. o # "open" => o2 = o
    BY <1>0, <1>2, <1>9, ToldStays
  <1>13. o2 = "failed" => b2 = b
    BY <1>0, <1>2, <1>3, <1>9, FailedReads
  <1>14. Piped(a, b, o, a, b2, o2)
    <2> HIDE DEF a, b, o, b2, o2
    <2>1. CASE o = "open" /\ o2 = "failed"
      BY <1>13, <2>1 DEF Piped
    <2>2. CASE ~(o = "open" /\ o2 = "failed")
      <3>1. o2 = o \/ (o = "open" /\ o2 = "complete")
        BY <1>8, <1>12, <2>2
      <3>2. b2 = SubSeq(a, 1, Len(b2)) /\ Len(b2) \in 0 .. Len(a) /\ (o2 = "complete" => b2 = a)
        BY <1>8, <1>10
      <3> QED
        BY <1>8, <1>11, <3>1, <3>2, Advances
    <2> QED
      BY <2>1, <2>2
  <1>15. Outward(x, y)
    BY <1>10, <1>14 DEF Outward
  <1> QED
    BY <1>7, <1>15

-----------------------------------------------------------------------------
(* The steps of node:stream.                                                *)
NodeInv == shape \in NodeShape /\ rs \in [Stream -> Readables] /\ WorldOK(World)

LEMMA NodePipedSteps ==
    ASSUME Piped(NodeSent, NodeReceived, NodeOutcome, NodeSent', NodeReceived', NodeOutcome')
    PROVE  [NodePipe!Next]_(NodePipe!vars)
  BY DEF Piped, NodePipe!Next, NodePipe!vars, NodePipe!Send, NodePipe!Pass, NodePipe!Deliver, NodePipe!Discard,
         NodePipe!Complete, NodePipe!Fail

LEMMA WorldSeen ==
    ASSUME shape \in NodeShape
    PROVE  NodeSent = SentBy(World) /\ NodeReceived = GotBy(World) /\ NodeOutcome = ToldBy(World)
  <1>1. World.r = readable /\ World.w = writable /\ World.it = iterator /\ World.web = rs["source"]
    BY DEF World
  <1>2. NodeSent = SentBy(World)
    BY <1>1 DEF NodeSent, SentBy, Source
  <1>3. NodeReceived = GotBy(World)
    BY <1>1 DEF NodeReceived, GotBy, Source, NodeShape
  <1>4. NodeOutcome = ToldBy(World)
    BY <1>1 DEF NodeOutcome, ToldBy, Source, NodeShape
  <1> QED
    BY <1>2, <1>3, <1>4

(* What a step makes of the world is the world of the next state.           *)
LEMMA WorldBecomes ==
    ASSUME NodeInv, NEW y, WorldOK(y), Outward(World, y), Becomes(y)
    PROVE  NodeInv' /\ [NodePipe!Next]_(NodePipe!vars)
  <1>0. /\ shape \in NodeShape /\ shape' = shape /\ syncSink' = syncSink /\ rs \in [Stream -> Readables]
        /\ readable' = y.r /\ writable' = y.w /\ iterator' = y.it /\ rs' = [rs EXCEPT !["source"] = y.web]
    BY DEF NodeInv, Becomes
  <1>1. y \in Worlds /\ y = [r |-> y.r, w |-> y.w, it |-> y.it, web |-> y.web] /\ y.web \in Readables
    BY WorldFields DEF WorldOK
  <1>2. "source" \in Stream
    BY DEF Stream
  <1>3. rs' \in [Stream -> Readables] /\ rs'["source"] = y.web
    BY <1>0, <1>1, <1>2
  <1>4. World' = y
    BY <1>0, <1>1, <1>3 DEF World
  <1>5. WorldOK(World)'
    BY <1>0, <1>4 DEF WorldOK, ConsumerOK, PipeOK
  <1>6. NodeInv'
    BY <1>0, <1>3, <1>5 DEF NodeInv
  <1>7. NodeSent = SentBy(World) /\ NodeReceived = GotBy(World) /\ NodeOutcome = ToldBy(World)
    BY <1>0, WorldSeen
  <1>8. NodeSent' = SentBy(y)
    BY <1>0, <1>3 DEF NodeSent, SentBy, Source
  <1>9. NodeReceived' = GotBy(y)
    BY <1>0, <1>3 DEF NodeReceived, GotBy, Source
  <1>10. NodeOutcome' = ToldBy(y)
    BY <1>0, <1>3 DEF NodeOutcome, ToldBy, Source
  <1>11. Piped(NodeSent, NodeReceived, NodeOutcome, NodeSent', NodeReceived', NodeOutcome')
    BY <1>7, <1>8, <1>9, <1>10 DEF Outward
  <1> QED
    BY <1>6, <1>11, NodePipedSteps

LEMMA PushStep ==
    ASSUME NodeInv, Push
    PROVE  NodeInv' /\ [NodePipe!Next]_(NodePipe!vars)
  <1>0. shape \in NodeShape /\ WorldOK(World) /\ World.r = readable /\ ~World.r.ended
    BY DEF NodeInv, World, Push
  <1>1. ASSUME Len(readable.accepted) < MaxChunks, Becomes(push(World, Len(readable.accepted) + 1))
        PROVE  NodeInv' /\ [NodePipe!Next]_(NodePipe!vars)
    <2> DEFINE n == Len(readable.accepted)
    <2>1. n \in Nat
      <3>1. World \in Worlds
        BY <1>0 DEF WorldOK
      <3>2. readable.accepted \in Seq(Nat)
        BY <1>0, <3>1, WorldFields
      <3> QED
        BY <3>2
    <2>2. MaxChunks \in Nat /\ n < MaxChunks
      BY <1>1, WebAssumption
    <2> HIDE DEF n
    <2>3. n + 1 \in 1 .. MaxChunks /\ n + 1 \in Nat
      BY <2>1, <2>2
    <2>4. PICK y : y = push(World, n + 1)
      BY Zenon
    <2>5. WorldOK(y) /\ Outward(World, y)
      BY <1>0, <2>3, <2>4, Pushes
    <2>6. Becomes(y)
      BY <1>1, <2>4 DEF n
    <2> QED
      BY <2>5, <2>6, WorldBecomes
  <1>2. ASSUME Becomes(pushNull(World)) PROVE NodeInv' /\ [NodePipe!Next]_(NodePipe!vars)
    BY <1>0, <1>2, PushesNull, WorldBecomes
  <1> QED
    BY <1>1, <1>2 DEF Push

LEMMA FlowStep ==
    ASSUME NodeInv, ScriptFlows
    PROVE  NodeInv' /\ [NodePipe!Next]_(NodePipe!vars)
  <1>0. shape \in NodeShape /\ WorldOK(World)
    BY DEF NodeInv
  <1>1. CASE Becomes(Paused(World))
    <2>1. PICK y : y = Paused(World)
      BY Zenon
    <2> QED
      BY <1>0, <1>1, <2>1, Pauses, WorldBecomes
  <1>2. CASE Becomes(resume(World))
    <2>1. PICK y : y = resume(World)
      BY Zenon
    <2>2. WorldOK(y) /\ Onward(World, y)
      BY <1>0, <2>1, Resumes
    <2> QED
      BY <1>0, <1>2, <2>1, <2>2, OnwardPipes, WorldBecomes
  <1> QED
    BY <1>1, <1>2 DEF ScriptFlows, Paused

LEMMA DestroyStep ==
    ASSUME NodeInv, ScriptDestroys
    PROVE  NodeInv' /\ [NodePipe!Next]_(NodePipe!vars)
  <1>0. shape \in NodeShape /\ WorldOK(World)
    BY DEF NodeInv
  <1>1. PICK err \in BOOLEAN : Becomes(destroy(World, err))
    BY DEF ScriptDestroys
  <1>2. PICK y : y = destroy(World, err)
    BY Zenon
  <1>3. Dropped(World, y)
    BY <1>0, <1>2, Destroys
  <1>4. WorldOK(y) /\ Outward(World, y)
    BY <1>0, <1>3, DroppedPipes
  <1> QED
    BY <1>1, <1>2, <1>4, WorldBecomes

LEMMA WritableStep ==
    ASSUME NodeInv, DestroyWritable \/ WriteCallback
    PROVE  NodeInv' /\ [NodePipe!Next]_(NodePipe!vars)
  <1>0. shape \in NodeShape /\ WorldOK(World) /\ World.w = writable
    BY DEF NodeInv, World
  <1>1. CASE DestroyWritable
    <2>1. PICK y : y = Queueless(World)
      BY Zenon
    <2>2. shape = "nodePipe" /\ ~World.w.destroyed /\ ~World.w.finished
      BY <1>0, <1>1 DEF DestroyWritable
    <2>3. Becomes(y)
      BY <1>0, <1>1, <2>1 DEF DestroyWritable, Queueless
    <2> QED
      BY <1>0, <2>1, <2>2, <2>3, WritableDestroyed, WorldBecomes
  <1>2. CASE WriteCallback
    <2>1. PICK y : y = writeDone(World)
      BY Zenon
    <2>2. shape = "nodePipe" /\ ~syncSink /\ Becomes(y)
      BY <1>2, <2>1 DEF WriteCallback
    <2>3. WorldOK(y) /\ Outward(World, y)
      BY <1>0, <2>1, <2>2, WriteReturns
    <2> QED
      BY <2>2, <2>3, WorldBecomes
  <1> QED
    BY <1>1, <1>2

LEMMA IteratorStep ==
    ASSUME NodeInv, IteratorNext
    PROVE  NodeInv' /\ [NodePipe!Next]_(NodePipe!vars)
  <1>0. WorldOK(World) /\ World \in Worlds /\ World.it = iterator
    BY DEF NodeInv, WorldOK, World
  <1>1. shape = "nodeIterate" /\ World.it.outcome = "open" /\ ~World.it.waiting
    BY <1>0 DEF IteratorNext
  <1>2. PICK z : z = NextOf(World.it)
    BY Zenon
  <1>3. PICK y : y = [World EXCEPT !.it = z]
    BY Zenon
  <1>4. Becomes(y)
    BY <1>2, <1>3, Zenon DEF IteratorNext
  <1>5. y = [r |-> World.r, w |-> World.w, it |-> NextOf(World.it), web |-> World.web]
    BY <1>0, <1>2, <1>3, ConsumerSet, Zenon
  <1>6. WorldOK(y) /\ Outward(World, y)
    BY <1>0, <1>1, <1>5, IteratorGoesOn
  <1> QED
    BY <1>4, <1>6, WorldBecomes

LEMMA WebStep ==
    ASSUME NodeInv, WebReads
    PROVE  NodeInv' /\ [NodePipe!Next]_(NodePipe!vars)
  <1>0. shape = "toWeb" /\ WorldOK(World) /\ World \in Worlds /\ World.web = rs["source"]
    BY DEF NodeInv, WorldOK, World, WebReads
  <1>1. ASSUME Becomes([World EXCEPT !.web = read(@, FALSE)])
        PROVE  NodeInv' /\ [NodePipe!Next]_(NodePipe!vars)
    <2>1. PICK v : v = read(World.web, FALSE)
      BY Zenon
    <2>2. PICK y : y = [World EXCEPT !.web = v]
      BY Zenon
    <2>3. Becomes(y)
      BY <1>1, <2>1, <2>2, Zenon
    <2>4. y = [r |-> World.r, w |-> World.w, it |-> World.it, web |-> v]
      BY <1>0, <2>2, ConsumerSet, Zenon
    <2>5. WorldOK(y) /\ Outward(World, y)
      BY <1>0, <2>1, <2>4, WebReader
    <2> QED
      BY <2>3, <2>5, WorldBecomes
  <1>2. ASSUME rs["source"].state # "errored",
               LET s == [World EXCEPT !.web = cancelReadable(@)] IN
               Becomes(IF readable.destroyed THEN s ELSE destroy(s, TRUE))
        PROVE  NodeInv' /\ [NodePipe!Next]_(NodePipe!vars)
    <2>1. PICK s : s = [World EXCEPT !.web = cancelReadable(@)]
      BY Zenon
    <2>2. WorldOK(s) /\ Outward(World, s)
      BY <1>0, <1>2, <2>1, CancelPipes
    <2>3. PICK y : y = destroy(s, TRUE)
      BY Zenon
    <2>4. WorldOK(y) /\ Outward(World, y)
      BY <1>0, <1>2, <2>1, <2>3, CancelDestroys
    <2>5. Becomes(s) \/ Becomes(y)
      BY <1>2, <2>1, <2>3
    <2> QED
      BY <2>2, <2>4, <2>5, WorldBecomes
  <1> QED
    BY <1>1, <1>2 DEF WebReads

LEMMA NodeSteps ==
    ASSUME NodeInv, [NodeNext]_<<webVars, nodeVars>>
    PROVE  NodeInv' /\ [NodePipe!Next]_(NodePipe!vars)
  <1>1. CASE NodeNext
    BY <1>1, PushStep, FlowStep, DestroyStep, WritableStep, IteratorStep, WebStep DEF NodeNext
  <1>2. CASE UNCHANGED <<webVars, nodeVars>>
    <2>1. /\ shape' = shape /\ syncSink' = syncSink /\ rs' = rs /\ readable' = readable /\ writable' = writable
          /\ iterator' = iterator
      BY <1>2 DEF webVars, nodeVars
    <2>2. NodeInv'
      BY <2>1 DEF NodeInv, World, WorldOK, ConsumerOK, PipeOK
    <2>3. NodeSent' = NodeSent /\ NodeReceived' = NodeReceived /\ NodeOutcome' = NodeOutcome
      BY <2>1 DEF NodeSent, NodeReceived, NodeOutcome, Source
    <2> QED
      BY <2>2, <2>3 DEF NodePipe!vars
  <1> QED
    BY <1>1, <1>2

LEMMA NodeStarts ==
    ASSUME NodeInit
    PROVE  NodeInv /\ NodePipe!Init
  <1>0. /\ shape \in NodeShape /\ rs = [s \in Stream |-> NewReadable] /\ rs["source"] = NewReadable
        /\ World = [r |-> NewNodeReadable, w |-> NewNodeWritable, it |-> NewIterator, web |-> NewReadable]
    BY DEF NodeInit, World, Stream
  <1>1. <<>> \in Seq(Nat) /\ Len(<<>>) = 0 /\ <<>> \o <<>> = <<>>
    BY EmptySeq, ConcatEmptySeq
  <1>2. Good(NewReadable) /\ NewReadable \in Readables
    BY NewGood DEF Good
  <1>3. NewNodeReadable \in NodeReadables /\ NewNodeWritable \in NodeWritables /\ NewIterator \in Iterators
    BY <1>1 DEF NewNodeReadable, NewNodeWritable, NewIterator, NodeReadables, NodeWritables, Iterators
  <1>4. World \in Worlds
    BY <1>0, <1>2, <1>3, WorldMade
  <1>5. AllOf(<<>> \o <<>>, <<>>, <<>>) /\ AllOf(<<>>, <<>>, <<>>) /\ StartOf(<<>>, <<>>, <<>>)
    BY <1>1, AllStarts DEF AllOf
  <1>6. /\ PipeOK(FALSE, <<>>, <<>>, NewNodeWritable) /\ IteratorOK(FALSE, <<>>, <<>>, NewIterator)
        /\ ToWebOK(FALSE, <<>>, <<>>, NewReadable)
    BY <1>1, <1>5 DEF PipeOK, IteratorOK, ToWebOK, Ended, NewNodeWritable, NewIterator, NewReadable
  <1>7. World.r = NewNodeReadable /\ World.w = NewNodeWritable /\ World.it = NewIterator /\ World.web = NewReadable
    BY <1>0
  <1>8. NewNodeReadable.buf = <<>> /\ NewNodeReadable.accepted = <<>> /\ NewNodeReadable.closed = FALSE
    BY DEF NewNodeReadable
  <1>9. WorldOK(World)
    BY <1>4, <1>6, <1>7, <1>8 DEF WorldOK, FlowOK, ConsumerOK
  <1>10. NodeInv
    BY <1>0, <1>2, <1>9 DEF NodeInv
  <1>11. Chunks(NewReadable) = <<>> /\ WasTold(NewReadable) = "open" /\ NewReadable.cancelled = FALSE
    <2>1. NewReadable.accepted = <<>> /\ NewReadable.reads = <<>> /\ NewReadable.cancelled = FALSE
      BY DEF NewReadable
    <2>2. Chunks(NewReadable) \in Seq(Nat) /\ Len(Chunks(NewReadable)) = 0
      BY <1>1, <1>2, <2>1, ChunksFirst
    <2>3. WasTold(NewReadable) = "open"
      BY <2>1 DEF WasTold
    <2> QED
      BY <2>1, <2>2, <2>3
  <1>12. SentBy(World) = <<>> /\ GotBy(World) = <<>> /\ ToldBy(World) = "open"
    <2>1. /\ NewNodeWritable.destroyed = FALSE /\ NewNodeWritable.finished = FALSE /\ NewNodeWritable.given = <<>>
          /\ NewIterator.got = <<>> /\ NewIterator.outcome = "open"
      BY DEF NewNodeWritable, NewIterator
    <2> QED
      BY <1>7, <1>8, <1>11, <2>1 DEF SentBy, GotBy, ToldBy
  <1>13. NodePipe!Init
    BY <1>0, <1>12, WorldSeen DEF NodePipe!Init
  <1> QED
    BY <1>10, <1>13

(* The Readable and its consumer fit together in every state: what pipe(),  *)
(* the iterator or toWeb has been given, and what the buffer still holds,   *)
(* are what was pushed, and a consumer is told of the end only when the     *)
(* Readable has ended and its buffer is empty.                              *)
THEOREM NodeHolds == NodeSpec => []NodeInv
  <1>1. NodeInit => NodeInv
    BY NodeStarts
  <1>2. NodeInv /\ [NodeNext]_<<webVars, nodeVars>> => NodeInv'
    BY NodeSteps
  <1> QED
    BY <1>1, <1>2, PTL DEF NodeSpec

(* pipe() into a Writable, an async iterator and Readable.toWeb are chunk   *)
(* pipes: whatever pushes, pauses, resumes, destroys, calls back or cancels *)
(* in between, the consumer gets the pushed chunks in order and once, and   *)
(* 'finish', the end of the iteration or done says that none is missing.    *)
THEOREM NodePipes == NodeSpec => NodeImplementsPipe
  <1>1. NodeInit => NodePipe!Init
    BY NodeStarts
  <1>2. NodeInv /\ [NodeNext]_<<webVars, nodeVars>> => [NodePipe!Next]_(NodePipe!vars)
    BY NodeSteps
  <1> QED
    BY <1>1, <1>2, NodeHolds, PTL DEF NodeSpec, NodeImplementsPipe, NodePipe!Spec
=============================================================================
