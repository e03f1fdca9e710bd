------------------------------ MODULE Sockets -------------------------------
(***************************************************************************)
(* One WebSocket, crates/bun-runtime/src/web/websocket.rs: the JavaScript  *)
(* object, the tokio task that owns the connection, the channel from the   *)
(* one to the other, the tasks posted back, and the peer.                  *)
(***************************************************************************)
EXTENDS Naturals, Sequences

CONSTANTS
    MaxMessages     \* bound: messages each side sends

ASSUME SocketAssumption == MaxMessages \in Nat

VARIABLES
    readyState,     \* of the object: 0 connecting, 1 open, 2 closing, 3 closed
    inTable,        \* SOCKETS has the entry
    outbox,         \* the channel to the task
    link,           \* the task: connecting, open, or how its loop ended
    wire,           \* frames of the peer that the task has not read
    peerSent,       \* history: the messages of the peer
    peerGot,        \* history: what the peer has received
    sends,          \* history: messages send() accepted
    closedAt,       \* history: how many when close() was first called
    events,         \* tasks posted to the JavaScript thread
    heard,          \* history: the message events
    closeCode       \* history: the code of the close event, 0 before it

taskVars == <<inTable, link, wire>>
peerVars == <<peerSent, peerGot>>
scriptVars == <<readyState, sends, closedAt, heard, closeCode>>
socketVars == <<taskVars, peerVars, scriptVars, outbox, events>>

Event(kind, n) == [kind |-> kind, n |-> n]
Finish == Event("finish", 0)
Normal == 1000
NoStatus == 1005
Abnormal == 1006
Never == MaxMessages + 1

(* new WebSocket(url): the entry and the task. *)
SocketInit ==
    /\ readyState = 0 /\ inTable = TRUE /\ link = "connecting"
    /\ outbox = <<>> /\ wire = <<>> /\ events = <<>>
    /\ peerSent = <<>> /\ peerGot = <<>> /\ sends = <<>> /\ heard = <<>>
    /\ closeCode = 0 /\ closedAt = Never

-----------------------------------------------------------------------------
(* The script                                                               *)

ScriptSends ==
    /\ readyState = 1
    /\ Len(sends) < MaxMessages
    /\ sends' = Append(sends, Len(sends) + 1)
    /\ outbox' = IF inTable THEN Append(outbox, Event("message", Len(sends) + 1)) ELSE outbox
    /\ UNCHANGED <<taskVars, peerVars, events, readyState, closedAt, heard, closeCode>>

FirstClose == IF closedAt = Never THEN Len(sends) ELSE closedAt

close_wsOvertakes ==                \* mutant: the close goes out before what waits
    /\ readyState < 2
    /\ readyState' = 2
    /\ closedAt' = FirstClose
    /\ outbox' = IF inTable THEN <<Event("close", 0)>> \o outbox ELSE outbox
    /\ UNCHANGED <<taskVars, peerVars, events, sends, heard, closeCode>>
close_ws ==
    /\ readyState < 2
    /\ readyState' = 2
    /\ closedAt' = FirstClose
    /\ outbox' = IF inTable THEN Append(outbox, Event("close", 0)) ELSE outbox
    /\ UNCHANGED <<taskVars, peerVars, events, sends, heard, closeCode>>

(* onEvent.  An open event that was on its way when close() was called sets *)
(* readyState back to open.                                                 *)
onEvent ==
    LET e == Head(events) IN
    /\ events # <<>>
    /\ events' = Tail(events)
    /\ readyState' = CASE e.kind = "open" -> 1 [] e.kind = "close" -> 3 [] OTHER -> readyState
    /\ heard' = IF e.kind = "message" THEN Append(heard, e.n) ELSE heard
    /\ closeCode' = IF e.kind = "close" THEN e.n ELSE closeCode
    /\ UNCHANGED <<taskVars, peerVars, outbox, sends, closedAt>>

-----------------------------------------------------------------------------
(* The task                                                                 *)

Dispatch(es) == events' = events \o es

(* A failed connection leaves its entry in the table.                       *)
Connects ==
    /\ link = "connecting"
    /\ \/ link' = "open" /\ Dispatch(<<Event("open", 0)>>)
       \/ /\ link' = "lost"
          /\ Dispatch(<<Event("error", 0), Event("close", Abnormal), Finish>>)
    /\ UNCHANGED <<inTable, wire, peerVars, scriptVars, outbox>>

(* The loop breaks: the entry is removed, and note_finished posted.         *)
Breaks(how, es) ==
    /\ link' = how
    /\ inTable' = FALSE
    /\ Dispatch(Append(es, Finish))

(* The channel: a message goes out, or fails and ends the loop without a    *)
(* word to the script; a close is sent and reported at once.                *)
Outgoing ==
    /\ link = "open" /\ outbox # <<>>
    /\ outbox' = Tail(outbox)
    /\ \/ /\ Head(outbox).kind = "message"
          /\ \/ peerGot' = Append(peerGot, Head(outbox).n) /\ UNCHANGED <<inTable, link, events>>
             \/ Breaks("silent", <<>>) /\ UNCHANGED peerGot
       \/ /\ Head(outbox).kind = "close"
          /\ Breaks("left", <<Event("close", Normal)>>)
          /\ UNCHANGED peerGot
    /\ UNCHANGED <<wire, peerSent, scriptVars>>

(* The connection: a message, the close of the peer or the end of the       *)
(* stream, or an error.                                                     *)
Incoming ==
    /\ link = "open"
    /\ \/ /\ wire # <<>> /\ Head(wire).kind = "message"
          /\ Dispatch(<<Head(wire)>>)
          /\ UNCHANGED <<inTable, link>>
       \/ /\ wire # <<>> /\ Head(wire).kind = "close"
          /\ Breaks("ended", <<Head(wire)>>)
       \/ Breaks("lost", <<Event("error", 0), Event("close", Abnormal)>>)
    /\ wire' = IF wire = <<>> THEN wire ELSE Tail(wire)
    /\ UNCHANGED <<peerVars, scriptVars, outbox>>

(* The peer sends messages and, last of all, closes.                        *)
PeerSends ==
    /\ link = "open"
    /\ \A i \in DOMAIN wire : wire[i].kind # "close"
    /\ \/ /\ Len(peerSent) < MaxMessages
          /\ peerSent' = Append(peerSent, Len(peerSent) + 1)
          /\ wire' = Append(wire, Event("message", Len(peerSent) + 1))
       \/ \E code \in {Normal, NoStatus} :
             wire' = Append(wire, Event("close", code)) /\ UNCHANGED peerSent
    /\ UNCHANGED <<inTable, link, peerGot, scriptVars, outbox, events>>

SocketNext ==
    ScriptSends \/ close_ws \/ onEvent \/ Connects \/ Outgoing \/ Incoming \/ PeerSends

SocketSpec == SocketInit /\ [][SocketNext]_socketVars

-----------------------------------------------------------------------------
(* The messages of the peer reach the listeners in order and each once, the *)
(* close event comes after all of them, only once, and nothing follows it.  *)
(* When the script or an error ends the connection, what the task had not   *)
(* read is discarded.                                                       *)
IsMessage(e) == e.kind = "message"
Forwarded ==
    {heard[k] : k \in DOMAIN heard} \cup {events[k].n : k \in {j \in DOMAIN events : IsMessage(events[j])}}
NotDiscarded ==
    IF link \in {"left", "lost", "silent"} THEN [k \in Forwarded |-> peerSent[k]] ELSE peerSent
Told ==
    CASE closeCode = 0 -> "open" [] closeCode = Abnormal -> "failed" [] OTHER -> "complete"

Peer == INSTANCE ChunkPipe WITH
    Chunk <- 1 .. MaxMessages, sent <- NotDiscarded, received <- heard, outcome <- Told

HeardImplementsPipe == Peer!Spec

(* In the other direction, what send() accepted until close() was called    *)
(* reaches the peer in order and each once, and the close goes out after    *)
(* all of it.  When the connection ends in another way the rest is lost.    *)
Accepted == SubSeq(sends, 1, FirstClose)
NotLost == IF link \in {"lost", "silent", "ended"} THEN peerGot ELSE Accepted
PeerTold ==
    CASE link \in {"connecting", "open"} -> "open" [] link = "left" -> "complete" [] OTHER -> "failed"

Out == INSTANCE ChunkPipe WITH
    Chunk <- 1 .. MaxMessages, sent <- NotLost, received <- peerGot, outcome <- PeerTold

SendsImplementPipe == Out!Spec

(* Each direction of a WebSocket is a pipe of messages.                     *)
SocketImplementsPipe == HeardImplementsPipe /\ SendsImplementPipe
=============================================================================
