-------------------------------- MODULE Http --------------------------------
(***************************************************************************)
(* fetch and Bun.serve in one process, crates/bun-runtime/src/web/fetch.rs *)
(* and bun_api/serve.rs, with the AbortSignals of web/polyfill.js.         *)
(*                                                                         *)
(* A call is a request on its way to the server of this process: one of    *)
(* its own fetches, or one of an outside client.  The JavaScript thread    *)
(* takes one task at a time from the queue and runs the handler or settles *)
(* a fetch; the accept loop, each connection and each fetch are tokio      *)
(* tasks.  What the handler does, when the script aborts, stops the server *)
(* or starts a fetch, and what happens on the network are open.            *)
(***************************************************************************)
EXTENDS Naturals, Sequences, FiniteSets

CONSTANTS
    Fetch,          \* the calls of fetch()
    Outside,        \* the calls of other clients
    Signal, Joint,    \* the abort signals; those made by AbortSignal.any of the rest
    None            \* no signal, and nobody's answer

Call == Fetch \cup Outside

ASSUME HttpAssumption ==
    /\ Fetch \cap Outside = {} /\ IsFiniteSet(Call)
    /\ Joint \subseteq Signal /\ None \notin Signal \cup Call

VARIABLES
    server,         \* Bun.serve: none, up, or stopped (its stop_flag)
    accepting,      \* the accept loop runs
    conn,           \* the connection of each call
    responders,     \* RESPONDERS: the call each respond id answers
    nextId,         \* NEXT_RESPOND_ID
    handler,        \* what the handler has returned to each call
    answer,         \* what the connection of each call has been given
    fetch,          \* the fetches
    aborted,        \* the signals that are aborted
    made,           \* the signals of AbortSignal.any made so far
    cancels,        \* CANCELS: the fetches whose sender is in the table
    fired,          \* the fetches whose sender has been fired
    tasks,          \* the queue of the JavaScript thread
    inflight,       \* IN_FLIGHT
    exited          \* the event loop has returned

serveVars == <<server, accepting, conn, responders, nextId, handler, answer>>
fetchVars == <<fetch, aborted, made, cancels, fired, inflight>>
httpVars == <<serveVars, fetchVars, tasks, exited>>

NoAnswer == None
NewFetch == [stage |-> "idle", own |-> FALSE, signal |-> None, early |-> FALSE,
             result |-> "none", body |-> NoAnswer]

HttpInit ==
    /\ server = "none" /\ accepting = FALSE
    /\ conn = [c \in Call |-> "none"]
    /\ responders = <<>> /\ nextId = 1
    /\ handler = [c \in Call |-> [id |-> 0, promise |-> "none"]]
    /\ answer = [c \in Call |-> NoAnswer]
    /\ fetch = [f \in Fetch |-> NewFetch]
    /\ aborted = {} /\ made = {} /\ cancels = {} /\ fired = {}
    /\ tasks = <<>> /\ inflight = 0 /\ exited = FALSE

-----------------------------------------------------------------------------
(* Bun.serve                                                                *)

Serve ==
    /\ ~exited /\ server = "none"
    /\ server' = "up" /\ accepting' = TRUE
    /\ UNCHANGED <<conn, responders, nextId, handler, answer, fetchVars, tasks, exited>>

Stop ==
    /\ ~exited /\ server = "up"
    /\ server' = "stopped"
    /\ UNCHANGED <<accepting, conn, responders, nextId, handler, answer, fetchVars, tasks, exited>>

(* The accept loop looks at stop_flag only between two connections.         *)
Accept(c) ==
    /\ ~exited /\ accepting /\ conn[c] = "backlog"
    /\ conn' = [conn EXCEPT ![c] = "accepted"]
    /\ UNCHANGED <<server, accepting, responders, nextId, handler, answer, fetchVars, tasks, exited>>

AcceptEnds ==
    /\ ~exited /\ accepting /\ server = "stopped"
    /\ accepting' = FALSE
    /\ conn' = [c \in Call |-> IF conn[c] = "backlog" THEN "refused" ELSE conn[c]]
    /\ UNCHANGED <<server, responders, nextId, handler, answer, fetchVars, tasks, exited>>

(* Another client connects, sends its next request on a connection it kept, *)
(* or goes away.                                                            *)
OutsideCalls(c) ==
    /\ ~exited /\ conn[c] = "none"
    /\ \/ accepting /\ conn' = [conn EXCEPT ![c] = "backlog"]
       \/ /\ \E d \in Outside : conn[d] = "answered"
          /\ conn' = [conn EXCEPT ![c] = "accepted"]
    /\ UNCHANGED <<server, accepting, responders, nextId, handler, answer, fetchVars, tasks, exited>>

OutsideLeaves(c) ==
    /\ conn[c] \in {"backlog", "accepted", "waiting"}
    /\ conn' = [conn EXCEPT ![c] = "gone"]
    /\ UNCHANGED <<server, accepting, responders, nextId, handler, answer, fetchVars, tasks, exited>>

(* Mutant: an id that another request may still hold.                       *)
respond_idReused == Cardinality(DOMAIN responders) + 1
respond_id == nextId

(* handle_request: a fresh id, its responder, and a task for the JavaScript *)
(* thread; then the connection waits.                                       *)
handle_request(c) ==
    /\ ~exited /\ conn[c] = "accepted"
    /\ conn' = [conn EXCEPT ![c] = "waiting"]
    /\ responders' = [id \in DOMAIN responders \cup {respond_id} |->
                         IF id = respond_id THEN c ELSE responders[id]]
    /\ nextId' = nextId + 1
    /\ tasks' = Append(tasks, [kind |-> "handle", of |-> c, id |-> respond_id])
    /\ UNCHANGED <<server, accepting, handler, answer, fetchVars, exited>>

(* __bun_serve_respond and resolve_error: the responder is taken out of the *)
(* table and used; the receiver may be gone.  An answer is the call whose   *)
(* handler gave it: a response, or the error page for what was thrown.      *)
Respond(id, from) ==
    IF id \notin DOMAIN responders THEN UNCHANGED <<responders, answer>>
    ELSE /\ answer' = [answer EXCEPT ![responders[id]] = from]
         /\ responders' = [i \in DOMAIN responders \ {id} |-> responders[i]]

(* The task of handle_request: the handler throws, answers at once, or      *)
(* returns a promise.                                                       *)
Handle ==
    LET c == Head(tasks).of  id == Head(tasks).id IN
    /\ ~exited /\ tasks # <<>> /\ Head(tasks).kind = "handle"
    /\ tasks' = Tail(tasks)
    /\ \/ /\ Respond(id, c)
          /\ handler' = [handler EXCEPT ![c] = [id |-> id, promise |-> "settled"]]
       \/ /\ handler' = [handler EXCEPT ![c] = [id |-> id, promise |-> "pending"]]
          /\ UNCHANGED <<responders, answer>>
    /\ UNCHANGED <<server, accepting, conn, nextId, fetchVars, exited>>

(* The promise of a handler settles.                                        *)
HandlerSettles(c) ==
    /\ ~exited /\ handler[c].promise = "pending"
    /\ handler' = [handler EXCEPT ![c].promise = "settled"]
    /\ Respond(handler[c].id, c)
    /\ UNCHANGED <<server, accepting, conn, nextId, fetchVars, tasks, exited>>

(* The connection writes the answer it has received.                        *)
Written(c) ==
    /\ ~exited /\ conn[c] = "waiting" /\ answer[c] # NoAnswer
    /\ conn' = [conn EXCEPT ![c] = "answered"]
    /\ UNCHANGED <<server, accepting, responders, nextId, handler, answer, fetchVars, tasks, exited>>

-----------------------------------------------------------------------------
(* AbortSignal                                                              *)

(* Dispatch reaches the signals made of s, and the fetches that listen.     *)
AbortWith(s) ==
    LET new == ({s} \cup (IF s \in Joint THEN {} ELSE made)) \ aborted
        hit == {f \in cancels : fetch[f].signal \in new}
    IN /\ aborted' = aborted \cup new
       /\ cancels' = cancels \ hit
       /\ fired' = fired \cup hit

ScriptAborts(s) ==
    /\ ~exited /\ s \notin aborted /\ s \notin Joint
    /\ AbortWith(s)
    /\ UNCHANGED <<serveVars, fetch, made, inflight, tasks, exited>>

(* AbortSignal.any: aborted from the start if one of its sources is.        *)
MakeAny(s) ==
    /\ ~exited /\ s \in Joint \ made
    /\ made' = made \cup {s}
    /\ aborted' = IF aborted \cap (Signal \ Joint) = {} THEN aborted ELSE aborted \cup {s}
    /\ UNCHANGED <<serveVars, fetch, cancels, fired, inflight, tasks, exited>>

-----------------------------------------------------------------------------
(* fetch                                                                    *)

(* Mutant: the listener is added without a look at signal.aborted.          *)
WiredLate(f, s) ==
    cancels' = (IF s = None THEN cancels ELSE cancels \cup {f}) /\ UNCHANGED fired

(* The cancel channel, only with a signal; an aborted one fires at once.    *)
Wired(f, s) ==
    CASE s = None -> UNCHANGED <<cancels, fired>>
      [] s \in aborted -> fired' = fired \cup {f} /\ UNCHANGED cancels
      [] OTHER -> cancels' = cancels \cup {f} /\ UNCHANGED fired

(* __bun_fetch: wiring, note_started, spawn.                                *)
StartFetch(f) ==
    /\ ~exited /\ fetch[f].stage = "idle"
    /\ \E s \in (Signal \ Joint) \cup made \cup {None}, own \in BOOLEAN :
          /\ Wired(f, s)
          /\ fetch' = [fetch EXCEPT ![f] = [@ EXCEPT !.stage = "sending", !.own = own,
                                            !.signal = s, !.early = s \in aborted]]
    /\ inflight' = inflight + 1
    /\ UNCHANGED <<serveVars, aborted, made, tasks, exited>>

(* deliver: the task that settles the promise.                              *)
deliver(f, result, body) ==
    /\ fetch' = [fetch EXCEPT ![f] = [@ EXCEPT !.stage = "posted", !.result = result,
                                               !.body = body]]
    /\ tasks' = Append(tasks, [kind |-> "deliver", of |-> f, id |-> 0])
    /\ UNCHANGED <<aborted, made, cancels, fired, inflight>>

Sending(f) == ~exited /\ fetch[f].stage = "sending"
Own(f) == fetch[f].own

(* The select polls both futures; if both are ready either is taken, but    *)
(* the response needs the network and a fired sender does not.              *)
FirstPoll(f) == conn[f] = "none"

Connect(f) ==
    /\ Sending(f) /\ Own(f) /\ FirstPoll(f) /\ f \notin fired
    /\ conn' = [conn EXCEPT ![f] = IF accepting THEN "backlog" ELSE "refused"]
    /\ UNCHANGED <<server, accepting, responders, nextId, handler, answer, fetchVars, tasks, exited>>

SendFails(f) ==
    /\ Sending(f)
    /\ ~Own(f) \/ conn[f] = "refused"
    /\ deliver(f, "failed", NoAnswer)
    /\ UNCHANGED <<serveVars, exited>>

Cancelled(f) ==
    /\ Sending(f) /\ f \in fired
    /\ deliver(f, "aborted", NoAnswer)
    /\ conn' = [conn EXCEPT ![f] = "gone"]
    /\ UNCHANGED <<server, accepting, responders, nextId, handler, answer, exited>>

(* The headers are there: from now on an abort is not looked at.            *)
Headers(f) ==
    /\ Sending(f)
    /\ IF Own(f) THEN conn[f] = "answered" ELSE ~fetch[f].early
    /\ fetch' = [fetch EXCEPT ![f].stage = "reading"]
    /\ UNCHANGED <<serveVars, aborted, made, cancels, fired, inflight, tasks, exited>>

(* The body is complete, or, from elsewhere, broken or never complete.      *)
Body(f) ==
    /\ ~exited /\ fetch[f].stage = "reading"
    /\ \/ Own(f) /\ deliver(f, "ok", answer[f])
       \/ ~Own(f) /\ \E result \in {"ok", "failed"} : deliver(f, result, NoAnswer)
    /\ UNCHANGED <<serveVars, exited>>

(* The task of deliver; its last act is note_finished.                      *)
Deliver ==
    /\ ~exited /\ tasks # <<>> /\ Head(tasks).kind = "deliver"
    /\ tasks' = Tail(tasks)
    /\ fetch' = [fetch EXCEPT ![Head(tasks).of].stage = "settled"]
    /\ inflight' = inflight - 1
    /\ UNCHANGED <<serveVars, aborted, made, cancels, fired, exited>>

-----------------------------------------------------------------------------
(* Mutant: the loop does not count the operations in flight.                *)
IdleForgetful == tasks = <<>> /\ server # "up"

(* run_event_loop returns when no server is active, the queue is empty and  *)
(* nothing is in flight; tokio's tasks end with the process.                *)
Idle == tasks = <<>> /\ server # "up" /\ inflight = 0

Exit ==
    /\ ~exited /\ Idle
    /\ exited' = TRUE
    /\ UNCHANGED <<serveVars, fetchVars, tasks>>

FetchSteps(f) == Connect(f) \/ Cancelled(f) \/ Headers(f) \/ (Own(f) /\ Body(f))

HttpNext ==
    \/ Serve \/ Stop \/ AcceptEnds \/ Handle \/ Deliver \/ Exit
    \/ \E c \in Call : Accept(c) \/ handle_request(c) \/ HandlerSettles(c) \/ Written(c)
    \/ \E c \in Outside : OutsideCalls(c) \/ OutsideLeaves(c)
    \/ \E s \in Signal : ScriptAborts(s) \/ MakeAny(s)
    \/ \E f \in Fetch : StartFetch(f) \/ Connect(f) \/ SendFails(f) \/ Cancelled(f)
                        \/ Headers(f) \/ Body(f)

HttpSpec == HttpInit /\ [][HttpNext]_httpVars

-----------------------------------------------------------------------------
(* Each answer reaches the request its handler was called for, whatever     *)
(* order handlers settle in and whichever clients have gone, and a fetch    *)
(* resolves with the answer to its own request.                             *)
AnswersBelong ==
    /\ \A c \in Call : answer[c] # NoAnswer => answer[c] = c
    /\ \A f \in Fetch : fetch[f].own /\ fetch[f].result = "ok" => fetch[f].body = f

(* A fetch is reported aborted only if its signal was, and one whose signal *)
(* is aborted already, directly or through AbortSignal.any, never resolves. *)
AbortHonoured ==
    \A f \in Fetch :
        /\ fetch[f].result = "aborted" => fetch[f].signal \in aborted
        /\ fetch[f].early => fetch[f].result # "ok"

(* Once the handler has answered a fetch of its own process the fetch       *)
(* settles: neither stop() nor the loop's exit comes in between.            *)
Answered(f) == answer[f] # NoAnswer /\ fetch[f].own
Settled(f) == fetch[f].stage = "settled"
AnsweredFetchesSettle == \A f \in Fetch : Answered(f) ~> Settled(f)
=============================================================================
