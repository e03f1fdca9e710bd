------------------------------ MODULE Readline ------------------------------
(***************************************************************************)
(* node:readline, crates/bun-runtime/src/node_builtins/readline.rs: the    *)
(* thread that reads stdin, the table of listeners, the tasks it posts to  *)
(* the JavaScript thread, and the Interface objects.                       *)
(***************************************************************************)
EXTENDS Naturals, Sequences, SequencesExt

CONSTANTS
    Interface,      \* the interfaces a script may create
    MaxLines,       \* bound: lines of the input
    MaxQuestions    \* bound: calls of question() on each interface

ASSUME ReadlineAssumption == MaxLines \in Nat /\ MaxQuestions \in Nat

VARIABLES
    listeners,      \* LISTENERS, in the order of registration
    pump,           \* the stdin thread: unstarted, reading, ended
    lines,          \* lines read so far
    batch,          \* the listeners broadcast has still to post to
    posted,         \* the tasks posted
    rl              \* the Interface objects

readlineVars == <<listeners, pump, lines, batch, posted, rl>>

EndOfInput == 0

(* got, answers: history, the lines of the line listeners and of the        *)
(* questions; from: the lines read when it registered; dead: its callback,  *)
(* no longer protected, has been collected.                                 *)
NewInterface ==
    [made |-> FALSE, closed |-> FALSE, questions |-> <<>>, asked |-> 0, got |-> <<>>,
     answers |-> <<>>, from |-> 0, sawEnd |-> FALSE, dead |-> FALSE]

ReadlineInit ==
    /\ listeners = <<>> /\ pump = "unstarted" /\ lines = 0
    /\ batch = <<>> /\ posted = <<>>
    /\ rl = [i \in Interface |-> NewInterface]

(* __bun_rl_register; the first one starts the thread.  An interface made   *)
(* after the end of the input never hears of it.                            *)
createInterface(i) ==
    /\ ~rl[i].made
    /\ listeners' = Append(listeners, i)
    /\ pump' = IF pump = "unstarted" THEN "reading" ELSE pump
    /\ rl' = [rl EXCEPT ![i].made = TRUE, ![i].from = lines]
    /\ UNCHANGED <<lines, batch, posted>>

question(i) ==
    /\ rl[i].made /\ rl[i].asked < MaxQuestions
    /\ rl' = [rl EXCEPT ![i].asked = @ + 1, ![i].questions = Append(@, rl[i].asked + 1)]
    /\ UNCHANGED <<listeners, pump, lines, batch, posted>>

(* close(): early return when closed, also by the end of the input, whose   *)
(* listener then stays in the table.                                        *)
close_rl(i) ==
    /\ rl[i].made /\ ~rl[i].closed
    /\ rl' = [rl EXCEPT ![i].closed = TRUE]
    /\ listeners' = RemoveFirst(listeners, i)
    /\ UNCHANGED <<pump, lines, batch, posted>>

(* The thread reads a line, or the end of the input, and takes the list of  *)
(* the listeners; then it posts one task after the other.                   *)
ReadLine ==
    /\ pump = "reading" /\ batch = <<>>
    /\ \/ lines < MaxLines /\ lines' = lines + 1 /\ UNCHANGED pump
          /\ batch' = [k \in DOMAIN listeners |-> [to |-> listeners[k], line |-> lines + 1]]
       \/ pump' = "ended" /\ UNCHANGED lines
          /\ batch' = [k \in DOMAIN listeners |-> [to |-> listeners[k], line |-> EndOfInput]]
    /\ UNCHANGED <<listeners, posted, rl>>

broadcast ==
    /\ batch # <<>>
    /\ posted' = Append(posted, Head(batch))
    /\ batch' = Tail(batch)
    /\ UNCHANGED <<listeners, pump, lines, rl>>

(* Mutant: a line answers every question that waits.                        *)
ReceivesAll(r, line) ==
    IF line = EndOfInput THEN [r EXCEPT !.closed = TRUE, !.sawEnd = TRUE]
    ELSE IF r.questions = <<>> THEN [r EXCEPT !.got = Append(@, line)]
    ELSE [r EXCEPT !.questions = <<>>,
                   !.answers = @ \o [k \in DOMAIN r.questions |-> [q |-> r.questions[k], line |-> line]]]

(* onEvent: the oldest question takes the line, or the line listeners do.   *)
Receives(r, line) ==
    IF line = EndOfInput THEN [r EXCEPT !.closed = TRUE, !.sawEnd = TRUE]
    ELSE IF r.questions = <<>> THEN [r EXCEPT !.got = Append(@, line)]
    ELSE [r EXCEPT !.questions = Tail(@),
                   !.answers = Append(@, [q |-> Head(r.questions), line |-> line])]

(* A task runs.  The callback of an interface that was closed after the     *)
(* task was posted is not protected any more: it may have been collected.   *)
RunTask ==
    LET i == Head(posted).to  line == Head(posted).line
        held == \E k \in DOMAIN listeners : listeners[k] = i IN
    /\ posted # <<>>
    /\ posted' = Tail(posted)
    /\ \/ ~rl[i].dead /\ rl' = [rl EXCEPT ![i] = Receives(@, line)]
       \/ ~held /\ rl' = [rl EXCEPT ![i].dead = TRUE]
    /\ UNCHANGED <<listeners, pump, lines, batch>>

ReadlineNext ==
    \/ ReadLine \/ broadcast \/ RunTask
    \/ \E i \in Interface : createInterface(i) \/ question(i) \/ close_rl(i)

ReadlineSpec == ReadlineInit /\ [][ReadlineNext]_readlineVars

-----------------------------------------------------------------------------
(* An interface gets the lines read since it was created, each once and in  *)
(* order, the oldest question the oldest line; the end of the input closes  *)
(* it only after the last one.                                              *)
LinesDelivered ==
    \A i \in Interface :
        LET r == rl[i]
            all == {r.got[k] : k \in DOMAIN r.got} \cup {r.answers[k].line : k \in DOMAIN r.answers}
            count == Len(r.got) + Len(r.answers)
        IN /\ all = (r.from + 1) .. (r.from + count)
           /\ \A k \in 2 .. Len(r.got) : r.got[k - 1] < r.got[k]
           /\ \A k \in DOMAIN r.answers :
                 /\ r.answers[k].q = k
                 /\ k > 1 => r.answers[k - 1].line < r.answers[k].line
           /\ r.sawEnd => r.from + count = lines
=============================================================================
