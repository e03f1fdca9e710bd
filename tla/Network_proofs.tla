--------------------------- MODULE Network_proofs ---------------------------
(***************************************************************************)
(* LinesDelivered, for any number of interfaces, lines and questions;      *)
(* SocketImplementsPipe, for any number of messages; the safety properties *)
(* of Http, for any number of fetches, outside clients and signals.        *)
(***************************************************************************)
EXTENDS Sockets, Readline, Http, SequenceTheorems, TLAPS

(***************************************************************************)
(* readline.                                                               *)
(*                                                                         *)
(* What an interface has got says nothing of what it will get: Coming      *)
(* says that the tasks on their way to it, in the queue or in a broadcast  *)
(* that is not over, carry the very next lines in order, without a gap,    *)
(* and the end of the input after them; UpToDate, that for an interface in *)
(* the table of listeners they reach the last line read.                   *)
(***************************************************************************)
LineTask == [to : Interface, line : Nat]
Answer == [q : Nat, line : Nat]
InterfaceRecord ==
    [made : BOOLEAN, closed : BOOLEAN, questions : Seq(Nat), asked : Nat, got : Seq(Nat),
     answers : Seq(Answer), from : Nat, sawEnd : BOOLEAN, dead : BOOLEAN]

ReadlineTypes ==
    /\ listeners \in Seq(Interface)
    /\ pump \in {"unstarted", "reading", "ended"}
    /\ lines \in Nat
    /\ batch \in Seq(LineTask) /\ posted \in Seq(LineTask)
    /\ rl \in [Interface -> InterfaceRecord]

(* The parts of the elements of a queue of tasks or of answers.             *)
To(q, a) == q[a].to
LineAt(q, a) == q[a].line
QuestionAt(q, a) == q[a].q

(* The last line an interface has received, made after the line from.       *)
LastOf(from, got, answers) == from + Len(got) + Len(answers)
Heard(r) == LastOf(r.from, r.got, r.answers)

(* The lines it has received are those after from up to n.                  *)
Received(from, got, answers, n) ==
    /\ \A k \in 1 .. Len(got) : got[k] \in (from + 1) .. n
    /\ \A k \in 1 .. Len(answers) : LineAt(answers, k) \in (from + 1) .. n
    /\ \A m \in (from + 1) .. n :
          \/ \E k \in 1 .. Len(got) : got[k] = m
          \/ \E k \in 1 .. Len(answers) : LineAt(answers, k) = m
    /\ \A k \in 2 .. Len(got) : got[k - 1] < got[k]
    /\ \A k \in 2 .. Len(answers) : LineAt(answers, k - 1) < LineAt(answers, k)

(* Its questions are answered in the order it asked them.                   *)
InTurn(questions, answers, asked) ==
    /\ \A k \in 1 .. Len(answers) : QuestionAt(answers, k) = k
    /\ \A k \in 1 .. Len(questions) : questions[k] = Len(answers) + k
    /\ asked = Len(answers) + Len(questions)

Accounted(r) ==
    /\ Received(r.from, r.got, r.answers, Heard(r))
    /\ InTurn(r.questions, r.answers, r.asked)

(* The tasks q carry the lines after last to i, of the first n lines, and   *)
(* the end of the input only after the last of them.                        *)
Coming(q, i, last, n) ==
    /\ \A a \in 1 .. Len(q) : To(q, a) = i /\ LineAt(q, a) # EndOfInput =>
          LineAt(q, a) \in (last + 1) .. n
    /\ \A a, b \in 1 .. Len(q) : a < b /\ To(q, a) = i /\ To(q, b) = i =>
          LineAt(q, a) # EndOfInput /\ (LineAt(q, b) = EndOfInput \/ LineAt(q, a) < LineAt(q, b))
    /\ \A a \in 1 .. Len(q) : To(q, a) = i =>
          \A m \in (last + 1) .. (IF LineAt(q, a) = EndOfInput THEN n ELSE LineAt(q, a) - 1) :
             \E b \in 1 .. (a - 1) : To(q, b) = i /\ LineAt(q, b) = m

(* The tasks q carry every line after last up to n to i.                    *)
Complete(q, i, last, n) ==
    \A m \in (last + 1) .. n : \E a \in 1 .. Len(q) : To(q, a) = i /\ LineAt(q, a) = m

NoneFor(q, i) == \A a \in 1 .. Len(q) : To(q, a) # i

Pending == posted \o batch
Listed(l, i) == \E k \in 1 .. Len(l) : l[k] = i
Distinct(l) == \A j, k \in 1 .. Len(l) : l[j] = l[k] => j = k

(* What holds of the interface i, whose record is r.                        *)
InterfaceOK(i, r, l, q, p, n) ==
    /\ ~r.made => r = NewInterface
    /\ Accounted(r)
    /\ Heard(r) <= n
    /\ ~r.dead => Coming(q, i, Heard(r), n)
    /\ Listed(l, i) => r.made /\ ~r.dead /\ Complete(q, i, Heard(r), n)
    /\ r.sawEnd => p = "ended" /\ Heard(r) = n /\ NoneFor(q, i)

QueueOK ==
    /\ \A a \in 1 .. Len(Pending) :
          /\ rl[To(Pending, a)].made
          /\ LineAt(Pending, a) = EndOfInput => pump = "ended"
    /\ Distinct(listeners)

ReadlineInv ==
    /\ ReadlineTypes /\ QueueOK
    /\ \A i \in Interface : InterfaceOK(i, rl[i], listeners, Pending, pump, lines)
-----------------------------------------------------------------------------
(* Sequences of tasks.                                                      *)

(* The queue q without its first task is t.                                 *)
TasksShifted(t, q) ==
    /\ Len(q) \in Nat /\ Len(q) >= 1 /\ Len(t) = Len(q) - 1
    /\ \A a \in 1 .. Len(t) : To(t, a) = To(q, a + 1) /\ LineAt(t, a) = LineAt(q, a + 1)

(* The queue q is p and after it a task of the line e to each of l.         *)
Extends(q, p, l, e) ==
    /\ Len(p) \in Nat /\ Len(l) \in Nat /\ Len(q) = Len(p) + Len(l)
    /\ \A a \in 1 .. Len(p) : To(q, a) = To(p, a) /\ LineAt(q, a) = LineAt(p, a)
    /\ \A k \in 1 .. Len(l) : To(q, Len(p) + k) = l[k] /\ LineAt(q, Len(p) + k) = e

LEMMA TaskTail ==
    ASSUME NEW S, NEW q \in Seq(S), q # <<>>
    PROVE  /\ TasksShifted(Tail(q), q) /\ Tail(q) \in Seq(S) /\ Head(q) = q[1] /\ q[1] \in S
  <1>1. /\ Len(q) \in Nat /\ Len(q) >= 1 /\ Head(q) = q[1] /\ q[1] \in S
        /\ Tail(q) \in Seq(S) /\ Len(Tail(q)) = Len(q) - 1
        /\ \A a \in 1 .. Len(Tail(q)) : Tail(q)[a] = q[a + 1]
    OBVIOUS
  <1> QED
    BY <1>1 DEF TasksShifted, To, LineAt

(* A task to another interface leaves the queue.                            *)
LEMMA OthersTaskGone ==
    ASSUME NEW q, NEW t, TasksShifted(t, q), NEW i, NEW last \in Nat, NEW n \in Nat,
           Coming(q, i, last, n), To(q, 1) # i
    PROVE  Coming(t, i, last, n)
  <1>1. ASSUME NEW a \in 1 .. Len(t), To(t, a) = i,
               NEW m \in (last + 1) .. (IF LineAt(t, a) = EndOfInput THEN n ELSE LineAt(t, a) - 1)
        PROVE  \E b \in 1 .. (a - 1) : To(t, b) = i /\ LineAt(t, b) = m
    <2>1. /\ a + 1 \in 1 .. Len(q) /\ To(q, a + 1) = i
          /\ m \in (last + 1) .. (IF LineAt(q, a + 1) = EndOfInput THEN n ELSE LineAt(q, a + 1) - 1)
      BY <1>1 DEF TasksShifted
    <2>2. PICK b \in 1 .. ((a + 1) - 1) : To(q, b) = i /\ LineAt(q, b) = m
      BY <2>1 DEF Coming
    <2>3. b - 1 \in 1 .. (a - 1) /\ b - 1 \in 1 .. Len(t) /\ (b - 1) + 1 = b
      BY <2>2 DEF TasksShifted
    <2>4. To(t, b - 1) = i /\ LineAt(t, b - 1) = m
      BY <2>2, <2>3 DEF TasksShifted
    <2> QED
      BY <2>3, <2>4
  <1>2. ASSUME NEW a \in 1 .. Len(t), To(t, a) = i, LineAt(t, a) # EndOfInput
        PROVE  LineAt(t, a) \in (last + 1) .. n
    <2>1. a + 1 \in 1 .. Len(q) /\ To(q, a + 1) = i /\ LineAt(q, a + 1) = LineAt(t, a)
      BY <1>2 DEF TasksShifted
    <2> QED
      BY <1>2, <2>1 DEF Coming
  <1>3. ASSUME NEW a \in 1 .. Len(t), NEW b \in 1 .. Len(t), a < b, To(t, a) = i, To(t, b) = i
        PROVE  LineAt(t, a) # EndOfInput /\ (LineAt(t, b) = EndOfInput \/ LineAt(t, a) < LineAt(t, b))
    <2>1. /\ a + 1 \in 1 .. Len(q) /\ To(q, a + 1) = i /\ LineAt(q, a + 1) = LineAt(t, a)
          /\ b + 1 \in 1 .. Len(q) /\ To(q, b + 1) = i /\ LineAt(q, b + 1) = LineAt(t, b)
          /\ a + 1 < b + 1
      BY <1>3 DEF TasksShifted
    <2> QED
      BY <2>1 DEF Coming
  <1> QED
    BY <1>1, <1>2, <1>3 DEF Coming

(* A line for i leaves the queue: it is the very next one.                  *)
LEMMA NextLine ==
    ASSUME NEW q, NEW t, TasksShifted(t, q), NEW i, NEW last \in Nat, NEW n \in Nat,
           Coming(q, i, last, n), To(q, 1) = i, LineAt(q, 1) # EndOfInput
    PROVE  /\ LineAt(q, 1) = last + 1 /\ last + 1 <= n
           /\ Coming(t, i, last + 1, n)
  <1>1. 1 \in 1 .. Len(q)
    BY DEF TasksShifted
  <1>2. LineAt(q, 1) \in (last + 1) .. n
    BY <1>1 DEF Coming
  <1>3. \A m \in (last + 1) .. (LineAt(q, 1) - 1) : \E b \in 1 .. (1 - 1) : To(q, b) = i /\ LineAt(q, b) = m
    BY <1>1 DEF Coming
  <1>4. LineAt(q, 1) = last + 1
    BY <1>2, <1>3
  <1>5. ASSUME NEW a \in 1 .. Len(t), To(t, a) = i, LineAt(t, a) # EndOfInput
        PROVE  LineAt(t, a) \in ((last + 1) + 1) .. n
    <2>1. a + 1 \in 1 .. Len(q) /\ To(q, a + 1) = i /\ LineAt(q, a + 1) = LineAt(t, a) /\ 1 < a + 1
      BY <1>5 DEF TasksShifted
    <2>2. LineAt(q, a + 1) \in (last + 1) .. n /\ LineAt(q, 1) < LineAt(q, a + 1)
      BY <1>1, <1>5, <2>1 DEF Coming
    <2> QED
      BY <1>4, <2>1, <2>2
  <1>6. ASSUME NEW a \in 1 .. Len(t), To(t, a) = i,
               NEW m \in ((last + 1) + 1) .. (IF LineAt(t, a) = EndOfInput THEN n ELSE LineAt(t, a) - 1)
        PROVE  \E b \in 1 .. (a - 1) : To(t, b) = i /\ LineAt(t, b) = m
    <2>1. /\ a + 1 \in 1 .. Len(q) /\ To(q, a + 1) = i
          /\ m \in (last + 1) .. (IF LineAt(q, a + 1) = EndOfInput THEN n ELSE LineAt(q, a + 1) - 1)
      BY <1>6 DEF TasksShifted
    <2>2. PICK b \in 1 .. ((a + 1) - 1) : To(q, b) = i /\ LineAt(q, b) = m
      BY <2>1 DEF Coming
    <2>3. b # 1
      BY <1>4, <2>2
    <2>4. b - 1 \in 1 .. (a - 1) /\ b - 1 \in 1 .. Len(t) /\ (b - 1) + 1 = b
      BY <2>2, <2>3 DEF TasksShifted
    <2>5. To(t, b - 1) = i /\ LineAt(t, b - 1) = m
      BY <2>2, <2>4 DEF TasksShifted
    <2> QED
      BY <2>4, <2>5
  <1>7. ASSUME NEW a \in 1 .. Len(t), NEW b \in 1 .. Len(t), a < b, To(t, a) = i, To(t, b) = i
        PROVE  LineAt(t, a) # EndOfInput /\ (LineAt(t, b) = EndOfInput \/ LineAt(t, a) < LineAt(t, b))
    <2>1. /\ a + 1 \in 1 .. Len(q) /\ To(q, a + 1) = i /\ LineAt(q, a + 1) = LineAt(t, a)
          /\ b + 1 \in 1 .. Len(q) /\ To(q, b + 1) = i /\ LineAt(q, b + 1) = LineAt(t, b)
          /\ a + 1 < b + 1
      BY <1>7 DEF TasksShifted
    <2> QED
      BY <2>1 DEF Coming
  <1>8. last + 1 <= n
    BY <1>2, <1>4
  <1> QED
    BY <1>4, <1>5, <1>6, <1>7, <1>8 DEF Coming

(* The end of the input for i leaves the queue: i has had all the lines.    *)
LEMMA LastTask ==
    ASSUME NEW q, NEW t, TasksShifted(t, q), NEW i, NEW last \in Nat, NEW n \in Nat,
           last <= n, Coming(q, i, last, n), To(q, 1) = i, LineAt(q, 1) = EndOfInput
    PROVE  last = n /\ NoneFor(t, i) /\ Coming(t, i, last, n)
  <1>1. 1 \in 1 .. Len(q)
    BY DEF TasksShifted
  <1>2. \A m \in (last + 1) .. n : \E b \in 1 .. (1 - 1) : To(q, b) = i /\ LineAt(q, b) = m
    BY <1>1 DEF Coming
  <1>3. last = n
    BY <1>2
  <1>4. ASSUME NEW a \in 1 .. Len(t) PROVE To(t, a) # i
    <2>1. a + 1 \in 1 .. Len(q) /\ To(t, a) = To(q, a + 1) /\ 1 < a + 1
      BY <1>4 DEF TasksShifted
    <2> QED
      BY <1>1, <2>1 DEF Coming
  <1> QED
    BY <1>3, <1>4 DEF Coming, NoneFor

(* Nothing that was complete is lost with a task that is not the next line. *)
LEMMA StillComplete ==
    ASSUME NEW q, NEW t, TasksShifted(t, q), NEW i, NEW last \in Nat, NEW n \in Nat, NEW more \in {0, 1},
           Complete(q, i, last, n), To(q, 1) # i \/ (more = 1 /\ LineAt(q, 1) = last + 1)
    PROVE  Complete(t, i, last + more, n)
  <1> SUFFICES ASSUME NEW m \in ((last + more) + 1) .. n
               PROVE  \E a \in 1 .. Len(t) : To(t, a) = i /\ LineAt(t, a) = m
    BY DEF Complete
  <1>1. m \in (last + 1) .. n
    OBVIOUS
  <1>2. PICK b \in 1 .. Len(q) : To(q, b) = i /\ LineAt(q, b) = m
    BY <1>1 DEF Complete
  <1>3. b # 1
    BY <1>2
  <1>4. b - 1 \in 1 .. Len(t) /\ (b - 1) + 1 = b
    BY <1>2, <1>3 DEF TasksShifted
  <1>5. To(t, b - 1) = i /\ LineAt(t, b - 1) = m
    BY <1>2, <1>4 DEF TasksShifted
  <1> QED
    BY <1>4, <1>5

LEMMA StillNoneFor ==
    ASSUME NEW q, NEW t, TasksShifted(t, q), NEW i, NoneFor(q, i)
    PROVE  NoneFor(t, i) /\ To(q, 1) # i
  BY DEF TasksShifted, NoneFor

(* A task of the next line, or of the end of the input, to every listener   *)
(* is posted: what is coming to i stays in order.                           *)
LEMMA OneMoreLine ==
    ASSUME NEW q, NEW p, NEW l, Distinct(l), NEW e \in Nat, Extends(q, p, l, e),
           NEW i, NEW last \in Nat, NEW n \in Nat, NEW n2 \in Nat, last <= n,
           IF e = EndOfInput THEN n2 = n ELSE e = n + 1 /\ n2 = n + 1,
           \A a \in 1 .. Len(p) : LineAt(p, a) # EndOfInput,
           Coming(p, i, last, n), Listed(l, i) => Complete(p, i, last, n)
    PROVE  Coming(q, i, last, n2)
  <1> DEFINE N == Len(p)
  <1>0. N \in Nat /\ Len(l) \in Nat /\ Len(q) = N + Len(l)
    BY DEF Extends
  <1>1. \A a \in 1 .. N : To(q, a) = To(p, a) /\ LineAt(q, a) = LineAt(p, a) /\ LineAt(p, a) # EndOfInput
    BY DEF Extends
  <1>2. ASSUME NEW a \in (N + 1) .. Len(q)
        PROVE  /\ a - N \in 1 .. Len(l) /\ N + (a - N) = a
               /\ To(q, a) = l[a - N] /\ LineAt(q, a) = e
    <2>1. a - N \in 1 .. Len(l) /\ N + (a - N) = a
      BY <1>0, <1>2
    <2> QED
      BY <2>1 DEF Extends
  <1> HIDE DEF N
  <1>3. \A a \in 1 .. Len(q) : a \in 1 .. N \/ a \in (N + 1) .. Len(q)
    BY <1>0
  <1>4. ASSUME NEW a \in 1 .. N, To(p, a) = i PROVE LineAt(p, a) \in (last + 1) .. n
    BY <1>1, <1>4 DEF Coming, N
  <1>5. ASSUME NEW a \in 1 .. Len(q), To(q, a) = i, LineAt(q, a) # EndOfInput
        PROVE  LineAt(q, a) \in (last + 1) .. n2
    <2>1. CASE a \in 1 .. N
      <3>1. LineAt(q, a) \in (last + 1) .. n
        BY <1>1, <1>4, <1>5, <2>1
      <3> QED
        BY <3>1
    <2>2. CASE a \in (N + 1) .. Len(q)
      <3>1. LineAt(q, a) = e
        BY <1>2, <2>2
      <3> QED
        BY <1>5, <3>1
    <2> QED
      BY <1>3, <2>1, <2>2
  <1>6. ASSUME NEW a \in 1 .. Len(q), NEW b \in 1 .. Len(q), a < b, To(q, a) = i, To(q, b) = i
        PROVE  LineAt(q, a) # EndOfInput /\ (LineAt(q, b) = EndOfInput \/ LineAt(q, a) < LineAt(q, b))
    <2>1. CASE a \in 1 .. N /\ b \in 1 .. N
      BY <1>1, <1>6, <2>1 DEF Coming, N
    <2>2. CASE a \in 1 .. N /\ b \in (N + 1) .. Len(q)
      <3>1. LineAt(q, a) \in (last + 1) .. n /\ LineAt(q, a) # EndOfInput
        BY <1>1, <1>4, <1>6, <2>2
      <3>2. LineAt(q, b) = e
        BY <1>2, <2>2
      <3> QED
        BY <3>1, <3>2
    <2>3. CASE a \in (N + 1) .. Len(q) /\ b \in (N + 1) .. Len(q)
      <3>1. l[a - N] = l[b - N] /\ a - N \in 1 .. Len(l) /\ b - N \in 1 .. Len(l)
        BY <1>2, <1>6, <2>3
      <3>2. a - N = b - N
        BY <3>1 DEF Distinct
      <3> QED
        BY <1>0, <1>6, <3>2
    <2>4. ~(a \in (N + 1) .. Len(q) /\ b \in 1 .. N)
      BY <1>0, <1>6
    <2> QED
      BY <1>3, <2>1, <2>2, <2>3, <2>4
  <1>7. ASSUME NEW a \in 1 .. Len(q), To(q, a) = i,
               NEW m \in (last + 1) .. (IF LineAt(q, a) = EndOfInput THEN n2 ELSE LineAt(q, a) - 1)
        PROVE  \E b \in 1 .. (a - 1) : To(q, b) = i /\ LineAt(q, b) = m
    <2>1. CASE a \in 1 .. N
      <3>1. To(p, a) = i /\ LineAt(p, a) # EndOfInput /\ m \in (last + 1) .. (LineAt(p, a) - 1)
        BY <1>1, <1>7, <2>1
      <3>2. PICK b \in 1 .. (a - 1) : To(p, b) = i /\ LineAt(p, b) = m
        BY <2>1, <3>1 DEF Coming, N
      <3>3. b \in 1 .. N
        BY <1>0, <2>1, <3>2
      <3> QED
        BY <1>1, <3>2, <3>3
    <2>2. CASE a \in (N + 1) .. Len(q)
      <3>1. LineAt(q, a) = e /\ l[a - N] = i /\ a - N \in 1 .. Len(l)
        BY <1>2, <1>7, <2>2
      <3>2. m \in (last + 1) .. n
        BY <3>1
      <3>3. PICK b \in 1 .. N : To(p, b) = i /\ LineAt(p, b) = m
        BY <3>1, <3>2 DEF Complete, Listed, N
      <3>4. b \in 1 .. (a - 1)
        BY <1>0, <2>2, <3>3
      <3> QED
        BY <1>1, <3>3, <3>4
    <2> QED
      BY <1>3, <2>1, <2>2
  <1> QED
    BY <1>5, <1>6, <1>7 DEF Coming

(* ... and it is complete for the listeners.                                *)
LEMMA CompleteAgain ==
    ASSUME NEW q, NEW p, NEW l, NEW e \in Nat, Extends(q, p, l, e),
           NEW i, NEW last \in Nat, NEW n \in Nat, NEW n2 \in Nat,
           IF e = EndOfInput THEN n2 = n ELSE e = n + 1 /\ n2 = n + 1,
           Listed(l, i), Complete(p, i, last, n)
    PROVE  Complete(q, i, last, n2)
  <1> SUFFICES ASSUME NEW m \in (last + 1) .. n2
               PROVE  \E a \in 1 .. Len(q) : To(q, a) = i /\ LineAt(q, a) = m
    BY DEF Complete
  <1>1. CASE m \in (last + 1) .. n
    <2>1. PICK a \in 1 .. Len(p) : To(p, a) = i /\ LineAt(p, a) = m
      BY <1>1 DEF Complete
    <2>2. a \in 1 .. Len(q)
      BY <2>1 DEF Extends
    <2> QED
      BY <2>1, <2>2 DEF Extends
  <1>2. CASE m \notin (last + 1) .. n
    <2>1. e = m
      BY <1>2
    <2>2. PICK k \in 1 .. Len(l) : l[k] = i
      BY DEF Listed
    <2>3. Len(p) + k \in 1 .. Len(q) /\ To(q, Len(p) + k) = i /\ LineAt(q, Len(p) + k) = e
      BY <2>2 DEF Extends
    <2> QED
      BY <2>1, <2>3
  <1> QED
    BY <1>1, <1>2

-----------------------------------------------------------------------------
(* An interface receives the next line.                                     *)

LEMMA Appended ==
    ASSUME NEW S, NEW s \in Seq(S), NEW e \in S
    PROVE  /\ Len(s) \in Nat /\ Append(s, e) \in Seq(S) /\ Len(Append(s, e)) = Len(s) + 1
           /\ \A k \in 1 .. Len(s) : Append(s, e)[k] = s[k]
           /\ Append(s, e)[Len(s) + 1] = e
  OBVIOUS

LEMMA LastOfIs ==
    ASSUME NEW from \in Nat, NEW S, NEW T, NEW got \in Seq(S), NEW answers \in Seq(T)
    PROVE  LastOf(from, got, answers) \in Nat /\ LastOf(from, got, answers) >= from
  BY DEF LastOf

LEMMA GotMore ==
    ASSUME NEW from \in Nat, NEW got \in Seq(Nat), NEW answers \in Seq(Answer), NEW n \in Nat,
           n = LastOf(from, got, answers), Received(from, got, answers, n)
    PROVE  /\ LastOf(from, Append(got, n + 1), answers) = n + 1
           /\ Received(from, Append(got, n + 1), answers, n + 1)
  <1> DEFINE more == Append(got, n + 1)
  <1>1. /\ Len(got) \in Nat /\ Len(answers) \in Nat
        /\ Len(more) = Len(got) + 1 /\ more[Len(got) + 1] = n + 1
        /\ \A k \in 1 .. Len(got) : more[k] = got[k]
    BY Appended
  <1> HIDE DEF more
  <1>2. LastOf(from, more, answers) = n + 1 /\ n >= from
    BY <1>1 DEF LastOf
  <1>3. ASSUME NEW k \in 1 .. Len(more) PROVE more[k] \in (from + 1) .. (n + 1)
    <2>1. CASE k \in 1 .. Len(got)
      <3>1. more[k] \in (from + 1) .. n
        BY <1>1, <2>1 DEF Received
      <3> QED
        BY <3>1
    <2>2. CASE k \notin 1 .. Len(got)
      <3>1. k = Len(got) + 1
        BY <1>1, <2>2
      <3>2. more[k] = n + 1
        BY <1>1, <3>1
      <3> QED
        BY <1>2, <3>2
    <2> QED
      BY <2>1, <2>2
  <1>4. ASSUME NEW k \in 1 .. Len(answers) PROVE LineAt(answers, k) \in (from + 1) .. (n + 1)
    <2>1. LineAt(answers, k) \in (from + 1) .. n
      BY DEF Received
    <2> QED
      BY <2>1
  <1>5. ASSUME NEW m \in (from + 1) .. (n + 1)
        PROVE  \/ \E k \in 1 .. Len(more) : more[k] = m
               \/ \E k \in 1 .. Len(answers) : LineAt(answers, k) = m
    <2>1. CASE m = n + 1
      BY <1>1, <2>1
    <2>2. CASE m # n + 1
      <3>1. m \in (from + 1) .. n
        BY <2>2
      <3>2. \A k \in 1 .. Len(got) : k \in 1 .. Len(more) /\ more[k] = got[k]
        BY <1>1
      <3>3. \/ \E k \in 1 .. Len(got) : got[k] = m
            \/ \E k \in 1 .. Len(answers) : LineAt(answers, k) = m
        BY <3>1 DEF Received
      <3> QED
        BY <3>2, <3>3
    <2> QED
      BY <2>1, <2>2
  <1>6. ASSUME NEW k \in 2 .. Len(more) PROVE more[k - 1] < more[k]
    <2>0. k - 1 \in 1 .. Len(got) /\ more[k - 1] = got[k - 1]
      BY <1>1
    <2>1. CASE k = Len(got) + 1
      <3>1. got[k - 1] \in (from + 1) .. n
        BY <2>0 DEF Received
      <3> QED
        BY <1>1, <2>0, <2>1, <3>1
    <2>2. CASE k # Len(got) + 1
      <3>1. k \in 2 .. Len(got) /\ more[k] = got[k]
        BY <1>1, <2>2
      <3> QED
        BY <2>0, <3>1 DEF Received
    <2> QED
      BY <2>1, <2>2
  <1>7. Received(from, more, answers, n + 1)
    BY <1>3, <1>4, <1>5, <1>6 DEF Received
  <1> QED
    BY <1>2, <1>7 DEF more

LEMMA AnsweredMore ==
    ASSUME NEW from \in Nat, NEW got \in Seq(Nat), NEW answers \in Seq(Answer), NEW n \in Nat,
           NEW reply \in Answer, reply.line = n + 1,
           n = LastOf(from, got, answers), Received(from, got, answers, n)
    PROVE  /\ LastOf(from, got, Append(answers, reply)) = n + 1
           /\ Received(from, got, Append(answers, reply), n + 1)
  <1> DEFINE more == Append(answers, reply)
  <1>1. /\ Len(got) \in Nat /\ Len(answers) \in Nat
        /\ Len(more) = Len(answers) + 1 /\ LineAt(more, Len(answers) + 1) = n + 1
        /\ \A k \in 1 .. Len(answers) : LineAt(more, k) = LineAt(answers, k)
    BY Appended DEF LineAt
  <1> HIDE DEF more
  <1>2. LastOf(from, got, more) = n + 1 /\ n >= from
    BY <1>1 DEF LastOf
  <1>3. ASSUME NEW k \in 1 .. Len(got) PROVE got[k] \in (from + 1) .. (n + 1)
    <2>1. got[k] \in (from + 1) .. n
      BY DEF Received
    <2> QED
      BY <2>1
  <1>4. ASSUME NEW k \in 1 .. Len(more) PROVE LineAt(more, k) \in (from + 1) .. (n + 1)
    <2>1. CASE k \in 1 .. Len(answers)
      <3>1. LineAt(more, k) \in (from + 1) .. n
        BY <1>1, <2>1 DEF Received
      <3> QED
        BY <3>1
    <2>2. CASE k \notin 1 .. Len(answers)
      BY <1>1, <1>2, <2>2
    <2> QED
      BY <2>1, <2>2
  <1>5. ASSUME NEW m \in (from + 1) .. (n + 1)
        PROVE  \/ \E k \in 1 .. Len(got) : got[k] = m
               \/ \E k \in 1 .. Len(more) : LineAt(more, k) = m
    <2>1. CASE m = n + 1
      BY <1>1, <2>1
    <2>2. CASE m # n + 1
      <3>1. m \in (from + 1) .. n
        BY <2>2
      <3>2. \A k \in 1 .. Len(answers) : k \in 1 .. Len(more) /\ LineAt(more, k) = LineAt(answers, k)
        BY <1>1
      <3> QED
        BY <3>1, <3>2 DEF Received
    <2> QED
      BY <2>1, <2>2
  <1>6. ASSUME NEW k \in 2 .. Len(more) PROVE LineAt(more, k - 1) < LineAt(more, k)
    <2>0. k - 1 \in 1 .. Len(answers) /\ LineAt(more, k - 1) = LineAt(answers, k - 1)
      BY <1>1
    <2>1. CASE k = Len(answers) + 1
      <3>1. LineAt(answers, k - 1) \in (from + 1) .. n
        BY <2>0 DEF Received
      <3> QED
        BY <1>1, <2>0, <2>1, <3>1
    <2>2. CASE k # Len(answers) + 1
      <3>1. k \in 2 .. Len(answers) /\ LineAt(more, k) = LineAt(answers, k)
        BY <1>1, <2>2
      <3> QED
        BY <2>0, <3>1 DEF Received
    <2> QED
      BY <2>1, <2>2
  <1>7. Received(from, got, more, n + 1)
    BY <1>3, <1>4, <1>5, <1>6 DEF Received
  <1> QED
    BY <1>2, <1>7 DEF more

(* The oldest question is the one after those already answered.             *)
LEMMA NextQuestion ==
    ASSUME NEW questions \in Seq(Nat), NEW answers \in Seq(Answer), NEW asked, NEW n \in Nat,
           questions # <<>>, InTurn(questions, answers, asked)
    PROVE  LET reply == [q |-> Head(questions), line |-> n]
           IN  /\ reply \in Answer /\ reply.line = n
               /\ InTurn(Tail(questions), Append(answers, reply), asked)
  <1> DEFINE reply == [q |-> Head(questions), line |-> n]
             more == Append(answers, reply)
             rest == Tail(questions)
  <1>1. /\ Len(questions) \in Nat /\ Len(questions) >= 1 /\ Head(questions) = questions[1]
        /\ questions[1] \in Nat /\ Len(rest) = Len(questions) - 1
        /\ \A k \in 1 .. Len(rest) : rest[k] = questions[k + 1]
    OBVIOUS
  <1>2. Head(questions) = Len(answers) + 1
    BY <1>1 DEF InTurn
  <1>3. reply \in Answer /\ reply.line = n /\ reply.q = Len(answers) + 1
    BY <1>1, <1>2 DEF Answer
  <1> HIDE DEF reply
  <1>4. /\ Len(answers) \in Nat /\ Len(more) = Len(answers) + 1
        /\ QuestionAt(more, Len(answers) + 1) = Len(answers) + 1
        /\ \A k \in 1 .. Len(answers) : QuestionAt(more, k) = QuestionAt(answers, k)
    BY <1>3, Appended DEF QuestionAt
  <1> HIDE DEF more, rest
  <1>5. \A k \in 1 .. Len(more) : QuestionAt(more, k) = k
    <2>1. \A k \in 1 .. Len(answers) : QuestionAt(answers, k) = k
      BY DEF InTurn
    <2> QED
      BY <1>4, <2>1
  <1>6. \A k \in 1 .. Len(rest) : rest[k] = Len(more) + k
    <2> SUFFICES ASSUME NEW k \in 1 .. Len(rest) PROVE rest[k] = Len(more) + k
      OBVIOUS
    <2>1. k + 1 \in 1 .. Len(questions)
      BY <1>1
    <2>2. questions[k + 1] = Len(answers) + (k + 1)
      BY <2>1 DEF InTurn
    <2> QED
      BY <1>1, <1>4, <2>2
  <1>7. asked = Len(more) + Len(rest)
    <2>1. asked = Len(answers) + Len(questions)
      BY DEF InTurn
    <2> QED
      BY <1>1, <1>4, <2>1
  <1>8. InTurn(rest, more, asked)
    BY <1>5, <1>6, <1>7 DEF InTurn
  <1> QED
    BY <1>3, <1>8 DEF reply, more, rest

LEMMA HeardIsNat ==
    ASSUME NEW r \in InterfaceRecord PROVE Heard(r) \in Nat
  <1>1. r.from \in Nat /\ r.got \in Seq(Nat) /\ r.answers \in Seq(Answer)
    BY DEF InterfaceRecord
  <1> QED
    BY <1>1, LastOfIs DEF Heard

LEMMA ReceivesLine ==
    ASSUME NEW r \in InterfaceRecord, Accounted(r)
    PROVE  LET n == Heard(r) + 1
               s == Receives(r, n)
           IN  /\ s \in InterfaceRecord /\ Accounted(s) /\ Heard(s) = n
               /\ s.made = r.made /\ s.dead = r.dead /\ s.sawEnd = r.sawEnd
  <1> DEFINE h == Heard(r)
             n == h + 1
  <1>1. /\ r.from \in Nat /\ r.got \in Seq(Nat) /\ r.answers \in Seq(Answer)
        /\ r.questions \in Seq(Nat)
    BY DEF InterfaceRecord
  <1>2. /\ h \in Nat /\ h = LastOf(r.from, r.got, r.answers)
        /\ Received(r.from, r.got, r.answers, h) /\ InTurn(r.questions, r.answers, r.asked)
    BY HeardIsNat DEF Heard, Accounted
  <1> HIDE DEF h
  <1>3. n # EndOfInput /\ n \in Nat
    BY <1>2 DEF EndOfInput
  <1>4. CASE r.questions = <<>>
    <2> DEFINE s == [r EXCEPT !.got = Append(@, n)]
    <2>1. Receives(r, n) = s
      BY <1>3, <1>4 DEF Receives
    <2>2. Append(r.got, n) \in Seq(Nat)
      BY <1>1, <1>3, Appended
    <2>3. /\ s \in InterfaceRecord
          /\ s.made = r.made /\ s.dead = r.dead /\ s.sawEnd = r.sawEnd
          /\ s.from = r.from /\ s.answers = r.answers /\ s.questions = r.questions
          /\ s.asked = r.asked /\ s.got = Append(r.got, n)
      BY <2>2 DEF InterfaceRecord
    <2>4. /\ LastOf(r.from, Append(r.got, n), r.answers) = n
          /\ Received(r.from, Append(r.got, n), r.answers, n)
      BY <1>1, <1>2, GotMore
    <2> HIDE DEF s, n
    <2>5. Heard(s) = n /\ Accounted(s)
      BY <1>2, <2>3, <2>4 DEF Heard, Accounted
    <2> QED
      BY <2>1, <2>3, <2>5 DEF n, h
  <1>5. CASE r.questions # <<>>
    <2> DEFINE reply == [q |-> Head(r.questions), line |-> n]
               s == [r EXCEPT !.questions = Tail(@), !.answers = Append(@, reply)]
    <2>1. Receives(r, n) = s
      BY <1>3, <1>5 DEF Receives
    <2>2. reply \in Answer /\ reply.line = n /\ InTurn(Tail(r.questions), Append(r.answers, reply), r.asked)
      BY <1>1, <1>2, <1>3, <1>5, NextQuestion
    <2> HIDE DEF reply
    <2>3. Tail(r.questions) \in Seq(Nat) /\ Append(r.answers, reply) \in Seq(Answer)
      BY <1>1, <1>5, <2>2, Appended
    <2>4. /\ s \in InterfaceRecord
          /\ s.made = r.made /\ s.dead = r.dead /\ s.sawEnd = r.sawEnd
          /\ s.from = r.from /\ s.got = r.got /\ s.questions = Tail(r.questions)
          /\ s.asked = r.asked /\ s.answers = Append(r.answers, reply)
      BY <2>3 DEF InterfaceRecord
    <2>5. /\ LastOf(r.from, r.got, Append(r.answers, reply)) = n
          /\ Received(r.from, r.got, Append(r.answers, reply), n)
      BY <1>1, <1>2, <2>2, AnsweredMore
    <2> HIDE DEF s, n
    <2>6. Heard(s) = n /\ Accounted(s)
      BY <2>2, <2>4, <2>5 DEF Heard, Accounted
    <2> QED
      BY <2>1, <2>4, <2>6 DEF n, h
  <1> QED
    BY <1>4, <1>5

-----------------------------------------------------------------------------
(* The table of listeners.                                                  *)

LEMMA Registered ==
    ASSUME NEW l \in Seq(Interface), NEW i \in Interface, Distinct(l), ~Listed(l, i)
    PROVE  /\ Append(l, i) \in Seq(Interface) /\ Distinct(Append(l, i))
           /\ \A j : Listed(Append(l, i), j) <=> j = i \/ Listed(l, j)
  <1> DEFINE m == Append(l, i)
  <1>1. /\ Len(l) \in Nat /\ m \in Seq(Interface) /\ Len(m) = Len(l) + 1
        /\ \A k \in 1 .. Len(l) : m[k] = l[k]
        /\ m[Len(l) + 1] = i
    BY Appended
  <1> HIDE DEF m
  <1>2. \A k \in 1 .. Len(m) : k \in 1 .. Len(l) \/ k = Len(l) + 1
    BY <1>1
  <1>3. \A k \in 1 .. Len(l) : k \in 1 .. Len(m) /\ k # Len(l) + 1
    BY <1>1
  <1>4. Len(l) + 1 \in 1 .. Len(m)
    BY <1>1
  <1>5. Distinct(m)
    BY <1>1, <1>2 DEF Distinct, Listed
  <1>6. \A j : Listed(m, j) <=> j = i \/ Listed(l, j)
    BY <1>1, <1>2, <1>3, <1>4 DEF Listed
  <1> QED
    BY <1>1, <1>5, <1>6 DEF m

LEMMA TasksJoined ==
    ASSUME NEW S, NEW s \in Seq(S), NEW t \in Seq(S), NEW m, m = s \o t
    PROVE  /\ m \in Seq(S) /\ Len(m) = Len(s) + Len(t)
           /\ \A k \in 1 .. Len(s) : m[k] = s[k]
           /\ \A k \in 1 .. Len(t) : m[Len(s) + k] = t[k]
  <1>1. m \in Seq(S) /\ Len(m) = Len(s) + Len(t)
    OBVIOUS
  <1>2. \A k \in 1 .. Len(s) : m[k] = s[k]
    OBVIOUS
  <1>3. ASSUME NEW k \in 1 .. Len(t) PROVE m[Len(s) + k] = t[k]
    OBVIOUS
  <1> QED
    BY <1>1, <1>2, <1>3

LEMMA Removed ==
    ASSUME NEW S, NEW s \in Seq(S), NEW k \in 1 .. Len(s)
    PROVE  /\ RemoveAt(s, k) \in Seq(S) /\ Len(RemoveAt(s, k)) = Len(s) - 1 /\ Len(s) \in Nat
           /\ \A a \in 1 .. Len(RemoveAt(s, k)) : RemoveAt(s, k)[a] = s[IF a < k THEN a ELSE a + 1]
  <1> DEFINE low == SubSeq(s, 1, k - 1)
             high == SubSeq(s, k + 1, Len(s))
             N == Len(s)
  <1>1. N \in Nat /\ k \in 1 .. N
    OBVIOUS
  <1>2. low \in Seq(S) /\ Len(low) = k - 1 /\ \A a \in 1 .. (k - 1) : low[a] = s[a]
    BY <1>1
  <1>3. high \in Seq(S) /\ Len(high) = N - k /\ \A a \in 1 .. (N - k) : high[a] = s[k + a]
    <2>1. high \in Seq(S)
      BY <1>1
    <2>2. Len(high) = N - k
      BY <1>1
    <2>3. ASSUME NEW a \in 1 .. (N - k) PROVE high[a] = s[k + a]
      BY <1>1
    <2> QED
      BY <2>1, <2>2, <2>3
  <1>4. RemoveAt(s, k) = low \o high
    BY DEF RemoveAt
  <1> HIDE DEF low, high, N
  <1> DEFINE m == low \o high
  <1>5. /\ m \in Seq(S) /\ Len(m) = (k - 1) + (N - k)
        /\ \A a \in 1 .. (k - 1) : m[a] = low[a]
        /\ \A a \in 1 .. (N - k) : m[(k - 1) + a] = high[a]
    <2>1. m = low \o high
      OBVIOUS
    <2> HIDE DEF m
    <2>2. /\ m \in Seq(S) /\ Len(m) = Len(low) + Len(high)
          /\ \A a \in 1 .. Len(low) : m[a] = low[a]
          /\ \A a \in 1 .. Len(high) : m[Len(low) + a] = high[a]
      <3>1. low \in Seq(S) /\ high \in Seq(S)
        BY <1>2, <1>3
      <3> QED
        BY <2>1, <3>1, TasksJoined
    <2> QED
      BY <1>2, <1>3, <2>2
  <1> HIDE DEF m
  <1>6. ASSUME NEW a \in 1 .. Len(m) PROVE m[a] = s[IF a < k THEN a ELSE a + 1]
    <2>1. CASE a < k
      <3>1. a \in 1 .. (k - 1)
        BY <1>1, <2>1
      <3> QED
        BY <1>2, <1>5, <2>1, <3>1
    <2>2. CASE ~(a < k)
      <3> DEFINE b == a - (k - 1)
      <3>1. b \in 1 .. (N - k) /\ (k - 1) + b = a /\ k + b = a + 1
        BY <1>1, <1>5, <2>2
      <3> HIDE DEF b
      <3> QED
        BY <1>3, <1>5, <2>2, <3>1
    <2> QED
      BY <2>1, <2>2
  <1>7. Len(m) = N - 1
    BY <1>1, <1>5
  <1> QED
    BY <1>1, <1>4, <1>5, <1>6, <1>7 DEF m, N

(* A task of the broadcast is posted.                                       *)
LEMMA MovedOne ==
    ASSUME NEW S, NEW p \in Seq(S), NEW b \in Seq(S), b # <<>>
    PROVE  Append(p, Head(b)) \o Tail(b) = p \o b
  OBVIOUS

(* The first of the pending tasks runs.                                     *)
LEMMA HeadFirst ==
    ASSUME NEW S, NEW p \in Seq(S), NEW b \in Seq(S), p # <<>>
    PROVE  /\ TasksShifted(Tail(p) \o b, p \o b) /\ (p \o b)[1] = Head(p) /\ 1 \in 1 .. Len(p \o b)
  <1> DEFINE q == p \o b
  <1>1. q \in Seq(S) /\ q # <<>>
    OBVIOUS
  <1>2. Tail(p) \o b = Tail(q) /\ Head(p) = Head(q)
    OBVIOUS
  <1> HIDE DEF q
  <1>3. TasksShifted(Tail(q), q) /\ Head(q) = q[1] /\ 1 \in 1 .. Len(q)
    BY <1>1, TaskTail DEF TasksShifted
  <1>4. TasksShifted(Tail(p) \o b, q) /\ q[1] = Head(p) /\ 1 \in 1 .. Len(q)
    BY <1>2, <1>3
  <1> QED
    BY <1>4 DEF q

LEMMA Unregistered ==
    ASSUME NEW l \in Seq(Interface), NEW i, Distinct(l)
    PROVE  /\ RemoveFirst(l, i) \in Seq(Interface) /\ Distinct(RemoveFirst(l, i))
           /\ \A j : Listed(RemoveFirst(l, i), j) => Listed(l, j)
  <1>1. CASE ~Listed(l, i)
    BY <1>1 DEF RemoveFirst, Listed
  <1>2. CASE Listed(l, i)
    <2>1. PICK k \in 1 .. Len(l) : l[k] = i
      BY <1>2 DEF Listed
    <2>2. {a \in 1 .. Len(l) : l[a] = i} = {k}
      BY <2>1 DEF Distinct
    <2>3. Min({k}) = k
      BY <2>1 DEF Min
    <2>4. RemoveFirst(l, i) = RemoveAt(l, k)
      BY <1>2, <2>2, <2>3 DEF RemoveFirst, SelectInSeq, Listed
    <2> DEFINE m == RemoveAt(l, k)
               old(a) == IF a < k THEN a ELSE a + 1
    <2>5. /\ m \in Seq(Interface) /\ Len(m) = Len(l) - 1 /\ Len(l) \in Nat
          /\ \A a \in 1 .. Len(m) : m[a] = l[old(a)]
      BY <2>1, Removed
    <2> HIDE DEF m
    <2>6. \A a \in 1 .. Len(m) : old(a) \in 1 .. Len(l) /\ \A b \in 1 .. Len(m) : old(a) = old(b) => a = b
      BY <2>1, <2>5
    <2> HIDE DEF old
    <2>7. Distinct(m) /\ \A j : Listed(m, j) => Listed(l, j)
      BY <2>5, <2>6 DEF Distinct, Listed
    <2> QED
      BY <2>4, <2>5, <2>7 DEF m
  <1> QED
    BY <1>1, <1>2

-----------------------------------------------------------------------------
(* The steps.                                                               *)

LEMMA OthersKeep ==
    ASSUME NEW i, NEW r, NEW l, NEW l2, NEW q, NEW p, NEW p2, NEW n,
           InterfaceOK(i, r, l, q, p, n),
           Listed(l2, i) => Listed(l, i), p = "ended" => p2 = "ended"
    PROVE  InterfaceOK(i, r, l2, q, p2, n)
  BY DEF InterfaceOK

LEMMA PendingTasks ==
    ASSUME ReadlineTypes
    PROVE  /\ Pending \in Seq(LineTask)
           /\ \A a \in 1 .. Len(Pending) : To(Pending, a) \in Interface /\ LineAt(Pending, a) \in Nat
  <1>1. Pending \in Seq(LineTask)
    BY DEF ReadlineTypes, Pending
  <1>2. \A a \in 1 .. Len(Pending) : Pending[a] \in LineTask
    BY <1>1
  <1> QED
    BY <1>1, <1>2 DEF LineTask, To, LineAt

LEMMA NewRecord ==
    ASSUME NEW n \in Nat
    PROVE  LET s == [NewInterface EXCEPT !.made = TRUE, !.from = n]
           IN  /\ s \in InterfaceRecord /\ Heard(s) = n /\ Accounted(s)
               /\ s.made /\ ~s.dead /\ ~s.sawEnd
  <1> DEFINE s == [NewInterface EXCEPT !.made = TRUE, !.from = n]
  <1>0. <<>> \in Seq(Nat) /\ <<>> \in Seq(Answer)
    OBVIOUS
  <1>1. /\ s \in InterfaceRecord
        /\ s.made /\ ~s.dead /\ ~s.sawEnd /\ s.from = n /\ s.got = <<>> /\ s.answers = <<>>
        /\ s.questions = <<>> /\ s.asked = 0
    <2>1. /\ s.made /\ ~s.dead /\ ~s.sawEnd /\ s.from = n /\ s.got = <<>> /\ s.answers = <<>>
          /\ s.questions = <<>> /\ s.asked = 0
      BY DEF NewInterface
    <2>2. NewInterface \in InterfaceRecord
      BY <1>0 DEF NewInterface, InterfaceRecord
    <2>3. s \in InterfaceRecord
      BY <2>2 DEF InterfaceRecord
    <2> QED
      BY <2>1, <2>3
  <1> HIDE DEF s
  <1>2. Heard(s) = n
    BY <1>1 DEF Heard, LastOf
  <1>3. Received(n, <<>>, <<>>, n) /\ InTurn(<<>>, <<>>, 0)
    BY DEF Received, InTurn
  <1>4. Accounted(s)
    BY <1>1, <1>2, <1>3 DEF Accounted
  <1> QED
    BY <1>1, <1>2, <1>4 DEF s

LEMMA CreateStep ==
    ASSUME ReadlineInv, NEW i \in Interface, createInterface(i)
    PROVE  ReadlineInv'
  <1> DEFINE s == [NewInterface EXCEPT !.made = TRUE, !.from = lines]
  <1>1. /\ ReadlineTypes /\ QueueOK /\ Distinct(listeners) /\ lines \in Nat
        /\ \A j \in Interface : InterfaceOK(j, rl[j], listeners, Pending, pump, lines)
    BY DEF ReadlineInv, QueueOK, ReadlineTypes
  <1>2. /\ s \in InterfaceRecord /\ Heard(s) = lines /\ Accounted(s)
        /\ s.made /\ ~s.dead /\ ~s.sawEnd
    BY <1>1, NewRecord
  <1>3. ~rl[i].made /\ rl[i] = NewInterface
    BY <1>1 DEF createInterface, InterfaceOK
  <1> HIDE DEF s
  <1>4. rl \in [Interface -> InterfaceRecord] /\ rl' = [rl EXCEPT ![i] = s]
    BY <1>1, <1>3 DEF createInterface, ReadlineTypes, s
  <1>5. rl'[i] = s /\ \A j \in Interface \ {i} : rl'[j] = rl[j]
    BY <1>4
  <1>6. ~Listed(listeners, i)
    BY <1>1, <1>3 DEF InterfaceOK
  <1>7. /\ listeners' \in Seq(Interface) /\ Distinct(listeners')
        /\ \A j : Listed(listeners', j) <=> j = i \/ Listed(listeners, j)
    BY <1>1, <1>6, Registered DEF createInterface, ReadlineTypes
  <1>8. ReadlineTypes'
    BY <1>1, <1>2, <1>4, <1>7 DEF createInterface, ReadlineTypes
  <1>9. Pending' = Pending /\ lines' = lines /\ (pump = "ended" => pump' = "ended")
    BY DEF createInterface, Pending
  <1>10. NoneFor(Pending, i)
    BY <1>1, <1>3 DEF QueueOK, NoneFor
  <1>11. InterfaceOK(i, s, listeners', Pending, pump', lines)
    <2>1. Coming(Pending, i, lines, lines)
      BY <1>10 DEF Coming, NoneFor
    <2>2. Complete(Pending, i, lines, lines)
      BY <1>1 DEF Complete
    <2> QED
      BY <1>1, <1>2, <2>1, <2>2 DEF InterfaceOK
  <1>12. ASSUME NEW j \in Interface, j # i
         PROVE  InterfaceOK(j, rl[j], listeners', Pending, pump', lines)
    BY <1>1, <1>7, <1>9, <1>12, OthersKeep
  <1>13. \A j \in Interface : InterfaceOK(j, rl'[j], listeners', Pending', pump', lines')
    BY <1>5, <1>9, <1>11, <1>12
  <1>14. \A a \in 1 .. Len(Pending) : rl'[To(Pending, a)].made
    BY <1>1, <1>2, <1>5, PendingTasks DEF QueueOK
  <1>15. QueueOK'
    BY <1>1, <1>7, <1>9, <1>14 DEF QueueOK
  <1> QED
    BY <1>8, <1>13, <1>15 DEF ReadlineInv

(* What a step that changes the record of i and the table may not touch.    *)
LEMMA RecordStep ==
    ASSUME ReadlineInv, NEW i \in Interface, rl[i].made, NEW s \in InterfaceRecord,
           s.made, s.dead = rl[i].dead, s.sawEnd = rl[i].sawEnd,
           s.from = rl[i].from, s.got = rl[i].got, s.answers = rl[i].answers,
           InTurn(s.questions, s.answers, s.asked),
           rl' = [rl EXCEPT ![i] = s],
           listeners' \in Seq(Interface), Distinct(listeners'),
           \A j : Listed(listeners', j) => Listed(listeners, j),
           UNCHANGED <<pump, lines, batch, posted>>
    PROVE  ReadlineInv'
  <1>1. /\ ReadlineTypes /\ QueueOK /\ lines \in Nat
        /\ \A j \in Interface : InterfaceOK(j, rl[j], listeners, Pending, pump, lines)
    BY DEF ReadlineInv, ReadlineTypes
  <1>2. ReadlineTypes'
    BY <1>1 DEF ReadlineTypes
  <1>3. rl'[i] = s /\ \A j \in Interface \ {i} : rl'[j] = rl[j]
    BY <1>1 DEF ReadlineTypes
  <1>4. Pending' = Pending
    BY DEF Pending
  <1>5. Heard(s) = Heard(rl[i]) /\ Accounted(s)
    BY <1>1 DEF Heard, Accounted, InterfaceOK
  <1>6. InterfaceOK(i, s, listeners, Pending, pump, lines)
    <2>1. InterfaceOK(i, rl[i], listeners, Pending, pump, lines)
      BY <1>1
    <2> QED
      BY <1>5, <2>1 DEF InterfaceOK
  <1>7. \A j \in Interface : InterfaceOK(j, rl'[j], listeners', Pending, pump, lines)
    BY <1>1, <1>3, <1>6, OthersKeep
  <1>8. \A a \in 1 .. Len(Pending) : rl'[To(Pending, a)].made
    BY <1>1, <1>3, PendingTasks DEF QueueOK
  <1>9. QueueOK'
    BY <1>1, <1>4, <1>8 DEF QueueOK
  <1> QED
    BY <1>2, <1>4, <1>7, <1>9 DEF ReadlineInv

LEMMA QuestionStep ==
    ASSUME ReadlineInv, NEW i \in Interface, question(i)
    PROVE  ReadlineInv'
  <1> DEFINE r == rl[i]
             asks == Append(r.questions, r.asked + 1)
  <1>1. /\ r \in InterfaceRecord /\ Accounted(r) /\ r.made /\ rl \in [Interface -> InterfaceRecord]
        /\ listeners \in Seq(Interface) /\ Distinct(listeners)
    BY DEF ReadlineInv, ReadlineTypes, InterfaceOK, question, QueueOK
  <1>2. r.questions \in Seq(Nat) /\ r.asked \in Nat /\ r.answers \in Seq(Answer)
        /\ InTurn(r.questions, r.answers, r.asked)
    BY <1>1 DEF InterfaceRecord, Accounted
  <1> HIDE DEF r
  <1>3. asks \in Seq(Nat) /\ InTurn(asks, r.answers, r.asked + 1)
    <2>1. ASSUME NEW questions \in Seq(Nat), NEW asked \in Nat, NEW answers \in Seq(Answer),
                 InTurn(questions, answers, asked)
          PROVE  InTurn(Append(questions, asked + 1), answers, asked + 1)
      <3> DEFINE longer == Append(questions, asked + 1)
      <3>1. /\ Len(questions) \in Nat /\ Len(answers) \in Nat /\ Len(longer) = Len(questions) + 1
            /\ \A k \in 1 .. Len(questions) : longer[k] = questions[k]
            /\ longer[Len(questions) + 1] = asked + 1
        BY <2>1
      <3> HIDE DEF longer
      <3>2. /\ asked = Len(answers) + Len(questions)
            /\ \A k \in 1 .. Len(answers) : QuestionAt(answers, k) = k
            /\ \A k \in 1 .. Len(questions) : questions[k] = Len(answers) + k
        BY <2>1 DEF InTurn
      <3>3. ASSUME NEW k \in 1 .. Len(longer) PROVE longer[k] = Len(answers) + k
        <4>1. CASE k \in 1 .. Len(questions)
          BY <3>1, <3>2, <4>1
        <4>2. CASE k \notin 1 .. Len(questions)
          <5>1. k = Len(questions) + 1
            BY <3>1, <4>2
          <5> QED
            BY <3>1, <3>2, <5>1
        <4> QED
          BY <4>1, <4>2
      <3>4. asked + 1 = Len(answers) + Len(longer)
        BY <3>1, <3>2
      <3>5. InTurn(longer, answers, asked + 1)
        BY <3>2, <3>3, <3>4 DEF InTurn
      <3> QED
        BY <3>5 DEF longer
    <2> QED
      BY <1>2, <2>1
  <1> DEFINE more == r.asked + 1
             s == [r EXCEPT !.asked = more, !.questions = asks]
  <1>0. more \in Nat
    BY <1>2
  <1> HIDE DEF asks, more
  <1>4. /\ s \in InterfaceRecord /\ s.made = r.made /\ s.dead = r.dead /\ s.sawEnd = r.sawEnd
        /\ s.from = r.from /\ s.got = r.got /\ s.answers = r.answers
        /\ s.questions = asks /\ s.asked = more
    BY <1>0, <1>1, <1>3 DEF InterfaceRecord
  <1>5. rl' = [rl EXCEPT ![i] = s] /\ UNCHANGED <<listeners, pump, lines, batch, posted>>
    BY DEF question, r, asks, more
  <1> HIDE DEF s
  <1> QED
    BY <1>1, <1>3, <1>4, <1>5, RecordStep DEF r, more

LEMMA CloseStep ==
    ASSUME ReadlineInv, NEW i \in Interface, close_rl(i)
    PROVE  ReadlineInv'
  <1> DEFINE r == rl[i]
             s == [r EXCEPT !.closed = TRUE]
  <1>1. /\ r \in InterfaceRecord /\ Accounted(r) /\ r.made
        /\ listeners \in Seq(Interface) /\ Distinct(listeners)
    BY DEF ReadlineInv, ReadlineTypes, InterfaceOK, close_rl, QueueOK
  <1>2. InTurn(r.questions, r.answers, r.asked)
    BY <1>1 DEF Accounted
  <1> HIDE DEF r
  <1>3. /\ s \in InterfaceRecord /\ s.made = r.made /\ s.dead = r.dead /\ s.sawEnd = r.sawEnd
        /\ s.from = r.from /\ s.got = r.got /\ s.answers = r.answers
        /\ s.questions = r.questions /\ s.asked = r.asked
    BY <1>1 DEF InterfaceRecord
  <1>4. rl' = [rl EXCEPT ![i] = s] /\ UNCHANGED <<pump, lines, batch, posted>>
    BY DEF close_rl, r
  <1>5. /\ listeners' \in Seq(Interface) /\ Distinct(listeners')
        /\ \A j : Listed(listeners', j) => Listed(listeners, j)
    BY <1>1, Unregistered DEF close_rl
  <1> HIDE DEF s
  <1> QED
    BY <1>1, <1>2, <1>3, <1>4, <1>5, RecordStep DEF r

LEMMA BroadcastStep ==
    ASSUME ReadlineInv, broadcast
    PROVE  ReadlineInv'
  <1>1. /\ ReadlineTypes /\ QueueOK
        /\ \A j \in Interface : InterfaceOK(j, rl[j], listeners, Pending, pump, lines)
    BY DEF ReadlineInv
  <1>2. /\ batch \in Seq(LineTask) /\ batch # <<>> /\ posted \in Seq(LineTask)
        /\ posted' = Append(posted, Head(batch)) /\ batch' = Tail(batch)
    BY <1>1 DEF ReadlineTypes, broadcast
  <1>3. posted' \in Seq(LineTask) /\ batch' \in Seq(LineTask)
    BY <1>2
  <1>4. ReadlineTypes'
    BY <1>1, <1>3 DEF ReadlineTypes, broadcast
  <1>5. Pending' = Pending
    BY <1>2, MovedOne DEF Pending
  <1> QED
    BY <1>1, <1>4, <1>5 DEF broadcast, ReadlineInv, QueueOK

LEMMA ReadStep ==
    ASSUME ReadlineInv, ReadLine
    PROVE  ReadlineInv'
  <1> DEFINE p == posted
             q == posted \o batch'
  <1>1. /\ ReadlineTypes /\ QueueOK /\ Distinct(listeners) /\ lines \in Nat /\ listeners \in Seq(Interface)
        /\ \A j \in Interface : InterfaceOK(j, rl[j], listeners, Pending, pump, lines)
        /\ posted \in Seq(LineTask) /\ rl \in [Interface -> InterfaceRecord] /\ Len(listeners) \in Nat
    BY DEF ReadlineInv, ReadlineTypes, QueueOK
  <1>2. PICK e \in Nat : /\ batch' = [k \in DOMAIN listeners |-> [to |-> listeners[k], line |-> e]]
                         /\ IF e = EndOfInput THEN lines' = lines /\ pump' = "ended"
                                              ELSE e = lines + 1 /\ lines' = lines + 1 /\ pump' = pump
    <2>1. CASE /\ lines < MaxLines /\ lines' = lines + 1 /\ pump' = pump
               /\ batch' = [k \in DOMAIN listeners |-> [to |-> listeners[k], line |-> lines + 1]]
      BY <1>1, <2>1 DEF EndOfInput
    <2>2. CASE /\ pump' = "ended" /\ lines' = lines
               /\ batch' = [k \in DOMAIN listeners |-> [to |-> listeners[k], line |-> EndOfInput]]
      BY <2>2 DEF EndOfInput
    <2> QED
      BY <2>1, <2>2 DEF ReadLine
  <1>3. /\ batch' \in Seq(LineTask) /\ Len(batch') = Len(listeners)
        /\ \A k \in 1 .. Len(listeners) : batch'[k].to = listeners[k] /\ batch'[k].line = e
    <2>1. \A k \in 1 .. Len(listeners) : listeners[k] \in Interface
      BY <1>1
    <2>2. \A k \in 1 .. Len(listeners) : [to |-> listeners[k], line |-> e] \in LineTask
      BY <2>1 DEF LineTask
    <2>3. batch' = [k \in 1 .. Len(listeners) |-> [to |-> listeners[k], line |-> e]]
      BY <1>1, <1>2
    <2>4. batch' \in [1 .. Len(listeners) -> LineTask]
      BY <2>2, <2>3
    <2>5. batch' \in Seq(LineTask) /\ Len(batch') = Len(listeners)
      BY <1>1, <2>4
    <2> QED
      BY <2>3, <2>5
  <1>4. /\ Pending = p /\ Pending' = q /\ listeners' = listeners /\ rl' = rl /\ pump = "reading"
        /\ posted' = posted /\ lines' \in Nat
    BY <1>1, <1>2 DEF ReadLine, Pending
  <1>5. ReadlineTypes'
    BY <1>1, <1>2, <1>3, <1>4 DEF ReadlineTypes
  <1>6. Extends(q, p, listeners, e)
    <2>1. /\ Len(q) = Len(p) + Len(listeners) /\ Len(p) \in Nat
          /\ \A k \in 1 .. Len(p) : q[k] = p[k]
          /\ \A k \in 1 .. Len(listeners) : q[Len(p) + k] = batch'[k]
      <3>1. q = posted \o batch' /\ p = posted
        OBVIOUS
      <3> HIDE DEF q, p
      <3>2. /\ Len(q) = Len(posted) + Len(batch') /\ Len(posted) \in Nat
            /\ \A k \in 1 .. Len(posted) : q[k] = posted[k]
            /\ \A k \in 1 .. Len(batch') : q[Len(posted) + k] = batch'[k]
        <4>1. posted \in Seq(LineTask) /\ batch' \in Seq(LineTask)
          BY <1>1, <1>3
        <4> QED
          BY <3>1, <4>1, TasksJoined
      <3> QED
        BY <1>3, <3>1, <3>2
    <2> HIDE DEF q, p
    <2> QED
      BY <1>1, <1>3, <2>1 DEF Extends, To, LineAt
  <1> HIDE DEF q, p
  <1>7. \A a \in 1 .. Len(p) : LineAt(p, a) # EndOfInput
    BY <1>1, <1>4 DEF QueueOK
  <1>8. ASSUME NEW j \in Interface
        PROVE  InterfaceOK(j, rl[j], listeners, q, pump', lines')
    <2> DEFINE last == Heard(rl[j])
    <2>1. InterfaceOK(j, rl[j], listeners, p, pump, lines) /\ rl[j] \in InterfaceRecord
      BY <1>1, <1>4
    <2>2. last \in Nat /\ last <= lines
      BY <2>1, HeardIsNat DEF InterfaceOK
    <2>3. IF e = EndOfInput THEN lines' = lines ELSE e = lines + 1 /\ lines' = lines + 1
      BY <1>2
    <2>4. ~rl[j].sawEnd
      BY <1>4, <2>1 DEF InterfaceOK
    <2>5. last <= lines'
      BY <1>1, <2>2, <2>3
    <2> HIDE DEF last
    <2>6. ~rl[j].dead => Coming(q, j, last, lines')
      <3> SUFFICES ASSUME ~rl[j].dead PROVE Coming(q, j, last, lines')
        OBVIOUS
      <3>1. Coming(p, j, last, lines) /\ (Listed(listeners, j) => Complete(p, j, last, lines))
        BY <2>1 DEF InterfaceOK, last
      <3> QED
        BY <1>1, <1>4, <1>6, <1>7, <2>2, <2>3, <3>1, OneMoreLine
    <2>7. Listed(listeners, j) => rl[j].made /\ ~rl[j].dead /\ Complete(q, j, last, lines')
      <3> SUFFICES ASSUME Listed(listeners, j)
                   PROVE  rl[j].made /\ ~rl[j].dead /\ Complete(q, j, last, lines')
        OBVIOUS
      <3>1. rl[j].made /\ ~rl[j].dead /\ Complete(p, j, last, lines)
        BY <2>1 DEF InterfaceOK, last
      <3> QED
        BY <1>1, <1>4, <1>6, <2>2, <2>3, <3>1, CompleteAgain
    <2> QED
      BY <2>1, <2>4, <2>5, <2>6, <2>7 DEF InterfaceOK, last
  <1>9. ASSUME NEW a \in 1 .. Len(q)
        PROVE  rl[To(q, a)].made /\ (LineAt(q, a) = EndOfInput => pump' = "ended")
    <2>1. CASE a \in 1 .. Len(p)
      BY <1>1, <1>4, <1>6, <1>7, <2>1 DEF QueueOK, Extends
    <2>2. CASE a \notin 1 .. Len(p)
      <3>1. PICK k \in 1 .. Len(listeners) : a = Len(p) + k
        <4>1. a - Len(p) \in 1 .. Len(listeners) /\ a = Len(p) + (a - Len(p))
          BY <1>6, <2>2 DEF Extends
        <4> QED
          BY <4>1
      <3>2. To(q, a) = listeners[k] /\ LineAt(q, a) = e
        BY <1>6, <3>1 DEF Extends
      <3>3. listeners[k] \in Interface /\ Listed(listeners, listeners[k])
        BY <1>1 DEF Listed
      <3>4. rl[listeners[k]].made
        BY <1>1, <3>3 DEF InterfaceOK
      <3> QED
        BY <1>2, <3>2, <3>4
    <2> QED
      BY <2>1, <2>2
  <1>10. QueueOK'
    BY <1>1, <1>4, <1>9 DEF QueueOK
  <1> QED
    BY <1>4, <1>5, <1>8, <1>10 DEF ReadlineInv

LEMMA RunStep ==
    ASSUME ReadlineInv, RunTask
    PROVE  ReadlineInv'
  <1> DEFINE q == Pending
             t == Tail(posted) \o batch
             i == To(q, 1)
             e == LineAt(q, 1)
             h == Heard(rl[i])
  <1>1. /\ ReadlineTypes /\ QueueOK /\ Distinct(listeners) /\ lines \in Nat
        /\ \A j \in Interface : InterfaceOK(j, rl[j], listeners, q, pump, lines)
        /\ rl \in [Interface -> InterfaceRecord]
        /\ posted \in Seq(LineTask) /\ batch \in Seq(LineTask) /\ posted # <<>>
    BY DEF ReadlineInv, ReadlineTypes, QueueOK, RunTask
  <1>2. /\ TasksShifted(t, q) /\ q[1] = Head(posted) /\ 1 \in 1 .. Len(q)
    BY <1>1, HeadFirst DEF Pending
  <1>3. i \in Interface /\ e \in Nat /\ Head(posted).to = i /\ Head(posted).line = e
    BY <1>1, <1>2, PendingTasks DEF To, LineAt
  <1>4. rl[i].made /\ rl[i] \in InterfaceRecord /\ h \in Nat
    BY <1>1, <1>2, <1>3, HeardIsNat DEF QueueOK
  <1>5. /\ Pending' = t /\ listeners' = listeners /\ pump' = pump /\ lines' = lines /\ batch' = batch
        /\ posted' = Tail(posted) /\ posted' \in Seq(LineTask)
    BY <1>1 DEF RunTask, Pending
  <1>6. \/ ~rl[i].dead /\ rl' = [rl EXCEPT ![i] = Receives(rl[i], e)]
        \/ ~Listed(listeners, i) /\ rl' = [rl EXCEPT ![i] = [rl[i] EXCEPT !.dead = TRUE]]
    <2>1. DOMAIN listeners = 1 .. Len(listeners)
      BY <1>1 DEF ReadlineTypes
    <2> HIDE DEF i, e
    <2> QED
      BY <1>3, <2>1 DEF RunTask, Listed
  <1> HIDE DEF q, t
  <1>7. ~rl[i].sawEnd
    BY <1>1, <1>2, <1>3 DEF InterfaceOK, NoneFor
  <1> HIDE DEF i, e
  <1>8. PICK s \in InterfaceRecord :
           rl' = [rl EXCEPT ![i] = s] /\ s.made /\ InterfaceOK(i, s, listeners, t, pump, lines)
    <2>0. InterfaceOK(i, rl[i], listeners, q, pump, lines) /\ To(q, 1) = i /\ LineAt(q, 1) = e
      BY <1>1, <1>3 DEF i, e
    <2>1. CASE ~rl[i].dead /\ rl' = [rl EXCEPT ![i] = Receives(rl[i], e)] /\ e = EndOfInput
      <3> DEFINE s == [rl[i] EXCEPT !.closed = TRUE, !.sawEnd = TRUE]
      <3>1. rl' = [rl EXCEPT ![i] = s]
        BY <2>1 DEF Receives
      <3>2. /\ s \in InterfaceRecord /\ s.made = rl[i].made /\ s.dead = rl[i].dead /\ s.sawEnd
            /\ s.from = rl[i].from /\ s.got = rl[i].got /\ s.answers = rl[i].answers
            /\ s.questions = rl[i].questions /\ s.asked = rl[i].asked
        BY <1>4 DEF InterfaceRecord
      <3> HIDE DEF s
      <3>3. Heard(s) = h /\ Accounted(s)
        BY <2>0, <3>2 DEF InterfaceOK, Heard, Accounted
      <3>4. Coming(q, i, h, lines) /\ h <= lines
        BY <2>0, <2>1 DEF InterfaceOK
      <3> HIDE DEF h
      <3>5. h = lines /\ NoneFor(t, i) /\ Coming(t, i, h, lines)
        BY <1>1, <1>2, <1>4, <2>0, <2>1, <3>4, LastTask
      <3>6. Complete(t, i, h, lines)
        BY <1>1, <3>5 DEF Complete
      <3>7. pump = "ended"
        BY <1>1, <1>2, <2>0, <2>1 DEF QueueOK, q
      <3>8. Listed(listeners, i) => rl[i].made /\ ~rl[i].dead
        BY <2>0 DEF InterfaceOK
      <3>9. InterfaceOK(i, s, listeners, t, pump, lines)
        BY <1>1, <1>4, <3>2, <3>3, <3>5, <3>6, <3>7, <3>8 DEF InterfaceOK
      <3> QED
        BY <1>4, <3>1, <3>2, <3>9
    <2>2. CASE ~rl[i].dead /\ rl' = [rl EXCEPT ![i] = Receives(rl[i], e)] /\ e # EndOfInput
      <3> DEFINE s == Receives(rl[i], h + 1)
      <3>1. Coming(q, i, h, lines) /\ Accounted(rl[i])
        BY <2>0, <2>2 DEF InterfaceOK
      <3>2. /\ s \in InterfaceRecord /\ Accounted(s) /\ Heard(s) = h + 1
            /\ s.made = rl[i].made /\ s.dead = rl[i].dead /\ s.sawEnd = rl[i].sawEnd
        BY <1>4, <3>1, ReceivesLine
      <3> HIDE DEF h
      <3>3. e = h + 1 /\ h + 1 <= lines /\ Coming(t, i, h + 1, lines)
        BY <1>1, <1>2, <1>4, <2>0, <2>2, <3>1, NextLine
      <3>4. rl' = [rl EXCEPT ![i] = s]
        BY <2>2, <3>3
      <3> HIDE DEF s
      <3>5. Listed(listeners, i) => s.made /\ ~s.dead /\ Complete(t, i, h + 1, lines)
        <4> SUFFICES ASSUME Listed(listeners, i) PROVE s.made /\ ~s.dead /\ Complete(t, i, h + 1, lines)
          OBVIOUS
        <4>1. Complete(q, i, h, lines)
          BY <2>0 DEF InterfaceOK, h
        <4>2. Complete(t, i, h + 1, lines)
          BY <1>1, <1>2, <1>4, <2>0, <3>3, <4>1, StillComplete
        <4> QED
          BY <1>4, <2>2, <3>2, <4>2
      <3>6. InterfaceOK(i, s, listeners, t, pump, lines)
        BY <1>4, <1>7, <3>2, <3>3, <3>5 DEF InterfaceOK
      <3> QED
        BY <1>4, <3>2, <3>4, <3>6
    <2>3. CASE ~Listed(listeners, i) /\ rl' = [rl EXCEPT ![i] = [rl[i] EXCEPT !.dead = TRUE]]
      <3> DEFINE s == [rl[i] EXCEPT !.dead = TRUE]
      <3>1. /\ s \in InterfaceRecord /\ s.made = rl[i].made /\ s.dead /\ s.sawEnd = rl[i].sawEnd
            /\ s.from = rl[i].from /\ s.got = rl[i].got /\ s.answers = rl[i].answers
            /\ s.questions = rl[i].questions /\ s.asked = rl[i].asked
        BY <1>4 DEF InterfaceRecord
      <3>2. rl' = [rl EXCEPT ![i] = s]
        BY <2>3
      <3> HIDE DEF s
      <3>3. Heard(s) = h /\ Accounted(s)
        BY <2>0, <3>1 DEF InterfaceOK, Heard, Accounted
      <3>4. h <= lines
        BY <2>0 DEF InterfaceOK
      <3>5. InterfaceOK(i, s, listeners, t, pump, lines)
        BY <1>4, <1>7, <2>3, <3>1, <3>3, <3>4 DEF InterfaceOK
      <3> QED
        BY <1>4, <3>1, <3>2, <3>5
    <2> QED
      BY <1>6, <2>1, <2>2, <2>3
  <1>9. ASSUME NEW j \in Interface, j # i PROVE InterfaceOK(j, rl[j], listeners, t, pump, lines)
    <2> DEFINE last == Heard(rl[j])
    <2>1. InterfaceOK(j, rl[j], listeners, q, pump, lines) /\ last \in Nat
      BY <1>1, HeardIsNat
    <2>2. To(q, 1) # j
      BY <1>9 DEF i
    <2>3. ~rl[j].dead => Coming(t, j, last, lines)
      BY <1>1, <1>2, <2>1, <2>2, OthersTaskGone DEF InterfaceOK
    <2> HIDE DEF last
    <2>4. ASSUME Complete(q, j, last, lines) PROVE Complete(t, j, last, lines)
      <3>1. Complete(t, j, last + 0, lines)
        BY <1>1, <1>2, <2>1, <2>2, <2>4, StillComplete
      <3> QED
        BY <2>1, <3>1
    <2>5. NoneFor(q, j) => NoneFor(t, j)
      BY <1>2, StillNoneFor
    <2> QED
      BY <2>1, <2>3, <2>4, <2>5 DEF InterfaceOK, last
  <1>10. rl'[i] = s /\ \A j \in Interface \ {i} : rl'[j] = rl[j]
    BY <1>1, <1>3, <1>8
  <1>11. \A j \in Interface : InterfaceOK(j, rl'[j], listeners, t, pump, lines)
    BY <1>8, <1>9, <1>10
  <1>12. ReadlineTypes'
    BY <1>1, <1>5, <1>8 DEF ReadlineTypes
  <1>13. ASSUME NEW a \in 1 .. Len(t)
         PROVE  rl'[To(t, a)].made /\ (LineAt(t, a) = EndOfInput => pump = "ended")
    <2>1. a + 1 \in 1 .. Len(q) /\ To(t, a) = To(q, a + 1) /\ LineAt(t, a) = LineAt(q, a + 1)
      BY <1>2 DEF TasksShifted
    <2>2. To(t, a) \in Interface /\ rl[To(t, a)].made /\ (LineAt(t, a) = EndOfInput => pump = "ended")
      BY <1>1, <2>1, PendingTasks DEF QueueOK, q
    <2> QED
      BY <1>8, <1>10, <2>2
  <1>14. QueueOK'
    BY <1>1, <1>5, <1>13 DEF QueueOK
  <1> QED
    BY <1>5, <1>11, <1>12, <1>14 DEF ReadlineInv

-----------------------------------------------------------------------------

LEMMA ReadlineInvInit == ReadlineInit => ReadlineInv
  <1> SUFFICES ASSUME ReadlineInit PROVE ReadlineInv
    OBVIOUS
  <1>1. /\ listeners = <<>> /\ pump = "unstarted" /\ lines = 0 /\ batch = <<>> /\ posted = <<>>
        /\ rl = [i \in Interface |-> NewInterface]
    BY DEF ReadlineInit
  <1>2. NewInterface \in InterfaceRecord
    <2>1. <<>> \in Seq(Nat) /\ <<>> \in Seq(Answer)
      OBVIOUS
    <2> QED
      BY <2>1 DEF NewInterface, InterfaceRecord
  <1>3. ReadlineTypes
    <2>1. <<>> \in Seq(Interface) /\ <<>> \in Seq(LineTask)
      OBVIOUS
    <2>2. rl \in [Interface -> InterfaceRecord]
      BY <1>1, <1>2
    <2> QED
      BY <1>1, <2>1, <2>2 DEF ReadlineTypes
  <1>4. Pending = <<>> /\ Len(Pending) = 0 /\ Len(listeners) = 0
    BY <1>1 DEF Pending
  <1>5. QueueOK
    BY <1>4 DEF QueueOK, Distinct
  <1>6. Heard(NewInterface) = 0 /\ Accounted(NewInterface)
    <2>1. /\ NewInterface.from = 0 /\ NewInterface.got = <<>> /\ NewInterface.answers = <<>>
          /\ NewInterface.questions = <<>> /\ NewInterface.asked = 0
      BY DEF NewInterface
    <2>2. LastOf(0, <<>>, <<>>) = 0 /\ Received(0, <<>>, <<>>, 0) /\ InTurn(<<>>, <<>>, 0)
      BY DEF LastOf, Received, InTurn
    <2> QED
      BY <2>1, <2>2 DEF Heard, Accounted
  <1>7. ASSUME NEW i \in Interface PROVE InterfaceOK(i, NewInterface, listeners, Pending, pump, lines)
    <2>1. ~NewInterface.sawEnd /\ ~NewInterface.made
      BY DEF NewInterface
    <2>2. Coming(Pending, i, 0, lines) /\ ~Listed(listeners, i)
      BY <1>4 DEF Coming, Listed
    <2> QED
      BY <1>1, <1>6, <2>1, <2>2 DEF InterfaceOK
  <1> QED
    BY <1>1, <1>3, <1>5, <1>7 DEF ReadlineInv

LEMMA ReadlineInvNext == ReadlineInv /\ [ReadlineNext]_readlineVars => ReadlineInv'
  <1> SUFFICES ASSUME ReadlineInv, [ReadlineNext]_readlineVars PROVE ReadlineInv'
    OBVIOUS
  <1>1. CASE ReadLine
    BY <1>1, ReadStep
  <1>2. CASE broadcast
    BY <1>2, BroadcastStep
  <1>3. CASE RunTask
    BY <1>3, RunStep
  <1>4. ASSUME NEW i \in Interface, createInterface(i) PROVE ReadlineInv'
    BY <1>4, CreateStep
  <1>5. ASSUME NEW i \in Interface, question(i) PROVE ReadlineInv'
    BY <1>5, QuestionStep
  <1>6. ASSUME NEW i \in Interface, close_rl(i) PROVE ReadlineInv'
    BY <1>6, CloseStep
  <1>7. CASE UNCHANGED readlineVars
    BY <1>7 DEF readlineVars, ReadlineInv, ReadlineTypes, QueueOK, Pending
  <1> QED
    BY <1>1, <1>2, <1>3, <1>4, <1>5, <1>6, <1>7 DEF ReadlineNext

(* What an interface has received, as LinesDelivered says it.               *)
LEMMA AccountedDelivers ==
    ASSUME NEW r \in InterfaceRecord, Accounted(r)
    PROVE  LET all == {r.got[k] : k \in DOMAIN r.got} \cup {r.answers[k].line : k \in DOMAIN r.answers}
               count == Len(r.got) + Len(r.answers)
           IN /\ Heard(r) = r.from + count
              /\ all = (r.from + 1) .. (r.from + count)
              /\ \A k \in 2 .. Len(r.got) : r.got[k - 1] < r.got[k]
              /\ \A k \in DOMAIN r.answers :
                    /\ r.answers[k].q = k
                    /\ k > 1 => r.answers[k - 1].line < r.answers[k].line
  <1>1. ASSUME NEW from \in Nat, NEW got \in Seq(Nat), NEW answers \in Seq(Answer),
               NEW questions, NEW asked,
               Received(from, got, answers, LastOf(from, got, answers)), InTurn(questions, answers, asked)
        PROVE  LET all == {got[k] : k \in DOMAIN got} \cup {answers[k].line : k \in DOMAIN answers}
                   count == Len(got) + Len(answers)
               IN /\ LastOf(from, got, answers) = from + count
                  /\ all = (from + 1) .. (from + count)
                  /\ \A k \in 2 .. Len(got) : got[k - 1] < got[k]
                  /\ \A k \in DOMAIN answers :
                        /\ answers[k].q = k
                        /\ k > 1 => answers[k - 1].line < answers[k].line
    <2> DEFINE all == {got[k] : k \in DOMAIN got} \cup {answers[k].line : k \in DOMAIN answers}
               count == Len(got) + Len(answers)
    <2>1. /\ LastOf(from, got, answers) = from + count
          /\ DOMAIN got = 1 .. Len(got) /\ DOMAIN answers = 1 .. Len(answers) /\ Len(answers) \in Nat
      BY <1>1 DEF LastOf
    <2>2. all = {got[k] : k \in 1 .. Len(got)} \cup {LineAt(answers, k) : k \in 1 .. Len(answers)}
      BY <2>1 DEF LineAt
    <2> HIDE DEF all, count
    <2>3. all = (from + 1) .. (from + count)
      BY <1>1, <2>1, <2>2 DEF Received
    <2>4. \A k \in 2 .. Len(got) : got[k - 1] < got[k]
      BY <1>1 DEF Received
    <2>5. ASSUME NEW k \in DOMAIN answers
          PROVE  answers[k].q = k /\ (k > 1 => answers[k - 1].line < answers[k].line)
      <3>1. k \in 1 .. Len(answers) /\ (k > 1 => k \in 2 .. Len(answers))
        BY <2>1
      <3>2. QuestionAt(answers, k) = k /\ (k > 1 => LineAt(answers, k - 1) < LineAt(answers, k))
        BY <1>1, <3>1 DEF InTurn, Received
      <3> QED
        BY <3>2 DEF QuestionAt, LineAt
    <2> QED
      BY <2>1, <2>3, <2>4, <2>5 DEF all, count
  <1>2. /\ r.from \in Nat /\ r.got \in Seq(Nat) /\ r.answers \in Seq(Answer)
        /\ Received(r.from, r.got, r.answers, LastOf(r.from, r.got, r.answers))
        /\ InTurn(r.questions, r.answers, r.asked)
        /\ Heard(r) = LastOf(r.from, r.got, r.answers)
    BY DEF InterfaceRecord, Accounted, Heard
  <1> DEFINE from == r.from  got == r.got  answers == r.answers
  <1> HIDE DEF from, got, answers
  <1>3. LET all == {got[k] : k \in DOMAIN got} \cup {answers[k].line : k \in DOMAIN answers}
            count == Len(got) + Len(answers)
        IN /\ LastOf(from, got, answers) = from + count
           /\ all = (from + 1) .. (from + count)
           /\ \A k \in 2 .. Len(got) : got[k - 1] < got[k]
           /\ \A k \in DOMAIN answers :
                 /\ answers[k].q = k
                 /\ k > 1 => answers[k - 1].line < answers[k].line
    <2>1. /\ from \in Nat /\ got \in Seq(Nat) /\ answers \in Seq(Answer)
          /\ Received(from, got, answers, LastOf(from, got, answers))
          /\ InTurn(r.questions, answers, r.asked)
      BY <1>2 DEF from, got, answers
    <2> QED
      BY <1>1, <2>1
  <1> QED
    BY <1>2, <1>3 DEF from, got, answers

LEMMA InductiveDelivers == ReadlineInv => LinesDelivered
  <1> SUFFICES ASSUME ReadlineInv, NEW i \in Interface
               PROVE  LET r == rl[i]
                          all == {r.got[k] : k \in DOMAIN r.got} \cup {r.answers[k].line : k \in DOMAIN r.answers}
                          count == Len(r.got) + Len(r.answers)
                      IN /\ all = (r.from + 1) .. (r.from + count)
                         /\ \A k \in 2 .. Len(r.got) : r.got[k - 1] < r.got[k]
                         /\ \A k \in DOMAIN r.answers :
                               /\ r.answers[k].q = k
                               /\ k > 1 => r.answers[k - 1].line < r.answers[k].line
                         /\ r.sawEnd => r.from + count = lines
    BY DEF LinesDelivered
  <1> DEFINE r == rl[i]
  <1>1. r \in InterfaceRecord /\ Accounted(r) /\ (r.sawEnd => Heard(r) = lines)
    BY DEF ReadlineInv, ReadlineTypes, InterfaceOK
  <1> HIDE DEF r
  <1> QED
    BY <1>1, AccountedDelivers DEF r

(* The inductive invariant.                                                 *)
THEOREM ReadlineInductive == ReadlineSpec => []ReadlineInv
  BY ReadlineInvInit, ReadlineInvNext, PTL DEF ReadlineSpec

(* Every interface gets the lines read since it was created, each once and  *)
(* in order, the oldest question the oldest line, and its end of input      *)
(* after the last line, however the stdin thread, the posted tasks, close() *)
(* and the collector interleave.                                            *)
THEOREM ReadlineDelivers == ReadlineSpec => []LinesDelivered
  BY ReadlineInductive, InductiveDelivers, PTL

-----------------------------------------------------------------------------
(***************************************************************************)
(* WebSocket.                                                              *)
(*                                                                         *)
(* A message of the peer is on the wire, then in a posted task, then       *)
(* heard.  The inductive invariant says where the numbers of the messages  *)
(* are: up to Len(heard) in heard, up to some m in the tasks, the rest on  *)
(* the wire as long as the socket task runs; and that a close is the last  *)
(* thing on the wire and the last of the tasks a listener is told of.      *)
(***************************************************************************)
Kinds == {"message", "open", "error", "close", "finish"}
EventRecord == [kind : Kinds, n : Nat]

SocketTypes ==
    /\ readyState \in 0 .. 3 /\ inTable \in BOOLEAN
    /\ link \in {"connecting", "open", "left", "lost", "silent", "ended"}
    /\ outbox \in Seq(EventRecord) /\ wire \in Seq(EventRecord) /\ events \in Seq(EventRecord)
    /\ peerSent \in Seq(Nat) /\ heard \in Seq(Nat) /\ sends \in Seq(Nat) /\ closeCode \in Nat

(* The parts of the elements of a queue.                                    *)
MessageAt(q, k) == IsMessage(q[k])
CloseAt(q, k) == q[k].kind = "close"
NumberAt(q, k) == q[k].n

(* The messages of q are those after a up to b, in order.                   *)
Numbered(q, a, b) ==
    /\ \A k \in 1 .. Len(q) : MessageAt(q, k) => NumberAt(q, k) \in (a + 1) .. b
    /\ \A j, k \in 1 .. Len(q) :
          j < k /\ MessageAt(q, j) /\ MessageAt(q, k) => NumberAt(q, j) < NumberAt(q, k)
    /\ \A x \in (a + 1) .. b : \E k \in 1 .. Len(q) : MessageAt(q, k) /\ NumberAt(q, k) = x

(* A close of q has one of the codes and comes last.                        *)
Codes == {Normal, NoStatus, Abnormal}
CloseLast(q) ==
    /\ \A k \in 1 .. Len(q) : CloseAt(q, k) => NumberAt(q, k) \in Codes
    /\ \A j, k \in 1 .. Len(q) : j < k /\ CloseAt(q, j) => ~MessageAt(q, k) /\ ~CloseAt(q, k)
NoMessage(q) == \A k \in 1 .. Len(q) : ~MessageAt(q, k)
NoClose(q) == \A k \in 1 .. Len(q) : ~CloseAt(q, k)
Counted(s) == \A k \in 1 .. Len(s) : s[k] = k

Running == link \in {"connecting", "open"}

(* Where the messages are: m is the last one the task has passed on.        *)
Placed(m) ==
    /\ m \in Len(heard) .. Len(peerSent)
    /\ Numbered(events, Len(heard), m)
    /\ link = "open" => Numbered(wire, m, Len(peerSent))
    /\ link = "ended" => m = Len(peerSent)

SocketInv ==
    /\ SocketTypes
    /\ Counted(peerSent) /\ Counted(heard)
    /\ CloseLast(events) /\ CloseLast(wire)
    /\ Running => NoClose(events)
    /\ closeCode # 0 => NoMessage(events) /\ NoClose(events) /\ ~Running
    /\ link = "connecting" => peerSent = <<>> /\ wire = <<>>
    /\ \E m \in Nat : Placed(m)
-----------------------------------------------------------------------------
(* Queues of events.                                                        *)

(* The queue q without its first element is t.                              *)
Shifted(t, q) ==
    /\ Len(q) \in Nat /\ Len(q) >= 1 /\ Len(t) = Len(q) - 1
    /\ \A k \in 1 .. Len(t) :
          /\ MessageAt(t, k) = MessageAt(q, k + 1) /\ CloseAt(t, k) = CloseAt(q, k + 1)
          /\ NumberAt(t, k) = NumberAt(q, k + 1)

(* The queue r is q and after it t.                                         *)
Follows(r, q, t) ==
    /\ Len(q) \in Nat /\ Len(t) \in Nat /\ Len(r) = Len(q) + Len(t)
    /\ \A k \in 1 .. Len(q) :
          /\ MessageAt(r, k) = MessageAt(q, k) /\ CloseAt(r, k) = CloseAt(q, k)
          /\ NumberAt(r, k) = NumberAt(q, k)
    /\ \A k \in 1 .. Len(t) :
          /\ MessageAt(r, Len(q) + k) = MessageAt(t, k) /\ CloseAt(r, Len(q) + k) = CloseAt(t, k)
          /\ NumberAt(r, Len(q) + k) = NumberAt(t, k)

LEMMA TailShifts ==
    ASSUME NEW S, NEW q \in Seq(S), q # <<>>
    PROVE  /\ Shifted(Tail(q), q) /\ Tail(q) \in Seq(S) /\ Head(q) = q[1] /\ q[1] \in S
  <1>1. /\ Len(q) \in Nat /\ Len(q) >= 1 /\ Head(q) = q[1] /\ q[1] \in S
        /\ Tail(q) \in Seq(S) /\ Len(Tail(q)) = Len(q) - 1
        /\ \A a \in 1 .. Len(Tail(q)) : Tail(q)[a] = q[a + 1]
    OBVIOUS
  <1> QED
    BY <1>1 DEF Shifted, MessageAt, CloseAt, NumberAt

LEMMA Joined ==
    ASSUME NEW S, NEW q \in Seq(S), NEW t \in Seq(S), NEW r, r = q \o t
    PROVE  r \in Seq(S) /\ Follows(r, q, t)
  <1>1. r \in Seq(S) /\ Len(r) = Len(q) + Len(t) /\ Len(q) \in Nat /\ Len(t) \in Nat
    OBVIOUS
  <1>2. \A k \in 1 .. Len(q) : r[k] = q[k]
    OBVIOUS
  <1>3. ASSUME NEW k \in 1 .. Len(t) PROVE r[Len(q) + k] = t[k]
    OBVIOUS
  <1> QED
    BY <1>1, <1>2, <1>3 DEF Follows, MessageAt, CloseAt, NumberAt

(* Every element of r comes from q or from t.                               *)
LEMMA FollowsSplit ==
    ASSUME NEW r, NEW q, NEW t, Follows(r, q, t), NEW k \in 1 .. Len(r), k \notin 1 .. Len(q)
    PROVE  \E j \in 1 .. Len(t) : k = Len(q) + j
  <1>1. k - Len(q) \in 1 .. Len(t) /\ k = Len(q) + (k - Len(q))
    BY DEF Follows
  <1> QED
    BY <1>1

(* Something that is no message is posted.                                  *)
LEMMA QuietPosted ==
    ASSUME NEW r, NEW q, NEW t, Follows(r, q, t), NoMessage(t),
           NEW a \in Nat, NEW b \in Nat, Numbered(q, a, b)
    PROVE  Numbered(r, a, b)
  <1>1. ASSUME NEW k \in 1 .. Len(r), MessageAt(r, k)
        PROVE  k \in 1 .. Len(q) /\ MessageAt(q, k) /\ NumberAt(r, k) = NumberAt(q, k)
    <2>1. k \in 1 .. Len(q)
      <3> SUFFICES ASSUME k \notin 1 .. Len(q) PROVE FALSE
        OBVIOUS
      <3>1. PICK j \in 1 .. Len(t) : k = Len(q) + j
        BY FollowsSplit
      <3> QED
        BY <1>1, <3>1 DEF Follows, NoMessage
    <2> QED
      BY <1>1, <2>1 DEF Follows
  <1>2. \A k \in 1 .. Len(q) : k \in 1 .. Len(r)
    BY DEF Follows
  <1>3. \A x \in (a + 1) .. b : \E k \in 1 .. Len(r) : MessageAt(r, k) /\ NumberAt(r, k) = x
    <2> SUFFICES ASSUME NEW x \in (a + 1) .. b
                 PROVE  \E k \in 1 .. Len(r) : MessageAt(r, k) /\ NumberAt(r, k) = x
      OBVIOUS
    <2>1. PICK k \in 1 .. Len(q) : MessageAt(q, k) /\ NumberAt(q, k) = x
      BY DEF Numbered
    <2> QED
      BY <1>2, <2>1 DEF Follows
  <1>4. \A k \in 1 .. Len(r) : MessageAt(r, k) => NumberAt(r, k) \in (a + 1) .. b
    BY <1>1 DEF Numbered
  <1>5. \A j, k \in 1 .. Len(r) :
           j < k /\ MessageAt(r, j) /\ MessageAt(r, k) => NumberAt(r, j) < NumberAt(r, k)
    BY <1>1 DEF Numbered
  <1> QED
    BY <1>3, <1>4, <1>5 DEF Numbered

(* The next message is posted.                                              *)
LEMMA MessagePosted ==
    ASSUME NEW r, NEW q, NEW t, Follows(r, q, t), Len(t) = 1, MessageAt(t, 1),
           NEW a \in Nat, NEW b \in Nat, a <= b, Numbered(q, a, b), NumberAt(t, 1) = b + 1
    PROVE  Numbered(r, a, b + 1)
  <1>1. /\ Len(q) \in Nat /\ Len(r) = Len(q) + 1
        /\ MessageAt(r, Len(q) + 1) /\ NumberAt(r, Len(q) + 1) = b + 1
        /\ \A k \in 1 .. Len(q) : MessageAt(r, k) = MessageAt(q, k) /\ NumberAt(r, k) = NumberAt(q, k)
    BY DEF Follows
  <1>2. \A k \in 1 .. Len(r) : k \in 1 .. Len(q) \/ k = Len(q) + 1
    BY <1>1
  <1>3. ASSUME NEW k \in 1 .. Len(r), MessageAt(r, k) PROVE NumberAt(r, k) \in (a + 1) .. (b + 1)
    <2>1. CASE k \in 1 .. Len(q)
      <3>1. NumberAt(r, k) \in (a + 1) .. b
        BY <1>1, <1>3, <2>1 DEF Numbered
      <3> QED
        BY <3>1
    <2>2. CASE k = Len(q) + 1
      BY <1>1, <2>2
    <2> QED
      BY <1>2, <2>1, <2>2
  <1>4. ASSUME NEW j \in 1 .. Len(r), NEW k \in 1 .. Len(r), j < k, MessageAt(r, j), MessageAt(r, k)
        PROVE  NumberAt(r, j) < NumberAt(r, k)
    <2>1. j \in 1 .. Len(q)
      BY <1>1, <1>4
    <2>2. NumberAt(r, j) \in (a + 1) .. b
      BY <1>1, <1>4, <2>1 DEF Numbered
    <2>3. CASE k \in 1 .. Len(q)
      BY <1>1, <1>4, <2>1, <2>3 DEF Numbered
    <2>4. CASE k = Len(q) + 1
      BY <1>1, <2>2, <2>4
    <2> QED
      BY <1>2, <2>3, <2>4
  <1>5. ASSUME NEW x \in (a + 1) .. (b + 1)
        PROVE  \E k \in 1 .. Len(r) : MessageAt(r, k) /\ NumberAt(r, k) = x
    <2>1. CASE x = b + 1
      <3>1. Len(q) + 1 \in 1 .. Len(r)
        BY <1>1
      <3> QED
        BY <1>1, <2>1, <3>1
    <2>2. CASE x # b + 1
      <3>1. x \in (a + 1) .. b
        BY <2>2
      <3>2. PICK k \in 1 .. Len(q) : MessageAt(q, k) /\ NumberAt(q, k) = x
        BY <3>1 DEF Numbered
      <3>3. k \in 1 .. Len(r)
        BY <1>1, <3>2
      <3> QED
        BY <1>1, <3>2, <3>3
    <2> QED
      BY <2>1, <2>2
  <1> QED
    BY <1>3, <1>4, <1>5 DEF Numbered

(* The first of the queue is no message, or it is the very next one.        *)
LEMMA QuietTaken ==
    ASSUME NEW q, NEW t, Shifted(t, q), ~MessageAt(q, 1),
           NEW a \in Nat, NEW b \in Nat, Numbered(q, a, b)
    PROVE  Numbered(t, a, b)
  <1>1. \A k \in 1 .. Len(t) : k + 1 \in 1 .. Len(q)
    BY DEF Shifted
  <1>2. \A k \in 1 .. Len(t) : MessageAt(t, k) => NumberAt(t, k) \in (a + 1) .. b
    BY <1>1 DEF Shifted, Numbered
  <1>3. \A j, k \in 1 .. Len(t) :
           j < k /\ MessageAt(t, j) /\ MessageAt(t, k) => NumberAt(t, j) < NumberAt(t, k)
    <2> SUFFICES ASSUME NEW j \in 1 .. Len(t), NEW k \in 1 .. Len(t), j < k, MessageAt(t, j), MessageAt(t, k)
                 PROVE  NumberAt(t, j) < NumberAt(t, k)
      OBVIOUS
    <2>1. j + 1 < k + 1
      OBVIOUS
    <2> QED
      BY <1>1, <2>1 DEF Shifted, Numbered
  <1>4. ASSUME NEW x \in (a + 1) .. b
        PROVE  \E k \in 1 .. Len(t) : MessageAt(t, k) /\ NumberAt(t, k) = x
    <2>1. PICK k \in 1 .. Len(q) : MessageAt(q, k) /\ NumberAt(q, k) = x
      BY DEF Numbered
    <2>2. k - 1 \in 1 .. Len(t) /\ (k - 1) + 1 = k
      BY <2>1 DEF Shifted
    <2>3. MessageAt(t, k - 1) /\ NumberAt(t, k - 1) = x
      BY <2>1, <2>2 DEF Shifted
    <2> QED
      BY <2>2, <2>3
  <1> QED
    BY <1>2, <1>3, <1>4 DEF Numbered

LEMMA MessageTaken ==
    ASSUME NEW q, NEW t, Shifted(t, q), MessageAt(q, 1),
           NEW a \in Nat, NEW b \in Nat, Numbered(q, a, b)
    PROVE  /\ NumberAt(q, 1) = a + 1 /\ a + 1 <= b
           /\ Numbered(t, a + 1, b)
  <1>0. 1 \in 1 .. Len(q)
    BY DEF Shifted
  <1>1. \A k \in 1 .. Len(t) : k + 1 \in 1 .. Len(q) /\ 1 < k + 1
    BY DEF Shifted
  <1>2. NumberAt(q, 1) \in (a + 1) .. b
    BY <1>0 DEF Numbered
  <1>3. a + 1 \in (a + 1) .. b
    BY <1>2
  <1>4. PICK k \in 1 .. Len(q) : MessageAt(q, k) /\ NumberAt(q, k) = a + 1
    BY <1>3 DEF Numbered
  <1>5. k = 1
    <2> SUFFICES ASSUME 1 < k PROVE FALSE
      OBVIOUS
    <2>1. NumberAt(q, 1) < a + 1
      BY <1>0, <1>4 DEF Numbered
    <2> QED
      BY <1>2, <2>1
  <1>6. NumberAt(q, 1) = a + 1 /\ a + 1 <= b
    BY <1>2, <1>4, <1>5
  <1>7. ASSUME NEW j \in 1 .. Len(t), MessageAt(t, j) PROVE NumberAt(t, j) \in ((a + 1) + 1) .. b
    <2>1. MessageAt(q, j + 1) /\ NumberAt(t, j) = NumberAt(q, j + 1)
      BY <1>7 DEF Shifted
    <2>2. NumberAt(q, j + 1) \in (a + 1) .. b /\ NumberAt(q, 1) < NumberAt(q, j + 1)
      BY <1>0, <1>1, <2>1 DEF Numbered
    <2> QED
      BY <1>6, <2>1, <2>2
  <1>8. \A j, l \in 1 .. Len(t) :
           j < l /\ MessageAt(t, j) /\ MessageAt(t, l) => NumberAt(t, j) < NumberAt(t, l)
    <2> SUFFICES ASSUME NEW j \in 1 .. Len(t), NEW l \in 1 .. Len(t), j < l, MessageAt(t, j), MessageAt(t, l)
                 PROVE  NumberAt(t, j) < NumberAt(t, l)
      OBVIOUS
    <2>1. j + 1 < l + 1
      OBVIOUS
    <2> QED
      BY <1>1, <2>1 DEF Shifted, Numbered
  <1>9. ASSUME NEW x \in ((a + 1) + 1) .. b
        PROVE  \E j \in 1 .. Len(t) : MessageAt(t, j) /\ NumberAt(t, j) = x
    <2>0. x \in (a + 1) .. b
      OBVIOUS
    <2>1. PICK j \in 1 .. Len(q) : MessageAt(q, j) /\ NumberAt(q, j) = x
      BY <2>0 DEF Numbered
    <2>2. j # 1
      BY <1>6, <2>1
    <2>3. j - 1 \in 1 .. Len(t) /\ (j - 1) + 1 = j
      BY <2>1, <2>2 DEF Shifted
    <2>4. MessageAt(t, j - 1) /\ NumberAt(t, j - 1) = x
      BY <2>1, <2>3 DEF Shifted
    <2> QED
      BY <2>3, <2>4
  <1> QED
    BY <1>6, <1>7, <1>8, <1>9 DEF Numbered

LEMMA NothingLeft ==
    ASSUME NEW q, NEW a \in Nat, NEW b \in Nat, a <= b, Numbered(q, a, b), NoMessage(q)
    PROVE  a = b
  <1> SUFFICES ASSUME a < b PROVE FALSE
    OBVIOUS
  <1>1. a + 1 \in (a + 1) .. b
    OBVIOUS
  <1> QED
    BY <1>1 DEF Numbered, NoMessage

(* Closes stay last.                                                        *)
LEMMA CloseTaken ==
    ASSUME NEW q, NEW t, Shifted(t, q), CloseLast(q)
    PROVE  CloseLast(t) /\ (CloseAt(q, 1) => NoMessage(t) /\ NoClose(t))
  <1>1. 1 \in 1 .. Len(q) /\ \A k \in 1 .. Len(t) : k + 1 \in 1 .. Len(q) /\ 1 < k + 1
    BY DEF Shifted
  <1>2. \A j, k \in 1 .. Len(t) : j < k => j + 1 < k + 1
    OBVIOUS
  <1>3. CloseLast(t)
    BY <1>1, <1>2 DEF Shifted, CloseLast
  <1>4. CloseAt(q, 1) => NoMessage(t) /\ NoClose(t)
    BY <1>1 DEF Shifted, CloseLast, NoMessage, NoClose
  <1> QED
    BY <1>3, <1>4

LEMMA ClosePosted ==
    ASSUME NEW r, NEW q, NEW t, Follows(r, q, t), NoClose(q), CloseLast(t)
    PROVE  CloseLast(r) /\ (NoClose(t) => NoClose(r))
  <1>1. ASSUME NEW k \in 1 .. Len(r), CloseAt(r, k)
        PROVE  k \notin 1 .. Len(q) /\ \E a \in 1 .. Len(t) : k = Len(q) + a /\ CloseAt(t, a) /\ NumberAt(r, k) = NumberAt(t, a)
    <2>1. k \notin 1 .. Len(q)
      BY <1>1 DEF Follows, NoClose
    <2>2. PICK a \in 1 .. Len(t) : k = Len(q) + a
      BY <2>1, FollowsSplit
    <2> QED
      BY <1>1, <2>1, <2>2 DEF Follows
  <1>2. ASSUME NEW j \in 1 .. Len(r), NEW k \in 1 .. Len(r), j < k, CloseAt(r, j)
        PROVE  ~MessageAt(r, k) /\ ~CloseAt(r, k)
    <2>1. PICK a \in 1 .. Len(t) : j = Len(q) + a /\ CloseAt(t, a)
      BY <1>1, <1>2
    <2>2. k \notin 1 .. Len(q)
      BY <1>1, <1>2 DEF Follows
    <2>3. PICK b \in 1 .. Len(t) : k = Len(q) + b
      BY <2>2, FollowsSplit
    <2>4. a < b
      BY <1>2, <2>1, <2>3 DEF Follows
    <2> QED
      BY <2>1, <2>3, <2>4 DEF Follows, CloseLast
  <1>3. \A k \in 1 .. Len(r) : CloseAt(r, k) => NumberAt(r, k) \in Codes
    BY <1>1 DEF CloseLast
  <1>4. NoClose(t) => NoClose(r)
    BY <1>1 DEF NoClose
  <1> QED
    BY <1>2, <1>3, <1>4 DEF CloseLast

-----------------------------------------------------------------------------
(* The steps.                                                               *)

LEMMA EventRecords ==
    /\ \A kind \in Kinds, n \in Nat : Event(kind, n) \in EventRecord
    /\ Finish \in EventRecord /\ Normal \in Nat /\ NoStatus \in Nat /\ Abnormal \in Nat
    /\ \A kind, n : Event(kind, n).kind = kind /\ Event(kind, n).n = n
  BY DEF Event, EventRecord, Finish, Kinds, Normal, NoStatus, Abnormal

LEMMA FinishLast ==
    /\ Append(<<>>, Finish) = <<Finish>>
    /\ \A x : Append(<<x>>, Finish) = <<x, Finish>>
    /\ \A x, y : Append(<<x, y>>, Finish) = <<x, y, Finish>>
  <1>1. ASSUME NEW f PROVE Append(<<>>, f) = <<f>>
    OBVIOUS
  <1>2. ASSUME NEW f, NEW x PROVE Append(<<x>>, f) = <<x, f>>
    <2> DEFINE S == {x, f}  l == Append(<<x>>, f)  r == <<x, f>>
    <2>1. <<x>> \in Seq(S) /\ f \in S /\ Len(<<x>>) = 1
      OBVIOUS
    <2>2. l \in Seq(S) /\ Len(l) = 2 /\ l[1] = x /\ l[2] = f
      BY <2>1
    <2>3. r \in Seq(S) /\ Len(r) = 2 /\ r[1] = x /\ r[2] = f
      OBVIOUS
    <2> HIDE DEF l, r, S
    <2>4. \A k \in 1 .. 2 : l[k] = r[k]
      BY <2>2, <2>3
    <2>5. l = r
      BY <2>2, <2>3, <2>4, SeqEqual
    <2> QED
      BY <2>5 DEF l, r
  <1>3. ASSUME NEW f, NEW x, NEW y PROVE Append(<<x, y>>, f) = <<x, y, f>>
    <2> DEFINE S == {x, y, f}  l == Append(<<x, y>>, f)  r == <<x, y, f>>
    <2>1. <<x, y>> \in Seq(S) /\ f \in S /\ Len(<<x, y>>) = 2
      OBVIOUS
    <2>2. l \in Seq(S) /\ Len(l) = 3 /\ l[1] = x /\ l[2] = y /\ l[3] = f
      BY <2>1
    <2>3. r \in Seq(S) /\ Len(r) = 3 /\ r[1] = x /\ r[2] = y /\ r[3] = f
      OBVIOUS
    <2> HIDE DEF l, r, S
    <2>4. \A k \in 1 .. 3 : l[k] = r[k]
      BY <2>2, <2>3
    <2>5. l = r
      BY <2>2, <2>3, <2>4, SeqEqual
    <2> QED
      BY <2>5 DEF l, r
  <1> QED
    BY <1>1, <1>2, <1>3

(* What the task posts: one event, or several of which at most one, the     *)
(* last but for note_finished, is a close.                                  *)
LEMMA OneEvent ==
    ASSUME NEW e \in EventRecord
    PROVE  /\ <<e>> \in Seq(EventRecord) /\ Len(<<e>>) = 1
           /\ (e.kind = "close" => e.n \in Codes) => CloseLast(<<e>>)
           /\ MessageAt(<<e>>, 1) = (e.kind = "message") /\ CloseAt(<<e>>, 1) = (e.kind = "close")
           /\ NumberAt(<<e>>, 1) = e.n
           /\ (e.kind # "message" => NoMessage(<<e>>)) /\ (e.kind # "close" => NoClose(<<e>>))
  <1>1. <<e>> \in Seq(EventRecord) /\ Len(<<e>>) = 1 /\ <<e>>[1] = e
    OBVIOUS
  <1>2. \A k \in 1 .. Len(<<e>>) : k = 1
    BY <1>1
  <1> QED
    BY <1>1, <1>2 DEF CloseLast, MessageAt, CloseAt, NumberAt, NoMessage, NoClose, IsMessage

LEMMA LastEvents ==
    ASSUME NEW code \in Codes,
           NEW t \in {<<Finish>>, <<Event("close", code), Finish>>,
                      <<Event("error", 0), Event("close", code), Finish>>}
    PROVE  t \in Seq(EventRecord) /\ NoMessage(t) /\ CloseLast(t)
  <1> DEFINE c == Event("close", code)  x == Event("error", 0)  f == Finish
  <1>1. c \in EventRecord /\ x \in EventRecord /\ f \in EventRecord
    BY EventRecords DEF Kinds, Codes
  <1>2. /\ c.kind = "close" /\ c.n = code /\ x.kind = "error" /\ f.kind = "finish"
    BY EventRecords DEF Finish
  <1> HIDE DEF c, x, f
  <1>3. CASE t = <<f>>
    <2>1. t \in Seq(EventRecord) /\ Len(t) = 1 /\ t[1] = f
      BY <1>1, <1>3
    <2>2. \A k \in 1 .. Len(t) : t[k] = f
      BY <2>1
    <2> QED
      BY <1>2, <2>1, <2>2 DEF NoMessage, CloseLast, MessageAt, CloseAt, IsMessage
  <1>4. CASE t = <<c, f>>
    <2>1. t \in Seq(EventRecord) /\ Len(t) = 2 /\ t[1] = c /\ t[2] = f
      BY <1>1, <1>4
    <2>2. \A k \in 1 .. Len(t) : (k = 1 /\ t[k] = c) \/ (k = 2 /\ t[k] = f)
      BY <2>1
    <2>3. \A k \in 1 .. Len(t) : ~MessageAt(t, k) /\ (CloseAt(t, k) => k = 1 /\ NumberAt(t, k) = code)
      BY <1>2, <2>2 DEF MessageAt, CloseAt, IsMessage, NumberAt
    <2>4. CloseLast(t)
      BY <2>3 DEF CloseLast
    <2> QED
      BY <2>1, <2>3, <2>4 DEF NoMessage
  <1>5. CASE t = <<x, c, f>>
    <2>1. t \in Seq(EventRecord) /\ Len(t) = 3 /\ t[1] = x /\ t[2] = c /\ t[3] = f
      BY <1>1, <1>5
    <2>2. \A k \in 1 .. Len(t) : t[k] = x \/ (k = 2 /\ t[k] = c) \/ t[k] = f
      BY <2>1
    <2>3. \A k \in 1 .. Len(t) : ~MessageAt(t, k) /\ (CloseAt(t, k) => k = 2 /\ NumberAt(t, k) = code)
      BY <1>2, <2>2 DEF MessageAt, CloseAt, IsMessage, NumberAt
    <2>4. CloseLast(t)
      BY <2>3 DEF CloseLast
    <2> QED
      BY <2>1, <2>3, <2>4 DEF NoMessage
  <1> QED
    BY <1>3, <1>4, <1>5 DEF c, x, f

(* The task, which runs, posts events without a message.                    *)
LEMMA TaskPosts ==
    ASSUME SocketInv, Running, NEW t \in Seq(EventRecord), events' = events \o t,
           NoMessage(t), CloseLast(t)
    PROVE  /\ events' \in Seq(EventRecord) /\ CloseLast(events') /\ closeCode = 0
           /\ NoClose(t) => NoClose(events')
           /\ \A m \in Nat : Numbered(events, Len(heard), m) => Numbered(events', Len(heard), m)
  <1>1. /\ events \in Seq(EventRecord) /\ NoClose(events) /\ closeCode = 0 /\ Len(heard) \in Nat
    BY DEF SocketInv, SocketTypes
  <1>2. events' \in Seq(EventRecord) /\ Follows(events', events, t)
    BY <1>1, Joined
  <1>3. CloseLast(events') /\ (NoClose(t) => NoClose(events'))
    BY <1>1, <1>2, ClosePosted
  <1>4. \A m \in Nat : Numbered(events, Len(heard), m) => Numbered(events', Len(heard), m)
    BY <1>1, <1>2, QuietPosted
  <1> QED
    BY <1>1, <1>2, <1>3, <1>4

(* The task ends.                                                           *)
LEMMA TaskEnds ==
    ASSUME SocketInv, Running, NEW code \in Codes,
           NEW t \in {<<Finish>>, <<Event("close", code), Finish>>,
                      <<Event("error", 0), Event("close", code), Finish>>},
           events' = events \o t, link' \in {"left", "lost", "silent", "ended"},
           NEW m \in Nat, Placed(m), link' = "ended" => m = Len(peerSent),
           inTable' \in BOOLEAN, outbox' \in Seq(EventRecord),
           wire' \in Seq(EventRecord), CloseLast(wire'),
           UNCHANGED <<peerSent, scriptVars>>
    PROVE  SocketInv' /\ Placed(m)'
  <1>1. t \in Seq(EventRecord) /\ NoMessage(t) /\ CloseLast(t)
    BY LastEvents
  <1>2. /\ events' \in Seq(EventRecord) /\ CloseLast(events') /\ closeCode = 0
        /\ Numbered(events, Len(heard), m) => Numbered(events', Len(heard), m)
    BY <1>1, TaskPosts
  <1>3. /\ readyState' = readyState /\ sends' = sends /\ heard' = heard /\ closeCode' = closeCode /\ peerSent' = peerSent
        /\ ~Running'
    BY DEF scriptVars, Running
  <1>4. SocketTypes'
    BY <1>2, <1>3 DEF SocketInv, SocketTypes
  <1>5. Placed(m)'
    BY <1>2, <1>3 DEF Placed
  <1>6. Counted(peerSent)' /\ Counted(heard)'
    BY <1>3 DEF SocketInv
  <1> QED
    BY <1>2, <1>3, <1>4, <1>5, <1>6 DEF SocketInv

(* A step that leaves the queues and the listeners alone.                   *)
LEMMA QuietStep ==
    ASSUME SocketInv, SocketTypes', UNCHANGED <<link, wire, peerSent, events, heard, closeCode>>
    PROVE  SocketInv'
  BY DEF SocketInv, Placed, Running

LEMMA ScriptStep ==
    ASSUME SocketInv, ScriptSends \/ close_ws
    PROVE  SocketInv' /\ UNCHANGED <<NotDiscarded, heard, Told>>
  <1>1. UNCHANGED <<link, wire, peerSent, events, heard, closeCode, inTable>>
    BY DEF ScriptSends, close_ws, taskVars, peerVars
  <1>2. SocketTypes
    BY DEF SocketInv
  <1>3. outbox' \in Seq(EventRecord)
    <2>1. \A n \in Nat : Event("message", n) \in EventRecord /\ Event("close", n) \in EventRecord
      BY EventRecords DEF Kinds
    <2>2. CASE close_ws
      BY <1>2, <2>1, <2>2 DEF close_ws, SocketTypes
    <2>3. CASE ScriptSends
      <3>1. PICK n \in Nat : outbox' = outbox \/ outbox' = Append(outbox, Event("message", n))
        <4>1. Len(sends) + 1 \in Nat
          BY <1>2 DEF SocketTypes
        <4> QED
          BY <2>3, <4>1 DEF ScriptSends
      <3>2. PICK e \in EventRecord : outbox' = outbox \/ outbox' = Append(outbox, e)
        BY <2>1, <3>1
      <3>3. outbox \in Seq(EventRecord)
        BY <1>2 DEF SocketTypes
      <3> QED
        BY <3>2, <3>3
    <2> QED
      BY <2>2, <2>3
  <1>4. readyState' \in 0 .. 3
    BY <1>2 DEF SocketTypes, ScriptSends, close_ws
  <1>5. sends' \in Seq(Nat)
    <2>1. sends \in Seq(Nat) /\ Len(sends) + 1 \in Nat
      BY <1>2 DEF SocketTypes
    <2>2. sends' = sends \/ sends' = Append(sends, Len(sends) + 1)
      BY DEF ScriptSends, close_ws
    <2> QED
      BY <2>1, <2>2
  <1>6. SocketTypes'
    BY <1>1, <1>2, <1>3, <1>4, <1>5 DEF SocketTypes
  <1> QED
    BY <1>1, <1>6, QuietStep DEF NotDiscarded, Forwarded, Told

(* The messages the task has passed on are the first m of the peer.         *)
ForwardedOf(h, es) ==
    {h[k] : k \in DOMAIN h} \cup {es[k].n : k \in {j \in DOMAIN es : IsMessage(es[j])}}
NotDiscardedOf(l, h, es, p) ==
    IF l \in {"left", "lost", "silent"} THEN [k \in ForwardedOf(h, es) |-> p[k]] ELSE p

LEMMA ForwardedIs ==
    ASSUME NEW h \in Seq(Nat), Counted(h), NEW es \in Seq(EventRecord), NEW m \in Nat, Len(h) <= m,
           Numbered(es, Len(h), m)
    PROVE  ForwardedOf(h, es) = 1 .. m
  <1>1. Len(h) \in Nat /\ DOMAIN h = 1 .. Len(h) /\ DOMAIN es = 1 .. Len(es)
    OBVIOUS
  <1>2. {h[k] : k \in DOMAIN h} = 1 .. Len(h)
    BY <1>1 DEF Counted
  <1>3. {es[k].n : k \in {j \in DOMAIN es : IsMessage(es[j])}} = (Len(h) + 1) .. m
    <2>1. {es[k].n : k \in {j \in DOMAIN es : IsMessage(es[j])}}
             = {NumberAt(es, k) : k \in {j \in 1 .. Len(es) : MessageAt(es, j)}}
      BY <1>1 DEF NumberAt, MessageAt
    <2>2. {NumberAt(es, k) : k \in {j \in 1 .. Len(es) : MessageAt(es, j)}} = (Len(h) + 1) .. m
      BY DEF Numbered
    <2> QED
      BY <2>1, <2>2
  <1>4. ForwardedOf(h, es) = (1 .. Len(h)) \cup ((Len(h) + 1) .. m)
    BY <1>2, <1>3, Zenon DEF ForwardedOf
  <1>5. (1 .. Len(h)) \cup ((Len(h) + 1) .. m) = 1 .. m
    BY <1>1
  <1> QED
    BY <1>4, <1>5, Zenon

LEMMA CountedPrefix ==
    ASSUME NEW s \in Seq(Nat), NEW t \in Seq(Nat), Counted(s), Counted(t), Len(t) <= Len(s)
    PROVE  t = SubSeq(s, 1, Len(t))
  <1> DEFINE p == SubSeq(s, 1, Len(t))
  <1>1. /\ p \in Seq(Nat) /\ Len(p) = Len(t) /\ \A k \in 1 .. Len(t) : p[k] = s[k]
        /\ p = [k \in 1 .. Len(t) |-> p[k]] /\ t = [k \in 1 .. Len(t) |-> t[k]]
    OBVIOUS
  <1>2. \A k \in 1 .. Len(t) : t[k] = k /\ k \in 1 .. Len(s)
    BY DEF Counted
  <1>3. \A k \in 1 .. Len(t) : s[k] = k
    BY <1>2 DEF Counted
  <1> HIDE DEF p
  <1>4. \A k \in 1 .. Len(t) : p[k] = t[k]
    BY <1>1, <1>2, <1>3
  <1>5. p = t
    BY <1>1, <1>4
  <1> QED
    BY <1>5 DEF p

(* What is not discarded.                                                   *)
LEMMA NotDiscardedIs ==
    ASSUME NEW h \in Seq(Nat), Counted(h), NEW es \in Seq(EventRecord), NEW p \in Seq(Nat), Counted(p),
           NEW m \in Nat, m \in Len(h) .. Len(p), Numbered(es, Len(h), m), NEW l
    PROVE  LET s == NotDiscardedOf(l, h, es, p)
           IN  /\ s \in Seq(Nat) /\ Counted(s) /\ h = SubSeq(s, 1, Len(h))
               /\ IF l \in {"left", "lost", "silent"} THEN s = SubSeq(p, 1, m) /\ Len(s) = m ELSE s = p
  <1> DEFINE s == NotDiscardedOf(l, h, es, p)
             f == [k \in 1 .. m |-> p[k]]
  <1>1. m <= Len(p) /\ Len(h) <= m /\ Len(p) \in Nat /\ Len(h) \in Nat
    OBVIOUS
  <1>2. f = SubSeq(p, 1, m)
    BY <1>1
  <1>3. f \in Seq(Nat) /\ Len(f) = m /\ \A k \in 1 .. m : f[k] = p[k]
    BY <1>1
  <1>4. IF l \in {"left", "lost", "silent"} THEN s = f ELSE s = p
    BY <1>1, ForwardedIs DEF NotDiscardedOf
  <1> HIDE DEF s, f
  <1>5. Counted(f)
    <2>1. \A k \in 1 .. m : k \in 1 .. Len(p)
      BY <1>1
    <2>2. \A k \in 1 .. m : p[k] = k
      BY <2>1 DEF Counted
    <2> QED
      BY <1>3, <2>2 DEF Counted
  <1>6. s \in Seq(Nat) /\ Counted(s) /\ Len(h) <= Len(s)
    BY <1>1, <1>3, <1>4, <1>5
  <1>7. h = SubSeq(s, 1, Len(h))
    BY <1>6, CountedPrefix
  <1> QED
    BY <1>2, <1>3, <1>4, <1>6, <1>7 DEF s

LEMMA NotDiscardedHere ==
    /\ NotDiscarded = NotDiscardedOf(link, heard, events, peerSent)
    /\ NotDiscarded' = NotDiscardedOf(link', heard', events', peerSent')
  BY DEF NotDiscarded, NotDiscardedOf, Forwarded, ForwardedOf

LEMMA ConnectStep ==
    ASSUME SocketInv, Connects
    PROVE  SocketInv' /\ UNCHANGED <<NotDiscarded, heard, Told>>
  <1>1. /\ link = "connecting" /\ peerSent = <<>> /\ wire = <<>> /\ Running
        /\ UNCHANGED <<inTable, wire, peerSent, readyState, sends, closedAt, heard, closeCode, outbox>>
    BY DEF SocketInv, Connects, Running, peerVars, scriptVars
  <1>2. SocketTypes /\ CloseLast(wire) /\ Counted(heard) /\ Counted(peerSent)
    BY DEF SocketInv
  <1>3. PICK m \in Nat : Placed(m)
    BY DEF SocketInv
  <1>4. m = 0
    BY <1>1, <1>3 DEF Placed
  <1>5. UNCHANGED Told
    BY <1>1 DEF Told
  <1>6. CASE link' = "lost" /\ events' = events \o <<Event("error", 0), Event("close", Abnormal), Finish>>
    <2>1. SocketInv' /\ Placed(m)'
      BY <1>1, <1>2, <1>3, <1>6, TaskEnds DEF SocketTypes, scriptVars, Codes
    <2>2. /\ heard' \in Seq(Nat) /\ Counted(heard') /\ events' \in Seq(EventRecord)
          /\ peerSent' \in Seq(Nat) /\ Counted(peerSent')
          /\ m \in Len(heard') .. Len(peerSent') /\ Numbered(events', Len(heard'), m)
      BY <2>1 DEF SocketInv, SocketTypes, Placed
    <2>3. NotDiscarded' = SubSeq(peerSent', 1, m)
      <3>1. LET s == NotDiscardedOf(link', heard', events', peerSent')
            IN  IF link' \in {"left", "lost", "silent"} THEN s = SubSeq(peerSent', 1, m) ELSE s = peerSent'
        BY <2>2, NotDiscardedIs
      <3> QED
        BY <1>6, <3>1, NotDiscardedHere
    <2>4. NotDiscarded = peerSent
      BY <1>1 DEF NotDiscarded
    <2>5. SubSeq(<<>>, 1, 0) = <<>>
      OBVIOUS
    <2> QED
      BY <1>1, <1>4, <1>5, <2>1, <2>3, <2>4, <2>5
  <1>7. CASE link' = "open" /\ events' = events \o <<Event("open", 0)>>
    <2> DEFINE t == <<Event("open", 0)>>
    <2>1. t \in Seq(EventRecord) /\ NoMessage(t) /\ NoClose(t) /\ CloseLast(t)
      BY EventRecords, OneEvent DEF Kinds
    <2> HIDE DEF t
    <2>2. /\ events' \in Seq(EventRecord) /\ CloseLast(events') /\ closeCode = 0 /\ NoClose(events')
          /\ Numbered(events', Len(heard), m)
      BY <1>1, <1>3, <1>7, <2>1, TaskPosts DEF Placed, t
    <2>3. SocketTypes'
      BY <1>1, <1>2, <1>7, <2>2 DEF SocketTypes
    <2>4. Placed(m)'
      <3>1. Numbered(wire, m, Len(peerSent))
        BY <1>1, <1>4 DEF Numbered
      <3> QED
        BY <1>1, <1>3, <1>7, <2>2, <3>1 DEF Placed
    <2>5. SocketInv'
      BY <1>1, <1>2, <1>7, <2>2, <2>3, <2>4 DEF SocketInv
    <2> QED
      BY <1>1, <1>5, <1>7, <2>5 DEF NotDiscarded
  <1> QED
    BY <1>6, <1>7 DEF Connects, Dispatch

(* The loop of the task breaks: what was not passed on is discarded.        *)
LEMMA BreakDiscards ==
    ASSUME SocketInv, link = "open", NEW m \in Nat, Placed(m),
           SocketInv', Placed(m)', link' \in {"left", "lost", "silent"},
           UNCHANGED <<peerSent, scriptVars>>
    PROVE  Peer!Discard(m) /\ m \in 0 .. Len(NotDiscarded)
  <1>1. /\ heard' = heard /\ closeCode' = closeCode /\ peerSent' = peerSent /\ closeCode = 0
        /\ peerSent \in Seq(Nat) /\ m \in Len(heard) .. Len(peerSent) /\ Len(heard) \in Nat
    BY DEF scriptVars, SocketInv, SocketTypes, Placed, Running
  <1>2. NotDiscarded = peerSent
    BY DEF NotDiscarded
  <1>3. NotDiscarded' = SubSeq(peerSent', 1, m)
    <2>1. /\ heard' \in Seq(Nat) /\ Counted(heard') /\ events' \in Seq(EventRecord)
          /\ peerSent' \in Seq(Nat) /\ Counted(peerSent')
          /\ m \in Len(heard') .. Len(peerSent') /\ Numbered(events', Len(heard'), m)
      BY DEF SocketInv, SocketTypes, Placed
    <2>2. LET s == NotDiscardedOf(link', heard', events', peerSent')
          IN  IF link' \in {"left", "lost", "silent"} THEN s = SubSeq(peerSent', 1, m) ELSE s = peerSent'
      BY <2>1, NotDiscardedIs
    <2> QED
      BY <2>2, NotDiscardedHere
  <1>4. Told = "open" /\ Told' = Told
    BY <1>1 DEF Told, Abnormal
  <1> QED
    BY <1>1, <1>2, <1>3, <1>4 DEF Peer!Discard

LEMMA OutgoingStep ==
    ASSUME SocketInv, Outgoing
    PROVE  SocketInv' /\ [Peer!Next]_(Peer!vars)
  <1>1. /\ link = "open" /\ Running /\ outbox # <<>> /\ outbox' = Tail(outbox)
        /\ UNCHANGED <<wire, peerSent, scriptVars>>
    BY DEF Outgoing, Running
  <1>2. SocketTypes /\ CloseLast(wire)
    BY DEF SocketInv
  <1>3. outbox' \in Seq(EventRecord)
    BY <1>1, <1>2 DEF SocketTypes
  <1>4. PICK m \in Nat : Placed(m)
    BY DEF SocketInv
  <1>5. CASE UNCHANGED <<inTable, link, events>>
    <2>1. SocketTypes'
      BY <1>1, <1>2, <1>3, <1>5 DEF SocketTypes, scriptVars
    <2>2. SocketInv'
      BY <1>1, <1>5, <2>1, QuietStep DEF scriptVars
    <2>3. UNCHANGED <<NotDiscarded, heard, Told>>
      BY <1>1, <1>5 DEF scriptVars, NotDiscarded, Forwarded, Told
    <2> QED
      BY <2>2, <2>3 DEF Peer!vars
  <1>6. CASE Breaks("silent", <<>>) \/ Breaks("left", <<Event("close", Normal)>>)
    <2>1. /\ link' \in {"silent", "left"} /\ inTable' \in BOOLEAN
          /\ \E t \in {<<Finish>>, <<Event("close", Normal), Finish>>} : events' = events \o t
      BY <1>6, FinishLast DEF Breaks, Dispatch
    <2>2. wire' \in Seq(EventRecord) /\ CloseLast(wire')
      BY <1>1, <1>2 DEF SocketTypes
    <2>3. SocketInv' /\ Placed(m)'
      BY <1>1, <1>3, <1>4, <2>1, <2>2, TaskEnds DEF Codes
    <2>4. Peer!Discard(m) /\ m \in 0 .. Len(NotDiscarded)
      BY <1>1, <1>4, <2>1, <2>3, BreakDiscards
    <2> QED
      BY <2>3, <2>4 DEF Peer!Next
  <1> QED
    BY <1>5, <1>6 DEF Outgoing

LEMMA IncomingStep ==
    ASSUME SocketInv, Incoming
    PROVE  SocketInv' /\ [Peer!Next]_(Peer!vars)
  <1>1. /\ link = "open" /\ Running
        /\ wire' = IF wire = <<>> THEN wire ELSE Tail(wire)
        /\ UNCHANGED <<peerSent, scriptVars, outbox>>
    BY DEF Incoming, Running, peerVars
  <1>2. /\ SocketTypes /\ CloseLast(wire) /\ wire \in Seq(EventRecord) /\ outbox \in Seq(EventRecord)
        /\ Counted(heard) /\ Counted(peerSent)
    BY DEF SocketInv, SocketTypes
  <1>3. PICK m \in Nat : Placed(m)
    BY DEF SocketInv
  <1>4. /\ Numbered(wire, m, Len(peerSent)) /\ m \in Len(heard) .. Len(peerSent)
        /\ Len(peerSent) \in Nat /\ Len(heard) \in Nat /\ Numbered(events, Len(heard), m)
    BY <1>1, <1>2, <1>3 DEF Placed, SocketTypes
  <1>5. wire # <<>> => /\ wire' = Tail(wire) /\ Shifted(wire', wire) /\ Head(wire) = wire[1]
                       /\ wire[1] \in EventRecord
    BY <1>1, <1>2, TailShifts
  <1>6. wire' \in Seq(EventRecord) /\ CloseLast(wire')
    <2>1. CASE wire = <<>>
      BY <1>1, <1>2, <2>1
    <2>2. CASE wire # <<>>
      BY <1>1, <1>2, <1>5, <2>2, TailShifts, CloseTaken
    <2> QED
      BY <2>1, <2>2
  <1>7. CASE wire # <<>> /\ Head(wire).kind = "message" /\ Dispatch(<<Head(wire)>>) /\ UNCHANGED <<inTable, link>>
    <2> DEFINE t == <<wire[1]>>
    <2>1. MessageAt(wire, 1) /\ NumberAt(wire, 1) = wire[1].n /\ wire[1].kind = "message"
      BY <1>5, <1>7 DEF MessageAt, IsMessage, NumberAt
    <2>2. /\ NumberAt(wire, 1) = m + 1 /\ m + 1 <= Len(peerSent)
          /\ Numbered(wire', m + 1, Len(peerSent))
      BY <1>4, <1>5, <1>7, <2>1, MessageTaken
    <2>3. /\ t \in Seq(EventRecord) /\ Len(t) = 1 /\ MessageAt(t, 1) /\ NoClose(t) /\ CloseLast(t)
          /\ NumberAt(t, 1) = m + 1
      BY <1>5, <1>7, <2>1, <2>2, OneEvent
    <2>4. events' = events \o t
      BY <1>5, <1>7 DEF Dispatch
    <2> HIDE DEF t
    <2>5. events \in Seq(EventRecord) /\ NoClose(events) /\ closeCode = 0
      BY <1>1, <1>2 DEF SocketTypes, SocketInv, Running
    <2>6. events' \in Seq(EventRecord) /\ Follows(events', events, t)
      BY <2>3, <2>4, <2>5, Joined
    <2>7. Numbered(events', Len(heard), m + 1)
      BY <1>4, <2>3, <2>6, MessagePosted
    <2>8. NoClose(events') /\ CloseLast(events')
      BY <2>3, <2>5, <2>6, ClosePosted
    <2>9. SocketTypes'
      BY <1>1, <1>2, <1>6, <1>7, <2>6 DEF SocketTypes, scriptVars
    <2>10. Placed(m + 1)' /\ m + 1 \in Nat
      BY <1>1, <1>4, <1>7, <2>2, <2>7 DEF Placed, scriptVars
    <2>11. SocketInv'
      BY <1>1, <1>2, <1>6, <1>7, <2>5, <2>8, <2>9, <2>10 DEF SocketInv, scriptVars
    <2>12. UNCHANGED <<NotDiscarded, heard, Told>>
      BY <1>1, <1>7 DEF NotDiscarded, Told, scriptVars
    <2> QED
      BY <2>11, <2>12 DEF Peer!vars
  <1>8. CASE wire # <<>> /\ Head(wire).kind = "close" /\ Breaks("ended", <<Head(wire)>>)
    <2>1. PICK code \in Codes : wire[1] = Event("close", code)
      <3>1. PICK code \in Nat : wire[1] = [kind |-> "close", n |-> code]
        BY <1>5, <1>8 DEF EventRecord
      <3>2. CloseAt(wire, 1) /\ NumberAt(wire, 1) = code /\ 1 \in 1 .. Len(wire)
        BY <1>5, <1>8, <3>1 DEF CloseAt, NumberAt, Shifted
      <3> QED
        BY <1>2, <3>1, <3>2 DEF CloseLast, Event
    <2>2. events' = events \o <<Event("close", code), Finish>> /\ link' = "ended" /\ inTable' \in BOOLEAN
      BY <1>5, <1>8, <2>1, FinishLast DEF Breaks, Dispatch
    <2>3. CloseAt(wire, 1) /\ ~MessageAt(wire, 1)
      BY <1>5, <1>8 DEF CloseAt, MessageAt, IsMessage
    <2>4. m = Len(peerSent)
      <3>1. NoMessage(wire') /\ Numbered(wire', m, Len(peerSent))
        BY <1>2, <1>4, <1>5, <1>8, <2>3, CloseTaken, QuietTaken
      <3> QED
        BY <1>4, <3>1, NothingLeft
    <2>5. SocketInv'
      BY <1>1, <1>2, <1>3, <1>6, <2>2, <2>4, TaskEnds
    <2>6. UNCHANGED <<NotDiscarded, heard, Told>>
      BY <1>1, <2>2 DEF NotDiscarded, Told, scriptVars
    <2> QED
      BY <2>5, <2>6 DEF Peer!vars
  <1>9. CASE Breaks("lost", <<Event("error", 0), Event("close", Abnormal)>>)
    <2>1. /\ events' = events \o <<Event("error", 0), Event("close", Abnormal), Finish>>
          /\ link' = "lost" /\ inTable' \in BOOLEAN
      BY <1>9, FinishLast DEF Breaks, Dispatch
    <2>2. SocketInv' /\ Placed(m)'
      BY <1>1, <1>2, <1>3, <1>6, <2>1, TaskEnds DEF Codes
    <2>3. Peer!Discard(m) /\ m \in 0 .. Len(NotDiscarded)
      BY <1>1, <1>3, <2>1, <2>2, BreakDiscards
    <2> QED
      BY <2>2, <2>3 DEF Peer!Next
  <1> QED
    BY <1>7, <1>8, <1>9 DEF Incoming

LEMMA PeerStep ==
    ASSUME SocketInv, PeerSends
    PROVE  SocketInv' /\ [Peer!Next]_(Peer!vars)
  <1>1. /\ link = "open" /\ link' = "open" /\ Running /\ closeCode = 0 /\ NoClose(wire)
        /\ UNCHANGED <<inTable, scriptVars, outbox, events>>
    <2>1. link = "open" /\ UNCHANGED <<inTable, link, scriptVars, outbox, events>>
      BY DEF PeerSends
    <2>2. Running
      BY <2>1 DEF Running
    <2>3. closeCode = 0 /\ wire \in Seq(EventRecord)
      BY <2>2 DEF SocketInv, SocketTypes
    <2>4. NoClose(wire)
      BY <2>3 DEF PeerSends, NoClose, CloseAt
    <2> QED
      BY <2>1, <2>2, <2>3, <2>4
  <1>2. /\ SocketTypes /\ Counted(heard) /\ Counted(peerSent) /\ CloseLast(events) /\ NoClose(events)
        /\ wire \in Seq(EventRecord) /\ peerSent \in Seq(Nat) /\ Len(peerSent) \in Nat
    BY <1>1 DEF SocketInv, SocketTypes
  <1>3. PICK m \in Nat : Placed(m)
    BY DEF SocketInv
  <1>4. Numbered(wire, m, Len(peerSent)) /\ m \in Len(heard) .. Len(peerSent)
    BY <1>1, <1>3 DEF Placed
  <1>5. UNCHANGED <<Told, heard>> /\ Told = "open"
    BY <1>1 DEF Told, scriptVars, Abnormal
  <1>6. NotDiscarded = peerSent /\ NotDiscarded' = peerSent'
    BY <1>1 DEF NotDiscarded
  <1>7. CASE /\ Len(peerSent) < MaxMessages
             /\ peerSent' = Append(peerSent, Len(peerSent) + 1)
             /\ wire' = Append(wire, Event("message", Len(peerSent) + 1))
    <2> DEFINE n == Len(peerSent) + 1
               e == Event("message", n)
    <2>1. n \in Nat /\ n \in 1 .. MaxMessages
      BY <1>2, <1>7, SocketAssumption
    <2>2. e \in EventRecord /\ e.kind = "message" /\ e.n = n
      BY <2>1, EventRecords DEF Kinds
    <2> HIDE DEF e
    <2>3. /\ <<e>> \in Seq(EventRecord) /\ Len(<<e>>) = 1 /\ MessageAt(<<e>>, 1) /\ NumberAt(<<e>>, 1) = n
          /\ NoClose(<<e>>) /\ CloseLast(<<e>>)
      BY <2>2, OneEvent
    <2>4. wire' = wire \o <<e>>
      BY <1>2, <1>7, <2>2, AppendIsConcat DEF e
    <2>5. wire' \in Seq(EventRecord) /\ Follows(wire', wire, <<e>>)
      BY <1>2, <2>3, <2>4, Joined
    <2>6. Numbered(wire', m, n)
      BY <1>2, <1>3, <1>4, <2>3, <2>5, MessagePosted
    <2>7. CloseLast(wire')
      BY <1>1, <2>3, <2>5, ClosePosted
    <2>8. peerSent' \in Seq(Nat) /\ Len(peerSent') = n /\ Counted(peerSent')
      <3>1. /\ peerSent' \in Seq(Nat) /\ Len(peerSent') = n /\ peerSent'[n] = n
            /\ \A k \in 1 .. Len(peerSent) : peerSent'[k] = peerSent[k]
        BY <1>2, <1>7, <2>1
      <3>2. \A k \in 1 .. n : k = n \/ k \in 1 .. Len(peerSent)
        BY <1>2
      <3> QED
        BY <1>2, <3>1, <3>2 DEF Counted
    <2>9. SocketTypes'
      BY <1>1, <1>2, <2>5, <2>8 DEF SocketTypes, scriptVars
    <2>10. Placed(m)'
      BY <1>1, <1>2, <1>3, <1>4, <2>6, <2>8 DEF Placed, scriptVars
    <2>11. SocketInv'
      BY <1>1, <1>2, <1>3, <2>7, <2>8, <2>9, <2>10 DEF SocketInv, scriptVars
    <2>12. Peer!Send(n)
      BY <1>5, <1>6, <1>7 DEF Peer!Send
    <2> QED
      BY <2>1, <2>11, <2>12 DEF Peer!Next
  <1>8. ASSUME NEW code \in {Normal, NoStatus},
               wire' = Append(wire, Event("close", code)), UNCHANGED peerSent
        PROVE  SocketInv' /\ [Peer!Next]_(Peer!vars)
    <2> DEFINE e == Event("close", code)
    <2>1. e \in EventRecord /\ e.kind = "close" /\ e.n = code /\ code \in Codes
      BY EventRecords DEF Kinds, Codes
    <2> HIDE DEF e
    <2>2. <<e>> \in Seq(EventRecord) /\ NoMessage(<<e>>) /\ CloseLast(<<e>>)
      BY <2>1, OneEvent
    <2>3. wire' = wire \o <<e>>
      BY <1>2, <1>8, <2>1, AppendIsConcat DEF e
    <2>4. wire' \in Seq(EventRecord) /\ Follows(wire', wire, <<e>>)
      BY <1>2, <2>2, <2>3, Joined
    <2>5. Numbered(wire', m, Len(peerSent)) /\ CloseLast(wire')
      BY <1>1, <1>2, <1>3, <1>4, <2>2, <2>4, QuietPosted, ClosePosted
    <2>6. SocketTypes'
      BY <1>1, <1>2, <1>8, <2>4 DEF SocketTypes, scriptVars
    <2>7. Placed(m)'
      BY <1>1, <1>2, <1>3, <1>4, <1>8, <2>5 DEF Placed, scriptVars
    <2>8. SocketInv'
      BY <1>1, <1>2, <1>3, <1>8, <2>5, <2>6, <2>7 DEF SocketInv, scriptVars
    <2> QED
      BY <1>5, <1>6, <1>8, <2>8 DEF Peer!vars
  <1> QED
    BY <1>7, <1>8 DEF PeerSends

LEMMA EventStep ==
    ASSUME SocketInv, onEvent
    PROVE  SocketInv' /\ [Peer!Next]_(Peer!vars)
  <1> DEFINE e == Head(events)
  <1>1. /\ events # <<>> /\ events' = Tail(events)
        /\ UNCHANGED <<inTable, link, wire, peerSent, outbox, sends>>
    BY DEF onEvent, taskVars, peerVars
  <1>2. /\ SocketTypes /\ Counted(heard) /\ Counted(peerSent) /\ CloseLast(events) /\ CloseLast(wire)
        /\ events \in Seq(EventRecord) /\ heard \in Seq(Nat) /\ Len(heard) \in Nat
        /\ peerSent \in Seq(Nat) /\ Len(peerSent) \in Nat /\ closeCode \in Nat
    BY DEF SocketInv, SocketTypes
  <1>3. /\ events' \in Seq(EventRecord) /\ Shifted(events', events) /\ e = events[1] /\ e \in EventRecord
    BY <1>1, <1>2, TailShifts
  <1>4. PICK m \in Nat : Placed(m)
    BY DEF SocketInv
  <1>5. m \in Len(heard) .. Len(peerSent) /\ Numbered(events, Len(heard), m)
    BY <1>4 DEF Placed
  <1>6. CloseLast(events') /\ (CloseAt(events, 1) => NoMessage(events') /\ NoClose(events'))
    BY <1>2, <1>3, CloseTaken
  <1>7. MessageAt(events, 1) = (e.kind = "message") /\ CloseAt(events, 1) = (e.kind = "close") /\ e.n = NumberAt(events, 1)
    BY <1>3 DEF MessageAt, CloseAt, NumberAt, IsMessage
  <1>8. 1 \in 1 .. Len(events) /\ \A k \in 1 .. Len(events') : k + 1 \in 1 .. Len(events)
    BY <1>3 DEF Shifted
  <1>9. closeCode # 0 => NoMessage(events) /\ NoClose(events) /\ ~Running
    BY DEF SocketInv
  <1>10. readyState' \in 0 .. 3
    BY <1>2 DEF onEvent, SocketTypes
  <1>11. NoClose(events) => NoClose(events')
    BY <1>3, <1>8 DEF NoClose, Shifted
  <1>12. NoMessage(events) => NoMessage(events')
    BY <1>3, <1>8 DEF NoMessage, Shifted
  <1>13. Running' = Running
    BY <1>1 DEF Running
  <1>14. Running => NoClose(events)
    BY DEF SocketInv
  <1>15. link = "connecting" => peerSent = <<>> /\ wire = <<>>
    BY DEF SocketInv
  <1> HIDE DEF e
  <1>20. CASE e.kind = "message"
    <2>1. heard' = Append(heard, e.n) /\ closeCode' = closeCode
      BY <1>20 DEF onEvent, e
    <2>2. e.n = Len(heard) + 1 /\ Len(heard) + 1 <= m /\ Numbered(events', Len(heard) + 1, m)
      BY <1>2, <1>3, <1>5, <1>7, <1>20, MessageTaken
    <2>3. heard' \in Seq(Nat) /\ Len(heard') = Len(heard) + 1 /\ Counted(heard')
      <3>1. /\ heard' \in Seq(Nat) /\ Len(heard') = Len(heard) + 1 /\ heard'[Len(heard) + 1] = Len(heard) + 1
            /\ \A k \in 1 .. Len(heard) : heard'[k] = heard[k]
        BY <1>2, <2>1, <2>2
      <3>2. \A k \in 1 .. (Len(heard) + 1) : k = Len(heard) + 1 \/ k \in 1 .. Len(heard)
        BY <1>2
      <3> QED
        BY <1>2, <3>1, <3>2 DEF Counted
    <2>4. closeCode = 0
      BY <1>2, <1>7, <1>8, <1>9, <1>20 DEF NoMessage
    <2>5. SocketTypes'
      BY <1>1, <1>2, <1>3, <1>10, <2>1, <2>3 DEF SocketTypes
    <2>6. Placed(m)'
      <3>1. Numbered(events', Len(heard'), m) /\ m \in Len(heard') .. Len(peerSent')
        BY <1>1, <1>2, <1>5, <2>2, <2>3
      <3> QED
        BY <1>1, <1>4, <3>1 DEF Placed
    <2>7. SocketInv'
      BY <1>1, <1>2, <1>4, <1>6, <1>11, <1>13, <1>14, <1>15, <2>1, <2>3, <2>4, <2>5, <2>6 DEF SocketInv
    <2>8. /\ heard' \in Seq(Nat) /\ Counted(heard') /\ events' \in Seq(EventRecord)
          /\ peerSent' \in Seq(Nat) /\ Counted(peerSent')
          /\ m \in Len(heard') .. Len(peerSent') /\ Numbered(events', Len(heard'), m)
      BY <2>6, <2>7 DEF SocketInv, SocketTypes, Placed
    <2>9. NotDiscarded' = NotDiscarded
      <3>1. LET s == NotDiscardedOf(link', heard', events', peerSent')
            IN  IF link' \in {"left", "lost", "silent"} THEN s = SubSeq(peerSent', 1, m) ELSE s = peerSent'
        BY <2>8, NotDiscardedIs
      <3>2. LET s == NotDiscardedOf(link, heard, events, peerSent)
            IN  IF link \in {"left", "lost", "silent"} THEN s = SubSeq(peerSent, 1, m) ELSE s = peerSent
        BY <1>2, <1>5, NotDiscardedIs
      <3> QED
        BY <1>1, <3>1, <3>2, NotDiscardedHere
    <2>10. heard' = SubSeq(NotDiscarded', 1, Len(heard')) /\ Len(heard') <= Len(NotDiscarded')
      <3>1. LET s == NotDiscardedOf(link', heard', events', peerSent')
            IN  /\ heard' = SubSeq(s, 1, Len(heard'))
                /\ IF link' \in {"left", "lost", "silent"} THEN Len(s) = m ELSE s = peerSent'
        BY <2>8, NotDiscardedIs
      <3> QED
        BY <1>1, <1>2, <2>8, <3>1, NotDiscardedHere
    <2>11. Told = "open" /\ Told' = "open"
      BY <2>1, <2>4 DEF Told, Abnormal
    <2> DEFINE n == Len(heard) + 1
    <2>12. n \in Len(heard) .. Len(NotDiscarded) /\ n \in 0 .. Len(NotDiscarded)
      BY <1>2, <2>3, <2>9, <2>10
    <2>13. Peer!Deliver(n)
      BY <2>3, <2>9, <2>10, <2>11, <2>12 DEF Peer!Deliver
    <2> QED
      BY <2>7, <2>12, <2>13 DEF Peer!Next
  <1>21. CASE e.kind # "message"
    <2>1. heard' = heard
      BY <1>21 DEF onEvent, e
    <2>2. Numbered(events', Len(heard), m)
      BY <1>2, <1>3, <1>5, <1>7, <1>21, QuietTaken
    <2>3. Placed(m)'
      BY <1>1, <1>4, <1>5, <2>1, <2>2 DEF Placed
    <2>4. closeCode' \in Nat
      BY <1>2, <1>3 DEF onEvent, EventRecord, e
    <2>5. SocketTypes'
      BY <1>1, <1>2, <1>3, <1>10, <2>1, <2>4 DEF SocketTypes
    <2>6. closeCode' # 0 => NoMessage(events') /\ NoClose(events') /\ ~Running'
      <3>1. CASE e.kind = "close"
        BY <1>6, <1>7, <1>8, <1>13, <1>14, <3>1 DEF NoClose
      <3>2. CASE e.kind # "close"
        <4>1. closeCode' = closeCode
          BY <3>2 DEF onEvent, e
        <4> QED
          BY <1>9, <1>11, <1>12, <1>13, <4>1
      <3> QED
        BY <3>1, <3>2
    <2>7. SocketInv'
      BY <1>1, <1>2, <1>4, <1>6, <1>11, <1>13, <1>14, <1>15, <2>1, <2>3, <2>5, <2>6 DEF SocketInv
    <2>8. /\ Forwarded' = Forwarded /\ NotDiscarded' = NotDiscarded
      <3>1. ForwardedOf(heard, events) = 1 .. m /\ ForwardedOf(heard', events') = 1 .. m
        BY <1>2, <1>3, <1>5, <2>1, <2>2, ForwardedIs
      <3>2. Forwarded = ForwardedOf(heard, events) /\ Forwarded' = ForwardedOf(heard', events')
        BY DEF Forwarded, ForwardedOf
      <3> QED
        BY <1>1, <3>1, <3>2 DEF NotDiscarded
    <2>9. CASE e.kind # "close"
      <3>1. Told' = Told
        BY <2>9 DEF onEvent, e, Told
      <3> QED
        BY <2>1, <2>7, <2>8, <3>1 DEF Peer!vars
    <2>10. CASE e.kind = "close"
      <3>1. closeCode' = e.n /\ e.n \in Codes /\ closeCode = 0
        BY <1>2, <1>7, <1>8, <1>9, <2>10 DEF onEvent, e, CloseLast, NoClose
      <3>2. CASE e.n = Abnormal
        <4>1. Told = "open" /\ Told' = "failed"
          BY <3>1, <3>2 DEF Told, Abnormal
        <4> QED
          BY <2>1, <2>7, <2>8, <4>1 DEF Peer!Next, Peer!Fail
      <3>3. CASE e.n # Abnormal
        <4>1. Told = "open" /\ Told' = "complete"
          BY <3>1, <3>3 DEF Told, Abnormal, Codes, Normal, NoStatus
        <4>2. m = Len(heard)
          <5>1. NoMessage(events')
            BY <1>6, <1>7, <2>10
          <5> QED
            BY <1>2, <1>5, <2>2, <5>1, NothingLeft
        <4>3. NotDiscarded = heard
          <5>1. ~Running
            BY <1>7, <1>8, <1>14, <2>10 DEF NoClose
          <5>2. LET s == NotDiscardedOf(link, heard, events, peerSent)
                IN  /\ heard = SubSeq(s, 1, Len(heard)) /\ s \in Seq(Nat)
                    /\ IF link \in {"left", "lost", "silent"} THEN Len(s) = m ELSE s = peerSent
            BY <1>2, <1>5, NotDiscardedIs
          <5>3. NotDiscarded \in Seq(Nat) /\ Len(NotDiscarded) = m /\ heard = SubSeq(NotDiscarded, 1, m)
            BY <1>2, <1>4, <4>2, <5>1, <5>2, NotDiscardedHere DEF Placed, Running, SocketTypes
          <5> QED
            BY <5>3
        <4> QED
          BY <2>1, <2>7, <2>8, <4>1, <4>3 DEF Peer!Next, Peer!Complete
      <3> QED
        BY <3>2, <3>3
    <2> QED
      BY <2>9, <2>10
  <1> QED
    BY <1>20, <1>21

-----------------------------------------------------------------------------

LEMMA SocketInvInit == SocketInit => SocketInv /\ Peer!Init
  <1> SUFFICES ASSUME SocketInit PROVE SocketInv /\ Peer!Init
    OBVIOUS
  <1>1. /\ readyState = 0 /\ inTable = TRUE /\ link = "connecting"
        /\ outbox = <<>> /\ wire = <<>> /\ events = <<>>
        /\ peerSent = <<>> /\ peerGot = <<>> /\ sends = <<>> /\ heard = <<>>
        /\ closeCode = 0
    BY DEF SocketInit
  <1>2. <<>> \in Seq(EventRecord) /\ <<>> \in Seq(Nat) /\ Len(<<>>) = 0
    OBVIOUS
  <1>3. SocketTypes
    BY <1>1, <1>2 DEF SocketTypes
  <1>4. /\ CloseLast(<<>>) /\ NoClose(<<>>) /\ Counted(<<>>) /\ Numbered(<<>>, 0, 0)
    BY <1>2 DEF CloseLast, NoClose, Counted, Numbered
  <1>5. Placed(0)
    BY <1>1, <1>2, <1>4 DEF Placed
  <1>6. SocketInv
    BY <1>1, <1>3, <1>4, <1>5 DEF SocketInv
  <1>7. Peer!Init
    BY <1>1 DEF Peer!Init, NotDiscarded, Told, Abnormal
  <1> QED
    BY <1>6, <1>7

LEMMA SocketInvNext ==
    SocketInv /\ [SocketNext]_socketVars => SocketInv' /\ [Peer!Next]_(Peer!vars)
  <1> SUFFICES ASSUME SocketInv, [SocketNext]_socketVars PROVE SocketInv' /\ [Peer!Next]_(Peer!vars)
    OBVIOUS
  <1>1. CASE ScriptSends \/ close_ws
    BY <1>1, ScriptStep DEF Peer!vars
  <1>2. CASE onEvent
    BY <1>2, EventStep
  <1>3. CASE Connects
    BY <1>3, ConnectStep DEF Peer!vars
  <1>4. CASE Outgoing
    BY <1>4, OutgoingStep
  <1>5. CASE Incoming
    BY <1>5, IncomingStep
  <1>6. CASE PeerSends
    BY <1>6, PeerStep
  <1>7. CASE UNCHANGED socketVars
    <2>1. UNCHANGED <<readyState, inTable, outbox, link, wire, peerSent, sends, events, heard, closeCode>>
      BY <1>7 DEF socketVars, taskVars, peerVars, scriptVars
    <2>2. SocketInv'
      BY <2>1 DEF SocketInv, SocketTypes, Placed, Running
    <2>3. UNCHANGED <<NotDiscarded, heard, Told>>
      BY <2>1 DEF NotDiscarded, Forwarded, Told
    <2> QED
      BY <2>2, <2>3 DEF Peer!vars
  <1> QED
    BY <1>1, <1>2, <1>3, <1>4, <1>5, <1>6, <1>7 DEF SocketNext

(* The inductive invariant.                                                 *)
THEOREM SocketInductive == SocketSpec => []SocketInv
  BY SocketInvInit, SocketInvNext, PTL DEF SocketSpec

(* The way in implements the chunk pipe: every message of the peer reaches  *)
(* the listeners once and in order, and a close that is not an error is     *)
(* reported when none of them is missing, whatever the script sends or      *)
(* closes and however the connection ends.                                  *)
THEOREM SocketHears == SocketSpec => HeardImplementsPipe
  BY SocketInvInit, SocketInvNext, PTL DEF SocketSpec, HeardImplementsPipe, Peer!Spec

(***************************************************************************)
(* The other direction.  The messages send() accepted before close() was   *)
(* called, and no others, come first in the channel: those the peer has    *)
(* not received, in order, and after them the close if there is one.       *)
(***************************************************************************)
Waiting(q, a, b, closed) ==
    /\ b - a <= Len(q)
    /\ \A k \in 1 .. (b - a) : MessageAt(q, k) /\ NumberAt(q, k) = a + k
    /\ IF closed THEN b - a < Len(q) /\ CloseAt(q, (b - a) + 1) ELSE Len(q) = b - a

OutTypes ==
    /\ outbox \in Seq(EventRecord) /\ sends \in Seq(Nat) /\ peerGot \in Seq(Nat)
    /\ link \in {"connecting", "open", "left", "lost", "silent", "ended"}
    /\ Counted(sends) /\ Counted(peerGot)
    /\ Len(sends) <= MaxMessages
    /\ closedAt \in Nat /\ (closedAt # Never => closedAt <= Len(sends))

OutInv ==
    /\ OutTypes
    /\ Len(peerGot) <= FirstClose
    /\ Running => inTable /\ Waiting(outbox, Len(peerGot), FirstClose, closedAt # Never)
    /\ link = "left" => Len(peerGot) = FirstClose /\ closedAt # Never

LEMMA AnotherWaits ==
    ASSUME NEW q, NEW t, NEW r, Follows(r, q, t), Len(t) = 1, MessageAt(t, 1),
           NEW a \in Nat, NEW b \in Nat, a <= b, Waiting(q, a, b, FALSE), NumberAt(t, 1) = b + 1
    PROVE  Waiting(r, a, b + 1, FALSE)
  <1>1. Len(q) = b - a /\ Len(r) = (b + 1) - a
    BY DEF Waiting, Follows
  <1>2. MessageAt(r, Len(q) + 1) /\ NumberAt(r, Len(q) + 1) = a + (Len(q) + 1)
    BY <1>1 DEF Follows
  <1>3. ASSUME NEW k \in 1 .. ((b + 1) - a) PROVE MessageAt(r, k) /\ NumberAt(r, k) = a + k
    <2>1. CASE k \in 1 .. Len(q)
      BY <1>1, <2>1 DEF Waiting, Follows
    <2>2. CASE k = Len(q) + 1
      BY <1>2, <2>2
    <2> QED
      BY <1>1, <2>1, <2>2
  <1> QED
    BY <1>1, <1>3 DEF Waiting

LEMMA MoreBehindClose ==
    ASSUME NEW q, NEW t, NEW r, Follows(r, q, t), NEW a \in Nat, NEW b \in Nat, a <= b, Waiting(q, a, b, TRUE)
    PROVE  Waiting(r, a, b, TRUE)
  <1>1. b - a < Len(q) /\ Len(q) <= Len(r) /\ Len(q) \in Nat /\ Len(r) \in Nat
    BY DEF Waiting, Follows
  <1>2. \A k \in 1 .. ((b - a) + 1) : k \in 1 .. Len(q)
    BY <1>1
  <1>3. (b - a) + 1 \in 1 .. ((b - a) + 1) /\ \A k \in 1 .. (b - a) : k \in 1 .. ((b - a) + 1)
    OBVIOUS
  <1> QED
    BY <1>1, <1>2, <1>3 DEF Waiting, Follows

LEMMA CloseWaits ==
    ASSUME NEW q, NEW t, NEW r, Follows(r, q, t), Len(t) = 1, CloseAt(t, 1),
           NEW a \in Nat, NEW b \in Nat, a <= b, Waiting(q, a, b, FALSE)
    PROVE  Waiting(r, a, b, TRUE)
  <1>1. Len(q) = b - a /\ Len(r) = (b - a) + 1
    BY DEF Waiting, Follows
  <1>2. \A k \in 1 .. (b - a) : k \in 1 .. Len(q)
    BY <1>1
  <1>3. CloseAt(r, (b - a) + 1)
    BY <1>1 DEF Follows
  <1> QED
    BY <1>1, <1>2, <1>3 DEF Waiting, Follows

LEMMA MessageGoesOut ==
    ASSUME NEW q, NEW t, Shifted(t, q), ~CloseAt(q, 1),
           NEW a \in Nat, NEW b \in Nat, a <= b, NEW closed \in BOOLEAN, Waiting(q, a, b, closed)
    PROVE  a + 1 <= b /\ NumberAt(q, 1) = a + 1 /\ Waiting(t, a + 1, b, closed)
  <1>1. a < b
    BY DEF Waiting, Shifted
  <1>2. NumberAt(q, 1) = a + 1
    BY <1>1 DEF Waiting
  <1>3. /\ Len(q) \in Nat /\ Len(t) = Len(q) - 1
        /\ b - (a + 1) <= Len(t) /\ (closed => b - (a + 1) < Len(t)) /\ (~closed => Len(t) = b - (a + 1))
    BY DEF Waiting, Shifted
  <1>4. ASSUME NEW k \in 1 .. (b - (a + 1)) PROVE MessageAt(t, k) /\ NumberAt(t, k) = (a + 1) + k
    <2>1. k + 1 \in 1 .. (b - a) /\ k \in 1 .. Len(t)
      BY <1>1, <1>3
    <2>2. MessageAt(q, k + 1) /\ NumberAt(q, k + 1) = a + (k + 1)
      BY <2>1 DEF Waiting
    <2> QED
      BY <2>1, <2>2 DEF Shifted
  <1>5. ASSUME closed PROVE CloseAt(t, (b - (a + 1)) + 1)
    <2>1. CloseAt(q, (b - a) + 1) /\ b - a \in 1 .. Len(t) /\ b - a = (b - (a + 1)) + 1
      BY <1>1, <1>3, <1>5 DEF Waiting
    <2> QED
      BY <2>1 DEF Shifted
  <1> QED
    BY <1>1, <1>2, <1>3, <1>4, <1>5 DEF Waiting

LEMMA CloseGoesOut ==
    ASSUME NEW q, Len(q) \in Nat, Len(q) >= 1, ~MessageAt(q, 1),
           NEW a \in Nat, NEW b \in Nat, a <= b, NEW closed \in BOOLEAN, Waiting(q, a, b, closed)
    PROVE  a = b /\ closed
  <1>1. a = b
    <2> SUFFICES ASSUME a < b PROVE FALSE
      OBVIOUS
    <2>1. 1 \in 1 .. (b - a)
      OBVIOUS
    <2> QED
      BY <2>1 DEF Waiting
  <1> QED
    BY <1>1 DEF Waiting

-----------------------------------------------------------------------------
LEMMA OutFacts ==
    ASSUME OutInv
    PROVE  /\ FirstClose \in 0 .. Len(sends) /\ Len(peerGot) \in Nat /\ Len(peerGot) <= FirstClose
           /\ Accepted \in Seq(Nat) /\ Len(Accepted) = FirstClose
           /\ Len(sends) \in Nat
           /\ peerGot = SubSeq(Accepted, 1, Len(peerGot))
  <1>1. /\ FirstClose \in 0 .. Len(sends) /\ Len(peerGot) \in Nat /\ Len(peerGot) <= FirstClose
        /\ Len(sends) \in Nat /\ sends \in Seq(Nat) /\ peerGot \in Seq(Nat)
        /\ Counted(sends) /\ Counted(peerGot)
    BY DEF OutInv, OutTypes, FirstClose
  <1> DEFINE n == FirstClose
             s == SubSeq(sends, 1, n)
  <1>2. s \in Seq(Nat) /\ Len(s) = n /\ \A k \in 1 .. n : s[k] = sends[k] /\ k \in 1 .. Len(sends)
    BY <1>1
  <1>3. s = Accepted
    BY DEF Accepted
  <1> HIDE DEF s, n
  <1>4. Counted(s)
    BY <1>1, <1>2 DEF Counted, n
  <1>5. Len(peerGot) <= Len(s)
    BY <1>1, <1>2 DEF n
  <1>6. peerGot = SubSeq(s, 1, Len(peerGot))
    BY <1>1, <1>2, <1>4, <1>5, CountedPrefix
  <1> QED
    BY <1>1, <1>2, <1>3, <1>6 DEF n

LEMMA OutAccepted == ASSUME OutInv PROVE Counted(Accepted)
  <1>1. FirstClose \in 0 .. Len(sends) /\ Len(sends) \in Nat
    BY OutFacts
  <1>2. sends \in Seq(Nat) /\ Counted(sends)
    BY DEF OutInv, OutTypes
  <1>3. \A k \in 1 .. FirstClose : k \in 1 .. Len(sends)
    BY <1>1
  <1> QED
    BY <1>1, <1>2, <1>3 DEF Accepted, Counted

(* A step that leaves this direction alone.                                 *)
LEMMA OutQuiet ==
    ASSUME OutInv, UNCHANGED <<inTable, outbox, link, sends, peerGot, closedAt>>
    PROVE  OutInv' /\ UNCHANGED Out!vars
  BY DEF OutInv, OutTypes, Running, FirstClose, NotLost, Accepted, PeerTold, Out!vars

(* The script sends.                                                        *)
LEMMA OutSends ==
    ASSUME OutInv, ScriptSends
    PROVE  OutInv' /\ [Out!Next]_(Out!vars)
  <1> DEFINE n == Len(sends) + 1
             e == Event("message", n)
  <1>1. /\ Len(sends) < MaxMessages /\ sends' = Append(sends, n)
        /\ outbox' = (IF inTable THEN Append(outbox, e) ELSE outbox)
        /\ UNCHANGED <<inTable, link, peerGot, closedAt>>
    BY DEF ScriptSends, taskVars, peerVars
  <1>2. /\ OutTypes /\ sends \in Seq(Nat) /\ Counted(sends) /\ Len(sends) \in Nat
        /\ outbox \in Seq(EventRecord) /\ closedAt \in Nat /\ peerGot \in Seq(Nat)
    BY DEF OutInv, OutTypes
  <1>3. n \in Nat /\ n \in 1 .. MaxMessages /\ MaxMessages \in Nat
    BY <1>1, <1>2, SocketAssumption
  <1>4. /\ sends' \in Seq(Nat) /\ Len(sends') = n /\ Counted(sends')
        /\ \A m \in 0 .. Len(sends) : SubSeq(sends', 1, m) = SubSeq(sends, 1, m)
    <2>1. /\ sends' \in Seq(Nat) /\ Len(sends') = n /\ sends'[n] = n
          /\ \A k \in 1 .. Len(sends) : sends'[k] = sends[k]
      BY <1>1, <1>2, <1>3
    <2>2. \A k \in 1 .. n : k = n \/ k \in 1 .. Len(sends)
      BY <1>2
    <2>3. Counted(sends')
      BY <1>2, <2>1, <2>2 DEF Counted
    <2>4. ASSUME NEW m \in 0 .. Len(sends) PROVE SubSeq(sends', 1, m) = SubSeq(sends, 1, m)
      BY <1>2, <2>1
    <2> QED
      BY <2>1, <2>3, <2>4
  <1>5. SubSeq(sends, 1, Len(sends)) = sends /\ SubSeq(sends', 1, n) = sends'
    BY <1>2, <1>4
  <1>6. e \in EventRecord /\ e.kind = "message" /\ e.n = n
    BY <1>3, EventRecords DEF Kinds
  <1>7. /\ <<e>> \in Seq(EventRecord) /\ Len(<<e>>) = 1 /\ MessageAt(<<e>>, 1) /\ NumberAt(<<e>>, 1) = n
    BY <1>6, OneEvent
  <1>8. /\ outbox' \in Seq(EventRecord)
        /\ inTable => Follows(outbox', outbox, <<e>>)
    <2>1. CASE inTable
      <3>1. outbox' = outbox \o <<e>>
        BY <1>1, <1>2, <1>6, <2>1, AppendIsConcat
      <3> QED
        BY <1>2, <1>7, <3>1, Joined
    <2>2. CASE ~inTable
      BY <1>1, <1>2, <2>2
    <2> QED
      BY <2>1, <2>2
  <1>9. closedAt = Never => FirstClose = Len(sends) /\ FirstClose' = n
    BY <1>1, <1>4 DEF FirstClose, Never
  <1>10. closedAt # Never => FirstClose = closedAt /\ FirstClose' = closedAt /\ closedAt <= Len(sends)
    BY <1>1, <1>2 DEF FirstClose, Never, OutTypes
  <1>11. Len(peerGot) \in Nat /\ Len(peerGot) <= FirstClose /\ Len(peerGot) <= FirstClose'
    BY <1>1, <1>2, <1>9, <1>10 DEF OutInv
  <1> HIDE DEF e
  <1>12. OutTypes'
    BY <1>1, <1>2, <1>3, <1>4, <1>8, <1>10 DEF OutTypes, Never
  <1>13. ASSUME Running PROVE inTable /\ Waiting(outbox', Len(peerGot), FirstClose', closedAt # Never)
    <2>1. inTable /\ Waiting(outbox, Len(peerGot), FirstClose, closedAt # Never)
      BY <1>13 DEF OutInv
    <2>2. Follows(outbox', outbox, <<e>>)
      BY <1>8, <2>1
    <2>3. CASE closedAt = Never
      <3>1. Waiting(outbox, Len(peerGot), Len(sends), FALSE) /\ Len(peerGot) <= Len(sends)
        BY <1>9, <1>11, <2>1, <2>3
      <3>2. Waiting(outbox', Len(peerGot), n, FALSE)
        BY <1>2, <1>7, <1>11, <2>2, <3>1, AnotherWaits
      <3> QED
        BY <1>9, <2>1, <2>3, <3>2
    <2>4. CASE closedAt # Never
      <3>1. Waiting(outbox, Len(peerGot), closedAt, TRUE)
        BY <1>10, <2>1, <2>4
      <3>2. Waiting(outbox', Len(peerGot), closedAt, TRUE)
        BY <1>2, <1>10, <1>11, <2>2, <2>4, <3>1, MoreBehindClose
      <3> QED
        BY <1>10, <2>1, <2>4, <3>2
    <2> QED
      BY <2>3, <2>4
  <1>14. OutInv'
    <2>1. Running' = Running /\ (link' = "left" => closedAt # Never /\ Len(peerGot) = FirstClose)
      BY <1>1 DEF Running, OutInv
    <2> QED
      BY <1>1, <1>10, <1>11, <1>12, <1>13, <2>1 DEF OutInv
  <1>15. PeerTold' = PeerTold /\ peerGot' = peerGot
    BY <1>1 DEF PeerTold
  <1>16. CASE closedAt # Never \/ link \in {"lost", "silent", "ended"}
    <2>1. CASE link \in {"lost", "silent", "ended"}
      BY <1>1, <1>14, <1>15, <2>1 DEF NotLost, Out!vars
    <2>2. CASE closedAt # Never
      <3>1. Accepted' = Accepted
        BY <1>2, <1>4, <1>10, <2>2 DEF Accepted
      <3> QED
        BY <1>1, <1>14, <1>15, <3>1 DEF NotLost, Out!vars
    <2> QED
      BY <1>16, <2>1, <2>2
  <1>17. CASE closedAt = Never /\ link \notin {"lost", "silent", "ended"}
    <2>1. Accepted = sends /\ Accepted' = sends'
      BY <1>5, <1>9, <1>17 DEF Accepted
    <2>2. NotLost = sends /\ NotLost' = Append(sends, n)
      BY <1>1, <1>17, <2>1 DEF NotLost
    <2>3. PeerTold = "open"
      BY <1>2, <1>17 DEF PeerTold, OutTypes, OutInv
    <2>4. Out!Send(n)
      BY <1>15, <2>2, <2>3 DEF Out!Send
    <2> QED
      BY <1>3, <1>14, <2>4 DEF Out!Next
  <1> QED
    BY <1>16, <1>17

(* The script closes, the first time or once more.                          *)
LEMMA OutCloses ==
    ASSUME OutInv, close_ws
    PROVE  OutInv' /\ UNCHANGED Out!vars
  <1> DEFINE e == Event("close", 0)
  <1>1. /\ closedAt' = FirstClose /\ UNCHANGED <<inTable, link, peerGot, sends>>
        /\ outbox' = (IF inTable THEN Append(outbox, e) ELSE outbox)
    BY DEF close_ws, taskVars, peerVars
  <1>2. OutTypes /\ outbox \in Seq(EventRecord) /\ MaxMessages \in Nat
    BY SocketAssumption DEF OutInv, OutTypes
  <1>3. /\ FirstClose \in 0 .. Len(sends) /\ FirstClose <= MaxMessages /\ Len(peerGot) \in Nat
        /\ Len(peerGot) <= FirstClose
    <2>1. FirstClose \in 0 .. Len(sends) /\ Len(sends) \in Nat /\ Len(peerGot) \in Nat /\ Len(peerGot) <= FirstClose
      BY OutFacts
    <2> QED
      BY <1>2, <2>1 DEF OutTypes
  <1>4. FirstClose' = FirstClose /\ closedAt' # Never
    BY <1>1, <1>2, <1>3 DEF FirstClose, Never
  <1>5. e \in EventRecord /\ e.kind = "close"
    BY EventRecords DEF Kinds
  <1>6. <<e>> \in Seq(EventRecord) /\ Len(<<e>>) = 1 /\ CloseAt(<<e>>, 1)
    BY <1>5, OneEvent
  <1>7. /\ outbox' \in Seq(EventRecord)
        /\ inTable => Follows(outbox', outbox, <<e>>)
    <2>1. CASE inTable
      <3>1. outbox' = outbox \o <<e>>
        BY <1>1, <1>2, <1>5, <2>1, AppendIsConcat
      <3> QED
        BY <1>2, <1>6, <3>1, Joined
    <2>2. CASE ~inTable
      BY <1>1, <1>2, <2>2
    <2> QED
      BY <2>1, <2>2
  <1> HIDE DEF e
  <1>8. OutTypes'
    BY <1>1, <1>2, <1>3, <1>7 DEF OutTypes, Never
  <1>9. ASSUME Running PROVE inTable /\ Waiting(outbox', Len(peerGot), FirstClose, TRUE)
    <2>1. inTable /\ Waiting(outbox, Len(peerGot), FirstClose, closedAt # Never) /\ FirstClose \in Nat
      BY <1>3, <1>9 DEF OutInv
    <2>2. Follows(outbox', outbox, <<e>>)
      BY <1>7, <2>1
    <2>3. CASE closedAt = Never
      <3>1. Waiting(outbox, Len(peerGot), FirstClose, FALSE)
        BY <2>1, <2>3
      <3> QED
        BY <1>3, <1>6, <2>1, <2>2, <3>1, CloseWaits
    <2>4. CASE closedAt # Never
      <3>1. Waiting(outbox, Len(peerGot), FirstClose, TRUE)
        BY <2>1, <2>4
      <3> QED
        BY <1>3, <2>1, <2>2, <3>1, MoreBehindClose
    <2> QED
      BY <2>3, <2>4
  <1>10. OutInv'
    <2>1. Running' = Running /\ (link' = "left" => Len(peerGot) = FirstClose)
      BY <1>1 DEF Running, OutInv
    <2> QED
      BY <1>1, <1>3, <1>4, <1>8, <1>9, <2>1 DEF OutInv
  <1> QED
    BY <1>1, <1>4, <1>10 DEF NotLost, Accepted, PeerTold, Out!vars

(* The loop ends or the connection fails: what has not gone out is lost.    *)
LEMMA OutLost ==
    ASSUME OutInv, Running, link' \in {"lost", "silent", "ended"}, outbox' \in Seq(EventRecord),
           UNCHANGED <<sends, closedAt, peerGot>>
    PROVE  OutInv' /\ [Out!Next]_(Out!vars)
  <1>1. /\ FirstClose \in 0 .. Len(sends) /\ Len(peerGot) \in Nat /\ Len(peerGot) <= FirstClose
        /\ Len(Accepted) = FirstClose /\ peerGot = SubSeq(Accepted, 1, Len(peerGot)) /\ Len(sends) \in Nat
    BY OutFacts
  <1>2. OutInv'
    BY <1>1 DEF OutInv, OutTypes, Running, FirstClose
  <1>3. NotLost = Accepted /\ NotLost' = peerGot /\ PeerTold = "open" /\ PeerTold' = "failed"
    BY DEF NotLost, PeerTold, Running
  <1> DEFINE m == Len(peerGot)
  <1>4. m \in Len(peerGot) .. Len(NotLost) /\ m \in 0 .. Len(NotLost)
    BY <1>1, <1>3
  <1>5. Out!Discard(m)
    BY <1>1, <1>3, <1>4 DEF Out!Discard
  <1> QED
    BY <1>2, <1>4, <1>5 DEF Out!Next

(* The task takes the next of the channel.                                  *)
LEMMA OutGoing ==
    ASSUME OutInv, Outgoing
    PROVE  OutInv' /\ [Out!Next]_(Out!vars)
  <1>1. /\ link = "open" /\ Running /\ outbox # <<>> /\ outbox' = Tail(outbox)
        /\ UNCHANGED <<sends, closedAt>>
    BY DEF Outgoing, Running, scriptVars
  <1>2. OutTypes /\ outbox \in Seq(EventRecord) /\ peerGot \in Seq(Nat) /\ Counted(peerGot)
    BY DEF OutInv, OutTypes
  <1>3. /\ Shifted(outbox', outbox) /\ outbox' \in Seq(EventRecord)
        /\ Head(outbox) = outbox[1] /\ outbox[1] \in EventRecord
    BY <1>1, <1>2, TailShifts
  <1>4. /\ FirstClose \in 0 .. Len(sends) /\ Len(peerGot) \in Nat /\ Len(peerGot) <= FirstClose
        /\ Accepted \in Seq(Nat) /\ Len(Accepted) = FirstClose
        /\ peerGot = SubSeq(Accepted, 1, Len(peerGot)) /\ Len(sends) \in Nat
    BY OutFacts
  <1>5. inTable /\ Waiting(outbox, Len(peerGot), FirstClose, closedAt # Never)
    BY <1>1 DEF OutInv
  <1>6. FirstClose' = FirstClose /\ FirstClose \in Nat
    BY <1>1, <1>4 DEF FirstClose
  <1>7. PeerTold = "open" /\ NotLost = Accepted /\ Accepted' = Accepted
    BY <1>1, <1>6 DEF PeerTold, NotLost, Accepted
  <1> DEFINE closed == closedAt # Never
  <1>8. closed \in BOOLEAN
    OBVIOUS
  <1> HIDE DEF closed
  <1>9. CASE /\ Head(outbox).kind = "message"
             /\ peerGot' = Append(peerGot, Head(outbox).n) /\ UNCHANGED <<inTable, link, events>>
    <2> DEFINE m == Len(peerGot) + 1
    <2>1. ~CloseAt(outbox, 1) /\ Head(outbox).n = NumberAt(outbox, 1)
      BY <1>3, <1>9 DEF CloseAt, NumberAt
    <2>2. m <= FirstClose /\ NumberAt(outbox, 1) = m /\ Waiting(outbox', m, FirstClose, closed)
      BY <1>3, <1>4, <1>5, <1>6, <1>8, <2>1, MessageGoesOut DEF closed
    <2>3. peerGot' = Append(peerGot, m)
      BY <1>9, <2>1, <2>2
    <2>4. peerGot' \in Seq(Nat) /\ Len(peerGot') = m /\ Counted(peerGot')
      <3>1. /\ peerGot' \in Seq(Nat) /\ Len(peerGot') = m /\ peerGot'[m] = m
            /\ \A k \in 1 .. Len(peerGot) : peerGot'[k] = peerGot[k]
        BY <1>2, <1>4, <2>3
      <3>2. \A k \in 1 .. m : k = m \/ k \in 1 .. Len(peerGot)
        BY <1>4
      <3> QED
        BY <1>2, <3>1, <3>2 DEF Counted
    <2>5. OutTypes'
      BY <1>1, <1>2, <1>3, <1>9, <2>4 DEF OutTypes
    <2>6. OutInv'
      <3>1. Waiting(outbox', Len(peerGot'), FirstClose', closedAt' # Never)
        BY <1>1, <1>6, <2>2, <2>4 DEF closed
      <3> QED
        BY <1>1, <1>5, <1>6, <1>9, <2>2, <2>4, <2>5, <3>1 DEF OutInv
    <2>7. peerGot' = SubSeq(Accepted', 1, Len(peerGot'))
      <3>1. /\ Accepted' \in Seq(Nat) /\ Len(Accepted') = FirstClose' /\ Counted(Accepted')
        BY <1>4, <1>6, <1>7, OutAccepted
      <3>2. Len(peerGot') <= Len(Accepted')
        BY <1>6, <2>2, <2>4, <3>1
      <3> QED
        BY <2>4, <3>1, <3>2, CountedPrefix, Zenon
    <2>8. NotLost' = NotLost /\ PeerTold' = PeerTold
      BY <1>1, <1>7, <1>9 DEF NotLost, PeerTold
    <2>9. m \in Len(peerGot) .. Len(NotLost) /\ m \in 0 .. Len(NotLost)
      BY <1>4, <1>7, <2>2
    <2>10. Out!Deliver(m)
      BY <1>7, <2>4, <2>7, <2>8, <2>9 DEF Out!Deliver
    <2> QED
      BY <2>6, <2>9, <2>10 DEF Out!Next
  <1>10. CASE Breaks("silent", <<>>) /\ UNCHANGED peerGot
    BY <1>1, <1>3, <1>10, OutLost DEF Breaks
  <1>11. CASE /\ Head(outbox).kind = "close"
              /\ Breaks("left", <<Event("close", Normal)>>) /\ UNCHANGED peerGot
    <2>1. ~MessageAt(outbox, 1)
      BY <1>3, <1>11 DEF MessageAt, IsMessage
    <2>2. Len(outbox) \in Nat /\ Len(outbox) >= 1
      BY <1>3 DEF Shifted
    <2>3. Len(peerGot) = FirstClose /\ closed
      BY <1>4, <1>5, <1>6, <1>8, <2>1, <2>2, CloseGoesOut DEF closed
    <2>4. link' = "left" /\ peerGot' = peerGot
      BY <1>11 DEF Breaks
    <2>5. OutTypes'
      BY <1>1, <1>2, <1>3, <2>4 DEF OutTypes
    <2>6. OutInv'
      BY <1>1, <1>4, <1>6, <2>3, <2>4, <2>5 DEF OutInv, Running, closed
    <2>7. NotLost' = Accepted /\ PeerTold' = "complete"
      BY <1>7, <2>4 DEF NotLost, PeerTold
    <2>8. peerGot = Accepted
      BY <1>4, <2>3
    <2>9. Out!Complete
      BY <1>7, <2>4, <2>7, <2>8 DEF Out!Complete
    <2> QED
      BY <2>6, <2>9 DEF Out!Next
  <1> QED
    BY <1>9, <1>10, <1>11 DEF Outgoing

LEMMA OutInvInit == SocketInit => OutInv /\ Out!Init
  <1> SUFFICES ASSUME SocketInit PROVE OutInv /\ Out!Init
    OBVIOUS
  <1>1. /\ inTable = TRUE /\ link = "connecting" /\ outbox = <<>> /\ peerGot = <<>> /\ sends = <<>>
        /\ closedAt = Never
    BY DEF SocketInit
  <1>2. /\ <<>> \in Seq(EventRecord) /\ <<>> \in Seq(Nat) /\ Len(<<>>) = 0 /\ Counted(<<>>)
        /\ SubSeq(<<>>, 1, 0) = <<>> /\ Waiting(<<>>, 0, 0, FALSE)
    BY DEF Counted, Waiting
  <1>3. FirstClose = 0
    BY <1>1, <1>2 DEF FirstClose
  <1>4. OutTypes
    BY <1>1, <1>2, SocketAssumption DEF OutTypes, Never
  <1>5. Waiting(outbox, Len(peerGot), FirstClose, FALSE) /\ Len(peerGot) = 0
    BY <1>1, <1>2, <1>3
  <1>6. (closedAt # Never) = FALSE
    BY <1>1
  <1>7. Waiting(outbox, Len(peerGot), FirstClose, closedAt # Never)
    BY <1>5, <1>6
  <1>8. OutInv
    BY <1>1, <1>3, <1>4, <1>5, <1>7 DEF OutInv
  <1> QED
    BY <1>1, <1>2, <1>3, <1>8 DEF Out!Init, NotLost, Accepted, PeerTold

LEMMA OutInvNext == OutInv /\ [SocketNext]_socketVars => OutInv' /\ [Out!Next]_(Out!vars)
  <1> SUFFICES ASSUME OutInv, [SocketNext]_socketVars PROVE OutInv' /\ [Out!Next]_(Out!vars)
    OBVIOUS
  <1>1. CASE ScriptSends
    BY <1>1, OutSends
  <1>2. CASE close_ws
    BY <1>2, OutCloses
  <1>3. CASE onEvent \/ PeerSends \/ UNCHANGED socketVars
    <2>1. UNCHANGED <<inTable, outbox, link, sends, peerGot, closedAt>>
      BY <1>3 DEF onEvent, PeerSends, socketVars, taskVars, peerVars, scriptVars
    <2> QED
      BY <2>1, OutQuiet
  <1>4. CASE Connects
    <2>1. UNCHANGED <<inTable, outbox, sends, peerGot, closedAt>> /\ Running
      BY <1>4 DEF Connects, peerVars, scriptVars, Running
    <2>2. CASE link' = "open"
      BY <1>4, <2>1, <2>2 DEF Connects, Running, OutInv, OutTypes, FirstClose, NotLost, Accepted, PeerTold, Out!vars
    <2>3. CASE link' = "lost"
      BY <2>1, <2>3, OutLost DEF OutInv, OutTypes
    <2> QED
      BY <1>4, <2>2, <2>3 DEF Connects
  <1>5. CASE Outgoing
    BY <1>5, OutGoing
  <1>6. CASE Incoming
    <2>1. UNCHANGED <<outbox, sends, peerGot, closedAt>> /\ Running
      BY <1>6 DEF Incoming, peerVars, scriptVars, Running
    <2>2. CASE UNCHANGED <<inTable, link>>
      BY <2>1, <2>2, OutQuiet
    <2>3. CASE link' \in {"ended", "lost"}
      BY <2>1, <2>3, OutLost DEF OutInv, OutTypes
    <2> QED
      BY <1>6, <2>2, <2>3 DEF Incoming, Breaks
  <1> QED
    BY <1>1, <1>2, <1>3, <1>4, <1>5, <1>6 DEF SocketNext

(* The way out implements the chunk pipe too: what send() accepted          *)
(* before close() was called reaches the peer once and in order, and the    *)
(* close goes out only after all of it, also when close() is called twice,  *)
(* or before the connection is open, and readyState moves back.             *)
THEOREM SocketSends == SocketSpec => SendsImplementPipe
  BY OutInvInit, OutInvNext, PTL DEF SocketSpec, SendsImplementPipe, Out!Spec

(* SocketImplementsPipe, for any number of messages: both directions of a   *)
(* WebSocket are pipes.                                                     *)
THEOREM SocketPipe == SocketSpec => SocketImplementsPipe
  BY SocketHears, SocketSends DEF SocketImplementsPipe

(***************************************************************************)
(* fetch and Bun.serve.                                                    *)
(*                                                                         *)
(* A respond id lives on in the queue and in the closures of the handlers  *)
(* after its request has gone, so AnswersBelong is not inductive: Belong   *)
(* adds that whoever still holds an id holds it for the call the table     *)
(* names, if it names one.  AbortHonoured rests on Wiring, which follows a *)
(* fired sender from the signal to the fetch that listens to it.           *)
(***************************************************************************)
ConnState == {"none", "backlog", "accepted", "waiting", "answered", "refused", "gone"}
FetchStage == {"idle", "sending", "reading", "posted", "settled"}
FetchRecord ==
    [stage : FetchStage, own : BOOLEAN, signal : Signal \cup {None}, early : BOOLEAN,
     result : {"none", "ok", "failed", "aborted"}, body : Call \cup {None}]
HandlerRecord == [id : Nat, promise : {"none", "pending", "settled"}]
Task == [kind : {"handle"}, of : Call, id : Nat] \cup [kind : {"deliver"}, of : Fetch, id : Nat]

TypesOK ==
    /\ nextId \in Nat
    /\ responders \in [DOMAIN responders -> Call]
    /\ DOMAIN responders \subseteq 0 .. nextId - 1
    /\ conn \in [Call -> ConnState]
    /\ handler \in [Call -> HandlerRecord]
    /\ answer \in [Call -> Call \cup {None}]
    /\ fetch \in [Fetch -> FetchRecord]
    /\ tasks \in Seq(Task)
    /\ aborted \subseteq Signal /\ made \subseteq Joint
    /\ cancels \subseteq Fetch /\ fired \subseteq Fetch

(* Whoever holds id holds it for c: the table has forgotten it, or agrees.  *)
HoldsFor(id, c) ==
    id < nextId /\ (id \in DOMAIN responders => responders[id] = c)

TasksHold ==
    \A i \in 1 .. Len(tasks) :
        tasks[i].kind = "handle" => HoldsFor(tasks[i].id, tasks[i].of)
HandlersHold ==
    \A c \in Call : handler[c].promise = "pending" => HoldsFor(handler[c].id, c)

(* A connection is done, and a fetch of this process reads, only with an    *)
(* answer.                                                                  *)
AnswersThere ==
    /\ \A c \in Call : conn[c] = "answered" => answer[c] # None
    /\ \A f \in Fetch : fetch[f].own /\ fetch[f].stage = "reading" => answer[f] # None

Belong == TasksHold /\ HandlersHold /\ AnswersThere /\ AnswersBelong

(* A fetch that has not started is not wired; a fired sender belongs to an  *)
(* aborted signal; a fetch whose signal was aborted before it started has   *)
(* been fired and has never connected.                                      *)
Wiring ==
    \A f \in Fetch :
        /\ f \in cancels \cup fired => fetch[f].stage # "idle"
        /\ fetch[f].stage = "idle" => conn[f] = "none" /\ fetch[f].result = "none"
                                      /\ ~fetch[f].early
        /\ f \in fired => fetch[f].signal \in aborted
        /\ fetch[f].early => /\ f \in fired
                             /\ conn[f] \in {"none", "gone"}
                             /\ fetch[f].stage # "reading"

Honoured == Wiring /\ AbortHonoured

-----------------------------------------------------------------------------
(* The initial state.                                                       *)
LEMMA InitHttp == HttpInit => TypesOK /\ Belong /\ Honoured
  <1> SUFFICES ASSUME HttpInit PROVE TypesOK /\ Belong /\ Honoured
    OBVIOUS
  <1> USE HttpAssumption DEF HttpInit, NewFetch, NoAnswer
  <1>1. TypesOK
    <2>1. DOMAIN responders = {} /\ tasks \in Seq(Task)
      OBVIOUS
    <2>2. responders \in [DOMAIN responders -> Call] /\ DOMAIN responders \subseteq 0 .. nextId - 1
      BY <2>1
    <2>3. fetch \in [Fetch -> FetchRecord] /\ handler \in [Call -> HandlerRecord]
      BY DEF FetchRecord, FetchStage, HandlerRecord
    <2> QED
      BY <2>1, <2>2, <2>3 DEF TypesOK, ConnState
  <1>2. Belong
    BY DEF Belong, TasksHold, HandlersHold, AnswersThere, AnswersBelong
  <1>3. Honoured
    BY HttpAssumption DEF Honoured, Wiring, AbortHonoured, Call
  <1> QED
    BY <1>1, <1>2, <1>3
-----------------------------------------------------------------------------
(* The first task of the queue, and what stays behind it.                   *)
LEMMA FirstTask ==
    ASSUME tasks \in Seq(Task), tasks # <<>>
    PROVE  /\ Len(tasks) >= 1
           /\ Head(tasks) = tasks[1] /\ Head(tasks) \in Task
           /\ Tail(tasks) \in Seq(Task)
           /\ Len(Tail(tasks)) = Len(tasks) - 1
           /\ \A i \in 1 .. Len(tasks) - 1 : Tail(tasks)[i] = tasks[i + 1]
  OBVIOUS

(* A task behind the others.                                                *)
LEMMA LastOfTasks ==
    ASSUME tasks \in Seq(Task), NEW t \in Task
    PROVE  /\ Append(tasks, t) \in Seq(Task)
           /\ Len(Append(tasks, t)) = Len(tasks) + 1
           /\ \A i \in 1 .. Len(tasks) : Append(tasks, t)[i] = tasks[i]
           /\ Append(tasks, t)[Len(tasks) + 1] = t
  OBVIOUS

(* Answering an id keeps the types of the table and of the answers.         *)
LEMMA RespondTypes ==
    ASSUME TypesOK, NEW id \in Nat, NEW c \in Call, Respond(id, c)
    PROVE  /\ responders' \in [DOMAIN responders' -> Call]
           /\ DOMAIN responders' \subseteq DOMAIN responders
           /\ answer' \in [Call -> Call \cup {None}]
  BY DEF TypesOK, Respond

(* A new stage, a new result and a new body leave a fetch a fetch.          *)
LEMMA FetchTypes ==
    ASSUME TypesOK, NEW f \in Fetch, NEW stage \in FetchStage
    PROVE  /\ [fetch EXCEPT ![f].stage = stage] \in [Fetch -> FetchRecord]
           /\ \A result \in {"ok", "failed", "aborted"}, body \in Call \cup {None} :
                 [fetch EXCEPT ![f] = [@ EXCEPT !.stage = stage, !.result = result,
                                               !.body = body]] \in [Fetch -> FetchRecord]
  <1>1. fetch \in [Fetch -> FetchRecord] /\ fetch[f] \in FetchRecord
    BY DEF TypesOK
  <1>2. [fetch[f] EXCEPT !.stage = stage] \in FetchRecord
    BY <1>1 DEF FetchRecord
  <1>3. ASSUME NEW result \in {"ok", "failed", "aborted"}, NEW body \in Call \cup {None}
        PROVE  [fetch[f] EXCEPT !.stage = stage, !.result = result, !.body = body]
                   \in FetchRecord
    BY <1>1 DEF FetchRecord
  <1>4. ASSUME NEW r \in FetchRecord PROVE [fetch EXCEPT ![f] = r] \in [Fetch -> FetchRecord]
    BY <1>1
  <1> QED
    BY <1>2, <1>3, <1>4

(* Posting the settlement of a fetch keeps the types.                       *)
LEMMA DeliverTypes ==
    ASSUME TypesOK, NEW f \in Fetch, NEW result \in {"ok", "failed", "aborted"},
           NEW body \in Call \cup {None}, deliver(f, result, body)
    PROVE  fetch' \in [Fetch -> FetchRecord] /\ tasks' \in Seq(Task)
  <1>1. [kind |-> "deliver", of |-> f, id |-> 0] \in Task
    BY DEF Task, Call
  <1>2. tasks' \in Seq(Task)
    BY <1>1, LastOfTasks DEF TypesOK, deliver
  <1>3. fetch' \in [Fetch -> FetchRecord]
    BY FetchTypes DEF deliver, FetchStage
  <1> QED
    BY <1>2, <1>3

(* Types are kept.                                                          *)
LEMMA TypesStep ==
    ASSUME TypesOK, [HttpNext]_httpVars
    PROVE  TypesOK'
  <1> USE HttpAssumption DEF serveVars, fetchVars
  <1>1. CASE Serve \/ Stop \/ Exit \/ UNCHANGED httpVars
    BY <1>1 DEF TypesOK, Serve, Stop, Exit, httpVars
  <1>2. CASE AcceptEnds
    BY <1>2 DEF TypesOK, ConnState, AcceptEnds
  <1>3. CASE Handle
    <2> DEFINE c == Head(tasks).of
               id == Head(tasks).id
    <2>1. c \in Call /\ id \in Nat /\ tasks' \in Seq(Task)
      BY <1>3, FirstTask DEF TypesOK, Handle, Task
    <2>2. /\ responders' \in [DOMAIN responders' -> Call]
          /\ DOMAIN responders' \subseteq DOMAIN responders
          /\ answer' \in [Call -> Call \cup {None}]
      <3>1. CASE Respond(id, c)
        BY <2>1, <3>1, RespondTypes
      <3>2. CASE UNCHANGED <<responders, answer>>
        BY <3>2 DEF TypesOK
      <3> QED
        BY <1>3, <3>1, <3>2 DEF Handle
    <2>3. handler' \in [Call -> HandlerRecord]
      <3>1. PICK p \in {"settled", "pending"} :
                handler' = [handler EXCEPT ![c] = [id |-> id, promise |-> p]]
        BY <1>3 DEF Handle
      <3>2. [id |-> id, promise |-> p] \in HandlerRecord
        BY <2>1 DEF HandlerRecord
      <3> QED
        BY <3>1, <3>2 DEF TypesOK
    <2> QED
      BY <1>3, <2>1, <2>2, <2>3 DEF TypesOK, Handle
  <1>4. CASE Deliver
    <2>1. tasks' \in Seq(Task)
      BY <1>4, FirstTask DEF TypesOK, Deliver
    <2>2. fetch' \in [Fetch -> FetchRecord]
      <3>1. Head(tasks).of \in Fetch
        BY <1>4, FirstTask DEF TypesOK, Deliver, Task
      <3> QED
        BY <1>4, <3>1, FetchTypes DEF Deliver, FetchStage
    <2> QED
      BY <1>4, <2>1, <2>2 DEF TypesOK, Deliver
  <1>5. ASSUME NEW c \in Call, Accept(c) \/ Written(c) PROVE TypesOK'
    BY <1>5 DEF TypesOK, ConnState, Accept, Written
  <1>6. ASSUME NEW c \in Call, handle_request(c) PROVE TypesOK'
    <2>1. [kind |-> "handle", of |-> c, id |-> nextId] \in Task
      BY DEF TypesOK, Task
    <2>2. tasks' \in Seq(Task)
      BY <1>6, <2>1, LastOfTasks DEF TypesOK, handle_request, respond_id
    <2>3. /\ responders' \in [DOMAIN responders' -> Call]
          /\ DOMAIN responders' \subseteq 0 .. nextId' - 1
      BY <1>6 DEF TypesOK, handle_request, respond_id
    <2>4. conn' \in [Call -> ConnState]
      BY <1>6 DEF TypesOK, handle_request, ConnState
    <2> QED
      BY <1>6, <2>2, <2>3, <2>4 DEF TypesOK, handle_request
  <1>7. ASSUME NEW c \in Call, HandlerSettles(c) PROVE TypesOK'
    <2>1. handler[c].id \in Nat
      BY DEF TypesOK, HandlerRecord
    <2>2. /\ responders' \in [DOMAIN responders' -> Call]
          /\ DOMAIN responders' \subseteq DOMAIN responders
          /\ answer' \in [Call -> Call \cup {None}]
      BY <1>7, <2>1, RespondTypes DEF HandlerSettles
    <2>3. handler' \in [Call -> HandlerRecord]
      BY <1>7 DEF TypesOK, HandlerSettles, HandlerRecord
    <2> QED
      BY <1>7, <2>2, <2>3 DEF TypesOK, HandlerSettles
  <1>8. ASSUME NEW c \in Outside, OutsideCalls(c) \/ OutsideLeaves(c) PROVE TypesOK'
    BY <1>8 DEF TypesOK, ConnState, OutsideCalls, OutsideLeaves
  <1>9. ASSUME NEW s \in Signal, ScriptAborts(s) \/ MakeAny(s) PROVE TypesOK'
    BY <1>9 DEF TypesOK, ScriptAborts, AbortWith, MakeAny
  <1>10. ASSUME NEW f \in Fetch, StartFetch(f) PROVE TypesOK'
    <2>1. fetch' \in [Fetch -> FetchRecord]
      <3>1. PICK s \in Signal \cup {None}, own \in BOOLEAN :
                fetch' = [fetch EXCEPT ![f] = [@ EXCEPT !.stage = "sending", !.own = own,
                                               !.signal = s, !.early = s \in aborted]]
        BY <1>10 DEF TypesOK, StartFetch
      <3>2. fetch[f] \in FetchRecord /\ (s \in aborted) \in BOOLEAN
        BY DEF TypesOK
      <3>3. [fetch[f] EXCEPT !.stage = "sending", !.own = own, !.signal = s,
                             !.early = s \in aborted] \in FetchRecord
        BY <3>2 DEF FetchRecord, FetchStage
      <3> QED
        BY <3>1, <3>3 DEF TypesOK
    <2>2. cancels' \subseteq Fetch /\ fired' \subseteq Fetch
      BY <1>10 DEF TypesOK, StartFetch, Wired
    <2> QED
      BY <1>10, <2>1, <2>2 DEF TypesOK, StartFetch
  <1>11. ASSUME NEW f \in Fetch, Connect(f) PROVE TypesOK'
    BY <1>11 DEF TypesOK, ConnState, Connect
  <1>12. ASSUME NEW f \in Fetch, SendFails(f) \/ Cancelled(f) \/ Body(f) PROVE TypesOK'
    <2>1. PICK result \in {"ok", "failed", "aborted"}, body \in Call \cup {None} :
              deliver(f, result, body)
      BY <1>12 DEF TypesOK, SendFails, Cancelled, Body, NoAnswer, Call
    <2>2. fetch' \in [Fetch -> FetchRecord] /\ tasks' \in Seq(Task)
      BY <2>1, DeliverTypes
    <2>3. conn' \in [Call -> ConnState]
      BY <1>12 DEF TypesOK, ConnState, SendFails, Cancelled, Body
    <2> QED
      BY <1>12, <2>1, <2>2, <2>3 DEF TypesOK, SendFails, Cancelled, Body, deliver
  <1>13. ASSUME NEW f \in Fetch, Headers(f) PROVE TypesOK'
    <2>1. fetch' \in [Fetch -> FetchRecord]
      BY <1>13, FetchTypes DEF Headers, FetchStage
    <2> QED
      BY <1>13, <2>1 DEF TypesOK, Headers
  <1> QED
    BY <1>1, <1>2, <1>3, <1>4, <1>5, <1>6, <1>7, <1>8, <1>9, <1>10, <1>11, <1>12, <1>13
       DEF HttpNext
-----------------------------------------------------------------------------
(* Answering an id that is held for c gives c its own answer, and takes no  *)
(* id away from anybody else.                                               *)
LEMMA RespondBelongs ==
    ASSUME TypesOK, Belong, NEW id \in Nat, NEW c \in Call, HoldsFor(id, c),
           Respond(id, c), nextId' = nextId
    PROVE  /\ \A d \in Call : answer'[d] # None => answer'[d] = d
           /\ \A d \in Call : answer[d] # None => answer'[d] # None
           /\ \A i \in Nat, d \in Call : HoldsFor(i, d) => HoldsFor(i, d)'
  BY SMTT(30), HttpAssumption DEF TypesOK, Belong, AnswersBelong, Respond, HoldsFor, NoAnswer

(* A step of the network, the script or the server object that touches      *)
(* neither ids nor answers nor fetches.                                     *)
LEMMA QuietBelongs ==
    ASSUME TypesOK, Belong,
           UNCHANGED <<responders, nextId, handler, answer, fetch, tasks>>,
           \A c \in Call : conn'[c] = "answered" => conn[c] = "answered" \/ answer[c] # None
    PROVE  Belong'
  BY DEF Belong, TasksHold, HandlersHold, HoldsFor, AnswersThere, AnswersBelong, NoAnswer

(* A step of a fetch.                                                       *)
LEMMA FetchBelongs ==
    ASSUME TypesOK, Belong, UNCHANGED <<responders, nextId, handler, answer>>,
           \A c \in Call : conn'[c] = "answered" => conn[c] = "answered",
           \A i \in 1 .. Len(tasks') :
               tasks'[i].kind = "handle" => \E j \in 1 .. Len(tasks) : tasks'[i] = tasks[j],
           \A f \in Fetch :
               /\ fetch'[f].own /\ fetch'[f].stage = "reading" => answer[f] # None
               /\ fetch'[f].own /\ fetch'[f].result = "ok" => fetch'[f].body = f
    PROVE  Belong'
  BY DEF Belong, TasksHold, HandlersHold, HoldsFor, AnswersThere, AnswersBelong, NoAnswer

(* Ids stay with their calls, and answers with their requests.              *)
LEMMA BelongStep ==
    ASSUME TypesOK, Belong, Wiring, [HttpNext]_httpVars
    PROVE  Belong'
  <1> USE HttpAssumption DEF serveVars, fetchVars
  <1>1. CASE Serve \/ Stop \/ Exit \/ UNCHANGED httpVars
    BY <1>1, QuietBelongs DEF Serve, Stop, Exit, httpVars
  <1>2. CASE AcceptEnds
    BY <1>2, QuietBelongs DEF TypesOK, AcceptEnds
  <1>3. CASE Handle
    <2> DEFINE c == Head(tasks).of
               id == Head(tasks).id
    <2>1. c \in Call /\ id \in Nat /\ HoldsFor(id, c)
      BY <1>3, FirstTask DEF TypesOK, Handle, Task, Belong, TasksHold
    <2>2. /\ \A d \in Call : answer'[d] # None => answer'[d] = d
          /\ \A d \in Call : answer[d] # None => answer'[d] # None
          /\ \A i \in Nat, d \in Call : HoldsFor(i, d) => HoldsFor(i, d)'
      <3>1. CASE Respond(id, c)
        BY <1>3, <2>1, <3>1, RespondBelongs DEF Handle
      <3>2. CASE UNCHANGED <<responders, answer>>
        BY <1>3, <3>2 DEF Handle, Belong, AnswersBelong, HoldsFor, NoAnswer
      <3> QED
        BY <1>3, <3>1, <3>2 DEF Handle
    <2>3. TasksHold'
      BY <1>3, <2>2, FirstTask DEF TypesOK, Handle, Task, Belong, TasksHold
    <2>4. HandlersHold'
      <3>1. ASSUME NEW d \in Call, d # c PROVE handler'[d] = handler[d]
        BY <1>3, <3>1 DEF TypesOK, Handle
      <3>2. handler'[c].id = id
        BY <1>3, <2>1 DEF TypesOK, Handle
      <3> QED
        BY <2>1, <2>2, <3>1, <3>2 DEF TypesOK, HandlerRecord, Belong, HandlersHold
    <2>5. UNCHANGED <<conn, fetch>>
      BY <1>3 DEF Handle
    <2> QED
      BY <2>2, <2>3, <2>4, <2>5 DEF Belong, AnswersThere, AnswersBelong, NoAnswer, Call
  <1>4. CASE Deliver
    <2>1. \A i \in 1 .. Len(tasks') : \E j \in 1 .. Len(tasks) : tasks'[i] = tasks[j]
      BY <1>4, FirstTask DEF TypesOK, Deliver
    <2>2. \A f \in Fetch : /\ fetch'[f].own = fetch[f].own
                           /\ fetch'[f].result = fetch[f].result
                           /\ fetch'[f].body = fetch[f].body
                           /\ fetch'[f].stage \in {fetch[f].stage, "settled"}
      BY <1>4 DEF TypesOK, FetchRecord, Deliver
    <2> QED
      BY <1>4, <2>1, <2>2, FetchBelongs DEF Deliver, Belong, AnswersThere, AnswersBelong
  <1>5. ASSUME NEW c \in Call, Accept(c) \/ Written(c) PROVE Belong'
    BY <1>5, QuietBelongs DEF TypesOK, Accept, Written, NoAnswer
  <1>6. ASSUME NEW c \in Call, handle_request(c) PROVE Belong'
    <2> DEFINE t == [kind |-> "handle", of |-> c, id |-> nextId]
    <2>1. t \in Task /\ tasks' = Append(tasks, t)
      BY <1>6 DEF TypesOK, Task, handle_request, respond_id
    <2>2. \A i \in Nat, d \in Call : HoldsFor(i, d) => HoldsFor(i, d)'
      BY <1>6 DEF TypesOK, handle_request, respond_id, HoldsFor
    <2> PICK n \in Nat : n = nextId
      BY DEF TypesOK
    <2>3. HoldsFor(n, c)'
      BY <1>6 DEF TypesOK, handle_request, respond_id, HoldsFor
    <2>4. TasksHold'
      <3> SUFFICES ASSUME NEW i \in 1 .. Len(tasks'), tasks'[i].kind = "handle"
                   PROVE  HoldsFor(tasks[i].id, tasks[i].of)'
        BY DEF TasksHold
      <3>1. CASE i \in 1 .. Len(tasks)
        <4>1. tasks'[i] = tasks[i] /\ tasks[i] \in Task
          BY <2>1, <3>1, LastOfTasks DEF TypesOK
        <4>2. tasks[i].id \in Nat /\ tasks[i].of \in Call
          BY <4>1 DEF Task, Call
        <4>3. PICK id \in Nat, d \in Call : id = tasks[i].id /\ d = tasks[i].of
          BY <4>2
        <4>4. HoldsFor(id, d) /\ id = tasks'[i].id /\ d = tasks'[i].of
          BY <3>1, <4>1, <4>3 DEF Belong, TasksHold
        <4>5. HoldsFor(id, d)'
          BY <2>2, <4>4
        <4> QED
          BY <4>4, <4>5 DEF HoldsFor
      <3>2. CASE i = Len(tasks) + 1
        <4>1. tasks'[i] = t
          BY <2>1, <3>2, LastOfTasks DEF TypesOK
        <4> QED
          BY <2>3, <4>1 DEF HoldsFor
      <3> QED
        BY <2>1, <3>1, <3>2, LastOfTasks DEF TypesOK
    <2>5. HandlersHold'
      BY <1>6, <2>2 DEF TypesOK, HandlerRecord, handle_request, Belong, HandlersHold
    <2>6. AnswersThere' /\ AnswersBelong'
      BY <1>6 DEF TypesOK, handle_request, Belong, AnswersThere, AnswersBelong, NoAnswer
    <2> QED
      BY <2>4, <2>5, <2>6 DEF Belong
  <1>7. ASSUME NEW c \in Call, HandlerSettles(c) PROVE Belong'
    <2>1. handler[c].id \in Nat /\ HoldsFor(handler[c].id, c)
      BY <1>7 DEF TypesOK, HandlerRecord, HandlerSettles, Belong, HandlersHold
    <2>2. /\ \A d \in Call : answer'[d] # None => answer'[d] = d
          /\ \A d \in Call : answer[d] # None => answer'[d] # None
          /\ \A i \in Nat, d \in Call : HoldsFor(i, d) => HoldsFor(i, d)'
      BY <1>7, <2>1, RespondBelongs DEF HandlerSettles
    <2>3. TasksHold'
      BY <1>7, <2>2 DEF TypesOK, HandlerSettles, Task, Belong, TasksHold, Call
    <2>4. HandlersHold'
      BY <1>7, <2>2 DEF TypesOK, HandlerRecord, HandlerSettles, Belong, HandlersHold
    <2>5. UNCHANGED <<conn, fetch>>
      BY <1>7 DEF HandlerSettles
    <2> QED
      BY <2>2, <2>3, <2>4, <2>5 DEF Belong, AnswersThere, AnswersBelong, NoAnswer, Call
  <1>8. ASSUME NEW c \in Outside, OutsideCalls(c) \/ OutsideLeaves(c) PROVE Belong'
    BY <1>8, QuietBelongs DEF TypesOK, OutsideCalls, OutsideLeaves
  <1>9. ASSUME NEW s \in Signal, ScriptAborts(s) \/ MakeAny(s) PROVE Belong'
    BY <1>9, QuietBelongs DEF ScriptAborts, MakeAny
  <1>10. ASSUME NEW f \in Fetch, StartFetch(f) PROVE Belong'
    <2>1. fetch[f].result = "none" /\ fetch[f].stage = "idle"
      BY <1>10 DEF StartFetch, Wiring
    <2>2. \A g \in Fetch :
              IF g = f THEN fetch'[g].result = "none" /\ fetch'[g].stage = "sending"
                       ELSE fetch'[g] = fetch[g]
      BY <1>10, <2>1 DEF TypesOK, FetchRecord, StartFetch
    <2> QED
      BY <1>10, <2>2, FetchBelongs DEF StartFetch, Belong, AnswersThere, AnswersBelong
  <1>11. ASSUME NEW f \in Fetch, Connect(f) PROVE Belong'
    BY <1>11, QuietBelongs DEF TypesOK, Connect
  <1>12. ASSUME NEW f \in Fetch, SendFails(f) \/ Cancelled(f) \/ Body(f) PROVE Belong'
    <2>1. PICK result \in {"ok", "failed", "aborted"}, body \in Call \cup {None} :
              /\ deliver(f, result, body)
              /\ fetch[f].own /\ result = "ok" => body = f
      <3>1. CASE SendFails(f) \/ Cancelled(f)
        BY <3>1 DEF SendFails, Cancelled, NoAnswer
      <3>2. CASE Body(f)
        <4>1. fetch[f].own => answer[f] = f
          BY <3>2 DEF Body, Belong, AnswersThere, AnswersBelong, NoAnswer, Call
        <4> QED
          BY <3>2, <4>1 DEF Body, Own, NoAnswer, Call
      <3> QED
        BY <1>12, <3>1, <3>2
    <2>2. \A g \in Fetch :
              IF g = f THEN /\ fetch'[g].own = fetch[g].own /\ fetch'[g].stage = "posted"
                            /\ fetch'[g].result = result /\ fetch'[g].body = body
                       ELSE fetch'[g] = fetch[g]
      BY <2>1 DEF TypesOK, FetchRecord, deliver
    <2>3. \A i \in 1 .. Len(tasks') :
              tasks'[i].kind = "handle" => \E j \in 1 .. Len(tasks) : tasks'[i] = tasks[j]
      <3> DEFINE t == [kind |-> "deliver", of |-> f, id |-> 0]
      <3>1. t \in Task /\ tasks' = Append(tasks, t)
        BY <2>1 DEF Task, deliver
      <3> QED
        BY <3>1, LastOfTasks DEF TypesOK
    <2>4. \A c \in Call : conn'[c] = "answered" => conn[c] = "answered"
      BY <1>12 DEF TypesOK, SendFails, Cancelled, Body
    <2>5. UNCHANGED <<responders, nextId, handler, answer>>
      BY <1>12 DEF SendFails, Cancelled, Body
    <2> QED
      BY <2>1, <2>2, <2>3, <2>4, <2>5, FetchBelongs DEF Belong, AnswersThere, AnswersBelong
  <1>13. ASSUME NEW f \in Fetch, Headers(f) PROVE Belong'
    <2>1. \A g \in Fetch :
              IF g = f THEN /\ fetch'[g].own = fetch[g].own /\ fetch'[g].stage = "reading"
                            /\ fetch'[g].result = fetch[g].result
                            /\ fetch'[g].body = fetch[g].body
                       ELSE fetch'[g] = fetch[g]
      BY <1>13 DEF TypesOK, FetchRecord, Headers
    <2>2. fetch[f].own => answer[f] # None
      BY <1>13 DEF Headers, Own, Belong, AnswersThere, Call
    <2> QED
      BY <1>13, <2>1, <2>2, FetchBelongs DEF Headers, Belong, AnswersThere, AnswersBelong
  <1> QED
    BY <1>1, <1>2, <1>3, <1>4, <1>5, <1>6, <1>7, <1>8, <1>9, <1>10, <1>11, <1>12, <1>13
       DEF HttpNext
-----------------------------------------------------------------------------
(* A step that settles, starts, fires and aborts nothing, and connects only *)
(* a fetch that has not been fired.                                         *)
LEMMA QuietHonoured ==
    ASSUME Honoured, UNCHANGED <<fetch, cancels, fired, aborted>>,
           \A f \in Fetch :
               fetch[f].stage = "idle" \/ f \in fired =>
                   conn'[f] = conn[f] \/ conn[f] \notin {"none", "gone"}
    PROVE  Honoured'
  BY DEF Honoured, Wiring, AbortHonoured

(* A step of a fetch that is wired already.                                 *)
LEMMA FetchHonoured ==
    ASSUME Honoured, UNCHANGED <<cancels, fired, aborted>>,
           NEW f \in Fetch,
           \A g \in Fetch \ {f} : fetch'[g] = fetch[g] /\ conn'[g] = conn[g],
           fetch'[f].stage # "idle" \/ fetch'[f] = fetch[f],
           fetch'[f].signal = fetch[f].signal,
           fetch'[f].early = fetch[f].early,
           fetch[f].early => /\ conn'[f] \in {conn[f], "gone"}
                             /\ fetch'[f].stage # "reading"
                             /\ fetch'[f].result # "ok",
           fetch'[f].stage = "idle" => conn'[f] = conn[f],
           fetch'[f].result = "aborted" => fetch[f].result = "aborted" \/ f \in fired
    PROVE  Honoured'
  BY DEF Honoured, Wiring, AbortHonoured

(* A sender is fired for an aborted signal only, and always in time for a   *)
(* signal that was aborted before its fetch started.                        *)
LEMMA HonouredStep ==
    ASSUME TypesOK, Honoured, [HttpNext]_httpVars
    PROVE  Honoured'
  <1> USE HttpAssumption DEF serveVars, fetchVars
  <1>1. CASE Serve \/ Stop \/ Exit \/ UNCHANGED httpVars
    BY <1>1, QuietHonoured DEF Serve, Stop, Exit, httpVars
  <1>2. CASE AcceptEnds
    BY <1>2, QuietHonoured DEF TypesOK, Call, AcceptEnds
  <1>3. CASE Handle
    BY <1>3, QuietHonoured DEF Handle
  <1>4. CASE Deliver
    <2> PICK f \in Fetch : f = Head(tasks).of
      BY <1>4, FirstTask DEF TypesOK, Deliver, Task
    <2>1. fetch' = [fetch EXCEPT ![f].stage = "settled"]
      BY <1>4 DEF Deliver
    <2>2. /\ fetch'[f].stage = "settled"
          /\ fetch'[f].signal = fetch[f].signal /\ fetch'[f].early = fetch[f].early
          /\ fetch'[f].result = fetch[f].result
      BY <2>1 DEF TypesOK, FetchRecord
    <2>3. \A g \in Fetch \ {f} : fetch'[g] = fetch[g]
      BY <2>1 DEF TypesOK
    <2>4. UNCHANGED <<cancels, fired, aborted, conn>>
      BY <1>4 DEF Deliver
    <2>5. fetch[f].early => fetch[f].result # "ok"
      BY DEF Honoured, AbortHonoured
    <2> QED
      BY <2>2, <2>3, <2>4, <2>5, FetchHonoured
  <1>5. ASSUME NEW c \in Call, Accept(c) \/ Written(c) PROVE Honoured'
    BY <1>5, QuietHonoured DEF TypesOK, Call, Accept, Written
  <1>6. ASSUME NEW c \in Call, handle_request(c) PROVE Honoured'
    BY <1>6, QuietHonoured DEF TypesOK, Call, handle_request
  <1>7. ASSUME NEW c \in Call, HandlerSettles(c) PROVE Honoured'
    BY <1>7, QuietHonoured DEF HandlerSettles
  <1>8. ASSUME NEW c \in Outside, OutsideCalls(c) \/ OutsideLeaves(c) PROVE Honoured'
    BY <1>8, QuietHonoured DEF TypesOK, Call, OutsideCalls, OutsideLeaves
  <1>9. ASSUME NEW s \in Signal, ScriptAborts(s) PROVE Honoured'
    BY <1>9 DEF TypesOK, ScriptAborts, AbortWith, Honoured, Wiring, AbortHonoured
  <1>10. ASSUME NEW s \in Signal, MakeAny(s) PROVE Honoured'
    BY <1>10 DEF MakeAny, Honoured, Wiring, AbortHonoured
  <1>11. ASSUME NEW f \in Fetch, StartFetch(f) PROVE Honoured'
    <2>1. PICK s \in Signal \cup {None}, own \in BOOLEAN :
              /\ Wired(f, s)
              /\ fetch' = [fetch EXCEPT ![f] = [@ EXCEPT !.stage = "sending", !.own = own,
                                               !.signal = s, !.early = s \in aborted]]
      BY <1>11 DEF TypesOK, StartFetch
    <2>2. /\ fetch[f].stage = "idle" /\ conn[f] = "none" /\ fetch[f].result = "none"
      BY <1>11 DEF StartFetch, Honoured, Wiring
    <2>3. /\ fetch'[f].stage = "sending" /\ fetch'[f].signal = s
          /\ fetch'[f].early = (s \in aborted) /\ fetch'[f].result = "none"
      BY <2>1, <2>2 DEF TypesOK, FetchRecord
    <2>4. \A g \in Fetch \ {f} : fetch'[g] = fetch[g]
      BY <2>1 DEF TypesOK
    <2>5. /\ fired' \subseteq fired \cup {f} /\ fired \subseteq fired'
          /\ cancels' \subseteq cancels \cup {f}
          /\ f \in fired' => s \in aborted
          /\ s \in aborted => f \in fired'
      <3>1. f \notin fired
        BY <2>2 DEF Honoured, Wiring
      <3>2. None \notin aborted
        BY DEF TypesOK
      <3> QED
        BY <2>1, <3>1, <3>2 DEF Wired
    <2>6. UNCHANGED <<conn, aborted>>
      BY <1>11 DEF StartFetch
    <2>7. Wiring'
      BY <2>2, <2>3, <2>4, <2>5, <2>6 DEF Honoured, Wiring
    <2>8. AbortHonoured'
      BY <2>3, <2>4, <2>6 DEF Honoured, AbortHonoured
    <2> QED
      BY <2>7, <2>8 DEF Honoured
  <1>12. ASSUME NEW f \in Fetch, Connect(f) PROVE Honoured'
    BY <1>12, QuietHonoured DEF TypesOK, Call, Connect, Sending
  <1>13. ASSUME NEW f \in Fetch, SendFails(f) \/ Cancelled(f) \/ Body(f) PROVE Honoured'
    <2>1. PICK result \in {"ok", "failed", "aborted"}, body \in Call \cup {None} :
              /\ deliver(f, result, body)
              /\ result = "aborted" => f \in fired
              /\ result = "ok" => fetch[f].stage = "reading"
      BY <1>13 DEF TypesOK, SendFails, Cancelled, Body, NoAnswer, Call
    <2>2. /\ fetch'[f].stage = "posted" /\ fetch'[f].result = result
          /\ fetch'[f].signal = fetch[f].signal /\ fetch'[f].early = fetch[f].early
      BY <2>1 DEF TypesOK, FetchRecord, deliver
    <2>3. \A g \in Fetch \ {f} : fetch'[g] = fetch[g]
      BY <2>1 DEF TypesOK, deliver
    <2>4. conn'[f] \in {conn[f], "gone"} /\ \A g \in Fetch \ {f} : conn'[g] = conn[g]
      BY <1>13 DEF TypesOK, Call, SendFails, Cancelled, Body
    <2>5. fetch[f].early => fetch[f].stage # "reading"
      BY DEF Honoured, Wiring
    <2>6. UNCHANGED <<cancels, fired, aborted>>
      BY <2>1 DEF deliver
    <2> QED
      BY <2>1, <2>2, <2>3, <2>4, <2>5, <2>6, FetchHonoured
  <1>14. ASSUME NEW f \in Fetch, Headers(f) PROVE Honoured'
    <2>1. /\ fetch'[f].stage = "reading" /\ fetch'[f].result = fetch[f].result
          /\ fetch'[f].signal = fetch[f].signal /\ fetch'[f].early = fetch[f].early
      BY <1>14 DEF TypesOK, FetchRecord, Headers
    <2>2. \A g \in Fetch \ {f} : fetch'[g] = fetch[g]
      BY <1>14 DEF TypesOK, Headers
    <2>3. UNCHANGED <<cancels, fired, aborted, conn>>
      BY <1>14 DEF Headers
    <2>4. ~fetch[f].early
      BY <1>14 DEF Headers, Own, Honoured, Wiring
    <2> QED
      BY <2>1, <2>2, <2>3, <2>4, FetchHonoured
  <1> QED
    BY <1>1, <1>2, <1>3, <1>4, <1>5, <1>6, <1>7, <1>8, <1>9, <1>10, <1>11, <1>12, <1>13, <1>14
       DEF HttpNext

-----------------------------------------------------------------------------
(* All three are invariants of the specification.                           *)
LEMMA HttpInductive == HttpSpec => [](TypesOK /\ Belong /\ Honoured)
  <1>1. TypesOK /\ Belong /\ Honoured /\ [HttpNext]_httpVars
            => (TypesOK /\ Belong /\ Honoured)'
    BY TypesStep, BelongStep, HonouredStep DEF Honoured
  <1> QED
    BY InitHttp, <1>1, PTL DEF HttpSpec

(* Every answer reaches the request its handler was called for, and a fetch *)
(* resolves with the answer to its own request: ids are never confused,     *)
(* however handlers settle, clients leave and the server stops.             *)
THEOREM AnswersReachTheirRequests == HttpSpec => []AnswersBelong
  <1>1. Belong => AnswersBelong
    BY DEF Belong
  <1> QED
    BY HttpInductive, <1>1, PTL

(* A fetch is reported aborted only if its signal was, and never resolves   *)
(* if its signal was aborted before it started.                             *)
THEOREM AbortsAreHonoured == HttpSpec => []AbortHonoured
  <1>1. Honoured => AbortHonoured
    BY DEF Honoured
  <1> QED
    BY HttpInductive, <1>1, PTL
=============================================================================
