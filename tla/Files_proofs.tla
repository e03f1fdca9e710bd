---------------------------- MODULE Files_proofs ----------------------------
(***************************************************************************)
(* AwaitedDataRead and PathsAgree: node:fs for any paths and any number of *)
(* operations, node:path for texts of any length.                          *)
(*                                                                         *)
(* The files: a file has one path (OneName); an operation that changes     *)
(* files knows the path of the one it has open (HandlesFollowed), and      *)
(* operations that overlap share all their paths or none (Groups), so what *)
(* the script knows of a file, and what an operation that is alone found   *)
(* there, stays as it is (KnownHolds, OnItsWay).                           *)
(*                                                                         *)
(* The paths: what normalize pushes are names, behind ".." in front of a   *)
(* relative path (Shape); one list of segments behind another is one loop  *)
(* behind the other (WalkOver), and walking what is left of a relative     *)
(* path is walking the path (WalkReduced).  By induction over the segments.*)
(***************************************************************************)
EXTENDS Files, Paths, Subsequences_proofs, Integers, FiniteSetTheorems, SequenceTheorems, TLAPS

-----------------------------------------------------------------------------
(* The files.                                                               *)

(* A call of a plan, an operation under way, a descriptor.                  *)
Opening == {"openWrite", "openAppend", "openTarget"}
Nested == {"clear", "mkdirAll"}
Plain == {"unlink", "rename", "mkdir", "mkdirs", "rmdir"} \cup Nested
Look == {"lookRm", "lookRmrf"}
FileCall == (Opening \cup Plain \cup Look \cup {"openRead", "read", "write", "append", "copy"}) \X Path
Piece == [of : 0 .. MaxOps, as : {"data", "digits", "fd"}] \cup {Absent}
Pieces == Seq(Piece)
Data == Pieces \cup {Absent, Unknown, Failed}
Operation ==
    [kind : Kind, by : {"pool", "js"}, path : Path, todo : Seq(FileCall),
     handle : Inode \cup {0}, source : Inode \cup {0}, piece : [of : OpId, as : {"data", "digits"}],
     result : Data, posted : BOOLEAN, touched : SUBSET Path, before : Data, alone : BOOLEAN]
Descriptor == {NoFd} \cup [inode : Inode, cursor : Nat, append : BOOLEAN, writes : BOOLEAN]

FilesTypes ==
    /\ tree \in [Path -> Inode \cup {Absent, Dir}]
    /\ content \in [Inode -> Pieces]
    /\ begun \in 0 .. MaxOps /\ DOMAIN op \subseteq 1 .. begun
    /\ op \in [DOMAIN op -> Operation]
    /\ fds \in [Fd -> Descriptor] /\ next_fd \in 3 .. 3 + MaxFds
    /\ known \in [Path -> Data]

(* Calls that change the tree, on the paths of an operation, also when they *)
(* turn out to be for a whole directory or for the ones above.              *)
Calls(T) ==
    {step \in Plain \X T :
        /\ step[1] = "clear" => Under[step[2]] \subseteq T
        /\ step[1] = "mkdirAll" => Above[step[2]] \subseteq T}

(* What is left of an operation that has a file open is the end of its      *)
(* plan; the other calls only change the tree, on paths it was begun on.    *)
Left(x, q) ==
    CASE x.kind = "readFile" -> {<<<<"openRead", x.path>>, <<"read", x.path>>>>, <<<<"read", x.path>>>>, <<>>}
      [] x.kind = "writeFile" -> {<<<<"openWrite", x.path>>, <<"write", x.path>>>>, <<<<"write", x.path>>>>, <<>>}
      [] x.kind = "appendFile" -> {<<<<"openAppend", x.path>>, <<"append", x.path>>>>, <<<<"append", x.path>>>>, <<>>}
      [] x.kind = "copyFile" -> {<<<<"openRead", x.path>>, <<"openTarget", q>>, <<"copy", q>>>>,
                                 <<<<"openTarget", q>>, <<"copy", q>>>>, <<<<"copy", q>>>>, <<>>}
      [] OTHER -> {<<<<look, x.path>>>> : look \in Look} \cup Seq(Calls(x.touched))
Writer(x) == x.kind \in Mutating
Planned(x) ==
    /\ x.path \in x.touched /\ (Writer(x) => Under[x.path] \subseteq x.touched)
    /\ \E q \in x.touched : x.todo \in Left(x, q)
    /\ x.kind = "readFile" /\ Len(x.todo) = 1 => x.handle \in Inode
    /\ x.kind = "copyFile" /\ Len(x.todo) \in 1 .. 2 => x.source \in Inode
    /\ x.posted => x.todo = <<>>

(* The numbers of inodes that may still be created.                         *)
WillOpen(x) == x.kind \in {"writeFile", "appendFile", "copyFile"} /\ Len(x.todo) >= 2
Fresh(i) ==
    \/ \E o \in OpId : i = CreatedBy(o) /\ (o > begun \/ (o \in Pending /\ WillOpen(op[o])))
    \/ \E fd \in Fd : i = CreatedByFd(fd) /\ fd >= next_fd

(* Every file has one path, and an operation that has it open knows it.     *)
OneName == \A p, q \in Path : tree[p] = tree[q] /\ Isfile(p) => p = q
Unmade == \A i \in Inode : Fresh(i) => (\A p \in Path : tree[p] # i) /\ (\A o \in Pending : op[o].handle # i)
HandlesFollowed ==
    \A o \in Pending : Writer(op[o]) => \A p \in Path : tree[p] = op[o].handle => p \in op[o].touched

(* Operations are together on paths or apart.                               *)
Apart(x, y) == x.touched \cap y.touched = {}
Groups == \A o, e \in Pending : Writer(op[o]) /\ Writer(op[e]) => Apart(op[o], op[e]) \/ op[o].touched = op[e].touched
AloneIsApart == \A o, e \in Pending : op[o].alone /\ Writer(op[e]) /\ e # o => Apart(op[o], op[e])

(* What is known is there.                                                  *)
Holds(p, data) == Isfile(p) /\ content[tree[p]] = data
KnownHolds ==
    \A p \in Path : known[p] # Unknown =>
        Holds(p, known[p]) /\ \A o \in Pending : Writer(op[o]) => p \notin op[o].touched

(* How far an operation that is alone has come.                             *)
Opened(x, data) == x.handle = tree[x.path] /\ Holds(x.path, data)
OnItsWay(x) ==
    /\ x.kind = "writeFile" =>
          /\ Len(x.todo) = 1 => Opened(x, <<>>)
          /\ x.todo = <<>> /\ x.result # Failed => Opened(x, <<x.piece>>)
    /\ x.kind = "appendFile" /\ x.before # Unknown =>
          /\ Len(x.todo) = 2 => Holds(x.path, x.before)
          /\ Len(x.todo) = 1 => Opened(x, x.before)
          /\ x.todo = <<>> /\ x.result # Failed => Opened(x, Append(x.before, x.piece))
    /\ x.kind = "readFile" /\ x.before # Unknown =>
          /\ Len(x.todo) = 2 => Holds(x.path, x.before)
          /\ Len(x.todo) = 1 => Opened(x, x.before)
          /\ x.todo = <<>> => x.result = x.before

FilesInv ==
    /\ FilesTypes
    /\ \A o \in Pending : Planned(op[o])
    /\ OneName /\ Unmade /\ HandlesFollowed /\ Groups /\ AloneIsApart /\ KnownHolds
    /\ \A o \in Pending : op[o].alone => OnItsWay(op[o])

-----------------------------------------------------------------------------
(* Plans.                                                                   *)

LEMMA Numbers ==
    /\ 0 \notin Inode /\ Absent \notin Inode /\ Dir \notin Inode /\ Absent # 0 /\ Dir # 0 /\ Inode \subseteq Nat
    /\ \A o \in OpId : CreatedBy(o) \in Inode /\ o \in Nat
    /\ \A fd \in Fd : CreatedByFd(fd) \in Inode /\ fd \in Nat
    /\ \A o, e \in OpId : CreatedBy(o) = CreatedBy(e) => o = e
    /\ \A o \in OpId, fd \in Fd : CreatedBy(o) # CreatedByFd(fd)
    /\ \A fd, gd \in Fd : CreatedByFd(fd) = CreatedByFd(gd) => fd = gd
  BY FilesAssumption DEF Inode, CreatedBy, CreatedByFd, OpId, Fd

(* SetToSeq lists a finite set.                                             *)
LEMMA Listed ==
    ASSUME NEW S, IsFiniteSet(S)
    PROVE  SetToSeq(S) \in Seq(S)
  <1> DEFINE n == Cardinality(S)
  <1>1. n \in Nat /\ ExistsBijection(1 .. n, S)
    BY FS_CardinalityType
  <1>2. PICK f : f \in Bijection(1 .. n, S)
    BY <1>1 DEF ExistsBijection
  <1>3. f \in [1 .. n -> S] /\ IsInjective(f)
    BY <1>2 DEF Bijection, Injection, IsInjective
  <1>4. SetToSeq(S) \in [1 .. n -> S]
    BY <1>3 DEF SetToSeq
  <1> QED
    BY <1>1, <1>4

LEMMA CallsListed ==
    ASSUME NEW name, NEW P \in SUBSET Path
    PROVE  SetToSeq({<<name, c>> : c \in P}) \in Seq({<<name, c>> : c \in P})
  <1> DEFINE S == {<<name, c>> : c \in P}  f == [c \in P |-> <<name, c>>]
  <1>1. IsFiniteSet(P)
    BY FilesAssumption, FS_Subset
  <1>2. f \in Surjection(P, S)
    BY DEF Surjection
  <1>3. IsFiniteSet(S)
    BY <1>1, <1>2, FS_Surjection
  <1> QED
    BY <1>3, Listed

(* Lists of one, two and three calls.                                       *)
LEMMA Lists ==
    ASSUME NEW a, NEW b, NEW c
    PROVE  /\ Len(<<>>) = 0
           /\ Len(<<a>>) = 1 /\ Head(<<a>>) = a /\ Tail(<<a>>) = <<>> /\ <<a>> # <<>>
           /\ Len(<<a, b>>) = 2 /\ Head(<<a, b>>) = a /\ Tail(<<a, b>>) = <<b>> /\ <<a, b>> # <<>>
           /\ Len(<<a, b, c>>) = 3 /\ Head(<<a, b, c>>) = a /\ Tail(<<a, b, c>>) = <<b, c>> /\ <<a, b, c>> # <<>>
  OBVIOUS

LEMMA NoneLeft ==
    ASSUME NEW n, n = 0
    PROVE  n # 1 /\ n \notin 1 .. 2 /\ n \in 0 .. 1
  OBVIOUS

(* The first call of what is left, by kind.                                 *)
Opener(kind) ==
    IF kind = "readFile" THEN "openRead" ELSE IF kind = "writeFile" THEN "openWrite" ELSE "openAppend"
User(kind) == IF kind = "readFile" THEN "read" ELSE IF kind = "writeFile" THEN "write" ELSE "append"
Simple == {"readFile", "writeFile", "appendFile"}

LEMMA LeftSimple ==
    ASSUME NEW x, x.kind \in Simple, Planned(x)
    PROVE  \/ x.todo = <<<<Opener(x.kind), x.path>>, <<User(x.kind), x.path>>>>
           \/ x.todo = <<<<User(x.kind), x.path>>>>
           \/ x.todo = <<>>
  BY DEF Planned, Left, Simple, Opener, User

LEMMA LeftCopy ==
    ASSUME NEW x, x.kind = "copyFile", Planned(x)
    PROVE  \E q \in x.touched :
              \/ x.todo = <<<<"openRead", x.path>>, <<"openTarget", q>>, <<"copy", q>>>>
              \/ x.todo = <<<<"openTarget", q>>, <<"copy", q>>>>
              \/ x.todo = <<<<"copy", q>>>>
              \/ x.todo = <<>>
  BY DEF Planned, Left

LEMMA LeftPlain ==
    ASSUME NEW x, x.kind \notin Simple, x.kind # "copyFile", Planned(x)
    PROVE  (\E look \in Look : x.todo = <<<<look, x.path>>>>) \/ x.todo \in Seq(Calls(x.touched))
  BY DEF Planned, Left, Simple

(* The paths below a path, and above it.                                    *)
LEMMA UnderIs ==
    ASSUME NEW p \in Path
    PROVE  /\ p \in Under[p] /\ Under[p] \in SUBSET Path /\ p \in Above[p] /\ Above[p] \in SUBSET Path
           /\ Children(p) \subseteq Under[p]
           /\ \A c \in Under[p] : Under[c] \subseteq Under[p]
           /\ ParentOf[p] # Top => ParentOf[p] \in Path /\ Above[ParentOf[p]] \subseteq Above[p]
  <1>1. \A d \in Path : Under[d] \in SUBSET Path /\ d \in Under[d]
    BY DEF Under
  <1>2. \A d \in Path : DownClosed(Under[d])
    BY DEF Under, DownClosed
  <1>3. Children(p) \subseteq Under[p]
    BY <1>1, <1>2 DEF Children, DownClosed
  <1>4. \A d \in Path : \A c \in Under[d] : Under[c] \subseteq Under[d]
    <2>1. \A c \in Path, S \in SUBSET Path : c \in S /\ DownClosed(S) => Under[c] \subseteq S
      BY DEF Under
    <2> QED
      BY <1>1, <1>2, <2>1
  <1>5. ParentOf[p] # Top => ParentOf[p] \in Path /\ Above[ParentOf[p]] \subseteq Above[p]
    <2>1. ParentOf[p] \in Path \cup {Top}
      BY FilesAssumption
    <2>2. \A d \in Path : ParentOf[p] \in Under[d] => p \in Under[d]
      BY <1>2 DEF DownClosed
    <2> QED
      BY <2>1, <2>2 DEF Above
  <1>6. p \in Above[p] /\ Above[p] \in SUBSET Path
    BY <1>1 DEF Above
  <1> QED
    BY <1>1, <1>3, <1>4, <1>5, <1>6

LEMMA CallsAre ==
    ASSUME NEW T \in SUBSET Path
    PROVE  /\ Calls(T) \subseteq Plain \X T /\ Calls(T) \subseteq FileCall
           /\ \A P \in SUBSET Path : T \subseteq P => Calls(T) \subseteq Calls(P)
           /\ \A name \in Plain \ Nested, p \in T : <<name, p>> \in Calls(T)
           /\ \A p \in T : Under[p] \subseteq T => <<"clear", p>> \in Calls(T)
           /\ \A p \in T : Above[p] \subseteq T => <<"mkdirAll", p>> \in Calls(T)
  BY DEF Calls, Plain, Nested, FileCall

LEMMA RmPlanned ==
    ASSUME NEW p \in Path, NEW touched \in SUBSET Path, Under[p] \subseteq touched, NEW recursive
    PROVE  RmPlan(p, recursive) \in Seq(Calls(touched))
  <1>1. p \in touched /\ Children(p) \subseteq touched /\ \A c \in Children(p) : Under[c] \subseteq touched
    BY UnderIs
  <1>2. <<"unlink", p>> \in Calls(touched) /\ <<"rmdir", p>> \in Calls(touched)
    BY <1>1, CallsAre DEF Plain, Nested
  <1>3. SetToSeq({<<"clear", c>> : c \in Children(p)}) \in Seq(Calls(touched))
    <2>1. Children(p) \in SUBSET Path
      BY DEF Children
    <2>2. SetToSeq({<<"clear", c>> : c \in Children(p)}) \in Seq({<<"clear", c>> : c \in Children(p)})
      BY <2>1, CallsListed
    <2>3. {<<"clear", c>> : c \in Children(p)} \subseteq Calls(touched)
      BY <1>1, CallsAre
    <2> QED
      BY <2>2, <2>3
  <1>4. <<<<"unlink", p>>>> \in Seq(Calls(touched)) /\ <<<<"rmdir", p>>>> \in Seq(Calls(touched))
    BY <1>2
  <1>5. SetToSeq({<<"clear", c>> : c \in Children(p)}) \o <<<<"rmdir", p>>>> \in Seq(Calls(touched))
    BY <1>3, <1>4, ConcatProperties
  <1> QED
    BY <1>4, <1>5, Zenon DEF RmPlan

(* A call that turns into others.                                           *)
LEMMA UnfoldedIs ==
    ASSUME NEW T \in SUBSET Path, NEW step \in Calls(T), Unfolds(step)
    PROVE  Unfolded(step) \in Seq(Calls(T))
  <1> DEFINE p == step[2]
  <1>1. step \in Plain \X T /\ p \in T /\ p \in Path
    BY CallsAre
  <1>2. CASE step[1] = "clear"
    <2>1. Under[p] \subseteq T
      BY <1>2 DEF Calls
    <2>2. RmPlan(p, TRUE) \in Seq(Calls(T))
      BY <1>1, <2>1, RmPlanned
    <2> QED
      BY <1>2, <2>2 DEF Unfolded
  <1>3. CASE step[1] = "mkdirAll"
    <2>1. Above[p] \subseteq T /\ ParentOf[p] # Top
      BY <1>3 DEF Calls, Unfolds, NoParent
    <2>2. ParentOf[p] \in Path /\ Above[ParentOf[p]] \subseteq T /\ ParentOf[p] \in T
      BY <1>1, <2>1, UnderIs
    <2>3. <<"mkdirAll", ParentOf[p]>> \in Calls(T) /\ <<"mkdirs", p>> \in Calls(T)
      BY <1>1, <2>2, CallsAre DEF Plain, Nested
    <2> QED
      BY <1>3, <2>3 DEF Unfolded
  <1> QED
    BY <1>2, <1>3 DEF Unfolds

LEMMA WrittenIs ==
    ASSUME NEW pieces \in Pieces, NEW at \in Nat, NEW piece \in Piece
    PROVE  Written(pieces, at, piece) \in Pieces
  <1> DEFINE n == IF Len(pieces) < at THEN at ELSE Len(pieces)
  <1>1. n \in Nat /\ \A i \in 1 .. n : i <= Len(pieces) => pieces[i] \in Piece
    BY DEF Pieces
  <1>2. Absent \in Piece
    BY DEF Piece
  <1> DEFINE e(i) == IF i = at THEN piece ELSE IF i <= Len(pieces) THEN pieces[i] ELSE Absent
  <1>3. \A i \in 1 .. n : e(i) \in Piece
    BY <1>1, <1>2
  <1> HIDE DEF n, e
  <1>4. [i \in 1 .. n |-> e(i)] \in Seq(Piece)
    BY <1>1, <1>3
  <1> QED
    BY <1>4, Zenon DEF Written, Pieces, n, e

LEMMA WrittenFirst ==
    ASSUME NEW piece
    PROVE  Written(<<>>, 1, piece) = <<piece>>
  BY DEF Written

(***************************************************************************)
(* A system call of operation o changes the operation and does one of      *)
(* five things.                                                            *)
(***************************************************************************)
HandleTaken(x, y) ==
    /\ tree' = tree /\ content' = content
    /\ y.handle = x.handle \/ \E p \in x.touched : Isfile(p) /\ y.handle = tree[p]
FileOpened(o, x, y) ==
    /\ WillOpen(x) /\ ~WillOpen(y)
    /\ \E p \in x.touched :
          /\ y.handle = Opens(p, CreatedBy(o)) /\ tree' = [tree EXCEPT ![p] = y.handle]
          /\ content' \in {content, [content EXCEPT ![y.handle] = <<>>]}
DataWritten(x, y) ==
    /\ tree' = tree /\ y.handle = x.handle
    /\ \E data \in Pieces : content' = [content EXCEPT ![x.handle] = data]
PathChanged(x, y) ==
    /\ content' = content /\ y.handle = x.handle
    /\ \E p \in x.touched : \E to \in {Absent, Dir} : tree' = [tree EXCEPT ![p] = to]
FileRenamed(x, y) ==
    /\ content' = content /\ y.handle = x.handle /\ Isfile(x.path)
    /\ \E p \in x.touched : tree' = [tree EXCEPT ![x.path] = Absent, ![p] = tree[x.path]]

Same(x, y) ==
    /\ y.kind = x.kind /\ y.by = x.by /\ y.path = x.path /\ y.piece = x.piece /\ y.posted = x.posted
    /\ y.touched = x.touched /\ y.before = x.before /\ y.alone = x.alone
Moved(o, x, y) ==
    /\ op' = [op EXCEPT ![o] = y] /\ y \in Operation /\ Same(x, y) /\ Planned(y) /\ (WillOpen(y) => WillOpen(x))
    /\ \/ HandleTaken(x, y)
       \/ Writer(x) /\ (FileOpened(o, x, y) \/ DataWritten(x, y) \/ PathChanged(x, y) \/ FileRenamed(x, y))

LEMMA AfterIs ==
    ASSUME NEW o, NEW step
    PROVE  LET p == step[2]
               rest == Tail(op[o].todo)
           IN
           /\ step[1] = "openRead" =>
                After(step, o) = [op[o] EXCEPT !.todo = rest, !.handle = tree[p], !.source = tree[p]]
           /\ step[1] \in Opening => After(step, o) = [op[o] EXCEPT !.todo = rest, !.handle = Opens(p, CreatedBy(o))]
           /\ step[1] = "read" => After(step, o) = [op[o] EXCEPT !.todo = rest, !.result = content[op[o].handle]]
           /\ step[1] \in Look => After(step, o) = [op[o] EXCEPT !.todo = RmPlan(p, step[1] = "lookRmrf")]
           /\ Unfolds(step) => After(step, o) = [op[o] EXCEPT !.todo = Unfolded(step) \o rest]
           /\ step[1] \in Plain \cup {"write", "append", "copy"} /\ ~Unfolds(step) =>
                After(step, o) = [op[o] EXCEPT !.todo = rest]
           /\ step[1] \in {"write", "append", "copy"} => After(step, o) = [op[o] EXCEPT !.todo = rest]
  BY DEF After, Opening, Look, Plain, Nested, Unfolds

LEMMA AfterOpenRead ==
    ASSUME NEW o, NEW step, step[1] = "openRead"
    PROVE  After(step, o) = [op[o] EXCEPT !.todo = Tail(op[o].todo), !.handle = tree[step[2]], !.source = tree[step[2]]]
  BY DEF After, Unfolds

LEMMA EffectIs ==
    ASSUME NEW o, NEW step, Effect(step, o)
    PROVE  LET p == step[2]
               h == op[o].handle
               new == Opens(p, CreatedBy(o))
           IN
           /\ step[1] \in {"openRead", "read"} \cup Look => tree' = tree /\ content' = content
           /\ step[1] \in {"openWrite", "openTarget"} =>
                 tree' = [tree EXCEPT ![p] = new] /\ content' = [content EXCEPT ![new] = <<>>]
           /\ step[1] = "openAppend" => tree' = [tree EXCEPT ![p] = new] /\ content' = content
           /\ step[1] = "write" => tree' = tree /\ content' = [content EXCEPT ![h] = Written(content[h], 1, op[o].piece)]
           /\ step[1] = "append" => tree' = tree /\ content' = [content EXCEPT ![h] = Append(content[h], op[o].piece)]
           /\ step[1] = "copy" => tree' = tree /\ content' = [content EXCEPT ![h] = content[op[o].source]]
           /\ step[1] \in Plain => content' = content
           /\ Unfolds(step) => tree' = tree
           /\ step[1] \in {"unlink", "rmdir", "clear"} /\ ~Unfolds(step) => tree' = [tree EXCEPT ![p] = Absent]
           /\ step[1] \in {"mkdir", "mkdirs", "mkdirAll"} /\ ~Unfolds(step) => tree' = [tree EXCEPT ![p] = Dir]
           /\ step[1] = "rename" => tree' = [tree EXCEPT ![op[o].path] = Absent, ![p] = tree[op[o].path]]
  <1> DEFINE name == step[1]
  <1>1. name \in {"openRead", "read"} \cup Look => tree' = tree /\ content' = content
    BY DEF Effect, Look, Unfolds
  <1>2. name \in {"openWrite", "openAppend", "openTarget"} => tree' = [tree EXCEPT ![step[2]] = Opens(step[2], CreatedBy(o))]
    BY DEF Effect, Unfolds
  <1>3. /\ name \in {"openWrite", "openTarget"} => content' = [content EXCEPT ![Opens(step[2], CreatedBy(o))] = <<>>]
        /\ name = "openAppend" => content' = content
    BY DEF Effect, Unfolds
  <1>4. /\ name = "write" => tree' = tree /\ content' = [content EXCEPT ![op[o].handle] = Written(@, 1, op[o].piece)]
        /\ name = "append" => tree' = tree /\ content' = [content EXCEPT ![op[o].handle] = Append(@, op[o].piece)]
        /\ name = "copy" => tree' = tree /\ content' = [content EXCEPT ![op[o].handle] = content[op[o].source]]
    BY DEF Effect, Unfolds
  <1>5. name \in Plain => content' = content
    BY DEF Effect, Plain, Nested
  <1>6. Unfolds(step) => tree' = tree
    BY DEF Effect, Unfolds
  <1>7. name \in {"unlink", "rmdir", "clear"} /\ ~Unfolds(step) => tree' = [tree EXCEPT ![step[2]] = Absent]
    BY DEF Effect
  <1>8. name \in {"mkdir", "mkdirs", "mkdirAll"} /\ ~Unfolds(step) => tree' = [tree EXCEPT ![step[2]] = Dir]
    BY DEF Effect
  <1>9. name = "rename" => tree' = [tree EXCEPT ![op[o].path] = Absent, ![step[2]] = tree[op[o].path]]
    BY DEF Effect, Unfolds
  <1> QED
    BY <1>1, <1>2, <1>3, <1>4, <1>5, <1>6, <1>7, <1>8, <1>9

(***************************************************************************)
(* An operation that is alone gets one step further with each call.        *)
(***************************************************************************)
Stepped(o, x, y) == Moved(o, x, y) /\ (x.alone => OnItsWay(y)')

LEMMA WayOpens ==
    ASSUME NEW x, NEW y, Same(x, y), OnItsWay(x), x.kind \in {"writeFile", "appendFile"}, Len(x.todo) = 2,
           Len(y.todo) = 1, y.todo # <<>>, content \in [Inode -> Pieces],
           y.handle \in Inode, y.handle = tree'[x.path], Isfile(x.path) => y.handle = tree[x.path],
           content' = IF x.kind = "writeFile" THEN [content EXCEPT ![y.handle] = <<>>] ELSE content
    PROVE  OnItsWay(y)'
  <1>1. \A data : content'[y.handle] = data => Opened(y, data)'
    BY DEF Opened, Holds, Isfile, Same
  <1>2. y.kind = x.kind /\ y.before = x.before
    BY DEF Same
  <1>3. CASE x.kind = "writeFile"
    <2>1. content'[y.handle] = <<>>
      BY <1>3
    <2>2. Opened(y, <<>>)'
      BY <1>1, <2>1
    <2> QED
      BY <1>2, <1>3, <2>2 DEF OnItsWay
  <1>4. CASE x.kind = "appendFile"
    <2>1. x.before # Unknown => content'[y.handle] = x.before
      BY <1>4 DEF OnItsWay, Holds
    <2>2. y.before # Unknown => Opened(y, y.before)'
      BY <1>1, <1>2, <2>1
    <2> QED
      BY <1>2, <1>4, <2>2 DEF OnItsWay
  <1> QED
    BY <1>3, <1>4

LEMMA WayWrites ==
    ASSUME NEW x, NEW y, Same(x, y), OnItsWay(x), x.kind \in {"writeFile", "appendFile"}, Len(x.todo) = 1,
           Len(y.todo) = 0, y.handle = x.handle, content \in [Inode -> Pieces], tree' = tree,
           NEW data, content' = [content EXCEPT ![x.handle] = data],
           data = IF x.kind = "writeFile" THEN Written(content[x.handle], 1, x.piece)
                                          ELSE Append(content[x.handle], x.piece)
    PROVE  OnItsWay(y)'
  <1>1. \A old, more : Opened(x, old) /\ content'[x.handle] = more => Opened(y, more)'
    BY DEF Opened, Holds, Isfile, Same
  <1>2. \A old : Opened(x, old) => content[x.handle] = old /\ x.handle \in Inode
    BY DEF Opened, Holds, Isfile
  <1>3. y.kind = x.kind /\ y.before = x.before /\ y.piece = x.piece
    BY DEF Same
  <1>4. CASE x.kind = "writeFile"
    <2>1. Opened(x, <<>>)
      BY <1>4 DEF OnItsWay
    <2>2. content'[x.handle] = <<x.piece>>
      BY <1>2, <1>4, <2>1, WrittenFirst
    <2>3. Opened(y, <<y.piece>>)'
      BY <1>1, <1>3, <2>1, <2>2
    <2> QED
      BY <1>3, <1>4, <2>3 DEF OnItsWay
  <1>5. CASE x.kind = "appendFile"
    <2>1. x.before # Unknown => Opened(x, x.before)
      BY <1>5 DEF OnItsWay
    <2>2. x.before # Unknown => content'[x.handle] = Append(x.before, x.piece)
      BY <1>2, <1>5, <2>1
    <2>3. y.before # Unknown => Opened(y, Append(y.before, y.piece))'
      BY <1>1, <1>3, <2>1, <2>2
    <2> QED
      BY <1>3, <1>5, <2>3 DEF OnItsWay
  <1> QED
    BY <1>4, <1>5

LEMMA WayReadOpens ==
    ASSUME NEW x, NEW y, Same(x, y), OnItsWay(x), x.kind = "readFile", Len(x.todo) = 2,
           Len(y.todo) = 1, y.todo # <<>>, y.handle = tree[x.path], tree' = tree, content' = content
    PROVE  OnItsWay(y)'
  <1>1. y.kind = x.kind /\ y.before = x.before /\ y.path = x.path
    BY DEF Same
  <1>2. x.before # Unknown => Holds(x.path, x.before)
    BY DEF OnItsWay
  <1>3. y.before # Unknown => Opened(y, y.before)'
    BY <1>1, <1>2 DEF Opened, Holds, Isfile
  <1> QED
    BY <1>1, <1>3 DEF OnItsWay

LEMMA WayReads ==
    ASSUME NEW x, NEW y, Same(x, y), OnItsWay(x), x.kind = "readFile", Len(x.todo) = 1,
           Len(y.todo) = 0, y.result = content[x.handle]
    PROVE  OnItsWay(y)'
  <1>1. y.kind = x.kind /\ y.before = x.before
    BY DEF Same
  <1>2. x.before # Unknown => Opened(x, x.before)
    BY DEF OnItsWay
  <1>3. y.before # Unknown => y.result = y.before
    BY <1>1, <1>2 DEF Opened, Holds
  <1> QED
    BY <1>1, <1>3 DEF OnItsWay

LEMMA WayFails ==
    ASSUME NEW y, y.kind = "readFile" => y.before = Unknown, Len(y.todo) = 0, y.result = Failed
    PROVE  OnItsWay(y)'
  BY DEF OnItsWay

LEMMA WayElse ==
    ASSUME NEW x, NEW y, Same(x, y), x.kind \notin Simple
    PROVE  OnItsWay(y)'
  BY DEF OnItsWay, Same, Simple

LEMMA Lasts ==
    ASSUME NEW x, NEW y, Same(x, y), Planned(x), NEW q \in x.touched, y.todo \in Left(x, q), x.todo # <<>>,
           x.kind = "readFile" /\ Len(y.todo) = 1 => y.handle \in Inode,
           x.kind = "copyFile" /\ Len(y.todo) \in 1 .. 2 => y.source \in Inode
    PROVE  Planned(y)
  <1>1. Left(y, q) = Left(x, q)
    BY DEF Same, Left
  <1>2. ~x.posted
    BY DEF Planned
  <1> QED
    BY <1>1, <1>2 DEF Same, Planned, Writer

LEMMA OpenedYet ==
    ASSUME NEW x
    PROVE  /\ Len(x.todo) \in 0 .. 1 => ~WillOpen(x)
           /\ Len(x.todo) \in 2 .. 3 /\ x.kind \in {"writeFile", "appendFile", "copyFile"} => WillOpen(x)
  <1> DEFINE n == Len(x.todo)
  <1>1. WillOpen(x) <=> x.kind \in {"writeFile", "appendFile", "copyFile"} /\ n >= 2
    BY DEF WillOpen
  <1> HIDE DEF n
  <1>2. (n \in 0 .. 1 => ~(n >= 2)) /\ (n \in 2 .. 3 => n >= 2)
    OBVIOUS
  <1>3. /\ n \in 0 .. 1 => ~WillOpen(x)
        /\ n \in 2 .. 3 /\ x.kind \in {"writeFile", "appendFile", "copyFile"} => WillOpen(x)
    BY <1>1, <1>2, Zenon
  <1> QED
    BY <1>3 DEF n

LEMMA EndLeft ==
    ASSUME NEW x, NEW q
    PROVE  <<>> \in Left(x, q)
  <1>1. <<>> \in Seq(Calls(x.touched))
    OBVIOUS
  <1> QED
    BY <1>1, Zenon DEF Left

LEMMA Begun ==
    ASSUME FilesInv, NEW o \in Pending
    PROVE  /\ FilesTypes /\ o \in OpId /\ op[o] \in Operation /\ Planned(op[o])
           /\ op[o].path \in Path /\ op[o].touched \in SUBSET Path
  <1>1. o \in DOMAIN op /\ DOMAIN op \subseteq 1 .. begun /\ begun \in 0 .. MaxOps /\ op \in [DOMAIN op -> Operation]
    BY DEF FilesInv, FilesTypes, Pending
  <1>2. o \in OpId /\ op[o] \in Operation
    BY <1>1, FilesAssumption DEF OpId
  <1> QED
    BY <1>2 DEF FilesInv, Operation

LEMMA StepFails ==
    ASSUME FilesInv, NEW o \in Pending, op[o].todo # <<>>, tree' = tree, content' = content,
           NEW x, x = op[o], NEW y, y = [x EXCEPT !.todo = <<>>, !.result = Failed], op' = [op EXCEPT ![o] = y]
    PROVE  Moved(o, x, y) /\ Len(y.todo) = 0 /\ y.result = Failed /\ Same(x, y)
  <1>1. x \in Operation /\ Planned(x)
    BY Begun
  <1>2. y \in Operation /\ Same(x, y) /\ y.todo = <<>> /\ y.handle = x.handle
    <2>1. <<>> \in Seq(FileCall) /\ Failed \in Data
      BY DEF Data
    <2> QED
      BY <1>1, <2>1 DEF Operation, Same
  <1>5. Len(y.todo) = 0 /\ y.result = Failed
    <2>1. y.todo = <<>> /\ y.result = Failed
      BY <1>1 DEF Operation
    <2> QED
      BY <2>1
  <1>3. Planned(y)
    <2>1. PICK q \in x.touched : TRUE
      BY <1>1 DEF Planned
    <2>2. y.todo \in Left(x, q)
      BY <1>2, EndLeft
    <2>3. Len(y.todo) # 1 /\ Len(y.todo) \notin 1 .. 2 /\ x.todo # <<>>
      BY <1>2
    <2> QED
      BY <1>1, <1>2, <2>1, <2>2, <2>3, Lasts, Zenon
  <1>4. ~WillOpen(y)
    <2>1. Len(y.todo) \in 0 .. 1
      BY <1>2
    <2> QED
      BY <2>1, OpenedYet, Zenon
  <1> QED
    BY <1>2, <1>3, <1>4, <1>5 DEF Moved, HandleTaken

LEMMA OpensInode ==
    ASSUME NEW o \in OpId, NEW p \in Path
    PROVE  Opens(p, CreatedBy(o)) \in Inode
  <1> QED
    BY Numbers DEF Opens, Isfile

(* The first call of an operation on one file that it may create.           *)
LEMMA StepOpens ==
    ASSUME FilesInv, NEW o \in Pending, NEW x, x = op[o], x.kind \in {"writeFile", "appendFile"},
           NEW step, step = <<Opener(x.kind), x.path>>, x.todo = <<step, <<User(x.kind), x.path>>>>,
           Effect(step, o), NEW y, y = After(step, o), op' = [op EXCEPT ![o] = y]
    PROVE  Stepped(o, x, y)
  <1> DEFINE rest == <<<<User(x.kind), x.path>>>>  h == Opens(x.path, CreatedBy(o))
  <1>1. x \in Operation /\ Planned(x) /\ x.path \in Path /\ FilesTypes /\ o \in OpId
    BY Begun
  <1>2. Tail(x.todo) = rest /\ Len(rest) = 1 /\ Len(x.todo) = 2 /\ x.todo # <<>>
    BY Lists
  <1>3. step[1] \in Opening /\ step[2] = x.path /\ step[1] = IF x.kind = "writeFile" THEN "openWrite" ELSE "openAppend"
    BY DEF Opener, Opening
  <1>4. y = [x EXCEPT !.todo = rest, !.handle = h]
    <2>1. After(step, o) = [op[o] EXCEPT !.todo = Tail(op[o].todo), !.handle = Opens(step[2], CreatedBy(o))]
      BY <1>3, AfterIs, Zenon
    <2> QED
      BY <1>2, <1>3, <2>1, Zenon
  <1>5. h \in Inode
    BY <1>1, OpensInode
  <1>6. rest \in Seq(FileCall)
    BY <1>1 DEF User, FileCall
  <1> HIDE DEF h, rest
  <1>7. y \in Operation /\ Same(x, y) /\ y.todo = rest /\ y.handle = h
    BY <1>1, <1>4, <1>5, <1>6 DEF Operation, Same
  <1>8. Planned(y)
    <2>1. x.path \in x.touched
      BY <1>1 DEF Planned
    <2>2. y.todo \in Left(x, x.path)
      BY <1>7 DEF Left, rest, User
    <2> QED
      BY <1>1, <1>2, <1>7, <2>1, <2>2, Lasts
  <1>9. WillOpen(x) /\ ~WillOpen(y)
    <2>1. Len(x.todo) = 2 /\ Len(y.todo) = 1
      BY <1>2, <1>7
    <2> QED
      BY <2>1, OpenedYet
  <1>10. /\ tree' = [tree EXCEPT ![x.path] = h]
         /\ content' = IF x.kind = "writeFile" THEN [content EXCEPT ![h] = <<>>] ELSE content
    BY <1>3, EffectIs DEF h
  <1>11. FileOpened(o, x, y)
    <2>1. x.path \in x.touched
      BY <1>1 DEF Planned
    <2> QED
      BY <1>7, <1>9, <1>10, <2>1 DEF FileOpened, h
  <1>12. Writer(x)
    BY DEF Writer, Mutating
  <1>13. tree'[x.path] = h
    BY <1>1, <1>10 DEF FilesTypes
  <1>14. Moved(o, x, y)
    BY <1>7, <1>8, <1>9, <1>11, <1>12 DEF Moved
  <1>15. x.alone => OnItsWay(y)'
    <2>1. Len(x.todo) = 2 /\ Len(y.todo) = 1 /\ y.todo # <<>>
      <3>1. Len(rest) = 1 /\ rest # <<>>
        BY DEF rest
      <3> QED
        BY <1>2, <1>7, <3>1
    <2>2. content \in [Inode -> Pieces] /\ (Isfile(x.path) => h = tree[x.path]) /\ (x.alone => OnItsWay(x))
      BY <1>1 DEF FilesTypes, FilesInv, h, Opens
    <2> QED
      BY <1>5, <1>7, <1>10, <1>13, <2>1, <2>2, WayOpens
  <1> QED
    BY <1>14, <1>15 DEF Stepped

(* ... and its second, which writes what it was given.                      *)
LEMMA StepWrites ==
    ASSUME FilesInv, NEW o \in Pending, NEW x, x = op[o], x.kind \in {"writeFile", "appendFile"},
           NEW step, step = <<User(x.kind), x.path>>, x.todo = <<step>>,
           Effect(step, o), NEW y, y = After(step, o), op' = [op EXCEPT ![o] = y]
    PROVE  Stepped(o, x, y)
  <1> DEFINE h == x.handle
             data == IF x.kind = "writeFile" THEN Written(content[h], 1, x.piece) ELSE Append(content[h], x.piece)
  <1>1. x \in Operation /\ Planned(x) /\ x.path \in Path /\ FilesTypes /\ o \in OpId
    BY Begun
  <1>2. Tail(x.todo) = <<>> /\ Len(x.todo) = 1 /\ x.todo # <<>>
    BY Lists
  <1>3. step[1] = (IF x.kind = "writeFile" THEN "write" ELSE "append") /\ step[2] = x.path
    BY DEF User
  <1>4. y = [x EXCEPT !.todo = <<>>]
    <2>1. After(step, o) = [op[o] EXCEPT !.todo = Tail(op[o].todo)]
      <3>1. step[1] \in {"write", "append", "copy"}
        BY <1>3
      <3> QED
        BY <3>1, AfterIs, Zenon
    <2> QED
      BY <1>2, <2>1, Zenon
  <1>5. y \in Operation /\ Same(x, y) /\ y.todo = <<>> /\ y.handle = x.handle /\ y.result = x.result
    <2>1. <<>> \in Seq(FileCall)
      OBVIOUS
    <2> QED
      BY <1>1, <1>4, <2>1 DEF Operation, Same
  <1>6. Len(y.todo) = 0
    BY <1>5
  <1>7. Planned(y)
    <2>1. x.path \in x.touched
      BY <1>1 DEF Planned
    <2>2. y.todo \in Left(x, x.path)
      BY <1>5, EndLeft
    <2>3. Len(y.todo) # 1 /\ Len(y.todo) \notin 1 .. 2
      BY <1>6, NoneLeft, Zenon
    <2> QED
      BY <1>1, <1>2, <1>5, <2>1, <2>2, <2>3, Lasts, Zenon
  <1>8. ~WillOpen(y)
    <2>1. Len(y.todo) \in 0 .. 1
      BY <1>6, NoneLeft, Zenon
    <2> QED
      BY <2>1, OpenedYet, Zenon
  <1>9. tree' = tree /\ content' = [content EXCEPT ![h] = data]
    BY <1>3, EffectIs
  <1>10. h \in Inode => data \in Pieces
    <2>1. x.piece \in Piece
      <3>1. x.piece \in [of : OpId, as : {"data", "digits"}]
        BY <1>1 DEF Operation
      <3>2. OpId \subseteq 0 .. MaxOps
        BY FilesAssumption DEF OpId
      <3> QED
        BY <3>1, <3>2 DEF Piece
    <2>2. h \in Inode => content[h] \in Pieces
      BY <1>1 DEF FilesTypes
    <2>3. h \in Inode => Written(content[h], 1, x.piece) \in Pieces
      BY <2>1, <2>2, WrittenIs
    <2>4. h \in Inode => Append(content[h], x.piece) \in Pieces
      BY <2>1, <2>2 DEF Pieces
    <2> QED
      BY <2>3, <2>4
  <1>11. DataWritten(x, y)
    <2> HIDE DEF data
    <2>1. CASE h \in Inode
      BY <1>5, <1>9, <1>10, <2>1 DEF DataWritten
    <2>2. CASE h \notin Inode
      <3>1. <<>> \in Pieces
        BY DEF Pieces
      <3>2. content' = [content EXCEPT ![h] = <<>>]
        BY <1>1, <1>9, <2>2 DEF FilesTypes
      <3> QED
        BY <1>5, <1>9, <3>1, <3>2 DEF DataWritten
    <2> QED
      BY <2>1, <2>2
  <1>12. Writer(x)
    BY DEF Writer, Mutating
  <1>13. Moved(o, x, y)
    BY <1>5, <1>7, <1>8, <1>11, <1>12 DEF Moved
  <1>14. ASSUME x.alone
         PROVE  OnItsWay(y)'
    <2>1. content \in [Inode -> Pieces] /\ OnItsWay(x) /\ Len(x.todo) = 1 /\ tree' = tree
      BY <1>1, <1>2, <1>9, <1>14 DEF FilesTypes, FilesInv
    <2>2. content' = [content EXCEPT ![x.handle] = data]
      BY <1>9
    <2>3. data = IF x.kind = "writeFile" THEN Written(content[x.handle], 1, x.piece) ELSE Append(content[x.handle], x.piece)
      OBVIOUS
    <2> HIDE DEF data, h
    <2>4. Same(x, y) /\ y.handle = x.handle /\ Len(y.todo) = 0 /\ x.kind \in {"writeFile", "appendFile"}
      BY <1>5, <1>6
    <2> QED
      BY <2>1, <2>2, <2>3, <2>4, WayWrites, Zenon
  <1> QED
    BY <1>13, <1>14 DEF Stepped

(* readFile opens, and reads.                                               *)
LEMMA StepReadOpens ==
    ASSUME FilesInv, NEW o \in Pending, NEW x, x = op[o], x.kind = "readFile",
           NEW step, step = <<"openRead", x.path>>, x.todo = <<step, <<"read", x.path>>>>, Isfile(x.path),
           Effect(step, o), NEW y, y = After(step, o), op' = [op EXCEPT ![o] = y]
    PROVE  Stepped(o, x, y)
  <1> DEFINE rest == <<<<"read", x.path>>>>
  <1>1. x \in Operation /\ Planned(x) /\ x.path \in Path /\ FilesTypes /\ o \in OpId
    BY Begun
  <1>2. Tail(x.todo) = rest /\ Len(rest) = 1 /\ x.todo # <<>>
    BY Lists
  <1>3. step[1] = "openRead" /\ step[2] = x.path
    OBVIOUS
  <1>4. y = [x EXCEPT !.todo = rest, !.handle = tree[x.path], !.source = tree[x.path]]
    <2>1. After(step, o) = [op[o] EXCEPT !.todo = Tail(op[o].todo), !.handle = tree[step[2]], !.source = tree[step[2]]]
      BY <1>3, AfterOpenRead, Zenon
    <2> QED
      BY <1>2, <1>3, <2>1, Zenon
  <1>5. rest \in Seq(FileCall)
    BY <1>1 DEF FileCall
  <1>6. tree[x.path] \in Inode
    BY DEF Isfile
  <1> HIDE DEF rest
  <1>7. y \in Operation /\ Same(x, y) /\ y.todo = rest /\ y.handle = tree[x.path]
    BY <1>1, <1>4, <1>5, <1>6 DEF Operation, Same
  <1>8. Len(y.todo) \in 0 .. 1
    BY <1>2, <1>7
  <1>9. Planned(y)
    <2>1. x.path \in x.touched
      BY <1>1 DEF Planned
    <2>2. y.todo \in Left(x, x.path)
      BY <1>7 DEF Left, rest
    <2>3. y.handle \in Inode /\ x.kind # "copyFile"
      BY <1>6, <1>7
    <2> QED
      BY <1>1, <1>2, <1>7, <2>1, <2>2, <2>3, Lasts, Zenon
  <1>10. ~WillOpen(y)
    BY <1>8, OpenedYet, Zenon
  <1>11. tree' = tree /\ content' = content
    BY <1>3, EffectIs
  <1>12. HandleTaken(x, y)
    <2>1. x.path \in x.touched
      BY <1>1 DEF Planned
    <2> QED
      BY <1>7, <1>11, <2>1 DEF HandleTaken
  <1>13. Moved(o, x, y)
    BY <1>7, <1>9, <1>10, <1>12 DEF Moved
  <1>14. x.alone => OnItsWay(y)'
    <2>1. Len(x.todo) = 2 /\ Len(y.todo) = 1 /\ y.todo # <<>>
      <3>1. Len(rest) = 1 /\ rest # <<>>
        BY DEF rest
      <3> QED
        BY <1>7, <3>1
    <2>2. x.alone => OnItsWay(x)
      BY DEF FilesInv
    <2> QED
      BY <1>7, <1>11, <2>1, <2>2, WayReadOpens
  <1> QED
    BY <1>13, <1>14 DEF Stepped

LEMMA StepReads ==
    ASSUME FilesInv, NEW o \in Pending, NEW x, x = op[o], x.kind = "readFile",
           NEW step, step = <<"read", x.path>>, x.todo = <<step>>,
           Effect(step, o), NEW y, y = After(step, o), op' = [op EXCEPT ![o] = y]
    PROVE  Stepped(o, x, y)
  <1> DEFINE data == content[x.handle]
  <1>1. x \in Operation /\ Planned(x) /\ x.path \in Path /\ FilesTypes /\ o \in OpId
    BY Begun
  <1>2. Tail(x.todo) = <<>> /\ Len(x.todo) = 1 /\ x.todo # <<>>
    BY Lists
  <1>3. step[1] = "read" /\ step[2] = x.path
    OBVIOUS
  <1>4. y = [x EXCEPT !.todo = <<>>, !.result = data]
    <2>1. After(step, o) = [op[o] EXCEPT !.todo = Tail(op[o].todo), !.result = content[op[o].handle]]
      BY <1>3, AfterIs, Zenon
    <2> QED
      BY <1>2, <1>3, <2>1, Zenon
  <1>5. data \in Data
    <2>1. x.handle \in Inode
      BY <1>1, <1>2 DEF Planned
    <2> QED
      BY <1>1, <2>1 DEF FilesTypes, Data
  <1> HIDE DEF data
  <1>6. y \in Operation /\ Same(x, y) /\ y.todo = <<>> /\ y.handle = x.handle /\ y.result = data
    <2>1. <<>> \in Seq(FileCall)
      OBVIOUS
    <2> QED
      BY <1>1, <1>4, <1>5, <2>1 DEF Operation, Same
  <1>7. Len(y.todo) = 0
    BY <1>6
  <1>8. Planned(y)
    <2>1. x.path \in x.touched
      BY <1>1 DEF Planned
    <2>2. y.todo \in Left(x, x.path)
      BY <1>6, EndLeft
    <2>3. Len(y.todo) # 1 /\ Len(y.todo) \notin 1 .. 2
      BY <1>7, NoneLeft, Zenon
    <2> QED
      BY <1>1, <1>2, <1>6, <2>1, <2>2, <2>3, Lasts, Zenon
  <1>9. ~WillOpen(y)
    <2>1. Len(y.todo) \in 0 .. 1
      BY <1>7, NoneLeft, Zenon
    <2> QED
      BY <2>1, OpenedYet, Zenon
  <1>10. tree' = tree /\ content' = content
    BY <1>3, EffectIs
  <1>11. Moved(o, x, y)
    BY <1>6, <1>8, <1>9, <1>10 DEF Moved, HandleTaken
  <1>12. x.alone => OnItsWay(y)'
    <2>1. x.alone => OnItsWay(x)
      BY DEF FilesInv
    <2> QED
      BY <1>2, <1>6, <1>7, <2>1, WayReads DEF data
  <1> QED
    BY <1>11, <1>12 DEF Stepped

(* copyFile opens two files, and copies.                                     *)
LEMMA StepCopies ==
    ASSUME FilesInv, NEW o \in Pending, NEW x, x = op[o], x.kind = "copyFile", x.todo # <<>>,
           NEW step, step = Head(x.todo), Possible(step, o),
           Effect(step, o), NEW y, y = After(step, o), op' = [op EXCEPT ![o] = y]
    PROVE  Moved(o, x, y)
  <1>1. x \in Operation /\ Planned(x) /\ x.path \in Path /\ x.touched \in SUBSET Path /\ FilesTypes /\ o \in OpId
    BY Begun
  <1>2. PICK q \in x.touched :
            \/ x.todo = <<<<"openRead", x.path>>, <<"openTarget", q>>, <<"copy", q>>>>
            \/ x.todo = <<<<"openTarget", q>>, <<"copy", q>>>>
            \/ x.todo = <<<<"copy", q>>>>
    BY <1>1, LeftCopy
  <1>3. q \in Path /\ x.path \in x.touched /\ Writer(x) /\ x.kind # "readFile"
    BY <1>1 DEF Planned, Writer, Mutating
  <1>4. /\ <<<<"openTarget", q>>, <<"copy", q>>>> \in Seq(FileCall) /\ <<<<"copy", q>>>> \in Seq(FileCall) /\ <<>> \in Seq(FileCall)
    BY <1>3 DEF FileCall, Opening
  <1>5. /\ <<<<"openTarget", q>>, <<"copy", q>>>> \in Left(x, q) /\ <<<<"copy", q>>>> \in Left(x, q) /\ <<>> \in Left(x, q)
    BY DEF Left
  <1>6. CASE x.todo = <<<<"openRead", x.path>>, <<"openTarget", q>>, <<"copy", q>>>>
    <2> DEFINE rest == <<<<"openTarget", q>>, <<"copy", q>>>>
    <2>1. Tail(x.todo) = rest /\ Len(rest) = 2 /\ Len(x.todo) = 3 /\ step[1] = "openRead" /\ step[2] = x.path
      BY <1>6
    <2> HIDE DEF rest
    <2>2. tree[x.path] \in Inode
      BY <2>1 DEF Possible, Isfile
    <2>3. y = [x EXCEPT !.todo = rest, !.handle = tree[x.path], !.source = tree[x.path]]
      <3>1. After(step, o) = [op[o] EXCEPT !.todo = Tail(op[o].todo), !.handle = tree[step[2]], !.source = tree[step[2]]]
        BY <2>1, AfterOpenRead, Zenon
      <3> QED
        BY <2>1, <3>1, Zenon
    <2>4. rest \in Seq(FileCall) /\ rest \in Left(x, q)
      BY <1>4, <1>5 DEF rest
    <2>5. y \in Operation /\ Same(x, y) /\ y.todo = rest /\ y.handle = tree[x.path] /\ y.source = tree[x.path]
      BY <1>1, <2>2, <2>3, <2>4 DEF Operation, Same
    <2>6. Planned(y)
      BY <1>1, <1>3, <2>2, <2>4, <2>5, Lasts, Zenon
    <2>7. WillOpen(x)
      <3>1. Len(x.todo) \in 2 .. 3
        BY <2>1
      <3> QED
        BY <3>1, OpenedYet, Zenon
    <2>8. tree' = tree /\ content' = content
      BY <2>1, EffectIs
    <2>9. HandleTaken(x, y)
      BY <1>3, <2>2, <2>5, <2>8 DEF HandleTaken, Isfile
    <2> QED
      BY <2>5, <2>6, <2>7, <2>9 DEF Moved
  <1>7. CASE x.todo = <<<<"openTarget", q>>, <<"copy", q>>>>
    <2> DEFINE rest == <<<<"copy", q>>>>  h == Opens(q, CreatedBy(o))
    <2>1. Tail(x.todo) = rest /\ Len(rest) = 1 /\ Len(x.todo) = 2 /\ step[1] = "openTarget" /\ step[2] = q
      BY <1>7
    <2>2. h \in Inode
      BY <1>1, <1>3, OpensInode
    <2>3. y = [x EXCEPT !.todo = rest, !.handle = h]
      <3>1. step[1] \in Opening
        BY <2>1 DEF Opening
      <3>2. After(step, o) = [op[o] EXCEPT !.todo = Tail(op[o].todo), !.handle = Opens(step[2], CreatedBy(o))]
        BY <3>1, AfterIs, Zenon
      <3> QED
        BY <2>1, <3>2, Zenon
    <2>4. rest \in Seq(FileCall) /\ rest \in Left(x, q)
      BY <1>4, <1>5
    <2> HIDE DEF rest, h
    <2>5. y \in Operation /\ Same(x, y) /\ y.todo = rest /\ y.handle = h /\ y.source = x.source
      BY <1>1, <2>2, <2>3, <2>4 DEF Operation, Same
    <2>6. Len(x.todo) \in 1 .. 2 /\ Len(x.todo) \in 2 .. 3 /\ Len(y.todo) \in 0 .. 1
      BY <2>1, <2>5
    <2>7. Planned(y)
      <3>1. y.source \in Inode
        BY <1>1, <2>5, <2>6 DEF Planned
      <3> QED
        BY <1>1, <1>3, <2>4, <2>5, <3>1, Lasts, Zenon
    <2>8. WillOpen(x) /\ ~WillOpen(y)
      BY <2>6, OpenedYet, Zenon
    <2>9. tree' = [tree EXCEPT ![q] = h] /\ content' = [content EXCEPT ![h] = <<>>]
      BY <2>1, EffectIs DEF h
    <2>10. FileOpened(o, x, y)
      BY <2>5, <2>8, <2>9 DEF FileOpened, h
    <2> QED
      BY <1>3, <2>5, <2>7, <2>8, <2>10 DEF Moved
  <1>8. CASE x.todo = <<<<"copy", q>>>>
    <2> DEFINE data == content[x.source]
    <2>1. Tail(x.todo) = <<>> /\ Len(x.todo) \in 1 .. 2 /\ step[1] = "copy"
      BY <1>8
    <2>2. data \in Pieces
      BY <1>1, <2>1 DEF Planned, FilesTypes
    <2>3. y = [x EXCEPT !.todo = <<>>]
      <3>1. step[1] \in {"write", "append", "copy"}
        BY <2>1
      <3>2. After(step, o) = [op[o] EXCEPT !.todo = Tail(op[o].todo)]
        BY <3>1, AfterIs, Zenon
      <3> QED
        BY <2>1, <3>2, Zenon
    <2>4. y \in Operation /\ Same(x, y) /\ y.todo = <<>> /\ y.handle = x.handle
      BY <1>1, <1>4, <2>3 DEF Operation, Same
    <2>5. Len(y.todo) \notin 1 .. 2 /\ Len(y.todo) \in 0 .. 1
      <3>1. Len(y.todo) = 0
        BY <2>4
      <3> QED
        BY <3>1, NoneLeft, Zenon
    <2>6. Planned(y)
      BY <1>1, <1>3, <1>5, <2>4, <2>5, Lasts, Zenon
    <2>7. ~WillOpen(y)
      BY <2>5, OpenedYet, Zenon
    <2>8. tree' = tree /\ content' = [content EXCEPT ![x.handle] = data]
      BY <2>1, EffectIs
    <2>9. DataWritten(x, y)
      BY <2>2, <2>4, <2>8 DEF DataWritten
    <2> QED
      BY <1>3, <2>4, <2>6, <2>7, <2>9 DEF Moved
  <1> QED
    BY <1>2, <1>6, <1>7, <1>8

(* The others change the tree only.                                          *)
LEMMA StepLooks ==
    ASSUME FilesInv, NEW o \in Pending, NEW x, x = op[o], x.kind \notin Simple, x.kind # "copyFile",
           NEW look \in Look, NEW step, step = <<look, x.path>>, x.todo = <<step>>,
           Effect(step, o), NEW y, y = After(step, o), op' = [op EXCEPT ![o] = y]
    PROVE  Moved(o, x, y)
  <1> DEFINE rest == RmPlan(x.path, look = "lookRmrf")
  <1>1. x \in Operation /\ Planned(x) /\ x.path \in Path /\ x.touched \in SUBSET Path
    BY Begun
  <1>2. Writer(x)
    BY <1>1 DEF Operation, Kind, Writer, Simple
  <1>3. x.path \in x.touched /\ Under[x.path] \subseteq x.touched
    BY <1>1, <1>2 DEF Planned
  <1>4. rest \in Seq(Calls(x.touched))
    BY <1>1, <1>3, RmPlanned
  <1>5. step[1] = look /\ step[2] = x.path /\ x.todo # <<>>
    OBVIOUS
  <1>6. y = [x EXCEPT !.todo = rest]
    <2>1. After(step, o) = [op[o] EXCEPT !.todo = RmPlan(step[2], step[1] = "lookRmrf")]
      BY <1>5, AfterIs, Zenon
    <2> QED
      BY <1>5, <2>1, Zenon
  <1> HIDE DEF rest
  <1>7. rest \in Seq(FileCall)
    <2>1. Calls(x.touched) \subseteq FileCall
      BY <1>1, CallsAre
    <2> QED
      BY <1>4, <2>1
  <1>8. y \in Operation /\ Same(x, y) /\ y.todo = rest /\ y.handle = x.handle
    BY <1>1, <1>6, <1>7 DEF Operation, Same
  <1>9. y.todo \in Left(x, x.path)
    BY <1>4, <1>8 DEF Left, Simple
  <1>10. Planned(y)
    BY <1>1, <1>3, <1>5, <1>8, <1>9, Lasts, Zenon DEF Simple
  <1>11. ~WillOpen(y)
    BY <1>8 DEF WillOpen, Same, Simple
  <1>12. tree' = tree /\ content' = content
    BY <1>5, EffectIs
  <1> QED
    BY <1>8, <1>10, <1>11, <1>12 DEF Moved, HandleTaken

LEMMA StepPlain ==
    ASSUME FilesInv, NEW o \in Pending, NEW x, x = op[o], x.kind \notin Simple, x.kind # "copyFile",
           x.todo \in Seq(Calls(x.touched)), x.todo # <<>>, NEW step, step = Head(x.todo), Possible(step, o),
           Effect(step, o), NEW y, y = After(step, o), op' = [op EXCEPT ![o] = y]
    PROVE  Moved(o, x, y)
  <1>1. x \in Operation /\ Planned(x) /\ x.path \in Path /\ x.touched \in SUBSET Path
    BY Begun
  <1>2. Writer(x)
    BY <1>1 DEF Operation, Kind, Writer, Simple
  <1>3. step \in Calls(x.touched) /\ Tail(x.todo) \in Seq(Calls(x.touched))
    <2> DEFINE C == Calls(x.touched)  todo == x.todo
    <2>1. todo \in Seq(C) /\ todo # <<>> /\ step = Head(todo)
      OBVIOUS
    <2> HIDE DEF C, todo
    <2>2. Head(todo) \in C /\ Tail(todo) \in Seq(C)
      BY <2>1
    <2> QED
      BY <2>1, <2>2 DEF C, todo
  <1>4. step[1] \in Plain /\ step[2] \in x.touched
    BY <1>1, <1>3, CallsAre
  <1> DEFINE rest == IF Unfolds(step) THEN Unfolded(step) \o Tail(x.todo) ELSE Tail(x.todo)
  <1>5. y = [x EXCEPT !.todo = rest]
    <2>1. CASE Unfolds(step)
      BY <2>1, AfterIs, Zenon
    <2>2. CASE ~Unfolds(step)
      <3>1. step[1] \in Plain \cup {"write", "append", "copy"}
        BY <1>4
      <3> QED
        BY <2>2, <3>1, AfterIs, Zenon
    <2> QED
      BY <2>1, <2>2
  <1>6. rest \in Seq(Calls(x.touched))
    <2>1. CASE Unfolds(step)
      <3>1. Unfolded(step) \in Seq(Calls(x.touched))
        BY <1>1, <1>3, <2>1, UnfoldedIs
      <3> QED
        BY <1>3, <2>1, <3>1, ConcatProperties
    <2> QED
      BY <1>3, <2>1
  <1> HIDE DEF rest
  <1>7. rest \in Seq(FileCall)
    <2>1. Calls(x.touched) \subseteq FileCall
      BY <1>1, CallsAre
    <2> QED
      BY <1>6, <2>1
  <1>8. y \in Operation /\ Same(x, y) /\ y.todo = rest /\ y.handle = x.handle
    BY <1>1, <1>5, <1>7 DEF Operation, Same
  <1>9. y.todo \in Left(x, x.path)
    BY <1>6, <1>8 DEF Left, Simple
  <1>10. Planned(y)
    <2>1. x.path \in x.touched /\ x.kind # "readFile"
      BY <1>1 DEF Planned, Simple
    <2> QED
      BY <1>1, <1>8, <1>9, <2>1, Lasts, Zenon
  <1>11. ~WillOpen(y)
    BY <1>8 DEF WillOpen, Same, Simple
  <1>12. content' = content
    BY <1>4, EffectIs
  <1>13. CASE step[1] \in {"unlink", "rmdir", "clear"} /\ ~Unfolds(step)
    <2>1. tree' = [tree EXCEPT ![step[2]] = Absent]
      BY <1>13, EffectIs
    <2>2. PathChanged(x, y)
      BY <1>4, <1>8, <1>12, <2>1 DEF PathChanged
    <2> QED
      BY <1>2, <1>8, <1>10, <1>11, <2>2 DEF Moved
  <1>14. CASE step[1] \in {"mkdir", "mkdirs", "mkdirAll"} /\ ~Unfolds(step)
    <2>1. tree' = [tree EXCEPT ![step[2]] = Dir]
      BY <1>14, EffectIs
    <2>2. PathChanged(x, y)
      BY <1>4, <1>8, <1>12, <2>1 DEF PathChanged
    <2> QED
      BY <1>2, <1>8, <1>10, <1>11, <2>2 DEF Moved
  <1>15. CASE step[1] = "rename"
    <2>1. tree' = [tree EXCEPT ![x.path] = Absent, ![step[2]] = tree[x.path]]
      BY <1>15, EffectIs
    <2>2. Isfile(x.path)
      BY <1>15 DEF Possible
    <2>3. FileRenamed(x, y)
      BY <1>4, <1>8, <1>12, <2>1, <2>2 DEF FileRenamed
    <2> QED
      BY <1>2, <1>8, <1>10, <1>11, <2>3 DEF Moved
  <1>16. CASE Unfolds(step)
    <2>1. tree' = tree
      BY <1>16, EffectIs
    <2> QED
      BY <1>8, <1>10, <1>11, <1>12, <2>1 DEF Moved, HandleTaken
  <1> QED
    BY <1>4, <1>13, <1>14, <1>15, <1>16 DEF Plain, Nested

(* A call that succeeds or fails.                                            *)
LEMMA CallMoves ==
    ASSUME FilesInv, NEW o \in Pending, SystemCall(o)
    PROVE  \E y : Stepped(o, op[o], y)
  <1> DEFINE x == op[o]  step == Head(x.todo)
  <1>1. x \in Operation /\ Planned(x) /\ x.todo # <<>>
    BY Begun DEF SystemCall
  <1>2. CASE ~Possible(step, o)
    <2>1. PICK y : y = [x EXCEPT !.todo = <<>>, !.result = Failed]
      OBVIOUS
    <2>2. op' = [op EXCEPT ![o] = y] /\ tree' = tree /\ content' = content
      BY <1>2, <2>1 DEF SystemCall
    <2>3. Moved(o, x, y) /\ Len(y.todo) = 0 /\ y.result = Failed /\ Same(x, y)
      BY <1>1, <2>1, <2>2, StepFails
    <2>4. x.alone /\ x.kind = "readFile" => x.before = Unknown
      <3>1. SUFFICES ASSUME x.alone, x.kind = "readFile", x.before # Unknown
                     PROVE  Possible(step, o)
        BY <1>2
      <3>2. x.todo = <<<<"openRead", x.path>>, <<"read", x.path>>>> \/ x.todo = <<<<"read", x.path>>>>
        BY <1>1, <3>1, LeftSimple DEF Simple, Opener, User
      <3>3. CASE x.todo = <<<<"openRead", x.path>>, <<"read", x.path>>>>
        <4>1. Len(x.todo) = 2 /\ step = <<"openRead", x.path>>
          BY <3>3
        <4>2. OnItsWay(x)
          BY <3>1 DEF FilesInv
        <4>3. Isfile(x.path)
          BY <3>1, <4>1, <4>2 DEF OnItsWay, Holds
        <4> QED
          BY <4>1, <4>3 DEF Possible
      <3>4. CASE x.todo = <<<<"read", x.path>>>>
        <4>1. step = <<"read", x.path>>
          BY <3>4
        <4> QED
          BY <4>1 DEF Possible
      <3> QED
        BY <3>2, <3>3, <3>4
    <2>5. x.alone => OnItsWay(y)'
      BY <2>3, <2>4, WayFails DEF Same
    <2> QED
      BY <2>3, <2>5 DEF Stepped
  <1>3. CASE Possible(step, o)
    <2> DEFINE y == After(step, o)
    <2>1. op' = [op EXCEPT ![o] = y] /\ Effect(step, o)
      BY <1>3 DEF SystemCall
    <2>2. CASE x.kind \in {"writeFile", "appendFile"}
      <3>1. \/ x.todo = <<<<Opener(x.kind), x.path>>, <<User(x.kind), x.path>>>>
            \/ x.todo = <<<<User(x.kind), x.path>>>>
        BY <1>1, <2>2, LeftSimple DEF Simple
      <3>2. CASE x.todo = <<<<Opener(x.kind), x.path>>, <<User(x.kind), x.path>>>>
        <4>1. step = <<Opener(x.kind), x.path>>
          BY <3>2
        <4> HIDE DEF x, y, step
        <4>2. Stepped(o, x, y)
          BY <2>1, <2>2, <3>2, <4>1, StepOpens DEF x, y
        <4> QED
          BY <4>2 DEF x
      <3>3. CASE x.todo = <<<<User(x.kind), x.path>>>>
        <4>1. step = <<User(x.kind), x.path>>
          BY <3>3
        <4> HIDE DEF x, y, step
        <4>2. Stepped(o, x, y)
          BY <2>1, <2>2, <3>3, <4>1, StepWrites DEF x, y
        <4> QED
          BY <4>2 DEF x
      <3> QED
        BY <3>1, <3>2, <3>3
    <2>3. CASE x.kind = "readFile"
      <3>1. \/ x.todo = <<<<"openRead", x.path>>, <<"read", x.path>>>>
            \/ x.todo = <<<<"read", x.path>>>>
        BY <1>1, <2>3, LeftSimple DEF Simple, Opener, User
      <3>2. CASE x.todo = <<<<"openRead", x.path>>, <<"read", x.path>>>>
        <4>1. step = <<"openRead", x.path>>
          BY <3>2
        <4>2. Isfile(x.path)
          BY <1>3, <4>1 DEF Possible
        <4> HIDE DEF x, y, step
        <4>3. Stepped(o, x, y)
          BY <2>1, <2>3, <3>2, <4>1, <4>2, StepReadOpens DEF x, y
        <4> QED
          BY <4>3 DEF x
      <3>3. CASE x.todo = <<<<"read", x.path>>>>
        <4>1. step = <<"read", x.path>>
          BY <3>3
        <4> HIDE DEF x, y, step
        <4>2. Stepped(o, x, y)
          BY <2>1, <2>3, <3>3, <4>1, StepReads DEF x, y
        <4> QED
          BY <4>2 DEF x
      <3> QED
        BY <3>1, <3>2, <3>3
    <2>4. CASE x.kind = "copyFile"
      <3> HIDE DEF y, step
      <3>1. Moved(o, x, y)
        BY <1>1, <1>3, <2>1, <2>4, StepCopies DEF y, step
      <3>2. x.kind \notin Simple /\ Same(x, y)
        BY <2>4, <3>1 DEF Moved, Simple
      <3> QED
        BY <3>1, <3>2, WayElse DEF Stepped
    <2>5. CASE x.kind \notin Simple /\ x.kind # "copyFile"
      <3>1. (\E look \in Look : x.todo = <<<<look, x.path>>>>) \/ x.todo \in Seq(Calls(x.touched))
        BY <1>1, <2>5, LeftPlain
      <3>2. CASE \E look \in Look : x.todo = <<<<look, x.path>>>>
        <4>1. PICK look \in Look : x.todo = <<<<look, x.path>>>>
          BY <3>2
        <4>2. step = <<look, x.path>>
          BY <4>1
        <4> HIDE DEF x, y, step
        <4>3. Moved(o, x, y)
          BY <2>1, <2>5, <4>1, <4>2, StepLooks DEF x, y
        <4>4. Same(x, y)
          BY <4>3 DEF Moved
        <4> QED
          BY <2>5, <4>3, <4>4, WayElse DEF Stepped, x
      <3>3. CASE x.todo \in Seq(Calls(x.touched))
        <4> HIDE DEF y, step
        <4>1. Moved(o, x, y)
          BY <1>1, <1>3, <2>1, <2>5, <3>3, StepPlain DEF y, step
        <4>2. Same(x, y)
          BY <4>1 DEF Moved
        <4> QED
          BY <2>5, <4>1, <4>2, WayElse DEF Stepped
      <3> QED
        BY <3>1, <3>2, <3>3
    <2> QED
      BY <2>2, <2>3, <2>4, <2>5 DEF Simple
  <1> QED
    BY <1>2, <1>3

-----------------------------------------------------------------------------
(* What a move keeps.                                                       *)

LEMMA MovedTypes ==
    ASSUME FilesInv, NEW o \in Pending, NEW x, x = op[o], NEW y, Moved(o, x, y),
           UNCHANGED <<begun, fds, next_fd, known>>
    PROVE  /\ FilesTypes' /\ Pending' = Pending
           /\ op'[o] = y /\ \A e \in Pending : e # o => op'[e] = op[e]
           /\ \A e \in Pending' : Planned(op'[e])
  <1>1. FilesTypes /\ o \in OpId /\ x \in Operation /\ x.touched \in SUBSET Path /\ x.path \in Path
    BY Begun
  <1>2. /\ op \in [DOMAIN op -> Operation] /\ o \in DOMAIN op /\ DOMAIN op \subseteq 1 .. begun
        /\ tree \in [Path -> Inode \cup {Absent, Dir}] /\ content \in [Inode -> Pieces]
    BY <1>1 DEF FilesTypes, Pending
  <1>3. op' = [op EXCEPT ![o] = y] /\ y \in Operation /\ Planned(y)
    BY DEF Moved
  <1>4. DOMAIN op' = DOMAIN op /\ op' \in [DOMAIN op' -> Operation]
    BY <1>2, <1>3
  <1>5. tree' \in [Path -> Inode \cup {Absent, Dir}] /\ content' \in [Inode -> Pieces]
    <2>1. CASE HandleTaken(x, y)
      BY <1>2, <2>1 DEF HandleTaken
    <2>2. CASE FileOpened(o, x, y)
      <3>1. \A p \in x.touched : Opens(p, CreatedBy(o)) \in Inode
        BY <1>1, OpensInode
      <3>2. <<>> \in Pieces
        BY DEF Pieces
      <3> QED
        BY <1>1, <1>2, <2>2, <3>1, <3>2 DEF FileOpened
    <2>3. CASE DataWritten(x, y)
      BY <1>2, <2>3 DEF DataWritten
    <2>4. CASE PathChanged(x, y)
      BY <1>2, <2>4 DEF PathChanged
    <2>5. CASE FileRenamed(x, y)
      BY <1>1, <1>2, <2>5 DEF FileRenamed
    <2> QED
      BY <2>1, <2>2, <2>3, <2>4, <2>5 DEF Moved
  <1>6. op'[o] = y /\ \A e \in DOMAIN op : e # o => op'[e] = op[e]
    BY <1>2, <1>3
  <1>7. \A e \in DOMAIN op' : Planned(op'[e])
    BY <1>3, <1>4, <1>6 DEF FilesInv, Pending
  <1> QED
    BY <1>1, <1>4, <1>5, <1>6, <1>7 DEF FilesTypes, Pending

LEMMA FreshLess ==
    ASSUME NEW o \in Pending, NEW x, x = op[o], NEW y, op'[o] = y, WillOpen(y) => WillOpen(x),
           \A e \in Pending : e # o => op'[e] = op[e], Pending' = Pending, UNCHANGED <<begun, next_fd>>
    PROVE  \A i : Fresh(i)' => Fresh(i)
  <1>1. \A e \in Pending : WillOpen(op'[e]) => WillOpen(op[e])
    OBVIOUS
  <1> QED
    BY <1>1 DEF Fresh, WillOpen, CreatedBy, CreatedByFd

(* A file that is created had no name and no handle before.                 *)
LEMMA OpensWhat ==
    ASSUME FilesInv, NEW o \in Pending, WillOpen(op[o]), NEW p \in Path
    PROVE  LET h == Opens(p, CreatedBy(o)) IN
           /\ h \in Inode
           /\ Isfile(p) => h = tree[p]
           /\ ~Isfile(p) => h = CreatedBy(o) /\ Fresh(h) /\ (\A q \in Path : tree[q] # h)
                            /\ \A e \in Pending : op[e].handle # h
           /\ \A q \in Path : q # p => tree[q] # h
  <1>1. o \in OpId /\ OneName /\ Unmade
    BY Begun DEF FilesInv
  <1>2. Opens(p, CreatedBy(o)) \in Inode /\ CreatedBy(o) \in Inode
    BY <1>1, OpensInode, Numbers
  <1>3. Fresh(CreatedBy(o))
    BY <1>1 DEF Fresh
  <1>4. (\A q \in Path : tree[q] # CreatedBy(o)) /\ \A e \in Pending : op[e].handle # CreatedBy(o)
    BY <1>1, <1>2, <1>3 DEF Unmade
  <1> QED
    BY <1>1, <1>2, <1>3, <1>4 DEF Opens, OneName

(* The tree, and the files, outside the paths of a writer.                  *)
LEMMA MovedFrame ==
    ASSUME FilesInv, NEW o \in Pending, NEW x, x = op[o], NEW y, Moved(o, x, y), NEW p \in Path,
           Writer(x) => p \notin x.touched
    PROVE  tree'[p] = tree[p] /\ (Isfile(p) => content'[tree[p]] = content[tree[p]])
  <1>1. FilesTypes /\ o \in OpId /\ x.touched \in SUBSET Path /\ x.path \in Path /\ Planned(x)
    BY Begun
  <1>2. CASE HandleTaken(x, y)
    BY <1>2 DEF HandleTaken
  <1>3. CASE Writer(x) /\ FileOpened(o, x, y)
    <2>1. PICK q \in x.touched : /\ y.handle = Opens(q, CreatedBy(o)) /\ tree' = [tree EXCEPT ![q] = y.handle]
                                 /\ content' \in {content, [content EXCEPT ![y.handle] = <<>>]}
      BY <1>3 DEF FileOpened
    <2>2. q # p /\ q \in Path /\ WillOpen(x)
      BY <1>1, <1>3 DEF FileOpened
    <2>3. tree[p] # y.handle
      BY <2>1, <2>2, OpensWhat
    <2> QED
      BY <1>1, <2>1, <2>2, <2>3 DEF FilesTypes, Isfile
  <1>4. CASE Writer(x) /\ DataWritten(x, y)
    <2>1. Isfile(p) => tree[p] # x.handle
      BY <1>4 DEF FilesInv, HandlesFollowed
    <2> QED
      BY <1>1, <1>4, <2>1 DEF DataWritten, FilesTypes, Isfile
  <1>5. CASE Writer(x) /\ PathChanged(x, y)
    BY <1>1, <1>5 DEF PathChanged, FilesTypes
  <1>6. CASE Writer(x) /\ FileRenamed(x, y)
    <2>1. x.path \in x.touched
      BY <1>1 DEF Planned
    <2> QED
      BY <1>1, <1>6, <2>1 DEF FileRenamed, FilesTypes
  <1> QED
    BY <1>2, <1>3, <1>4, <1>5, <1>6 DEF Moved

LEMMA MovedOneName ==
    ASSUME FilesInv, NEW o \in Pending, NEW x, x = op[o], NEW y, Moved(o, x, y)
    PROVE  OneName'
  <1>1. FilesTypes /\ OneName /\ x.touched \in SUBSET Path /\ x.path \in Path
    BY Begun DEF FilesInv
  <1>2. CASE tree' = tree
    BY <1>1, <1>2 DEF OneName, Isfile
  <1>3. CASE FileOpened(o, x, y)
    <2>1. PICK q \in x.touched : y.handle = Opens(q, CreatedBy(o)) /\ tree' = [tree EXCEPT ![q] = y.handle]
      BY <1>3 DEF FileOpened
    <2>2. \A p \in Path : p # q => tree[p] # y.handle
      BY <1>1, <1>3, <2>1, OpensWhat DEF FileOpened
    <2> QED
      BY <1>1, <2>1, <2>2 DEF OneName, Isfile, FilesTypes
  <1>4. CASE PathChanged(x, y)
    BY <1>1, <1>4, Numbers DEF PathChanged, OneName, Isfile, FilesTypes
  <1>5. CASE FileRenamed(x, y)
    <2>1. PICK q \in x.touched : tree' = [tree EXCEPT ![x.path] = Absent, ![q] = tree[x.path]]
      BY <1>5 DEF FileRenamed
    <2>2. \A p \in Path : tree'[p] = IF p = q THEN tree[x.path] ELSE IF p = x.path THEN Absent ELSE tree[p]
      BY <1>1, <2>1 DEF FilesTypes
    <2> QED
      BY <1>1, <1>5, <2>2, Numbers DEF FileRenamed, OneName, Isfile
  <1> QED
    BY <1>2, <1>3, <1>4, <1>5 DEF Moved, HandleTaken, DataWritten

LEMMA MovedUnmade ==
    ASSUME FilesInv, NEW o \in Pending, NEW x, x = op[o], NEW y, Moved(o, x, y),
           UNCHANGED <<begun, fds, next_fd, known>>
    PROVE  Unmade'
  <1>1. FilesTypes /\ Unmade /\ x.touched \in SUBSET Path /\ x.path \in Path
    BY Begun DEF FilesInv
  <1>2. op'[o] = y /\ (\A e \in Pending : e # o => op'[e] = op[e]) /\ Pending' = Pending /\ (WillOpen(y) => WillOpen(x))
    BY MovedTypes DEF Moved
  <1> SUFFICES ASSUME NEW i \in Inode, Fresh(i)'
               PROVE  (\A p \in Path : tree'[p] # i) /\ \A e \in Pending : op'[e].handle # i
    BY <1>2 DEF Unmade
  <1>3. Fresh(i) /\ (\A p \in Path : tree[p] # i) /\ \A e \in Pending : op[e].handle # i
    BY <1>1, <1>2, FreshLess DEF Unmade
  <1>4. CASE FileOpened(o, x, y)
    <2>1. PICK q \in x.touched : y.handle = Opens(q, CreatedBy(o)) /\ tree' = [tree EXCEPT ![q] = y.handle]
      BY <1>4 DEF FileOpened
    <2>2. i # CreatedBy(o)
      <3>1. ~WillOpen(y) /\ o \in 1 .. begun
        BY <1>1, <1>4 DEF FileOpened, FilesTypes, Pending
      <3>2. o \in OpId /\ \A e \in OpId : CreatedBy(e) = CreatedBy(o) => e = o
        BY Begun, Numbers
      <3>3. \A fd \in Fd : CreatedByFd(fd) # CreatedBy(o)
        BY <3>2, Numbers
      <3> QED
        BY <1>1, <1>2, <3>1, <3>2, <3>3 DEF Fresh, FilesTypes
    <2>3. y.handle # i
      BY <1>1, <1>3, <2>1, <2>2 DEF Opens
    <2> QED
      BY <1>1, <1>2, <1>3, <2>1, <2>3 DEF FilesTypes
  <1>5. CASE HandleTaken(x, y)
    BY <1>1, <1>2, <1>3, <1>5 DEF HandleTaken
  <1>6. CASE DataWritten(x, y)
    BY <1>2, <1>3, <1>6 DEF DataWritten
  <1>7. CASE PathChanged(x, y)
    <2>1. \A p \in Path : tree'[p] \in {tree[p], Absent, Dir}
      BY <1>1, <1>7 DEF PathChanged, FilesTypes
    <2> QED
      BY <1>2, <1>3, <1>7, <2>1, Numbers DEF PathChanged
  <1>8. CASE FileRenamed(x, y)
    <2>1. \A p \in Path : tree'[p] \in {tree[p], Absent, tree[x.path]}
      BY <1>1, <1>8 DEF FileRenamed, FilesTypes
    <2>2. \A r \in Path : tree'[r] # i
      BY <1>1, <1>3, <2>1, Numbers
    <2>3. \A e \in Pending : op'[e].handle # i
      BY <1>2, <1>3, <1>8 DEF FileRenamed
    <2> QED
      BY <2>2, <2>3
  <1> QED
    BY <1>4, <1>5, <1>6, <1>7, <1>8 DEF Moved

LEMMA MovedFollowed ==
    ASSUME FilesInv, NEW o \in Pending, NEW x, x = op[o], NEW y, Moved(o, x, y),
           UNCHANGED <<begun, fds, next_fd, known>>
    PROVE  HandlesFollowed'
  <1>1. /\ FilesTypes /\ OneName /\ HandlesFollowed /\ Groups /\ x.touched \in SUBSET Path /\ x.path \in Path
        /\ x.path \in x.touched
    BY Begun DEF FilesInv, Planned
  <1>2. op'[o] = y /\ (\A e \in Pending : e # o => op'[e] = op[e]) /\ Pending' = Pending /\ Same(x, y)
    BY MovedTypes DEF Moved
  <1> SUFFICES ASSUME NEW e \in Pending, Writer(op'[e]), NEW p \in Path, tree'[p] = op'[e].handle
               PROVE  p \in op'[e].touched
    BY <1>2 DEF HandlesFollowed, Writer
  <1>3. Writer(op[e]) /\ op'[e].touched = op[e].touched /\ (e # o => op'[e].handle = op[e].handle)
    BY <1>2 DEF Same, Writer
  <1>4. \A q \in Path : tree[q] = op[e].handle => q \in op[e].touched
    BY <1>1, <1>3 DEF HandlesFollowed
  <1>5. op'[e].handle \in Inode \cup {0}
    <2>1. FilesTypes' /\ e \in Pending'
      BY <1>2, MovedTypes
    <2>2. op'[e] \in Operation
      BY <2>1 DEF FilesTypes, Pending
    <2> QED
      BY <2>2 DEF Operation
  <1>6. CASE HandleTaken(x, y)
    <2>1. CASE e = o /\ y.handle # x.handle
      <3>1. PICK q \in x.touched : Isfile(q) /\ y.handle = tree[q]
        BY <1>6, <2>1 DEF HandleTaken
      <3>2. p = q
        BY <1>1, <1>2, <1>6, <2>1, <3>1 DEF HandleTaken, OneName
      <3> QED
        BY <1>2, <2>1, <3>1, <3>2 DEF Same
    <2>2. CASE ~(e = o /\ y.handle # x.handle)
      BY <1>2, <1>3, <1>4, <1>6, <2>2 DEF HandleTaken
    <2> QED
      BY <2>1, <2>2
  <1>7. CASE FileOpened(o, x, y)
    <2>1. PICK q \in x.touched : y.handle = Opens(q, CreatedBy(o)) /\ tree' = [tree EXCEPT ![q] = y.handle]
      BY <1>7 DEF FileOpened
    <2>2. /\ \A r \in Path : r # q => tree[r] # y.handle
          /\ tree[q] = y.handle \/ \A d \in Pending : op[d].handle # y.handle
      BY <1>1, <1>7, <2>1, OpensWhat DEF FileOpened
    <2>3. tree'[q] = y.handle /\ \A r \in Path : r # q => tree'[r] = tree[r]
      BY <1>1, <2>1 DEF FilesTypes
    <2>4. CASE e = o
      BY <1>2, <2>2, <2>3, <2>4 DEF Same
    <2>5. CASE e # o
      BY <1>1, <1>3, <1>4, <2>2, <2>3, <2>5
    <2> QED
      BY <2>4, <2>5
  <1>8. CASE DataWritten(x, y)
    BY <1>2, <1>3, <1>4, <1>8 DEF DataWritten
  <1>9. CASE PathChanged(x, y)
    <2>1. tree'[p] \in {tree[p], Absent, Dir}
      BY <1>1, <1>9 DEF PathChanged, FilesTypes
    <2> QED
      BY <1>2, <1>3, <1>4, <1>5, <1>9, <2>1, Numbers DEF PathChanged
  <1>10. CASE Writer(x) /\ FileRenamed(x, y)
    <2>1. PICK q \in x.touched : tree' = [tree EXCEPT ![x.path] = Absent, ![q] = tree[x.path]]
      BY <1>10 DEF FileRenamed
    <2>2. tree'[p] = (IF p = q THEN tree[x.path] ELSE IF p = x.path THEN Absent ELSE tree[p]) /\ q \in Path
      BY <1>1, <2>1 DEF FilesTypes
    <2>3. op'[e].handle = op[e].handle
      BY <1>2, <1>3, <1>10 DEF FileRenamed
    <2>4. CASE p = q
      <3>1. x.path \in op[e].touched
        BY <1>1, <1>4, <2>2, <2>3, <2>4
      <3>2. op[e].touched = x.touched
        BY <1>1, <1>3, <1>10, <3>1 DEF Groups, Apart
      <3> QED
        BY <1>3, <2>4, <3>2
    <2>5. CASE p # q
      BY <1>3, <1>4, <1>5, <2>2, <2>3, <2>5, Numbers
    <2> QED
      BY <2>4, <2>5
  <1> QED
    BY <1>6, <1>7, <1>8, <1>9, <1>10 DEF Moved

LEMMA MovedApart ==
    ASSUME FilesInv, NEW o \in Pending, NEW x, x = op[o], NEW y, Moved(o, x, y),
           UNCHANGED <<begun, fds, next_fd, known>>
    PROVE  Groups' /\ AloneIsApart'
  <1>1. op'[o] = y /\ (\A e \in Pending : e # o => op'[e] = op[e]) /\ Pending' = Pending /\ Same(x, y)
    BY MovedTypes DEF Moved
  <1>2. \A e \in Pending : op'[e].touched = op[e].touched /\ op'[e].kind = op[e].kind /\ op'[e].alone = op[e].alone
    BY <1>1 DEF Same
  <1>3. Groups /\ AloneIsApart
    BY DEF FilesInv
  <1>4. Groups'
    BY <1>1, <1>2, <1>3 DEF Groups, Apart, Writer
  <1>5. AloneIsApart'
    BY <1>1, <1>2, <1>3 DEF AloneIsApart, Apart, Writer
  <1> QED
    BY <1>4, <1>5

LEMMA MovedKnown ==
    ASSUME FilesInv, NEW o \in Pending, NEW x, x = op[o], NEW y, Moved(o, x, y),
           UNCHANGED <<begun, fds, next_fd, known>>
    PROVE  KnownHolds'
  <1>1. op'[o] = y /\ (\A e \in Pending : e # o => op'[e] = op[e]) /\ Pending' = Pending /\ Same(x, y)
    BY MovedTypes DEF Moved
  <1>2. \A e \in Pending : op'[e].touched = op[e].touched /\ op'[e].kind = op[e].kind
    BY <1>1 DEF Same
  <1> SUFFICES ASSUME NEW p \in Path, known[p] # Unknown
               PROVE  Holds(p, known[p])' /\ \A e \in Pending : Writer(op'[e]) => p \notin op'[e].touched
    BY <1>1 DEF KnownHolds
  <1>3. Holds(p, known[p]) /\ \A e \in Pending : Writer(op[e]) => p \notin op[e].touched
    BY DEF FilesInv, KnownHolds
  <1>4. tree'[p] = tree[p] /\ content'[tree[p]] = content[tree[p]]
    BY <1>3, MovedFrame DEF Holds
  <1> QED
    BY <1>2, <1>3, <1>4 DEF Holds, Isfile, Writer

(* Operations that are alone do not see the others.                         *)
LEMMA MovedOthers ==
    ASSUME FilesInv, NEW o \in Pending, NEW x, x = op[o], NEW y, Moved(o, x, y),
           UNCHANGED <<begun, fds, next_fd, known>>, NEW e \in Pending, e # o, NEW z, z = op[e], z.alone
    PROVE  op'[e] = z /\ OnItsWay(z)'
  <1>1. op'[e] = z
    BY MovedTypes
  <1>2. OnItsWay(z) /\ z.path \in Path /\ z.path \in z.touched
    BY Begun DEF FilesInv, Planned
  <1>3. Writer(x) => z.path \notin x.touched
    BY <1>2 DEF FilesInv, AloneIsApart, Apart
  <1>4. tree'[z.path] = tree[z.path] /\ (Isfile(z.path) => content'[tree[z.path]] = content[tree[z.path]])
    BY <1>2, <1>3, MovedFrame
  <1>5. \A data : Holds(z.path, data) => Holds(z.path, data)'
    BY <1>4 DEF Holds, Isfile
  <1>6. \A data : Opened(z, data) => Opened(z, data)'
    BY <1>4, <1>5 DEF Opened
  <1> QED
    BY <1>1, <1>2, <1>5, <1>6 DEF OnItsWay

LEMMA WayPrimed ==
    ASSUME NEW e, NEW z, op'[e] = z, OnItsWay(z)'
    PROVE  OnItsWay(op[e])'
  BY DEF OnItsWay, Opened, Holds, Isfile

(* A system call.                                                            *)
LEMMA CallKeeps ==
    ASSUME FilesInv, NEW o \in Pending, SystemCall(o)
    PROVE  FilesInv'
  <1>1. PICK y : Moved(o, op[o], y) /\ (op[o].alone => OnItsWay(y)')
    BY CallMoves DEF Stepped
  <1>2. UNCHANGED <<begun, fds, next_fd, known>>
    BY DEF SystemCall
  <1>3. /\ FilesTypes' /\ Pending' = Pending
        /\ op'[o] = y /\ (\A e \in Pending : e # o => op'[e] = op[e])
        /\ \A e \in Pending' : Planned(op'[e])
    BY <1>1, <1>2, MovedTypes
  <1>4. OneName' /\ Unmade' /\ HandlesFollowed' /\ Groups' /\ AloneIsApart' /\ KnownHolds'
    BY <1>1, <1>2, MovedOneName, MovedUnmade, MovedFollowed, MovedApart, MovedKnown
  <1>5. ASSUME NEW e \in Pending', op'[e].alone
        PROVE  OnItsWay(op[e])'
    <2>1. CASE e = o
      <3>1. op[o].alone
        BY <1>1, <1>3, <1>5, <2>1 DEF Moved, Same
      <3>2. OnItsWay(y)' /\ op'[e] = y
        BY <1>1, <1>3, <2>1, <3>1
      <3> QED
        BY <3>2, WayPrimed
    <2>2. CASE e # o
      <3>1. PICK z : z = op[e]
        OBVIOUS
      <3>2. op'[e] = z /\ z.alone /\ e \in Pending
        BY <1>3, <1>5, <2>2, <3>1
      <3>3. OnItsWay(z)'
        BY <1>1, <1>2, <2>2, <3>1, <3>2, MovedOthers
      <3> QED
        BY <3>2, <3>3, WayPrimed
    <2> QED
      BY <2>1, <2>2
  <1> QED
    BY <1>3, <1>4, <1>5 DEF FilesInv

-----------------------------------------------------------------------------
(* An operation that begins.                                                *)

LEMMA PlanIs ==
    ASSUME NEW kind \in Kind, NEW p \in Path, NEW q \in Path, NEW T \in SUBSET Path,
           p \in T, kind \in Mutating => Touched(kind, p, q) \subseteq T
    PROVE  /\ kind = "readFile" => Plan(kind, p, q) = <<<<"openRead", p>>, <<"read", p>>>>
           /\ kind = "writeFile" => Plan(kind, p, q) = <<<<"openWrite", p>>, <<"write", p>>>>
           /\ kind = "appendFile" => Plan(kind, p, q) = <<<<"openAppend", p>>, <<"append", p>>>>
           /\ kind = "copyFile" => Plan(kind, p, q) = <<<<"openRead", p>>, <<"openTarget", q>>, <<"copy", q>>>>
           /\ kind \notin Simple \cup {"copyFile"} =>
                 \/ \E look \in Look : Plan(kind, p, q) = <<<<look, p>>>>
                 \/ Plan(kind, p, q) \in Seq(Calls(T))
  <1>1. /\ kind = "readFile" => Plan(kind, p, q) = <<<<"openRead", p>>, <<"read", p>>>>
        /\ kind = "writeFile" => Plan(kind, p, q) = <<<<"openWrite", p>>, <<"write", p>>>>
        /\ kind = "appendFile" => Plan(kind, p, q) = <<<<"openAppend", p>>, <<"append", p>>>>
        /\ kind = "copyFile" => Plan(kind, p, q) = <<<<"openRead", p>>, <<"openTarget", q>>, <<"copy", q>>>>
    BY DEF Plan
  <1>2. ASSUME kind \in Mutating
        PROVE  p \in T /\ q \in T /\ (kind = "mkdirp" => Above[p] \subseteq T)
    BY <1>2, UnderIs DEF Touched
  <1>3. CASE kind = "unlink"
    <2>1. Plan(kind, p, q) = <<<<"unlink", p>>>>
      BY <1>3 DEF Plan
    <2>2. <<"unlink", p>> \in Calls(T)
      BY CallsAre DEF Plain, Nested
    <2>3. <<<<"unlink", p>>>> \in Seq(Calls(T))
      BY <2>2
    <2> QED
      BY <1>1, <1>3, <2>1, <2>3
  <1>4. CASE kind = "rename"
    <2>1. Plan(kind, p, q) = <<<<"rename", q>>>>
      BY <1>4 DEF Plan
    <2>2. <<"rename", q>> \in Calls(T)
      BY <1>2, <1>4, CallsAre DEF Plain, Nested, Mutating
    <2>3. <<<<"rename", q>>>> \in Seq(Calls(T))
      BY <2>2
    <2> QED
      BY <1>1, <1>4, <2>1, <2>3
  <1>5. CASE kind = "mkdir"
    <2>1. Plan(kind, p, q) = <<<<"mkdir", p>>>>
      BY <1>5 DEF Plan
    <2>2. <<"mkdir", p>> \in Calls(T)
      BY CallsAre DEF Plain, Nested
    <2>3. <<<<"mkdir", p>>>> \in Seq(Calls(T))
      BY <2>2
    <2> QED
      BY <1>1, <1>5, <2>1, <2>3
  <1>6. CASE kind = "mkdirp"
    <2>1. Plan(kind, p, q) = <<<<"mkdirAll", p>>>>
      BY <1>6 DEF Plan
    <2>2. <<"mkdirAll", p>> \in Calls(T)
      BY <1>2, <1>6, CallsAre DEF Mutating
    <2>3. <<<<"mkdirAll", p>>>> \in Seq(Calls(T))
      BY <2>2
    <2> QED
      BY <1>1, <1>6, <2>1, <2>3
  <1>7. CASE kind = "rm"
    <2>1. Plan(kind, p, q) = <<<<"lookRm", p>>>>
      BY <1>7 DEF Plan
    <2> QED
      BY <1>1, <1>7, <2>1 DEF Look
  <1>8. CASE kind = "rmrf"
    <2>1. Plan(kind, p, q) = <<<<"lookRmrf", p>>>>
      BY <1>8 DEF Plan
    <2> QED
      BY <1>1, <1>8, <2>1 DEF Look
  <1> QED
    BY <1>1, <1>3, <1>4, <1>5, <1>6, <1>7, <1>8 DEF Kind, Mutating, Simple

(* The paths of the operations that share one with it, and its own.          *)
LEMMA TogetherIs ==
    ASSUME FilesInv, NEW P \in SUBSET Path
    PROVE  /\ P \subseteq Together(P) /\ Together(P) \in SUBSET Path
           /\ \A e \in Pending : Writer(op[e]) =>
                 op[e].touched \cap Together(P) = {} \/ op[e].touched \subseteq Together(P)
           /\ P = {} => Together(P) = {}
  <1> DEFINE U == {op[o].touched : o \in {e \in Pending : op[e].kind \in Mutating /\ Shares(e, P)}}
  <1>1. Together(P) = P \cup UNION U
    BY DEF Together
  <1>2. \A e \in Pending : op[e].touched \in SUBSET Path
    BY Begun
  <1>3. ASSUME NEW e \in Pending, Writer(op[e]), op[e].touched \cap Together(P) # {}
        PROVE  op[e].touched \subseteq Together(P)
    <2>1. CASE Shares(e, P)
      <3>1. op[e].touched \in U
        BY <1>3, <2>1 DEF Writer
      <3> QED
        BY <1>1, <3>1
    <2>2. CASE ~Shares(e, P)
      <3>1. PICK c \in op[e].touched : c \in UNION U
        BY <1>1, <1>3, <2>2 DEF Shares
      <3>2. PICK f \in Pending : op[f].kind \in Mutating /\ Shares(f, P) /\ c \in op[f].touched
        BY <3>1
      <3>3. op[e].touched = op[f].touched
        BY <1>3, <3>1, <3>2 DEF FilesInv, Groups, Apart, Writer
      <3>4. op[f].touched \in U
        BY <3>2
      <3> QED
        BY <1>1, <3>3, <3>4
    <2> QED
      BY <2>1, <2>2
  <1>4. P = {} => U = {}
    BY DEF Shares
  <1> QED
    BY <1>1, <1>2, <1>3, <1>4

(* What becomes of the operations under way.                                *)
LEMMA DisturbedIs ==
    ASSUME FilesInv, NEW T \in SUBSET Path, NEW e \in Pending, NEW x, x = op[e], NEW y, y = Disturbed(T)[e]
    PROVE  /\ y \in Operation /\ Planned(y)
           /\ y.kind = x.kind /\ y.todo = x.todo /\ y.handle = x.handle
           /\ x.touched \subseteq y.touched /\ y.touched \subseteq x.touched \cup T
           /\ y.touched = IF x.touched \cap T = {} THEN x.touched ELSE x.touched \cup T
           /\ y.alone => y = x /\ x.touched \cap T = {}
  <1>1. x \in Operation /\ Planned(x) /\ x.touched \in SUBSET Path
    BY Begun
  <1>2. CASE x.touched \cap T = {}
    <2>1. y = x
      BY <1>2 DEF Disturbed, Shares
    <2> QED
      BY <1>1, <1>2, <2>1
  <1>3. CASE x.touched \cap T # {}
    <2> DEFINE more == x.touched \cup T
    <2>0. more \in SUBSET Path
      BY <1>1
    <2>1. y = [x EXCEPT !.alone = FALSE, !.touched = more]
      BY <1>3 DEF Disturbed, Shares
    <2> HIDE DEF more
    <2>a. /\ y \in Operation /\ ~y.alone /\ y.touched = more
          /\ y.kind = x.kind /\ y.todo = x.todo /\ y.handle = x.handle /\ y.path = x.path /\ y.source = x.source
          /\ y.posted = x.posted
      BY <1>1, <2>0, <2>1 DEF Operation
    <2>2. /\ y \in Operation /\ ~y.alone /\ y.touched = x.touched \cup T
          /\ y.kind = x.kind /\ y.todo = x.todo /\ y.handle = x.handle /\ y.path = x.path /\ y.source = x.source
          /\ y.posted = x.posted
      BY <2>a DEF more
    <2>3. ASSUME NEW q \in x.touched
          PROVE  Left(x, q) \subseteq Left(y, q)
      <3>1. Calls(x.touched) \subseteq Calls(y.touched)
        BY <2>2, CallsAre DEF Operation
      <3>2. Seq(Calls(x.touched)) \subseteq Seq(Calls(y.touched))
        BY <3>1
      <3> QED
        BY <2>2, <3>2 DEF Left
    <2>4. Planned(y)
      <3>1. PICK q \in x.touched : x.todo \in Left(x, q)
        BY <1>1 DEF Planned
      <3>2. q \in y.touched /\ y.todo \in Left(y, q)
        BY <2>2, <2>3, <3>1
      <3> QED
        BY <1>1, <2>2, <3>2 DEF Planned, Writer
    <2> QED
      BY <1>3, <2>2, <2>4
  <1> QED
    BY <1>2, <1>3

LEMMA DisturbedAre ==
    ASSUME FilesInv, NEW T \in SUBSET Path, \A e \in Pending : op'[e] = Disturbed(T)[e]
    PROVE  \A e \in Pending :
              /\ op'[e] \in Operation /\ Planned(op'[e])
              /\ op'[e].kind = op[e].kind /\ op'[e].todo = op[e].todo /\ op'[e].handle = op[e].handle
              /\ op[e].touched \subseteq op'[e].touched /\ op'[e].touched \subseteq op[e].touched \cup T
              /\ op'[e].touched = IF op[e].touched \cap T = {} THEN op[e].touched ELSE op[e].touched \cup T
              /\ op'[e].alone => op'[e] = op[e] /\ op[e].touched \cap T = {}
  <1> TAKE e \in Pending
  <1>1. PICK x, y : x = op[e] /\ y = Disturbed(T)[e]
    OBVIOUS
  <1>2. op'[e] = y
    BY <1>1
  <1> QED
    BY <1>1, <1>2, DisturbedIs

(* The new operation, x, with number o, on the paths T.                      *)
BeginsAs(o, T, kind, p, q, x) ==
    /\ o \in OpId /\ o \notin Pending /\ begun' = o /\ Pending' = Pending \cup {o}
    /\ op' \in [Pending' -> Operation]
    /\ op'[o] = x /\ \A e \in Pending : op'[e] = Disturbed(T)[e]
    /\ T \in SUBSET Path /\ (kind \notin Mutating => T = {})
    /\ x \in Operation /\ Planned(x) /\ x.kind = kind /\ x.path = p /\ x.handle = 0
    /\ x.todo = Plan(kind, p, q) /\ (Writer(x) => x.touched = T)
    /\ x.before = IF kind \in {"readFile", "appendFile"} THEN known[p] ELSE Unknown
    /\ x.alone => \A e \in Pending : Writer(op[e]) => Apart(op[e], x)

LEMMA BeginIs ==
    ASSUME FilesInv, NEW kind \in Kind, NEW by \in {"pool", "js"}, NEW p \in Path, NEW q \in Path,
           NEW as \in {"data", "digits"}, Begin(kind, by, p, q, as), NEW T, T = Together(Touched(kind, p, q)),
           NEW o, o = begun + 1
    PROVE  \E x : BeginsAs(o, T, kind, p, q, x)
  <1> DEFINE W == IF kind = "readFile" THEN {p} ELSE T
             alone == \A e \in Pending : op[e].kind \in Mutating => ~Shares(e, W)
             before == IF kind \in {"readFile", "appendFile"} THEN known[p] ELSE Unknown
             x == [kind |-> kind, by |-> by, path |-> p, todo |-> Plan(kind, p, q),
                   handle |-> 0, source |-> 0, piece |-> [of |-> o, as |-> as],
                   result |-> Absent, posted |-> FALSE, touched |-> W, before |-> before, alone |-> alone]
  <1>1. FilesTypes
    BY DEF FilesInv
  <1>2. o \in OpId /\ o \notin Pending /\ begun' = o
    BY <1>1, FilesAssumption DEF Begin, FilesTypes, Pending, OpId
  <1>3. Touched(kind, p, q) \in SUBSET Path /\ (kind \notin Mutating => Touched(kind, p, q) = {})
    BY UnderIs DEF Touched
  <1>4. T \in SUBSET Path /\ Touched(kind, p, q) \subseteq T /\ (kind \notin Mutating => T = {})
    BY <1>3, TogetherIs
  <1>5. kind \in Mutating => p \in T /\ q \in T /\ Under[p] \subseteq T
    BY <1>4, UnderIs DEF Touched
  <1>6. W \in SUBSET Path /\ p \in W /\ (kind \in Mutating => W = T) /\ (kind \notin Mutating => kind = "readFile")
    BY <1>4, <1>5 DEF Kind, Mutating
  <1>7. op' = [e \in Pending \cup {o} |-> IF e # o THEN Disturbed(T)[e] ELSE x]
    BY DEF Begin
  <1> HIDE DEF x, W
  <1>8. Pending' = Pending \cup {o} /\ op'[o] = x /\ \A e \in Pending : op'[e] = Disturbed(T)[e]
    BY <1>2, <1>7 DEF Pending
  <1>9. op' = [e \in Pending' |-> op'[e]]
    BY <1>7 DEF Pending
  <1>10. kind \in Mutating => Touched(kind, p, q) \subseteq W
    BY <1>4, <1>6
  <1> DEFINE plan == Plan(kind, p, q)
  <1>11. /\ kind = "readFile" => plan = <<<<"openRead", p>>, <<"read", p>>>>
         /\ kind = "writeFile" => plan = <<<<"openWrite", p>>, <<"write", p>>>>
         /\ kind = "appendFile" => plan = <<<<"openAppend", p>>, <<"append", p>>>>
         /\ kind = "copyFile" => plan = <<<<"openRead", p>>, <<"openTarget", q>>, <<"copy", q>>>>
         /\ kind \notin Simple \cup {"copyFile"} =>
                (\E look \in Look : plan = <<<<look, p>>>>) \/ plan \in Seq(Calls(W))
    BY <1>6, <1>10, PlanIs
  <1> HIDE DEF plan
  <1>12. plan \in Seq(FileCall)
    <2>1. Calls(W) \subseteq FileCall
      BY <1>6, CallsAre
    <2>2. plan \in Seq(Calls(W)) => plan \in Seq(FileCall)
      BY <2>1
    <2>3. \A look \in Look : <<<<look, p>>>> \in Seq(FileCall)
      BY DEF FileCall
    <2>4. /\ <<<<"openRead", p>>, <<"read", p>>>> \in Seq(FileCall)
          /\ <<<<"openWrite", p>>, <<"write", p>>>> \in Seq(FileCall)
          /\ <<<<"openAppend", p>>, <<"append", p>>>> \in Seq(FileCall)
          /\ <<<<"openRead", p>>, <<"openTarget", q>>, <<"copy", q>>>> \in Seq(FileCall)
      BY DEF FileCall, Opening
    <2> QED
      BY <1>11, <2>2, <2>3, <2>4 DEF Simple
  <1>13. before \in Data /\ alone \in BOOLEAN /\ Absent \in Data
    <2>1. known \in [Path -> Data] /\ Unknown \in Data /\ Absent \in Data
      BY <1>1 DEF FilesTypes, Data
    <2> QED
      BY <2>1
  <1>14. x = [kind |-> kind, by |-> by, path |-> p, todo |-> plan,
              handle |-> 0, source |-> 0, piece |-> [of |-> o, as |-> as],
              result |-> Absent, posted |-> FALSE, touched |-> W, before |-> before, alone |-> alone]
    BY DEF x, plan
  <1> HIDE DEF before, alone
  <1>15. /\ x \in Operation /\ x.kind = kind /\ x.path = p /\ x.handle = 0 /\ x.todo = plan /\ x.touched = W
         /\ x.before = before /\ x.alone = alone /\ ~x.posted
    BY <1>2, <1>6, <1>12, <1>13, <1>14 DEF Operation
  <1>16. Planned(x)
    <2>1. x.path \in x.touched /\ (Writer(x) => Under[x.path] \subseteq x.touched)
      BY <1>5, <1>6, <1>15 DEF Writer
    <2>2. /\ kind = "readFile" => Len(plan) # 1
          /\ kind = "copyFile" => Len(plan) \notin 1 .. 2
      <3>1. /\ kind = "readFile" => Len(plan) = 2
            /\ kind = "copyFile" => Len(plan) = 3
        BY <1>11, Lists
      <3> QED
        BY <3>1
    <2>3. CASE kind = "copyFile"
      <3>1. q \in x.touched
        BY <1>5, <1>6, <1>15, <2>3 DEF Mutating
      <3>2. x.todo \in Left(x, q)
        BY <1>11, <1>15, <2>3 DEF Left
      <3> QED
        BY <1>15, <2>1, <2>2, <2>3, <3>1, <3>2 DEF Planned
    <2>4. CASE kind # "copyFile"
      <3>1. x.todo \in Left(x, p)
        <4>1. CASE kind \in Simple
          BY <1>11, <1>15, <4>1 DEF Left, Simple
        <4>2. CASE kind \notin Simple
          BY <1>11, <1>15, <2>4, <4>2 DEF Left, Simple
        <4> QED
          BY <4>1, <4>2
      <3> QED
        BY <1>15, <2>1, <2>2, <2>4, <3>1 DEF Planned
    <2> QED
      BY <2>3, <2>4
  <1>17. op' \in [Pending' -> Operation]
    <2>1. \A e \in Pending : op'[e] \in Operation
      BY <1>4, <1>8, DisturbedAre
    <2> QED
      BY <1>8, <1>9, <1>15, <2>1
  <1>18. x.alone => \A e \in Pending : Writer(op[e]) => Apart(op[e], x)
    BY <1>15 DEF alone, Writer, Apart, Shares
  <1>19. Writer(x) => x.touched = T
    BY <1>6, <1>15 DEF Writer
  <1> QED
    BY <1>2, <1>4, <1>8, <1>15, <1>16, <1>17, <1>18, <1>19 DEF BeginsAs, plan, before

LEMMA BeginsKeep ==
    ASSUME FilesInv, NEW kind \in Kind, NEW by \in {"pool", "js"}, NEW p \in Path, NEW q \in Path,
           NEW as \in {"data", "digits"}, Begin(kind, by, p, q, as), UNCHANGED <<tree, content, fds, next_fd>>
    PROVE  FilesInv'
  <1>1. PICK T, o : T = Together(Touched(kind, p, q)) /\ o = begun + 1
    OBVIOUS
  <1>a. PICK x : BeginsAs(o, T, kind, p, q, x)
    BY <1>1, BeginIs
  <1>2. /\ o \in OpId /\ o \notin Pending /\ begun' = o /\ Pending' = Pending \cup {o}
        /\ op' \in [Pending' -> Operation]
        /\ op'[o] = x /\ \A e \in Pending : op'[e] = Disturbed(T)[e]
        /\ T \in SUBSET Path /\ (kind \notin Mutating => T = {})
        /\ x \in Operation /\ Planned(x) /\ x.kind = kind /\ x.path = p /\ x.handle = 0
        /\ x.todo = Plan(kind, p, q) /\ (Writer(x) => x.touched = T)
        /\ x.before = IF kind \in {"readFile", "appendFile"} THEN known[p] ELSE Unknown
        /\ x.alone => \A e \in Pending : Writer(op[e]) => Apart(op[e], x)
    BY <1>a DEF BeginsAs
  <1>3. /\ FilesTypes /\ OneName /\ Unmade /\ HandlesFollowed /\ Groups /\ AloneIsApart /\ KnownHolds
        /\ \A e \in Pending : op[e].alone => OnItsWay(op[e])
    BY DEF FilesInv
  <1>4. known' = Forget(T)
    BY <1>1 DEF Begin
  <1>b. T \in SUBSET Path /\ \A e \in Pending : op'[e] = Disturbed(T)[e]
    BY <1>2
  <1>5. \A e \in Pending :
           /\ Planned(op'[e]) /\ op'[e].kind = op[e].kind /\ op'[e].todo = op[e].todo /\ op'[e].handle = op[e].handle
           /\ op[e].touched \subseteq op'[e].touched /\ op'[e].touched \subseteq op[e].touched \cup T
           /\ op'[e].touched = IF op[e].touched \cap T = {} THEN op[e].touched ELSE op[e].touched \cup T
           /\ op'[e].alone => op'[e] = op[e] /\ op[e].touched \cap T = {}
    BY <1>b, DisturbedAre
  <1>6. \A e \in Pending : Writer(op[e]) => op'[e].touched = T \/ (op[e].touched \cap T = {} /\ op'[e].touched = op[e].touched)
    <2>0. Touched(kind, p, q) \in SUBSET Path
      BY UnderIs DEF Touched
    <2>2. \A e \in Pending : Writer(op[e]) => op[e].touched \cap T = {} \/ op[e].touched \subseteq T
      BY <1>1, <2>0, TogetherIs
    <2>3. \A P \in SUBSET Path : P \subseteq T => P \cup T = T
      OBVIOUS
    <2> TAKE e \in Pending
    <2> HAVE Writer(op[e])
    <2>4. op[e].touched \in SUBSET Path
      BY Begun
    <2>5. CASE op[e].touched \cap T = {}
      BY <1>5, <2>5
    <2>6. CASE op[e].touched \cap T # {}
      <3>1. op'[e].touched = op[e].touched \cup T
        BY <1>5, <2>6
      <3> QED
        BY <2>2, <2>3, <2>4, <2>6, <3>1
    <2> QED
      BY <2>5, <2>6
  <1>7. FilesTypes'
    <2>1. known' \in [Path -> Data]
      BY <1>3, <1>4 DEF FilesTypes, Forget, Data
    <2>2. begun' \in 0 .. MaxOps /\ DOMAIN op' \subseteq 1 .. begun'
      BY <1>1, <1>2, <1>3, FilesAssumption DEF FilesTypes, Pending, OpId
    <2> QED
      BY <1>2, <1>3, <2>1, <2>2 DEF FilesTypes, Pending
  <1>8. \A e \in Pending' : Planned(op'[e])
    BY <1>2, <1>5
  <1>9. OneName'
    BY <1>3 DEF OneName, Isfile
  <1>10. Unmade'
    <2>1. ASSUME NEW i, Fresh(i)'
          PROVE  Fresh(i)
      <3>1. \A e \in Pending : WillOpen(op'[e]) <=> WillOpen(op[e])
        BY <1>5 DEF WillOpen
      <3>2. begun \in Nat /\ o = begun + 1 /\ begun' = o
        BY <1>1, <1>2, <1>3, FilesAssumption DEF FilesTypes
      <3> QED
        BY <1>2, <2>1, <3>1, <3>2 DEF Fresh, CreatedBy, CreatedByFd, OpId
    <2>2. x.handle \notin Inode
      BY <1>2, Numbers
    <2>3. \A e \in Pending' : op'[e].handle = x.handle \/ (e \in Pending /\ op'[e].handle = op[e].handle)
      BY <1>2, <1>5
    <2> QED
      BY <1>3, <2>1, <2>2, <2>3 DEF Unmade
  <1>11. HandlesFollowed'
    <2>1. \A r \in Path : tree[r] # 0
      BY <1>3, Numbers DEF FilesTypes
    <2> SUFFICES ASSUME NEW e \in Pending', Writer(op'[e]), NEW r \in Path, tree[r] = op'[e].handle
                 PROVE  r \in op'[e].touched
      BY DEF HandlesFollowed
    <2>2. e # o
      BY <1>2, <2>1
    <2>3. e \in Pending /\ Writer(op[e]) /\ op'[e].handle = op[e].handle /\ op[e].touched \subseteq op'[e].touched
      BY <1>2, <1>5, <2>2 DEF Writer
    <2> QED
      BY <1>3, <2>3 DEF HandlesFollowed
  <1>12. \A e \in Pending : Writer(op'[e]) => Writer(op[e])
    BY <1>5 DEF Writer
  <1>13. Groups'
    <2> SUFFICES ASSUME NEW e \in Pending', NEW f \in Pending', Writer(op'[e]), Writer(op'[f])
                 PROVE  Apart(op'[e], op'[f]) \/ op'[e].touched = op'[f].touched
      BY DEF Groups
    <2>1. \A d \in Pending' : Writer(op'[d]) =>
             op'[d].touched = T \/ (d \in Pending /\ Writer(op[d]) /\ op'[d].touched \cap T = {} /\ op'[d].touched = op[d].touched)
      BY <1>2, <1>6, <1>12
    <2> QED
      BY <1>3, <2>1 DEF Groups, Apart
  <1>14. AloneIsApart'
    <2> SUFFICES ASSUME NEW e \in Pending', NEW f \in Pending', op'[e].alone, Writer(op'[f]), f # e
                 PROVE  Apart(op'[e], op'[f])
      BY DEF AloneIsApart
    <2>1. CASE e = o
      <3>1. f \in Pending /\ Writer(op[f]) /\ Apart(op[f], x)
        BY <1>2, <1>12, <2>1
      <3>2. op'[f].touched = op[f].touched
        <4>1. T = {} \/ x.touched = T
          BY <1>2 DEF Writer
        <4>2. op[f].touched \cap T = {}
          BY <3>1, <4>1 DEF Apart
        <4> QED
          BY <1>5, <3>1, <4>2
      <3> QED
        BY <1>2, <2>1, <3>1, <3>2 DEF Apart
    <2>2. CASE e # o
      <3>1. e \in Pending /\ op'[e] = op[e] /\ op[e].touched \cap T = {}
        BY <1>2, <1>5, <2>2
      <3>2. CASE f = o
        BY <1>2, <3>1, <3>2 DEF Apart
      <3>3. CASE f # o
        <4>1. f \in Pending /\ Writer(op[f]) /\ Apart(op[e], op[f])
          BY <1>2, <1>3, <1>12, <3>1, <3>3 DEF AloneIsApart
        <4> QED
          BY <1>5, <3>1, <4>1 DEF Apart
      <3> QED
        BY <3>2, <3>3
    <2> QED
      BY <2>1, <2>2
  <1>15. KnownHolds'
    <2> SUFFICES ASSUME NEW r \in Path, known'[r] # Unknown
                 PROVE  Holds(r, known[r])' /\ \A e \in Pending' : Writer(op'[e]) => r \notin op'[e].touched
      BY DEF KnownHolds
    <2>1. r \notin T /\ known'[r] = known[r]
      BY <1>4 DEF Forget
    <2>2. Holds(r, known[r]) /\ \A e \in Pending : Writer(op[e]) => r \notin op[e].touched
      BY <1>3, <2>1 DEF KnownHolds
    <2>3. Holds(r, known[r])'
      BY <2>1, <2>2 DEF Holds, Isfile
    <2>4. ASSUME NEW e \in Pending', Writer(op'[e])
          PROVE  r \notin op'[e].touched
      <3>1. CASE e = o
        BY <1>2, <2>1, <2>4, <3>1
      <3>2. CASE e # o
        <4>1. e \in Pending /\ Writer(op[e]) /\ op'[e].touched \subseteq op[e].touched \cup T
          BY <1>2, <1>5, <1>12, <2>4, <3>2
        <4> QED
          BY <2>1, <2>2, <4>1
      <3> QED
        BY <3>1, <3>2
    <2> QED
      BY <2>3, <2>4
  <1>16. ASSUME NEW e \in Pending', op'[e].alone
         PROVE  OnItsWay(op[e])'
    <2>1. CASE e = o
      <3>1. kind \in {"readFile", "appendFile"} /\ x.before # Unknown => Holds(x.path, x.before)
        BY <1>2, <1>3 DEF KnownHolds
      <3>2. kind \in Simple => Len(x.todo) = 2 /\ x.todo # <<>>
        <4>2. /\ kind = "readFile" => x.todo = <<<<"openRead", p>>, <<"read", p>>>>
              /\ kind = "writeFile" => x.todo = <<<<"openWrite", p>>, <<"write", p>>>>
              /\ kind = "appendFile" => x.todo = <<<<"openAppend", p>>, <<"append", p>>>>
          BY <1>2 DEF Plan
        <4> QED
          BY <4>2, Lists DEF Simple
      <3>3. OnItsWay(x)'
        <4>1. Holds(x.path, x.before) => Holds(x.path, x.before)'
          BY DEF Holds, Isfile
        <4>2. x.kind \in Simple => Len(x.todo) # 1 /\ x.todo # <<>>
          BY <1>2, <3>2
        <4> QED
          BY <1>2, <3>1, <4>1, <4>2 DEF OnItsWay, Simple
      <3> QED
        BY <1>2, <2>1, <3>3, WayPrimed
    <2>2. CASE e # o
      <3>1. PICK z : z = op[e]
        OBVIOUS
      <3>2. op'[e] = z /\ OnItsWay(z)
        BY <1>2, <1>3, <1>5, <1>16, <2>2, <3>1
      <3>3. OnItsWay(z)'
        BY <3>2 DEF OnItsWay, Opened, Holds, Isfile
      <3> QED
        BY <3>2, <3>3, WayPrimed
    <2> QED
      BY <2>1, <2>2
  <1> QED
    BY <1>7, <1>8, <1>9, <1>10, <1>11, <1>13, <1>14, <1>15, <1>16 DEF FilesInv

-----------------------------------------------------------------------------
(* Operations that end, and calls on descriptors.                           *)

(* Fewer operations are under way, or fewer of them are alone.              *)
Lessened(e) ==
    /\ e \in Pending /\ op'[e] \in Operation /\ Planned(op'[e])
    /\ op'[e].kind = op[e].kind /\ op'[e].todo = op[e].todo /\ op'[e].handle = op[e].handle
    /\ op'[e].touched = op[e].touched
    /\ op'[e].alone => op[e].alone /\ OnItsWay(op[e])'

LEMMA LessKeeps ==
    ASSUME FilesInv, op' = [e \in Pending' |-> op'[e]], \A e \in Pending' : Lessened(e),
           UNCHANGED <<tree, begun, next_fd>>, content' \in [Inode -> Pieces], fds' \in [Fd -> Descriptor],
           known' \in [Path -> Data], KnownHolds'
    PROVE  FilesInv'
  <1>1. FilesTypes /\ OneName /\ Unmade /\ HandlesFollowed /\ Groups /\ AloneIsApart
    BY DEF FilesInv
  <1>2. \A e \in Pending' :
           /\ e \in Pending /\ op'[e] \in Operation /\ Planned(op'[e])
           /\ op'[e].kind = op[e].kind /\ op'[e].todo = op[e].todo /\ op'[e].handle = op[e].handle
           /\ op'[e].touched = op[e].touched
           /\ op'[e].alone => op[e].alone /\ OnItsWay(op[e])'
    BY DEF Lessened
  <1>3. FilesTypes'
    <2>1. Pending' \subseteq 1 .. begun'
      BY <1>1, <1>2 DEF FilesTypes, Pending
    <2>2. op' \in [Pending' -> Operation]
      BY <1>2
    <2> QED
      BY <1>1, <2>1, <2>2 DEF FilesTypes, Pending
  <1>4. OneName'
    BY <1>1 DEF OneName, Isfile
  <1>5. Unmade'
    <2>1. \A e \in Pending' : WillOpen(op'[e]) => WillOpen(op[e])
      BY <1>2 DEF WillOpen
    <2>2. \A i : Fresh(i)' => Fresh(i)
      BY <1>2, <2>1 DEF Fresh, CreatedBy, CreatedByFd
    <2> QED
      BY <1>1, <1>2, <2>2 DEF Unmade
  <1>6. HandlesFollowed'
    BY <1>1, <1>2 DEF HandlesFollowed, Writer
  <1>7. Groups'
    BY <1>1, <1>2 DEF Groups, Apart, Writer
  <1>8. AloneIsApart'
    BY <1>1, <1>2 DEF AloneIsApart, Apart, Writer
  <1> QED
    BY <1>2, <1>3, <1>4, <1>5, <1>6, <1>7, <1>8 DEF FilesInv

LEMMA WayStays ==
    ASSUME NEW e, OnItsWay(op[e]), UNCHANGED <<tree, content>>, NEW y, op'[e] = y,
           y.kind = op[e].kind, y.todo = op[e].todo, y.handle = op[e].handle, y.path = op[e].path,
           y.result = op[e].result, y.before = op[e].before, y.piece = op[e].piece
    PROVE  OnItsWay(op[e])'
  <1>1. OnItsWay(y)
    BY DEF OnItsWay, Opened
  <1>2. OnItsWay(y)'
    BY <1>1 DEF OnItsWay, Opened, Holds, Isfile
  <1> QED
    BY <1>2, WayPrimed

LEMMA PostKeeps ==
    ASSUME FilesInv, NEW o \in Pending, Post(o)
    PROVE  FilesInv'
  <1>1. FilesTypes /\ op \in [Pending -> Operation]
    BY DEF FilesInv, FilesTypes, Pending
  <1>2. op' = [op EXCEPT ![o].posted = TRUE] /\ UNCHANGED <<tree, content, begun, fds, next_fd, known>> /\ op[o].todo = <<>>
    BY DEF Post, Finished
  <1>3. Pending' = Pending /\ op' = [e \in Pending' |-> op'[e]]
    BY <1>1, <1>2 DEF Pending
  <1>4. ASSUME NEW e \in Pending
        PROVE  Lessened(e)
    <2>1. op[e] \in Operation /\ Planned(op[e]) /\ (op[e].alone => OnItsWay(op[e]))
      BY Begun DEF FilesInv
    <2>2. PICK y : y = IF e = o THEN [op[o] EXCEPT !.posted = TRUE] ELSE op[e]
      OBVIOUS
    <2>3. op'[e] = y
      BY <1>1, <1>2, <2>2
    <2>4. /\ y \in Operation /\ y.kind = op[e].kind /\ y.todo = op[e].todo /\ y.handle = op[e].handle
          /\ y.path = op[e].path /\ y.result = op[e].result /\ y.before = op[e].before /\ y.piece = op[e].piece
          /\ y.touched = op[e].touched /\ y.alone = op[e].alone /\ y.source = op[e].source
          /\ y.posted => y = op[e] \/ y.todo = <<>>
      BY <1>2, <2>1, <2>2 DEF Operation
    <2>5. Planned(y)
      <3>1. \A q : Left(y, q) = Left(op[e], q)
        BY <2>4 DEF Left
      <3> QED
        BY <2>1, <2>4, <3>1 DEF Planned, Writer
    <2>6. OnItsWay(op[e]) => OnItsWay(op[e])'
      BY <1>2, <2>3, <2>4, WayStays
    <2> QED
      BY <2>1, <2>3, <2>4, <2>5, <2>6 DEF Lessened
  <1>5. KnownHolds'
    <2>1. \A e \in Pending : op'[e].touched = op[e].touched /\ op'[e].kind = op[e].kind
      BY <1>4 DEF Lessened
    <2> QED
      BY <1>2, <1>3, <2>1 DEF FilesInv, KnownHolds, Holds, Isfile, Writer
  <1> QED
    BY <1>1, <1>2, <1>3, <1>4, <1>5, LessKeeps DEF FilesTypes

(* What the script learns from an operation that is over is there.          *)
LEMMA LearnIs ==
    ASSUME FilesInv, NEW o \in Pending, NEW x, x = op[o], x.todo = <<>>, NEW learnt, learnt = Learn(o)
    PROVE  /\ learnt \in [Path -> Data]
           /\ \A p \in Path : learnt[p] # known[p] => p = x.path /\ x.alone /\ Holds(p, learnt[p])
  <1>1. FilesTypes /\ x \in Operation /\ x.path \in Path
    BY Begun
  <1>2. known \in [Path -> Data] /\ content \in [Inode -> Pieces]
    BY <1>1 DEF FilesTypes
  <1>3. CASE learnt = known
    BY <1>2, <1>3
  <1>4. ASSUME NEW data, learnt = [known EXCEPT ![x.path] = data], x.alone, Opened(x, data)
        PROVE  /\ learnt \in [Path -> Data]
               /\ \A p \in Path : learnt[p] # known[p] => p = x.path /\ x.alone /\ Holds(p, learnt[p])
    <2>1. Holds(x.path, data)
      BY <1>4 DEF Opened
    <2>2. data \in Data
      BY <1>2, <2>1 DEF Holds, Isfile, Data
    <2> QED
      BY <1>1, <1>2, <1>4, <2>1, <2>2
  <1>5. ASSUME x.alone, x.result # Failed, x.kind = "writeFile", learnt = [known EXCEPT ![x.path] = <<x.piece>>]
        PROVE  Opened(x, <<x.piece>>)
    BY <1>5 DEF FilesInv, OnItsWay
  <1>6. ASSUME x.alone, x.result # Failed, x.kind = "appendFile", x.before # Unknown
        PROVE  Opened(x, Append(x.before, x.piece))
    BY <1>6 DEF FilesInv, OnItsWay
  <1>7. \/ learnt = known
        \/ /\ x.alone /\ x.result # Failed /\ x.kind = "writeFile"
           /\ learnt = [known EXCEPT ![x.path] = <<x.piece>>]
        \/ /\ x.alone /\ x.result # Failed /\ x.kind = "appendFile" /\ x.before # Unknown
           /\ learnt = [known EXCEPT ![x.path] = Append(x.before, x.piece)]
    BY DEF Learn
  <1> QED
    BY <1>3, <1>4, <1>5, <1>6, <1>7

(* A promise that settles, or a call that returns.                          *)
LEMMA EndKeeps ==
    ASSUME FilesInv, NEW o \in Pending, op[o].todo = <<>>, op' = Without(o), known' = Learn(o),
           UNCHANGED <<tree, content, begun, fds, next_fd>>
    PROVE  FilesInv'
  <1>1. FilesTypes /\ op \in [Pending -> Operation]
    BY DEF FilesInv, FilesTypes, Pending
  <1>2. /\ Pending' = Pending \ {o} /\ op' = [e \in Pending' |-> op'[e]]
        /\ \A e \in Pending' : e \in Pending /\ e # o /\ op'[e] = op[e]
    BY DEF Without, Pending
  <1>3. ASSUME NEW e \in Pending'
        PROVE  Lessened(e)
    <2>1. e \in Pending /\ op'[e] = op[e]
      BY <1>2
    <2>2. op[e] \in Operation /\ Planned(op[e]) /\ (op[e].alone => OnItsWay(op[e]))
      BY <2>1, Begun DEF FilesInv
    <2>3. OnItsWay(op[e]) => OnItsWay(op[e])'
      BY <2>1, WayStays
    <2> QED
      BY <2>1, <2>2, <2>3 DEF Lessened
  <1>4. PICK x : x = op[o]
    OBVIOUS
  <1>5. /\ known' \in [Path -> Data]
        /\ \A p \in Path : known'[p] # known[p] => p = x.path /\ x.alone /\ Holds(p, known'[p])
    <2>1. PICK learnt : learnt = Learn(o)
      OBVIOUS
    <2>2. /\ learnt \in [Path -> Data]
          /\ \A p \in Path : learnt[p] # known[p] => p = x.path /\ x.alone /\ Holds(p, learnt[p])
      BY <1>4, <2>1, LearnIs
    <2> QED
      BY <2>1, <2>2
  <1>6. KnownHolds'
    <2> SUFFICES ASSUME NEW p \in Path, known'[p] # Unknown
                 PROVE  Holds(p, known[p])' /\ \A e \in Pending' : Writer(op'[e]) => p \notin op'[e].touched
      BY DEF KnownHolds
    <2>1. Holds(p, known'[p]) /\ \A e \in Pending' : Writer(op[e]) => p \notin op[e].touched
      <3>1. CASE known'[p] = known[p]
        BY <1>2, <3>1 DEF FilesInv, KnownHolds
      <3>2. CASE known'[p] # known[p]
        <4>1. p = x.path /\ x.alone /\ Holds(p, known'[p])
          BY <1>5, <3>2
        <4>2. p \in x.touched
          BY <1>4, <4>1, Begun DEF Planned
        <4>3. \A e \in Pending' : Writer(op[e]) => Apart(x, op[e])
          BY <1>2, <1>4, <4>1 DEF FilesInv, AloneIsApart
        <4> QED
          BY <4>1, <4>2, <4>3 DEF Apart
      <3> QED
        BY <3>1, <3>2
    <2> QED
      BY <1>2, <2>1 DEF Holds, Isfile
  <1> QED
    BY <1>1, <1>2, <1>3, <1>5, <1>6, LessKeeps DEF FilesTypes

(* Writing through a descriptor leaves nothing known, and nobody alone.      *)
LEMMA WriteFdKeeps ==
    ASSUME FilesInv, op' = AllDisturbed, known' = Forget(Path), UNCHANGED <<tree, begun, next_fd>>,
           content' \in [Inode -> Pieces], fds' \in [Fd -> Descriptor]
    PROVE  FilesInv'
  <1>1. Pending' = Pending /\ op' = [e \in Pending' |-> op'[e]]
    BY DEF AllDisturbed, Pending
  <1>2. ASSUME NEW e \in Pending
        PROVE  Lessened(e)
    <2>1. PICK x, y : x = op[e] /\ y = [x EXCEPT !.alone = FALSE]
      OBVIOUS
    <2>2. op'[e] = y
      BY <2>1 DEF AllDisturbed
    <2>3. x \in Operation /\ Planned(x)
      BY <2>1, Begun
    <2>4. /\ y \in Operation /\ y.kind = x.kind /\ y.todo = x.todo /\ y.handle = x.handle /\ y.path = x.path
          /\ y.touched = x.touched /\ y.source = x.source /\ y.posted = x.posted /\ ~y.alone
      BY <2>1, <2>3 DEF Operation
    <2>5. Planned(y)
      <3>1. \A q : Left(y, q) = Left(x, q)
        BY <2>4 DEF Left
      <3> QED
        BY <2>3, <2>4, <3>1 DEF Planned, Writer
    <2> QED
      BY <2>1, <2>2, <2>4, <2>5 DEF Lessened
  <1>3. KnownHolds' /\ known' \in [Path -> Data]
    BY DEF KnownHolds, Forget, Data
  <1> QED
    BY <1>1, <1>2, <1>3, LessKeeps

(* A call on a descriptor that changes none of this.                        *)
LEMMA FdKeeps ==
    ASSUME FilesInv, UNCHANGED <<tree, content, op, begun, next_fd, known>>, fds' \in [Fd -> Descriptor]
    PROVE  FilesInv'
  <1>1. FilesTypes /\ op \in [Pending -> Operation] /\ Pending' = Pending
    BY DEF FilesInv, FilesTypes, Pending
  <1>2. ASSUME NEW e \in Pending
        PROVE  Lessened(e)
    <2>1. op[e] \in Operation /\ Planned(op[e]) /\ (op[e].alone => OnItsWay(op[e])) /\ op'[e] = op[e]
      BY Begun DEF FilesInv
    <2>2. OnItsWay(op[e]) => OnItsWay(op[e])'
      BY <2>1, WayStays
    <2> QED
      BY <2>1, <2>2 DEF Lessened
  <1>3. KnownHolds'
    BY <1>1 DEF FilesInv, KnownHolds, Holds, Isfile
  <1> QED
    BY <1>1, <1>2, <1>3, LessKeeps DEF FilesTypes

LEMMA CloseFdKeeps ==
    ASSUME FilesInv, CloseSync
    PROVE  FilesInv'
  <1>1. fds' \in [Fd -> Descriptor]
    BY DEF FilesInv, FilesTypes, CloseSync, Descriptor
  <1> QED
    BY <1>1, FdKeeps DEF CloseSync

LEMMA ReadFdKeeps ==
    ASSUME FilesInv, ReadSync
    PROVE  FilesInv'
  <1>1. PICK fd \in Fd : \E at \in {fds[fd].cursor, 1} :
           fds[fd] # NoFd /\ fds' = [fds EXCEPT ![fd].cursor = IF at <= Len(content[fds[fd].inode]) THEN at + 1 ELSE at]
    BY DEF ReadSync
  <1>2. PICK d : d = fds[fd]
    OBVIOUS
  <1>3. d \in [inode : Inode, cursor : Nat, append : BOOLEAN, writes : BOOLEAN] /\ fds \in [Fd -> Descriptor]
    BY <1>1, <1>2 DEF FilesInv, FilesTypes, Descriptor
  <1>a. PICK at \in {d.cursor, 1} :
           fds' = [fds EXCEPT ![fd].cursor = IF at <= Len(content[d.inode]) THEN at + 1 ELSE at]
    BY <1>1, <1>2
  <1>b. PICK to : to = IF at <= Len(content[d.inode]) THEN at + 1 ELSE at
    OBVIOUS
  <1>4. to \in Nat /\ fds' = [fds EXCEPT ![fd] = [d EXCEPT !.cursor = to]]
    BY <1>2, <1>3, <1>a, <1>b
  <1>5. fds' \in [Fd -> Descriptor]
    BY <1>3, <1>4 DEF Descriptor
  <1> QED
    BY <1>5, FdKeeps DEF ReadSync

LEMMA WriteSyncKeeps ==
    ASSUME FilesInv, WriteSync
    PROVE  FilesInv'
  <1>1. PICK fd \in Fd :
           LET i == fds[fd].inode
               at == IF fds[fd].append THEN Len(content[i]) + 1 ELSE fds[fd].cursor
           IN
           /\ fds[fd] # NoFd
           /\ content' = [content EXCEPT ![i] = Written(content[i], at, ByFd)]
           /\ fds' = [fds EXCEPT ![fd].cursor = at + 1]
    BY DEF WriteSync
  <1>a. PICK i, at :
           /\ fds[fd] # NoFd /\ i = fds[fd].inode
           /\ at = IF fds[fd].append THEN Len(content[i]) + 1 ELSE fds[fd].cursor
           /\ content' = [content EXCEPT ![i] = Written(content[i], at, ByFd)]
           /\ fds' = [fds EXCEPT ![fd].cursor = at + 1]
    BY <1>1
  <1>2. PICK d : d = fds[fd]
    OBVIOUS
  <1>3. /\ d \in [inode : Inode, cursor : Nat, append : BOOLEAN, writes : BOOLEAN] /\ fds \in [Fd -> Descriptor]
        /\ content \in [Inode -> Pieces]
    BY <1>a, <1>2 DEF FilesInv, FilesTypes, Descriptor
  <1>4. i \in Inode /\ content[i] \in Pieces /\ Len(content[i]) \in Nat
    BY <1>a, <1>2, <1>3 DEF Pieces
  <1>5. at \in Nat /\ at + 1 \in Nat
    BY <1>a, <1>2, <1>3, <1>4
  <1>6. ByFd \in Piece
    BY FilesAssumption DEF ByFd, Piece
  <1>7. content' \in [Inode -> Pieces]
    BY <1>a, <1>3, <1>4, <1>5, <1>6, WrittenIs
  <1>8. fds' = [fds EXCEPT ![fd] = [d EXCEPT !.cursor = at + 1]]
    BY <1>a, <1>2, <1>3
  <1>9. fds' \in [Fd -> Descriptor]
    BY <1>3, <1>5, <1>8 DEF Descriptor
  <1> QED
    BY <1>7, <1>9, WriteFdKeeps DEF WriteSync

LEMMA FtruncateKeeps ==
    ASSUME FilesInv, FtruncateSync
    PROVE  FilesInv'
  <1>1. content' \in [Inode -> Pieces]
    <2>1. <<>> \in Pieces
      BY DEF Pieces
    <2> QED
      BY <2>1 DEF FilesInv, FilesTypes, FtruncateSync
  <1>2. fds' \in [Fd -> Descriptor]
    BY DEF FilesInv, FilesTypes, FtruncateSync
  <1> QED
    BY <1>1, <1>2, WriteFdKeeps DEF FtruncateSync

LEMMA OpenFdKeeps ==
    ASSUME FilesInv, OpenSync
    PROVE  FilesInv'
  <1>a. PICK p \in Path, flags \in {"r", "r+", "w", "wx", "a", "other"} :
           LET i == Opens(p, CreatedByFd(next_fd))
               changed == IF flags \in {"r", "r+"} THEN {} ELSE {p}
           IN
           /\ flags \in {"r", "r+"} => Isfile(p)
           /\ tree' = [tree EXCEPT ![p] = i]
           /\ content' = IF flags \in {"w", "wx"} THEN [content EXCEPT ![i] = <<>>] ELSE content
           /\ fds' = [fds EXCEPT ![next_fd] =
                          [inode |-> i, cursor |-> 1, append |-> flags = "a", writes |-> flags # "r"]]
           /\ known' = Forget(changed) /\ op' = Disturbed(changed)
    BY Zenon DEF OpenSync
  <1>1. PICK i, changed :
           /\ flags \in {"r", "r+"} => Isfile(p)
           /\ i = Opens(p, CreatedByFd(next_fd))
           /\ tree' = [tree EXCEPT ![p] = i]
           /\ content' = IF flags \in {"w", "wx"} THEN [content EXCEPT ![i] = <<>>] ELSE content
           /\ fds' = [fds EXCEPT ![next_fd] =
                          [inode |-> i, cursor |-> 1, append |-> flags = "a", writes |-> flags # "r"]]
           /\ changed = IF flags \in {"r", "r+"} THEN {} ELSE {p}
           /\ known' = Forget(changed) /\ op' = Disturbed(changed)
    BY <1>a
  <1>2. next_fd \in Fd /\ next_fd' = next_fd + 1 /\ begun' = begun
    BY DEF OpenSync, FdCall
  <1>3. /\ FilesTypes /\ OneName /\ Unmade /\ HandlesFollowed /\ Groups /\ AloneIsApart /\ KnownHolds
        /\ op \in [Pending -> Operation]
    BY DEF FilesInv, FilesTypes, Pending
  <1>4. Pending' = Pending /\ op' = [e \in Pending' |-> op'[e]] /\ \A e \in Pending : op'[e] = Disturbed(changed)[e]
    BY <1>1 DEF Disturbed, Pending
  <1>5. \A e \in Pending :
           /\ op'[e] \in Operation /\ Planned(op'[e])
           /\ op'[e].kind = op[e].kind /\ op'[e].todo = op[e].todo /\ op'[e].handle = op[e].handle
           /\ op'[e].touched = IF op[e].touched \cap changed = {} THEN op[e].touched ELSE op[e].touched \cup changed
           /\ op'[e].alone => op'[e] = op[e] /\ op[e].touched \cap changed = {}
    <2>1. changed \in SUBSET Path
      BY <1>1
    <2> QED
      BY <1>4, <2>1, DisturbedAre
  <1>6. \A e \in Pending : op'[e].touched = op[e].touched
    <2> TAKE e \in Pending
    <2>1. op[e].touched \cap changed # {} => changed \subseteq op[e].touched
      BY <1>1
    <2> QED
      BY <1>5, <2>1
  (* The file had no other path. *)
  <1>7. /\ i \in Inode
        /\ Isfile(p) => i = tree[p]
        /\ ~Isfile(p) => i = CreatedByFd(next_fd) /\ (\A e \in Pending : op[e].handle # i)
        /\ \A q \in Path : q # p => tree[q] # i
    <2>1. CreatedByFd(next_fd) \in Inode /\ Fresh(CreatedByFd(next_fd)) /\ next_fd \in Nat
      BY <1>2, <1>3, Numbers DEF Fresh, FilesTypes
    <2>2. /\ \A q \in Path : tree[q] # CreatedByFd(next_fd)
          /\ \A e \in Pending : op[e].handle # CreatedByFd(next_fd)
      BY <1>3, <2>1 DEF Unmade
    <2> QED
      BY <1>1, <1>3, <2>1, <2>2 DEF Opens, Isfile, OneName
  <1>8. tree'[p] = i /\ \A q \in Path : q # p => tree'[q] = tree[q]
    BY <1>1, <1>3 DEF FilesTypes
  <1>9. \A q \in Path : q \notin changed => tree'[q] = tree[q] /\ (Isfile(q) => content'[tree[q]] = content[tree[q]])
    <2> TAKE q \in Path
    <2>1. CASE flags \in {"r", "r+"}
      BY <1>1, <1>7, <1>8, <2>1
    <2>2. CASE flags \notin {"r", "r+"}
      BY <1>1, <1>3, <1>7, <1>8, <2>2 DEF FilesTypes, Isfile
    <2> QED
      BY <2>1, <2>2
  <1>10. FilesTypes'
    <2>1. tree' \in [Path -> Inode \cup {Absent, Dir}] /\ content' \in [Inode -> Pieces] /\ known' \in [Path -> Data]
      BY <1>1, <1>3, <1>7 DEF FilesTypes, Pieces, Data, Forget
    <2>2. fds' \in [Fd -> Descriptor]
      <3>1. PICK d : d = [inode |-> i, cursor |-> 1, append |-> flags = "a", writes |-> flags # "r"]
        OBVIOUS
      <3>2. d \in Descriptor
        BY <1>7, <3>1 DEF Descriptor
      <3> QED
        BY <1>1, <1>3, <3>1, <3>2 DEF FilesTypes
    <2>3. next_fd' \in 3 .. 3 + MaxFds
      BY <1>2, FilesAssumption DEF Fd
    <2>4. op' \in [Pending' -> Operation]
      BY <1>4, <1>5
    <2> QED
      BY <1>2, <1>3, <1>4, <2>1, <2>2, <2>3, <2>4 DEF FilesTypes, Pending
  <1>11. OneName'
    BY <1>3, <1>7, <1>8 DEF OneName, Isfile
  <1>12. \A j : Fresh(j)' => Fresh(j) /\ j # CreatedByFd(next_fd)
    <2> SUFFICES ASSUME NEW j, Fresh(j)'
                 PROVE  Fresh(j) /\ j # CreatedByFd(next_fd)
      OBVIOUS
    <2>1. \A e \in Pending : WillOpen(op'[e]) <=> WillOpen(op[e])
      BY <1>5 DEF WillOpen
    <2>2. \/ \E e \in OpId : j = CreatedBy(e) /\ (e > begun \/ (e \in Pending /\ WillOpen(op[e])))
          \/ \E fd \in Fd : j = CreatedByFd(fd) /\ fd >= next_fd'
      BY <1>2, <1>4, <2>1 DEF Fresh, CreatedBy, CreatedByFd
    <2>3. CASE \E e \in OpId : j = CreatedBy(e) /\ (e > begun \/ (e \in Pending /\ WillOpen(op[e])))
      BY <1>2, <2>3, Numbers DEF Fresh
    <2>4. CASE \E fd \in Fd : j = CreatedByFd(fd) /\ fd >= next_fd'
      <3>1. PICK fd \in Fd : j = CreatedByFd(fd) /\ fd >= next_fd'
        BY <2>4
      <3>2. next_fd \in Nat /\ fd \in Nat /\ fd # next_fd /\ fd >= next_fd
        BY <1>2, <3>1, Numbers
      <3> QED
        BY <1>2, <3>1, <3>2, Numbers DEF Fresh
    <2> QED
      BY <2>2, <2>3, <2>4
  <1>13. Unmade'
    <2>1. ASSUME NEW j \in Inode, Fresh(j)'
          PROVE  (\A q \in Path : tree'[q] # j) /\ \A e \in Pending : op'[e].handle # j
      <3>1. (\A q \in Path : tree[q] # j) /\ \A e \in Pending : op[e].handle # j
        BY <1>3, <1>12, <2>1 DEF Unmade
      <3>2. i # j
        BY <1>7, <1>12, <2>1, <3>1
      <3> QED
        BY <1>5, <1>8, <3>1, <3>2
    <2> QED
      BY <1>4, <2>1 DEF Unmade
  <1>14. HandlesFollowed'
    <2> SUFFICES ASSUME NEW e \in Pending, Writer(op'[e]), NEW q \in Path, tree'[q] = op'[e].handle
                 PROVE  q \in op'[e].touched
      BY <1>4 DEF HandlesFollowed
    <2>1. Writer(op[e]) /\ op'[e].handle = op[e].handle /\ op'[e].touched = op[e].touched
      BY <1>5, <1>6 DEF Writer
    <2>2. tree[q] = op[e].handle
      BY <1>7, <1>8, <2>1
    <2> QED
      BY <1>3, <2>1, <2>2 DEF HandlesFollowed
  <1>15. Groups' /\ AloneIsApart'
    <2>1. Groups'
      <3>1. \A e \in Pending : op'[e].kind = op[e].kind /\ op'[e].touched = op[e].touched
        BY <1>5, <1>6
      <3> QED
        BY <1>3, <1>4, <3>1 DEF Groups, Apart, Writer
    <2>2. AloneIsApart'
      BY <1>3, <1>4, <1>5, <1>6 DEF AloneIsApart, Apart, Writer
    <2> QED
      BY <2>1, <2>2
  <1>16. KnownHolds'
    <2> SUFFICES ASSUME NEW r \in Path, known'[r] # Unknown
                 PROVE  Holds(r, known[r])' /\ \A e \in Pending : Writer(op'[e]) => r \notin op'[e].touched
      BY <1>4 DEF KnownHolds
    <2>1. r \notin changed /\ known'[r] = known[r]
      BY <1>1 DEF Forget
    <2>2. Holds(r, known[r]) /\ \A e \in Pending : Writer(op[e]) => r \notin op[e].touched
      BY <1>3, <2>1 DEF KnownHolds
    <2>3. Holds(r, known[r])'
      BY <1>9, <2>1, <2>2 DEF Holds, Isfile
    <2> QED
      BY <1>5, <1>6, <2>2, <2>3 DEF Writer
  <1>17. ASSUME NEW e \in Pending, op'[e].alone
         PROVE  OnItsWay(op[e])'
    <2>1. PICK z : z = op[e]
      OBVIOUS
    <2>2. op'[e] = z /\ OnItsWay(z) /\ z.path \in Path /\ z.path \notin changed
      BY <1>5, <1>17, <2>1, Begun DEF FilesInv, Planned
    <2>3. \A data : Holds(z.path, data) => Holds(z.path, data)'
      BY <1>9, <2>2 DEF Holds, Isfile
    <2>4. \A data : Opened(z, data) => Opened(z, data)'
      BY <1>9, <2>2, <2>3 DEF Opened
    <2>5. OnItsWay(z)'
      BY <2>2, <2>3, <2>4 DEF OnItsWay
    <2> QED
      BY <2>2, <2>5, WayPrimed
  <1> QED
    BY <1>4, <1>5, <1>10, <1>11, <1>13, <1>14, <1>15, <1>16, <1>17 DEF FilesInv

-----------------------------------------------------------------------------

LEMMA FilesBegin == FilesInit => FilesInv
  <1> SUFFICES ASSUME FilesInit
               PROVE  FilesInv
    OBVIOUS
  <1>0. PICK first \in Path :
           /\ tree = [p \in Path |->
                        IF p = first THEN 1 ELSE IF p \in Above[first] THEN Dir ELSE Absent]
           /\ known = [p \in Path |-> IF p = first THEN <<Earlier>> ELSE Unknown]
    BY DEF FilesInit
  <1>1. /\ \A p \in Path : /\ tree[p] \in {1, Dir, Absent} /\ (tree[p] = 1 <=> p = first)
                           /\ known[p] = IF p = first THEN <<Earlier>> ELSE Unknown
        /\ DOMAIN tree = Path /\ DOMAIN known = Path
        /\ tree = [p \in Path |-> tree[p]] /\ known = [p \in Path |-> known[p]]
        /\ content = [i \in Inode |-> IF i = 1 THEN <<Earlier>> ELSE <<>>]
        /\ op = <<>> /\ begun = 0 /\ fds = [fd \in Fd |-> NoFd] /\ next_fd = 3
    BY <1>0, FilesAssumption DEF FilesInit
  <1>2. Pending = {} /\ DOMAIN op = {}
    BY <1>1 DEF Pending
  <1>3. 1 \in Inode /\ Absent \notin Inode /\ Dir \notin Inode
    BY FilesAssumption DEF Inode
  <1>4. <<Earlier>> \in Pieces /\ <<>> \in Pieces
    <2>1. Earlier \in Piece
      BY FilesAssumption DEF Earlier, Piece
    <2> QED
      BY <2>1 DEF Pieces
  <1>5. FilesTypes
    <2>1. op \in [DOMAIN op -> Operation]
      BY <1>1, <1>2
    <2>2. fds \in [Fd -> Descriptor] /\ next_fd \in 3 .. 3 + MaxFds /\ begun \in 0 .. MaxOps
      BY <1>1, FilesAssumption DEF Descriptor
    <2>3. tree \in [Path -> Inode \cup {Absent, Dir}] /\ content \in [Inode -> Pieces] /\ known \in [Path -> Data]
      BY <1>1, <1>3, <1>4 DEF Data
    <2> QED
      BY <1>2, <2>1, <2>2, <2>3 DEF FilesTypes
  <1>6. OneName
    BY <1>1, <1>3 DEF OneName, Isfile
  <1>7. Unmade
    <2>1. ASSUME NEW i, Fresh(i)
          PROVE  i # 1
      BY <2>1, FilesAssumption DEF Fresh, CreatedBy, CreatedByFd, OpId, Fd
    <2> QED
      BY <1>1, <1>2, <1>3, <2>1 DEF Unmade
  <1>8. KnownHolds
    BY <1>1, <1>2, <1>3 DEF KnownHolds, Holds, Isfile
  <1> QED
    BY <1>2, <1>5, <1>6, <1>7, <1>8 DEF FilesInv, HandlesFollowed, Groups, AloneIsApart

LEMMA FilesStep == FilesInv /\ [FilesNext]_fileVars => FilesInv'
  <1> SUFFICES ASSUME FilesInv, [FilesNext]_fileVars
               PROVE  FilesInv'
    OBVIOUS
  <1>1. CASE PromiseCall
    <2>1. PICK kind \in Kind, p \in Path, q \in Path : Begin(kind, "pool", p, q, "data")
      BY <1>1 DEF PromiseCall
    <2> QED
      BY <1>1, <2>1, BeginsKeep DEF PromiseCall
  <1>2. CASE SyncCall
    <2>1. PICK kind \in Kind, p \in Path, q \in Path, as \in {"data", "digits"} : Begin(kind, "js", p, q, as)
      BY <1>2 DEF SyncCall
    <2> QED
      BY <1>2, <2>1, BeginsKeep DEF SyncCall
  <1>3. CASE SinkFlushes
    <2>1. PICK p \in Path : Begin("appendFile", "js", p, p, "digits")
      BY <1>3 DEF SinkFlushes
    <2>2. "appendFile" \in Kind
      BY DEF Kind, Mutating
    <2> QED
      BY <1>3, <2>1, <2>2, BeginsKeep DEF SinkFlushes
  <1>4. ASSUME NEW o \in Pending, SystemCall(o)
        PROVE  FilesInv'
    BY <1>4, CallKeeps
  <1>5. ASSUME NEW o \in Pending, Post(o)
        PROVE  FilesInv'
    BY <1>5, PostKeeps
  <1>6. ASSUME NEW o \in Pending, Settle(o) \/ SyncReturns(o)
        PROVE  FilesInv'
    <2>1. op[o].todo = <<>>
      BY <1>6, Begun DEF Settle, SyncReturns, Planned
    <2> QED
      BY <1>6, <2>1, EndKeeps DEF Settle, SyncReturns
  <1>7. CASE OpenSync \/ CloseSync \/ ReadSync \/ WriteSync \/ FtruncateSync
    BY <1>7, OpenFdKeeps, CloseFdKeeps, ReadFdKeeps, WriteSyncKeeps, FtruncateKeeps
  <1>8. CASE UNCHANGED fileVars
    BY <1>8, FdKeeps DEF fileVars, FilesInv, FilesTypes
  <1> QED
    BY <1>1, <1>2, <1>3, <1>4, <1>5, <1>6, <1>7, <1>8 DEF FilesNext

(* FilesInv, which says of every operation how far it has come and which     *)
(* paths it shares with others, holds for any paths and any number of       *)
(* operations.                                                              *)
THEOREM FilesHold == FilesSpec => []FilesInv
  BY FilesBegin, FilesStep, PTL DEF FilesSpec

(* Data whose write was awaited is what a readFile returns (AwaitedDataRead).*)
THEOREM DataRead == FilesSpec => AwaitedDataRead
  <1>1. FilesInv /\ [FilesNext]_fileVars
           => [\A o \in Pending :
                  o \notin Pending' /\ op[o].kind = "readFile" /\ op[o].alone /\ op[o].before # Unknown
                      => op[o].result = op[o].before]_fileVars
    <2> SUFFICES ASSUME FilesInv, FilesNext, NEW o \in Pending, o \notin Pending',
                        op[o].kind = "readFile", op[o].alone, op[o].before # Unknown
                 PROVE  op[o].result = op[o].before
      OBVIOUS
    <2>1. op[o].todo = <<>>
      <3>2. ASSUME NEW kind \in Kind, NEW by \in {"pool", "js"}, NEW p \in Path, NEW q \in Path,
                   NEW as \in {"data", "digits"}, Begin(kind, by, p, q, as)
            PROVE  FALSE
        <4>1. PICK T, n : T = Together(Touched(kind, p, q)) /\ n = begun + 1
          OBVIOUS
        <4>2. PICK x : BeginsAs(n, T, kind, p, q, x)
          BY <3>2, <4>1, BeginIs
        <4> QED
          BY <4>2 DEF BeginsAs
      <3>3. \A paths : op' # Disturbed(paths) /\ op' # AllDisturbed /\ op' # op
        BY DEF Disturbed, AllDisturbed, Pending
      <3>4. ~(PromiseCall \/ SyncCall \/ SinkFlushes)
        BY <3>2 DEF PromiseCall, SyncCall, SinkFlushes, Kind, Mutating
      <3>5. ~(OpenSync \/ CloseSync \/ ReadSync \/ WriteSync \/ FtruncateSync)
        BY <3>3 DEF OpenSync, CloseSync, ReadSync, WriteSync, FtruncateSync
      <3>6. PICK e \in Pending : SystemCall(e) \/ Post(e) \/ Settle(e) \/ SyncReturns(e)
        BY <3>4, <3>5 DEF FilesNext
      <3>7. ~SystemCall(e) /\ ~Post(e)
        BY DEF SystemCall, Post, Pending
      <3>8. op' = Without(e) /\ op[e].todo = <<>>
        BY <3>6, <3>7, Begun DEF Settle, SyncReturns, Planned
      <3>9. e = o
        BY <3>8 DEF Without, Pending
      <3> QED
        BY <3>8, <3>9
    <2>2. OnItsWay(op[o])
      BY DEF FilesInv
    <2> QED
      BY <2>1, <2>2 DEF OnItsWay
  <1> QED
    BY <1>1, FilesHold, PTL DEF FilesSpec, AwaitedDataRead

-----------------------------------------------------------------------------
(* node:path: the loop over the segments of a text.                         *)

LEMMA FrontIs ==
    ASSUME NEW S, NEW z \in Seq(S), z # <<>>
    PROVE  /\ Front(z) \in Seq(S) /\ Len(Front(z)) = Len(z) - 1
           /\ \A i \in 1 .. Len(z) - 1 : Front(z)[i] = z[i]
           /\ Len(z) \in Nat /\ Len(z) >= 1 /\ Last(z) = z[Len(z)] /\ Last(z) \in S
           /\ z = Append(Front(z), Last(z))
  <1>1. Len(z) \in Nat /\ Len(z) >= 1 /\ Last(z) = z[Len(z)] /\ Last(z) \in S
    <2>1. Len(z) \in Nat /\ Len(z) >= 1
      BY EmptySeq
    <2> QED
      BY <2>1 DEF Last
  <1> DEFINE n == Len(z) - 1
  <1>2. n \in Nat /\ Len(z) = n + 1 /\ Front(z) = [i \in 1 .. n |-> z[i]] /\ \A i \in 1 .. n : z[i] \in S
    BY <1>1 DEF Front
  <1> HIDE DEF n
  <1>3. Front(z) \in Seq(S) /\ Len(Front(z)) = n /\ \A i \in 1 .. n : Front(z)[i] = z[i]
    BY <1>2
  <1>4. z = Append(Front(z), Last(z))
    <2>1. /\ Append(Front(z), Last(z)) \in Seq(S) /\ Len(Append(Front(z), Last(z))) = n + 1
          /\ \A i \in 1 .. n : Append(Front(z), Last(z))[i] = z[i]
          /\ Append(Front(z), Last(z))[n + 1] = z[n + 1]
      BY <1>1, <1>2, <1>3
    <2>2. \A i \in 1 .. n + 1 : Append(Front(z), Last(z))[i] = z[i]
      BY <1>2, <2>1
    <2> QED
      BY <1>2, <2>1, <2>2
  <1> QED
    BY <1>1, <1>2, <1>3, <1>4 DEF n

LEMMA FrontAppend ==
    ASSUME NEW S, NEW z \in Seq(S), NEW x \in S
    PROVE  Front(Append(z, x)) = z /\ Last(Append(z, x)) = x /\ Append(z, x) \in Seq(S) /\ Append(z, x) # <<>>
  <1> DEFINE y == Append(z, x)
  <1>1. y \in Seq(S) /\ Len(y) = Len(z) + 1 /\ Len(z) \in Nat /\ y[Len(z) + 1] = x /\ \A i \in 1 .. Len(z) : y[i] = z[i]
    OBVIOUS
  <1>2. y # <<>>
    BY <1>1
  <1> HIDE DEF y
  <1>3. /\ Front(y) \in Seq(S) /\ Len(Front(y)) = Len(z) /\ \A i \in 1 .. Len(z) : Front(y)[i] = z[i]
        /\ Last(y) = x
    BY <1>1, <1>2, FrontIs
  <1>4. Front(y) = z
    BY <1>1, <1>3
  <1> QED
    BY <1>1, <1>2, <1>3, <1>4 DEF y

LEMMA AppendTyped == \A S : \A z \in Seq(S) : \A x \in S : Append(z, x) \in Seq(S)
  OBVIOUS

LEMMA NoneTyped == \A S : <<>> \in Seq(S)
  OBVIOUS

LEMMA PartIs ==
    /\ "." \in Part /\ ".." \in Part
    /\ \A x \in Segment : x \in Part /\ x # "." /\ x # ".."
    /\ \A x \in Part : x = "." \/ x = ".." \/ x \in Segment
  BY SegmentAssumption DEF Part

LEMMA StepDot == \A abs, z : Step(abs, z, ".") = z
  BY DEF Step

LEMMA StepName == \A abs, z : \A x \in Segment : Step(abs, z, x) = Append(z, x)
  BY PartIs DEF Step

LEMMA StepBack == \A abs, z : z # <<>> /\ Last(z) # ".." => Step(abs, z, "..") = Front(z)
  BY DEF Step

LEMMA StepRoot == \A z : z = <<>> \/ Last(z) = ".." => Step(TRUE, z, "..") = z
  BY DEF Step

LEMMA StepUp == \A z : z = <<>> \/ Last(z) = ".." => Step(FALSE, z, "..") = Append(z, "..")
  BY DEF Step

(* A list that normalize has pushed: names, and before them ".." only in    *)
(* front of a relative path.                                                *)
Shape(abs, z) ==
    /\ z \in Seq(Segment \cup {".."})
    /\ \A i \in 1 .. Len(z) : z[i] = ".." => ~abs /\ \A j \in 1 .. i : z[j] = ".."

LEMMA StepTyped ==
    ASSUME NEW abs \in BOOLEAN, NEW z \in Seq(Part), NEW x \in Part
    PROVE  Step(abs, z, x) \in Seq(Part)
  <1>1. z # <<>> => Front(z) \in Seq(Part)
    BY FrontIs
  <1>2. Append(z, x) \in Seq(Part)
    BY AppendTyped
  <1>3. CASE x = "."
    BY <1>3, StepDot, Zenon
  <1>4. CASE x \in Segment
    BY <1>2, <1>4, StepName, Zenon
  <1>5. CASE x = ".." /\ z # <<>> /\ Last(z) # ".."
    BY <1>1, <1>5, StepBack, Zenon
  <1>6. CASE x = ".." /\ (z = <<>> \/ Last(z) = "..")
    <2>1. CASE abs = TRUE
      BY <1>6, <2>1, StepRoot, Zenon
    <2>2. CASE abs = FALSE
      BY <1>2, <1>6, <2>2, StepUp, Zenon
    <2> QED
      BY <2>1, <2>2
  <1> QED
    BY <1>3, <1>4, <1>5, <1>6, PartIs, Zenon

LEMMA StepShape ==
    ASSUME NEW abs \in BOOLEAN, NEW z, Shape(abs, z), NEW x \in Part
    PROVE  Shape(abs, Step(abs, z, x))
  <1> DEFINE S == Segment \cup {".."}
  <1>0. z \in Seq(S) /\ Len(z) \in Nat /\ \A i \in 1 .. Len(z) : z[i] = ".." => ~abs /\ \A j \in 1 .. i : z[j] = ".."
    BY DEF Shape
  <1> HIDE DEF S
  <1>1. CASE x = "."
    BY <1>1, StepDot, Zenon
  <1>2. ASSUME NEW y \in S, y # ".." \/ (~abs /\ (z = <<>> \/ Last(z) = ".."))
        PROVE  Shape(abs, Append(z, y))
    <2>1. /\ Append(z, y) \in Seq(S) /\ Len(Append(z, y)) = Len(z) + 1
          /\ \A i \in 1 .. Len(z) : Append(z, y)[i] = z[i]
          /\ Append(z, y)[Len(z) + 1] = y
      BY <1>0
    <2>2. ASSUME NEW i \in 1 .. Len(z) + 1, Append(z, y)[i] = ".."
          PROVE  ~abs /\ \A j \in 1 .. i : Append(z, y)[j] = ".."
      <3>1. CASE i \in 1 .. Len(z)
        <4>1. \A j \in 1 .. i : j \in 1 .. Len(z)
          BY <1>0, <3>1
        <4> QED
          BY <1>0, <2>1, <2>2, <3>1, <4>1
      <3>2. CASE i = Len(z) + 1
        <4>1. y = ".." /\ ~abs /\ (z = <<>> \/ Last(z) = "..")
          BY <1>2, <2>1, <2>2, <3>2
        <4>2. z # <<>> => Len(z) \in 1 .. Len(z) /\ z[Len(z)] = ".."
          BY <1>0, <4>1, FrontIs
        <4>3. \A j \in 1 .. Len(z) : z # <<>>
          BY <1>0
        <4>4. \A j \in 1 .. Len(z) : z[j] = ".."
          BY <1>0, <4>2, <4>3
        <4>5. \A j \in 1 .. i : j \in 1 .. Len(z) \/ j = Len(z) + 1
          BY <1>0, <3>2
        <4> QED
          BY <2>1, <4>1, <4>4, <4>5
      <3> QED
        BY <1>0, <3>1, <3>2
    <2> QED
      BY <2>1, <2>2 DEF Shape, S
  <1>3. CASE x \in Segment
    <2>1. x \in S /\ x # ".."
      BY <1>3, PartIs DEF S
    <2>2. Shape(abs, Append(z, x))
      BY <1>2, <2>1
    <2> QED
      BY <1>3, <2>2, StepName, Zenon
  <1>4. CASE x = ".." /\ z # <<>> /\ Last(z) # ".."
    <2>1. /\ Front(z) \in Seq(S) /\ Len(Front(z)) = Len(z) - 1
          /\ \A i \in 1 .. Len(z) - 1 : Front(z)[i] = z[i]
      BY <1>0, <1>4, FrontIs
    <2>2. \A i \in 1 .. Len(z) - 1 : i \in 1 .. Len(z) /\ \A j \in 1 .. i : j \in 1 .. Len(z) - 1
      BY <1>0
    <2>3. Shape(abs, Front(z))
      BY <1>0, <2>1, <2>2 DEF Shape, S
    <2> QED
      BY <1>4, <2>3, StepBack, Zenon
  <1>5. CASE x = ".." /\ (z = <<>> \/ Last(z) = "..")
    <2>1. ".." \in S
      BY DEF S
    <2>2. ~abs => Shape(abs, Append(z, x))
      BY <1>2, <1>5, <2>1
    <2>3. CASE abs = TRUE
      BY <1>5, <2>3, StepRoot, Zenon
    <2>4. CASE abs = FALSE
      BY <1>5, <2>2, <2>4, StepUp, Zenon
    <2> QED
      BY <2>3, <2>4
  <1> QED
    BY <1>1, <1>3, <1>4, <1>5, PartIs, Zenon

-----------------------------------------------------------------------------
(* The whole loop.                                                          *)

(* What the loop has pushed after each round.                               *)
Pushed(f, abs, z, s) == f[0] = z /\ \A n \in 1 .. Len(s) : f[n] = Step(abs, f[n - 1], s[n])

(* Walk is the value after the last of the rounds.                          *)
LEMMA WalkRounds ==
    ASSUME NEW abs \in BOOLEAN, NEW z \in Seq(Part), NEW s \in Seq(Part)
    PROVE  /\ Walk(abs, z, s) \in Seq(Part)
           /\ \A f : Pushed(f, abs, z, s) => f[Len(s)] = Walk(abs, z, s)
           /\ \E f : Pushed(f, abs, z, s)
  <1> DEFINE walked[n \in 0 .. Len(s)] == IF n = 0 THEN z ELSE Step(abs, walked[n - 1], s[n])
             round == [n \in 1 .. Len(s) |-> [y \in Seq(Part) |-> Step(abs, y, s[n])]]
  <1>0. Len(s) \in Nat /\ \A n \in 1 .. Len(s) : s[n] \in Part
    OBVIOUS
  <1>1. Walk(abs, z, s) = walked[Len(s)]
    BY Zenon DEF Walk
  <1>2. PICK f \in [0 .. Len(s) -> Seq(Part)] : f[0] = z /\ \A n \in 1 .. Len(s) : f[n] = round[n][f[n - 1]]
    <2>1. round \in [1 .. Len(s) -> [Seq(Part) -> Seq(Part)]]
      BY <1>0, StepTyped
    <2> HIDE DEF round
    <2>2. PICK m \in Nat : m = Len(s)
      BY <1>0
    <2>3. PICK S : S = Seq(Part)
      OBVIOUS
    <2>4. round \in [1 .. m -> [S -> S]] /\ z \in S
      BY <2>1, <2>2, <2>3
    <2>5. PICK f : f \in Loop(S, m, z, round)
      BY <2>4, LoopRuns, Zenon
    <2>6. f \in [0 .. m -> S] /\ f[0] = z /\ \A n \in 1 .. m : f[n] = round[n][f[n - 1]]
      BY <2>5 DEF Loop
    <2> QED
      BY <2>2, <2>3, <2>6, Zenon
  <1>3. \A n \in 1 .. Len(s) : f[n] = Step(abs, f[n - 1], s[n])
    <2> TAKE n \in 1 .. Len(s)
    <2>1. n - 1 \in 0 .. Len(s)
      BY <1>0
    <2>2. f[n - 1] \in Seq(Part)
      BY <2>1
    <2> QED
      BY <1>2, <2>2
  <1>4. f = [n \in 0 .. Len(s) |-> IF n = 0 THEN z ELSE Step(abs, f[n - 1], s[n])]
    <2>1. \A n \in 0 .. Len(s) : n # 0 => n \in 1 .. Len(s)
      BY <1>0
    <2>2. \A n \in 0 .. Len(s) : f[n] = IF n = 0 THEN z ELSE Step(abs, f[n - 1], s[n])
      BY <1>2, <1>3, <2>1
    <2> QED
      BY <2>2
  <1>5. walked = [n \in 0 .. Len(s) |-> IF n = 0 THEN z ELSE Step(abs, walked[n - 1], s[n])]
    BY <1>4, Zenon
  <1> HIDE DEF walked
  <1>6. walked[0] = z /\ \A n \in 1 .. Len(s) : walked[n] = Step(abs, walked[n - 1], s[n])
    <2>1. 0 \in 0 .. Len(s) /\ \A n \in 1 .. Len(s) : n \in 0 .. Len(s) /\ n # 0
      BY <1>0
    <2> QED
      BY <1>5, <2>1
  <1>7. ASSUME NEW g, g[0] = z, \A n \in 1 .. Len(s) : g[n] = Step(abs, g[n - 1], s[n])
        PROVE  g[Len(s)] = walked[Len(s)]
    <2> DEFINE T == {n \in Nat : n <= Len(s) => g[n] = walked[n]}
    <2>1. 0 \in T
      BY <1>6, <1>7
    <2>2. ASSUME NEW n \in T PROVE n + 1 \in T
      <3>1. n + 1 <= Len(s) => n <= Len(s) /\ n + 1 \in 1 .. Len(s) /\ n + 1 - 1 = n
        BY <1>0
      <3>2. n + 1 <= Len(s) => g[n + 1] = walked[n + 1]
        BY <1>6, <1>7, <3>1
      <3> QED
        BY <3>2
    <2>3. T = Nat
      <3> HIDE DEF T
      <3>1. T \in SUBSET Nat
        BY DEF T
      <3> QED
        BY <2>1, <2>2, <3>1, AllNumbers
    <2>4. Len(s) \in T
      BY <1>0, <2>3
    <2> QED
      BY <1>0, <2>4
  <1>8. walked[Len(s)] \in Seq(Part)
    <2>1. f[Len(s)] = walked[Len(s)]
      BY <1>2, <1>3, <1>7
    <2>2. Len(s) \in 0 .. Len(s)
      BY <1>0
    <2> QED
      BY <2>1, <2>2
  <1> QED
    BY <1>1, <1>6, <1>7, <1>8 DEF Pushed

LEMMA WalkTyped == \A abs \in BOOLEAN : \A z, s \in Seq(Part) : Walk(abs, z, s) \in Seq(Part)
  BY WalkRounds, Zenon

LEMMA WalkEnds ==
    \A abs \in BOOLEAN : \A z, s \in Seq(Part) : \A f : Pushed(f, abs, z, s) => f[Len(s)] = Walk(abs, z, s)
  <1> SUFFICES ASSUME NEW abs \in BOOLEAN, NEW z \in Seq(Part), NEW s \in Seq(Part), NEW f, Pushed(f, abs, z, s)
               PROVE  f[Len(s)] = Walk(abs, z, s)
    BY Zenon
  <1>1. \A g : Pushed(g, abs, z, s) => g[Len(s)] = Walk(abs, z, s)
    BY WalkRounds, Zenon
  <1> QED
    BY <1>1, Zenon

LEMMA WalkNone == \A abs \in BOOLEAN : \A z \in Seq(Part) : Walk(abs, z, <<>>) = z
  <1> SUFFICES ASSUME NEW abs \in BOOLEAN, NEW z \in Seq(Part) PROVE Walk(abs, z, <<>>) = z
    OBVIOUS
  <1>1. <<>> \in Seq(Part)
    BY NoneTyped
  <1>2. PICK f : Pushed(f, abs, z, <<>>)
    BY <1>1, WalkRounds, Zenon
  <1>3. f[Len(<<>>)] = Walk(abs, z, <<>>)
    BY <1>1, <1>2, WalkEnds, Zenon
  <1>4. f[0] = z
    BY <1>2 DEF Pushed
  <1>5. Len(<<>>) = 0
    OBVIOUS
  <1> QED
    BY <1>3, <1>4, <1>5, Zenon

LEMMA WalkNext ==
    \A abs \in BOOLEAN : \A z, s \in Seq(Part) : \A x \in Part :
        Walk(abs, z, Append(s, x)) = Step(abs, Walk(abs, z, s), x)
  <1> SUFFICES ASSUME NEW abs \in BOOLEAN, NEW z \in Seq(Part), NEW s \in Seq(Part), NEW x \in Part
               PROVE  Walk(abs, z, Append(s, x)) = Step(abs, Walk(abs, z, s), x)
    BY Zenon
  <1>1. PICK t : t = Append(s, x)
    BY Zenon
  <1>2. /\ t \in Seq(Part) /\ Len(t) = Len(s) + 1 /\ Len(s) \in Nat
        /\ t[Len(s) + 1] = x /\ \A n \in 1 .. Len(s) : t[n] = s[n] /\ n \in 1 .. Len(t)
    BY <1>1
  <1>3. PICK f : Pushed(f, abs, z, t)
    BY <1>2, WalkRounds, Zenon
  <1>4. Pushed(f, abs, z, s)
    BY <1>2, <1>3 DEF Pushed
  <1>5. f[Len(s)] = Walk(abs, z, s) /\ f[Len(t)] = Walk(abs, z, t)
    BY <1>2, <1>3, <1>4, WalkEnds, Zenon
  <1>6. Len(t) \in 1 .. Len(t) /\ Len(t) - 1 = Len(s)
    BY <1>2
  <1>7. f[Len(t)] = Step(abs, f[Len(s)], x)
    BY <1>2, <1>3, <1>6 DEF Pushed
  <1> QED
    BY <1>1, <1>5, <1>7, Zenon

LEMMA AppendBehind ==
    \A s, u \in Seq(Part) : \A x \in Part :
        s \o u \in Seq(Part) /\ Append(s \o u, x) = s \o Append(u, x)
  <1> DEFINE S == Part
  <1> HIDE DEF S
  <1> SUFFICES ASSUME NEW s \in Seq(S), NEW u \in Seq(S), NEW x \in S
               PROVE  s \o u \in Seq(S) /\ Append(s \o u, x) = s \o Append(u, x)
    BY Zenon DEF S
  <1>1. s \o u \in Seq(S) /\ <<x>> \in Seq(S)
    BY ConcatProperties
  <1>2. Append(s \o u, x) = (s \o u) \o <<x>> /\ Append(u, x) = u \o <<x>>
    BY <1>1, AppendIsConcat
  <1>3. (s \o u) \o <<x>> = s \o (u \o <<x>>)
    BY <1>1, ConcatAssociative
  <1> QED
    BY <1>1, <1>2, <1>3, Zenon

(* One list behind the other is one loop behind the other.                  *)
LEMMA WalkOver ==
    \A abs \in BOOLEAN : \A z, s, t \in Seq(Part) :
        Walk(abs, z, s \o t) = Walk(abs, Walk(abs, z, s), t)
  <1> SUFFICES ASSUME NEW abs \in BOOLEAN, NEW z \in Seq(Part), NEW s \in Seq(Part)
               PROVE  \A t \in Seq(Part) : Walk(abs, z, s \o t) = Walk(abs, Walk(abs, z, s), t)
    BY Zenon
  <1> DEFINE T == {u \in Seq(Part) : Walk(abs, z, s \o u) = Walk(abs, Walk(abs, z, s), u)}
  <1>0. Walk(abs, z, s) \in Seq(Part)
    BY WalkTyped, Zenon
  <1>1. <<>> \in T
    <2>1. s \o <<>> = s /\ <<>> \in Seq(Part)
      OBVIOUS
    <2>2. Walk(abs, Walk(abs, z, s), <<>>) = Walk(abs, z, s)
      BY <1>0, WalkNone, Zenon
    <2> QED
      BY <2>1, <2>2
  <1>2. ASSUME NEW u \in T, NEW x \in Part PROVE Append(u, x) \in T
    <2>0. u \in Seq(Part) /\ Append(u, x) \in Seq(Part)
      BY AppendTyped
    <2>1. PICK v : v = s \o u
      BY Zenon
    <2>2. v \in Seq(Part) /\ Append(v, x) = s \o Append(u, x)
      BY <2>0, <2>1, AppendBehind, Zenon
    <2>3. Walk(abs, z, Append(v, x)) = Step(abs, Walk(abs, z, v), x)
      BY <2>2, WalkNext, Zenon
    <2>4. Walk(abs, Walk(abs, z, s), Append(u, x)) = Step(abs, Walk(abs, Walk(abs, z, s), u), x)
      BY <1>0, <2>0, WalkNext, Zenon
    <2>5. Walk(abs, z, v) = Walk(abs, Walk(abs, z, s), u)
      BY <2>1
    <2> QED
      BY <2>0, <2>2, <2>3, <2>4, <2>5
  <1>3. T = Seq(Part)
    <2> HIDE DEF T
    <2>1. T \in SUBSET Seq(Part)
      BY DEF T
    <2> QED
      BY <1>1, <1>2, <2>1, AllSequences
  <1> QED
    BY <1>3

LEMMA WalkShape ==
    ASSUME NEW abs \in BOOLEAN, NEW z \in Seq(Part), Shape(abs, z), NEW s \in Seq(Part)
    PROVE  Shape(abs, Walk(abs, z, s))
  <1> DEFINE T == {u \in Seq(Part) : Shape(abs, Walk(abs, z, u))}
  <1>1. <<>> \in T
    <2>1. <<>> \in Seq(Part)
      OBVIOUS
    <2>2. Walk(abs, z, <<>>) = z
      BY WalkNone, Zenon
    <2> QED
      BY <2>1, <2>2
  <1>2. ASSUME NEW u \in T, NEW x \in Part PROVE Append(u, x) \in T
    <2>0. u \in Seq(Part) /\ Append(u, x) \in Seq(Part) /\ Shape(abs, Walk(abs, z, u))
      BY AppendTyped
    <2>1. Walk(abs, z, Append(u, x)) = Step(abs, Walk(abs, z, u), x)
      BY <2>0, WalkNext, Zenon
    <2>2. Shape(abs, Step(abs, Walk(abs, z, u), x))
      BY <2>0, StepShape, Zenon
    <2> QED
      BY <2>0, <2>1, <2>2
  <1>3. T = Seq(Part)
    <2> HIDE DEF T
    <2>1. T \in SUBSET Seq(Part)
      BY DEF T
    <2> QED
      BY <1>1, <1>2, <2>1, AllSequences
  <1> QED
    BY <1>3

LEMMA NoneShaped == <<>> \in Seq(Part) /\ \A abs : Shape(abs, <<>>)
  BY DEF Shape

(* What is left of a relative path leads where the path does.               *)
LEMMA WalkReduced ==
    ASSUME NEW z \in Seq(Part), NEW s \in Seq(Part)
    PROVE  Walk(TRUE, z, s) = Walk(TRUE, z, Walk(FALSE, <<>>, s))
  <1> DEFINE T == {u \in Seq(Part) : Walk(TRUE, z, u) = Walk(TRUE, z, Walk(FALSE, <<>>, u))}
  <1>1. <<>> \in T
    <2>1. Walk(FALSE, <<>>, <<>>) = <<>>
      BY NoneShaped, WalkNone, Zenon
    <2> QED
      BY <2>1, NoneShaped
  <1>2. ASSUME NEW u \in T, NEW x \in Part PROVE Append(u, x) \in T
    <2>0. u \in Seq(Part) /\ Append(u, x) \in Seq(Part)
      BY AppendTyped
    <2>1. PICK r : r = Walk(FALSE, <<>>, u)
      BY Zenon
    <2>11. r \in Seq(Part)
      BY <2>0, <2>1, NoneShaped, WalkTyped, Zenon
    <2>2. /\ Walk(TRUE, z, Append(u, x)) = Step(TRUE, Walk(TRUE, z, u), x)
          /\ Walk(FALSE, <<>>, Append(u, x)) = Step(FALSE, r, x)
      BY <2>0, <2>1, NoneShaped, WalkNext, Zenon
    <2>3. Walk(TRUE, z, u) = Walk(TRUE, z, r)
      BY <2>1
    <2>4. Shape(FALSE, r)
      BY <2>0, <2>1, NoneShaped, WalkShape, Zenon
    <2>5. Walk(TRUE, z, Append(r, x)) = Step(TRUE, Walk(TRUE, z, r), x)
      BY <2>11, WalkNext, Zenon
    <2>6. Walk(TRUE, z, r) \in Seq(Part)
      BY <2>11, WalkTyped, Zenon
    <2>7. Step(TRUE, Walk(TRUE, z, r), x) = Walk(TRUE, z, Step(FALSE, r, x))
      <3>1. CASE x = "."
        BY <3>1, StepDot, Zenon
      <3>2. CASE x \in Segment
        <4>1. Step(FALSE, r, x) = Append(r, x)
          BY <3>2, StepName, Zenon
        <4> QED
          BY <2>5, <4>1
      <3>3. CASE x = ".." /\ (r = <<>> \/ Last(r) = "..")
        <4>1. Step(FALSE, r, x) = Append(r, x)
          BY <3>3, StepUp, Zenon
        <4> QED
          BY <2>5, <4>1
      <3>4. CASE x = ".." /\ r # <<>> /\ Last(r) # ".."
        <4>1. Step(FALSE, r, x) = Front(r)
          BY <3>4, StepBack, Zenon
        <4>2. Last(r) \in Segment
          <5>1. r \in Seq(Segment \cup {".."})
            BY <2>4 DEF Shape
          <5>2. Last(r) \in Segment \cup {".."}
            BY <3>4, <5>1, FrontIs
          <5> QED
            BY <3>4, <5>2
        <4>3. PICK h : h = Front(r)
          BY Zenon
        <4>4. PICK l : l = Last(r)
          BY Zenon
        <4>5. r = Append(h, l) /\ h \in Seq(Part)
          BY <2>11, <3>4, <4>3, <4>4, FrontIs, Zenon
        <4>6. l \in Part /\ l \in Segment
          BY <4>2, <4>4, PartIs, Zenon
        <4>7. PICK w : w = Walk(TRUE, z, h)
          BY Zenon
        <4>8. w \in Seq(Part) /\ Walk(TRUE, z, r) = Append(w, l)
          <5>1. w \in Seq(Part)
            BY <4>5, <4>7, WalkTyped, Zenon
          <5>2. Walk(TRUE, z, Append(h, l)) = Step(TRUE, w, l)
            BY <4>5, <4>6, <4>7, WalkNext, Zenon
          <5>3. Step(TRUE, w, l) = Append(w, l)
            BY <4>6, StepName, Zenon
          <5> QED
            BY <4>5, <5>1, <5>2, <5>3, Zenon
        <4>9. Append(w, l) # <<>> /\ Last(Append(w, l)) = l /\ Front(Append(w, l)) = w
          BY <4>6, <4>8, FrontAppend, Zenon
        <4>10. Step(TRUE, Append(w, l), "..") = w
          <5>1. l # ".."
            BY <4>6, PartIs, Zenon
          <5> QED
            BY <4>9, <5>1, StepBack, Zenon
        <4> QED
          BY <3>4, <4>1, <4>3, <4>7, <4>8, <4>10, Zenon
      <3> QED
        BY <3>1, <3>2, <3>3, <3>4, PartIs, Zenon
    <2> QED
      BY <2>0, <2>2, <2>3, <2>7
  <1>3. T = Seq(Part)
    <2> HIDE DEF T
    <2>1. T \in SUBSET Seq(Part)
      BY DEF T
    <2> QED
      BY <1>1, <1>2, <2>1, AllSequences
  <1> QED
    BY <1>3

(* Names are pushed one after the other.                                    *)
LEMMA NamesTyped == \A t \in Seq(Segment) : t \in Seq(Part)
  BY DEF Part

LEMMA WalkNames ==
    \A abs \in BOOLEAN : \A z \in Seq(Part) : \A t \in Seq(Segment) : Walk(abs, z, t) = z \o t
  <1> SUFFICES ASSUME NEW abs \in BOOLEAN, NEW z \in Seq(Part)
               PROVE  \A t \in Seq(Segment) : Walk(abs, z, t) = z \o t
    BY Zenon
  <1> DEFINE T == {u \in Seq(Segment) : Walk(abs, z, u) = z \o u}
  <1>1. <<>> \in T
    <2>1. z \o <<>> = z /\ <<>> \in Seq(Segment)
      BY ConcatEmptySeq
    <2>2. Walk(abs, z, <<>>) = z
      BY WalkNone, Zenon
    <2> QED
      BY <2>1, <2>2
  <1>2. ASSUME NEW u \in T, NEW x \in Segment PROVE Append(u, x) \in T
    <2>1. u \in Seq(Segment) /\ Append(u, x) \in Seq(Segment) /\ u \in Seq(Part) /\ x \in Part
      BY AppendTyped, NamesTyped, PartIs
    <2>2. Walk(abs, z, Append(u, x)) = Step(abs, Walk(abs, z, u), x)
      BY <2>1, WalkNext, Zenon
    <2>3. Step(abs, Walk(abs, z, u), x) = Append(Walk(abs, z, u), x)
      BY StepName, Zenon
    <2>4. Append(z \o u, x) = z \o Append(u, x)
      BY <2>1, AppendBehind, Zenon
    <2>5. Walk(abs, z, u) = z \o u
      OBVIOUS
    <2>6. Walk(abs, z, Append(u, x)) = z \o Append(u, x)
      BY <2>2, <2>3, <2>4, <2>5, Zenon
    <2> QED
      BY <2>1, <2>6
  <1>3. T = Seq(Segment)
    <2> HIDE DEF T
    <2>1. T \in SUBSET Seq(Segment)
      BY DEF T
    <2> QED
      BY <1>1, <1>2, <2>1, AllSequences
  <1> QED
    BY <1>3

(* The ".." of relative.                                                    *)
Ups(n) == [i \in 1 .. n |-> ".."]

LEMMA UpsIs == \A n \in Nat : Ups(n) \in Seq(Part) /\ Ups(n + 1) = <<"..">> \o Ups(n)
  <1> TAKE n \in Nat
  <1>1. \A k \in Nat : Ups(k) \in Seq(Part) /\ Len(Ups(k)) = k /\ \A i \in 1 .. k : Ups(k)[i] = ".."
    BY PartIs DEF Ups
  <1>2. PICK a : a = Ups(n)
    BY Zenon
  <1>3. PICK b : b = Ups(n + 1)
    BY Zenon
  <1>4. PICK c : c = <<"..">>
    BY Zenon
  <1>5. c \in Seq(Part) /\ Len(c) = 1 /\ c[1] = ".."
    BY <1>4, PartIs
  <1>6. /\ a \in Seq(Part) /\ Len(a) = n /\ \A i \in 1 .. n : a[i] = ".."
        /\ b \in Seq(Part) /\ Len(b) = n + 1 /\ \A i \in 1 .. n + 1 : b[i] = ".."
    BY <1>1, <1>2, <1>3
  <1>7. PICK e : e = c \o a
    BY Zenon
  <1>8. /\ e \in Seq(Part) /\ Len(e) = 1 + n
        /\ \A i \in 1 .. 1 + n : e[i] = IF i <= 1 THEN c[i] ELSE a[i - 1]
    <2>1. /\ c \o a \in Seq(Part) /\ Len(c \o a) = Len(c) + Len(a)
          /\ \A i \in 1 .. Len(c) + Len(a) : (c \o a)[i] = IF i <= Len(c) THEN c[i] ELSE a[i - Len(c)]
      BY <1>5, <1>6, ConcatProperties, Zenon
    <2> QED
      BY <1>5, <1>6, <1>7, <2>1
  <1>9. \A i \in 1 .. n + 1 : e[i] = ".."
    <2> TAKE i \in 1 .. n + 1
    <2>1. CASE i = 1
      BY <1>5, <1>8, <2>1
    <2>2. CASE i # 1
      <3>1. i - 1 \in 1 .. n /\ ~(i <= 1)
        BY <2>2
      <3> QED
        BY <1>6, <1>8, <3>1
    <2> QED
      BY <2>1, <2>2
  <1>10. b = e
    <2>1. Len(b) = Len(e)
      BY <1>6, <1>8
    <2>2. \A i \in 1 .. Len(b) : b[i] = e[i]
      BY <1>6, <1>9
    <2> QED
      BY <1>6, <1>8, <2>1, <2>2, SeqEqual
  <1> QED
    BY <1>2, <1>3, <1>4, <1>6, <1>7, <1>10

(* Every ".." takes back one name.                                          *)
LEMMA WalkUp == \A g \in Seq(Part) : \A t \in Seq(Segment) : Walk(TRUE, g \o t, Ups(Len(t))) = g
  <1> SUFFICES ASSUME NEW g \in Seq(Part)
               PROVE  \A t \in Seq(Segment) : Walk(TRUE, g \o t, Ups(Len(t))) = g
    BY Zenon
  <1> DEFINE T == {u \in Seq(Segment) : Walk(TRUE, g \o u, Ups(Len(u))) = g}
  <1>1. <<>> \in T
    <2>1. g \o <<>> = g /\ <<>> \in Seq(Segment) /\ Ups(Len(<<>>)) = <<>>
      BY ConcatEmptySeq DEF Ups
    <2>2. Walk(TRUE, g, <<>>) = g
      BY WalkNone, Zenon
    <2> QED
      BY <2>1, <2>2
  <1>2. ASSUME NEW u \in T, NEW x \in Segment PROVE Append(u, x) \in T
    <2>1. u \in Seq(Segment) /\ Append(u, x) \in Seq(Segment) /\ u \in Seq(Part) /\ x \in Part
      BY AppendTyped, NamesTyped, PartIs
    <2>2. PICK n \in Nat : n = Len(u) /\ Len(Append(u, x)) = n + 1
      BY <2>1
    <2>3. PICK w : w = g \o u
      BY Zenon
    <2>4. w \in Seq(Part) /\ g \o Append(u, x) = Append(w, x)
      BY <2>1, <2>3, AppendBehind, Zenon
    <2>5. Append(w, x) \in Seq(Part) /\ Append(w, x) # <<>> /\ Last(Append(w, x)) = x /\ Front(Append(w, x)) = w
      BY <2>1, <2>4, FrontAppend, Zenon
    <2>6. Step(TRUE, Append(w, x), "..") = w
      <3>1. x # ".."
        BY PartIs, Zenon
      <3> QED
        BY <2>5, <3>1, StepBack, Zenon
    <2>7. ".." \in Part /\ <<>> \in Seq(Part) /\ <<"..">> \in Seq(Part) /\ <<"..">> = Append(<<>>, "..")
      BY PartIs
    <2>8. Walk(TRUE, Append(w, x), <<"..">>) = w
      <3>1. Walk(TRUE, Append(w, x), <<>>) = Append(w, x)
        BY <2>5, WalkNone, Zenon
      <3>2. Walk(TRUE, Append(w, x), Append(<<>>, "..")) = Step(TRUE, Walk(TRUE, Append(w, x), <<>>), "..")
        BY <2>5, <2>7, WalkNext, Zenon
      <3> QED
        BY <2>6, <2>7, <3>1, <3>2, Zenon
    <2>9. Ups(n) \in Seq(Part) /\ Ups(n + 1) = <<"..">> \o Ups(n)
      BY UpsIs, Zenon
    <2>10. Walk(TRUE, Append(w, x), <<"..">> \o Ups(n)) = Walk(TRUE, Walk(TRUE, Append(w, x), <<"..">>), Ups(n))
      <3>1. Append(w, x) \in Seq(Part) /\ <<"..">> \in Seq(Part) /\ Ups(n) \in Seq(Part)
        BY <2>5, <2>7, <2>9, Zenon
      <3> QED
        BY <3>1, WalkOver, Zenon
    <2>11. Walk(TRUE, w, Ups(n)) = g
      BY <2>2, <2>3
    <2>12. Walk(TRUE, g \o Append(u, x), Ups(Len(Append(u, x)))) = g
      BY <2>2, <2>4, <2>8, <2>9, <2>10, <2>11, Zenon
    <2> QED
      BY <2>1, <2>12
  <1>3. T = Seq(Segment)
    <2> HIDE DEF T
    <2>1. T \in SUBSET Seq(Segment)
      BY DEF T
    <2> QED
      BY <1>1, <1>2, <2>1, AllSequences
  <1> QED
    BY <1>3

-----------------------------------------------------------------------------
(* Texts put behind one another.                                            *)

Text == [abs : BOOLEAN, segs : Seq(Part), trailing : BOOLEAN]

LEMMA PathTextIsText == \A p \in PathText : p \in Text
  <1> TAKE p \in PathText
  <1>1. p \in [abs : BOOLEAN, segs : SeqOf(Part, MaxSegs), trailing : BOOLEAN]
    BY DEF PathText
  <1>2. p.segs \in UNION {[1 .. m -> Part] : m \in 0 .. MaxSegs}
    BY <1>1 DEF SeqOf
  <1>3. PICK m \in 0 .. MaxSegs : p.segs \in [1 .. m -> Part]
    BY <1>2
  <1>4. CASE m \in Nat
    BY <1>1, <1>3, <1>4 DEF Text
  <1>5. CASE m \notin Nat
    BY <1>3, <1>5
  <1> QED
    BY <1>4, <1>5

LEMMA TextIs ==
    \A p \in Text : /\ p.abs \in BOOLEAN /\ p.segs \in Seq(Part) /\ p.trailing \in BOOLEAN
                    /\ p = [abs |-> p.abs, segs |-> p.segs, trailing |-> p.trailing]
  BY DEF Text

LEMMA TextMade ==
    \A a, b \in BOOLEAN : \A s \in Seq(Part) : [abs |-> a, segs |-> s, trailing |-> b] \in Text
  BY DEF Text

LEMMA TextsSame ==
    \A p, q \in Text : p.abs = q.abs /\ p.segs = q.segs /\ p.trailing = q.trailing => p = q
  BY DEF Text

LEMMA BareIs == \A p \in Text : Bare(p) = [abs |-> p.abs, segs |-> p.segs, trailing |-> FALSE]
  <1> TAKE p \in Text
  <1>1. Bare(p) = [p EXCEPT !.trailing = FALSE]
    BY Zenon DEF Bare
  <1> QED
    BY <1>1, TextIs DEF Text

LEMMA EmptyText == Empty \in Text /\ Dot \in Text /\ Root \in Text /\ cwd \in Text
  <1>1. Cwd \in Seq(Part)
    BY CwdAssumption, NamesTyped
  <1>2. <<>> \in Seq(Part) /\ <<".">> \in Seq(Part)
    BY PartIs
  <1> QED
    BY <1>1, <1>2 DEF Text, Empty, Dot, Rel, Root, cwd

LEMMA BehindTyped == \A p, q \in Text : Behind(p, q) \in Text
  <1> TAKE p, q \in Text
  <1>1. p.segs \in Seq(Part) /\ q.segs \in Seq(Part) /\ p.abs \in BOOLEAN /\ q.trailing \in BOOLEAN
    BY TextIs
  <1>2. PICK s : s = p.segs \o q.segs
    BY Zenon
  <1>3. s \in Seq(Part)
    BY <1>1, <1>2
  <1>4. PICK b \in BOOLEAN : b <=> (q.trailing \/ q.segs = <<>>) /\ s # <<>>
    OBVIOUS
  <1> QED
    BY <1>1, <1>2, <1>3 DEF Behind, Text

LEMMA BehindEmpty == \A p : Behind(Empty, p) = p /\ Behind(p, Empty) = p
  BY Zenon DEF Behind

(* Joined puts each of its parts behind those before.                       *)
LEMMA JoinedRounds ==
    ASSUME NEW parts, Len(parts) \in Nat,
           NEW f, f = [n \in 0 .. Len(parts) |-> IF n = 0 THEN Empty ELSE Behind(f[n - 1], parts[n])]
    PROVE  \E g : /\ Joined(parts) = g[Len(parts)]
                  /\ g[0] = Empty
                  /\ \A n \in 1 .. Len(parts) : g[n] = Behind(g[n - 1], parts[n])
  <1> DEFINE text[n \in 0 .. Len(parts)] == IF n = 0 THEN Empty ELSE Behind(text[n - 1], parts[n])
  <1>1. Joined(parts) = text[Len(parts)]
    BY Zenon DEF Joined
  <1>2. text = [n \in 0 .. Len(parts) |-> IF n = 0 THEN Empty ELSE Behind(text[n - 1], parts[n])]
    BY Zenon
  <1> HIDE DEF text
  <1>3. 0 \in 0 .. Len(parts) /\ \A n \in 1 .. Len(parts) : n \in 0 .. Len(parts) /\ n # 0
    OBVIOUS
  <1>4. text[0] = Empty /\ \A n \in 1 .. Len(parts) : text[n] = Behind(text[n - 1], parts[n])
    BY <1>2, <1>3
  <1> QED
    BY <1>1, <1>4

LEMMA JoinedOne == \A a : Joined(<<a>>) = a
  <1> TAKE a
  <1> DEFINE f == [i \in 0 .. 1 |-> IF i = 0 THEN Empty ELSE a]
  <1>0. PICK p : p = <<a>>
    BY Zenon
  <1>1. Len(p) = 1 /\ p[1] = a
    BY <1>0
  <1>2. f = [n \in 0 .. 1 |-> IF n = 0 THEN Empty ELSE Behind(f[n - 1], p[n])]
    <2>1. \A n \in 0 .. 1 : n = 0 \/ (n = 1 /\ n - 1 = 0)
      OBVIOUS
    <2>2. Behind(f[0], p[1]) = f[1]
      BY <1>1, BehindEmpty
    <2> QED
      BY <2>1, <2>2
  <1> HIDE DEF f
  <1>3. PICK g : /\ Joined(p) = g[1] /\ g[0] = Empty
                 /\ \A n \in 1 .. 1 : g[n] = Behind(g[n - 1], p[n])
    BY <1>1, <1>2, JoinedRounds
  <1>4. g[1] = Behind(g[0], p[1])
    BY <1>3
  <1> QED
    BY <1>0, <1>1, <1>3, <1>4, BehindEmpty

LEMMA JoinedTwo == \A a, b : Joined(<<a, b>>) = Behind(a, b)
  <1> TAKE a, b
  <1> DEFINE f == [i \in 0 .. 2 |-> IF i = 0 THEN Empty ELSE IF i = 1 THEN a ELSE Behind(a, b)]
  <1>0. PICK p : p = <<a, b>>
    BY Zenon
  <1>1. Len(p) = 2 /\ p[1] = a /\ p[2] = b
    BY <1>0
  <1>2. f = [n \in 0 .. 2 |-> IF n = 0 THEN Empty ELSE Behind(f[n - 1], p[n])]
    <2>1. \A n \in 0 .. 2 : n = 0 \/ (n = 1 /\ n - 1 = 0) \/ (n = 2 /\ n - 1 = 1)
      OBVIOUS
    <2>2. Behind(f[0], p[1]) = f[1] /\ Behind(f[1], p[2]) = f[2]
      BY <1>1, BehindEmpty
    <2> QED
      BY <2>1, <2>2
  <1> HIDE DEF f
  <1>3. PICK g : /\ Joined(p) = g[2] /\ g[0] = Empty
                 /\ \A n \in 1 .. 2 : g[n] = Behind(g[n - 1], p[n])
    BY <1>1, <1>2, JoinedRounds
  <1>4. g[1] = Behind(g[0], p[1]) /\ g[2] = Behind(g[1], p[2])
    BY <1>3
  <1> QED
    BY <1>0, <1>1, <1>3, <1>4, BehindEmpty

LEMMA JoinedThree == \A a, b, c : Joined(<<a, b, c>>) = Behind(Behind(a, b), c)
  <1> TAKE a, b, c
  <1> DEFINE f == [i \in 0 .. 3 |-> IF i = 0 THEN Empty ELSE IF i = 1 THEN a
                                    ELSE IF i = 2 THEN Behind(a, b) ELSE Behind(Behind(a, b), c)]
  <1>0. PICK p : p = <<a, b, c>>
    BY Zenon
  <1>1. Len(p) = 3 /\ p[1] = a /\ p[2] = b /\ p[3] = c
    BY <1>0
  <1>2. f = [n \in 0 .. 3 |-> IF n = 0 THEN Empty ELSE Behind(f[n - 1], p[n])]
    <2>1. \A n \in 0 .. 3 : n = 0 \/ (n = 1 /\ n - 1 = 0) \/ (n = 2 /\ n - 1 = 1) \/ (n = 3 /\ n - 1 = 2)
      OBVIOUS
    <2>2. Behind(f[0], p[1]) = f[1] /\ Behind(f[1], p[2]) = f[2] /\ Behind(f[2], p[3]) = f[3]
      BY <1>1, BehindEmpty
    <2> QED
      BY <2>1, <2>2
  <1> HIDE DEF f
  <1>3. PICK g : /\ Joined(p) = g[3] /\ g[0] = Empty
                 /\ \A n \in 1 .. 3 : g[n] = Behind(g[n - 1], p[n])
    BY <1>1, <1>2, JoinedRounds
  <1>4. g[1] = Behind(g[0], p[1]) /\ g[2] = Behind(g[1], p[2]) /\ g[3] = Behind(g[2], p[3])
    BY <1>3
  <1> QED
    BY <1>0, <1>1, <1>3, <1>4, BehindEmpty

LEMMA OneThenOne == \A a, b : <<a>> \o <<b>> = <<a, b>>
  <1> TAKE a, b
  <1> DEFINE S == {a, b}
  <1>1. PICK s : s = <<a>>
    BY Zenon
  <1>2. PICK t : t = <<b>>
    BY Zenon
  <1>3. s \in Seq(S) /\ t \in Seq(S) /\ Len(s) = 1 /\ Len(t) = 1 /\ s[1] = a /\ t[1] = b
    BY <1>1, <1>2
  <1>4. PICK u : u = <<a, b>>
    BY Zenon
  <1>5. u \in Seq(S) /\ Len(u) = 2 /\ u[1] = a /\ u[2] = b
    BY <1>4
  <1> HIDE DEF S
  <1>6. PICK v : v = s \o t
    BY Zenon
  <1>7. /\ v \in Seq(S) /\ Len(v) = Len(s) + Len(t)
        /\ \A i \in 1 .. Len(s) + Len(t) : v[i] = IF i <= Len(s) THEN s[i] ELSE t[i - Len(s)]
    BY <1>3, <1>6, ConcatProperties
  <1>8. Len(v) = 2 /\ v[1] = a /\ v[2] = b
    BY <1>3, <1>7
  <1>9. \A i \in 1 .. Len(u) : u[i] = v[i]
    BY <1>5, <1>8
  <1>10. u = v
    BY <1>5, <1>7, <1>8, <1>9, SeqEqual
  <1> QED
    BY <1>1, <1>2, <1>4, <1>6, <1>10, Zenon

LEMMA OneThenTwo == \A a, b, c : <<a>> \o <<b, c>> = <<a, b, c>>
  <1> TAKE a, b, c
  <1> DEFINE S == {a, b, c}
  <1>1. PICK s : s = <<a>>
    BY Zenon
  <1>2. PICK t : t = <<b, c>>
    BY Zenon
  <1>3. s \in Seq(S) /\ t \in Seq(S) /\ Len(s) = 1 /\ Len(t) = 2 /\ s[1] = a /\ t[1] = b /\ t[2] = c
    BY <1>1, <1>2
  <1>4. PICK u : u = <<a, b, c>>
    BY Zenon
  <1>5. u \in Seq(S) /\ Len(u) = 3 /\ u[1] = a /\ u[2] = b /\ u[3] = c
    BY <1>4
  <1> HIDE DEF S
  <1>6. PICK v : v = s \o t
    BY Zenon
  <1>7. /\ v \in Seq(S) /\ Len(v) = Len(s) + Len(t)
        /\ \A i \in 1 .. Len(s) + Len(t) : v[i] = IF i <= Len(s) THEN s[i] ELSE t[i - Len(s)]
    BY <1>3, <1>6, ConcatProperties
  <1>8. Len(v) = 3 /\ v[1] = a /\ v[2] = b /\ v[3] = c
    BY <1>3, <1>7
  <1>9. \A i \in 1 .. Len(u) : u[i] = v[i]
    BY <1>5, <1>8
  <1>10. u = v
    BY <1>5, <1>7, <1>8, <1>9, SeqEqual
  <1> QED
    BY <1>1, <1>2, <1>4, <1>6, <1>10, Zenon

LEMMA WholeIsAll == \A S : \A s \in Seq(S) : SubSeq(s, 1, Len(s)) = s
  BY SubSeqFull

(* What resolve does with one or two arguments.                             *)
LEMMA ResolveOne ==
    \A p : /\ p.abs => resolve_parts(<<p>>) = normalize(p)
           /\ ~p.abs => resolve_parts(<<p>>) = normalize(Behind(cwd, p))
  <1> TAKE p
  <1> DEFINE parts == <<p>>
             absolute == {i \in DOMAIN parts : parts[i].abs}
             from == CHOOSE i \in absolute : \A j \in absolute : j <= i
  <1>1. DOMAIN parts = {1} /\ parts[1] = p /\ Len(parts) = 1
    OBVIOUS
  <1>2. CASE p.abs
    <2>1. absolute = {1}
      BY <1>1, <1>2
    <2>2. from = 1
      BY <2>1
    <2>3. SubSeq(parts, 1, 1) = <<p>>
      <3>1. parts \in Seq({p})
        OBVIOUS
      <3>2. SubSeq(parts, 1, Len(parts)) = parts
        BY <3>1, WholeIsAll, Zenon
      <3> QED
        BY <1>1, <3>2, Zenon
    <2>4. absolute # {}
      BY <2>1
    <2>5. resolve_parts(parts) =
              normalize(Joined(IF absolute = {} THEN <<cwd>> \o parts ELSE SubSeq(parts, from, Len(parts))))
      BY Zenon DEF resolve_parts
    <2> HIDE DEF absolute, from
    <2>6. resolve_parts(parts) = normalize(Joined(<<p>>))
      BY <1>1, <2>2, <2>3, <2>4, <2>5
    <2> QED
      BY <1>2, <2>6, JoinedOne
  <1>3. CASE ~p.abs
    <2>1. absolute = {}
      BY <1>1, <1>3
    <2>2. <<cwd>> \o parts = <<cwd, p>>
      BY OneThenOne, Zenon
    <2>3. resolve_parts(parts) =
              normalize(Joined(IF absolute = {} THEN <<cwd>> \o parts ELSE SubSeq(parts, from, Len(parts))))
      BY Zenon DEF resolve_parts
    <2> HIDE DEF absolute, from
    <2>4. resolve_parts(parts) = normalize(Joined(<<cwd, p>>))
      BY <2>1, <2>2, <2>3
    <2> QED
      BY <1>3, <2>4, JoinedTwo
  <1> QED
    BY <1>2, <1>3

LEMMA ResolveTwo ==
    \A p, q : ~q.abs =>
        /\ p.abs => resolve_parts(<<p, q>>) = normalize(Behind(p, q))
        /\ ~p.abs => resolve_parts(<<p, q>>) = normalize(Behind(Behind(cwd, p), q))
  <1> SUFFICES ASSUME NEW p, NEW q, ~q.abs
               PROVE  /\ p.abs => resolve_parts(<<p, q>>) = normalize(Behind(p, q))
                      /\ ~p.abs => resolve_parts(<<p, q>>) = normalize(Behind(Behind(cwd, p), q))
    BY Zenon
  <1> DEFINE parts == <<p, q>>
             absolute == {i \in DOMAIN parts : parts[i].abs}
             from == CHOOSE i \in absolute : \A j \in absolute : j <= i
  <1>1. DOMAIN parts = {1, 2} /\ parts[1] = p /\ parts[2] = q /\ Len(parts) = 2
    OBVIOUS
  <1>2. CASE p.abs
    <2>1. absolute = {1}
      BY <1>1, <1>2
    <2>2. from = 1
      BY <2>1
    <2>3. SubSeq(parts, 1, 2) = <<p, q>>
      <3>1. parts \in Seq({p, q})
        OBVIOUS
      <3>2. SubSeq(parts, 1, Len(parts)) = parts
        BY <3>1, WholeIsAll, Zenon
      <3> QED
        BY <1>1, <3>2, Zenon
    <2>4. absolute # {}
      BY <2>1
    <2>5. resolve_parts(parts) =
              normalize(Joined(IF absolute = {} THEN <<cwd>> \o parts ELSE SubSeq(parts, from, Len(parts))))
      BY Zenon DEF resolve_parts
    <2> HIDE DEF absolute, from
    <2>6. resolve_parts(parts) = normalize(Joined(<<p, q>>))
      BY <1>1, <2>2, <2>3, <2>4, <2>5
    <2> QED
      BY <1>2, <2>6, JoinedTwo
  <1>3. CASE ~p.abs
    <2>1. absolute = {}
      BY <1>1, <1>3
    <2>2. <<cwd>> \o parts = <<cwd, p, q>>
      BY OneThenTwo, Zenon
    <2>3. resolve_parts(parts) =
              normalize(Joined(IF absolute = {} THEN <<cwd>> \o parts ELSE SubSeq(parts, from, Len(parts))))
      BY Zenon DEF resolve_parts
    <2> HIDE DEF absolute, from
    <2>4. resolve_parts(parts) = normalize(Joined(<<cwd, p, q>>))
      BY <2>1, <2>2, <2>3
    <2> QED
      BY <1>3, <2>4, JoinedThree
  <1> QED
    BY <1>2, <1>3

-----------------------------------------------------------------------------
(* Where texts lead.                                                        *)

Where(z) == [abs |-> TRUE, segs |-> z, trailing |-> FALSE]

(* Behind a relative text the first one stays in front.                     *)
LEMMA BehindIs ==
    \A p, q \in Text : ~q.abs =>
        Behind(p, q) \in Text /\ Behind(p, q).abs = p.abs /\ Behind(p, q).segs = p.segs \o q.segs
  <1> SUFFICES ASSUME NEW p \in Text, NEW q \in Text, ~q.abs
               PROVE  Behind(p, q) \in Text /\ Behind(p, q).abs = p.abs /\ Behind(p, q).segs = p.segs \o q.segs
    BY Zenon
  <1>0. Behind(p, q) \in Text
    BY BehindTyped, Zenon
  <1>1. p.segs \in Seq(Part) /\ q.segs \in Seq(Part) /\ p.abs \in BOOLEAN /\ q.abs = FALSE
    BY TextIs DEF Text
  <1>2. <<>> \o q.segs = q.segs /\ p.segs \o <<>> = p.segs
    BY <1>1, ConcatEmptySeq
  <1>3. CASE p = Empty
    BY <1>0, <1>1, <1>2, <1>3 DEF Behind, Empty
  <1>4. CASE p # Empty /\ q = Empty
    BY <1>0, <1>1, <1>2, <1>4 DEF Behind, Empty
  <1>5. CASE p # Empty /\ q # Empty
    BY <1>0, <1>1, <1>5 DEF Behind
  <1> QED
    BY <1>3, <1>4, <1>5

(* An absolute path is reduced to names.                                    *)
LEMMA AbsNames == \A s \in Seq(Part) : Walk(TRUE, <<>>, s) \in Seq(Segment)
  <1> TAKE s \in Seq(Part)
  <1>1. PICK z : z = Walk(TRUE, <<>>, s)
    BY Zenon
  <1>2. Shape(TRUE, z)
    BY <1>1, NoneShaped, WalkShape, Zenon
  <1>3. z \in Seq(Segment \cup {".."}) /\ \A i \in 1 .. Len(z) : z[i] # ".."
    BY <1>2 DEF Shape
  <1>4. Len(z) \in Nat /\ z = [i \in 1 .. Len(z) |-> z[i]] /\ \A i \in 1 .. Len(z) : z[i] \in Segment
    BY <1>3
  <1>5. z \in Seq(Segment)
    BY <1>4
  <1> QED
    BY <1>1, <1>5

LEMMA WalkFromRoot == \A z \in Seq(Segment) : Walk(TRUE, <<>>, z) = z
  <1> TAKE z \in Seq(Segment)
  <1>1. Walk(TRUE, <<>>, z) = <<>> \o z
    BY NoneShaped, WalkNames, Zenon
  <1> QED
    BY <1>1, ConcatEmptySeq

LEMMA WalkDot == \A abs \in BOOLEAN : \A z \in Seq(Part) : Walk(abs, z, <<".">>) = z
  <1> SUFFICES ASSUME NEW abs \in BOOLEAN, NEW z \in Seq(Part) PROVE Walk(abs, z, <<".">>) = z
    BY Zenon
  <1>1. "." \in Part /\ <<>> \in Seq(Part) /\ <<".">> = Append(<<>>, ".")
    BY PartIs
  <1>2. Walk(abs, z, Append(<<>>, ".")) = Step(abs, Walk(abs, z, <<>>), ".")
    BY <1>1, WalkNext, Zenon
  <1>3. Step(abs, Walk(abs, z, <<>>), ".") = Walk(abs, z, <<>>)
    BY StepDot, Zenon
  <1> QED
    BY <1>1, <1>2, <1>3, WalkNone, Zenon

LEMMA NormalizeAbs ==
    \A p \in Text : p.abs =>
        /\ normalize(p) \in Text /\ normalize(p).abs
        /\ normalize(p).segs = Walk(TRUE, <<>>, p.segs)
        /\ Bare(normalize(p)) = Where(Walk(TRUE, <<>>, p.segs))
  <1> SUFFICES ASSUME NEW p \in Text, p.abs
               PROVE  /\ normalize(p) \in Text /\ normalize(p).abs
                      /\ normalize(p).segs = Walk(TRUE, <<>>, p.segs)
                      /\ Bare(normalize(p)) = Where(Walk(TRUE, <<>>, p.segs))
    BY Zenon
  <1>1. p.abs = TRUE /\ p.segs \in Seq(Part) /\ p.trailing \in BOOLEAN /\ p # Empty
    BY TextIs DEF Empty
  <1>2. PICK w : w = Walk(TRUE, <<>>, p.segs)
    BY Zenon
  <1>3. w \in Seq(Part) /\ Reduced(p) = w
    <2>1. w \in Seq(Part)
      BY <1>1, <1>2, NoneShaped, WalkTyped, Zenon
    <2> QED
      BY <1>1, <1>2, <2>1, Zenon DEF Reduced
  <1>4. CASE w # <<>>
    <2>1. normalize(p) = [p EXCEPT !.segs = w]
      BY <1>1, <1>3, <1>4, Zenon DEF normalize
    <2>2. normalize(p) = [abs |-> TRUE, segs |-> w, trailing |-> p.trailing]
      BY <1>1, <2>1, TextIs DEF Text
    <2>3. normalize(p) \in Text /\ normalize(p).abs /\ normalize(p).segs = w
      BY <1>1, <1>3, <2>2 DEF Text
    <2>4. Bare(normalize(p)) = Where(w)
      <3>1. Bare(normalize(p)) = [abs |-> normalize(p).abs, segs |-> normalize(p).segs, trailing |-> FALSE]
        BY <2>3, BareIs, Zenon
      <3>2. normalize(p).abs = TRUE
        BY <2>2
      <3> QED
        BY <2>3, <3>1, <3>2, Zenon DEF Where
    <2> QED
      BY <1>2, <2>3, <2>4, Zenon
  <1>5. CASE w = <<>>
    <2>1. normalize(p) = Root
      BY <1>1, <1>3, <1>5, Zenon DEF normalize
    <2>2. Root \in Text /\ Root.abs /\ Root.segs = w
      BY <1>5, EmptyText DEF Root
    <2>3. Bare(Root) = Where(w)
      <3>1. Bare(Root) = [abs |-> Root.abs, segs |-> Root.segs, trailing |-> FALSE]
        BY <2>2, BareIs, Zenon
      <3>2. Root.abs = TRUE
        BY DEF Root
      <3> QED
        BY <2>2, <3>1, <3>2, Zenon DEF Where
    <2> QED
      BY <1>2, <2>1, <2>2, <2>3, Zenon
  <1> QED
    BY <1>4, <1>5

LEMMA NormalizeRel ==
    \A p \in Text : ~p.abs /\ ~Vanishes(p) =>
        /\ normalize(p) \in Text /\ ~normalize(p).abs
        /\ \A z \in Seq(Part) : Walk(TRUE, z, normalize(p).segs) = Walk(TRUE, z, p.segs)
  <1> SUFFICES ASSUME NEW p \in Text, ~p.abs, ~Vanishes(p)
               PROVE  /\ normalize(p) \in Text /\ ~normalize(p).abs
                      /\ \A z \in Seq(Part) : Walk(TRUE, z, normalize(p).segs) = Walk(TRUE, z, p.segs)
    BY Zenon
  <1>1. p.abs = FALSE /\ p.segs \in Seq(Part) /\ p.trailing \in BOOLEAN
    BY TextIs
  <1>2. PICK w : w = Walk(FALSE, <<>>, p.segs)
    BY Zenon
  <1>3. w \in Seq(Part) /\ Reduced(p) = w
    <2>1. w \in Seq(Part)
      BY <1>1, <1>2, NoneShaped, WalkTyped, Zenon
    <2> QED
      BY <1>1, <1>2, <2>1, Zenon DEF Reduced
  <1>4. \A z \in Seq(Part) : Walk(TRUE, z, p.segs) = Walk(TRUE, z, w)
    BY <1>1, <1>2, WalkReduced, Zenon
  <1>5. CASE p # Empty /\ w # <<>>
    <2>1. normalize(p) = [p EXCEPT !.segs = w]
      BY <1>3, <1>5, Zenon DEF normalize
    <2>2. normalize(p) = [abs |-> FALSE, segs |-> w, trailing |-> p.trailing]
      BY <1>1, <2>1, TextIs DEF Text
    <2>3. normalize(p) \in Text /\ ~normalize(p).abs /\ normalize(p).segs = w
      BY <1>1, <1>3, <2>2 DEF Text
    <2> QED
      BY <1>4, <2>3, Zenon
  <1>6. CASE p = Empty \/ w = <<>>
    <2>1. p = Empty => p.segs = <<>>
      BY DEF Empty
    <2>2. w = <<>>
      BY <1>2, <1>6, <2>1, NoneShaped, WalkNone, Zenon
    <2>3. normalize(p) = Dot
      <3>1. p # Empty => ~p.trailing
        BY <1>3, <2>2 DEF Vanishes
      <3> QED
        BY <1>1, <1>3, <2>2, <3>1, Zenon DEF normalize
    <2>4. Dot \in Text /\ ~Dot.abs /\ Dot.segs = <<".">>
      BY EmptyText DEF Dot, Rel
    <2>5. ASSUME NEW z \in Seq(Part) PROVE Walk(TRUE, z, <<".">>) = Walk(TRUE, z, p.segs)
      <3>1. Walk(TRUE, z, <<".">>) = z /\ Walk(TRUE, z, <<>>) = z
        BY WalkDot, WalkNone, Zenon
      <3> QED
        BY <1>4, <2>2, <3>1, Zenon
    <2> QED
      BY <2>3, <2>4, <2>5, Zenon
  <1> QED
    BY <1>5, <1>6

(* A text leads to the directory its segments reach, from the root or from  *)
(* the working directory.                                                   *)
Base(p) == IF p.abs THEN <<>> ELSE Cwd

LEMMA CwdIs == Cwd \in Seq(Part) /\ Cwd \in Seq(Segment) /\ \A p : Base(p) \in Seq(Part)
  BY CwdAssumption, NamesTyped, NoneShaped DEF Base

LEMMA CwdBehind ==
    \A p \in Text : ~p.abs =>
        /\ Behind(cwd, p) \in Text /\ Behind(cwd, p).abs
        /\ Walk(TRUE, <<>>, Behind(cwd, p).segs) = Walk(TRUE, Cwd, p.segs)
  <1> SUFFICES ASSUME NEW p \in Text, ~p.abs
               PROVE  /\ Behind(cwd, p) \in Text /\ Behind(cwd, p).abs
                      /\ Walk(TRUE, <<>>, Behind(cwd, p).segs) = Walk(TRUE, Cwd, p.segs)
    BY Zenon
  <1>1. cwd \in Text /\ cwd.abs = TRUE /\ cwd.segs = Cwd
    BY EmptyText DEF cwd
  <1>2. Behind(cwd, p) \in Text /\ Behind(cwd, p).abs /\ Behind(cwd, p).segs = Cwd \o p.segs
    BY <1>1, BehindIs, Zenon
  <1>3. p.segs \in Seq(Part)
    BY TextIs
  <1>4. Walk(TRUE, <<>>, Cwd \o p.segs) = Walk(TRUE, Walk(TRUE, <<>>, Cwd), p.segs)
    BY <1>3, CwdIs, NoneShaped, WalkOver, Zenon
  <1>5. Walk(TRUE, <<>>, Cwd) = Cwd
    BY CwdIs, WalkFromRoot, Zenon
  <1> QED
    BY <1>2, <1>4, <1>5, Zenon

LEMMA LeadsThere == \A p \in Text : Leads(p) = Where(Walk(TRUE, Base(p), p.segs))
  <1> TAKE p \in Text
  <1>1. CASE p.abs
    <2>1. resolve_parts(<<p>>) = normalize(p)
      BY <1>1, ResolveOne, Zenon
    <2>2. Bare(normalize(p)) = Where(Walk(TRUE, <<>>, p.segs))
      BY <1>1, NormalizeAbs, Zenon
    <2> QED
      BY <1>1, <2>1, <2>2, Zenon DEF Leads, Base
  <1>2. CASE ~p.abs
    <2>1. resolve_parts(<<p>>) = normalize(Behind(cwd, p))
      BY <1>2, ResolveOne, Zenon
    <2>2. /\ Behind(cwd, p) \in Text /\ Behind(cwd, p).abs
          /\ Walk(TRUE, <<>>, Behind(cwd, p).segs) = Walk(TRUE, Cwd, p.segs)
      BY <1>2, CwdBehind, Zenon
    <2>3. Bare(normalize(Behind(cwd, p))) = Where(Walk(TRUE, <<>>, Behind(cwd, p).segs))
      BY <2>2, NormalizeAbs, Zenon
    <2> QED
      BY <1>2, <2>1, <2>2, <2>3, Zenon DEF Leads, Base
  <1> QED
    BY <1>1, <1>2

-----------------------------------------------------------------------------
(* The four agreements.                                                     *)

(* Normalizing first changes nothing.                                       *)
LEMMA NormalizeLeads == \A p \in Text : ~Vanishes(p) => Leads(normalize(p)) = Leads(p)
  <1> SUFFICES ASSUME NEW p \in Text, ~Vanishes(p) PROVE Leads(normalize(p)) = Leads(p)
    BY Zenon
  <1>1. p.segs \in Seq(Part) /\ Leads(p) = Where(Walk(TRUE, Base(p), p.segs))
    BY LeadsThere, TextIs, Zenon
  <1>2. CASE p.abs
    <2>1. /\ normalize(p) \in Text /\ normalize(p).abs
          /\ normalize(p).segs = Walk(TRUE, <<>>, p.segs)
      BY <1>2, NormalizeAbs, Zenon
    <2>2. Leads(normalize(p)) = Where(Walk(TRUE, <<>>, Walk(TRUE, <<>>, p.segs)))
      BY <2>1, LeadsThere, Zenon DEF Base
    <2>3. Walk(TRUE, <<>>, Walk(TRUE, <<>>, p.segs)) = Walk(TRUE, <<>>, p.segs)
      BY <1>1, AbsNames, WalkFromRoot, Zenon
    <2> QED
      BY <1>1, <1>2, <2>2, <2>3, Zenon DEF Base
  <1>3. CASE ~p.abs
    <2>1. /\ normalize(p) \in Text /\ ~normalize(p).abs
          /\ \A z \in Seq(Part) : Walk(TRUE, z, normalize(p).segs) = Walk(TRUE, z, p.segs)
      BY <1>3, NormalizeRel, Zenon
    <2>2. Leads(normalize(p)) = Where(Walk(TRUE, Cwd, normalize(p).segs))
      BY <2>1, LeadsThere, Zenon DEF Base
    <2>3. Walk(TRUE, Cwd, normalize(p).segs) = Walk(TRUE, Cwd, p.segs)
      BY <2>1, CwdIs, Zenon
    <2> QED
      BY <1>1, <1>3, <2>2, <2>3, Zenon DEF Base
  <1> QED
    BY <1>2, <1>3

LEMMA SplitAt ==
    ASSUME NEW S, NEW s \in Seq(S), NEW n \in 0 .. Len(s)
    PROVE  /\ SubSeq(s, 1, n) \in Seq(S) /\ SubSeq(s, n + 1, Len(s)) \in Seq(S)
           /\ Len(SubSeq(s, n + 1, Len(s))) = Len(s) - n
           /\ SubSeq(s, 1, n) \o SubSeq(s, n + 1, Len(s)) = s
  <1>1. Len(s) \in Nat /\ n \in Nat /\ n <= Len(s) /\ \A i \in 1 .. Len(s) : s[i] \in S
    OBVIOUS
  <1>2. SubSeq(s, 1, n) \in Seq(S)
    <2>1. 1 \in Int /\ n \in Int /\ \A i \in 1 .. n : s[i] \in S
      BY <1>1
    <2> QED
      BY <2>1, SubSeqProperties
  <1>3. SubSeq(s, n + 1, Len(s)) \in Seq(S) /\ Len(SubSeq(s, n + 1, Len(s))) = Len(s) - n
    <2>1. n + 1 \in Int /\ Len(s) \in Int /\ \A i \in n + 1 .. Len(s) : s[i] \in S
      BY <1>1
    <2>2. /\ SubSeq(s, n + 1, Len(s)) \in Seq(S)
          /\ Len(SubSeq(s, n + 1, Len(s))) = IF n + 1 <= Len(s) THEN Len(s) - (n + 1) + 1 ELSE 0
      BY <2>1, SubSeqProperties
    <2>3. (IF n + 1 <= Len(s) THEN Len(s) - (n + 1) + 1 ELSE 0) = Len(s) - n
      BY <1>1
    <2> QED
      BY <2>2, <2>3
  <1>4. SubSeq(s, 1, n) \o SubSeq(s, n + 1, Len(s)) = SubSeq(s, 1, Len(s))
    <2>1. 1 \in 1 .. Len(s) + 1 /\ n \in 1 - 1 .. Len(s) /\ Len(s) \in n .. Len(s)
      BY <1>1
    <2> QED
      BY <2>1, ConcatAdjacentSubSeq
  <1>5. SubSeq(s, 1, Len(s)) = s
    BY WholeIsAll, Zenon
  <1> QED
    BY <1>2, <1>3, <1>4, <1>5, Zenon

(* Up to what two lists of names share and down to the other.               *)
LEMMA UpAndDown ==
    ASSUME NEW f \in Seq(Segment), NEW t \in Seq(Segment)
    PROVE  /\ Ups(Len(f) - Shared(f, t)) \o SubSeq(t, Shared(f, t) + 1, Len(t)) \in Seq(Part)
           /\ Walk(TRUE, f, Ups(Len(f) - Shared(f, t)) \o SubSeq(t, Shared(f, t) + 1, Len(t))) = t
  <1>1. PICK n : n = Shared(f, t)
    BY Zenon
  <1>2. Len(f) \in Nat /\ Len(t) \in Nat
    OBVIOUS
  <1>3. n \in 0 .. Len(f) /\ n <= Len(t) /\ SubSeq(f, 1, n) = SubSeq(t, 1, n)
    BY <1>1, SharedHas, Zenon
  <1>4. n \in 0 .. Len(t) /\ Len(f) - n \in Nat
    BY <1>2, <1>3
  <1>5. PICK h : h = SubSeq(f, 1, n)
    BY Zenon
  <1>6. PICK back : back = SubSeq(f, n + 1, Len(f))
    BY Zenon
  <1>7. PICK down : down = SubSeq(t, n + 1, Len(t))
    BY Zenon
  <1>8. h \in Seq(Segment) /\ back \in Seq(Segment) /\ Len(back) = Len(f) - n /\ h \o back = f
    BY <1>3, <1>5, <1>6, SplitAt
  <1>9. down \in Seq(Segment) /\ h \o down = t
    BY <1>3, <1>4, <1>5, <1>7, SplitAt
  <1>10. f \in Seq(Part) /\ h \in Seq(Part) /\ down \in Seq(Part) /\ Ups(Len(f) - n) \in Seq(Part)
    BY <1>4, <1>8, <1>9, NamesTyped, UpsIs
  <1>11. Walk(TRUE, f, Ups(Len(f) - n)) = h
    <2>1. Walk(TRUE, h \o back, Ups(Len(back))) = h
      BY <1>8, <1>10, WalkUp, Zenon
    <2> QED
      BY <1>8, <2>1, Zenon
  <1>12. Walk(TRUE, h, down) = t
    BY <1>9, <1>10, WalkNames, Zenon
  <1>13. Walk(TRUE, f, Ups(Len(f) - n) \o down) = Walk(TRUE, Walk(TRUE, f, Ups(Len(f) - n)), down)
    BY <1>10, WalkOver, Zenon
  <1>14. Ups(Len(f) - n) \o down \in Seq(Part)
    BY <1>10, ConcatProperties
  <1> QED
    BY <1>1, <1>7, <1>11, <1>12, <1>13, <1>14, Zenon

(* The relative path from one absolute path to another leads there.         *)
LEMMA RelativeLeads ==
    \A p, q \in Text : p.abs /\ q.abs => Bare(resolve_parts(<<p, relative(p, q)>>)) = Leads(q)
  <1> SUFFICES ASSUME NEW p \in Text, NEW q \in Text, p.abs, q.abs
               PROVE  Bare(resolve_parts(<<p, relative(p, q)>>)) = Leads(q)
    BY Zenon
  <1>1. p.segs \in Seq(Part) /\ q.segs \in Seq(Part)
    BY TextIs
  <1>2. PICK f : f = Walk(TRUE, <<>>, p.segs)
    BY Zenon
  <1>3. PICK t : t = Walk(TRUE, <<>>, q.segs)
    BY Zenon
  <1>4. normalize(p).segs = f /\ normalize(q).segs = t
    BY <1>2, <1>3, NormalizeAbs, Zenon
  <1>5. f \in Seq(Segment) /\ t \in Seq(Segment)
    BY <1>1, <1>2, <1>3, AbsNames, Zenon
  <1>6. PICK way : way = Ups(Len(f) - Shared(f, t)) \o SubSeq(t, Shared(f, t) + 1, Len(t))
    BY Zenon
  <1>7. way \in Seq(Part) /\ Walk(TRUE, f, way) = t
    BY <1>5, <1>6, UpAndDown, Zenon
  <1>8. PICK r : r = relative(p, q)
    BY Zenon
  <1>9. r = Rel(way)
    BY <1>4, <1>6, <1>8, Zenon DEF relative, Ups
  <1>10. r \in Text /\ ~r.abs /\ r.segs = way
    BY <1>7, <1>9 DEF Text, Rel
  <1>11. resolve_parts(<<p, r>>) = normalize(Behind(p, r))
    BY <1>10, ResolveTwo, Zenon
  <1>12. Behind(p, r) \in Text /\ Behind(p, r).abs /\ Behind(p, r).segs = p.segs \o way
    BY <1>10, BehindIs, Zenon
  <1>13. Bare(normalize(Behind(p, r))) = Where(Walk(TRUE, <<>>, p.segs \o way))
    BY <1>12, NormalizeAbs, Zenon
  <1>14. Walk(TRUE, <<>>, p.segs \o way) = Walk(TRUE, Walk(TRUE, <<>>, p.segs), way)
    BY <1>1, <1>7, NoneShaped, WalkOver, Zenon
  <1>15. Leads(q) = Where(t)
    BY <1>3, LeadsThere, Zenon DEF Base
  <1> QED
    BY <1>2, <1>7, <1>8, <1>11, <1>13, <1>14, <1>15, Zenon

(* Joining is resolving one after the other.                                *)
LEMMA NormalizeEmpty == normalize(Empty) = Dot
  BY Zenon DEF normalize

LEMMA JoinIs == \A p, q : join_parts(<<p, q>>) = normalize(Behind(p, q))
  <1> TAKE p, q
  <1>1. Joined(<<p, q>>) = Behind(p, q)
    BY JoinedTwo, Zenon
  <1>2. join_parts(<<p, q>>) = IF Behind(p, q) = Empty THEN Dot ELSE normalize(Behind(p, q))
    BY <1>1, Zenon DEF join_parts
  <1> QED
    BY <1>2, NormalizeEmpty, Zenon

LEMMA JoinLeads ==
    \A p, q \in Text : ~q.abs /\ ~Vanishes(Behind(p, q)) =>
        Leads(join_parts(<<p, q>>)) = Bare(resolve_parts(<<p, q>>))
  <1> SUFFICES ASSUME NEW p \in Text, NEW q \in Text, ~q.abs, ~Vanishes(Behind(p, q))
               PROVE  Leads(join_parts(<<p, q>>)) = Bare(resolve_parts(<<p, q>>))
    BY Zenon
  <1>1. p.segs \in Seq(Part) /\ q.segs \in Seq(Part)
    BY TextIs
  <1>2. PICK b : b = Behind(p, q)
    BY Zenon
  <1>3. b \in Text /\ b.abs = p.abs /\ b.segs = p.segs \o q.segs
    BY <1>2, BehindIs, Zenon
  <1>4. Leads(join_parts(<<p, q>>)) = Where(Walk(TRUE, Base(b), b.segs))
    <2>1. Leads(normalize(b)) = Leads(b)
      BY <1>2, <1>3, NormalizeLeads, Zenon
    <2>2. Leads(b) = Where(Walk(TRUE, Base(b), b.segs))
      BY <1>3, LeadsThere, Zenon
    <2> QED
      BY <1>2, <2>1, <2>2, JoinIs, Zenon
  <1>5. CASE p.abs
    <2>1. resolve_parts(<<p, q>>) = normalize(b)
      BY <1>2, <1>5, ResolveTwo, Zenon
    <2>2. Bare(normalize(b)) = Where(Walk(TRUE, <<>>, b.segs))
      BY <1>3, <1>5, NormalizeAbs, Zenon
    <2> QED
      BY <1>3, <1>4, <1>5, <2>1, <2>2, Zenon DEF Base
  <1>6. CASE ~p.abs
    <2>1. PICK c : c = Behind(cwd, p)
      BY Zenon
    <2>2. c \in Text /\ c.abs /\ Walk(TRUE, <<>>, c.segs) = Walk(TRUE, Cwd, p.segs)
      BY <1>6, <2>1, CwdBehind, Zenon
    <2>3. resolve_parts(<<p, q>>) = normalize(Behind(c, q))
      BY <1>6, <2>1, ResolveTwo, Zenon
    <2>4. Behind(c, q) \in Text /\ Behind(c, q).abs /\ Behind(c, q).segs = c.segs \o q.segs
      BY <2>2, BehindIs, Zenon
    <2>5. Bare(normalize(Behind(c, q))) = Where(Walk(TRUE, <<>>, c.segs \o q.segs))
      BY <2>4, NormalizeAbs, Zenon
    <2>6. c.segs \in Seq(Part)
      BY <2>2, TextIs
    <2>7. Walk(TRUE, <<>>, c.segs \o q.segs) = Walk(TRUE, Walk(TRUE, Cwd, p.segs), q.segs)
      <3>1. Walk(TRUE, <<>>, c.segs \o q.segs) = Walk(TRUE, Walk(TRUE, <<>>, c.segs), q.segs)
        BY <1>1, <2>6, NoneShaped, WalkOver, Zenon
      <3> QED
        BY <2>2, <3>1, Zenon
    <2>8. Walk(TRUE, Cwd, p.segs \o q.segs) = Walk(TRUE, Walk(TRUE, Cwd, p.segs), q.segs)
      BY <1>1, CwdIs, WalkOver, Zenon
    <2> QED
      BY <1>3, <1>4, <1>6, <2>3, <2>5, <2>7, <2>8, Zenon DEF Base
  <1> QED
    BY <1>5, <1>6

(* A path is its last name in its directory.                                *)
LEMMA NormalizeBare ==
    \A p \in Text : \A w : Walk(p.abs, <<>>, p.segs) = w /\ w # <<>> =>
        Bare(normalize(p)) = [abs |-> p.abs, segs |-> w, trailing |-> FALSE]
  <1> SUFFICES ASSUME NEW p \in Text, NEW w, Walk(p.abs, <<>>, p.segs) = w, w # <<>>
               PROVE  Bare(normalize(p)) = [abs |-> p.abs, segs |-> w, trailing |-> FALSE]
    BY Zenon
  <1>1. p # Empty
    <2>1. Walk(FALSE, <<>>, <<>>) = <<>>
      BY NoneShaped, WalkNone, Zenon
    <2>2. Empty.abs = FALSE /\ Empty.segs = <<>>
      BY DEF Empty
    <2> QED
      BY <2>1, <2>2, Zenon
  <1>2. normalize(p) = [p EXCEPT !.segs = w]
    BY <1>1, Zenon DEF normalize, Reduced
  <1>3. normalize(p) = [abs |-> p.abs, segs |-> w, trailing |-> p.trailing]
    BY <1>2, TextIs DEF Text
  <1>4. w \in Seq(Part) /\ p.abs \in BOOLEAN /\ p.trailing \in BOOLEAN
    BY NoneShaped, WalkTyped, TextIs, Zenon
  <1>5. normalize(p) \in Text /\ normalize(p).abs = p.abs /\ normalize(p).segs = w
    BY <1>3, <1>4 DEF Text
  <1>6. Bare(normalize(p)) = [abs |-> normalize(p).abs, segs |-> normalize(p).segs, trailing |-> FALSE]
    BY <1>5, BareIs, Zenon
  <1> QED
    BY <1>5, <1>6, Zenon

LEMMA InItsDirectory ==
    \A p \in Text : p.segs # <<>> /\ Last(p.segs) \in Segment =>
        Bare(join_parts(<<dirname(p), basename(p)>>)) = Bare(normalize(p))
  <1> SUFFICES ASSUME NEW p \in Text, p.segs # <<>>, Last(p.segs) \in Segment
               PROVE  Bare(join_parts(<<dirname(p), basename(p)>>)) = Bare(normalize(p))
    BY Zenon
  <1>1. p.segs \in Seq(Part) /\ p.abs \in BOOLEAN /\ p.trailing \in BOOLEAN
    BY TextIs
  <1>2. PICK h : h = Front(p.segs)
    BY Zenon
  <1>3. PICK l : l = Last(p.segs)
    BY Zenon
  <1>4. h \in Seq(Part) /\ p.segs = Append(h, l) /\ l \in Segment /\ l \in Part
    BY <1>1, <1>2, <1>3, FrontIs, PartIs, Zenon
  <1>5. Len(p.segs) = Len(h) + 1 /\ Len(h) \in Nat
    BY <1>4
  <1>6. PICK w : w = Append(Walk(p.abs, <<>>, h), l)
    BY Zenon
  <1>7. w # <<>>
    <2>1. Walk(p.abs, <<>>, h) \in Seq(Part)
      BY <1>1, <1>4, NoneShaped, WalkTyped, Zenon
    <2> QED
      BY <1>4, <1>6, <2>1, FrontAppend, Zenon
  <1>8. \A s \in Seq(Part) : Walk(p.abs, <<>>, Append(s, l)) = Append(Walk(p.abs, <<>>, s), l)
    <2> TAKE s \in Seq(Part)
    <2>1. Walk(p.abs, <<>>, Append(s, l)) = Step(p.abs, Walk(p.abs, <<>>, s), l)
      BY <1>1, <1>4, NoneShaped, WalkNext, Zenon
    <2>2. Step(p.abs, Walk(p.abs, <<>>, s), l) = Append(Walk(p.abs, <<>>, s), l)
      BY <1>4, StepName, Zenon
    <2> QED
      BY <2>1, <2>2, Zenon
  <1>9. Bare(normalize(p)) = [abs |-> p.abs, segs |-> w, trailing |-> FALSE]
    <2>1. Walk(p.abs, <<>>, p.segs) = w
      BY <1>4, <1>6, <1>8, Zenon
    <2> QED
      BY <1>7, <2>1, NormalizeBare, Zenon
  <1>10. PICK d : d = dirname(p)
    BY Zenon
  <1>11. d \in Text /\ d.abs = p.abs /\ Walk(p.abs, <<>>, d.segs) = Walk(p.abs, <<>>, h)
    <2>1. CASE Len(p.segs) = 1
      <3>1. h = <<>>
        BY <1>4, <1>5, <2>1
      <3>2. d = IF p.abs THEN Root ELSE Dot
        BY <1>10, <2>1, Zenon DEF dirname
      <3>3. CASE p.abs
        <4>1. d = Root /\ d \in Text
          BY <3>2, <3>3, EmptyText, Zenon
        <4> QED
          BY <3>1, <3>3, <4>1, <1>1 DEF Root
      <3>4. CASE ~p.abs
        <4>1. d = Dot /\ d \in Text
          BY <3>2, <3>4, EmptyText, Zenon
        <4>2. d.abs = FALSE /\ d.segs = <<".">> /\ p.abs = FALSE
          BY <3>4, <4>1, <1>1 DEF Dot, Rel
        <4>3. Walk(FALSE, <<>>, <<".">>) = <<>> /\ Walk(FALSE, <<>>, <<>>) = <<>>
          BY NoneShaped, WalkDot, WalkNone, Zenon
        <4> QED
          BY <3>1, <4>1, <4>2, <4>3, Zenon
      <3> QED
        BY <3>3, <3>4
    <2>2. CASE Len(p.segs) # 1
      <3>1. d = [p EXCEPT !.segs = h, !.trailing = FALSE]
        BY <1>2, <1>10, <2>2, Zenon DEF dirname
      <3>2. d = [abs |-> p.abs, segs |-> h, trailing |-> FALSE]
        BY <3>1, TextIs DEF Text
      <3> QED
        BY <1>1, <1>4, <3>2 DEF Text
    <2> QED
      BY <2>1, <2>2
  <1>12. basename(p) \in Text /\ ~basename(p).abs /\ basename(p).segs = <<l>>
    <2>1. basename(p) = Rel(<<l>>)
      BY <1>3, Zenon DEF basename
    <2>2. <<l>> \in Seq(Part)
      BY <1>4
    <2> QED
      BY <2>1, <2>2 DEF Text, Rel
  <1>13. PICK b : b = Behind(d, basename(p))
    BY Zenon
  <1>14. b \in Text /\ b.abs = p.abs /\ b.segs = d.segs \o <<l>>
    BY <1>11, <1>12, <1>13, BehindIs, Zenon
  <1>15. d.segs \in Seq(Part)
    BY <1>11, TextIs
  <1>16. d.segs \o <<l>> = Append(d.segs, l)
    BY <1>4, <1>15, AppendIsConcat
  <1>17. Walk(b.abs, <<>>, b.segs) = w
    BY <1>6, <1>8, <1>11, <1>14, <1>15, <1>16, Zenon
  <1>18. Bare(normalize(b)) = [abs |-> p.abs, segs |-> w, trailing |-> FALSE]
    BY <1>7, <1>14, <1>17, NormalizeBare, Zenon
  <1> QED
    BY <1>9, <1>10, <1>13, <1>18, JoinIs, Zenon

-----------------------------------------------------------------------------
(* The arguments of a call are two texts.                                   *)
AskedTexts == asked = <<>> \/ \E p, q \in PathText : asked = <<p, q>>

(* PathsAgree: normalize, relative, join, resolve, dirname and basename     *)
(* agree on where every two texts lead, however long they are and whatever  *)
(* the names and the working directory.                                     *)
THEOREM PathOperationsAgree == PathsSpec => []PathsAgree
  <1>1. PathsInit => AskedTexts
    BY DEF PathsInit, AskedTexts
  <1>2. AskedTexts /\ [PathsNext]_asked => AskedTexts'
    BY DEF PathsNext, AskedTexts
  <1>3. AskedTexts => PathsAgree
    <2> SUFFICES ASSUME AskedTexts, asked # <<>> PROVE PathsAgree
      BY Zenon DEF PathsAgree
    <2>1. PICK p \in PathText, q \in PathText : asked = <<p, q>>
      BY DEF AskedTexts
    <2>2. p \in Text /\ q \in Text /\ asked[1] = p /\ asked[2] = q
      BY <2>1, PathTextIsText
    <2>3. ~Vanishes(p) => Leads(normalize(p)) = Leads(p)
      BY <2>2, NormalizeLeads, Zenon
    <2>4. p.abs /\ q.abs => Bare(resolve_parts(<<p, relative(p, q)>>)) = Leads(q)
      BY <2>2, RelativeLeads, Zenon
    <2>5. ~q.abs /\ ~Vanishes(Behind(p, q)) => Leads(join_parts(<<p, q>>)) = Bare(resolve_parts(<<p, q>>))
      BY <2>2, JoinLeads, Zenon
    <2>6. p.segs # <<>> /\ Last(p.segs) \in Segment =>
              Bare(join_parts(<<dirname(p), basename(p)>>)) = Bare(normalize(p))
      BY <2>2, InItsDirectory, Zenon
    <2> QED
      BY <2>2, <2>3, <2>4, <2>5, <2>6, Zenon DEF PathsAgree
  <1> QED
    BY <1>1, <1>2, <1>3, PTL DEF PathsSpec

=============================================================================
