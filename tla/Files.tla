---- MODULE Files ----
(***************************************************************************)
(* node:fs and Bun.file (crates/bun-runtime/src/node_builtins/fs.rs and    *)
(* bun_api/file.rs) over a small file tree.  An operation is a few system  *)
(* calls.  A *Sync function makes them on the script's thread, which does  *)
(* nothing else meanwhile; an fs.promises function makes them on a thread  *)
(* of the blocking pool (promise_from_blocking) and settles its promise    *)
(* when the loop takes the task it has posted.                             *)
(*                                                                         *)
(* A file's content is a sequence of pieces; a piece carries the number of *)
(* the operation that wrote it and how: as the data itself or, where       *)
(* appendFileSync prints a typed array, as its digits.                     *)
(***************************************************************************)
EXTENDS Naturals, Sequences, FiniteSets, SequencesExt

CONSTANTS Path, Top,    \* paths; Top is the directory above them
          ParentOf,     \* path -> the directory it is in
          Absent, Dir, Unknown, Failed,
          MaxOps,       \* operations
          MaxFds,       \* descriptors opened
          MaxCalls      \* operations and calls on descriptors

ASSUME FilesAssumption ==
    /\ MaxOps \in Nat /\ MaxFds \in Nat
    /\ IsFiniteSet(Path) /\ \E p \in Path : ParentOf[p] = Top
    /\ ParentOf \in [Path -> Path \cup {Top}] /\ Top \notin Path
    /\ Absent \notin Nat /\ Dir \notin Nat /\ Absent # Dir

Fd == 3..(2 + MaxFds)           \* next_fd starts at 3
OpId == 1..MaxOps

\* An inode is numbered after the call that creates it; 1 was there before.
CreatedBy(o) == 1 + o
CreatedByFd(fd) == MaxOps + fd - 1
Inode == 1..(MaxOps + MaxFds + 1)

Mutating == {"writeFile", "appendFile", "unlink", "rename", "copyFile", "mkdir",
             "mkdirp", "rm", "rmrf"}
Kind == Mutating \cup {"readFile"}

VARIABLES
    tree,       \* path -> Absent, Dir or an inode
    content,    \* inode -> pieces
    op,         \* the operations under way, by number
    begun,      \* operations begun so far
    js,         \* the *Sync call the script is in, or 0
    fds,        \* FDS: fd -> its file, cursor and append flag
    next_fd,
    fdCalls,    \* bound
    known       \* what the script may expect in a file (see AwaitedDataRead)

fileVars == <<tree, content, op, begun, js, fds, next_fd, fdCalls, known>>

Pending == DOMAIN op
Isdir(d) == d = Top \/ (d # Top /\ tree[d] = Dir)
Isfile(p) == tree[p] \in Inode
Children(p) == {c \in Path : ParentOf[c] = p}

\* p and what is below it: the smallest set of paths that has p and, with a
\* directory, what is in it; and p and the directories above it.
DownClosed(S) == \A c \in Path : ParentOf[c] \in S => c \in S
Under == [p \in Path |-> {c \in Path : \A S \in SUBSET Path : p \in S /\ DownClosed(S) => c \in S}]
Above == [p \in Path |-> {d \in Path : p \in Under[d]}]

----------------------------------------------------------------------------
\* System calls.  A step is <<name, path>>.

\* is_dir() is asked first, and the answer is acted on in a later call;
\* remove_dir_all clears one entry of the directory after the other, ...
RmPlan(p, recursive) ==
    IF tree[p] # Dir THEN <<<<"unlink", p>>>>
    ELSE IF recursive
         THEN SetToSeq({<<"clear", c>> : c \in Children(p)}) \o <<<<"rmdir", p>>>>
         ELSE <<<<"rmdir", p>>>>

\* ... an entry that is a directory like the whole, and create_dir_all makes
\* the directory above first where that is what is missing.
NoParent(p) == ParentOf[p] # Top /\ tree[ParentOf[p]] = Absent
Unfolds(step) ==
    \/ step[1] = "clear" /\ tree[step[2]] = Dir
    \/ step[1] = "mkdirAll" /\ NoParent(step[2])
Unfolded(step) ==
    IF step[1] = "clear" THEN RmPlan(step[2], TRUE)
    ELSE <<<<"mkdirAll", ParentOf[step[2]]>>, <<"mkdirs", step[2]>>>>

Plan(kind, p, q) ==
    CASE kind = "readFile"   -> <<<<"openRead", p>>, <<"read", p>>>>
      [] kind = "writeFile"  -> <<<<"openWrite", p>>, <<"write", p>>>>
      [] kind = "appendFile" -> <<<<"openAppend", p>>, <<"append", p>>>>
      [] kind = "unlink"     -> <<<<"unlink", p>>>>
      [] kind = "rename"     -> <<<<"rename", q>>>>
      [] kind = "copyFile"   -> <<<<"openRead", p>>, <<"openTarget", q>>, <<"copy", q>>>>
      [] kind = "mkdir"      -> <<<<"mkdir", p>>>>
      [] kind = "mkdirp"     -> <<<<"mkdirAll", p>>>>
      [] kind = "rm"         -> <<<<"lookRm", p>>>>
      [] kind = "rmrf"       -> <<<<"lookRmrf", p>>>>

\* Which calls succeed (directories are not renamed here), ...
Creates(p) == tree[p] = Absent /\ Isdir(ParentOf[p])
Possible(step, o) ==
    LET p == step[2] IN
    CASE step[1] \in {"openRead"} -> Isfile(p)
      [] step[1] \in {"openWrite", "openAppend", "openTarget"} -> Isfile(p) \/ Creates(p)
      [] step[1] = "unlink" -> Isfile(p)
      [] step[1] = "rename" -> /\ Isfile(op[o].path) /\ Isdir(ParentOf[p]) /\ tree[p] # Dir
      [] step[1] = "mkdir" -> Creates(p)
      [] step[1] = "mkdirs" -> tree[p] = Dir \/ Creates(p)
      [] step[1] = "mkdirAll" -> tree[p] = Dir \/ Creates(p) \/ NoParent(p)
      [] step[1] = "rmdir" -> tree[p] = Dir /\ \A c \in Children(p) : tree[c] = Absent
      [] OTHER -> TRUE

\* ... and what they do.
Opens(p, new) == IF Isfile(p) THEN tree[p] ELSE new
Written(pieces, at, piece) ==
    [i \in 1..(IF Len(pieces) < at THEN at ELSE Len(pieces)) |->
        IF i = at THEN piece
        ELSE IF i <= Len(pieces) THEN pieces[i] ELSE Absent]

Effect(step, o) ==
    LET p == step[2]
        h == op[o].handle
    IN
    /\ tree' =
        CASE step[1] \in {"openWrite", "openAppend", "openTarget"} ->
                [tree EXCEPT ![p] = Opens(p, CreatedBy(o))]
          [] step[1] \in {"unlink", "rmdir", "clear"} /\ ~Unfolds(step) -> [tree EXCEPT ![p] = Absent]
          [] step[1] = "rename" -> [tree EXCEPT ![op[o].path] = Absent, ![p] = tree[op[o].path]]
          [] step[1] \in {"mkdir", "mkdirs", "mkdirAll"} /\ ~Unfolds(step) -> [tree EXCEPT ![p] = Dir]
          [] OTHER -> tree
    /\ content' =
        CASE step[1] \in {"openWrite", "openTarget"} -> [content EXCEPT ![Opens(p, CreatedBy(o))] = <<>>]
          [] step[1] = "write" -> [content EXCEPT ![h] = Written(@, 1, op[o].piece)]
          [] step[1] = "append" -> [content EXCEPT ![h] = Append(@, op[o].piece)]
          [] step[1] = "copy" -> [content EXCEPT ![h] = content[op[o].source]]
          [] OTHER -> content

\* The operation after a call that succeeded.
After(step, o) ==
    LET p == step[2]
        rest == Tail(op[o].todo)
    IN
    CASE step[1] = "openRead" -> [op[o] EXCEPT !.todo = rest, !.handle = tree[p], !.source = tree[p]]
      [] step[1] \in {"openWrite", "openAppend", "openTarget"} ->
            [op[o] EXCEPT !.todo = rest, !.handle = Opens(p, CreatedBy(o))]
      [] step[1] = "read" -> [op[o] EXCEPT !.todo = rest, !.result = content[op[o].handle]]
      [] step[1] = "lookRm" -> [op[o] EXCEPT !.todo = RmPlan(p, FALSE)]
      [] step[1] = "lookRmrf" -> [op[o] EXCEPT !.todo = RmPlan(p, TRUE)]
      [] Unfolds(step) -> [op[o] EXCEPT !.todo = Unfolded(step) \o rest]
      [] OTHER -> [op[o] EXCEPT !.todo = rest]

\* One system call of operation o; a failed one ends it.
SystemCall(o) ==
    /\ op[o].todo # <<>>
    /\ LET step == Head(op[o].todo) IN
       IF Possible(step, o)
       THEN op' = [op EXCEPT ![o] = After(step, o)] /\ Effect(step, o)
       ELSE /\ op' = [op EXCEPT ![o] = [@ EXCEPT !.todo = <<>>, !.result = Failed]]
            /\ UNCHANGED <<tree, content>>
    /\ UNCHANGED <<begun, js, fds, next_fd, fdCalls, known>>

----------------------------------------------------------------------------
\* Calls of the script.

\* The paths an operation changes, and what is then known of them.
Touched(kind, p, q) ==
    IF kind \notin Mutating THEN {}
    ELSE Under[p] \cup Under[q] \cup (IF kind = "mkdirp" THEN Above[p] ELSE {})
Forget(paths) == [x \in Path |-> IF x \in paths THEN Unknown ELSE known[x]]
\* A file that is renamed takes the handles on it along: operations that
\* overlap and share a path, or share one with others that do, count as
\* operations on the paths of all of them.
Shares(o, paths) == op[o].touched \cap paths # {}
Together(paths) ==
    paths \cup UNION {op[o].touched : o \in {e \in Pending : op[e].kind \in Mutating /\ Shares(e, paths)}}
\* Operations under way that share a path with a new one are not alone.
Disturbed(paths) ==
    [o \in Pending |->
        IF Shares(o, paths) THEN [op[o] EXCEPT !.alone = FALSE, !.touched = @ \cup paths] ELSE op[o]]
AllDisturbed == [o \in Pending |-> [op[o] EXCEPT !.alone = FALSE]]

Begin(kind, by, p, q, as) ==
    LET o == begun + 1
        touched == Together(Touched(kind, p, q))
        watched == IF kind = "readFile" THEN {p} ELSE touched
    IN
    /\ o <= MaxOps /\ begun + fdCalls < MaxCalls
    /\ begun' = o
    /\ op' = [other \in Pending \cup {o} |-> IF other # o THEN Disturbed(touched)[other] ELSE
          [kind |-> kind, by |-> by, path |-> p, todo |-> Plan(kind, p, q),
           handle |-> 0, source |-> 0, piece |-> [of |-> o, as |-> as],
           result |-> Absent, posted |-> FALSE, touched |-> watched,
           before |-> IF kind \in {"readFile", "appendFile"} THEN known[p] ELSE Unknown,
           alone |-> \A e \in Pending : op[e].kind \in Mutating => ~Shares(e, watched)]]
    /\ known' = Forget(touched)

\* A function of fs.promises: the pool does the work.
PromiseCall ==
    /\ js = 0
    /\ \E kind \in Kind, p, q \in Path :
          /\ kind \notin {"rename", "copyFile"} => p = q
          /\ Begin(kind, "pool", p, q, "data")
    /\ UNCHANGED <<tree, content, js, fds, next_fd, fdCalls>>

\* A *Sync function, Bun.write or a reader of Bun.file: this thread does it.
\* appendFileSync writes the printed form of what it is given.
SyncCall ==
    /\ js = 0
    /\ \E kind \in Kind, p, q \in Path, as \in {"data", "digits"} :
          /\ kind \notin {"rename", "copyFile"} => p = q
          /\ as = "digits" => kind = "appendFile"
          /\ Begin(kind, "js", p, q, as)
    /\ js' = begun'
    /\ UNCHANGED <<tree, content, fds, next_fd, fdCalls>>

\* What the script may expect once an operation that nothing disturbed has
\* settled: the data, or the data behind what it expected before.
Learn(o) ==
    IF op[o].alone /\ op[o].result # Failed /\ op[o].piece.as = "data"
    THEN CASE op[o].kind = "writeFile" -> [known EXCEPT ![op[o].path] = <<op[o].piece>>]
           [] op[o].kind = "appendFile" /\ op[o].before # Unknown ->
                 [known EXCEPT ![op[o].path] = Append(op[o].before, op[o].piece)]
           [] OTHER -> known
    ELSE known

\* Finished, but the task is posted before the last call.
FinishedEarly(o) == Len(op[o].todo) <= 1

\* The pool's work is done and its task is posted; posting before that would
\* settle the promise too early.
Finished(o) == op[o].todo = <<>>
Post(o) ==
    /\ op[o].by = "pool" /\ ~op[o].posted /\ Finished(o)
    /\ op' = [op EXCEPT ![o].posted = TRUE]
    /\ UNCHANGED <<tree, content, begun, js, fds, next_fd, fdCalls, known>>

Without(o) == [e \in Pending \ {o} |-> op[e]]

\* The loop runs the task (in the order posted; the order of promises of
\* different operations tells nothing here): resolve or reject.
Settle(o) ==
    /\ js = 0
    /\ op[o].posted
    /\ op' = Without(o)
    /\ known' = Learn(o)
    /\ UNCHANGED <<tree, content, begun, js, fds, next_fd, fdCalls>>

SyncReturns(o) ==
    /\ js = o /\ op[o].todo = <<>>
    /\ js' = 0
    /\ op' = Without(o)
    /\ known' = Learn(o)
    /\ UNCHANGED <<tree, content, begun, fds, next_fd, fdCalls>>

\* Bun.file(p).writer(): write only keeps the chunk; flush and end append what
\* is kept with appendFileSync, as one plain typed array.
SinkFlushes ==
    /\ js = 0
    /\ \E p \in Path : Begin("appendFile", "js", p, p, "digits")
    /\ js' = begun'
    /\ UNCHANGED <<tree, content, fds, next_fd, fdCalls>>

----------------------------------------------------------------------------
\* Descriptors.  A *Sync call on one is one system call.

FdCall == js = 0 /\ begun + fdCalls < MaxCalls /\ fdCalls' = fdCalls + 1
ByFd == [of |-> 0, as |-> "fd"]
NoFd == [inode |-> 0, cursor |-> 0, append |-> FALSE, writes |-> FALSE]

\* Unknown flags read, write and create.
OpenSync ==
    /\ FdCall /\ next_fd \in Fd
    /\ \E p \in Path, flags \in {"r", "r+", "w", "wx", "a", "other"} :
          /\ flags \in {"r", "r+"} => Isfile(p)
          /\ flags = "wx" => Creates(p)
          /\ flags \in {"w", "a", "other"} => Isfile(p) \/ Creates(p)
          /\ LET i == Opens(p, CreatedByFd(next_fd)) IN
             /\ tree' = [tree EXCEPT ![p] = i]
             /\ content' = IF flags \in {"w", "wx"} THEN [content EXCEPT ![i] = <<>>] ELSE content
             /\ fds' = [fds EXCEPT ![next_fd] =
                            [inode |-> i, cursor |-> 1, append |-> flags = "a", writes |-> flags # "r"]]
          /\ LET changed == IF flags \in {"r", "r+"} THEN {} ELSE {p} IN
             known' = Forget(changed) /\ op' = Disturbed(changed)
    /\ next_fd' = next_fd + 1
    /\ UNCHANGED <<begun, js>>

\* closeSync of an unknown descriptor is no error.
CloseSync ==
    /\ FdCall
    /\ \E fd \in Fd : fds[fd] # NoFd /\ fds' = [fds EXCEPT ![fd] = NoFd]
    /\ UNCHANGED <<tree, content, op, begun, js, next_fd, known>>

\* readSync: a position moves the one cursor of the file for good.
ReadSync ==
    /\ FdCall
    /\ \E fd \in Fd : \E at \in {fds[fd].cursor, 1} :
          /\ fds[fd] # NoFd
          /\ fds' = [fds EXCEPT ![fd].cursor =
                        IF at <= Len(content[fds[fd].inode]) THEN at + 1 ELSE at]
    /\ UNCHANGED <<tree, content, op, begun, js, next_fd, known>>

\* writeSync ignores offset, length and position; ftruncateSync leaves the
\* cursor where it is.
WriteSync ==
    /\ FdCall
    /\ \E fd \in Fd :
          /\ fds[fd] # NoFd /\ fds[fd].writes
          /\ LET i == fds[fd].inode
                 at == IF fds[fd].append THEN Len(content[i]) + 1 ELSE fds[fd].cursor
             IN  /\ content' = [content EXCEPT ![i] =
                                    Written(@, at, ByFd)]
                 /\ fds' = [fds EXCEPT ![fd].cursor = at + 1]
    /\ known' = Forget(Path) /\ op' = AllDisturbed
    /\ UNCHANGED <<tree, begun, js, next_fd>>

FtruncateSync ==
    /\ FdCall
    /\ \E fd \in Fd : /\ fds[fd] # NoFd /\ fds[fd].writes
                      /\ content' = [content EXCEPT ![fds[fd].inode] = <<>>]
    /\ known' = Forget(Path) /\ op' = AllDisturbed
    /\ UNCHANGED <<tree, begun, js, fds, next_fd>>

----------------------------------------------------------------------------

\* The script has written a file.
Earlier == [of |-> 0, as |-> "data"]

FilesInit ==
    /\ \E first \in Path :
          /\ tree = [p \in Path |->
                       IF p = first THEN 1 ELSE IF p \in Above[first] THEN Dir ELSE Absent]
          /\ known = [p \in Path |-> IF p = first THEN <<Earlier>> ELSE Unknown]
    /\ content = [i \in Inode |-> IF i = 1 THEN <<Earlier>> ELSE <<>>]
    /\ op = <<>> /\ begun = 0 /\ js = 0 /\ fds = [fd \in Fd |-> NoFd] /\ next_fd = 3 /\ fdCalls = 0

FilesNext ==
    \/ PromiseCall \/ SyncCall
    \/ \E o \in Pending : SystemCall(o) \/ Post(o) \/ Settle(o) \/ SyncReturns(o)
    \/ SinkFlushes
    \/ OpenSync \/ CloseSync \/ ReadSync \/ WriteSync \/ FtruncateSync

FilesSpec == FilesInit /\ [][FilesNext]_fileVars

----------------------------------------------------------------------------

\* Awaiting a write is enough: a readFile that starts after a writeFile or
\* appendFile has settled, synchronous or not, and that no other operation on
\* the path overlaps (nor on the path a file is renamed from that another
\* operation has open), returns that data, whatever else the pool is doing.
\* (Not for a typed array given to appendFileSync, which writes its digits.)
AwaitedDataRead ==
    [][\A o \in Pending :
          o \notin Pending' /\ op[o].kind = "readFile" /\ op[o].alone /\ op[o].before # Unknown
              => op[o].result = op[o].before]_fileVars
====
