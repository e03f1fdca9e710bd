---- MODULE Paths ----
(***************************************************************************)
(* node:path (crates/bun-runtime/src/node_builtins/path.rs) as operators.  *)
(* A path text is split at its separators: is there one in front, the      *)
(* segments between (empty ones dropped: every operation but printing      *)
(* ignores them), is there one behind.  "" has no segment and "/" only the *)
(* one in front.                                                           *)
(***************************************************************************)
EXTENDS Naturals, Sequences, SequencesExt, Subsequences

CONSTANTS Segment,      \* names, none of them "." or ".."
          Cwd,          \* segments of the working directory
          MaxSegs

ASSUME SegmentAssumption == "." \notin Segment /\ ".." \notin Segment
ASSUME CwdAssumption == Cwd \in Seq(Segment)

Part == Segment \cup {".", ".."}
PathText ==
    {p \in [abs : BOOLEAN, segs : SeqOf(Part, MaxSegs), trailing : BOOLEAN] :
        p.trailing => p.segs # <<>>}

Empty == [abs |-> FALSE, segs |-> <<>>, trailing |-> FALSE]
Root  == [abs |-> TRUE,  segs |-> <<>>, trailing |-> FALSE]
Rel(segs) == [abs |-> FALSE, segs |-> segs, trailing |-> FALSE]
Dot == Rel(<<".">>)
cwd == [abs |-> TRUE, segs |-> Cwd, trailing |-> FALSE]

----------------------------------------------------------------------------

\* Step, but ".." takes back another "..".
StepTakesBackDots(abs, segs, s) ==
    CASE s = "." -> segs
      [] s = ".." /\ segs # <<>> -> Front(segs)
      [] s = ".." /\ segs = <<>> -> IF abs THEN segs ELSE Append(segs, "..")
      [] OTHER -> Append(segs, s)

\* One segment of normalize's loop: ".." takes back a name, is dropped at the
\* root and is kept in front of a relative path.
Step(abs, segs, s) ==
    CASE s = "." -> segs
      [] s = ".." /\ segs # <<>> /\ Last(segs) # ".." -> Front(segs)
      [] s = ".." /\ (segs = <<>> \/ Last(segs) = "..") ->
            IF abs THEN segs ELSE Append(segs, "..")
      [] OTHER -> Append(segs, s)

\* The loop over segs, with the segments in `from` pushed before.
Walk(abs, from, segs) ==
    LET walked[n \in 0..Len(segs)] ==
            IF n = 0 THEN from ELSE Step(abs, walked[n - 1], segs[n])
    IN  walked[Len(segs)]

Reduced(p) == Walk(p.abs, <<>>, p.segs)

\* A relative path that reduces to nothing is ".", but with a separator behind
\* it that separator is all that is left: normalize("./") is "/".
normalize(p) ==
    IF p = Empty THEN Dot
    ELSE IF Reduced(p) # <<>> THEN [p EXCEPT !.segs = Reduced(p)]
    ELSE IF p.abs \/ p.trailing THEN Root ELSE Dot

\* Text put behind text with one separator between them.
Behind(p, q) ==
    IF p = Empty THEN q
    ELSE IF q = Empty THEN p
    ELSE [abs |-> p.abs, segs |-> p.segs \o q.segs,
          trailing |-> (q.trailing \/ q.segs = <<>>) /\ p.segs \o q.segs # <<>>]

\* All parts, each behind those before it.
Joined(parts) ==
    LET text[n \in 0..Len(parts)] ==
            IF n = 0 THEN Empty ELSE Behind(text[n - 1], parts[n])
    IN  text[Len(parts)]

join_parts(parts) ==
    IF Joined(parts) = Empty THEN Dot ELSE normalize(Joined(parts))

\* The parts from the last absolute one on; the working directory before them
\* when there is none.
resolve_parts(parts) ==
    LET absolute == {i \in DOMAIN parts : parts[i].abs}
        from == CHOOSE i \in absolute : \A j \in absolute : j <= i
    IN  normalize(Joined(
            IF absolute = {} THEN <<cwd>> \o parts ELSE SubSeq(parts, from, Len(parts))))

dirname(p) ==
    IF p.segs = <<>> THEN (IF p.abs THEN Root ELSE Dot)
    ELSE IF Len(p.segs) = 1 THEN (IF p.abs THEN Root ELSE Dot)
    ELSE [p EXCEPT !.segs = Front(p.segs), !.trailing = FALSE]

basename(p) == IF p.segs = <<>> THEN Empty ELSE Rel(<<Last(p.segs)>>)

\* Up from one normalized path to the common ancestor and down to the other.
relative(from, to) ==
    LET f == normalize(from).segs
        t == normalize(to).segs
        n == Shared(f, t)
    IN  Rel([i \in 1..(Len(f) - n) |-> ".."] \o SubSeq(t, n + 1, Len(t)))

----------------------------------------------------------------------------

VARIABLE asked      \* the arguments of a call
PathsInit == asked = <<>>
PathsNext == asked = <<>> /\ \E p, q \in PathText : asked' = <<p, q>>
PathsSpec == PathsInit /\ [][PathsNext]_asked

\* Where a path leads: a separator behind it makes no difference.
Bare(p) == [p EXCEPT !.trailing = FALSE]
Leads(p) == Bare(resolve_parts(<<p>>))

\* The texts that normalize turns into the root by mistake.
Vanishes(p) == ~p.abs /\ p.trailing /\ Reduced(p) = <<>>

\* The operations agree on where a path leads: normalizing first changes
\* nothing, a relative path from one absolute path to another leads there,
\* joining is resolving one after the other, and a path is its basename in
\* its dirname.  (Not for the relative texts that reduce to nothing and end in
\* a separator, like "./": normalize makes them the root.)
PathsAgree ==
    asked # <<>> =>
        LET p == asked[1]
            q == asked[2]
        IN  /\ ~Vanishes(p) => Leads(normalize(p)) = Leads(p)
            /\ p.abs /\ q.abs =>
                  Bare(resolve_parts(<<p, relative(p, q)>>)) = Leads(q)
            /\ ~q.abs /\ ~Vanishes(Behind(p, q)) =>
                  Leads(join_parts(<<p, q>>)) = Bare(resolve_parts(<<p, q>>))
            /\ p.segs # <<>> /\ Last(p.segs) \in Segment =>
                  Bare(join_parts(<<dirname(p), basename(p)>>)) = Bare(normalize(p))
====
