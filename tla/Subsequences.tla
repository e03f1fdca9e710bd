---- MODULE Subsequences ----
(***************************************************************************)
(* The loops that push some elements of a list (crates/bun-bundler and     *)
(* crates/bun-install): the elements of s at the given places, in order.   *)
(* And the common prefix of two lists, which the test runner and node:path *)
(* look for.                                                               *)
(***************************************************************************)
EXTENDS Naturals, Sequences, FiniteSets

\* The place of the n-th element that is kept.
Place(places, n) == CHOOSE i \in places : Cardinality({j \in places : j <= i}) = n

Picked(s, places) == [n \in 1 .. Cardinality(places) |-> s[Place(places, n)]]

\* The length of the common prefix of two lists.
Shared(p, q) ==
    CHOOSE n \in 0..Len(p) :
        /\ SubSeq(p, 1, n) = SubSeq(q, 1, n) /\ n <= Len(q)
        /\ n < Len(p) /\ n < Len(q) => p[n + 1] # q[n + 1]
====
