------------------------ MODULE Subsequences_proofs -------------------------
(***************************************************************************)
(* What Picked returns, for lists of any length: the places are counted    *)
(* one to one by how many places there are up to each.  What Shared        *)
(* returns.                                                                *)
(*                                                                         *)
(* And induction: a set of numbers that is closed upwards from 0 on has    *)
(* all of them, and so a set of sequences.  It is stated of a set and not  *)
(* of an operator, so that a proof about a recursive function can cite it. *)
(***************************************************************************)
EXTENDS Subsequences, Integers, FiniteSetTheorems, WellFoundedInduction, TLAPS

(* A set of numbers has a least one.                                       *)
LEMMA LeastNat ==
    ASSUME NEW T \in SUBSET Nat, T # {}
    PROVE  \E n \in T : \A m \in T : n <= m
  <1>1. IsWellFoundedOn(OpToRel(<, Nat), Nat)
    BY NatLessThanWellFounded
  <1>2. PICK n \in T : \A m \in T : ~(<<m, n>> \in OpToRel(<, Nat))
    BY <1>1, WFMin
  <1>3. \A m \in T : ~(m < n)
    BY <1>2, Zenon DEF OpToRel
  <1> QED
    BY <1>3

(* Induction over the numbers.                                             *)
LEMMA AllNumbers ==
    ASSUME NEW T \in SUBSET Nat, 0 \in T, \A n \in T : n + 1 \in T
    PROVE  T = Nat
  <1> SUFFICES ASSUME Nat \ T # {} PROVE FALSE
    OBVIOUS
  <1>1. PICK n \in Nat \ T : \A m \in Nat \ T : n <= m
    BY LeastNat
  <1>2. n # 0 /\ n - 1 \in Nat
    BY <1>1
  <1>3. n - 1 \in T
    BY <1>1, <1>2
  <1> QED
    BY <1>1, <1>2, <1>3

(* The places up to the i-th element.                                      *)
UpTo(K, i) == {j \in K : j <= i}

(* The places, counted: the n-th of them has n places up to it.             *)
LEMMA PlacesCounted ==
    ASSUME NEW m \in Nat, NEW K \in SUBSET (1 .. m)
    PROVE  /\ Cardinality(K) \in Nat
           /\ \A n \in 1 .. Cardinality(K) :
                 Place(K, n) \in K /\ Cardinality(UpTo(K, Place(K, n))) = n
           /\ \A i \in K : /\ Cardinality(UpTo(K, i)) \in 1 .. Cardinality(K)
                           /\ Place(K, Cardinality(UpTo(K, i))) = i
  <1>1. IsFiniteSet(K) /\ Cardinality(K) \in Nat
    <2>1. IsFiniteSet(1 .. m)
      BY FS_Interval
    <2> QED
      BY <2>1, FS_Subset, FS_CardinalityType
  <1>0. \A i \in K : i \in Int
    OBVIOUS
  <1>2. \A i \in K : IsFiniteSet(UpTo(K, i)) /\ Cardinality(UpTo(K, i)) \in 1 .. Cardinality(K)
    <2> TAKE i \in K
    <2>1. UpTo(K, i) \subseteq K /\ i \in UpTo(K, i)
      BY <1>0 DEF UpTo
    <2>2. IsFiniteSet(UpTo(K, i)) /\ Cardinality(UpTo(K, i)) <= Cardinality(K) /\ UpTo(K, i) # {}
      BY <1>1, <2>1, FS_Subset
    <2>3. Cardinality(UpTo(K, i)) \in Nat /\ Cardinality(UpTo(K, i)) # 0
      BY <2>2, FS_CardinalityType, FS_EmptySet
    <2> QED
      BY <1>1, <2>2, <2>3
  <1>3. \A i, k \in K : Cardinality(UpTo(K, i)) = Cardinality(UpTo(K, k)) => i = k
    <2>1. ASSUME NEW i \in K, NEW k \in K, i < k
          PROVE  Cardinality(UpTo(K, i)) # Cardinality(UpTo(K, k))
      <3>1. UpTo(K, i) \subseteq UpTo(K, k) /\ k \in UpTo(K, k) /\ k \notin UpTo(K, i)
        <4>1. i \in Int /\ k \in Int /\ i < k
          BY <1>0, <2>1
        <4>2. \A j \in K : j <= i => j <= k
          BY <1>0, <4>1
        <4>3. k <= k /\ ~(k <= i)
          BY <4>1
        <4> QED
          BY <4>2, <4>3 DEF UpTo
      <3>2. IsFiniteSet(UpTo(K, k))
        BY <1>2
      <3> QED
        BY <3>1, <3>2, FS_Subset
    <2>2. \A i, k \in K : i = k \/ i < k \/ k < i
      OBVIOUS
    <2> QED
      BY <2>1, <2>2
  <1>4. \A i \in K : Place(K, Cardinality(UpTo(K, i))) = i
    <2> TAKE i \in K
    <2> DEFINE n == Cardinality(UpTo(K, i))
    <2>1. Place(K, n) \in K /\ Cardinality(UpTo(K, Place(K, n))) = n
      BY DEF Place, UpTo
    <2> QED
      BY <1>3, <2>1
  <1> DEFINE T == {UpTo(K, i) : i \in K}  count == {Cardinality(UpTo(K, i)) : i \in K}
  <1>5. \A n \in 1 .. Cardinality(K) : Place(K, n) \in K /\ Cardinality(UpTo(K, Place(K, n))) = n
    <2>1. Cardinality(count) = Cardinality(K) /\ IsFiniteSet(count)
      <3> DEFINE f == [i \in K |-> Cardinality(UpTo(K, i))]
      <3>1. f \in Bijection(K, count)
        <4>1. f \in [K -> count] /\ \A i \in K : f[i] = Cardinality(UpTo(K, i))
          OBVIOUS
        <4>2. \A c \in count : \E i \in K : f[i] = c
          OBVIOUS
        <4>3. \A i, k \in K : f[i] = f[k] => i = k
          BY <1>3, <4>1
        <4> HIDE DEF f, count
        <4>4. f \in Surjection(K, count) /\ f \in Injection(K, count)
          BY <4>1, <4>2, <4>3 DEF Surjection, Injection, IsInjective
        <4> QED
          BY <4>4 DEF Bijection
      <3> HIDE DEF f, count
      <3> QED
        BY <1>1, <3>1, FS_Bijection DEF ExistsBijection
    <2>2. count \subseteq 1 .. Cardinality(K)
      BY <1>2
    <2>3. Cardinality(1 .. Cardinality(K)) = Cardinality(K) /\ IsFiniteSet(1 .. Cardinality(K))
      BY <1>1, FS_Interval
    <2>4. count = 1 .. Cardinality(K)
      <3> HIDE DEF count
      <3> QED
        BY <2>1, <2>2, <2>3, FS_Subset
    <2>5. \A n \in 1 .. Cardinality(K) : \E i \in K : Cardinality(UpTo(K, i)) = n
      BY <2>4
    <2> HIDE DEF count
    <2> QED
      BY <1>4, <2>5
  <1> QED
    BY <1>1, <1>2, <1>4, <1>5

(* There is a first place.                                                  *)
LEMMA FirstPlace ==
    ASSUME NEW m \in Nat, NEW K \in SUBSET (1 .. m), K # {}
    PROVE  \E i \in K : \A j \in K : i <= j
  <1> DEFINE i == Place(K, 1)
  <1>1. IsFiniteSet(K) /\ Cardinality(K) \in Nat /\ Cardinality(K) # 0
    <2>1. IsFiniteSet(1 .. m)
      BY FS_Interval
    <2> QED
      BY <2>1, FS_Subset, FS_CardinalityType, FS_EmptySet
  <1>2. i \in K /\ Cardinality(UpTo(K, i)) = 1
    BY <1>1, PlacesCounted
  <1>3. ASSUME NEW j \in K, ~(i <= j) PROVE FALSE
    <2> HIDE DEF i
    <2>1. i \in Nat /\ j \in Nat /\ \A k \in K : k \in Nat
      BY <1>2
    <2>2. UpTo(K, j) \subseteq UpTo(K, i)
      <3>1. \A k \in K : k <= j => k <= i
        BY <1>3, <2>1
      <3> QED
        BY <3>1 DEF UpTo
    <2>3. IsFiniteSet(UpTo(K, i))
      BY <1>1, FS_Subset DEF UpTo
    <2>4. Cardinality(UpTo(K, j)) <= 1 /\ Cardinality(UpTo(K, j)) \in Nat
      BY <1>2, <2>2, <2>3, FS_Subset, FS_CardinalityType
    <2>5. Cardinality(UpTo(K, j)) = 1
      <3>1. Cardinality(UpTo(K, j)) \in 1 .. Cardinality(K)
        BY PlacesCounted
      <3> QED
        BY <1>1, <2>4, <3>1
    <2>6. Place(K, 1) = j
      BY <2>5, PlacesCounted
    <2> QED
      BY <1>3, <2>1, <2>6 DEF i
  <1> QED
    BY <1>2, <1>3

(* Picked keeps the elements at the places, and no others.                  *)
LEMMA PickedKeeps ==
    ASSUME NEW S, NEW s \in Seq(S), NEW K \in SUBSET (1 .. Len(s))
    PROVE  /\ Picked(s, K) \in Seq(S)
           /\ \A i \in K : \E n \in 1 .. Len(Picked(s, K)) : Picked(s, K)[n] = s[i]
           /\ \A n \in 1 .. Len(Picked(s, K)) : \E i \in K : Picked(s, K)[n] = s[i]
  <1>0. \A i \in K : i \in 1 .. Len(s) /\ s[i] \in S
    OBVIOUS
  <1>length. Len(s) \in Nat
    OBVIOUS
  <1>1. /\ Cardinality(K) \in Nat /\ \A n \in 1 .. Cardinality(K) : Place(K, n) \in K
        /\ \A i \in K : Cardinality(UpTo(K, i)) \in 1 .. Cardinality(K) /\ Place(K, Cardinality(UpTo(K, i))) = i
    BY <1>length, PlacesCounted
  <1>2. Len(Picked(s, K)) = Cardinality(K) /\ \A n \in 1 .. Cardinality(K) : Picked(s, K)[n] = s[Place(K, n)]
    BY <1>1 DEF Picked
  <1>3. Picked(s, K) \in Seq(S)
    <2>1. \A n \in 1 .. Cardinality(K) : s[Place(K, n)] \in S
      BY <1>0, <1>1
    <2> QED
      BY <1>1, <2>1 DEF Picked
  <1> QED
    BY <1>0, <1>1, <1>2, <1>3

(* Places that are the first ones of the list: those elements in order.     *)
LEMMA PickedInitial ==
    ASSUME NEW S, NEW s \in Seq(S), NEW K \in SUBSET (1 .. Len(s)),
           \A i \in K, j \in 1 .. Len(s) : j < i => j \in K
    PROVE  /\ Picked(s, K) \in Seq(S) /\ Len(Picked(s, K)) \in Nat
           /\ K = 1 .. Len(Picked(s, K))
           /\ \A n \in 1 .. Len(Picked(s, K)) : Picked(s, K)[n] = s[n]
  <1>length. Len(s) \in Nat
    OBVIOUS
  <1>1. /\ Cardinality(K) \in Nat
        /\ \A n \in 1 .. Cardinality(K) : Place(K, n) \in K /\ Cardinality(UpTo(K, Place(K, n))) = n
        /\ \A i \in K : Cardinality(UpTo(K, i)) \in 1 .. Cardinality(K)
    BY <1>length, PlacesCounted
  <1>2. \A i \in K : Cardinality(UpTo(K, i)) = i
    <2> TAKE i \in K
    <2>1. i \in 1 .. Len(s) /\ \A j \in 1 .. i : j \in K
      OBVIOUS
    <2>2. UpTo(K, i) = 1 .. i
      <3>1. \A j \in K : j \in Nat /\ j >= 1
        OBVIOUS
      <3>2. \A j \in UpTo(K, i) : j \in 1 .. i
        BY <2>1, <3>1 DEF UpTo
      <3>3. \A j \in 1 .. i : j \in UpTo(K, i)
        BY <2>1 DEF UpTo
      <3> QED
        BY <3>2, <3>3
    <2>3. Cardinality(1 .. i) = i
      BY <2>1, FS_Interval
    <2> QED
      BY <2>2, <2>3
  <1>3. \A n \in 1 .. Cardinality(K) : Place(K, n) = n /\ n \in K
    BY <1>1, <1>2
  <1>4. K = 1 .. Cardinality(K)
    BY <1>1, <1>2, <1>3
  <1>5. Len(Picked(s, K)) = Cardinality(K) /\ \A n \in 1 .. Cardinality(K) : Picked(s, K)[n] = s[n]
    BY <1>1, <1>3 DEF Picked
  <1> QED
    BY <1>1, <1>4, <1>5, PickedKeeps

(* Sequences, built from the empty one by appending.                        *)
LEMMA AllSequences ==
    ASSUME NEW S, NEW T \in SUBSET Seq(S), <<>> \in T, \A s \in T : \A x \in S : Append(s, x) \in T
    PROVE  T = Seq(S)
  <1> DEFINE N == {n \in Nat : \A s \in Seq(S) : Len(s) = n => s \in T}
  <1>1. 0 \in N
    <2>1. \A s \in Seq(S) : Len(s) = 0 => s = <<>>
      OBVIOUS
    <2> QED
      BY <2>1
  <1>2. ASSUME NEW n \in N PROVE n + 1 \in N
    <2> SUFFICES ASSUME NEW s \in Seq(S), Len(s) = n + 1 PROVE s \in T
      OBVIOUS
    <2> DEFINE f == [i \in 1 .. n |-> s[i]]  x == s[n + 1]
    <2>1. n \in Nat /\ f \in Seq(S) /\ Len(f) = n /\ x \in S
      OBVIOUS
    <2>2. f \in T
      BY <2>1
    <2>3. s = Append(f, x)
      <3>1. Append(f, x) \in Seq(S) /\ Len(Append(f, x)) = n + 1
        BY <2>1
      <3>2. \A i \in 1 .. n + 1 : Append(f, x)[i] = s[i]
        BY <2>1
      <3> QED
        BY <3>1, <3>2
    <2> HIDE DEF f, x
    <2> QED
      BY <2>1, <2>2, <2>3
  <1>3. N = Nat
    <2> HIDE DEF N
    <2>1. N \in SUBSET Nat
      BY DEF N
    <2> QED
      BY <1>1, <1>2, <2>1, AllNumbers
  <1>4. ASSUME NEW s \in Seq(S) PROVE s \in T
    <2>1. Len(s) \in N
      BY <1>3
    <2> QED
      BY <2>1
  <1> QED
    BY <1>4

(* A loop of n rounds, the i-th of which makes a value of the last one: the  *)
(* values exist.                                                            *)
Loop(S, n, start, round) ==
    {f \in [0 .. n -> S] : f[0] = start /\ \A i \in 1 .. n : f[i] = round[i][f[i - 1]]}

LEMMA LoopRuns ==
    \A S : \A n \in Nat : \A start \in S : \A round \in [1 .. n -> [S -> S]] :
        \E f : f \in Loop(S, n, start, round)
  <1> SUFFICES ASSUME NEW S, NEW n \in Nat, NEW start \in S, NEW round \in [1 .. n -> [S -> S]]
               PROVE  \E f : f \in Loop(S, n, start, round)
    BY Zenon
  <1> DEFINE Values(f, m) == f[0] = start /\ \A i \in 1 .. m : f[i] = round[i][f[i - 1]]
             T == {m \in Nat : m <= n => \E f \in [0 .. m -> S] : Values(f, m)}
  <1>1. 0 \in T
    <2>1. [i \in 0 .. 0 |-> start] \in [0 .. 0 -> S] /\ Values([i \in 0 .. 0 |-> start], 0)
      OBVIOUS
    <2> QED
      BY <2>1
  <1>2. ASSUME NEW m \in T PROVE m + 1 \in T
    <2> SUFFICES ASSUME m + 1 <= n PROVE \E g \in [0 .. m + 1 -> S] : Values(g, m + 1)
      <3>1. m + 1 \in Nat
        OBVIOUS
      <3> QED
        BY <3>1, Zenon
    <2>1. m \in Nat /\ m <= n
      OBVIOUS
    <2>2. PICK f \in [0 .. m -> S] : Values(f, m)
      BY <2>1
    <2> DEFINE g == [i \in 0 .. m + 1 |-> IF i <= m THEN f[i] ELSE round[m + 1][f[m]]]
    <2>3. f[m] \in S /\ m + 1 \in 1 .. n
      BY <2>1
    <2>4. round[m + 1] \in [S -> S]
      BY <2>3
    <2>5. round[m + 1][f[m]] \in S
      BY <2>3, <2>4
    <2>6. g \in [0 .. m + 1 -> S]
      BY <2>1, <2>5
    <2>7. g[0] = start /\ \A i \in 1 .. m + 1 : g[i] = round[i][g[i - 1]]
      <3>1. \A i \in 0 .. m : g[i] = f[i]
        BY <2>1
      <3>2. g[m + 1] = round[m + 1][f[m]]
        BY <2>1
      <3>3. g[0] = start
        BY <2>1, <2>2, <3>1
      <3>4. \A i \in 1 .. m + 1 : (i \in 1 .. m /\ i - 1 \in 0 .. m /\ i \in 0 .. m) \/ (i = m + 1 /\ i - 1 = m)
        BY <2>1
      <3> HIDE DEF g
      <3>5. m \in 0 .. m
        BY <2>1
      <3>6. ASSUME NEW i \in 1 .. m + 1 PROVE g[i] = round[i][g[i - 1]]
        <4>1. CASE i \in 1 .. m /\ i - 1 \in 0 .. m /\ i \in 0 .. m
          BY <2>2, <3>1, <4>1
        <4>2. CASE i = m + 1 /\ i - 1 = m
          BY <3>1, <3>2, <3>5, <4>2
        <4> QED
          BY <3>4, <4>1, <4>2
      <3> QED
        BY <3>3, <3>6
    <2> HIDE DEF g
    <2> QED
      BY <2>6, <2>7
  <1>3. T = Nat
    <2> HIDE DEF T
    <2>1. T \in SUBSET Nat
      BY DEF T
    <2> QED
      BY <1>1, <1>2, <2>1, AllNumbers
  <1>4. n \in T
    BY <1>3
  <1>5. PICK f \in [0 .. n -> S] : Values(f, n)
    BY <1>4
  <1>6. f \in Loop(S, n, start, round)
    BY <1>5 DEF Loop
  <1> QED
    BY <1>6, Zenon

(* What two sequences share is at the front of both.                        *)
LEMMA SharedHas ==
    ASSUME NEW S, NEW p \in Seq(S), NEW q \in Seq(S)
    PROVE  /\ Shared(p, q) \in 0 .. Len(p) /\ Shared(p, q) <= Len(q)
           /\ SubSeq(p, 1, Shared(p, q)) = SubSeq(q, 1, Shared(p, q))
  <1> DEFINE T == {n \in Nat : n = Len(p) \/ n = Len(q) \/ p[n + 1] # q[n + 1]}
  <1>0. Len(p) \in Nat /\ Len(q) \in Nat
    OBVIOUS
  <1>1. T \in SUBSET Nat /\ Len(p) \in T /\ Len(q) \in T
    BY <1>0
  <1>2. PICK n \in T : \A m \in T : n <= m
    BY <1>1, LeastNat
  <1>3. n \in 0 .. Len(p) /\ n <= Len(q)
    BY <1>0, <1>1, <1>2
  <1>4. \A i \in 1 .. n : p[i] = q[i]
    <2> TAKE i \in 1 .. n
    <2>1. i - 1 \in Nat /\ ~(n <= i - 1) /\ i - 1 + 1 = i
      BY <1>3
    <2>2. i - 1 \notin T
      BY <1>2, <2>1
    <2> QED
      BY <2>1, <2>2
  <1>5. SubSeq(p, 1, n) = SubSeq(q, 1, n)
    <2>1. SubSeq(p, 1, n) = [i \in 1 .. n |-> p[i]] /\ SubSeq(q, 1, n) = [i \in 1 .. n |-> q[i]]
      BY <1>3
    <2> QED
      BY <1>4, <2>1
  <1>6. n < Len(p) /\ n < Len(q) => p[n + 1] # q[n + 1]
    BY <1>0, <1>2
  <1> HIDE DEF T
  <1> QED
    BY <1>3, <1>5, <1>6 DEF Shared
====
