------------------------------ MODULE Induction ------------------------------
(***************************************************************************)
(* Induction over the natural numbers, for a set instead of a predicate:   *)
(* the form in which the proofs about recursive functions use it.          *)
(***************************************************************************)
EXTENDS Naturals, Sequences, FiniteSets, FiniteSetTheorems, WellFoundedInduction, TLAPS

\* A set with 0, and with n + 1 whenever it has n, has every natural number: otherwise one
\* of the intervals 0 .. k whose k is missing would be smallest.
LEMMA SetInduction ==
    ASSUME NEW S, 0 \in S, \A n \in Nat : n \in S => n + 1 \in S
    PROVE  Nat \subseteq S
  <1> SUFFICES ASSUME NEW n \in Nat, n \notin S
               PROVE  FALSE
    OBVIOUS
  <1> DEFINE T == {0 .. k : k \in (0 .. n) \ S}
             R == StrictSubsetOrdering(0 .. n)
             F == FiniteSubsetsOf(0 .. n)
  <1>1. IsWellFoundedOn(R, F)
    BY FS_StrictSubsetOrderingWellFounded
  <1>2. T \subseteq F
    <2>1. ASSUME NEW k \in 0 .. n
          PROVE  0 .. k \in F
      <3>1. IsFiniteSet(0 .. k)
        BY FS_Interval
      <3>2. 0 .. k \subseteq 0 .. n
        OBVIOUS
      <3> QED
        BY <3>1, <3>2 DEF FiniteSubsetsOf
    <2> QED
      BY <2>1
  <1>3. T # {}
    OBVIOUS
  <1>4. PICK x \in T : \A y \in T : ~ (<<y, x>> \in R)
    <2> HIDE DEF T, R, F
    <2> QED
      BY <1>1, <1>2, <1>3, WFMin
  <1>5. PICK k \in (0 .. n) \ S : x = 0 .. k
    OBVIOUS
  <1>6. k - 1 \in (0 .. n) \ S
    OBVIOUS
  <1>7. 0 .. (k - 1) \in T
    BY <1>6
  <1>8. <<0 .. (k - 1), 0 .. k>> \in R
    <2>1. 0 .. (k - 1) \subseteq 0 .. n /\ 0 .. k \subseteq 0 .. n /\ 0 .. (k - 1) \subseteq 0 .. k
      BY <1>6
    <2>2. k \in 0 .. k /\ k \notin 0 .. (k - 1)
      BY <1>6
    <2> QED
      BY <2>1, <2>2 DEF StrictSubsetOrdering
  <1> QED
    BY <1>4, <1>5, <1>7, <1>8

\* A recursive definition on 0 .. N: start with z, and F gives the next value.
Follows(f, z, F, N) == f[0] = z /\ \A n \in 0 .. N - 1 : f[n + 1] = F[<<n, f[n]>>]
HasSolution(S, z, F, N) == \E f \in [0 .. N -> S] : Follows(f, z, F, N)

LEMMA Recursion ==
    ASSUME NEW S, NEW z \in S, NEW F \in [Nat \X S -> S], NEW N \in Nat
    PROVE  HasSolution(S, z, F, N)
  <1> DEFINE Right(f, k) == f[0] = z /\ \A n \in 0 .. k - 1 : f[n + 1] = F[<<n, f[n]>>]
             I == {k \in Nat : \E f \in [0 .. k -> S] : Right(f, k)}
  <1>1. 0 \in I
    <2> DEFINE f == [k \in 0 .. 0 |-> z]
    <2>1. f \in [0 .. 0 -> S] /\ Right(f, 0)
      OBVIOUS
    <2> QED
      BY <2>1
  <1>2. ASSUME NEW k \in Nat, k \in I
        PROVE  k + 1 \in I
    <2>1. PICK f \in [0 .. k -> S] : Right(f, k)
      BY <1>2
    <2> DEFINE v == F[<<k, f[k]>>]
               g == [n \in 0 .. k + 1 |-> IF n = k + 1 THEN v ELSE f[n]]
    <2>2. f[k] \in S
      OBVIOUS
    <2>3. <<k, f[k]>> \in Nat \X S
      BY <2>2
    <2>4. v \in S
      <3> DEFINE a == <<k, f[k]>>
      <3>1. a \in Nat \X S
        BY <2>3
      <3> HIDE DEF a
      <3>2. F[a] \in S
        BY <3>1
      <3> QED
        BY <3>2 DEF a
    <2> HIDE DEF v
    <2>5. g \in [0 .. k + 1 -> S]
      BY <2>4
    <2>6. \A n \in 0 .. k : g[n] = f[n]
      OBVIOUS
    <2>7. g[k + 1] = v
      OBVIOUS
    <2> HIDE DEF g
    <2>8. ASSUME NEW n \in 0 .. (k + 1) - 1
          PROVE  g[n + 1] = F[<<n, g[n]>>]
      <3>1. CASE n = k
        <4>1. g[n + 1] = F[<<k, f[k]>>]
          BY <2>7, <3>1 DEF v
        <4> QED
          BY <2>6, <3>1, <4>1
      <3>2. CASE n # k
        <4>1. n \in 0 .. k - 1 /\ n + 1 \in 0 .. k
          BY <3>2
        <4>2. f[n + 1] = F[<<n, f[n]>>]
          BY <2>1, <4>1
        <4>3. g[n + 1] = f[n + 1] /\ g[n] = f[n]
          BY <2>6, <4>1
        <4> QED
          BY <4>2, <4>3
      <3> QED
        BY <3>1, <3>2
    <2>9. g[0] = z
      BY <2>1, <2>6
    <2>10. Right(g, k + 1)
      BY <2>8, <2>9
    <2> HIDE DEF Right
    <2> QED
      BY <2>5, <2>10
  <1>3. N \in I
    <2> HIDE DEF I
    <2> QED
      BY <1>1, <1>2, SetInduction
  <1> QED
    BY <1>3 DEF HasSolution, Follows

\* A set of natural numbers that is not empty has a least one.
LEMMA LeastNumber ==
    ASSUME NEW S \in SUBSET Nat, NEW n \in S
    PROVE  \E m \in S : \A k \in S : m <= k
  <1> SUFFICES ASSUME \A m \in S : \E k \in S : k < m
               PROVE  FALSE
    <2>1. ASSUME NEW m \in S, NEW k \in S, ~(m <= k)
          PROVE  k < m
      BY <2>1
    <2> QED
      BY <2>1
  <1> DEFINE J == {j \in Nat : \A k \in S : k >= j}
  <1>1. 0 \in J
    OBVIOUS
  <1>2. ASSUME NEW j \in Nat, j \in J
        PROVE  j + 1 \in J
    <2> SUFFICES ASSUME NEW k \in S
                 PROVE  k >= j + 1
      OBVIOUS
    <2>1. PICK l \in S : l < k
      OBVIOUS
    <2>2. l >= j /\ l \in Nat /\ k \in Nat
      BY <1>2
    <2> QED
      BY <2>1, <2>2
  <1>3. n + 1 \in J
    <2>1. Nat \subseteq J
      <3> HIDE DEF J
      <3> QED
        BY <1>1, <1>2, SetInduction
    <2> QED
      BY <2>1
  <1> QED
    BY <1>3
=============================================================================
