--------------------------- MODULE IntervalProofs ---------------------------
(***************************************************************************)
(* Sets of intervals: the one pass over two sorted vectors of intervals    *)
(* finds the points of their intersection, difference and union, for       *)
(* vectors of any length.                                                  *)
(***************************************************************************)
EXTENDS IntervalOps, SequenceTheorems, Induction, TLAPS

(***************************************************************************)
(* Intervals and their points.                                             *)
(***************************************************************************)
Ivl == [s : Nat, e : Nat, sopen : BOOLEAN, eopen : BOOLEAN]
Bound == Nat \X BOOLEAN

\* The first point of what begins at a bound, the last of what ends at one.
Lo(c) == IF c[2] THEN 2 * c[1] + 1 ELSE 2 * c[1]
Hi(c) == IF c[2] THEN 2 * c[1] - 1 ELSE 2 * c[1]
LoOf(i) == Lo(Start(i))
HiOf(i) == Hi(End(i))

LEMMA BoundKnown ==
    ASSUME NEW c \in Bound
    PROVE  /\ c[1] \in Nat /\ c[2] \in BOOLEAN /\ Lo(c) \in Nat /\ Hi(c) \in Int
           /\ Lo(c) = 2 * c[1] \/ Lo(c) = 2 * c[1] + 1
           /\ Hi(c) = 2 * c[1] \/ Hi(c) = 2 * c[1] - 1
  <1>1. c[1] \in Nat /\ c[2] \in BOOLEAN
    BY DEF Bound
  <1>2. CASE c[2]
    <2>1. Lo(c) = 2 * c[1] + 1 /\ Hi(c) = 2 * c[1] - 1
      BY <1>2, Zenon DEF Lo, Hi
    <2> QED
      BY <1>1, <2>1
  <1>3. CASE ~c[2]
    <2>1. Lo(c) = 2 * c[1] /\ Hi(c) = 2 * c[1]
      BY <1>3, Zenon DEF Lo, Hi
    <2> QED
      BY <1>1, <2>1
  <1> QED
    BY <1>1, <1>2, <1>3

LEMMA BoundsOf ==
    ASSUME NEW i \in Ivl
    PROVE  /\ Start(i) \in Bound /\ End(i) \in Bound
           /\ Start(i)[1] = i.s /\ End(i)[1] = i.e /\ Start(i)[2] = i.sopen /\ End(i)[2] = i.eopen
           /\ LoOf(i) \in Nat /\ HiOf(i) \in Int
           /\ LoOf(i) = 2 * i.s \/ LoOf(i) = 2 * i.s + 1
           /\ HiOf(i) = 2 * i.e \/ HiOf(i) = 2 * i.e - 1
  <1>1. i.s \in Nat /\ i.e \in Nat /\ i.sopen \in BOOLEAN /\ i.eopen \in BOOLEAN
    BY DEF Ivl
  <1>2. Start(i) \in Bound /\ End(i) \in Bound
    BY <1>1 DEF Start, End, Bound
  <1>3. Start(i)[1] = i.s /\ End(i)[1] = i.e /\ Start(i)[2] = i.sopen /\ End(i)[2] = i.eopen
    BY Zenon DEF Start, End
  <1> QED
    BY <1>2, <1>3, BoundKnown DEF LoOf, HiOf

\* Comparing bounds compares their points.
LEMMA Comparisons ==
    ASSUME NEW c \in Bound, NEW d \in Bound
    PROVE  /\ start_lt(c, d) <=> Lo(c) < Lo(d)
           /\ start_gt(c, d) <=> Lo(c) > Lo(d)
           /\ end_lt(c, d) <=> Hi(c) < Hi(d)
           /\ end_gt(c, d) <=> Hi(c) > Hi(d)
  <1>1. c[1] \in Nat /\ d[1] \in Nat
    BY BoundKnown
  <1>2. CASE c[2] /\ d[2]
    <2>1. Lo(c) = 2 * c[1] + 1 /\ Hi(c) = 2 * c[1] - 1 /\ Lo(d) = 2 * d[1] + 1 /\ Hi(d) = 2 * d[1] - 1
      BY <1>2, Zenon DEF Lo, Hi
    <2>2. /\ start_lt(c, d) <=> c[1] < d[1]
          /\ start_gt(c, d) <=> c[1] > d[1]
          /\ end_lt(c, d) <=> c[1] < d[1]
          /\ end_gt(c, d) <=> c[1] > d[1]
      BY <1>2, Zenon DEF start_lt, start_gt, end_lt, end_gt
    <2> QED
      BY <1>1, <2>1, <2>2
  <1>3. CASE c[2] /\ ~d[2]
    <2>1. Lo(c) = 2 * c[1] + 1 /\ Hi(c) = 2 * c[1] - 1 /\ Lo(d) = 2 * d[1] /\ Hi(d) = 2 * d[1]
      BY <1>3, Zenon DEF Lo, Hi
    <2>2. /\ start_lt(c, d) <=> c[1] < d[1]
          /\ start_gt(c, d) <=> c[1] > d[1] \/ c[1] = d[1]
          /\ end_lt(c, d) <=> c[1] < d[1] \/ c[1] = d[1]
          /\ end_gt(c, d) <=> c[1] > d[1]
      BY <1>3, Zenon DEF start_lt, start_gt, end_lt, end_gt
    <2> QED
      BY <1>1, <2>1, <2>2
  <1>4. CASE ~c[2] /\ d[2]
    <2>1. Lo(c) = 2 * c[1] /\ Hi(c) = 2 * c[1] /\ Lo(d) = 2 * d[1] + 1 /\ Hi(d) = 2 * d[1] - 1
      BY <1>4, Zenon DEF Lo, Hi
    <2>2. /\ start_lt(c, d) <=> c[1] < d[1] \/ c[1] = d[1]
          /\ start_gt(c, d) <=> c[1] > d[1]
          /\ end_lt(c, d) <=> c[1] < d[1]
          /\ end_gt(c, d) <=> c[1] > d[1] \/ c[1] = d[1]
      BY <1>4, Zenon DEF start_lt, start_gt, end_lt, end_gt
    <2> QED
      BY <1>1, <2>1, <2>2
  <1>5. CASE ~c[2] /\ ~d[2]
    <2>1. Lo(c) = 2 * c[1] /\ Hi(c) = 2 * c[1] /\ Lo(d) = 2 * d[1] /\ Hi(d) = 2 * d[1]
      BY <1>5, Zenon DEF Lo, Hi
    <2>2. /\ start_lt(c, d) <=> c[1] < d[1]
          /\ start_gt(c, d) <=> c[1] > d[1]
          /\ end_lt(c, d) <=> c[1] < d[1]
          /\ end_gt(c, d) <=> c[1] > d[1]
      BY <1>5, Zenon DEF start_lt, start_gt, end_lt, end_gt
    <2> QED
      BY <1>1, <2>1, <2>2
  <1> QED
    BY <1>2, <1>3, <1>4, <1>5

\* The points of an interval are those from its first to its last.
LEMMA PointsAre ==
    ASSUME NEW i \in Ivl
    PROVE  \A p : p \in Points(i) <=> p \in Int /\ LoOf(i) <= p /\ p <= HiOf(i)
  <1> TAKE p
  <1>1. i.s \in Nat /\ i.e \in Nat
    BY DEF Ivl
  <1>2. p \in Points(i) <=> p \in 2 * i.s .. 2 * i.e /\ (p = 2 * i.s => ~i.sopen) /\ (p = 2 * i.e => ~i.eopen)
    BY Zenon DEF Points
  <1>3. p \in Int => ((p = 2 * i.s => ~i.sopen) /\ 2 * i.s <= p <=> LoOf(i) <= p)
    <2>1. CASE i.sopen
      <3>1. LoOf(i) = 2 * i.s + 1
        BY <2>1, BoundsOf, Zenon DEF LoOf, Lo
      <3>2. (p = 2 * i.s => ~i.sopen) <=> p # 2 * i.s
        BY <2>1, Zenon
      <3> QED
        BY <1>1, <3>1, <3>2
    <2>2. CASE ~i.sopen
      <3>1. LoOf(i) = 2 * i.s
        BY <2>2, BoundsOf, Zenon DEF LoOf, Lo
      <3>2. p = 2 * i.s => ~i.sopen
        BY <2>2, Zenon
      <3> QED
        BY <1>1, <3>1, <3>2
    <2> QED
      BY <2>1, <2>2
  <1>4. p \in Int => ((p = 2 * i.e => ~i.eopen) /\ p <= 2 * i.e <=> p <= HiOf(i))
    <2>1. CASE i.eopen
      <3>1. HiOf(i) = 2 * i.e - 1
        BY <2>1, BoundsOf, Zenon DEF HiOf, Hi
      <3>2. (p = 2 * i.e => ~i.eopen) <=> p # 2 * i.e
        BY <2>1, Zenon
      <3> QED
        BY <1>1, <3>1, <3>2
    <2>2. CASE ~i.eopen
      <3>1. HiOf(i) = 2 * i.e
        BY <2>2, BoundsOf, Zenon DEF HiOf, Hi
      <3>2. p = 2 * i.e => ~i.eopen
        BY <2>2, Zenon
      <3> QED
        BY <1>1, <3>1, <3>2
    <2> QED
      BY <2>1, <2>2
  <1>5. p \in 2 * i.s .. 2 * i.e <=> p \in Int /\ 2 * i.s <= p /\ p <= 2 * i.e
    BY <1>1
  <1> QED
    BY <1>2, <1>3, <1>4, <1>5, Zenon

LEMMA BuiltIs ==
    ASSUME NEW c \in Bound, NEW d \in Bound
    PROVE  Built(c, d) \in Ivl /\ LoOf(Built(c, d)) = Lo(c) /\ HiOf(Built(c, d)) = Hi(d)
  <1>1. c[1] \in Nat /\ c[2] \in BOOLEAN /\ d[1] \in Nat /\ d[2] \in BOOLEAN
    BY BoundKnown
  <1>2. Built(c, d) \in Ivl
    BY <1>1 DEF Built, Interval, Ivl
  <1>3. /\ Start(Built(c, d)) = <<c[1], c[2]>>
        /\ End(Built(c, d)) = <<d[1], d[2]>>
    BY Zenon DEF Built, Interval, Start, End
  <1>4. c = <<c[1], c[2]>> /\ d = <<d[1], d[2]>>
    BY DEF Bound
  <1> QED
    BY <1>2, <1>3, <1>4, Zenon DEF LoOf, HiOf

\* Where nothing lies between two times, or where all ends are closed, what touches is
\* as good as what overlaps.
IsOdd(p) == \A n \in Int : p # 2 * n

LEMMA OddIs ==
    ASSUME NEW p \in Int
    PROVE  p % 2 = 1 <=> IsOdd(p)
  <1>1. PICK n \in Int : p = 2 * n \/ p = 2 * n + 1
    <2>1. p = 2 * (p \div 2) + (p % 2) /\ p % 2 \in 0 .. 1 /\ p \div 2 \in Int
      OBVIOUS
    <2> QED
      BY <2>1
  <1>2. CASE p = 2 * n
    BY <1>2 DEF IsOdd
  <1>3. CASE p = 2 * n + 1
    BY <1>3 DEF IsOdd
  <1> QED
    BY <1>1, <1>2, <1>3

\* If i does not end before j starts, it reaches up to the start of j.
LEMMA Reaches ==
    ASSUME NEW i \in Ivl, NEW j \in Ivl, ~end_lt_start(i, j),
           NEW p \in Int, IsOdd(p) \/ ~j.sopen, p < LoOf(j)
    PROVE  p <= HiOf(i)
  <1>1. Hi(End(i)) >= Hi(Start(j))
    <2>1. ~end_lt(End(i), Start(j))
      BY Zenon DEF end_lt_start
    <2> QED
      BY <2>1, Comparisons, BoundsOf, BoundKnown
  <1>2. j.s \in Nat /\ HiOf(i) \in Int
    BY BoundsOf DEF Ivl
  <1>3. CASE j.sopen
    <2>1. LoOf(j) = 2 * j.s + 1 /\ Hi(Start(j)) = 2 * j.s - 1
      BY <1>3, BoundsOf, Zenon DEF LoOf, Lo, Hi
    <2>2. p # 2 * j.s
      BY <1>2, <1>3 DEF IsOdd
    <2> QED
      BY <1>1, <1>2, <2>1, <2>2 DEF HiOf
  <1>4. CASE ~j.sopen
    <2>1. LoOf(j) = 2 * j.s /\ Hi(Start(j)) = 2 * j.s
      BY <1>4, BoundsOf, Zenon DEF LoOf, Lo, Hi
    <2> QED
      BY <1>1, <1>2, <2>1 DEF HiOf
  <1> QED
    BY <1>3, <1>4

LEMMA EndsFirst ==
    ASSUME NEW i \in Ivl, NEW j \in Ivl, end_lt_start(i, j)
    PROVE  HiOf(i) < LoOf(j) /\ (LoOf(i) <= HiOf(i) => i.s < j.s)
  <1>1. Hi(End(i)) < Hi(Start(j))
    <2>1. end_lt(End(i), Start(j))
      BY Zenon DEF end_lt_start
    <2> QED
      BY <2>1, Comparisons, BoundsOf, BoundKnown
  <1>2. i.s \in Nat /\ j.s \in Nat /\ HiOf(i) \in Int
    BY BoundsOf DEF Ivl
  <1>3. Hi(Start(j)) \in Int /\ (Hi(Start(j)) = 2 * j.s \/ Hi(Start(j)) = 2 * j.s - 1)
    BY BoundsOf, BoundKnown
  <1> QED
    BY <1>1, <1>2, <1>3, BoundsOf DEF HiOf

\* What is left of a difference begins behind what was taken away.
LEMMA BehindIs ==
    ASSUME NEW i \in Ivl, NEW c \in Bound
    PROVE  /\ <<i.e, ~i.eopen>> \in Bound /\ Lo(<<i.e, ~i.eopen>>) = HiOf(i) + 1
           /\ <<i.s, ~i.sopen>> \in Bound /\ Hi(<<i.s, ~i.sopen>>) = LoOf(i) - 1
           /\ start_lt(End(i), c) => HiOf(i) < Lo(c)
           /\ ~start_lt(End(i), c) => \A p \in Int : HiOf(i) < p /\ (IsOdd(p) \/ ~i.eopen) => Lo(c) <= p
  <1>1. i.s \in Nat /\ i.e \in Nat /\ i.sopen \in BOOLEAN /\ i.eopen \in BOOLEAN
    BY DEF Ivl
  <1>2. <<i.e, ~i.eopen>> \in Bound /\ Lo(<<i.e, ~i.eopen>>) = HiOf(i) + 1
    <2>1. CASE i.eopen
      <3>1. HiOf(i) = 2 * i.e - 1 /\ Lo(<<i.e, ~i.eopen>>) = 2 * i.e
        BY <2>1, BoundsOf, Zenon DEF HiOf, Lo, Hi
      <3>2. <<i.e, ~i.eopen>> \in Bound
        BY <1>1, Zenon DEF Bound
      <3> QED
        BY <1>1, <3>1, <3>2
    <2>2. CASE ~i.eopen
      <3>1. HiOf(i) = 2 * i.e /\ Lo(<<i.e, ~i.eopen>>) = 2 * i.e + 1
        BY <2>2, BoundsOf, Zenon DEF HiOf, Lo, Hi
      <3>2. <<i.e, ~i.eopen>> \in Bound
        BY <1>1, Zenon DEF Bound
      <3> QED
        BY <1>1, <3>1, <3>2
    <2> QED
      BY <2>1, <2>2
  <1>3. <<i.s, ~i.sopen>> \in Bound /\ Hi(<<i.s, ~i.sopen>>) = LoOf(i) - 1
    <2>1. CASE i.sopen
      <3>1. LoOf(i) = 2 * i.s + 1 /\ Hi(<<i.s, ~i.sopen>>) = 2 * i.s
        BY <2>1, BoundsOf, Zenon DEF LoOf, Lo, Hi
      <3>2. <<i.s, ~i.sopen>> \in Bound
        BY <1>1, Zenon DEF Bound
      <3> QED
        BY <1>1, <3>1, <3>2
    <2>2. CASE ~i.sopen
      <3>1. LoOf(i) = 2 * i.s /\ Hi(<<i.s, ~i.sopen>>) = 2 * i.s - 1
        BY <2>2, BoundsOf, Zenon DEF LoOf, Lo, Hi
      <3>2. <<i.s, ~i.sopen>> \in Bound
        BY <1>1, Zenon DEF Bound
      <3> QED
        BY <1>1, <3>1, <3>2
    <2> QED
      BY <2>1, <2>2
  <1>4. start_lt(End(i), c) <=> Lo(End(i)) < Lo(c)
    BY Comparisons, BoundsOf
  <1>5. Lo(c) \in Nat
    BY BoundKnown
  <1>6. CASE i.eopen
    <2>1. HiOf(i) = 2 * i.e - 1 /\ Lo(End(i)) = 2 * i.e + 1
      BY <1>6, BoundsOf, Zenon DEF HiOf, Lo, Hi
    <2>2. ASSUME ~start_lt(End(i), c), NEW p \in Int, HiOf(i) < p, IsOdd(p) \/ ~i.eopen
          PROVE  Lo(c) <= p
      <3>1. p # 2 * i.e
        BY <1>1, <1>6, <2>2 DEF IsOdd
      <3> QED
        BY <1>1, <1>4, <1>5, <2>1, <2>2, <3>1
    <2>3. start_lt(End(i), c) => HiOf(i) < Lo(c)
      BY <1>1, <1>4, <1>5, <2>1
    <2> QED
      BY <1>2, <1>3, <2>2, <2>3
  <1>7. CASE ~i.eopen
    <2>1. HiOf(i) = 2 * i.e /\ Lo(End(i)) = 2 * i.e
      BY <1>7, BoundsOf, Zenon DEF HiOf, Lo, Hi
    <2>2. ASSUME ~start_lt(End(i), c), NEW p \in Int, HiOf(i) < p
          PROVE  Lo(c) <= p
      BY <1>1, <1>4, <1>5, <2>1, <2>2
    <2>3. start_lt(End(i), c) => HiOf(i) < Lo(c)
      BY <1>1, <1>4, <1>5, <2>1
    <2> QED
      BY <1>2, <1>3, <2>2, <2>3
  <1> QED
    BY <1>6, <1>7

(***************************************************************************)
(* Vectors of intervals.                                                   *)
(***************************************************************************)
\* The intervals from a position on hold a point.
Holds(v, k, p) == \E i \in 1 .. Len(v) : i >= k /\ p \in Points(v[i])
Solid(v) == \A i \in 1 .. Len(v) : LoOf(v[i]) <= HiOf(v[i])
Separate(v) == \A i, j \in 1 .. Len(v) : i < j => HiOf(v[i]) < LoOf(v[j])
StartsAscend(v) == \A i, j \in 1 .. Len(v) : i <= j => LoOf(v[i]) <= LoOf(v[j])

LEMMA CoverIs == \A v, p : p \in Cover(v) <=> Holds(v, 1, p)
  <1> TAKE v, p
  <1>1. p \in Cover(v) <=> \E i \in 1 .. Len(v) : p \in Points(v[i])
    BY Zenon DEF Cover
  <1>2. \A i \in 1 .. Len(v) : i >= 1
    OBVIOUS
  <1> QED
    BY <1>1, <1>2, Zenon DEF Holds

LEMMA ElementsKnown ==
    ASSUME NEW v \in Seq(Ivl)
    PROVE  Len(v) \in Nat /\ \A i \in 1 .. Len(v) : v[i] \in Ivl
  BY ElementOfSeq, LenProperties

LEMMA HoldsNext ==
    ASSUME NEW v \in Seq(Ivl), NEW k \in 1 .. Len(v), NEW p
    PROVE  Holds(v, k, p) <=> p \in Points(v[k]) \/ Holds(v, k + 1, p)
  <1>1. Len(v) \in Nat
    BY ElementsKnown
  <1>2. ASSUME Holds(v, k, p)
        PROVE  p \in Points(v[k]) \/ Holds(v, k + 1, p)
    <2>1. PICK i \in 1 .. Len(v) : i >= k /\ p \in Points(v[i])
      BY <1>2, Zenon DEF Holds
    <2>2. i = k \/ i >= k + 1
      BY <1>1, <2>1
    <2> QED
      BY <2>1, <2>2, Zenon DEF Holds
  <1>3. ASSUME p \in Points(v[k])
        PROVE  Holds(v, k, p)
    <2>1. k >= k
      OBVIOUS
    <2> QED
      BY <1>3, <2>1, Zenon DEF Holds
  <1>4. ASSUME Holds(v, k + 1, p)
        PROVE  Holds(v, k, p)
    <2>1. PICK i \in 1 .. Len(v) : i >= k + 1 /\ p \in Points(v[i])
      BY <1>4, Zenon DEF Holds
    <2>2. i >= k
      BY <1>1, <2>1
    <2> QED
      BY <2>1, <2>2, Zenon DEF Holds
  <1> QED
    BY <1>2, <1>3, <1>4

LEMMA HoldsNothing ==
    ASSUME NEW v \in Seq(Ivl), NEW k \in Nat, k > Len(v), NEW p
    PROVE  ~Holds(v, k, p)
  BY ElementsKnown DEF Holds

LEMMA HoldsInts ==
    ASSUME NEW v \in Seq(Ivl), NEW k, NEW p, Holds(v, k, p)
    PROVE  p \in Int
  <1>1. PICK i \in 1 .. Len(v) : p \in Points(v[i])
    BY Zenon DEF Holds
  <1>2. v[i] \in Ivl
    BY ElementsKnown
  <1> QED
    BY <1>1, <1>2, PointsAre, Zenon

LEMMA HoldsJoined ==
    ASSUME NEW v \in Seq(Ivl), NEW w \in Seq(Ivl), NEW p
    PROVE  Holds(v \o w, 1, p) <=> Holds(v, 1, p) \/ Holds(w, 1, p)
  <1>1. /\ Len(v) \in Nat /\ Len(w) \in Nat /\ Len(v \o w) = Len(v) + Len(w)
        /\ \A i \in 1 .. Len(v) : (v \o w)[i] = v[i]
        /\ \A i \in 1 .. Len(w) : (v \o w)[Len(v) + i] = w[i]
    <2>1. Len(v \o w) = Len(v) + Len(w)
      BY ConcatProperties
    <2>2. \A i \in 1 .. Len(v) + Len(w) : (v \o w)[i] = IF i <= Len(v) THEN v[i] ELSE w[i - Len(v)]
      BY ConcatProperties
    <2> QED
      BY <2>1, <2>2, ElementsKnown
  <1>2. ASSUME Holds(v \o w, 1, p)
        PROVE  Holds(v, 1, p) \/ Holds(w, 1, p)
    <2>1. PICK i \in 1 .. Len(v \o w) : p \in Points((v \o w)[i])
      BY <1>2, Zenon DEF Holds
    <2>2. CASE i <= Len(v)
      <3>1. i \in 1 .. Len(v) /\ i >= 1
        BY <1>1, <2>2
      <3> QED
        BY <1>1, <2>1, <3>1, Zenon DEF Holds
    <2>3. CASE ~(i <= Len(v))
      <3> DEFINE j == i - Len(v)
      <3>1. j \in 1 .. Len(w) /\ j >= 1 /\ Len(v) + j = i
        BY <1>1, <2>3
      <3> HIDE DEF j
      <3>2. (v \o w)[i] = w[j]
        BY <1>1, <3>1, Zenon
      <3> QED
        BY <2>1, <3>1, <3>2, Zenon DEF Holds
    <2> QED
      BY <2>2, <2>3
  <1>3. ASSUME Holds(v, 1, p)
        PROVE  Holds(v \o w, 1, p)
    <2>1. PICK i \in 1 .. Len(v) : p \in Points(v[i])
      BY <1>3, Zenon DEF Holds
    <2>2. i \in 1 .. Len(v \o w) /\ i >= 1
      BY <1>1
    <2> QED
      BY <1>1, <2>1, <2>2, Zenon DEF Holds
  <1>4. ASSUME Holds(w, 1, p)
        PROVE  Holds(v \o w, 1, p)
    <2>1. PICK i \in 1 .. Len(w) : p \in Points(w[i])
      BY <1>4, Zenon DEF Holds
    <2> DEFINE j == Len(v) + i
    <2>2. j \in 1 .. Len(v \o w) /\ j >= 1
      BY <1>1
    <2>3. (v \o w)[j] = w[i]
      BY <1>1, Zenon
    <2> HIDE DEF j
    <2> QED
      BY <2>1, <2>2, <2>3, Zenon DEF Holds
  <1> QED
    BY <1>2, <1>3, <1>4

LEMMA HoldsAdded ==
    ASSUME NEW v \in Seq(Ivl), NEW c \in Bound, NEW d \in Bound, NEW p
    PROVE  /\ Append(v, Built(c, d)) \in Seq(Ivl)
           /\ Holds(Append(v, Built(c, d)), 1, p) <=> Holds(v, 1, p) \/ (p \in Int /\ Lo(c) <= p /\ p <= Hi(d))
  <1> DEFINE i == Built(c, d)
  <1>1. i \in Ivl /\ LoOf(i) = Lo(c) /\ HiOf(i) = Hi(d)
    BY BuiltIs
  <1>2. p \in Points(i) <=> p \in Int /\ Lo(c) <= p /\ p <= Hi(d)
    BY <1>1, PointsAre
  <1> HIDE DEF i
  <1>3. <<i>> \in Seq(Ivl) /\ Len(<<i>>) = 1 /\ <<i>>[1] = i
    BY <1>1
  <1>4. Append(v, i) = v \o <<i>> /\ Append(v, i) \in Seq(Ivl)
    BY <1>1, AppendIsConcat, AppendProperties
  <1>5. Holds(v \o <<i>>, 1, p) <=> Holds(v, 1, p) \/ Holds(<<i>>, 1, p)
    BY <1>3, HoldsJoined
  <1>6. Holds(<<i>>, 1, p) <=> p \in Points(i)
    <2>1. 1 \in 1 .. Len(<<i>>) /\ 1 >= 1 /\ \A j \in 1 .. Len(<<i>>) : j = 1
      BY <1>3
    <2> QED
      BY <1>3, <2>1, Zenon DEF Holds
  <1> QED
    BY <1>2, <1>4, <1>5, <1>6, Zenon DEF i

LEMMA HoldsRest ==
    ASSUME NEW v \in Seq(Ivl), NEW k \in 1 .. Len(v) + 1, NEW p
    PROVE  /\ SubSeq(v, k, Len(v)) \in Seq(Ivl)
           /\ Holds(SubSeq(v, k, Len(v)), 1, p) <=> Holds(v, k, p)
  <1> DEFINE w == SubSeq(v, k, Len(v))
             n == Len(v) - k + 1
  <1>1. Len(v) \in Nat /\ k \in Nat /\ k >= 1 /\ n \in Nat
    BY ElementsKnown
  <1>2. w \in Seq(Ivl) /\ Len(w) = n /\ \A i \in 1 .. n : w[i] = v[k + i - 1]
    <2>1. /\ w \in Seq(Ivl)
          /\ Len(w) = IF k <= Len(v) THEN Len(v) - k + 1 ELSE 0
          /\ \A i \in 1 .. Len(v) - k + 1 : w[i] = v[k + i - 1]
      <3>1. \A i \in k .. Len(v) : i \in 1 .. Len(v)
        BY <1>1
      <3>2. k \in Int /\ Len(v) \in Int
        BY <1>1
      <3>3. \A i \in k .. Len(v) : v[i] \in Ivl
        BY <3>1, ElementsKnown
      <3> QED
        BY <3>1, <3>2, <3>3, SubSeqProperties
    <2> QED
      BY <1>1, <2>1
  <1> HIDE DEF w
  <1>3. ASSUME Holds(w, 1, p)
        PROVE  Holds(v, k, p)
    <2>1. PICK i \in 1 .. Len(w) : p \in Points(w[i])
      BY <1>3, Zenon DEF Holds
    <2> DEFINE j == k + i - 1
    <2>2. j \in 1 .. Len(v) /\ j >= k /\ w[i] = v[j]
      BY <1>1, <1>2
    <2> HIDE DEF j
    <2> QED
      BY <2>1, <2>2, Zenon DEF Holds
  <1>4. ASSUME Holds(v, k, p)
        PROVE  Holds(w, 1, p)
    <2>1. PICK j \in 1 .. Len(v) : j >= k /\ p \in Points(v[j])
      BY <1>4, Zenon DEF Holds
    <2> DEFINE i == j - k + 1
    <2>2. i \in 1 .. n /\ i >= 1 /\ k + i - 1 = j
      BY <1>1, <2>1
    <2> HIDE DEF i
    <2>3. w[i] = v[j]
      BY <1>2, <2>2, Zenon
    <2> QED
      BY <1>2, <2>1, <2>2, <2>3, Zenon DEF Holds
  <1> QED
    BY <1>2, <1>3, <1>4, Zenon DEF w

LEMMA SortedStarts ==
    ASSUME NEW v \in Sorted
    PROVE  v \in Seq(Ivl) /\ StartsAscend(v) /\ \A i \in 1 .. Len(v) : v[i].s <= v[i].e
  <1>1. PICK n \in 0 .. MaxIvls : v \in [1 .. n -> Intervals(Instants)]
    BY DEF Sorted
  <1>2. \A i \in 1 .. Len(v) - 1 : ~interval_lt(v[i + 1], v[i])
    BY DEF Sorted
  <1>3. n \in Nat /\ Len(v) = n
    BY <1>1, IntervalAssumption
  <1>4. \A i \in Intervals(Instants) : i \in Ivl /\ i.s <= i.e
    BY IntervalAssumption DEF Intervals, Ivl
  <1>5. v \in Seq(Ivl)
    <2>1. v \in [1 .. n -> Ivl]
      BY <1>1, <1>4
    <2> QED
      BY <1>3, <2>1, SeqDef
  <1>6. ASSUME NEW i \in 1 .. Len(v) - 1
        PROVE  LoOf(v[i]) <= LoOf(v[i + 1])
    <2>1. v[i] \in Ivl /\ v[i + 1] \in Ivl
      BY <1>3, <1>5, ElementsKnown
    <2>2. ~start_lt(Start(v[i + 1]), Start(v[i]))
      BY <1>2, Zenon DEF interval_lt
    <2> QED
      BY <2>1, <2>2, BoundsOf, BoundKnown, Comparisons DEF LoOf
  <1> DEFINE D == {d \in Nat : \A i \in 1 .. Len(v) : i + d <= Len(v) => LoOf(v[i]) <= LoOf(v[i + d])}
  <1>7. \A i \in 1 .. Len(v) : LoOf(v[i]) \in Nat
    BY <1>5, ElementsKnown, BoundsOf
  <1>8. 0 \in D
    BY <1>3, <1>7
  <1>9. ASSUME NEW d \in Nat, d \in D
        PROVE  d + 1 \in D
    <2> SUFFICES ASSUME NEW i \in 1 .. Len(v), i + (d + 1) <= Len(v)
                 PROVE  LoOf(v[i]) <= LoOf(v[i + (d + 1)])
      OBVIOUS
    <2> DEFINE j == i + d
    <2>1. j \in 1 .. Len(v) - 1 /\ j \in 1 .. Len(v) /\ j + 1 \in 1 .. Len(v) /\ j + 1 = i + (d + 1) /\ j <= Len(v)
      BY <1>3
    <2>2. LoOf(v[i]) <= LoOf(v[j])
      BY <1>9, <2>1
    <2> HIDE DEF j
    <2>3. LoOf(v[j]) <= LoOf(v[j + 1])
      BY <1>6, <2>1
    <2>4. LoOf(v[i]) \in Nat /\ LoOf(v[j]) \in Nat /\ LoOf(v[j + 1]) \in Nat
      BY <1>7, <2>1
    <2>5. LoOf(v[i]) <= LoOf(v[j + 1])
      BY <2>2, <2>3, <2>4
    <2> QED
      BY <2>1, <2>5
  <1>10. StartsAscend(v)
    <2>1. Nat \subseteq D
      <3> HIDE DEF D
      <3> QED
        BY <1>8, <1>9, SetInduction
    <2> SUFFICES ASSUME NEW i \in 1 .. Len(v), NEW j \in 1 .. Len(v), i <= j
                 PROVE  LoOf(v[i]) <= LoOf(v[j])
      BY DEF StartsAscend
    <2> DEFINE d == j - i
    <2>2. d \in Nat /\ i + d = j /\ i + d <= Len(v)
      BY <1>3
    <2>3. d \in D
      BY <2>1, <2>2
    <2> HIDE DEF d
    <2>4. LoOf(v[i]) <= LoOf(v[i + d])
      BY <2>2, <2>3
    <2> QED
      BY <2>2, <2>4
  <1>11. \A i \in 1 .. Len(v) : v[i].s <= v[i].e
    BY <1>1, <1>3, <1>4
  <1> QED
    BY <1>5, <1>10, <1>11

\* Neighbours apart, all apart.
LEMMA AllApart ==
    ASSUME NEW v \in Sorted, \A i \in 1 .. Len(v) - 1 : HiOf(v[i]) < LoOf(v[i + 1])
    PROVE  Separate(v)
  <1>1. v \in Seq(Ivl) /\ StartsAscend(v)
    BY SortedStarts
  <1> SUFFICES ASSUME NEW i \in 1 .. Len(v), NEW j \in 1 .. Len(v), i < j
               PROVE  HiOf(v[i]) < LoOf(v[j])
    BY DEF Separate
  <1>2. i \in 1 .. Len(v) - 1 /\ i + 1 \in 1 .. Len(v) /\ i + 1 <= j
    BY <1>1, ElementsKnown
  <1>3. HiOf(v[i]) < LoOf(v[i + 1]) /\ LoOf(v[i + 1]) <= LoOf(v[j])
    BY <1>1, <1>2 DEF StartsAscend
  <1>4. HiOf(v[i]) \in Int /\ LoOf(v[i + 1]) \in Nat /\ LoOf(v[j]) \in Nat
    BY <1>1, <1>2, ElementsKnown, BoundsOf
  <1> QED
    BY <1>3, <1>4

LEMMA DisjointApart ==
    ASSUME NEW v \in Sorted, Inhabited(v)
    PROVE  Solid(v) /\ (Disjoint(v) => Separate(v))
  <1>1. v \in Seq(Ivl) /\ StartsAscend(v) /\ Len(v) \in Nat /\ \A i \in 1 .. Len(v) : v[i] \in Ivl
    BY SortedStarts, ElementsKnown
  <1>2. \A i \in 1 .. Len(v) : LoOf(v[i]) \in Nat /\ HiOf(v[i]) \in Int
    BY <1>1, BoundsOf
  <1>3. ASSUME NEW i \in 1 .. Len(v)
        PROVE  LoOf(v[i]) <= HiOf(v[i])
    <2>1. PICK p : p \in Points(v[i])
      BY DEF Inhabited
    <2>2. p \in Int /\ LoOf(v[i]) <= p /\ p <= HiOf(v[i])
      BY <1>1, <2>1, PointsAre, Zenon
    <2> QED
      BY <1>2, <2>2
  <1>4. ASSUME Disjoint(v), NEW i \in 1 .. Len(v) - 1
        PROVE  HiOf(v[i]) < LoOf(v[i + 1])
    <2>1. i \in 1 .. Len(v) /\ i + 1 \in 1 .. Len(v) /\ i <= i + 1
      BY <1>1
    <2>2. LoOf(v[i]) <= LoOf(v[i + 1]) /\ LoOf(v[i + 1]) <= HiOf(v[i + 1])
      BY <1>1, <1>3, <2>1 DEF StartsAscend
    <2> DEFINE p == LoOf(v[i + 1])
    <2>3. p \in Points(v[i + 1])
      BY <1>1, <1>2, <2>1, <2>2, PointsAre
    <2>4. p \notin Points(v[i])
      BY <1>4, <2>3 DEF Disjoint
    <2>5. ~(p \in Int /\ LoOf(v[i]) <= p /\ p <= HiOf(v[i]))
      BY <1>1, <2>1, <2>4, PointsAre, Zenon
    <2> QED
      BY <1>2, <2>1, <2>2, <2>5
  <1>5. Solid(v)
    BY <1>3 DEF Solid
  <1>6. Disjoint(v) => Separate(v)
    BY <1>4, AllApart
  <1> QED
    BY <1>5, <1>6

LEMMA ClosedApart ==
    ASSUME NEW v \in Sorted, Closed(v)
    PROVE  Solid(v) /\ (Apart(v) => Separate(v))
  <1>1. v \in Seq(Ivl) /\ Len(v) \in Nat /\ \A i \in 1 .. Len(v) : v[i] \in Ivl /\ v[i].s <= v[i].e
    BY SortedStarts, ElementsKnown
  <1>2. ASSUME NEW i \in 1 .. Len(v)
        PROVE  LoOf(v[i]) = 2 * v[i].s /\ HiOf(v[i]) = 2 * v[i].e /\ v[i].s \in Nat /\ v[i].e \in Nat
    <2>1. ~v[i].sopen /\ ~v[i].eopen
      BY Zenon DEF Closed
    <2>2. v[i] \in Ivl
      BY <1>1
    <2>3. LoOf(v[i]) = 2 * v[i].s /\ HiOf(v[i]) = 2 * v[i].e
      BY <2>1, <2>2, BoundsOf, Zenon DEF LoOf, HiOf, Lo, Hi
    <2> QED
      BY <2>2, <2>3 DEF Ivl
  <1>3. Solid(v)
    BY <1>1, <1>2 DEF Solid
  <1>4. ASSUME Apart(v), NEW i \in 1 .. Len(v) - 1
        PROVE  HiOf(v[i]) < LoOf(v[i + 1])
    <2>1. i \in 1 .. Len(v) /\ i + 1 \in 1 .. Len(v) /\ v[i].e < v[i + 1].s
      BY <1>1, <1>4 DEF Apart
    <2> QED
      BY <1>2, <2>1
  <1> QED
    BY <1>3, <1>4, AllApart

(***************************************************************************)
(* The loops.                                                              *)
(***************************************************************************)
AllClosed == Closed(a) /\ Closed(b)
\* The points that the results are right about.
Exact(p) == p \in Int /\ (IsOdd(p) \/ AllClosed)
\* The order in a vector that a difference or a union relies on.
Parted(v) == Solid(v) /\ Separate(v)

WithinBounds(c, d, p) == p \in Int /\ Lo(c) <= p /\ p <= Hi(d)

LoopTypes ==
  /\ fun \in {"none", "intersect", "union", "setdiff"} /\ run \in {"idle", "loop", "rest", "done"}
  /\ a \in Sorted /\ b \in Sorted /\ out \in Seq(Ivl) /\ from \in Bound
  /\ ia \in 1 .. Len(a) + 1 /\ ib \in 1 .. Len(b) + 1
  /\ fun = "none" <=> run = "idle"
  /\ run = "idle" => ia = 1 /\ ib = 1 /\ out = <<>> /\ from = <<0, FALSE>>
  /\ run \in {"rest", "done"} => ~InA \/ ~InB
  /\ run = "loop" /\ fun = "union" => InA /\ InB

\* Intersection: what has been gathered is in both; what is still missing is in what is
\* left of both, if b is one interval.
MeetOK ==
  /\ \A p : Holds(out, 1, p) => Holds(a, 1, p) /\ Holds(b, 1, p)
  /\ Len(b) < 2 => \A p \in Int : IsOdd(p) /\ Holds(a, 1, p) /\ Holds(b, 1, p)
                                    => Holds(out, 1, p) \/ (Holds(a, ia, p) /\ Holds(b, ib, p))

\* Difference: what is missing is what is left of a, from `from` on, without what is left
\* of b.
Remains(p) == run # "done" /\ InA /\ (WithinBounds(from, End(A), p) \/ Holds(a, ia + 1, p))
Missing(p) == Remains(p) /\ ~Holds(b, ib, p)
LessOK ==
  Parted(a) /\ Solid(b) =>
    /\ InA => Lo(from) <= HiOf(A)
    /\ \A p : Exact(p) => (Holds(a, 1, p) /\ ~Holds(b, 1, p) <=> Holds(out, 1, p) \/ Missing(p))

\* Union: one of the two current intervals, the one that starts first, ends a block that
\* begins at `from` and has no gap; what is missing is the block and what is left of both.
InEither(p) == Holds(a, 1, p) \/ Holds(b, 1, p)
LeftOver(p) == Holds(out, 1, p) \/ Holds(a, ia, p) \/ Holds(b, ib, p)
Owns(x, y) ==
  /\ x.s <= y.s
  /\ \A p : Exact(p) => (InEither(p) <=> (LeftOver(p) \/ WithinBounds(from, End(x), p)))
JoinLoop ==
  /\ from[1] <= A.s /\ from[1] <= B.s /\ (AllClosed => ~from[2])
  /\ Owns(A, B) \/ Owns(B, A)
JoinRest == \A p : Exact(p) => (InEither(p) <=> LeftOver(p))
JoinDone == \A p : Exact(p) => (InEither(p) <=> Holds(out, 1, p))
JoinOK ==
  Parted(a) /\ Parted(b) =>
    /\ run = "loop" => JoinLoop
    /\ run = "rest" => JoinRest
    /\ run = "done" => JoinDone

IntervalInv ==
  /\ LoopTypes
  /\ fun = "intersect" => MeetOK
  /\ fun = "setdiff" => LessOK
  /\ fun = "union" => JoinOK

LEMMA Currents ==
    ASSUME LoopTypes
    PROVE  /\ a \in Seq(Ivl) /\ b \in Seq(Ivl) /\ StartsAscend(a) /\ StartsAscend(b)
           /\ Len(a) \in Nat /\ Len(b) \in Nat /\ ia \in Nat /\ ib \in Nat
           /\ out \in Seq(Ivl) /\ from \in Bound
           /\ InA => ia \in 1 .. Len(a) /\ A \in Ivl
           /\ InB => ib \in 1 .. Len(b) /\ B \in Ivl
  <1>1. a \in Seq(Ivl) /\ b \in Seq(Ivl) /\ StartsAscend(a) /\ StartsAscend(b)
    BY SortedStarts DEF LoopTypes
  <1>2. Len(a) \in Nat /\ Len(b) \in Nat
    BY <1>1, ElementsKnown
  <1>3. ia \in 1 .. Len(a) + 1 /\ ib \in 1 .. Len(b) + 1 /\ out \in Seq(Ivl) /\ from \in Bound
    BY DEF LoopTypes
  <1>4. InA => ia \in 1 .. Len(a)
    BY <1>2, <1>3 DEF InA
  <1>5. InB => ib \in 1 .. Len(b)
    BY <1>2, <1>3 DEF InB
  <1>6. InA => A \in Ivl
    BY <1>1, <1>4, ElementsKnown DEF A
  <1>7. InB => B \in Ivl
    BY <1>1, <1>5, ElementsKnown DEF B
  <1> QED
    BY <1>1, <1>2, <1>3, <1>4, <1>5, <1>6, <1>7

(***************************************************************************)
(* Intersection.                                                           *)
(***************************************************************************)
LEMMA NothingBetween ==
    ASSUME NEW i \in Ivl, NEW j \in Ivl, i.s >= j.e, NEW p, IsOdd(p), p \in Points(i), p \in Points(j)
    PROVE  FALSE
  <1>1. p \in Int /\ LoOf(i) <= p /\ p <= HiOf(j)
    BY PointsAre
  <1>2. i.s \in Nat /\ j.e \in Nat /\ LoOf(i) >= 2 * i.s /\ HiOf(j) <= 2 * j.e /\ LoOf(i) \in Int /\ HiOf(j) \in Int
    <2>1. i.s \in Nat /\ j.e \in Nat
      BY DEF Ivl
    <2> QED
      BY <2>1, BoundsOf
  <1>3. p = 2 * i.s
    BY <1>1, <1>2
  <1> QED
    BY <1>2, <1>3 DEF IsOdd

LaterStart(i, j) == IF start_gt(Start(i), Start(j)) THEN Start(i) ELSE Start(j)

LEMMA MeetOf ==
    ASSUME NEW i \in Ivl, NEW j \in Ivl, NEW p
    PROVE  /\ LaterStart(i, j) \in Bound
           /\ end_lt(End(i), End(j)) =>
                (WithinBounds(LaterStart(i, j), End(i), p) <=> p \in Points(i) /\ p \in Points(j))
           /\ ~end_lt(End(i), End(j)) =>
                (WithinBounds(LaterStart(i, j), End(j), p) <=> p \in Points(i) /\ p \in Points(j))
  <1>1. /\ LoOf(i) \in Int /\ LoOf(j) \in Int /\ HiOf(i) \in Int /\ HiOf(j) \in Int
        /\ Start(i) \in Bound /\ Start(j) \in Bound /\ End(i) \in Bound /\ End(j) \in Bound
    BY BoundsOf
  <1>2. LaterStart(i, j) \in Bound
    BY <1>1 DEF LaterStart
  <1>3. Lo(LaterStart(i, j)) = IF LoOf(i) > LoOf(j) THEN LoOf(i) ELSE LoOf(j)
    BY <1>1, Comparisons DEF LaterStart, LoOf
  <1>4. end_lt(End(i), End(j)) <=> HiOf(i) < HiOf(j)
    BY <1>1, Comparisons DEF HiOf
  <1>5. p \in Points(i) /\ p \in Points(j) <=>
          p \in Int /\ LoOf(i) <= p /\ p <= HiOf(i) /\ LoOf(j) <= p /\ p <= HiOf(j)
    BY PointsAre
  <1>6. ASSUME HiOf(i) < HiOf(j)
        PROVE  WithinBounds(LaterStart(i, j), End(i), p) <=> p \in Points(i) /\ p \in Points(j)
    <2>1. WithinBounds(LaterStart(i, j), End(i), p) <=> p \in Int /\ Lo(LaterStart(i, j)) <= p /\ p <= HiOf(i)
      BY Zenon DEF WithinBounds, HiOf
    <2> QED
      BY <1>1, <1>3, <1>5, <1>6, <2>1
  <1>7. ASSUME ~(HiOf(i) < HiOf(j))
        PROVE  WithinBounds(LaterStart(i, j), End(j), p) <=> p \in Points(i) /\ p \in Points(j)
    <2>1. WithinBounds(LaterStart(i, j), End(j), p) <=> p \in Int /\ Lo(LaterStart(i, j)) <= p /\ p <= HiOf(j)
      BY Zenon DEF WithinBounds, HiOf
    <2> QED
      BY <1>1, <1>3, <1>5, <1>7, <2>1
  <1> QED
    BY <1>2, <1>4, <1>6, <1>7

LEMMA MeetStep ==
    ASSUME LoopTypes, MeetOK, IntersectStep
    PROVE  MeetOK' /\ out' \in Seq(Ivl)
  <1>1. /\ run = "loop" /\ InA /\ InB /\ UNCHANGED <<fun, a, b>> /\ UNCHANGED <<from, run>>
        /\ IF PassedByIntersect THEN Advance(1, 0) /\ UNCHANGED out
           ELSE IF end_lt(End(A), End(B))
           THEN Emit(Built(LaterStart(A, B), End(A))) /\ Advance(1, 0)
           ELSE Emit(Built(LaterStart(A, B), End(B))) /\ Advance(0, 1)
    BY Zenon DEF IntersectStep, Fixed, LaterStart
  <1>2. /\ a \in Seq(Ivl) /\ b \in Seq(Ivl) /\ StartsAscend(a) /\ Len(a) \in Nat /\ Len(b) \in Nat
        /\ ia \in 1 .. Len(a) /\ ib \in 1 .. Len(b) /\ A \in Ivl /\ B \in Ivl /\ out \in Seq(Ivl)
    BY <1>1, Currents
  <1>3. /\ \A p : Holds(out, 1, p) => Holds(a, 1, p) /\ Holds(b, 1, p)
        /\ Len(b) < 2 => \A p \in Int : IsOdd(p) /\ Holds(a, 1, p) /\ Holds(b, 1, p)
                                    => Holds(out, 1, p) \/ (Holds(a, ia, p) /\ Holds(b, ib, p))
    BY Zenon DEF MeetOK
  <1>4. \A p : /\ Holds(a, ia, p) <=> p \in Points(A) \/ Holds(a, ia + 1, p)
               /\ Holds(b, ib, p) <=> p \in Points(B) \/ Holds(b, ib + 1, p)
    BY <1>2, HoldsNext DEF A, B
  <1>5. \A p : (p \in Points(A) => Holds(a, 1, p)) /\ (p \in Points(B) => Holds(b, 1, p))
    <2>1. ia >= 1 /\ ib >= 1
      BY <1>2
    <2> QED
      BY <1>2, <2>1, Zenon DEF Holds, A, B
  <1>6. Len(b) < 2 => ib = Len(b) /\ \A p : Holds(b, ib, p) => p \in Points(B)
    <2>1. ASSUME Len(b) < 2
          PROVE  ib = Len(b) /\ ib + 1 \in Nat /\ ib + 1 > Len(b)
      BY <1>2, <2>1
    <2> QED
      BY <1>2, <1>4, <2>1, HoldsNothing
  <1>7. CASE PassedByIntersect
    <2>1. ia' = ia + 1 /\ ib' = ib /\ out' = out /\ a' = a /\ b' = b
      BY <1>1, <1>2, <1>7 DEF Advance
    <2>2. ASSUME Len(b) < 2, NEW p \in Int, IsOdd(p), Holds(a, 1, p), Holds(b, 1, p)
          PROVE  Holds(out, 1, p) \/ (Holds(a, ia + 1, p) /\ Holds(b, ib, p))
      <3>1. A.s >= B.e \/ B.s >= A.e
        BY <1>7 DEF PassedByIntersect
      <3>2. ~(p \in Points(A) /\ p \in Points(B))
        BY <1>2, <2>2, <3>1, NothingBetween
      <3> QED
        BY <1>3, <1>4, <1>6, <2>2, <3>2
    <2> QED
      BY <1>2, <1>3, <2>1, <2>2 DEF MeetOK
  <1>8. CASE ~PassedByIntersect /\ end_lt(End(A), End(B))
    <2> DEFINE c == LaterStart(A, B)
    <2>1. c \in Bound /\ End(A) \in Bound /\ \A p : WithinBounds(c, End(A), p) <=> p \in Points(A) /\ p \in Points(B)
      BY <1>2, <1>8, MeetOf, BoundsOf
    <2>2. ia' = ia + 1 /\ ib' = ib /\ out' = Append(out, Built(c, End(A))) /\ a' = a /\ b' = b
      BY <1>1, <1>2, <1>8 DEF Advance, Emit
    <2> HIDE DEF c
    <2>3. out' \in Seq(Ivl) /\ \A p : Holds(out', 1, p) <=> Holds(out, 1, p) \/ (p \in Points(A) /\ p \in Points(B))
      BY <1>2, <2>1, <2>2, HoldsAdded DEF WithinBounds
    <2>4. \A p : Holds(out', 1, p) => Holds(a, 1, p) /\ Holds(b, 1, p)
      BY <1>3, <1>5, <2>3
    <2>5. ASSUME Len(b) < 2, NEW p \in Int, IsOdd(p), Holds(a, 1, p), Holds(b, 1, p)
          PROVE  Holds(out', 1, p) \/ (Holds(a, ia + 1, p) /\ Holds(b, ib, p))
      BY <1>3, <1>4, <1>6, <2>3, <2>5
    <2> QED
      BY <2>2, <2>3, <2>4, <2>5 DEF MeetOK
  <1>9. CASE ~PassedByIntersect /\ ~end_lt(End(A), End(B))
    <2> DEFINE c == LaterStart(A, B)
    <2>1. c \in Bound /\ End(B) \in Bound /\ \A p : WithinBounds(c, End(B), p) <=> p \in Points(A) /\ p \in Points(B)
      BY <1>2, <1>9, MeetOf, BoundsOf
    <2>2. ia' = ia /\ ib' = ib + 1 /\ out' = Append(out, Built(c, End(B))) /\ a' = a /\ b' = b
      BY <1>1, <1>2, <1>9 DEF Advance, Emit
    <2> HIDE DEF c
    <2>3. out' \in Seq(Ivl) /\ \A p : Holds(out', 1, p) <=> Holds(out, 1, p) \/ (p \in Points(A) /\ p \in Points(B))
      BY <1>2, <2>1, <2>2, HoldsAdded DEF WithinBounds
    <2>4. \A p : Holds(out', 1, p) => Holds(a, 1, p) /\ Holds(b, 1, p)
      BY <1>3, <1>5, <2>3
    <2>5. ASSUME NEW p, Holds(a, ia, p), p \in Points(B)
          PROVE  p \in Points(A)
      <3>1. PICK k \in 1 .. Len(a) : k >= ia /\ p \in Points(a[k])
        BY <2>5, Zenon DEF Holds
      <3>2. LoOf(A) <= LoOf(a[k]) /\ a[k] \in Ivl
        BY <1>2, <3>1, ElementsKnown DEF StartsAscend, A
      <3>3. p \in Int /\ LoOf(a[k]) <= p /\ p <= HiOf(B)
        BY <1>2, <2>5, <3>1, <3>2, PointsAre
      <3>4. HiOf(B) <= HiOf(A)
        BY <1>2, <1>9, BoundsOf, Comparisons DEF HiOf
      <3>5. LoOf(A) \in Int /\ HiOf(A) \in Int /\ HiOf(B) \in Int
        BY <1>2, BoundsOf
      <3>7. LoOf(a[k]) \in Int
        BY <3>2, BoundsOf
      <3>6. LoOf(A) <= p /\ p <= HiOf(A)
        BY <3>2, <3>3, <3>4, <3>5, <3>7
      <3> QED
        BY <1>2, <3>3, <3>6, PointsAre
    <2>6. ASSUME Len(b) < 2, NEW p \in Int, IsOdd(p), Holds(a, 1, p), Holds(b, 1, p)
          PROVE  Holds(out', 1, p)
      BY <1>3, <1>6, <2>3, <2>5, <2>6
    <2> QED
      BY <2>2, <2>3, <2>4, <2>6 DEF MeetOK
  <1> QED
    BY <1>7, <1>8, <1>9

(***************************************************************************)
(* Difference.                                                             *)
(***************************************************************************)
\* What later intervals of a vector in order hold.
LEMMA LaterPoints ==
    ASSUME NEW v \in Seq(Ivl), NEW k \in 1 .. Len(v), NEW p
    PROVE  /\ Separate(v) /\ Holds(v, k + 1, p) => HiOf(v[k]) < p
           /\ StartsAscend(v) /\ Holds(v, k, p) => LoOf(v[k]) <= p
  <1>1. Len(v) \in Nat /\ \A i \in 1 .. Len(v) : v[i] \in Ivl
    BY ElementsKnown
  <1>2. ASSUME Separate(v), Holds(v, k + 1, p)
        PROVE  HiOf(v[k]) < p
    <2>1. PICK i \in 1 .. Len(v) : i >= k + 1 /\ p \in Points(v[i])
      BY <1>2, Zenon DEF Holds
    <2>2. k < i
      BY <1>1, <2>1
    <2>3. HiOf(v[k]) < LoOf(v[i])
      BY <1>2, <2>2 DEF Separate
    <2>4. p \in Int /\ LoOf(v[i]) <= p
      BY <1>1, <2>1, PointsAre
    <2>5. HiOf(v[k]) \in Int /\ LoOf(v[i]) \in Int
      BY <1>1, BoundsOf
    <2> QED
      BY <2>3, <2>4, <2>5
  <1>3. ASSUME StartsAscend(v), Holds(v, k, p)
        PROVE  LoOf(v[k]) <= p
    <2>1. PICK i \in 1 .. Len(v) : i >= k /\ p \in Points(v[i])
      BY <1>3, Zenon DEF Holds
    <2>2. k <= i
      BY <1>1, <2>1
    <2>3. LoOf(v[k]) <= LoOf(v[i])
      BY <1>3, <2>2 DEF StartsAscend
    <2>4. p \in Int /\ LoOf(v[i]) <= p
      BY <1>1, <2>1, PointsAre
    <2>5. LoOf(v[k]) \in Int /\ LoOf(v[i]) \in Int
      BY <1>1, BoundsOf
    <2> QED
      BY <2>3, <2>4, <2>5
  <1> QED
    BY <1>2, <1>3

LEMMA WithinOwn ==
    ASSUME NEW i \in Ivl, NEW p
    PROVE  WithinBounds(Start(i), End(i), p) <=> p \in Points(i)
  BY PointsAre, Zenon DEF WithinBounds, LoOf, HiOf

\* The next interval of a: what remains is what later ones hold.
LEMMA NextRemains ==
    ASSUME LoopTypes, run = "loop", InA, NextA, UNCHANGED <<fun, a, b>>
    PROVE  /\ \A p : Remains(p)' <=> Holds(a, ia + 1, p)
           /\ Solid(a) /\ InA' => Lo(from') <= HiOf(A)'
           /\ from' \in Bound /\ ia' = ia + 1 /\ ib' = ib /\ run' \in {"loop", "rest"}
           /\ run' = "rest" => ~InA'
  <1>1. /\ a \in Seq(Ivl) /\ Len(a) \in Nat /\ ia \in 1 .. Len(a) /\ from \in Bound /\ ib \in Nat
    BY Currents
  <1>2. ia' = ia + 1 /\ ib' = ib /\ a' = a /\ b' = b
    BY <1>1 DEF NextA, Advance
  <1>3. CASE ia = Len(a)
    <2>1. run' = "rest" /\ from' = from
      BY <1>3 DEF NextA
    <2>2. ~InA' /\ ia + 1 \in Nat /\ ia + 1 > Len(a)
      BY <1>1, <1>2, <1>3 DEF InA
    <2>3. \A p : ~Remains(p)'
      BY <2>2 DEF Remains
    <2>4. \A p : ~Holds(a, ia + 1, p)
      BY <1>1, <2>2, HoldsNothing
    <2> QED
      BY <1>1, <1>2, <2>1, <2>2, <2>3, <2>4
  <1>4. CASE ia # Len(a)
    <2> DEFINE k == ia + 1
    <2>1. run' = "loop" /\ from' = Start(a[k]) /\ k \in 1 .. Len(a)
      BY <1>1, <1>4 DEF NextA
    <2>2. a[k] \in Ivl /\ ia' = k
      BY <1>1, <1>2, <2>1, ElementsKnown
    <2> HIDE DEF k
    <2>3. A' = a[k] /\ InA'
      BY <1>1, <1>2, <2>1, <2>2 DEF A, InA
    <2>4. \A p : Remains(p)' <=> WithinBounds(Start(a[k]), End(a[k]), p) \/ Holds(a, k + 1, p)
      BY <1>2, <2>1, <2>2, <2>3 DEF Remains
    <2>5. \A p : Remains(p)' <=> Holds(a, k, p)
      BY <1>1, <2>1, <2>2, <2>4, WithinOwn, HoldsNext
    <2>6. from' \in Bound
      BY <2>1, <2>2, BoundsOf
    <2>7. Solid(a) => Lo(from') <= HiOf(a[k])
      BY <2>1 DEF Solid, LoOf
    <2>8. HiOf(A)' = HiOf(a[k])
      BY <2>3 DEF HiOf
    <2> QED
      BY <1>2, <2>1, <2>2, <2>3, <2>5, <2>6, <2>7, <2>8 DEF k
  <1> QED
    BY <1>3, <1>4

\* What remains of the current interval behind one that is taken away.
LEMMA BehindRemains ==
    ASSUME LoopTypes, run = "loop", InA, InB, Behind, UNCHANGED <<fun, a, b>>, HiOf(B) < HiOf(A)
    PROVE  /\ \A p : Remains(p)' <=> (p \in Int /\ HiOf(B) < p /\ p <= HiOf(A)) \/ Holds(a, ia + 1, p)
           /\ InA' /\ Lo(from') <= HiOf(A)'
           /\ from' \in Bound /\ ia' = ia /\ ib' = ib + 1 /\ run' = "loop"
  <1>1. A \in Ivl /\ B \in Ivl /\ ia \in Nat /\ from \in Bound
    BY Currents
  <1>2. ia' = ia /\ ib' = ib + 1 /\ a' = a /\ b' = b /\ run' = "loop" /\ from' = <<B.e, ~B.eopen>>
    BY <1>1 DEF Behind, Advance
  <1>3. from' \in Bound /\ Lo(from') = HiOf(B) + 1
    BY <1>1, <1>2, BehindIs
  <1>4. A' = A /\ InA'
    BY <1>2 DEF A, InA
  <1>5. HiOf(A)' = HiOf(A) /\ HiOf(A) \in Int
    BY <1>1, <1>4, BoundsOf DEF HiOf
  <1>6. HiOf(B) \in Int
    BY <1>1, BoundsOf
  <1>7. \A p : Remains(p)' <=> WithinBounds(from', End(A), p) \/ Holds(a, ia + 1, p)
    BY <1>2, <1>4 DEF Remains
  <1>8. \A p : WithinBounds(from', End(A), p) <=> p \in Int /\ Lo(from') <= p /\ p <= HiOf(A)
    BY Zenon DEF WithinBounds, HiOf
  <1>9. \A p \in Int : Lo(from') <= p <=> HiOf(B) < p
    BY <1>3, <1>6
  <1> QED
    BY <1>2, <1>3, <1>4, <1>5, <1>6, <1>7, <1>8, <1>9

\* A turn moves a point from what is missing to the result, or leaves it.
LessMoves(p) ==
  Holds(out, 1, p) \/ Missing(p) <=> Holds(out', 1, p) \/ Missing(p)'

LEMMA LessParts ==
    ASSUME LoopTypes, run = "loop", InA, InB, Parted(a), Solid(b), Lo(from) <= HiOf(A)
    PROVE  /\ LoOf(B) <= HiOf(B)
           /\ LoOf(B) \in Int /\ HiOf(B) \in Int /\ HiOf(A) \in Int /\ Lo(from) \in Int
           /\ \A p : /\ Missing(p) <=> /\ (p \in Int /\ Lo(from) <= p /\ p <= HiOf(A)) \/ Holds(a, ia + 1, p)
                                       /\ ~((p \in Int /\ LoOf(B) <= p /\ p <= HiOf(B)) \/ Holds(b, ib + 1, p))
                     /\ Holds(b, ib, p) <=> (p \in Int /\ LoOf(B) <= p /\ p <= HiOf(B)) \/ Holds(b, ib + 1, p)
                     /\ Holds(a, ia + 1, p) => p \in Int /\ HiOf(A) < p
                     /\ Holds(b, ib + 1, p) => p \in Int /\ LoOf(B) <= p
  <1>1. /\ a \in Seq(Ivl) /\ b \in Seq(Ivl) /\ StartsAscend(b) /\ ia \in 1 .. Len(a) /\ ib \in 1 .. Len(b)
        /\ A \in Ivl /\ B \in Ivl /\ from \in Bound
    BY Currents
  <1>2. LoOf(B) \in Int /\ HiOf(B) \in Int /\ LoOf(B) <= HiOf(B)
    BY <1>1, BoundsOf DEF Solid, B
  <1>3. HiOf(A) \in Int /\ Lo(from) \in Int
    BY <1>1, BoundsOf, BoundKnown
  <1>4. \A p : Holds(b, ib, p) <=> (p \in Int /\ LoOf(B) <= p /\ p <= HiOf(B)) \/ Holds(b, ib + 1, p)
    <2> TAKE p
    <2>1. Holds(b, ib, p) <=> p \in Points(B) \/ Holds(b, ib + 1, p)
      BY <1>1, HoldsNext DEF B
    <2> QED
      BY <1>1, <2>1, PointsAre
  <1>5. \A p : Remains(p) <=> (p \in Int /\ Lo(from) <= p /\ p <= HiOf(A)) \/ Holds(a, ia + 1, p)
    BY DEF Remains, WithinBounds, HiOf
  <1>6. \A p : Holds(a, ia + 1, p) => p \in Int /\ HiOf(A) < p
    BY <1>1, HoldsInts, LaterPoints DEF Parted, A
  <1>7. \A p : Holds(b, ib, p) => p \in Int /\ LoOf(B) <= p
    BY <1>1, HoldsInts, LaterPoints DEF B
  <1> QED
    BY <1>2, <1>3, <1>4, <1>5, <1>6, <1>7 DEF Missing

LEMMA LessTurn ==
    ASSUME LoopTypes, SetdiffStep
    PROVE  /\ from' \in Bound /\ out' \in Seq(Ivl) /\ ia' \in 1 .. Len(a) + 1 /\ ib' \in 1 .. Len(b) + 1
           /\ run' \in {"loop", "rest"} /\ (run' = "rest" => ~InA')
           /\ UNCHANGED <<fun, a, b>>
           /\ Parted(a) /\ Solid(b) /\ Lo(from) <= HiOf(A) =>
                /\ InA' => Lo(from') <= HiOf(A)'
                /\ \A p : Exact(p) => LessMoves(p)
  <1>1. /\ run = "loop" /\ InA /\ InB /\ UNCHANGED <<fun, a, b>>
        /\ CASE end_lt_start(A, B) ->
                  Emit(Built(from, End(A))) /\ NextA
             [] ~end_lt_start(A, B) /\ start_lt(End(B), from) ->
                  Advance(0, 1) /\ UNCHANGED <<out, from, run>>
             [] ~end_lt_start(A, B) /\ ~start_lt(End(B), from) /\ start_lt(from, Start(B)) ->
                  /\ Emit(Built(from, <<B.s, ~B.sopen>>))
                  /\ IF end_gt(End(A), End(B)) THEN Behind ELSE NextA
             [] OTHER ->
                  /\ UNCHANGED out
                  /\ IF ~start_lt(from, Start(B)) /\ ~end_lt(End(B), End(A)) THEN NextA ELSE Behind
    BY Zenon DEF SetdiffStep, Fixed
  <1>2. /\ A \in Ivl /\ B \in Ivl /\ from \in Bound /\ out \in Seq(Ivl)
        /\ Start(A) \in Bound /\ End(A) \in Bound /\ Start(B) \in Bound /\ End(B) \in Bound
        /\ ia \in 1 .. Len(a) /\ ib \in 1 .. Len(b) /\ Len(a) \in Nat /\ Len(b) \in Nat
    BY <1>1, Currents, BoundsOf
  <1>3. /\ \A p : IsOdd(p) \/ AllClosed => IsOdd(p) \/ (~B.sopen /\ ~B.eopen)
        /\ HiOf(A) \in Int /\ HiOf(B) \in Int /\ LoOf(B) \in Int /\ Lo(from) \in Int
    <2>1. AllClosed => ~B.sopen /\ ~B.eopen
      BY <1>2, Zenon DEF AllClosed, Closed, B
    <2>2. HiOf(A) \in Int /\ HiOf(B) \in Int /\ LoOf(B) \in Int
      BY <1>2, BoundsOf
    <2>3. Lo(from) \in Int
      BY <1>2, BoundKnown
    <2> QED
      BY <2>1, <2>2, <2>3
  <1>4. CASE end_lt_start(A, B)
    <2>1. Emit(Built(from, End(A))) /\ NextA
      BY <1>1, <1>4, Zenon
    <2>2. /\ \A p : Remains(p)' <=> Holds(a, ia + 1, p)
          /\ Solid(a) /\ InA' => Lo(from') <= HiOf(A)'
          /\ from' \in Bound /\ ia' = ia + 1 /\ ib' = ib /\ run' \in {"loop", "rest"}
          /\ run' = "rest" => ~InA'
      BY <1>1, <2>1, NextRemains
    <2>3. out' \in Seq(Ivl) /\ \A p : Holds(out', 1, p) <=> Holds(out, 1, p) \/ (p \in Int /\ Lo(from) <= p /\ p <= HiOf(A))
      BY <1>2, <2>1, HoldsAdded DEF Emit, HiOf
    <2>4. HiOf(A) < LoOf(B)
      BY <1>2, <1>4, EndsFirst
    <2>5. ASSUME Parted(a), Solid(b), Lo(from) <= HiOf(A), NEW p
          PROVE  LessMoves(p)
      <3>1. Missing(p)' <=> Holds(a, ia + 1, p) /\ ~Holds(b, ib, p)
        BY <1>1, <2>2 DEF Missing
      <3> QED
        BY <1>1, <1>3, <2>3, <2>4, <2>5, <3>1, LessParts DEF LessMoves
    <2> QED
      BY <1>1, <1>2, <2>2, <2>3, <2>5 DEF Parted
  <1>5. CASE ~end_lt_start(A, B) /\ start_lt(End(B), from)
    <2>1. Advance(0, 1) /\ UNCHANGED <<out, from, run>>
      BY <1>1, <1>5, Zenon
    <2>2. ia' = ia /\ ib' = ib + 1 /\ out' = out /\ from' = from /\ run' = run
      BY <1>2, <2>1 DEF Advance
    <2>3. HiOf(B) < Lo(from)
      BY <1>2, <1>5, BehindIs
    <2>4. A' = A /\ InA' /\ HiOf(A)' = HiOf(A)
      BY <1>1, <2>2 DEF A, InA, HiOf
    <2>5. \A p : Remains(p)' <=> Remains(p)
      BY <1>1, <2>2, <2>4 DEF Remains
    <2>6. ASSUME Parted(a), Solid(b), Lo(from) <= HiOf(A), NEW p
          PROVE  LessMoves(p)
      <3>1. Missing(p)' <=> Remains(p) /\ ~Holds(b, ib + 1, p)
        BY <1>1, <2>2, <2>5 DEF Missing
      <3>2. Remains(p) <=> (p \in Int /\ Lo(from) <= p /\ p <= HiOf(A)) \/ Holds(a, ia + 1, p)
        BY <1>1 DEF Remains, WithinBounds, HiOf
      <3> QED
        BY <1>1, <1>3, <2>2, <2>3, <2>6, <3>1, <3>2, LessParts DEF LessMoves
    <2> QED
      BY <1>1, <1>2, <2>2, <2>4, <2>6
  <1>6. CASE ~end_lt_start(A, B) /\ ~start_lt(End(B), from) /\ start_lt(from, Start(B))
    <2>1. Emit(Built(from, <<B.s, ~B.sopen>>)) /\ IF end_gt(End(A), End(B)) THEN Behind ELSE NextA
      BY <1>1, <1>6, Zenon
    <2>2. out' \in Seq(Ivl) /\ \A p : Holds(out', 1, p) <=> Holds(out, 1, p) \/ (p \in Int /\ Lo(from) <= p /\ p <= LoOf(B) - 1)
      <3> DEFINE d == <<B.s, ~B.sopen>>
      <3>1. d \in Bound /\ Hi(d) = LoOf(B) - 1
        BY <1>2, BehindIs
      <3>2. out' = Append(out, Built(from, d))
        BY <2>1 DEF Emit
      <3> HIDE DEF d
      <3> QED
        BY <1>2, <3>1, <3>2, HoldsAdded
    <2>3. Lo(from) < LoOf(B)
      BY <1>2, <1>6, Comparisons DEF LoOf
    <2>4. \A p : Exact(p) /\ p < LoOf(B) => p <= HiOf(A)
      BY <1>2, <1>3, <1>6, Reaches DEF Exact
    <2>5. CASE end_gt(End(A), End(B))
      <3>1. Behind /\ HiOf(B) < HiOf(A)
        BY <1>2, <1>3, <2>1, <2>5, Comparisons DEF HiOf
      <3>2. /\ \A p : Remains(p)' <=> (p \in Int /\ HiOf(B) < p /\ p <= HiOf(A)) \/ Holds(a, ia + 1, p)
            /\ InA' /\ Lo(from') <= HiOf(A)'
            /\ from' \in Bound /\ ia' = ia /\ ib' = ib + 1 /\ run' = "loop"
        BY <1>1, <3>1, BehindRemains
      <3>3. ASSUME Parted(a), Solid(b), Lo(from) <= HiOf(A), NEW p, Exact(p)
            PROVE  LessMoves(p)
        <4>1. Missing(p)' <=> Remains(p)' /\ ~Holds(b, ib + 1, p)
          BY <1>1, <3>2 DEF Missing
        <4> QED
          BY <1>1, <1>3, <2>2, <2>3, <2>4, <3>1, <3>2, <3>3, <4>1, LessParts DEF LessMoves
      <3> QED
        BY <1>1, <1>2, <2>2, <3>2, <3>3
    <2>6. CASE ~end_gt(End(A), End(B))
      <3>1. NextA /\ ~(HiOf(B) < HiOf(A))
        BY <1>2, <1>3, <2>1, <2>6, Comparisons DEF HiOf
      <3>2. /\ \A p : Remains(p)' <=> Holds(a, ia + 1, p)
            /\ Solid(a) /\ InA' => Lo(from') <= HiOf(A)'
            /\ from' \in Bound /\ ia' = ia + 1 /\ ib' = ib /\ run' \in {"loop", "rest"}
            /\ run' = "rest" => ~InA'
        BY <1>1, <3>1, NextRemains
      <3>3. ASSUME Parted(a), Solid(b), Lo(from) <= HiOf(A), NEW p, Exact(p)
            PROVE  LessMoves(p)
        <4>1. Missing(p)' <=> Holds(a, ia + 1, p) /\ ~Holds(b, ib, p)
          BY <1>1, <3>2 DEF Missing
        <4> QED
          BY <1>1, <1>3, <2>2, <2>3, <2>4, <3>1, <3>2, <3>3, <4>1, LessParts DEF LessMoves
      <3> QED
        BY <1>1, <1>2, <2>2, <3>2, <3>3 DEF Parted
    <2> QED
      BY <2>5, <2>6
  <1>7. CASE ~end_lt_start(A, B) /\ ~start_lt(End(B), from) /\ ~start_lt(from, Start(B))
    <2>1. out' = out /\ IF ~start_lt(from, Start(B)) /\ ~end_lt(End(B), End(A)) THEN NextA ELSE Behind
      BY <1>1, <1>7, Zenon
    <2>2. LoOf(B) <= Lo(from)
      BY <1>2, <1>3, <1>7, Comparisons DEF LoOf
    <2>3. \A p : Exact(p) /\ HiOf(B) < p => Lo(from) <= p
      BY <1>2, <1>3, <1>7, BehindIs DEF Exact
    <2>4. CASE ~end_lt(End(B), End(A))
      <3>1. NextA /\ ~(HiOf(B) < HiOf(A))
        BY <1>2, <1>7, <2>1, <2>4, Comparisons DEF HiOf
      <3>2. /\ \A p : Remains(p)' <=> Holds(a, ia + 1, p)
            /\ Solid(a) /\ InA' => Lo(from') <= HiOf(A)'
            /\ from' \in Bound /\ ia' = ia + 1 /\ ib' = ib /\ run' \in {"loop", "rest"}
            /\ run' = "rest" => ~InA'
        BY <1>1, <3>1, NextRemains
      <3>3. ASSUME Parted(a), Solid(b), Lo(from) <= HiOf(A), NEW p, Exact(p)
            PROVE  LessMoves(p)
        <4>1. Missing(p)' <=> Holds(a, ia + 1, p) /\ ~Holds(b, ib, p)
          BY <1>1, <3>2 DEF Missing
        <4> QED
          BY <1>1, <1>3, <2>1, <2>2, <2>3, <3>1, <3>2, <3>3, <4>1, LessParts DEF LessMoves
      <3> QED
        BY <1>1, <1>2, <2>1, <3>2, <3>3 DEF Parted
    <2>5. CASE end_lt(End(B), End(A))
      <3>1. Behind /\ HiOf(B) < HiOf(A)
        BY <1>2, <2>1, <2>5, Comparisons DEF HiOf
      <3>2. /\ \A p : Remains(p)' <=> (p \in Int /\ HiOf(B) < p /\ p <= HiOf(A)) \/ Holds(a, ia + 1, p)
            /\ InA' /\ Lo(from') <= HiOf(A)'
            /\ from' \in Bound /\ ia' = ia /\ ib' = ib + 1 /\ run' = "loop"
        BY <1>1, <3>1, BehindRemains
      <3>3. ASSUME Parted(a), Solid(b), Lo(from) <= HiOf(A), NEW p, Exact(p)
            PROVE  LessMoves(p)
        <4>1. Missing(p)' <=> Remains(p)' /\ ~Holds(b, ib + 1, p)
          BY <1>1, <3>2 DEF Missing
        <4> QED
          BY <1>1, <1>3, <2>1, <2>2, <2>3, <3>1, <3>2, <3>3, <4>1, LessParts DEF LessMoves
      <3> QED
        BY <1>1, <1>2, <2>1, <3>2, <3>3
    <2> QED
      BY <2>4, <2>5
  <1> QED
    BY <1>4, <1>5, <1>6, <1>7

(***************************************************************************)
(* Union.                                                                  *)
(***************************************************************************)
LEMMA BehindStartOf ==
    ASSUME NEW c \in Bound, NEW p \in Int, IsOdd(p) \/ ~c[2], p >= 2 * c[1]
    PROVE  p >= Lo(c)
  <1>1. c[1] \in Nat
    BY BoundKnown
  <1>2. CASE c[2]
    <2>1. Lo(c) = 2 * c[1] + 1
      BY <1>2, Zenon DEF Lo
    <2>2. p # 2 * c[1]
      BY <1>1, <1>2 DEF IsOdd
    <2> QED
      BY <1>1, <2>1, <2>2
  <1>3. CASE ~c[2]
    <2>1. Lo(c) = 2 * c[1]
      BY <1>3, Zenon DEF Lo
    <2> QED
      BY <2>1
  <1> QED
    BY <1>2, <1>3

\* An interval that ends in another one hands it the block.
LEMMA Swallowed ==
    ASSUME NEW x \in Ivl, NEW y \in Ivl, NEW c \in Bound, EndsIn(x, y), c[1] <= x.s, c[1] <= y.s,
           NEW p \in Int, IsOdd(p) \/ (~y.sopen /\ ~c[2])
    PROVE  /\ p \in Points(x) => WithinBounds(c, End(x), p)
           /\ p \in Points(y) => WithinBounds(c, End(y), p)
           /\ WithinBounds(c, End(x), p) => WithinBounds(c, End(y), p)
           /\ WithinBounds(c, End(y), p) => WithinBounds(c, End(x), p) \/ p \in Points(y)
  <1>1. ~end_lt_start(x, y) /\ ~end_gt(End(x), End(y))
    BY Zenon DEF EndsIn
  <1>2. /\ LoOf(x) \in Int /\ HiOf(x) \in Int /\ LoOf(y) \in Int /\ HiOf(y) \in Int /\ Lo(c) \in Int
        /\ LoOf(x) >= 2 * x.s /\ LoOf(y) >= 2 * y.s /\ x.s \in Nat /\ y.s \in Nat /\ c[1] \in Nat
    <2>1. x.s \in Nat /\ y.s \in Nat
      BY DEF Ivl
    <2>2. c[1] \in Nat /\ Lo(c) \in Int
      BY BoundKnown
    <2> QED
      BY <2>1, <2>2, BoundsOf
  <1>3. HiOf(x) <= HiOf(y)
    BY <1>1, <1>2, BoundsOf, Comparisons DEF HiOf
  <1>4. p < LoOf(y) => p <= HiOf(x)
    BY <1>1, Reaches
  <1>5. p >= 2 * c[1] => p >= Lo(c)
    BY BehindStartOf
  <1>6. /\ p \in Points(x) <=> LoOf(x) <= p /\ p <= HiOf(x)
        /\ p \in Points(y) <=> LoOf(y) <= p /\ p <= HiOf(y)
    BY PointsAre
  <1>7. /\ WithinBounds(c, End(x), p) <=> Lo(c) <= p /\ p <= HiOf(x)
        /\ WithinBounds(c, End(y), p) <=> Lo(c) <= p /\ p <= HiOf(y)
    BY Zenon DEF WithinBounds, HiOf
  <1> QED
    BY <1>2, <1>3, <1>4, <1>5, <1>6, <1>7

LEMMA StartFollows ==
    ASSUME NEW x \in Ivl, NEW y \in Ivl, NEW z \in Ivl
    PROVE  /\ ~end_lt_start(x, y) /\ HiOf(x) < LoOf(z) => y.s <= z.s
           /\ LoOf(x) <= LoOf(z) => x.s <= z.s
  <1>1. x.s \in Nat /\ y.s \in Nat /\ z.s \in Nat
    BY DEF Ivl
  <1>2. /\ HiOf(x) \in Int /\ LoOf(x) \in Int /\ LoOf(z) \in Int
        /\ LoOf(x) >= 2 * x.s /\ LoOf(z) <= 2 * z.s + 1
    BY <1>1, BoundsOf
  <1>3. Hi(Start(y)) >= 2 * y.s - 1 /\ Hi(Start(y)) \in Int
    BY <1>1, BoundsOf, BoundKnown
  <1>4. ~end_lt_start(x, y) => HiOf(x) >= Hi(Start(y))
    <2>1. ~end_lt_start(x, y) => ~end_lt(End(x), Start(y))
      BY Zenon DEF end_lt_start
    <2>2. ~end_lt(End(x), Start(y)) => Hi(End(x)) >= Hi(Start(y))
      BY <1>2, <1>3, BoundsOf, Comparisons DEF HiOf
    <2> QED
      BY <2>1, <2>2 DEF HiOf
  <1> QED
    BY <1>1, <1>2, <1>3, <1>4

\* A block that begins where an interval starts is the interval.
LEMMA OwnBlock ==
    ASSUME NEW x \in Ivl, NEW c \in Bound, c[1] = x.s, NEW p, IsOdd(p) \/ ~x.sopen, WithinBounds(c, End(x), p)
    PROVE  p \in Points(x)
  <1>1. p \in Int /\ Lo(c) <= p /\ p <= HiOf(x)
    BY Zenon DEF WithinBounds, HiOf
  <1>2. x.s \in Nat /\ Lo(c) \in Nat /\ Lo(c) >= 2 * x.s
    BY BoundKnown DEF Ivl
  <1>3. p >= LoOf(x)
    <2>1. CASE x.sopen
      <3>1. LoOf(x) = 2 * x.s + 1
        BY <2>1, BoundsOf, Zenon DEF LoOf, Lo
      <3>2. p # 2 * x.s
        BY <1>2, <2>1 DEF IsOdd
      <3> QED
        BY <1>1, <1>2, <3>1, <3>2
    <2>2. CASE ~x.sopen
      <3>1. LoOf(x) = 2 * x.s
        BY <2>2, BoundsOf, Zenon DEF LoOf, Lo
      <3> QED
        BY <1>1, <1>2, <3>1
    <2> QED
      BY <2>1, <2>2
  <1> QED
    BY <1>1, <1>3, PointsAre


\* When a block begins, the interval that starts first owns it.
LEMMA BlockBegins ==
    ASSUME (a \in Seq(Ivl) /\ b \in Seq(Ivl) /\ ia \in 1 .. Len(a) /\ ib \in 1 .. Len(b) /\ from \in Bound)',
           (from[1] = IF A.s < B.s THEN A.s ELSE B.s)', (AllClosed => ~from[2])', JoinRest'
    PROVE  JoinLoop'
  <1> PICK x : x = A'
    OBVIOUS
  <1> PICK y : y = B'
    OBVIOUS
  <1>1. x \in Ivl /\ y \in Ivl /\ x.s \in Nat /\ y.s \in Nat
    <2>1. x = a'[ia'] /\ y = b'[ib']
      BY DEF A, B
    <2>2. x \in Ivl /\ y \in Ivl
      BY <2>1, ElementsKnown
    <2> QED
      BY <2>2 DEF Ivl
  <1>2. from'[1] = IF x.s < y.s THEN x.s ELSE y.s
    OBVIOUS
  <1>3. from'[1] <= x.s /\ from'[1] <= y.s
    BY <1>1, <1>2
  <1>4. \A p : (p \in Points(x) => Holds(a', ia', p)) /\ (p \in Points(y) => Holds(b', ib', p))
    <2>1. x = a'[ia'] /\ y = b'[ib'] /\ ia' >= ia' /\ ib' >= ib'
      BY DEF A, B
    <2> QED
      BY <2>1, Zenon DEF Holds
  <1>5. AllClosed' => ~x.sopen /\ ~y.sopen
    <2>1. x = a'[ia'] /\ y = b'[ib']
      BY DEF A, B
    <2> QED
      BY <2>1, Zenon DEF AllClosed, Closed
  <1>6. \A p : Exact(p)' => (InEither(p)' <=> LeftOver(p)')
    BY DEF JoinRest
  <1>7. CASE x.s < y.s
    <2>1. ASSUME NEW p, Exact(p)', WithinBounds(from', End(x), p)
          PROVE  p \in Points(x)
      <3>1. IsOdd(p) \/ ~x.sopen
        BY <1>5, <2>1 DEF Exact
      <3> QED
        BY <1>1, <1>2, <1>7, <2>1, <3>1, OwnBlock
    <2>2. \A p : Exact(p)' => (InEither(p)' <=> LeftOver(p)' \/ WithinBounds(from', End(x), p))
      BY <1>4, <1>6, <2>1 DEF LeftOver
    <2>3. x.s <= y.s
      BY <1>1, <1>7
    <2>4. Owns(A, B)'
      BY <2>2, <2>3 DEF Owns
    <2> QED
      BY <1>3, <2>4 DEF JoinLoop
  <1>8. CASE ~(x.s < y.s)
    <2>1. ASSUME NEW p, Exact(p)', WithinBounds(from', End(y), p)
          PROVE  p \in Points(y)
      <3>1. IsOdd(p) \/ ~y.sopen
        BY <1>5, <2>1 DEF Exact
      <3> QED
        BY <1>1, <1>2, <1>8, <2>1, <3>1, OwnBlock
    <2>2. \A p : Exact(p)' => (InEither(p)' <=> LeftOver(p)' \/ WithinBounds(from', End(y), p))
      BY <1>4, <1>6, <2>1 DEF LeftOver
    <2>3. y.s <= x.s
      BY <1>1, <1>8
    <2>4. Owns(B, A)'
      BY <2>2, <2>3 DEF Owns
    <2> QED
      BY <1>3, <2>4 DEF JoinLoop
  <1> QED
    BY <1>7, <1>8

\* What the loop knows of the two current intervals.
LEMMA JoinParts ==
    ASSUME LoopTypes, run = "loop", fun = "union"
    PROVE  /\ InA /\ InB /\ a \in Seq(Ivl) /\ b \in Seq(Ivl) /\ Len(a) \in Nat /\ Len(b) \in Nat
           /\ ia \in 1 .. Len(a) /\ ib \in 1 .. Len(b) /\ A \in Ivl /\ B \in Ivl
           /\ from \in Bound /\ out \in Seq(Ivl) /\ End(A) \in Bound /\ End(B) \in Bound
           /\ \A p : /\ Holds(a, ia, p) <=> p \in Points(A) \/ Holds(a, ia + 1, p)
                     /\ Holds(b, ib, p) <=> p \in Points(B) \/ Holds(b, ib + 1, p)
           /\ AllClosed => ~A.sopen /\ ~B.sopen
           /\ HiOf(A) \in Int /\ HiOf(B) \in Int
  <1>1. InA /\ InB
    BY DEF LoopTypes
  <1>2. /\ a \in Seq(Ivl) /\ b \in Seq(Ivl) /\ ia \in 1 .. Len(a) /\ ib \in 1 .. Len(b) /\ A \in Ivl /\ B \in Ivl
        /\ from \in Bound /\ out \in Seq(Ivl) /\ Len(a) \in Nat /\ Len(b) \in Nat
    BY <1>1, Currents
  <1>3. End(A) \in Bound /\ End(B) \in Bound /\ HiOf(A) \in Int /\ HiOf(B) \in Int
    BY <1>2, BoundsOf
  <1>4. \A p : /\ Holds(a, ia, p) <=> p \in Points(A) \/ Holds(a, ia + 1, p)
               /\ Holds(b, ib, p) <=> p \in Points(B) \/ Holds(b, ib + 1, p)
    BY <1>2, HoldsNext DEF A, B
  <1>5. AllClosed => ~A.sopen /\ ~B.sopen
    BY <1>2, Zenon DEF AllClosed, Closed, A, B
  <1> QED
    BY <1>1, <1>2, <1>3, <1>4, <1>5

\* A turn in which the interval of a ends in that of b: the block is b's.
LEMMA SwallowA ==
    ASSUME LoopTypes, run = "loop", fun = "union", JoinLoop, EndsIn(A, B)
    PROVE  \A p : Exact(p) => /\ InEither(p) <=> \/ Holds(out, 1, p) \/ Holds(a, ia + 1, p) \/ Holds(b, ib, p)
                                                 \/ WithinBounds(from, End(B), p)
                              /\ p \in Points(B) => WithinBounds(from, End(B), p)
  <1> TAKE p
  <1> HAVE Exact(p)
  <1>1. p \in Int /\ (IsOdd(p) \/ (~B.sopen /\ ~from[2]))
    BY JoinParts DEF Exact, JoinLoop
  <1>2. /\ p \in Points(A) => WithinBounds(from, End(A), p)
        /\ p \in Points(B) => WithinBounds(from, End(B), p)
        /\ WithinBounds(from, End(A), p) => WithinBounds(from, End(B), p)
        /\ WithinBounds(from, End(B), p) => WithinBounds(from, End(A), p) \/ p \in Points(B)
    BY <1>1, JoinParts, Swallowed DEF JoinLoop
  <1>3. \/ InEither(p) <=> LeftOver(p) \/ WithinBounds(from, End(A), p)
        \/ InEither(p) <=> LeftOver(p) \/ WithinBounds(from, End(B), p)
    BY DEF JoinLoop, Owns
  <1> QED
    BY <1>2, <1>3, JoinParts DEF LeftOver

LEMMA SwallowB ==
    ASSUME LoopTypes, run = "loop", fun = "union", JoinLoop, EndsIn(B, A)
    PROVE  \A p : Exact(p) => /\ InEither(p) <=> \/ Holds(out, 1, p) \/ Holds(a, ia, p) \/ Holds(b, ib + 1, p)
                                                 \/ WithinBounds(from, End(A), p)
                              /\ p \in Points(A) => WithinBounds(from, End(A), p)
  <1> TAKE p
  <1> HAVE Exact(p)
  <1>1. p \in Int /\ (IsOdd(p) \/ (~A.sopen /\ ~from[2]))
    BY JoinParts DEF Exact, JoinLoop
  <1>2. /\ p \in Points(B) => WithinBounds(from, End(B), p)
        /\ p \in Points(A) => WithinBounds(from, End(A), p)
        /\ WithinBounds(from, End(B), p) => WithinBounds(from, End(A), p)
        /\ WithinBounds(from, End(A), p) => WithinBounds(from, End(B), p) \/ p \in Points(A)
    BY <1>1, JoinParts, Swallowed DEF JoinLoop
  <1>3. \/ InEither(p) <=> LeftOver(p) \/ WithinBounds(from, End(A), p)
        \/ InEither(p) <=> LeftOver(p) \/ WithinBounds(from, End(B), p)
    BY DEF JoinLoop, Owns
  <1> QED
    BY <1>2, <1>3, JoinParts DEF LeftOver

\* A turn in which neither ends in the other: the one that ends first owned the block.
LEMMA OwnerEnds ==
    ASSUME LoopTypes, run = "loop", fun = "union", JoinLoop, Solid(a), Solid(b)
    PROVE  /\ end_lt_start(A, B) =>
                \A p : Exact(p) => (InEither(p) <=> \/ Holds(out, 1, p) \/ WithinBounds(from, End(A), p)
                                                    \/ Holds(a, ia + 1, p) \/ Holds(b, ib, p))
           /\ end_lt_start(B, A) =>
                \A p : Exact(p) => (InEither(p) <=> \/ Holds(out, 1, p) \/ WithinBounds(from, End(B), p)
                                                    \/ Holds(a, ia, p) \/ Holds(b, ib + 1, p))
  <1>1. ASSUME NEW x \in Ivl, from[1] <= x.s, NEW p, Exact(p), p \in Points(x)
        PROVE  WithinBounds(from, End(x), p)
    <2>1. p \in Int /\ LoOf(x) <= p /\ p <= HiOf(x)
      BY <1>1, PointsAre
    <2>2. LoOf(x) \in Int /\ LoOf(x) >= 2 * x.s /\ x.s \in Nat /\ from \in Bound /\ from[1] \in Nat
      <3>1. x.s \in Nat
        BY DEF Ivl
      <3>2. from \in Bound
        BY JoinParts
      <3> QED
        BY <3>1, <3>2, BoundsOf, BoundKnown
    <2>3. p >= 2 * from[1]
      BY <1>1, <2>1, <2>2
    <2>4. p >= Lo(from)
      BY <1>1, <2>2, <2>1, <2>3, BehindStartOf DEF Exact, JoinLoop
    <2> QED
      BY <2>1, <2>4 DEF WithinBounds, HiOf
  <1>2. LoOf(A) <= HiOf(A) /\ LoOf(B) <= HiOf(B)
    BY JoinParts DEF Solid, A, B
  <1>3. A.s \in Nat /\ B.s \in Nat /\ A \in Ivl /\ B \in Ivl
    BY JoinParts DEF Ivl
  <1>4. from[1] <= A.s /\ from[1] <= B.s /\ (Owns(A, B) \/ Owns(B, A))
    BY DEF JoinLoop
  <1>5. ASSUME end_lt_start(A, B), NEW p, Exact(p)
        PROVE  InEither(p) <=> \/ Holds(out, 1, p) \/ WithinBounds(from, End(A), p)
                               \/ Holds(a, ia + 1, p) \/ Holds(b, ib, p)
    <2>1. A.s < B.s
      BY <1>2, <1>3, <1>5, EndsFirst
    <2>2. ~(B.s <= A.s)
      BY <1>3, <2>1
    <2>3. InEither(p) <=> LeftOver(p) \/ WithinBounds(from, End(A), p)
      BY <1>4, <1>5, <2>2 DEF Owns
    <2>4. p \in Points(A) => WithinBounds(from, End(A), p)
      BY <1>1, <1>3, <1>4, <1>5
    <2> QED
      BY <2>3, <2>4, JoinParts DEF LeftOver
  <1>6. ASSUME end_lt_start(B, A), NEW p, Exact(p)
        PROVE  InEither(p) <=> \/ Holds(out, 1, p) \/ WithinBounds(from, End(B), p)
                               \/ Holds(a, ia, p) \/ Holds(b, ib + 1, p)
    <2>1. B.s < A.s
      BY <1>2, <1>3, <1>6, EndsFirst
    <2>2. ~(A.s <= B.s)
      BY <1>3, <2>1
    <2>3. InEither(p) <=> LeftOver(p) \/ WithinBounds(from, End(B), p)
      BY <1>4, <1>6, <2>2 DEF Owns
    <2>4. p \in Points(B) => WithinBounds(from, End(B), p)
      BY <1>1, <1>3, <1>4, <1>6
    <2> QED
      BY <2>3, <2>4, JoinParts DEF LeftOver
  <1> QED
    BY <1>5, <1>6

\* The next intervals start no earlier.
LEMMA NextStarts ==
    ASSUME NEW v \in Seq(Ivl), NEW k \in Nat, k \in 1 .. Len(v), k + 1 \in 1 .. Len(v)
    PROVE  /\ v[k + 1] \in Ivl
           /\ StartsAscend(v) => v[k].s <= v[k + 1].s
           /\ Separate(v) => \A y \in Ivl : ~end_lt_start(v[k], y) => y.s <= v[k + 1].s
  <1>1. v[k] \in Ivl /\ v[k + 1] \in Ivl
    BY ElementsKnown
  <1>2. StartsAscend(v) => LoOf(v[k]) <= LoOf(v[k + 1])
    BY DEF StartsAscend
  <1>3. Separate(v) => HiOf(v[k]) < LoOf(v[k + 1])
    BY DEF Separate
  <1> QED
    BY <1>1, <1>2, <1>3, StartFollows

LEMMA SwallowATurn ==
    ASSUME LoopTypes, run = "loop", fun = "union", EndsIn(A, B), UNCHANGED <<fun, a, b, from>>,
           IF ia = Len(a)
           THEN Emit(Built(from, End(B))) /\ Advance(1, 1) /\ run' = "rest"
           ELSE Advance(1, 0) /\ UNCHANGED <<out, run>>
    PROVE  /\ out' \in Seq(Ivl) /\ ia' \in 1 .. Len(a) + 1 /\ ib' \in 1 .. Len(b) + 1
           /\ (run' = "rest" /\ ~InA') \/ (run' = "loop" /\ InA' /\ InB')
           /\ Parted(a) /\ Parted(b) /\ JoinLoop =>
                (run' = "loop" => JoinLoop') /\ (run' = "rest" => JoinRest')
  <1>1. /\ InA /\ InB /\ a \in Seq(Ivl) /\ b \in Seq(Ivl) /\ Len(a) \in Nat /\ Len(b) \in Nat
        /\ ia \in 1 .. Len(a) /\ ib \in 1 .. Len(b) /\ A \in Ivl /\ B \in Ivl
        /\ from \in Bound /\ out \in Seq(Ivl) /\ End(B) \in Bound
    BY JoinParts
  <1>2. JoinLoop => \A p : Exact(p) => /\ InEither(p) <=> \/ Holds(out, 1, p) \/ Holds(a, ia + 1, p) \/ Holds(b, ib, p)
                                                          \/ WithinBounds(from, End(B), p)
                                       /\ p \in Points(B) => WithinBounds(from, End(B), p)
    BY SwallowA
  <1>3. \A p : (Exact(p)' <=> Exact(p)) /\ (InEither(p)' <=> InEither(p))
    BY DEF Exact, InEither, AllClosed
  <1>4. CASE ia = Len(a)
    <2>1. ia' = ia + 1 /\ ib' = ib + 1 /\ out' = Append(out, Built(from, End(B))) /\ run' = "rest"
      BY <1>1, <1>4 DEF Advance, Emit
    <2>2. out' \in Seq(Ivl) /\ \A p : Holds(out', 1, p) <=> Holds(out, 1, p) \/ WithinBounds(from, End(B), p)
      BY <1>1, <2>1, HoldsAdded DEF WithinBounds
    <2>3. ~InA'
      BY <1>1, <1>4, <2>1 DEF InA
    <2>4. ASSUME JoinLoop, NEW p, Exact(p)
          PROVE  InEither(p) <=> \/ Holds(out', 1, p) \/ Holds(a, ia + 1, p) \/ Holds(b, ib + 1, p)
      BY <1>2, <2>2, <2>4, JoinParts
    <2>5. JoinLoop => JoinRest'
      BY <1>3, <2>1, <2>4 DEF JoinRest, LeftOver
    <2> QED
      BY <1>1, <2>1, <2>2, <2>3, <2>5
  <1>5. CASE ia # Len(a)
    <2>1. ia' = ia + 1 /\ ib' = ib /\ out' = out /\ run' = "loop" /\ ia + 1 \in 1 .. Len(a) /\ ia \in Nat
      BY <1>1, <1>5 DEF Advance
    <2>2. InA' /\ InB' /\ B' = B /\ A' = a[ia + 1]
      BY <1>1, <2>1 DEF InA, InB, A, B
    <2>3. ASSUME Parted(a), Parted(b), JoinLoop
          PROVE  JoinLoop'
      <3>1. /\ a[ia + 1] \in Ivl /\ A.s <= a[ia + 1].s /\ B.s <= a[ia + 1].s
        <4>1. ~end_lt_start(a[ia], B)
          BY Zenon DEF EndsIn, A
        <4>2. StartsAscend(a) /\ Separate(a)
          BY <2>3, Currents DEF Parted
        <4> QED
          BY <1>1, <2>1, <4>1, <4>2, NextStarts DEF A
      <3>2. A.s \in Nat /\ B.s \in Nat /\ a[ia + 1].s \in Nat /\ from[1] \in Nat
        <4>1. from[1] \in Nat
          BY <1>1, BoundKnown
        <4> QED
          BY <1>1, <3>1, <4>1 DEF Ivl
      <3>3. from'[1] <= A'.s /\ from'[1] <= B'.s /\ (AllClosed' => ~from'[2])
        <4>1. from[1] <= a[ia + 1].s /\ from[1] <= B.s /\ (AllClosed => ~from[2])
          BY <2>3, <3>1, <3>2 DEF JoinLoop
        <4> QED
          BY <2>2, <4>1 DEF AllClosed
      <3>4. \A p : Exact(p)' => (InEither(p)' <=> LeftOver(p)' \/ WithinBounds(from', End(B'), p))
        BY <1>2, <1>3, <2>1, <2>2, <2>3 DEF LeftOver
      <3>5. Owns(B, A)'
        BY <2>2, <3>1, <3>4 DEF Owns
      <3> QED
        BY <3>3, <3>5 DEF JoinLoop
    <2> QED
      BY <1>1, <2>1, <2>2, <2>3
  <1> QED
    BY <1>4, <1>5

LEMMA SwallowBTurn ==
    ASSUME LoopTypes, run = "loop", fun = "union", EndsIn(B, A), UNCHANGED <<fun, a, b, from>>,
           IF ib = Len(b)
           THEN Emit(Built(from, End(A))) /\ Advance(1, 1) /\ run' = "rest"
           ELSE Advance(0, 1) /\ UNCHANGED <<out, run>>
    PROVE  /\ out' \in Seq(Ivl) /\ ia' \in 1 .. Len(a) + 1 /\ ib' \in 1 .. Len(b) + 1
           /\ (run' = "rest" /\ ~InB') \/ (run' = "loop" /\ InA' /\ InB')
           /\ Parted(a) /\ Parted(b) /\ JoinLoop =>
                (run' = "loop" => JoinLoop') /\ (run' = "rest" => JoinRest')
  <1>1. /\ InA /\ InB /\ a \in Seq(Ivl) /\ b \in Seq(Ivl) /\ Len(a) \in Nat /\ Len(b) \in Nat
        /\ ia \in 1 .. Len(a) /\ ib \in 1 .. Len(b) /\ A \in Ivl /\ B \in Ivl
        /\ from \in Bound /\ out \in Seq(Ivl) /\ End(A) \in Bound
    BY JoinParts
  <1>2. JoinLoop => \A p : Exact(p) => /\ InEither(p) <=> \/ Holds(out, 1, p) \/ Holds(a, ia, p) \/ Holds(b, ib + 1, p)
                                                          \/ WithinBounds(from, End(A), p)
                                       /\ p \in Points(A) => WithinBounds(from, End(A), p)
    BY SwallowB
  <1>3. \A p : (Exact(p)' <=> Exact(p)) /\ (InEither(p)' <=> InEither(p))
    BY DEF Exact, InEither, AllClosed
  <1>4. CASE ib = Len(b)
    <2>1. ia' = ia + 1 /\ ib' = ib + 1 /\ out' = Append(out, Built(from, End(A))) /\ run' = "rest"
      BY <1>1, <1>4 DEF Advance, Emit
    <2>2. out' \in Seq(Ivl) /\ \A p : Holds(out', 1, p) <=> Holds(out, 1, p) \/ WithinBounds(from, End(A), p)
      BY <1>1, <2>1, HoldsAdded DEF WithinBounds
    <2>3. ~InB'
      BY <1>1, <1>4, <2>1 DEF InB
    <2>4. ASSUME JoinLoop, NEW p, Exact(p)
          PROVE  InEither(p) <=> \/ Holds(out', 1, p) \/ Holds(a, ia + 1, p) \/ Holds(b, ib + 1, p)
      BY <1>2, <2>2, <2>4, JoinParts
    <2>5. JoinLoop => JoinRest'
      BY <1>3, <2>1, <2>4 DEF JoinRest, LeftOver
    <2> QED
      BY <1>1, <2>1, <2>2, <2>3, <2>5
  <1>5. CASE ib # Len(b)
    <2>1. ib' = ib + 1 /\ ia' = ia /\ out' = out /\ run' = "loop" /\ ib + 1 \in 1 .. Len(b) /\ ib \in Nat
      BY <1>1, <1>5 DEF Advance
    <2>2. InA' /\ InB' /\ A' = A /\ B' = b[ib + 1]
      BY <1>1, <2>1 DEF InA, InB, A, B
    <2>3. ASSUME Parted(a), Parted(b), JoinLoop
          PROVE  JoinLoop'
      <3>1. /\ b[ib + 1] \in Ivl /\ B.s <= b[ib + 1].s /\ A.s <= b[ib + 1].s
        <4>1. ~end_lt_start(b[ib], A)
          BY Zenon DEF EndsIn, B
        <4>2. StartsAscend(b) /\ Separate(b)
          BY <2>3, Currents DEF Parted
        <4> QED
          BY <1>1, <2>1, <4>1, <4>2, NextStarts DEF B
      <3>2. A.s \in Nat /\ B.s \in Nat /\ b[ib + 1].s \in Nat /\ from[1] \in Nat
        <4>1. from[1] \in Nat
          BY <1>1, BoundKnown
        <4> QED
          BY <1>1, <3>1, <4>1 DEF Ivl
      <3>3. from'[1] <= A'.s /\ from'[1] <= B'.s /\ (AllClosed' => ~from'[2])
        <4>1. from[1] <= A.s /\ from[1] <= b[ib + 1].s /\ (AllClosed => ~from[2])
          BY <2>3, <3>1, <3>2 DEF JoinLoop
        <4> QED
          BY <2>2, <4>1 DEF AllClosed
      <3>4. \A p : Exact(p)' => (InEither(p)' <=> LeftOver(p)' \/ WithinBounds(from', End(A'), p))
        BY <1>2, <1>3, <2>1, <2>2, <2>3 DEF LeftOver
      <3>5. Owns(A, B)'
        BY <2>2, <3>1, <3>4 DEF Owns
      <3> QED
        BY <3>3, <3>5 DEF JoinLoop
    <2> QED
      BY <1>1, <2>1, <2>2, <2>3
  <1> QED
    BY <1>4, <1>5

LEMMA UnionTurn ==
    ASSUME LoopTypes, JoinOK, UnionStep
    PROVE  /\ from' \in Bound /\ out' \in Seq(Ivl) /\ ia' \in 1 .. Len(a) + 1 /\ ib' \in 1 .. Len(b) + 1
           /\ (run' = "rest" /\ (~InA' \/ ~InB')) \/ (run' = "loop" /\ InA' /\ InB')
           /\ UNCHANGED <<fun, a, b>> /\ fun = "union"
           /\ JoinOK'
  <1> DEFINE first == end_lt(End(A), End(B))
             na == IF first THEN ia + 1 ELSE ia
             nb == IF first THEN ib ELSE ib + 1
  <1>1. /\ run = "loop" /\ fun = "union" /\ UNCHANGED <<fun, a, b>>
        /\ \/ /\ EndsIn(A, B)
              /\ IF ia = Len(a)
                 THEN Emit(Built(from, End(B))) /\ Advance(1, 1) /\ run' = "rest"
                 ELSE Advance(1, 0) /\ UNCHANGED <<out, run>>
              /\ UNCHANGED from
           \/ /\ ~EndsIn(A, B) /\ EndsIn(B, A)
              /\ IF ib = Len(b)
                 THEN Emit(Built(from, End(A))) /\ Advance(1, 1) /\ run' = "rest"
                 ELSE Advance(0, 1) /\ UNCHANGED <<out, run>>
              /\ UNCHANGED from
           \/ /\ ~EndsIn(A, B) /\ ~EndsIn(B, A)
              /\ Emit(Built(from, IF first THEN End(A) ELSE End(B)))
              /\ ia' = na /\ ib' = nb
              /\ NextStart(na, nb)
              /\ run' = IF na <= Len(a) /\ nb <= Len(b) THEN "loop" ELSE "rest"
    BY Zenon DEF UnionStep, Fixed
  <1>2. /\ InA /\ InB /\ a \in Seq(Ivl) /\ b \in Seq(Ivl) /\ Len(a) \in Nat /\ Len(b) \in Nat
        /\ ia \in 1 .. Len(a) /\ ib \in 1 .. Len(b) /\ A \in Ivl /\ B \in Ivl
        /\ from \in Bound /\ out \in Seq(Ivl) /\ End(A) \in Bound /\ End(B) \in Bound
        /\ HiOf(A) \in Int /\ HiOf(B) \in Int
    BY <1>1, JoinParts
  <1>3. /\ Parted(a)' <=> Parted(a)
        /\ Parted(b)' <=> Parted(b)
    BY <1>1
  <1>4. Parted(a) /\ Parted(b) => JoinLoop
    BY <1>1 DEF JoinOK
  <1>5. CASE EndsIn(A, B)
    <2>1. /\ IF ia = Len(a)
             THEN Emit(Built(from, End(B))) /\ Advance(1, 1) /\ run' = "rest"
             ELSE Advance(1, 0) /\ UNCHANGED <<out, run>>
          /\ UNCHANGED from
      BY <1>1, <1>5, Zenon
    <2>2. /\ out' \in Seq(Ivl) /\ ia' \in 1 .. Len(a) + 1 /\ ib' \in 1 .. Len(b) + 1
          /\ (run' = "rest" /\ ~InA') \/ (run' = "loop" /\ InA' /\ InB')
          /\ Parted(a) /\ Parted(b) /\ JoinLoop =>
               (run' = "loop" => JoinLoop') /\ (run' = "rest" => JoinRest')
      BY <1>1, <1>5, <2>1, SwallowATurn
    <2> QED
      BY <1>1, <1>2, <1>3, <1>4, <2>1, <2>2 DEF JoinOK
  <1>6. CASE ~EndsIn(A, B) /\ EndsIn(B, A)
    <2>1. /\ IF ib = Len(b)
             THEN Emit(Built(from, End(A))) /\ Advance(1, 1) /\ run' = "rest"
             ELSE Advance(0, 1) /\ UNCHANGED <<out, run>>
          /\ UNCHANGED from
      BY <1>1, <1>6, Zenon
    <2>2. /\ out' \in Seq(Ivl) /\ ia' \in 1 .. Len(a) + 1 /\ ib' \in 1 .. Len(b) + 1
          /\ (run' = "rest" /\ ~InB') \/ (run' = "loop" /\ InA' /\ InB')
          /\ Parted(a) /\ Parted(b) /\ JoinLoop =>
               (run' = "loop" => JoinLoop') /\ (run' = "rest" => JoinRest')
      BY <1>1, <1>6, <2>1, SwallowBTurn
    <2> QED
      BY <1>1, <1>2, <1>3, <1>4, <2>1, <2>2 DEF JoinOK
  <1>7. CASE ~EndsIn(A, B) /\ ~EndsIn(B, A)
    <2> DEFINE x == IF first THEN A ELSE B
    <2>1. /\ out' = Append(out, Built(from, End(x)))
          /\ ia' = na /\ ib' = nb
          /\ NextStart(na, nb)
          /\ run' = IF na <= Len(a) /\ nb <= Len(b) THEN "loop" ELSE "rest"
      BY <1>1, <1>7, Zenon DEF Emit
    <2>2. na \in 1 .. Len(a) + 1 /\ nb \in 1 .. Len(b) + 1
      BY <1>2
    <2>3. out' \in Seq(Ivl) /\ \A p : Holds(out', 1, p) <=> Holds(out, 1, p) \/ WithinBounds(from, End(x), p)
      BY <1>2, <2>1, HoldsAdded DEF WithinBounds
    <2>4. ASSUME Parted(a), Parted(b), NEW p, Exact(p)
          PROVE  InEither(p) <=> Holds(out', 1, p) \/ Holds(a, na, p) \/ Holds(b, nb, p)
      <3>1. Solid(a) /\ Solid(b) /\ JoinLoop
        BY <1>4, <2>4 DEF Parted
      <3>2. CASE first
        <4>1. HiOf(A) < HiOf(B)
          BY <1>2, <3>2, Comparisons DEF HiOf
        <4>2. ~end_gt(End(A), End(B))
          BY <1>2, <4>1, Comparisons DEF HiOf
        <4>3. end_lt_start(A, B)
          BY <1>7, <4>2, Zenon DEF EndsIn
        <4>4. InEither(p) <=> \/ Holds(out, 1, p) \/ WithinBounds(from, End(A), p)
                              \/ Holds(a, ia + 1, p) \/ Holds(b, ib, p)
          BY <1>1, <2>4, <3>1, <4>3, OwnerEnds
        <4> QED
          BY <2>3, <3>2, <4>4
      <3>3. CASE ~first
        <4>1. ~(HiOf(A) < HiOf(B))
          BY <1>2, <3>3, Comparisons DEF HiOf
        <4>2. ~end_gt(End(B), End(A))
          BY <1>2, <4>1, Comparisons DEF HiOf
        <4>3. end_lt_start(B, A)
          BY <1>7, <4>2, Zenon DEF EndsIn
        <4>4. InEither(p) <=> \/ Holds(out, 1, p) \/ WithinBounds(from, End(B), p)
                              \/ Holds(a, ia, p) \/ Holds(b, ib + 1, p)
          BY <1>1, <2>4, <3>1, <4>3, OwnerEnds
        <4> QED
          BY <2>3, <3>3, <4>4
      <3> QED
        BY <3>2, <3>3
    <2> HIDE DEF na, nb, x
    <2>5. Parted(a) /\ Parted(b) => JoinRest'
      <3>1. \A p : (Exact(p)' <=> Exact(p)) /\ (InEither(p)' <=> InEither(p))
        BY <1>1 DEF Exact, InEither, AllClosed
      <3> QED
        BY <1>1, <2>1, <2>4, <3>1 DEF JoinRest, LeftOver
    <2>6. CASE na <= Len(a) /\ nb <= Len(b)
      <3>1. run' = "loop" /\ InA' /\ InB' /\ na \in 1 .. Len(a) /\ nb \in 1 .. Len(b)
        BY <1>1, <1>2, <2>1, <2>2, <2>6 DEF InA, InB
      <3>2. a[na] \in Ivl /\ b[nb] \in Ivl /\ A' = a[na] /\ B' = b[nb]
        BY <1>1, <1>2, <2>1, <3>1, ElementsKnown DEF A, B
      <3>3. from' = <<IF a[na].s < b[nb].s THEN a[na].s ELSE b[nb].s, from[2]>>
        BY <2>1, <2>6 DEF NextStart
      <3>4. a[na].s \in Nat /\ b[nb].s \in Nat /\ from[2] \in BOOLEAN
        BY <1>2, <3>2, BoundKnown DEF Ivl
      <3>5. from' \in Bound
        BY <3>3, <3>4 DEF Bound
      <3>6. from'[1] = (IF A'.s < B'.s THEN A'.s ELSE B'.s) /\ from'[2] = from[2]
        BY <3>2, <3>3
      <3>7. ASSUME Parted(a), Parted(b)
            PROVE  JoinLoop'
        <4>1. AllClosed' => ~from'[2]
          <5>1. AllClosed' <=> AllClosed
            BY <1>1 DEF AllClosed
          <5> QED
            BY <1>4, <3>6, <3>7, <5>1 DEF JoinLoop
        <4>2. (from[1] = IF A.s < B.s THEN A.s ELSE B.s)'
          BY <3>6
        <4>3. (a \in Seq(Ivl) /\ b \in Seq(Ivl) /\ ia \in 1 .. Len(a) /\ ib \in 1 .. Len(b) /\ from \in Bound)'
          BY <1>1, <1>2, <2>1, <3>1, <3>5
        <4> QED
          BY <2>5, <3>7, <4>1, <4>2, <4>3, BlockBegins
      <3> QED
        BY <1>1, <1>2, <1>3, <2>1, <2>2, <2>3, <3>1, <3>5, <3>7 DEF JoinOK
    <2>7. CASE ~(na <= Len(a) /\ nb <= Len(b))
      <3>1. run' = "rest" /\ (~InA' \/ ~InB') /\ from' = from
        BY <1>1, <2>1, <2>7 DEF InA, InB, NextStart
      <3> QED
        BY <1>1, <1>2, <1>3, <2>1, <2>2, <2>3, <2>5, <3>1 DEF JoinOK
    <2> QED
      BY <2>6, <2>7
  <1> QED
    BY <1>1, <1>5, <1>6, <1>7

(***************************************************************************)
(* The whole.                                                              *)
(***************************************************************************)
LEMMA LoopInit == IInit => IntervalInv
  <1> SUFFICES ASSUME IInit
               PROVE  IntervalInv
    OBVIOUS
  <1>1. /\ fun = "none" /\ a = <<>> /\ b = <<>> /\ ia = 1 /\ ib = 1
        /\ from = <<0, FALSE>> /\ out = <<>> /\ run = "idle"
    BY DEF IInit
  <1>2. <<>> \in Sorted
    <2>1. <<>> \in [1 .. 0 -> Intervals(Instants)] /\ 0 \in 0 .. MaxIvls
      BY IntervalAssumption
    <2>2. <<>> \in UNION {[1 .. n -> Intervals(Instants)] : n \in 0 .. MaxIvls}
      BY <2>1
    <2>3. \A i \in 1 .. Len(<<>>) - 1 : ~interval_lt(<<>>[i + 1], <<>>[i])
      OBVIOUS
    <2> QED
      BY <2>2, <2>3, Zenon DEF Sorted
  <1>3. <<>> \in Seq(Ivl) /\ <<0, FALSE>> \in Bound /\ Len(a) = 0 /\ Len(b) = 0
    <2>1. <<>> \in Seq(Ivl) /\ Len(<<>>) = 0
      BY EmptySeq
    <2>2. <<0, FALSE>> \in Bound
      BY Zenon DEF Bound
    <2> QED
      BY <1>1, <2>1, <2>2
  <1> QED
    BY <1>1, <1>2, <1>3 DEF IntervalInv, LoopTypes

LEMMA EnterStep ==
    ASSUME IntervalInv, NEW f \in {"intersect", "union", "setdiff"}, Enter(f)
    PROVE  IntervalInv'
  <1>1. /\ run = "idle" /\ fun' = f /\ a' \in Sorted /\ b' \in Sorted
        /\ run' = IF a' # <<>> /\ b' # <<>> THEN "loop" ELSE "rest"
        /\ ia' = ia /\ ib' = ib /\ out' = out
        /\ f = "setdiff" /\ a' # <<>> => from' = Start(a'[1])
        /\ f = "union" /\ a' # <<>> /\ b' # <<>> =>
             from' = IF start_lt(Start(a'[1]), Start(b'[1])) THEN Start(a'[1]) ELSE Start(b'[1])
        /\ f = "setdiff" /\ a' = <<>> => from' = from
        /\ f = "union" /\ (a' = <<>> \/ b' = <<>>) => from' = from
        /\ f = "intersect" => from' = from
    BY DEF Enter
  <1>2. ia' = 1 /\ ib' = 1 /\ out' = <<>> /\ from = <<0, FALSE>> /\ from \in Bound /\ out' \in Seq(Ivl)
    BY <1>1 DEF IntervalInv, LoopTypes
  <1>3. /\ a' \in Seq(Ivl) /\ b' \in Seq(Ivl) /\ Len(a') \in Nat /\ Len(b') \in Nat
        /\ a' # <<>> <=> Len(a') >= 1
        /\ b' # <<>> <=> Len(b') >= 1
    <2>1. a' \in Seq(Ivl) /\ b' \in Seq(Ivl)
      BY <1>1, SortedStarts
    <2> QED
      BY <2>1, EmptySeq, ElementsKnown
  <1>4. /\ (a' # <<>> => a'[1] \in Ivl /\ 1 \in 1 .. Len(a')) /\ (b' # <<>> => b'[1] \in Ivl /\ 1 \in 1 .. Len(b'))
        /\ InA' <=> a' # <<>>
        /\ InB' <=> b' # <<>>
        /\ A' = a'[1] /\ B' = b'[1]
    BY <1>2, <1>3, ElementsKnown DEF InA, InB, A, B
  <1>5. \A p : ~Holds(out', 1, p)
    <2>1. Len(<<>>) = 0 /\ 1 .. 0 = {}
      OBVIOUS
    <2> QED
      BY <1>2, <2>1 DEF Holds
  <1>6. from' \in Bound
    <2>1. /\ a' # <<>> => Start(a'[1]) \in Bound
          /\ b' # <<>> => Start(b'[1]) \in Bound
      BY <1>4, BoundsOf
    <2> QED
      BY <1>1, <1>2, <2>1
  <1>7. LoopTypes'
    BY <1>1, <1>2, <1>3, <1>4, <1>6 DEF LoopTypes
  <1>8. ASSUME f = "intersect"
        PROVE  MeetOK'
    BY <1>2, <1>5 DEF MeetOK
  <1>9. ASSUME f = "setdiff"
        PROVE  LessOK'
    <2>1. CASE a' = <<>>
      <3>1. \A p : ~Remains(p)' /\ ~Holds(a', 1, p)
        <4>1. ~InA' /\ 1 > Len(a')
          BY <1>3, <1>4, <2>1
        <4> QED
          BY <1>3, <4>1, HoldsNothing DEF Remains
      <3> QED
        BY <1>4, <1>5, <2>1, <3>1 DEF LessOK, Missing
    <2>2. CASE a' # <<>>
      <3>1. from' = Start(A') /\ InA' /\ run' # "done" /\ A' \in Ivl /\ ia' = 1
        BY <1>1, <1>2, <1>4, <1>9, <2>2
      <3>2. \A p : Remains(p)' <=> Holds(a', 1, p)
        <4> TAKE p
        <4>1. Remains(p)' <=> WithinBounds(Start(A'), End(A'), p) \/ Holds(a', 1 + 1, p)
          BY <3>1 DEF Remains
        <4>2. Holds(a', 1, p) <=> p \in Points(a'[1]) \/ Holds(a', 1 + 1, p)
          BY <1>3, <1>4, <2>2, HoldsNext
        <4> QED
          BY <1>4, <3>1, <4>1, <4>2, WithinOwn
      <3>3. Parted(a)' => Lo(from') <= HiOf(A)'
        BY <1>4, <2>2, <3>1 DEF Parted, Solid, LoOf, HiOf
      <3> QED
        BY <1>2, <1>5, <3>2, <3>3 DEF LessOK, Missing
    <2> QED
      BY <2>1, <2>2
  <1>10. ASSUME f = "union"
         PROVE  JoinOK'
    <2>1. JoinRest'
      BY <1>2, <1>5 DEF JoinRest, InEither, LeftOver
    <2>2. CASE a' # <<>> /\ b' # <<>>
      <3>1. from' = (IF start_lt(Start(A'), Start(B')) THEN Start(A') ELSE Start(B')) /\ run' = "loop"
        BY <1>1, <1>4, <1>10, <2>2
      <3> PICK x : x = A'
        OBVIOUS
      <3> PICK y : y = B'
        OBVIOUS
      <3>2. x \in Ivl /\ y \in Ivl
        BY <1>4, <2>2
      <3>3. /\ x.s \in Nat /\ y.s \in Nat
            /\ Start(x) \in Bound /\ Start(y) \in Bound /\ Start(x)[1] = x.s /\ Start(y)[1] = y.s
            /\ LoOf(x) \in Int /\ LoOf(y) \in Int
        BY <3>2, BoundsOf DEF Ivl
      <3>4. /\ start_lt(Start(x), Start(y)) <=> LoOf(x) < LoOf(y)
            /\ LoOf(x) <= LoOf(y) => x.s <= y.s
            /\ LoOf(y) <= LoOf(x) => y.s <= x.s
        BY <3>2, <3>3, Comparisons, StartFollows DEF LoOf
      <3>5. from'[1] = IF x.s < y.s THEN x.s ELSE y.s
        BY <3>1, <3>3, <3>4
      <3>6. AllClosed' => ~from'[2]
        <4>1. AllClosed' => ~x.sopen /\ ~y.sopen
          BY <1>4, <2>2, Zenon DEF AllClosed, Closed
        <4>2. Start(x)[2] = x.sopen /\ Start(y)[2] = y.sopen
          BY <3>2, BoundsOf
        <4>3. from' = Start(x) \/ from' = Start(y)
          BY <3>1
        <4> QED
          BY <4>1, <4>2, <4>3, Zenon
      <3>7. (from[1] = IF A.s < B.s THEN A.s ELSE B.s)'
        BY <3>5
      <3>8. (AllClosed => ~from[2])'
        BY <3>6
      <3>9. (a \in Seq(Ivl) /\ b \in Seq(Ivl) /\ ia \in 1 .. Len(a) /\ ib \in 1 .. Len(b) /\ from \in Bound)'
        BY <1>2, <1>3, <1>4, <1>6, <2>2
      <3>10. JoinLoop'
        BY <2>1, <3>7, <3>8, <3>9, BlockBegins
      <3> QED
        BY <3>1, <3>10 DEF JoinOK
    <2>3. CASE ~(a' # <<>> /\ b' # <<>>)
      <3>1. run' = "rest"
        BY <1>1, <2>3
      <3> QED
        BY <2>1, <3>1 DEF JoinOK
    <2> QED
      BY <2>2, <2>3
  <1> QED
    BY <1>1, <1>7, <1>8, <1>9, <1>10 DEF IntervalInv

LEMMA MeetKeeps == IntervalInv /\ IntersectStep => IntervalInv'
  <1> SUFFICES ASSUME IntervalInv, IntersectStep
               PROVE  IntervalInv'
    OBVIOUS
  <1>1. LoopTypes /\ MeetOK
    BY DEF IntervalInv, IntersectStep
  <1>2. /\ run = "loop" /\ fun = "intersect" /\ InA /\ InB /\ UNCHANGED <<fun, a, b, from, run>>
        /\ (ia' = ia + 1 /\ ib' = ib) \/ (ia' = ia /\ ib' = ib + 1)
    <2>1. ia \in Nat /\ ib \in Nat
      BY <1>1, Currents
    <2> QED
      BY <2>1 DEF IntersectStep, Fixed, Advance
  <1>3. ia \in 1 .. Len(a) /\ ib \in 1 .. Len(b) /\ Len(a) \in Nat /\ Len(b) \in Nat
    BY <1>1, <1>2, Currents
  <1>4. MeetOK' /\ out' \in Seq(Ivl)
    BY <1>1, MeetStep
  <1>5. LoopTypes'
    BY <1>1, <1>2, <1>3, <1>4 DEF LoopTypes
  <1> QED
    BY <1>2, <1>4, <1>5 DEF IntervalInv

LEMMA LessKeeps == IntervalInv /\ SetdiffStep => IntervalInv'
  <1> SUFFICES ASSUME IntervalInv, SetdiffStep
               PROVE  IntervalInv'
    OBVIOUS
  <1>1. LoopTypes /\ LessOK /\ run = "loop" /\ fun = "setdiff" /\ InA
    BY DEF IntervalInv, SetdiffStep
  <1>2. /\ from' \in Bound /\ out' \in Seq(Ivl) /\ ia' \in 1 .. Len(a) + 1 /\ ib' \in 1 .. Len(b) + 1
        /\ run' \in {"loop", "rest"} /\ (run' = "rest" => ~InA')
        /\ UNCHANGED <<fun, a, b>>
        /\ Parted(a) /\ Solid(b) /\ Lo(from) <= HiOf(A) =>
             /\ InA' => Lo(from') <= HiOf(A)'
             /\ \A p : Exact(p) => LessMoves(p)
    BY <1>1, LessTurn
  <1>3. LoopTypes'
    BY <1>1, <1>2 DEF LoopTypes
  <1>4. ASSUME Parted(a), Solid(b)
        PROVE  /\ InA' => Lo(from') <= HiOf(A)'
               /\ \A p : Exact(p)' => (Holds(a, 1, p) /\ ~Holds(b, 1, p) <=> Holds(out', 1, p) \/ Missing(p)')
    <2>1. /\ Lo(from) <= HiOf(A)
          /\ \A p : Exact(p) => (Holds(a, 1, p) /\ ~Holds(b, 1, p) <=> Holds(out, 1, p) \/ Missing(p))
      BY <1>1, <1>4 DEF LessOK
    <2>2. \A p : Exact(p)' <=> Exact(p)
      BY <1>2 DEF Exact, AllClosed
    <2> QED
      BY <1>2, <1>4, <2>1, <2>2 DEF LessMoves
  <1>5. LessOK'
    BY <1>2, <1>4 DEF LessOK
  <1> QED
    BY <1>1, <1>2, <1>3, <1>5 DEF IntervalInv

LEMMA JoinKeeps == IntervalInv /\ UnionStep => IntervalInv'
  <1> SUFFICES ASSUME IntervalInv, UnionStep
               PROVE  IntervalInv'
    OBVIOUS
  <1>1. LoopTypes /\ JoinOK
    BY DEF IntervalInv, UnionStep
  <1>2. /\ from' \in Bound /\ out' \in Seq(Ivl) /\ ia' \in 1 .. Len(a) + 1 /\ ib' \in 1 .. Len(b) + 1
        /\ (run' = "rest" /\ (~InA' \/ ~InB')) \/ (run' = "loop" /\ InA' /\ InB')
        /\ UNCHANGED <<fun, a, b>> /\ fun = "union"
        /\ JoinOK'
    BY <1>1, UnionTurn
  <1>3. LoopTypes'
    BY <1>1, <1>2 DEF LoopTypes
  <1> QED
    BY <1>2, <1>3 DEF IntervalInv

LEMMA LoopEndsKeeps == IntervalInv /\ LoopEnds => IntervalInv'
  <1> SUFFICES ASSUME IntervalInv, LoopEnds
               PROVE  IntervalInv'
    OBVIOUS
  <1>1. run = "loop" /\ ~(InA /\ InB) /\ run' = "rest" /\ UNCHANGED <<fun, a, b, ia, ib, from, out>>
    BY DEF LoopEnds
  <1>2. fun # "union" /\ fun # "none"
    BY <1>1 DEF IntervalInv, LoopTypes
  <1>3. LoopTypes'
    BY <1>1, <1>2 DEF IntervalInv, LoopTypes, InA, InB
  <1>4. MeetOK' <=> MeetOK
    BY <1>1 DEF MeetOK
  <1>5. \A p : Remains(p)' <=> Remains(p)
    BY <1>1 DEF Remains, InA, A
  <1>6. \A p : (Missing(p)' <=> Missing(p)) /\ (Exact(p)' <=> Exact(p))
    BY <1>1, <1>5 DEF Missing, Exact, AllClosed
  <1>7. LessOK' <=> LessOK
    <2>1. InA' = InA /\ HiOf(A)' = HiOf(A)
      BY <1>1 DEF InA, A, HiOf
    <2> QED
      BY <1>1, <1>6, <2>1 DEF LessOK
  <1> QED
    BY <1>1, <1>2, <1>3, <1>4, <1>7 DEF IntervalInv

LEMMA RestKeeps == IntervalInv /\ Rest => IntervalInv'
  <1> SUFFICES ASSUME IntervalInv, Rest
               PROVE  IntervalInv'
    OBVIOUS
  <1> DEFINE t == CASE fun = "union"   -> SubSeq(a, ia, Len(a)) \o SubSeq(b, ib, Len(b))
                    [] fun = "setdiff" -> IF InA THEN <<Built(from, End(A))>> \o SubSeq(a, ia + 1, Len(a))
                                          ELSE <<>>
                    [] OTHER           -> <<>>
  <1>1. run = "rest" /\ run' = "done" /\ UNCHANGED <<fun, a, b>> /\ UNCHANGED <<ia, ib, from>> /\ out' = out \o t
    BY Zenon DEF Rest, Fixed
  <1>2. /\ LoopTypes /\ a \in Seq(Ivl) /\ b \in Seq(Ivl) /\ Len(a) \in Nat /\ Len(b) \in Nat
        /\ ia \in 1 .. Len(a) + 1 /\ ib \in 1 .. Len(b) + 1 /\ ia \in Nat /\ ib \in Nat
        /\ out \in Seq(Ivl) /\ from \in Bound
        /\ fun \in {"intersect", "union", "setdiff"}
        /\ ~InA \/ ~InB
    <2>1. LoopTypes
      BY DEF IntervalInv
    <2>2. ia \in 1 .. Len(a) + 1 /\ ib \in 1 .. Len(b) + 1 /\ (~InA \/ ~InB) /\ fun \in {"intersect", "union", "setdiff"}
      BY <1>1, <2>1 DEF LoopTypes
    <2> QED
      BY <2>1, <2>2, Currents
  <1>3. InA' = InA /\ A' = A /\ InB' = InB
    BY <1>1 DEF InA, A, InB
  <1>4. \A p : (Exact(p)' <=> Exact(p)) /\ (InEither(p)' <=> InEither(p))
    BY <1>1 DEF Exact, AllClosed, InEither
  <1>5. (~InA => \A p : ~Holds(a, ia, p)) /\ (~InB => \A p : ~Holds(b, ib, p))
    BY <1>2, HoldsNothing DEF InA, InB
  <1>6. t \in Seq(Ivl) => out' \in Seq(Ivl) /\ \A p : Holds(out', 1, p) <=> Holds(out, 1, p) \/ Holds(t, 1, p)
    <2> HIDE DEF t
    <2> QED
      BY <1>1, <1>2, ConcatProperties, HoldsJoined
  <1>7. out' \in Seq(Ivl) => LoopTypes'
    BY <1>1, <1>2, <1>3 DEF LoopTypes
  <1>8. CASE fun = "intersect"
    <2>1. t = <<>>
      BY <1>8
    <2>2. out' = out
      BY <1>1, <1>2, <2>1, ConcatEmptySeq
    <2>3. MeetOK' <=> MeetOK
      BY <1>1, <2>2 DEF MeetOK
    <2> QED
      BY <1>1, <1>2, <1>7, <1>8, <2>2, <2>3 DEF IntervalInv
  <1>9. CASE fun = "union"
    <2> DEFINE u == SubSeq(a, ia, Len(a))
               v == SubSeq(b, ib, Len(b))
    <2>1. t = u \o v
      BY <1>9, Zenon
    <2>2. /\ u \in Seq(Ivl) /\ v \in Seq(Ivl)
          /\ \A p : (Holds(u, 1, p) <=> Holds(a, ia, p)) /\ (Holds(v, 1, p) <=> Holds(b, ib, p))
      BY <1>2, HoldsRest
    <2> HIDE DEF u, v, t
    <2>3. t \in Seq(Ivl) /\ \A p : Holds(t, 1, p) <=> Holds(u, 1, p) \/ Holds(v, 1, p)
      BY <2>1, <2>2, ConcatProperties, HoldsJoined
    <2>4. \A p : Holds(out', 1, p) <=> LeftOver(p)
      BY <1>6, <2>2, <2>3 DEF LeftOver
    <2>5. Parted(a) /\ Parted(b) => JoinRest
      BY <1>1, <1>9 DEF IntervalInv, JoinOK
    <2>6. Parted(a) /\ Parted(b) => JoinDone'
      BY <1>4, <2>4, <2>5 DEF JoinRest, JoinDone
    <2>7. JoinOK'
      BY <1>1, <2>6 DEF JoinOK
    <2> QED
      BY <1>1, <1>6, <1>7, <1>9, <2>3, <2>7 DEF IntervalInv
  <1>10. CASE fun = "setdiff"
    <2>1. t \in Seq(Ivl) /\ \A p : Holds(t, 1, p) <=> Remains(p)
      <3>1. CASE InA
        <4> DEFINE x == Built(from, End(A))
                   u == SubSeq(a, ia + 1, Len(a))
        <4>1. t = <<x>> \o u
          BY <1>10, <3>1
        <4>2. ia + 1 \in 1 .. Len(a) + 1 /\ A \in Ivl
          BY <1>2, <3>1, Currents DEF InA
        <4>3. u \in Seq(Ivl) /\ \A p : Holds(u, 1, p) <=> Holds(a, ia + 1, p)
          BY <1>2, <4>2, HoldsRest
        <4>4. /\ Append(<<>>, x) \in Seq(Ivl)
              /\ \A p : Holds(Append(<<>>, x), 1, p) <=> WithinBounds(from, End(A), p)
          <5>1. End(A) \in Bound /\ <<>> \in Seq(Ivl)
            BY <4>2, BoundsOf, EmptySeq
          <5>2. \A p : ~Holds(<<>>, 1, p)
            <6>1. Len(<<>>) = 0 /\ 1 .. 0 = {}
              OBVIOUS
            <6> QED
              BY <6>1 DEF Holds
          <5> QED
            BY <1>2, <5>1, <5>2, HoldsAdded DEF WithinBounds
        <4>5. Append(<<>>, x) = <<x>>
          OBVIOUS
        <4> HIDE DEF t, x, u
        <4>6. t \in Seq(Ivl) /\ \A p : Holds(t, 1, p) <=> Holds(<<x>>, 1, p) \/ Holds(u, 1, p)
          BY <4>1, <4>3, <4>4, <4>5, ConcatProperties, HoldsJoined
        <4> QED
          BY <1>1, <3>1, <4>3, <4>4, <4>5, <4>6 DEF Remains
      <3>2. CASE ~InA
        <4>1. t = <<>>
          BY <1>10, <3>2
        <4>2. \A p : ~Holds(<<>>, 1, p)
          <5>1. Len(<<>>) = 0 /\ 1 .. 0 = {}
            OBVIOUS
          <5> QED
            BY <5>1 DEF Holds
        <4>3. <<>> \in Seq(Ivl)
          BY EmptySeq
        <4> HIDE DEF t
        <4> QED
          BY <3>2, <4>1, <4>2, <4>3 DEF Remains
      <3> QED
        BY <3>1, <3>2
    <2> HIDE DEF t
    <2>2. \A p : ~Remains(p)' /\ ~Missing(p)'
      BY <1>1 DEF Remains, Missing
    <2>3. \A p : Missing(p) <=> Remains(p)
      BY <1>2, <1>5 DEF Missing, Remains
    <2>4. \A p : Holds(out', 1, p) <=> Holds(out, 1, p) \/ Missing(p)
      BY <1>6, <2>1, <2>3
    <2>5. HiOf(A)' = HiOf(A)
      BY <1>3 DEF HiOf
    <2>6. LessOK
      BY <1>10 DEF IntervalInv
    <2>7. LessOK'
      BY <1>1, <1>3, <1>4, <2>2, <2>4, <2>5, <2>6 DEF LessOK
    <2> QED
      BY <1>1, <1>6, <1>7, <1>10, <2>1, <2>7 DEF IntervalInv
  <1> QED
    BY <1>2, <1>8, <1>9, <1>10

LEMMA LoopStep == IntervalInv /\ [INext]_ivars => IntervalInv'
  <1> SUFFICES ASSUME IntervalInv, [INext]_ivars
               PROVE  IntervalInv'
    OBVIOUS
  <1>1. ASSUME NEW f \in {"intersect", "union", "setdiff"}, Enter(f)
        PROVE  IntervalInv'
    BY <1>1, EnterStep
  <1>2. CASE UNCHANGED ivars
    <2>1. UNCHANGED <<fun, a, b, ia, ib, from, out, run>>
      BY <1>2 DEF ivars
    <2>2. LoopTypes' <=> LoopTypes
      BY <2>1 DEF LoopTypes, InA, InB
    <2>3. MeetOK' <=> MeetOK
      BY <2>1 DEF MeetOK
    <2>4. /\ InA' = InA /\ A' = A /\ B' = B /\ HiOf(A)' = HiOf(A)
      BY <2>1 DEF InA, A, B, HiOf
    <2>5. \A p : Remains(p)' <=> Remains(p)
      BY <2>1, <2>4 DEF Remains
    <2>6. \A p : /\ Missing(p)' <=> Missing(p)
                 /\ Exact(p)' <=> Exact(p)
                 /\ InEither(p)' <=> InEither(p)
                 /\ LeftOver(p)' <=> LeftOver(p)
      BY <2>1, <2>5 DEF Missing, Exact, AllClosed, InEither, LeftOver
    <2>7. LessOK' <=> LessOK
      BY <2>1, <2>4, <2>6 DEF LessOK
    <2>8. (Owns(A, B)' <=> Owns(A, B)) /\ (Owns(B, A)' <=> Owns(B, A))
      BY <2>1, <2>4, <2>6 DEF Owns
    <2>9. AllClosed' <=> AllClosed
      BY <2>1 DEF AllClosed
    <2>10. (JoinLoop' <=> JoinLoop) /\ (JoinRest' <=> JoinRest) /\ (JoinDone' <=> JoinDone)
      BY <2>1, <2>4, <2>6, <2>8, <2>9 DEF JoinLoop, JoinRest, JoinDone
    <2>11. JoinOK' <=> JoinOK
      BY <2>1, <2>10 DEF JoinOK
    <2> QED
      BY <2>1, <2>2, <2>3, <2>7, <2>11 DEF IntervalInv
  <1> QED
    BY <1>1, <1>2, MeetKeeps, LessKeeps, JoinKeeps, LoopEndsKeeps, RestKeeps DEF INext

LEMMA CombinationFound == IntervalInv => CombinationIsRight
  <1> SUFFICES ASSUME IntervalInv, run = "done", fun \in {"union", "setdiff"}
               PROVE  /\ Inhabited(a) /\ Inhabited(b) /\ Disjoint(a) /\ Disjoint(b)
                           => Between(Cover(out)) = Between(Combined)
                      /\ Closed(a) /\ Closed(b) /\ Apart(a) /\ (fun = "union" => Apart(b))
                           => Cover(out) = Combined
    BY DEF CombinationIsRight
  <1>1. /\ LoopTypes /\ a \in Sorted /\ b \in Sorted /\ a \in Seq(Ivl) /\ b \in Seq(Ivl) /\ out \in Seq(Ivl)
    BY Currents DEF IntervalInv, LoopTypes
  <1>2. ASSUME NEW p
        PROVE  /\ p \in Cover(out) <=> Holds(out, 1, p)
               /\ p \in Combined <=> IF fun = "union" THEN InEither(p) ELSE Holds(a, 1, p) /\ ~Holds(b, 1, p)
               /\ p \in Cover(out) \/ p \in Combined => p \in Int
    <2>1. p \in Cover(out) <=> Holds(out, 1, p)
      BY CoverIs
    <2>2. p \in Combined <=> IF fun = "union" THEN InEither(p) ELSE Holds(a, 1, p) /\ ~Holds(b, 1, p)
      <3>1. CASE fun = "union"
        <4>1. Combined = Cover(a) \cup Cover(b)
          BY <3>1 DEF Combined
        <4> QED
          BY <3>1, <4>1, CoverIs DEF InEither
      <3>2. CASE fun = "setdiff"
        <4>1. Combined = Cover(a) \ Cover(b)
          BY <3>2 DEF Combined
        <4> QED
          BY <3>2, <4>1, CoverIs
      <3> QED
        BY <3>1, <3>2
    <2>3. p \in Cover(out) \/ p \in Combined => p \in Int
      BY <1>1, <2>1, <2>2, HoldsInts DEF InEither
    <2> QED
      BY <2>1, <2>2, <2>3
  <1>3. ASSUME Parted(a), Solid(b), fun = "union" => Separate(b), NEW p, Exact(p)
        PROVE  p \in Cover(out) <=> p \in Combined
    <2>1. CASE fun = "union"
      <3>1. JoinDone
        BY <1>3, <2>1 DEF IntervalInv, JoinOK, Parted
      <3> QED
        BY <1>2, <1>3, <2>1, <3>1 DEF JoinDone
    <2>2. CASE fun = "setdiff"
      <3>1. Holds(a, 1, p) /\ ~Holds(b, 1, p) <=> Holds(out, 1, p) \/ Missing(p)
        BY <1>3, <2>2 DEF IntervalInv, LessOK
      <3>2. ~Missing(p)
        BY DEF Missing, Remains
      <3> QED
        BY <1>2, <2>2, <3>1, <3>2
    <2> QED
      BY <2>1, <2>2
  <1>4. ASSUME Inhabited(a), Inhabited(b), Disjoint(a), Disjoint(b)
        PROVE  Between(Cover(out)) = Between(Combined)
    <2>1. Parted(a) /\ Parted(b)
      BY <1>1, <1>4, DisjointApart DEF Parted
    <2>2. ASSUME NEW p, p \in Int, p % 2 = 1
          PROVE  p \in Cover(out) <=> p \in Combined
      <3>1. Exact(p)
        BY <2>2, OddIs DEF Exact
      <3> QED
        BY <1>3, <2>1, <3>1 DEF Parted
    <2>3. \A p : p \in Between(Cover(out)) <=> p \in Cover(out) /\ p % 2 = 1
      BY DEF Between
    <2>4. \A p : p \in Between(Combined) <=> p \in Combined /\ p % 2 = 1
      BY DEF Between
    <2>5. \A p : p \in Between(Cover(out)) <=> p \in Between(Combined)
      BY <1>2, <2>2, <2>3, <2>4
    <2> QED
      BY <2>5
  <1>5. ASSUME Closed(a), Closed(b), Apart(a), fun = "union" => Apart(b)
        PROVE  Cover(out) = Combined
    <2>1. Parted(a) /\ Solid(b) /\ (fun = "union" => Separate(b))
      BY <1>1, <1>5, ClosedApart DEF Parted
    <2>2. \A p : p \in Int => Exact(p)
      BY <1>5 DEF Exact, AllClosed
    <2>3. \A p : p \in Cover(out) <=> p \in Combined
      BY <1>2, <1>3, <2>1, <2>2
    <2> QED
      BY <2>3
  <1> QED
    BY <1>4, <1>5

LEMMA IntersectionFound == IntervalInv => IntersectionIsWithin
  <1> SUFFICES ASSUME IntervalInv, run = "done", fun = "intersect"
               PROVE  /\ Cover(out) \subseteq Combined
                      /\ Len(b) < 2 => Between(Combined) \subseteq Cover(out)
    BY DEF IntersectionIsWithin
  <1>1. /\ LoopTypes /\ MeetOK /\ a \in Seq(Ivl) /\ b \in Seq(Ivl) /\ (~InA \/ ~InB)
        /\ Len(a) \in Nat /\ Len(b) \in Nat /\ ia \in Nat /\ ib \in Nat
    BY Currents DEF IntervalInv, LoopTypes
  <1>2. \A p : p \in Combined <=> Holds(a, 1, p) /\ Holds(b, 1, p)
    <2>1. Combined = Cover(a) \cap Cover(b)
      BY DEF Combined
    <2> QED
      BY <2>1, CoverIs
  <1>3. Cover(out) \subseteq Combined
    BY <1>1, <1>2, CoverIs DEF MeetOK
  <1>4. ASSUME Len(b) < 2, NEW p, p \in Between(Combined)
        PROVE  p \in Cover(out)
    <2>1. p \in Combined /\ p % 2 = 1
      BY <1>4 DEF Between
    <2>2. Holds(a, 1, p) /\ Holds(b, 1, p) /\ p \in Int
      BY <1>1, <1>2, <2>1, HoldsInts
    <2>3. IsOdd(p)
      BY <2>1, <2>2, OddIs
    <2>4. ~(Holds(a, ia, p) /\ Holds(b, ib, p))
      BY <1>1, HoldsNothing DEF InA, InB
    <2> QED
      BY <1>1, <1>4, <2>2, <2>3, <2>4, CoverIs DEF MeetOK
  <1> QED
    BY <1>3, <1>4

\* Union and difference of two vectors of disjoint intervals cover what lies between two
\* times exactly when they should, and the times themselves too when all intervals are
\* closed and apart; intersect returns nothing that is not in both and, of one interval,
\* all of it (vector_set_time.hpp).
THEOREM IntervalSetsFound == ISpec => []IntervalSetsAreRight
  <1>1. IntervalInv => IntervalSetsAreRight
    BY CombinationFound, IntersectionFound DEF IntervalSetsAreRight
  <1> QED
    BY <1>1, LoopInit, LoopStep, PTL DEF ISpec
=============================================================================
