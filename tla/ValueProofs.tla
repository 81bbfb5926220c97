----------------------------- MODULE ValueProofs -----------------------------
(***************************************************************************)
(* What is proved about values.  Sets of sorted vectors (SetOps), of any   *)
(* length: the one pass over two of them finds what it should.  Values     *)
(* shared by variables (CowPtr), for any variables and literals: counts    *)
(* are right after every statement, literals and mapped objects stay what  *)
(* they are, and a write reaches only what it is meant to reach.           *)
(***************************************************************************)
EXTENDS SetOps, CowPtr, SequenceTheorems, Induction, TLAPS

(***************************************************************************)
(* Vectors in order.                                                       *)
(***************************************************************************)
Ascending(s) == \A i, j \in 1 .. Len(s) : i <= j => s[i] <= s[j]
Rising(s) == \A i, j \in 1 .. Len(s) : i < j => s[i] < s[j]

\* What starts no later: all that the loops need of the order of intervals.
StartsBy(i, j) == i.s < j.s \/ (i.s = j.s /\ (i.sopen => j.sopen))
AscendingStarts(s) == \A i, j \in 1 .. Len(s) : i <= j => StartsBy(s[i], s[j])

IntervalRecord == [s : Time, e : Time, sopen : BOOLEAN, eopen : BOOLEAN]

LEMMA IntervalStarts ==
    ASSUME NEW i \in IntervalRecord, NEW j \in IntervalRecord
    PROVE  /\ interval_lt(i, j) => StartsBy(i, j)
           /\ ~interval_lt(j, i) => StartsBy(i, j)
  <1>1. i.s \in Nat /\ j.s \in Nat /\ i.sopen \in BOOLEAN /\ j.sopen \in BOOLEAN
    BY SetAssumption DEF IntervalRecord
  <1>2. start_lt(Start(i), Start(j)) <=> (i.s < j.s \/ (i.s = j.s /\ ~i.sopen /\ j.sopen))
    BY DEF start_lt, Start
  <1>3. start_lt(Start(j), Start(i)) <=> (j.s < i.s \/ (j.s = i.s /\ ~j.sopen /\ i.sopen))
    BY DEF start_lt, Start
  <1>4. Start(i) = Start(j) => i.s = j.s /\ i.sopen = j.sopen
    BY DEF Start
  <1>5. interval_lt(i, j) => StartsBy(i, j)
    BY <1>1, <1>2, <1>4 DEF interval_lt, StartsBy
  <1>6. ~interval_lt(j, i) => StartsBy(i, j)
    BY <1>1, <1>3 DEF interval_lt, StartsBy
  <1> QED
    BY <1>5, <1>6

LEMMA StartsByTransitive ==
    ASSUME NEW i \in IntervalRecord, NEW j \in IntervalRecord, NEW k \in IntervalRecord,
           StartsBy(i, j), StartsBy(j, k)
    PROVE  StartsBy(i, k)
  <1>1. i.s \in Nat /\ j.s \in Nat /\ k.s \in Nat
    BY SetAssumption DEF IntervalRecord
  <1> QED
    BY <1>1 DEF StartsBy

\* A vector is ordered when all its neighbours are.
LEMMA NeighboursAscend ==
    ASSUME NEW s \in Seq(Nat), \A i \in 1 .. Len(s) - 1 : s[i] <= s[i + 1]
    PROVE  Ascending(s)
  <1> DEFINE D == {d \in Nat : \A i \in 1 .. Len(s) : i + d <= Len(s) => s[i] <= s[i + d]}
  <1>0. Len(s) \in Nat /\ \A i \in 1 .. Len(s) : s[i] \in Nat
    BY ElementOfSeq, LenProperties
  <1>1. 0 \in D
    BY <1>0
  <1>2. ASSUME NEW d \in Nat, d \in D
        PROVE  d + 1 \in D
    <2> SUFFICES ASSUME NEW i \in 1 .. Len(s), i + (d + 1) <= Len(s)
                 PROVE  s[i] <= s[i + (d + 1)]
      OBVIOUS
    <2>1. i + d \in 1 .. Len(s) - 1 /\ (i + d) + 1 = i + (d + 1) /\ i + (d + 1) \in 1 .. Len(s)
      BY <1>0
    <2>2. s[i] <= s[i + d]
      BY <1>2, <2>1
    <2>3. s[i + d] <= s[(i + d) + 1]
      BY <2>1
    <2> QED
      BY <1>0, <2>1, <2>2, <2>3
  <1>3. Nat \subseteq D
    <2> HIDE DEF D
    <2> QED
      BY <1>1, <1>2, SetInduction
  <1>4. ASSUME NEW i \in 1 .. Len(s), NEW j \in 1 .. Len(s), i <= j
        PROVE  s[i] <= s[j]
    <2>1. j - i \in Nat /\ i + (j - i) = j
      BY <1>0, <1>4
    <2>2. j - i \in D
      BY <1>3, <2>1
    <2> QED
      BY <2>1, <2>2
  <1> QED
    BY <1>4 DEF Ascending

LEMMA NeighboursRise ==
    ASSUME NEW s \in Seq(Nat), \A i \in 1 .. Len(s) - 1 : s[i] < s[i + 1]
    PROVE  Ascending(s) /\ Rising(s)
  <1>0. Len(s) \in Nat /\ \A i \in 1 .. Len(s) : s[i] \in Nat
    BY ElementOfSeq, LenProperties
  <1>1. Ascending(s)
    BY <1>0, NeighboursAscend
  <1>2. ASSUME NEW i \in 1 .. Len(s), NEW j \in 1 .. Len(s), i < j
        PROVE  s[i] < s[j]
    <2>1. i \in 1 .. Len(s) - 1 /\ i + 1 \in 1 .. Len(s) /\ i + 1 <= j
      BY <1>0, <1>2
    <2>2. s[i] < s[i + 1]
      BY <2>1
    <2>3. s[i + 1] <= s[j]
      BY <1>1, <2>1 DEF Ascending
    <2>4. s[i] \in Nat /\ s[i + 1] \in Nat /\ s[j] \in Nat
      BY <1>0, <2>1
    <2> QED
      BY <2>2, <2>3, <2>4
  <1> QED
    BY <1>1, <1>2 DEF Rising

LEMMA NeighboursStart ==
    ASSUME NEW s \in Seq(IntervalRecord), \A i \in 1 .. Len(s) - 1 : StartsBy(s[i], s[i + 1])
    PROVE  AscendingStarts(s)
  <1> DEFINE D == {d \in Nat : \A i \in 1 .. Len(s) : i + d <= Len(s) => StartsBy(s[i], s[i + d])}
  <1>0. Len(s) \in Nat /\ \A i \in 1 .. Len(s) : s[i] \in IntervalRecord
    BY ElementOfSeq, LenProperties
  <1>1. 0 \in D
    BY <1>0 DEF StartsBy
  <1>2. ASSUME NEW d \in Nat, d \in D
        PROVE  d + 1 \in D
    <2> SUFFICES ASSUME NEW i \in 1 .. Len(s), i + (d + 1) <= Len(s)
                 PROVE  StartsBy(s[i], s[i + (d + 1)])
      OBVIOUS
    <2>1. i + d \in 1 .. Len(s) - 1 /\ (i + d) + 1 = i + (d + 1) /\ i + (d + 1) \in 1 .. Len(s)
          /\ i + d \in 1 .. Len(s)
      BY <1>0
    <2>2. StartsBy(s[i], s[i + d])
      BY <1>2, <2>1
    <2>3. StartsBy(s[i + d], s[i + (d + 1)])
      BY <2>1
    <2>4. s[i] \in IntervalRecord /\ s[i + d] \in IntervalRecord /\ s[i + (d + 1)] \in IntervalRecord
      BY <1>0, <2>1
    <2> QED
      BY <2>2, <2>3, <2>4, StartsByTransitive
  <1>3. Nat \subseteq D
    <2> HIDE DEF D
    <2> QED
      BY <1>1, <1>2, SetInduction
  <1>4. ASSUME NEW i \in 1 .. Len(s), NEW j \in 1 .. Len(s), i <= j
        PROVE  StartsBy(s[i], s[j])
    <2>1. j - i \in Nat /\ i + (j - i) = j
      BY <1>0, <1>4
    <2>2. j - i \in D
      BY <1>3, <2>1
    <2> QED
      BY <2>1, <2>2
  <1> QED
    BY <1>4 DEF AscendingStarts

(***************************************************************************)
(* The vectors the loops work on.                                          *)
(***************************************************************************)
LEMMA SeqOfFunction ==
    ASSUME NEW S, NEW n \in Nat, NEW f \in [1 .. n -> S]
    PROVE  f \in Seq(S) /\ Len(f) = n
  <1>1. f \in Seq(S)
    BY SeqDef
  <1> QED
    BY <1>1, LenProperties

\* A sorted copy has the elements of its original, and no neighbours out of order.
LEMMA Permuted ==
    ASSUME NEW S, NEW s \in Seq(S), NEW p \in Bijection(1 .. Len(s), 1 .. Len(s)),
           NEW t, t = [i \in 1 .. Len(s) |-> s[p[i]]]
    PROVE  t \in Seq(S) /\ Len(t) = Len(s) /\ Elems(t) = Elems(s)
  <1>0. /\ Len(s) \in Nat /\ \A i \in 1 .. Len(s) : s[i] \in S
        /\ p \in [1 .. Len(s) -> 1 .. Len(s)]
        /\ \A k \in 1 .. Len(s) : \E i \in 1 .. Len(s) : p[i] = k
    BY ElementOfSeq, LenProperties DEF Bijection, Injection, Surjection
  <1>1. t \in [1 .. Len(s) -> S]
    BY <1>0
  <1>2. t \in Seq(S) /\ Len(t) = Len(s)
    BY <1>0, <1>1, SeqOfFunction
  <1>3. Elems(t) = Elems(s)
    <2>1. Elems(t) = {t[i] : i \in 1 .. Len(s)}
      BY <1>2 DEF Elems
    <2>2. \A i \in 1 .. Len(s) : t[i] = s[p[i]] /\ p[i] \in 1 .. Len(s)
      BY <1>0
    <2>3. Elems(t) \subseteq Elems(s)
      BY <2>1, <2>2 DEF Elems
    <2>4. ASSUME NEW k \in 1 .. Len(s) PROVE s[k] \in Elems(t)
      BY <1>0, <2>1, <2>2
    <2> QED
      BY <2>3, <2>4 DEF Elems
  <1> QED
    BY <1>2, <1>3

LEMMA FirstSorted ==
    ASSUME NEW s \in Seq(Time), NEW t \in FirstCopies(s)
    PROVE  /\ t \in Seq(Time) /\ Elems(t) = Elems(s) /\ Ascending(t)
           /\ Below(s, num_lt) => t = s /\ Rising(t)
  <1>0. Len(s) \in Nat /\ s \in Seq(Nat) /\ \A i \in 1 .. Len(s) : s[i] \in Nat
    BY SetAssumption, SeqMonotonic, ElementOfSeq, LenProperties
  <1>1. CASE Below(s, num_lt)
    <2>1. t = s
      BY <1>1 DEF FirstCopies, Copies
    <2>2. \A i \in 1 .. Len(s) - 1 : s[i] < s[i + 1]
      BY <1>1 DEF Below, num_lt
    <2> QED
      BY <1>0, <2>1, <2>2, NeighboursRise
  <1>2. CASE ~Below(s, num_lt)
    <2>1. PICK p \in Bijection(1 .. Len(s), 1 .. Len(s)) :
             /\ t = [i \in 1 .. Len(s) |-> s[p[i]]]
             /\ \A i \in 1 .. Len(t) - 1 : ~num_lt(t[i + 1], t[i])
      BY <1>2 DEF FirstCopies, Copies
    <2>2. t \in Seq(Time) /\ Len(t) = Len(s) /\ Elems(t) = Elems(s)
      BY <2>1, Permuted
    <2>3. t \in Seq(Nat) /\ \A i \in 1 .. Len(t) : t[i] \in Nat
      BY <2>2, SetAssumption, SeqMonotonic, ElementOfSeq
    <2>4. ASSUME NEW i \in 1 .. Len(t) - 1
          PROVE  t[i] <= t[i + 1]
      <3>1. i \in 1 .. Len(t) /\ i + 1 \in 1 .. Len(t)
        BY <1>0, <2>2
      <3>2. ~(t[i + 1] < t[i])
        BY <2>1 DEF num_lt
      <3> QED
        BY <2>3, <3>1, <3>2
    <2> QED
      BY <1>2, <2>2, <2>3, <2>4, NeighboursAscend
  <1> QED
    BY <1>1, <1>2

LEMMA SecondSorted ==
    ASSUME NEW s \in Seq(IntervalRecord), NEW t \in SecondCopies(s)
    PROVE  /\ t \in Seq(IntervalRecord) /\ Elems(t) = Elems(s) /\ AscendingStarts(t)
           /\ Below(s, interval_lt) => t = s
  <1>0. Len(s) \in Nat /\ \A i \in 1 .. Len(s) : s[i] \in IntervalRecord
    BY ElementOfSeq, LenProperties
  <1>1. CASE Below(s, interval_lt)
    <2>1. t = s
      BY <1>1 DEF SecondCopies, Copies
    <2>2. ASSUME NEW i \in 1 .. Len(s) - 1
          PROVE  StartsBy(s[i], s[i + 1])
      <3>1. i \in 1 .. Len(s) /\ i + 1 \in 1 .. Len(s)
        BY <1>0
      <3>2. interval_lt(s[i], s[i + 1])
        BY <1>1 DEF Below
      <3> QED
        BY <1>0, <3>1, <3>2, IntervalStarts
    <2> QED
      BY <2>1, <2>2, NeighboursStart
  <1>2. CASE ~Below(s, interval_lt)
    <2>1. PICK p \in Bijection(1 .. Len(s), 1 .. Len(s)) :
             /\ t = [i \in 1 .. Len(s) |-> s[p[i]]]
             /\ \A i \in 1 .. Len(t) - 1 : ~interval_lt(t[i + 1], t[i])
      BY <1>2 DEF SecondCopies, Copies
    <2>2. t \in Seq(IntervalRecord) /\ Len(t) = Len(s) /\ Elems(t) = Elems(s)
      BY <2>1, Permuted
    <2>3. \A i \in 1 .. Len(t) : t[i] \in IntervalRecord
      BY <2>2, ElementOfSeq
    <2>4. ASSUME NEW i \in 1 .. Len(t) - 1
          PROVE  StartsBy(t[i], t[i + 1])
      <3>1. i \in 1 .. Len(t) /\ i + 1 \in 1 .. Len(t)
        BY <1>0, <2>2
      <3>2. ~interval_lt(t[i + 1], t[i])
        BY <2>1
      <3> QED
        BY <2>3, <3>1, <3>2, IntervalStarts
    <2> QED
      BY <1>2, <2>2, <2>4, NeighboursStart
  <1> QED
    BY <1>1, <1>2

\* Scalars, as intervals, rise when their values do.
AllScalar(s) == \A i \in 1 .. Len(s) : s[i].s = s[i].e /\ ~s[i].sopen /\ ~s[i].eopen
Starts(s) == [j \in 1 .. Len(s) |-> s[j].s]

LEMMA StartsAscend ==
    ASSUME NEW s \in Seq(IntervalRecord), AscendingStarts(s)
    PROVE  Starts(s) \in Seq(Time) /\ Len(Starts(s)) = Len(s) /\ Ascending(Starts(s))
  <1>0. Len(s) \in Nat /\ \A i \in 1 .. Len(s) : s[i] \in IntervalRecord
    BY ElementOfSeq, LenProperties
  <1>1. \A i \in 1 .. Len(s) : s[i].s \in Time /\ s[i].s \in Nat
    BY <1>0, SetAssumption DEF IntervalRecord
  <1>2. Starts(s) \in [1 .. Len(s) -> Time]
    BY <1>1 DEF Starts
  <1>3. Starts(s) \in Seq(Time) /\ Len(Starts(s)) = Len(s)
    BY <1>0, <1>2, SeqOfFunction
  <1>4. Ascending(Starts(s))
    <2> SUFFICES ASSUME NEW i \in 1 .. Len(s), NEW j \in 1 .. Len(s), i <= j
                 PROVE  Starts(s)[i] <= Starts(s)[j]
      BY <1>3 DEF Ascending
    <2>1. StartsBy(s[i], s[j])
      BY DEF AscendingStarts
    <2>2. s[i].s <= s[j].s
      BY <1>1, <2>1 DEF StartsBy
    <2> QED
      BY <2>2 DEF Starts
  <1> QED
    BY <1>3, <1>4

LEMMA ScalarsRise ==
    ASSUME NEW s \in Seq(IntervalRecord), AllScalar(s), Below(s, interval_lt)
    PROVE  Rising(Starts(s))
  <1>0. Len(s) \in Nat /\ \A i \in 1 .. Len(s) : s[i] \in IntervalRecord
    BY ElementOfSeq, LenProperties
  <1>1. \A i \in 1 .. Len(s) : s[i].s \in Nat
    BY <1>0, SetAssumption DEF IntervalRecord
  <1>2. Starts(s) \in [1 .. Len(s) -> Nat]
    BY <1>1 DEF Starts
  <1>3. Starts(s) \in Seq(Nat) /\ Len(Starts(s)) = Len(s)
    BY <1>0, <1>2, SeqOfFunction
  <1>4. ASSUME NEW i \in 1 .. Len(s) - 1
        PROVE  Starts(s)[i] < Starts(s)[i + 1]
    <2>1. i \in 1 .. Len(s) /\ i + 1 \in 1 .. Len(s)
      BY <1>0
    <2>2. interval_lt(s[i], s[i + 1])
      BY DEF Below
    <2>3. ~s[i].sopen /\ ~s[i + 1].sopen /\ ~s[i].eopen /\ ~s[i + 1].eopen
          /\ s[i].s = s[i].e /\ s[i + 1].s = s[i + 1].e
      BY <2>1 DEF AllScalar
    <2>4. s[i].s < s[i + 1].s
      BY <2>2, <2>3 DEF interval_lt, start_lt, end_lt, Start, End
    <2> QED
      BY <2>1, <2>4 DEF Starts
  <1> QED
    BY <1>3, <1>4, NeighboursRise

(***************************************************************************)
(* What a loop has gathered: the elements of s at those of the positions Q *)
(* that come before a.                                                     *)
(***************************************************************************)
At(s, Q, a) == {s[k] : k \in Q \cap 1 .. a - 1}
All(s) == 1 .. Len(s)

LEMMA AtTaken ==
    ASSUME NEW s, NEW Q \in SUBSET Nat, NEW a \in Nat \ {0}, a \in Q
    PROVE  At(s, Q, a + 1) = At(s, Q, a) \cup {s[a]}
  <1>1. 1 .. (a + 1) - 1 = (1 .. a - 1) \cup {a}
    OBVIOUS
  <1> QED
    BY <1>1 DEF At

LEMMA AtLeft ==
    ASSUME NEW s, NEW Q \in SUBSET Nat, NEW a \in Nat \ {0}, a \notin Q
    PROVE  At(s, Q, a + 1) = At(s, Q, a)
  <1>1. 1 .. (a + 1) - 1 = (1 .. a - 1) \cup {a}
    OBVIOUS
  <1> QED
    BY <1>1 DEF At

LEMMA UpToNext ==
    ASSUME NEW Q \in SUBSET Nat, NEW a \in Nat \ {0}
    PROVE  /\ a \in Q => Q \cap 1 .. a = (Q \cap 1 .. a - 1) \cup {a}
           /\ a \notin Q => Q \cap 1 .. a = Q \cap 1 .. a - 1
  <1>1. 1 .. a = (1 .. a - 1) \cup {a}
    OBVIOUS
  <1> QED
    BY <1>1

LEMMA AtFirst ==
    ASSUME NEW s, NEW Q
    PROVE  At(s, Q, 1) = {} /\ Q \cap 1 .. 1 - 1 = {}
  <1>1. 1 .. 1 - 1 = {}
    OBVIOUS
  <1> QED
    BY <1>1 DEF At

LEMMA AtEnd ==
    ASSUME NEW s, Len(s) \in Nat
    PROVE  /\ At(s, All(s), Len(s) + 1) = Elems(s)
           /\ \A Q \in SUBSET All(s) : Q \cap 1 .. (Len(s) + 1) - 1 = Q
  <1>1. 1 .. (Len(s) + 1) - 1 = All(s)
    BY DEF All
  <1> QED
    BY <1>1 DEF At, All, Elems

\* One more element at the end.
LEMMA Appended ==
    ASSUME NEW S, NEW r \in Seq(S), NEW e \in S
    PROVE  /\ Append(r, e) \in Seq(S) /\ Len(Append(r, e)) = Len(r) + 1
           /\ \A i \in 1 .. Len(r) : Append(r, e)[i] = r[i]
           /\ Append(r, e)[Len(r) + 1] = e
           /\ Elems(Append(r, e)) = Elems(r) \cup {e}
  <1>1. /\ Append(r, e) \in Seq(S) /\ Len(Append(r, e)) = Len(r) + 1 /\ Len(r) \in Nat
        /\ \A i \in 1 .. Len(r) : Append(r, e)[i] = r[i]
        /\ Append(r, e)[Len(r) + 1] = e
    BY LenProperties, AppendProperties
  <1>2. 1 .. Len(r) + 1 = (1 .. Len(r)) \cup {Len(r) + 1}
    BY <1>1
  <1> QED
    BY <1>1, <1>2 DEF Elems

EndsWith(n, r, e) ==
  /\ n \in Seq(Nat) /\ Len(n) = Len(r) + 1
  /\ \A i \in 1 .. Len(r) : n[i] = r[i]
  /\ n[Len(r) + 1] = e
  /\ Elems(n) = Elems(r) \cup {e}

LEMMA AppendedNumber ==
    ASSUME NEW r \in Seq(Nat), NEW e \in Nat
    PROVE  EndsWith(Append(r, e), r, e)
  BY Appended DEF EndsWith

LEMMA NothingIn == Elems(<<>>) = {} /\ Rising(<<>>) /\ Ascending(<<>>)
  BY DEF Elems, Rising, Ascending

LEMMA StillRising ==
    ASSUME NEW r \in Seq(Nat), NEW e \in Nat, Rising(r), \A v \in Elems(r) : v < e
    PROVE  Rising(Append(r, e)) /\ Elems(Append(r, e)) = Elems(r) \cup {e}
  <1>0. Len(r) \in Nat /\ \A i \in 1 .. Len(r) : r[i] \in Nat /\ r[i] < e
    BY ElementOfSeq, LenProperties DEF Elems
  <1>1. \A i, j \in 1 .. Len(r) : i < j => r[i] < r[j]
    BY DEF Rising
  <1>2. ASSUME NEW i \in 1 .. Len(r) + 1, NEW j \in 1 .. Len(r) + 1, i < j
        PROVE  Append(r, e)[i] < Append(r, e)[j]
    <2>1. i \in 1 .. Len(r) /\ (j \in 1 .. Len(r) \/ j = Len(r) + 1)
      BY <1>0, <1>2
    <2>2. CASE j \in 1 .. Len(r)
      BY <1>1, <1>2, <2>1, <2>2, Appended
    <2>3. CASE j = Len(r) + 1
      BY <1>0, <2>1, <2>3, Appended
    <2> QED
      BY <2>1, <2>2, <2>3
  <1> QED
    BY <1>2, Appended DEF Rising

LEMMA StillAscending ==
    ASSUME NEW r \in Seq(Nat), NEW e \in Nat, Ascending(r), \A v \in Elems(r) : v <= e
    PROVE  Ascending(Append(r, e)) /\ Elems(Append(r, e)) = Elems(r) \cup {e}
  <1>0. Len(r) \in Nat /\ \A i \in 1 .. Len(r) : r[i] \in Nat /\ r[i] <= e
    BY ElementOfSeq, LenProperties DEF Elems
  <1>1. \A i, j \in 1 .. Len(r) : i <= j => r[i] <= r[j]
    BY DEF Ascending
  <1>2. ASSUME NEW i \in 1 .. Len(r) + 1, NEW j \in 1 .. Len(r) + 1, i <= j
        PROVE  Append(r, e)[i] <= Append(r, e)[j]
    <2>1. (i \in 1 .. Len(r) /\ j \in 1 .. Len(r)) \/ j = Len(r) + 1
      BY <1>0, <1>2
    <2>2. CASE i \in 1 .. Len(r) /\ j \in 1 .. Len(r)
      BY <1>1, <1>2, <2>2, Appended
    <2>3. CASE j = Len(r) + 1
      <3>1. Append(r, e)[j] = e
        BY <2>3, Appended
      <3>2. Append(r, e)[i] <= e
        <4>1. i \in 1 .. Len(r) \/ i = Len(r) + 1
          BY <1>0
        <4> QED
          BY <1>0, <4>1, Appended
      <3> QED
        BY <3>1, <3>2
    <2> QED
      BY <2>1, <2>2, <2>3
  <1> QED
    BY <1>2, Appended DEF Ascending

\* The test against the last element of the result keeps repetitions out.
OneOf(r, e) == IF r = <<>> \/ e # r[Len(r)] THEN Append(r, e) ELSE r

LEMMA AddedOnce ==
    ASSUME NEW r \in Seq(Nat), NEW e \in Nat, Rising(r), \A v \in Elems(r) : v <= e
    PROVE  Rising(OneOf(r, e)) /\ Elems(OneOf(r, e)) = Elems(r) \cup {e}
  <1>0. Len(r) \in Nat /\ \A i \in 1 .. Len(r) : r[i] \in Nat /\ r[i] <= e
    BY ElementOfSeq, LenProperties DEF Elems
  <1>1. CASE r = <<>>
    <2>1. \A v \in Elems(r) : v < e
      BY <1>1, NothingIn
    <2> QED
      BY <1>1, <2>1, StillRising DEF OneOf
  <1>2. CASE r # <<>> /\ e # r[Len(r)]
    <2>1. Len(r) \in 1 .. Len(r)
      BY <1>0, <1>2, EmptySeq
    <2>2. ASSUME NEW i \in 1 .. Len(r) PROVE r[i] < e
      <3>1. r[i] <= r[Len(r)]
        <4>1. i < Len(r) => r[i] < r[Len(r)]
          BY <2>1 DEF Rising
        <4>2. i < Len(r) \/ i = Len(r)
          BY <1>0
        <4> QED
          BY <1>0, <2>1, <4>1, <4>2
      <3> QED
        BY <1>0, <1>2, <2>1, <3>1
    <2>3. \A v \in Elems(r) : v < e
      BY <2>2 DEF Elems
    <2> QED
      BY <1>2, <2>3, StillRising DEF OneOf
  <1>3. CASE r # <<>> /\ e = r[Len(r)]
    <2>1. Len(r) \in 1 .. Len(r)
      BY <1>0, <1>3, EmptySeq
    <2>2. e \in Elems(r)
      BY <1>3, <2>1 DEF Elems
    <2> QED
      BY <1>3, <2>2 DEF OneOf
  <1> QED
    BY <1>1, <1>2, <1>3

(***************************************************************************)
(* Intersection and difference.  The intervals that were left behind ended *)
(* before every element that is still to come (Skipped), so that an element*)
(* which the current one does not hold is held by none.                    *)
(***************************************************************************)
Sorted(A, B) ==
  /\ A \in Seq(Time) /\ Ascending(A)
  /\ B \in Seq(IntervalRecord) /\ AscendingStarts(B)

HeldAt(A, B) == {k \in All(A) : \E j \in 1 .. Len(B) : Within(A[k], B[j])}
FreeAt(A, B) == All(A) \ HeldAt(A, B)
Skipped(A, B, a, b) == \A k \in a .. Len(A), j \in 1 .. b - 1 : time_gt(A[k], B[j])

LEMMA SortedTypes ==
    ASSUME NEW A, NEW B, Sorted(A, B)
    PROVE  /\ Len(A) \in Nat /\ Len(B) \in Nat
           /\ \A k \in 1 .. Len(A) : A[k] \in Time /\ A[k] \in Nat
           /\ \A j \in 1 .. Len(B) : B[j] \in IntervalRecord /\ B[j].s \in Nat /\ B[j].e \in Nat
  <1>1. \A k \in 1 .. Len(A) : A[k] \in Time
    BY ElementOfSeq DEF Sorted
  <1>2. \A j \in 1 .. Len(B) : B[j] \in IntervalRecord
    BY ElementOfSeq DEF Sorted
  <1>3. Len(A) \in Nat /\ Len(B) \in Nat
    BY LenProperties DEF Sorted
  <1> QED
    BY <1>1, <1>2, <1>3, SetAssumption DEF IntervalRecord

LEMMA IsHeld ==
    ASSUME NEW A, NEW B, NEW a \in 1 .. Len(A), NEW b \in 1 .. Len(B),
           ~time_lt(A[a], B[b]), ~time_gt(A[a], B[b])
    PROVE  a \in HeldAt(A, B)
  BY DEF HeldAt, Within, All

LEMMA IsFree ==
    ASSUME NEW A, NEW B, Sorted(A, B), NEW a \in 1 .. Len(A), NEW b \in 1 .. Len(B) + 1,
           Skipped(A, B, a, b), b <= Len(B) => time_lt(A[a], B[b])
    PROVE  a \notin HeldAt(A, B)
  <1>0. /\ Len(A) \in Nat /\ Len(B) \in Nat /\ A[a] \in Nat
        /\ \A j \in 1 .. Len(B) : B[j] \in IntervalRecord /\ B[j].s \in Nat /\ B[j].e \in Nat
    BY SortedTypes
  <1>1. ASSUME NEW j \in 1 .. Len(B)
        PROVE  ~Within(A[a], B[j])
    <2>1. CASE j < b
      <3>1. time_gt(A[a], B[j])
        BY <1>0, <2>1 DEF Skipped
      <3> QED
        BY <3>1 DEF Within
    <2>2. CASE b <= j
      <3>1. b \in 1 .. Len(B)
        BY <1>0, <2>2
      <3>2. time_lt(A[a], B[b])
        BY <3>1
      <3>3. StartsBy(B[b], B[j])
        BY <2>2, <3>1 DEF Sorted, AscendingStarts
      <3>4. time_lt(A[a], B[j])
        BY <1>0, <3>1, <3>2, <3>3 DEF time_lt, StartsBy
      <3> QED
        BY <3>4 DEF Within
    <2> QED
      BY <1>0, <2>1, <2>2
  <1> QED
    BY <1>1 DEF HeldAt

LEMMA SkipsOne ==
    ASSUME NEW A, NEW B, Sorted(A, B), NEW a \in 1 .. Len(A), NEW b \in 1 .. Len(B),
           Skipped(A, B, a, b), time_gt(A[a], B[b])
    PROVE  Skipped(A, B, a, b + 1)
  <1>0. /\ Len(A) \in Nat /\ Len(B) \in Nat /\ B[b].e \in Nat
        /\ \A k \in 1 .. Len(A) : A[k] \in Nat
    BY SortedTypes
  <1> SUFFICES ASSUME NEW k \in a .. Len(A), NEW j \in 1 .. b
               PROVE  time_gt(A[k], B[j])
    BY DEF Skipped
  <1>1. CASE j = b
    <2>1. A[a] <= A[k] /\ A[a] \in Nat /\ A[k] \in Nat
      BY <1>0 DEF Sorted, Ascending
    <2> QED
      BY <1>0, <1>1, <2>1 DEF time_gt
  <1>2. CASE j \in 1 .. b - 1
    BY <1>2 DEF Skipped
  <1> QED
    BY <1>1, <1>2

LEMMA FewerLeft ==
    ASSUME NEW A, NEW B, NEW a \in Nat, NEW b, Skipped(A, B, a, b), Len(A) \in Nat
    PROVE  Skipped(A, B, a + 1, b)
  BY DEF Skipped

\* When one of the vectors is at its end, all that is held was found.
LEMMA AllHeldFound ==
    ASSUME NEW A, NEW B, Sorted(A, B), NEW a \in 1 .. Len(A) + 1, NEW b \in 1 .. Len(B) + 1,
           Skipped(A, B, a, b), a = Len(A) + 1 \/ b = Len(B) + 1
    PROVE  /\ HeldAt(A, B) \cap 1 .. a - 1 = HeldAt(A, B)
           /\ At(A, HeldAt(A, B), a) = {A[k] : k \in HeldAt(A, B)}
  <1>0. Len(A) \in Nat /\ Len(B) \in Nat
    BY SortedTypes
  <1>1. ASSUME NEW k \in HeldAt(A, B)
        PROVE  k \in 1 .. a - 1
    <2>1. k \in 1 .. Len(A)
      BY DEF HeldAt, All
    <2>2. ASSUME a <= k
          PROVE  FALSE
      <3>1. b = Len(B) + 1
        BY <1>0, <2>1, <2>2
      <3>2. Skipped(A, B, k, b)
        BY <1>0, <2>1, <2>2 DEF Skipped
      <3>3. ~(b <= Len(B))
        BY <1>0, <3>1
      <3> QED
        BY <2>1, <3>2, <3>3, IsFree
    <2> QED
      BY <1>0, <2>1, <2>2
  <1> QED
    BY <1>1 DEF At

IntersectOK(A, B, a, b, r) ==
  /\ Skipped(A, B, a, b)
  /\ r \in Seq(Nat) /\ Rising(r) /\ Elems(r) = At(A, HeldAt(A, B), a)

LEMMA IntersectTurn ==
    ASSUME NEW A, NEW B, Sorted(A, B), NEW a \in 1 .. Len(A), NEW b \in 1 .. Len(B), NEW r,
           IntersectOK(A, B, a, b, r)
    PROVE  /\ time_lt(A[a], B[b]) => IntersectOK(A, B, a + 1, b, r)
           /\ time_gt(A[a], B[b]) => IntersectOK(A, B, a, b + 1, r)
           /\ ~time_lt(A[a], B[b]) /\ ~time_gt(A[a], B[b])
                => IntersectOK(A, B, a + 1, b, OneOf(r, A[a]))
  <1>0. Len(A) \in Nat /\ Len(B) \in Nat /\ A[a] \in Nat /\ a \in Nat \ {0} /\ b \in 1 .. Len(B) + 1
        /\ (\A k \in 1 .. Len(A) : A[k] \in Nat) /\ HeldAt(A, B) \in SUBSET Nat
    BY SortedTypes DEF HeldAt, All
  <1>1. Skipped(A, B, a, b) /\ Skipped(A, B, a + 1, b)
    BY <1>0, FewerLeft DEF IntersectOK
  <1>2. ASSUME time_lt(A[a], B[b])
        PROVE  IntersectOK(A, B, a + 1, b, r)
    <2>1. a \notin HeldAt(A, B)
      BY <1>0, <1>1, <1>2, IsFree
    <2>2. At(A, HeldAt(A, B), a + 1) = At(A, HeldAt(A, B), a)
      BY <1>0, <2>1, AtLeft, Zenon
    <2> QED
      BY <1>1, <2>2 DEF IntersectOK
  <1>3. ASSUME time_gt(A[a], B[b])
        PROVE  IntersectOK(A, B, a, b + 1, r)
    BY <1>1, <1>3, SkipsOne DEF IntersectOK
  <1>4. ASSUME ~time_lt(A[a], B[b]), ~time_gt(A[a], B[b])
        PROVE  IntersectOK(A, B, a + 1, b, OneOf(r, A[a]))
    <2>1. a \in HeldAt(A, B)
      BY <1>4, IsHeld
    <2>2. \A v \in Elems(r) : v <= A[a]
      <3>1. ASSUME NEW k \in HeldAt(A, B) \cap 1 .. a - 1
            PROVE  A[k] <= A[a]
        <4>1. k \in 1 .. Len(A) /\ k <= a
          BY <1>0
        <4> QED
          BY <4>1 DEF Sorted, Ascending
      <3> QED
        BY <3>1 DEF IntersectOK, At
    <2>3. /\ Rising(OneOf(r, A[a])) /\ Elems(OneOf(r, A[a])) = Elems(r) \cup {A[a]}
          /\ OneOf(r, A[a]) \in Seq(Nat)
      BY <1>0, <2>2, AddedOnce, Appended DEF IntersectOK, OneOf
    <2>4. At(A, HeldAt(A, B), a + 1) = At(A, HeldAt(A, B), a) \cup {A[a]}
      BY <1>0, <2>1, AtTaken, Zenon
    <2> QED
      BY <1>1, <2>3, <2>4 DEF IntersectOK
  <1> QED
    BY <1>2, <1>3, <1>4

SetdiffOK(A, B, a, b, r) ==
  /\ Skipped(A, B, a, b)
  /\ r \in Seq(Nat) /\ Ascending(r) /\ Elems(r) = At(A, FreeAt(A, B), a)

\* An element that no interval holds is added; it may be the last of the result again.
LEMMA SetdiffFree ==
    ASSUME NEW A, NEW B, Sorted(A, B), NEW a \in 1 .. Len(A), NEW b \in 1 .. Len(B) + 1, NEW r,
           SetdiffOK(A, B, a, b, r), b <= Len(B) => time_lt(A[a], B[b])
    PROVE  SetdiffOK(A, B, a + 1, b, Append(r, A[a]))
  <1>0. Len(A) \in Nat /\ Len(B) \in Nat /\ A[a] \in Nat /\ a \in Nat \ {0}
        /\ (\A k \in 1 .. Len(A) : A[k] \in Nat) /\ FreeAt(A, B) \in SUBSET Nat
    BY SortedTypes DEF FreeAt, All
  <1>1. Skipped(A, B, a, b) /\ Skipped(A, B, a + 1, b)
    BY <1>0, FewerLeft DEF SetdiffOK
  <1>2. a \notin HeldAt(A, B)
    BY <1>1, IsFree
  <1>3. a \in FreeAt(A, B)
    BY <1>2 DEF FreeAt, All
  <1>4. \A v \in Elems(r) : v <= A[a]
    <2>1. ASSUME NEW k \in FreeAt(A, B) \cap 1 .. a - 1
          PROVE  A[k] <= A[a]
      <3>1. k \in 1 .. Len(A) /\ k <= a
        BY <1>0
      <3> QED
        BY <3>1 DEF Sorted, Ascending
    <2> QED
      BY <2>1 DEF SetdiffOK, At
  <1>5. /\ Ascending(Append(r, A[a])) /\ Elems(Append(r, A[a])) = Elems(r) \cup {A[a]}
        /\ Append(r, A[a]) \in Seq(Nat)
    BY <1>0, <1>4, StillAscending, Appended DEF SetdiffOK
  <1>6. At(A, FreeAt(A, B), a + 1) = At(A, FreeAt(A, B), a) \cup {A[a]}
    BY <1>0, <1>3, AtTaken, Zenon
  <1> QED
    BY <1>1, <1>5, <1>6 DEF SetdiffOK

LEMMA SetdiffTurn ==
    ASSUME NEW A, NEW B, Sorted(A, B), NEW a \in 1 .. Len(A), NEW b \in 1 .. Len(B), NEW r,
           SetdiffOK(A, B, a, b, r)
    PROVE  /\ time_lt(A[a], B[b]) => SetdiffOK(A, B, a + 1, b, Append(r, A[a]))
           /\ time_gt(A[a], B[b]) => SetdiffOK(A, B, a, b + 1, r)
           /\ ~time_lt(A[a], B[b]) /\ ~time_gt(A[a], B[b]) => SetdiffOK(A, B, a + 1, b, r)
  <1>0. Len(A) \in Nat /\ Len(B) \in Nat /\ a \in Nat \ {0} /\ b \in 1 .. Len(B) + 1
        /\ FreeAt(A, B) \in SUBSET Nat
    BY SortedTypes DEF FreeAt, All
  <1>1. Skipped(A, B, a, b) /\ Skipped(A, B, a + 1, b)
    BY <1>0, FewerLeft DEF SetdiffOK
  <1>2. ASSUME time_lt(A[a], B[b])
        PROVE  SetdiffOK(A, B, a + 1, b, Append(r, A[a]))
    BY <1>0, <1>2, SetdiffFree
  <1>3. ASSUME time_gt(A[a], B[b])
        PROVE  SetdiffOK(A, B, a, b + 1, r)
    BY <1>1, <1>3, SkipsOne DEF SetdiffOK
  <1>4. ASSUME ~time_lt(A[a], B[b]), ~time_gt(A[a], B[b])
        PROVE  SetdiffOK(A, B, a + 1, b, r)
    <2>1. a \notin FreeAt(A, B)
      BY <1>4, IsHeld DEF FreeAt
    <2>2. At(A, FreeAt(A, B), a + 1) = At(A, FreeAt(A, B), a)
      BY <1>0, <2>1, AtLeft, Zenon
    <2> QED
      BY <1>1, <2>2 DEF SetdiffOK
  <1> QED
    BY <1>2, <1>3, <1>4

\* The indices of an intersection come in pairs that belong together.
PairOK(A, B, p, q) == p \in 1 .. Len(A) /\ q \in 1 .. Len(B) /\ Within(A[p], B[q])

IntersectIdxOK(A, B, a, b, r, r2) ==
  /\ Skipped(A, B, a, b)
  /\ r \in Seq(Nat) /\ r2 \in Seq(Nat) /\ Len(r) = Len(r2)
  /\ Elems(r) = HeldAt(A, B) \cap 1 .. a - 1
  /\ \A k \in 1 .. Len(r) : PairOK(A, B, r[k], r2[k])

LEMMA IntersectIdxTurn ==
    ASSUME NEW A, NEW B, Sorted(A, B), NEW a \in 1 .. Len(A), NEW b \in 1 .. Len(B), NEW r, NEW r2,
           IntersectIdxOK(A, B, a, b, r, r2)
    PROVE  /\ time_lt(A[a], B[b]) => IntersectIdxOK(A, B, a + 1, b, r, r2)
           /\ time_gt(A[a], B[b]) => IntersectIdxOK(A, B, a, b + 1, r, r2)
           /\ ~time_lt(A[a], B[b]) /\ ~time_gt(A[a], B[b])
                => IntersectIdxOK(A, B, a + 1, b, Append(r, a), Append(r2, b))
  <1>0. Len(A) \in Nat /\ Len(B) \in Nat /\ a \in Nat \ {0} /\ b \in 1 .. Len(B) + 1 /\ a \in Nat /\ b \in Nat
        /\ HeldAt(A, B) \in SUBSET Nat
    BY SortedTypes DEF HeldAt, All
  <1>1. Skipped(A, B, a, b) /\ Skipped(A, B, a + 1, b) /\ a + 1 - 1 = a
    BY <1>0, FewerLeft DEF IntersectIdxOK
  <1>2. ASSUME time_lt(A[a], B[b])
        PROVE  IntersectIdxOK(A, B, a + 1, b, r, r2)
    <2>1. a \notin HeldAt(A, B)
      BY <1>0, <1>1, <1>2, IsFree
    <2>2. HeldAt(A, B) \cap 1 .. a = HeldAt(A, B) \cap 1 .. a - 1
      BY <1>0, <2>1, UpToNext, Zenon
    <2> QED
      BY <1>1, <2>2 DEF IntersectIdxOK
  <1>3. ASSUME time_gt(A[a], B[b])
        PROVE  IntersectIdxOK(A, B, a, b + 1, r, r2)
    BY <1>1, <1>3, SkipsOne DEF IntersectIdxOK
  <1>4. ASSUME ~time_lt(A[a], B[b]), ~time_gt(A[a], B[b])
        PROVE  IntersectIdxOK(A, B, a + 1, b, Append(r, a), Append(r2, b))
    <2>1. a \in HeldAt(A, B)
      BY <1>4, IsHeld
    <2>2. HeldAt(A, B) \cap 1 .. a = (HeldAt(A, B) \cap 1 .. a - 1) \cup {a}
      BY <1>0, <2>1, UpToNext, Zenon
    <2>3. r \in Seq(Nat) /\ r2 \in Seq(Nat) /\ Len(r) = Len(r2) /\ Len(r) \in Nat
      BY LenProperties DEF IntersectIdxOK
    <2>4. EndsWith(Append(r, a), r, a)
      BY <1>0, <2>3, AppendedNumber
    <2>5. EndsWith(Append(r2, b), r2, b)
      BY <1>0, <2>3, AppendedNumber
    <2>6. ASSUME NEW k \in 1 .. Len(r) + 1
          PROVE  PairOK(A, B, Append(r, a)[k], Append(r2, b)[k])
      <3>1. CASE k = Len(r) + 1
        <4>1. PairOK(A, B, a, b)
          BY <1>4 DEF PairOK, Within
        <4> QED
          BY <2>3, <2>4, <2>5, <3>1, <4>1 DEF EndsWith
      <3>2. CASE k \in 1 .. Len(r)
        <4>1. Append(r, a)[k] = r[k] /\ Append(r2, b)[k] = r2[k]
          BY <2>3, <2>4, <2>5, <3>2 DEF EndsWith
        <4> QED
          BY <3>2, <4>1 DEF IntersectIdxOK
      <3> QED
        BY <2>3, <3>1, <3>2
    <2> QED
      BY <1>1, <2>2, <2>3, <2>4, <2>5, <2>6 DEF IntersectIdxOK, EndsWith
  <1> QED
    BY <1>2, <1>3, <1>4

(***************************************************************************)
(* Union of numbers A and S.  What one loop turn leaves behind in one of   *)
(* them was also left behind in the other, or comes before all that is     *)
(* still there (Behind), so that the result stays in order.                *)
(***************************************************************************)
Behind(A, S, a, b) ==
  \A j \in 1 .. b - 1 : \/ \E k \in 1 .. a - 1 : A[k] = S[j]
                        \/ \A k \in a .. Len(A) : S[j] < A[k]

Numbers2(A, S) == A \in Seq(Nat) /\ Ascending(A) /\ S \in Seq(Nat) /\ Ascending(S)

UnionOK(A, S, a, b, r) ==
  /\ Behind(A, S, a, b) /\ Behind(S, A, b, a)
  /\ r \in Seq(Nat) /\ Rising(r) /\ Elems(r) = At(A, All(A), a) \cup At(S, All(S), b)

LEMMA NumberTypes ==
    ASSUME NEW A, NEW S, Numbers2(A, S)
    PROVE  /\ Len(A) \in Nat /\ Len(S) \in Nat
           /\ \A k \in 1 .. Len(A) : A[k] \in Nat
           /\ \A j \in 1 .. Len(S) : S[j] \in Nat
           /\ \A i, k \in 1 .. Len(A) : i <= k => A[i] <= A[k]
           /\ \A i, j \in 1 .. Len(S) : i <= j => S[i] <= S[j]
           /\ All(A) \in SUBSET Nat /\ All(S) \in SUBSET Nat
  BY ElementOfSeq, LenProperties DEF Numbers2, Ascending, All

\* UnionOK is symmetric.
LEMMA UnionTurned ==
    ASSUME NEW A, NEW S, NEW a, NEW b, NEW r
    PROVE  /\ UnionOK(A, S, a, b, r) => UnionOK(S, A, b, a, r)
           /\ Numbers2(A, S) => Numbers2(S, A)
  BY DEF UnionOK, Numbers2

\* Leaving an element behind that comes before all that is left in the other vector.
LEMMA BehindNext ==
    ASSUME NEW A, NEW S, Numbers2(A, S), NEW a \in 1 .. Len(A), NEW b \in 1 .. Len(S) + 1,
           Behind(A, S, a, b), Behind(S, A, b, a), b <= Len(S) => A[a] < S[b]
    PROVE  Behind(A, S, a + 1, b) /\ Behind(S, A, b, a + 1)
  <1>0. /\ Len(A) \in Nat /\ Len(S) \in Nat
        /\ \A k \in 1 .. Len(A) : A[k] \in Nat
        /\ \A j \in 1 .. Len(S) : S[j] \in Nat
        /\ \A i, j \in 1 .. Len(S) : i <= j => S[i] <= S[j]
    BY NumberTypes
  <1>1. Behind(A, S, a + 1, b)
    <2> SUFFICES ASSUME NEW j \in 1 .. b - 1
                 PROVE  \/ \E k \in 1 .. (a + 1) - 1 : A[k] = S[j]
                        \/ \A k \in a + 1 .. Len(A) : S[j] < A[k]
      BY DEF Behind
    <2>1. \/ \E k \in 1 .. a - 1 : A[k] = S[j]
          \/ \A k \in a .. Len(A) : S[j] < A[k]
      BY DEF Behind
    <2>2. 1 .. a - 1 \subseteq 1 .. (a + 1) - 1 /\ a + 1 .. Len(A) \subseteq a .. Len(A)
      BY <1>0
    <2> QED
      BY <2>1, <2>2
  <1>2. Behind(S, A, b, a + 1)
    <2> SUFFICES ASSUME NEW j \in 1 .. (a + 1) - 1
                 PROVE  \/ \E k \in 1 .. b - 1 : S[k] = A[j]
                        \/ \A k \in b .. Len(S) : A[j] < S[k]
      BY DEF Behind
    <2>1. CASE j \in 1 .. a - 1
      BY <2>1 DEF Behind
    <2>2. CASE j = a
      <3>1. ASSUME NEW k \in b .. Len(S) PROVE A[j] < S[k]
        <4>1. b \in 1 .. Len(S) /\ k \in 1 .. Len(S) /\ b <= k /\ b <= Len(S)
          BY <1>0
        <4>2. A[a] < S[b] /\ S[b] <= S[k] /\ A[a] \in Nat /\ S[b] \in Nat /\ S[k] \in Nat
          BY <1>0, <4>1
        <4> QED
          BY <2>2, <4>2
      <3> QED
        BY <3>1
    <2> QED
      BY <2>1, <2>2
  <1> QED
    BY <1>1, <1>2

\* An element that both have is left behind in both.
LEMMA BehindBoth ==
    ASSUME NEW A, NEW S, Numbers2(A, S), NEW a \in 1 .. Len(A), NEW b \in 1 .. Len(S),
           Behind(A, S, a, b), A[a] = S[b]
    PROVE  Behind(A, S, a + 1, b + 1)
  <1>0. Len(A) \in Nat /\ Len(S) \in Nat
    BY NumberTypes
  <1> SUFFICES ASSUME NEW j \in 1 .. (b + 1) - 1
               PROVE  \/ \E k \in 1 .. (a + 1) - 1 : A[k] = S[j]
                      \/ \A k \in a + 1 .. Len(A) : S[j] < A[k]
    BY DEF Behind
  <1>1. CASE j = b
    <2>1. a \in 1 .. (a + 1) - 1
      BY <1>0
    <2> QED
      BY <1>1, <2>1
  <1>2. CASE j \in 1 .. b - 1
    <2>1. \/ \E k \in 1 .. a - 1 : A[k] = S[j]
          \/ \A k \in a .. Len(A) : S[j] < A[k]
      BY <1>2 DEF Behind
    <2>2. 1 .. a - 1 \subseteq 1 .. (a + 1) - 1 /\ a + 1 .. Len(A) \subseteq a .. Len(A)
      BY <1>0
    <2> QED
      BY <2>1, <2>2
  <1> QED
    BY <1>1, <1>2

\* What was found so far does not exceed an element that is not behind anything left.
LEMMA FoundBelow ==
    ASSUME NEW A, NEW S, Numbers2(A, S), NEW a \in 1 .. Len(A), NEW b \in 1 .. Len(S) + 1,
           Behind(A, S, a, b), NEW v \in At(A, All(A), a) \cup At(S, All(S), b)
    PROVE  v <= A[a] /\ v \in Nat /\ A[a] \in Nat
           /\ (a = 1 \/ A[a - 1] < A[a] => v < A[a])
  <1>0. /\ Len(A) \in Nat /\ Len(S) \in Nat /\ A[a] \in Nat
        /\ \A k \in 1 .. Len(A) : A[k] \in Nat
        /\ \A j \in 1 .. Len(S) : S[j] \in Nat
        /\ \A i, k \in 1 .. Len(A) : i <= k => A[i] <= A[k]
    BY NumberTypes
  <1>1. (\E k \in 1 .. a - 1 : v = A[k]) \/ (v < A[a] /\ v \in Nat)
    <2>1. CASE v \in At(A, All(A), a)
      BY <2>1 DEF At
    <2>2. CASE v \in At(S, All(S), b)
      <3>1. PICK j \in 1 .. b - 1 : v = S[j]
        BY <2>2 DEF At
      <3>2. S[j] \in Nat /\ a \in a .. Len(A)
        BY <1>0
      <3> QED
        BY <3>1, <3>2 DEF Behind
    <2> QED
      BY <2>1, <2>2
  <1>2. CASE v < A[a] /\ v \in Nat
    BY <1>0, <1>2
  <1>3. CASE \E k \in 1 .. a - 1 : v = A[k]
    <2>1. PICK k \in 1 .. a - 1 : v = A[k]
      BY <1>3
    <2>2. k \in 1 .. Len(A) /\ a - 1 \in 1 .. Len(A) /\ k <= a - 1 /\ a - 1 <= a /\ a # 1
      BY <1>0
    <2>3. A[k] <= A[a - 1] /\ A[a - 1] <= A[a] /\ A[k] \in Nat /\ A[a - 1] \in Nat
      BY <1>0, <2>2
    <2> QED
      BY <1>0, <2>1, <2>2, <2>3
  <1> QED
    BY <1>1, <1>2, <1>3

\* One turn: the element is added unless it is the last of the result already.
LEMMA UnionLess ==
    ASSUME NEW A, NEW S, Numbers2(A, S), NEW a \in 1 .. Len(A), NEW b \in 1 .. Len(S) + 1, NEW r,
           UnionOK(A, S, a, b, r), b <= Len(S) => A[a] < S[b]
    PROVE  UnionOK(A, S, a + 1, b, OneOf(r, A[a]))
  <1>0. /\ Len(A) \in Nat /\ Len(S) \in Nat /\ A[a] \in Nat /\ a \in Nat \ {0}
        /\ All(A) \in SUBSET Nat /\ a \in All(A)
    BY NumberTypes DEF All
  <1>1. Behind(A, S, a + 1, b) /\ Behind(S, A, b, a + 1)
    BY BehindNext DEF UnionOK
  <1>2. \A v \in Elems(r) : v <= A[a]
    BY FoundBelow DEF UnionOK
  <1>3. Rising(OneOf(r, A[a])) /\ Elems(OneOf(r, A[a])) = Elems(r) \cup {A[a]}
    BY <1>0, <1>2, AddedOnce DEF UnionOK
  <1>4. OneOf(r, A[a]) \in Seq(Nat)
    BY <1>0, Appended DEF UnionOK, OneOf
  <1>5. At(A, All(A), a + 1) = At(A, All(A), a) \cup {A[a]}
    BY <1>0, AtTaken, Zenon
  <1> QED
    BY <1>1, <1>3, <1>4, <1>5 DEF UnionOK

\* What is left of a vector: each element is compared with the one before it.
LEMMA UnionRest ==
    ASSUME NEW A, NEW S, Numbers2(A, S), NEW a \in 1 .. Len(A), NEW r,
           UnionOK(A, S, a, Len(S) + 1, r)
    PROVE  /\ a = 1 \/ A[a] # A[a - 1] => UnionOK(A, S, a + 1, Len(S) + 1, Append(r, A[a]))
           /\ a # 1 /\ A[a] = A[a - 1] => UnionOK(A, S, a + 1, Len(S) + 1, r)
  <1>0. /\ Len(A) \in Nat /\ Len(S) \in Nat /\ A[a] \in Nat /\ a \in Nat \ {0}
        /\ All(A) \in SUBSET Nat /\ a \in All(A) /\ Len(S) + 1 \in 1 .. Len(S) + 1
        /\ ~(Len(S) + 1 <= Len(S))
    BY NumberTypes DEF All
  <1>1. Behind(A, S, a + 1, Len(S) + 1) /\ Behind(S, A, Len(S) + 1, a + 1)
    BY <1>0, BehindNext DEF UnionOK
  <1>2. At(A, All(A), a + 1) = At(A, All(A), a) \cup {A[a]}
    BY <1>0, AtTaken, Zenon
  <1>3. a # 1 => a - 1 \in 1 .. Len(A) /\ a - 1 \in 1 .. a - 1 /\ a - 1 <= a
    BY <1>0
  <1>4. a # 1 => A[a - 1] <= A[a] /\ A[a - 1] \in Nat
    BY <1>0, <1>3, NumberTypes
  <1>5. ASSUME a = 1 \/ A[a] # A[a - 1]
        PROVE  UnionOK(A, S, a + 1, Len(S) + 1, Append(r, A[a]))
    <2>1. a = 1 \/ A[a - 1] < A[a]
      BY <1>0, <1>4, <1>5
    <2>2. \A v \in Elems(r) : v < A[a]
      BY <1>0, <2>1, FoundBelow DEF UnionOK
    <2>3. Rising(Append(r, A[a])) /\ Elems(Append(r, A[a])) = Elems(r) \cup {A[a]}
      BY <1>0, <2>2, StillRising DEF UnionOK
    <2>4. Append(r, A[a]) \in Seq(Nat)
      BY <1>0, Appended DEF UnionOK
    <2> QED
      BY <1>1, <1>2, <2>3, <2>4 DEF UnionOK
  <1>6. ASSUME a # 1, A[a] = A[a - 1]
        PROVE  UnionOK(A, S, a + 1, Len(S) + 1, r)
    <2>1. A[a] \in At(A, All(A), a)
      BY <1>3, <1>6 DEF At, All
    <2>2. Elems(r) = At(A, All(A), a + 1) \cup At(S, All(S), Len(S) + 1)
      BY <1>2, <2>1 DEF UnionOK
    <2> QED
      BY <1>1, <2>2 DEF UnionOK
  <1> QED
    BY <1>5, <1>6

\* An element of both is added once.
LEMMA UnionEqual ==
    ASSUME NEW A, NEW S, Numbers2(A, S), NEW a \in 1 .. Len(A), NEW b \in 1 .. Len(S), NEW r,
           UnionOK(A, S, a, b, r), A[a] = S[b]
    PROVE  UnionOK(A, S, a + 1, b + 1, OneOf(r, A[a]))
  <1>0. /\ Len(A) \in Nat /\ Len(S) \in Nat /\ A[a] \in Nat /\ a \in Nat \ {0} /\ b \in Nat \ {0}
        /\ All(A) \in SUBSET Nat /\ a \in All(A) /\ All(S) \in SUBSET Nat /\ b \in All(S)
        /\ b \in 1 .. Len(S) + 1
    BY NumberTypes DEF All
  <1>1. Behind(A, S, a + 1, b + 1)
    BY BehindBoth DEF UnionOK
  <1>2. Behind(S, A, b + 1, a + 1)
    BY BehindBoth, UnionTurned DEF UnionOK
  <1>3. \A v \in Elems(r) : v <= A[a]
    BY <1>0, FoundBelow DEF UnionOK
  <1>4. Rising(OneOf(r, A[a])) /\ Elems(OneOf(r, A[a])) = Elems(r) \cup {A[a]}
    BY <1>0, <1>3, AddedOnce DEF UnionOK
  <1>5. OneOf(r, A[a]) \in Seq(Nat)
    BY <1>0, Appended DEF UnionOK, OneOf
  <1>6. At(A, All(A), a + 1) = At(A, All(A), a) \cup {A[a]}
    BY <1>0, AtTaken, Zenon
  <1>7. At(S, All(S), b + 1) = At(S, All(S), b) \cup {S[b]}
    BY <1>0, AtTaken, Zenon
  <1> QED
    BY <1>1, <1>2, <1>4, <1>5, <1>6, <1>7 DEF UnionOK

(***************************************************************************)
(* Indices of a union and of a difference, of vectors without repetitions: *)
(* what was left behind comes before all that is left in the other vector. *)
(***************************************************************************)
Apart(A, S, a, b) == \A k \in 1 .. a - 1, j \in b .. Len(S) : A[k] < S[j]
Distinct(A, S) == Numbers2(A, S) /\ Rising(A) /\ Rising(S)
Only(A, S) == {k \in All(A) : A[k] \notin Elems(S)}

LEMMA ApartFirst ==
    ASSUME NEW A, NEW S, NEW b
    PROVE  Apart(A, S, 1, b)
  BY DEF Apart

LEMMA ApartNext ==
    ASSUME NEW A, NEW S, Distinct(A, S), NEW a \in 1 .. Len(A), NEW b \in 1 .. Len(S) + 1,
           Apart(A, S, a, b), Apart(S, A, b, a), b <= Len(S) => A[a] < S[b]
    PROVE  /\ Apart(A, S, a + 1, b) /\ Apart(S, A, b, a + 1)
           /\ A[a] \notin Elems(S)
           /\ \A v \in At(A, All(A), a) \cup At(S, All(S), b) : v < A[a]
  <1>0. /\ Len(A) \in Nat /\ Len(S) \in Nat /\ A[a] \in Nat
        /\ \A k \in 1 .. Len(A) : A[k] \in Nat
        /\ \A j \in 1 .. Len(S) : S[j] \in Nat
        /\ \A i, j \in 1 .. Len(S) : i <= j => S[i] <= S[j]
    BY NumberTypes DEF Distinct
  <1>1. ASSUME NEW j \in b .. Len(S)
        PROVE  A[a] < S[j]
    <2>1. b \in 1 .. Len(S) /\ j \in 1 .. Len(S) /\ b <= j /\ b <= Len(S)
      BY <1>0
    <2>2. S[b] <= S[j] /\ A[a] < S[b] /\ S[b] \in Nat /\ S[j] \in Nat
      BY <1>0, <2>1
    <2> QED
      BY <1>0, <2>2
  <1>2. ASSUME NEW j \in 1 .. b - 1
        PROVE  S[j] < A[a]
    <2>1. a \in a .. Len(A)
      BY <1>0
    <2> QED
      BY <2>1 DEF Apart
  <1>3. Apart(A, S, a + 1, b)
    <2> SUFFICES ASSUME NEW k \in 1 .. (a + 1) - 1, NEW j \in b .. Len(S)
                 PROVE  A[k] < S[j]
      BY DEF Apart
    <2>1. k \in 1 .. a - 1 \/ k = a
      BY <1>0
    <2> QED
      BY <1>1, <2>1 DEF Apart
  <1>4. Apart(S, A, b, a + 1)
    <2>1. a + 1 .. Len(A) \subseteq a .. Len(A)
      BY <1>0
    <2> QED
      BY <2>1 DEF Apart
  <1>5. A[a] \notin Elems(S)
    <2>1. ASSUME NEW j \in 1 .. Len(S)
          PROVE  A[a] # S[j]
      <3>1. j \in 1 .. b - 1 \/ j \in b .. Len(S)
        BY <1>0
      <3>2. S[j] < A[a] \/ A[a] < S[j]
        BY <1>1, <1>2, <3>1
      <3> QED
        BY <1>0, <3>2
    <2> QED
      BY <2>1 DEF Elems
  <1>6. ASSUME NEW k \in 1 .. a - 1
        PROVE  A[k] < A[a]
    <2>1. k \in 1 .. Len(A) /\ k < a
      BY <1>0
    <2> QED
      BY <2>1 DEF Distinct, Rising
  <1>7. \A v \in At(A, All(A), a) \cup At(S, All(S), b) : v < A[a]
    BY <1>2, <1>6 DEF At
  <1> QED
    BY <1>3, <1>4, <1>5, <1>7

LEMMA ApartBoth ==
    ASSUME NEW A, NEW S, Distinct(A, S), NEW a \in 1 .. Len(A), NEW b \in 1 .. Len(S),
           A[a] = S[b]
    PROVE  Apart(A, S, a + 1, b + 1)
  <1>0. /\ Len(A) \in Nat /\ Len(S) \in Nat /\ A[a] \in Nat
        /\ \A k \in 1 .. Len(A) : A[k] \in Nat
        /\ \A j \in 1 .. Len(S) : S[j] \in Nat
        /\ \A i, k \in 1 .. Len(A) : i <= k => A[i] <= A[k]
    BY NumberTypes DEF Distinct
  <1> SUFFICES ASSUME NEW k \in 1 .. (a + 1) - 1, NEW j \in b + 1 .. Len(S)
               PROVE  A[k] < S[j]
    BY DEF Apart
  <1>1. k \in 1 .. Len(A) /\ k <= a /\ j \in 1 .. Len(S) /\ b < j
    BY <1>0
  <1>2. A[k] <= A[a] /\ S[b] < S[j]
    BY <1>0, <1>1 DEF Distinct, Rising
  <1>3. A[k] \in Nat /\ S[j] \in Nat /\ S[b] \in Nat
    BY <1>0, <1>1
  <1> QED
    BY <1>2, <1>3

SetdiffIdxOK(A, S, a, b, r, r2) ==
  /\ Apart(A, S, a, b) /\ Apart(S, A, b, a)
  /\ r \in Seq(Nat) /\ Elems(r) = Only(A, S) \cap 1 .. a - 1
  /\ r2 \in Seq(Nat) /\ Elems(r2) = Only(S, A) \cap 1 .. b - 1

LEMMA SetdiffIdxTurned ==
    ASSUME NEW A, NEW S, NEW a, NEW b, NEW r, NEW r2, SetdiffIdxOK(A, S, a, b, r, r2)
    PROVE  SetdiffIdxOK(S, A, b, a, r2, r)
  BY DEF SetdiffIdxOK

LEMMA SetdiffIdxLess ==
    ASSUME NEW A, NEW S, Distinct(A, S), NEW a \in 1 .. Len(A), NEW b \in 1 .. Len(S) + 1,
           NEW r, NEW r2, SetdiffIdxOK(A, S, a, b, r, r2), b <= Len(S) => A[a] < S[b]
    PROVE  SetdiffIdxOK(A, S, a + 1, b, Append(r, a), r2)
  <1>0. a \in Nat \ {0} /\ a \in Nat /\ Only(A, S) \in SUBSET Nat /\ a + 1 - 1 = a
    BY DEF Only, All
  <1>1. /\ Apart(A, S, a + 1, b) /\ Apart(S, A, b, a + 1)
        /\ a \in Only(A, S)
    BY ApartNext DEF SetdiffIdxOK, Only, All
  <1>2. Only(A, S) \cap 1 .. a = (Only(A, S) \cap 1 .. a - 1) \cup {a}
    BY <1>0, <1>1, UpToNext, Zenon
  <1>3. EndsWith(Append(r, a), r, a)
    BY <1>0, AppendedNumber DEF SetdiffIdxOK
  <1> QED
    BY <1>0, <1>1, <1>2, <1>3 DEF SetdiffIdxOK, EndsWith

LEMMA SetdiffIdxEqual ==
    ASSUME NEW A, NEW S, Distinct(A, S), NEW a \in 1 .. Len(A), NEW b \in 1 .. Len(S),
           NEW r, NEW r2, SetdiffIdxOK(A, S, a, b, r, r2), A[a] = S[b]
    PROVE  SetdiffIdxOK(A, S, a + 1, b + 1, r, r2)
  <1>0. /\ a \in Nat \ {0} /\ Only(A, S) \in SUBSET Nat /\ a + 1 - 1 = a
        /\ b \in Nat \ {0} /\ Only(S, A) \in SUBSET Nat /\ b + 1 - 1 = b
    BY NumberTypes DEF Only, All, Distinct
  <1>1. Apart(A, S, a + 1, b + 1) /\ Apart(S, A, b + 1, a + 1)
    BY ApartBoth, UnionTurned DEF Distinct
  <1>2. a \notin Only(A, S) /\ b \notin Only(S, A)
    BY DEF Only, Elems
  <1>3. Only(A, S) \cap 1 .. a = Only(A, S) \cap 1 .. a - 1
    BY <1>0, <1>2, UpToNext, Zenon
  <1>4. Only(S, A) \cap 1 .. b = Only(S, A) \cap 1 .. b - 1
    BY <1>0, <1>2, UpToNext, Zenon
  <1> QED
    BY <1>0, <1>1, <1>3, <1>4 DEF SetdiffIdxOK

(***************************************************************************)
(* The pairs of a union: no index is NaN unless the other vector has not   *)
(* got the element.                                                        *)
(***************************************************************************)
UnionPair(A, S, p, q) ==
  /\ p \in 0 .. Len(A) /\ q \in 0 .. Len(S)
  /\ p = 0 => q # 0 /\ S[q] \notin Elems(A)
  /\ q = 0 => p # 0 /\ A[p] \notin Elems(S)
  /\ p # 0 /\ q # 0 => A[p] = S[q]

PickOf(A, S, p, q) == IF p # 0 THEN A[p] ELSE S[q]
Picks(A, S, r, r2) == [k \in 1 .. Len(r) |-> PickOf(A, S, r[k], r2[k])]

Paired(A, S, r, r2) ==
  /\ r \in Seq(Nat) /\ r2 \in Seq(Nat) /\ Len(r) = Len(r2)
  /\ \A k \in 1 .. Len(r) : UnionPair(A, S, r[k], r2[k])
  /\ Rising(Picks(A, S, r, r2))

UnionIdxOK(A, S, a, b, r, r2) ==
  /\ Apart(A, S, a, b) /\ Apart(S, A, b, a)
  /\ Paired(A, S, r, r2)
  /\ Elems(Picks(A, S, r, r2)) = At(A, All(A), a) \cup At(S, All(S), b)

FitsNext(A, S, r, r2, p, q) ==
  /\ Paired(A, S, r, r2) /\ UnionPair(A, S, p, q)
  /\ \A v \in Elems(Picks(A, S, r, r2)) : v < PickOf(A, S, p, q)
PairAdded(A, S, r, r2, p, q) ==
  /\ Paired(A, S, Append(r, p), Append(r2, q))
  /\ Elems(Picks(A, S, Append(r, p), Append(r2, q)))
        = Elems(Picks(A, S, r, r2)) \cup {PickOf(A, S, p, q)}

LEMMA PickAdded ==
    ASSUME NEW A, NEW S, Distinct(A, S), NEW r, NEW r2, NEW p \in Nat, NEW q \in Nat,
           FitsNext(A, S, r, r2, p, q)
    PROVE  PairAdded(A, S, r, r2, p, q)
  <1> DEFINE n == Append(r, p)
             n2 == Append(r2, q)
             P == Picks(A, S, r, r2)
             N == Picks(A, S, n, n2)
             e == PickOf(A, S, p, q)
  <1>a. /\ r \in Seq(Nat) /\ r2 \in Seq(Nat) /\ Len(r) = Len(r2)
        /\ \A k \in 1 .. Len(r) : UnionPair(A, S, r[k], r2[k])
        /\ Rising(P) /\ UnionPair(A, S, p, q) /\ \A v \in Elems(P) : v < e
    BY DEF Paired, FitsNext
  <1>0. /\ Len(r) \in Nat /\ (\A k \in 1 .. Len(A) : A[k] \in Nat)
        /\ (\A j \in 1 .. Len(S) : S[j] \in Nat) /\ Len(A) \in Nat /\ Len(S) \in Nat
    BY <1>a, NumberTypes, LenProperties DEF Distinct
  <1>1. EndsWith(n, r, p) /\ EndsWith(n2, r2, q)
    BY <1>a, AppendedNumber
  <1>2. ASSUME NEW p2 \in Nat, NEW q2 \in Nat, UnionPair(A, S, p2, q2)
        PROVE  PickOf(A, S, p2, q2) \in Nat
    BY <1>0, <1>2 DEF UnionPair, PickOf
  <1>3. \A k \in 1 .. Len(r) : r[k] \in Nat /\ r2[k] \in Nat
    BY <1>a, ElementOfSeq
  <1>4. P \in [1 .. Len(r) -> Nat]
    BY <1>a, <1>2, <1>3 DEF Picks
  <1>5. P \in Seq(Nat) /\ Len(P) = Len(r) /\ e \in Nat
    BY <1>a, <1>0, <1>2, <1>4, SeqOfFunction
  <1>6. EndsWith(Append(P, e), P, e) /\ Rising(Append(P, e))
    <2>1. Rising(P) /\ \A v \in Elems(P) : v < e
      BY <1>a
    <2> HIDE DEF P, e
    <2> QED
      BY <1>5, <2>1, AppendedNumber, StillRising
  <1>7. n \in Seq(Nat) /\ n2 \in Seq(Nat) /\ Len(n) = Len(r) + 1 /\ Len(n2) = Len(r) + 1
        /\ (\A k \in 1 .. Len(r) : n[k] = r[k] /\ n2[k] = r2[k]) /\ n[Len(r) + 1] = p /\ n2[Len(r) + 1] = q
    BY <1>a, <1>1 DEF EndsWith
  <1> HIDE DEF n, n2
  <1>8. ASSUME NEW k \in 1 .. Len(n)
        PROVE  UnionPair(A, S, n[k], n2[k])
    <2>1. k \in 1 .. Len(r) \/ k = Len(r) + 1
      BY <1>0, <1>7
    <2> QED
      BY <1>a, <1>7, <2>1
  <1>9. N = Append(P, e)
    <2>1. N = [k \in 1 .. Len(r) + 1 |-> PickOf(A, S, n[k], n2[k])]
      BY <1>7 DEF Picks
    <2>2. ASSUME NEW k \in 1 .. Len(r) + 1
          PROVE  N[k] = Append(P, e)[k] /\ N[k] \in Nat
      <3>1. CASE k \in 1 .. Len(r)
        <4>1. N[k] = PickOf(A, S, r[k], r2[k])
          BY <1>7, <2>1, <3>1
        <4>2. P[k] = PickOf(A, S, r[k], r2[k]) /\ P[k] \in Nat
          BY <1>4, <3>1 DEF Picks
        <4>3. Append(P, e)[k] = P[k]
          BY <1>5, <1>6, <3>1 DEF EndsWith
        <4> HIDE DEF N, P, e
        <4> QED
          BY <4>1, <4>2, <4>3
      <3>2. CASE k = Len(r) + 1
        <4>1. N[k] = PickOf(A, S, n[k], n2[k]) /\ n[k] = p /\ n2[k] = q
          BY <1>7, <2>1, <3>2
        <4>2. N[k] = e
          BY <4>1
        <4>3. Append(P, e)[k] = e
          BY <1>5, <1>6, <3>2 DEF EndsWith
        <4>4. e \in Nat
          BY <1>5
        <4> HIDE DEF N, P, e
        <4> QED
          BY <4>2, <4>3, <4>4, Zenon
      <3>3. k \in 1 .. Len(r) \/ k = Len(r) + 1
        BY <1>0
      <3> HIDE DEF N, P, e
      <3> QED
        BY <3>1, <3>2, <3>3, Zenon
    <2>3. N \in [1 .. Len(r) + 1 -> Nat]
      <3> HIDE DEF N
      <3>1. N = [k \in 1 .. Len(r) + 1 |-> N[k]]
        BY <2>1
      <3> QED
        BY <2>2, <3>1
    <2>4. N \in Seq(Nat) /\ Len(N) = Len(r) + 1
      BY <1>0, <2>3, SeqOfFunction
    <2>5. Append(P, e) \in Seq(Nat) /\ Len(Append(P, e)) = Len(r) + 1
      BY <1>5, <1>6 DEF EndsWith
    <2> HIDE DEF N, P, e
    <2> QED
      BY <2>2, <2>4, <2>5, SeqEqual
  <1>10. Rising(N) /\ Elems(N) = Elems(P) \cup {e}
    BY <1>6, <1>9 DEF EndsWith
  <1>11. Paired(A, S, n, n2)
    BY <1>7, <1>8, <1>10 DEF Paired
  <1> QED
    BY <1>10, <1>11 DEF PairAdded, n, n2

LEMMA UnionIdxLess ==
    ASSUME NEW A, NEW S, Distinct(A, S), NEW a \in 1 .. Len(A), NEW b \in 1 .. Len(S) + 1,
           NEW r, NEW r2, UnionIdxOK(A, S, a, b, r, r2), b <= Len(S) => A[a] < S[b]
    PROVE  UnionIdxOK(A, S, a + 1, b, Append(r, a), Append(r2, 0))
  <1>0. a \in Nat \ {0} /\ a \in Nat /\ 0 \in Nat /\ a \in All(A) /\ All(A) \in SUBSET Nat
    BY DEF All
  <1>1. /\ Apart(A, S, a + 1, b) /\ Apart(S, A, b, a + 1) /\ A[a] \notin Elems(S)
        /\ \A v \in At(A, All(A), a) \cup At(S, All(S), b) : v < A[a]
    BY ApartNext DEF UnionIdxOK
  <1>2. UnionPair(A, S, a, 0) /\ PickOf(A, S, a, 0) = A[a]
    BY <1>0, <1>1, NumberTypes DEF UnionPair, PickOf, Distinct
  <1>3. At(A, All(A), a + 1) = At(A, All(A), a) \cup {A[a]}
    BY <1>0, AtTaken, Zenon
  <1>4. FitsNext(A, S, r, r2, a, 0)
    BY <1>1, <1>2 DEF UnionIdxOK, FitsNext
  <1>5. PairAdded(A, S, r, r2, a, 0)
    BY <1>0, <1>4, PickAdded
  <1> DEFINE n == Append(r, a)
             n2 == Append(r2, 0)
  <1>p. Paired(A, S, n, n2) /\ Elems(Picks(A, S, n, n2)) = Elems(Picks(A, S, r, r2)) \cup {A[a]}
    BY <1>2, <1>5 DEF PairAdded
  <1> HIDE DEF n, n2
  <1>6. Elems(Picks(A, S, n, n2)) = At(A, All(A), a + 1) \cup At(S, All(S), b)
    BY <1>2, <1>3, <1>p DEF UnionIdxOK
  <1>7. UnionIdxOK(A, S, a + 1, b, n, n2)
    BY <1>1, <1>p, <1>6 DEF UnionIdxOK
  <1> QED
    BY <1>7 DEF n, n2

LEMMA UnionIdxGreater ==
    ASSUME NEW A, NEW S, Distinct(A, S), NEW a \in 1 .. Len(A) + 1, NEW b \in 1 .. Len(S),
           NEW r, NEW r2, UnionIdxOK(A, S, a, b, r, r2), a <= Len(A) => S[b] < A[a]
    PROVE  UnionIdxOK(A, S, a, b + 1, Append(r, 0), Append(r2, b))
  <1>0. b \in Nat \ {0} /\ b \in Nat /\ 0 \in Nat /\ b \in All(S) /\ All(S) \in SUBSET Nat
        /\ Distinct(S, A)
    BY UnionTurned DEF All, Distinct
  <1>1. /\ Apart(S, A, b + 1, a) /\ Apart(A, S, a, b + 1) /\ S[b] \notin Elems(A)
        /\ \A v \in At(S, All(S), b) \cup At(A, All(A), a) : v < S[b]
    BY <1>0, ApartNext DEF UnionIdxOK
  <1>2. UnionPair(A, S, 0, b) /\ PickOf(A, S, 0, b) = S[b]
    BY <1>0, <1>1, NumberTypes DEF UnionPair, PickOf, Distinct
  <1>3. At(S, All(S), b + 1) = At(S, All(S), b) \cup {S[b]}
    BY <1>0, AtTaken, Zenon
  <1>4. FitsNext(A, S, r, r2, 0, b)
    BY <1>1, <1>2 DEF UnionIdxOK, FitsNext
  <1>5. PairAdded(A, S, r, r2, 0, b)
    BY <1>0, <1>4, PickAdded
  <1> DEFINE n == Append(r, 0)
             n2 == Append(r2, b)
  <1>p. Paired(A, S, n, n2) /\ Elems(Picks(A, S, n, n2)) = Elems(Picks(A, S, r, r2)) \cup {S[b]}
    BY <1>2, <1>5 DEF PairAdded
  <1> HIDE DEF n, n2
  <1>6. Elems(Picks(A, S, n, n2)) = At(A, All(A), a) \cup At(S, All(S), b + 1)
    BY <1>2, <1>3, <1>p DEF UnionIdxOK
  <1>7. UnionIdxOK(A, S, a, b + 1, n, n2)
    BY <1>1, <1>p, <1>6 DEF UnionIdxOK
  <1> QED
    BY <1>7 DEF n, n2

LEMMA UnionIdxEqual ==
    ASSUME NEW A, NEW S, Distinct(A, S), NEW a \in 1 .. Len(A), NEW b \in 1 .. Len(S),
           NEW r, NEW r2, UnionIdxOK(A, S, a, b, r, r2), A[a] = S[b]
    PROVE  UnionIdxOK(A, S, a + 1, b + 1, Append(r, a), Append(r2, b))
  <1>0. /\ a \in Nat \ {0} /\ a \in Nat /\ a \in All(A) /\ All(A) \in SUBSET Nat
        /\ b \in Nat \ {0} /\ b \in Nat /\ b \in All(S) /\ All(S) \in SUBSET Nat
    BY DEF All
  <1>n. Distinct(S, A) /\ Len(A) \in Nat /\ Len(S) \in Nat
    BY UnionTurned, NumberTypes DEF Distinct
  <1>1. Apart(A, S, a + 1, b + 1) /\ Apart(S, A, b + 1, a + 1)
    BY <1>0, <1>n, ApartBoth
  <1>2. UnionPair(A, S, a, b) /\ PickOf(A, S, a, b) = A[a]
    BY <1>0, <1>n DEF UnionPair, PickOf
  <1>3. At(A, All(A), a + 1) = At(A, All(A), a) \cup {A[a]}
    BY <1>0, AtTaken, Zenon
  <1>4. At(S, All(S), b + 1) = At(S, All(S), b) \cup {S[b]}
    BY <1>0, AtTaken, Zenon
  <1>5. \A v \in At(A, All(A), a) \cup At(S, All(S), b) : v < A[a]
    <2>1. ASSUME NEW k \in 1 .. a - 1 PROVE A[k] < A[a]
      <3>1. k \in 1 .. Len(A) /\ k < a
        BY <1>0, <1>n
      <3> QED
        BY <3>1 DEF Distinct, Rising
    <2>2. ASSUME NEW j \in 1 .. b - 1 PROVE S[j] < A[a]
      <3>1. a \in a .. Len(A)
        BY <1>0, <1>n
      <3> QED
        BY <3>1 DEF UnionIdxOK, Apart
    <2> QED
      BY <2>1, <2>2 DEF At
  <1>6. FitsNext(A, S, r, r2, a, b)
    BY <1>1, <1>2, <1>5 DEF UnionIdxOK, FitsNext
  <1>7. PairAdded(A, S, r, r2, a, b)
    BY <1>0, <1>6, PickAdded
  <1> DEFINE n == Append(r, a)
             n2 == Append(r2, b)
  <1>p. Paired(A, S, n, n2) /\ Elems(Picks(A, S, n, n2)) = Elems(Picks(A, S, r, r2)) \cup {A[a]}
    BY <1>2, <1>7 DEF PairAdded
  <1> HIDE DEF n, n2
  <1>8. Elems(Picks(A, S, n, n2)) = At(A, All(A), a + 1) \cup At(S, All(S), b + 1)
    BY <1>2, <1>3, <1>4, <1>p DEF UnionIdxOK
  <1>9. UnionIdxOK(A, S, a + 1, b + 1, n, n2)
    BY <1>1, <1>p, <1>8 DEF UnionIdxOK
  <1> QED
    BY <1>9 DEF n, n2

\* The comparison of an element of the second vector with the one before its position in
\* the first: it always differs.
LEMMA NeverTheSame ==
    ASSUME NEW A, NEW S, Distinct(A, S), NEW a \in 1 .. Len(A), NEW b \in 1 .. Len(S),
           Apart(A, S, a, b), S[b] < A[a], b # 1, b <= Len(A) + 1
    PROVE  S[b] # A[b - 1]
  <1>0. /\ Len(A) \in Nat /\ Len(S) \in Nat /\ A[a] \in Nat /\ S[b] \in Nat
        /\ \A k \in 1 .. Len(A) : A[k] \in Nat
        /\ \A i, k \in 1 .. Len(A) : i <= k => A[i] <= A[k]
    BY NumberTypes DEF Distinct
  <1>1. b - 1 \in 1 .. Len(A)
    BY <1>0
  <1>2. CASE b - 1 \in 1 .. a - 1
    <2>1. b \in b .. Len(S)
      BY <1>0
    <2>2. A[b - 1] < S[b]
      BY <1>2, <2>1 DEF Apart
    <2> QED
      BY <1>0, <1>1, <2>2
  <1>3. CASE a <= b - 1
    <2>1. A[a] <= A[b - 1]
      BY <1>0, <1>1, <1>3
    <2> QED
      BY <1>0, <1>1, <2>1
  <1> QED
    BY <1>0, <1>1, <1>2, <1>3

\* A scalar as an interval.
LEMMA ScalarTurn ==
    ASSUME NEW B, AllScalar(B), NEW b \in 1 .. Len(B), NEW t \in Nat, B[b].s \in Nat
    PROVE  /\ time_lt(t, B[b]) <=> t < Starts(B)[b]
           /\ time_gt(t, B[b]) <=> Starts(B)[b] < t
           /\ Within(t, B[b]) <=> t = Starts(B)[b]
           /\ Starts(B)[b] = B[b].s
  <1>1. B[b].s = B[b].e /\ ~B[b].sopen /\ ~B[b].eopen /\ Starts(B)[b] = B[b].s
    BY DEF AllScalar, Starts
  <1>2. time_lt(t, B[b]) <=> t < B[b].s
    BY <1>1 DEF time_lt
  <1>3. time_gt(t, B[b]) <=> B[b].s < t
    BY <1>1 DEF time_gt
  <1> QED
    BY <1>1, <1>2, <1>3 DEF Within

(***************************************************************************)
(* The invariant: what the arguments and the sorted copies have to do with *)
(* each other, and what each loop has gathered so far.                     *)
(***************************************************************************)
InOrder == Below(x, num_lt) /\ Below(y, interval_lt)

Arguments ==
  /\ x \in Seq(Time) /\ y \in Seq(IntervalRecord)
  /\ Sorted(v1, v2) /\ Elems(v1) = Elems(x) /\ Elems(v2) = Elems(y)
  /\ Below(x, num_lt) => v1 = x /\ Rising(v1)
  /\ Below(y, interval_lt) => v2 = y
  /\ kind = "scalar" => AllScalar(v2)
  /\ Allowed(op, kind)

Gathered ==
  /\ op = "intersect" => IntersectOK(v1, v2, i1, i2, res)
  /\ op = "setdiff" => SetdiffOK(v1, v2, i1, i2, res)
  /\ op = "union" => UnionOK(v1, Starts(v2), i1, i2, res)
  /\ op = "intersect_idx" /\ InOrder => IntersectIdxOK(v1, v2, i1, i2, res, res2)
  /\ op = "union_idx" /\ InOrder => UnionIdxOK(v1, Starts(v2), i1, i2, res, res2)
  /\ op = "setdiff_idx" /\ kind = "scalar" /\ InOrder
       => SetdiffIdxOK(v1, Starts(v2), i1, i2, res, res2)

Finished == ~(In1 /\ In2) /\ ~Left1 /\ ~Left2

SetInv ==
  /\ TypeOK /\ Arguments
  /\ pc = "idle" => i1 = 1 /\ i2 = 1 /\ res = <<>> /\ res2 = <<>>
  /\ pc = "loop" => op \in Ops
  /\ pc \in {"loop", "done"} => Gathered
  /\ pc = "done" => Finished

\* What holds of the vectors in any loop.
LEMMA VectorTypes ==
    ASSUME SetInv
    PROVE  /\ Sorted(v1, v2) /\ Len(v1) \in Nat /\ Len(v2) \in Nat
           /\ \A k \in 1 .. Len(v1) : v1[k] \in Time /\ v1[k] \in Nat
           /\ \A j \in 1 .. Len(v2) : v2[j] \in IntervalRecord /\ v2[j].s \in Nat
           /\ Starts(v2) \in Seq(Time) /\ Len(Starts(v2)) = Len(v2)
           /\ Numbers2(v1, Starts(v2))
           /\ kind = "scalar" => AllScalar(v2)
           /\ InOrder => v1 = x /\ v2 = y /\ Rising(v1)
           /\ InOrder /\ kind = "scalar" => Distinct(v1, Starts(v2))
           /\ op \in {"union", "union_idx"} => kind = "scalar"
           /\ i1 \in 1 .. Len(v1) + 1 /\ i2 \in 1 .. Len(v2) + 1
           /\ i1 \in Nat /\ i2 \in Nat
           /\ res \in Seq(Time \cup 0 .. Len(v1)) /\ res2 \in Seq(0 .. Len(v2))
           /\ res \in Seq(Nat) /\ res2 \in Seq(Nat)
  <1>1. Sorted(v1, v2)
    BY DEF SetInv, Arguments
  <1>2. /\ Len(v1) \in Nat /\ Len(v2) \in Nat
        /\ \A k \in 1 .. Len(v1) : v1[k] \in Time /\ v1[k] \in Nat
        /\ \A j \in 1 .. Len(v2) : v2[j] \in IntervalRecord /\ v2[j].s \in Nat
    BY <1>1, SortedTypes
  <1>3. Starts(v2) \in Seq(Time) /\ Len(Starts(v2)) = Len(v2) /\ Ascending(Starts(v2))
    BY <1>1, StartsAscend DEF Sorted
  <1>4. Numbers2(v1, Starts(v2))
    BY <1>1, <1>3, SetAssumption, SeqMonotonic DEF Sorted, Numbers2
  <1>5. /\ kind = "scalar" => AllScalar(v2)
        /\ InOrder => v1 = x /\ v2 = y /\ Rising(v1)
        /\ op \in {"union", "union_idx"} => kind = "scalar"
    BY DEF SetInv, Arguments, InOrder, Allowed
  <1>6. InOrder /\ kind = "scalar" => Distinct(v1, Starts(v2))
    <2> SUFFICES ASSUME InOrder, kind = "scalar"
                 PROVE  Distinct(v1, Starts(v2))
      OBVIOUS
    <2>1. v2 = y /\ AllScalar(v2) /\ Below(y, interval_lt) /\ Rising(v1)
      BY <1>5 DEF InOrder
    <2>2. v2 \in Seq(IntervalRecord)
      BY <1>1 DEF Sorted
    <2>3. Rising(Starts(v2))
      BY <2>1, <2>2, ScalarsRise
    <2> QED
      BY <1>4, <2>1, <2>3 DEF Distinct
  <1>7. /\ i1 \in 1 .. Len(v1) + 1 /\ i2 \in 1 .. Len(v2) + 1
        /\ res \in Seq(Time \cup 0 .. Len(v1)) /\ res2 \in Seq(0 .. Len(v2))
    BY DEF SetInv, TypeOK
  <1>8. Time \cup 0 .. Len(v1) \subseteq Nat /\ 0 .. Len(v2) \subseteq Nat
    <2>1. \A e \in 0 .. Len(v1) : e \in Nat
      BY <1>2
    <2>2. \A e \in 0 .. Len(v2) : e \in Nat
      BY <1>2
    <2> QED
      BY <2>1, <2>2, SetAssumption, Zenon
  <1>9. res \in Seq(Nat) /\ res2 \in Seq(Nat)
    BY <1>7, <1>8, SeqMonotonic
  <1> QED
    BY <1>1, <1>2, <1>3, <1>4, <1>5, <1>6, <1>7, <1>9

\* A turn of a loop keeps the arguments; what is left to show is what it has gathered.
Grows(S, r, n) == n = r \/ \E e \in S : n = Append(r, e)

LEMMA GrowsIn ==
    ASSUME NEW S, NEW r \in Seq(S), NEW n, Grows(S, r, n)
    PROVE  n \in Seq(S)
  BY Appended DEF Grows

LEMMA LoopTurn ==
    ASSUME SetInv, pc = "loop", Same, pc' \in {"loop", "throw"},
           i1' \in 1 .. Len(v1) + 1, i2' \in 1 .. Len(v2) + 1,
           Grows(Time \cup 0 .. Len(v1), res, res'), Grows(0 .. Len(v2), res2, res2'),
           pc' = "loop" => Gathered'
    PROVE  SetInv'
  <1>1. Arguments'
    BY DEF SetInv, Same, Arguments, Allowed
  <1> DEFINE R == Time \cup 0 .. Len(v1)
             R2 == 0 .. Len(v2)
  <1>2. res' \in Seq(R) /\ res2' \in Seq(R2)
    <2>1. res \in Seq(R) /\ res2 \in Seq(R2) /\ Grows(R, res, res') /\ Grows(R2, res2, res2')
      BY DEF SetInv, TypeOK
    <2> HIDE DEF R, R2
    <2> QED
      BY <2>1, GrowsIn
  <1>3. TypeOK'
    BY <1>2 DEF SetInv, TypeOK, Same
  <1> QED
    BY <1>1, <1>3 DEF SetInv, Same

LEMMA CallStep ==
    ASSUME SetInv, NEW o \in Ops, NEW k \in {"scalar", "interval"}, Call(o, k)
    PROVE  SetInv'
  <1>1. x' \in Seq(Time)
    <2>1. PICK n \in 0 .. MaxLen : x' \in [1 .. n -> Time]
      BY DEF Call, Vectors
    <2> QED
      BY <2>1, SetAssumption, SeqOfFunction
  <1>2. y' \in Seq(IntervalRecord) /\ (k = "scalar" => AllScalar(y'))
    <2>1. CASE k = "scalar"
      <3>1. PICK n \in 0 .. MaxLen : y' \in [1 .. n -> {Scalar(t) : t \in Time}]
        BY <2>1 DEF Call, Vectors, Seconds
      <3>2. {Scalar(t) : t \in Time} \subseteq IntervalRecord
        <4>1. ASSUME NEW t \in Time
              PROVE  [s |-> t, e |-> t, sopen |-> FALSE, eopen |-> FALSE] \in IntervalRecord
          BY DEF IntervalRecord
        <4> QED
          BY <4>1 DEF Scalar, Interval
      <3>3. y' \in Seq(IntervalRecord) /\ Len(y') = n
        BY <3>1, <3>2, SetAssumption, SeqOfFunction, SeqMonotonic
      <3>4. ASSUME NEW j \in 1 .. n
            PROVE  y'[j].s = y'[j].e /\ ~y'[j].sopen /\ ~y'[j].eopen
        BY <3>1 DEF Scalar, Interval
      <3> QED
        BY <3>3, <3>4 DEF AllScalar
    <2>2. CASE k = "interval"
      <3>1. PICK n \in 0 .. MaxIvl : y' \in [1 .. n -> Intervals(Time)]
        BY <2>2 DEF Call, Vectors, Seconds
      <3>2. Intervals(Time) \subseteq IntervalRecord
        BY DEF Intervals, IntervalRecord
      <3> QED
        BY <2>2, <3>1, <3>2, SetAssumption, SeqOfFunction, SeqMonotonic
    <2> QED
      BY <2>1, <2>2
  <1>3. /\ v1' \in Seq(Time) /\ Elems(v1') = Elems(x') /\ Ascending(v1')
        /\ Below(x', num_lt) => v1' = x' /\ Rising(v1')
    BY <1>1, FirstSorted DEF Call
  <1>4. /\ v2' \in Seq(IntervalRecord) /\ Elems(v2') = Elems(y') /\ AscendingStarts(v2')
        /\ Below(y', interval_lt) => v2' = y'
    BY <1>2, SecondSorted DEF Call
  <1>5. k = "scalar" => AllScalar(v2')
    <2> SUFFICES ASSUME k = "scalar", NEW j \in 1 .. Len(v2')
                 PROVE  v2'[j].s = v2'[j].e /\ ~v2'[j].sopen /\ ~v2'[j].eopen
      BY DEF AllScalar
    <2>1. v2'[j] \in Elems(y')
      BY <1>4 DEF Elems
    <2>2. PICK i \in 1 .. Len(y') : v2'[j] = y'[i]
      BY <2>1 DEF Elems
    <2> QED
      BY <1>2, <2>2 DEF AllScalar
  <1>6. /\ op' = o /\ kind' = k /\ Allowed(o, k) /\ pc' = "loop" /\ pc = "idle"
        /\ UNCHANGED <<i1, i2, res, res2>>
    BY DEF Call
  <1>7. Arguments'
    BY <1>1, <1>2, <1>3, <1>4, <1>5, <1>6 DEF Arguments, Sorted, Allowed
  <1>8. i1' = 1 /\ i2' = 1 /\ res' = <<>> /\ res2' = <<>>
    BY <1>6 DEF SetInv
  <1>9. Len(v1') \in Nat /\ Len(v2') \in Nat /\ <<>> \in Seq(Nat) /\ Len(<<>>) = 0
    BY <1>3, <1>4, LenProperties, EmptySeq
  <1>10. TypeOK'
    BY <1>6, <1>8, <1>9, EmptySeq DEF TypeOK
  <1>11. \A s, Q, t, b : At(s, Q, 1) = {} /\ Q \cap 1 .. 1 - 1 = {} /\ Apart(s, t, 1, b)
    BY AtFirst, ApartFirst
  <1>12. (\A s, t : Skipped(s, t, 1, 1) /\ Behind(s, t, 1, 1)) /\ Elems(<<>>) = {}
         /\ Rising(<<>>) /\ Ascending(<<>>)
    BY NothingIn DEF Skipped, Behind
  <1>13. \A s, t : Paired(s, t, <<>>, <<>>) /\ Elems(Picks(s, t, <<>>, <<>>)) = {}
    <2>1. \A s, t : Picks(s, t, <<>>, <<>>) = <<>>
      BY <1>9 DEF Picks
    <2> QED
      BY <1>9, <1>12, <2>1 DEF Paired
  <1>14. ASSUME NEW s, NEW t
         PROVE  /\ IntersectOK(s, t, 1, 1, <<>>) /\ SetdiffOK(s, t, 1, 1, <<>>)
                /\ UnionOK(s, t, 1, 1, <<>>) /\ IntersectIdxOK(s, t, 1, 1, <<>>, <<>>)
                /\ UnionIdxOK(s, t, 1, 1, <<>>, <<>>) /\ SetdiffIdxOK(s, t, 1, 1, <<>>, <<>>)
    <2>1. IntersectOK(s, t, 1, 1, <<>>) /\ SetdiffOK(s, t, 1, 1, <<>>)
      BY <1>9, <1>11, <1>12 DEF IntersectOK, SetdiffOK
    <2>2. UnionOK(s, t, 1, 1, <<>>)
      BY <1>9, <1>11, <1>12 DEF UnionOK
    <2>3. \A m \in 1 .. Len(<<>>) : FALSE
      BY <1>9
    <2>4. IntersectIdxOK(s, t, 1, 1, <<>>, <<>>) /\ SetdiffIdxOK(s, t, 1, 1, <<>>, <<>>)
      BY <1>9, <1>11, <1>12, <2>3 DEF IntersectIdxOK, SetdiffIdxOK
    <2>5. UnionIdxOK(s, t, 1, 1, <<>>, <<>>)
      BY <1>11, <1>13 DEF UnionIdxOK
    <2> QED
      BY <2>1, <2>2, <2>4, <2>5
  <1>15. Gathered'
    BY <1>8, <1>14 DEF Gathered
  <1> QED
    BY <1>6, <1>7, <1>10, <1>15 DEF SetInv

\* At an element that both have.
LEMMA InBoth ==
    ASSUME SetInv, Both
    PROVE  /\ i1 \in 1 .. Len(v1) /\ i2 \in 1 .. Len(v2) /\ pc = "loop"
           /\ i1 + 1 \in 1 .. Len(v1) + 1 /\ i2 + 1 \in 1 .. Len(v2) + 1
           /\ v1[i1] \in Time /\ v2[i2].s \in Time /\ v1[i1] \in Nat /\ v2[i2].s \in Nat
           /\ i1 \in 0 .. Len(v1) /\ i2 \in 0 .. Len(v2) /\ 0 \in 0 .. Len(v1) /\ 0 \in 0 .. Len(v2)
           /\ Gathered
  <1>1. i1 \in 1 .. Len(v1) /\ i2 \in 1 .. Len(v2) /\ pc = "loop" /\ Gathered
        /\ Len(v1) \in Nat /\ Len(v2) \in Nat
    BY VectorTypes DEF Both, In1, In2, SetInv
  <1>2. v1[i1] \in Time /\ v2[i2] \in IntervalRecord /\ v1[i1] \in Nat /\ v2[i2].s \in Nat
    BY <1>1, VectorTypes
  <1> QED
    BY <1>1, <1>2 DEF IntervalRecord

LEMMA IntersectStep ==
    ASSUME SetInv, Intersect
    PROVE  SetInv'
  <1>0. /\ Sorted(v1, v2) /\ i1 \in 1 .. Len(v1) /\ i2 \in 1 .. Len(v2) /\ pc = "loop"
        /\ i1 \in 1 .. Len(v1) + 1 /\ i2 \in 1 .. Len(v2) + 1
        /\ i1 + 1 \in 1 .. Len(v1) + 1 /\ i2 + 1 \in 1 .. Len(v2) + 1
        /\ v1[i1] \in Time \cup 0 .. Len(v1)
        /\ op = "intersect" /\ Same /\ Gathered
    BY VectorTypes, InBoth DEF Intersect
  <1>1. IntersectOK(v1, v2, i1, i2, res)
    BY <1>0 DEF Gathered
  <1>2. CASE Less /\ Take1 /\ Keep
    <2>1. IntersectOK(v1, v2, i1 + 1, i2, res)
      BY <1>0, <1>1, <1>2, IntersectTurn DEF Less
    <2>2. Gathered'
      BY <1>0, <1>2, <2>1 DEF Gathered, Take1, Keep, Same
    <2> QED
      BY <1>0, <1>2, <2>2, LoopTurn DEF Take1, Keep, Grows
  <1>3. CASE Greater /\ Take2 /\ Keep
    <2>1. IntersectOK(v1, v2, i1, i2 + 1, res)
      BY <1>0, <1>1, <1>3, IntersectTurn DEF Greater
    <2>2. Gathered'
      BY <1>0, <1>3, <2>1 DEF Gathered, Take2, Keep, Same
    <2> QED
      BY <1>0, <1>3, <2>2, LoopTurn DEF Take2, Keep, Grows
  <1>4. CASE Equal /\ Take1 /\ IF IsNew(v1[i1]) THEN Add(v1[i1]) ELSE Keep
    <2>1. IntersectOK(v1, v2, i1 + 1, i2, OneOf(res, v1[i1]))
      BY <1>0, <1>1, <1>4, IntersectTurn DEF Equal, Less
    <2>2. res' = OneOf(res, v1[i1]) /\ res2' = res2 /\ pc' = pc
      BY <1>4 DEF IsNew, Add, Keep, OneOf
    <2>3. Grows(Time \cup 0 .. Len(v1), res, res')
      BY <1>0, <2>2 DEF Grows, OneOf
    <2>4. Gathered'
      BY <1>0, <1>4, <2>1, <2>2 DEF Gathered, Take1, Same
    <2> QED
      BY <1>0, <1>4, <2>2, <2>3, <2>4, LoopTurn DEF Take1, Grows
  <1> QED
    BY <1>2, <1>3, <1>4 DEF Intersect

LEMMA SetdiffStep ==
    ASSUME SetInv, Setdiff
    PROVE  SetInv'
  <1>0. /\ Sorted(v1, v2) /\ i1 \in 1 .. Len(v1) /\ i2 \in 1 .. Len(v2) /\ pc = "loop"
        /\ i1 \in 1 .. Len(v1) + 1 /\ i2 \in 1 .. Len(v2) + 1
        /\ i1 + 1 \in 1 .. Len(v1) + 1 /\ i2 + 1 \in 1 .. Len(v2) + 1
        /\ v1[i1] \in Time \cup 0 .. Len(v1)
        /\ op = "setdiff" /\ Same /\ Gathered
    BY VectorTypes, InBoth DEF Setdiff
  <1>1. SetdiffOK(v1, v2, i1, i2, res)
    BY <1>0 DEF Gathered
  <1>2. CASE Less /\ Take1 /\ Add(v1[i1])
    <2>1. SetdiffOK(v1, v2, i1 + 1, i2, Append(res, v1[i1]))
      BY <1>0, <1>1, <1>2, SetdiffTurn DEF Less
    <2>2. Gathered'
      BY <1>0, <1>2, <2>1 DEF Gathered, Take1, Add, Same
    <2> QED
      BY <1>0, <1>2, <2>2, LoopTurn DEF Take1, Add, Grows
  <1>3. CASE Greater /\ Take2 /\ Keep
    <2>1. SetdiffOK(v1, v2, i1, i2 + 1, res)
      BY <1>0, <1>1, <1>3, SetdiffTurn DEF Greater
    <2>2. Gathered'
      BY <1>0, <1>3, <2>1 DEF Gathered, Take2, Keep, Same
    <2> QED
      BY <1>0, <1>3, <2>2, LoopTurn DEF Take2, Keep, Grows
  <1>4. CASE Equal /\ Take1 /\ Keep
    <2>1. SetdiffOK(v1, v2, i1 + 1, i2, res)
      BY <1>0, <1>1, <1>4, SetdiffTurn DEF Equal, Less
    <2>2. Gathered'
      BY <1>0, <1>4, <2>1 DEF Gathered, Take1, Keep, Same
    <2> QED
      BY <1>0, <1>4, <2>2, LoopTurn DEF Take1, Keep, Grows
  <1> QED
    BY <1>2, <1>3, <1>4 DEF Setdiff

LEMMA IntersectIdxStep ==
    ASSUME SetInv, IntersectIdx
    PROVE  SetInv'
  <1>0. /\ Sorted(v1, v2) /\ i1 \in 1 .. Len(v1) /\ i2 \in 1 .. Len(v2) /\ pc = "loop"
        /\ i1 \in 1 .. Len(v1) + 1 /\ i2 \in 1 .. Len(v2) + 1
        /\ i1 + 1 \in 1 .. Len(v1) + 1 /\ i2 + 1 \in 1 .. Len(v2) + 1
        /\ i1 \in Time \cup 0 .. Len(v1) /\ i2 \in 0 .. Len(v2)
        /\ op = "intersect_idx" /\ Same /\ Gathered
    BY VectorTypes, InBoth DEF IntersectIdx
  <1>1. InOrder => IntersectIdxOK(v1, v2, i1, i2, res, res2)
    BY <1>0 DEF Gathered
  <1>i. InOrder' = InOrder
    BY <1>0 DEF Same, InOrder
  <1>2. CASE Less /\ Take1 /\ Keep
    <2>1. InOrder => IntersectIdxOK(v1, v2, i1 + 1, i2, res, res2)
      BY <1>0, <1>1, <1>2, IntersectIdxTurn DEF Less
    <2>2. Gathered'
      BY <1>0, <1>i, <1>2, <2>1 DEF Gathered, Take1, Keep, Same
    <2> QED
      BY <1>0, <1>2, <2>2, LoopTurn DEF Take1, Keep, Grows
  <1>3. CASE Greater /\ Take2 /\ Keep
    <2>1. InOrder => IntersectIdxOK(v1, v2, i1, i2 + 1, res, res2)
      BY <1>0, <1>1, <1>3, IntersectIdxTurn DEF Greater
    <2>2. Gathered'
      BY <1>0, <1>i, <1>3, <2>1 DEF Gathered, Take2, Keep, Same
    <2> QED
      BY <1>0, <1>3, <2>2, LoopTurn DEF Take2, Keep, Grows
  <1>4. CASE Equal /\ i1 = 1 /\ Throw
    BY <1>0, <1>4, LoopTurn DEF Throw, Grows
  <1>5. CASE Equal /\ i1 > 1 /\ Take1 /\ IF v1[i1] # v1[i1 - 1] THEN AddPair(i1, i2) ELSE Keep
    <2>1. InOrder => v1[i1] # v1[i1 - 1]
      <3> SUFFICES ASSUME InOrder
                   PROVE  v1[i1 - 1] < v1[i1] /\ v1[i1 - 1] \in Nat /\ v1[i1] \in Nat
        OBVIOUS
      <3>1. i1 - 1 \in 1 .. Len(v1) /\ i1 - 1 < i1
        BY <1>0, <1>5, VectorTypes
      <3> QED
        BY <1>0, <3>1, VectorTypes DEF Rising
    <2>2. InOrder => IntersectIdxOK(v1, v2, i1 + 1, i2, Append(res, i1), Append(res2, i2))
      BY <1>0, <1>1, <1>5, IntersectIdxTurn DEF Equal, Less
    <2>3. CASE AddPair(i1, i2)
      <3>1. Gathered'
        BY <1>0, <1>i, <1>5, <2>2, <2>3 DEF Gathered, Take1, AddPair, Same
      <3> QED
        BY <1>0, <1>5, <2>3, <3>1, LoopTurn DEF Take1, AddPair, Grows
    <2>4. CASE v1[i1] = v1[i1 - 1] /\ Keep
      <3>1. Gathered'
        BY <1>0, <1>i, <2>1, <2>4 DEF Gathered, Same
      <3> QED
        BY <1>0, <1>5, <2>4, <3>1, LoopTurn DEF Take1, Keep, Grows
    <2> QED
      BY <1>5, <2>3, <2>4
  <1> QED
    BY <1>2, <1>3, <1>4, <1>5 DEF IntersectIdx

\* The comparisons of scalars are those of their starts.
LEMMA Comparisons ==
    ASSUME SetInv, Both, kind = "scalar"
    PROVE  /\ Less <=> v1[i1] < Starts(v2)[i2]
           /\ Greater <=> Starts(v2)[i2] < v1[i1]
           /\ Equal <=> v1[i1] = Starts(v2)[i2]
           /\ Starts(v2)[i2] = v2[i2].s
  <1>1. /\ AllScalar(v2) /\ i2 \in 1 .. Len(v2) /\ v1[i1] \in Nat /\ v2[i2].s \in Nat
    BY InBoth, VectorTypes
  <1>2. /\ time_lt(v1[i1], v2[i2]) <=> v1[i1] < Starts(v2)[i2]
        /\ time_gt(v1[i1], v2[i2]) <=> Starts(v2)[i2] < v1[i1]
        /\ Starts(v2)[i2] = v2[i2].s
    BY <1>1, ScalarTurn
  <1>3. Starts(v2)[i2] \in Nat
    BY <1>1, <1>2
  <1> QED
    BY <1>1, <1>2, <1>3 DEF Less, Greater, Equal

LEMMA UnionStep ==
    ASSUME SetInv, Union
    PROVE  SetInv'
  <1> DEFINE S == Starts(v2)
  <1>0. /\ Numbers2(v1, S) /\ Numbers2(S, v1) /\ i1 \in 1 .. Len(v1) /\ i2 \in 1 .. Len(S) /\ pc = "loop"
        /\ i1 \in 1 .. Len(v1) + 1 /\ i2 \in 1 .. Len(S) + 1 /\ Len(S) = Len(v2)
        /\ i1 + 1 \in 1 .. Len(v1) + 1 /\ i2 + 1 \in 1 .. Len(v2) + 1
        /\ v1[i1] \in Time \cup 0 .. Len(v1) /\ v2[i2].s \in Time \cup 0 .. Len(v1)
        /\ op = "union" /\ kind = "scalar" /\ Same /\ Both /\ Gathered
    BY VectorTypes, InBoth, UnionTurned DEF Union
  <1>1. UnionOK(v1, S, i1, i2, res) /\ UnionOK(S, v1, i2, i1, res)
    BY <1>0, UnionTurned DEF Gathered
  <1>c. /\ Less <=> v1[i1] < S[i2]
        /\ Greater <=> S[i2] < v1[i1]
        /\ Equal <=> v1[i1] = S[i2]
        /\ S[i2] = v2[i2].s
    BY <1>0, Comparisons
  <1>s. Starts(v2)' = S
    BY <1>0 DEF Same, Starts
  <1> HIDE DEF S
  <1>2. CASE Less /\ Take1 /\ IF IsNew(v1[i1]) THEN Add(v1[i1]) ELSE Keep
    <2>1. UnionOK(v1, S, i1 + 1, i2, OneOf(res, v1[i1]))
      BY <1>0, <1>1, <1>c, <1>2, UnionLess
    <2>2. res' = OneOf(res, v1[i1]) /\ res2' = res2 /\ pc' = pc
      BY <1>2 DEF IsNew, Add, Keep, OneOf
    <2>3. Grows(Time \cup 0 .. Len(v1), res, res')
      BY <1>0, <2>2 DEF Grows, OneOf
    <2>4. Gathered'
      BY <1>0, <1>s, <1>2, <2>1, <2>2 DEF Gathered, Take1, Same
    <2> QED
      BY <1>0, <1>2, <2>2, <2>3, <2>4, LoopTurn DEF Take1, Grows
  <1>3. CASE Greater /\ Take2 /\ IF IsNew(v2[i2].s) THEN Add(v2[i2].s) ELSE Keep
    <2>1. UnionOK(S, v1, i2 + 1, i1, OneOf(res, S[i2]))
      BY <1>0, <1>1, <1>c, <1>3, UnionLess
    <2>2. res' = OneOf(res, S[i2]) /\ res2' = res2 /\ pc' = pc
      BY <1>c, <1>3 DEF IsNew, Add, Keep, OneOf
    <2>3. Grows(Time \cup 0 .. Len(v1), res, res')
      BY <1>0, <1>c, <2>2 DEF Grows, OneOf
    <2>4. UnionOK(v1, S, i1, i2 + 1, OneOf(res, S[i2]))
      BY <2>1, UnionTurned
    <2>5. Gathered'
      BY <1>0, <1>s, <1>3, <2>2, <2>4 DEF Gathered, Take2, Same
    <2> QED
      BY <1>0, <1>3, <2>2, <2>3, <2>5, LoopTurn DEF Take2, Grows
  <1>4. CASE Equal /\ i1' = i1 + 1 /\ i2' = i2 + 1 /\ IF IsNew(v1[i1]) THEN Add(v1[i1]) ELSE Keep
    <2>1. UnionOK(v1, S, i1 + 1, i2 + 1, OneOf(res, v1[i1]))
      BY <1>0, <1>1, <1>c, <1>4, UnionEqual
    <2>2. res' = OneOf(res, v1[i1]) /\ res2' = res2 /\ pc' = pc
      BY <1>4 DEF IsNew, Add, Keep, OneOf
    <2>3. Grows(Time \cup 0 .. Len(v1), res, res')
      BY <1>0, <2>2 DEF Grows, OneOf
    <2>4. Gathered'
      BY <1>0, <1>s, <1>4, <2>1, <2>2 DEF Gathered, Same
    <2> QED
      BY <1>0, <1>4, <2>2, <2>3, <2>4, LoopTurn DEF Grows
  <1> QED
    BY <1>2, <1>3, <1>4 DEF Union

\* In a rising vector every element differs from the one before it.
LEMMA DiffersBefore ==
    ASSUME NEW s \in Seq(Nat), Rising(s), NEW i \in 1 .. Len(s)
    PROVE  Differs(s, i, s[i])
  <1> SUFFICES ASSUME i # 1
               PROVE  s[i] # s[i - 1]
    BY DEF Differs
  <1>1. i - 1 \in 1 .. Len(s) /\ i - 1 < i
    BY LenProperties
  <1>2. s[i - 1] < s[i] /\ s[i] \in Nat /\ s[i - 1] \in Nat
    BY <1>1, ElementOfSeq DEF Rising
  <1> QED
    BY <1>2

LEMMA UnionIdxStep ==
    ASSUME SetInv, UnionIdx
    PROVE  SetInv'
  <1> DEFINE S == Starts(v2)
  <1>0. /\ i1 \in 1 .. Len(v1) /\ i2 \in 1 .. Len(S) /\ pc = "loop"
        /\ i1 \in 1 .. Len(v1) + 1 /\ i2 \in 1 .. Len(S) + 1 /\ Len(S) = Len(v2)
        /\ i1 + 1 \in 1 .. Len(v1) + 1 /\ i2 + 1 \in 1 .. Len(v2) + 1
        /\ i1 \in Time \cup 0 .. Len(v1) /\ 0 \in Time \cup 0 .. Len(v1)
        /\ i2 \in 0 .. Len(v2) /\ 0 \in 0 .. Len(v2)
        /\ op = "union_idx" /\ kind = "scalar" /\ Same /\ Both /\ Gathered
    BY VectorTypes, InBoth DEF UnionIdx
  <1>1. InOrder => UnionIdxOK(v1, S, i1, i2, res, res2) /\ Distinct(v1, S)
    BY <1>0, VectorTypes DEF Gathered
  <1>c. /\ Less <=> v1[i1] < S[i2]
        /\ Greater <=> S[i2] < v1[i1]
        /\ Equal <=> v1[i1] = S[i2]
        /\ S[i2] = v2[i2].s
    BY <1>0, Comparisons
  <1>s. Starts(v2)' = S /\ (InOrder' <=> InOrder)
    BY <1>0 DEF Same, Starts, InOrder
  <1> HIDE DEF S
  <1>d. InOrder => Differs(v1, i1, v1[i1])
    BY <1>0, <1>1, DiffersBefore DEF Distinct, Numbers2
  <1>k. ASSUME ~InOrder, i1' \in 1 .. Len(v1) + 1, i2' \in 1 .. Len(v2) + 1, Keep
        PROVE  SetInv'
    <2>1. Gathered'
      BY <1>0, <1>s, <1>k DEF Gathered, Same
    <2> QED
      BY <1>0, <1>k, <2>1, LoopTurn DEF Keep, Grows
  <1>a. ASSUME NEW p \in 0 .. Len(v1), NEW q \in 0 .. Len(v2), AddPair(p, q), p \in Time \cup 0 .. Len(v1),
               i1' \in 1 .. Len(v1) + 1, i2' \in 1 .. Len(v2) + 1,
               InOrder => UnionIdxOK(v1, S, i1', i2', Append(res, p), Append(res2, q))
        PROVE  SetInv'
    <2>1. Gathered'
      BY <1>0, <1>s, <1>a DEF Gathered, Same, AddPair
    <2>2. Grows(Time \cup 0 .. Len(v1), res, res') /\ Grows(0 .. Len(v2), res2, res2') /\ pc' = pc
      BY <1>a DEF AddPair, Grows
    <2> QED
      BY <1>0, <1>a, <2>1, <2>2, LoopTurn
  <1>2. CASE Less /\ Take1 /\ IF Differs(v1, i1, v1[i1]) THEN AddPair(i1, NaN) ELSE Keep
    <2>1. InOrder => UnionIdxOK(v1, S, i1 + 1, i2, Append(res, i1), Append(res2, 0))
      BY <1>0, <1>1, <1>c, <1>2, UnionIdxLess
    <2>2. i1' = i1 + 1 /\ i2' = i2 /\ i1 \in 0 .. Len(v1)
      BY <1>0, <1>2, VectorTypes DEF Take1
    <2> QED
      BY <1>0, <1>d, <1>k, <1>a, <1>2, <2>1, <2>2 DEF NaN
  <1>3. CASE Greater /\ i2 > Len(v1) + 1 /\ Throw
    BY <1>0, <1>3, LoopTurn DEF Throw, Grows
  <1>4. CASE /\ Greater /\ i2 <= Len(v1) + 1 /\ Take2
             /\ IF Differs(v1, i2, v2[i2].s) THEN AddPair(NaN, i2) ELSE Keep
    <2>1. InOrder => UnionIdxOK(v1, S, i1, i2 + 1, Append(res, 0), Append(res2, i2))
      BY <1>0, <1>1, <1>c, <1>4, UnionIdxGreater
    <2>2. InOrder => Differs(v1, i2, v2[i2].s)
      BY <1>0, <1>1, <1>c, <1>4, NeverTheSame DEF Differs, UnionIdxOK
    <2>3. i2' = i2 + 1 /\ i1' = i1 /\ 0 \in 0 .. Len(v1)
      BY <1>0, <1>4, VectorTypes DEF Take2
    <2> QED
      BY <1>0, <1>k, <1>a, <1>4, <2>1, <2>2, <2>3 DEF NaN
  <1>5. CASE /\ Equal /\ i1' = i1 + 1 /\ i2' = i2 + 1
             /\ IF Differs(v1, i1, v1[i1]) THEN AddPair(i1, i2) ELSE Keep
    <2>1. InOrder => UnionIdxOK(v1, S, i1 + 1, i2 + 1, Append(res, i1), Append(res2, i2))
      BY <1>0, <1>1, <1>c, <1>5, UnionIdxEqual
    <2>2. i1 \in 0 .. Len(v1)
      BY <1>0, VectorTypes
    <2> QED
      BY <1>0, <1>d, <1>k, <1>a, <1>5, <2>1, <2>2
  <1> QED
    BY <1>2, <1>3, <1>4, <1>5 DEF UnionIdx

LEMMA SetdiffIdxStep ==
    ASSUME SetInv, SetdiffIdx
    PROVE  SetInv'
  <1> DEFINE S == Starts(v2)
             C == InOrder /\ kind = "scalar"
  <1>0. /\ i1 \in 1 .. Len(v1) /\ i2 \in 1 .. Len(S) /\ pc = "loop"
        /\ i1 \in 1 .. Len(v1) + 1 /\ i2 \in 1 .. Len(S) + 1 /\ Len(S) = Len(v2)
        /\ i1 + 1 \in 1 .. Len(v1) + 1 /\ i2 + 1 \in 1 .. Len(v2) + 1
        /\ i1 \in Time \cup 0 .. Len(v1) /\ i2 \in 0 .. Len(v2)
        /\ op = "setdiff_idx" /\ Same /\ Both /\ Gathered
    BY VectorTypes, InBoth DEF SetdiffIdx
  <1>1. C => /\ SetdiffIdxOK(v1, S, i1, i2, res, res2) /\ Distinct(v1, S)
             /\ SetdiffIdxOK(S, v1, i2, i1, res2, res) /\ Distinct(S, v1)
    BY <1>0, VectorTypes, SetdiffIdxTurned, UnionTurned DEF Gathered, Distinct
  <1>c. kind = "scalar" => /\ Less <=> v1[i1] < S[i2]
                           /\ Greater <=> S[i2] < v1[i1]
                           /\ Equal <=> v1[i1] = S[i2]
    BY <1>0, Comparisons
  <1>s. Starts(v2)' = S /\ (InOrder' <=> InOrder) /\ kind' = kind
    BY <1>0 DEF Same, Starts, InOrder
  <1> HIDE DEF S
  <1>2. CASE Less /\ Take1 /\ res' = Append(res, i1) /\ UNCHANGED <<res2, pc>>
    <2>1. C => SetdiffIdxOK(v1, S, i1 + 1, i2, Append(res, i1), res2)
      BY <1>0, <1>1, <1>c, <1>2, SetdiffIdxLess
    <2>2. Gathered'
      BY <1>0, <1>s, <1>2, <2>1 DEF Gathered, Take1, Same
    <2> QED
      BY <1>0, <1>2, <2>2, LoopTurn DEF Take1, Grows
  <1>3. CASE Greater /\ Take2 /\ res2' = Append(res2, i2) /\ UNCHANGED <<res, pc>>
    <2>1. C => SetdiffIdxOK(S, v1, i2 + 1, i1, Append(res2, i2), res)
      BY <1>0, <1>1, <1>c, <1>3, SetdiffIdxLess
    <2>2. C => SetdiffIdxOK(v1, S, i1, i2 + 1, res, Append(res2, i2))
      BY <2>1, SetdiffIdxTurned
    <2>3. Gathered'
      BY <1>0, <1>s, <1>3, <2>2 DEF Gathered, Take2, Same
    <2> QED
      BY <1>0, <1>3, <2>3, LoopTurn DEF Take2, Grows
  <1>4. CASE Equal /\ i1' = i1 + 1 /\ i2' = i2 + 1 /\ Keep
    <2>1. C => SetdiffIdxOK(v1, S, i1 + 1, i2 + 1, res, res2)
      BY <1>0, <1>1, <1>c, <1>4, SetdiffIdxEqual
    <2>2. Gathered'
      BY <1>0, <1>s, <1>4, <2>1 DEF Gathered, Keep, Same
    <2> QED
      BY <1>0, <1>4, <2>2, LoopTurn DEF Keep, Grows
  <1> QED
    BY <1>2, <1>3, <1>4 DEF SetdiffIdx

\* What is left of the first vector when the second is at its end.
LEMMA Rest1Step ==
    ASSUME SetInv, Rest1
    PROVE  SetInv'
  <1> DEFINE S == Starts(v2)
  <1>0. /\ Sorted(v1, v2) /\ Numbers2(v1, S) /\ i1 \in 1 .. Len(v1) /\ pc = "loop" /\ Len(S) = Len(v2)
        /\ i2 \in 1 .. Len(v2) + 1 /\ i2 \in 1 .. Len(S) + 1 /\ ~(i2 <= Len(v2))
        /\ i2 = Len(S) + 1
        /\ i1 + 1 \in 1 .. Len(v1) + 1 /\ v1[i1] \in Time \cup 0 .. Len(v1) /\ i1 \in 0 .. Len(v1)
        /\ i1 \in Time \cup 0 .. Len(v1) /\ 0 \in 0 .. Len(v2)
        /\ Same /\ i1' = i1 + 1 /\ i2' = i2 /\ Gathered
    <2>1. /\ Sorted(v1, v2) /\ Numbers2(v1, S) /\ Len(S) = Len(v2)
          /\ Len(v1) \in Nat /\ Len(v2) \in Nat /\ \A k \in 1 .. Len(v1) : v1[k] \in Time
          /\ i1 \in 1 .. Len(v1) + 1 /\ i2 \in 1 .. Len(v2) + 1
      BY VectorTypes
    <2>2. pc = "loop" /\ i1 <= Len(v1) /\ ~(i2 <= Len(v2)) /\ Same /\ i1' = i1 + 1 /\ i2' = i2 /\ Gathered
      BY DEF Rest1, Left1, In1, In2, Take1, SetInv
    <2> HIDE DEF S
    <2> QED
      BY <2>1, <2>2
  <1>s. Starts(v2)' = S /\ (InOrder' <=> InOrder) /\ kind' = kind /\ op' = op /\ v1' = v1 /\ v2' = v2
    BY <1>0 DEF Same, Starts, InOrder
  <1>d. InOrder /\ kind = "scalar" => Distinct(v1, S)
    BY VectorTypes
  <1> HIDE DEF S
  <1>t. ASSUME Grows(Time \cup 0 .. Len(v1), res, res'), Grows(0 .. Len(v2), res2, res2'), pc' = pc, Gathered'
        PROVE  SetInv'
    BY <1>0, <1>t, LoopTurn
  <1>1. CASE op = "union" /\ IF Differs(v1, i1, v1[i1]) THEN Add(v1[i1]) ELSE Keep
    <2>1. UnionOK(v1, S, i1, Len(S) + 1, res)
      BY <1>0, <1>1 DEF Gathered, S
    <2>2. UnionOK(v1, S, i1 + 1, Len(S) + 1, res')
      BY <1>0, <1>1, <2>1, UnionRest DEF Differs, Add, Keep
    <2>3. Gathered'
      BY <1>0, <1>s, <1>1, <2>2 DEF Gathered
    <2> QED
      BY <1>0, <1>1, <1>t, <2>3 DEF Add, Keep, Grows
  <1>2. CASE op = "union_idx" /\ IF Differs(v1, i1, v1[i1]) THEN AddPair(i1, NaN) ELSE Keep
    <2>1. kind = "scalar"
      BY <1>2, VectorTypes
    <2>2. CASE AddPair(i1, NaN)
      <3>1. InOrder => UnionIdxOK(v1, S, i1, i2, res, res2) /\ Distinct(v1, S)
        BY <1>0, <1>d, <1>2, <2>1 DEF Gathered, S
      <3>2. InOrder => UnionIdxOK(v1, S, i1 + 1, i2, Append(res, i1), Append(res2, 0))
        BY <1>0, <3>1, UnionIdxLess
      <3>3. Gathered'
        BY <1>0, <1>s, <1>2, <2>2, <3>2 DEF Gathered, AddPair, NaN
      <3> QED
        BY <1>0, <1>t, <2>2, <3>3 DEF AddPair, NaN, Grows
    <2>3. CASE ~Differs(v1, i1, v1[i1]) /\ Keep
      <3>1. ~InOrder
        BY <1>0, <1>d, <2>1, <2>3, DiffersBefore DEF Distinct, Numbers2
      <3>2. Gathered'
        BY <1>0, <1>s, <1>2, <3>1 DEF Gathered
      <3> QED
        BY <1>t, <2>3, <3>2 DEF Keep, Grows
    <2> QED
      BY <1>2, <2>2, <2>3
  <1>3. CASE op = "setdiff" /\ Add(v1[i1])
    <2>1. SetdiffOK(v1, v2, i1, i2, res)
      BY <1>0, <1>3 DEF Gathered
    <2>2. SetdiffOK(v1, v2, i1 + 1, i2, Append(res, v1[i1]))
      BY <1>0, <2>1, SetdiffFree
    <2>3. Gathered'
      BY <1>0, <1>s, <1>3, <2>2 DEF Gathered, Add
    <2> QED
      BY <1>0, <1>3, <1>t, <2>3 DEF Add, Grows
  <1>4. CASE op = "setdiff_idx" /\ Add(i1)
    <2>1. InOrder /\ kind = "scalar" => SetdiffIdxOK(v1, S, i1, i2, res, res2) /\ Distinct(v1, S)
      BY <1>0, <1>d, <1>4 DEF Gathered, S
    <2>2. InOrder /\ kind = "scalar" => SetdiffIdxOK(v1, S, i1 + 1, i2, Append(res, i1), res2)
      BY <1>0, <2>1, SetdiffIdxLess
    <2>3. Gathered'
      BY <1>0, <1>s, <1>4, <2>2 DEF Gathered, Add
    <2> QED
      BY <1>0, <1>4, <1>t, <2>3 DEF Add, Grows
  <1>5. op \in Ops \ {"intersect", "intersect_idx"}
    BY DEF Rest1, Left1, SetInv
  <1> QED
    BY <1>1, <1>2, <1>3, <1>4, <1>5 DEF Rest1, Ops

LEMMA IsScalar ==
    ASSUME NEW r \in IntervalRecord, r.s = r.e, ~r.sopen, ~r.eopen
    PROVE  r = Scalar(r.s)
  <1>1. r = [s |-> r.s, e |-> r.e, sopen |-> r.sopen, eopen |-> r.eopen]
        /\ r.sopen \in BOOLEAN /\ r.eopen \in BOOLEAN
    BY DEF IntervalRecord
  <1>2. r.sopen = FALSE /\ r.eopen = FALSE
    BY <1>1, Zenon
  <1>3. r = [s |-> r.s, e |-> r.s, sopen |-> FALSE, eopen |-> FALSE]
    BY <1>1, <1>2, Zenon
  <1> QED
    BY <1>3 DEF Scalar, Interval

\* Elements of the second vector, as scalars, differ when their starts do.
LEMMA ScalarsDiffer ==
    ASSUME NEW B \in Seq(IntervalRecord), AllScalar(B), NEW j \in 1 .. Len(B)
    PROVE  Differs(B, j, B[j]) <=> Differs(Starts(B), j, Starts(B)[j])
  <1>1. CASE j = 1
    BY <1>1 DEF Differs
  <1>2. CASE j # 1
    <2>1. j - 1 \in 1 .. Len(B)
      BY <1>2, LenProperties
    <2>2. B[j] \in IntervalRecord /\ B[j - 1] \in IntervalRecord
      BY <2>1, ElementOfSeq
    <2>3. /\ B[j].s = B[j].e /\ ~B[j].sopen /\ ~B[j].eopen
          /\ B[j - 1].s = B[j - 1].e /\ ~B[j - 1].sopen /\ ~B[j - 1].eopen
      BY <2>1 DEF AllScalar
    <2>4. B[j] = Scalar(B[j].s) /\ B[j - 1] = Scalar(B[j - 1].s)
      BY <2>2, <2>3, IsScalar
    <2>5. Starts(B)[j] = B[j].s /\ Starts(B)[j - 1] = B[j - 1].s
      BY <2>1 DEF Starts
    <2> QED
      BY <1>2, <2>4, <2>5 DEF Differs
  <1> QED
    BY <1>1, <1>2

LEMMA Rest2Step ==
    ASSUME SetInv, Rest2
    PROVE  SetInv'
  <1> DEFINE S == Starts(v2)
  <1>0. /\ Numbers2(v1, S) /\ Numbers2(S, v1) /\ i2 \in 1 .. Len(v2) /\ i2 \in 1 .. Len(S) /\ pc = "loop"
        /\ i1 \in 1 .. Len(v1) + 1 /\ ~(i1 <= Len(v1)) /\ i1 = Len(v1) + 1
        /\ i2 + 1 \in 1 .. Len(v2) + 1 /\ S[i2] = v2[i2].s /\ S[i2] \in Time \cup 0 .. Len(v1)
        /\ i2 \in 0 .. Len(v2) /\ 0 \in Time \cup 0 .. Len(v1)
        /\ Same /\ i2' = i2 + 1 /\ i1' = i1 /\ Gathered
    <2>1. /\ Numbers2(v1, S) /\ Numbers2(S, v1) /\ Len(S) = Len(v2)
          /\ Len(v1) \in Nat /\ Len(v2) \in Nat /\ \A k \in 1 .. Len(v2) : v2[k] \in IntervalRecord
          /\ i1 \in 1 .. Len(v1) + 1 /\ i2 \in 1 .. Len(v2) + 1
      BY VectorTypes, UnionTurned
    <2>2. pc = "loop" /\ i2 <= Len(v2) /\ ~(i1 <= Len(v1)) /\ Same /\ i2' = i2 + 1 /\ i1' = i1 /\ Gathered
      BY DEF Rest2, Left2, In1, In2, Take2, SetInv
    <2>3. i2 \in 1 .. Len(v2)
      BY <2>1, <2>2
    <2>4. S[i2] = v2[i2].s /\ v2[i2].s \in Time
      BY <2>1, <2>3 DEF Starts, IntervalRecord
    <2> HIDE DEF S
    <2> QED
      BY <2>1, <2>2, <2>3, <2>4
  <1>s. Starts(v2)' = S /\ (InOrder' <=> InOrder) /\ kind' = kind /\ op' = op /\ v1' = v1 /\ v2' = v2
    BY <1>0 DEF Same, Starts, InOrder
  <1>d. InOrder /\ kind = "scalar" => Distinct(v1, S) /\ Distinct(S, v1)
    BY VectorTypes, UnionTurned DEF Distinct
  <1>f. kind = "scalar" => (Differs(v2, i2, v2[i2]) <=> Differs(S, i2, S[i2]))
    BY <1>0, VectorTypes, ScalarsDiffer DEF Sorted
  <1> HIDE DEF S
  <1>t. ASSUME Grows(Time \cup 0 .. Len(v1), res, res'), Grows(0 .. Len(v2), res2, res2'), pc' = pc, Gathered'
        PROVE  SetInv'
    BY <1>0, <1>t, LoopTurn, VectorTypes
  <1>1. CASE op = "union" /\ IF Differs(v2, i2, v2[i2]) THEN Add(v2[i2].s) ELSE Keep
    <2>1. UnionOK(S, v1, i2, Len(v1) + 1, res)
      BY <1>0, <1>1, UnionTurned DEF Gathered, S
    <2>2. kind = "scalar"
      BY <1>1, VectorTypes
    <2>3. UnionOK(S, v1, i2 + 1, Len(v1) + 1, res')
      BY <1>0, <1>1, <1>f, <2>1, <2>2, UnionRest DEF Differs, Add, Keep
    <2>4. UnionOK(v1, S, Len(v1) + 1, i2 + 1, res')
      BY <2>3, UnionTurned
    <2>5. Gathered'
      BY <1>0, <1>s, <1>1, <2>4 DEF Gathered
    <2> QED
      BY <1>0, <1>1, <1>t, <2>5 DEF Add, Keep, Grows
  <1>2. CASE op = "union_idx" /\ IF Differs(v2, i2, v2[i2]) THEN AddPair(NaN, i2) ELSE Keep
    <2>1. kind = "scalar"
      BY <1>2, VectorTypes
    <2>2. CASE AddPair(NaN, i2)
      <3>1. InOrder => UnionIdxOK(v1, S, i1, i2, res, res2) /\ Distinct(v1, S)
        BY <1>0, <1>d, <1>2, <2>1 DEF Gathered, S
      <3>2. InOrder => UnionIdxOK(v1, S, i1, i2 + 1, Append(res, 0), Append(res2, i2))
        BY <1>0, <3>1, UnionIdxGreater
      <3>3. Gathered'
        BY <1>0, <1>s, <1>2, <2>2, <3>2 DEF Gathered, AddPair, NaN
      <3> QED
        BY <1>0, <1>t, <2>2, <3>3 DEF AddPair, NaN, Grows
    <2>3. CASE ~Differs(v2, i2, v2[i2]) /\ Keep
      <3>1. ~InOrder
        BY <1>0, <1>d, <1>f, <2>1, <2>3, DiffersBefore DEF Distinct, Numbers2
      <3>2. Gathered'
        BY <1>0, <1>s, <1>2, <3>1 DEF Gathered
      <3> QED
        BY <1>t, <2>3, <3>2 DEF Keep, Grows
    <2> QED
      BY <1>2, <2>2, <2>3
  <1>3. CASE op = "setdiff_idx" /\ res2' = Append(res2, i2) /\ UNCHANGED <<res, pc>>
    <2>1. InOrder /\ kind = "scalar" => SetdiffIdxOK(S, v1, i2, i1, res2, res) /\ Distinct(S, v1)
      BY <1>0, <1>d, <1>3, SetdiffIdxTurned DEF Gathered, S
    <2>2. InOrder /\ kind = "scalar" => SetdiffIdxOK(S, v1, i2 + 1, i1, Append(res2, i2), res)
      BY <1>0, <2>1, SetdiffIdxLess
    <2>3. InOrder /\ kind = "scalar" => SetdiffIdxOK(v1, S, i1, i2 + 1, res, Append(res2, i2))
      BY <2>2, SetdiffIdxTurned
    <2>4. Gathered'
      BY <1>0, <1>s, <1>3, <2>3 DEF Gathered
    <2> QED
      BY <1>0, <1>3, <1>t, <2>4 DEF Grows
  <1>4. op \in {"union", "union_idx", "setdiff_idx"}
    BY DEF Rest2, Left2
  <1> QED
    BY <1>1, <1>2, <1>3, <1>4 DEF Rest2

LEMMA SetStep == SetInv /\ [Next]_vars => SetInv'
  <1> SUFFICES ASSUME SetInv, [Next]_vars
               PROVE  SetInv'
    OBVIOUS
  <1>1. CASE \E o \in Ops, k \in {"scalar", "interval"} : Call(o, k)
    BY <1>1, CallStep
  <1>2. CASE Finish
    <2>1. UNCHANGED <<op, kind, x, y, v1, v2, i1, i2, res, res2>> /\ pc = "loop" /\ pc' = "done" /\ Finished
      BY <1>2 DEF Finish, Finished
    <2>2. Arguments' /\ TypeOK'
      BY <2>1 DEF SetInv, Arguments, Allowed, TypeOK
    <2>3. Gathered' /\ Finished'
      BY <2>1 DEF SetInv, Gathered, InOrder, Finished, In1, In2, Left1, Left2
    <2> QED
      BY <2>1, <2>2, <2>3 DEF SetInv
  <1>3. CASE UNCHANGED vars
    BY <1>3 DEF vars, SetInv, Arguments, Allowed, TypeOK, Gathered, InOrder, Finished, In1, In2, Left1, Left2
  <1> QED
    BY <1>1, <1>2, <1>3, IntersectStep, IntersectIdxStep, UnionStep, UnionIdxStep, SetdiffStep,
       SetdiffIdxStep, Rest1Step, Rest2Step DEF Next

(***************************************************************************)
(* What has been gathered at the end is what the function should return.   *)
(***************************************************************************)
LEMMA HeldElements ==
    ASSUME NEW A, NEW B
    PROVE  /\ {A[k] : k \in HeldAt(A, B)} = {t \in Elems(A) : \E i \in Elems(B) : Within(t, i)}
           /\ {A[k] : k \in FreeAt(A, B)} = Elems(A) \ {t \in Elems(A) : \E i \in Elems(B) : Within(t, i)}
  <1>1. ASSUME NEW k \in 1 .. Len(A)
        PROVE  k \in HeldAt(A, B) <=> \E i \in Elems(B) : Within(A[k], i)
    BY DEF HeldAt, All, Elems
  <1>2. HeldAt(A, B) \subseteq 1 .. Len(A) /\ FreeAt(A, B) = (1 .. Len(A)) \ HeldAt(A, B)
    BY DEF HeldAt, FreeAt, All
  <1>3. Elems(A) = {A[k] : k \in 1 .. Len(A)}
    BY DEF Elems
  <1> QED
    BY <1>1, <1>2, <1>3

LEMMA AtTheEnd ==
    ASSUME SetInv, pc = "done"
    PROVE  /\ i1 = Len(v1) + 1 \/ i2 = Len(v2) + 1
           /\ op \notin {"intersect", "intersect_idx"} => i1 = Len(v1) + 1
           /\ op \in {"union", "union_idx", "setdiff_idx"} => i2 = Len(v2) + 1
  <1>1. Len(v1) \in Nat /\ Len(v2) \in Nat /\ i1 \in 1 .. Len(v1) + 1 /\ i2 \in 1 .. Len(v2) + 1
    BY VectorTypes
  <1>2. Finished
    BY DEF SetInv
  <1> QED
    BY <1>1, <1>2 DEF Finished, In1, In2, Left1, Left2

LEMMA SameElements ==
    ASSUME SetInv
    PROVE  /\ Elems(v1) = Elems(x) /\ Elems(v2) = Elems(y)
           /\ Held = {t \in Elems(v1) : \E i \in Elems(v2) : Within(t, i)}
           /\ Others = Elems(Starts(v2))
  <1>1. Elems(v1) = Elems(x) /\ Elems(v2) = Elems(y)
    BY DEF SetInv, Arguments
  <1>2. Elems(Starts(v2)) = {v2[j].s : j \in 1 .. Len(v2)}
    <2>1. Len(Starts(v2)) = Len(v2)
      BY VectorTypes
    <2> QED
      BY <2>1 DEF Elems, Starts
  <1>3. Others = {i.s : i \in Elems(v2)}
    BY <1>1 DEF Others
  <1>4. {i.s : i \in Elems(v2)} = {v2[j].s : j \in 1 .. Len(v2)}
    BY DEF Elems
  <1> QED
    BY <1>1, <1>2, <1>3, <1>4 DEF Held

LEMMA NeighboursOf ==
    ASSUME NEW r \in Seq(Nat)
    PROVE  /\ Rising(r) => \A i \in 1 .. Len(r) - 1 : r[i] < r[i + 1]
           /\ Ascending(r) => \A i \in 1 .. Len(r) - 1 : r[i] < r[i + 1] \/ r[i] = r[i + 1]
  <1>1. Len(r) \in Nat /\ \A i \in 1 .. Len(r) : r[i] \in Nat
    BY LenProperties, ElementOfSeq
  <1>2. ASSUME NEW i \in 1 .. Len(r) - 1
        PROVE  /\ Rising(r) => r[i] < r[i + 1]
               /\ Ascending(r) => r[i] < r[i + 1] \/ r[i] = r[i + 1]
    <2>1. i \in 1 .. Len(r) /\ i + 1 \in 1 .. Len(r) /\ i < i + 1 /\ i <= i + 1
      BY <1>1
    <2>2. Rising(r) => r[i] < r[i + 1]
      BY <2>1 DEF Rising
    <2>3. Ascending(r) => r[i] <= r[i + 1]
      BY <2>1 DEF Ascending
    <2> QED
      BY <1>1, <2>1, <2>2, <2>3
  <1> QED
    BY <1>2

LEMMA SetFound == SetInv => SetIsRight
  <1> SUFFICES ASSUME SetInv, pc = "done", op \in {"intersect", "union", "setdiff"}
               PROVE  /\ Elems(res) = Wanted
                      /\ \A i \in 1 .. Len(res) - 1 :
                            res[i] < res[i + 1] \/ (op = "setdiff" /\ res[i] = res[i + 1])
    BY DEF SetIsRight
  <1>0. /\ Gathered /\ Sorted(v1, v2) /\ Len(v1) \in Nat
        /\ i1 \in 1 .. Len(v1) + 1 /\ i2 \in 1 .. Len(v2) + 1 /\ res \in Seq(Nat)
        /\ Len(Starts(v2)) = Len(v2) /\ Len(v2) \in Nat
    BY VectorTypes DEF SetInv
  <1>1. CASE op = "intersect"
    <2>1. IntersectOK(v1, v2, i1, i2, res)
      BY <1>0, <1>1 DEF Gathered
    <2>2. At(v1, HeldAt(v1, v2), i1) = {v1[k] : k \in HeldAt(v1, v2)}
      BY <1>0, <2>1, AtTheEnd, AllHeldFound DEF IntersectOK
    <2>3. Elems(res) = Held
      BY <2>1, <2>2, HeldElements, SameElements DEF IntersectOK
    <2> QED
      BY <1>0, <1>1, <2>1, <2>3, NeighboursOf DEF Wanted, IntersectOK
  <1>2. CASE op = "setdiff"
    <2>1. SetdiffOK(v1, v2, i1, i2, res) /\ i1 = Len(v1) + 1
      BY <1>0, <1>2, AtTheEnd DEF Gathered
    <2>2. At(v1, FreeAt(v1, v2), i1) = {v1[k] : k \in FreeAt(v1, v2)}
      <3>1. FreeAt(v1, v2) \in SUBSET All(v1)
        BY DEF FreeAt
      <3>2. FreeAt(v1, v2) \cap 1 .. (Len(v1) + 1) - 1 = FreeAt(v1, v2)
        BY <1>0, <3>1, AtEnd
      <3> QED
        BY <2>1, <3>2 DEF At
    <2>3. Elems(res) = Elems(x) \ Held
      BY <2>1, <2>2, HeldElements, SameElements DEF SetdiffOK
    <2> QED
      BY <1>0, <1>2, <2>1, <2>3, NeighboursOf DEF Wanted, SetdiffOK
  <1>3. CASE op = "union"
    <2>1. UnionOK(v1, Starts(v2), i1, i2, res) /\ i1 = Len(v1) + 1 /\ i2 = Len(Starts(v2)) + 1
      BY <1>0, <1>3, AtTheEnd DEF Gathered
    <2>2. At(v1, All(v1), i1) = Elems(v1)
      BY <1>0, <2>1, AtEnd
    <2>3. At(Starts(v2), All(Starts(v2)), i2) = Elems(Starts(v2))
      BY <1>0, <2>1, AtEnd
    <2>4. Elems(res) = Elems(x) \cup Others
      BY <2>1, <2>2, <2>3, SameElements DEF UnionOK
    <2> QED
      BY <1>0, <1>3, <2>1, <2>4, NeighboursOf DEF Wanted, UnionOK
  <1> QED
    BY <1>1, <1>2, <1>3

LEMMA IntersectIdxFound ==
    ASSUME SetInv, pc = "done", op = "intersect_idx", InOrder
    PROVE  Pairs
  <1>0. /\ Gathered /\ Sorted(v1, v2) /\ Len(v1) \in Nat /\ v1 = x /\ v2 = y
        /\ i1 \in 1 .. Len(v1) + 1 /\ i2 \in 1 .. Len(v2) + 1
    BY VectorTypes DEF SetInv
  <1>1. IntersectIdxOK(v1, v2, i1, i2, res, res2)
    BY <1>0 DEF Gathered
  <1>2. Elems(res) = HeldAt(v1, v2)
    BY <1>0, <1>1, AtTheEnd, AllHeldFound DEF IntersectIdxOK
  <1>3. {x[i] : i \in Elems(res)} = Held
    BY <1>0, <1>2, HeldElements, SameElements
  <1>4. Len(res) = Len(res2) /\ \A k \in 1 .. Len(res) : Within(x[res[k]], y[res2[k]])
    BY <1>0, <1>1 DEF IntersectIdxOK, PairOK
  <1> QED
    BY <1>3, <1>4 DEF Pairs, Wanted

LEMMA UnionIdxFound ==
    ASSUME SetInv, pc = "done", op = "union_idx", InOrder
    PROVE  Pairs
  <1> DEFINE S == Starts(v2)
             P == Picks(v1, S, res, res2)
  <1>0. /\ Gathered /\ Distinct(v1, S) /\ Len(v1) \in Nat /\ v1 = x /\ v2 = y /\ Len(S) = Len(v2)
        /\ AllScalar(v2) /\ Len(S) \in Nat /\ (\A k \in 1 .. Len(v1) : v1[k] \in Nat)
        /\ \A j \in 1 .. Len(v2) : v2[j].s \in Nat
    BY VectorTypes DEF SetInv
  <1>1. /\ UnionIdxOK(v1, S, i1, i2, res, res2) /\ i1 = Len(v1) + 1 /\ i2 = Len(S) + 1
    BY <1>0, AtTheEnd DEF Gathered
  <1>2. /\ res \in Seq(Nat) /\ res2 \in Seq(Nat) /\ Len(res) = Len(res2) /\ Rising(P)
        /\ \A k \in 1 .. Len(res) : UnionPair(v1, S, res[k], res2[k])
    BY <1>1 DEF UnionIdxOK, Paired
  <1>3. Len(res) \in Nat /\ \A k \in 1 .. Len(res) : res[k] \in Nat /\ res2[k] \in Nat
    BY <1>2, LenProperties, ElementOfSeq
  <1>4. ASSUME NEW q \in 1 .. Len(S)
        PROVE  /\ S[q] = y[q].s /\ S[q] \in Others
               /\ \A t \in Nat : t = S[q] => Within(t, y[q])
    <2>1. S[q] = v2[q].s /\ v2[q].s \in Nat
      BY <1>0 DEF Starts
    <2>2. S[q] \in Elems(S)
      BY DEF Elems
    <2>3. ASSUME NEW t \in Nat, t = S[q]
          PROVE  Within(t, v2[q])
      BY <1>0, <2>1, <2>3, ScalarTurn
    <2> QED
      BY <1>0, <2>1, <2>2, <2>3, SameElements
  <1>5. ASSUME NEW k \in 1 .. Len(res)
        PROVE  /\ P[k] = Picked(k)
               /\ res[k] = NaN <=> Picked(k) \notin Elems(x)
               /\ res2[k] = NaN <=> Picked(k) \notin Others
               /\ res[k] # NaN /\ res2[k] # NaN => Within(x[res[k]], y[res2[k]])
    <2> DEFINE p == res[k]
               q == res2[k]
    <2>1. p \in Nat /\ q \in Nat /\ UnionPair(v1, S, p, q)
      BY <1>2, <1>3
    <2>2. P[k] = PickOf(v1, S, p, q)
      BY DEF Picks
    <2>3. Picked(k) = IF p # 0 THEN v1[p] ELSE v2[q].s
      BY <1>0 DEF Picked, NaN
    <2> HIDE DEF P, S
    <2>4. Others = Elems(S)
      BY SameElements DEF S
    <2>5. CASE p # 0 /\ q # 0
      <3>1. p \in 1 .. Len(v1) /\ q \in 1 .. Len(S) /\ v1[p] = S[q]
        BY <1>0, <2>1, <2>5 DEF UnionPair
      <3>2. v1[p] \in Elems(x) /\ v1[p] \in Others /\ v1[p] \in Nat
        BY <1>0, <1>4, <3>1 DEF Elems
      <3>3. Within(v1[p], v2[q])
        BY <1>0, <1>4, <3>1, <3>2
      <3>4. P[k] = v1[p] /\ Picked(k) = v1[p]
        BY <2>2, <2>3, <2>5 DEF PickOf
      <3> QED
        BY <1>0, <2>5, <3>2, <3>3, <3>4 DEF NaN
    <2>6. CASE p # 0 /\ q = 0
      <3>1. p \in 1 .. Len(v1) /\ v1[p] \notin Elems(S)
        BY <1>0, <2>1, <2>6 DEF UnionPair
      <3>2. v1[p] \in Elems(x)
        BY <1>0, <3>1 DEF Elems
      <3>3. P[k] = v1[p] /\ Picked(k) = v1[p]
        BY <2>2, <2>3, <2>6 DEF PickOf
      <3> QED
        BY <2>4, <2>6, <3>1, <3>2, <3>3 DEF NaN
    <2>7. CASE p = 0
      <3>1. q \in 1 .. Len(S) /\ q # 0 /\ S[q] \notin Elems(v1)
        BY <1>0, <2>1, <2>7 DEF UnionPair
      <3>2. S[q] = y[q].s /\ S[q] \in Others
        BY <1>4, <3>1
      <3>3. P[k] = S[q] /\ Picked(k) = S[q]
        BY <1>0, <2>2, <2>3, <2>7, <3>2 DEF PickOf
      <3> QED
        BY <1>0, <2>7, <3>1, <3>2, <3>3 DEF NaN
    <2> QED
      BY <2>5, <2>6, <2>7
  <1>6. Len(P) = Len(res) /\ Elems(P) = {Picked(k) : k \in 1 .. Len(res)}
    <2>1. DOMAIN P = 1 .. Len(res)
      BY DEF Picks
    <2>2. P \in [1 .. Len(res) -> Elems(P) \cup {P[k] : k \in 1 .. Len(res)}]
      BY DEF Picks
    <2>3. Len(P) = Len(res)
      BY <1>3, <2>2, SeqOfFunction
    <2>4. Elems(P) = {P[k] : k \in 1 .. Len(res)}
      BY <2>3 DEF Elems
    <2> HIDE DEF P
    <2> QED
      BY <1>5, <2>3, <2>4
  <1>7. Elems(P) = Wanted
    <2>1. At(v1, All(v1), i1) = Elems(v1) /\ At(S, All(S), i2) = Elems(S)
      BY <1>0, <1>1, AtEnd
    <2> QED
      BY <1>1, <2>1, SameElements DEF UnionIdxOK, Wanted
  <1>8. ASSUME NEW k \in 1 .. Len(res) - 1
        PROVE  Picked(k) < Picked(k + 1)
    <2>1. k \in 1 .. Len(res) /\ k + 1 \in 1 .. Len(res) /\ k < k + 1
      BY <1>3
    <2>2. P[k] < P[k + 1]
      BY <1>2, <1>6, <2>1 DEF Rising
    <2>3. P[k] = Picked(k) /\ P[k + 1] = Picked(k + 1)
      BY <1>5, <2>1
    <2> QED
      BY <2>2, <2>3
  <1> HIDE DEF P, S
  <1> QED
    BY <1>2, <1>5, <1>6, <1>7, <1>8 DEF Pairs

LEMMA SetdiffIdxFound ==
    ASSUME SetInv, pc = "done", op = "setdiff_idx", kind = "scalar", InOrder
    PROVE  Pairs
  <1> DEFINE S == Starts(v2)
  <1>0. /\ Gathered /\ Len(v1) \in Nat /\ v1 = x /\ v2 = y /\ Len(S) = Len(v2)
        /\ AllScalar(v2) /\ Len(S) \in Nat /\ (\A k \in 1 .. Len(v1) : v1[k] \in Nat)
        /\ \A j \in 1 .. Len(v2) : v2[j].s \in Nat
    BY VectorTypes DEF SetInv
  <1>1. SetdiffIdxOK(v1, S, i1, i2, res, res2) /\ i1 = Len(v1) + 1 /\ i2 = Len(S) + 1
    BY <1>0, AtTheEnd DEF Gathered
  <1>2. Elems(res) = Only(v1, S) /\ Elems(res2) = Only(S, v1)
    <2>1. Only(v1, S) \in SUBSET All(v1) /\ Only(S, v1) \in SUBSET All(S)
      BY DEF Only
    <2>2. /\ Only(v1, S) \cap 1 .. (Len(v1) + 1) - 1 = Only(v1, S)
          /\ Only(S, v1) \cap 1 .. (Len(S) + 1) - 1 = Only(S, v1)
      BY <1>0, <2>1, AtEnd
    <2> QED
      BY <1>1, <2>2 DEF SetdiffIdxOK
  <1>3. ASSUME NEW t \in Nat
        PROVE  t \in Elems(S) <=> \E i \in Elems(v2) : Within(t, i)
    <2>1. ASSUME NEW j \in 1 .. Len(v2)
          PROVE  Within(t, v2[j]) <=> t = S[j]
      BY <1>0, <2>1, ScalarTurn
    <2>2. (\E i \in Elems(v2) : Within(t, i)) <=> \E j \in 1 .. Len(v2) : Within(t, v2[j])
      BY DEF Elems
    <2>3. t \in Elems(S) <=> \E j \in 1 .. Len(v2) : t = S[j]
      BY <1>0 DEF Elems
    <2> QED
      BY <2>1, <2>2, <2>3
  <1>4. Others = Elems(S) /\ Elems(v1) = Elems(x)
        /\ Held = {t \in Elems(v1) : \E i \in Elems(v2) : Within(t, i)}
    BY SameElements
  <1>5. \A t \in Elems(v1) : t \in Nat
    BY <1>0 DEF Elems
  <1>6. {v1[i] : i \in Only(v1, S)} = Elems(v1) \ Held
    <2> HIDE DEF S
    <2> QED
      BY <1>3, <1>4, <1>5 DEF Only, All, Elems
  <1>7. {v2[i].s : i \in Only(S, v1)} = Others \ Elems(v1)
    <2>1. \A j \in 1 .. Len(S) : S[j] = v2[j].s
      BY <1>0 DEF Starts
    <2> HIDE DEF S
    <2> QED
      BY <1>4, <2>1 DEF Only, All, Elems
  <1> HIDE DEF S
  <1> QED
    BY <1>0, <1>2, <1>4, <1>6, <1>7 DEF Pairs, Wanted

\* The one pass over the two vectors: for vectors of any length, of any values, with
\* repetitions and in any order, and for intervals that overlap, nest, or are open.  The
\* indices are claimed for ascending vectors only.
THEOREM SetsFound == Spec => []SetsAreRight
  <1>1. Init => SetInv
    <2> SUFFICES ASSUME Init
                 PROVE  SetInv
      OBVIOUS
    <2>1. /\ op = "none" /\ kind = "scalar" /\ x = <<>> /\ y = <<>> /\ v1 = <<>> /\ v2 = <<>>
          /\ i1 = 1 /\ i2 = 1 /\ res = <<>> /\ res2 = <<>> /\ pc = "idle"
      BY DEF Init
    <2>2. Len(<<>>) = 0 /\ \A T : <<>> \in Seq(T)
      BY EmptySeq
    <2>3. Arguments
      BY <2>1, <2>2 DEF Arguments, Sorted, Ascending, AscendingStarts, Rising, AllScalar, Allowed
    <2>4. TypeOK
      BY <2>1, <2>2 DEF TypeOK
    <2> QED
      BY <2>1, <2>3, <2>4 DEF SetInv
  <1>2. SetInv /\ [Next]_vars => SetInv'
    BY SetStep
  <1>3. SetInv => SetsAreRight
    <2>1. SetInv => IndicesAreRight
      <3> SUFFICES ASSUME SetInv, pc = "done", Idx, InOrder
                   PROVE  Pairs \/ (op = "setdiff_idx" /\ kind = "interval")
        BY DEF IndicesAreRight, InOrder
      <3>1. kind \in {"scalar", "interval"}
        BY DEF SetInv, TypeOK
      <3> QED
        BY <3>1, IntersectIdxFound, UnionIdxFound, SetdiffIdxFound DEF Idx
    <2>2. SetInv => TypeOK
      BY DEF SetInv
    <2> QED
      BY <2>1, <2>2, SetFound DEF SetsAreRight
  <1> QED
    BY <1>1, <1>2, <1>3, PTL DEF Spec

(***************************************************************************)
(* Shared values.  Counts says that the count of an object is the number   *)
(* of the handles that are counted, the temporary one included.  Every     *)
(* operator on stores changes both sides by the same amount.               *)
(***************************************************************************)
LiveHandle == [o : Objects, flags : SUBSET Flags]
ObjectRecord == [v : Int, n : Int, file : BOOLEAN]
StoreType == [h : [Holders -> LiveHandle \cup {NoHandle}], o : [Objects -> ObjectRecord]]

\* The holders that keep what they hold but for what is asked of them.
Kept == Vars \cup Literals

\* What a handle adds to the count of an object.
One(hd, i) == IF hd.o = i /\ "LAST" \notin hd.flags THEN 1 ELSE 0
Owners(s, i) == {m \in Holders : s.h[m].o = i /\ "LAST" \notin s.h[m].flags}
Counts(s, hd) == \A i \in Objects : s.o[i].n = Cardinality(Owners(s, i)) + One(hd, i)

Mapped(s, i) == s.o[i].file = TRUE
\* A handle that may be given to a variable.
Fit(s, hd) == hd \in LiveHandle /\ (Mapped(s, hd.o) => "LOCKED" \in hd.flags)
Temporary(s, hd) == hd = NoHandle \/ (Fit(s, hd) /\ "LAST" \notin hd.flags)

Shape(s) ==
  /\ s \in StoreType
  /\ \A m \in Holders : "LAST" \in s.h[m].flags => m = LastName
  /\ \A m \in Holders : s.h[m] = NoHandle \/ Fit(s, s.h[m])
  /\ \A m \in Literals : s.h[m] # NoHandle

-----------------------------------------------------------------------------
\* The names are finitely many, as the CONSTANTS are.
LEMMA HoldersFinite == IsFiniteSet(Holders) /\ Cardinality(Holders) \in Nat
  <1>1. IsFiniteSet({LastName}) /\ IsFiniteSet({ArgName})
    BY FS_Singleton
  <1>2. IsFiniteSet(VarNames)
    BY <1>1, CowAssumption, FS_Union DEF VarNames
  <1>3. IsFiniteSet(VarNames \cup Literals)
    BY <1>2, CowAssumption, FS_Union
  <1>4. IsFiniteSet(VarNames \cup Literals \cup {ArgName})
    BY <1>1, <1>3, FS_Union
  <1> QED
    BY <1>4, FS_CardinalityType DEF Holders

LEMMA ObjectsArePositive == 0 \notin Objects /\ Objects \subseteq Nat
  BY HoldersFinite DEF Objects

\* The kinds of holders are apart.
LEMMA HoldersApart ==
    /\ LastName \in Holders /\ ArgName \in Holders /\ Vars \subseteq Holders /\ Literals \subseteq Holders
    /\ VarNames \subseteq Holders
    /\ LastName # ArgName /\ LastName # Nobody /\ ArgName # Nobody /\ ArgName \notin VarNames
    /\ LastName \notin Vars /\ ArgName \notin Vars /\ Nobody \notin Vars
    /\ LastName \notin Literals /\ ArgName \notin Literals /\ Nobody \notin Literals
    /\ Nobody \notin Holders /\ Vars \cap Literals = {}
  BY CowAssumption DEF Holders, VarNames, LastName, ArgName, Nobody

\* A handle has an object just when it is not the null handle.
LEMMA HandleTypes ==
    ASSUME NEW s \in StoreType, NEW n \in Holders
    PROVE  /\ s.h[n] \in LiveHandle \cup {NoHandle} /\ s.h[n].flags \in SUBSET Flags
           /\ (s.h[n].o \in Objects <=> s.h[n] # NoHandle) /\ (s.h[n].o = 0 <=> s.h[n] = NoHandle)
  <1>1. s.h[n] \in LiveHandle \cup {NoHandle}
    BY DEF StoreType
  <1>2. NoHandle.o = 0 /\ NoHandle.flags = {}
    BY DEF NoHandle
  <1> QED
    BY <1>1, <1>2, ObjectsArePositive DEF LiveHandle

LEMMA OneTypes ==
    ASSUME NEW hd, NEW i \in Objects
    PROVE  One(hd, i) \in {0, 1} /\ One(NoHandle, i) = 0
  BY ObjectsArePositive DEF One, NoHandle

LEMMA OwnersFinite ==
    ASSUME NEW s, NEW i
    PROVE  IsFiniteSet(Owners(s, i)) /\ Cardinality(Owners(s, i)) \in Nat
  <1>1. Owners(s, i) \in SUBSET Holders
    BY DEF Owners
  <1> QED
    BY <1>1, HoldersFinite, FS_Subset, FS_CardinalityType

\* A handle that takes the place of another.
OwnersMoved(s, t, n, hd) ==
  \A i : Cardinality(Owners(t, i)) = Cardinality(Owners(s, i)) + One(hd, i) - One(s.h[n], i)

\* A holder that is given another handle is one owner less of the old object and one more of
\* the new one.
LEMMA OwnersReplaced ==
    ASSUME NEW s \in StoreType, NEW n \in Holders, NEW hd, NEW t, t.h = [s.h EXCEPT ![n] = hd]
    PROVE  OwnersMoved(s, t, n, hd)
  <1> SUFFICES ASSUME NEW i
               PROVE  Cardinality(Owners(t, i)) = Cardinality(Owners(s, i)) + One(hd, i) - One(s.h[n], i)
    BY DEF OwnersMoved
  <1> DEFINE Rest == Owners(s, i) \ {n}
  <1>1. t.h[n] = hd /\ (\A m \in Holders \ {n} : t.h[m] = s.h[m])
    BY DEF StoreType
  <1>2. IsFiniteSet(Owners(s, i)) /\ Cardinality(Owners(s, i)) \in Nat
    BY OwnersFinite
  <1>3. IsFiniteSet(Rest) /\ Cardinality(Rest) = Cardinality(Owners(s, i)) - One(s.h[n], i)
    <2>1. IsFiniteSet(Rest)
          /\ Cardinality(Rest) = IF n \in Owners(s, i) THEN Cardinality(Owners(s, i)) - 1 ELSE Cardinality(Owners(s, i))
      BY <1>2, FS_RemoveElement
    <2>2. n \in Owners(s, i) <=> One(s.h[n], i) = 1
      BY DEF Owners, One
    <2>3. One(s.h[n], i) = 1 \/ One(s.h[n], i) = 0
      BY DEF One
    <2> QED
      BY <1>2, <2>1, <2>2, <2>3
  <1>4. CASE One(hd, i) = 1
    <2>1. Owners(t, i) = Rest \cup {n}
      BY <1>1, <1>4 DEF Owners, One
    <2>2. Cardinality(Rest \cup {n}) = Cardinality(Rest) + 1
      BY <1>3, FS_AddElement
    <2>3. One(s.h[n], i) \in {0, 1}
      BY DEF One
    <2> HIDE DEF Rest
    <2> QED
      BY <1>2, <1>3, <1>4, <2>1, <2>2, <2>3
  <1>5. CASE One(hd, i) = 0
    <2>1. Owners(t, i) = Rest
      BY <1>1, <1>5 DEF Owners, One
    <2>2. One(s.h[n], i) \in {0, 1}
      BY DEF One
    <2> HIDE DEF Rest
    <2> QED
      BY <1>2, <1>3, <1>5, <2>1, <2>2
  <1> QED
    BY <1>4, <1>5 DEF One

-----------------------------------------------------------------------------
(* What the operators on stores do to each object and handle.              *)

\* Counts may differ, values and files do not.
Alike(s, t) == \A i \in Objects : t.o[i].v = s.o[i].v /\ t.o[i].file = s.o[i].file

CountMoved(s, t, i, d) ==
  /\ t \in StoreType /\ t.h = s.h /\ Alike(s, t)
  /\ \A j \in Objects : t.o[j].n = s.o[j].n + (IF j = i THEN d ELSE 0)
  /\ \A j \in Objects \ {i} : t.o[j] = s.o[j]

LEMMA CountChanged ==
    ASSUME NEW s \in StoreType, NEW i \in Objects, NEW d \in Int,
           NEW t, t = [s EXCEPT !.o[i].n = @ + d]
    PROVE  CountMoved(s, t, i, d)
  <1>1. s.o \in [Objects -> ObjectRecord] /\ s.h \in [Holders -> LiveHandle \cup {NoHandle}]
        /\ s = [h |-> s.h, o |-> s.o]
    BY DEF StoreType
  <1>2. s.o[i] \in ObjectRecord /\ s.o[i].n + d \in Int
    BY <1>1 DEF ObjectRecord
  <1> DEFINE b == [s.o[i] EXCEPT !.n = @ + d]
  <1>3. b \in ObjectRecord /\ b.n = s.o[i].n + d /\ b.v = s.o[i].v /\ b.file = s.o[i].file
    BY <1>2 DEF ObjectRecord
  <1>4. t.h = s.h /\ t.o = [s.o EXCEPT ![i] = b]
    BY <1>1
  <1>5. t = [h |-> t.h, o |-> t.o]
    BY <1>1
  <1> HIDE DEF b
  <1>6. t.o \in [Objects -> ObjectRecord] /\ (\A j \in Objects : t.o[j] = IF j = i THEN b ELSE s.o[j])
    BY <1>1, <1>3, <1>4
  <1>7. t \in StoreType
    BY <1>1, <1>4, <1>5, <1>6 DEF StoreType
  <1>8. Alike(s, t)
    BY <1>3, <1>6 DEF Alike
  <1>9. \A j \in Objects : t.o[j].n = s.o[j].n + (IF j = i THEN d ELSE 0)
    <2>1. \A j \in Objects : s.o[j].n \in Int
      BY <1>1 DEF ObjectRecord
    <2> QED
      BY <1>3, <1>6, <2>1
  <1> QED
    BY <1>4, <1>6, <1>7, <1>8, <1>9 DEF CountMoved

\* The copy constructor counts the handle that is made.
LEMMA CopiedIs ==
    ASSUME NEW s \in StoreType, NEW hd \in LiveHandle
    PROVE  /\ Copied(s, hd) \in StoreType /\ Copied(s, hd).h = s.h /\ Alike(s, Copied(s, hd))
           /\ \A j \in Objects : Copied(s, hd).o[j].n = s.o[j].n + One(TheCopy(hd), j)
  <1>1. hd.o \in Objects
    BY DEF LiveHandle
  <1>2. TheCopy(hd).o = hd.o /\ "LAST" \notin TheCopy(hd).flags
    BY DEF TheCopy, LiveHandle
  <1>3. \A j \in Objects : One(TheCopy(hd), j) = IF j = hd.o THEN 1 ELSE 0
    BY <1>2 DEF One
  <1>4. Copied(s, hd) = [s EXCEPT !.o[hd.o].n = @ + 1]
    BY DEF Copied
  <1>5. CountMoved(s, Copied(s, hd), hd.o, 1)
    BY <1>1, <1>4, CountChanged
  <1> QED
    BY <1>3, <1>5 DEF CountMoved

\* The destructor takes the handle from the count, unless it was never counted.
LEMMA DroppedIs ==
    ASSUME NEW s \in StoreType, NEW hd \in LiveHandle \cup {NoHandle}
    PROVE  /\ Dropped(s, hd) \in StoreType /\ Dropped(s, hd).h = s.h /\ Alike(s, Dropped(s, hd))
           /\ \A j \in Objects : Dropped(s, hd).o[j].n = s.o[j].n - One(hd, j)
  <1>0. \A j \in Objects : s.o[j].n \in Int
    BY DEF StoreType, ObjectRecord
  <1>1. CASE hd = NoHandle \/ "LAST" \in hd.flags
    <2>1. \A j \in Objects : One(hd, j) = 0
      BY <1>1, OneTypes DEF One
    <2> QED
      BY <1>0, <1>1, <2>1 DEF Dropped, Alike
  <1>2. CASE ~(hd = NoHandle \/ "LAST" \in hd.flags)
    <2>1. hd.o \in Objects
      BY <1>2 DEF LiveHandle
    <2>2. \A j \in Objects : One(hd, j) = IF j = hd.o THEN 1 ELSE 0
      BY <1>2 DEF One
    <2>3. s.o[hd.o].n - 1 = s.o[hd.o].n + (-1)
      BY <1>0, <2>1
    <2>4. Dropped(s, hd) = [s EXCEPT !.o[hd.o].n = @ + (-1)]
      BY <1>2, <2>1, <2>3 DEF Dropped
    <2>5. CountMoved(s, Dropped(s, hd), hd.o, -1)
      BY <2>1, <2>4, CountChanged
    <2> QED
      BY <1>0, <2>2, <2>5 DEF CountMoved
  <1> QED
    BY <1>1, <1>2

\* The handle of n is another one.
HandleSet(s, t, n, hd) ==
  /\ t \in StoreType /\ t.o = s.o /\ t.h = [s.h EXCEPT ![n] = hd]
  /\ t.h[n] = hd /\ \A m \in Holders \ {n} : t.h[m] = s.h[m]

LEMMA HandleChanged ==
    ASSUME NEW s \in StoreType, NEW n \in Holders, NEW hd \in LiveHandle \cup {NoHandle},
           NEW t, t = [s EXCEPT !.h[n] = hd]
    PROVE  HandleSet(s, t, n, hd)
  <1>1. s.o \in [Objects -> ObjectRecord] /\ s.h \in [Holders -> LiveHandle \cup {NoHandle}]
        /\ s = [h |-> s.h, o |-> s.o]
    BY DEF StoreType
  <1>2. t.o = s.o /\ t.h = [s.h EXCEPT ![n] = hd] /\ t = [h |-> t.h, o |-> t.o]
    BY <1>1
  <1> QED
    BY <1>1, <1>2 DEF StoreType, HandleSet

-----------------------------------------------------------------------------
(* New objects.                                                            *)

Room(s) == Unused(s) # {}

\* A set of numbers has a least one.
LEMMA LeastExists ==
    ASSUME NEW S, S \subseteq Nat, S # {}
    PROVE  \E i \in S : \A j \in S : i <= j
  <1> SUFFICES ASSUME \A i \in S : \E j \in S : j < i
               PROVE  FALSE
    OBVIOUS
  <1> DEFINE None == {n \in Nat : \A k \in 0 .. n : k \notin S}
  <1>1. 0 \in None
    OBVIOUS
  <1>2. ASSUME NEW n \in Nat, n \in None
        PROVE  n + 1 \in None
    <2>1. n + 1 \notin S
      BY <1>2
    <2> QED
      BY <1>2, <2>1
  <1>3. Nat \subseteq None
    <2> HIDE DEF None
    <2> QED
      BY <1>1, <1>2, SetInduction
  <1>4. PICK k \in S : TRUE
    OBVIOUS
  <1>5. k \in None /\ k \in 0 .. k
    BY <1>3, <1>4
  <1> QED
    BY <1>5

\* A new object is one that nothing holds.
LEMMA NewIsUnused ==
    ASSUME NEW s, Room(s)
    PROVE  New(s) \in Objects /\ s.o[New(s)] = NoObject /\ \A n \in Holders : s.h[n].o # New(s)
  <1>1. Unused(s) \subseteq Nat
    BY ObjectsArePositive DEF Unused
  <1>2. \E i \in Unused(s) : \A j \in Unused(s) : i <= j
    BY <1>1, LeastExists DEF Room
  <1>3. New(s) \in Unused(s)
    BY <1>2 DEF New
  <1> QED
    BY <1>3 DEF Unused

\* An object that is replaced.
ObjectSet(s, t, i, b) ==
  /\ t \in StoreType /\ t.h = s.h /\ t.o[i] = b
  /\ \A j \in Objects \ {i} : t.o[j] = s.o[j]

LEMMA ObjectChanged ==
    ASSUME NEW s \in StoreType, NEW i \in Objects, NEW b \in ObjectRecord,
           NEW t, t = [s EXCEPT !.o[i] = b]
    PROVE  ObjectSet(s, t, i, b)
  <1>1. s.o \in [Objects -> ObjectRecord] /\ s.h \in [Holders -> LiveHandle \cup {NoHandle}]
        /\ s = [h |-> s.h, o |-> s.o]
    BY DEF StoreType
  <1>2. t.h = s.h /\ t.o = [s.o EXCEPT ![i] = b] /\ t = [h |-> t.h, o |-> t.o]
    BY <1>1
  <1> QED
    BY <1>1, <1>2 DEF StoreType, ObjectSet

LEMMA MadeIs ==
    ASSUME NEW s, Shape(s), Room(s), NEW v \in Int, NEW f \in BOOLEAN
    PROVE  Shape(Made(s, v, f)) /\ ObjectSet(s, Made(s, v, f), New(s), [v |-> v, n |-> 1, file |-> f])
  <1> DEFINE t == Made(s, v, f)
             b == [v |-> v, n |-> 1, file |-> f]
  <1>1. New(s) \in Objects /\ (\A n \in Holders : s.h[n].o # New(s)) /\ s \in StoreType
    BY NewIsUnused DEF Shape
  <1>2. b \in ObjectRecord
    BY DEF ObjectRecord
  <1>3. t = [s EXCEPT !.o[New(s)] = b]
    BY DEF Made
  <1>4. /\ t \in StoreType /\ t.h = s.h /\ t.o[New(s)] = b
        /\ \A j \in Objects \ {New(s)} : t.o[j] = s.o[j]
    <2>1. ObjectSet(s, t, New(s), b)
      BY <1>1, <1>2, <1>3, ObjectChanged
    <2> QED
      BY <2>1 DEF ObjectSet
  <1>5. \A m \in Holders : s.h[m] = NoHandle \/ (s.h[m] \in LiveHandle /\ s.h[m].o \in Objects \ {New(s)})
    BY <1>1, HandleTypes DEF Shape, Fit
  <1>6. \A m \in Holders : t.h[m] = NoHandle \/ Fit(t, t.h[m])
    <2> HIDE DEF t, b
    <2> QED
      BY <1>4, <1>5 DEF Shape, Fit, Mapped
  <1> QED
    BY <1>4, <1>6 DEF Shape, ObjectSet

\* make_cow: an object with one handle, the temporary one.
LEMMA MadeCounts ==
    ASSUME NEW s, Shape(s), Room(s), NEW v \in Int, NEW f \in BOOLEAN, Counts(s, NoHandle),
           NEW F \in SUBSET Flags, "LAST" \notin F
    PROVE  Counts(Made(s, v, f), [o |-> New(s), flags |-> F])
  <1> DEFINE t == Made(s, v, f)
             hd == [o |-> New(s), flags |-> F]
  <1>1. /\ t.h = s.h /\ \A j \in Objects \ {New(s)} : t.o[j] = s.o[j]
        /\ t.o[New(s)].n = 1
    <2>1. ObjectSet(s, Made(s, v, f), New(s), [v |-> v, n |-> 1, file |-> f])
      BY MadeIs, Zenon
    <2> QED
      BY <2>1 DEF ObjectSet
  <1>2. New(s) \in Objects /\ s.o[New(s)].n = 0
    BY NewIsUnused DEF NoObject
  <1>3. \A j \in Objects : Owners(t, j) = Owners(s, j)
    BY <1>1 DEF Owners
  <1>4. \A j \in Objects : One(hd, j) = IF j = New(s) THEN 1 ELSE 0
    BY DEF One
  <1>5. \A j \in Objects : One(NoHandle, j) = 0 /\ Cardinality(Owners(s, j)) \in Nat
    BY OneTypes, OwnersFinite
  <1>6. Counts(t, hd)
    <2> HIDE DEF t, hd
    <2> QED
      BY <1>1, <1>2, <1>3, <1>4, <1>5 DEF Counts
  <1> QED
    BY <1>6

-----------------------------------------------------------------------------
(* Flags.                                                                  *)

\* Only the flags of n differ, and not LAST; a mapped object stays locked.
Flagged(s, t, n, F) ==
  /\ Shape(t) /\ t.o = s.o
  /\ t.h[n] = [o |-> s.h[n].o, flags |-> F] /\ \A m \in Holders \ {n} : t.h[m] = s.h[m]
  /\ \A i : Owners(t, i) = Owners(s, i)
  /\ Unused(t) = Unused(s)

\* A handle whose flags change, but neither LAST nor the lock of a mapped object.
LEMMA FlagsChanged ==
    ASSUME NEW s, Shape(s), NEW n \in Holders, s.h[n] # NoHandle, NEW F \in SUBSET Flags,
           "LAST" \in F <=> "LAST" \in s.h[n].flags,
           Mapped(s, s.h[n].o) => "LOCKED" \in F,
           NEW t, t = [s EXCEPT !.h[n].flags = F]
    PROVE  Flagged(s, t, n, F)
  <1> DEFINE hd == [o |-> s.h[n].o, flags |-> F]
  <1>1. s \in StoreType /\ s.h[n] \in LiveHandle
    BY HandleTypes DEF Shape
  <1>2. hd \in LiveHandle /\ hd # NoHandle /\ hd.o = s.h[n].o /\ hd.flags = F
    BY <1>1, ObjectsArePositive DEF LiveHandle, NoHandle
  <1>3. [s.h[n] EXCEPT !.flags = F] = hd
    BY <1>1 DEF LiveHandle
  <1>4. t = [s EXCEPT !.h[n] = hd]
    BY <1>1, <1>3
  <1> HIDE DEF hd
  <1>5. /\ t \in StoreType /\ t.o = s.o /\ t.h[n] = hd /\ \A m \in Holders \ {n} : t.h[m] = s.h[m]
    <2>1. HandleSet(s, t, n, hd)
      BY <1>1, <1>2, <1>4, HandleChanged
    <2> QED
      BY <2>1 DEF HandleSet
  <1>6. \A m \in Holders : t.h[m].o = s.h[m].o /\ ("LAST" \in t.h[m].flags <=> "LAST" \in s.h[m].flags)
    BY <1>2, <1>5
  <1>7. \A i : Owners(t, i) = Owners(s, i)
    BY <1>6 DEF Owners
  <1>8. Unused(t) = Unused(s)
    BY <1>5, <1>6 DEF Unused
  <1>9. \A m \in Holders : t.h[m] = NoHandle \/ Fit(t, t.h[m])
    BY <1>2, <1>5 DEF Shape, Fit, Mapped
  <1>10. Shape(t)
    BY <1>2, <1>5, <1>6, <1>9 DEF Shape
  <1> QED
    BY <1>5, <1>7, <1>8, <1>10 DEF Flagged, hd

LEMMA SetRefIs ==
    ASSUME NEW s, Shape(s), NEW n \in Holders, s.h[n] # NoHandle
    PROVE  /\ Flagged(s, setRef(s, n), n, s.h[n].flags \cup {"REF"})
           /\ Flagged(s, resetRef(s, n), n, s.h[n].flags \ {"REF"})
           /\ Flagged(s, setLock(s, n), n, s.h[n].flags \cup {"LOCKED"})
           /\ ~Mapped(s, s.h[n].o) => Flagged(s, resetLock(s, n), n, s.h[n].flags \ {"LOCKED"})
  <1>1. /\ s.h[n].flags \cup {"REF"} \in SUBSET Flags /\ s.h[n].flags \ {"REF"} \in SUBSET Flags
        /\ s.h[n].flags \cup {"LOCKED"} \in SUBSET Flags /\ s.h[n].flags \ {"LOCKED"} \in SUBSET Flags
    BY HandleTypes DEF Shape, Flags
  <1>2. Mapped(s, s.h[n].o) => "LOCKED" \in s.h[n].flags
    BY DEF Shape, Fit
  <1>3. setRef(s, n) = [s EXCEPT !.h[n].flags = s.h[n].flags \cup {"REF"}]
    BY DEF setRef
  <1>4. resetRef(s, n) = [s EXCEPT !.h[n].flags = s.h[n].flags \ {"REF"}]
    BY DEF resetRef
  <1>5. setLock(s, n) = [s EXCEPT !.h[n].flags = s.h[n].flags \cup {"LOCKED"}]
    BY DEF setLock
  <1>6. resetLock(s, n) = [s EXCEPT !.h[n].flags = s.h[n].flags \ {"LOCKED"}]
    BY DEF resetLock
  <1>7. Flagged(s, setRef(s, n), n, s.h[n].flags \cup {"REF"})
    BY <1>1, <1>2, <1>3, FlagsChanged
  <1>8. Flagged(s, resetRef(s, n), n, s.h[n].flags \ {"REF"})
    BY <1>1, <1>2, <1>4, FlagsChanged
  <1>9. Flagged(s, setLock(s, n), n, s.h[n].flags \cup {"LOCKED"})
    BY <1>1, <1>2, <1>5, FlagsChanged
  <1>10. ~Mapped(s, s.h[n].o) => Flagged(s, resetLock(s, n), n, s.h[n].flags \ {"LOCKED"})
    BY <1>1, <1>6, FlagsChanged
  <1> QED
    BY <1>7, <1>8, <1>9, <1>10

\* Flags other than LAST change no count.
LEMMA FlaggedCounts ==
    ASSUME NEW s, NEW t, NEW n, NEW F, Flagged(s, t, n, F)
    PROVE  /\ \A hd : Counts(s, hd) => Counts(t, hd)
           /\ Room(s) => Room(t)
           /\ \A hd : Temporary(s, hd) => Temporary(t, hd)
  BY DEF Flagged, Counts, Room, Temporary, Fit, Mapped

-----------------------------------------------------------------------------
(* A write through the handle of n.                                        *)

\* To a copy in the place i.
CopyWritten(s, t, n, i) ==
  /\ t \in StoreType /\ t.h[n] = [o |-> i, flags |-> s.h[n].flags]
  /\ t.h = [s.h EXCEPT ![n] = [o |-> i, flags |-> s.h[n].flags]]
  /\ t.o[i].n = 1 /\ t.o[i].file = FALSE
  /\ t.o[s.h[n].o].n = s.o[s.h[n].o].n - 1 /\ t.o[s.h[n].o].v = s.o[s.h[n].o].v
  /\ t.o[s.h[n].o].file = s.o[s.h[n].o].file
  /\ \A j \in Objects \ {i, s.h[n].o} : t.o[j] = s.o[j]

\* In place.
PlaceWritten(s, t, n) ==
  /\ t \in StoreType /\ t.h = s.h
  /\ t.o[s.h[n].o].n = s.o[s.h[n].o].n /\ t.o[s.h[n].o].file = s.o[s.h[n].o].file
  /\ \A j \in Objects \ {s.h[n].o} : t.o[j] = s.o[j]

CopyTo(s, n, i) ==
  [s EXCEPT !.o[s.h[n].o].n = @ - 1,
            !.o[i] = [v |-> s.o[s.h[n].o].v, n |-> 1, file |-> FALSE],
            !.h[n].o = i]
Struck(u, n) == [u EXCEPT !.o[u.h[n].o].v = Other(@)]

\* A write to a shared object: its copy is written, the count of the original goes down.
LEMMA CopyIsWritten ==
    ASSUME NEW s \in StoreType, NEW n \in Holders, s.h[n] # NoHandle, NEW i \in Objects, i # s.h[n].o
    PROVE  CopyWritten(s, Struck(CopyTo(s, n, i), n), n, i)
  <1> DEFINE a == s.h[n].o
             hd == [o |-> i, flags |-> s.h[n].flags]
             b == [v |-> s.o[a].v, n |-> 1, file |-> FALSE]
             c == [s.o[a] EXCEPT !.n = @ - 1]
             u == CopyTo(s, n, i)
             t == Struck(u, n)
  <1>1. s.o \in [Objects -> ObjectRecord] /\ s.h \in [Holders -> LiveHandle \cup {NoHandle}]
        /\ s = [h |-> s.h, o |-> s.o] /\ s.h[n] \in LiveHandle /\ a \in Objects
    BY HandleTypes DEF StoreType
  <1>2. s.o[a] \in ObjectRecord
    BY <1>1
  <1>3. b \in ObjectRecord /\ c \in ObjectRecord /\ hd \in LiveHandle
    BY <1>1, <1>2 DEF ObjectRecord, LiveHandle
  <1>4. [s.h[n] EXCEPT !.o = i] = hd
    BY <1>1 DEF LiveHandle
  <1>5. u = [h |-> [s.h EXCEPT ![n] = hd], o |-> [[s.o EXCEPT ![a] = c] EXCEPT ![i] = b]]
    <2>1. u = [s EXCEPT !.o[a].n = @ - 1, !.o[i] = b, !.h[n].o = i]
      BY DEF CopyTo
    <2> DEFINE u1 == [s EXCEPT !.o[a].n = @ - 1]
               u2 == [u1 EXCEPT !.o[i] = b]
               o2 == [[s.o EXCEPT ![a] = c] EXCEPT ![i] = b]
    <2>2. u1 = [h |-> s.h, o |-> [s.o EXCEPT ![a] = c]]
      BY <1>1
    <2>3. u2 = [h |-> s.h, o |-> o2]
      <3> HIDE DEF u1, b, c
      <3> QED
        BY <2>2
    <2>4. u = [u2 EXCEPT !.h[n].o = i]
      BY <2>1
    <2> HIDE DEF u2
    <2> HIDE DEF o2, u
    <2>5. u2.h = s.h /\ u2.o = o2
      BY <2>3
    <2>6. u = [u2 EXCEPT !.h = [s.h EXCEPT ![n] = hd]]
      BY <1>4, <2>4, <2>5
    <2>7. u = [h |-> [s.h EXCEPT ![n] = hd], o |-> o2]
      BY <2>3, <2>6
    <2> QED
      BY <2>7 DEF o2
  <1>6. u.h[n].o = i /\ u.o[i] = b
    BY <1>1, <1>5
  <1>16. b.n = 1 /\ b.file = FALSE
    OBVIOUS
  <1> DEFINE d == [b EXCEPT !.v = Other(@)]
  <1>7. d \in ObjectRecord /\ d.n = 1 /\ d.file = FALSE
    <2> HIDE DEF b
    <2> QED
      BY <1>3, <1>16 DEF ObjectRecord, Other
  <1>8. c.n = s.o[a].n - 1 /\ c.v = s.o[a].v /\ c.file = s.o[a].file
    BY <1>2 DEF ObjectRecord
  <1>9. t = [h |-> [s.h EXCEPT ![n] = hd], o |-> [[s.o EXCEPT ![a] = c] EXCEPT ![i] = d]]
    <2> HIDE DEF b
    <2>1. [b EXCEPT !.v = Other(@)] = d
      OBVIOUS
    <2>2. t = [u EXCEPT !.o[i].v = Other(@)]
      BY <1>6 DEF Struck
    <2>3. t = [u EXCEPT !.o[i] = [u.o[i] EXCEPT !.v = Other(@)]]
      BY <2>2
    <2>4. t = [u EXCEPT !.o[i] = d]
      BY <1>6, <2>1, <2>3
    <2> HIDE DEF a, b, c, d, hd, u, t
    <2> QED
      BY <1>1, <1>5, <2>4
  <1> HIDE DEF b, c, d, hd, u, t
  <1>10. t.h = [s.h EXCEPT ![n] = hd] /\ t.h[n] = hd
    BY <1>1, <1>9
  <1>11. t.o[i] = d /\ t.o[a] = c /\ \A j \in Objects \ {i, a} : t.o[j] = s.o[j]
    BY <1>1, <1>9
  <1>12. t \in StoreType
    BY <1>1, <1>3, <1>7, <1>9 DEF StoreType
  <1> QED
    BY <1>7, <1>8, <1>10, <1>11, <1>12 DEF CopyWritten, hd, u, t

\* A write to an object with one handle is done in place.
LEMMA PlaceIsWritten ==
    ASSUME NEW s \in StoreType, NEW n \in Holders, s.h[n] # NoHandle,
           NEW t, t = [s EXCEPT !.o[s.h[n].o].v = Other(@)]
    PROVE  PlaceWritten(s, t, n)
  <1> DEFINE a == s.h[n].o
             b == [s.o[a] EXCEPT !.v = Other(@)]
  <1>1. a \in Objects /\ s.o[a] \in ObjectRecord
    BY HandleTypes DEF StoreType
  <1>2. b \in ObjectRecord /\ b.n = s.o[a].n /\ b.file = s.o[a].file
    BY <1>1 DEF ObjectRecord, Other
  <1>3. t = [s EXCEPT !.o[a] = b]
    BY <1>1
  <1>4. ObjectSet(s, t, a, b)
    <2> HIDE DEF a, b
    <2> QED
      BY <1>1, <1>2, <1>3, ObjectChanged
  <1> QED
    BY <1>2, <1>4 DEF PlaceWritten, ObjectSet

\* A write is one of these two.
LEMMA WrittenIs ==
    ASSUME NEW s, Shape(s), NEW n \in Holders, s.h[n] # NoHandle, Room(s)
    PROVE  /\ NeedsCopy(s, n) => CopyWritten(s, Written(s, n), n, New(s))
           /\ ~NeedsCopy(s, n) => PlaceWritten(s, Written(s, n), n)
  <1>1. s \in StoreType
    BY DEF Shape
  <1>2. New(s) \in Objects /\ New(s) # s.h[n].o
    BY NewIsUnused
  <1>3. CASE NeedsCopy(s, n)
    <2>1. Owned(s, n) = CopyTo(s, n, New(s))
      BY <1>3 DEF Owned, CopyTo
    <2>2. Written(s, n) = Struck(CopyTo(s, n, New(s)), n)
      BY <2>1 DEF Written, Struck
    <2>3. CopyWritten(s, Written(s, n), n, New(s))
      BY <1>1, <1>2, <2>2, CopyIsWritten
    <2> QED
      BY <1>3, <2>3
  <1>4. CASE ~NeedsCopy(s, n)
    <2>1. Written(s, n) = [s EXCEPT !.o[s.h[n].o].v = Other(@)]
      BY <1>4 DEF Written, Owned
    <2>2. PlaceWritten(s, Written(s, n), n)
      BY <1>1, <2>1, PlaceIsWritten
    <2> QED
      BY <1>4, <2>2
  <1> QED
    BY <1>3, <1>4

LEMMA WrittenShape ==
    ASSUME NEW s, Shape(s), NEW n \in Holders, s.h[n] # NoHandle, Room(s)
    PROVE  /\ Shape(Written(s, n)) /\ Written(s, n).h[n] # NoHandle
           /\ Written(s, n).h[n].flags = s.h[n].flags
           /\ \A m \in Holders \ {n} : Written(s, n).h[m] = s.h[m]
           /\ ~NeedsCopy(s, n) => Written(s, n).h = s.h
  <1> DEFINE t == Written(s, n)
             a == s.h[n].o
  <1>1. /\ NeedsCopy(s, n) => CopyWritten(s, t, n, New(s))
        /\ ~NeedsCopy(s, n) => PlaceWritten(s, t, n)
    BY WrittenIs
  <1>2. /\ New(s) \in Objects /\ New(s) # a /\ \A m \in Holders : s.h[m].o # New(s)
    BY NewIsUnused
  <1>3. /\ s \in StoreType /\ a \in Objects /\ s.h[n] \in LiveHandle
        /\ \A m \in Holders : s.h[m] # NoHandle => s.h[m].o \in Objects
    BY HandleTypes DEF Shape
  <1> HIDE DEF t
  <1>4. CASE NeedsCopy(s, n)
    <2> DEFINE hd == [o |-> New(s), flags |-> s.h[n].flags]
    <2>1. t \in StoreType /\ t.h = [s.h EXCEPT ![n] = hd] /\ t.o[New(s)].file = FALSE
          /\ t.o[a].file = s.o[a].file /\ \A j \in Objects \ {New(s), a} : t.o[j] = s.o[j]
      BY <1>1, <1>4 DEF CopyWritten
    <2>2. hd \in LiveHandle /\ hd # NoHandle /\ hd.flags = s.h[n].flags /\ hd.o = New(s)
      BY <1>2, <1>3, ObjectsArePositive DEF LiveHandle, NoHandle
    <2> HIDE DEF hd
    <2>3. t.h[n] = hd /\ \A m \in Holders \ {n} : t.h[m] = s.h[m]
      BY <1>3, <2>1 DEF StoreType
    <2>4. \A j \in Objects \ {New(s)} : t.o[j].file = s.o[j].file
      BY <2>1
    <2>5. \A m \in Holders : t.h[m] = NoHandle \/ Fit(t, t.h[m])
      BY <1>2, <1>3, <2>1, <2>2, <2>3, <2>4 DEF Shape, Fit, Mapped
    <2>6. Shape(t)
      BY <2>1, <2>2, <2>3, <2>5 DEF Shape
    <2> QED
      BY <1>4, <2>2, <2>3, <2>6 DEF t
  <1>5. CASE ~NeedsCopy(s, n)
    <2>1. t \in StoreType /\ t.h = s.h /\ \A j \in Objects : t.o[j].file = s.o[j].file
      BY <1>1, <1>5 DEF PlaceWritten
    <2>2. \A m \in Holders : t.h[m] = NoHandle \/ Fit(t, t.h[m])
      BY <1>3, <2>1 DEF Shape, Fit, Mapped
    <2>3. Shape(t)
      BY <2>1, <2>2 DEF Shape
    <2> QED
      BY <2>1, <2>3 DEF t
  <1> QED
    BY <1>4, <1>5

\* Two counted handles make a count of two.
LEMMA SharedByTwo ==
    ASSUME NEW s, NEW i, NEW m \in Owners(s, i), NEW n \in Owners(s, i), m # n
    PROVE  Cardinality(Owners(s, i)) > 1
  <1>1. IsFiniteSet(Owners(s, i)) /\ Cardinality(Owners(s, i)) \in Nat
    BY OwnersFinite
  <1>2. {m, n} \in SUBSET Owners(s, i)
    OBVIOUS
  <1>3. IsFiniteSet({m}) /\ Cardinality({m}) = 1
    BY FS_Singleton
  <1>4. Cardinality({m} \cup {n}) = 2
    BY <1>3, FS_AddElement
  <1>5. {m} \cup {n} = {m, n}
    OBVIOUS
  <1>6. Cardinality({m, n}) <= Cardinality(Owners(s, i))
    BY <1>1, <1>2, FS_Subset
  <1> QED
    BY <1>1, <1>4, <1>5, <1>6

\* A write through a counted handle leaves the counts right and every other counted holder
\* its value.
LEMMA WrittenCounts ==
    ASSUME NEW s, Shape(s), NEW n \in Holders, s.h[n] # NoHandle, Room(s),
           Counts(s, NoHandle), "LAST" \notin s.h[n].flags
    PROVE  /\ Counts(Written(s, n), NoHandle)
           /\ \A m \in Holders \ {n} :
                s.h[m] # NoHandle /\ "LAST" \notin s.h[m].flags
                => Written(s, n).o[s.h[m].o].v = s.o[s.h[m].o].v
  <1> DEFINE t == Written(s, n)
             a == s.h[n].o
  <1>1. /\ NeedsCopy(s, n) => CopyWritten(s, t, n, New(s))
        /\ ~NeedsCopy(s, n) => PlaceWritten(s, t, n)
    BY WrittenIs
  <1>2. /\ New(s) \in Objects /\ New(s) # a /\ s.o[New(s)].n = 0 /\ \A m \in Holders : s.h[m].o # New(s)
    BY NewIsUnused DEF NoObject
  <1>3. /\ s \in StoreType /\ a \in Objects /\ s.h[n] \in LiveHandle
        /\ (\A m \in Holders : s.h[m] # NoHandle => s.h[m].o \in Objects)
        /\ \A j \in Objects : s.o[j].n \in Int
    BY HandleTypes DEF Shape, StoreType, ObjectRecord
  <1>4. \A j \in Objects : One(NoHandle, j) = 0 /\ Cardinality(Owners(s, j)) \in Nat
    BY OneTypes, OwnersFinite
  <1> HIDE DEF t
  <1>5. CASE NeedsCopy(s, n)
    <2> DEFINE hd == [o |-> New(s), flags |-> s.h[n].flags]
    <2>1. /\ t.h = [s.h EXCEPT ![n] = hd] /\ t.o[New(s)].n = 1
          /\ t.o[a].n = s.o[a].n - 1 /\ t.o[a].v = s.o[a].v
          /\ \A j \in Objects \ {New(s), a} : t.o[j] = s.o[j]
      BY <1>1, <1>5 DEF CopyWritten
    <2>2. \A j \in Objects : One(hd, j) = (IF j = New(s) THEN 1 ELSE 0)
                             /\ One(s.h[n], j) = (IF j = a THEN 1 ELSE 0)
      BY DEF One
    <2> HIDE DEF hd
    <2>3. \A j \in Objects : Cardinality(Owners(t, j)) = Cardinality(Owners(s, j)) + One(hd, j) - One(s.h[n], j)
      <3>1. OwnersMoved(s, t, n, hd)
        BY <1>3, <2>1, OwnersReplaced
      <3> QED
        BY <3>1 DEF OwnersMoved
    <2>4. Counts(t, NoHandle)
      BY <1>2, <1>3, <1>4, <2>1, <2>2, <2>3 DEF Counts
    <2>5. \A j \in Objects \ {New(s)} : t.o[j].v = s.o[j].v
      BY <2>1
    <2>6. ASSUME NEW m \in Holders, s.h[m] # NoHandle
          PROVE  t.o[s.h[m].o].v = s.o[s.h[m].o].v
      BY <1>2, <1>3, <2>5, <2>6
    <2> QED
      BY <2>4, <2>6 DEF t
  <1>6. CASE ~NeedsCopy(s, n)
    <2>1. t.h = s.h /\ t.o[a].n = s.o[a].n /\ \A j \in Objects \ {a} : t.o[j] = s.o[j]
      BY <1>1, <1>6 DEF PlaceWritten
    <2>2. \A j \in Objects : Owners(t, j) = Owners(s, j) /\ t.o[j].n = s.o[j].n
      BY <2>1 DEF Owners
    <2>3. Counts(t, NoHandle)
      BY <2>2 DEF Counts
    <2>4. ~(s.o[a].n > 1) /\ s.o[a].n = Cardinality(Owners(s, a))
      BY <1>3, <1>4, <1>6 DEF Counts, NeedsCopy
    <2>5. ASSUME NEW m \in Holders \ {n}, s.h[m] # NoHandle, "LAST" \notin s.h[m].flags
          PROVE  t.o[s.h[m].o].v = s.o[s.h[m].o].v
      <3>1. s.h[m].o # a
        <4> SUFFICES ASSUME s.h[m].o = a
                     PROVE  FALSE
          OBVIOUS
        <4>1. m \in Owners(s, a) /\ n \in Owners(s, a)
          BY <2>5 DEF Owners
        <4> QED
          BY <2>4, <2>5, <4>1, SharedByTwo
      <3> QED
        BY <1>3, <2>1, <2>5, <3>1
    <2> QED
      BY <2>3, <2>5 DEF t
  <1> QED
    BY <1>5, <1>6

-----------------------------------------------------------------------------
(* Entering a handle and dropping one: values, files and the other handles *)
(* are left alone, and counts follow.                                      *)

Balanced(s, t) ==
  \A i \in Objects : t.o[i].n - Cardinality(Owners(t, i)) = s.o[i].n - Cardinality(Owners(s, i))
Moved(s, t, n) ==
  /\ Shape(t) /\ Alike(s, t) /\ Balanced(s, t)
  /\ \A m \in Holders \ {n} : t.h[m] = s.h[m]

LEMMA CountTypes ==
    ASSUME NEW s \in StoreType, NEW i \in Objects
    PROVE  s.o[i].n \in Int /\ Cardinality(Owners(s, i)) \in Nat
  BY OwnersFinite DEF StoreType, ObjectRecord

\* Counts and handles that have moved together still agree.
LEMMA BalancedCounts ==
    ASSUME NEW s \in StoreType, NEW t \in StoreType, Balanced(s, t), NEW hd, Counts(s, hd)
    PROVE  Counts(t, hd)
  <1> SUFFICES ASSUME NEW i \in Objects
               PROVE  t.o[i].n = Cardinality(Owners(t, i)) + One(hd, i)
    BY DEF Counts
  <1>1. /\ s.o[i].n \in Int /\ Cardinality(Owners(s, i)) \in Nat
        /\ t.o[i].n \in Int /\ Cardinality(Owners(t, i)) \in Nat
    BY CountTypes
  <1>2. One(hd, i) \in {0, 1}
    BY OneTypes
  <1>3. t.o[i].n - Cardinality(Owners(t, i)) = s.o[i].n - Cardinality(Owners(s, i))
    BY DEF Balanced
  <1>4. s.o[i].n = Cardinality(Owners(s, i)) + One(hd, i)
    BY DEF Counts
  <1> QED
    BY <1>1, <1>2, <1>3, <1>4

\* The counts of u are those of s when hd takes the place of the handle of n.
Exchanged(s, u, n, hd) ==
  /\ u \in StoreType /\ u.h = s.h /\ Alike(s, u)
  /\ \A i \in Objects : u.o[i].n = s.o[i].n + One(hd, i) - One(s.h[n], i)

With(u, n, hd) == [u EXCEPT !.h[n] = hd]
MayHold(s, n, hd) ==
  /\ hd = NoHandle \/ Fit(s, hd)
  /\ "LAST" \in hd.flags => n = LastName
  /\ n \in Literals => hd # NoHandle

\* A holder whose old handle was dropped and that is given a counted one.
LEMMA ReplacedMoves ==
    ASSUME NEW s, Shape(s), NEW n \in Holders, NEW hd, MayHold(s, n, hd),
           NEW u, Exchanged(s, u, n, hd)
    PROVE  Moved(s, With(u, n, hd), n) /\ With(u, n, hd).h[n] = hd
  <1> DEFINE t == With(u, n, hd)
  <1>1. hd \in LiveHandle \cup {NoHandle} /\ s \in StoreType /\ u \in StoreType /\ u.h = s.h /\ Alike(s, u)
    BY DEF Fit, Shape, Exchanged, MayHold
  <1>2. HandleSet(u, t, n, hd)
    BY <1>1, HandleChanged DEF With
  <1> HIDE DEF t
  <1>3. /\ t \in StoreType /\ t.o = u.o /\ t.h = [s.h EXCEPT ![n] = hd]
        /\ t.h[n] = hd /\ \A m \in Holders \ {n} : t.h[m] = s.h[m]
    BY <1>1, <1>2 DEF HandleSet
  <1>4. Alike(s, t)
    BY <1>1, <1>3 DEF Alike
  <1>5. \A i \in Objects : Mapped(t, i) <=> Mapped(s, i)
    BY <1>4 DEF Alike, Mapped
  <1>6. \A m \in Holders : t.h[m] = NoHandle \/ Fit(t, t.h[m])
    <2>1. \A h \in LiveHandle : h.o \in Objects
      BY DEF LiveHandle
    <2> QED
      BY <1>3, <1>5, <2>1 DEF Shape, Fit, MayHold
  <1>7. Shape(t)
    <2>1. \A m \in Holders : "LAST" \in t.h[m].flags => m = LastName
      BY <1>3 DEF Shape, MayHold
    <2>2. \A m \in Literals : t.h[m] # NoHandle
      BY <1>3, HoldersApart DEF Shape, MayHold
    <2> QED
      BY <1>3, <1>6, <2>1, <2>2 DEF Shape
  <1>8. ASSUME NEW i \in Objects
        PROVE  t.o[i].n - Cardinality(Owners(t, i)) = s.o[i].n - Cardinality(Owners(s, i))
    <2>1. Cardinality(Owners(t, i)) = Cardinality(Owners(s, i)) + One(hd, i) - One(s.h[n], i)
      <3>1. OwnersMoved(s, t, n, hd)
        BY <1>1, <1>3, OwnersReplaced
      <3> QED
        BY <3>1 DEF OwnersMoved
    <2>2. t.o[i].n = s.o[i].n + One(hd, i) - One(s.h[n], i)
      BY <1>3 DEF Exchanged
    <2>3. One(hd, i) \in {0, 1} /\ One(s.h[n], i) \in {0, 1}
      BY OneTypes
    <2>4. s.o[i].n \in Int /\ Cardinality(Owners(s, i)) \in Nat
      BY <1>1, CountTypes
    <2> QED
      BY <2>1, <2>2, <2>3, <2>4
  <1> QED
    BY <1>3, <1>4, <1>7, <1>8 DEF Moved, Balanced, t

LEMMA TheCopyIs ==
    ASSUME NEW s, NEW hd, Fit(s, hd)
    PROVE  /\ Fit(s, TheCopy(hd)) /\ Temporary(s, TheCopy(hd)) /\ TheCopy(hd).o = hd.o
           /\ "LAST" \notin TheCopy(hd).flags /\ TheCopy(hd) # NoHandle
           /\ TheCopy(hd) = [o |-> hd.o, flags |-> hd.flags \ {"LAST"}]
  <1>1. TheCopy(hd) = [o |-> hd.o, flags |-> hd.flags \ {"LAST"}] /\ hd \in LiveHandle
    BY DEF TheCopy, LiveHandle, Fit
  <1>2. TheCopy(hd) \in LiveHandle /\ TheCopy(hd).o = hd.o /\ TheCopy(hd).flags = hd.flags \ {"LAST"}
    BY <1>1 DEF LiveHandle
  <1>3. TheCopy(hd) # NoHandle
    BY <1>2, ObjectsArePositive DEF LiveHandle, NoHandle
  <1>4. Fit(s, TheCopy(hd)) /\ "LAST" \notin TheCopy(hd).flags
    BY <1>2 DEF Fit
  <1> QED
    BY <1>1, <1>2, <1>3, <1>4 DEF Temporary

\* Frame::add keeps the counts right.
LEMMA EnteredMoves ==
    ASSUME NEW s, Shape(s), NEW n \in Holders, NEW hd, Fit(s, hd)
    PROVE  Moved(s, Entered(s, n, hd), n) /\ Entered(s, n, hd).h[n] = TheCopy(hd)
  <1> DEFINE a == Copied(s, hd)
             u == Dropped(a, s.h[n])
             t == Entered(s, n, hd)
  <1>1. s \in StoreType /\ hd \in LiveHandle /\ s.h[n] \in LiveHandle \cup {NoHandle}
    BY HandleTypes DEF Shape, Fit
  <1>2. /\ a \in StoreType /\ a.h = s.h /\ Alike(s, a)
        /\ \A j \in Objects : a.o[j].n = s.o[j].n + One(TheCopy(hd), j)
    BY <1>1, CopiedIs
  <1>3. /\ u \in StoreType /\ u.h = a.h /\ Alike(a, u)
        /\ \A j \in Objects : u.o[j].n = a.o[j].n - One(s.h[n], j)
    <2> HIDE DEF a
    <2> QED
      BY <1>1, <1>2, DroppedIs
  <1>4. t = With(u, n, TheCopy(hd))
    BY DEF Entered, With
  <1>5. /\ Fit(s, TheCopy(hd)) /\ "LAST" \notin TheCopy(hd).flags /\ TheCopy(hd) # NoHandle
    BY TheCopyIs
  <1> HIDE DEF a, u, t
  <1>6. u.h = s.h /\ Alike(s, u)
    BY <1>2, <1>3 DEF Alike
  <1>7. Exchanged(s, u, n, TheCopy(hd))
    <2>1. \A j \in Objects : a.o[j].n \in Int /\ s.o[j].n \in Int
      BY <1>1, <1>2, CountTypes
    <2>2. \A j \in Objects : One(TheCopy(hd), j) \in {0, 1} /\ One(s.h[n], j) \in {0, 1}
      BY OneTypes
    <2> QED
      BY <1>2, <1>3, <1>6, <2>1, <2>2 DEF Exchanged
  <1>9. MayHold(s, n, TheCopy(hd))
    BY <1>5 DEF MayHold
  <1>8. Moved(s, t, n) /\ t.h[n] = TheCopy(hd)
    BY <1>4, <1>7, <1>9, ReplacedMoves
  <1> QED
    BY <1>8 DEF t

Emptied(s, n) == [Dropped(s, s.h[n]) EXCEPT !.h[n] = NoHandle]

\* So does an entry that is erased.
LEMMA EmptiedMoves ==
    ASSUME NEW s, Shape(s), NEW n \in Holders \ Literals
    PROVE  Moved(s, Emptied(s, n), n) /\ Emptied(s, n).h[n] = NoHandle
  <1> DEFINE u == Dropped(s, s.h[n])
             t == Emptied(s, n)
  <1>1. s \in StoreType /\ s.h[n] \in LiveHandle \cup {NoHandle}
    BY HandleTypes DEF Shape
  <1>2. /\ u \in StoreType /\ u.h = s.h /\ Alike(s, u)
        /\ \A j \in Objects : u.o[j].n = s.o[j].n - One(s.h[n], j)
    BY <1>1, DroppedIs
  <1>3. t = With(u, n, NoHandle)
    BY DEF Emptied, With
  <1>4. "LAST" \notin NoHandle.flags
    BY DEF NoHandle
  <1> HIDE DEF u, t
  <1>5. \A j \in Objects : One(NoHandle, j) = 0 /\ One(s.h[n], j) \in {0, 1} /\ s.o[j].n \in Int
    BY <1>1, OneTypes, CountTypes
  <1>6. Exchanged(s, u, n, NoHandle)
    BY <1>2, <1>5 DEF Exchanged
  <1>8. MayHold(s, n, NoHandle)
    BY <1>4 DEF MayHold
  <1>7. Moved(s, t, n) /\ t.h[n] = NoHandle
    BY <1>3, <1>6, <1>8, ReplacedMoves
  <1> QED
    BY <1>7 DEF t

\* The handle of .Last.value gives its count back.
LEMMA SetLastMoves ==
    ASSUME NEW s, Shape(s), s.h[LastName] # NoHandle, "LAST" \notin s.h[LastName].flags
    PROVE  Moved(s, setLast(s), LastName)
  <1> DEFINE a == s.h[LastName].o
             hd == [o |-> a, flags |-> s.h[LastName].flags \cup {"LAST"}]
             u == [s EXCEPT !.o[a].n = @ + (-1)]
             t == setLast(s)
  <1>1. /\ s \in StoreType /\ LastName \in Holders /\ LastName \notin Literals
        /\ s.h[LastName] \in LiveHandle /\ a \in Objects /\ Fit(s, s.h[LastName])
    BY HandleTypes, HoldersApart DEF Shape, Fit
  <1>2. hd \in LiveHandle /\ hd.o = a /\ "LAST" \in hd.flags
        /\ ("LOCKED" \in s.h[LastName].flags => "LOCKED" \in hd.flags)
    BY <1>1 DEF LiveHandle, Flags
  <1>3. CountMoved(s, u, a, -1)
    BY <1>1, CountChanged
  <1>4. \A j \in Objects : One(hd, j) = 0 /\ One(s.h[LastName], j) = IF j = a THEN 1 ELSE 0
    BY <1>2 DEF One
  <1>5. t = With(u, LastName, hd)
    <2>1. s = [h |-> s.h, o |-> s.o] /\ s.o[a].n \in Int
      BY <1>1, CountTypes DEF StoreType
    <2>2. [s.h[LastName] EXCEPT !.flags = @ \cup {"LAST"}] = hd
      <3>1. \A h \in LiveHandle : \A F : [h EXCEPT !.flags = F] = [o |-> h.o, flags |-> F]
        BY DEF LiveHandle
      <3> QED
        BY <1>1, <3>1, Zenon
    <2>3. s.o[a].n - 1 = s.o[a].n + (-1)
      BY <2>1
    <2> DEFINE o2 == [s.o EXCEPT ![a].n = @ - 1]
               h2 == [s.h EXCEPT ![LastName] = hd]
               s1 == [s EXCEPT !.h[LastName].flags = @ \cup {"LAST"}]
    <2>4. s1 = [h |-> h2, o |-> s.o]
      <3>1. s1 = [s EXCEPT !.h = h2]
        BY <2>2
      <3> HIDE DEF s1, h2, hd
      <3> QED
        BY <2>1, <3>1
    <2>5. s1.h = h2 /\ s1.o = s.o
      BY <2>4
    <2>6. t = [s1 EXCEPT !.o[a].n = @ - 1]
      BY DEF setLast
    <2>7. t = [s1 EXCEPT !.o = o2]
      <3> HIDE DEF s1, h2, hd, t
      <3> QED
        BY <2>5, <2>6
    <2>8. t = [h |-> h2, o |-> o2]
      <3> HIDE DEF s1, h2, hd, t, o2
      <3> QED
        BY <2>4, <2>7
    <2>9. u = [s EXCEPT !.o = o2]
      BY <2>3
    <2>10. u = [h |-> s.h, o |-> o2]
      <3> HIDE DEF o2, u
      <3> QED
        BY <2>1, <2>9
    <2>11. With(u, LastName, hd) = [h |-> h2, o |-> o2]
      <3> HIDE DEF o2, u, hd
      <3> QED
        BY <2>10 DEF With
    <2> QED
      BY <2>8, <2>11
  <1>6. MayHold(s, LastName, hd)
    <2> HIDE DEF hd
    <2> QED
      BY <1>1, <1>2 DEF MayHold, Fit
  <1>7. Exchanged(s, u, LastName, hd)
    <2> HIDE DEF hd, u
    <2>1. \A j \in Objects : s.o[j].n \in Int
      BY <1>1, CountTypes
    <2> QED
      BY <1>3, <1>4, <2>1 DEF CountMoved, Exchanged
  <1> HIDE DEF t, u, hd
  <1>8. Moved(s, With(u, LastName, hd), LastName)
    BY <1>1, <1>6, <1>7, ReplacedMoves
  <1> QED
    BY <1>5, <1>8 DEF t

\* When the temporary handle is dropped the count is that of the holders alone.
LEMMA TempDropped ==
    ASSUME NEW s, Shape(s), NEW hd, Temporary(s, hd)
    PROVE  /\ Shape(Dropped(s, hd)) /\ Dropped(s, hd).h = s.h /\ Alike(s, Dropped(s, hd))
           /\ Counts(s, hd) => Counts(Dropped(s, hd), NoHandle)
  <1> DEFINE t == Dropped(s, hd)
  <1>1. s \in StoreType /\ hd \in LiveHandle \cup {NoHandle}
    BY DEF Shape, Temporary, Fit
  <1>2. /\ t \in StoreType /\ t.h = s.h /\ Alike(s, t)
        /\ \A j \in Objects : t.o[j].n = s.o[j].n - One(hd, j)
    BY <1>1, DroppedIs
  <1> HIDE DEF t
  <1>3. \A i \in Objects : Mapped(t, i) <=> Mapped(s, i)
    BY <1>2 DEF Alike, Mapped
  <1>4. \A h : Fit(s, h) => Fit(t, h)
    BY <1>3 DEF Fit, LiveHandle
  <1>5. Shape(t)
    BY <1>2, <1>4 DEF Shape
  <1>6. ASSUME Counts(s, hd)
        PROVE  Counts(t, NoHandle)
    <2> SUFFICES ASSUME NEW i \in Objects
                 PROVE  t.o[i].n = Cardinality(Owners(t, i)) + One(NoHandle, i)
      BY DEF Counts
    <2>1. s.o[i].n \in Int /\ Cardinality(Owners(s, i)) \in Nat /\ One(NoHandle, i) = 0 /\ One(hd, i) \in {0, 1}
      BY <1>1, CountTypes, OneTypes
    <2>2. Owners(t, i) = Owners(s, i)
      BY <1>2 DEF Owners
    <2>3. s.o[i].n = Cardinality(Owners(s, i)) + One(hd, i)
      BY <1>6 DEF Counts
    <2> QED
      BY <1>2, <2>1, <2>2, <2>3
  <1> QED
    BY <1>2, <1>5, <1>6 DEF t

LEMMA MovedKeeps ==
    ASSUME NEW s, Shape(s), NEW t, NEW n, Moved(s, t, n)
    PROVE  /\ \A hd : Temporary(s, hd) => Temporary(t, hd)
           /\ \A hd : Fit(s, hd) => Fit(t, hd)
           /\ \A hd : Counts(s, hd) => Counts(t, hd)
  <1>1. s \in StoreType /\ t \in StoreType /\ Balanced(s, t) /\ Alike(s, t)
    BY DEF Moved, Shape
  <1>2. \A i \in Objects : Mapped(t, i) <=> Mapped(s, i)
    BY <1>1 DEF Alike, Mapped
  <1>3. \A hd : Fit(s, hd) => Fit(t, hd)
    BY <1>2 DEF Fit, LiveHandle
  <1> QED
    BY <1>1, <1>3, BalancedCounts DEF Temporary

\* The temporary value hd and the frame are gone.
Cleared(s, t, hd) ==
  /\ Shape(t) /\ Alike(s, t) /\ t.h[ArgName] = NoHandle
  /\ \A m \in Holders \ {ArgName} : t.h[m] = s.h[m]
  /\ Counts(s, hd) => Counts(t, NoHandle)

LEMMA TempGoneIs ==
    ASSUME NEW s, Shape(s), NEW r, Temporary(s, r.hd)
    PROVE  Cleared(s, TempGone(s, r), r.hd)
  <1> DEFINE u == Dropped(s, r.hd)
             t == TempGone(s, r)
  <1>1. /\ Shape(u) /\ u.h = s.h /\ Alike(s, u)
        /\ Counts(s, r.hd) => Counts(u, NoHandle)
    BY TempDropped
  <1>2. t = Emptied(u, ArgName)
    BY DEF TempGone, LeaveFrame, Emptied
  <1>3. ArgName \in Holders \ Literals
    BY HoldersApart
  <1> HIDE DEF u, t
  <1>4. Moved(u, t, ArgName) /\ t.h[ArgName] = NoHandle
    BY <1>1, <1>2, <1>3, EmptiedMoves
  <1>5. Counts(u, NoHandle) => Counts(t, NoHandle)
    BY <1>1, <1>4, MovedKeeps
  <1>6. Alike(s, t)
    BY <1>1, <1>4 DEF Alike, Moved
  <1>7. Cleared(s, t, r.hd)
    BY <1>1, <1>4, <1>5, <1>6 DEF Cleared, Moved
  <1> QED
    BY <1>7 DEF t

-----------------------------------------------------------------------------
(* The end of a statement.                                                 *)

\* What an expression returned: a temporary value, or a pointer to a variable.
Result(r) ==
  /\ Shape(r.s) /\ Temporary(r.s, r.hd)
  /\ \/ r.ptr = Nobody
     \/ r.ptr \in Holders \ Literals /\ r.s.h[r.ptr] # NoHandle /\ r.hd = NoHandle

\* The statement has given nothing but the variables of E another handle.
Ended(r, t, E) ==
  /\ Shape(t) /\ Alike(r.s, t) /\ t.h[ArgName] = NoHandle
  /\ \A m \in Kept \ E : t.h[m] = r.s.h[m]
  /\ Counts(r.s, r.hd) => Counts(t, NoHandle)

LEMMA GotFits ==
    ASSUME NEW r, Result(r), Got(r) # NoHandle
    PROVE  Fit(r.s, Got(r))
  BY DEF Result, Got, Temporary, Shape

LEMMA ConstFits ==
    ASSUME NEW s, NEW hd, Fit(s, hd)
    PROVE  Fit(s, setConst(hd))
  <1>1. setConst(hd) = [o |-> hd.o, flags |-> hd.flags \cup {"CONSTREF"}]
    BY DEF setConst, Fit, LiveHandle
  <1>2. setConst(hd).o = hd.o /\ setConst(hd).flags = hd.flags \cup {"CONSTREF"}
    BY <1>1
  <1>3. setConst(hd) \in LiveHandle
    BY <1>1 DEF Fit, LiveHandle, Flags
  <1> QED
    BY <1>2, <1>3 DEF Fit

LEMMA KeptIs ==
    /\ Kept \subseteq Holders /\ LastName \notin Kept /\ ArgName \notin Kept /\ Nobody \notin Kept
    /\ \A m \in Kept : m \in Holders \ {LastName} /\ m \in Holders \ {ArgName}
  BY HoldersApart DEF Kept

\* The end of a statement that shows its value changes .Last.value and nothing else.
LEMMA ShownIs ==
    ASSUME NEW r, Result(r)
    PROVE  Ended(r, Shown(r), {})
  <1>1. LastName \in Holders \ Literals /\ Shape(r.s)
    BY HoldersApart DEF Result
  <1>2. CASE r.ptr = Nobody /\ r.hd = NoHandle
    <2> DEFINE a == Emptied(r.s, LastName)
               t == TempGone(a, r)
    <2>1. Shown(r) = t
      BY <1>2, HoldersApart DEF Shown, Emptied
    <2>2. Moved(r.s, a, LastName)
      BY <1>1, EmptiedMoves
    <2> HIDE DEF a
    <2>3. Shape(a) /\ Temporary(a, r.hd) /\ (Counts(r.s, r.hd) => Counts(a, r.hd))
      BY <1>1, <2>2, MovedKeeps DEF Moved, Result
    <2>4. Cleared(a, t, r.hd)
      BY <2>3, TempGoneIs
    <2> HIDE DEF t
    <2>5. Ended(r, t, {})
      BY <2>2, <2>3, <2>4, KeptIs DEF Ended, Cleared, Moved, Alike
    <2> QED
      BY <2>1, <2>5
  <1>3. CASE ~(r.ptr = Nobody /\ r.hd = NoHandle)
    <2> DEFINE hd == IF r.ptr = Nobody THEN setConst(r.hd) ELSE Got(r)
               a == Entered(r.s, LastName, hd)
               b == setLast(a)
               t == TempGone(b, r)
    <2>1. Shown(r) = t
      BY <1>3 DEF Shown
    <2>2. Fit(r.s, hd)
      <3>1. CASE r.ptr = Nobody
        <4>1. Fit(r.s, r.hd)
          BY <1>3, <3>1 DEF Result, Temporary
        <4> QED
          BY <3>1, <4>1, ConstFits
      <3>2. CASE r.ptr # Nobody
        <4>1. Got(r) # NoHandle
          BY <3>2 DEF Got, Result
        <4> QED
          BY <3>2, <4>1, GotFits
      <3> QED
        BY <3>1, <3>2
    <2> HIDE DEF hd
    <2>3. Moved(r.s, a, LastName) /\ a.h[LastName] = TheCopy(hd)
      BY <1>1, <2>2, EnteredMoves
    <2>4. a.h[LastName] # NoHandle /\ "LAST" \notin a.h[LastName].flags
      BY <2>2, <2>3, TheCopyIs
    <2> HIDE DEF a
    <2>5. Shape(a) /\ Temporary(a, r.hd) /\ (Counts(r.s, r.hd) => Counts(a, r.hd))
      BY <1>1, <2>3, MovedKeeps DEF Moved, Result
    <2>6. Moved(a, b, LastName)
      BY <2>4, <2>5, SetLastMoves
    <2> HIDE DEF b
    <2>7. Shape(b) /\ Temporary(b, r.hd) /\ (Counts(a, r.hd) => Counts(b, r.hd))
      BY <2>5, <2>6, MovedKeeps DEF Moved
    <2>8. Cleared(b, t, r.hd)
      BY <2>7, TempGoneIs
    <2> HIDE DEF t
    <2>9. Alike(r.s, t)
      BY <2>3, <2>6, <2>8 DEF Cleared, Moved, Alike
    <2>10. \A m \in Kept : t.h[m] = r.s.h[m]
      BY <2>3, <2>6, <2>8, KeptIs DEF Cleared, Moved
    <2>11. Ended(r, t, {})
      BY <2>5, <2>7, <2>8, <2>9, <2>10 DEF Ended, Cleared
    <2> QED
      BY <2>1, <2>11
  <1> QED
    BY <1>2, <1>3

\* The end of an assignment changes its variable and .Last.value and nothing else.
LEMMA AssignedIs ==
    ASSUME NEW r, Result(r), Got(r) # NoHandle, NEW n \in Vars
    PROVE  /\ Ended(r, AssignedTo(r, n), {n})
           /\ AssignedTo(r, n).h[n] # NoHandle
  <1> DEFINE a == Entered(r.s, n, Got(r))
             b == resetRef(a, n)
             c == TempGone(b, r)
             q == Pointer(c, n)
             t == Shown(q)
  <1>1. /\ Shape(r.s) /\ Fit(r.s, Got(r)) /\ n \in Holders \ Literals /\ n # ArgName /\ n # LastName /\ n # Nobody
        /\ n \in Kept /\ Temporary(r.s, r.hd)
    BY GotFits, HoldersApart DEF Result, Kept
  <1>2. Moved(r.s, a, n) /\ a.h[n] = TheCopy(Got(r)) /\ a.h[n] # NoHandle
    <2>1. Moved(r.s, Entered(r.s, n, Got(r)), n) /\ Entered(r.s, n, Got(r)).h[n] = TheCopy(Got(r))
      BY <1>1, EnteredMoves, Zenon
    <2>2. TheCopy(Got(r)) # NoHandle
      BY <1>1, TheCopyIs, Zenon
    <2> QED
      BY <2>1, <2>2
  <1>3. AssignedTo(r, n) = t
    BY DEF AssignedTo
  <1> HIDE DEF a
  <1>4. Shape(a) /\ Temporary(a, r.hd) /\ (Counts(r.s, r.hd) => Counts(a, r.hd))
    BY <1>1, <1>2, MovedKeeps DEF Moved
  <1>5. Flagged(a, b, n, a.h[n].flags \ {"REF"})
    BY <1>1, <1>2, <1>4, SetRefIs
  <1> HIDE DEF b
  <1>6. /\ Shape(b) /\ Temporary(b, r.hd) /\ (Counts(a, r.hd) => Counts(b, r.hd))
        /\ b.o = a.o /\ b.h[n].o = a.h[n].o /\ \A m \in Holders \ {n} : b.h[m] = a.h[m]
    BY <1>4, <1>5, FlaggedCounts DEF Flagged
  <1>7. Cleared(b, c, r.hd)
    BY <1>6, TempGoneIs
  <1> HIDE DEF c
  <1>8. b.h[n] # NoHandle /\ c.h[n] # NoHandle
    <2>1. a.h[n].o \in Objects /\ NoHandle.o = 0
      BY <1>1, <1>2, <1>4, HandleTypes DEF Shape, NoHandle
    <2>2. b.h[n] # NoHandle
      BY <1>6, <2>1, ObjectsArePositive
    <2> QED
      BY <1>1, <1>7, <2>2 DEF Cleared
  <1>9. q.s = c /\ q.hd = NoHandle /\ q.ptr = n
    BY DEF Pointer
  <1> HIDE DEF q
  <1>10. Result(q)
    BY <1>1, <1>7, <1>8, <1>9 DEF Result, Temporary, Cleared
  <1>11. Ended(q, t, {})
    BY <1>10, ShownIs
  <1> HIDE DEF t
  <1>12. Alike(r.s, t)
    BY <1>2, <1>6, <1>7, <1>9, <1>11 DEF Ended, Cleared, Moved, Alike
  <1>13. \A m \in Kept \ {n} : t.h[m] = r.s.h[m]
    BY <1>2, <1>6, <1>7, <1>9, <1>11, KeptIs DEF Ended, Cleared, Moved
  <1>14. Counts(r.s, r.hd) => Counts(t, NoHandle)
    BY <1>4, <1>6, <1>7, <1>9, <1>11 DEF Ended, Cleared
  <1>15. t.h[n] # NoHandle
    BY <1>1, <1>8, <1>9, <1>11 DEF Ended
  <1>16. Ended(r, t, {n})
    BY <1>11, <1>12, <1>13, <1>14 DEF Ended
  <1> QED
    BY <1>3, <1>15, <1>16

-----------------------------------------------------------------------------
(* Expressions.  Those in E are what the expression may give another       *)
(* object or value; a locked one keeps its object.                         *)

Places(s, u, E) ==
  \A m \in Kept : m \notin E \/ "LOCKED" \in s.h[m].flags => u.h[m].o = s.h[m].o
Values(s, u, E) ==
  \A m \in Kept \ E : s.h[m] # NoHandle => u.o[u.h[m].o].v = s.o[s.h[m].o].v
LocksKept(s, u) == \A m \in Kept : "LOCKED" \in s.h[m].flags => "LOCKED" \in u.h[m].flags

\* What an expression does to the store it found.
Ran(s, r, E) ==
  /\ Result(r) /\ Places(s, r.s, E)
  /\ ~r.ok => r.hd = NoHandle /\ r.s.h[ArgName] = NoHandle
Valued(s, r, E) == Counts(r.s, r.hd) /\ Values(s, r.s, E)

\* A temporary value is made and nothing else.
Adds(s, r) ==
  /\ Result(r) /\ r.ok /\ r.s.h = s.h
  /\ \A m \in Holders : s.h[m] # NoHandle => r.s.o[s.h[m].o].v = s.o[s.h[m].o].v
  /\ Counts(s, NoHandle) => Counts(r.s, r.hd)

LEMMA OwnCopyAdds ==
    ASSUME NEW s, Shape(s), NEW n \in Holders, s.h[n] # NoHandle
    PROVE  Adds(s, OwnCopy(s, n))
  <1> DEFINE hd == s.h[n]
             u == Copied(s, hd)
             r == OwnCopy(s, n)
  <1>1. s \in StoreType /\ hd \in LiveHandle /\ Fit(s, hd)
        /\ \A m \in Holders : s.h[m] # NoHandle => s.h[m].o \in Objects
    BY HandleTypes DEF Shape, Fit
  <1>2. /\ u \in StoreType /\ u.h = s.h /\ Alike(s, u)
        /\ \A j \in Objects : u.o[j].n = s.o[j].n + One(TheCopy(hd), j)
    BY <1>1, CopiedIs
  <1>3. Temporary(s, TheCopy(hd)) /\ "LAST" \notin TheCopy(hd).flags
    BY <1>1, TheCopyIs
  <1>4. r.s = u /\ r.hd = TheCopy(hd) /\ r.ptr = Nobody /\ r.ok
    BY DEF OwnCopy, Value
  <1> HIDE DEF u, r, hd
  <1>5. \A j \in Objects : Mapped(u, j) <=> Mapped(s, j)
    BY <1>2 DEF Alike, Mapped
  <1>6. \A h : Fit(s, h) => Fit(u, h)
    BY <1>5 DEF Fit, LiveHandle
  <1>7. Shape(u) /\ Temporary(u, TheCopy(hd))
    BY <1>2, <1>3, <1>6 DEF Shape, Temporary
  <1>8. ASSUME Counts(s, NoHandle)
        PROVE  Counts(u, TheCopy(hd))
    <2> SUFFICES ASSUME NEW i \in Objects
                 PROVE  u.o[i].n = Cardinality(Owners(u, i)) + One(TheCopy(hd), i)
      BY DEF Counts
    <2>1. One(NoHandle, i) = 0 /\ One(TheCopy(hd), i) \in {0, 1} /\ Cardinality(Owners(s, i)) \in Nat
      BY OneTypes, OwnersFinite
    <2>2. Owners(u, i) = Owners(s, i)
      BY <1>2 DEF Owners
    <2>3. s.o[i].n = Cardinality(Owners(s, i)) + One(NoHandle, i)
      BY <1>8 DEF Counts
    <2> QED
      BY <1>2, <2>1, <2>2, <2>3
  <1>9. \A m \in Holders : s.h[m] # NoHandle => u.o[s.h[m].o].v = s.o[s.h[m].o].v
    BY <1>1, <1>2 DEF Alike
  <1>10. Adds(s, r)
    BY <1>2, <1>4, <1>7, <1>8, <1>9 DEF Adds, Result
  <1> QED
    BY <1>10 DEF r

LEMMA MadeAdds ==
    ASSUME NEW s, Shape(s), Room(s), NEW v \in Int, NEW f \in BOOLEAN,
           NEW F \in SUBSET Flags, "LAST" \notin F, f => "LOCKED" \in F
    PROVE  Adds(s, Value(Made(s, v, f), [o |-> New(s), flags |-> F]))
  <1> DEFINE hd == [o |-> New(s), flags |-> F]
             u == Made(s, v, f)
             r == Value(u, hd)
             b == [v |-> v, n |-> 1, file |-> f]
  <1>1. New(s) \in Objects /\ (\A m \in Holders : s.h[m].o # New(s)) /\ s \in StoreType
    BY NewIsUnused DEF Shape
  <1>2. Shape(u) /\ ObjectSet(s, u, New(s), b)
    BY MadeIs
  <1>3. Counts(s, NoHandle) => Counts(u, hd)
    BY MadeCounts
  <1>4. r.s = u /\ r.hd = hd /\ r.ptr = Nobody /\ r.ok
    BY DEF Value
  <1>5. hd \in LiveHandle /\ hd.o = New(s) /\ hd.flags = F
    BY <1>1 DEF LiveHandle
  <1>6. b.file = f
    OBVIOUS
  <1> HIDE DEF r, u, hd, b
  <1>7. Mapped(u, New(s)) => "LOCKED" \in F
    BY <1>2, <1>6 DEF Mapped, ObjectSet
  <1>8. Temporary(u, hd)
    BY <1>5, <1>7 DEF Temporary, Fit
  <1>9. u.h = s.h /\ \A j \in Objects \ {New(s)} : u.o[j] = s.o[j]
    BY <1>2 DEF ObjectSet
  <1>10. \A m \in Holders : s.h[m] # NoHandle => s.h[m].o \in Objects \ {New(s)}
    BY <1>1, HandleTypes
  <1>11. \A m \in Holders : s.h[m] # NoHandle => u.o[s.h[m].o].v = s.o[s.h[m].o].v
    BY <1>9, <1>10
  <1>12. Adds(s, r)
    BY <1>2, <1>3, <1>4, <1>8, <1>9, <1>11 DEF Adds, Result
  <1> QED
    BY <1>12 DEF r, u, hd

LEMMA FreshAdds ==
    ASSUME NEW s, Shape(s), Room(s), NEW v \in Int
    PROVE  Adds(s, Fresh(s, v))
  <1>1. {} \in SUBSET Flags /\ "LAST" \notin {} /\ FALSE \in BOOLEAN
    OBVIOUS
  <1>2. Adds(s, Value(Made(s, v, FALSE), [o |-> New(s), flags |-> {}]))
    BY <1>1, MadeAdds
  <1> QED
    BY <1>2 DEF Fresh

\* What is added to a store that was prepared.
LEMMA AddsRan ==
    ASSUME NEW s, NEW u, NEW r, NEW E, Shape(s), Shape(u), Adds(u, r), Places(s, u, E)
    PROVE  /\ Ran(s, r, E)
           /\ Counts(u, NoHandle) /\ Values(s, u, E) /\ (\A m \in Kept \ E : s.h[m] # NoHandle => u.h[m] # NoHandle)
              => Valued(s, r, E)
  BY KeptIs DEF Adds, Ran, Places, Valued, Values

\* A store that was changed before a value is made from it.
Prepared(s, u, E) ==
  /\ Shape(u) /\ Places(s, u, E)
  /\ \A m \in Kept : s.h[m] # NoHandle => u.h[m] # NoHandle
Rightly(s, u, E) == Counts(u, NoHandle) /\ Values(s, u, E)

\* What is proved of every expression.
Does(s, r, E) == Ran(s, r, E) /\ (Counts(s, NoHandle) => Valued(s, r, E))

\* A store that was prepared, and the temporary value of an expression that is added to it.
LEMMA PreparedAdds ==
    ASSUME NEW s, NEW u, NEW r, NEW E, Shape(s), Prepared(s, u, E), Adds(u, r)
    PROVE  Ran(s, r, E) /\ (Rightly(s, u, E) => Valued(s, r, E))
  <1>1. Shape(u) /\ Places(s, u, E)
    BY DEF Prepared
  <1>2. /\ Ran(s, r, E)
        /\ Counts(u, NoHandle) /\ Values(s, u, E) /\ (\A m \in Kept \ E : s.h[m] # NoHandle => u.h[m] # NoHandle)
           => Valued(s, r, E)
    BY <1>1, AddsRan
  <1> QED
    BY <1>2 DEF Prepared, Rightly

\* Steps of one expression follow each other.
LEMMA PreparedTwice ==
    ASSUME NEW s, NEW u, NEW t, NEW E, Prepared(s, u, {}), LocksKept(s, u), Prepared(u, t, E)
    PROVE  Prepared(s, t, E) /\ (Rightly(s, u, {}) /\ Rightly(u, t, E) => Rightly(s, t, E))
  BY DEF Prepared, Rightly, Places, Values, LocksKept

LEMMA FlaggedPrepares ==
    ASSUME NEW s, Shape(s), NEW n \in Holders, s.h[n] # NoHandle, NEW u, NEW F, Flagged(s, u, n, F)
    PROVE  /\ Prepared(s, u, {}) /\ u.h[n] # NoHandle /\ u.h[n].o = s.h[n].o /\ u.h[n].flags = F
           /\ Counts(s, NoHandle) => Rightly(s, u, {})
           /\ Room(s) => Room(u)
           /\ s.h[n].flags \subseteq F => LocksKept(s, u)
           /\ u.o = s.o
  <1>1. /\ Shape(u) /\ u.o = s.o
        /\ u.h[n] = [o |-> s.h[n].o, flags |-> F] /\ \A m \in Holders \ {n} : u.h[m] = s.h[m]
    BY DEF Flagged
  <1>2. \A m \in Holders : u.h[m].o = s.h[m].o
    BY <1>1
  <1>3. \A m \in Holders : s.h[m] # NoHandle => u.h[m] # NoHandle
    BY <1>1, <1>2, HandleTypes DEF Shape
  <1>4. Prepared(s, u, {})
    BY <1>1, <1>2, <1>3, KeptIs DEF Prepared, Places
  <1>5. Values(s, u, {})
    BY <1>1, <1>2, KeptIs DEF Values
  <1>6. (Counts(s, NoHandle) => Counts(u, NoHandle)) /\ (Room(s) => Room(u))
    BY FlaggedCounts
  <1>7. s.h[n].flags \subseteq F => LocksKept(s, u)
    BY <1>1, KeptIs DEF LocksKept
  <1> QED
    BY <1>1, <1>3, <1>4, <1>5, <1>6, <1>7 DEF Rightly

\* A write reaches the variable it is given, when MayWrite lets it.
LEMMA WrittenPrepares ==
    ASSUME NEW s, Shape(s), NEW n \in Holders, s.h[n] # NoHandle, Room(s),
           ~NeedsCopy(s, n) \/ "LOCKED" \notin s.h[n].flags
    PROVE  /\ Prepared(s, Written(s, n), {n}) /\ Written(s, n).h[n] # NoHandle
           /\ Counts(s, NoHandle) /\ "LAST" \notin s.h[n].flags => Rightly(s, Written(s, n), {n})
           /\ \A m \in Holders \ {n} : Written(s, n).h[m] = s.h[m]
  <1> DEFINE t == Written(s, n)
  <1>1. /\ Shape(t) /\ t.h[n] # NoHandle
        /\ \A m \in Holders \ {n} : t.h[m] = s.h[m]
        /\ ~NeedsCopy(s, n) => t.h = s.h
    BY WrittenShape
  <1>2. Places(s, t, {n})
    BY <1>1, KeptIs DEF Places
  <1>3. \A m \in Kept : s.h[m] # NoHandle => t.h[m] # NoHandle
    BY <1>1, KeptIs
  <1>4. ASSUME Counts(s, NoHandle), "LAST" \notin s.h[n].flags
        PROVE  Rightly(s, t, {n})
    <2>1. /\ Counts(t, NoHandle)
          /\ \A m \in Holders \ {n} :
               s.h[m] # NoHandle /\ "LAST" \notin s.h[m].flags
               => t.o[s.h[m].o].v = s.o[s.h[m].o].v
      BY <1>4, WrittenCounts
    <2>2. \A m \in Kept : "LAST" \notin s.h[m].flags
      BY KeptIs DEF Shape
    <2> QED
      BY <1>1, <2>1, <2>2, KeptIs DEF Rightly, Values
  <1> QED
    BY <1>1, <1>2, <1>3, <1>4 DEF Prepared

\* Between statements.
Ready(s) == Shape(s) /\ s.h[ArgName] = NoHandle /\ Room(s)

LEMMA ValuesAreNumbers ==
    ASSUME NEW s, Shape(s), NEW n \in Holders, s.h[n] # NoHandle
    PROVE  Other(s.o[s.h[n].o].v) \in Int
  <1>1. s.h[n].o \in Objects /\ s.o \in [Objects -> ObjectRecord]
    BY HandleTypes DEF Shape, StoreType
  <1> QED
    BY <1>1 DEF ObjectRecord, Other

LEMMA ReflexivePrepared ==
    ASSUME NEW s, Shape(s)
    PROVE  Prepared(s, s, {}) /\ (Counts(s, NoHandle) => Rightly(s, s, {})) /\ LocksKept(s, s)
  BY DEF Prepared, Rightly, Places, Values, LocksKept

LEMMA LiteralDoes ==
    ASSUME NEW s, Shape(s), NEW n \in Holders, s.h[n] # NoHandle
    PROVE  Does(s, evalLiteral(s, n), {})
  <1>1. Adds(s, evalLiteral(s, n))
    BY OwnCopyAdds DEF evalLiteral
  <1> QED
    BY <1>1, ReflexivePrepared, PreparedAdds DEF Does

LEMMA FileDoes ==
    ASSUME NEW s, Shape(s), Room(s)
    PROVE  Does(s, evalFile(s, 0), {})
  <1>1. {"LOCKED"} \in SUBSET Flags /\ "LAST" \notin {"LOCKED"} /\ "LOCKED" \in {"LOCKED"} /\ 0 \in Int
        /\ TRUE \in BOOLEAN
    BY DEF Flags
  <1>2. Adds(s, Value(Made(s, 0, TRUE), [o |-> New(s), flags |-> {"LOCKED"}]))
    BY <1>1, MadeAdds
  <1>3. Adds(s, evalFile(s, 0))
    BY <1>2 DEF evalFile
  <1> QED
    BY <1>3, ReflexivePrepared, PreparedAdds DEF Does

LEMMA PointerRan ==
    ASSUME NEW s, NEW u, NEW n \in Holders \ Literals, NEW E, Prepared(s, u, E), u.h[n] # NoHandle
    PROVE  Ran(s, Pointer(u, n), E) /\ (Rightly(s, u, E) => Valued(s, Pointer(u, n), E))
  <1>1. Pointer(u, n).s = u /\ Pointer(u, n).hd = NoHandle /\ Pointer(u, n).ptr = n /\ Pointer(u, n).ok
    BY DEF Pointer
  <1> HIDE DEF Pointer
  <1> QED
    BY <1>1 DEF Ran, Result, Temporary, Prepared, Rightly, Valued

LEMMA FailedRan ==
    ASSUME NEW s, NEW u, NEW E, Prepared(s, u, E), u.h[ArgName] = NoHandle
    PROVE  Ran(s, Failed(u), E) /\ (Rightly(s, u, E) => Valued(s, Failed(u), E))
  <1>1. Failed(u).s = u /\ Failed(u).hd = NoHandle /\ Failed(u).ptr = Nobody
    BY DEF Failed
  <1> QED
    BY <1>1 DEF Ran, Result, Temporary, Prepared, Rightly, Valued

LEMMA NullRan ==
    ASSUME NEW s, NEW u, NEW E, Prepared(s, u, E)
    PROVE  Ran(s, NullValue(u), E) /\ (Rightly(s, u, E) => Valued(s, NullValue(u), E))
  <1>1. NullValue(u).s = u /\ NullValue(u).hd = NoHandle /\ NullValue(u).ptr = Nobody /\ NullValue(u).ok
    BY DEF NullValue, Value
  <1> QED
    BY <1>1 DEF Ran, Result, Temporary, Prepared, Rightly, Valued

\* A variable alone.
LEMMA SymbolDoes ==
    ASSUME NEW s, Shape(s), NEW n \in Holders \ Literals, s.h[n] # NoHandle
    PROVE  Does(s, Pointer(s, n), {})
  BY ReflexivePrepared, PointerRan DEF Does

LEMMA BinopDoes ==
    ASSUME NEW s, Shape(s), Room(s), NEW n \in Holders, s.h[n] # NoHandle
    PROVE  Does(s, evalBinop(s, n), {})
  <1> DEFINE u == resetRef(s, n)
             v == Other(s.o[s.h[n].o].v)
  <1>1. Flagged(s, u, n, s.h[n].flags \ {"REF"}) /\ v \in Int
    BY SetRefIs, ValuesAreNumbers
  <1> HIDE DEF u, v
  <1>2. /\ Prepared(s, u, {}) /\ (Counts(s, NoHandle) => Rightly(s, u, {})) /\ Room(u)
    BY <1>1, FlaggedPrepares
  <1>3. Adds(u, Fresh(u, v))
    BY <1>1, <1>2, FreshAdds DEF Prepared
  <1>4. evalBinop(s, n) = Fresh(u, v)
    BY DEF evalBinop, u, v
  <1>5. Does(s, Fresh(u, v), {})
    BY <1>2, <1>3, PreparedAdds DEF Does
  <1> QED
    BY <1>4, <1>5

\* A unary operator gives its variable another value only when REF is its only flag.
LEMMA UnopDoes ==
    ASSUME NEW s, Shape(s), Room(s), NEW n \in Holders, s.h[n] # NoHandle
    PROVE  Does(s, evalUnop(s, n), IF s.h[n].flags = {"REF"} THEN {n} ELSE {})
  <1>1. CASE s.h[n].flags = {"REF"}
    <2>1. "LOCKED" \notin s.h[n].flags /\ "LAST" \notin s.h[n].flags
      BY <1>1
    <2> DEFINE t == Written(s, n)
    <2>2. Prepared(s, t, {n}) /\ t.h[n] # NoHandle /\ (Counts(s, NoHandle) => Rightly(s, t, {n}))
      BY <2>1, WrittenPrepares
    <2> HIDE DEF t
    <2>3. Adds(t, OwnCopy(t, n))
      BY <2>2, OwnCopyAdds DEF Prepared
    <2>4. Does(s, OwnCopy(t, n), {n})
      BY <2>2, <2>3, PreparedAdds DEF Does
    <2>5. evalUnop(s, n) = OwnCopy(t, n)
      BY <1>1 DEF evalUnop, t
    <2> QED
      BY <1>1, <2>4, <2>5
  <1>2. CASE s.h[n].flags # {"REF"}
    <2> DEFINE v == Other(s.o[s.h[n].o].v)
    <2>1. v \in Int
      BY ValuesAreNumbers
    <2> HIDE DEF v
    <2>2. Adds(s, Fresh(s, v))
      BY <2>1, FreshAdds
    <2>3. Does(s, Fresh(s, v), {})
      BY <2>2, ReflexivePrepared, PreparedAdds DEF Does
    <2>4. evalUnop(s, n) = Fresh(s, v)
      BY <1>2 DEF evalUnop, v
    <2> QED
      BY <1>2, <2>3, <2>4
  <1> QED
    BY <1>1, <1>2

\* An expression evaluated after a reference was taken.
LEMMA DoesAfter ==
    ASSUME NEW s, NEW u, NEW r, NEW E, NEW D, E \subseteq D,
           Prepared(s, u, {}), LocksKept(s, u), Counts(s, NoHandle) => Rightly(s, u, {}),
           Does(u, r, E)
    PROVE  Does(s, r, D)
  BY DEF Does, Ran, Valued, Prepared, Rightly, Places, Values, LocksKept

\* A variable that was given by reference.
LEMMA SetRefPrepares ==
    ASSUME NEW s, Shape(s), Room(s), NEW n \in Holders, s.h[n] # NoHandle
    PROVE  LET u == setRef(s, n)
           IN  /\ Shape(u) /\ Room(u) /\ u.h[n] # NoHandle /\ u.h[n].o = s.h[n].o /\ u.o = s.o
               /\ Prepared(s, u, {}) /\ LocksKept(s, u)
               /\ Counts(s, NoHandle) => Rightly(s, u, {}) /\ Counts(u, NoHandle)
               /\ "LAST" \in u.h[n].flags => "LAST" \in s.h[n].flags
               /\ \A m \in Holders \ {n} : u.h[m] = s.h[m]
  <1> DEFINE u == setRef(s, n)
             F == s.h[n].flags \cup {"REF"}
  <1>1. Flagged(s, u, n, F) /\ s.h[n].flags \subseteq F /\ ("LAST" \in F => "LAST" \in s.h[n].flags)
    BY SetRefIs
  <1> HIDE DEF u, F
  <1>2. /\ Prepared(s, u, {}) /\ u.h[n] # NoHandle /\ u.h[n].o = s.h[n].o /\ u.h[n].flags = F
        /\ Counts(s, NoHandle) => Rightly(s, u, {})
        /\ Room(s) => Room(u)
        /\ LocksKept(s, u)
        /\ u.o = s.o
    BY <1>1, FlaggedPrepares
  <1>3. \A m \in Holders \ {n} : u.h[m] = s.h[m]
    BY <1>1 DEF Flagged
  <1> QED
    BY <1>1, <1>2, <1>3 DEF Prepared, Rightly, u

LEMMA PrefixDoes ==
    ASSUME NEW s, Shape(s), Room(s), NEW n \in Holders, s.h[n] # NoHandle
    PROVE  Does(s, prefixOp(s, n), {n})
  <1> DEFINE u == setRef(s, n)
             E == IF u.h[n].flags = {"REF"} THEN {n} ELSE {}
  <1>1. /\ Shape(u) /\ Room(u) /\ u.h[n] # NoHandle
        /\ Prepared(s, u, {}) /\ LocksKept(s, u)
        /\ Counts(s, NoHandle) => Rightly(s, u, {})
    BY SetRefPrepares
  <1>2. prefixOp(s, n) = evalUnop(u, n)
    BY DEF prefixOp
  <1> HIDE DEF u
  <1>3. Does(u, evalUnop(u, n), E)
    BY <1>1, UnopDoes
  <1>4. E \subseteq {n}
    OBVIOUS
  <1> HIDE DEF E
  <1> QED
    BY <1>1, <1>2, <1>3, <1>4, DoesAfter

\* The right values are claimed unless the write went through .Last.value.
LEMMA ReferenceWritten ==
    ASSUME NEW s, Shape(s), Room(s), NEW n \in Holders, s.h[n] # NoHandle, MayWrite(setRef(s, n), n)
    PROVE  LET t == Written(setRef(s, n), n)
           IN  /\ Prepared(s, t, {n}) /\ t.h[n] # NoHandle
               /\ Counts(s, NoHandle) /\ "LAST" \notin s.h[n].flags => Rightly(s, t, {n})
               /\ \A m \in Holders \ {n} : t.h[m] = s.h[m]
  <1> DEFINE u == setRef(s, n)
             t == Written(u, n)
  <1>1. /\ Shape(u) /\ Room(u) /\ u.h[n] # NoHandle
        /\ Prepared(s, u, {}) /\ LocksKept(s, u)
        /\ Counts(s, NoHandle) => Rightly(s, u, {}) /\ Counts(u, NoHandle)
        /\ "LAST" \in u.h[n].flags => "LAST" \in s.h[n].flags
        /\ \A m \in Holders \ {n} : u.h[m] = s.h[m]
    BY SetRefPrepares
  <1>2. ~NeedsCopy(u, n) \/ "LOCKED" \notin u.h[n].flags
    BY DEF MayWrite, isLocked
  <1> HIDE DEF u
  <1>3. /\ Prepared(u, t, {n}) /\ t.h[n] # NoHandle
        /\ Counts(u, NoHandle) /\ "LAST" \notin u.h[n].flags => Rightly(u, t, {n})
        /\ \A m \in Holders \ {n} : t.h[m] = u.h[m]
    BY <1>1, <1>2, WrittenPrepares
  <1> HIDE DEF t
  <1>4. Prepared(s, t, {n}) /\ (Rightly(s, u, {}) /\ Rightly(u, t, {n}) => Rightly(s, t, {n}))
    BY <1>1, <1>3, PreparedTwice
  <1>5. \A m \in Holders \ {n} : t.h[m] = s.h[m]
    BY <1>1, <1>3
  <1> QED
    BY <1>1, <1>3, <1>4, <1>5 DEF t, u

\* x[1] <- v: the value is that of the variable, or the write has thrown and changed no value.
LEMMA SubassignDoes ==
    ASSUME NEW s, Ready(s), NEW n \in Holders \ {ArgName}, s.h[n] # NoHandle
    PROVE  /\ Ran(s, subassign(s, n), {n})
           /\ Counts(s, NoHandle) /\ "LAST" \notin s.h[n].flags => Valued(s, subassign(s, n), {n})
  <1> DEFINE u == setRef(s, n)
             t == Written(u, n)
  <1>0. Shape(s) /\ Room(s) /\ s.h[ArgName] = NoHandle /\ ArgName \in Holders \ {n}
    BY HoldersApart DEF Ready
  <1>1. CASE MayWrite(u, n)
    <2>1. /\ Prepared(s, t, {n}) /\ t.h[n] # NoHandle
          /\ Counts(s, NoHandle) /\ "LAST" \notin s.h[n].flags => Rightly(s, t, {n})
      BY <1>0, <1>1, ReferenceWritten
    <2>2. subassign(s, n) = OwnCopy(t, n)
      BY <1>1 DEF subassign
    <2> HIDE DEF t
    <2>3. Adds(t, OwnCopy(t, n))
      BY <2>1, OwnCopyAdds DEF Prepared
    <2>4. Ran(s, OwnCopy(t, n), {n}) /\ (Rightly(s, t, {n}) => Valued(s, OwnCopy(t, n), {n}))
      BY <1>0, <2>1, <2>3, PreparedAdds
    <2> QED
      BY <2>1, <2>2, <2>4
  <1>2. CASE ~MayWrite(u, n)
    <2>1. /\ Shape(u) /\ Prepared(s, u, {}) /\ LocksKept(s, u) /\ u.h[ArgName] = NoHandle
          /\ Counts(s, NoHandle) => Rightly(s, u, {})
      BY <1>0, SetRefPrepares
    <2>2. subassign(s, n) = Failed(u)
      BY <1>2 DEF subassign
    <2> HIDE DEF u
    <2>3. Does(s, Failed(u), {})
      BY <2>1, FailedRan DEF Does
    <2>4. Does(s, Failed(u), {n})
      BY <2>3 DEF Does, Ran, Valued, Places, Values
    <2> QED
      BY <2>2, <2>4 DEF Does
  <1> QED
    BY <1>1, <1>2

\* f(--n) writes n itself.
LEMMA CallByRefDoes ==
    ASSUME NEW s, Ready(s), NEW n \in Holders \ ({ArgName} \cup Literals), s.h[n] # NoHandle
    PROVE  /\ Ran(s, callByRef(s, n), {n})
           /\ Counts(s, NoHandle) /\ "LAST" \notin s.h[n].flags => Valued(s, callByRef(s, n), {n})
  <1> DEFINE u == setRef(s, n)
             t == Written(u, n)
  <1>0. Shape(s) /\ Room(s) /\ s.h[ArgName] = NoHandle /\ ArgName \in Holders \ {n}
    BY HoldersApart DEF Ready
  <1>1. CASE MayWrite(u, n)
    <2>1. /\ Prepared(s, t, {n}) /\ t.h[n] # NoHandle
          /\ Counts(s, NoHandle) /\ "LAST" \notin s.h[n].flags => Rightly(s, t, {n})
      BY <1>0, <1>1, ReferenceWritten
    <2>2. callByRef(s, n) = Pointer(t, n)
      BY <1>1 DEF callByRef
    <2> HIDE DEF t
    <2>3. Ran(s, Pointer(t, n), {n}) /\ (Rightly(s, t, {n}) => Valued(s, Pointer(t, n), {n}))
      BY <2>1, PointerRan
    <2> QED
      BY <2>1, <2>2, <2>3
  <1>2. CASE ~MayWrite(u, n)
    <2>1. /\ Shape(u) /\ Prepared(s, u, {}) /\ LocksKept(s, u) /\ u.h[ArgName] = NoHandle
          /\ Counts(s, NoHandle) => Rightly(s, u, {})
      BY <1>0, SetRefPrepares
    <2>2. callByRef(s, n) = Failed(u)
      BY <1>2 DEF callByRef
    <2> HIDE DEF u
    <2>3. Does(s, Failed(u), {})
      BY <2>1, FailedRan DEF Does
    <2>4. Does(s, Failed(u), {n})
      BY <2>3 DEF Does, Ran, Valued, Places, Values
    <2> QED
      BY <2>2, <2>4 DEF Does
  <1> QED
    BY <1>1, <1>2

\* lock() and unlock() change no value, and a mapped object stays locked.
LEMMA LockDoes ==
    ASSUME NEW s, Shape(s), Room(s), NEW n \in Holders, s.h[n] # NoHandle
    PROVE  Does(s, lock(s, n), {})
  <1> DEFINE u == setRef(s, n)
             t == setLock(u, n)
  <1>1. /\ Shape(u) /\ u.h[n] # NoHandle
        /\ Prepared(s, u, {}) /\ LocksKept(s, u)
        /\ Counts(s, NoHandle) => Rightly(s, u, {}) /\ Counts(u, NoHandle)
    BY SetRefPrepares
  <1> HIDE DEF u
  <1>2. Flagged(u, t, n, u.h[n].flags \cup {"LOCKED"})
    BY <1>1, SetRefIs
  <1> HIDE DEF t
  <1>3. Prepared(u, t, {}) /\ (Counts(u, NoHandle) => Rightly(u, t, {}))
    BY <1>1, <1>2, FlaggedPrepares
  <1>4. Prepared(s, t, {}) /\ (Counts(s, NoHandle) => Rightly(s, t, {}))
    BY <1>1, <1>3, PreparedTwice
  <1>5. lock(s, n) = NullValue(t)
    BY DEF lock, t, u
  <1>6. Does(s, NullValue(t), {})
    BY <1>4, NullRan DEF Does
  <1> QED
    BY <1>5, <1>6

LEMMA UnlockDoes ==
    ASSUME NEW s, Ready(s), NEW n \in Holders \ {ArgName}, s.h[n] # NoHandle
    PROVE  Does(s, unlock(s, n), {})
  <1> DEFINE u == setRef(s, n)
             t == resetLock(u, n)
  <1>0. Shape(s) /\ Room(s) /\ s.h[ArgName] = NoHandle /\ ArgName \in Holders \ {n}
    BY HoldersApart DEF Ready
  <1>1. /\ Shape(u) /\ u.h[n] # NoHandle /\ u.h[ArgName] = NoHandle
        /\ Prepared(s, u, {}) /\ LocksKept(s, u)
        /\ Counts(s, NoHandle) => Rightly(s, u, {}) /\ Counts(u, NoHandle)
    BY <1>0, SetRefPrepares
  <1>2. unlock(s, n) = IF u.o[u.h[n].o].file THEN Failed(u) ELSE NullValue(t)
    BY DEF unlock
  <1> HIDE DEF u
  <1>3. CASE u.o[u.h[n].o].file
    <2>1. Does(s, Failed(u), {})
      BY <1>1, FailedRan DEF Does
    <2> QED
      BY <1>2, <1>3, <2>1, Zenon
  <1>4. CASE ~u.o[u.h[n].o].file
    <2>1. ~Mapped(u, u.h[n].o)
      BY <1>4, Zenon DEF Mapped
    <2>2. Flagged(u, t, n, u.h[n].flags \ {"LOCKED"})
      BY <1>1, <2>1, SetRefIs
    <2> HIDE DEF t
    <2>3. Prepared(u, t, {}) /\ (Counts(u, NoHandle) => Rightly(u, t, {}))
      BY <1>1, <2>2, FlaggedPrepares
    <2>4. Prepared(s, t, {}) /\ (Counts(s, NoHandle) => Rightly(s, t, {}))
      BY <1>1, <2>3, PreparedTwice
    <2>5. Does(s, NullValue(t), {})
      BY <2>4, NullRan DEF Does
    <2> QED
      BY <1>2, <1>4, <2>5, Zenon
  <1> QED
    BY <1>3, <1>4

\* The argument of a call by value shares the object of its variable.
LEMMA ArgumentMoves ==
    ASSUME NEW s, Ready(s), NEW n \in Holders, s.h[n] # NoHandle
    PROVE  LET u == addArg1(s, n)
           IN  Moved(s, u, ArgName) /\ Room(u) /\ u.h[ArgName] # NoHandle /\ "LAST" \notin u.h[ArgName].flags
  <1> DEFINE c == TheCopy(s.h[n])
             hd == [c EXCEPT !.flags = @ \ {"REF"}]
             a == Copied(s, s.h[n])
             u == addArg1(s, n)
  <1>1. /\ Shape(s) /\ Room(s) /\ s.h[ArgName] = NoHandle /\ s \in StoreType /\ ArgName \in Holders
        /\ ArgName \notin Literals /\ s.h[n] \in LiveHandle /\ Fit(s, s.h[n]) /\ s.h[n].o \in Objects
    BY HoldersApart, HandleTypes DEF Ready, Shape, Fit
  <1>2. Fit(s, c) /\ "LAST" \notin c.flags /\ c.o = s.h[n].o
    BY <1>1, TheCopyIs
  <1>3. /\ hd \in LiveHandle /\ hd.o = s.h[n].o /\ hd.flags = c.flags \ {"REF"}
    <2>1. c \in LiveHandle
      BY <1>2 DEF Fit
    <2> HIDE DEF c
    <2> QED
      BY <1>2, <2>1 DEF LiveHandle
  <1>4. CountMoved(s, a, s.h[n].o, 1)
    <2>1. a = [s EXCEPT !.o[s.h[n].o].n = @ + 1]
      BY DEF Copied
    <2> HIDE DEF a
    <2> QED
      BY <1>1, <2>1, CountChanged
  <1>5. u = With(a, ArgName, hd)
    BY DEF addArg1, With
  <1> HIDE DEF a, c, hd, u
  <1>6. Fit(s, hd) /\ "LAST" \notin hd.flags /\ hd # NoHandle
    <2>1. "LAST" \notin hd.flags /\ ("LOCKED" \in c.flags => "LOCKED" \in hd.flags)
      BY <1>2, <1>3
    <2>2. hd.o = c.o
      BY <1>2, <1>3
    <2>3. Mapped(s, hd.o) => "LOCKED" \in hd.flags
      BY <1>2, <2>1, <2>2 DEF Fit
    <2>4. Fit(s, hd)
      BY <1>3, <2>3 DEF Fit
    <2>5. hd.o # 0 /\ NoHandle.o = 0
      BY <1>1, <1>3, ObjectsArePositive DEF NoHandle
    <2> QED
      BY <2>1, <2>4, <2>5
  <1>7. \A j \in Objects : One(hd, j) = (IF j = s.h[n].o THEN 1 ELSE 0) /\ One(s.h[ArgName], j) = 0
    BY <1>1, <1>3, <1>6, OneTypes DEF One
  <1>8. Exchanged(s, a, ArgName, hd)
    <2>1. \A j \in Objects : s.o[j].n \in Int
      BY <1>1, CountTypes
    <2> QED
      BY <1>4, <1>7, <2>1 DEF Exchanged, CountMoved
  <1>9. MayHold(s, ArgName, hd)
    BY <1>1, <1>6 DEF MayHold
  <1>10. Moved(s, u, ArgName) /\ u.h[ArgName] = hd
    BY <1>1, <1>5, <1>8, <1>9, ReplacedMoves
  <1>11. Unused(s) \subseteq Unused(u)
    <2> SUFFICES ASSUME NEW j \in Unused(s)
                 PROVE  j \in Unused(u)
      OBVIOUS
    <2>1. j \in Objects /\ s.o[j] = NoObject /\ \A m \in Holders : s.h[m].o # j
      BY DEF Unused
    <2>2. a.o[j] = s.o[j]
      BY <1>4, <2>1 DEF CountMoved
    <2>3. u.o = a.o
      <3>1. a \in StoreType
        BY <1>4 DEF CountMoved
      <3>2. HandleSet(a, u, ArgName, hd)
        BY <1>1, <1>3, <1>5, <3>1, HandleChanged DEF With
      <3> QED
        BY <3>2 DEF HandleSet
    <2>4. \A m \in Holders : u.h[m].o # j
      BY <1>3, <1>10, <2>1 DEF Moved
    <2> QED
      BY <2>1, <2>2, <2>3, <2>4 DEF Unused
  <1> QED
    BY <1>1, <1>6, <1>10, <1>11 DEF Room, u

LEMMA MovedPrepares ==
    ASSUME NEW s, Shape(s), NEW u, NEW n \in Holders \ Kept, Moved(s, u, n)
    PROVE  Prepared(s, u, {}) /\ LocksKept(s, u) /\ (Counts(s, NoHandle) => Rightly(s, u, {}))
  <1>1. \A m \in Kept : m \in Holders \ {n} /\ u.h[m] = s.h[m]
    BY KeptIs DEF Moved
  <1>2. \A m \in Kept : s.h[m] # NoHandle => u.o[u.h[m].o].v = s.o[s.h[m].o].v
    BY <1>1, KeptIs, HandleTypes DEF Moved, Alike, Shape
  <1>3. Counts(s, NoHandle) => Counts(u, NoHandle)
    BY MovedKeeps
  <1> QED
    BY <1>1, <1>2, <1>3 DEF Prepared, LocksKept, Rightly, Places, Values, Moved

\* f(n) writes the argument in its frame, whose object is copied first as n shares it.
LEMMA CallByValueDoes ==
    ASSUME NEW s, Ready(s), NEW n \in Holders, s.h[n] # NoHandle
    PROVE  Does(s, callByValue(s, n), {})
  <1> DEFINE u == addArg1(s, n)
             v == setRef(u, ArgName)
             t == Written(v, ArgName)
             w == LeaveFrame(v)
  <1>0. Shape(s) /\ ArgName \in Holders \ Kept /\ ArgName \in Holders \ Literals
    BY HoldersApart, KeptIs DEF Ready
  <1>1. Moved(s, u, ArgName) /\ Room(u) /\ u.h[ArgName] # NoHandle /\ "LAST" \notin u.h[ArgName].flags
    BY ArgumentMoves
  <1> HIDE DEF u
  <1>2. Shape(u) /\ Prepared(s, u, {}) /\ LocksKept(s, u) /\ (Counts(s, NoHandle) => Rightly(s, u, {}))
    BY <1>0, <1>1, MovedPrepares DEF Moved
  <1>3. CASE MayWrite(v, ArgName)
    <2>1. /\ Prepared(u, t, {ArgName}) /\ t.h[ArgName] # NoHandle
          /\ Counts(u, NoHandle) => Rightly(u, t, {ArgName})
      BY <1>0, <1>1, <1>2, <1>3, ReferenceWritten
    <2> HIDE DEF t
    <2>2. Prepared(u, t, {}) /\ (Counts(u, NoHandle) => Rightly(u, t, {}))
      BY <2>1, KeptIs DEF Prepared, Rightly, Places, Values
    <2>3. Prepared(s, t, {}) /\ (Counts(s, NoHandle) => Rightly(s, t, {}))
      BY <1>2, <2>2, PreparedTwice DEF Rightly
    <2>4. Does(s, Pointer(t, ArgName), {})
      BY <1>0, <2>1, <2>3, PointerRan DEF Does
    <2>5. callByValue(s, n) = Pointer(t, ArgName)
      BY <1>3 DEF callByValue, t, u
    <2> QED
      BY <2>4, <2>5
  <1>4. CASE ~MayWrite(v, ArgName)
    <2>1. /\ Shape(v) /\ Prepared(u, v, {}) /\ LocksKept(u, v)
          /\ Counts(u, NoHandle) => Rightly(u, v, {}) /\ Counts(v, NoHandle)
      BY <1>0, <1>1, <1>2, SetRefPrepares
    <2>2. callByValue(s, n) = Failed(w)
      BY <1>4 DEF callByValue, u
    <2>3. w = Emptied(v, ArgName)
      BY DEF LeaveFrame, Emptied
    <2> HIDE DEF v, w
    <2>4. Moved(v, w, ArgName) /\ w.h[ArgName] = NoHandle
      BY <1>0, <2>1, <2>3, EmptiedMoves
    <2>5. Prepared(v, w, {}) /\ (Counts(v, NoHandle) => Rightly(v, w, {}))
      BY <1>0, <2>1, <2>4, MovedPrepares
    <2>6. Prepared(u, w, {}) /\ (Counts(u, NoHandle) => Rightly(u, w, {}))
      BY <2>1, <2>5, PreparedTwice
    <2>7. Prepared(s, w, {}) /\ (Counts(s, NoHandle) => Rightly(s, w, {}))
      BY <1>2, <2>6, PreparedTwice DEF Rightly
    <2>8. Does(s, Failed(w), {})
      BY <2>4, <2>7, FailedRan DEF Does
    <2> QED
      BY <2>2, <2>8
  <1> QED
    BY <1>3, <1>4

-----------------------------------------------------------------------------
(* Objects that nothing holds are gone, and the others are renamed.        *)

Top == Cardinality(Holders)

\* Each holder has a place of its own.
LEMMA PlaceIs ==
    /\ Place \in [Holders -> 1 .. Top]
    /\ \A a, b \in Holders : a # b => Place[a] # Place[b]
  <1>1. IsFiniteSet(Holders) /\ Top \in Nat
    BY HoldersFinite DEF Top
  <1>2. IsFiniteSet(1 .. Top) /\ Cardinality(1 .. Top) = Cardinality(Holders)
    BY <1>1, FS_Interval DEF Top
  <1>3. ExistsBijection(Holders, 1 .. Top)
    BY <1>1, <1>2, FS_SameCardinalityBij
  <1>4. \E f \in [Holders -> 1 .. Top] : \A a, b \in Holders : a # b => f[a] # f[b]
    BY <1>3 DEF ExistsBijection, Bijection, Injection, IsInjective
  <1> QED
    BY <1>4 DEF Place, Top

PlacesOf(s, i) == {Place[m] : m \in {q \in Holders : s.h[q].o = i}}
LeastPlace(s, i) == CHOOSE p \in PlacesOf(s, i) : \A j \in PlacesOf(s, i) : p <= j

LEMMA LeastPlaceIs ==
    ASSUME NEW s, NEW n \in Holders
    PROVE  LeastPlace(s, s.h[n].o) \in PlacesOf(s, s.h[n].o)
  <1> DEFINE P == PlacesOf(s, s.h[n].o)
  <1>1. P \subseteq Nat /\ P # {}
    BY PlaceIs DEF PlacesOf
  <1> HIDE DEF P
  <1>2. \E p \in P : \A j \in P : p <= j
    BY <1>1, LeastExists
  <1> QED
    BY <1>2 DEF LeastPlace, P

\* Two holders have the same place after sweeping just when they had the same object.
LEMMA PlaceOfIs ==
    ASSUME NEW s, Shape(s), NEW n \in Holders
    PROVE  /\ s.h[n] = NoHandle => PlaceOf(s, n) = 0
           /\ s.h[n] # NoHandle => PlaceOf(s, n) \in 1 .. Top
           /\ s.h[n] # NoHandle =>
                \A m \in Holders : PlaceOf(s, m) = PlaceOf(s, n) <=> s.h[m].o = s.h[n].o
  <1>1. \A m \in Holders : s.h[m] # NoHandle => PlaceOf(s, m) = LeastPlace(s, s.h[m].o)
    BY DEF PlaceOf, LeastPlace, PlacesOf
  <1>2. \A m \in Holders : s.h[m] = NoHandle => PlaceOf(s, m) = 0
    BY DEF PlaceOf
  <1>3. \A m \in Holders : LeastPlace(s, s.h[m].o) \in PlacesOf(s, s.h[m].o)
    BY LeastPlaceIs
  <1>4. \A m \in Holders : LeastPlace(s, s.h[m].o) \in 1 .. Top
    BY <1>3, PlaceIs DEF PlacesOf
  <1>5. ASSUME NEW m \in Holders, s.h[m] # NoHandle, s.h[n] # NoHandle, PlaceOf(s, m) = PlaceOf(s, n)
        PROVE  s.h[m].o = s.h[n].o
    <2>1. LeastPlace(s, s.h[m].o) = LeastPlace(s, s.h[n].o)
      BY <1>1, <1>5
    <2>2. PICK a \in Holders : s.h[a].o = s.h[m].o /\ LeastPlace(s, s.h[m].o) = Place[a]
      BY <1>3 DEF PlacesOf
    <2>3. PICK b \in Holders : s.h[b].o = s.h[n].o /\ LeastPlace(s, s.h[n].o) = Place[b]
      BY <1>3 DEF PlacesOf
    <2>4. a = b
      BY <2>1, <2>2, <2>3, PlaceIs
    <2> QED
      BY <2>2, <2>3, <2>4
  <1>6. ASSUME NEW m \in Holders, s.h[n] # NoHandle, s.h[m].o = s.h[n].o
        PROVE  PlaceOf(s, m) = PlaceOf(s, n)
    <2>1. s.h[m] # NoHandle
      BY <1>6, HandleTypes DEF Shape
    <2> QED
      BY <1>1, <1>6, <2>1
  <1>7. ASSUME NEW m \in Holders, s.h[m] = NoHandle, s.h[n] # NoHandle
        PROVE  PlaceOf(s, m) # PlaceOf(s, n)
    <2>1. PlaceOf(s, n) \in 1 .. Top /\ PlaceOf(s, m) = 0
      BY <1>1, <1>2, <1>4, <1>7
    <2> QED
      BY <2>1, HoldersFinite DEF Top
  <1> QED
    BY <1>1, <1>2, <1>4, <1>5, <1>6, <1>7

\* t is s with other names for its objects, and nothing that is not held.
Renamed(s, t) ==
  /\ Shape(t) /\ Room(t)
  /\ \A n \in Holders : (t.h[n] = NoHandle <=> s.h[n] = NoHandle) /\ t.h[n].flags = s.h[n].flags
  /\ \A n \in Holders : s.h[n] # NoHandle =>
       /\ t.o[t.h[n].o] = s.o[s.h[n].o]
       /\ \A m \in Holders : t.h[m].o = t.h[n].o <=> s.h[m].o = s.h[n].o
  /\ Counts(s, NoHandle) => Counts(t, NoHandle)

\* Sweeping renames the objects that are held and leaves room for a new one.
LEMMA SweptIs ==
    ASSUME NEW s, Shape(s)
    PROVE  Renamed(s, Swept(s))
  <1> DEFINE t == Swept(s)
             P(n) == PlaceOf(s, n)
             B == {n \in Holders : s.h[n] # NoHandle}
  <1>1. s \in StoreType /\ (\A n \in Holders : s.h[n] \in LiveHandle \cup {NoHandle}) /\ Top \in Nat
        /\ \A n \in B : s.h[n].o \in Objects /\ s.h[n] \in LiveHandle
    BY HandleTypes, HoldersFinite DEF Shape, Top
  <1>2. \A n \in Holders : (n \notin B => P(n) = 0) /\ (n \in B => P(n) \in 1 .. Top)
    BY PlaceOfIs
  <1>3. \A n \in B : \A m \in Holders : P(m) = P(n) <=> s.h[m].o = s.h[n].o
    BY PlaceOfIs
  <1>4. 1 .. Top \subseteq Objects /\ 0 \notin Objects /\ Top + 1 \in Objects
    BY <1>1, ObjectsArePositive DEF Objects, Top
  <1>5. \A n \in Holders : t.h[n] = [s.h[n] EXCEPT !.o = P(n)]
    BY DEF Swept
  <1>6. \A n \in Holders : t.h[n].o = P(n) /\ t.h[n].flags = s.h[n].flags
                           /\ t.h[n] = [o |-> P(n), flags |-> s.h[n].flags]
    <2>1. \A h \in LiveHandle \cup {NoHandle} : \A i :
            [h EXCEPT !.o = i].o = i /\ [h EXCEPT !.o = i].flags = h.flags
            /\ [h EXCEPT !.o = i] = [o |-> i, flags |-> h.flags]
      BY DEF LiveHandle, NoHandle
    <2> HIDE DEF t, P, B
    <2>2. ASSUME NEW n \in Holders
          PROVE  t.h[n].o = P(n) /\ t.h[n].flags = s.h[n].flags /\ t.h[n] = [o |-> P(n), flags |-> s.h[n].flags]
      <3>1. s.h[n] \in LiveHandle \cup {NoHandle} /\ t.h[n] = [s.h[n] EXCEPT !.o = P(n)]
        BY <1>1, <1>5
      <3> DEFINE h == s.h[n]
                 i == P(n)
                 k == t.h[n]
      <3>2. h \in LiveHandle \cup {NoHandle} /\ k = [h EXCEPT !.o = i]
        BY <3>1
      <3> HIDE DEF h, i, k
      <3>3. k.o = i /\ k.flags = h.flags /\ k = [o |-> i, flags |-> h.flags]
        BY <2>1, <3>2, Zenon
      <3> QED
        BY <3>3 DEF h, i, k
    <2> QED
      BY <2>2
  <1>7. \A i \in Objects : t.o[i] = IF \E n \in Holders : P(n) = i
                                    THEN s.o[s.h[CHOOSE n \in Holders : P(n) = i].o] ELSE NoObject
    BY DEF Swept
  <1>8. ASSUME NEW n \in B
        PROVE  t.o[P(n)] = s.o[s.h[n].o]
    <2> DEFINE c == CHOOSE k \in Holders : P(k) = P(n)
    <2>1. c \in Holders /\ P(c) = P(n)
      OBVIOUS
    <2>2. t.o[P(n)] = s.o[s.h[c].o]
      BY <1>2, <1>4, <1>7
    <2>3. s.h[c].o = s.h[n].o
      BY <1>3, <2>1
    <2> QED
      BY <2>2, <2>3
  <1>9. \A i \in Objects : (\A n \in B : P(n) # i) => t.o[i] = NoObject
    BY <1>2, <1>4, <1>7
  <1>10. t = [h |-> t.h, o |-> t.o] /\ t.h = [n \in Holders |-> t.h[n]] /\ t.o = [i \in Objects |-> t.o[i]]
    BY DEF Swept
  <1> HIDE DEF t, P
  <1>11. \A n \in Holders : (t.h[n] = NoHandle <=> s.h[n] = NoHandle) /\ t.h[n] \in LiveHandle \cup {NoHandle}
    <2>1. NoHandle.flags = {} /\ NoHandle.o = 0 /\ NoHandle = [o |-> 0, flags |-> {}]
      BY DEF NoHandle
    <2>2. ASSUME NEW n \in Holders, n \notin B
          PROVE  t.h[n] = NoHandle
      BY <1>2, <1>6, <2>1, <2>2
    <2>3. ASSUME NEW n \in B
          PROVE  t.h[n] # NoHandle /\ t.h[n] \in LiveHandle
      <3>1. P(n) \in Objects /\ s.h[n].flags \in SUBSET Flags
        BY <1>1, <1>2, <1>4 DEF LiveHandle
      <3>2. t.h[n] = [o |-> P(n), flags |-> s.h[n].flags]
        BY <1>6
      <3> QED
        BY <1>4, <2>1, <3>1, <3>2 DEF LiveHandle
    <2> QED
      BY <2>2, <2>3
  <1>12. \A i \in Objects : t.o[i] \in ObjectRecord
    <2>1. NoObject \in ObjectRecord
      BY DEF NoObject, ObjectRecord
    <2>2. \A n \in B : s.o[s.h[n].o] \in ObjectRecord
      BY <1>1 DEF StoreType
    <2> QED
      BY <1>8, <1>9, <2>1, <2>2
  <1>13. t \in StoreType
    BY <1>10, <1>11, <1>12 DEF StoreType
  <1>14. \A n \in Holders : t.h[n] = NoHandle \/ Fit(t, t.h[n])
    <2> SUFFICES ASSUME NEW n \in B
                 PROVE  Fit(t, t.h[n])
      BY <1>11
    <2>1. Fit(s, s.h[n])
      BY DEF Shape
    <2>2. t.o[t.h[n].o] = s.o[s.h[n].o]
      BY <1>6, <1>8
    <2>3. Mapped(t, t.h[n].o) <=> Mapped(s, s.h[n].o)
      BY <2>2 DEF Mapped
    <2>4. t.h[n] \in LiveHandle /\ t.h[n].flags = s.h[n].flags
      BY <1>6, <1>11
    <2> QED
      BY <2>1, <2>3, <2>4 DEF Fit
  <1>15. Shape(t)
    BY <1>6, <1>11, <1>13, <1>14, HoldersApart DEF Shape
  <1>16. Room(t)
    <2>1. t.o[Top + 1] = NoObject
      BY <1>1, <1>2, <1>4, <1>9
    <2>2. ASSUME NEW n \in Holders
          PROVE  t.h[n].o # Top + 1
      <3>1. P(n) = 0 \/ P(n) \in 1 .. Top
        BY <1>2
      <3>2. P(n) # Top + 1
        BY <1>1, <3>1
      <3> QED
        BY <1>6, <3>2
    <2>3. Top + 1 \in Unused(t)
      BY <1>4, <2>1, <2>2 DEF Unused
    <2> QED
      BY <2>3 DEF Room
  <1>17. ASSUME Counts(s, NoHandle)
         PROVE  Counts(t, NoHandle)
    <2> SUFFICES ASSUME NEW i \in Objects
                 PROVE  t.o[i].n = Cardinality(Owners(t, i)) + One(NoHandle, i)
      BY DEF Counts
    <2>1. CASE \E n \in B : P(n) = i
      <3>1. PICK n \in B : P(n) = i
        BY <2>1
      <3>2. \A m \in Holders : t.h[m].o = i <=> s.h[m].o = s.h[n].o
        BY <1>3, <1>6, <3>1
      <3>3. Owners(t, i) = Owners(s, s.h[n].o)
        BY <1>6, <3>2 DEF Owners
      <3>4. t.o[i] = s.o[s.h[n].o] /\ s.h[n].o \in Objects
        BY <1>1, <1>8, <3>1
      <3>5. s.o[s.h[n].o].n = Cardinality(Owners(s, s.h[n].o)) + One(NoHandle, s.h[n].o)
        BY <1>17, <3>4 DEF Counts
      <3>6. One(NoHandle, s.h[n].o) = 0 /\ One(NoHandle, i) = 0
        BY <3>4, OneTypes
      <3> QED
        BY <3>3, <3>4, <3>5, <3>6
    <2>2. CASE ~\E n \in B : P(n) = i
      <3>1. t.o[i].n = 0
        BY <1>9, <2>2 DEF NoObject
      <3>2. \A m \in Holders : t.h[m].o # i
        BY <1>2, <1>4, <1>6, <2>2
      <3>3. Owners(t, i) = {}
        BY <3>2 DEF Owners
      <3>4. Cardinality({}) = 0 /\ One(NoHandle, i) = 0
        BY FS_EmptySet, OneTypes
      <3> QED
        BY <3>1, <3>3, <3>4
    <2> QED
      BY <2>1, <2>2
  <1>18. \A n \in B : t.o[t.h[n].o] = s.o[s.h[n].o] /\ \A m \in Holders : t.h[m].o = t.h[n].o <=> s.h[m].o = s.h[n].o
    <2> SUFFICES ASSUME NEW n \in B
                 PROVE  t.o[t.h[n].o] = s.o[s.h[n].o] /\ \A m \in Holders : t.h[m].o = t.h[n].o <=> s.h[m].o = s.h[n].o
      OBVIOUS
    <2>1. t.h[n].o = P(n)
      BY <1>6
    <2>2. t.o[t.h[n].o] = s.o[s.h[n].o]
      BY <1>8, <2>1
    <2>3. ASSUME NEW m \in Holders
          PROVE  t.h[m].o = t.h[n].o <=> s.h[m].o = s.h[n].o
      <3>1. t.h[m].o = P(m)
        BY <1>6
      <3> QED
        BY <1>3, <2>1, <3>1
    <2> QED
      BY <2>2, <2>3
  <1>19. \A n \in Holders : (t.h[n] = NoHandle <=> s.h[n] = NoHandle) /\ t.h[n].flags = s.h[n].flags
    BY <1>6, <1>11
  <1>20. Renamed(s, t)
    BY <1>15, <1>16, <1>17, <1>18, <1>19 DEF Renamed
  <1> QED
    BY <1>20 DEF t

-----------------------------------------------------------------------------
(* Statements.                                                             *)

LiteralsHold == \A n \in Literals : obj[handle[n].o].v = LiteralIs[n]

CowInv ==
  /\ Ready(Store) /\ odd \in BOOLEAN
  /\ ~odd => Counts(Store, NoHandle) /\ LiteralsHold

\* The store u in which a statement has ended: to was assigned or removed, E given by reference.
Ends(u, to, refs, E) ==
  /\ Shape(u) /\ u.h[ArgName] = NoHandle
  /\ \A m \in Kept \ {to} : m \notin E \/ "LOCKED" \in handle[m].flags => u.h[m].o = handle[m].o
  /\ LastName \notin refs =>
       /\ Counts(u, NoHandle)
       /\ \A m \in Kept \ (E \cup {to}) :
            handle[m] # NoHandle /\ u.h[m] # NoHandle => u.o[u.h[m].o].v = obj[handle[m].o].v

OthersStep ==
  \A n \in Vars :
    (handle[n] # NoHandle /\ handle'[n] # NoHandle /\ ~odd' /\ n \notin byRef' \cup {target', infix'})
    => ValueOf(n)' = ValueOf(n)
LockedStep ==
  \A n \in Vars, m \in Vars \cup Literals :
    ("LOCKED" \in handle[n].flags /\ Share(n, m) /\ target' \notin {n, m} /\ byRef' \cup {infix'} \subseteq {n, Nobody})
    => Share(n, m)'

\* A statement that ends in such a store keeps the invariant and makes a step of both action
\* properties.
LEMMA BecomesKeeps ==
    ASSUME CowInv, ~odd, NEW u, NEW to \in Vars \cup {Nobody}, NEW refs, NEW neg, NEW E,
           E \subseteq refs \cup {neg}, E \cap Literals = {}, Ends(u, to, refs, E), Becomes(u, to, refs, neg)
    PROVE  CowInv' /\ OthersStep /\ LockedStep
  <1> DEFINE t == Swept(u)
  <1>1. /\ handle' = t.h /\ obj' = t.o /\ target' = to /\ byRef' = refs /\ infix' = neg
        /\ odd' = (odd \/ LastName \in refs)
    BY DEF Becomes
  <1>2. Renamed(u, t) /\ Shape(u)
    BY SweptIs DEF Ends
  <1> HIDE DEF t
  <1>3. Store' = t
    <2>1. t = [h |-> t.h, o |-> t.o]
      BY <1>2 DEF Renamed, Shape, StoreType
    <2> QED
      BY <1>1, <2>1 DEF Store
  <1>4. /\ Shape(Store) /\ Store.h = handle /\ Store.o = obj
    BY DEF CowInv, Ready, Store
  <1>5. odd' \in BOOLEAN /\ (~odd' => LastName \notin refs)
    BY <1>1
  <1>6. Ready(t)
    BY <1>2, HoldersApart DEF Renamed, Ready, Ends
  <1>7. ~odd' => Counts(t, NoHandle)
    BY <1>2, <1>5 DEF Renamed, Ends
  <1>8. ASSUME NEW m \in Kept \ (E \cup {to}), handle[m] # NoHandle, t.h[m] # NoHandle, ~odd'
        PROVE  t.o[t.h[m].o].v = obj[handle[m].o].v
    <2>1. m \in Holders
      BY KeptIs
    <2>2. u.h[m] # NoHandle /\ t.o[t.h[m].o] = u.o[u.h[m].o]
      BY <1>2, <1>8, <2>1 DEF Renamed
    <2>3. u.o[u.h[m].o].v = obj[handle[m].o].v
      BY <1>5, <1>8, <2>2 DEF Ends
    <2> QED
      BY <2>2, <2>3
  <1>9. ~odd' => \A n \in Literals : t.o[t.h[n].o].v = LiteralIs[n]
    <2> SUFFICES ASSUME ~odd', NEW n \in Literals
                 PROVE  t.o[t.h[n].o].v = LiteralIs[n]
      OBVIOUS
    <2>1. n \in Kept \ (E \cup {to}) /\ handle[n] # NoHandle /\ t.h[n] # NoHandle
      BY <1>2, <1>4, HoldersApart DEF Kept, Shape, Renamed
    <2>2. obj[handle[n].o].v = LiteralIs[n]
      BY DEF CowInv, LiteralsHold
    <2> QED
      BY <1>8, <2>1, <2>2
  <1>10. CowInv'
    BY <1>1, <1>3, <1>5, <1>6, <1>7, <1>9 DEF CowInv, LiteralsHold
  <1>11. OthersStep
    <2> SUFFICES ASSUME NEW n \in Vars, handle[n] # NoHandle, handle'[n] # NoHandle, ~odd',
                        n \notin byRef' \cup {target', infix'}
                 PROVE  ValueOf(n)' = ValueOf(n)
      BY DEF OthersStep
    <2>1. n \in Kept \ (E \cup {to})
      BY <1>1 DEF Kept
    <2> QED
      BY <1>1, <1>8, <2>1 DEF ValueOf
  <1>12. LockedStep
    <2> SUFFICES ASSUME NEW n \in Vars, NEW m \in Kept, "LOCKED" \in handle[n].flags, Share(n, m),
                        target' \notin {n, m}, byRef' \cup {infix'} \subseteq {n, Nobody}
                 PROVE  Share(n, m)'
      BY DEF LockedStep, Kept
    <2>1. n \in Kept \ {to} /\ m \in Kept \ {to} /\ n \in Holders /\ m \in Holders
      BY <1>1, KeptIs DEF Kept
    <2>2. handle[n] # NoHandle /\ handle[n].o = handle[m].o
      BY DEF Share
    <2>3. u.h[n].o = handle[n].o
      BY <2>1 DEF Ends
    <2>4. m = n \/ m \notin E
      BY <1>1, KeptIs
    <2>5. u.h[m].o = handle[m].o
      BY <2>1, <2>3, <2>4 DEF Ends
    <2>6. u.h[n] # NoHandle
      BY <1>2, <1>4, <2>1, <2>2, <2>3, HandleTypes DEF Shape
    <2>7. t.h[n] # NoHandle /\ t.h[n].o = t.h[m].o
      BY <1>2, <2>1, <2>2, <2>3, <2>5, <2>6 DEF Renamed
    <2> QED
      BY <1>1, <2>7 DEF Share
  <1> QED
    BY <1>10, <1>11, <1>12

LEMMA EndedEnds ==
    ASSUME CowInv, NEW r, NEW E, NEW refs, Ran(Store, r, E),
           LastName \notin refs => Valued(Store, r, E), NEW to, NEW u, Ended(r, u, {to})
    PROVE  Ends(u, to, refs, E)
  <1>1. /\ Shape(Store) /\ Store.h = handle /\ Store.o = obj
    BY DEF CowInv, Ready, Store
  <1>2. /\ Shape(u) /\ Alike(r.s, u) /\ u.h[ArgName] = NoHandle
        /\ \A m \in Kept \ {to} : u.h[m] = r.s.h[m]
        /\ Counts(r.s, r.hd) => Counts(u, NoHandle)
    BY DEF Ended
  <1>3. \A m \in Kept : m \notin E \/ "LOCKED" \in handle[m].flags => r.s.h[m].o = handle[m].o
    BY <1>1 DEF Ran, Places
  <1>4. ASSUME LastName \notin refs, NEW m \in Kept \ (E \cup {to}), handle[m] # NoHandle
        PROVE  u.o[u.h[m].o].v = obj[handle[m].o].v
    <2>1. u.h[m].o = handle[m].o /\ r.s.h[m].o = handle[m].o
      BY <1>2, <1>3
    <2>2. handle[m].o \in Objects
      BY <1>1, <1>4, KeptIs, HandleTypes DEF Shape
    <2>3. r.s.o[r.s.h[m].o].v = obj[handle[m].o].v
      BY <1>1, <1>4 DEF Valued, Values
    <2>4. u.o[handle[m].o].v = r.s.o[handle[m].o].v
      BY <1>2, <2>2 DEF Alike
    <2> QED
      BY <2>1, <2>3, <2>4
  <1> QED
    BY <1>2, <1>3, <1>4 DEF Ends, Valued

\* Every end of a statement whose expression does what Ran and Valued say.
LEMMA StatementKeeps ==
    ASSUME CowInv, ~odd, NEW r, NEW E, NEW refs, NEW neg, Ran(Store, r, E),
           LastName \notin refs => Valued(Store, r, E),
           E \subseteq refs \cup {neg}, E \cap Literals = {}, Statement(r, refs, neg)
    PROVE  CowInv' /\ OthersStep /\ LockedStep
  <1>1. Result(r)
    BY DEF Ran
  <1>2. \/ ~r.ok /\ Becomes(r.s, Nobody, refs, neg)
        \/ r.ok /\ Got(r) # NoHandle
           /\ \E to \in Vars \ {r.ptr} : Becomes(AssignedTo(r, to), to, refs, neg)
        \/ r.ok /\ r.ptr # LastName /\ Becomes(Shown(r), Nobody, refs, neg)
    BY DEF Statement
  <1>3. CASE ~r.ok /\ Becomes(r.s, Nobody, refs, neg)
    <2>1. Shape(r.s) /\ r.s.h[ArgName] = NoHandle /\ r.hd = NoHandle
      BY <1>1, <1>3 DEF Ran, Result
    <2>2. Ended(r, r.s, {Nobody})
      BY <2>1 DEF Ended, Alike
    <2>3. Ends(r.s, Nobody, refs, E)
      BY <2>2, EndedEnds
    <2> QED
      BY <1>3, <2>3, BecomesKeeps
  <1>4. CASE r.ok /\ Got(r) # NoHandle /\ \E to \in Vars \ {r.ptr} : Becomes(AssignedTo(r, to), to, refs, neg)
    <2>1. PICK to \in Vars \ {r.ptr} : Becomes(AssignedTo(r, to), to, refs, neg)
      BY <1>4
    <2> DEFINE u == AssignedTo(r, to)
    <2>2. Ended(r, u, {to})
      BY <1>1, <1>4, AssignedIs
    <2> HIDE DEF u
    <2>3. Ends(u, to, refs, E)
      BY <2>2, EndedEnds
    <2>4. Becomes(u, to, refs, neg) /\ to \in Vars \cup {Nobody}
      BY <2>1 DEF u
    <2> QED
      BY <2>3, <2>4, BecomesKeeps
  <1>5. CASE r.ok /\ r.ptr # LastName /\ Becomes(Shown(r), Nobody, refs, neg)
    <2> DEFINE u == Shown(r)
    <2>1. Ended(r, u, {})
      BY <1>1, ShownIs
    <2>2. Becomes(u, Nobody, refs, neg)
      BY <1>5
    <2> HIDE DEF u
    <2>3. Ended(r, u, {Nobody})
      BY <2>1 DEF Ended
    <2>4. Ends(u, Nobody, refs, E)
      BY <2>3, EndedEnds
    <2> QED
      BY <2>2, <2>4, BecomesKeeps
  <1> QED
    BY <1>2, <1>3, <1>4, <1>5

\* What an expression that is given nothing by reference needs to show.
LEMMA DoesKeeps ==
    ASSUME CowInv, ~odd, NEW r, NEW E, NEW refs, NEW neg, Does(Store, r, E),
           E \subseteq refs \cup {neg}, E \cap Literals = {}, Statement(r, refs, neg)
    PROVE  CowInv' /\ OthersStep /\ LockedStep
  <1>1. Ran(Store, r, E) /\ Valued(Store, r, E)
    BY DEF CowInv, Does
  <1> QED
    BY <1>1, StatementKeeps

\* A variable that a statement may use.
LEMMA AssignableIs ==
    ASSUME CowInv, NEW n \in Assignable
    PROVE  /\ n \in VarNames /\ n \in Holders \ ({ArgName} \cup Literals) /\ {n} \cap Literals = {}
           /\ Store.h[n] # NoHandle /\ Shape(Store) /\ Room(Store) /\ Ready(Store)
           /\ n # LastName => "LAST" \notin Store.h[n].flags
           /\ Store.h = handle
  <1>1. n \in VarNames /\ Store.h[n] # NoHandle
    BY DEF Assignable, Bound
  <1>2. Ready(Store)
    BY DEF CowInv
  <1>3. n \in Holders \ ({ArgName} \cup Literals)
    BY <1>1, HoldersApart DEF VarNames
  <1> QED
    BY <1>1, <1>2, <1>3 DEF Ready, Shape, Store

LEMMA LiteralKeeps ==
    ASSUME CowInv, ~odd, Literal \/ File
    PROVE  CowInv' /\ OthersStep /\ LockedStep
  <1>1. Shape(Store) /\ Room(Store)
    BY DEF CowInv, Ready
  <1>2. {} \subseteq {} \cup {Nobody} /\ {} \cap Literals = {}
    OBVIOUS
  <1>3. CASE Literal
    <2>1. PICK n \in Literals : Statement(evalLiteral(Store, n), {}, Nobody)
      BY <1>3 DEF Literal
    <2>2. n \in Holders /\ Store.h[n] # NoHandle
      BY <1>1, HoldersApart DEF Shape
    <2>3. Does(Store, evalLiteral(Store, n), {})
      BY <1>1, <2>2, LiteralDoes
    <2> QED
      BY <1>2, <2>1, <2>3, DoesKeeps
  <1>4. CASE File
    <2>1. Statement(evalFile(Store, 0), {}, Nobody)
      BY <1>4 DEF File
    <2>2. Does(Store, evalFile(Store, 0), {})
      BY <1>1, FileDoes
    <2> QED
      BY <1>2, <2>1, <2>2, DoesKeeps
  <1> QED
    BY <1>3, <1>4

LEMMA SymbolKeeps ==
    ASSUME CowInv, ~odd, Symbol \/ InfixBinop \/ CallByValue
    PROVE  CowInv' /\ OthersStep /\ LockedStep
  <1>1. {} \subseteq {} \cup {Nobody} /\ {} \cap Literals = {}
    OBVIOUS
  <1>2. CASE Symbol
    <2>1. PICK n \in Assignable : Statement(Pointer(Store, n), {}, Nobody)
      BY <1>2 DEF Symbol
    <2>2. Does(Store, Pointer(Store, n), {})
      BY AssignableIs, SymbolDoes
    <2> QED
      BY <1>1, <2>1, <2>2, DoesKeeps
  <1>3. CASE InfixBinop
    <2>1. PICK n \in Assignable : Statement(evalBinop(Store, n), {}, Nobody)
      BY <1>3 DEF InfixBinop
    <2>2. Does(Store, evalBinop(Store, n), {})
      BY AssignableIs, BinopDoes
    <2> QED
      BY <1>1, <2>1, <2>2, DoesKeeps
  <1>4. CASE CallByValue
    <2>1. PICK n \in Assignable : Statement(callByValue(Store, n), {}, Nobody)
      BY <1>4 DEF CallByValue
    <2>2. Does(Store, callByValue(Store, n), {})
      BY AssignableIs, CallByValueDoes
    <2> QED
      BY <1>1, <2>1, <2>2, DoesKeeps
  <1> QED
    BY <1>2, <1>3, <1>4

LEMMA InfixKeeps ==
    ASSUME CowInv, ~odd, InfixUnop
    PROVE  CowInv' /\ OthersStep /\ LockedStep
  <1>1. PICK n \in Assignable :
          Statement(evalUnop(Store, n), {}, IF handle[n].flags = {"REF"} THEN n ELSE Nobody)
    BY DEF InfixUnop
  <1> DEFINE neg == IF handle[n].flags = {"REF"} THEN n ELSE Nobody
             E == IF Store.h[n].flags = {"REF"} THEN {n} ELSE {}
  <1>2. /\ n \in Holders /\ {n} \cap Literals = {} /\ Store.h[n] # NoHandle
        /\ Shape(Store) /\ Room(Store) /\ Store.h = handle
    BY AssignableIs
  <1>3. Does(Store, evalUnop(Store, n), E)
    BY <1>2, UnopDoes
  <1>4. E \subseteq {} \cup {neg} /\ E \cap Literals = {}
    BY <1>2
  <1>5. Statement(evalUnop(Store, n), {}, neg)
    BY <1>1
  <1> HIDE DEF E, neg
  <1> QED
    BY <1>3, <1>4, <1>5, DoesKeeps

LEMMA ReferenceKeeps ==
    ASSUME CowInv, ~odd, Prefix \/ Subassign \/ CallByRef
    PROVE  CowInv' /\ OthersStep /\ LockedStep
  <1>1. CASE Prefix
    <2>1. PICK n \in Assignable : Statement(prefixOp(Store, n), {n}, Nobody)
      BY <1>1 DEF Prefix
    <2>2. Does(Store, prefixOp(Store, n), {n}) /\ {n} \cap Literals = {} /\ {n} \subseteq {n} \cup {Nobody}
      BY AssignableIs, PrefixDoes
    <2> QED
      BY <2>1, <2>2, DoesKeeps
  <1>2. CASE Subassign
    <2>1. PICK n \in Assignable : Statement(subassign(Store, n), {n}, Nobody)
      BY <1>2 DEF Subassign
    <2>2. /\ Ready(Store) /\ n \in Holders \ {ArgName} /\ Store.h[n] # NoHandle
          /\ {n} \cap Literals = {} /\ {n} \subseteq {n} \cup {Nobody}
          /\ LastName \notin {n} => "LAST" \notin Store.h[n].flags
      BY AssignableIs
    <2>3. Ran(Store, subassign(Store, n), {n})
          /\ (Counts(Store, NoHandle) /\ "LAST" \notin Store.h[n].flags => Valued(Store, subassign(Store, n), {n}))
      BY <2>2, SubassignDoes
    <2>4. LastName \notin {n} => Valued(Store, subassign(Store, n), {n})
      BY <2>2, <2>3 DEF CowInv
    <2> QED
      BY <2>1, <2>2, <2>3, <2>4, StatementKeeps
  <1>3. CASE CallByRef
    <2>1. PICK n \in Assignable : Statement(callByRef(Store, n), {n}, Nobody)
      BY <1>3 DEF CallByRef
    <2>2. /\ Ready(Store) /\ n \in Holders \ ({ArgName} \cup Literals) /\ Store.h[n] # NoHandle
          /\ {n} \cap Literals = {} /\ {n} \subseteq {n} \cup {Nobody}
          /\ LastName \notin {n} => "LAST" \notin Store.h[n].flags
      BY AssignableIs
    <2>3. Ran(Store, callByRef(Store, n), {n})
          /\ (Counts(Store, NoHandle) /\ "LAST" \notin Store.h[n].flags => Valued(Store, callByRef(Store, n), {n}))
      BY <2>2, CallByRefDoes
    <2>4. LastName \notin {n} => Valued(Store, callByRef(Store, n), {n})
      BY <2>2, <2>3 DEF CowInv
    <2> QED
      BY <2>1, <2>2, <2>3, <2>4, StatementKeeps
  <1> QED
    BY <1>1, <1>2, <1>3

LEMMA LockKeeps ==
    ASSUME CowInv, ~odd, Lock \/ Unlock
    PROVE  CowInv' /\ OthersStep /\ LockedStep
  <1>1. CASE Lock
    <2>1. PICK n \in Assignable : Statement(lock(Store, n), {n} \cap Vars, Nobody)
      BY <1>1 DEF Lock
    <2>2. Does(Store, lock(Store, n), {}) /\ {} \cap Literals = {} /\ {} \subseteq ({n} \cap Vars) \cup {Nobody}
      BY AssignableIs, LockDoes
    <2> QED
      BY <2>1, <2>2, DoesKeeps
  <1>2. CASE Unlock
    <2>1. PICK n \in Assignable : Statement(unlock(Store, n), {n} \cap Vars, Nobody)
      BY <1>2 DEF Unlock
    <2>2. Does(Store, unlock(Store, n), {}) /\ {} \cap Literals = {} /\ {} \subseteq ({n} \cap Vars) \cup {Nobody}
      BY AssignableIs, UnlockDoes
    <2> QED
      BY <2>1, <2>2, DoesKeeps
  <1> QED
    BY <1>1, <1>2

LEMMA RmKeeps ==
    ASSUME CowInv, ~odd, Rm
    PROVE  CowInv' /\ OthersStep /\ LockedStep
  <1>1. PICK n \in Assignable \cap Vars :
          Becomes(Shown(NullValue([Dropped(Store, handle[n]) EXCEPT !.h[n] = NoHandle])), n, {}, Nobody)
    BY DEF Rm
  <1> DEFINE a == Emptied(Store, n)
             r == NullValue(a)
             u == Shown(r)
  <1>2. /\ n \in Holders \ Literals /\ n \in Kept /\ Shape(Store) /\ Store.h = handle /\ Store.o = obj
        /\ Counts(Store, NoHandle)
    BY AssignableIs, HoldersApart DEF Kept, CowInv, Store
  <1>3. Becomes(u, n, {}, Nobody)
    BY <1>1, <1>2 DEF Emptied
  <1>4. Moved(Store, a, n)
    BY <1>2, EmptiedMoves
  <1> HIDE DEF a
  <1>5. Shape(a) /\ Counts(a, NoHandle)
    BY <1>2, <1>4, MovedKeeps DEF Moved
  <1>6. r.s = a /\ r.hd = NoHandle /\ r.ptr = Nobody
    BY DEF NullValue, Value
  <1> HIDE DEF r
  <1>7. Result(r)
    BY <1>5, <1>6 DEF Result, Temporary
  <1>8. Ended(r, u, {})
    BY <1>7, ShownIs
  <1> HIDE DEF u
  <1>9. \A m \in Kept \ {n} : u.h[m] = handle[m]
    BY <1>2, <1>4, <1>6, <1>8, KeptIs DEF Ended, Moved
  <1>10. ASSUME NEW m \in Kept \ {n}, handle[m] # NoHandle
         PROVE  u.o[u.h[m].o].v = obj[handle[m].o].v
    <2>1. handle[m].o \in Objects
      BY <1>2, <1>10, KeptIs, HandleTypes DEF Shape
    <2>2. Alike(Store, a) /\ Alike(a, u)
      BY <1>4, <1>6, <1>8 DEF Moved, Ended
    <2>3. u.o[handle[m].o].v = obj[handle[m].o].v
      BY <1>2, <2>1, <2>2 DEF Alike
    <2> QED
      BY <1>9, <2>3
  <1>11. Ends(u, n, {}, {})
    BY <1>5, <1>6, <1>8, <1>9, <1>10 DEF Ends, Ended
  <1>12. {} \subseteq {} \cup {Nobody} /\ {} \cap Literals = {} /\ n \in Vars \cup {Nobody}
    OBVIOUS
  <1> QED
    BY <1>3, <1>11, <1>12, BecomesKeeps

-----------------------------------------------------------------------------
\* At the start the literals hold an object each.
LEMMA StartSound == CowInit => CowInv
  <1> SUFFICES ASSUME CowInit
               PROVE  CowInv
    OBVIOUS
  <1> DEFINE s == Store
  <1>1. /\ s.h = [n \in Holders |-> IF n \in Literals THEN [o |-> Place[n], flags |-> {}] ELSE NoHandle]
        /\ s.o = [i \in Objects |-> IF \E n \in Literals : Place[n] = i
                              THEN [v |-> LiteralIs[CHOOSE n \in Literals : Place[n] = i], n |-> 1, file |-> FALSE]
                              ELSE NoObject]
        /\ s = [h |-> s.h, o |-> s.o] /\ s.h = handle /\ s.o = obj
    BY DEF CowInit, Began, Store
  <1>2. odd = FALSE
    BY DEF CowInit
  <1>3. /\ 1 .. Top \subseteq Objects /\ 0 \notin Objects /\ Top + 1 \in Objects /\ Top \in Nat
    BY HoldersFinite, ObjectsArePositive DEF Objects, Top
  <1>4. /\ \A n \in Literals : n \in Holders /\ Place[n] \in 1 .. Top /\ Place[n] \in Objects
        /\ \A m, n \in Literals : Place[m] = Place[n] => m = n
    BY <1>3, PlaceIs, HoldersApart
  <1>5. /\ \A n \in Literals : s.h[n] = [o |-> Place[n], flags |-> {}]
        /\ \A n \in Holders \ Literals : s.h[n] = NoHandle
    BY <1>1, <1>4
  <1>6. ASSUME NEW n \in Literals
        PROVE  s.o[Place[n]] = [v |-> LiteralIs[n], n |-> 1, file |-> FALSE]
    <2>1. (CHOOSE m \in Literals : Place[m] = Place[n]) = n
      BY <1>4
    <2> QED
      BY <1>1, <1>4, <2>1
  <1>6a. ASSUME NEW n \in Literals
         PROVE  s.o[Place[n]].v = LiteralIs[n] /\ s.o[Place[n]].n = 1
    <2> DEFINE v == LiteralIs[n]
               b == [v |-> v, n |-> 1, file |-> FALSE]
    <2>1. s.o[Place[n]] = b
      BY <1>6
    <2> HIDE DEF v
    <2>2. b.v = v /\ b.n = 1
      OBVIOUS
    <2> HIDE DEF b
    <2>3. s.o[Place[n]].v = v /\ s.o[Place[n]].n = 1
      BY <2>1, <2>2
    <2> QED
      BY <2>3 DEF v
  <1>7. \A i \in Objects : (\A n \in Literals : Place[n] # i) => s.o[i] = NoObject
    BY <1>1
  <1>8. s.o = [i \in Objects |-> s.o[i]] /\ s.h = [n \in Holders |-> s.h[n]]
    BY <1>1
  <1> HIDE DEF s
  <1>9. \A i \in Objects : s.o[i] \in ObjectRecord /\ ~Mapped(s, i)
    <2>1. NoObject \in ObjectRecord /\ NoObject.file = FALSE
      BY DEF NoObject, ObjectRecord
    <2>2. ASSUME NEW n \in Literals
          PROVE  s.o[Place[n]] \in ObjectRecord /\ s.o[Place[n]].file = FALSE
      <3>1. LiteralIs[n] \in Int
        BY CowAssumption
      <3> DEFINE v == LiteralIs[n]
                 b == [v |-> v, n |-> 1, file |-> FALSE]
      <3>2. v \in Int
        BY <3>1
      <3> HIDE DEF v
      <3>3. b \in ObjectRecord /\ b.file = FALSE
        BY <3>2 DEF ObjectRecord
      <3>4. s.o[Place[n]] = b
        BY <1>6 DEF v
      <3> QED
        BY <3>3, <3>4
    <2> SUFFICES ASSUME NEW i \in Objects
                 PROVE  s.o[i] \in ObjectRecord /\ s.o[i].file = FALSE
      BY DEF Mapped
    <2> QED
      BY <1>7, <2>1, <2>2
  <1>10. \A n \in Literals : s.h[n] \in LiveHandle /\ s.h[n] # NoHandle /\ s.h[n].o = Place[n] /\ s.h[n].flags = {}
    <2> SUFFICES ASSUME NEW n \in Literals
                 PROVE  s.h[n] \in LiveHandle /\ s.h[n] # NoHandle /\ s.h[n].o = Place[n] /\ s.h[n].flags = {}
      OBVIOUS
    <2> DEFINE p == Place[n]
               b == [o |-> p, flags |-> {}]
    <2>1. p \in Objects /\ p # 0
      BY <1>3, <1>4
    <2>2. s.h[n] = b
      BY <1>5
    <2> HIDE DEF p
    <2>3. b.o = p /\ b.flags = {} /\ b \in LiveHandle
      BY <2>1 DEF LiveHandle, Flags
    <2>4. b # NoHandle
      BY <2>1 DEF NoHandle
    <2> HIDE DEF b
    <2>5. s.h[n].o = p /\ s.h[n].flags = {} /\ s.h[n] \in LiveHandle /\ s.h[n] # NoHandle
      BY <2>2, <2>3, <2>4
    <2> QED
      BY <2>5 DEF p
  <1>11. NoHandle.flags = {} /\ NoHandle.o = 0
    BY DEF NoHandle
  <1>12. s \in StoreType
    BY <1>1, <1>5, <1>8, <1>9, <1>10 DEF StoreType
  <1>13. Shape(s)
    <2>1. \A m \in Holders : "LAST" \notin s.h[m].flags
      BY <1>5, <1>10, <1>11
    <2>2. \A m \in Holders : s.h[m] = NoHandle \/ Fit(s, s.h[m])
      BY <1>4, <1>5, <1>9, <1>10 DEF Fit
    <2> QED
      BY <1>10, <1>12, <2>1, <2>2 DEF Shape
  <1>14. Ready(s)
    <2>1. s.h[ArgName] = NoHandle
      BY <1>5, HoldersApart
    <2>2. ASSUME NEW n \in Holders
          PROVE  s.h[n].o # Top + 1
      <3>1. CASE n \in Literals
        <4>1. s.h[n].o \in 1 .. Top
          BY <1>4, <1>10, <3>1
        <4> QED
          BY <1>3, <4>1
      <3>2. CASE n \notin Literals
        BY <1>3, <1>5, <1>11, <3>2
      <3> QED
        BY <3>1, <3>2
    <2>3. \A n \in Literals : Place[n] # Top + 1
      BY <1>3, <1>4
    <2>4. Top + 1 \in Unused(s)
      BY <1>3, <1>7, <2>2, <2>3 DEF Unused
    <2> QED
      BY <1>13, <2>1, <2>4 DEF Ready, Room
  <1>15. Counts(s, NoHandle)
    <2> SUFFICES ASSUME NEW i \in Objects
                 PROVE  s.o[i].n = Cardinality(Owners(s, i)) + One(NoHandle, i)
      BY DEF Counts
    <2>0. One(NoHandle, i) = 0
      BY OneTypes
    <2>1. CASE \E n \in Literals : Place[n] = i
      <3>1. PICK n \in Literals : Place[n] = i
        BY <2>1
      <3>2. Owners(s, i) = {n}
        BY <1>3, <1>4, <1>5, <1>10, <1>11, <3>1 DEF Owners
      <3>3. Cardinality({n}) = 1
        BY FS_Singleton
      <3>4. s.o[i].n = 1
        BY <1>6a, <3>1
      <3> QED
        BY <2>0, <3>2, <3>3, <3>4
    <2>2. CASE ~\E n \in Literals : Place[n] = i
      <3>1. Owners(s, i) = {}
        BY <1>3, <1>5, <1>10, <1>11, <2>2 DEF Owners
      <3>2. s.o[i].n = 0
        BY <1>7, <2>2 DEF NoObject
      <3> QED
        BY <2>0, <3>1, <3>2, FS_EmptySet
    <2> QED
      BY <2>1, <2>2
  <1>16. LiteralsHold
    BY <1>1, <1>6a, <1>10 DEF LiteralsHold, s
  <1> QED
    BY <1>2, <1>14, <1>15, <1>16 DEF CowInv, s

\* Every statement keeps the invariant.
LEMMA CowStep ==
    ASSUME CowInv, CowNext
    PROVE  CowInv' /\ OthersStep /\ LockedStep
  <1>1. ~odd
    BY DEF CowNext
  <1>2. \/ Literal \/ File \/ Symbol \/ InfixBinop \/ InfixUnop \/ Prefix
        \/ Subassign \/ Lock \/ Unlock \/ CallByValue \/ CallByRef \/ Rm
    BY DEF CowNext
  <1> QED
    BY <1>1, <1>2, LiteralKeeps, SymbolKeeps, InfixKeeps, ReferenceKeeps, LockKeeps, RmKeeps

LEMMA CowStutter ==
    ASSUME CowInv, UNCHANGED cowvars
    PROVE  CowInv'
  <1>1. Store' = Store
    BY DEF cowvars, Store
  <1> QED
    BY <1>1 DEF cowvars, CowInv, LiteralsHold

\* The invariant is stronger than the property.
LEMMA CowInvIsSound == CowInv => SharingIsSound
  <1> SUFFICES ASSUME CowInv
               PROVE  SharingIsSound
    OBVIOUS
  <1>1. Shape(Store) /\ Store.h = handle /\ Store.o = obj
    BY DEF CowInv, Ready, Store
  <1>2. CountIsRight
    <2> SUFFICES ASSUME ~odd, NEW i \in Objects
                 PROVE  obj[i].n = Cardinality(Counted(i))
      BY DEF CountIsRight
    <2>1. Counted(i) = Owners(Store, i)
      BY <1>1 DEF Counted, Owners
    <2>2. obj[i].n = Cardinality(Owners(Store, i)) + One(NoHandle, i)
      BY <1>1 DEF CowInv, Counts
    <2>3. One(NoHandle, i) = 0 /\ Cardinality(Owners(Store, i)) \in Nat
      BY OneTypes, OwnersFinite
    <2> QED
      BY <2>1, <2>2, <2>3
  <1>3. LiteralsKeep
    BY DEF LiteralsKeep, CowInv, LiteralsHold, ValueOf
  <1>4. MappedIsLocked
    <2> SUFFICES ASSUME NEW n \in Vars, handle[n] # NoHandle, obj[handle[n].o].file
                 PROVE  isLocked(handle[n])
      BY DEF MappedIsLocked
    <2>1. Fit(Store, handle[n])
      BY <1>1, HoldersApart DEF Shape
    <2>2. Mapped(Store, handle[n].o)
      <3>1. handle[n].o \in Objects /\ obj \in [Objects -> ObjectRecord]
        BY <1>1, <2>1 DEF Fit, LiveHandle, Shape, StoreType
      <3>2. obj[handle[n].o].file \in BOOLEAN
        BY <3>1 DEF ObjectRecord
      <3>3. obj[handle[n].o].file = TRUE
        BY <3>2, Zenon
      <3> QED
        BY <1>1, <3>3 DEF Mapped
    <2> QED
      BY <2>1, <2>2 DEF Fit, isLocked
  <1> QED
    BY <1>2, <1>3, <1>4 DEF SharingIsSound

\* What is shared is known to be shared (cow_ptr.hpp, valuevar.cpp): after every statement
\* the count of an object is the number of its counted handles, until .Last.value is
\* written by reference; literals in the code keep their values and mapped objects are
\* locked, for any variables and literals and any order of statements.
THEOREM SharedSoundly == CowSpec => []SharingIsSound
  <1>1. CowInit => CowInv
    BY StartSound
  <1>2. CowInv /\ [CowNext]_cowvars => CowInv'
    BY CowStep, CowStutter
  <1>3. CowInv => SharingIsSound
    BY CowInvIsSound
  <1> QED
    BY <1>1, <1>2, <1>3, PTL DEF CowSpec

\* A statement changes the value of no variable but the one it assigns, those it is given
\* by reference and the one it negates in place; and a locked variable keeps its object,
\* so that what shares it still does, whatever is written through it.
THEOREM WritesStayInside == CowSpec => WritesStay
  <1>1. CowInit => CowInv
    BY StartSound
  <1>2. CowInv /\ [CowNext]_cowvars => CowInv'
    BY CowStep, CowStutter
  <1>3. CowInv /\ [CowNext]_cowvars => [OthersStep]_cowvars
    BY CowStep
  <1>4. CowInv /\ [CowNext]_cowvars => [LockedStep]_cowvars
    BY CowStep
  <1>5. CowSpec => OthersKeep
    BY <1>1, <1>2, <1>3, PTL DEF CowSpec, OthersKeep, OthersStep
  <1>6. CowSpec => LockedKeep
    BY <1>1, <1>2, <1>4, PTL DEF CowSpec, LockedKeep, LockedStep
  <1> QED
    BY <1>5, <1>6 DEF WritesStay
=============================================================================
