----------------------------- MODULE TimeProofs -----------------------------
(***************************************************************************)
(* What is computed on times and time series, for series of any length,    *)
(* any times, zones and windows.                                           *)
(***************************************************************************)
EXTENDS Align, SequenceTheorems, Induction, TLAPS

(***************************************************************************)
(* The calendar.                                                           *)
(***************************************************************************)
BeforeIs(f) == f = [k \in 0 .. Months |-> IF k = 0 THEN 0 ELSE f[k - 1] + MonthDays[k]]

LEMMA MonthsKnown ==
    /\ Months \in Nat \ {0} /\ \A k \in 1 .. Months : MonthDays[k] \in Nat \ {0}
    /\ Day \in Nat \ {0} /\ Den \in Nat \ {0} /\ DaySecs \in Nat \ {0}
  <1>1. MonthDays \in Seq(Nat \ {0}) /\ MonthDays # <<>> /\ Den \in Nat \ {0} /\ DaySecs \in Nat \ {0}
    BY TimesAssumption
  <1>2. Len(MonthDays) \in Nat \ {0}
    BY <1>1, EmptySeq, LenProperties
  <1>3. \A k \in 1 .. Len(MonthDays) : MonthDays[k] \in Nat \ {0}
    BY <1>1, ElementOfSeq
  <1>4. DaySecs * Den \in Nat \ {0}
    BY <1>1
  <1> QED
    BY <1>1, <1>2, <1>3, <1>4 DEF Months, Day

\* The days before a month are the sum of the lengths of those before it.
LEMMA DaysBeforeIs ==
    /\ \A m \in 1 .. Months + 1 : DaysBefore(m) \in Nat
    /\ DaysBefore(1) = 0
    /\ \A m \in 1 .. Months : DaysBefore(m + 1) = DaysBefore(m) + MonthDays[m]
  <1>1. Months \in Nat \ {0} /\ \A k \in 1 .. Months : MonthDays[k] \in Nat \ {0}
    BY MonthsKnown
  <1> DEFINE F == [p \in Nat \X Nat |-> IF p[1] \in 0 .. Months - 1 THEN p[2] + MonthDays[p[1] + 1] ELSE 0]
  <1>2. F \in [Nat \X Nat -> Nat]
    <2> SUFFICES ASSUME NEW p \in Nat \X Nat
                 PROVE  (IF p[1] \in 0 .. Months - 1 THEN p[2] + MonthDays[p[1] + 1] ELSE 0) \in Nat
      OBVIOUS
    <2>1. CASE p[1] \in 0 .. Months - 1
      <3>1. MonthDays[p[1] + 1] \in Nat
        BY <1>1, <2>1
      <3> QED
        BY <2>1, <3>1
    <2>2. CASE p[1] \notin 0 .. Months - 1
      BY <2>2
    <2> QED
      BY <2>1, <2>2
  <1>3. PICK f \in [0 .. Months -> Nat] : f[0] = 0 /\ \A n \in 0 .. Months - 1 : f[n + 1] = F[<<n, f[n]>>]
    <2>1. 0 \in Nat /\ Months \in Nat
      BY <1>1
    <2> HIDE DEF F
    <2>2. HasSolution(Nat, 0, F, Months)
      BY <1>2, <2>1, Recursion
    <2> QED
      BY <2>2 DEF HasSolution, Follows
  <1>4. \A n \in 0 .. Months - 1 : f[n + 1] = f[n] + MonthDays[n + 1]
    <2> TAKE n \in 0 .. Months - 1
    <2>1. f[n] \in Nat /\ n \in Nat
      BY <1>1
    <2>2. F[<<n, f[n]>>] = f[n] + MonthDays[n + 1]
      BY <2>1
    <2> QED
      BY <1>3, <2>2
  <1>5. BeforeIs(f)
    <2>1. f = [k \in 0 .. Months |-> f[k]]
      OBVIOUS
    <2>2. \A k \in 0 .. Months : f[k] = IF k = 0 THEN 0 ELSE f[k - 1] + MonthDays[k]
      <3> TAKE k \in 0 .. Months
      <3>1. CASE k = 0
        BY <1>3, <3>1
      <3>2. CASE k # 0
        <4>1. k - 1 \in 0 .. Months - 1 /\ (k - 1) + 1 = k
          BY <1>1, <3>2
        <4>2. f[(k - 1) + 1] = f[k - 1] + MonthDays[(k - 1) + 1]
          BY <1>4, <4>1
        <4> QED
          BY <3>2, <4>1, <4>2
      <3> QED
        BY <3>1, <3>2
    <2> QED
      BY <2>1, <2>2 DEF BeforeIs
  <1> DEFINE g == CHOOSE h : BeforeIs(h)
  <1>6. BeforeIs(g)
    BY <1>5
  <1>7. \A m : DaysBefore(m) = g[m - 1]
    BY DEF DaysBefore, BeforeIs
  <1> HIDE DEF g
  <1>8. g[0] = 0 /\ \A k \in 1 .. Months : g[k] = g[k - 1] + MonthDays[k]
    BY <1>1, <1>6 DEF BeforeIs
  <1> DEFINE I == {n \in Nat : n <= Months => g[n] \in Nat}
  <1>9. 0 \in I
    BY <1>8
  <1>10. ASSUME NEW n \in Nat, n \in I
         PROVE  n + 1 \in I
    <2> SUFFICES ASSUME n + 1 <= Months
                 PROVE  g[n + 1] \in Nat
      OBVIOUS
    <2>1. g[n] \in Nat /\ n + 1 \in 1 .. Months /\ (n + 1) - 1 = n
      BY <1>1, <1>10
    <2>2. g[n + 1] = g[(n + 1) - 1] + MonthDays[n + 1]
      BY <1>8, <2>1
    <2> QED
      BY <1>1, <2>1, <2>2
  <1>11. Nat \subseteq I
    <2> HIDE DEF I
    <2> QED
      BY <1>9, <1>10, SetInduction
  <1>12. \A m \in 1 .. Months + 1 : DaysBefore(m) \in Nat
    <2> TAKE m \in 1 .. Months + 1
    <2>1. m - 1 \in Nat /\ m - 1 <= Months
      BY <1>1
    <2> QED
      BY <1>7, <1>11, <2>1
  <1>13. DaysBefore(1) = 0
    <2>1. 1 - 1 = 0
      OBVIOUS
    <2> QED
      BY <1>7, <1>8, <2>1
  <1>14. ASSUME NEW m \in 1 .. Months
         PROVE  DaysBefore(m + 1) = DaysBefore(m) + MonthDays[m]
    <2>1. (m + 1) - 1 = m
      OBVIOUS
    <2>2. DaysBefore(m + 1) = g[m] /\ DaysBefore(m) = g[m - 1]
      BY <1>7, <2>1
    <2> QED
      BY <1>8, <2>2
  <1> QED
    BY <1>12, <1>13, <1>14

LEMMA YearDaysKnown == YearDays \in Nat \ {0}
  <1>1. Months \in Nat \ {0} /\ \A k \in 1 .. Months : MonthDays[k] \in Nat \ {0}
    BY MonthsKnown
  <1>2. Months \in 1 .. Months + 1 /\ Months \in 1 .. Months /\ Months + 1 \in 1 .. Months + 1
    BY <1>1
  <1>3. DaysBefore(Months + 1) = DaysBefore(Months) + MonthDays[Months] /\ DaysBefore(Months) \in Nat
    BY <1>2, DaysBeforeIs
  <1> QED
    BY <1>1, <1>2, <1>3 DEF YearDays

(***************************************************************************)
(* Zone::bs and Zone::getoffset.                                           *)
(***************************************************************************)
Spans(n) == (0 .. n) \X (-1 .. n - 1)
Middle(p) == (p[1] + p[2]) \div 2
Upper(p) == <<Middle(p) + 1, p[2]>>
Lower(p) == <<p[1], Middle(p) - 1>>
Width(p) == p[2] - p[1] + 1
NextOf(z, t, g, p) ==
  IF p[1] > p[2] \/ z.ats[Middle(p) + 1] = t THEN Middle(p)
  ELSE IF z.ats[Middle(p) + 1] < t THEN g[Upper(p)] ELSE g[Lower(p)]
SearchIs(z, t, f) == f = [p \in Spans(Len(z.ats)) |-> NextOf(z, t, f, p)]
Searched(z, t) == CHOOSE f : SearchIs(z, t, f)

LEMMA BsIsSearch ==
    ASSUME NEW z, NEW t
    PROVE  bs(z, t) = Searched(z, t)[<<0, Len(z.ats) - 1>>]
  BY DEF Searched, SearchIs, NextOf, Middle, Upper, Lower, Spans, bs

LEMMA WidthInt ==
    ASSUME NEW n \in Nat, NEW p \in Spans(n)
    PROVE  Width(p) \in Int /\ Width(p) <= n
  BY DEF Width, Spans

\* Where a span is not empty, both halves are in the vector and smaller.
LEMMA HalvesAreSmaller ==
    ASSUME NEW n \in Nat, NEW p \in Spans(n), p[1] <= p[2]
    PROVE  /\ Middle(p) \in p[1] .. p[2] /\ Middle(p) \in 0 .. n - 1
           /\ Upper(p) \in Spans(n) /\ Width(Upper(p)) < Width(p)
           /\ Lower(p) \in Spans(n) /\ Width(Lower(p)) < Width(p)
           /\ Width(p) \in Nat /\ Width(Upper(p)) \in Int /\ Width(Lower(p)) \in Int
  <1>1. p[1] \in 0 .. n /\ p[2] \in -1 .. n - 1
    BY DEF Spans
  <1>2. Middle(p) \in Int /\ p[1] <= Middle(p) /\ Middle(p) <= p[2]
    BY <1>1 DEF Middle
  <1>3. Upper(p) \in Spans(n) /\ Lower(p) \in Spans(n)
    BY <1>1, <1>2 DEF Upper, Lower, Spans
  <1>4. Width(Upper(p)) = p[2] - Middle(p) /\ Width(Lower(p)) = Middle(p) - p[1]
    BY <1>1, <1>2 DEF Upper, Lower, Width
  <1>5. Width(p) = p[2] - p[1] + 1
    BY DEF Width
  <1> QED
    BY <1>1, <1>2, <1>3, <1>4, <1>5

LEMMA NextOfInt ==
    ASSUME NEW z, NEW t \in Int, z.ats \in Seq(Int), NEW p \in Spans(Len(z.ats)), NEW g \in [Spans(Len(z.ats)) -> Int]
    PROVE  NextOf(z, t, g, p) \in Int
  <1> DEFINE n == Len(z.ats)
  <1>1. n \in Nat
    BY LenProperties
  <1>2. CASE p[1] > p[2] \/ z.ats[Middle(p) + 1] = t
    <2>1. Middle(p) \in Int
      BY <1>1 DEF Middle, Spans
    <2> QED
      BY <1>2, <2>1 DEF NextOf
  <1>3. CASE ~(p[1] > p[2] \/ z.ats[Middle(p) + 1] = t)
    <2>1. p[1] <= p[2]
      BY <1>1, <1>3 DEF Spans
    <2>2. Upper(p) \in Spans(n) /\ Lower(p) \in Spans(n)
      BY <1>1, <2>1, HalvesAreSmaller
    <2>3. g[Upper(p)] \in Int /\ g[Lower(p)] \in Int
      BY <2>2
    <2> QED
      BY <1>3, <2>3 DEF NextOf
  <1> QED
    BY <1>2, <1>3

LEMMA NextOfSame ==
    ASSUME NEW z, NEW t, NEW n \in Nat, NEW p \in Spans(n), NEW g, NEW h,
           \A q \in Spans(n) : Width(q) < Width(p) => g[q] = h[q]
    PROVE  NextOf(z, t, g, p) = NextOf(z, t, h, p)
  <1>1. CASE p[1] > p[2] \/ z.ats[Middle(p) + 1] = t
    BY <1>1 DEF NextOf
  <1>2. CASE ~(p[1] > p[2] \/ z.ats[Middle(p) + 1] = t)
    <2>1. p[1] <= p[2]
      BY <1>2 DEF Spans
    <2>2. g[Upper(p)] = h[Upper(p)] /\ g[Lower(p)] = h[Lower(p)]
      BY <2>1, HalvesAreSmaller
    <2> QED
      BY <1>2, <2>2 DEF NextOf
  <1> QED
    BY <1>1, <1>2

LEMMA SearchExists ==
    ASSUME NEW z, NEW t \in Int, z.ats \in Seq(Int)
    PROVE  Searched(z, t) \in [Spans(Len(z.ats)) -> Int] /\ SearchIs(z, t, Searched(z, t))
  <1> DEFINE n == Len(z.ats)
             S == [Spans(n) -> Int]
             zero == [p \in Spans(n) |-> 0]
             F == [q \in Nat \X S |-> [p \in Spans(n) |-> NextOf(z, t, q[2], p)]]
  <1>1. n \in Nat /\ n + 2 \in Nat
    BY LenProperties
  <1>2. zero \in S
    OBVIOUS
  <1>3. F \in [Nat \X S -> S]
    <2>1. ASSUME NEW q \in Nat \X S
          PROVE  [p \in Spans(n) |-> NextOf(z, t, q[2], p)] \in S
      <3>1. q[2] \in S
        OBVIOUS
      <3>2. \A p \in Spans(n) : NextOf(z, t, q[2], p) \in Int
        BY <3>1, NextOfInt
      <3> QED
        BY <3>2
    <2> HIDE DEF S
    <2> QED
      BY <2>1
  <1>4. HasSolution(S, zero, F, n + 2)
    <2> HIDE DEF S, zero, F, n
    <2> QED
      BY <1>1, <1>2, <1>3, Recursion
  <1>5. PICK h \in [0 .. n + 2 -> S] : Follows(h, zero, F, n + 2)
    BY <1>4 DEF HasSolution
  <1>6. \A k \in 0 .. n + 2 : h[k] \in S
    <2> HIDE DEF S
    <2> QED
      BY <1>1
  <1>7. ASSUME NEW k \in 0 .. n + 1
        PROVE  h[k + 1] = [p \in Spans(n) |-> NextOf(z, t, h[k], p)]
    <2>1. k \in 0 .. (n + 2) - 1 /\ k \in 0 .. n + 2 /\ k \in Nat
      BY <1>1
    <2>2. h[k + 1] = F[<<k, h[k]>>]
      BY <1>5, <2>1 DEF Follows
    <2> DEFINE pair == <<k, h[k]>>
    <2>3. pair \in Nat \X S /\ pair[2] = h[k]
      <3>1. h[k] \in S
        BY <1>6, <2>1
      <3> HIDE DEF S
      <3> QED
        BY <2>1, <3>1
    <2>4. F[pair] = [p \in Spans(n) |-> NextOf(z, t, pair[2], p)]
      <3> HIDE DEF pair, S
      <3> QED
        BY <2>3
    <2> QED
      BY <2>2, <2>3, <2>4
  <1> HIDE DEF F, zero, n
  <1> DEFINE I == {k \in Nat : k <= n => \A p \in Spans(n) : Width(p) <= k => h[k + 1][p] = h[k + 2][p]}
  <1>8. ASSUME NEW k \in 0 .. n, NEW p \in Spans(n), \A q \in Spans(n) : Width(q) < Width(p) => h[k][q] = h[k + 1][q]
        PROVE  h[k + 1][p] = h[k + 2][p]
    <2>1. k \in 0 .. n + 1 /\ k + 1 \in 0 .. n + 1 /\ (k + 1) + 1 = k + 2
      BY <1>1
    <2>2. h[k + 1][p] = NextOf(z, t, h[k], p)
      BY <1>7, <2>1
    <2>3. h[k + 2][p] = NextOf(z, t, h[k + 1], p)
      <3>1. h[(k + 1) + 1] = [q \in Spans(n) |-> NextOf(z, t, h[k + 1], q)]
        BY <1>7, <2>1
      <3> QED
        BY <2>1, <3>1
    <2>4. NextOf(z, t, h[k], p) = NextOf(z, t, h[k + 1], p)
      BY <1>1, <1>8, NextOfSame
    <2> QED
      BY <2>2, <2>3, <2>4
  <1>9. 0 \in I
    <2> SUFFICES ASSUME NEW p \in Spans(n), Width(p) <= 0
                 PROVE  h[0 + 1][p] = h[0 + 2][p]
      OBVIOUS
    <2>1. p[1] > p[2]
      BY <1>1 DEF Width, Spans
    <2>2. 0 \in 0 .. n + 1 /\ 1 \in 0 .. n + 1 /\ 1 + 1 = 2 /\ 0 + 1 = 1 /\ 0 + 2 = 2
      BY <1>1
    <2>3. h[1] = [q \in Spans(n) |-> NextOf(z, t, h[0], q)]
      BY <1>7, <2>2
    <2>4. h[2] = [q \in Spans(n) |-> NextOf(z, t, h[1], q)]
      BY <1>7, <2>2
    <2>5. NextOf(z, t, h[0], p) = Middle(p) /\ NextOf(z, t, h[1], p) = Middle(p)
      BY <2>1 DEF NextOf
    <2> QED
      BY <2>2, <2>3, <2>4, <2>5
  <1>10. ASSUME NEW k \in Nat, k \in I
         PROVE  k + 1 \in I
    <2> SUFFICES ASSUME k + 1 <= n, NEW p \in Spans(n), Width(p) <= k + 1
                 PROVE  h[(k + 1) + 1][p] = h[(k + 1) + 2][p]
      OBVIOUS
    <2>1. \A q \in Spans(n) : Width(q) < Width(p) => h[k + 1][q] = h[(k + 1) + 1][q]
      <3> SUFFICES ASSUME NEW q \in Spans(n), Width(q) < Width(p)
                   PROVE  h[k + 1][q] = h[(k + 1) + 1][q]
        OBVIOUS
      <3>1. Width(q) \in Int /\ Width(p) \in Int
        <4> HIDE DEF I
        <4> QED
          BY <1>1, WidthInt
      <3>3. Width(q) <= k
        <4> HIDE DEF I
        <4> QED
          BY <3>1
      <3>2. (k + 1) + 1 = k + 2 /\ k <= n
        BY <1>1
      <3> QED
        BY <1>10, <3>2, <3>3
    <2>2. k + 1 \in 0 .. n
      BY <1>1
    <2> QED
      BY <1>8, <2>1, <2>2
  <1>11. Nat \subseteq I
    <2> HIDE DEF I
    <2> QED
      BY <1>9, <1>10, SetInduction
  <1> DEFINE f == h[n + 1]
  <1>12. f \in S
    BY <1>1, <1>6
  <1>13. f = [p \in Spans(n) |-> NextOf(z, t, f, p)]
    <2>1. \A p \in Spans(n) : h[n + 1][p] = h[n + 2][p]
      <3> TAKE p \in Spans(n)
      <3>1. Width(p) <= n
        BY <1>1 DEF Width, Spans
      <3> QED
        BY <1>1, <1>11, <3>1
    <2>2. n + 1 \in 0 .. n + 1 /\ (n + 1) + 1 = n + 2 /\ n + 2 \in 0 .. n + 2
      BY <1>1
    <2>3. h[n + 2] = [p \in Spans(n) |-> NextOf(z, t, h[n + 1], p)]
      BY <1>7, <2>2
    <2>4. h[n + 2] \in S
      BY <1>6, <2>2
    <2>5. h[n + 1] = h[n + 2]
      <3> HIDE DEF f
      <3> QED
        BY <1>12, <2>1, <2>4 DEF f
    <2> QED
      BY <2>3, <2>5
  <1>14. SearchIs(z, t, f)
    BY <1>13 DEF SearchIs, n
  <1> HIDE DEF f
  <1> DEFINE g == Searched(z, t)
  <1>15. SearchIs(z, t, g)
    BY <1>14 DEF Searched
  <1> HIDE DEF g
  <1>16. g = [p \in Spans(n) |-> NextOf(z, t, g, p)]
    BY <1>15 DEF SearchIs, n
  <1> DEFINE J == {k \in Nat : \A p \in Spans(n) : Width(p) <= k => g[p] \in Int}
  <1>17. 0 \in J
    <2> SUFFICES ASSUME NEW p \in Spans(n), Width(p) <= 0
                 PROVE  g[p] \in Int
      OBVIOUS
    <2>1. p[1] > p[2] /\ p[1] \in Int /\ p[2] \in Int
      BY <1>1 DEF Width, Spans
    <2>2. Middle(p) \in Int
      BY <2>1 DEF Middle
    <2>3. NextOf(z, t, g, p) = Middle(p)
      BY <2>1 DEF NextOf
    <2> QED
      BY <1>16, <2>2, <2>3
  <1>18. ASSUME NEW k \in Nat, k \in J
         PROVE  k + 1 \in J
    <2> SUFFICES ASSUME NEW p \in Spans(n), Width(p) <= k + 1
                 PROVE  g[p] \in Int
      OBVIOUS
    <2>1. CASE p[1] > p[2] \/ z.ats[Middle(p) + 1] = t
      <3>1. NextOf(z, t, g, p) = Middle(p)
        BY <2>1 DEF NextOf
      <3>2. Middle(p) \in Int
        BY <1>1 DEF Middle, Spans
      <3> QED
        BY <1>16, <3>1, <3>2
    <2>2. CASE ~(p[1] > p[2] \/ z.ats[Middle(p) + 1] = t)
      <3>1. p[1] <= p[2]
        BY <1>1, <2>2 DEF Spans
      <3>2. /\ Upper(p) \in Spans(n) /\ Width(Upper(p)) < Width(p) /\ Lower(p) \in Spans(n) /\ Width(Lower(p)) < Width(p)
            /\ Width(p) \in Nat /\ Width(Upper(p)) \in Int /\ Width(Lower(p)) \in Int
        BY <1>1, <3>1, HalvesAreSmaller
      <3>3. Width(Upper(p)) <= k /\ Width(Lower(p)) <= k
        BY <3>2
      <3>4. g[Upper(p)] \in Int /\ g[Lower(p)] \in Int
        BY <1>18, <3>2, <3>3
      <3>5. NextOf(z, t, g, p) = g[Upper(p)] \/ NextOf(z, t, g, p) = g[Lower(p)]
        BY <2>2 DEF NextOf
      <3> QED
        BY <1>16, <3>4, <3>5
    <2> QED
      BY <2>1, <2>2
  <1>19. Nat \subseteq J
    <2> HIDE DEF J
    <2> QED
      BY <1>17, <1>18, SetInduction
  <1>20. \A p \in Spans(n) : g[p] \in Int
    <2> TAKE p \in Spans(n)
    <2>1. Width(p) <= n
      BY <1>1 DEF Width, Spans
    <2> QED
      BY <1>1, <1>19, <2>1
  <1>21. g \in [Spans(n) -> Int]
    BY <1>16, <1>20
  <1> QED
    BY <1>15, <1>21 DEF g, n

\* A position whose transition is the last that is not after t.
Bracket(z, t, i) ==
  /\ i \in 0 .. Len(z.ats) - 1 /\ z.ats[i + 1] <= t
  /\ i + 1 < Len(z.ats) => t < z.ats[i + 2]
Around(z, t, p) ==
  /\ Width(p) >= 0 /\ (p[1] > 0 => z.ats[p[1]] <= t)
  /\ p[2] < Len(z.ats) - 1 => t < z.ats[p[2] + 2]

LEMMA SearchStep ==
    ASSUME NEW z, IsZone(z), NEW t \in Int, z.ats # <<>>, z.ats[1] <= t,
           NEW p \in Spans(Len(z.ats)), Around(z, t, p),
           NEW g, g = [q \in Spans(Len(z.ats)) |-> NextOf(z, t, g, q)],
           \A q \in Spans(Len(z.ats)) : Width(q) < Width(p) /\ Around(z, t, q) => Bracket(z, t, g[q])
    PROVE  Bracket(z, t, g[p])
  <1> DEFINE n == Len(z.ats)
             Change(i) == z.ats[i]
  <1>1. n \in Nat \ {0} /\ \A i \in 1 .. n : Change(i) \in Int
    BY EmptySeq, LenProperties, ElementOfSeq DEF IsZone
  <1>2. \A i \in 2 .. n : Change(i - 1) < Change(i)
    BY DEF IsZone
  <1>3. p[1] \in 0 .. n /\ p[2] \in -1 .. n - 1 /\ Width(p) = p[2] - p[1] + 1 /\ Width(p) >= 0
    BY <1>1 DEF Spans, Width, Around
  <1>4. g[p] = NextOf(z, t, g, p)
    OBVIOUS
  <1>5. CASE p[1] > p[2]
    <2>1. Middle(p) = p[2] /\ p[1] = p[2] + 1
      BY <1>3, <1>5 DEF Middle
    <2>2. g[p] = p[2]
      BY <1>4, <1>5, <2>1 DEF NextOf
    <2>3. p[2] # -1
      <3> SUFFICES ASSUME p[2] = -1
                   PROVE  FALSE
        OBVIOUS
      <3>1. t < z.ats[p[2] + 2] /\ p[2] + 2 = 1
        BY <1>1, <1>3 DEF Around
      <3> QED
        BY <1>1, <3>1
    <2>4. Change(p[2] + 1) <= t
      BY <1>3, <2>1, <2>3 DEF Around
    <2>5. p[2] + 1 < n => t < Change(p[2] + 2)
      BY <1>1, <1>3 DEF Around
    <2> QED
      BY <1>3, <2>2, <2>3, <2>4, <2>5 DEF Bracket
  <1>6. CASE p[1] <= p[2]
    <2> DEFINE m == Middle(p)
    <2>1. /\ m \in p[1] .. p[2] /\ m \in 0 .. n - 1
          /\ Upper(p) \in Spans(n) /\ Width(Upper(p)) < Width(p) /\ Lower(p) \in Spans(n) /\ Width(Lower(p)) < Width(p)
      BY <1>1, <1>6, HalvesAreSmaller
    <2>2. m + 1 \in 1 .. n /\ Change(m + 1) \in Int
      BY <1>1, <2>1
    <2>3. CASE Change(m + 1) = t
      <3>1. g[p] = m
        BY <1>4, <2>3 DEF NextOf
      <3>2. m + 1 < n => t < Change(m + 2)
        <4> SUFFICES ASSUME m + 1 < n
                     PROVE  t < Change(m + 2)
          OBVIOUS
        <4>1. m + 2 \in 2 .. n /\ (m + 2) - 1 = m + 1
          BY <1>1, <2>1
        <4>2. Change((m + 2) - 1) < Change(m + 2)
          BY <1>2, <4>1
        <4> QED
          BY <2>3, <4>1, <4>2
      <3> QED
        BY <2>1, <2>3, <3>1, <3>2 DEF Bracket
    <2>4. CASE Change(m + 1) < t
      <3>1. g[p] = g[Upper(p)]
        BY <1>3, <1>4, <1>6, <2>2, <2>4 DEF NextOf
      <3>2. Upper(p)[1] = m + 1 /\ Upper(p)[2] = p[2]
        BY DEF Upper
      <3>3. Width(Upper(p)) = p[2] - (m + 1) + 1
        BY <3>2 DEF Width
      <3>4. Width(Upper(p)) >= 0
        BY <1>3, <2>1, <3>3
      <3>5. z.ats[m + 1] <= t
        BY <2>2, <2>4
      <3>6. Around(z, t, Upper(p))
        BY <3>2, <3>4, <3>5 DEF Around
      <3> QED
        BY <2>1, <3>1, <3>6
    <2>5. CASE Change(m + 1) > t
      <3>1. g[p] = g[Lower(p)]
        BY <1>3, <1>4, <1>6, <2>2, <2>5 DEF NextOf
      <3>2. Lower(p)[1] = p[1] /\ Lower(p)[2] = m - 1
        BY DEF Lower
      <3>3. Width(Lower(p)) = (m - 1) - p[1] + 1
        BY <3>2 DEF Width
      <3>4. Width(Lower(p)) >= 0
        BY <1>3, <2>1, <3>3
      <3>5. t < z.ats[(m - 1) + 2]
        <4>1. (m - 1) + 2 = m + 1
          BY <2>1
        <4> QED
          BY <2>2, <2>5, <4>1
      <3>6. p[1] > 0 => z.ats[p[1]] <= t
        BY DEF Around
      <3>7. Around(z, t, Lower(p))
        BY <3>2, <3>4, <3>5, <3>6 DEF Around
      <3> QED
        BY <2>1, <3>1, <3>7
    <2> QED
      BY <2>2, <2>3, <2>4, <2>5
  <1> QED
    BY <1>3, <1>5, <1>6

\* The binary search finds the last transition that is not after the time.
LEMMA BsRight ==
    ASSUME NEW z, IsZone(z), NEW t \in Int, z.ats # <<>>, z.ats[1] <= t
    PROVE  Bracket(z, t, bs(z, t))
  <1> DEFINE n == Len(z.ats)
             g == Searched(z, t)
             J == {k \in Nat : \A p \in Spans(n) : Width(p) < k /\ Around(z, t, p) => Bracket(z, t, g[p])}
  <1>1. n \in Nat \ {0} /\ z.ats \in Seq(Int)
    BY EmptySeq, LenProperties DEF IsZone
  <1>2. g = [p \in Spans(n) |-> NextOf(z, t, g, p)]
    BY <1>1, SearchExists DEF SearchIs
  <1> HIDE DEF g, n
  <1>3. 0 \in J
    <2> SUFFICES ASSUME NEW p \in Spans(n), Width(p) < 0, Around(z, t, p)
                 PROVE  FALSE
      OBVIOUS
    <2>1. Width(p) \in Int
      BY <1>1, WidthInt
    <2> QED
      BY <2>1 DEF Around
  <1>4. ASSUME NEW k \in Nat, k \in J
        PROVE  k + 1 \in J
    <2> SUFFICES ASSUME NEW p \in Spans(n), Width(p) < k + 1, Around(z, t, p)
                 PROVE  Bracket(z, t, g[p])
      OBVIOUS
    <2>1. \A q \in Spans(n) : Width(q) < Width(p) /\ Around(z, t, q) => Bracket(z, t, g[q])
      <3> SUFFICES ASSUME NEW q \in Spans(n), Width(q) < Width(p), Around(z, t, q)
                   PROVE  Bracket(z, t, g[q])
        OBVIOUS
      <3>1. Width(q) \in Int /\ Width(p) \in Int
        BY <1>1, WidthInt
      <3>2. Width(q) < k
        <4> HIDE DEF J
        <4> QED
          BY <3>1
      <3> QED
        BY <1>4, <3>2
    <2> HIDE DEF J
    <2> QED
      BY <1>1, <1>2, <2>1, SearchStep DEF n
  <1>5. Nat \subseteq J
    <2> HIDE DEF J
    <2> QED
      BY <1>3, <1>4, SetInduction
  <1> DEFINE p == <<0, n - 1>>
  <1>6. p \in Spans(n) /\ Width(p) = n
    BY <1>1 DEF Spans, Width
  <1>7. Around(z, t, p)
    BY <1>1, <1>6 DEF Around, n
  <1>8. n + 1 \in J
    BY <1>1, <1>5
  <1>9. Bracket(z, t, g[p])
    BY <1>1, <1>6, <1>7, <1>8
  <1> QED
    BY <1>9, BsIsSearch DEF g, n

LEMMA SecondsInt ==
    ASSUME NEW t \in Int
    PROVE  SecondsOf(t) \in Int
  <1>1. Den \in Nat \ {0}
    BY MonthsKnown
  <1> QED
    BY <1>1 DEF SecondsOf

LEMMA ZoneKnown ==
    ASSUME NEW z, IsZone(z)
    PROVE  /\ Len(z.ats) \in Nat /\ \A i \in 1 .. Len(z.ats) : z.ats[i] \in Int /\ z.off[i] \in Int
           /\ z.default \in Int /\ z.ats \in Seq(Int)
  <1>1. z.ats \in Seq(Int) /\ z.off \in Seq(Int) /\ Len(z.ats) = Len(z.off) /\ z.default \in Int
    BY DEF IsZone
  <1>2. \A i \in 1 .. Len(z.ats) : z.ats[i] \in Int
    BY <1>1, ElementOfSeq
  <1>3. \A i \in 1 .. Len(z.off) : z.off[i] \in Int
    BY <1>1, ElementOfSeq
  <1> QED
    BY <1>1, <1>2, <1>3, LenProperties

LookedUp(z, o) == o.off \in Int /\ o.pos \in -1 .. Len(z.ats) - 1

LEMMA GetOffsetKnown ==
    ASSUME NEW z, IsZone(z), NEW t \in Int
    PROVE  LookedUp(z, getoffset(z, t))
  <1> DEFINE s == SecondsOf(t)
             found == bs(z, s)
  <1>1. /\ Len(z.ats) \in Nat /\ \A i \in 1 .. Len(z.ats) : z.ats[i] \in Int /\ z.off[i] \in Int
        /\ z.default \in Int /\ z.ats \in Seq(Int)
    BY ZoneKnown
  <1>2. s \in Int
    BY SecondsInt
  <1>3. CASE z.ats # <<>> /\ z.ats[1] < s
    <2>1. Len(z.ats) # 0
      BY <1>1, <1>3, EmptySeq
    <2>2. z.ats[1] <= s
      BY <1>1, <1>2, <1>3, <2>1
    <2>3. Bracket(z, s, found)
      <3> HIDE DEF s, found
      <3> QED
        BY <1>2, <1>3, <2>2, BsRight DEF found
    <2>4. found \in 0 .. Len(z.ats) - 1
      BY <2>3 DEF Bracket
    <2>5. getoffset(z, t) = [off |-> z.off[found + 1], pos |-> found]
      BY <1>3 DEF getoffset
    <2> HIDE DEF found
    <2>6. found + 1 \in 1 .. Len(z.ats) /\ found \in -1 .. Len(z.ats) - 1
      BY <1>1, <2>4
    <2> QED
      BY <1>1, <2>5, <2>6 DEF LookedUp
  <1>4. CASE ~(z.ats # <<>> /\ z.ats[1] < s)
    <2>1. getoffset(z, t) = [off |-> z.default, pos |-> -1]
      BY <1>4 DEF getoffset
    <2> QED
      BY <1>1, <2>1 DEF LookedUp
  <1> QED
    BY <1>3, <1>4

\* The loops of getoffset_from end at a position of the zone.
UpFrom(z, t, pos, i) ==
  /\ i = Len(z.ats) - 1 \/ t <= z.ats[(i + 1) + 1] * Den
  /\ \A j \in pos .. i - 1 : t > z.ats[(j + 1) + 1] * Den
DownFrom(z, t, pos, i) ==
  /\ i = 0 \/ t >= z.ats[i + 1] * Den
  /\ \A j \in i + 1 .. pos : t < z.ats[j + 1] * Den

LEMMA UpEnds ==
    ASSUME NEW z, IsZone(z), NEW t \in Int, NEW pos \in 0 .. Len(z.ats) - 1
    PROVE  \E i \in pos .. Len(z.ats) - 1 : UpFrom(z, t, pos, i)
  <1> DEFINE n == Len(z.ats)
             Change(j) == z.ats[(j + 1) + 1] * Den
             S == {i \in pos .. n - 1 : i = n - 1 \/ t <= Change(i)}
  <1>1. n \in Nat /\ Den \in Nat \ {0} /\ \A i \in 1 .. n : z.ats[i] \in Int
    BY ZoneKnown, MonthsKnown
  <1>2. n - 1 \in S /\ S \subseteq Nat
    BY <1>1
  <1>3. PICK i \in S : \A k \in S : i <= k
    <2> HIDE DEF S
    <2> QED
      BY <1>2, LeastNumber
  <1>4. ASSUME NEW j \in pos .. i - 1
        PROVE  t > Change(j)
    <2>1. j \notin S /\ j \in pos .. n - 1 /\ j # n - 1
      <3>1. j < i /\ i <= n - 1 /\ i \in Int /\ j \in Int
        BY <1>1, <1>3
      <3>2. ~(i <= j)
        BY <3>1
      <3> HIDE DEF S
      <3> QED
        BY <1>1, <1>3, <3>1, <3>2
    <2>2. ~(t <= Change(j))
      BY <2>1
    <2>3. (j + 1) + 1 \in 1 .. n
      BY <1>1, <2>1
    <2>4. Change(j) \in Int
      BY <1>1, <2>3
    <2> HIDE DEF Change
    <2> QED
      BY <2>2, <2>4
  <1> QED
    BY <1>3, <1>4 DEF UpFrom

LEMMA DownEnds ==
    ASSUME NEW z, IsZone(z), NEW t \in Int, NEW pos \in 0 .. Len(z.ats) - 1
    PROVE  \E i \in 0 .. pos : DownFrom(z, t, pos, i)
  <1> DEFINE n == Len(z.ats)
             Change(j) == z.ats[j + 1] * Den
             S == {k \in 0 .. pos : pos - k = 0 \/ t >= Change(pos - k)}
  <1>1. n \in Nat /\ Den \in Nat \ {0} /\ \A i \in 1 .. n : z.ats[i] \in Int
    BY ZoneKnown, MonthsKnown
  <1>2. pos \in S /\ S \subseteq Nat
    BY <1>1
  <1>3. PICK k \in S : \A l \in S : k <= l
    <2> HIDE DEF S
    <2> QED
      BY <1>2, LeastNumber
  <1> DEFINE i == pos - k
  <1>4. ASSUME NEW j \in i + 1 .. pos
        PROVE  t < Change(j)
    <2> DEFINE l == pos - j
    <2>1. l \notin S /\ l \in 0 .. pos /\ l # pos /\ pos - l = j
      <3>1. k \in 0 .. pos /\ l \in 0 .. pos /\ l < k /\ pos - l = j /\ l # pos
        BY <1>1, <1>3
      <3>2. ~(k <= l)
        BY <3>1
      <3> HIDE DEF S
      <3> QED
        BY <1>1, <1>3, <3>1, <3>2
    <2>2. ~(t >= Change(j))
      BY <2>1
    <2>3. j + 1 \in 1 .. n
      BY <1>1, <1>3
    <2>4. Change(j) \in Int
      BY <1>1, <2>3
    <2> HIDE DEF Change
    <2> QED
      BY <2>2, <2>4
  <1>5. i \in 0 .. pos /\ (i = 0 \/ t >= Change(i))
    BY <1>1, <1>3
  <1> HIDE DEF i
  <1>6. \A j \in i + 1 .. pos : t < z.ats[j + 1] * Den
    BY <1>4
  <1>7. i = 0 \/ t >= z.ats[i + 1] * Den
    BY <1>5
  <1>8. DownFrom(z, t, pos, i)
    BY <1>6, <1>7 DEF DownFrom
  <1> QED
    BY <1>5, <1>8

LEMMA FromKnown ==
    ASSUME NEW z, IsZone(z), NEW t \in Int, NEW pos \in -1 .. Len(z.ats) - 1, NEW dir \in Int
    PROVE  LookedUp(z, getoffset_from(z, t, pos, dir))
  <1> DEFINE n == Len(z.ats)
             up == CHOOSE i \in pos .. n - 1 : UpFrom(z, t, pos, i)
             down == CHOOSE i \in 0 .. pos : DownFrom(z, t, pos, i)
             off == IF t > z.ats[down + 1] * Den THEN z.off[down + 1] ELSE z.default
  <1>1. n \in Nat /\ (\A i \in 1 .. n : z.ats[i] \in Int /\ z.off[i] \in Int) /\ z.default \in Int
    BY ZoneKnown
  <1>2. CASE pos < 0
    <2>1. getoffset_from(z, t, pos, dir) = getoffset(z, t)
      BY <1>2 DEF getoffset_from
    <2> QED
      BY <2>1, GetOffsetKnown
  <1>3. CASE pos >= 0
    <2>1. pos \in 0 .. n - 1
      BY <1>1, <1>3
    <2>2. up \in pos .. n - 1
      BY <2>1, UpEnds
    <2>3. down \in 0 .. pos
      BY <2>1, DownEnds
    <2>4. CASE dir >= 0
      <3>1. getoffset_from(z, t, pos, dir) = [off |-> z.off[up + 1], pos |-> up]
        BY <1>3, <2>1, <2>4 DEF getoffset_from, UpFrom
      <3> HIDE DEF up
      <3>2. up + 1 \in 1 .. n /\ up \in -1 .. n - 1
        BY <1>1, <2>1, <2>2
      <3> QED
        BY <1>1, <3>1, <3>2 DEF LookedUp
    <2>5. CASE ~(dir >= 0)
      <3>1. getoffset_from(z, t, pos, dir) = [off |-> off, pos |-> down]
        BY <1>3, <2>1, <2>5 DEF getoffset_from, DownFrom
      <3> HIDE DEF down
      <3>2. down + 1 \in 1 .. n /\ down \in -1 .. n - 1
        BY <1>1, <2>1, <2>3
      <3>3. off \in Int
        BY <1>1, <3>2
      <3> HIDE DEF off
      <3> QED
        BY <3>1, <3>2, <3>3 DEF LookedUp
    <2> QED
      BY <2>4, <2>5
  <1> QED
    BY <1>1, <1>2, <1>3

(***************************************************************************)
(* Dates, and adding a period.                                             *)
(***************************************************************************)
IsDate(ymd) == ymd \in [y : Int, m : 1 .. Months, d : Int]

\* Every day of the year is in one of its months.
LEMMA MonthOfDay ==
    ASSUME NEW doy \in 0 .. YearDays - 1
    PROVE  \E k \in 1 .. Months : DaysBefore(k) <= doy /\ doy < DaysBefore(k + 1)
  <1> DEFINE S == {k \in 1 .. Months : doy < DaysBefore(k + 1)}
  <1>1. Months \in Nat \ {0} /\ YearDays \in Nat \ {0}
    BY MonthsKnown, YearDaysKnown
  <1>2. Months \in S /\ S \subseteq Nat
    BY <1>1 DEF YearDays
  <1>3. PICK k \in S : \A l \in S : k <= l
    <2> HIDE DEF S
    <2> QED
      BY <1>2, LeastNumber
  <1>4. k \in 1 .. Months /\ doy < DaysBefore(k + 1)
    BY <1>3
  <1>5. CASE k = 1
    <2>1. DaysBefore(k) = 0
      BY <1>5, DaysBeforeIs
    <2> QED
      BY <1>1, <1>4, <2>1
  <1>6. CASE k # 1
    <2>1. k - 1 \in 1 .. Months /\ (k - 1) + 1 = k /\ ~(k <= k - 1) /\ k \in 1 .. Months + 1
      BY <1>1, <1>4, <1>6
    <2>2. k - 1 \notin S
      BY <1>3, <2>1
    <2>3. ~(doy < DaysBefore(k))
      BY <2>1, <2>2
    <2>4. DaysBefore(k) \in Nat
      BY <2>1, DaysBeforeIs
    <2> QED
      BY <1>1, <1>4, <2>3, <2>4
  <1> QED
    BY <1>5, <1>6

LEMMA FromDaysKnown ==
    ASSUME NEW n \in Int
    PROVE  IsDate(from_days(n))
  <1> DEFINE doy == n % YearDays
             m == CHOOSE k \in 1 .. Months : DaysBefore(k) <= doy /\ doy < DaysBefore(k + 1)
  <1>1. YearDays \in Nat \ {0} /\ Months \in Nat \ {0}
    BY MonthsKnown, YearDaysKnown
  <1>2. doy \in 0 .. YearDays - 1 /\ n \div YearDays \in Int
    BY <1>1
  <1>3. from_days(n) = [y |-> n \div YearDays, m |-> m, d |-> doy - DaysBefore(m) + 1]
    BY DEF from_days
  <1> HIDE DEF doy
  <1>4. m \in 1 .. Months
    BY <1>2, MonthOfDay
  <1> HIDE DEF m
  <1>5. DaysBefore(m) \in Nat
    BY <1>1, <1>4, DaysBeforeIs
  <1>6. doy - DaysBefore(m) + 1 \in Int
    BY <1>2, <1>5
  <1> QED
    BY <1>2, <1>3, <1>4, <1>6 DEF IsDate

LEMMA MonthsAdded ==
    ASSUME NEW ymd, IsDate(ymd), NEW k \in Int
    PROVE  to_days(plus_months(ymd, k)) \in Int
  <1> DEFINE s == ymd.m - 1 + k
             y == ymd.y + (s \div Months)
             m == (s % Months) + 1
  <1>1. Months \in Nat \ {0} /\ YearDays \in Nat \ {0} /\ ymd.y \in Int /\ ymd.m \in 1 .. Months /\ ymd.d \in Int
    BY MonthsKnown, YearDaysKnown DEF IsDate
  <1>2. s \in Int
    BY <1>1
  <1> HIDE DEF s
  <1>3. s \div Months \in Int /\ s % Months \in 0 .. Months - 1
    BY <1>1, <1>2
  <1>4. y \in Int /\ m \in 1 .. Months
    BY <1>1, <1>3
  <1>5. to_days(plus_months(ymd, k)) = y * YearDays + DaysBefore(m) + ymd.d - 1
    BY <1>1 DEF to_days, plus_months, s, IsDate
  <1> HIDE DEF y, m
  <1>6. DaysBefore(m) \in Nat /\ y * YearDays \in Int
    BY <1>1, <1>4, DaysBeforeIs
  <1> QED
    BY <1>1, <1>5, <1>6

LEMMA AddMonthsInt ==
    ASSUME NEW t \in Int, NEW off \in Int, NEW k \in Int
    PROVE  add_months(t, off, k) \in Int
  <1> DEFINE n == (t + off) \div Day
             d == to_days(plus_months(from_days(n), k))
             r == (t + off) % Day
  <1>1. Day \in Nat \ {0}
    BY MonthsKnown
  <1>2. n \in Int /\ r \in Int
    BY <1>1
  <1> HIDE DEF n
  <1>3. d \in Int
    BY <1>2, FromDaysKnown, MonthsAdded
  <1>4. add_months(t, off, k) = IF k = 0 THEN t ELSE Day * d - off + r
    BY DEF add_months, n
  <1> HIDE DEF d, r
  <1>5. Day * d \in Int
    BY <1>1, <1>3
  <1> QED
    BY <1>2, <1>4, <1>5

\* A period added to a time gives a time.
LEMMA PlusInt ==
    ASSUME NEW z, IsZone(z), NEW t \in Int, NEW p \in Period
    PROVE  plus(z, t, p) \in Int
  <1> DEFINE o == getoffset_from(z, t, -1, 1)
             q == getoffset_from(z, t, o.pos, 1)
             res == add_months(t, o.off * Den, p.months) + p.days * Day + p.dur
             w == getoffset_from(z, res, q.pos, IF res >= t THEN 1 ELSE -1)
  <1>1. p.months \in Int /\ p.days \in Int /\ p.dur \in Int
    BY DEF Period
  <1>2. Den \in Nat \ {0} /\ Day \in Nat \ {0}
    BY MonthsKnown
  <1>3. Len(z.ats) \in Nat
    BY ZoneKnown
  <1>4. LookedUp(z, o)
    BY <1>3, FromKnown
  <1>5. o.off \in Int /\ o.pos \in -1 .. Len(z.ats) - 1
    BY <1>4 DEF LookedUp
  <1>6. plus(z, t, p) = res + (q.off - w.off) * Den
    BY DEF plus, plus_from, Adjusted
  <1> HIDE DEF o
  <1>7. LookedUp(z, q)
    BY <1>5, FromKnown
  <1>8. q.off \in Int /\ q.pos \in -1 .. Len(z.ats) - 1
    BY <1>7 DEF LookedUp
  <1>9. o.off * Den \in Int /\ p.days * Day \in Int
    BY <1>1, <1>2, <1>5
  <1>10. add_months(t, o.off * Den, p.months) \in Int
    BY <1>1, <1>9, AddMonthsInt
  <1>11. res \in Int
    BY <1>1, <1>9, <1>10
  <1> HIDE DEF res, q
  <1> DEFINE dir == IF res >= t THEN 1 ELSE -1
  <1>12. dir \in Int
    OBVIOUS
  <1> HIDE DEF dir
  <1>13. LookedUp(z, w)
    BY <1>8, <1>11, <1>12, FromKnown DEF dir
  <1>14. w.off \in Int
    BY <1>13 DEF LookedUp
  <1> HIDE DEF w
  <1>15. (q.off - w.off) * Den \in Int
    BY <1>2, <1>8, <1>14
  <1> QED
    BY <1>6, <1>11, <1>15

(***************************************************************************)
(* The search of a window and in it, in a vector of times.                 *)
(***************************************************************************)
Rising(x) == x \in Seq(Int) /\ \A i, j \in 1 .. Len(x) : i < j => x[i] < x[j]

\* Neighbours in order are enough.
LEMMA InOrderRises ==
    ASSUME NEW x \in Seq(Int), InOrder(x)
    PROVE  Rising(x)
  <1> DEFINE I == {n \in Nat : \A i, j \in 1 .. Len(x) : i < j /\ j <= n => x[i] < x[j]}
  <1>1. Len(x) \in Nat /\ \A i \in 1 .. Len(x) : x[i] \in Int
    BY LenProperties, ElementOfSeq
  <1>2. 0 \in I
    OBVIOUS
  <1>3. ASSUME NEW n \in Nat, n \in I
        PROVE  n + 1 \in I
    <2> SUFFICES ASSUME NEW i \in 1 .. Len(x), NEW j \in 1 .. Len(x), i < j, j <= n + 1
                 PROVE  x[i] < x[j]
      OBVIOUS
    <2>1. CASE j <= n
      BY <1>3, <2>1
    <2>2. CASE j = n + 1
      <3>1. n \in 1 .. Len(x) - 1 /\ n \in 1 .. Len(x) /\ n <= n
        BY <1>1, <2>2
      <3>2. x[n] < x[n + 1]
        BY <3>1 DEF InOrder
      <3>3. i = n \/ x[i] < x[n]
        <4>1. CASE i < n
          BY <1>3, <3>1, <4>1
        <4>2. CASE i = n
          BY <4>2
        <4> QED
          BY <2>2, <4>1, <4>2
      <3>4. x[i] \in Int /\ x[n] \in Int /\ x[n + 1] \in Int
        BY <1>1, <2>2, <3>1
      <3> QED
        BY <2>2, <3>2, <3>3, <3>4
    <2> QED
      BY <2>1, <2>2
  <1>4. Nat \subseteq I
    <2> HIDE DEF I
    <2> QED
      BY <1>2, <1>3, SetInduction
  <1>5. Len(x) \in I
    BY <1>1, <1>4
  <1>6. \A i, j \in 1 .. Len(x) : i < j => x[i] < x[j]
    <2> SUFFICES ASSUME NEW i \in 1 .. Len(x), NEW j \in 1 .. Len(x), i < j
                 PROVE  x[i] < x[j]
      OBVIOUS
    <2>1. j <= Len(x)
      BY <1>1
    <2> QED
      BY <1>5, <2>1
  <1> QED
    BY <1>6 DEF Rising

LEMMA RisingKnown ==
    ASSUME NEW x, Rising(x)
    PROVE  Len(x) \in Nat /\ \A i \in 1 .. Len(x) : x[i] \in Int
  BY LenProperties, ElementOfSeq DEF Rising

IsNotBefore(x, ix, t, i) ==
  /\ i > Len(x) \/ x[i] >= t
  /\ \A j \in ix .. i - 1 : x[j] < t
NotBeforeOf(x, ix, t) == CHOOSE i \in ix .. Max({Len(x) + 1, ix}) : IsNotBefore(x, ix, t, i)

LEMMA MaxOfTwo ==
    ASSUME NEW m \in Int, NEW n \in Int, n <= m
    PROVE  Max({m, n}) = m
  <1>1. \A k \in {m, n} : k <= m
    OBVIOUS
  <1> DEFINE S == {m, n}
  <1>2. m \in S /\ \A k \in S : k \in Int
    OBVIOUS
  <1> HIDE DEF S
  <1>3. ASSUME NEW l \in S, \A k \in S : l >= k
        PROVE  l = m
    <2>1. l >= m /\ l <= m /\ l \in Int
      BY <1>1, <1>2, <1>3 DEF S
    <2> QED
      BY <2>1
  <1>4. \A k \in S : m >= k
    BY <1>1, <1>2 DEF S
  <1>5. Max(S) = m
    BY <1>2, <1>3, <1>4 DEF Max
  <1> QED
    BY <1>5 DEF S

LEMMA NotBeforeRight ==
    ASSUME NEW x, Rising(x), NEW ix \in 1 .. Len(x) + 1, NEW t \in Int
    PROVE  /\ NotBeforeOf(x, ix, t) \in ix .. Len(x) + 1
           /\ IsNotBefore(x, ix, t, NotBeforeOf(x, ix, t))
  <1> DEFINE n == Len(x)
             S == {i \in ix .. n + 1 : i > n \/ x[i] >= t}
  <1>1. n \in Nat /\ \A i \in 1 .. n : x[i] \in Int
    BY RisingKnown
  <1>2. Max({n + 1, ix}) = n + 1
    BY <1>1, MaxOfTwo
  <1>3. n + 1 \in S /\ S \subseteq Nat
    BY <1>1
  <1>4. PICK i \in S : \A k \in S : i <= k
    <2> HIDE DEF S
    <2> QED
      BY <1>3, LeastNumber
  <1>5. ASSUME NEW j \in ix .. i - 1
        PROVE  x[j] < t
    <2>1. j \in 1 .. n /\ j \in ix .. n + 1 /\ ~(i <= j)
      BY <1>1, <1>4
    <2>2. ~(x[j] >= t)
      BY <1>4, <2>1
    <2> QED
      BY <1>1, <2>1, <2>2
  <1>6. i \in ix .. n + 1 /\ IsNotBefore(x, ix, t, i)
    BY <1>4, <1>5 DEF IsNotBefore
  <1> QED
    BY <1>2, <1>6 DEF NotBeforeOf

\* The next element is in the window and nearer.
Nearer(x, fin, t, j) == j < Len(x) /\ x[j + 1] <= fin /\ Dist(x[j], t) > Dist(x[j + 1], t)
IsClosest(x, fin, t, ix, i) == ~Nearer(x, fin, t, i) /\ \A j \in ix .. i - 1 : Nearer(x, fin, t, j)

LEMMA ClosestExists ==
    ASSUME NEW x, Rising(x), NEW ix \in 1 .. Len(x), NEW fin \in Int, NEW t \in Int
    PROVE  \E i \in ix .. Len(x) : IsClosest(x, fin, t, ix, i)
  <1> DEFINE n == Len(x)
             S == {i \in ix .. n : ~Nearer(x, fin, t, i)}
  <1>1. n \in Nat
    BY RisingKnown
  <1>2. n \in S /\ S \subseteq Nat
    BY <1>1 DEF Nearer
  <1>3. PICK i \in S : \A k \in S : i <= k
    <2> HIDE DEF S
    <2> QED
      BY <1>2, LeastNumber
  <1>4. ASSUME NEW j \in ix .. i - 1
        PROVE  Nearer(x, fin, t, j)
    <2>1. j \in ix .. n /\ ~(i <= j)
      BY <1>1, <1>3
    <2> QED
      BY <1>3, <2>1
  <1> QED
    BY <1>3, <1>4 DEF IsClosest

(***************************************************************************)
(* An element that the search has left behind: it is before the window, or *)
(* the next one is in the window and nearer.                               *)
(***************************************************************************)
Passed(x, beg, fin, t, j) == x[j] < beg \/ Nearer(x, fin, t, j)
Inside(x, beg, fin) == {j \in 1 .. Len(x) : beg <= x[j] /\ x[j] <= fin}
IsNearest(x, S, t, j) ==
  \A k \in S \ {j} : Dist(x[j], t) < Dist(x[k], t) \/ (Dist(x[j], t) = Dist(x[k], t) /\ j < k)
NearestOf(x, S, t) == IF S = {} THEN 0 ELSE CHOOSE j \in S : IsNearest(x, S, t, j)

\* It stays behind when the next window begins and ends later, around a later time.
LEMMA BehindLater ==
    ASSUME NEW x, Rising(x), NEW j \in 1 .. Len(x), NEW beg \in Int, NEW fin \in Int, NEW t \in Int,
           NEW beg2 \in Int, NEW fin2 \in Int, NEW t2 \in Int, beg <= beg2, fin <= fin2, t <= t2, Passed(x, beg, fin, t, j)
    PROVE  Passed(x, beg2, fin2, t2, j)
  <1>1. Len(x) \in Nat /\ \A i \in 1 .. Len(x) : x[i] \in Int
    BY RisingKnown
  <1>2. CASE x[j] < beg
    BY <1>1, <1>2 DEF Passed
  <1>3. CASE Nearer(x, fin, t, j)
    <2>1. j + 1 \in 1 .. Len(x) /\ x[j] < x[j + 1]
      BY <1>1, <1>3 DEF Nearer, Rising
    <2>2. x[j] \in Int /\ x[j + 1] \in Int
      BY <1>1, <2>1
    <2>3. Dist(x[j], t2) > Dist(x[j + 1], t2)
      BY <1>3, <2>1, <2>2 DEF Nearer, Dist
    <2> QED
      BY <1>3, <2>2, <2>3 DEF Nearer, Passed
  <1> QED
    BY <1>2, <1>3 DEF Passed

\* Where the first element that is not left behind is not in the window, none is.
LEMMA NoneInside ==
    ASSUME NEW x, Rising(x), NEW beg \in Int, NEW fin \in Int, NEW t \in Int, NEW ix \in 1 .. Len(x) + 1,
           \A j \in 1 .. ix - 1 : Passed(x, beg, fin, t, j), ix > Len(x) \/ x[ix] > fin
    PROVE  Inside(x, beg, fin) = {}
  <1> SUFFICES ASSUME NEW j \in 1 .. Len(x), beg <= x[j], x[j] <= fin
               PROVE  FALSE
    BY DEF Inside
  <1>1. Len(x) \in Nat /\ \A i \in 1 .. Len(x) : x[i] \in Int
    BY RisingKnown
  <1>2. CASE j >= ix
    <2>1. ix \in 1 .. Len(x) /\ (ix = j \/ x[ix] < x[j]) /\ x[ix] > fin
      BY <1>1, <1>2 DEF Rising
    <2> QED
      BY <1>1, <2>1
  <1>3. CASE j < ix
    <2> DEFINE i == ix - 1
    <2>1. i \in 1 .. ix - 1 /\ i \in 1 .. Len(x) /\ i + 1 = ix /\ (j = i \/ x[j] < x[i])
      BY <1>1, <1>3 DEF Rising
    <2>2. ~Nearer(x, fin, t, i)
      <3>1. i < Len(x) => x[i + 1] > fin /\ x[i + 1] \in Int
        BY <1>1, <2>1
      <3> QED
        BY <3>1 DEF Nearer
    <2>3. Passed(x, beg, fin, t, i)
      BY <2>1
    <2>4. x[i] < beg
      BY <2>2, <2>3 DEF Passed
    <2> QED
      BY <1>1, <2>1, <2>4
  <1> QED
    BY <1>1, <1>2, <1>3

\* Otherwise the nearest element of the window is found going on from it.
LEMMA NearestFound ==
    ASSUME NEW x, Rising(x), NEW beg \in Int, NEW fin \in Int, NEW t \in Int, NEW ix \in 1 .. Len(x),
           \A j \in 1 .. ix - 1 : Passed(x, beg, fin, t, j), beg <= x[ix], x[ix] <= fin,
           NEW c \in ix .. Len(x), IsClosest(x, fin, t, ix, c)
    PROVE  NearestOf(x, Inside(x, beg, fin), t) = c
  <1> DEFINE n == Len(x)
             S == Inside(x, beg, fin)
  <1>1. n \in Nat /\ \A i \in 1 .. n : x[i] \in Int
    BY RisingKnown
  <1>2. \A i, j \in 1 .. n : i < j => x[i] < x[j]
    BY DEF Rising
  <1>3. c \in 1 .. n
    BY <1>1
  <1>4. ~Nearer(x, fin, t, c) /\ \A j \in ix .. c - 1 : Nearer(x, fin, t, j)
    BY DEF IsClosest
  <1>5. c \in S
    <2>1. CASE c = ix
      BY <1>3, <2>1 DEF Inside
    <2>2. CASE c # ix
      <3>1. c - 1 \in ix .. c - 1 /\ (c - 1) + 1 = c /\ x[ix] < x[c]
        BY <1>1, <1>2, <1>3, <2>2
      <3>2. x[c] <= fin
        BY <1>4, <3>1 DEF Nearer
      <3> QED
        BY <1>1, <1>3, <3>1, <3>2 DEF Inside
    <2> QED
      BY <2>1, <2>2
  <1>6. ASSUME NEW k \in S, k > c
        PROVE  Dist(x[c], t) < Dist(x[k], t) \/ (Dist(x[c], t) = Dist(x[k], t) /\ c < k)
    <2>1. k \in 1 .. n /\ x[k] <= fin /\ x[k] \in Int /\ x[c] \in Int
      BY <1>1, <1>3 DEF Inside
    <2>2. c + 1 \in 1 .. n /\ x[c + 1] \in Int /\ (k = c + 1 \/ x[c + 1] < x[k]) /\ x[c] < x[c + 1]
      BY <1>1, <1>2, <1>3, <1>6, <2>1
    <2>3. x[c + 1] <= fin /\ c < n
      BY <1>1, <1>6, <2>1, <2>2
    <2>4. ~(Dist(x[c], t) > Dist(x[c + 1], t))
      BY <1>4, <2>3 DEF Nearer
    <2>5. Dist(x[c], t) <= Dist(x[k], t)
      BY <2>1, <2>2, <2>4 DEF Dist
    <2>6. Dist(x[c], t) \in Int /\ Dist(x[k], t) \in Int
      BY <2>1 DEF Dist
    <2> QED
      BY <1>6, <2>5, <2>6
  <1>7. ASSUME NEW k \in S, k < c
        PROVE  Dist(x[c], t) < Dist(x[k], t)
    <2>1. k \in 1 .. n /\ beg <= x[k] /\ x[k] \in Int /\ x[c] \in Int
      BY <1>1, <1>3 DEF Inside
    <2> DEFINE i == c - 1
    <2>2. i \in 1 .. n /\ i + 1 = c /\ x[i] \in Int /\ (k = i \/ x[k] < x[i]) /\ x[i] < x[c]
      BY <1>1, <1>2, <1>3, <1>7, <2>1
    <2>3. Nearer(x, fin, t, i)
      <3>1. CASE c = ix
        <4>1. i \in 1 .. ix - 1 /\ ~(x[i] < beg)
          BY <2>1, <2>2, <3>1
        <4> QED
          BY <4>1 DEF Passed
      <3>2. CASE c # ix
        <4>1. i \in ix .. c - 1
          BY <1>3, <3>2
        <4> QED
          BY <1>4, <4>1
      <3> QED
        BY <3>1, <3>2
    <2>4. Dist(x[i], t) > Dist(x[c], t)
      BY <2>2, <2>3 DEF Nearer
    <2> HIDE DEF i
    <2> QED
      BY <2>1, <2>2, <2>4 DEF Dist
  <1>8. IsNearest(x, S, t, c)
    <2> SUFFICES ASSUME NEW k \in S \ {c}
                 PROVE  Dist(x[c], t) < Dist(x[k], t) \/ (Dist(x[c], t) = Dist(x[k], t) /\ c < k)
      BY DEF IsNearest
    <2>1. k > c \/ k < c
      BY <1>3 DEF Inside
    <2> HIDE DEF S
    <2> QED
      BY <1>6, <1>7, <2>1
  <1>9. ASSUME NEW k \in S, IsNearest(x, S, t, k)
        PROVE  k = c
    <2> SUFFICES ASSUME k # c
                 PROVE  FALSE
      OBVIOUS
    <2>1. k \in 1 .. n /\ x[k] \in Int /\ x[c] \in Int
      BY <1>1, <1>3 DEF Inside
    <2>2. Dist(x[c], t) \in Int /\ Dist(x[k], t) \in Int
      BY <2>1 DEF Dist
    <2>3. Dist(x[c], t) < Dist(x[k], t) \/ (Dist(x[c], t) = Dist(x[k], t) /\ c < k)
      BY <1>8 DEF IsNearest
    <2>4. Dist(x[k], t) < Dist(x[c], t) \/ (Dist(x[k], t) = Dist(x[c], t) /\ k < c)
      BY <1>5, <1>9 DEF IsNearest
    <2> QED
      BY <1>3, <2>1, <2>2, <2>3, <2>4
  <1> HIDE DEF S
  <1>10. S # {}
    BY <1>5
  <1>11. NearestOf(x, S, t) = c
    BY <1>5, <1>8, <1>9, <1>10 DEF NearestOf
  <1> QED
    BY <1>11 DEF S

(***************************************************************************)
(* The data in a window.                                                   *)
(***************************************************************************)
DataOf(d, W) == [k \in 1 .. Cardinality(W) |-> d[CHOOSE j \in W : Cardinality({l \in W : l < j}) = k - 1]]
InsideOpen(x, beg, fin) == {j \in 1 .. Len(x) : beg <= x[j] /\ x[j] < fin}

\* Of positions one after the other they are a part of the sequence.
LEMMA DataOfInterval ==
    ASSUME NEW d \in Seq(Int), NEW m \in 1 .. Len(d) + 1, NEW n \in m - 1 .. Len(d)
    PROVE  DataOf(d, m .. n) = SubSeq(d, m, n)
  <1>1. Len(d) \in Nat /\ m \in Nat /\ n \in Nat
    BY LenProperties
  <1>2. Cardinality(m .. n) = n - m + 1
    <2>1. Cardinality(m .. n) = IF m > n THEN 0 ELSE n - m + 1
      BY <1>1, FS_Interval
    <2> QED
      BY <1>1, <2>1
  <1>3. ASSUME NEW k \in 1 .. n - m + 1
        PROVE  (CHOOSE j \in m .. n : Cardinality({l \in m .. n : l < j}) = k - 1) = k + m - 1
    <2>1. ASSUME NEW j \in m .. n
          PROVE  Cardinality({l \in m .. n : l < j}) = j - m
      <3>1. {l \in m .. n : l < j} = m .. j - 1
        BY <1>1
      <3>2. Cardinality(m .. j - 1) = j - m
        BY <1>1, FS_Interval
      <3> QED
        BY <3>1, <3>2
    <2>2. k + m - 1 \in m .. n
      BY <1>1
    <2>3. Cardinality({l \in m .. n : l < k + m - 1}) = k - 1
      BY <1>1, <2>1, <2>2
    <2>4. ASSUME NEW j \in m .. n, Cardinality({l \in m .. n : l < j}) = k - 1
          PROVE  j = k + m - 1
      <3>1. j - m = k - 1
        BY <2>1, <2>4
      <3> QED
        BY <1>1, <3>1
    <2> QED
      BY <2>2, <2>3, <2>4
  <1>4. DataOf(d, m .. n) = [k \in 1 .. n - m + 1 |-> d[k + m - 1]]
    <2> DEFINE J(k) == CHOOSE j \in m .. n : Cardinality({l \in m .. n : l < j}) = k - 1
    <2>1. DataOf(d, m .. n) = [k \in 1 .. Cardinality(m .. n) |-> d[J(k)]]
      BY DEF DataOf
    <2>2. \A k \in 1 .. n - m + 1 : J(k) = k + m - 1
      BY <1>3
    <2> HIDE DEF J
    <2> QED
      BY <1>2, <2>1, <2>2
  <1>5. SubSeq(d, m, n) = [k \in 1 .. n - m + 1 |-> d[k + m - 1]]
    <2>1. SubSeq(d, m, n) = [k \in 1 .. (1 + n) - m |-> d[(k + m) - 1]]
      OBVIOUS
    <2>2. (1 + n) - m = n - m + 1
      BY <1>1
    <2> QED
      BY <2>1, <2>2
  <1> QED
    BY <1>4, <1>5

LEMMA NoneOpen ==
    ASSUME NEW x, Rising(x), NEW beg \in Int, NEW fin \in Int, NEW ix \in 1 .. Len(x) + 1,
           \A j \in 1 .. ix - 1 : x[j] < beg, ix > Len(x) \/ x[ix] >= fin
    PROVE  InsideOpen(x, beg, fin) = {}
  <1> SUFFICES ASSUME NEW j \in 1 .. Len(x), beg <= x[j], x[j] < fin
               PROVE  FALSE
    BY DEF InsideOpen
  <1>1. Len(x) \in Nat /\ \A i \in 1 .. Len(x) : x[i] \in Int
    BY RisingKnown
  <1>2. CASE j >= ix
    <2>1. ix \in 1 .. Len(x) /\ (ix = j \/ x[ix] < x[j]) /\ x[ix] >= fin
      BY <1>1, <1>2 DEF Rising
    <2> QED
      BY <1>1, <2>1
  <1>3. CASE j < ix
    <2>1. j \in 1 .. ix - 1
      BY <1>1, <1>3
    <2> QED
      BY <1>1, <2>1
  <1> QED
    BY <1>1, <1>2, <1>3

LEMMA OpenIs ==
    ASSUME NEW x, Rising(x), NEW beg \in Int, NEW fin \in Int, NEW ix \in 1 .. Len(x),
           \A j \in 1 .. ix - 1 : x[j] < beg, x[ix] >= beg, NEW to \in ix .. Len(x) + 1, IsNotBefore(x, ix, fin, to)
    PROVE  InsideOpen(x, beg, fin) = ix .. to - 1
  <1>1. Len(x) \in Nat /\ \A i \in 1 .. Len(x) : x[i] \in Int
    BY RisingKnown
  <1>2. ASSUME NEW j \in 1 .. Len(x)
        PROVE  (beg <= x[j] /\ x[j] < fin) <=> j \in ix .. to - 1
    <2>1. CASE j < ix
      <3>1. j \in 1 .. ix - 1
        BY <1>1, <2>1
      <3> QED
        BY <1>1, <2>1, <3>1
    <2>2. CASE j >= ix /\ j < to
      <3>1. j \in ix .. to - 1 /\ (j = ix \/ x[ix] < x[j])
        BY <1>1, <2>2 DEF Rising
      <3>2. x[j] < fin
        BY <3>1 DEF IsNotBefore
      <3> QED
        BY <1>1, <3>1, <3>2
    <2>3. CASE j >= to
      <3>1. to \in 1 .. Len(x) /\ (j = to \/ x[to] < x[j])
        BY <1>1, <2>3 DEF Rising
      <3>2. x[to] >= fin
        BY <1>1, <3>1 DEF IsNotBefore
      <3> QED
        BY <1>1, <2>3, <3>1, <3>2
    <2> QED
      BY <1>1, <2>1, <2>2, <2>3
  <1>3. ix .. to - 1 \subseteq 1 .. Len(x)
    BY <1>1
  <1> QED
    BY <1>2, <1>3 DEF InsideOpen

(***************************************************************************)
(* The invariant of one pass.                                              *)
(***************************************************************************)
ByNearest == {"closest", "align.idx"}
ResultOf(f, x, d, t, beg, fin) ==
  IF f \in ByNearest
  THEN IF NearestOf(x, Inside(x, beg, fin), t) = 0 THEN NoDatum
       ELSE IF f = "closest" THEN d[NearestOf(x, Inside(x, beg, fin), t)] ELSE NearestOf(x, Inside(x, beg, fin), t)
  ELSE Of(f, DataOf(d, InsideOpen(x, beg, fin)))
Left(f, x, beg, fin, t, j) == IF f \in ByNearest THEN Passed(x, beg, fin, t, j) ELSE x[j] < beg
IsSequence(s) == \E S : s \in Seq(S)

Result(i) == ResultOf(lf, lx, ld, ly[i], ystart(i), yend(i))
AlignTask ==
  /\ lf \in Methods \cup {"align.idx"} /\ IsZone(lz) /\ Rising(lx) /\ ld \in Seq(Int) /\ Len(ld) = Size
  /\ ly \in Seq(Int) /\ ls \in Seq(Period) /\ le \in Seq(Period) /\ checkVector(ly, ls) /\ checkVector(ly, le)
Positions ==
  /\ lix \in 1 .. Size + 1 /\ liy \in 1 .. Len(ly) + 1 /\ IsSequence(lo) /\ Len(lo) = liy - 1
  /\ lf = "align.idx" /\ Size > 0 => lix <= Size
Progress ==
  /\ \A i \in 1 .. liy - 1 : lo[i] = Result(i)
  /\ liy <= Len(ly) => \A j \in 1 .. lix - 1 : Left(lf, lx, ystart(liy), yend(liy), ly[liy], j)
LoopInv == AlignTask /\ Positions /\ (WindowsAscend => Progress)

LEMMA Grows ==
    ASSUME NEW s, IsSequence(s), NEW e
    PROVE  /\ IsSequence(Append(s, e)) /\ Len(Append(s, e)) = Len(s) + 1 /\ Len(s) \in Nat
           /\ \A i \in 1 .. Len(s) : Append(s, e)[i] = s[i]
           /\ Append(s, e)[Len(s) + 1] = e
  <1>1. PICK S : s \in Seq(S)
    BY DEF IsSequence
  <1> DEFINE T == S \cup {e}
  <1>2. s \in Seq(T) /\ e \in T
    <2>1. Len(s) \in Nat /\ s = [i \in 1 .. Len(s) |-> s[i]] /\ \A i \in 1 .. Len(s) : s[i] \in S
      BY <1>1, LenProperties, ElementOfSeq
    <2>2. \A i \in 1 .. Len(s) : s[i] \in T
      BY <2>1
    <2> HIDE DEF T
    <2>3. s \in Seq(T)
      BY <2>1, <2>2, SeqDef
    <2> QED
      BY <2>3 DEF T
  <1> HIDE DEF T
  <1>3. Append(s, e) \in Seq(T)
    BY <1>2, AppendProperties
  <1>4. IsSequence(Append(s, e))
    BY <1>3 DEF IsSequence
  <1> QED
    BY <1>2, <1>4, AppendProperties, LenProperties

LEMMA WindowKnown ==
    ASSUME AlignTask, NEW i \in 1 .. Len(ly)
    PROVE  ystart(i) \in Int /\ yend(i) \in Int /\ ly[i] \in Int
  <1>1. ly[i] \in Int /\ IsZone(lz)
    BY ElementOfSeq DEF AlignTask
  <1>2. ASSUME NEW v \in Seq(Period), checkVector(ly, v)
        PROVE  At(v, i) \in Period
    <2>1. CASE Len(v) = 1
      <3>1. 1 \in 1 .. Len(v)
        BY <2>1
      <3>2. v[1] \in Period
        BY <3>1, ElementOfSeq
      <3> QED
        BY <2>1, <3>2 DEF At
    <2>2. CASE Len(v) # 1
      <3>1. i \in 1 .. Len(v)
        BY <1>2, <2>2 DEF checkVector
      <3>2. v[i] \in Period
        BY <3>1, ElementOfSeq
      <3> QED
        BY <2>2, <3>2 DEF At
    <2> QED
      BY <2>1, <2>2
  <1>3. At(ls, i) \in Period /\ At(le, i) \in Period
    BY <1>2 DEF AlignTask
  <1> QED
    BY <1>1, <1>3, PlusInt DEF ystart, yend

(***************************************************************************)
(* The steps of one pass.                                                  *)
(***************************************************************************)
LEMMA SameTask ==
    ASSUME AlignSame
    PROVE  /\ AlignTask' <=> AlignTask
           /\ WindowsAscend' <=> WindowsAscend
           /\ \A i : ystart(i)' = ystart(i) /\ yend(i)' = yend(i) /\ Result(i)' = Result(i)
           /\ Size' = Size /\ lf' = lf /\ lx' = lx /\ ld' = ld /\ ly' = ly
  <1>1. lf' = lf /\ lz' = lz /\ lx' = lx /\ ld' = ld /\ ly' = ly /\ ls' = ls /\ le' = le
    BY DEF AlignSame
  <1>2. \A i : ystart(i)' = ystart(i) /\ yend(i)' = yend(i)
    BY <1>1 DEF ystart, yend
  <1>3. \A i : Result(i)' = Result(i)
    BY <1>1, <1>2 DEF Result
  <1>4. Size' = Size
    BY <1>1 DEF Size
  <1>5. AlignTask' <=> AlignTask
    BY <1>1, <1>4 DEF AlignTask
  <1>6. WindowsAscend' <=> WindowsAscend
    BY <1>1, <1>2 DEF WindowsAscend
  <1> QED
    BY <1>1, <1>2, <1>3, <1>4, <1>5, <1>6

\* What is found for one time keeps what was found before, and what is behind one
\* window is behind the next.
LEMMA FoundKeeps ==
    ASSUME LoopInv, AlignSame, liy <= Len(ly), NEW e, NEW ix \in 1 .. Size + 1, Found(e, ix),
           lf = "align.idx" /\ Size > 0 => ix <= Size,
           WindowsAscend => /\ e = Result(liy)
                            /\ \A j \in 1 .. ix - 1 : Left(lf, lx, ystart(liy), yend(liy), ly[liy], j)
    PROVE  LoopInv' /\ lpc' = lpc
  <1>1. AlignTask /\ Positions /\ (WindowsAscend => Progress)
    BY DEF LoopInv
  <1>2. lo' = Append(lo, e) /\ lix' = ix /\ liy' = liy + 1 /\ lpc' = lpc
    BY DEF Found
  <1>3. Rising(lx) /\ ly \in Seq(Int) /\ Len(ly) \in Nat /\ Size \in Nat
    BY <1>1, RisingKnown, LenProperties DEF AlignTask, Size
  <1>4. liy \in 1 .. Len(ly) /\ IsSequence(lo) /\ Len(lo) = liy - 1
    BY <1>1, <1>3 DEF Positions
  <1>5. /\ IsSequence(lo') /\ Len(lo') = Len(lo) + 1 /\ \A i \in 1 .. Len(lo) : lo'[i] = lo[i]
        /\ lo'[Len(lo) + 1] = e
    BY <1>2, <1>4, Grows
  <1>6. AlignTask' /\ (WindowsAscend' <=> WindowsAscend) /\ Size' = Size /\ lf' = lf /\ lx' = lx /\ ly' = ly
    BY <1>1, SameTask
  <1>7. Positions'
    <2>1. (IsSequence(lo))'
      BY <1>5 DEF IsSequence
    <2>2. lix' \in 1 .. Size' + 1 /\ liy' \in 1 .. Len(ly') + 1
      BY <1>2, <1>3, <1>4, <1>6
    <2>3. Len(lo') = liy' - 1
      BY <1>2, <1>4, <1>5
    <2>4. lf' = "align.idx" /\ Size' > 0 => lix' <= Size'
      BY <1>2, <1>6
    <2> QED
      BY <2>1, <2>2, <2>3, <2>4 DEF Positions
  <1>8. ASSUME WindowsAscend
        PROVE  Progress'
    <2>1. Progress /\ e = Result(liy) /\ \A j \in 1 .. ix - 1 : Left(lf, lx, ystart(liy), yend(liy), ly[liy], j)
      BY <1>1, <1>8
    <2>2. ASSUME NEW i \in 1 .. liy
          PROVE  lo'[i] = Result(i)'
      <3>1. Result(i)' = Result(i)
        BY SameTask
      <3>2. CASE i = liy
        BY <1>4, <1>5, <2>1, <3>1, <3>2
      <3>3. CASE i # liy
        <4>1. i \in 1 .. liy - 1
          BY <1>4, <3>3
        <4>2. lo[i] = Result(i)
          BY <2>1, <4>1 DEF Progress
        <4> QED
          BY <1>4, <1>5, <3>1, <4>1, <4>2
      <3> QED
        BY <3>2, <3>3
    <2>3. ASSUME liy + 1 <= Len(ly), NEW j \in 1 .. ix - 1
          PROVE  Left(lf, lx, ystart(liy + 1), yend(liy + 1), ly[liy + 1], j)
      <3> DEFINE k == liy
                 m == liy + 1
      <3>1. k \in 1 .. Len(ly) - 1 /\ k \in 1 .. Len(ly) /\ m \in 1 .. Len(ly) /\ j \in 1 .. Len(lx)
        BY <1>3, <1>4, <2>3 DEF Size
      <3>2. ly[k] <= ly[k + 1] /\ ystart(k) <= ystart(k + 1) /\ yend(k) <= yend(k + 1)
        BY <1>8, <3>1 DEF WindowsAscend
      <3>3. ystart(k) \in Int /\ yend(k) \in Int /\ ly[k] \in Int /\ ystart(m) \in Int /\ yend(m) \in Int /\ ly[m] \in Int
        BY <1>1, <3>1, WindowKnown
      <3> DEFINE beg == ystart(k)
                 fin == yend(k)
                 t == ly[k]
                 beg2 == ystart(m)
                 fin2 == yend(m)
                 t2 == ly[m]
      <3>4. beg <= beg2 /\ fin <= fin2 /\ t <= t2
        BY <3>2
      <3>5. Left(lf, lx, beg, fin, t, j)
        BY <2>1
      <3>6. lx[j] \in Int
        BY <1>3, <3>1, RisingKnown
      <3> HIDE DEF beg, fin, t, beg2, fin2, t2
      <3>7. beg \in Int /\ fin \in Int /\ t \in Int /\ beg2 \in Int /\ fin2 \in Int /\ t2 \in Int
        BY <3>3 DEF beg, fin, t, beg2, fin2, t2
      <3>8. CASE lf \in ByNearest
        <4>1. Passed(lx, beg, fin, t, j)
          BY <3>5, <3>8 DEF Left
        <4>2. Passed(lx, beg2, fin2, t2, j)
          BY <1>3, <3>1, <3>4, <3>7, <4>1, BehindLater
        <4>3. Left(lf, lx, beg2, fin2, t2, j)
          BY <3>8, <4>2 DEF Left
        <4> QED
          BY <4>3 DEF beg2, fin2, t2
      <3>9. CASE lf \notin ByNearest
        <4>1. lx[j] < beg
          BY <3>5, <3>9 DEF Left
        <4>2. lx[j] < beg2
          BY <3>4, <3>6, <3>7, <4>1
        <4>3. Left(lf, lx, beg2, fin2, t2, j)
          BY <3>9, <4>2 DEF Left
        <4> QED
          BY <4>3 DEF beg2, fin2, t2
      <3> QED
        BY <3>8, <3>9
    <2>4. \A i \in 1 .. liy' - 1 : lo'[i] = Result(i)'
      BY <1>2, <1>4, <2>2
    <2>5. liy' <= Len(ly') => \A j \in 1 .. lix' - 1 : Left(lf', lx', ystart(liy)', yend(liy)', ly'[liy'], j)
      <3>1. \A i : ystart(i)' = ystart(i) /\ yend(i)' = yend(i)
        BY SameTask
      <3>2. ystart(liy)' = ystart(liy + 1) /\ yend(liy)' = yend(liy + 1)
        BY <1>2 DEF AlignSame, ystart, yend
      <3> QED
        BY <1>2, <1>6, <2>3, <3>2
    <2> QED
      BY <2>4, <2>5 DEF Progress
  <1> QED
    BY <1>2, <1>6, <1>7, <1>8 DEF LoopInv

LEMMA NotBeforeIs ==
    ASSUME NEW ix, NEW t
    PROVE  NotBefore(ix, t) = NotBeforeOf(lx, ix, t)
  BY DEF NotBefore, NotBeforeOf, IsNotBefore, Size

LEMMA ClosestIs ==
    ASSUME NEW ix \in 1 .. Len(lx), Rising(lx), yend(liy) \in Int, ly[liy] \in Int
    PROVE  Closest(ix) \in ix .. Size /\ IsClosest(lx, yend(liy), ly[liy], ix, Closest(ix))
  <1> DEFINE fin == yend(liy)
             t == ly[liy]
             I(i) == /\ ~(i < Size /\ lx[i + 1] <= fin /\ Dist(lx[i], t) > Dist(lx[i + 1], t))
                     /\ \A j \in ix .. i - 1 : lx[j + 1] <= fin /\ Dist(lx[j], t) > Dist(lx[j + 1], t)
  <1>1. \E i \in ix .. Len(lx) : IsClosest(lx, fin, t, ix, i)
    <2> HIDE DEF fin, t
    <2> QED
      BY ClosestExists DEF fin, t
  <1>2. Len(lx) \in Nat
    BY RisingKnown
  <1>3. Closest(ix) = CHOOSE i \in ix .. Size : I(i)
    BY DEF Closest
  <1>4. ASSUME NEW i \in ix .. Size
        PROVE  I(i) <=> IsClosest(lx, fin, t, ix, i)
    <2>1. i \in 1 .. Len(lx) /\ \A j \in ix .. i - 1 : j < Len(lx)
      BY <1>2 DEF Size
    <2> HIDE DEF fin, t
    <2> QED
      BY <2>1 DEF IsClosest, Nearer, Size
  <1> HIDE DEF I
  <1>5. \E i \in ix .. Size : I(i)
    BY <1>1, <1>4 DEF Size
  <1>6. Closest(ix) \in ix .. Size /\ I(Closest(ix))
    BY <1>3, <1>5
  <1> QED
    BY <1>4, <1>6

\* What a turn knows of the window it works on.
LEMMA TurnKnown ==
    ASSUME LoopInv, liy <= Len(ly)
    PROVE  /\ liy \in 1 .. Len(ly) /\ Rising(lx) /\ Size \in Nat /\ Size = Len(lx)
           /\ ystart(liy) \in Int /\ yend(liy) \in Int /\ ly[liy] \in Int
           /\ NotBefore(lix, ystart(liy)) \in lix .. Size + 1 /\ NotBefore(lix, ystart(liy)) \in 1 .. Size + 1
           /\ IsNotBefore(lx, lix, ystart(liy), NotBefore(lix, ystart(liy)))
           /\ lix \in 1 .. Size + 1
  <1>1. AlignTask /\ Positions
    BY DEF LoopInv
  <1>2. Rising(lx) /\ ly \in Seq(Int)
    BY <1>1 DEF AlignTask
  <1>3. Size \in Nat /\ Size = Len(lx) /\ Len(ly) \in Nat
    BY <1>2, RisingKnown, LenProperties DEF Size
  <1>4. liy \in 1 .. Len(ly) /\ lix \in 1 .. Size + 1
    BY <1>1, <1>3 DEF Positions
  <1>5. ystart(liy) \in Int /\ yend(liy) \in Int /\ ly[liy] \in Int
    BY <1>1, <1>4, WindowKnown
  <1> DEFINE beg == ystart(liy)
             n == NotBefore(lix, beg)
  <1>6. n \in lix .. Size + 1 /\ IsNotBefore(lx, lix, beg, n)
    <2>1. beg \in Int
      BY <1>5
    <2> HIDE DEF beg
    <2> QED
      BY <1>2, <1>3, <1>4, <2>1, NotBeforeRight, NotBeforeIs
  <1> HIDE DEF n
  <1>7. n \in 1 .. Size + 1
    BY <1>3, <1>4, <1>6
  <1> QED
    BY <1>2, <1>3, <1>4, <1>5, <1>6, <1>7 DEF n

\* Everything before the first element that is not before the window is left behind.
LEMMA LeftToWindow ==
    ASSUME LoopInv, liy <= Len(ly), WindowsAscend, NEW j \in 1 .. NotBefore(lix, ystart(liy)) - 1
    PROVE  Left(lf, lx, ystart(liy), yend(liy), ly[liy], j)
  <1> DEFINE beg == ystart(liy)
             n == NotBefore(lix, beg)
  <1>1. Progress
    BY DEF LoopInv
  <1>2. n \in lix .. Size + 1 /\ IsNotBefore(lx, lix, beg, n) /\ lix \in 1 .. Size + 1 /\ Size \in Nat
    BY TurnKnown
  <1>3. j \in 1 .. n - 1
    OBVIOUS
  <1> HIDE DEF n
  <1>4. CASE j < lix
    <2>1. j \in 1 .. lix - 1
      BY <1>2, <1>3, <1>4
    <2> QED
      BY <1>1, <2>1 DEF Progress
  <1>5. CASE j >= lix
    <2>1. j \in lix .. n - 1
      BY <1>2, <1>3, <1>5
    <2>2. lx[j] < beg
      BY <1>2, <2>1 DEF IsNotBefore
    <2> QED
      BY <2>2 DEF Left, Passed
  <1> QED
    BY <1>2, <1>3, <1>4, <1>5

\* The pass to the nearest element, of align by "closest" and of align.idx.
LEMMA NearestTurn ==
    ASSUME LoopInv, lf \in ByNearest, AlignSame, liy <= Len(ly), NEW n, n = NotBefore(lix, ystart(liy)), NEW e,
           \/ /\ n > Size \/ lx[n] > yend(liy)
              /\ lf = "align.idx" /\ Size > 0 => n <= Size
              /\ e = NoDatum /\ Found(e, n)
           \/ /\ n <= Size /\ lx[n] <= yend(liy)
              /\ e = (IF lf = "closest" THEN ld[Closest(n)] ELSE Closest(n)) /\ Found(e, Closest(n))
    PROVE  LoopInv' /\ lpc' = lpc
  <1> DEFINE beg == ystart(liy)
             fin == yend(liy)
             t == ly[liy]
  <1>1. /\ liy \in 1 .. Len(ly) /\ Rising(lx) /\ Size \in Nat /\ Size = Len(lx) /\ beg \in Int /\ fin \in Int /\ t \in Int
        /\ n \in 1 .. Size + 1 /\ IsNotBefore(lx, lix, beg, n)
    BY TurnKnown
  <1>2. WindowsAscend => \A j \in 1 .. n - 1 : Passed(lx, beg, fin, t, j)
    BY LeftToWindow DEF Left
  <1>3. Result(liy) = IF NearestOf(lx, Inside(lx, beg, fin), t) = 0 THEN NoDatum
                      ELSE IF lf = "closest" THEN ld[NearestOf(lx, Inside(lx, beg, fin), t)]
                      ELSE NearestOf(lx, Inside(lx, beg, fin), t)
    BY DEF Result, ResultOf
  <1>4. CASE /\ n > Size \/ lx[n] > fin
             /\ lf = "align.idx" /\ Size > 0 => n <= Size
             /\ e = NoDatum /\ Found(e, n)
    <2>1. ASSUME WindowsAscend
          PROVE  e = Result(liy) /\ \A j \in 1 .. n - 1 : Left(lf, lx, beg, fin, t, j)
      <3>1. Inside(lx, beg, fin) = {}
        <4> HIDE DEF beg, fin, t
        <4> QED
          BY <1>1, <1>2, <1>4, <2>1, NoneInside
      <3>2. NearestOf(lx, Inside(lx, beg, fin), t) = 0
        BY <3>1 DEF NearestOf
      <3> QED
        BY <1>2, <1>3, <1>4, <2>1, <3>2 DEF Left
    <2> QED
      BY <1>1, <1>4, <2>1, FoundKeeps
  <1>5. CASE /\ n <= Size /\ lx[n] <= fin
             /\ e = (IF lf = "closest" THEN ld[Closest(n)] ELSE Closest(n)) /\ Found(e, Closest(n))
    <2> DEFINE c == Closest(n)
    <2>1. n \in 1 .. Len(lx)
      BY <1>1, <1>5
    <2>2. c \in n .. Size /\ IsClosest(lx, fin, t, n, c)
      BY <1>1, <2>1, ClosestIs
    <2>3. e = (IF lf = "closest" THEN ld[c] ELSE c) /\ Found(e, c)
      BY <1>5
    <2> HIDE DEF c
    <2>4. c \in 1 .. Size + 1 /\ c <= Size /\ c # 0
      BY <1>1, <2>2
    <2>5. beg <= lx[n]
      <3>1. lx[n] >= beg /\ lx[n] \in Int
        BY <1>1, <2>1, RisingKnown DEF IsNotBefore
      <3> QED
        BY <1>1, <3>1
    <2>6. ASSUME WindowsAscend
          PROVE  e = Result(liy) /\ \A j \in 1 .. c - 1 : Left(lf, lx, beg, fin, t, j)
      <3>1. NearestOf(lx, Inside(lx, beg, fin), t) = c
        <4> HIDE DEF beg, fin, t
        <4> QED
          BY <1>1, <1>2, <1>5, <2>1, <2>2, <2>5, <2>6, NearestFound
      <3>2. e = Result(liy)
        BY <1>3, <2>3, <2>4, <3>1
      <3>3. ASSUME NEW j \in 1 .. c - 1
            PROVE  Left(lf, lx, beg, fin, t, j)
        <4>1. CASE j < n
          <5>1. j \in 1 .. n - 1
            BY <1>1, <2>4, <4>1
          <5> QED
            BY <1>2, <2>6, <5>1 DEF Left
        <4>2. CASE j >= n
          <5>1. j \in n .. c - 1
            BY <1>1, <2>4, <4>2
          <5>2. Nearer(lx, fin, t, j)
            BY <2>2, <5>1 DEF IsClosest
          <5> QED
            BY <5>2 DEF Left, Passed
        <4> QED
          BY <1>1, <4>1, <4>2
      <3> QED
        BY <3>2, <3>3
    <2> QED
      BY <1>1, <2>3, <2>4, <2>6, FoundKeeps
  <1> QED
    BY <1>4, <1>5

\* The pass over whole windows.
LEMMA WindowTurn ==
    ASSUME LoopInv, lf \notin ByNearest, AlignSame, liy <= Len(ly), NEW n, n = NotBefore(lix, ystart(liy)), NEW e,
           \/ (n > Size \/ lx[n] >= yend(liy)) /\ e = Of(lf, <<>>)
           \/ n <= Size /\ ~(lx[n] >= yend(liy)) /\ e = Of(lf, SubSeq(ld, n, NotBefore(n, yend(liy)) - 1)),
           Found(e, n)
    PROVE  LoopInv' /\ lpc' = lpc
  <1> DEFINE beg == ystart(liy)
             fin == yend(liy)
             t == ly[liy]
  <1>1. /\ liy \in 1 .. Len(ly) /\ Rising(lx) /\ Size \in Nat /\ Size = Len(lx) /\ beg \in Int /\ fin \in Int /\ t \in Int
        /\ n \in 1 .. Size + 1 /\ IsNotBefore(lx, lix, beg, n)
    BY TurnKnown
  <1>2. WindowsAscend => \A j \in 1 .. n - 1 : lx[j] < beg
    BY LeftToWindow DEF Left
  <1>3. Result(liy) = Of(lf, DataOf(ld, InsideOpen(lx, beg, fin)))
    BY DEF Result, ResultOf
  <1>4. ld \in Seq(Int) /\ Len(ld) = Size
    BY DEF LoopInv, AlignTask
  <1>5. ASSUME WindowsAscend
        PROVE  e = Result(liy)
    <2>1. CASE (n > Size \/ lx[n] >= fin) /\ e = Of(lf, <<>>)
      <3>1. InsideOpen(lx, beg, fin) = {}
        <4> HIDE DEF beg, fin, t
        <4> QED
          BY <1>1, <1>2, <1>5, <2>1, NoneOpen
      <3>2. DataOf(ld, {}) = <<>>
        <4>1. Cardinality({}) = 0
          BY FS_EmptySet
        <4> QED
          BY <4>1 DEF DataOf
      <3> QED
        BY <1>3, <2>1, <3>1, <3>2
    <2>2. CASE n <= Size /\ ~(lx[n] >= fin) /\ e = Of(lf, SubSeq(ld, n, NotBefore(n, fin) - 1))
      <3> DEFINE to == NotBefore(n, fin)
      <3>1. n \in 1 .. Len(lx)
        BY <1>1, <2>2
      <3>2. to \in n .. Len(lx) + 1 /\ IsNotBefore(lx, n, fin, to)
        <4> HIDE DEF beg, fin, t
        <4> QED
          BY <1>1, <3>1, NotBeforeRight, NotBeforeIs
      <3>3. lx[n] >= beg
        BY <1>1, <3>1 DEF IsNotBefore
      <3>4. e = Of(lf, SubSeq(ld, n, to - 1))
        BY <2>2
      <3> HIDE DEF to
      <3>5. InsideOpen(lx, beg, fin) = n .. to - 1
        <4> HIDE DEF beg, fin, t
        <4> QED
          BY <1>1, <1>2, <1>5, <3>1, <3>2, <3>3, OpenIs
      <3>6. DataOf(ld, n .. to - 1) = SubSeq(ld, n, to - 1)
        <4> DEFINE m == to - 1
        <4>1. n \in 1 .. Len(ld) + 1 /\ m \in n - 1 .. Len(ld)
          BY <1>1, <1>4, <3>1, <3>2
        <4> HIDE DEF m
        <4> QED
          BY <1>4, <4>1, DataOfInterval DEF m
      <3> QED
        BY <1>3, <3>4, <3>5, <3>6
    <2> QED
      BY <2>1, <2>2
  <1>6. lf # "align.idx"
    BY DEF ByNearest
  <1>7. WindowsAscend => \A j \in 1 .. n - 1 : Left(lf, lx, beg, fin, t, j)
    BY <1>2 DEF Left
  <1> QED
    BY <1>1, <1>5, <1>6, <1>7, FoundKeeps

(***************************************************************************)
(* op.zts.                                                                 *)
(***************************************************************************)
Paired(i, j) ==
  /\ lx[j] > ly[i] /\ lx[j] <= Last(ly) /\ lo[i] = <<i, ld[j]>>
  /\ \A l \in 1 .. j - 1 : lx[l] <= ly[i]
OpInv ==
  /\ Rising(lx) /\ Rising(ly) /\ lix \in 1 .. Size + 1 /\ liy \in 1 .. Len(ly) + 1
  /\ \A i \in liy .. Len(ly) : lo[i] = <<i>>
  /\ \A i \in liy .. Len(ly), j \in 1 .. lix - 1 : lx[j] <= ly[i] \/ lx[j] > Last(ly)
  /\ \A i \in 1 .. liy - 1 : \E j \in 1 .. lix - 1 : Paired(i, j)

LEMMA LeastIs ==
    ASSUME NEW S \in SUBSET Nat, NEW m \in S, \A k \in S : m <= k
    PROVE  Min(S) = m
  <1>1. ASSUME NEW l \in S, \A k \in S : l <= k
        PROVE  l = m
    <2>1. l <= m /\ m <= l /\ l \in Nat /\ m \in Nat
      BY <1>1
    <2> QED
      BY <2>1
  <1> QED
    BY <1>1 DEF Min

LEMMA PairAppended ==
    ASSUME NEW first, NEW second
    PROVE  Append(<<first>>, second) = <<first, second>>
  <1> DEFINE S == {first, second}
             s == <<first>>
             t == <<first, second>>
  <1>1. s \in Seq(S) /\ t \in Seq(S) /\ second \in S /\ Len(s) = 1 /\ Len(t) = 2 /\ s[1] = first /\ t[1] = first /\ t[2] = second
    OBVIOUS
  <1> HIDE DEF S, s, t
  <1> DEFINE u == Append(s, second)
  <1>2. u \in Seq(S) /\ Len(u) = Len(s) + 1 /\ (\A i \in 1 .. Len(s) : u[i] = s[i]) /\ u[Len(s) + 1] = second
    <2>1. s \in Seq(S) /\ second \in S
      BY <1>1
    <2>2. \A i \in 1 .. Len(s) : Append(s, second)[i] = s[i]
      BY <2>1, AppendProperties
    <2>3. Append(s, second) \in Seq(S) /\ Len(Append(s, second)) = Len(s) + 1 /\ Append(s, second)[Len(s) + 1] = second
      BY <2>1, AppendProperties
    <2> QED
      BY <2>2, <2>3
  <1> HIDE DEF u
  <1>3. Len(u) = 2 /\ u[1] = first /\ u[2] = second
    BY <1>1, <1>2
  <1>4. \A i \in 1 .. Len(u) : u[i] = t[i]
    BY <1>1, <1>3
  <1>5. u = t
    BY <1>1, <1>2, <1>3, <1>4, SeqEqual
  <1> QED
    BY <1>5 DEF u, s, t

LEMMA OpTurnKeeps ==
    ASSUME OpInv, OpTurn
    PROVE  OpInv' /\ lpc' = lpc /\ lf' = lf
  <1> DEFINE n == Len(ly)
             v == lx[lix]
             to == CHOOSE i \in liy .. n + 1 : IsNotBefore(ly, liy, v, i)
  <1>1. /\ lf' = lf /\ lx' = lx /\ ld' = ld /\ ly' = ly /\ lix' = lix + 1 /\ lpc' = lpc /\ lix <= Size
    BY DEF OpTurn, AlignSame
  <1>2. /\ Rising(lx) /\ Rising(ly) /\ Size \in Nat /\ Size = Len(lx) /\ n \in Nat
        /\ (\A i \in 1 .. Size : lx[i] \in Int) /\ (\A i \in 1 .. n : ly[i] \in Int)
    BY RisingKnown DEF OpInv, Size
  <1>3. lix \in 1 .. Size /\ liy \in 1 .. n + 1 /\ v \in Int
    BY <1>1, <1>2 DEF OpInv
  <1>4. to \in liy .. n + 1 /\ IsNotBefore(ly, liy, v, to)
    <2>1. NotBeforeOf(ly, liy, v) \in liy .. n + 1 /\ IsNotBefore(ly, liy, v, NotBeforeOf(ly, liy, v))
      <3> HIDE DEF v
      <3> QED
        BY <1>2, <1>3, NotBeforeRight
    <2> QED
      BY <2>1
  <1>5. IF to > n THEN lo' = lo /\ liy' = liy
        ELSE lo' = [i \in 1 .. n |-> IF liy <= i /\ i < to THEN Append(lo[i], ld[lix]) ELSE lo[i]] /\ liy' = to
    BY DEF OpTurn, IsNotBefore
  <1> HIDE DEF to
  <1>6. \A i \in liy .. to - 1 : ly[i] < v
    BY <1>4 DEF IsNotBefore
  <1>7. n > 0 => Last(ly) = ly[n] /\ Last(ly) \in Int
    BY <1>2 DEF Last
  <1>8. /\ \A i \in liy .. n : lo[i] = <<i>>
        /\ \A i \in liy .. n, j \in 1 .. lix - 1 : lx[j] <= ly[i] \/ lx[j] > Last(ly)
        /\ \A i \in 1 .. liy - 1 : \E j \in 1 .. lix - 1 : Paired(i, j)
    BY DEF OpInv
  <1>9. Size' = Size /\ Rising(lx') /\ Rising(ly') /\ lix' \in 1 .. Size' + 1 /\ Len(ly') = n /\ Last(ly') = Last(ly)
    BY <1>1, <1>2, <1>3 DEF Size
  <1>10. CASE to > n
    <2>1. lo' = lo /\ liy' = liy
      BY <1>5, <1>10
    <2>2. \A i \in liy .. n, j \in 1 .. lix : lx[j] <= ly[i] \/ lx[j] > Last(ly)
      <3> SUFFICES ASSUME NEW i \in liy .. n, NEW j \in 1 .. lix
                   PROVE  lx[j] <= ly[i] \/ lx[j] > Last(ly)
        OBVIOUS
      <3>1. CASE j = lix
        <4>1. n \in liy .. to - 1 /\ n > 0
          BY <1>2, <1>3, <1>4, <1>10
        <4>2. ly[n] < v
          BY <1>6, <4>1
        <4> QED
          BY <1>2, <1>3, <1>7, <3>1, <4>1, <4>2
      <3>2. CASE j # lix
        <4>1. j \in 1 .. lix - 1
          BY <1>3, <3>2
        <4> QED
          BY <1>8, <4>1
      <3> QED
        BY <3>1, <3>2
    <2>3. \A i \in 1 .. liy - 1 : \E j \in 1 .. lix : Paired(i, j)'
      <3> TAKE i \in 1 .. liy - 1
      <3>1. PICK j \in 1 .. lix - 1 : Paired(i, j)
        BY <1>8
      <3>2. Paired(i, j)'
        BY <1>1, <2>1, <3>1 DEF Paired
      <3> QED
        BY <1>3, <3>2
    <2>4. (lix + 1) - 1 = lix
      BY <1>3
    <2>5. \A i \in 1 .. liy' - 1 : \E j \in 1 .. lix' - 1 : Paired(i, j)'
      BY <1>1, <2>1, <2>3, <2>4
    <2> QED
      BY <1>1, <1>3, <1>8, <1>9, <2>1, <2>2, <2>4, <2>5 DEF OpInv
  <1>11. CASE ~(to > n)
    <2>1. lo' = [i \in 1 .. n |-> IF liy <= i /\ i < to THEN Append(lo[i], ld[lix]) ELSE lo[i]] /\ liy' = to
      BY <1>5, <1>11
    <2>2. to \in liy .. n /\ to \in 1 .. n /\ n > 0 /\ ly[to] >= v /\ ly[to] \in Int
      BY <1>2, <1>3, <1>4, <1>11 DEF IsNotBefore
    <2>3. \A i \in to .. n : ly[to] <= ly[i] /\ ly[i] \in Int
      <3> TAKE i \in to .. n
      <3>1. i \in 1 .. n /\ (to = i \/ ly[to] < ly[i])
        BY <1>2, <2>2 DEF Rising
      <3> QED
        BY <1>2, <2>2, <3>1
    <2>4. v <= Last(ly)
      <3>1. n \in to .. n
        BY <1>2, <2>2
      <3> QED
        BY <1>3, <1>7, <2>2, <2>3, <3>1
    <2>5. \A i \in to .. n : lo'[i] = <<i>>
      <3> TAKE i \in to .. n
      <3>1. i \in 1 .. n /\ ~(i < to) /\ i \in liy .. n
        BY <1>2, <1>3, <2>2
      <3> QED
        BY <1>8, <2>1, <3>1
    <2>6. \A i \in to .. n, j \in 1 .. lix : lx[j] <= ly[i] \/ lx[j] > Last(ly)
      <3> SUFFICES ASSUME NEW i \in to .. n, NEW j \in 1 .. lix
                   PROVE  lx[j] <= ly[i] \/ lx[j] > Last(ly)
        OBVIOUS
      <3>1. CASE j = lix
        BY <1>3, <2>2, <2>3, <3>1
      <3>2. CASE j # lix
        <4>1. j \in 1 .. lix - 1 /\ i \in liy .. n
          BY <1>2, <1>3, <2>2, <3>2
        <4> QED
          BY <1>8, <4>1
      <3> QED
        BY <3>1, <3>2
    <2>7. ASSUME NEW i \in 1 .. to - 1
          PROVE  \E j \in 1 .. lix : Paired(i, j)'
      <3>1. i \in 1 .. n /\ i < to
        BY <1>2, <2>2
      <3>2. CASE i < liy
        <4>1. i \in 1 .. liy - 1
          BY <1>3, <3>1, <3>2
        <4>2. PICK j \in 1 .. lix - 1 : Paired(i, j)
          BY <1>8, <4>1
        <4>3. lo'[i] = lo[i]
          BY <1>3, <2>1, <3>1, <3>2
        <4>4. Paired(i, j)'
          BY <1>1, <4>2, <4>3 DEF Paired
        <4> QED
          BY <1>3, <4>4
      <3>3. CASE i >= liy
        <4>1. i \in liy .. to - 1 /\ i \in liy .. n
          BY <1>3, <2>2, <3>1, <3>3
        <4>2. lo'[i] = Append(lo[i], ld[lix]) /\ lo[i] = <<i>>
          BY <1>3, <1>8, <2>1, <3>1, <3>3, <4>1
        <4>3. lo'[i] = <<i, ld[lix]>>
          <5> DEFINE d == ld[lix]
          <5>1. lo'[i] = Append(<<i>>, d)
            BY <4>2
          <5> HIDE DEF d
          <5>2. Append(<<i>>, d) = <<i, d>>
            BY PairAppended
          <5> QED
            BY <5>1, <5>2 DEF d
        <4>4. ly[i] < v
          BY <1>6, <4>1
        <4>5. ASSUME NEW l \in 1 .. lix - 1
              PROVE  lx[l] <= ly[i]
          <5>1. lx[l] <= ly[i] \/ lx[l] > Last(ly)
            BY <1>8, <4>1
          <5>2. l \in 1 .. Size /\ lx[l] < v /\ lx[l] \in Int
            BY <1>2, <1>3 DEF Rising
          <5>3. ~(lx[l] > Last(ly))
            BY <1>3, <1>7, <2>2, <2>4, <5>2
          <5> QED
            BY <5>1, <5>3
        <4>6. v > ly[i]
          BY <1>2, <1>3, <3>1, <4>4
        <4>7. PICK m \in 1 .. lix : m = lix
          BY <1>3
        <4>8. Paired(i, m)'
          <5>1. ld'[m] = ld[lix] /\ lx'[m] = v
            BY <1>1, <4>7
          <5>2. \A l \in 1 .. m - 1 : lx'[l] <= ly'[i]
            BY <1>1, <4>5, <4>7
          <5>3. lx'[m] > ly'[i] /\ lx'[m] <= Last(ly') /\ lo'[i] = <<i, ld'[m]>>
            BY <1>1, <2>4, <4>3, <4>6, <5>1
          <5> QED
            BY <5>2, <5>3 DEF Paired
        <4> QED
          BY <4>8
      <3> QED
        BY <1>3, <3>1, <3>2, <3>3
    <2>8. (lix + 1) - 1 = lix
      BY <1>3
    <2>9. \A i \in 1 .. liy' - 1 : \E j \in 1 .. lix' - 1 : Paired(i, j)'
      BY <1>1, <2>1, <2>7, <2>8
    <2>10. liy' \in 1 .. Len(ly') + 1
      BY <1>2, <1>9, <2>1, <2>2
    <2>11. \A i \in liy' .. Len(ly') : lo'[i] = <<i>>
      BY <1>9, <2>1, <2>5
    <2>12. \A i \in liy' .. Len(ly'), j \in 1 .. lix' - 1 : lx'[j] <= ly'[i] \/ lx'[j] > Last(ly')
      BY <1>1, <1>9, <2>1, <2>6, <2>8
    <2> QED
      BY <1>1, <1>9, <2>9, <2>10, <2>11, <2>12 DEF OpInv
  <1> QED
    BY <1>1, <1>10, <1>11

\* At the end every element of y has been combined as it should.
LEMMA OpDone ==
    ASSUME OpInv, lix > Size, NEW i \in 1 .. Len(ly)
    PROVE  LET after == {j \in 1 .. Size : lx[j] > ly[i]}
           IN  lo[i] = IF after = {} \/ lx[Min(after)] > Last(ly) THEN <<i>> ELSE <<i, ld[Min(after)]>>
  <1> DEFINE after == {j \in 1 .. Size : lx[j] > ly[i]}
  <1>1. /\ Rising(lx) /\ Rising(ly) /\ Size \in Nat /\ Size = Len(lx) /\ Len(ly) \in Nat
        /\ (\A j \in 1 .. Size : lx[j] \in Int) /\ ly[i] \in Int
    BY RisingKnown DEF OpInv, Size
  <1>2. lix = Size + 1 /\ liy \in 1 .. Len(ly) + 1
    BY <1>1 DEF OpInv
  <1>3. Last(ly) = ly[Len(ly)] /\ Last(ly) \in Int
    <2>1. Len(ly) \in 1 .. Len(ly)
      BY <1>1
    <2> QED
      BY <2>1, RisingKnown, <1>1 DEF Last
  <1>4. CASE i >= liy
    <2>1. i \in liy .. Len(ly)
      BY <1>1, <1>2, <1>4
    <2>2. lo[i] = <<i>> /\ \A j \in 1 .. Size : lx[j] <= ly[i] \/ lx[j] > Last(ly)
      BY <1>1, <1>2, <2>1 DEF OpInv
    <2>3. CASE after = {}
      BY <2>2, <2>3
    <2>4. CASE after # {}
      <3>1. after \in SUBSET Nat
        BY <1>1
      <3>2. PICK m \in after : \A k \in after : m <= k
        <4> HIDE DEF after
        <4> QED
          BY <2>4, <3>1, LeastNumber
      <3>3. Min(after) \in after
        <4> HIDE DEF after
        <4> QED
          BY <3>1, <3>2, LeastIs
      <3>4. lx[Min(after)] > Last(ly)
        <4> DEFINE q == Min(after)
        <4>1. q \in 1 .. Size /\ lx[q] > ly[i]
          BY <3>3
        <4> HIDE DEF q
        <4>2. lx[q] > Last(ly)
          BY <1>1, <2>2, <4>1
        <4> QED
          BY <4>2 DEF q
      <3> QED
        BY <2>2, <3>4
    <2> QED
      BY <2>3, <2>4
  <1>5. CASE i < liy
    <2>1. i \in 1 .. liy - 1
      BY <1>1, <1>2, <1>5
    <2>2. PICK j \in 1 .. Size : Paired(i, j)
      BY <1>1, <1>2, <2>1 DEF OpInv
    <2>3. lx[j] > ly[i] /\ lx[j] <= Last(ly) /\ lo[i] = <<i, ld[j]>> /\ \A l \in 1 .. j - 1 : lx[l] <= ly[i]
      BY <2>2 DEF Paired
    <2>4. j \in after /\ after \in SUBSET Nat
      BY <1>1, <2>3
    <2>5. ASSUME NEW k \in after
          PROVE  j <= k
      <3> SUFFICES ASSUME k < j
                   PROVE  FALSE
        BY <1>1
      <3>1. k \in 1 .. j - 1 /\ lx[k] > ly[i] /\ lx[k] \in Int
        BY <1>1
      <3> QED
        BY <1>1, <2>3, <3>1
    <2>6. Min(after) = j
      <3> HIDE DEF after
      <3> QED
        BY <2>4, <2>5, LeastIs
    <2>7. ~(lx[j] > Last(ly)) /\ after # {}
      BY <1>1, <1>3, <2>3, <2>4
    <2> QED
      BY <2>3, <2>6, <2>7
  <1> QED
    BY <1>1, <1>2, <1>4, <1>5

(***************************************************************************)
(* Alignment.                                                              *)
(***************************************************************************)
ThrowInv ==
  (lpc = "throw" /\ lf = "align.idx" /\ checkVector(ly, ls) /\ checkVector(ly, le)) =>
    \E i \in 1 .. Len(ly) : ystart(i) > Last(lx)
LInv ==
  /\ lpc \in {"idle", "loop", "op", "done", "throw"}
  /\ lpc = "idle" => lo = <<>> /\ lix = 1 /\ liy = 1
  /\ lpc = "loop" => LoopInv
  /\ lpc = "op" => lf = "op" /\ OpInv
  /\ lpc = "done" => \/ LoopInv /\ liy > Len(ly)
                     \/ lf = "op" /\ OpInv /\ lix > Size
  /\ ThrowInv

LEMMA InstanceKnown ==
    /\ FromTime \cup ToTime \subseteq Int /\ Cardinality(FromTime) \in Nat /\ MaxTo \in Nat
    /\ \A z \in AlignZone : IsZone(z)
    /\ \A d \in Data : d \in Seq(Int) /\ Len(d) >= Cardinality(FromTime)
    /\ Window \subseteq Period \X Period /\ ManyWindows \subseteq Seq(Period) \X Seq(Period)
  BY AlignAssumption, FS_CardinalityType

LEMMA SeriesKnown ==
    ASSUME NEW S \in SUBSET Int, NEW x \in SeriesOf(S)
    PROVE  Rising(x) /\ Len(x) <= Cardinality(S) /\ Len(x) \in Nat
  <1>1. PICK n \in 0 .. Cardinality(S) : x \in [1 .. n -> S]
    BY DEF SeriesOf
  <1>2. x \in Seq(S) /\ Len(x) = n
    <2>1. n \in Nat
      OBVIOUS
    <2> QED
      BY <1>1, <2>1, LenProperties, SeqDef
  <1>3. x \in Seq(Int)
    <2>1. n \in Nat
      OBVIOUS
    <2>2. S \subseteq Int
      OBVIOUS
    <2>3. \A i \in 1 .. n : x[i] \in Int
      BY <1>1, <2>2
    <2>4. x \in [1 .. n -> Int]
      BY <1>1, <2>3
    <2> QED
      BY <2>1, <2>4, SeqDef
  <1>4. InOrder(x)
    BY DEF SeriesOf
  <1> QED
    BY <1>1, <1>2, <1>3, <1>4, InOrderRises

LEMMA TimesKnown ==
    ASSUME NEW y \in TimesTo
    PROVE  y \in Seq(Int)
  <1>1. PICK n \in 0 .. MaxTo : y \in [1 .. n -> ToTime]
    BY DEF TimesTo
  <1>2. n \in Nat /\ y \in [1 .. n -> Int]
    BY <1>1, InstanceKnown
  <1> QED
    BY <1>2, SeqDef

LEMMA DataKnown ==
    ASSUME NEW d \in Data, NEW n \in Nat, n <= Cardinality(FromTime)
    PROVE  SubSeq(d, 1, n) \in Seq(Int) /\ Len(SubSeq(d, 1, n)) = n
  <1>1. d \in Seq(Int) /\ Len(d) >= n /\ Len(d) \in Nat
    BY InstanceKnown, LenProperties
  <1>2. 1 \in 1 .. Len(d) + 1 /\ n \in 1 - 1 .. Len(d)
    BY <1>1
  <1> QED
    BY <1>1, <1>2, SubSeqProperties

LEMMA AlignInit ==
    ASSUME LInit
    PROVE  LInv
  BY DEF LInit, LInv, ThrowInv

LEMMA CallAlignKeeps ==
    ASSUME LInv, NEW f \in Methods \cup {"align.idx"}, CallAlign(f)
    PROVE  LInv'
  <1>1. lpc = "idle" /\ lf' = f /\ lz' \in AlignZone /\ lx' \in SeriesOf(FromTime) /\ ly' \in TimesTo
        /\ lo' = lo /\ lix' = lix /\ liy' = liy
    BY DEF CallAlign
  <1>2. lo' = <<>> /\ lix' = 1 /\ liy' = 1
    BY <1>1 DEF LInv
  <1>3. Rising(lx') /\ Len(lx') <= Cardinality(FromTime) /\ Len(lx') \in Nat
    BY <1>1, InstanceKnown, SeriesKnown
  <1>4. ly' \in Seq(Int) /\ Len(ly') \in Nat
    BY <1>1, TimesKnown, LenProperties
  <1>5. ld' \in Seq(Int) /\ Len(ld') = Len(lx')
    <2>1. PICK d \in Data : ld' = SubSeq(d, 1, Len(lx'))
      BY DEF CallAlign
    <2> QED
      BY <1>3, <2>1, DataKnown
  <1>6. ls' \in Seq(Period) /\ le' \in Seq(Period)
    <2>1. PICK w \in {<<<<v[1]>>, <<v[2]>>>> : v \in Window} \cup ManyWindows : ls' = w[1] /\ le' = w[2]
      BY DEF CallAlign
    <2>2. CASE w \in ManyWindows
      BY <2>1, <2>2, InstanceKnown
    <2>3. CASE w \notin ManyWindows
      <3>1. PICK v \in Window : w = <<<<v[1]>>, <<v[2]>>>>
        BY <2>3
      <3>2. v[1] \in Period /\ v[2] \in Period
        BY InstanceKnown
      <3> DEFINE p == v[1]
                 q == v[2]
      <3>3. ls' = <<p>> /\ le' = <<q>>
        BY <2>1, <3>1
      <3>4. p \in Period /\ q \in Period
        BY <3>2
      <3> HIDE DEF p, q
      <3>5. <<p>> \in Seq(Period) /\ <<q>> \in Seq(Period)
        BY <3>4
      <3> QED
        BY <3>3, <3>5
    <2> QED
      BY <2>2, <2>3
  <1>7. IsZone(lz')
    BY <1>1, InstanceKnown
  <1>8. lpc' = IF checkVector(ly', ls') /\ checkVector(ly', le') THEN "loop" ELSE "throw"
    BY DEF CallAlign
  <1>9. CASE checkVector(ly', ls') /\ checkVector(ly', le')
    <2>1. AlignTask'
      BY <1>1, <1>3, <1>4, <1>5, <1>6, <1>7, <1>9 DEF AlignTask, Size
    <2>2. Positions'
      <3>1. <<>> \in Seq(Int) /\ Len(<<>>) = 0
        OBVIOUS
      <3>2. IsSequence(<<>>)
        BY <3>1 DEF IsSequence
      <3>3. (IsSequence(lo))'
        BY <1>2, <3>2 DEF IsSequence
      <3> QED
        BY <1>2, <1>3, <1>4, <3>1, <3>3 DEF Positions, Size
    <2>3. Progress'
      BY <1>2 DEF Progress
    <2>4. lpc' = "loop" /\ LoopInv'
      BY <1>8, <1>9, <2>1, <2>2, <2>3 DEF LoopInv
    <2> QED
      BY <2>4 DEF LInv, ThrowInv
  <1>10. CASE ~(checkVector(ly', ls') /\ checkVector(ly', le'))
    <2>1. lpc' = "throw"
      BY <1>8, <1>10
    <2> QED
      BY <1>10, <2>1 DEF LInv, ThrowInv
  <1> QED
    BY <1>9, <1>10

LEMMA CallOpKeeps ==
    ASSUME LInv, CallOp
    PROVE  LInv'
  <1>1. lpc = "idle" /\ lf' = "op" /\ lx' \in SeriesOf(FromTime) /\ ly' \in SeriesOf(ToTime)
        /\ lo' = [i \in 1 .. Len(ly') |-> <<i>>] \o <<>> /\ lix' = lix /\ liy' = liy /\ lpc' = "op"
    BY DEF CallOp
  <1>2. lix' = 1 /\ liy' = 1
    BY <1>1 DEF LInv
  <1>3. Rising(lx') /\ Rising(ly') /\ Len(lx') \in Nat /\ Len(ly') \in Nat
    BY <1>1, InstanceKnown, SeriesKnown
  <1>4. lo' = [i \in 1 .. Len(ly') |-> <<i>>]
    <2> DEFINE s == [i \in 1 .. Len(ly') |-> <<i>>]
    <2>1. \A i \in 1 .. Len(ly') : <<i>> \in Seq(Int)
      OBVIOUS
    <2>2. s \in Seq(Seq(Int))
      BY <1>3, <2>1, SeqDef
    <2> HIDE DEF s
    <2>3. s \o <<>> = s
      BY <2>2, ConcatEmptySeq
    <2> QED
      BY <1>1, <2>3 DEF s
  <1>5. \A i \in liy' .. Len(ly') : lo'[i] = <<i>>
    BY <1>2, <1>3, <1>4
  <1>6. OpInv'
    BY <1>2, <1>3, <1>5 DEF OpInv, Size
  <1> QED
    BY <1>1, <1>6 DEF LInv, ThrowInv

LEMMA InWindow ==
    ASSUME LoopInv, liy <= Len(ly), NEW n, n = NotBefore(lix, ystart(liy)), ~(n > Size \/ lx[n] > yend(liy))
    PROVE  n <= Size /\ lx[n] <= yend(liy)
  <1>1. Rising(lx) /\ Size \in Nat /\ Size = Len(lx) /\ yend(liy) \in Int /\ n \in 1 .. Size + 1
    BY TurnKnown
  <1>2. n \in 1 .. Size
    BY <1>1
  <1>3. lx[n] \in Int
    BY <1>1, <1>2, RisingKnown
  <1> QED
    BY <1>1, <1>2, <1>3

LEMMA TurnKeeps ==
    ASSUME LInv, align_closest \/ align_idx \/ align_func
    PROVE  LInv'
  <1> DEFINE n == NotBefore(lix, ystart(liy))
  <1>1. lpc = "loop" /\ liy <= Len(ly) /\ AlignSame
    BY DEF align_closest, align_idx, align_func, Turn
  <1>2. LoopInv
    BY <1>1 DEF LInv
  <1>3. ASSUME LoopInv', lpc' = lpc
        PROVE  LInv'
    BY <1>1, <1>3 DEF LInv, ThrowInv
  <1>4. CASE align_closest
    <2> DEFINE e == IF n > Size \/ lx[n] > yend(liy) THEN NoDatum ELSE ld[Closest(n)]
    <2>1. lf = "closest"
      BY <1>4 DEF align_closest, Turn
    <2>2. IF n > Size \/ lx[n] > yend(liy) THEN Found(NoDatum, n) ELSE Found(ld[Closest(n)], Closest(n))
      BY <1>4 DEF align_closest
    <2>3. CASE n > Size \/ lx[n] > yend(liy)
      <3>1. Found(NoDatum, n)
        BY <2>2, <2>3
      <3> HIDE DEF n
      <3> QED
        BY <1>1, <1>2, <1>3, <2>1, <2>3, <3>1, NearestTurn DEF n, ByNearest
    <2>4. CASE ~(n > Size \/ lx[n] > yend(liy))
      <3>1. Found(ld[Closest(n)], Closest(n))
        BY <2>2, <2>4
      <3>2. n <= Size /\ lx[n] <= yend(liy)
        BY <1>1, <1>2, <2>4, InWindow
      <3> QED
        BY <1>1, <1>2, <1>3, <2>1, <3>1, <3>2, NearestTurn DEF ByNearest
    <2> QED
      BY <2>3, <2>4
  <1>5. CASE align_idx
    <2>1. lf = "align.idx"
      BY <1>5 DEF align_idx, Turn
    <2>2. Size \in Nat /\ n \in 1 .. Size + 1 /\ lix \in 1 .. Size + 1 /\ n \in lix .. Size + 1 /\ IsNotBefore(lx, lix, ystart(liy), n)
      BY <1>1, <1>2, TurnKnown
    <2>3. CASE n > Size /\ Size > 0
      <3>1. lpc' = "throw"
        BY <1>5, <2>3 DEF align_idx
      <3>2. lix <= Size
        BY <1>2, <2>1, <2>3 DEF LoopInv, Positions
      <3>3. Last(lx) < ystart(liy) /\ Last(lx) \in Int /\ ystart(liy) \in Int /\ liy \in 1 .. Len(ly)
        <4>1. Size \in lix .. n - 1
          BY <2>2, <2>3, <3>2
        <4>2. lx[Size] < ystart(liy)
          BY <2>2, <4>1 DEF IsNotBefore
        <4>3. Rising(lx) /\ Size = Len(lx) /\ ystart(liy) \in Int /\ liy \in 1 .. Len(ly)
          BY <1>1, <1>2, TurnKnown
        <4>4. lx[Size] \in Int
          BY <2>2, <2>3, <4>3, RisingKnown
        <4> QED
          BY <4>2, <4>3, <4>4 DEF Last
      <3>4. \E i \in 1 .. Len(ly') : ystart(i)' > Last(lx')
        <4>1. \A i : ystart(i)' = ystart(i)
          BY <1>1, SameTask
        <4>2. lx' = lx /\ ly' = ly
          BY <1>1, SameTask
        <4>3. ystart(liy) > Last(lx)
          BY <3>3
        <4> QED
          BY <3>3, <4>1, <4>2, <4>3
      <3> QED
        BY <3>1, <3>4 DEF LInv, ThrowInv
    <2>4. CASE n > Size /\ ~(Size > 0)
      <3>1. Found(NoDatum, 1) /\ n = 1
        BY <1>5, <2>2, <2>4 DEF align_idx
      <3> QED
        BY <1>1, <1>2, <1>3, <2>1, <2>4, <3>1, NearestTurn DEF ByNearest
    <2>5. CASE ~(n > Size) /\ lx[n] > yend(liy)
      <3>1. Found(NoDatum, n) /\ n <= Size
        BY <1>5, <2>2, <2>5 DEF align_idx
      <3> QED
        BY <1>1, <1>2, <1>3, <2>1, <2>5, <3>1, NearestTurn DEF ByNearest
    <2>6. CASE ~(n > Size) /\ ~(lx[n] > yend(liy))
      <3>1. Found(Closest(n), Closest(n))
        BY <1>5, <2>6 DEF align_idx
      <3>2. n <= Size /\ lx[n] <= yend(liy)
        BY <1>1, <1>2, <2>6, InWindow
      <3> QED
        BY <1>1, <1>2, <1>3, <2>1, <3>1, <3>2, NearestTurn DEF ByNearest
    <2> QED
      BY <2>3, <2>4, <2>5, <2>6
  <1>6. CASE align_func
    <2>1. lf \notin ByNearest
      <3>1. lf \in Methods \ {"closest"}
        BY <1>6 DEF align_func, Turn
      <3> QED
        BY <3>1 DEF Methods, ByNearest
    <2>2. IF n > Size \/ lx[n] >= yend(liy) THEN Found(Of(lf, <<>>), n)
          ELSE Found(Of(lf, SubSeq(ld, n, NotBefore(n, yend(liy)) - 1)), n)
      BY <1>6 DEF align_func
    <2>3. CASE n > Size \/ lx[n] >= yend(liy)
      <3>1. Found(Of(lf, <<>>), n)
        BY <2>2, <2>3
      <3> QED
        BY <1>1, <1>2, <1>3, <2>1, <2>3, <3>1, WindowTurn
    <2>4. CASE ~(n > Size \/ lx[n] >= yend(liy))
      <3>1. Found(Of(lf, SubSeq(ld, n, NotBefore(n, yend(liy)) - 1)), n)
        BY <2>2, <2>4
      <3>2. n <= Size
        BY <1>1, <1>2, <2>4, TurnKnown
      <3> QED
        BY <1>1, <1>2, <1>3, <2>1, <2>4, <3>1, <3>2, WindowTurn
    <2> QED
      BY <2>3, <2>4
  <1> QED
    BY <1>4, <1>5, <1>6

LEMMA SameAll ==
    ASSUME AlignSame, lo' = lo, lix' = lix, liy' = liy
    PROVE  (LoopInv' <=> LoopInv) /\ (OpInv' <=> OpInv) /\ Size' = Size
  <1>1. lf' = lf /\ lx' = lx /\ ld' = ld /\ ly' = ly /\ Size' = Size
    BY SameTask
  <1>2. (AlignTask' <=> AlignTask) /\ (WindowsAscend' <=> WindowsAscend) /\ \A i : Result(i)' = Result(i)
    BY SameTask
  <1>3. Positions' <=> Positions
    BY <1>1 DEF Positions, IsSequence
  <1>4. Progress' <=> Progress
    <2>1. ystart(liy)' = ystart(liy) /\ yend(liy)' = yend(liy)
      BY DEF AlignSame, ystart, yend
    <2> QED
      BY <1>1, <1>2, <2>1 DEF Progress
  <1>5. OpInv' <=> OpInv
    <2>1. \A i, j : Paired(i, j)' <=> Paired(i, j)
      BY <1>1 DEF Paired
    <2> QED
      BY <1>1, <2>1 DEF OpInv
  <1> QED
    BY <1>1, <1>2, <1>3, <1>4, <1>5 DEF LoopInv

LEMMA AlignEndsKeeps ==
    ASSUME LInv, AlignEnds
    PROVE  LInv'
  <1>1. lpc = "loop" /\ liy > Len(ly) /\ AlignSame /\ lo' = lo /\ lix' = lix /\ liy' = liy
        /\ lpc' = IF lf = "align.idx" \/ InOrder(ly) THEN "done" ELSE "throw"
    BY DEF AlignEnds
  <1>2. LoopInv
    BY <1>1 DEF LInv
  <1>3. LoopInv'
    BY <1>1, <1>2, SameAll
  <1>4. liy' > Len(ly') /\ lf' = lf
    BY <1>1 DEF AlignSame
  <1>5. CASE lf = "align.idx" \/ InOrder(ly)
    BY <1>1, <1>3, <1>4, <1>5 DEF LInv, ThrowInv
  <1>6. CASE ~(lf = "align.idx" \/ InOrder(ly))
    BY <1>1, <1>4, <1>6 DEF LInv, ThrowInv
  <1> QED
    BY <1>5, <1>6

\* Every step of the alignment and of op.zts preserves the invariant.
LEMMA AlignStep ==
    ASSUME LInv, [LNext]_lvars
    PROVE  LInv'
  <1>1. CASE \E f \in Methods \cup {"align.idx"} : CallAlign(f)
    BY <1>1, CallAlignKeeps
  <1>2. CASE CallOp
    BY <1>2, CallOpKeeps
  <1>3. CASE align_closest \/ align_idx \/ align_func
    BY <1>3, TurnKeeps
  <1>4. CASE AlignEnds
    BY <1>4, AlignEndsKeeps
  <1>5. CASE OpTurn
    <2>1. lpc = "op"
      BY <1>5 DEF OpTurn
    <2>2. lf = "op" /\ OpInv
      BY <2>1 DEF LInv
    <2>3. OpInv' /\ lpc' = lpc /\ lf' = lf
      BY <1>5, <2>2, OpTurnKeeps
    <2> QED
      BY <2>1, <2>2, <2>3 DEF LInv, ThrowInv
  <1>6. CASE OpEnds
    <2>1. lpc = "op" /\ lix > Size /\ lpc' = "done" /\ AlignSame /\ lo' = lo /\ lix' = lix /\ liy' = liy
      BY <1>6 DEF OpEnds
    <2>2. lf = "op" /\ OpInv
      BY <2>1 DEF LInv
    <2>3. lf' = "op" /\ lix' > Size' /\ OpInv'
      BY <2>1, <2>2, SameAll DEF AlignSame
    <2> QED
      BY <2>1, <2>3 DEF LInv, ThrowInv
  <1>7. CASE UNCHANGED lvars
    <2>1. /\ AlignSame /\ lo' = lo /\ lix' = lix /\ liy' = liy /\ lpc' = lpc /\ lf' = lf /\ ly' = ly
          /\ lx' = lx /\ ls' = ls /\ le' = le
      BY <1>7 DEF lvars, AlignSame
    <2>2. (LoopInv' <=> LoopInv) /\ (OpInv' <=> OpInv) /\ Size' = Size
      BY <2>1, SameAll
    <2>3. ThrowInv'
      <3>1. \A i : ystart(i)' = ystart(i)
        BY <2>1, SameTask
      <3> QED
        BY <2>1, <3>1 DEF LInv, ThrowInv
    <2> QED
      BY <2>1, <2>2, <2>3 DEF LInv
  <1> QED
    BY <1>1, <1>2, <1>3, <1>4, <1>5, <1>6, <1>7 DEF LNext

LEMMA ResultsRight ==
    ASSUME LInv
    PROVE  AlignmentIsRight
  <1>1. ASSUME lpc = "done", lf # "op", WindowsAscend, NEW i \in 1 .. Len(ly)
        PROVE  lo[i] = Result(i)
    <2>1. LoopInv /\ liy > Len(ly)
      BY <1>1 DEF LInv
    <2>2. i \in 1 .. liy - 1
      <3>1. liy \in 1 .. Len(ly) + 1 /\ ly \in Seq(Int)
        BY <2>1 DEF LoopInv, Positions, AlignTask
      <3>2. Len(ly) \in Nat
        BY <3>1, LenProperties
      <3> QED
        BY <2>1, <3>1, <3>2
    <2> QED
      BY <1>1, <2>1, <2>2 DEF LoopInv, Progress
  <1>2. ClosestIsRight
    <2>1. ASSUME lf \in ByNearest, lpc = "done", WindowsAscend, NEW i \in 1 .. Len(ly)
          PROVE  LET n == Nearest(InClosed(i), ly[i])
                 IN  lo[i] = IF n = 0 THEN NoDatum ELSE IF lf = "closest" THEN ld[n] ELSE n
      <3>1. lo[i] = Result(i)
        BY <1>1, <2>1 DEF ByNearest
      <3>2. Nearest(InClosed(i), ly[i]) = NearestOf(lx, Inside(lx, ystart(i), yend(i)), ly[i])
        BY DEF Nearest, InClosed, NearestOf, Inside, IsNearest, Size
      <3> QED
        BY <2>1, <3>1, <3>2 DEF Result, ResultOf
    <2> QED
      BY <2>1 DEF ClosestIsRight, ByNearest, LInv, ThrowInv
  <1>3. WindowsAreRight
    <2>1. ASSUME lf \in Methods \ {"closest"}, lpc = "done", WindowsAscend, NEW i \in 1 .. Len(ly)
          PROVE  lo[i] = Of(lf, DataAt(InHalfOpen(i)))
      <3>1. lf \notin ByNearest /\ lf # "op"
        BY <2>1 DEF Methods, ByNearest
      <3>2. lo[i] = Result(i)
        BY <1>1, <2>1, <3>1
      <3>3. DataAt(InHalfOpen(i)) = DataOf(ld, InsideOpen(lx, ystart(i), yend(i)))
        BY DEF DataAt, InHalfOpen, DataOf, InsideOpen, Size
      <3> QED
        BY <3>1, <3>2, <3>3 DEF Result, ResultOf
    <2> QED
      BY <2>1 DEF WindowsAreRight
  <1>4. OpIsRight
    <2> SUFFICES ASSUME lf = "op", lpc = "done", NEW i \in 1 .. Len(ly)
                 PROVE  LET after == {j \in 1 .. Size : lx[j] > ly[i]}
                        IN  lo[i] = IF after = {} \/ lx[Min(after)] > Last(ly) THEN <<i>> ELSE <<i, ld[Min(after)]>>
      BY DEF OpIsRight
    <2>1. OpInv /\ lix > Size
      BY DEF LInv, LoopInv, AlignTask, Methods
    <2> QED
      BY <2>1, OpDone
  <1> QED
    BY <1>2, <1>3, <1>4 DEF AlignmentIsRight

\* align, align.idx and op.zts find, in one pass over the series, what is in or nearest
\* to every window, and combine every element with the right datum (align_closest,
\* align_idx and align_func of align_funcs.hpp, op_zts of zts.hpp).
THEOREM AlignmentRight == LSpec => []AlignmentIsRight
  <1>1. LInit => LInv
    BY AlignInit
  <1>2. LInv /\ [LNext]_lvars => LInv'
    BY AlignStep
  <1>3. LInv => AlignmentIsRight
    BY ResultsRight
  <1> QED
    BY <1>1, <1>2, <1>3, PTL DEF LSpec

(***************************************************************************)
(* Local times.  Segment j of a zone lasts from its transition j to the    *)
(* next one; segment 0 is before all of them.                              *)
(***************************************************************************)
OffsetOf(z, j) == IF j = 0 THEN z.default ELSE z.off[j]
InSegment(z, u, j) ==
  /\ j \in 0 .. Len(z.ats)
  /\ j > 0 => z.ats[j] <= u
  /\ j < Len(z.ats) => u < z.ats[j + 1]

LEMMA OffsetsInt ==
    ASSUME NEW z, IsZone(z), NEW j \in 0 .. Len(z.ats)
    PROVE  OffsetOf(z, j) \in Int
  <1>1. Len(z.ats) \in Nat /\ z.default \in Int /\ \A i \in 1 .. Len(z.ats) : z.off[i] \in Int
    BY ZoneKnown
  <1>2. CASE j = 0
    BY <1>1, <1>2 DEF OffsetOf
  <1>3. CASE j # 0
    <2>1. j \in 1 .. Len(z.ats)
      BY <1>1, <1>3
    <2> QED
      BY <1>1, <1>3, <2>1 DEF OffsetOf
  <1> QED
    BY <1>2, <1>3

LEMMA ChangesRise ==
    ASSUME NEW z, IsZone(z)
    PROVE  Rising(z.ats)
  <1>1. z.ats \in Seq(Int) /\ Len(z.ats) \in Nat
    BY ZoneKnown
  <1>2. InOrder(z.ats)
    <2> SUFFICES ASSUME NEW i \in 1 .. Len(z.ats) - 1
                 PROVE  z.ats[i] < z.ats[i + 1]
      BY DEF InOrder
    <2>1. i + 1 \in 2 .. Len(z.ats) /\ (i + 1) - 1 = i
      BY <1>1
    <2>2. z.ats[(i + 1) - 1] < z.ats[i + 1]
      BY <2>1 DEF IsZone
    <2> QED
      BY <2>1, <2>2
  <1> QED
    BY <1>1, <1>2, InOrderRises

LEMMA SegmentExists ==
    ASSUME NEW z, IsZone(z), NEW u \in Int
    PROVE  \E j \in 0 .. Len(z.ats) : InSegment(z, u, j)
  <1> DEFINE n == Len(z.ats)
             S == {k \in 0 .. n : k < n => z.ats[n - k] <= u}
  <1>1. n \in Nat /\ \A i \in 1 .. n : z.ats[i] \in Int
    BY ZoneKnown
  <1>2. S \in SUBSET Nat /\ n \in S
    BY <1>1
  <1>3. PICK m \in S : \A k \in S : m <= k
    <2> HIDE DEF S
    <2> QED
      BY <1>2, LeastNumber
  <1> DEFINE j == n - m
  <1>4. j \in 0 .. n /\ m \in 0 .. n
    BY <1>1, <1>3
  <1>5. j > 0 => z.ats[j] <= u
    BY <1>1, <1>3, <1>4
  <1>6. ASSUME j < n
        PROVE  u < z.ats[j + 1]
    <2>1. m - 1 \in 0 .. n /\ m - 1 < n /\ n - (m - 1) = j + 1 /\ ~(m <= m - 1)
      BY <1>1, <1>4, <1>6
    <2>2. m - 1 \notin S
      BY <1>3, <2>1
    <2>3. ~(z.ats[j + 1] <= u)
      BY <2>1, <2>2
    <2>4. z.ats[j + 1] \in Int
      BY <1>1, <1>4, <1>6
    <2> QED
      BY <2>3, <2>4
  <1> QED
    BY <1>4, <1>5, <1>6 DEF InSegment

\* A time belongs to one segment, and its offset is that of the segment.
LEMMA SegmentOnly ==
    ASSUME NEW z, IsZone(z), NEW u \in Int, NEW i, NEW j, InSegment(z, u, i), InSegment(z, u, j)
    PROVE  i = j
  <1>1. Len(z.ats) \in Nat /\ \A k \in 1 .. Len(z.ats) : z.ats[k] \in Int
    BY ZoneKnown
  <1>2. \A k, l \in 1 .. Len(z.ats) : k < l => z.ats[k] < z.ats[l]
    BY ChangesRise DEF Rising
  <1>3. ASSUME NEW k, NEW l, InSegment(z, u, k), InSegment(z, u, l), k < l
        PROVE  FALSE
    <2>1. k \in 0 .. Len(z.ats) /\ l \in 0 .. Len(z.ats) /\ k + 1 \in 1 .. Len(z.ats) /\ l \in 1 .. Len(z.ats)
      BY <1>1, <1>3 DEF InSegment
    <2>2. u < z.ats[k + 1] /\ z.ats[l] <= u
      BY <1>1, <1>3, <2>1 DEF InSegment
    <2>3. k + 1 = l \/ z.ats[k + 1] < z.ats[l]
      BY <1>2, <1>3, <2>1
    <2> QED
      BY <1>1, <2>1, <2>2, <2>3
  <1>4. i \in Int /\ j \in Int
    BY <1>1 DEF InSegment
  <1> QED
    BY <1>3, <1>4

\* Whole seconds and units of time.
LEMMA UnitsAre ==
    ASSUME NEW m \in Int, NEW t \in Int
    PROVE  /\ m * Den <= t <=> m <= t \div Den
           /\ (t - m * Den) \div Den = t \div Den - m
           /\ (t - m * Den) \in Int /\ t \div Den \in Int
           /\ t - m * Den >= 0 \/ (t - m * Den) % Den = 0 => SecondsOf(t - m * Den) = t \div Den - m
  <1> QED
    BY MonthsKnown DEF SecondsOf

\* The local times between which transition i is seen: where they begin the clock shows
\* something else than before, where they end it shows one time each.
Opens(z, i)  == z.ats[i] + (IF OffsetOf(z, i - 1) <= OffsetOf(z, i) THEN OffsetOf(z, i - 1) ELSE OffsetOf(z, i))
Closes(z, i) == z.ats[i] + (IF OffsetOf(z, i - 1) <= OffsetOf(z, i) THEN OffsetOf(z, i) ELSE OffsetOf(z, i - 1))

\* No local time is between those of two transitions.
ChangesApart(z) == \A i \in 2 .. Len(z.ats) : Closes(z, i - 1) <= Opens(z, i)

LEMMA KeysKnown ==
    ASSUME NEW z, IsZone(z), NEW i \in 1 .. Len(z.ats)
    PROVE  /\ z.ats[i] \in Int /\ OffsetOf(z, i - 1) \in Int /\ OffsetOf(z, i) \in Int
           /\ Opens(z, i) \in Int /\ Closes(z, i) \in Int /\ Opens(z, i) <= Closes(z, i)
           /\ Opens(z, i) <= z.ats[i] + OffsetOf(z, i - 1) /\ Opens(z, i) <= z.ats[i] + OffsetOf(z, i)
           /\ z.ats[i] + OffsetOf(z, i - 1) <= Closes(z, i) /\ z.ats[i] + OffsetOf(z, i) <= Closes(z, i)
  <1>1. Len(z.ats) \in Nat /\ \A k \in 1 .. Len(z.ats) : z.ats[k] \in Int
    BY ZoneKnown
  <1>2. i - 1 \in 0 .. Len(z.ats) /\ i \in 0 .. Len(z.ats)
    BY <1>1
  <1>3. OffsetOf(z, i - 1) \in Int /\ OffsetOf(z, i) \in Int
    BY <1>2, OffsetsInt
  <1> QED
    BY <1>1, <1>3 DEF Opens, Closes

LEMMA KeysAscend ==
    ASSUME NEW z, IsZone(z), ChangesApart(z), NEW i \in 1 .. Len(z.ats), NEW j \in 1 .. Len(z.ats), i < j
    PROVE  Closes(z, i) <= Opens(z, j)
  <1> DEFINE n == Len(z.ats)
             I == {k \in Nat : \A l \in 1 .. n : i < l /\ l <= i + k => Closes(z, i) <= Opens(z, l)}
  <1>1. n \in Nat
    BY ZoneKnown
  <1>2. 0 \in I
    OBVIOUS
  <1>3. ASSUME NEW k \in Nat, k \in I
        PROVE  k + 1 \in I
    <2> SUFFICES ASSUME NEW l \in 1 .. n, i < l, l <= i + (k + 1)
                 PROVE  Closes(z, i) <= Opens(z, l)
      OBVIOUS
    <2>1. l \in 2 .. n /\ l - 1 \in 1 .. n
      BY <1>1
    <2>2. Closes(z, l - 1) <= Opens(z, l)
      BY <2>1 DEF ChangesApart
    <2>3. /\ Closes(z, i) \in Int /\ Closes(z, l - 1) \in Int /\ Opens(z, l) \in Int /\ Opens(z, l - 1) \in Int
          /\ Opens(z, l - 1) <= Closes(z, l - 1)
      BY <2>1, KeysKnown
    <2>4. CASE l - 1 = i
      BY <2>2, <2>4
    <2>5. CASE l - 1 # i
      <3>1. i < l - 1 /\ l - 1 <= i + k
        BY <2>1, <2>5
      <3>2. Closes(z, i) <= Opens(z, l - 1)
        BY <1>3, <2>1, <3>1
      <3> HIDE DEF I
      <3> QED
        BY <2>2, <2>3, <3>2
    <2> QED
      BY <2>4, <2>5
  <1>4. Nat \subseteq I
    <2> HIDE DEF I
    <2> QED
      BY <1>2, <1>3, SetInduction
  <1>5. j - i \in I
    BY <1>1, <1>4
  <1> QED
    BY <1>1, <1>5

\* Where a local time is among the transitions, and what it may mean there.
Located(z, s, j) ==
  /\ j \in 0 .. Len(z.ats)
  /\ j > 0 => Opens(z, j) <= s
  /\ j < Len(z.ats) => s < Opens(z, j + 1)
AnswerAt(z, j, s) ==
  IF j = 0 \/ Closes(z, j) <= s THEN {OffsetOf(z, j)}
  ELSE IF OffsetOf(z, j - 1) < OffsetOf(z, j) THEN {} ELSE {OffsetOf(z, j - 1), OffsetOf(z, j)}

\* The times of a segment are those whose local time is between its ends.
LEMMA SegmentShown ==
    ASSUME NEW z, IsZone(z), NEW s \in Int, NEW i \in 0 .. Len(z.ats)
    PROVE  InSegment(z, s - OffsetOf(z, i), i)
             <=> /\ i > 0 => z.ats[i] + OffsetOf(z, i) <= s
                 /\ i < Len(z.ats) => s < z.ats[i + 1] + OffsetOf(z, i)
  <1>1. Len(z.ats) \in Nat /\ \A k \in 1 .. Len(z.ats) : z.ats[k] \in Int
    BY ZoneKnown
  <1>2. OffsetOf(z, i) \in Int
    BY OffsetsInt
  <1>3. i > 0 => z.ats[i] \in Int
    BY <1>1
  <1>4. i < Len(z.ats) => z.ats[i + 1] \in Int
    BY <1>1
  <1> QED
    BY <1>2, <1>3, <1>4 DEF InSegment

Shows(z, s, i) == InSegment(z, s - OffsetOf(z, i), i)

\* Only the segments on either side of the transition can show the local time.
LEMMA OnlyNear ==
    ASSUME NEW z, IsZone(z), ChangesApart(z), NEW s \in Int, NEW j, Located(z, s, j),
           NEW i \in 0 .. Len(z.ats), Shows(z, s, i)
    PROVE  /\ i = j \/ (i = j - 1 /\ s < Closes(z, j))
           /\ i = j => (j = 0 \/ z.ats[j] + OffsetOf(z, j) <= s)
           /\ i = j - 1 => s < z.ats[j] + OffsetOf(z, j - 1)
  <1>1. Len(z.ats) \in Nat /\ j \in 0 .. Len(z.ats)
    BY ZoneKnown DEF Located
  <1>2. i > 0 => z.ats[i] + OffsetOf(z, i) <= s
    BY SegmentShown DEF Shows
  <1>3. i < Len(z.ats) => s < z.ats[i + 1] + OffsetOf(z, i)
    BY SegmentShown DEF Shows
  <1>4. ~(i > j)
    <2> SUFFICES ASSUME i > j
                 PROVE  FALSE
      OBVIOUS
    <2>1. i \in 1 .. Len(z.ats) /\ j + 1 \in 1 .. Len(z.ats) /\ j < Len(z.ats)
      BY <1>1
    <2>2. s < Opens(z, j + 1)
      BY <2>1 DEF Located
    <2>3. Opens(z, j + 1) <= Opens(z, i)
      <3>1. CASE i = j + 1
        BY <2>1, <3>1, KeysKnown
      <3>2. CASE i # j + 1
        <4>1. j + 1 < i
          BY <1>1, <3>2
        <4>2. Closes(z, j + 1) <= Opens(z, i)
          BY <2>1, <4>1, KeysAscend
        <4>3. /\ Opens(z, j + 1) <= Closes(z, j + 1) /\ Opens(z, j + 1) \in Int
              /\ Closes(z, j + 1) \in Int /\ Opens(z, i) \in Int
          BY <2>1, KeysKnown
        <4> QED
          BY <4>2, <4>3
      <3> QED
        BY <3>1, <3>2
    <2>4. Opens(z, i) <= z.ats[i] + OffsetOf(z, i) /\ Opens(z, i) \in Int /\ z.ats[i] + OffsetOf(z, i) \in Int
      <3>1. Opens(z, i) \in Int /\ Opens(z, i) <= z.ats[i] + OffsetOf(z, i)
        BY <2>1, KeysKnown
      <3>2. z.ats[i] \in Int /\ OffsetOf(z, i) \in Int
        BY <2>1, ZoneKnown, OffsetsInt
      <3> QED
        BY <3>1, <3>2
    <2>5. Opens(z, j + 1) \in Int
      BY <2>1, KeysKnown
    <2> QED
      BY <1>2, <2>1, <2>2, <2>3, <2>4, <2>5
  <1>5. i = j \/ (i = j - 1 /\ s < Closes(z, j))
    <2> SUFFICES ASSUME i < j
                 PROVE  i = j - 1 /\ s < Closes(z, j)
      BY <1>1, <1>4
    <2>1. i + 1 \in 1 .. Len(z.ats) /\ j \in 1 .. Len(z.ats) /\ (i + 1) - 1 = i /\ i < Len(z.ats)
      BY <1>1
    <2>2. z.ats[i + 1] + OffsetOf(z, (i + 1) - 1) <= Closes(z, i + 1)
      BY <2>1, KeysKnown
    <2>3. z.ats[i + 1] \in Int /\ OffsetOf(z, i) \in Int /\ Closes(z, i + 1) \in Int
      BY <2>1, KeysKnown, OffsetsInt
    <2>4. s < Closes(z, i + 1)
      BY <1>3, <2>1, <2>2, <2>3
    <2>5. CASE i + 1 = j
      BY <1>1, <2>4, <2>5
    <2>6. CASE i + 1 # j
      <3>1. i + 1 < j
        BY <1>1, <2>6
      <3>2. Closes(z, i + 1) <= Opens(z, j)
        BY <2>1, <3>1, KeysAscend
      <3>3. Opens(z, j) <= s
        BY <2>1 DEF Located
      <3>4. Opens(z, j) \in Int
        BY <2>1, KeysKnown
      <3> QED
        BY <2>3, <2>4, <3>2, <3>3, <3>4
    <2> QED
      BY <2>5, <2>6
  <1>6. ASSUME i = j - 1
        PROVE  s < z.ats[j] + OffsetOf(z, j - 1)
    <2>1. i + 1 = j /\ i < Len(z.ats)
      BY <1>1, <1>6
    <2> QED
      BY <1>3, <1>6, <2>1
  <1>7. ASSUME i = j
        PROVE  j = 0 \/ z.ats[j] + OffsetOf(z, j) <= s
    BY <1>1, <1>2, <1>7
  <1> QED
    BY <1>5, <1>6, <1>7

ShownAt(z, s) == {OffsetOf(z, i) : i \in {k \in 0 .. Len(z.ats) : Shows(z, s, k)}}

\* Before, between and after the two keys of a transition the zone has the offsets that
\* it has there.
LEMMA OwnShows ==
    ASSUME NEW z, IsZone(z), ChangesApart(z), NEW s \in Int, NEW j, Located(z, s, j),
           j = 0 \/ z.ats[j] + OffsetOf(z, j) <= s
    PROVE  Shows(z, s, j)
  <1>1. Len(z.ats) \in Nat /\ j \in 0 .. Len(z.ats)
    BY ZoneKnown DEF Located
  <1>2. ASSUME j < Len(z.ats)
        PROVE  s < z.ats[j + 1] + OffsetOf(z, j)
    <2>1. j + 1 \in 1 .. Len(z.ats) /\ (j + 1) - 1 = j
      BY <1>1, <1>2
    <2>2. Opens(z, j + 1) <= z.ats[j + 1] + OffsetOf(z, (j + 1) - 1)
      BY <2>1, KeysKnown
    <2>3. Opens(z, j + 1) \in Int /\ z.ats[j + 1] \in Int /\ OffsetOf(z, j) \in Int
      BY <1>1, <2>1, KeysKnown, OffsetsInt
    <2>4. s < Opens(z, j + 1)
      BY <1>2 DEF Located
    <2> QED
      BY <2>1, <2>2, <2>3, <2>4
  <1>3. j > 0 => z.ats[j] + OffsetOf(z, j) <= s
    OBVIOUS
  <1> QED
    BY <1>1, <1>2, <1>3, SegmentShown DEF Shows

LEMMA EarlierShows ==
    ASSUME NEW z, IsZone(z), ChangesApart(z), NEW s \in Int, NEW j, Located(z, s, j),
           j # 0, s < z.ats[j] + OffsetOf(z, j - 1)
    PROVE  Shows(z, s, j - 1)
  <1>1. Len(z.ats) \in Nat /\ j \in 1 .. Len(z.ats) /\ j - 1 \in 0 .. Len(z.ats) /\ (j - 1) + 1 = j
    BY ZoneKnown DEF Located
  <1>2. ASSUME j - 1 > 0
        PROVE  z.ats[j - 1] + OffsetOf(z, j - 1) <= s
    <2>1. j - 1 \in 1 .. Len(z.ats) /\ j \in 2 .. Len(z.ats)
      BY <1>1, <1>2
    <2>2. z.ats[j - 1] + OffsetOf(z, j - 1) <= Closes(z, j - 1) /\ Closes(z, j - 1) \in Int
          /\ z.ats[j - 1] \in Int /\ OffsetOf(z, j - 1) \in Int
      BY <2>1, KeysKnown
    <2>3. Closes(z, j - 1) <= Opens(z, j)
      BY <2>1 DEF ChangesApart
    <2>4. Opens(z, j) <= s /\ Opens(z, j) \in Int
      BY <1>1, KeysKnown DEF Located
    <2> QED
      BY <2>2, <2>3, <2>4
  <1>3. j - 1 < Len(z.ats) => s < z.ats[(j - 1) + 1] + OffsetOf(z, j - 1)
    BY <1>1
  <1> QED
    BY <1>1, <1>2, <1>3, SegmentShown DEF Shows

LEMMA AnswerIsShown ==
    ASSUME NEW z, IsZone(z), ChangesApart(z), NEW s \in Int, NEW j, Located(z, s, j)
    PROVE  AnswerAt(z, j, s) = ShownAt(z, s)
  <1> DEFINE prev == OffsetOf(z, j - 1)
             cur  == OffsetOf(z, j)
             at   == z.ats[j]
  <1>1. Len(z.ats) \in Nat /\ j \in 0 .. Len(z.ats)
    BY ZoneKnown DEF Located
  <1>2. CASE j = 0
    <2>1. AnswerAt(z, j, s) = {cur}
      BY <1>2 DEF AnswerAt
    <2>2. Shows(z, s, j)
      BY <1>2, OwnShows
    <2>3. \A i \in 0 .. Len(z.ats) : Shows(z, s, i) => i = j
      <3> TAKE i \in 0 .. Len(z.ats)
      <3> HAVE Shows(z, s, i)
      <3>1. i = j \/ i = j - 1
        BY OnlyNear
      <3> QED
        BY <1>2, <3>1
    <2> QED
      BY <1>1, <2>1, <2>2, <2>3 DEF ShownAt
  <1>3. CASE j # 0
    <2>1. j \in 1 .. Len(z.ats) /\ j - 1 \in 0 .. Len(z.ats) /\ j - 1 # j
      BY <1>1, <1>3
    <2>2. at \in Int /\ prev \in Int /\ cur \in Int
      BY <2>1, KeysKnown
    <2>3. Opens(z, j) <= s
      BY <2>1 DEF Located
    <2>4. Opens(z, j) = at + (IF prev <= cur THEN prev ELSE cur)
      BY DEF Opens
    <2>5. Closes(z, j) = at + (IF prev <= cur THEN cur ELSE prev)
      BY DEF Closes
    <2>6. \A i \in 0 .. Len(z.ats) : Shows(z, s, i) =>
            \/ i = j /\ at + cur <= s
            \/ i = j - 1 /\ s < Closes(z, j) /\ s < at + prev
      <3> TAKE i \in 0 .. Len(z.ats)
      <3> HAVE Shows(z, s, i)
      <3> HIDE DEF at, prev, cur
      <3> QED
        BY <1>3, OnlyNear DEF at, prev, cur
    <2>7. at + cur <= s => Shows(z, s, j)
      BY OwnShows
    <2>8. s < at + prev => Shows(z, s, j - 1)
      BY <1>3, EarlierShows
    <2> DEFINE here == at + cur <= s
               there == s < Closes(z, j) /\ s < at + prev
    <2>9. ShownAt(z, s) = (IF here THEN {cur} ELSE {}) \cup (IF there THEN {prev} ELSE {})
      <3>1. ASSUME NEW o \in ShownAt(z, s)
            PROVE  (here /\ o = cur) \/ (there /\ o = prev)
        <4>1. PICK i \in 0 .. Len(z.ats) : Shows(z, s, i) /\ o = OffsetOf(z, i)
          BY <3>1 DEF ShownAt
        <4> QED
          BY <2>6, <4>1
      <3>2. here => cur \in ShownAt(z, s)
        <4> HIDE DEF at
        <4> QED
          BY <1>1, <2>7 DEF ShownAt
      <3>3. there => prev \in ShownAt(z, s)
        <4> HIDE DEF at
        <4> QED
          BY <2>1, <2>8 DEF ShownAt
      <3> HIDE DEF here, there, prev, cur
      <3> QED
        BY <3>1, <3>2, <3>3
    <2>10. AnswerAt(z, j, s) = IF Closes(z, j) <= s THEN {cur} ELSE IF prev < cur THEN {} ELSE {prev, cur}
      BY <1>3 DEF AnswerAt
    <2> HIDE DEF at, prev, cur
    <2>11. CASE Closes(z, j) <= s
      <3>1. here /\ ~there
        BY <2>2, <2>5, <2>11
      <3> QED
        BY <2>9, <2>10, <2>11, <3>1
    <2>12. CASE ~(Closes(z, j) <= s) /\ prev < cur
      <3>1. ~here /\ ~there
        BY <2>2, <2>3, <2>4, <2>5, <2>12
      <3> QED
        BY <2>9, <2>10, <2>12, <3>1
    <2>13. CASE ~(Closes(z, j) <= s) /\ ~(prev < cur)
      <3>1. here /\ there
        BY <2>2, <2>3, <2>4, <2>5, <2>13
      <3> QED
        BY <2>9, <2>10, <2>13, <3>1
    <2> QED
      BY <2>11, <2>12, <2>13
  <1> QED
    BY <1>2, <1>3

(***************************************************************************)
(* The list of the reverse offsets.                                        *)
(***************************************************************************)
\* Sequences joined one after the other.
Joined(seqs, f) == f = [i \in 1 .. Len(seqs) |-> IF i = 1 THEN seqs[i] ELSE f[i - 1] \o seqs[i]]
Joins(seqs, f) ==
  /\ FlattenSeq(seqs) = f[Len(seqs)] /\ f[1] = seqs[1]
  /\ \A i \in 2 .. Len(seqs) : f[i] = f[i - 1] \o seqs[i]

LEMMA FlattenJoins ==
    ASSUME NEW S, NEW n \in Nat \ {0}, NEW seqs, Len(seqs) = n, \A i \in 1 .. n : seqs[i] \in Seq(S)
    PROVE  \E f : Joins(seqs, f)
  <1> DEFINE F == [p \in Nat \X Seq(S) |-> IF p[1] \in 0 .. n - 2 THEN p[2] \o seqs[p[1] + 2] ELSE <<>>]
  <1>1. F \in [Nat \X Seq(S) -> Seq(S)]
    <2> SUFFICES ASSUME NEW p \in Nat \X Seq(S)
                 PROVE  (IF p[1] \in 0 .. n - 2 THEN p[2] \o seqs[p[1] + 2] ELSE <<>>) \in Seq(S)
      OBVIOUS
    <2>1. CASE p[1] \in 0 .. n - 2
      <3>1. p[1] + 2 \in 1 .. n /\ p[2] \in Seq(S)
        BY <2>1
      <3>2. seqs[p[1] + 2] \in Seq(S)
        BY <3>1
      <3>3. p[2] \o seqs[p[1] + 2] \in Seq(S)
        BY <3>1, <3>2, ConcatProperties
      <3> QED
        BY <2>1, <3>3
    <2>2. CASE p[1] \notin 0 .. n - 2
      BY <2>2, EmptySeq
    <2> QED
      BY <2>1, <2>2
  <1>2. seqs[1] \in Seq(S) /\ n - 1 \in Nat
    OBVIOUS
  <1>3. PICK g \in [0 .. n - 1 -> Seq(S)] : g[0] = seqs[1] /\ \A k \in 0 .. (n - 1) - 1 : g[k + 1] = F[<<k, g[k]>>]
    <2> HIDE DEF F
    <2>1. HasSolution(Seq(S), seqs[1], F, n - 1)
      BY <1>1, <1>2, Recursion
    <2> QED
      BY <2>1 DEF HasSolution, Follows
  <1>4. \A k \in 0 .. n - 2 : g[k + 1] = g[k] \o seqs[k + 2]
    <2> TAKE k \in 0 .. n - 2
    <2>1. k \in 0 .. (n - 1) - 1 /\ k \in Nat /\ g[k] \in Seq(S)
      OBVIOUS
    <2>2. g[k + 1] = F[<<k, g[k]>>]
      BY <1>3, <2>1
    <2> QED
      BY <2>1, <2>2
  <1> DEFINE h == [i \in 1 .. n |-> g[i - 1]]
  <1>5. \A i \in 1 .. n : h[i] = IF i = 1 THEN seqs[i] ELSE h[i - 1] \o seqs[i]
    <2> TAKE i \in 1 .. n
    <2>1. CASE i = 1
      BY <1>3, <2>1
    <2>2. CASE i # 1
      <3>1. i - 2 \in 0 .. n - 2 /\ i - 1 \in 1 .. n /\ (i - 2) + 1 = i - 1 /\ (i - 2) + 2 = i /\ (i - 1) - 1 = i - 2
        BY <2>2
      <3>2. g[(i - 2) + 1] = g[i - 2] \o seqs[(i - 2) + 2]
        BY <1>4, <3>1
      <3>3. h[i] = g[i - 1] /\ h[i - 1] = g[(i - 1) - 1]
        BY <3>1
      <3> HIDE DEF h
      <3> QED
        BY <2>2, <3>1, <3>2, <3>3
    <2> QED
      BY <2>1, <2>2
  <1>6. Joined(seqs, h)
    <2>1. h = [i \in 1 .. n |-> h[i]]
      OBVIOUS
    <2> HIDE DEF h
    <2> QED
      BY <1>5, <2>1 DEF Joined
  <1> DEFINE f == CHOOSE q : Joined(seqs, q)
  <1>7. Joined(seqs, f)
    <2> HIDE DEF h
    <2> QED
      BY <1>6
  <1>8. FlattenSeq(seqs) = f[n]
    BY DEF FlattenSeq, Joined
  <1> HIDE DEF f
  <1>9. f[1] = seqs[1]
    BY <1>7 DEF Joined
  <1>10. \A i \in 2 .. n : f[i] = f[i - 1] \o seqs[i]
    <2> TAKE i \in 2 .. n
    <2>1. i \in 1 .. n /\ i # 1
      OBVIOUS
    <2>2. f[i] = IF i = 1 THEN seqs[i] ELSE f[i - 1] \o seqs[i]
      BY <1>7, <2>1 DEF Joined
    <2> QED
      BY <2>1, <2>2
  <1> QED
    BY <1>8, <1>9, <1>10 DEF Joins

\* The entry that a look-up takes.
Keyed == Int \X SUBSET Int
Entry(rl, s, k) ==
  /\ k \in 1 .. Len(rl) /\ rl[k][1] <= s
  /\ \A j \in 1 .. Len(rl) : rl[j][1] <= s => rl[j][1] < rl[k][1] \/ (rl[j][1] = rl[k][1] /\ j <= k)
NoEntry(rl, s) == \A k \in 1 .. Len(rl) : ~(rl[k][1] <= s)
Reversed(z) == FlattenSeq([i \in 1 .. Len(z.ats) |-> buildRl(z, i)])

LEMMA KeyedKnown ==
    ASSUME NEW rl \in Seq(Keyed)
    PROVE  Len(rl) \in Nat /\ \A k \in 1 .. Len(rl) : rl[k][1] \in Int /\ rl[k][2] \in SUBSET Int
  <1>1. \A k \in 1 .. Len(rl) : rl[k] \in Keyed
    BY ElementOfSeq
  <1> QED
    BY <1>1, LenProperties DEF Keyed

LEMMA EntryTaken ==
    ASSUME NEW z, NEW local, NEW rl \in Seq(Keyed), rl = Reversed(z)
    PROVE  /\ NoEntry(rl, SecondsOf(local)) => getReverseOffset(z, local) = {z.default}
           /\ \A k : Entry(rl, SecondsOf(local), k) => getReverseOffset(z, local) = rl[k][2]
  <1> DEFINE s == SecondsOf(local)
             here == {k \in 1 .. Len(rl) : rl[k][1] <= s}
             IsIt(k) == \A j \in here : rl[j][1] < rl[k][1] \/ (rl[j][1] = rl[k][1] /\ j <= k)
             last == CHOOSE k \in here : IsIt(k)
  <1>1. getReverseOffset(z, local) = IF here = {} THEN {z.default} ELSE rl[last][2]
    BY DEF getReverseOffset, Reversed
  <1>2. Len(rl) \in Nat /\ \A k \in 1 .. Len(rl) : rl[k][1] \in Int
    BY KeyedKnown
  <1> HIDE DEF s
  <1>3. NoEntry(rl, s) => here = {}
    BY DEF NoEntry
  <1>4. ASSUME NEW k, Entry(rl, s, k)
        PROVE  here # {} /\ last = k
    <2>1. k \in here /\ IsIt(k)
      BY <1>4 DEF Entry
    <2>2. \A m, j \in here : IsIt(m) /\ IsIt(j) => m = j
      <3> SUFFICES ASSUME NEW m \in here, NEW j \in here, IsIt(m), IsIt(j)
                   PROVE  m = j
        OBVIOUS
      <3>1. rl[j][1] < rl[m][1] \/ (rl[j][1] = rl[m][1] /\ j <= m)
        OBVIOUS
      <3>2. rl[m][1] < rl[j][1] \/ (rl[m][1] = rl[j][1] /\ m <= j)
        OBVIOUS
      <3>3. m \in 1 .. Len(rl) /\ j \in 1 .. Len(rl) /\ rl[m][1] \in Int /\ rl[j][1] \in Int
        BY <1>2
      <3> QED
        BY <1>2, <3>1, <3>2, <3>3
    <2> HIDE DEF IsIt, here
    <2> QED
      BY <2>1, <2>2
  <1> HIDE DEF here, last
  <1> QED
    BY <1>1, <1>3, <1>4 DEF s

\* An entry of the second part is taken if there is one: its keys are the later ones.
NotAfter(p, q) == \A i \in 1 .. Len(p), j \in 1 .. Len(q) : p[i][1] <= q[j][1]

LEMMA JoinedKnown ==
    ASSUME NEW p \in Seq(Keyed), NEW q \in Seq(Keyed)
    PROVE  /\ p \o q \in Seq(Keyed) /\ Len(p \o q) = Len(p) + Len(q) /\ Len(p) \in Nat /\ Len(q) \in Nat
           /\ \A i \in 1 .. Len(p) : (p \o q)[i] = p[i]
           /\ \A i \in 1 .. Len(q) : (p \o q)[Len(p) + i] = q[i]
           /\ \A i \in 1 .. Len(p \o q) : i \in 1 .. Len(p) \/ (i - Len(p) \in 1 .. Len(q) /\ (p \o q)[i] = q[i - Len(p)])
  <1>1. Len(p) \in Nat /\ Len(q) \in Nat
    BY LenProperties
  <1>2. p \o q \in Seq(Keyed) /\ Len(p \o q) = Len(p) + Len(q)
    BY ConcatProperties
  <1>3. \A i \in 1 .. Len(p) + Len(q) : (p \o q)[i] = IF i <= Len(p) THEN p[i] ELSE q[i - Len(p)]
    BY ConcatProperties
  <1> DEFINE r == p \o q
  <1>4. \A i \in 1 .. Len(p) + Len(q) : r[i] = IF i <= Len(p) THEN p[i] ELSE q[i - Len(p)]
    BY <1>3
  <1>5. Len(r) = Len(p) + Len(q)
    BY <1>2
  <1> HIDE DEF r
  <1>6. \A i \in 1 .. Len(p) : r[i] = p[i]
    BY <1>1, <1>4
  <1>7. \A i \in 1 .. Len(q) : r[Len(p) + i] = q[i]
    <2> TAKE i \in 1 .. Len(q)
    <2>1. Len(p) + i \in 1 .. Len(p) + Len(q) /\ ~(Len(p) + i <= Len(p)) /\ (Len(p) + i) - Len(p) = i
      BY <1>1
    <2> QED
      BY <1>4, <2>1
  <1>8. \A i \in 1 .. Len(r) : i \in 1 .. Len(p) \/ (i - Len(p) \in 1 .. Len(q) /\ r[i] = q[i - Len(p)])
    BY <1>1, <1>4, <1>5
  <1> QED
    BY <1>1, <1>2, <1>6, <1>7, <1>8 DEF r

Takes(r, m, s, q, k) == Entry(r, s, m) /\ r[m] = q[k]

LEMMA EntryOfSecond ==
    ASSUME NEW p \in Seq(Keyed), NEW q \in Seq(Keyed), NotAfter(p, q), NEW s \in Int, NEW k, Entry(q, s, k),
           NEW r, r = p \o q
    PROVE  Takes(r, Len(p) + k, s, q, k)
  <1> DEFINE m == Len(p) + k
  <1>1. /\ Len(r) = Len(p) + Len(q) /\ Len(p) \in Nat /\ Len(q) \in Nat
        /\ \A i \in 1 .. Len(p) : r[i] = p[i]
        /\ \A i \in 1 .. Len(q) : r[Len(p) + i] = q[i]
        /\ \A i \in 1 .. Len(r) : i \in 1 .. Len(p) \/ (i - Len(p) \in 1 .. Len(q) /\ r[i] = q[i - Len(p)])
    BY JoinedKnown
  <1>2. k \in 1 .. Len(q) /\ q[k][1] <= s
    BY DEF Entry
  <1>3. \A i \in 1 .. Len(q) : q[i][1] \in Int
    BY KeyedKnown
  <1>4. \A i \in 1 .. Len(p) : p[i][1] \in Int
    BY KeyedKnown
  <1>5. m \in 1 .. Len(r) /\ r[m] = q[k]
    BY <1>1, <1>2
  <1>6. ASSUME NEW j \in 1 .. Len(r), r[j][1] <= s
        PROVE  r[j][1] < r[m][1] \/ (r[j][1] = r[m][1] /\ j <= m)
    <2>1. CASE j \in 1 .. Len(p)
      <3>1. r[j] = p[j] /\ p[j][1] <= q[k][1]
        BY <1>1, <1>2, <2>1 DEF NotAfter
      <3>2. j <= m
        BY <1>1, <1>2, <2>1
      <3>3. p[j][1] \in Int /\ q[k][1] \in Int
        BY <1>2, <1>3, <1>4, <2>1
      <3> HIDE DEF m
      <3> QED
        BY <1>5, <3>1, <3>2, <3>3
    <2>2. CASE j - Len(p) \in 1 .. Len(q) /\ r[j] = q[j - Len(p)]
      <3>1. q[j - Len(p)][1] < q[k][1] \/ (q[j - Len(p)][1] = q[k][1] /\ j - Len(p) <= k)
        BY <1>6, <2>2 DEF Entry
      <3>2. j - Len(p) <= k => j <= m
        BY <1>1, <1>2
      <3> HIDE DEF m
      <3> QED
        BY <1>5, <2>2, <3>1, <3>2
    <2> QED
      BY <1>1, <2>1, <2>2
  <1> QED
    BY <1>2, <1>5, <1>6 DEF Entry, Takes

LEMMA EntryOfFirst ==
    ASSUME NEW p \in Seq(Keyed), NEW q \in Seq(Keyed), NEW s \in Int, NoEntry(q, s),
           NEW r, r = p \o q
    PROVE  /\ NoEntry(p, s) => NoEntry(r, s)
           /\ \A k : Entry(p, s, k) => Takes(r, k, s, p, k)
  <1>1. /\ Len(r) = Len(p) + Len(q) /\ Len(p) \in Nat /\ Len(q) \in Nat
        /\ \A i \in 1 .. Len(p) : r[i] = p[i]
        /\ \A i \in 1 .. Len(r) : i \in 1 .. Len(p) \/ (i - Len(p) \in 1 .. Len(q) /\ r[i] = q[i - Len(p)])
    BY JoinedKnown
  <1>2. \A i \in 1 .. Len(r) : r[i][1] <= s => i \in 1 .. Len(p) /\ r[i] = p[i]
    BY <1>1 DEF NoEntry
  <1>3. NoEntry(p, s) => NoEntry(r, s)
    BY <1>2 DEF NoEntry
  <1>4. ASSUME NEW k, Entry(p, s, k)
        PROVE  Takes(r, k, s, p, k)
    <2>1. k \in 1 .. Len(p) /\ p[k][1] <= s
      BY <1>4 DEF Entry
    <2>2. k \in 1 .. Len(r) /\ r[k] = p[k]
      BY <1>1, <2>1
    <2>3. ASSUME NEW j \in 1 .. Len(r), r[j][1] <= s
          PROVE  r[j][1] < r[k][1] \/ (r[j][1] = r[k][1] /\ j <= k)
      <3>1. j \in 1 .. Len(p) /\ r[j] = p[j]
        BY <1>2, <2>3
      <3> QED
        BY <1>4, <2>2, <2>3, <3>1 DEF Entry
    <2> QED
      BY <2>1, <2>2, <2>3 DEF Entry, Takes
  <1> QED
    BY <1>3, <1>4

\* What the list says at one transition.
Gap(z, i) == IF OffsetOf(z, i - 1) < OffsetOf(z, i) THEN {} ELSE {OffsetOf(z, i - 1), OffsetOf(z, i)}
OfChange(z, i, rl) ==
  /\ rl \in Seq(Keyed)
  /\ \A k \in 1 .. Len(rl) : Opens(z, i) <= rl[k][1] /\ rl[k][1] <= Closes(z, i)
  /\ \A s \in Int : Opens(z, i) <= s => \E k : Entry(rl, s, k) /\ rl[k][2] = AnswerAt(z, i, s)

LEMMA OnePoint ==
    ASSUME NEW z, IsZone(z), NEW i \in 1 .. Len(z.ats), Opens(z, i) = Closes(z, i),
           NEW x, x = <<Opens(z, i), {OffsetOf(z, i)}>>
    PROVE  OfChange(z, i, <<x>>)
  <1> DEFINE rl == <<x>>
  <1>1. Opens(z, i) \in Int /\ OffsetOf(z, i) \in Int
    BY KeysKnown
  <1>2. x \in Keyed /\ x[1] = Opens(z, i) /\ x[2] = {OffsetOf(z, i)}
    BY <1>1 DEF Keyed
  <1>3. Len(rl) = 1 /\ rl[1] = x /\ rl \in Seq(Keyed)
    BY <1>2
  <1> HIDE DEF rl
  <1>4. ASSUME NEW s \in Int, Opens(z, i) <= s
        PROVE  Entry(rl, s, 1) /\ rl[1][2] = AnswerAt(z, i, s)
    <2>1. Entry(rl, s, 1)
      BY <1>2, <1>3, <1>4 DEF Entry
    <2>2. AnswerAt(z, i, s) = {OffsetOf(z, i)}
      BY <1>4 DEF AnswerAt
    <2> QED
      BY <1>2, <1>3, <2>1, <2>2
  <1>5. \A k \in 1 .. Len(rl) : Opens(z, i) <= rl[k][1] /\ rl[k][1] <= Closes(z, i)
    BY <1>1, <1>2, <1>3
  <1> QED
    BY <1>3, <1>4, <1>5 DEF OfChange, rl

LEMMA TwoPoints ==
    ASSUME NEW z, IsZone(z), NEW i \in 1 .. Len(z.ats), Opens(z, i) < Closes(z, i),
           NEW x, x = <<Opens(z, i), Gap(z, i)>>, NEW y, y = <<Closes(z, i), {OffsetOf(z, i)}>>
    PROVE  OfChange(z, i, <<x, y>>)
  <1> DEFINE rl == <<x, y>>
  <1>1. Opens(z, i) \in Int /\ OffsetOf(z, i) \in Int /\ OffsetOf(z, i - 1) \in Int /\ Closes(z, i) \in Int
    BY KeysKnown
  <1>2. Gap(z, i) \in SUBSET Int
    BY <1>1 DEF Gap
  <1>3. /\ x \in Keyed /\ x[1] = Opens(z, i) /\ x[2] = Gap(z, i)
        /\ y \in Keyed /\ y[1] = Closes(z, i) /\ y[2] = {OffsetOf(z, i)}
    BY <1>1, <1>2 DEF Keyed
  <1>4. Len(rl) = 2 /\ rl[1] = x /\ rl[2] = y /\ rl \in Seq(Keyed)
    BY <1>3
  <1> HIDE DEF rl
  <1>5. ASSUME NEW s \in Int, Opens(z, i) <= s
        PROVE  \E k : Entry(rl, s, k) /\ rl[k][2] = AnswerAt(z, i, s)
    <2>1. CASE Closes(z, i) <= s
      <3>1. Entry(rl, s, 2)
        BY <1>1, <1>3, <1>4, <2>1 DEF Entry
      <3>2. AnswerAt(z, i, s) = {OffsetOf(z, i)}
        BY <2>1 DEF AnswerAt
      <3> QED
        BY <1>3, <1>4, <3>1, <3>2
    <2>2. CASE ~(Closes(z, i) <= s)
      <3>1. Entry(rl, s, 1)
        BY <1>1, <1>3, <1>4, <1>5, <2>2 DEF Entry
      <3>2. i # 0
        OBVIOUS
      <3>3. AnswerAt(z, i, s) = Gap(z, i)
        BY <2>2, <3>2 DEF AnswerAt, Gap
      <3> QED
        BY <1>3, <1>4, <3>1, <3>3
    <2> QED
      BY <2>1, <2>2
  <1>6. \A k \in 1 .. Len(rl) : Opens(z, i) <= rl[k][1] /\ rl[k][1] <= Closes(z, i)
    BY <1>1, <1>3, <1>4
  <1> QED
    BY <1>4, <1>5, <1>6 DEF OfChange, rl

LEMMA BuildKnown ==
    ASSUME NEW z, IsZone(z), NEW i \in 1 .. Len(z.ats)
    PROVE  OfChange(z, i, buildRl(z, i))
  <1> DEFINE prev == OffsetOf(z, i - 1)
             cur  == OffsetOf(z, i)
             at   == z.ats[i]
  <1>1. at \in Int /\ prev \in Int /\ cur \in Int
    BY KeysKnown
  <1>2. cur = z.off[i] /\ prev = (IF i = 1 THEN z.default ELSE z.off[i - 1])
    BY DEF OffsetOf
  <1>3. buildRl(z, i) = IF cur > prev THEN <<<<at + prev, {}>>, <<at + cur, {cur}>>>>
                        ELSE IF cur < prev THEN <<<<at + cur, {prev, cur}>>, <<at + prev, {cur}>>>>
                        ELSE <<<<at + cur, {cur}>>>>
    <2> HIDE DEF prev, cur
    <2> QED
      BY <1>2 DEF buildRl
  <1>4. /\ Opens(z, i) = at + (IF prev <= cur THEN prev ELSE cur)
        /\ Closes(z, i) = at + (IF prev <= cur THEN cur ELSE prev)
        /\ Gap(z, i) = IF prev < cur THEN {} ELSE {prev, cur}
    BY DEF Opens, Closes, Gap
  <1>5. CASE cur > prev
    <2> HIDE DEF prev, cur, at
    <2>1. Opens(z, i) = at + prev /\ Closes(z, i) = at + cur /\ Gap(z, i) = {} /\ Opens(z, i) < Closes(z, i)
      BY <1>1, <1>4, <1>5
    <2>2. buildRl(z, i) = <<<<Opens(z, i), Gap(z, i)>>, <<Closes(z, i), {cur}>>>>
      BY <1>3, <1>5, <2>1
    <2> QED
      BY <2>1, <2>2, TwoPoints DEF cur
  <1>6. CASE cur < prev
    <2> HIDE DEF prev, cur, at
    <2>1. Opens(z, i) = at + cur /\ Closes(z, i) = at + prev /\ Gap(z, i) = {prev, cur} /\ Opens(z, i) < Closes(z, i)
      BY <1>1, <1>4, <1>6
    <2>2. ~(cur > prev)
      BY <1>1, <1>6
    <2>3. buildRl(z, i) = <<<<Opens(z, i), Gap(z, i)>>, <<Closes(z, i), {cur}>>>>
      BY <1>3, <1>6, <2>1, <2>2
    <2> QED
      BY <2>1, <2>3, TwoPoints DEF cur
  <1>7. CASE cur = prev
    <2> HIDE DEF prev, cur, at
    <2>1. Opens(z, i) = at + cur /\ Closes(z, i) = Opens(z, i)
      BY <1>1, <1>4, <1>7
    <2>2. ~(cur > prev) /\ ~(cur < prev)
      BY <1>1, <1>7
    <2>3. buildRl(z, i) = <<<<Opens(z, i), {cur}>>>>
      BY <1>3, <2>1, <2>2
    <2> QED
      BY <2>1, <2>3, OnePoint DEF cur
  <1> QED
    BY <1>1, <1>5, <1>6, <1>7

\* The list up to transition n answers every local time as if there were no others.
LookUp(z, n, p, s) ==
  \E j \in 0 .. n :
    /\ j > 0 => Opens(z, j) <= s
    /\ j < n => s < Opens(z, j + 1)
    /\ IF j = 0 THEN NoEntry(p, s) ELSE \E k : Entry(p, s, k) /\ p[k][2] = AnswerAt(z, j, s)
UpTo(z, n, p) ==
  /\ p \in Seq(Keyed)
  /\ \A k \in 1 .. Len(p) : n > 0 /\ p[k][1] <= Closes(z, n)
  /\ \A s \in Int : LookUp(z, n, p, s)

LEMMA NoneYet ==
    ASSUME NEW z
    PROVE  UpTo(z, 0, <<>>)
  <1>1. <<>> \in Seq(Keyed) /\ Len(<<>>) = 0
    BY EmptySeq
  <1>2. \A s : NoEntry(<<>>, s)
    BY <1>1 DEF NoEntry
  <1>3. \A s \in Int : LookUp(z, 0, <<>>, s)
    BY <1>2 DEF LookUp
  <1> QED
    BY <1>1, <1>3 DEF UpTo

LEMMA ChangeAdded ==
    ASSUME NEW z, IsZone(z), ChangesApart(z), NEW n \in 0 .. Len(z.ats) - 1, NEW p, UpTo(z, n, p),
           NEW q, OfChange(z, n + 1, q)
    PROVE  UpTo(z, n + 1, p \o q)
  <1> DEFINE i == n + 1
             r == p \o q
  <1>1. Len(z.ats) \in Nat /\ i \in 1 .. Len(z.ats) /\ n \in Nat
    BY ZoneKnown
  <1>2. p \in Seq(Keyed) /\ q \in Seq(Keyed)
    BY DEF UpTo, OfChange
  <1>3. Opens(z, i) \in Int /\ Closes(z, i) \in Int /\ Opens(z, i) <= Closes(z, i)
    BY <1>1, KeysKnown
  <1>4. \A k \in 1 .. Len(q) : Opens(z, i) <= q[k][1] /\ q[k][1] <= Closes(z, i) /\ q[k][1] \in Int
    BY <1>2, KeyedKnown DEF OfChange
  <1>5. \A k \in 1 .. Len(p) : p[k][1] <= Opens(z, i) /\ p[k][1] \in Int
    <2> TAKE k \in 1 .. Len(p)
    <2>1. n > 0 /\ p[k][1] <= Closes(z, n) /\ p[k][1] \in Int
      BY <1>2, KeyedKnown DEF UpTo
    <2>2. n \in 1 .. Len(z.ats) /\ n + 1 \in 2 .. Len(z.ats) /\ (n + 1) - 1 = n
      BY <1>1, <2>1
    <2>3. Closes(z, (n + 1) - 1) <= Opens(z, n + 1)
      BY <2>2 DEF ChangesApart
    <2>4. Closes(z, n) \in Int
      BY <2>2, KeysKnown
    <2> QED
      BY <1>3, <2>1, <2>2, <2>3, <2>4
  <1>6. NotAfter(p, q)
    <2> SUFFICES ASSUME NEW k \in 1 .. Len(p), NEW l \in 1 .. Len(q)
                 PROVE  p[k][1] <= q[l][1]
      BY DEF NotAfter
    <2>1. p[k][1] <= Opens(z, i) /\ p[k][1] \in Int /\ Opens(z, i) <= q[l][1] /\ q[l][1] \in Int
      BY <1>4, <1>5
    <2> QED
      BY <1>3, <2>1
  <1>7. /\ r \in Seq(Keyed)
        /\ \A k \in 1 .. Len(p) : r[k] = p[k]
        /\ \A k \in 1 .. Len(r) : k \in 1 .. Len(p) \/ (k - Len(p) \in 1 .. Len(q) /\ r[k] = q[k - Len(p)])
    BY <1>2, JoinedKnown
  <1> HIDE DEF r
  <1>8. \A k \in 1 .. Len(r) : i > 0 /\ r[k][1] <= Closes(z, i)
    <2> TAKE k \in 1 .. Len(r)
    <2>1. CASE k \in 1 .. Len(p)
      <3>1. r[k] = p[k] /\ p[k][1] <= Opens(z, i) /\ p[k][1] \in Int
        BY <1>5, <1>7, <2>1
      <3> QED
        BY <1>1, <1>3, <3>1
    <2>2. CASE k - Len(p) \in 1 .. Len(q) /\ r[k] = q[k - Len(p)]
      <3>1. q[k - Len(p)][1] <= Closes(z, i)
        BY <1>4, <2>2
      <3> QED
        BY <1>1, <2>2, <3>1
    <2> QED
      BY <1>7, <2>1, <2>2
  <1>9. ASSUME NEW s \in Int
        PROVE  LookUp(z, i, r, s)
    <2>1. CASE Opens(z, i) <= s
      <3>1. PICK k : Entry(q, s, k) /\ q[k][2] = AnswerAt(z, i, s)
        BY <2>1 DEF OfChange
      <3>2. Takes(r, Len(p) + k, s, q, k)
        <4>1. r = p \o q
          BY DEF r
        <4> QED
          BY <1>2, <1>6, <1>9, <3>1, <4>1, EntryOfSecond
      <3>3. Entry(r, s, Len(p) + k) /\ r[Len(p) + k][2] = AnswerAt(z, i, s)
        BY <3>1, <3>2 DEF Takes
      <3>4. i \in 0 .. i /\ i # 0 /\ ~(i < i)
        BY <1>1
      <3> HIDE DEF i
      <3> QED
        BY <2>1, <3>3, <3>4 DEF LookUp
    <2>2. CASE ~(Opens(z, i) <= s)
      <3>1. NoEntry(q, s)
        <4> SUFFICES ASSUME NEW k \in 1 .. Len(q), q[k][1] <= s
                     PROVE  FALSE
          BY DEF NoEntry
        <4>1. Opens(z, i) <= q[k][1] /\ q[k][1] \in Int
          BY <1>4
        <4> HIDE DEF i
        <4> QED
          BY <1>3, <2>2, <4>1
      <3>2. LookUp(z, n, p, s)
        BY DEF UpTo
      <3>3. PICK j \in 0 .. n :
              /\ j > 0 => Opens(z, j) <= s
              /\ j < n => s < Opens(z, j + 1)
              /\ IF j = 0 THEN NoEntry(p, s) ELSE \E k : Entry(p, s, k) /\ p[k][2] = AnswerAt(z, j, s)
        BY <3>2 DEF LookUp
      <3>4. j \in 0 .. i /\ s < Opens(z, j + 1)
        <4>1. j < n \/ j = n
          BY <1>1
        <4>2. s < Opens(z, n + 1)
          BY <1>3, <2>2
        <4> QED
          BY <1>1, <3>3, <4>1, <4>2
      <3>5. CASE j = 0
        <4>1. NoEntry(p, s)
          BY <3>3, <3>5
        <4>2. NoEntry(r, s)
          BY <1>2, <1>9, <3>1, <4>1, EntryOfFirst DEF r
        <4> QED
          BY <3>3, <3>4, <3>5, <4>2 DEF LookUp
      <3>6. CASE j # 0
        <4>1. PICK k : Entry(p, s, k) /\ p[k][2] = AnswerAt(z, j, s)
          BY <3>3, <3>6
        <4>2. Takes(r, k, s, p, k)
          <5>1. r = p \o q
            BY DEF r
          <5> QED
            BY <1>2, <1>9, <3>1, <4>1, <5>1, EntryOfFirst
        <4>3. \E l : Entry(r, s, l) /\ r[l][2] = AnswerAt(z, j, s)
          BY <4>1, <4>2 DEF Takes
        <4> QED
          BY <3>3, <3>4, <3>6, <4>3 DEF LookUp
      <3> QED
        BY <3>5, <3>6
    <2> QED
      BY <2>1, <2>2
  <1> QED
    BY <1>7, <1>8, <1>9 DEF UpTo, r

LEMMA ReversedKnown ==
    ASSUME NEW z, IsZone(z), ChangesApart(z)
    PROVE  UpTo(z, Len(z.ats), Reversed(z))
  <1> DEFINE n == Len(z.ats)
             seqs == [i \in 1 .. n |-> buildRl(z, i)]
  <1>1. n \in Nat /\ Len(seqs) = n
    <2>1. n \in Nat
      BY ZoneKnown
    <2> QED
      BY <2>1
  <1>2. \A i \in 1 .. n : seqs[i] \in Seq(Keyed) /\ OfChange(z, i, seqs[i])
    BY BuildKnown DEF OfChange
  <1>3. Reversed(z) = FlattenSeq(seqs)
    BY DEF Reversed
  <1>4. CASE n = 0
    <2>1. seqs = <<>>
      BY <1>4
    <2>2. FlattenSeq(seqs) = seqs
      BY <1>1, <1>4 DEF FlattenSeq
    <2> QED
      BY <1>3, <1>4, <2>1, <2>2, NoneYet
  <1>5. CASE n # 0
    <2> HIDE DEF seqs
    <2>1. n \in Nat \ {0}
      BY <1>1, <1>5
    <2>2. PICK f : Joins(seqs, f)
      BY <1>1, <1>2, <2>1, FlattenJoins
    <2> DEFINE I == {k \in Nat : k + 1 <= n => UpTo(z, k + 1, f[k + 1])}
    <2>3. 0 \in I
      <3>1. UpTo(z, 0 + 1, <<>> \o seqs[1])
        <4>1. 0 \in 0 .. n - 1 /\ 1 \in 1 .. n /\ 0 + 1 = 1
          BY <2>1
        <4>2. OfChange(z, 0 + 1, seqs[1])
          BY <1>2, <4>1
        <4> QED
          BY <4>1, <4>2, NoneYet, ChangeAdded
      <3>2. <<>> \o seqs[1] = seqs[1]
        BY <1>2, <2>1, ConcatEmptySeq
      <3>3. f[1] = seqs[1]
        BY <2>2 DEF Joins
      <3> QED
        BY <3>1, <3>2, <3>3
    <2>4. ASSUME NEW k \in Nat, k \in I
          PROVE  k + 1 \in I
      <3> SUFFICES ASSUME (k + 1) + 1 <= n
                   PROVE  UpTo(z, (k + 1) + 1, f[(k + 1) + 1])
        OBVIOUS
      <3>1. k + 1 \in 0 .. n - 1 /\ k + 2 \in 2 .. n /\ k + 2 \in 1 .. n /\ (k + 1) + 1 = k + 2 /\ (k + 2) - 1 = k + 1
        BY <1>1
      <3>2. UpTo(z, k + 1, f[k + 1])
        BY <1>1, <2>4, <3>1
      <3>3. f[k + 2] = f[k + 1] \o seqs[k + 2]
        BY <1>1, <2>2, <3>1 DEF Joins
      <3>4. OfChange(z, k + 2, seqs[k + 2])
        BY <1>2, <3>1
      <3>5. UpTo(z, (k + 1) + 1, f[k + 1] \o seqs[k + 2])
        BY <3>1, <3>2, <3>4, ChangeAdded
      <3> QED
        BY <3>1, <3>3, <3>5
    <2>5. Nat \subseteq I
      <3> HIDE DEF I
      <3> QED
        BY <2>3, <2>4, SetInduction
    <2>6. n - 1 \in I /\ (n - 1) + 1 = n
      <3>1. n - 1 \in Nat /\ (n - 1) + 1 = n
        BY <2>1
      <3> HIDE DEF I
      <3> QED
        BY <2>5, <3>1
    <2>7. UpTo(z, n, f[n])
      BY <2>1, <2>6
    <2> QED
      BY <1>1, <1>3, <2>2, <2>7 DEF Joins
  <1> QED
    BY <1>4, <1>5

\* getReverseOffset finds the offsets that the zone has at the local time.
LEMMA ReverseFound ==
    ASSUME NEW z, IsZone(z), ChangesApart(z), NEW local \in Int
    PROVE  getReverseOffset(z, local) = ShownAt(z, SecondsOf(local))
  <1> DEFINE s == SecondsOf(local)
             rl == Reversed(z)
  <1>1. s \in Int
    BY SecondsInt
  <1>2. rl \in Seq(Keyed) /\ LookUp(z, Len(z.ats), rl, s)
    <2> HIDE DEF s
    <2> QED
      BY <1>1, ReversedKnown DEF UpTo
  <1>3. /\ NoEntry(rl, s) => getReverseOffset(z, local) = {z.default}
        /\ \A k : Entry(rl, s, k) => getReverseOffset(z, local) = rl[k][2]
    BY <1>2, EntryTaken
  <1> HIDE DEF s, rl
  <1>4. PICK j \in 0 .. Len(z.ats) :
          /\ j > 0 => Opens(z, j) <= s
          /\ j < Len(z.ats) => s < Opens(z, j + 1)
          /\ IF j = 0 THEN NoEntry(rl, s) ELSE \E k : Entry(rl, s, k) /\ rl[k][2] = AnswerAt(z, j, s)
    BY <1>2 DEF LookUp
  <1>5. Located(z, s, j)
    BY <1>4 DEF Located
  <1>6. getReverseOffset(z, local) = AnswerAt(z, j, s)
    <2>1. CASE j = 0
      <3>1. getReverseOffset(z, local) = {z.default}
        BY <1>3, <1>4, <2>1
      <3>2. AnswerAt(z, j, s) = {z.default}
        BY <2>1 DEF AnswerAt, OffsetOf
      <3> QED
        BY <3>1, <3>2
    <2>2. CASE j # 0
      BY <1>3, <1>4, <2>2
    <2> QED
      BY <2>1, <2>2
  <1> QED
    BY <1>1, <1>5, <1>6, AnswerIsShown DEF s

(***************************************************************************)
(* Reading and writing.                                                    *)
(***************************************************************************)
LEMMA ProductsDiffer ==
    ASSUME NEW x \in Int, NEW y \in Int, NEW t \in Int, t - x * Den = t - y * Den
    PROVE  x = y
  <1>1. Den \in Nat \ {0}
    BY MonthsKnown
  <1>2. x * Den = y * Den
    BY <1>1
  <1> QED
    BY <1>1, <1>2

LEMMA WholeSeconds ==
    ASSUME NEW t \in Int, Plain(t)
    PROVE  SecondsOf(t) = t \div Den
  BY MonthsKnown DEF Plain, SecondsOf

LEMMA OffsetAtIs ==
    ASSUME NEW z, IsZone(z), NEW t \in Int, NEW j, InSegment(z, t \div Den, j)
    PROVE  OffsetAt(z, t) = OffsetOf(z, j)
  <1> DEFINE past == {i \in 1 .. Len(z.ats) : z.ats[i] * Den <= t}
  <1>1. Len(z.ats) \in Nat /\ \A i \in 1 .. Len(z.ats) : z.ats[i] \in Int
    BY ZoneKnown
  <1>2. t \div Den \in Int /\ j \in 0 .. Len(z.ats)
    BY UnitsAre DEF InSegment
  <1>3. \A i \in 1 .. Len(z.ats) : z.ats[i] * Den <= t <=> z.ats[i] <= t \div Den
    BY <1>1, UnitsAre
  <1>4. past = {i \in 1 .. Len(z.ats) : z.ats[i] <= t \div Den}
    BY <1>3
  <1>5. \A k, l \in 1 .. Len(z.ats) : k < l => z.ats[k] < z.ats[l]
    BY ChangesRise DEF Rising
  <1>6. \A i \in past : i <= j
    <2> SUFFICES ASSUME NEW i \in past, j < i
                 PROVE  FALSE
      BY <1>1, <1>2
    <2>1. i \in 1 .. Len(z.ats) /\ z.ats[i] <= t \div Den /\ j + 1 \in 1 .. Len(z.ats) /\ j < Len(z.ats)
      BY <1>1, <1>2, <1>4
    <2>2. t \div Den < z.ats[j + 1]
      BY <2>1 DEF InSegment
    <2>3. j + 1 = i \/ z.ats[j + 1] < z.ats[i]
      BY <1>2, <1>5, <2>1
    <2> HIDE DEF past
    <2> QED
      BY <1>1, <1>2, <2>1, <2>2, <2>3
  <1>7. OffsetAt(z, t) = IF past = {} THEN z.default ELSE z.off[Max(past)]
    BY DEF OffsetAt
  <1>8. CASE j = 0
    <2>1. past = {}
      BY <1>1, <1>6, <1>8
    <2> QED
      BY <1>7, <1>8, <2>1 DEF OffsetOf
  <1>9. CASE j # 0
    <2>1. j \in past
      BY <1>2, <1>4, <1>9 DEF InSegment
    <2> HIDE DEF past
    <2>2. \A i \in past : (\A k \in past : i >= k) => i = j
      <3> SUFFICES ASSUME NEW i \in past, \A k \in past : i >= k
                   PROVE  i = j
        OBVIOUS
      <3>1. i >= j /\ i <= j /\ i \in Int
        BY <1>6, <2>1 DEF past
      <3> QED
        BY <1>2, <3>1
    <2>3. \A i \in past : j >= i
      BY <1>2, <1>6 DEF past
    <2>4. Max(past) = j
      BY <2>1, <2>2, <2>3 DEF Max
    <2> QED
      BY <1>7, <1>9, <2>1, <2>4 DEF OffsetOf
  <1> QED
    BY <1>8, <1>9

\* An offset of the zone at a second is the offset of the units in it.
LEMMA ShownMeans ==
    ASSUME NEW z, IsZone(z), NEW local \in Int, NEW o \in ShownAt(z, local \div Den)
    PROVE  /\ o \in Int /\ o \in {z.default} \cup ToSet(z.off)
           /\ Local(z, local - o * Den) = local
  <1>1. PICK j \in 0 .. Len(z.ats) : Shows(z, local \div Den, j) /\ o = OffsetOf(z, j)
    BY DEF ShownAt
  <1>2. o \in Int
    BY <1>1, OffsetsInt
  <1>3. InSegment(z, local \div Den - o, j)
    BY <1>1 DEF Shows
  <1>4. (local - o * Den) \div Den = local \div Den - o /\ local - o * Den \in Int
    BY <1>2, UnitsAre
  <1>5. OffsetAt(z, local - o * Den) = o
    BY <1>1, <1>3, <1>4, OffsetAtIs
  <1>6. Local(z, local - o * Den) = local
    <2>1. o * Den \in Int
      BY <1>2, MonthsKnown
    <2>2. Local(z, local - o * Den) = (local - o * Den) + o * Den
      BY <1>5 DEF Local
    <2> QED
      BY <2>1, <2>2
  <1>7. o \in {z.default} \cup ToSet(z.off)
    <2>1. CASE j = 0
      BY <1>1, <2>1 DEF OffsetOf
    <2>2. CASE j # 0
      <3>1. j \in 1 .. Len(z.off)
        BY <1>1, <2>2, ZoneKnown DEF IsZone
      <3>2. z.off[j] \in ToSet(z.off)
        BY <3>1 DEF ToSet
      <3> QED
        BY <1>1, <2>2, <3>2 DEF OffsetOf
    <2> QED
      BY <2>1, <2>2
  <1> QED
    BY <1>2, <1>6, <1>7

LEMMA MeansShown ==
    ASSUME NEW z, IsZone(z), NEW local \in Int, NEW o \in Int, Local(z, local - o * Den) = local
    PROVE  o \in ShownAt(z, local \div Den)
  <1> DEFINE t == local - o * Den
  <1>1. t \in Int /\ t \div Den = local \div Den - o /\ t \div Den \in Int
    BY UnitsAre
  <1>2. PICK j \in 0 .. Len(z.ats) : InSegment(z, t \div Den, j)
    <2> HIDE DEF t
    <2> QED
      BY <1>1, SegmentExists
  <1>3. OffsetAt(z, t) = OffsetOf(z, j) /\ OffsetOf(z, j) \in Int
    <2> HIDE DEF t
    <2> QED
      BY <1>1, <1>2, OffsetAtIs, OffsetsInt
  <1>4. t + OffsetOf(z, j) * Den = local
    BY <1>3 DEF Local
  <1>5. OffsetOf(z, j) = o
    <2>1. local - OffsetOf(z, j) * Den = local - o * Den
      <3>1. OffsetOf(z, j) * Den \in Int /\ o * Den \in Int
        BY <1>3, MonthsKnown
      <3> QED
        BY <1>4, <3>1
    <2> QED
      BY <1>3, <2>1, ProductsDiffer
  <1>6. Shows(z, local \div Den, j)
    BY <1>1, <1>2, <1>5 DEF Shows
  <1> QED
    BY <1>2, <1>5, <1>6 DEF ShownAt

LEMMA MeaningsAre ==
    ASSUME NEW z, IsZone(z), NEW local \in Int
    PROVE  Meanings(z, local) = {local - o * Den : o \in ShownAt(z, local \div Den)}
  <1>1. ASSUME NEW t \in Meanings(z, local)
        PROVE  t \in {local - o * Den : o \in ShownAt(z, local \div Den)}
    <2>1. PICK o \in {z.default} \cup ToSet(z.off) : t = local - o * Den /\ Local(z, t) = local
      BY <1>1 DEF Meanings
    <2>2. o \in Int
      <3>1. \A i \in 1 .. Len(z.ats) : z.off[i] \in Int
        BY ZoneKnown
      <3>2. Len(z.ats) = Len(z.off) /\ z.default \in Int
        BY DEF IsZone
      <3> QED
        BY <2>1, <3>1, <3>2 DEF ToSet
    <2>3. o \in ShownAt(z, local \div Den)
      BY <2>1, <2>2, MeansShown
    <2> QED
      BY <2>1, <2>3
  <1>2. ASSUME NEW o \in ShownAt(z, local \div Den)
        PROVE  local - o * Den \in Meanings(z, local)
    <2>1. o \in {z.default} \cup ToSet(z.off) /\ Local(z, local - o * Den) = local
      BY <1>2, ShownMeans
    <2> QED
      BY <2>1 DEF Meanings
  <1> QED
    BY <1>1, <1>2

\* What a look-up for reading gives, and what is made of it.
ReadAs(z, local, res, end) ==
  LET offs == getReverseOffset(z, local)
  IN  \/ end = "done" /\ \E o \in offs : offs = {o} /\ res[1] = local - o * Den
      \/ end = "throw" /\ ~\E o \in offs : offs = {o}

LEMMA ReadOutcome ==
    ASSUME NEW f, NEW z, NEW arg, NEW local, Read(f, z, arg, local)
    PROVE  tf' = f /\ tz' = z /\ targ' = arg /\ ReadAs(z, local, tres', tpc')
  <1> DEFINE offs == getReverseOffset(z, local)
             chosen == CHOOSE o \in offs : TRUE
  <1>1. IF \E o \in offs : offs = {o} THEN Ends(f, z, arg, <<local - chosen * Den>>, "done")
        ELSE Ends(f, z, arg, <<>>, "throw")
    BY DEF Read
  <1>2. CASE \E o \in offs : offs = {o}
    <2>1. PICK o \in offs : offs = {o}
      BY <1>2
    <2> HIDE DEF offs
    <2>2. chosen = o
      BY <2>1
    <2>3. Ends(f, z, arg, <<local - o * Den>>, "done")
      BY <1>1, <1>2, <2>2
    <2>4. tf' = f /\ tz' = z /\ targ' = arg /\ tres' = <<local - o * Den>> /\ tpc' = "done"
      BY <2>3 DEF Ends
    <2>5. tres'[1] = local - o * Den
      BY <2>4
    <2> QED
      BY <2>1, <2>4, <2>5 DEF ReadAs, offs
  <1>3. CASE ~\E o \in offs : offs = {o}
    <2> HIDE DEF offs
    <2>1. tf' = f /\ tz' = z /\ targ' = arg /\ tpc' = "throw"
      BY <1>1, <1>3 DEF Ends
    <2> QED
      BY <1>3, <2>1 DEF ReadAs, offs
  <1> QED
    BY <1>2, <1>3

\* The two properties, of one call.
ReadRight(z, local, res, end) ==
  Plain(local) => IF end = "done" THEN Meanings(z, local) = {res[1]}
                  ELSE \A t \in Meanings(z, local) : Meanings(z, local) # {t}
WrittenRight(z, t, res, end) == end = "done" /\ Plain(t) /\ Plain(Local(z, t)) /\ ~AtFirst(z, t) => res[1] = t

LEMMA ReadFound ==
    ASSUME NEW z, IsZone(z), ChangesApart(z), NEW local \in Int, NEW res, NEW end, ReadAs(z, local, res, end)
    PROVE  ReadRight(z, local, res, end)
  <1> SUFFICES ASSUME Plain(local)
               PROVE  IF end = "done" THEN Meanings(z, local) = {res[1]}
                      ELSE \A t \in Meanings(z, local) : Meanings(z, local) # {t}
    BY DEF ReadRight
  <1> DEFINE offs == ShownAt(z, local \div Den)
             M == Meanings(z, local)
  <1>1. getReverseOffset(z, local) = offs
    BY WholeSeconds, ReverseFound
  <1>2. M = {local - o * Den : o \in offs}
    BY MeaningsAre
  <1>3. \A o \in offs : o \in Int
    BY ShownMeans
  <1>4. \/ end = "done" /\ \E o \in offs : offs = {o} /\ res[1] = local - o * Den
        \/ end = "throw" /\ ~\E o \in offs : offs = {o}
    BY <1>1 DEF ReadAs
  <1> HIDE DEF offs, M
  <1>5. CASE end = "done" /\ \E o \in offs : offs = {o} /\ res[1] = local - o * Den
    <2>1. M = {res[1]}
      BY <1>2, <1>5
    <2> QED
      BY <1>5, <2>1 DEF M
  <1>6. CASE end = "throw" /\ ~\E o \in offs : offs = {o}
    <2>1. ASSUME NEW t \in M, M = {t}
          PROVE  FALSE
      <3>1. PICK o \in offs : t = local - o * Den
        BY <1>2, <2>1
      <3>2. ASSUME NEW x \in offs
            PROVE  x = o
        <4>1. local - x * Den \in M
          BY <1>2, <3>2
        <4>2. local - x * Den = local - o * Den
          BY <2>1, <3>1, <4>1
        <4> QED
          BY <1>3, <3>1, <3>2, <4>2, ProductsDiffer
      <3>3. offs = {o}
        BY <3>1, <3>2
      <3> QED
        BY <1>6, <3>1, <3>3
    <2> QED
      BY <1>6, <2>1 DEF M
  <1> QED
    BY <1>4, <1>5, <1>6

\* The look-up of a time, away from the second of the first transition.
LEMMA GetOffsetIs ==
    ASSUME NEW z, IsZone(z), NEW t \in Int, Plain(t), ~AtFirst(z, t)
    PROVE  getoffset(z, t).off = OffsetAt(z, t)
  <1> DEFINE s == SecondsOf(t)
             found == bs(z, s)
  <1>1. /\ Len(z.ats) \in Nat /\ \A i \in 1 .. Len(z.ats) : z.ats[i] \in Int
        /\ z.ats \in Seq(Int)
    BY ZoneKnown
  <1>2. s = t \div Den /\ s \in Int
    BY WholeSeconds, SecondsInt
  <1>3. CASE z.ats # <<>> /\ z.ats[1] < s
    <2>1. Len(z.ats) # 0 /\ 1 \in 1 .. Len(z.ats)
      BY <1>1, <1>3, EmptySeq
    <2>2. z.ats[1] <= s
      BY <1>1, <1>2, <1>3, <2>1
    <2>3. Bracket(z, s, found)
      <3> HIDE DEF s, found
      <3> QED
        BY <1>2, <1>3, <2>2, BsRight DEF found
    <2>4. getoffset(z, t).off = z.off[found + 1]
      BY <1>3 DEF getoffset
    <2> HIDE DEF found
    <2>5. found \in 0 .. Len(z.ats) - 1 /\ found + 1 # 0
      BY <1>1, <2>3 DEF Bracket
    <2>6. InSegment(z, s, found + 1)
      <3>1. (found + 1) + 1 = found + 2 /\ found + 1 \in 0 .. Len(z.ats)
        BY <1>1, <2>5
      <3> HIDE DEF s
      <3> QED
        BY <2>3, <3>1 DEF Bracket, InSegment
    <2>7. OffsetAt(z, t) = OffsetOf(z, found + 1)
      BY <1>2, <2>6, OffsetAtIs
    <2> QED
      BY <2>4, <2>5, <2>7 DEF OffsetOf
  <1>4. CASE ~(z.ats # <<>> /\ z.ats[1] < s)
    <2>1. getoffset(z, t).off = z.default
      BY <1>4 DEF getoffset
    <2>2. InSegment(z, s, 0)
      <3>1. CASE z.ats = <<>>
        <4>1. Len(z.ats) = 0
          BY <3>1
        <4> QED
          BY <4>1 DEF InSegment
      <3>2. CASE z.ats # <<>>
        <4>1. z.ats[1] # s
          BY <3>2 DEF AtFirst
        <4>2. Len(z.ats) # 0 /\ 1 \in 1 .. Len(z.ats)
          BY <1>1, <3>2, EmptySeq
        <4> HIDE DEF s
        <4>3. s < z.ats[1]
          BY <1>1, <1>2, <1>4, <3>2, <4>1, <4>2
        <4> QED
          BY <1>1, <4>3 DEF InSegment
      <3> QED
        BY <3>1, <3>2
    <2>3. OffsetAt(z, t) = OffsetOf(z, 0)
      BY <1>2, <2>2, OffsetAtIs
    <2> QED
      BY <2>1, <2>3 DEF OffsetOf
  <1> QED
    BY <1>3, <1>4

LEMMA WrittenFound ==
    ASSUME NEW z, IsZone(z), ChangesApart(z), NEW t \in Int, NEW res, NEW end,
           ReadAs(z, t + getoffset(z, t).off * Den, res, end)
    PROVE  WrittenRight(z, t, res, end)
  <1> SUFFICES ASSUME end = "done", Plain(t), Plain(Local(z, t)), ~AtFirst(z, t)
               PROVE  res[1] = t
    BY DEF WrittenRight
  <1> DEFINE off == getoffset(z, t).off
             local == Local(z, t)
  <1>1. off = OffsetAt(z, t) /\ off \in Int
    BY GetOffsetIs, GetOffsetKnown DEF LookedUp
  <1> HIDE DEF off
  <1>2. off * Den \in Int
    BY <1>1, MonthsKnown
  <1>3. local = t + off * Den /\ local \in Int
    BY <1>1, <1>2 DEF Local
  <1>4. ReadAs(z, local, res, end)
    BY <1>3 DEF off
  <1>5. t = local - off * Den
    BY <1>2, <1>3
  <1>6. Plain(local)
    OBVIOUS
  <1> HIDE DEF local
  <1>7. Local(z, t) = local
    BY DEF local
  <1>8. off \in ShownAt(z, local \div Den)
    BY <1>1, <1>3, <1>5, <1>7, MeansShown
  <1>9. getReverseOffset(z, local) = ShownAt(z, local \div Den)
    BY <1>3, <1>6, WholeSeconds, ReverseFound
  <1>10. PICK o \in ShownAt(z, local \div Den) : ShownAt(z, local \div Den) = {o} /\ res[1] = local - o * Den
    BY <1>4, <1>9 DEF ReadAs
  <1>11. o = off
    BY <1>8, <1>10
  <1> QED
    BY <1>5, <1>10, <1>11

(***************************************************************************)
(* The calls.                                                              *)
(***************************************************************************)
Called(f, z, t, res, end) == tf = f /\ tz = z /\ targ[1] = t /\ tres = res /\ tpc = end
LocalInv ==
  /\ tpc = "loop" => tf = "seq"
  /\ \A z, t, res, end :
       /\ Called("read", z, t, res, end) => ReadRight(z, t, res, end)
       /\ Called("readback", z, t, res, end) => WrittenRight(z, t, res, end)

LEMMA OtherCalls ==
    ASSUME NEW f, NEW z, NEW arg, NEW res, NEW end, Ends(f, z, arg, res, end),
           f \notin {"read", "readback"}, end = "loop" => f = "seq"
    PROVE  LocalInv'
  <1>1. tf' = f /\ tpc' = end
    BY DEF Ends
  <1> QED
    BY <1>1 DEF LocalInv, Called

LEMMA ReadingKeeps ==
    ASSUME \A z \in Zone : ChangesApart(z), NEW z \in Zone, NEW t \in When, CallRead(z, t) \/ CallReadBack(z, t)
    PROVE  LocalInv'
  <1>1. IsZone(z) /\ ChangesApart(z) /\ t \in Int
    BY TimesAssumption
  <1>2. CASE CallRead(z, t)
    <2>1. Read("read", z, <<t>>, t)
      BY <1>2 DEF CallRead
    <2>2. tf' = "read" /\ tz' = z /\ targ' = <<t>> /\ ReadAs(z, t, tres', tpc')
      BY <2>1, ReadOutcome
    <2>3. \A res, end : ReadAs(z, t, res, end) => ReadRight(z, t, res, end)
      BY <1>1, ReadFound
    <2>4. ReadRight(z, t, tres', tpc') /\ tpc' # "loop"
      BY <2>2, <2>3 DEF ReadAs
    <2> QED
      BY <2>2, <2>4 DEF LocalInv, Called
  <1>3. CASE CallReadBack(z, t)
    <2> DEFINE local == t + getoffset(z, t).off * Den
    <2>1. Read("readback", z, <<t>>, local)
      BY <1>3 DEF CallReadBack
    <2>2. tf' = "readback" /\ tz' = z /\ targ' = <<t>> /\ ReadAs(z, local, tres', tpc')
      <3> HIDE DEF local
      <3> QED
        BY <2>1, ReadOutcome
    <2>3. \A res, end : ReadAs(z, local, res, end) => WrittenRight(z, t, res, end)
      BY <1>1, WrittenFound
    <2> HIDE DEF local
    <2>4. WrittenRight(z, t, tres', tpc') /\ tpc' # "loop"
      BY <2>2, <2>3 DEF ReadAs
    <2> QED
      BY <2>2, <2>4 DEF LocalInv, Called
  <1> QED
    BY <1>2, <1>3

LEMMA LocalStep ==
    ASSUME \A z \in Zone : ChangesApart(z)
    PROVE  LocalInv /\ [TNext]_zvars => LocalInv'
  <1> SUFFICES ASSUME LocalInv, [TNext]_zvars
               PROVE  LocalInv'
    OBVIOUS
  <1>1. CASE UNCHANGED zvars
    BY <1>1 DEF zvars, LocalInv, Called
  <1>2. ASSUME NEW z \in Zone, NEW t \in When, NEW p \in Shift, CallPlus(z, t, p)
        PROVE  LocalInv'
    BY <1>2, OtherCalls DEF CallPlus
  <1>3. ASSUME NEW z \in Zone, NEW t \in When, NEW unit \in Units, CallRound(z, t, unit)
        PROVE  LocalInv'
    BY <1>3, OtherCalls DEF CallRound
  <1>4. ASSUME NEW z \in Zone, NEW t \in When, NEW to \in SeqEnd, NEW p \in Shift, CallSeq(z, t, to, p)
        PROVE  LocalInv'
    BY <1>4, OtherCalls DEF CallSeq
  <1>5. ASSUME NEW z \in Zone, NEW t \in When, NEW n \in Lengths, NEW p \in Shift, CallSeqN(z, t, p, n)
        PROVE  LocalInv'
    BY <1>5, OtherCalls DEF CallSeqN
  <1>6. ASSUME NEW start \in SeqEnd, NEW to, NEW by, NEW n, CallSeqBy(start, to, by, n)
        PROVE  LocalInv'
    <2>1. \E res, end : Ends("seq_by", tz, <<start, to, by, n>>, res, end) /\ end # "loop"
      BY <1>6 DEF CallSeqBy
    <2> QED
      BY <2>1, OtherCalls
  <1>7. ASSUME SeqStep
        PROVE  LocalInv'
    <2>1. tpc = "loop" /\ tf = "seq"
      BY <1>7 DEF SeqStep, LocalInv
    <2>2. \E z, arg, res, end : Ends(tf, z, arg, res, end)
      BY <1>7 DEF SeqStep
    <2> QED
      BY <2>1, <2>2, OtherCalls
  <1> QED
    BY <1>1, <1>2, <1>3, <1>4, <1>5, <1>6, <1>7, ReadingKeeps DEF TNext

\* A local time is read as the time that it is in its zone and refused exactly when the
\* clock skips it or shows it twice, and a time that is written is read as itself, in
\* every zone whose changes are farther apart than they move the clock (Zone::buildRl,
\* getReverseOffset, getoffset in zone.cpp).
THEOREM LocalTimesFound ==
    ASSUME \A z \in Zone : ChangesApart(z)
    PROVE  TSpec => []LocalTimesAreRight
  <1>1. TInit => LocalInv
    BY DEF TInit, LocalInv, Called
  <1>2. LocalInv /\ [TNext]_zvars => LocalInv'
    BY LocalStep
  <1>3. LocalInv => LocalTimesAreRight
    BY DEF LocalInv, Called, LocalTimesAreRight, LocalTimeIsRead, WrittenIsRead, ReadRight, WrittenRight
  <1> QED
    BY <1>1, <1>2, <1>3, PTL DEF TSpec

(***************************************************************************)
(* Medians: a fold over a sequence, as a recursion over its positions.     *)
(***************************************************************************)
\* The largest of a set of positions.
LEMMA LargestIs ==
    ASSUME NEW n \in Nat, NEW S \in SUBSET (1 .. n), S # {}
    PROVE  Max(S) \in S /\ \A i \in S : i <= Max(S)
  <1> DEFINE D == {n - i : i \in S}
  <1>1. D \in SUBSET Nat /\ D # {}
    <2>1. \A i \in S : i \in 1 .. n /\ n - i \in Nat
      OBVIOUS
    <2> QED
      BY <2>1
  <1>2. PICK d \in D : \A e \in D : d <= e
    <2> HIDE DEF D
    <2> QED
      BY <1>1, LeastNumber
  <1>3. PICK m \in S : d = n - m
    BY <1>2
  <1>4. \A i \in S : m >= i
    <2> TAKE i \in S
    <2>1. n - m <= n - i
      BY <1>2, <1>3
    <2> QED
      BY <2>1
  <1>5. Max(S) \in S /\ \A i \in S : Max(S) >= i
    BY <1>4 DEF Max
  <1> QED
    BY <1>5

\* What a fold over the positions up to n is defined by: G takes a position and what the
\* positions before it have given.
Folded(g, n, z, G) ==
  \A s \in SUBSET (1 .. n) : g[s] = IF s = {} THEN z ELSE G[<<Max(s), g[s \ {Max(s)}]>>]
HasFold(V, n, z, G) == \E g \in [SUBSET (1 .. n) -> V] : Folded(g, n, z, G)

LEMMA FoldExists ==
    ASSUME NEW V, NEW z \in V, NEW n \in Nat, NEW G \in [Nat \X V -> V]
    PROVE  HasFold(V, n, z, G)
  <1> DEFINE D == SUBSET (1 .. n)
             W == [D -> V]
             Value(g, s) == IF s = {} THEN z ELSE G[<<Max(s), g[s \ {Max(s)}]>>]
             F == [p \in Nat \X W |-> [s \in D |-> Value(p[2], s)]]
             none == [s \in D |-> z]
  <1>1. ASSUME NEW s \in D, s # {}
        PROVE  Max(s) \in s /\ Max(s) \in Nat /\ s \ {Max(s)} \in D /\ \A i \in s : i <= Max(s)
    <2> DEFINE m == Max(s)
    <2>1. m \in s /\ \A i \in s : i <= m
      BY <1>1, LargestIs
    <2> HIDE DEF m
    <2>2. m \in Nat /\ s \ {m} \in D
      BY <2>1
    <2> QED
      BY <2>1, <2>2 DEF m
  <1>2. ASSUME NEW g \in W, NEW s \in D
        PROVE  Value(g, s) \in V
    <2>1. CASE s = {}
      BY <2>1
    <2>2. CASE s # {}
      <3>1. Max(s) \in Nat /\ g[s \ {Max(s)}] \in V
        BY <1>1, <2>2
      <3> DEFINE q == <<Max(s), g[s \ {Max(s)}]>>
      <3>2. q \in Nat \X V
        BY <3>1
      <3>3. G[q] \in V
        <4> HIDE DEF q
        <4> QED
          BY <3>2
      <3> QED
        BY <2>2, <3>3
    <2> QED
      BY <2>1, <2>2
  <1>3. F \in [Nat \X W -> W]
    <2> SUFFICES ASSUME NEW p \in Nat \X W
                 PROVE  [s \in D |-> Value(p[2], s)] \in W
      <3> HIDE DEF Value, D, W
      <3> QED
        OBVIOUS
    <2>1. p[2] \in W
      <3> HIDE DEF W
      <3> QED
        OBVIOUS
    <2>2. \A s \in D : Value(p[2], s) \in V
      BY <1>2, <2>1
    <2> HIDE DEF Value
    <2> QED
      BY <2>2
  <1>4. none \in W
    OBVIOUS
  <1>5. PICK q \in [0 .. n -> W] : q[0] = none /\ \A k \in 0 .. n - 1 : q[k + 1] = F[<<k, q[k]>>]
    <2> HIDE DEF F, W, none
    <2>1. HasSolution(W, none, F, n)
      BY <1>3, <1>4, Recursion
    <2> QED
      BY <2>1 DEF HasSolution, Follows
  <1>6. ASSUME NEW k \in 0 .. n - 1, NEW s \in D
        PROVE  q[k + 1][s] = Value(q[k], s)
    <2>1. q[k] \in W /\ k \in Nat
      <3> HIDE DEF W
      <3> QED
        OBVIOUS
    <2> DEFINE p == <<k, q[k]>>
    <2>2. p \in Nat \X W /\ p[2] = q[k]
      <3> HIDE DEF W
      <3> QED
        BY <2>1
    <2>3. F[p] = [t \in D |-> Value(p[2], t)]
      <3> HIDE DEF p, W, D, Value
      <3> QED
        BY <2>2
    <2>4. q[k + 1] = [t \in D |-> Value(q[k], t)]
      <3> HIDE DEF F, D, Value
      <3> QED
        BY <1>5, <2>2, <2>3
    <2> HIDE DEF Value
    <2> QED
      BY <2>4
  <1> DEFINE I == {k \in Nat : k <= n => \A s \in SUBSET (1 .. k) : q[k][s] = Value(q[k], s)}
  <1>7. 0 \in I
    <2> SUFFICES ASSUME NEW s \in SUBSET (1 .. 0)
                 PROVE  q[0][s] = Value(q[0], s)
      OBVIOUS
    <2>1. s = {} /\ s \in D
      OBVIOUS
    <2> QED
      BY <1>5, <2>1
  <1>8. ASSUME NEW k \in Nat, k \in I
        PROVE  k + 1 \in I
    <2> SUFFICES ASSUME k + 1 <= n, NEW s \in SUBSET (1 .. k + 1)
                 PROVE  q[k + 1][s] = Value(q[k + 1], s)
      <3> HIDE DEF Value
      <3> QED
        OBVIOUS
    <2>1. k \in 0 .. n - 1 /\ s \in D /\ k <= n
      OBVIOUS
    <2>2. q[k + 1][s] = Value(q[k], s)
      BY <1>6, <2>1
    <2>3. CASE s = {}
      BY <2>2, <2>3
    <2>4. CASE s # {}
      <3> DEFINE r == s \ {Max(s)}
      <3>1. r \in SUBSET (1 .. k) /\ r \in D
        <4>1. Max(s) \in s /\ \A i \in s : i <= Max(s)
          BY <1>1, <2>1, <2>4
        <4> DEFINE m == Max(s)
        <4> HIDE DEF m
        <4>2. m \in s /\ \A i \in s : i <= m
          BY <4>1 DEF m
        <4>3. \A i \in s \ {m} : i \in 1 .. k
          BY <4>2
        <4>4. r = s \ {m}
          BY DEF m
        <4> QED
          BY <2>1, <4>3, <4>4
      <3> HIDE DEF r
      <3>2. q[k][r] = Value(q[k], r)
        BY <1>8, <2>1, <3>1
      <3>3. q[k + 1][r] = Value(q[k], r)
        BY <1>6, <2>1, <3>1
      <3>4. q[k + 1][r] = q[k][r]
        BY <3>2, <3>3, Zenon
      <3> QED
        BY <2>2, <2>4, <3>4, Zenon DEF r
    <2> QED
      BY <2>3, <2>4
  <1>9. n \in I
    <2> HIDE DEF I
    <2> QED
      BY <1>7, <1>8, SetInduction
  <1>10. q[n] \in W
    <2> HIDE DEF W
    <2> QED
      OBVIOUS
  <1>11. \A s \in D : q[n][s] = Value(q[n], s)
    <2> HIDE DEF Value
    <2> QED
      BY <1>9
  <1>12. Folded(q[n], n, z, G)
    BY <1>11, Zenon DEF Folded
  <1> HIDE DEF D
  <1> QED
    BY <1>10, <1>12 DEF HasFold, D

\* Two priority queues; what is pushed to one is a number again.
Heaps == Seq(Int) \X Seq(Int)

\* u is t with v put behind its first p elements.
PutBehind(t, p, v, u) ==
  /\ p \in 0 .. Len(t) /\ u \in Seq(Int) /\ Len(u) = Len(t) + 1
  /\ \A i \in 1 .. Len(u) : u[i] = IF i <= p THEN t[i] ELSE IF i = p + 1 THEN v ELSE t[i - 1]

LEMMA AtMostKnown ==
    ASSUME NEW s \in Seq(Int), NEW v \in Int
    PROVE  AtMost(s, v) \in 0 .. Len(s)
  <1> DEFINE T == {i \in 1 .. Len(s) : s[i] <= v}
  <1>1. Len(s) \in Nat
    BY LenProperties
  <1>2. IsFiniteSet(1 .. Len(s)) /\ Cardinality(1 .. Len(s)) = Len(s)
    <2> DEFINE n == Len(s)
    <2> HIDE DEF n, T
    <2>1. n \in Nat
      BY <1>1 DEF n
    <2>2. IsFiniteSet(1 .. n) /\ Cardinality(1 .. n) = IF 1 > n THEN 0 ELSE n - 1 + 1
      BY <2>1, FS_Interval
    <2>3. Cardinality(1 .. n) = n
      BY <2>1, <2>2
    <2> QED
      BY <2>2, <2>3 DEF n
  <1>3. T \subseteq 1 .. Len(s)
    OBVIOUS
  <1> HIDE DEF T
  <1>4. IsFiniteSet(T) /\ Cardinality(T) <= Len(s)
    BY <1>2, <1>3, FS_Subset
  <1>5. Cardinality(T) \in Nat
    BY <1>4, FS_CardinalityType
  <1> QED
    BY <1>1, <1>4, <1>5 DEF AtMost, T

LEMMA InsertPuts ==
    ASSUME NEW s \in Seq(Int), NEW v \in Int, NEW c \in 0 .. Len(s)
    PROVE  PutBehind(s, c, v, InsertAt(s, c + 1, v))
  <1>1. Len(s) \in Nat
    BY LenProperties
  <1> DEFINE p == SubSeq(s, 1, (c + 1) - 1)
             q == SubSeq(s, c + 1, Len(s))
  <1>2. /\ p \in Seq(Int) /\ Len(p) = c /\ \A i \in 1 .. c : p[i] = s[i]
    <2>1. 1 \in 1 .. Len(s) + 1 /\ c \in 1 - 1 .. Len(s) /\ (c + 1) - 1 = c
      BY <1>1
    <2>2. SubSeq(s, 1, c) \in Seq(Int) /\ Len(SubSeq(s, 1, c)) = c - 1 + 1
          /\ \A i \in 1 .. c - 1 + 1 : SubSeq(s, 1, c)[i] = s[1 + i - 1]
      BY <1>1, <2>1, SubSeqProperties
    <2>3. c - 1 + 1 = c /\ \A i \in 1 .. c : 1 + i - 1 = i
      BY <1>1
    <2> QED
      BY <2>1, <2>2, <2>3
  <1>3. /\ q \in Seq(Int) /\ Len(q) = Len(s) - c /\ \A i \in 1 .. Len(s) - c : q[i] = s[c + i]
    <2>1. c + 1 \in 1 .. Len(s) + 1 /\ Len(s) \in (c + 1) - 1 .. Len(s)
      BY <1>1
    <2>2. SubSeq(s, c + 1, Len(s)) \in Seq(Int) /\ Len(SubSeq(s, c + 1, Len(s))) = Len(s) - (c + 1) + 1
          /\ \A i \in 1 .. Len(s) - (c + 1) + 1 : SubSeq(s, c + 1, Len(s))[i] = s[(c + 1) + i - 1]
      BY <1>1, <2>1, SubSeqProperties
    <2>3. Len(s) - (c + 1) + 1 = Len(s) - c /\ \A i \in 1 .. Len(s) - c : (c + 1) + i - 1 = c + i
      BY <1>1
    <2> QED
      BY <2>2, <2>3
  <1> DEFINE w == <<v>>
             r == p \o w
             u == r \o q
  <1>4. w \in Seq(Int) /\ Len(w) = 1 /\ w[1] = v
    OBVIOUS
  <1> HIDE DEF p, q, w
  <1>5. r \in Seq(Int) /\ Len(r) = c + 1 /\ \A i \in 1 .. c + 1 : r[i] = IF i <= c THEN p[i] ELSE w[i - c]
    <2>1. r \in Seq(Int) /\ Len(r) = Len(p) + Len(w)
          /\ \A i \in 1 .. Len(p) + Len(w) : r[i] = IF i <= Len(p) THEN p[i] ELSE w[i - Len(p)]
      BY <1>2, <1>4, ConcatProperties, Zenon
    <2> HIDE DEF r
    <2> QED
      BY <1>2, <1>4, <2>1
  <1> HIDE DEF r
  <1>6. u \in Seq(Int) /\ Len(u) = (c + 1) + (Len(s) - c)
        /\ \A i \in 1 .. (c + 1) + (Len(s) - c) : u[i] = IF i <= c + 1 THEN r[i] ELSE q[i - (c + 1)]
    <2>1. u \in Seq(Int) /\ Len(u) = Len(r) + Len(q)
          /\ \A i \in 1 .. Len(r) + Len(q) : u[i] = IF i <= Len(r) THEN r[i] ELSE q[i - Len(r)]
      BY <1>3, <1>5, ConcatProperties, Zenon
    <2> HIDE DEF u
    <2> QED
      BY <1>3, <1>5, <2>1
  <1>7. InsertAt(s, c + 1, v) = u
    BY DEF InsertAt, p, q, r, w
  <1> HIDE DEF u
  <1>8. Len(u) = Len(s) + 1
    BY <1>1, <1>6
  <1>9. ASSUME NEW i \in 1 .. Len(s) + 1
        PROVE  u[i] = IF i <= c THEN s[i] ELSE IF i = c + 1 THEN v ELSE s[i - 1]
    <2>0. i \in 1 .. (c + 1) + (Len(s) - c)
      BY <1>1
    <2>1. CASE i <= c
      <3>1. i <= c + 1 /\ i \in 1 .. c + 1 /\ i \in 1 .. c
        BY <1>1, <2>1
      <3>2. u[i] = r[i] /\ r[i] = p[i] /\ p[i] = s[i]
        BY <1>2, <1>5, <1>6, <2>0, <2>1, <3>1
      <3> QED
        BY <2>1, <3>2
    <2>2. CASE i = c + 1
      <3>1. i \in 1 .. c + 1 /\ ~(i <= c) /\ i - c = 1
        BY <1>1, <2>2
      <3>2. u[i] = r[i] /\ r[i] = w[i - c]
        <4>1. i <= c + 1
          BY <1>1, <2>2
        <4> QED
          BY <1>5, <1>6, <2>0, <3>1, <4>1
      <3> QED
        BY <1>4, <2>2, <3>1, <3>2
    <2>3. CASE i > c + 1
      <3>1. ~(i <= c + 1) /\ ~(i <= c) /\ i # c + 1 /\ i - (c + 1) \in 1 .. Len(s) - c /\ c + (i - (c + 1)) = i - 1
        BY <1>1, <2>3
      <3>2. u[i] = q[i - (c + 1)]
        BY <1>6, <2>0, <3>1
      <3>3. q[i - (c + 1)] = s[c + (i - (c + 1))]
        BY <1>3, <3>1
      <3> QED
        BY <3>1, <3>2, <3>3
    <2> QED
      BY <1>1, <2>1, <2>2, <2>3
  <1> QED
    BY <1>6, <1>7, <1>8, <1>9 DEF PutBehind

LEMMA PushKnown ==
    ASSUME NEW s \in Seq(Int), NEW v \in Int
    PROVE  /\ push(s, v) \in Seq(Int)
           /\ PutBehind(s, AtMost(s, v), v, push(s, v))
  BY AtMostKnown, InsertPuts DEF push, PutBehind

LEMMA TurnKept ==
    ASSUME NEW h \in Heaps, NEW v \in Int
    PROVE  MedianTurn(h, v) \in Heaps
  <1> DEFINE l == h[1]
             r == h[2]
  <1>1. l \in Seq(Int) /\ r \in Seq(Int) /\ Len(l) \in Nat /\ Len(r) \in Nat
    BY LenProperties DEF Heaps
  <1>2. push(l, v) \in Seq(Int) /\ push(r, v) \in Seq(Int)
    BY <1>1, PushKnown
  <1>3. CASE Len(l) = Len(r)
    <2>1. MedianTurn(h, v) = <<push(l, v), r>> \/ MedianTurn(h, v) = <<l, push(r, v)>>
      BY <1>3 DEF MedianTurn
    <2> HIDE DEF l, r
    <2> QED
      BY <1>1, <1>2, <2>1 DEF Heaps
  <1>4. CASE Len(l) < Len(r)
    <2>1. r # <<>>
      BY <1>1, <1>4
    <2>2. Head(r) \in Int /\ Tail(r) \in Seq(Int)
      BY <1>1, <2>1, HeadTailProperties
    <2>3. push(l, Head(r)) \in Seq(Int) /\ push(Tail(r), v) \in Seq(Int)
      BY <1>1, <2>2, PushKnown
    <2>4. \/ MedianTurn(h, v) = <<push(l, v), r>>
          \/ MedianTurn(h, v) = <<push(l, Head(r)), push(Tail(r), v)>>
      BY <1>1, <1>4 DEF MedianTurn
    <2> HIDE DEF l, r
    <2> QED
      BY <1>1, <1>2, <2>3, <2>4 DEF Heaps
  <1>5. CASE Len(l) > Len(r)
    <2>1. l # <<>>
      BY <1>1, <1>5
    <2>2. Last(l) \in Int
      <3>1. Len(l) \in 1 .. Len(l)
        BY <1>1, <1>5
      <3> HIDE DEF l
      <3> QED
        BY <1>1, <3>1, ElementOfSeq DEF Last
    <2>3. Front(l) \in Seq(Int)
      <3>1. 1 \in 1 .. Len(l) + 1 /\ Len(l) - 1 \in 1 - 1 .. Len(l)
        BY <1>1, <1>5
      <3> HIDE DEF l
      <3> QED
        BY <1>1, <3>1, SubSeqProperties DEF Front
    <2>4. push(Front(l), v) \in Seq(Int) /\ push(r, Last(l)) \in Seq(Int)
      BY <1>1, <2>2, <2>3, PushKnown
    <2>5. \/ MedianTurn(h, v) = <<l, push(r, v)>>
          \/ MedianTurn(h, v) = <<push(Front(l), v), push(r, Last(l))>>
      BY <1>1, <1>5 DEF MedianTurn
    <2> HIDE DEF l, r
    <2> QED
      BY <1>1, <1>2, <2>4, <2>5 DEF Heaps
  <1> QED
    BY <1>1, <1>3, <1>4, <1>5

\* The heaps after each element of s.
Turned(s, g) ==
  g = [t \in SUBSET (DOMAIN s) |-> IF t = {} THEN <<<<>>, <<>>>>
                                   ELSE MedianTurn(g[t \ {Max(t)}], s[Max(t)])]
Turns(s, f) ==
  /\ f[0] = <<<<>>, <<>>>> /\ f[Len(s)] = FoldLeft(MedianTurn, <<<<>>, <<>>>>, s)
  /\ \A k \in 0 .. Len(s) - 1 : f[k + 1] = MedianTurn(f[k], s[k + 1])

LEMMA TurnsExist ==
    ASSUME NEW s \in Seq(Int)
    PROVE  \E f : Turns(s, f)
  <1> DEFINE n == Len(s)
             z == <<<<>>, <<>>>>
             G == [p \in Nat \X Heaps |-> IF p[1] \in 1 .. n THEN MedianTurn(p[2], s[p[1]]) ELSE z]
  <1>1. n \in Nat /\ DOMAIN s = 1 .. n /\ z \in Heaps /\ \A i \in 1 .. n : s[i] \in Int
    <2>1. <<>> \in Seq(Int)
      OBVIOUS
    <2>2. z \in Heaps
      BY <2>1 DEF Heaps
    <2> HIDE DEF z
    <2> QED
      BY <2>2, LenProperties, ElementOfSeq
  <1>2. G \in [Nat \X Heaps -> Heaps]
    <2> SUFFICES ASSUME NEW p \in Nat \X Heaps
                 PROVE  (IF p[1] \in 1 .. n THEN MedianTurn(p[2], s[p[1]]) ELSE z) \in Heaps
      <3> HIDE DEF n, z
      <3> QED
        OBVIOUS
    <2>1. p[1] \in Nat /\ p[2] \in Heaps
      OBVIOUS
    <2>2. p[1] \in 1 .. n => MedianTurn(p[2], s[p[1]]) \in Heaps
      BY <1>1, <2>1, TurnKept
    <2> HIDE DEF n, z
    <2> QED
      BY <1>1, <2>2
  <1>3. PICK h \in [SUBSET (1 .. n) -> Heaps] : Folded(h, n, z, G)
    <2> HIDE DEF n, z, G
    <2>1. HasFold(Heaps, n, z, G)
      BY <1>1, <1>2, FoldExists
    <2> QED
      BY <2>1 DEF HasFold
  <1>4. ASSUME NEW t \in SUBSET (1 .. n), t # {}
        PROVE  h[t] = MedianTurn(h[t \ {Max(t)}], s[Max(t)])
    <2> DEFINE m == Max(t)
               y == h[t \ {m}]
               p == <<m, y>>
    <2>1. m \in 1 .. n
      <3>1. m \in t
        BY <1>1, <1>4, LargestIs
      <3> HIDE DEF m
      <3> QED
        BY <3>1
    <2>2. h[t] = G[p]
      <3> HIDE DEF z, G, n
      <3> QED
        BY <1>3, <1>4 DEF Folded
    <2> HIDE DEF m
    <2>3. y \in Heaps
      <3> HIDE DEF n
      <3> QED
        OBVIOUS
    <2> HIDE DEF y
    <2>4. p \in Nat \X Heaps /\ p[1] = m /\ p[2] = y
      BY <2>1, <2>3
    <2>5. G[p] = MedianTurn(p[2], s[p[1]])
      <3> HIDE DEF p, n, z
      <3> QED
        BY <2>1, <2>4
    <2> QED
      BY <2>2, <2>4, <2>5, Zenon DEF m, y
  <1>5. h[{}] = z
    <2>1. {} \in SUBSET (1 .. n)
      OBVIOUS
    <2> HIDE DEF z, G, n
    <2> QED
      BY <1>3, <2>1 DEF Folded
  <1> HIDE DEF G
  <1>6. Turned(s, h)
    <2> DEFINE e(t) == IF t = {} THEN z ELSE MedianTurn(h[t \ {Max(t)}], s[Max(t)])
    <2>1. \A t \in SUBSET (1 .. n) : h[t] = e(t)
      BY <1>4, <1>5
    <2>2. h = [t \in SUBSET (1 .. n) |-> h[t]]
      <3> HIDE DEF n
      <3> QED
        OBVIOUS
    <2>3. h = [t \in SUBSET (1 .. n) |-> e(t)]
      <3> HIDE DEF e, n
      <3> QED
        BY <2>1, <2>2
    <2> HIDE DEF n
    <2> QED
      BY <1>1, <2>3, Zenon DEF Turned
  <1> DEFINE g == CHOOSE q : Turned(s, q)
  <1>7. Turned(s, g)
    BY <1>6, Zenon
  <1>8. FoldLeft(MedianTurn, z, s) = g[DOMAIN s]
    BY DEF FoldLeft, MapThenFoldSet, Turned
  <1> HIDE DEF g
  <1>9. \A t \in SUBSET (1 .. n) : g[t] = IF t = {} THEN z ELSE MedianTurn(g[t \ {Max(t)}], s[Max(t)])
    <2> TAKE t \in SUBSET (1 .. n)
    <2>1. t \in SUBSET (DOMAIN s)
      BY <1>1, Zenon
    <2>2. g = [x \in SUBSET (DOMAIN s) |-> IF x = {} THEN z ELSE MedianTurn(g[x \ {Max(x)}], s[Max(x)])]
      BY <1>7, Zenon DEF Turned
    <2> DEFINE E(x) == IF x = {} THEN z ELSE MedianTurn(g[x \ {Max(x)}], s[Max(x)])
    <2>3. g = [x \in SUBSET (DOMAIN s) |-> E(x)]
      BY <2>2, Zenon
    <2>4. g[t] = E(t)
      <3> HIDE DEF E
      <3> QED
        BY <2>1, <2>3
    <2> QED
      BY <2>4, Zenon
  <1> DEFINE f == [k \in 0 .. n |-> g[1 .. k]]
  <1>10. f[0] = z
    <2>1. 1 .. 0 = {} /\ {} \in SUBSET (1 .. n) /\ 0 \in 0 .. n
      BY <1>1
    <2>2. f[0] = g[1 .. 0]
      BY <2>1
    <2> HIDE DEF f, n, z
    <2> QED
      BY <1>9, <2>1, <2>2, Zenon
  <1>11. f[n] = FoldLeft(MedianTurn, z, s)
    <2>1. f[n] = g[1 .. n]
      BY <1>1
    <2> HIDE DEF f, n
    <2> QED
      BY <1>1, <1>8, <2>1, Zenon
  <1>12. ASSUME NEW k \in 0 .. n - 1
         PROVE  f[k + 1] = MedianTurn(f[k], s[k + 1])
    <2> DEFINE t == 1 .. k + 1
    <2>1. t \in SUBSET (1 .. n) /\ k \in 0 .. n /\ k + 1 \in 0 .. n /\ k + 1 \in t /\ k + 1 \in Nat
      BY <1>1
    <2>2. f[k + 1] = g[t] /\ f[k] = g[1 .. k]
      BY <2>1
    <2> HIDE DEF f
    <2>3. Max(t) = k + 1
      <3> DEFINE m == Max(t)
      <3>1. m \in t /\ \A i \in t : i <= m
        <4>1. t # {}
          BY <2>1
        <4> HIDE DEF t, n
        <4> QED
          BY <1>1, <2>1, <4>1, LargestIs
      <3> HIDE DEF m
      <3>2. m = k + 1
        BY <2>1, <3>1
      <3> QED
        BY <3>2 DEF m
    <2>4. t \ {k + 1} = 1 .. k
      BY <1>1
    <2> HIDE DEF t, n, z
    <2>5. t # {}
      BY <2>1
    <2>6. g[t] = MedianTurn(g[t \ {Max(t)}], s[Max(t)])
      BY <1>9, <2>1, <2>5, Zenon
    <2> QED
      BY <2>2, <2>3, <2>4, <2>6, Zenon
  <1>13. Turns(s, f)
    <2> HIDE DEF f
    <2> QED
      BY <1>10, <1>11, <1>12 DEF Turns
  <1> QED
    BY <1>13

\* How many of the first k elements of s are at most v; t is those k elements in order.
AtMostOf(s, k, v) == Cardinality({i \in 1 .. k : s[i] <= v})
SortedOf(t, s, k) ==
  /\ t \in Seq(Int) /\ Len(t) = k
  /\ \A v \in Int : /\ AtMostOf(s, k, v) \in 0 .. k
                    /\ \A i \in 1 .. k : t[i] <= v <=> i <= AtMostOf(s, k, v)
Climbs(t) == \A i, j \in 1 .. Len(t) : i <= j => t[i] <= t[j]

LEMMA NextCounted ==
    ASSUME NEW s \in Seq(Int), NEW k \in 0 .. Len(s) - 1, NEW v \in Int
    PROVE  AtMostOf(s, k + 1, v) = AtMostOf(s, k, v) + (IF s[k + 1] <= v THEN 1 ELSE 0)
  <1> DEFINE T == {i \in 1 .. k : s[i] <= v}
             U == {i \in 1 .. k + 1 : s[i] <= v}
  <1>1. Len(s) \in Nat /\ k \in Nat
    BY LenProperties
  <1>2. IsFiniteSet(T)
    <2>1. T \subseteq 1 .. k
      OBVIOUS
    <2>2. IsFiniteSet(1 .. k)
      BY <1>1, FS_Interval
    <2> HIDE DEF T
    <2> QED
      BY <2>1, <2>2, FS_Subset
  <1>3. k + 1 \notin T
    OBVIOUS
  <1>4. Cardinality(T) \in Nat /\ Cardinality(T \cup {k + 1}) = Cardinality(T) + 1
    <2> HIDE DEF T
    <2> QED
      BY <1>2, <1>3, FS_AddElement, FS_CardinalityType
  <1>5. CASE s[k + 1] <= v
    <2>1. U = T \cup {k + 1}
      BY <1>1, <1>5
    <2> QED
      BY <1>4, <1>5, <2>1 DEF AtMostOf
  <1>6. CASE ~(s[k + 1] <= v)
    <2>1. U = T
      BY <1>1, <1>6
    <2>2. AtMostOf(s, k + 1, v) = Cardinality(U) /\ AtMostOf(s, k, v) = Cardinality(T)
      BY DEF AtMostOf
    <2> HIDE DEF T, U
    <2> QED
      BY <1>4, <1>6, <2>1, <2>2
  <1> QED
    BY <1>5, <1>6

LEMMA SortedClimbs ==
    ASSUME NEW t, NEW s, NEW k \in Nat, SortedOf(t, s, k)
    PROVE  Climbs(t) /\ \A i \in 1 .. k : t[i] \in Int
  <1>1. \A i \in 1 .. k : t[i] \in Int
    BY ElementOfSeq DEF SortedOf
  <1>2. ASSUME NEW i \in 1 .. k, NEW j \in 1 .. k, i <= j
        PROVE  t[i] <= t[j]
    <2> DEFINE v == t[j]
               c == AtMostOf(s, k, v)
    <2>1. v \in Int
      BY <1>1
    <2>2. c \in 0 .. k /\ \A l \in 1 .. k : t[l] <= v <=> l <= c
      BY <2>1 DEF SortedOf
    <2> HIDE DEF c
    <2>3. t[j] <= v
      BY <1>1
    <2>4. j <= c
      BY <2>2, <2>3
    <2>5. i <= c
      BY <1>2, <2>2, <2>4
    <2> QED
      BY <2>2, <2>5
  <1> QED
    BY <1>1, <1>2 DEF Climbs, SortedOf

LEMMA NothingSorted ==
    ASSUME NEW s
    PROVE  SortedOf(<<>>, s, 0)
  <1>1. \A v \in Int : {i \in 1 .. 0 : s[i] <= v} = {}
    OBVIOUS
  <1>2. \A v \in Int : AtMostOf(s, 0, v) = 0
    BY <1>1, FS_EmptySet DEF AtMostOf
  <1>3. <<>> \in Seq(Int) /\ Len(<<>>) = 0
    OBVIOUS
  <1> QED
    BY <1>2, <1>3 DEF SortedOf

\* The next element put where it belongs.
LEMMA SortedNext ==
    ASSUME NEW s \in Seq(Int), NEW k \in 0 .. Len(s) - 1, NEW t, SortedOf(t, s, k), NEW p \in 0 .. k, NEW u,
           PutBehind(t, p, s[k + 1], u),
           \A i \in 1 .. p : t[i] <= s[k + 1], \A i \in p + 1 .. k : s[k + 1] <= t[i]
    PROVE  SortedOf(u, s, k + 1)
  <1> DEFINE x == s[k + 1]
  <1>1. Len(s) \in Nat /\ k \in Nat /\ x \in Int
    BY LenProperties, ElementOfSeq
  <1>2. /\ u \in Seq(Int) /\ Len(u) = k + 1
        /\ \A i \in 1 .. k + 1 : u[i] = IF i <= p THEN t[i] ELSE IF i = p + 1 THEN x ELSE t[i - 1]
    BY DEF PutBehind, SortedOf
  <1>3. \A i \in 1 .. k : t[i] \in Int
    BY <1>1, SortedClimbs
  <1>4. (\A i \in 1 .. p : t[i] <= x) /\ (\A i \in p + 1 .. k : x <= t[i])
    OBVIOUS
  <1>5. ASSUME NEW v \in Int
        PROVE  /\ AtMostOf(s, k + 1, v) \in 0 .. k + 1
               /\ \A i \in 1 .. k + 1 : u[i] <= v <=> i <= AtMostOf(s, k + 1, v)
    <2> DEFINE c == AtMostOf(s, k, v)
               d == AtMostOf(s, k + 1, v)
    <2>1. c \in 0 .. k /\ \A i \in 1 .. k : t[i] <= v <=> i <= c
      BY DEF SortedOf
    <2>2. d = c + (IF x <= v THEN 1 ELSE 0)
      BY NextCounted
    <2> HIDE DEF c, d, x
    <2>3. CASE x <= v
      <3>1. d = c + 1
        BY <2>2, <2>3
      <3>2. p <= c
        <4>1. CASE p = 0
          BY <2>1, <4>1
        <4>2. CASE p # 0
          <5>1. p \in 1 .. k /\ p \in 1 .. p /\ t[p] \in Int
            BY <1>1, <1>3, <4>2
          <5>2. t[p] <= v
            BY <1>1, <1>4, <2>3, <5>1
          <5> QED
            BY <2>1, <5>1, <5>2
        <4> QED
          BY <4>1, <4>2
      <3>3. ASSUME NEW i \in 1 .. k + 1
            PROVE  u[i] <= v <=> i <= d
        <4>1. CASE i <= p
          <5>1. i \in 1 .. k /\ u[i] = t[i] /\ i <= c
            BY <1>1, <1>2, <2>1, <3>2, <4>1
          <5> QED
            BY <2>1, <3>1, <5>1
        <4>2. CASE i = p + 1
          <5>1. u[i] = x
            BY <1>1, <1>2, <4>2
          <5> QED
            BY <2>1, <2>3, <3>1, <3>2, <4>2, <5>1
        <4>3. CASE i > p + 1
          <5>0. i \in 1 .. k + 1 /\ ~(i <= p) /\ i # p + 1
            BY <4>3
          <5>1. i - 1 \in 1 .. k /\ u[i] = t[i - 1]
            <6>1. u[i] = t[i - 1]
              BY <1>2, <5>0
            <6>2. i - 1 \in 1 .. k
              BY <1>1, <4>3
            <6> QED
              BY <6>1, <6>2
          <5>2. t[i - 1] <= v <=> i - 1 <= c
            BY <2>1, <5>1
          <5> QED
            BY <2>1, <3>1, <5>1, <5>2
        <4> QED
          BY <1>1, <4>1, <4>2, <4>3
      <3> QED
        BY <2>1, <3>1, <3>3 DEF d
    <2>4. CASE ~(x <= v)
      <3>1. d = c
        BY <2>1, <2>2, <2>4
      <3>2. c <= p
        <4>1. CASE p = k
          BY <2>1, <4>1
        <4>2. CASE p # k
          <5>1. p + 1 \in 1 .. k /\ p + 1 \in p + 1 .. k /\ t[p + 1] \in Int
            BY <1>1, <1>3, <4>2
          <5>2. ~(t[p + 1] <= v)
            BY <1>1, <1>4, <2>4, <5>1
          <5> QED
            BY <2>1, <5>1, <5>2
        <4> QED
          BY <4>1, <4>2
      <3>3. ASSUME NEW i \in 1 .. k + 1
            PROVE  u[i] <= v <=> i <= d
        <4>1. CASE i <= p
          <5>1. i \in 1 .. k /\ u[i] = t[i]
            BY <1>1, <1>2, <4>1
          <5> QED
            BY <2>1, <3>1, <5>1
        <4>2. CASE i = p + 1
          <5>1. u[i] = x
            BY <1>1, <1>2, <4>2
          <5> QED
            BY <2>1, <2>4, <3>1, <3>2, <4>2, <5>1
        <4>3. CASE i > p + 1
          <5>0. i \in 1 .. k + 1 /\ ~(i <= p) /\ i # p + 1
            BY <4>3
          <5>1. i - 1 \in 1 .. k /\ u[i] = t[i - 1]
            <6>1. u[i] = t[i - 1]
              BY <1>2, <5>0
            <6>2. i - 1 \in 1 .. k
              BY <1>1, <4>3
            <6> QED
              BY <6>1, <6>2
          <5>2. t[i - 1] <= v <=> i - 1 <= c
            BY <2>1, <5>1
          <5> QED
            BY <2>1, <3>1, <3>2, <4>3, <5>1, <5>2
        <4> QED
          BY <1>1, <4>1, <4>2, <4>3
      <3> QED
        BY <2>1, <3>1, <3>3 DEF d
    <2> QED
      BY <2>3, <2>4
  <1> QED
    BY <1>2, <1>5 DEF SortedOf

\* In a sequence that climbs, push puts an element behind all that are not larger.
LEMMA AtMostFirst ==
    ASSUME NEW s \in Seq(Int), Climbs(s), NEW v \in Int
    PROVE  AtMost(s, v) \in 0 .. Len(s) /\ \A i \in 1 .. Len(s) : s[i] <= v <=> i <= AtMost(s, v)
  <1> DEFINE n == Len(s)
             T == {i \in 1 .. n : s[i] <= v}
  <1>1. n \in Nat /\ \A i \in 1 .. n : s[i] \in Int
    BY LenProperties, ElementOfSeq
  <1>2. CASE T = {}
    <2>1. AtMost(s, v) = 0
      BY <1>2, FS_EmptySet DEF AtMost
    <2> HIDE DEF n
    <2> QED
      BY <1>1, <1>2, <2>1 DEF n
  <1>3. CASE T # {}
    <2> DEFINE m == Max(T)
    <2>1. m \in T /\ \A i \in T : i <= m
      <3>1. T \in SUBSET (1 .. n)
        OBVIOUS
      <3> HIDE DEF n, T
      <3> QED
        BY <1>1, <1>3, <3>1, LargestIs
    <2> HIDE DEF m
    <2>2. m \in 1 .. n /\ s[m] <= v
      BY <2>1
    <2>3. \A i \in 1 .. n : s[i] <= v <=> i <= m
      <3> TAKE i \in 1 .. n
      <3>1. s[i] <= v => i <= m
        BY <2>1
      <3>2. i <= m => s[i] <= v
        <4> SUFFICES ASSUME i <= m
                     PROVE  s[i] <= v
          OBVIOUS
        <4>1. s[i] <= s[m]
          BY <2>2 DEF Climbs
        <4> QED
          BY <1>1, <2>2, <4>1
      <3> QED
        BY <3>1, <3>2
    <2>4. T = 1 .. m
      BY <1>1, <2>2, <2>3
    <2>5. Cardinality(T) = m
      <3> HIDE DEF T
      <3> QED
        BY <1>1, <2>2, <2>4, FS_Interval
    <2>6. AtMost(s, v) = m
      BY <2>5 DEF AtMost
    <2> HIDE DEF T
    <2> QED
      BY <1>1, <2>2, <2>3, <2>6
  <1> QED
    BY <1>2, <1>3

\* The k-th smallest element.
LEMMA RankedIs ==
    ASSUME NEW s \in Seq(Int), NEW t, SortedOf(t, s, Len(s)), NEW k \in 1 .. Len(s)
    PROVE  Ranked(s, k) = t[k]
  <1> DEFINE n == Len(s)
  <1>1. n \in Nat /\ \A i \in 1 .. n : t[i] \in Int /\ s[i] \in Int
    BY LenProperties, ElementOfSeq, SortedClimbs
  <1>2. \A v \in Int : AtMost(s, v) \in 0 .. n /\ \A i \in 1 .. n : t[i] <= v <=> i <= AtMost(s, v)
    BY DEF AtMost, AtMostOf, SortedOf
  <1> DEFINE x == t[k]
             P(v) == AtMost(s, v - 1) < k /\ k <= AtMost(s, v)
  <1>3. x \in Int /\ P(x)
    <2>1. x \in Int /\ x - 1 \in Int /\ k \in 1 .. n
      BY <1>1
    <2>2. (x <= x - 1 <=> k <= AtMost(s, x - 1)) /\ (x <= x <=> k <= AtMost(s, x))
      BY <1>2, <2>1
    <2>3. AtMost(s, x - 1) \in 0 .. n /\ AtMost(s, x) \in 0 .. n
      BY <1>2, <2>1
    <2> HIDE DEF x, n
    <2> QED
      BY <1>1, <2>1, <2>2, <2>3
  <1>4. ASSUME NEW v \in Int, P(v)
        PROVE  v = x
    <2>1. v - 1 \in Int /\ k \in 1 .. n
      BY <1>1
    <2>2. (x <= v - 1 <=> k <= AtMost(s, v - 1)) /\ (x <= v <=> k <= AtMost(s, v))
      BY <1>2, <2>1
    <2>3. AtMost(s, v - 1) \in 0 .. n /\ AtMost(s, v) \in 0 .. n
      BY <1>2, <2>1
    <2> HIDE DEF x, n
    <2> QED
      BY <1>1, <1>3, <1>4, <2>1, <2>2, <2>3
  <1>5. x \in ToSet(s)
    <2> SUFFICES ASSUME \A i \in 1 .. n : s[i] # x
                 PROVE  FALSE
      <3>1. \A i \in 1 .. n : i \in DOMAIN s
        BY LenProperties
      <3> QED
        BY <3>1 DEF ToSet
    <2>1. \A i \in 1 .. n : s[i] <= x <=> s[i] <= x - 1
      BY <1>1, <1>3
    <2>2. {i \in 1 .. n : s[i] <= x} = {i \in 1 .. n : s[i] <= x - 1}
      BY <2>1
    <2>3. AtMost(s, x) = AtMost(s, x - 1)
      BY <2>2 DEF AtMost
    <2>4. AtMost(s, x) \in 0 .. n /\ k \in 1 .. n
      BY <1>2, <1>3
    <2> HIDE DEF x, n
    <2> QED
      BY <1>1, <1>3, <2>3, <2>4
  <1>6. \A v \in ToSet(s) : v \in Int
    BY <1>1, LenProperties DEF ToSet
  <1> HIDE DEF x, P
  <1>7. (CHOOSE v \in ToSet(s) : P(v)) = x
    BY <1>3, <1>4, <1>5, <1>6
  <1> QED
    BY <1>7, Zenon DEF Ranked, P, x

\* t is p and q joined.
IsJoined(p, q, t) ==
  /\ t \in Seq(Int) /\ Len(t) = Len(p) + Len(q) /\ Len(p) \in Nat /\ Len(q) \in Nat
  /\ \A i \in 1 .. Len(p) : p[i] \in Int /\ t[i] = p[i]
  /\ \A i \in 1 .. Len(q) : q[i] \in Int /\ t[Len(p) + i] = q[i]

LEMMA JoinedIs ==
    ASSUME NEW p \in Seq(Int), NEW q \in Seq(Int), NEW t, t = p \o q
    PROVE  IsJoined(p, q, t)
  <1>1. Len(p) \in Nat /\ Len(q) \in Nat
    BY LenProperties
  <1>2. (\A i \in 1 .. Len(p) : p[i] \in Int) /\ (\A i \in 1 .. Len(q) : q[i] \in Int)
    BY ElementOfSeq
  <1>3. /\ t \in Seq(Int) /\ Len(t) = Len(p) + Len(q)
        /\ \A i \in 1 .. Len(p) + Len(q) : t[i] = IF i <= Len(p) THEN p[i] ELSE q[i - Len(p)]
    BY ConcatProperties, Zenon
  <1>4. ASSUME NEW i \in 1 .. Len(p)
        PROVE  t[i] = p[i]
    <2>1. i \in 1 .. Len(p) + Len(q) /\ i <= Len(p)
      BY <1>1
    <2> QED
      BY <1>3, <2>1
  <1>5. ASSUME NEW i \in 1 .. Len(q)
        PROVE  t[Len(p) + i] = q[i]
    <2> DEFINE l == Len(p) + i
    <2>1. l \in 1 .. Len(p) + Len(q) /\ ~(l <= Len(p)) /\ l - Len(p) = i
      BY <1>1
    <2> HIDE DEF l
    <2>2. t[l] = q[l - Len(p)]
      BY <1>3, <2>1
    <2> QED
      BY <2>1, <2>2 DEF l
  <1> QED
    BY <1>1, <1>2, <1>3, <1>4, <1>5 DEF IsJoined

\* Where a sequence is joined from two, what holds of each part's positions holds of all.
LEMMA JoinedPosition ==
    ASSUME NEW m \in Nat, NEW n \in Nat, NEW i \in 1 .. m + n
    PROVE  i \in 1 .. m \/ \E j \in 1 .. n : i = m + j
  <1>1. CASE i <= m
    BY <1>1
  <1>2. CASE i > m
    <2>1. i - m \in 1 .. n /\ i = m + (i - m)
      BY <1>2
    <2> QED
      BY <2>1
  <1> QED
    BY <1>1, <1>2

LEMMA PartsClimb ==
    ASSUME NEW p \in Seq(Int), NEW q \in Seq(Int), NEW t, t = p \o q, Climbs(t)
    PROVE  /\ Climbs(p) /\ Climbs(q)
           /\ \A i \in 1 .. Len(p), j \in 1 .. Len(q) : p[i] <= q[j]
  <1>1. /\ Len(t) = Len(p) + Len(q) /\ Len(p) \in Nat /\ Len(q) \in Nat
        /\ \A i \in 1 .. Len(p) : p[i] \in Int /\ t[i] = p[i]
        /\ \A i \in 1 .. Len(q) : q[i] \in Int /\ t[Len(p) + i] = q[i]
    BY JoinedIs DEF IsJoined
  <1>2. ASSUME NEW i \in 1 .. Len(p), NEW j \in 1 .. Len(p), i <= j
        PROVE  p[i] <= p[j]
    <2>1. i \in 1 .. Len(t) /\ j \in 1 .. Len(t)
      BY <1>1
    <2>2. t[i] <= t[j]
      BY <1>2, <2>1 DEF Climbs
    <2> QED
      BY <1>1, <2>2
  <1>3. ASSUME NEW i \in 1 .. Len(q), NEW j \in 1 .. Len(q), i <= j
        PROVE  q[i] <= q[j]
    <2>1. Len(p) + i \in 1 .. Len(t) /\ Len(p) + j \in 1 .. Len(t) /\ Len(p) + i <= Len(p) + j
      BY <1>1, <1>3
    <2>2. t[Len(p) + i] <= t[Len(p) + j]
      BY <2>1 DEF Climbs
    <2> QED
      BY <1>1, <2>2
  <1>4. ASSUME NEW i \in 1 .. Len(p), NEW j \in 1 .. Len(q)
        PROVE  p[i] <= q[j]
    <2>1. i \in 1 .. Len(t) /\ Len(p) + j \in 1 .. Len(t) /\ i <= Len(p) + j
      BY <1>1
    <2>2. t[i] <= t[Len(p) + j]
      BY <2>1 DEF Climbs
    <2> QED
      BY <1>1, <2>2
  <1> QED
    BY <1>2, <1>3, <1>4 DEF Climbs

\* u is t with v where it belongs.
PutRight(t, v, u) ==
  \E p \in 0 .. Len(t) : /\ PutBehind(t, p, v, u)
                         /\ \A i \in 1 .. p : t[i] <= v
                         /\ \A i \in p + 1 .. Len(t) : v <= t[i]

LEMMA PushedFirst ==
    ASSUME NEW p \in Seq(Int), NEW q \in Seq(Int), NEW t, t = p \o q, Climbs(t), NEW v \in Int,
           \A j \in 1 .. Len(q) : v <= q[j], NEW u, u = push(p, v) \o q
    PROVE  PutRight(t, v, u)
  <1> DEFINE c == AtMost(p, v)
             y == push(p, v)
  <1>1. /\ t \in Seq(Int) /\ Len(t) = Len(p) + Len(q) /\ Len(p) \in Nat /\ Len(q) \in Nat
        /\ \A i \in 1 .. Len(p) : p[i] \in Int /\ t[i] = p[i]
        /\ \A i \in 1 .. Len(q) : q[i] \in Int /\ t[Len(p) + i] = q[i]
    BY JoinedIs DEF IsJoined
  <1>2. /\ c \in 0 .. Len(p) /\ y \in Seq(Int) /\ Len(y) = Len(p) + 1
        /\ \A i \in 1 .. Len(p) + 1 : y[i] = IF i <= c THEN p[i] ELSE IF i = c + 1 THEN v ELSE p[i - 1]
    <2> HIDE DEF c, y
    <2>1. PutBehind(p, c, v, y)
      BY PushKnown DEF c, y
    <2> QED
      BY <2>1 DEF PutBehind
  <1>3. \A i \in 1 .. Len(p) : p[i] <= v <=> i <= c
    BY PartsClimb, AtMostFirst
  <1> HIDE DEF c, y
  <1>4. /\ u \in Seq(Int) /\ Len(u) = Len(y) + Len(q)
        /\ \A i \in 1 .. Len(y) : y[i] \in Int /\ u[i] = y[i]
        /\ \A i \in 1 .. Len(q) : q[i] \in Int /\ u[Len(y) + i] = q[i]
    <2>1. u = y \o q
      BY DEF y
    <2>2. IsJoined(y, q, u)
      BY <1>2, <2>1, JoinedIs
    <2> QED
      BY <2>2 DEF IsJoined
  <1>5. c \in 0 .. Len(t) /\ Len(u) = Len(t) + 1 /\ Len(u) = (Len(p) + 1) + Len(q)
    BY <1>1, <1>2, <1>4
  <1>6. ASSUME NEW i \in 1 .. Len(u)
        PROVE  u[i] = IF i <= c THEN t[i] ELSE IF i = c + 1 THEN v ELSE t[i - 1]
    <2>1. CASE i \in 1 .. Len(p) + 1
      <3>1. u[i] = y[i] /\ y[i] = IF i <= c THEN p[i] ELSE IF i = c + 1 THEN v ELSE p[i - 1]
        BY <1>2, <1>4, <2>1
      <3>2. i <= c => t[i] = p[i]
        <4> SUFFICES ASSUME i <= c PROVE i \in 1 .. Len(p)
          BY <1>1
        <4> QED
          BY <1>1, <1>2, <2>1
      <3>3. ~(i <= c) /\ i # c + 1 => t[i - 1] = p[i - 1]
        <4> SUFFICES ASSUME ~(i <= c), i # c + 1 PROVE i - 1 \in 1 .. Len(p)
          BY <1>1
        <4> QED
          BY <1>1, <1>2, <2>1
      <3> QED
        BY <3>1, <3>2, <3>3, Zenon
    <2>2. CASE \E j \in 1 .. Len(q) : i = (Len(p) + 1) + j
      <3>1. PICK j \in 1 .. Len(q) : i = (Len(p) + 1) + j
        BY <2>2
      <3>2. ~(i <= c) /\ i # c + 1 /\ i - 1 = Len(p) + j
        BY <1>1, <1>2, <3>1
      <3>3. u[i] = q[j] /\ t[i - 1] = q[j]
        BY <1>1, <1>2, <1>4, <3>1, <3>2
      <3> QED
        BY <3>2, <3>3
    <2>3. Len(p) + 1 \in Nat /\ i \in 1 .. (Len(p) + 1) + Len(q)
      BY <1>1, <1>5
    <2>4. i \in 1 .. Len(p) + 1 \/ \E j \in 1 .. Len(q) : i = (Len(p) + 1) + j
      BY <1>1, <2>3, JoinedPosition
    <2> QED
      BY <2>1, <2>2, <2>4, Zenon
  <1>7. PutBehind(t, c, v, u)
    BY <1>4, <1>5, <1>6 DEF PutBehind
  <1>8. \A i \in 1 .. c : t[i] <= v
    <2> TAKE i \in 1 .. c
    <2>1. i \in 1 .. Len(p) /\ i <= c
      BY <1>1, <1>2
    <2> QED
      BY <1>1, <1>3, <2>1
  <1>9. \A i \in c + 1 .. Len(t) : v <= t[i]
    <2> TAKE i \in c + 1 .. Len(t)
    <2>1. i \in 1 .. Len(p) + Len(q)
      BY <1>1, <1>2
    <2>2. CASE i \in 1 .. Len(p)
      <3>1. ~(p[i] <= v)
        BY <1>2, <1>3, <2>2
      <3> QED
        BY <1>1, <2>2, <3>1
    <2>3. CASE \E j \in 1 .. Len(q) : i = Len(p) + j
      BY <1>1, <2>3
    <2> QED
      BY <1>1, <2>1, <2>2, <2>3, JoinedPosition
  <1> QED
    BY <1>5, <1>7, <1>8, <1>9 DEF PutRight

LEMMA PushedSecond ==
    ASSUME NEW p \in Seq(Int), NEW q \in Seq(Int), NEW t, t = p \o q, Climbs(t), NEW v \in Int,
           \A j \in 1 .. Len(p) : p[j] <= v, NEW u, u = p \o push(q, v)
    PROVE  PutRight(t, v, u)
  <1> DEFINE c == AtMost(q, v)
             y == push(q, v)
             d == Len(p) + c
  <1>1. /\ t \in Seq(Int) /\ Len(t) = Len(p) + Len(q) /\ Len(p) \in Nat /\ Len(q) \in Nat
        /\ \A i \in 1 .. Len(p) : p[i] \in Int /\ t[i] = p[i]
        /\ \A i \in 1 .. Len(q) : q[i] \in Int /\ t[Len(p) + i] = q[i]
    BY JoinedIs DEF IsJoined
  <1>2. /\ c \in 0 .. Len(q) /\ y \in Seq(Int) /\ Len(y) = Len(q) + 1
        /\ \A i \in 1 .. Len(q) + 1 : y[i] = IF i <= c THEN q[i] ELSE IF i = c + 1 THEN v ELSE q[i - 1]
    <2> HIDE DEF c, y
    <2>1. PutBehind(q, c, v, y)
      BY PushKnown DEF c, y
    <2> QED
      BY <2>1 DEF PutBehind
  <1>3. \A i \in 1 .. Len(q) : q[i] <= v <=> i <= c
    BY PartsClimb, AtMostFirst
  <1> HIDE DEF c, y
  <1>4. /\ u \in Seq(Int) /\ Len(u) = Len(p) + Len(y)
        /\ \A i \in 1 .. Len(p) : p[i] \in Int /\ u[i] = p[i]
        /\ \A i \in 1 .. Len(y) : y[i] \in Int /\ u[Len(p) + i] = y[i]
    <2>1. u = p \o y
      BY DEF y
    <2>2. IsJoined(p, y, u)
      BY <1>2, <2>1, JoinedIs
    <2> QED
      BY <2>2 DEF IsJoined
  <1>5. d \in 0 .. Len(t) /\ Len(u) = Len(t) + 1 /\ Len(u) = Len(p) + (Len(q) + 1)
    BY <1>1, <1>2, <1>4
  <1>6. ASSUME NEW i \in 1 .. Len(u)
        PROVE  u[i] = IF i <= d THEN t[i] ELSE IF i = d + 1 THEN v ELSE t[i - 1]
    <2>1. CASE i \in 1 .. Len(p)
      <3>1. u[i] = p[i] /\ t[i] = p[i] /\ i <= d
        BY <1>1, <1>2, <1>4, <2>1
      <3> QED
        BY <3>1
    <2>2. CASE \E j \in 1 .. Len(q) + 1 : i = Len(p) + j
      <3>1. PICK j \in 1 .. Len(q) + 1 : i = Len(p) + j
        BY <2>2
      <3>2. u[i] = y[j] /\ y[j] = IF j <= c THEN q[j] ELSE IF j = c + 1 THEN v ELSE q[j - 1]
        BY <1>2, <1>4, <3>1
      <3>3. (i <= d <=> j <= c) /\ (i = d + 1 <=> j = c + 1)
        <4>1. Len(p) \in Nat /\ c \in Nat /\ j \in Nat
          BY <1>1, <1>2
        <4> QED
          BY <3>1, <4>1
      <3>4. j <= c => t[i] = q[j]
        <4> SUFFICES ASSUME j <= c PROVE j \in 1 .. Len(q)
          BY <1>1, <3>1
        <4> QED
          BY <1>1, <1>2
      <3>5. ~(j <= c) /\ j # c + 1 => t[i - 1] = q[j - 1]
        <4> SUFFICES ASSUME ~(j <= c), j # c + 1 PROVE j - 1 \in 1 .. Len(q) /\ i - 1 = Len(p) + (j - 1)
          BY <1>1
        <4> QED
          BY <1>1, <1>2, <3>1
      <3> HIDE DEF d
      <3> QED
        BY <3>2, <3>3, <3>4, <3>5
    <2> QED
      BY <1>1, <1>5, <2>1, <2>2, JoinedPosition
  <1>7. PutBehind(t, d, v, u)
    <2> HIDE DEF d
    <2> QED
      BY <1>4, <1>5, <1>6 DEF PutBehind
  <1>8. \A i \in 1 .. d : t[i] <= v
    <2> TAKE i \in 1 .. d
    <2>1. i \in 1 .. Len(p) + c /\ c \in Nat
      BY <1>1, <1>2
    <2>2. CASE i \in 1 .. Len(p)
      BY <1>1, <2>2
    <2>3. CASE \E j \in 1 .. c : i = Len(p) + j
      <3>1. PICK j \in 1 .. c : i = Len(p) + j
        BY <2>3
      <3>2. j \in 1 .. Len(q) /\ j <= c
        BY <1>1, <1>2
      <3> QED
        BY <1>1, <1>3, <3>1, <3>2
    <2> QED
      BY <1>1, <2>1, <2>2, <2>3, JoinedPosition
  <1>9. \A i \in d + 1 .. Len(t) : v <= t[i]
    <2> TAKE i \in d + 1 .. Len(t)
    <2>1. i - Len(p) \in 1 .. Len(q) /\ ~(i - Len(p) <= c) /\ i = Len(p) + (i - Len(p))
      BY <1>1, <1>2
    <2>2. t[i] = q[i - Len(p)] /\ ~(q[i - Len(p)] <= v) /\ q[i - Len(p)] \in Int
      BY <1>1, <1>3, <2>1
    <2> QED
      BY <2>2
  <1> QED
    <2> HIDE DEF d
    <2> QED
      BY <1>5, <1>7, <1>8, <1>9 DEF PutRight

\* The top of one queue is moved to the other: the two joined stay the same.
IsFirstMoved(p, q, t, u, w) ==
  /\ u \in Seq(Int) /\ w \in Seq(Int) /\ Len(u) = Len(p) + 1 /\ Len(w) = Len(q) - 1
  /\ u \o w = t
  /\ \A i \in 1 .. Len(u) : u[i] <= Head(q)
IsLastMoved(p, q, t, u, w) ==
  /\ u \in Seq(Int) /\ w \in Seq(Int) /\ Len(u) = Len(p) - 1 /\ Len(w) = Len(q) + 1
  /\ u \o w = t
  /\ \A i \in 1 .. Len(w) : Last(p) <= w[i]

LEMMA FirstMoved ==
    ASSUME NEW p \in Seq(Int), NEW q \in Seq(Int), NEW t, t = p \o q, Climbs(t), q # <<>>,
           NEW u, u = push(p, Head(q)), NEW w, w = Tail(q)
    PROVE  IsFirstMoved(p, q, t, u, w)
  <1>1. /\ t \in Seq(Int) /\ Len(t) = Len(p) + Len(q) /\ Len(p) \in Nat /\ Len(q) \in Nat
        /\ \A i \in 1 .. Len(p) : p[i] \in Int /\ t[i] = p[i]
        /\ \A i \in 1 .. Len(q) : q[i] \in Int /\ t[Len(p) + i] = q[i]
    BY JoinedIs DEF IsJoined
  <1>2. Len(q) >= 1 /\ Head(q) = q[1] /\ q[1] \in Int
    <2>1. Len(q) >= 1 /\ Head(q) = q[1]
      BY <1>1
    <2> QED
      BY <1>1, <2>1
  <1>3. w \in Seq(Int) /\ Len(w) = Len(q) - 1 /\ \A i \in 1 .. Len(w) : w[i] = q[i + 1]
    BY HeadTailProperties
  <1>4. \A i \in 1 .. Len(p) : p[i] <= q[1]
    <2>1. 1 \in 1 .. Len(q)
      BY <1>1, <1>2
    <2> QED
      BY <2>1, PartsClimb
  <1> DEFINE c == AtMost(p, q[1])
  <1>5. c = Len(p)
    <2>1. c \in 0 .. Len(p) /\ \A i \in 1 .. Len(p) : p[i] <= q[1] <=> i <= c
      BY <1>2, PartsClimb, AtMostFirst
    <2> HIDE DEF c
    <2>2. CASE Len(p) = 0
      BY <2>1, <2>2
    <2>3. CASE Len(p) # 0
      <3>1. Len(p) \in 1 .. Len(p)
        BY <1>1, <2>3
      <3>2. Len(p) <= c
        BY <1>4, <2>1, <3>1
      <3> QED
        BY <1>1, <2>1, <3>2
    <2> QED
      BY <2>2, <2>3
  <1>6. /\ u \in Seq(Int) /\ Len(u) = Len(p) + 1
        /\ \A i \in 1 .. Len(p) + 1 : u[i] = IF i <= Len(p) THEN p[i] ELSE q[1]
    <2>1. PutBehind(p, Len(p), q[1], u)
      BY <1>2, <1>5, PushKnown
    <2>2. /\ u \in Seq(Int) /\ Len(u) = Len(p) + 1
          /\ \A i \in 1 .. Len(p) + 1 : u[i] = IF i <= Len(p) THEN p[i] ELSE IF i = Len(p) + 1 THEN q[1] ELSE p[i - 1]
      BY <2>1 DEF PutBehind
    <2> QED
      BY <1>1, <2>2
  <1> DEFINE x == u \o w
  <1>7. /\ x \in Seq(Int) /\ Len(x) = Len(u) + Len(w)
        /\ \A i \in 1 .. Len(u) : x[i] = u[i]
        /\ \A i \in 1 .. Len(w) : x[Len(u) + i] = w[i]
    <2>1. x = u \o w
      OBVIOUS
    <2> HIDE DEF x
    <2>2. IsJoined(u, w, x)
      BY <1>3, <1>6, <2>1, JoinedIs
    <2> QED
      BY <2>2 DEF IsJoined
  <1> HIDE DEF x
  <1>8. Len(x) = Len(t)
    BY <1>1, <1>2, <1>3, <1>6, <1>7
  <1>9. ASSUME NEW i \in 1 .. Len(t)
        PROVE  x[i] = t[i]
    <2>1. CASE i \in 1 .. Len(p)
      <3>1. i \in 1 .. Len(u) /\ i \in 1 .. Len(p) + 1 /\ i <= Len(p)
        BY <1>1, <1>6, <2>1
      <3> QED
        BY <1>1, <1>6, <1>7, <2>1, <3>1
    <2>2. CASE i = Len(p) + 1
      <3>1. i \in 1 .. Len(u) /\ i \in 1 .. Len(p) + 1 /\ ~(i <= Len(p)) /\ 1 \in 1 .. Len(q)
        BY <1>1, <1>2, <1>6, <2>2
      <3>2. x[i] = q[1]
        BY <1>6, <1>7, <3>1
      <3>3. t[i] = q[1]
        BY <1>1, <2>2, <3>1
      <3> QED
        BY <3>2, <3>3
    <2>3. CASE i > Len(p) + 1
      <3> DEFINE j == i - (Len(p) + 1)
      <3>1. j \in 1 .. Len(w) /\ j + 1 \in 1 .. Len(q) /\ i = Len(u) + j /\ i = Len(p) + (j + 1)
        <4>1. Len(p) \in Nat /\ Len(q) \in Nat /\ Len(u) = Len(p) + 1 /\ Len(w) = Len(q) - 1 /\ i \in 1 .. Len(p) + Len(q)
          BY <1>1, <1>3, <1>6
        <4>2. i \in Int /\ j \in Int /\ i = Len(p) + (j + 1)
          BY <4>1
        <4>3. j >= 1 /\ j <= Len(q) - 1
          BY <2>3, <4>1
        <4> HIDE DEF j
        <4>4. j \in 1 .. Len(w)
          BY <4>1, <4>2, <4>3
        <4>5. j + 1 \in 1 .. Len(q)
          BY <4>1, <4>2, <4>3
        <4>6. i = Len(u) + j
          <5> DEFINE n == Len(p)
                     n2 == Len(u)
          <5>1. n \in Nat /\ n2 = n + 1 /\ i = n + (j + 1) /\ j \in Int
            BY <4>1, <4>2
          <5> HIDE DEF n, n2
          <5>2. i = n2 + j
            BY <5>1
          <5> QED
            BY <5>2 DEF n2
        <4> QED
          BY <4>2, <4>4, <4>5, <4>6
      <3> HIDE DEF j
      <3>2. x[i] = w[j] /\ w[j] = q[j + 1]
        BY <1>3, <1>7, <3>1
      <3>3. t[i] = q[j + 1]
        BY <1>1, <3>1
      <3> QED
        BY <3>2, <3>3
    <2>4. i \in 1 .. Len(p) \/ i = Len(p) + 1 \/ i > Len(p) + 1
      BY <1>1
    <2> QED
      BY <2>1, <2>2, <2>3, <2>4, Zenon
  <1>10. x = t
    BY <1>1, <1>7, <1>8, <1>9, SeqEqual
  <1>11. \A i \in 1 .. Len(u) : u[i] <= q[1]
    BY <1>1, <1>2, <1>4, <1>6
  <1> QED
    BY <1>2, <1>3, <1>6, <1>10, <1>11 DEF x, IsFirstMoved

LEMMA LastMoved ==
    ASSUME NEW p \in Seq(Int), NEW q \in Seq(Int), NEW t, t = p \o q, Climbs(t), p # <<>>,
           NEW u, u = Front(p), NEW w, w = push(q, Last(p))
    PROVE  IsLastMoved(p, q, t, u, w)
  <1> DEFINE m == Len(p)
             l == p[m]
  <1>1. /\ t \in Seq(Int) /\ Len(t) = m + Len(q) /\ m \in Nat /\ Len(q) \in Nat
        /\ \A i \in 1 .. m : p[i] \in Int /\ t[i] = p[i]
        /\ \A i \in 1 .. Len(q) : q[i] \in Int /\ t[m + i] = q[i]
    BY JoinedIs DEF IsJoined
  <1>2. m >= 1 /\ m \in 1 .. m /\ Last(p) = l /\ l \in Int
    <2>1. m >= 1 /\ Last(p) = l
      BY <1>1 DEF Last
    <2> HIDE DEF m, l
    <2>2. m \in 1 .. m
      BY <1>1, <2>1
    <2> QED
      BY <1>1, <2>1, <2>2 DEF l
  <1>3. u \in Seq(Int) /\ Len(u) = m - 1 /\ \A i \in 1 .. m - 1 : u[i] = p[i]
    <2>1. 1 \in 1 .. m + 1 /\ m - 1 \in 1 - 1 .. m
      BY <1>1, <1>2
    <2>2. u = SubSeq(p, 1, m - 1)
      BY DEF Front
    <2> DEFINE k == m - 1
    <2>3. u \in Seq(Int) /\ Len(u) = k - 1 + 1 /\ \A i \in 1 .. k - 1 + 1 : u[i] = p[1 + i - 1]
      <3>1. 1 \in 1 .. Len(p) + 1 /\ k \in 1 - 1 .. Len(p)
        BY <2>1
      <3> HIDE DEF k, m
      <3>2. /\ SubSeq(p, 1, k) \in Seq(Int) /\ Len(SubSeq(p, 1, k)) = k - 1 + 1
            /\ \A i \in 1 .. k - 1 + 1 : SubSeq(p, 1, k)[i] = p[1 + i - 1]
        BY <3>1, SubSeqProperties
      <3> QED
        BY <2>2, <3>2 DEF k
    <2>4. (m - 1) - 1 + 1 = m - 1 /\ \A i \in 1 .. m - 1 : 1 + i - 1 = i
      BY <1>1
    <2> QED
      BY <2>3, <2>4
  <1>4. \A i \in 1 .. Len(q) : l <= q[i]
    BY <1>2, PartsClimb
  <1> DEFINE c == AtMost(q, l)
  <1>5. c \in 0 .. Len(q) /\ \A i \in 1 .. Len(q) : q[i] <= l <=> i <= c
    <2> HIDE DEF l
    <2> QED
      BY <1>2, PartsClimb, AtMostFirst
  <1>6. /\ w \in Seq(Int) /\ Len(w) = Len(q) + 1
        /\ \A i \in 1 .. Len(q) + 1 : w[i] = IF i <= c THEN q[i] ELSE IF i = c + 1 THEN l ELSE q[i - 1]
    <2> HIDE DEF l
    <2>1. PutBehind(q, c, l, w)
      BY <1>2, PushKnown
    <2> HIDE DEF c
    <2> QED
      BY <2>1 DEF PutBehind
  <1> HIDE DEF c, l, m
  <1>7. \A i \in 1 .. Len(q) : i <= c => q[i] = l
    BY <1>1, <1>2, <1>4, <1>5
  <1>8. ASSUME NEW i \in 1 .. Len(q) + 1
        PROVE  w[i] = IF i = 1 THEN l ELSE q[i - 1]
    <2>1. CASE i <= c
      <3>1. i \in 1 .. Len(q) /\ q[i] = l /\ w[i] = l
        <4>1. i \in 1 .. Len(q)
          BY <1>1, <1>5, <2>1
        <4>2. q[i] = l
          BY <1>7, <2>1, <4>1
        <4>3. w[i] = q[i]
          BY <1>6, <2>1
        <4> QED
          BY <4>1, <4>2, <4>3
      <3>2. i # 1 => q[i - 1] = l
        <4> SUFFICES ASSUME i # 1 PROVE i - 1 \in 1 .. Len(q) /\ i - 1 <= c
          BY <1>7
        <4> QED
          BY <1>1, <1>5, <2>1
      <3> QED
        BY <3>1, <3>2
    <2>2. CASE i = c + 1
      <3>1. w[i] = l
        BY <1>5, <1>6, <2>2
      <3>2. i # 1 => q[i - 1] = l
        <4> SUFFICES ASSUME i # 1 PROVE i - 1 \in 1 .. Len(q) /\ i - 1 <= c
          BY <1>7
        <4> QED
          BY <1>1, <1>5, <2>2
      <3> QED
        BY <3>1, <3>2
    <2>3. CASE i > c + 1
      <3>1. ~(i <= c) /\ i # c + 1 /\ i # 1
        BY <1>5, <2>3
      <3> QED
        BY <1>6, <3>1
    <2> QED
      BY <1>5, <2>1, <2>2, <2>3
  <1> DEFINE x == u \o w
  <1>9. /\ x \in Seq(Int) /\ Len(x) = Len(u) + Len(w)
        /\ \A i \in 1 .. Len(u) : x[i] = u[i]
        /\ \A i \in 1 .. Len(w) : x[Len(u) + i] = w[i]
    <2>1. x = u \o w
      OBVIOUS
    <2> HIDE DEF x
    <2>2. IsJoined(u, w, x)
      BY <1>3, <1>6, <2>1, JoinedIs
    <2> QED
      BY <2>2 DEF IsJoined
  <1> HIDE DEF x
  <1>10. Len(x) = Len(t)
    BY <1>1, <1>2, <1>3, <1>6, <1>9
  <1>11. ASSUME NEW i \in 1 .. Len(t)
         PROVE  x[i] = t[i]
    <2>1. CASE i \in 1 .. m - 1
      <3>1. i \in 1 .. m /\ i \in 1 .. Len(u)
        BY <1>1, <1>3, <2>1
      <3> QED
        BY <1>1, <1>3, <1>9, <2>1, <3>1
    <2>2. CASE i \notin 1 .. m - 1
      <3> DEFINE j == i - (m - 1)
      <3>1. j \in 1 .. Len(q) + 1 /\ j \in 1 .. Len(w) /\ i = Len(u) + j
        BY <1>1, <1>2, <1>3, <1>6, <2>2
      <3>2. j = 1 => i = m
        BY <1>1
      <3>3. j # 1 => j - 1 \in 1 .. Len(q) /\ i = m + (j - 1)
        BY <1>1, <3>1
      <3> HIDE DEF j
      <3>4. x[i] = w[j] /\ w[j] = IF j = 1 THEN l ELSE q[j - 1]
        BY <1>8, <1>9, <3>1
      <3>5. CASE j = 1
        <4>1. t[i] = l
          BY <1>1, <1>2, <3>2, <3>5 DEF l
        <4> QED
          BY <3>4, <3>5, <4>1
      <3>6. CASE j # 1
        <4>1. t[i] = q[j - 1]
          BY <1>1, <3>3, <3>6
        <4> QED
          BY <3>4, <3>6, <4>1
      <3> QED
        BY <3>5, <3>6
    <2> QED
      BY <2>1, <2>2
  <1>12. x = t
    BY <1>1, <1>9, <1>10, <1>11, SeqEqual
  <1>13. \A i \in 1 .. Len(w) : l <= w[i]
    <2> TAKE i \in 1 .. Len(w)
    <2>1. CASE i = 1
      BY <1>2, <1>6, <1>8, <2>1
    <2>2. CASE i # 1
      <3>1. i - 1 \in 1 .. Len(q) /\ i \in 1 .. Len(q) + 1
        BY <1>1, <1>6, <2>2
      <3> QED
        BY <1>4, <1>8, <2>2, <3>1
    <2> QED
      BY <2>1, <2>2
  <1> QED
    BY <1>2, <1>3, <1>6, <1>12, <1>13 DEF x, m, IsLastMoved

\* The first k elements of s are in two queues, the smaller half in p and the larger in q.
HalvesOf(p, q, s, k) ==
  /\ p \in Seq(Int) /\ q \in Seq(Int) /\ SortedOf(p \o q, s, k)
  /\ Len(p) <= Len(q) + 1 /\ Len(q) <= Len(p) + 1

LEMMA Fits ==
    ASSUME NEW s \in Seq(Int), NEW k \in 0 .. Len(s) - 1, NEW t, SortedOf(t, s, k), NEW u, PutRight(t, s[k + 1], u)
    PROVE  SortedOf(u, s, k + 1)
  <1>1. Len(t) = k
    BY DEF SortedOf
  <1>2. PICK p \in 0 .. k : /\ PutBehind(t, p, s[k + 1], u)
                            /\ \A i \in 1 .. p : t[i] <= s[k + 1]
                            /\ \A i \in p + 1 .. k : s[k + 1] <= t[i]
    BY <1>1 DEF PutRight
  <1> QED
    BY <1>2, SortedNext

LEMMA PushLength ==
    ASSUME NEW s \in Seq(Int), NEW v \in Int
    PROVE  push(s, v) \in Seq(Int) /\ Len(push(s, v)) = Len(s) + 1
  BY PushKnown DEF PutBehind

\* An element that is not larger than the second half is put in the first, one that is not
\* smaller than the first half in the second.
LEMMA FirstTakes ==
    ASSUME NEW s \in Seq(Int), NEW k \in 0 .. Len(s) - 1, NEW p \in Seq(Int), NEW q \in Seq(Int),
           SortedOf(p \o q, s, k), \A j \in 1 .. Len(q) : s[k + 1] <= q[j], Len(p) <= Len(q), Len(q) <= Len(p) + 2
    PROVE  HalvesOf(push(p, s[k + 1]), q, s, k + 1)
  <1> DEFINE v == s[k + 1]
             t == p \o q
             w == push(p, v)
             u == w \o q
  <1>1. v \in Int /\ k \in Nat
    BY LenProperties, ElementOfSeq
  <1> HIDE DEF t, u
  <1>2. SortedOf(t, s, k) /\ Climbs(t)
    BY <1>1, SortedClimbs DEF t
  <1>3. PutRight(t, v, u)
    <2>1. t = p \o q /\ u = push(p, v) \o q
      BY DEF t, u
    <2>2. \A j \in 1 .. Len(q) : v <= q[j]
      OBVIOUS
    <2> HIDE DEF v
    <2> QED
      BY <1>1, <1>2, <2>1, <2>2, PushedFirst
  <1>4. SortedOf(u, s, k + 1)
    BY <1>2, <1>3, Fits
  <1>5. w \in Seq(Int) /\ Len(w) = Len(p) + 1 /\ Len(p) \in Nat /\ Len(q) \in Nat
    BY <1>1, PushLength, LenProperties
  <1>6. Len(w) <= Len(q) + 1 /\ Len(q) <= Len(w) + 1
    BY <1>5
  <1> HIDE DEF w
  <1> QED
    BY <1>4, <1>5, <1>6 DEF HalvesOf, u, w

LEMMA SecondTakes ==
    ASSUME NEW s \in Seq(Int), NEW k \in 0 .. Len(s) - 1, NEW p \in Seq(Int), NEW q \in Seq(Int),
           SortedOf(p \o q, s, k), \A j \in 1 .. Len(p) : p[j] <= s[k + 1], Len(q) <= Len(p), Len(p) <= Len(q) + 2
    PROVE  HalvesOf(p, push(q, s[k + 1]), s, k + 1)
  <1> DEFINE v == s[k + 1]
             t == p \o q
             w == push(q, v)
             u == p \o w
  <1>1. v \in Int /\ k \in Nat
    BY LenProperties, ElementOfSeq
  <1> HIDE DEF t, u
  <1>2. SortedOf(t, s, k) /\ Climbs(t)
    BY <1>1, SortedClimbs DEF t
  <1>3. PutRight(t, v, u)
    <2>1. t = p \o q /\ u = p \o push(q, v)
      BY DEF t, u
    <2>2. \A j \in 1 .. Len(p) : p[j] <= v
      OBVIOUS
    <2> HIDE DEF v
    <2> QED
      BY <1>1, <1>2, <2>1, <2>2, PushedSecond
  <1>4. SortedOf(u, s, k + 1)
    BY <1>2, <1>3, Fits
  <1>5. w \in Seq(Int) /\ Len(w) = Len(q) + 1 /\ Len(p) \in Nat /\ Len(q) \in Nat
    BY <1>1, PushLength, LenProperties
  <1>6. Len(w) <= Len(p) + 1 /\ Len(p) <= Len(w) + 1
    BY <1>5
  <1> HIDE DEF w
  <1> QED
    BY <1>4, <1>5, <1>6 DEF HalvesOf, u, w

\* The tops bound the halves.
LEMMA TopsBound ==
    ASSUME NEW s, NEW k \in Nat, NEW p, NEW q, HalvesOf(p, q, s, k)
    PROVE  /\ p # <<>> => /\ Last(p) \in Int /\ \A j \in 1 .. Len(p) : p[j] <= Last(p)
                          /\ \A j \in 1 .. Len(q) : Last(p) <= q[j]
           /\ q # <<>> => /\ Head(q) \in Int /\ \A j \in 1 .. Len(q) : Head(q) <= q[j]
                          /\ \A j \in 1 .. Len(p) : p[j] <= Head(q)
  <1> DEFINE t == p \o q
  <1>1. p \in Seq(Int) /\ q \in Seq(Int) /\ SortedOf(t, s, k)
    BY DEF HalvesOf
  <1>2. t = p \o q
    OBVIOUS
  <1> HIDE DEF t
  <1>3. Climbs(t)
    BY <1>1, SortedClimbs
  <1>4. /\ Climbs(p) /\ Climbs(q) /\ \A i \in 1 .. Len(p), j \in 1 .. Len(q) : p[i] <= q[j]
    BY <1>1, <1>2, <1>3, PartsClimb
  <1>5. /\ Len(p) \in Nat /\ Len(q) \in Nat
        /\ \A i \in 1 .. Len(p) : p[i] \in Int
        /\ \A i \in 1 .. Len(q) : q[i] \in Int
    BY <1>1, LenProperties, ElementOfSeq
  <1>6. ASSUME p # <<>>
        PROVE  /\ Last(p) \in Int /\ \A j \in 1 .. Len(p) : p[j] <= Last(p)
               /\ \A j \in 1 .. Len(q) : Last(p) <= q[j]
    <2>1. Last(p) = p[Len(p)] /\ Len(p) # 0
      BY <1>1, <1>6, EmptySeq DEF Last
    <2>2. Len(p) \in 1 .. Len(p)
      BY <1>5, <2>1
    <2> QED
      BY <1>4, <1>5, <2>1, <2>2 DEF Climbs
  <1>7. ASSUME q # <<>>
        PROVE  /\ Head(q) \in Int /\ \A j \in 1 .. Len(q) : Head(q) <= q[j]
               /\ \A j \in 1 .. Len(p) : p[j] <= Head(q)
    <2>1. Head(q) = q[1] /\ Len(q) # 0
      BY <1>1, <1>7, EmptySeq
    <2>2. 1 \in 1 .. Len(q)
      BY <1>5, <2>1
    <2> QED
      BY <1>4, <1>5, <2>1, <2>2 DEF Climbs
  <1> QED
    BY <1>6, <1>7

LEMMA TurnHalves ==
    ASSUME NEW s \in Seq(Int), NEW k \in 0 .. Len(s) - 1, NEW p, NEW q, HalvesOf(p, q, s, k),
           NEW h, h = MedianTurn(<<p, q>>, s[k + 1])
    PROVE  h \in Heaps /\ HalvesOf(h[1], h[2], s, k + 1)
  <1> DEFINE v == s[k + 1]
             t == p \o q
  <1>1. v \in Int /\ k \in Nat
    BY LenProperties, ElementOfSeq
  <1> HIDE DEF v, t
  <1>2. /\ p \in Seq(Int) /\ q \in Seq(Int) /\ SortedOf(t, s, k)
        /\ Len(p) <= Len(q) + 1 /\ Len(q) <= Len(p) + 1
    BY DEF HalvesOf, t
  <1>3. Climbs(t)
    BY <1>1, <1>2, SortedClimbs
  <1>4. Len(p) \in Nat /\ Len(q) \in Nat
    BY <1>2, LenProperties
  <1>5. /\ p # <<>> => /\ Last(p) \in Int /\ \A j \in 1 .. Len(p) : p[j] <= Last(p) /\ p[j] \in Int
                       /\ \A j \in 1 .. Len(q) : Last(p) <= q[j] /\ q[j] \in Int
        /\ q # <<>> => /\ Head(q) \in Int /\ \A j \in 1 .. Len(q) : Head(q) <= q[j] /\ q[j] \in Int
                       /\ \A j \in 1 .. Len(p) : p[j] <= Head(q) /\ p[j] \in Int
    BY <1>1, <1>2, TopsBound, ElementOfSeq
  <1>6. Len(<<>>) = 0 /\ (p = <<>> <=> Len(p) = 0) /\ (q = <<>> <=> Len(q) = 0)
    BY <1>2, EmptySeq
  <1>7. ASSUME NEW x, NEW y, HalvesOf(x, y, s, k + 1), h = <<x, y>>
        PROVE  h \in Heaps /\ HalvesOf(h[1], h[2], s, k + 1)
    <2>1. x \in Seq(Int) /\ y \in Seq(Int)
      BY <1>7 DEF HalvesOf
    <2>2. h[1] = x /\ h[2] = y
      BY <1>7
    <2> QED
      BY <1>7, <2>1, <2>2 DEF Heaps
  <1>8. h = IF Len(p) = Len(q)
            THEN IF p = <<>> \/ v < Last(p) THEN <<push(p, v), q>> ELSE <<p, push(q, v)>>
            ELSE IF Len(p) < Len(q)
            THEN IF v < Head(q) THEN <<push(p, v), q>> ELSE <<push(p, Head(q)), push(Tail(q), v)>>
            ELSE IF v > Last(p) THEN <<p, push(q, v)>> ELSE <<push(Front(p), v), push(q, Last(p))>>
    BY DEF MedianTurn, v
  <1>9. ASSUME NEW x, NEW y, x \in Seq(Int), y \in Seq(Int), x \o y = t, \A j \in 1 .. Len(y) : v <= y[j],
               Len(x) <= Len(y), Len(y) <= Len(x) + 2
        PROVE  HalvesOf(push(x, v), y, s, k + 1)
    <2>1. SortedOf(x \o y, s, k)
      BY <1>2, <1>9
    <2> QED
      BY <1>9, <2>1, FirstTakes DEF v
  <1>10. ASSUME NEW x, NEW y, x \in Seq(Int), y \in Seq(Int), x \o y = t, \A j \in 1 .. Len(x) : x[j] <= v,
                Len(y) <= Len(x), Len(x) <= Len(y) + 2
         PROVE  HalvesOf(x, push(y, v), s, k + 1)
    <2>1. SortedOf(x \o y, s, k)
      BY <1>2, <1>10
    <2> QED
      BY <1>10, <2>1, SecondTakes DEF v
  <1>11. p \o q = t /\ t = p \o q
    BY DEF t
  <1>12. CASE Len(p) = Len(q) /\ (p = <<>> \/ v < Last(p))
    <2>1. \A j \in 1 .. Len(q) : v <= q[j]
      <3>1. CASE p = <<>>
        BY <1>4, <1>6, <1>12, <3>1
      <3>2. CASE p # <<>>
        BY <1>1, <1>5, <1>12, <3>2
      <3> QED
        BY <3>1, <3>2
    <2>2. HalvesOf(push(p, v), q, s, k + 1)
      <3>1. Len(p) <= Len(q) /\ Len(q) <= Len(p) + 2
        BY <1>2, <1>4, <1>12
      <3> QED
        BY <1>2, <1>9, <1>11, <2>1, <3>1, Zenon
    <2> QED
      BY <1>7, <1>8, <1>12, <2>2
  <1>13. CASE Len(p) = Len(q) /\ ~(p = <<>> \/ v < Last(p))
    <2>1. \A j \in 1 .. Len(p) : p[j] <= v
      BY <1>1, <1>5, <1>13
    <2>2. HalvesOf(p, push(q, v), s, k + 1)
      <3>1. Len(q) <= Len(p) /\ Len(p) <= Len(q) + 2
        BY <1>2, <1>4, <1>13
      <3> QED
        BY <1>2, <1>10, <1>11, <2>1, <3>1, Zenon
    <2> QED
      BY <1>7, <1>8, <1>13, <2>2
  <1>14. CASE Len(p) < Len(q) /\ v < Head(q)
    <2>1. \A j \in 1 .. Len(q) : v <= q[j]
      BY <1>1, <1>4, <1>5, <1>6, <1>14
    <2>2. HalvesOf(push(p, v), q, s, k + 1)
      <3>1. Len(p) <= Len(q) /\ Len(q) <= Len(p) + 2
        BY <1>2, <1>4, <1>14
      <3> QED
        BY <1>2, <1>9, <1>11, <2>1, <3>1, Zenon
    <2>3. ~(Len(p) = Len(q)) /\ Len(p) < Len(q) /\ v < Head(q)
      BY <1>4, <1>14
    <2> QED
      BY <1>7, <1>8, <2>2, <2>3
  <1>15. CASE Len(p) < Len(q) /\ ~(v < Head(q))
    <2> DEFINE x == push(p, Head(q))
               y == Tail(q)
    <2>0. q # <<>> /\ x = push(p, Head(q)) /\ y = Tail(q)
      BY <1>4, <1>6, <1>15
    <2> HIDE DEF x, y
    <2>1. /\ x \in Seq(Int) /\ y \in Seq(Int) /\ Len(x) = Len(p) + 1 /\ Len(y) = Len(q) - 1
          /\ x \o y = t /\ \A i \in 1 .. Len(x) : x[i] <= Head(q)
      <3>1. IsFirstMoved(p, q, t, x, y)
        BY <1>2, <1>3, <1>11, <2>0, FirstMoved
      <3> QED
        BY <3>1 DEF IsFirstMoved
    <2>2. \A j \in 1 .. Len(x) : x[j] <= v
      <3>1. Head(q) \in Int /\ Head(q) <= v
        BY <1>1, <1>5, <1>15, <2>0
      <3>2. \A j \in 1 .. Len(x) : x[j] \in Int
        BY <2>1, ElementOfSeq
      <3> QED
        BY <1>1, <2>1, <3>1, <3>2
    <2>3. Len(y) <= Len(x) /\ Len(x) <= Len(y) + 2
      BY <1>2, <1>4, <1>15, <2>1
    <2>4. HalvesOf(x, push(y, v), s, k + 1)
      BY <1>10, <2>1, <2>2, <2>3
    <2>5. ~(Len(p) = Len(q)) /\ Len(p) < Len(q) /\ ~(v < Head(q))
      BY <1>4, <1>15
    <2>6. h = <<x, push(y, v)>>
      BY <1>8, <2>5, Zenon DEF x, y
    <2> QED
      BY <1>7, <2>4, <2>6
  <1>16. CASE Len(p) > Len(q) /\ v > Last(p)
    <2>1. \A j \in 1 .. Len(p) : p[j] <= v
      BY <1>1, <1>4, <1>5, <1>6, <1>16
    <2>2. HalvesOf(p, push(q, v), s, k + 1)
      <3>1. Len(q) <= Len(p) /\ Len(p) <= Len(q) + 2
        BY <1>2, <1>4, <1>16
      <3> QED
        BY <1>2, <1>10, <1>11, <2>1, <3>1, Zenon
    <2>3. ~(Len(p) = Len(q)) /\ ~(Len(p) < Len(q)) /\ v > Last(p)
      BY <1>4, <1>16
    <2> QED
      BY <1>7, <1>8, <2>2, <2>3
  <1>17. CASE Len(p) > Len(q) /\ ~(v > Last(p))
    <2> DEFINE x == Front(p)
               y == push(q, Last(p))
    <2>0. p # <<>> /\ x = Front(p) /\ y = push(q, Last(p))
      BY <1>4, <1>6, <1>17
    <2> HIDE DEF x, y
    <2>1. /\ x \in Seq(Int) /\ y \in Seq(Int) /\ Len(x) = Len(p) - 1 /\ Len(y) = Len(q) + 1
          /\ x \o y = t /\ \A i \in 1 .. Len(y) : Last(p) <= y[i]
      <3>1. IsLastMoved(p, q, t, x, y)
        BY <1>2, <1>3, <1>11, <2>0, LastMoved
      <3> QED
        BY <3>1 DEF IsLastMoved
    <2>2. \A j \in 1 .. Len(y) : v <= y[j]
      <3>1. Last(p) \in Int /\ v <= Last(p)
        BY <1>1, <1>5, <1>17, <2>0
      <3>2. \A j \in 1 .. Len(y) : y[j] \in Int
        BY <2>1, ElementOfSeq
      <3> QED
        BY <1>1, <2>1, <3>1, <3>2
    <2>3. Len(x) <= Len(y) /\ Len(y) <= Len(x) + 2
      <3>1. Len(p) \in Nat /\ Len(q) \in Nat /\ Len(x) = Len(p) - 1 /\ Len(y) = Len(q) + 1
            /\ Len(p) > Len(q) /\ Len(p) <= Len(q) + 1
        BY <1>2, <1>4, <1>17, <2>1
      <3>2. Len(p) = Len(q) + 1
        BY <3>1
      <3>3. Len(x) = Len(q)
        BY <3>1, <3>2
      <3> QED
        BY <3>1, <3>3
    <2>4. HalvesOf(push(x, v), y, s, k + 1)
      BY <1>9, <2>1, <2>2, <2>3
    <2>5. ~(Len(p) = Len(q)) /\ ~(Len(p) < Len(q)) /\ ~(v > Last(p))
      BY <1>4, <1>17
    <2>6. h = <<push(x, v), y>>
      BY <1>8, <2>5, Zenon DEF x, y
    <2> QED
      BY <1>7, <2>4, <2>6
  <1> QED
    BY <1>4, <1>12, <1>13, <1>14, <1>15, <1>16, <1>17

LEMMA MedianFolded ==
    ASSUME NEW s \in Seq(Int), NEW h, h = FoldLeft(MedianTurn, <<<<>>, <<>>>>, s)
    PROVE  HalvesOf(h[1], h[2], s, Len(s))
  <1> DEFINE n == Len(s)
  <1>1. n \in Nat
    BY LenProperties
  <1>2. PICK f : Turns(s, f)
    BY TurnsExist
  <1> DEFINE I == {k \in Nat : k <= n => f[k] \in Heaps /\ HalvesOf(f[k][1], f[k][2], s, k)}
  <1>3. 0 \in I
    <2>1. f[0] = <<<<>>, <<>>>>
      BY <1>2 DEF Turns
    <2>2. <<>> \in Seq(Int) /\ <<>> \o <<>> = <<>> /\ Len(<<>>) = 0
      OBVIOUS
    <2>3. HalvesOf(<<>>, <<>>, s, 0)
      BY <2>2, NothingSorted DEF HalvesOf
    <2>4. f[0] \in Heaps /\ f[0][1] = <<>> /\ f[0][2] = <<>>
      <3> DEFINE z == <<<<>>, <<>>>>
      <3>1. z \in Heaps
        BY <2>2 DEF Heaps
      <3>2. z[1] = <<>> /\ z[2] = <<>>
        OBVIOUS
      <3>3. f[0] = z
        BY <2>1
      <3> HIDE DEF z
      <3> QED
        BY <3>1, <3>2, <3>3
    <2> QED
      BY <2>3, <2>4
  <1>4. ASSUME NEW k \in Nat, k \in I
        PROVE  k + 1 \in I
    <2> SUFFICES ASSUME k + 1 <= n
                 PROVE  f[k + 1] \in Heaps /\ HalvesOf(f[k + 1][1], f[k + 1][2], s, k + 1)
      OBVIOUS
    <2>1. k \in 0 .. n - 1 /\ k <= n
      BY <1>1
    <2>2. f[k] \in Heaps /\ HalvesOf(f[k][1], f[k][2], s, k)
      BY <1>4, <2>1
    <2>3. f[k + 1] = MedianTurn(f[k], s[k + 1])
      BY <1>2, <2>1 DEF Turns
    <2>4. f[k] = <<f[k][1], f[k][2]>>
      BY <2>2 DEF Heaps
    <2> DEFINE p == f[k][1]
               q == f[k][2]
               g == f[k + 1]
    <2>5. HalvesOf(p, q, s, k) /\ g = MedianTurn(<<p, q>>, s[k + 1])
      BY <2>2, <2>3, <2>4, Zenon
    <2> HIDE DEF p, q, g
    <2>6. g \in Heaps /\ HalvesOf(g[1], g[2], s, k + 1)
      BY <2>1, <2>5, TurnHalves
    <2> QED
      BY <2>6 DEF g
  <1>5. n \in I
    <2> HIDE DEF I
    <2> QED
      BY <1>1, <1>3, <1>4, SetInduction
  <1>6. f[n] = h
    BY <1>2 DEF Turns
  <1> QED
    BY <1>1, <1>5, <1>6

LEMMA MedianIs ==
    ASSUME NEW s \in Seq(Int)
    PROVE  Of("median", s) = IF s = <<>> THEN NoDatum ELSE <<MedianOf(s), 2>>
  <1>1. CASE s = <<>>
    BY <1>1 DEF Of
  <1>2. CASE s # <<>>
    <2> DEFINE h == FoldLeft(MedianTurn, <<<<>>, <<>>>>, s)
               p == h[1]
               q == h[2]
               t == p \o q
               n == Len(s)
    <2>1. HalvesOf(p, q, s, n)
      BY MedianFolded
    <2>2. Of("median", s) = IF Len(p) = Len(q) THEN <<Last(p) + Head(q), 2>>
                            ELSE IF Len(p) < Len(q) THEN <<2 * Head(q), 2>> ELSE <<2 * Last(p), 2>>
      BY <1>2 DEF Of
    <2> HIDE DEF h, p, q
    <2>3. /\ p \in Seq(Int) /\ q \in Seq(Int) /\ SortedOf(t, s, n)
          /\ Len(p) <= Len(q) + 1 /\ Len(q) <= Len(p) + 1
      BY <2>1 DEF HalvesOf
    <2>4. n \in Nat /\ n # 0
      BY <1>2, LenProperties, EmptySeq
    <2>5. /\ Len(t) = Len(p) + Len(q) /\ Len(p) \in Nat /\ Len(q) \in Nat
          /\ \A i \in 1 .. Len(p) : p[i] \in Int /\ t[i] = p[i]
          /\ \A i \in 1 .. Len(q) : q[i] \in Int /\ t[Len(p) + i] = q[i]
      <3>1. t = p \o q
        OBVIOUS
      <3> HIDE DEF t
      <3>2. IsJoined(p, q, t)
        BY <2>3, <3>1, JoinedIs
      <3> QED
        BY <3>2 DEF IsJoined
    <2>6. n = Len(p) + Len(q)
      BY <2>3, <2>5 DEF SortedOf
    <2>7. \A i \in 1 .. n : Ranked(s, i) = t[i]
      BY <2>3, RankedIs
    <2> HIDE DEF t, n
    <2>8. MedianOf(s) = Ranked(s, (n + 1) \div 2) + Ranked(s, (n \div 2) + 1)
      BY DEF MedianOf, n
    <2>9. CASE Len(p) = Len(q)
      <3> DEFINE m == Len(p)
      <3>1. m \in Nat /\ n = 2 * m /\ m >= 1
        BY <2>4, <2>5, <2>6, <2>9
      <3>2. (n + 1) \div 2 = m /\ (n \div 2) + 1 = m + 1
        <4> HIDE DEF m
        <4> QED
          BY <3>1
      <3>3. m \in 1 .. n /\ m + 1 \in 1 .. n
        <4> HIDE DEF m
        <4> QED
          BY <3>1
      <3>4. MedianOf(s) = t[m] + t[m + 1]
        BY <2>7, <2>8, <3>2, <3>3
      <3>5. t[m] = p[m] /\ t[m + 1] = q[1]
        BY <2>5, <2>9, <3>1
      <3>6. Last(p) = p[m] /\ Head(q) = q[1]
        BY <2>3, <2>9, <3>1 DEF Last
      <3> QED
        BY <1>2, <2>2, <2>9, <3>4, <3>5, <3>6
    <2>10. CASE Len(p) < Len(q)
      <3> DEFINE m == Len(p)
      <3>1. m \in Nat /\ n = 2 * m + 1
        <4>1. Len(p) \in Nat /\ Len(q) \in Nat /\ Len(q) <= Len(p) + 1 /\ Len(p) < Len(q)
          BY <2>3, <2>5, <2>10
        <4>2. Len(q) = Len(p) + 1
          BY <4>1
        <4> QED
          BY <2>6, <4>1, <4>2
      <3>2. (n + 1) \div 2 = m + 1 /\ (n \div 2) + 1 = m + 1
        <4> HIDE DEF m
        <4> QED
          BY <3>1
      <3>3. m + 1 \in 1 .. n
        <4> HIDE DEF m
        <4> QED
          BY <3>1
      <3>4. MedianOf(s) = t[m + 1] + t[m + 1]
        BY <2>7, <2>8, <3>2, <3>3
      <3>5. t[m + 1] = q[1] /\ q[1] \in Int
        BY <2>5, <2>10
      <3>6. Head(q) = q[1]
        BY <2>3, <2>10
      <3>7. MedianOf(s) = 2 * Head(q)
        BY <3>4, <3>5, <3>6
      <3>8. ~(Len(p) = Len(q))
        BY <2>5, <2>10
      <3> QED
        BY <1>2, <2>2, <2>10, <3>7, <3>8
    <2>11. CASE Len(p) > Len(q)
      <3> DEFINE m == Len(p)
      <3>1. m \in Nat /\ n = 2 * m - 1 /\ m >= 1
        <4>1. Len(p) \in Nat /\ Len(q) \in Nat /\ Len(p) <= Len(q) + 1 /\ Len(p) > Len(q)
          BY <2>3, <2>5, <2>11
        <4>2. Len(p) = Len(q) + 1
          BY <4>1
        <4> QED
          BY <2>6, <4>1, <4>2
      <3>2. (n + 1) \div 2 = m /\ (n \div 2) + 1 = m
        <4> HIDE DEF m
        <4> QED
          BY <3>1
      <3>3. m \in 1 .. n
        <4> HIDE DEF m
        <4> QED
          BY <3>1
      <3>4. MedianOf(s) = t[m] + t[m]
        BY <2>7, <2>8, <3>2, <3>3
      <3>5. t[m] = p[m] /\ p[m] \in Int /\ Last(p) = p[m]
        BY <2>5, <3>1 DEF Last
      <3>6. MedianOf(s) = 2 * Last(p)
        BY <3>4, <3>5
      <3>7. ~(Len(p) = Len(q)) /\ ~(Len(p) < Len(q))
        BY <2>5, <2>11
      <3> QED
        BY <1>2, <2>2, <3>6, <3>7
    <2> QED
      BY <2>5, <2>9, <2>10, <2>11
  <1> QED
    BY <1>1, <1>2

\* What is in a window is next to each other, and its data are numbers.
LEMMA WindowData ==
    ASSUME NEW x, Rising(x), NEW d \in Seq(Int), Len(d) = Len(x), NEW beg \in Int, NEW fin \in Int
    PROVE  DataOf(d, InsideOpen(x, beg, fin)) \in Seq(Int)
  <1>1. Len(x) \in Nat /\ \A i \in 1 .. Len(x) : x[i] \in Int
    BY RisingKnown
  <1> DEFINE n == NotBeforeOf(x, 1, beg)
  <1>2. 1 \in 1 .. Len(x) + 1
    BY <1>1
  <1>3. n \in 1 .. Len(x) + 1 /\ IsNotBefore(x, 1, beg, n)
    BY <1>2, NotBeforeRight
  <1> HIDE DEF n
  <1>4. \A j \in 1 .. n - 1 : x[j] < beg
    BY <1>3 DEF IsNotBefore
  <1>5. CASE n > Len(x) \/ x[n] >= fin
    <2>1. InsideOpen(x, beg, fin) = {}
      BY <1>3, <1>4, <1>5, NoneOpen
    <2>2. DataOf(d, {}) = <<>>
      <3>1. Cardinality({}) = 0
        BY FS_EmptySet
      <3> QED
        BY <3>1 DEF DataOf
    <2> QED
      BY <2>1, <2>2, EmptySeq
  <1>6. CASE ~(n > Len(x) \/ x[n] >= fin)
    <2> DEFINE to == NotBeforeOf(x, n, fin)
               m == to - 1
    <2>1. n \in 1 .. Len(x) /\ x[n] >= beg
      BY <1>1, <1>3, <1>6 DEF IsNotBefore
    <2>2. to \in n .. Len(x) + 1 /\ IsNotBefore(x, n, fin, to)
      BY <1>3, NotBeforeRight
    <2> HIDE DEF to
    <2>3. InsideOpen(x, beg, fin) = n .. m
      BY <1>4, <2>1, <2>2, OpenIs
    <2>4. n \in 1 .. Len(d) + 1 /\ m \in n - 1 .. Len(d)
      BY <1>1, <2>1, <2>2
    <2> HIDE DEF m
    <2>5. DataOf(d, n .. m) = SubSeq(d, n, m)
      BY <2>4, DataOfInterval
    <2>6. SubSeq(d, n, m) \in Seq(Int)
      BY <2>4, SubSeqProperties
    <2> QED
      BY <2>3, <2>5, <2>6
  <1> QED
    BY <1>5, <1>6

LEMMA MediansRight ==
    ASSUME LInv
    PROVE  MediansAreRight
  <1> SUFFICES ASSUME lf = "median", lpc = "done", WindowsAscend, NEW i \in 1 .. Len(ly)
               PROVE  \E s \in {DataAt(InHalfOpen(i))} : lo[i] = IF s = <<>> THEN NoDatum ELSE <<MedianOf(s), 2>>
    BY DEF MediansAreRight
  <1> DEFINE s == DataAt(InHalfOpen(i))
  <1>1. lo[i] = Of("median", s)
    <2>1. WindowsAreRight /\ lf \in Methods \ {"closest"}
      BY ResultsRight DEF AlignmentIsRight, Methods
    <2> QED
      BY <2>1 DEF WindowsAreRight
  <1>2. AlignTask
    BY DEF LInv, LoopInv
  <1>3. Rising(lx) /\ ld \in Seq(Int) /\ Len(ld) = Len(lx) /\ ystart(i) \in Int /\ yend(i) \in Int
    BY <1>2, WindowKnown DEF AlignTask, Size
  <1>4. s = DataOf(ld, InsideOpen(lx, ystart(i), yend(i)))
    BY DEF DataAt, InHalfOpen, DataOf, InsideOpen, Size
  <1>5. s \in Seq(Int)
    <2> DEFINE beg == ystart(i)
               fin == yend(i)
    <2>1. beg \in Int /\ fin \in Int
      BY <1>3
    <2>2. s = DataOf(ld, InsideOpen(lx, beg, fin))
      BY <1>4
    <2> HIDE DEF beg, fin, s
    <2> QED
      BY <1>3, <2>1, <2>2, WindowData
  <1> HIDE DEF s
  <1>6. lo[i] = IF s = <<>> THEN NoDatum ELSE <<MedianOf(s), 2>>
    BY <1>1, <1>5, MedianIs, Zenon
  <1> QED
    BY <1>6 DEF s

\* The median that align keeps between two queues, one of the smaller and one of the larger
\* half of what has been seen, is the middle of the window, or the mean of the two elements in
\* the middle (median_element of align_funcs.hpp).
THEOREM MediansFound == LSpec => []MediansAreRight
  <1>1. LInit => LInv
    BY AlignInit
  <1>2. LInv /\ [LNext]_lvars => LInv'
    BY AlignStep
  <1>3. LInv => MediansAreRight
    BY MediansRight
  <1> QED
    BY <1>1, <1>2, <1>3, PTL DEF LSpec

(***************************************************************************)
(* Times away from the changes of the clocks.                              *)
(***************************************************************************)
\* The numbers of a sequence have bounds, and a set with bounds has a largest and a
\* smallest number.
LEMMA Bounded ==
    ASSUME NEW s \in Seq(Int)
    PROVE  \E most \in Nat : \A i \in 1 .. Len(s) : -most <= s[i] /\ s[i] <= most
  <1> DEFINE I == {n \in Nat : \E most \in Nat : \A i \in 1 .. Len(s) : i <= n => -most <= s[i] /\ s[i] <= most}
  <1>1. Len(s) \in Nat /\ \A i \in 1 .. Len(s) : s[i] \in Int
    BY LenProperties, ElementOfSeq
  <1>2. 0 \in I
    <2>1. \A i \in 1 .. Len(s) : ~(i <= 0)
      BY <1>1
    <2>2. \E most \in Nat : \A i \in 1 .. Len(s) : i <= 0 => -most <= s[i] /\ s[i] <= most
      BY <2>1
    <2> QED
      BY <2>2
  <1>3. ASSUME NEW n \in Nat, n \in I
        PROVE  n + 1 \in I
    <2>1. PICK most \in Nat : \A i \in 1 .. Len(s) : i <= n => -most <= s[i] /\ s[i] <= most
      BY <1>3
    <2> DEFINE v == IF n + 1 \in 1 .. Len(s) THEN s[n + 1] ELSE 0
               c == most + (IF v >= 0 THEN v ELSE -v)
    <2>2. v \in Int
      BY <1>1
    <2>3. c \in Nat /\ c >= most /\ -c <= v /\ v <= c
      <3> HIDE DEF v
      <3> QED
        BY <2>2
    <2>4. ASSUME NEW i \in 1 .. Len(s), i <= n + 1
          PROVE  -c <= s[i] /\ s[i] <= c
      <3>1. CASE i = n + 1
        <4>1. v = s[i]
          BY <3>1
        <4> HIDE DEF v, c
        <4> QED
          BY <2>3, <4>1
      <3>2. CASE i # n + 1
        <4>1. i <= n /\ s[i] \in Int
          BY <1>1, <2>4, <3>2
        <4>2. -most <= s[i] /\ s[i] <= most
          BY <2>1, <4>1
        <4> HIDE DEF v, c
        <4> QED
          BY <2>3, <4>1, <4>2
      <3> QED
        BY <3>1, <3>2
    <2> HIDE DEF v, c
    <2> QED
      BY <2>3, <2>4
  <1>4. Len(s) \in I
    <2> HIDE DEF I
    <2> QED
      BY <1>1, <1>2, <1>3, SetInduction
  <1> QED
    BY <1>1, <1>4

LEMMA LargestOf ==
    ASSUME NEW S \in SUBSET Int, S # {}, NEW most \in Int, \A x \in S : x <= most
    PROVE  Max(S) \in S /\ \A x \in S : x <= Max(S)
  <1> DEFINE D == {most - x : x \in S}
  <1>1. D \in SUBSET Nat /\ D # {}
    <2>1. \A x \in S : most - x \in Nat
      OBVIOUS
    <2> QED
      BY <2>1
  <1>2. PICK d \in D : \A e \in D : d <= e
    <2> HIDE DEF D
    <2> QED
      BY <1>1, LeastNumber
  <1>3. PICK m \in S : d = most - m
    BY <1>2
  <1>4. \A x \in S : m >= x
    <2> TAKE x \in S
    <2>1. most - m <= most - x
      BY <1>2, <1>3
    <2> QED
      BY <2>1
  <1>5. Max(S) \in S /\ \A x \in S : Max(S) >= x
    BY <1>4 DEF Max
  <1> QED
    BY <1>5

LEMMA SmallestOf ==
    ASSUME NEW S \in SUBSET Int, S # {}, NEW most \in Int, \A x \in S : most <= x
    PROVE  Min(S) \in S /\ \A x \in S : Min(S) <= x
  <1> DEFINE D == {x - most : x \in S}
  <1>1. D \in SUBSET Nat /\ D # {}
    <2>1. \A x \in S : x - most \in Nat
      OBVIOUS
    <2> QED
      BY <2>1
  <1>2. PICK d \in D : \A e \in D : d <= e
    <2> HIDE DEF D
    <2> QED
      BY <1>1, LeastNumber
  <1>3. PICK m \in S : d = m - most
    BY <1>2
  <1>4. \A x \in S : m <= x
    <2> TAKE x \in S
    <2>1. m - most <= x - most
      BY <1>2, <1>3
    <2> QED
      BY <2>1
  <1> QED
    BY <1>4 DEF Min

\* The offsets of a zone.
Offsets(z) == {z.default} \cup ToSet(z.off)
Reach(z) == Den * Max({Dist(x[1], x[2]) : x \in Offsets(z) \X (Offsets(z) \cup {0})})

LEMMA OffsetsBounded ==
    ASSUME NEW z, IsZone(z)
    PROVE  /\ Offsets(z) \in SUBSET Int /\ z.default \in Offsets(z)
           /\ \A i \in 1 .. Len(z.ats) : z.off[i] \in Offsets(z)
           /\ \E most \in Nat : \A o \in Offsets(z) : -most <= o /\ o <= most
  <1>1. z.off \in Seq(Int) /\ Len(z.ats) = Len(z.off) /\ z.default \in Int /\ Len(z.off) \in Nat
    BY LenProperties DEF IsZone
  <1>2. ToSet(z.off) = {z.off[i] : i \in 1 .. Len(z.off)}
    BY <1>1, LenProperties DEF ToSet
  <1>3. \A i \in 1 .. Len(z.off) : z.off[i] \in Int
    BY <1>1, ElementOfSeq
  <1>4. PICK most \in Nat : \A i \in 1 .. Len(z.off) : -most <= z.off[i] /\ z.off[i] <= most
    BY <1>1, Bounded
  <1> DEFINE c == most + (IF z.default >= 0 THEN z.default ELSE -z.default)
  <1>5. c \in Nat /\ c >= most /\ -c <= z.default /\ z.default <= c
    BY <1>1
  <1> HIDE DEF c
  <1>6. \A i \in 1 .. Len(z.off) : -c <= z.off[i] /\ z.off[i] <= c
    BY <1>3, <1>4, <1>5
  <1>7. \A o \in Offsets(z) : -c <= o /\ o <= c
    BY <1>2, <1>5, <1>6 DEF Offsets
  <1> QED
    BY <1>1, <1>2, <1>3, <1>5, <1>7 DEF Offsets

\* No two offsets differ by more than the spread, and none is farther from another or
\* from that of UTC than the reach of the zone.
LEMMA SpreadIs ==
    ASSUME NEW z, IsZone(z)
    PROVE  /\ Spread(z) \in Nat
           /\ \A o, q \in Offsets(z) : (o - q) * Den <= Spread(z)
  <1> DEFINE O == Offsets(z)
             hi == Max(O)
             low == Min(O)
  <1>1. O \in SUBSET Int /\ O # {}
    BY OffsetsBounded
  <1>2. PICK most \in Nat : \A o \in O : -most <= o /\ o <= most
    BY OffsetsBounded
  <1>3. Den \in Nat \ {0}
    BY MonthsKnown
  <1>4. Spread(z) = Den * (hi - low)
    BY DEF Spread, Offsets
  <1> HIDE DEF O
  <1> DEFINE c == -most
  <1>10. most \in Int /\ c \in Int /\ (\A o \in O : o <= most) /\ \A o \in O : c <= o
    BY <1>2
  <1> HIDE DEF c
  <1>5. hi \in O /\ \A o \in O : o <= hi
    BY <1>1, <1>10, LargestOf
  <1>6. low \in O /\ \A o \in O : low <= o
    BY <1>1, <1>10, SmallestOf
  <1> HIDE DEF hi, low
  <1>7. hi \in Int /\ low \in Int /\ low <= hi
    BY <1>1, <1>5, <1>6
  <1>8. ASSUME NEW o \in O, NEW q \in O
        PROVE  (o - q) * Den <= Den * (hi - low)
    <2>1. o \in Int /\ q \in Int /\ o - q <= hi - low
      BY <1>1, <1>5, <1>6, <1>7
    <2> QED
      BY <1>3, <1>7, <2>1
  <1>9. Den * (hi - low) \in Nat
    BY <1>3, <1>7
  <1> QED
    BY <1>4, <1>8, <1>9 DEF O

LEMMA ReachIs ==
    ASSUME NEW z, IsZone(z)
    PROVE  /\ Reach(z) \in Nat
           /\ \A o \in Offsets(z), q \in Offsets(z) \cup {0} :
                (o - q) * Den <= Reach(z) /\ (q - o) * Den <= Reach(z)
  <1> DEFINE O == Offsets(z)
             S == {Dist(x[1], x[2]) : x \in O \X (O \cup {0})}
             w == Max(S)
  <1>1. O \in SUBSET Int /\ O # {}
    BY OffsetsBounded
  <1>2. PICK most \in Nat : \A o \in O : -most <= o /\ o <= most
    BY OffsetsBounded
  <1>3. Den \in Nat \ {0}
    BY MonthsKnown
  <1>4. Reach(z) = Den * w
    BY DEF Reach
  <1> HIDE DEF O
  <1>5. \A o \in O, q \in O \cup {0} : /\ Dist(o, q) \in S /\ Dist(o, q) \in Nat /\ Dist(o, q) <= 2 * most
                                      /\ o - q <= Dist(o, q) /\ q - o <= Dist(o, q) /\ o \in Int /\ q \in Int
    <2> TAKE o \in O, q \in O \cup {0}
    <2>1. o \in Int /\ q \in Int /\ -most <= o /\ o <= most /\ -most <= q /\ q <= most
      BY <1>1, <1>2
    <2>2. <<o, q>> \in O \X (O \cup {0}) /\ <<o, q>>[1] = o /\ <<o, q>>[2] = q
      OBVIOUS
    <2>3. Dist(o, q) \in S
      BY <2>2
    <2> HIDE DEF S
    <2> QED
      BY <2>1, <2>3 DEF Dist
  <1>6. \A x \in O \X (O \cup {0}) : x[1] \in O /\ x[2] \in O \cup {0}
    OBVIOUS
  <1> DEFINE c == 2 * most
  <1>7. S \in SUBSET Nat /\ S # {} /\ c \in Int /\ \A x \in S : x <= c
    <2>1. S # {}
      BY <1>1, <1>5
    <2>2. ASSUME NEW x \in O \X (O \cup {0})
          PROVE  Dist(x[1], x[2]) \in Nat /\ Dist(x[1], x[2]) <= c
      BY <1>5, <1>6
    <2> QED
      BY <2>1, <2>2
  <1> HIDE DEF c
  <1>12. S \in SUBSET Int
    BY <1>7
  <1> HIDE DEF S
  <1>8. w \in S /\ \A x \in S : x <= w
    BY <1>7, <1>12, LargestOf
  <1> HIDE DEF w
  <1>9. w \in Nat
    BY <1>7, <1>8
  <1>10. ASSUME NEW o \in O, NEW q \in O \cup {0}
         PROVE  (o - q) * Den <= Den * w /\ (q - o) * Den <= Den * w
    <2>1. o \in Int /\ q \in Int /\ o - q <= w /\ q - o <= w
      BY <1>5, <1>8, <1>9
    <2> QED
      BY <1>3, <1>9, <2>1
  <1>11. Den * w \in Nat
    BY <1>3, <1>9
  <1> QED
    BY <1>4, <1>10, <1>11 DEF O

\* Where there is no change the offset stays.
LEMMA SameOffset ==
    ASSUME NEW z, IsZone(z), NEW s \in Int, NEW t \in Int, s <= t, ~ChangesIn(z, s, t)
    PROVE  OffsetAt(z, s) = OffsetAt(z, t)
  <1> DEFINE past(u) == {i \in 1 .. Len(z.ats) : z.ats[i] * Den <= u}
  <1>1. \A i \in 1 .. Len(z.ats) : z.ats[i] * Den \in Int
    BY ZoneKnown, MonthsKnown
  <1>2. \A i \in 1 .. Len(z.ats) : z.ats[i] * Den <= s <=> z.ats[i] * Den <= t
    <2> TAKE i \in 1 .. Len(z.ats)
    <2>1. ~(s <= z.ats[i] * Den /\ z.ats[i] * Den <= t)
      BY DEF ChangesIn
    <2> QED
      BY <1>1, <2>1
  <1>3. past(s) = past(t)
    BY <1>2
  <1>4. \A u : OffsetAt(z, u) = IF past(u) = {} THEN z.default ELSE z.off[Max(past(u))]
    BY DEF OffsetAt
  <1> HIDE DEF past
  <1> QED
    BY <1>3, <1>4

LEMMA NoChangeWithin ==
    ASSUME NEW z, IsZone(z), NEW low \in Int, NEW hi \in Int, ~ChangesIn(z, low, hi),
           NEW s \in Int, NEW t \in Int, low <= s, s <= hi, low <= t, t <= hi
    PROVE  OffsetAt(z, s) = OffsetAt(z, t)
  <1>1. \A i \in 1 .. Len(z.ats) : z.ats[i] * Den \in Int
    BY ZoneKnown, MonthsKnown
  <1>2. ~ChangesIn(z, s, t) /\ ~ChangesIn(z, t, s)
    BY <1>1 DEF ChangesIn
  <1> QED
    BY <1>2, SameOffset

LEMMA OffsetAtKnown ==
    ASSUME NEW z, IsZone(z), NEW t \in Int
    PROVE  OffsetAt(z, t) \in Offsets(z) /\ OffsetAt(z, t) \in Int
  <1>1. t \div Den \in Int
    BY UnitsAre
  <1>2. PICK j \in 0 .. Len(z.ats) : InSegment(z, t \div Den, j)
    BY <1>1, SegmentExists
  <1>3. OffsetAt(z, t) = OffsetOf(z, j)
    BY <1>2, OffsetAtIs
  <1>4. OffsetOf(z, j) \in Offsets(z)
    <2>1. Len(z.ats) \in Nat
      BY ZoneKnown
    <2>2. j # 0 => j \in 1 .. Len(z.ats)
      BY <1>2, <2>1
    <2> QED
      BY <2>2, OffsetsBounded DEF OffsetOf
  <1> QED
    BY <1>3, <1>4, OffsetsBounded

\* Seconds are cut off towards the epoch.
LEMMA SecondsAre ==
    ASSUME NEW t \in Int
    PROVE  /\ SecondsOf(t) \in Int /\ SecondsOf(t) * Den \in Int
           /\ t >= 0 \/ t % Den = 0 => SecondsOf(t) * Den <= t
           /\ t <= 0 \/ t % Den = 0 => t <= SecondsOf(t) * Den
           /\ t < SecondsOf(t) * Den + Den /\ SecondsOf(t) * Den < t + Den
           /\ \A u \in Int : t <= u => SecondsOf(t) <= SecondsOf(u)
  <1>1. Den \in Nat \ {0}
    BY MonthsKnown
  <1> DEFINE q == t \div Den
             r == (-t) \div Den
  <1>3. q \in Int /\ r \in Int /\ -t \in Int
    BY <1>1
  <1>4. q * Den <= t /\ t < q * Den + Den /\ (t % Den = 0 => t = q * Den)
    BY <1>1
  <1>5. r * Den <= -t /\ -t < r * Den + Den
    BY <1>1
  <1>6. t % Den = 0 => -t = r * Den
    <2> HAVE t % Den = 0
    <2> DEFINE m == -q
    <2>1. m \in Int /\ -t = m * Den
      BY <1>1, <1>3, <1>4
    <2> HIDE DEF m, r, q
    <2>2. r * Den <= m * Den /\ m * Den < (r + 1) * Den
      BY <1>1, <1>3, <1>5, <2>1
    <2>3. r = m
      BY <1>1, <1>3, <2>1, <2>2
    <2> QED
      BY <2>1, <2>3
  <1>7. SecondsOf(t) = IF t >= 0 THEN q ELSE -r
    BY DEF SecondsOf
  <1>8. (-r) * Den = -(r * Den) /\ q * Den \in Int /\ r * Den \in Int
    BY <1>1, <1>3
  <1> HIDE DEF q, r
  <1>9. \A u \in Int : t <= u => SecondsOf(t) <= SecondsOf(u)
    BY <1>1 DEF SecondsOf
  <1>10. CASE t >= 0
    BY <1>1, <1>3, <1>4, <1>7, <1>8, <1>9, <1>10
  <1>11. CASE ~(t >= 0)
    BY <1>1, <1>3, <1>5, <1>6, <1>7, <1>8, <1>9, <1>11
  <1> QED
    BY <1>10, <1>11

\* What a look-up finds.
LEMMA LookUpIs ==
    ASSUME NEW z, IsZone(z), NEW t \in Int, NEW o, o = getoffset(z, t)
    PROVE  /\ o.pos \in -1 .. Len(z.ats) - 1
           /\ o.pos >= 0 => /\ o.off = z.off[o.pos + 1] /\ z.ats[o.pos + 1] <= SecondsOf(t)
                            /\ o.pos + 1 < Len(z.ats) => SecondsOf(t) < z.ats[o.pos + 2]
           /\ o.pos < 0 => o.off = z.default /\ (Len(z.ats) > 0 => SecondsOf(t) <= z.ats[1])
  <1> DEFINE s == SecondsOf(t)
             found == bs(z, s)
  <1>1. /\ Len(z.ats) \in Nat /\ \A i \in 1 .. Len(z.ats) : z.ats[i] \in Int
        /\ z.ats \in Seq(Int)
    BY ZoneKnown
  <1>2. s \in Int
    BY SecondsInt
  <1>3. CASE z.ats # <<>> /\ z.ats[1] < s
    <2>1. Len(z.ats) # 0 /\ 1 \in 1 .. Len(z.ats)
      BY <1>1, <1>3, EmptySeq
    <2>2. z.ats[1] <= s
      BY <1>1, <1>2, <1>3, <2>1
    <2>3. Bracket(z, s, found)
      <3> HIDE DEF s, found
      <3> QED
        BY <1>2, <1>3, <2>2, BsRight DEF found
    <2>4. o.off = z.off[found + 1] /\ o.pos = found
      BY <1>3 DEF getoffset
    <2> HIDE DEF found
    <2>5. found \in 0 .. Len(z.ats) - 1
      BY <2>3 DEF Bracket
    <2>6. z.ats[found + 1] <= s /\ (found + 1 < Len(z.ats) => s < z.ats[found + 2])
      <3> HIDE DEF s
      <3> QED
        BY <1>1, <2>3, <2>5 DEF Bracket
    <2> QED
      BY <1>1, <2>4, <2>5, <2>6
  <1>4. CASE ~(z.ats # <<>> /\ z.ats[1] < s)
    <2>1. o.off = z.default /\ o.pos = -1
      BY <1>4 DEF getoffset
    <2>2. Len(z.ats) > 0 => s <= z.ats[1]
      <3> HAVE Len(z.ats) > 0
      <3>1. 1 \in 1 .. Len(z.ats) /\ z.ats # <<>>
        BY <1>1
      <3>2. ~(z.ats[1] < s) /\ z.ats[1] \in Int
        BY <1>1, <1>4, <3>1
      <3> HIDE DEF s
      <3> QED
        BY <1>2, <3>2
    <2> QED
      BY <1>1, <2>1, <2>2
  <1> QED
    BY <1>3, <1>4

\* Where a later look-up ends, forwards and backwards.
LEMMA UpIs ==
    ASSUME NEW z, IsZone(z), NEW t \in Int, NEW pos \in 0 .. Len(z.ats) - 1
    PROVE  \E i \in pos .. Len(z.ats) - 1 :
             UpFrom(z, t, pos, i) /\ getoffset_from(z, t, pos, 1) = [off |-> z.off[i + 1], pos |-> i]
  <1> DEFINE up == CHOOSE i \in pos .. Len(z.ats) - 1 : UpFrom(z, t, pos, i)
  <1>1. Len(z.ats) \in Nat
    BY ZoneKnown
  <1>2. up \in pos .. Len(z.ats) - 1 /\ UpFrom(z, t, pos, up)
    BY UpEnds
  <1>3. pos >= 0 /\ 1 >= 0
    BY <1>1
  <1>4. getoffset_from(z, t, pos, 1) = [off |-> z.off[up + 1], pos |-> up]
    BY <1>3 DEF getoffset_from, UpFrom
  <1> HIDE DEF up
  <1> QED
    BY <1>2, <1>4

LEMMA DownIs ==
    ASSUME NEW z, IsZone(z), NEW t \in Int, NEW pos \in 0 .. Len(z.ats) - 1
    PROVE  \E i \in 0 .. pos :
             DownFrom(z, t, pos, i)
             /\ getoffset_from(z, t, pos, -1)
                  = [off |-> IF t > z.ats[i + 1] * Den THEN z.off[i + 1] ELSE z.default, pos |-> i]
  <1> DEFINE down == CHOOSE i \in 0 .. pos : DownFrom(z, t, pos, i)
  <1>1. Len(z.ats) \in Nat
    BY ZoneKnown
  <1>2. down \in 0 .. pos /\ DownFrom(z, t, pos, down)
    BY DownEnds
  <1>3. pos >= 0 /\ ~(-1 >= 0)
    BY <1>1
  <1>4. getoffset_from(z, t, pos, -1)
          = [off |-> IF t > z.ats[down + 1] * Den THEN z.off[down + 1] ELSE z.default, pos |-> down]
    BY <1>3 DEF getoffset_from, DownFrom
  <1> HIDE DEF down
  <1> QED
    BY <1>2, <1>4

\* Away from the changes a look-up finds the offset of the time.
LEMMA CalmLook ==
    ASSUME NEW z, IsZone(z), NEW t \in Int, Calm(z, t)
    PROVE  /\ getoffset(z, t).off = OffsetAt(z, t)
           /\ \A u \in Int : t - Spread(z) <= u /\ u <= t + Spread(z) => OffsetAt(z, u) = OffsetAt(z, t)
  <1> DEFINE S == Spread(z)
             o == getoffset(z, t)
             s == SecondsOf(t)
  <1>1. S \in Nat /\ \A p, q \in Offsets(z) : (p - q) * Den <= S
    BY SpreadIs
  <1>2. Plain(t) /\ ~ChangesIn(z, t - S, t + S)
    BY DEF Calm
  <1> HIDE DEF S, o, s
  <1>3. t - S \in Int /\ t + S \in Int /\ t - S <= t /\ t <= t + S
    BY <1>1
  <1>4. \A u \in Int : t - S <= u /\ u <= t + S => OffsetAt(z, u) = OffsetAt(z, t)
    BY <1>2, <1>3, NoChangeWithin
  <1>5. CASE ~AtFirst(z, t)
    BY <1>2, <1>4, <1>5, GetOffsetIs DEF S
  <1>6. CASE AtFirst(z, t)
    <2>1. Len(z.ats) \in Nat /\ z.ats \in Seq(Int) /\ \A i \in 1 .. Len(z.ats) : z.ats[i] \in Int /\ z.off[i] \in Int
      BY ZoneKnown
    <2>2. z.ats # <<>> /\ s = z.ats[1]
      BY <1>6 DEF AtFirst, s
    <2>3. Len(z.ats) # 0 /\ 1 \in 1 .. Len(z.ats)
      BY <2>1, <2>2, EmptySeq
    <2>4. s = t \div Den
      BY <1>2, WholeSeconds DEF s
    <2>5. InSegment(z, s, 1)
      <3>1. Len(z.ats) > 1 => z.ats[1] < z.ats[2]
        BY <2>1, ChangesRise DEF Rising
      <3> QED
        BY <2>1, <2>2, <2>3, <3>1 DEF InSegment
    <2>6. OffsetAt(z, t) = z.off[1]
      BY <2>4, <2>5, OffsetAtIs DEF OffsetOf
    <2>7. o.off = z.default
      <3>1. z.ats[1] = SecondsOf(t) /\ z.ats[1] \in Int
        BY <2>1, <2>2, <2>3 DEF s
      <3>2. ~(z.ats[1] < SecondsOf(t))
        BY <3>1
      <3> QED
        BY <3>2 DEF getoffset, o
    <2>8. z.off[1] = z.default
      <3> SUFFICES ASSUME z.off[1] # z.default
                   PROVE  FALSE
        OBVIOUS
      <3>1. Den \in Nat \ {0} /\ z.off[1] \in Int /\ z.default \in Int /\ z.off[1] \in Offsets(z) /\ z.default \in Offsets(z)
        BY <2>1, <2>3, MonthsKnown, OffsetsBounded
      <3>2. (z.off[1] - z.default) * Den <= S /\ (z.default - z.off[1]) * Den <= S
        BY <1>1, <3>1
      <3> DEFINE x == z.off[1] - z.default
      <3>6. x \in Int /\ x # 0 /\ x * Den <= S /\ (-x) * Den <= S
        BY <3>1, <3>2
      <3> HIDE DEF x
      <3>3. Den <= S
        <4>1. CASE x >= 1
          BY <1>1, <3>1, <3>6, <4>1
        <4>2. CASE -x >= 1
          BY <1>1, <3>1, <3>6, <4>2
        <4> QED
          BY <3>6, <4>1, <4>2
      <3>4. s * Den \in Int /\ s * Den <= t /\ t < s * Den + Den
        BY <1>2, SecondsAre DEF Plain, s
      <3>5. ChangesIn(z, t - S, t + S)
        <4>1. t - S <= s * Den /\ s * Den <= t + S
          BY <1>1, <3>1, <3>3, <3>4
        <4> QED
          BY <2>2, <2>3, <4>1 DEF ChangesIn
      <3> QED
        BY <1>2, <3>5
    <2> QED
      BY <1>4, <2>6, <2>7, <2>8 DEF S, o
  <1> QED
    BY <1>5, <1>6

\* The next transition is after the time that has been looked up, and a whole one is not
\* before the transition that was found.
LEMMA AroundLook ==
    ASSUME NEW z, IsZone(z), NEW t \in Int, NEW o, o = getoffset(z, t), o.pos >= 0
    PROVE  /\ o.pos \in 0 .. Len(z.ats) - 1 /\ o.off = z.off[o.pos + 1]
           /\ z.ats[o.pos + 1] * Den \in Int /\ z.ats[o.pos + 1] * Den < t + Den
           /\ Plain(t) => z.ats[o.pos + 1] * Den <= t
           /\ o.pos + 1 < Len(z.ats) => t < z.ats[o.pos + 2] * Den /\ z.ats[o.pos + 2] * Den \in Int
  <1> DEFINE s == SecondsOf(t)
             p == o.pos
  <1>1. /\ p \in -1 .. Len(z.ats) - 1 /\ o.off = z.off[p + 1] /\ z.ats[p + 1] <= s
        /\ p + 1 < Len(z.ats) => s < z.ats[p + 2]
    BY LookUpIs
  <1>2. Len(z.ats) \in Nat /\ \A i \in 1 .. Len(z.ats) : z.ats[i] \in Int
    BY ZoneKnown
  <1>3. /\ s \in Int /\ s * Den \in Int /\ t < s * Den + Den /\ s * Den < t + Den
        /\ Plain(t) => s * Den <= t
    BY SecondsAre DEF Plain
  <1>4. Den \in Nat \ {0}
    BY MonthsKnown
  <1>5. p >= 0
    OBVIOUS
  <1> HIDE DEF s, p
  <1>6. p \in 0 .. Len(z.ats) - 1 /\ p + 1 \in 1 .. Len(z.ats)
    BY <1>1, <1>2, <1>5
  <1>7. z.ats[p + 1] \in Int
    BY <1>2, <1>6
  <1>8. z.ats[p + 1] * Den \in Int /\ z.ats[p + 1] * Den <= s * Den
    BY <1>1, <1>3, <1>4, <1>7
  <1>9. ASSUME p + 1 < Len(z.ats)
        PROVE  t < z.ats[p + 2] * Den /\ z.ats[p + 2] * Den \in Int
    <2>1. p + 2 \in 1 .. Len(z.ats) /\ s < z.ats[p + 2]
      BY <1>1, <1>2, <1>6, <1>9
    <2>2. z.ats[p + 2] \in Int /\ s + 1 <= z.ats[p + 2]
      BY <1>2, <1>3, <2>1
    <2> DEFINE here == z.ats[p + 2]
               then == here * Den
               c == s * Den
    <2>3. c + Den <= then /\ then \in Int /\ c \in Int /\ t < c + Den
      <3> HIDE DEF here
      <3>1. here \in Int /\ s + 1 <= here
        BY <2>2 DEF here
      <3> QED
        BY <1>3, <1>4, <3>1
    <2> HIDE DEF then, c
    <2>4. t < then
      BY <1>4, <2>3
    <2> QED
      BY <2>3, <2>4 DEF then
  <1> DEFINE here == z.ats[p + 1] * Den
             then == s * Den
  <1>10. here \in Int /\ here <= then /\ then \in Int /\ then < t + Den /\ (Plain(t) => then <= t)
    BY <1>3, <1>8
  <1> HIDE DEF here, then
  <1>11. here < t + Den /\ (Plain(t) => here <= t)
    BY <1>4, <1>10
  <1>12. z.ats[p + 1] * Den \in Int /\ z.ats[p + 1] * Den < t + Den /\ (Plain(t) => z.ats[p + 1] * Den <= t)
    BY <1>10, <1>11 DEF here
  <1> QED
    BY <1>1, <1>6, <1>9, <1>12 DEF p

LEMMA FromNone ==
    ASSUME NEW z, NEW t, NEW dir
    PROVE  getoffset_from(z, t, -1, dir) = getoffset(z, t)
  <1>1. -1 < 0 /\ ~(-1 >= 0)
    OBVIOUS
  <1> QED
    BY <1>1 DEF getoffset_from

\* A time looked up again from where it was found is found there.
LEMMA FoundAgain ==
    ASSUME NEW z, IsZone(z), NEW t \in Int
    PROVE  LET o == getoffset(z, t)
               q == getoffset_from(z, t, o.pos, 1)
           IN  q.pos = o.pos /\ q.off = o.off
  <1> DEFINE o == getoffset(z, t)
             q == getoffset_from(z, t, o.pos, 1)
  <1>1. Len(z.ats) \in Nat /\ o.pos \in -1 .. Len(z.ats) - 1
    BY ZoneKnown, GetOffsetKnown DEF LookedUp
  <1>2. CASE o.pos < 0
    <2>1. q = getoffset(z, t)
      <3> HIDE DEF o
      <3>1. o.pos = -1
        BY <1>1, <1>2
      <3> QED
        BY <3>1, FromNone
    <2> QED
      BY <2>1
  <1>3. CASE o.pos >= 0
    <2> HIDE DEF o
    <2>1. /\ o.pos \in 0 .. Len(z.ats) - 1 /\ o.off = z.off[o.pos + 1]
          /\ o.pos + 1 < Len(z.ats) => t < z.ats[o.pos + 2] * Den /\ z.ats[o.pos + 2] * Den \in Int
      BY <1>3, AroundLook DEF o
    <2>2. PICK i \in o.pos .. Len(z.ats) - 1 : UpFrom(z, t, o.pos, i) /\ q = [off |-> z.off[i + 1], pos |-> i]
      BY <2>1, UpIs
    <2>3. i = o.pos
      <3> SUFFICES ASSUME i # o.pos
                   PROVE  FALSE
        OBVIOUS
      <3>1. o.pos \in o.pos .. i - 1 /\ (o.pos + 1) + 1 = o.pos + 2 /\ o.pos + 1 < Len(z.ats)
        BY <1>1, <2>1, <2>2
      <3>2. t > z.ats[o.pos + 2] * Den
        BY <2>2, <3>1 DEF UpFrom
      <3> QED
        BY <2>1, <3>1, <3>2
    <2> QED
      BY <2>1, <2>2, <2>3 DEF o
  <1> QED
    BY <1>1, <1>2, <1>3

\* A look-up from an earlier one is right, in the direction of the time, for times that
\* are not changes themselves.
LEMMA FromIs ==
    ASSUME NEW z, IsZone(z), NEW t \in Int, Plain(t), NEW o, o = getoffset(z, t), o.pos >= 0,
           NEW u \in Int, ~ChangesIn(z, u, u)
    PROVE  getoffset_from(z, u, o.pos, IF u >= t THEN 1 ELSE -1).off = OffsetAt(z, u)
  <1> DEFINE n == Len(z.ats)
             Change(i) == z.ats[i] * Den
             p == o.pos
             v == u \div Den
  <1>1. n \in Nat /\ \A i \in 1 .. n : z.ats[i] \in Int
    BY ZoneKnown
  <1>2. \A i \in 1 .. n : Change(i) \in Int /\ Change(i) # u /\ (Change(i) <= u <=> z.ats[i] <= v)
    <2> TAKE i \in 1 .. n
    <2>2. z.ats[i] \in Int
      BY <1>1
    <2>1. z.ats[i] * Den \in Int /\ (z.ats[i] * Den <= u <=> z.ats[i] <= v)
      <3> HIDE DEF n
      <3> DEFINE m == z.ats[i]
      <3>1. m \in Int
        BY <2>2
      <3> HIDE DEF m
      <3>2. m * Den \in Int
        BY <3>1, MonthsKnown
      <3>3. m * Den <= u <=> m <= u \div Den
        BY <3>1, UnitsAre
      <3> QED
        BY <3>2, <3>3 DEF m
    <2> QED
      BY <2>1 DEF ChangesIn
  <1>3. v \in Int
    BY UnitsAre
  <1>4. /\ p \in 0 .. n - 1 /\ Change(p + 1) <= t
        /\ p + 1 < n => t < Change(p + 2)
    BY AroundLook
  <1> HIDE DEF Change
  <1>5. CASE u >= t
    <2>1. PICK i \in p .. n - 1 : UpFrom(z, u, p, i) /\ getoffset_from(z, u, p, 1) = [off |-> z.off[i + 1], pos |-> i]
      BY <1>4, UpIs
    <2> HIDE DEF n, p, v
    <2>2. i \in 0 .. n - 1 /\ i + 1 \in 1 .. n /\ p + 1 \in 1 .. n /\ i \in p .. n - 1 /\ p \in 0 .. n - 1
      BY <1>1, <1>4, <2>1
    <2>3. Change(i + 1) <= u
      <3>1. CASE i = p
        BY <1>2, <1>4, <1>5, <2>2, <3>1
      <3>2. CASE i # p
        <4>1. i - 1 \in p .. i - 1 /\ ((i - 1) + 1) + 1 = i + 1
          BY <2>2, <3>2
        <4>2. u > Change(i + 1)
          BY <2>1, <4>1 DEF UpFrom, Change
        <4> QED
          BY <1>2, <2>2, <4>2
      <3> QED
        BY <3>1, <3>2
    <2>4. ASSUME i + 1 < n
          PROVE  u < Change(i + 2)
      <3>1. i # n - 1 /\ (i + 1) + 1 = i + 2 /\ i + 2 \in 1 .. n
        BY <1>1, <2>2, <2>4
      <3>2. u <= Change(i + 2)
        BY <2>1, <3>1 DEF UpFrom, Change, n
      <3> QED
        BY <1>2, <3>1, <3>2
    <2>5. InSegment(z, v, i + 1)
      <3>1. z.ats[i + 1] <= v
        BY <1>2, <2>2, <2>3
      <3>2. i + 1 < n => v < z.ats[i + 2]
        <4> HAVE i + 1 < n
        <4>1. i + 2 \in 1 .. n /\ ~(Change(i + 2) <= u)
          BY <1>1, <1>2, <2>2, <2>4
        <4>2. ~(z.ats[i + 2] <= v) /\ z.ats[i + 2] \in Int
          BY <1>1, <1>2, <4>1
        <4> QED
          BY <1>3, <4>2
      <3>3. i + 1 \in 0 .. n /\ (i + 1) + 1 = i + 2
        BY <2>2
      <3> QED
        BY <3>1, <3>2, <3>3 DEF InSegment, n
    <2>6. OffsetAt(z, u) = z.off[i + 1]
      <3>1. OffsetAt(z, u) = OffsetOf(z, i + 1)
        BY <2>5, OffsetAtIs DEF v
      <3>2. i + 1 # 0
        BY <2>2
      <3> QED
        BY <3>1, <3>2 DEF OffsetOf
    <2> QED
      BY <1>5, <2>1, <2>6 DEF p
  <1>6. CASE ~(u >= t)
    <2>1. PICK i \in 0 .. p :
            DownFrom(z, u, p, i)
            /\ getoffset_from(z, u, p, -1) = [off |-> IF u > z.ats[i + 1] * Den THEN z.off[i + 1] ELSE z.default, pos |-> i]
      BY <1>4, DownIs
    <2> HIDE DEF n, p, v
    <2>2. i \in 0 .. n - 1 /\ i + 1 \in 1 .. n /\ i \in 0 .. p /\ p \in 0 .. n - 1
      BY <1>1, <1>4, <2>1
    <2>3. i + 1 < n => u < Change(i + 2)
      <3> HAVE i + 1 < n
      <3>1. CASE i = p
        <4>1. Change(i + 2) \in Int /\ t < Change(i + 2)
          BY <1>1, <1>2, <1>4, <2>2, <3>1
        <4> QED
          BY <1>6, <4>1
      <3>2. CASE i # p
        <4>1. i + 1 \in i + 1 .. p /\ (i + 1) + 1 = i + 2
          BY <2>2, <3>2
        <4> QED
          BY <2>1, <4>1 DEF DownFrom, Change
      <3> QED
        BY <3>1, <3>2
    <2>4. i + 1 < n => v < z.ats[i + 2]
      <3> HAVE i + 1 < n
      <3>1. i + 2 \in 1 .. n /\ ~(Change(i + 2) <= u)
        BY <1>1, <1>2, <2>2, <2>3
      <3>2. ~(z.ats[i + 2] <= v) /\ z.ats[i + 2] \in Int
        BY <1>1, <1>2, <3>1
      <3> QED
        BY <1>3, <3>2
    <2>5. CASE u > Change(i + 1)
      <3>1. z.ats[i + 1] <= v
        BY <1>2, <2>2, <2>5
      <3>2. i + 1 \in 0 .. n /\ (i + 1) + 1 = i + 2 /\ i + 1 # 0
        BY <2>2
      <3>3. InSegment(z, v, i + 1)
        BY <2>4, <3>1, <3>2 DEF InSegment, n
      <3>4. OffsetAt(z, u) = z.off[i + 1]
        BY <3>2, <3>3, OffsetAtIs DEF OffsetOf, v
      <3> QED
        BY <1>6, <2>1, <2>5, <3>4 DEF p, Change
    <2>6. CASE ~(u > Change(i + 1))
      <3>1. u < Change(i + 1) /\ Change(i + 1) \in Int
        BY <1>2, <2>2, <2>6
      <3>2. i = 0
        <4>1. i = 0 \/ u >= Change(i + 1)
          BY <2>1 DEF DownFrom, Change
        <4> QED
          BY <3>1, <4>1
      <3>3. 1 \in 1 .. n /\ u < Change(1)
        BY <2>2, <3>1, <3>2
      <3>4. ~(z.ats[1] <= v) /\ z.ats[1] \in Int
        BY <1>1, <1>2, <3>3
      <3>5. InSegment(z, v, 0)
        BY <1>1, <1>3, <3>4 DEF InSegment, n
      <3>6. OffsetAt(z, u) = z.default
        BY <3>5, OffsetAtIs DEF OffsetOf, v
      <3> QED
        BY <1>6, <2>1, <2>6, <3>6 DEF p, Change
    <2> QED
      BY <2>5, <2>6
  <1> QED
    BY <1>5, <1>6

\* In the other direction it stays where it is.
LEMMA FromStays ==
    ASSUME NEW z, IsZone(z), NEW t \in Int, Plain(t), NEW o, o = getoffset(z, t), o.pos >= 0,
           NEW u \in Int, ~ChangesIn(z, u, u)
    PROVE  /\ u >= t => getoffset_from(z, u, o.pos, -1).off = o.off
           /\ u < t => getoffset_from(z, u, o.pos, 1).off = o.off
  <1> DEFINE n == Len(z.ats)
             Change(i) == z.ats[i] * Den
             p == o.pos
  <1>1. n \in Nat
    BY ZoneKnown
  <1>2. /\ p \in 0 .. n - 1 /\ Change(p + 1) <= t /\ Change(p + 1) \in Int /\ o.off = z.off[p + 1]
        /\ p + 1 < n => t < Change(p + 2) /\ Change(p + 2) \in Int
    BY AroundLook
  <1>3. Change(p + 1) # u
    BY <1>1, <1>2 DEF ChangesIn
  <1>4. ASSUME u >= t
        PROVE  getoffset_from(z, u, p, -1).off = o.off
    <2>1. PICK i \in 0 .. p :
            DownFrom(z, u, p, i)
            /\ getoffset_from(z, u, p, -1) = [off |-> IF u > z.ats[i + 1] * Den THEN z.off[i + 1] ELSE z.default, pos |-> i]
      BY <1>2, DownIs
    <2>2. u > Change(p + 1)
      BY <1>2, <1>3, <1>4
    <2>3. i = p
      <3> SUFFICES ASSUME i # p
                   PROVE  FALSE
        OBVIOUS
      <3>1. p \in i + 1 .. p
        BY <1>1, <1>2, <2>1
      <3>2. u < Change(p + 1)
        BY <2>1, <3>1 DEF DownFrom
      <3> HIDE DEF Change
      <3> QED
        BY <1>2, <2>2, <3>2
    <2> QED
      BY <1>2, <2>1, <2>2, <2>3
  <1>5. ASSUME u < t
        PROVE  getoffset_from(z, u, p, 1).off = o.off
    <2>1. PICK i \in p .. n - 1 : UpFrom(z, u, p, i) /\ getoffset_from(z, u, p, 1) = [off |-> z.off[i + 1], pos |-> i]
      BY <1>2, UpIs
    <2>2. i = p
      <3> SUFFICES ASSUME i # p
                   PROVE  FALSE
        OBVIOUS
      <3>1. p \in p .. i - 1 /\ (p + 1) + 1 = p + 2 /\ p + 1 < n
        BY <1>1, <1>2, <2>1
      <3>2. u > Change(p + 2)
        BY <2>1, <3>1 DEF UpFrom
      <3> HIDE DEF Change
      <3> QED
        BY <1>2, <1>5, <3>1, <3>2
    <2> QED
      BY <1>2, <2>1, <2>2
  <1> QED
    BY <1>4, <1>5

(***************************************************************************)
(* The calendar of days.                                                   *)
(***************************************************************************)
\* The date of a day, and the day of a date.
DateAt(n, m) == DaysBefore(m) <= n % YearDays /\ n % YearDays < DaysBefore(m + 1)

LEMMA DateIs ==
    ASSUME NEW n \in Int
    PROVE  \E m \in 1 .. Months :
             /\ DateAt(n, m)
             /\ from_days(n) = [y |-> n \div YearDays, m |-> m, d |-> (n % YearDays) - DaysBefore(m) + 1]
  <1> DEFINE doy == n % YearDays
             m == CHOOSE k \in 1 .. Months : DaysBefore(k) <= doy /\ doy < DaysBefore(k + 1)
  <1>1. doy \in 0 .. YearDays - 1
    BY YearDaysKnown
  <1>2. from_days(n) = [y |-> n \div YearDays, m |-> m, d |-> doy - DaysBefore(m) + 1]
    BY DEF from_days
  <1>3. m \in 1 .. Months /\ DaysBefore(m) <= doy /\ doy < DaysBefore(m + 1)
    <2> HIDE DEF doy
    <2> QED
      BY <1>1, MonthOfDay
  <1> HIDE DEF m
  <1> QED
    BY <1>2, <1>3 DEF DateAt

LEMMA DayIs ==
    ASSUME NEW n \in Int
    PROVE  /\ n \div YearDays \in Int /\ n % YearDays \in Int
           /\ n % YearDays >= 0 /\ n % YearDays < YearDays
           /\ n = (n \div YearDays) * YearDays + (n % YearDays)
  BY YearDaysKnown

LEMMA DayOfDate ==
    ASSUME NEW n \in Int
    PROVE  IsDate(from_days(n)) /\ to_days(from_days(n)) = n
  <1>1. PICK m \in 1 .. Months : from_days(n) = [y |-> n \div YearDays, m |-> m, d |-> (n % YearDays) - DaysBefore(m) + 1]
    BY DateIs
  <1> DEFINE y == n \div YearDays
             e == n % YearDays
             g1 == y * YearDays
             g2 == DaysBefore(m)
  <1>2. y \in Int /\ e \in Int /\ n = g1 + e /\ g1 \in Int
    BY YearDaysKnown, DayIs
  <1>3. g2 \in Int
    <2>1. m \in 1 .. Months + 1
      BY <1>1, MonthsKnown
    <2> QED
      BY <2>1, DaysBeforeIs
  <1>4. to_days(from_days(n)) = g1 + g2 + (e - g2 + 1) - 1
    BY <1>1 DEF to_days
  <1> HIDE DEF g1, g2, e
  <1>5. to_days(from_days(n)) = n
    BY <1>2, <1>3, <1>4
  <1> QED
    BY <1>5, FromDaysKnown

LEMMA NoMonths ==
    ASSUME NEW ymd, IsDate(ymd)
    PROVE  plus_months(ymd, 0) = ymd
  <1>1. /\ Months \in Nat \ {0} /\ ymd.y \in Int /\ ymd.m \in 1 .. Months /\ ymd.m - 1 + 0 = ymd.m - 1
        /\ ymd = [y |-> ymd.y, m |-> ymd.m, d |-> ymd.d]
    BY MonthsKnown DEF IsDate
  <1>2. (ymd.m - 1) \div Months = 0 /\ (ymd.m - 1) % Months = ymd.m - 1
    BY <1>1
  <1>3. plus_months(ymd, 0) = [ymd EXCEPT !.y = ymd.y + ((ymd.m - 1) \div Months), !.m = ((ymd.m - 1) % Months) + 1]
    BY <1>1 DEF plus_months
  <1>4. ymd.y + 0 = ymd.y /\ (ymd.m - 1) + 1 = ymd.m
    BY <1>1
  <1> QED
    BY <1>1, <1>2, <1>3, <1>4

\* Adding months is adding them to the local date.
LEMMA MonthsLocal ==
    ASSUME NEW t \in Int, NEW off \in Int, NEW k \in Int
    PROVE  /\ add_months(t, off, k) + off
                = Day * to_days(plus_months(from_days((t + off) \div Day), k)) + ((t + off) % Day)
           /\ to_days(plus_months(from_days((t + off) \div Day), k)) \in Int
           /\ (t + off) % Day \in Int /\ (t + off) \div Day \in Int
  <1> DEFINE local == t + off
             n == local \div Day
             e == local % Day
             d == to_days(plus_months(from_days(n), k))
  <1>1. Day \in Nat \ {0} /\ local \in Int
    BY MonthsKnown
  <1>2. n \in Int /\ e \in Int /\ local = Day * n + e
    <2> HIDE DEF local
    <2> QED
      BY <1>1
  <1> HIDE DEF n, e
  <1>3. d \in Int
    BY <1>2, DayOfDate, MonthsAdded
  <1>4. add_months(t, off, k) = IF k = 0 THEN t ELSE Day * d - off + e
    BY DEF add_months, n, e
  <1>5. k = 0 => d = n
    BY <1>2, DayOfDate, NoMonths
  <1> DEFINE g1 == Day * d
  <1>6. g1 \in Int
    BY <1>1, <1>3
  <1>7. k = 0 => local = g1 + e
    BY <1>2, <1>5
  <1> HIDE DEF g1, d
  <1>8. add_months(t, off, k) + off = g1 + e
    BY <1>2, <1>4, <1>6, <1>7 DEF g1
  <1> QED
    BY <1>2, <1>3, <1>8 DEF g1, d, n, e

(***************************************************************************)
(* Adding a period.                                                        *)
(***************************************************************************)
\* The time before it is adjusted, the look-up that adjusts it, and the sum.
Unadjusted(t, o, p) == add_months(t, o.off * Den, p.months) + p.days * Day + p.dur
LookedFrom(z, t, o, u) == getoffset_from(z, u, o.pos, IF u >= t THEN 1 ELSE -1)

LEMMA PlusIs ==
    ASSUME NEW z, IsZone(z), NEW t \in Int, NEW p \in Period, NEW o, o = getoffset(z, t)
    PROVE  /\ plus(z, t, p) = Unadjusted(t, o, p) + (o.off - LookedFrom(z, t, o, Unadjusted(t, o, p)).off) * Den
           /\ Unadjusted(t, o, p) \in Int
           /\ o.off \in Int /\ LookedFrom(z, t, o, Unadjusted(t, o, p)).off \in Int
  <1> DEFINE q == getoffset_from(z, t, o.pos, 1)
             u == Unadjusted(t, o, p)
  <1>1. plus(z, t, p) = plus_from(z, t, p, getoffset_from(z, t, -1, 1))
    BY DEF plus
  <1>2. getoffset_from(z, t, -1, 1) = o
    BY FromNone
  <1>3. plus(z, t, p) = plus_from(z, t, p, o)
    BY <1>1, <1>2
  <1>4. plus_from(z, t, p, o) = u + (q.off - getoffset_from(z, u, q.pos, IF u >= t THEN 1 ELSE -1).off) * Den
    BY DEF plus_from, Adjusted, Unadjusted
  <1>5. q.pos = o.pos /\ q.off = o.off
    BY FoundAgain
  <1>6. o.off \in Int /\ o.pos \in -1 .. Len(z.ats) - 1
    BY GetOffsetKnown DEF LookedUp
  <1>7. p.months \in Int /\ p.days \in Int /\ p.dur \in Int
    BY DEF Period
  <1>8. o.off * Den \in Int /\ p.days * Day \in Int
    BY <1>6, <1>7, MonthsKnown
  <1>9. add_months(t, o.off * Den, p.months) \in Int
    BY <1>7, <1>8, AddMonthsInt
  <1>10. u \in Int
    BY <1>7, <1>8, <1>9 DEF Unadjusted
  <1> HIDE DEF u
  <1> DEFINE dir == IF u >= t THEN 1 ELSE -1
  <1>11. dir \in Int
    OBVIOUS
  <1> HIDE DEF dir
  <1>12. LookedUp(z, getoffset_from(z, u, o.pos, dir))
    BY <1>6, <1>10, <1>11, FromKnown
  <1>13. LookedFrom(z, t, o, u).off \in Int
    BY <1>12 DEF dir, LookedFrom, LookedUp
  <1> HIDE DEF q
  <1>14. plus(z, t, p) = u + (o.off - LookedFrom(z, t, o, u).off) * Den
    BY <1>3, <1>4, <1>5 DEF LookedFrom
  <1> QED
    BY <1>6, <1>10, <1>13, <1>14 DEF u

\* Every look-up gives an offset of the zone.
LEMMA FromOffsets ==
    ASSUME NEW z, IsZone(z), NEW t \in Int, NEW pos \in -1 .. Len(z.ats) - 1
    PROVE  /\ getoffset_from(z, t, pos, 1).off \in Offsets(z)
           /\ getoffset_from(z, t, pos, -1).off \in Offsets(z)
  <1>1. Len(z.ats) \in Nat /\ z.default \in Offsets(z) /\ \A i \in 1 .. Len(z.ats) : z.off[i] \in Offsets(z)
    BY ZoneKnown, OffsetsBounded
  <1>2. CASE pos = -1
    <2> DEFINE o == getoffset(z, t)
    <2>1. o.pos \in -1 .. Len(z.ats) - 1 /\ (o.pos >= 0 => o.off = z.off[o.pos + 1]) /\ (o.pos < 0 => o.off = z.default)
      <3> HIDE DEF o
      <3> QED
        BY LookUpIs DEF o
    <2> HIDE DEF o
    <2>2. o.off \in Offsets(z)
      <3>1. CASE o.pos >= 0
        <4>1. o.pos + 1 \in 1 .. Len(z.ats)
          BY <1>1, <2>1, <3>1
        <4> QED
          BY <1>1, <2>1, <3>1, <4>1
      <3>2. CASE o.pos < 0
        BY <1>1, <2>1, <3>2
      <3> QED
        BY <1>1, <2>1, <3>1, <3>2
    <2> QED
      BY <1>2, <2>2, FromNone DEF o
  <1>3. CASE pos # -1
    <2>1. pos \in 0 .. Len(z.ats) - 1
      BY <1>1, <1>3
    <2>2. PICK i \in pos .. Len(z.ats) - 1 : getoffset_from(z, t, pos, 1) = [off |-> z.off[i + 1], pos |-> i]
      BY <2>1, UpIs
    <2>3. PICK j \in 0 .. pos :
            getoffset_from(z, t, pos, -1)
              = [off |-> IF t > z.ats[j + 1] * Den THEN z.off[j + 1] ELSE z.default, pos |-> j]
      BY <2>1, DownIs
    <2>4. i + 1 \in 1 .. Len(z.ats) /\ j + 1 \in 1 .. Len(z.ats)
      BY <1>1, <2>1
    <2> QED
      BY <1>1, <2>2, <2>3, <2>4
  <1> QED
    BY <1>2, <1>3

\* What the property says of one addition.
PeriodRight(z, t, p, res) ==
  Calm(z, t) /\ Calm(z, res) =>
    LET local == Local(z, t)
    IN  Local(z, res) = Day * (to_days(plus_months(from_days(local \div Day), p.months)) + p.days) + (local % Day) + p.dur

LEMMA PeriodFound ==
    ASSUME NEW z, IsZone(z), NEW t \in Int, NEW p \in Period
    PROVE  PeriodRight(z, t, p, plus(z, t, p))
  <1> DEFINE o == getoffset(z, t)
             u == Unadjusted(t, o, p)
             w == LookedFrom(z, t, o, u)
             res == plus(z, t, p)
             S == Spread(z)
             off == o.off * Den
  <1> SUFFICES ASSUME Calm(z, t), Calm(z, res)
               PROVE  LET local == Local(z, t)
                      IN  Local(z, res) = Day * (to_days(plus_months(from_days(local \div Day), p.months)) + p.days) + (local % Day) + p.dur
    BY DEF PeriodRight
  <1>1. res = u + (o.off - w.off) * Den /\ u \in Int /\ o.off \in Int /\ w.off \in Int
    BY PlusIs
  <1>2. Den \in Nat \ {0} /\ Day \in Nat \ {0} /\ p.months \in Int /\ p.days \in Int /\ p.dur \in Int
    BY MonthsKnown DEF Period
  <1>3. res \in Int
    BY PlusInt
  <1>4. o.off = OffsetAt(z, t) /\ o.off \in Offsets(z)
    BY CalmLook, OffsetAtKnown
  <1>5. S \in Nat /\ \A g1, g2 \in Offsets(z) : (g1 - g2) * Den <= S
    BY SpreadIs
  <1>6. Plain(t) /\ Plain(res) /\ ~ChangesIn(z, res - S, res + S)
    BY DEF Calm
  <1>7. \A v \in Int : res - S <= v /\ v <= res + S => OffsetAt(z, v) = OffsetAt(z, res)
    BY <1>3, CalmLook
  <1>8. o.pos \in -1 .. Len(z.ats) - 1 /\ Len(z.ats) \in Nat
    BY LookUpIs, ZoneKnown
  <1>9. w.off \in Offsets(z)
    BY <1>1, <1>8, FromOffsets DEF LookedFrom
  <1> DEFINE k == o.off - w.off
             x == k * Den
  <1>10. k \in Int /\ x \in Int /\ x <= S /\ -x <= S
    <2>1. k \in Int /\ k * Den <= S /\ (w.off - o.off) * Den <= S /\ w.off - o.off = -k
      BY <1>1, <1>4, <1>5, <1>9
    <2> HIDE DEF k
    <2>2. (-k) * Den = -(k * Den) /\ k * Den \in Int
      BY <1>2, <2>1
    <2>3. (-k) * Den <= S
      <3>1. w.off - o.off = -k
        BY <2>1
      <3> QED
        BY <2>1, <3>1
    <2> QED
      BY <2>1, <2>2, <2>3
  <1>11. res = u + x
    BY <1>1
  <1> HIDE DEF x, S, res, u
  <1>12. res - S <= u /\ u <= res + S
    BY <1>1, <1>3, <1>5, <1>10, <1>11
  <1>13. OffsetAt(z, u) = OffsetAt(z, res) /\ ~ChangesIn(z, u, u)
    <2>1. OffsetAt(z, u) = OffsetAt(z, res)
      BY <1>1, <1>7, <1>12
    <2>2. \A i \in 1 .. Len(z.ats) : z.ats[i] * Den \in Int
      BY ZoneKnown, MonthsKnown
    <2>3. res - S \in Int /\ res + S \in Int
      BY <1>3, <1>5
    <2>4. ~ChangesIn(z, u, u)
      BY <1>1, <1>6, <1>12, <2>2, <2>3 DEF ChangesIn
    <2> QED
      BY <2>1, <2>4
  <1>14. w.off = OffsetAt(z, res)
    <2>1. CASE o.pos >= 0
      <3> HIDE DEF o
      <3>1. w.off = OffsetAt(z, u)
        BY <1>1, <1>6, <1>13, <2>1, FromIs DEF LookedFrom, o
      <3> QED
        BY <1>13, <3>1
    <2>2. CASE ~(o.pos >= 0)
      <3>1. o.pos = -1 /\ o.off = z.default
        <4> HIDE DEF o
        <4> QED
          BY <1>8, <2>2, LookUpIs DEF o
      <3>2. w = getoffset(z, u)
        BY <3>1, FromNone DEF LookedFrom
      <3> HIDE DEF o, w
      <3>3. CASE k = 0
        <4>1. u = res
          BY <1>1, <1>2, <1>11, <3>3 DEF x
        <4> QED
          BY <1>3, <3>2, <4>1, CalmLook
      <3>4. CASE k # 0
        <4>1. w.off # z.default
          BY <1>1, <3>1, <3>4
        <4>2. ASSUME NEW v, SecondsOf(v) = SecondsOf(u)
              PROVE  ~AtFirst(z, v) /\ getoffset(z, v) = w
          <5>1. getoffset(z, v) = w
            BY <3>2, <4>2 DEF getoffset
          <5>2. SUFFICES ASSUME AtFirst(z, v)
                         PROVE  FALSE
            BY <5>1
          <5>3. Len(z.ats) # 0 /\ 1 \in 1 .. Len(z.ats) /\ z.ats[1] \in Int /\ z.ats[1] = SecondsOf(u)
            BY <4>2, <5>2, ZoneKnown, EmptySeq DEF AtFirst
          <5>4. ~(z.ats[1] < SecondsOf(u))
            BY <5>3
          <5>5. w.off = z.default
            BY <3>2, <5>4 DEF getoffset
          <5> QED
            BY <4>1, <5>5
        <4>3. CASE Plain(u)
          BY <1>1, <1>13, <3>2, <4>2, <4>3, GetOffsetIs
        <4>4. CASE ~Plain(u)
          <5>1. u < 0 /\ u % Den # 0
            BY <1>1, <4>4 DEF Plain
          <5> DEFINE s == SecondsOf(u)
                     v == s * Den
          <5>2. s \in Int /\ v \in Int /\ u <= v /\ v < u + Den
            BY <1>1, <5>1, SecondsAre
          <5>3. Plain(v) /\ SecondsOf(v) = s
            <6> HIDE DEF s
            <6>1. (s * Den) % Den = 0 /\ (s * Den) \div Den = s
              BY <1>2, <5>2
            <6>2. Plain(v)
              BY <6>1 DEF Plain
            <6> QED
              BY <5>2, <6>1, <6>2, WholeSeconds
          <5> HIDE DEF v, s
          <5>4. res >= 0
            <6> SUFFICES ASSUME ~(res >= 0)
                         PROVE  FALSE
              OBVIOUS
            <6>1. res % Den = 0 /\ res = (res \div Den) * Den /\ res \div Den \in Int
              BY <1>2, <1>3, <1>6 DEF Plain
            <6> DEFINE m == res \div Den
            <6> HIDE DEF k, m
            <6>2. m \in Int /\ res = m * Den /\ u = (m - k) * Den
              BY <1>1, <1>2, <1>10, <1>11, <6>1 DEF m, x
            <6>3. ((m - k) * Den) % Den = 0
              BY <1>2, <1>10, <6>2
            <6> QED
              BY <5>1, <6>2, <6>3
          <5>5. v <= res
            <6> HIDE DEF k
            <6>1. x > 0
              BY <1>1, <1>3, <1>10, <1>11, <5>1, <5>4
            <6>2. k >= 1
              BY <1>2, <1>10, <6>1 DEF x
            <6>3. x >= Den
              BY <1>2, <1>10, <6>2 DEF x
            <6> QED
              BY <1>1, <1>2, <1>3, <1>10, <1>11, <5>2, <6>3
          <5>6. OffsetAt(z, v) = OffsetAt(z, res)
            BY <1>1, <1>3, <1>5, <1>7, <1>12, <5>2, <5>5
          <5>7. SecondsOf(v) = SecondsOf(u)
            BY <5>3 DEF s
          <5>8. ~AtFirst(z, v) /\ getoffset(z, v) = w
            BY <4>2, <5>7
          <5>9. getoffset(z, v).off = OffsetAt(z, v)
            BY <5>2, <5>3, <5>8, GetOffsetIs
          <5> QED
            BY <5>6, <5>8, <5>9
        <4> QED
          BY <4>3, <4>4
      <3> QED
        BY <3>3, <3>4
    <2> QED
      BY <2>1, <2>2
  <1> DEFINE n == (t + off) \div Day
             e == (t + off) % Day
             d == to_days(plus_months(from_days(n), p.months))
             c == add_months(t, off, p.months)
             y == p.days * Day
  <1>15. off \in Int /\ w.off * Den \in Int /\ y \in Int
    BY <1>1, <1>2
  <1>16. Local(z, t) = t + off /\ Local(z, res) = res + w.off * Den
    BY <1>4, <1>14 DEF Local
  <1>17. x = off - w.off * Den
    BY <1>1, <1>2 DEF x
  <1>18. u = c + y + p.dur /\ c \in Int
    BY <1>2, <1>15, AddMonthsInt DEF Unadjusted, u
  <1>19. c + off = Day * d + e /\ d \in Int /\ e \in Int /\ n \in Int
    BY <1>2, <1>15, MonthsLocal
  <1> HIDE DEF off, n, e, d, c, y, w, o
  <1> DEFINE g == Day * d
             g2 == w.off * Den
  <1>20. g \in Int /\ Day * (d + p.days) = g + y
    BY <1>2, <1>19 DEF y
  <1>21. g2 \in Int /\ x = off - g2 /\ Local(z, res) = res + g2
    BY <1>15, <1>16, <1>17
  <1> HIDE DEF g, g2
  <1>22. c + off = g + e
    BY <1>19 DEF g
  <1>23. Local(z, res) = (g + y) + e + p.dur
    <2>1. /\ res \in Int /\ u \in Int /\ x \in Int /\ off \in Int /\ g2 \in Int /\ g \in Int /\ y \in Int
          /\ c \in Int /\ e \in Int /\ p.dur \in Int
      BY <1>1, <1>2, <1>3, <1>10, <1>15, <1>18, <1>19, <1>20, <1>21
    <2>2. res = u + x /\ x = off - g2 /\ u = c + y + p.dur /\ c + off = g + e /\ Local(z, res) = res + g2
      BY <1>11, <1>18, <1>21, <1>22
    <2>3. res + g2 = (g + y) + e + p.dur
      BY <2>1, <2>2
    <2> QED
      BY <2>2, <2>3
  <1>24. Local(z, res) = Day * (d + p.days) + e + p.dur
    BY <1>20, <1>23
  <1> QED
    BY <1>16, <1>24 DEF n, e, d, res

(***************************************************************************)
(* Beginnings of days, months and years, as days.                          *)
(***************************************************************************)
BeginOf(unit, n) == to_days(Floored(from_days(n), unit))
AfterOf(unit, n) == to_days(Ceiled(from_days(n), unit))

LEMMA MonthsRise ==
    /\ \A m \in 1 .. Months + 1 : DaysBefore(m) \in Nat
    /\ \A k, m \in 1 .. Months + 1 : k < m => DaysBefore(k) < DaysBefore(m)
    /\ \A k, m \in 1 .. Months + 1 : DaysBefore(k) < DaysBefore(m) => k < m
    /\ DaysBefore(1) = 0 /\ DaysBefore(Months + 1) = YearDays
    /\ \A m \in 1 .. Months : m \in 1 .. Months + 1 /\ m + 1 \in 1 .. Months + 1
  <1> DEFINE n == Months + 1
             v == [m \in 1 .. n |-> DaysBefore(m)]
  <1>1. Months \in Nat \ {0} /\ \A k \in 1 .. Months : MonthDays[k] \in Nat \ {0}
    BY MonthsKnown
  <1>2. \A m \in 1 .. n : DaysBefore(m) \in Nat
    BY DaysBeforeIs
  <1>3. v \in Seq(Int) /\ Len(v) = n
    <2>1. n \in Nat /\ v \in [1 .. n -> Int]
      BY <1>1, <1>2
    <2> HIDE DEF n, v
    <2>2. v \in Seq(Int)
      BY <2>1, SeqDef
    <2> QED
      BY <2>1, <2>2, LenProperties
  <1>4. InOrder(v)
    <2> SUFFICES ASSUME NEW i \in 1 .. Len(v) - 1
                 PROVE  v[i] < v[i + 1]
      BY DEF InOrder
    <2>1. i \in 1 .. Months /\ i \in 1 .. n /\ i + 1 \in 1 .. n
      BY <1>1, <1>3
    <2>2. DaysBefore(i + 1) = DaysBefore(i) + MonthDays[i] /\ MonthDays[i] \in Nat \ {0} /\ DaysBefore(i) \in Nat
      BY <1>1, <1>2, <2>1, DaysBeforeIs
    <2>3. v[i] = DaysBefore(i) /\ v[i + 1] = DaysBefore(i + 1)
      BY <2>1
    <2> HIDE DEF v
    <2> QED
      BY <2>2, <2>3
  <1>5. \A k, m \in 1 .. n : k < m => v[k] < v[m]
    <2> HIDE DEF v
    <2> QED
      BY <1>3, <1>4, InOrderRises DEF Rising
  <1>6. \A k, m \in 1 .. n : k < m => DaysBefore(k) < DaysBefore(m)
    BY <1>5
  <1>7. \A k, m \in 1 .. n : DaysBefore(k) < DaysBefore(m) => k < m
    <2> TAKE k, m \in 1 .. n
    <2>1. k \in Int /\ m \in Int /\ DaysBefore(k) \in Int /\ DaysBefore(m) \in Int
      BY <1>1, <1>2
    <2>2. k > m => DaysBefore(k) > DaysBefore(m)
      BY <1>6, <2>1
    <2> QED
      BY <2>1, <2>2
  <1>8. \A m \in 1 .. Months : m \in 1 .. Months + 1 /\ m + 1 \in 1 .. Months + 1
    BY <1>1
  <1> QED
    BY <1>2, <1>6, <1>7, <1>8, DaysBeforeIs DEF YearDays

\* A day is e days behind the beginning of its month.
LEMMA DateOf ==
    ASSUME NEW y \in Int, NEW m \in 1 .. Months, NEW e \in Nat, DaysBefore(m) + e < DaysBefore(m + 1)
    PROVE  from_days(y * YearDays + DaysBefore(m) + e) = [y |-> y, m |-> m, d |-> e + 1]
  <1> DEFINE r == DaysBefore(m) + e
             n == y * YearDays + DaysBefore(m) + e
  <1>1. /\ m \in 1 .. Months + 1 /\ m + 1 \in 1 .. Months + 1 /\ DaysBefore(m) \in Nat /\ DaysBefore(m + 1) \in Nat
        /\ DaysBefore(m + 1) <= YearDays /\ YearDays \in Nat \ {0} /\ Months \in Nat \ {0}
    <2>1. m \in 1 .. Months + 1 /\ m + 1 \in 1 .. Months + 1 /\ Months + 1 \in 1 .. Months + 1 /\ Months \in Nat \ {0}
      BY MonthsRise, MonthsKnown
    <2>2. m + 1 = Months + 1 \/ m + 1 < Months + 1
      BY <2>1
    <2>3. DaysBefore(m) \in Nat /\ DaysBefore(m + 1) \in Nat /\ YearDays \in Nat \ {0} /\ DaysBefore(Months + 1) = YearDays
      BY <2>1, MonthsRise, YearDaysKnown
    <2>4. m + 1 < Months + 1 => DaysBefore(m + 1) < DaysBefore(Months + 1)
      BY <2>1, MonthsRise
    <2> QED
      BY <2>1, <2>2, <2>3, <2>4
  <1>2. r \in 0 .. YearDays - 1 /\ n = y * YearDays + r /\ n \in Int
    <2>1. y * YearDays \in Int
      BY <1>1
    <2> QED
      BY <1>1, <2>1
  <1> HIDE DEF r, n
  <1>3. n \div YearDays = y /\ n % YearDays = r
    BY <1>1, <1>2
  <1>4. PICK k \in 1 .. Months :
          DateAt(n, k) /\ from_days(n) = [y |-> n \div YearDays, m |-> k, d |-> (n % YearDays) - DaysBefore(k) + 1]
    BY <1>2, DateIs
  <1>5. DaysBefore(k) <= r /\ r < DaysBefore(k + 1)
    BY <1>3, <1>4 DEF DateAt
  <1>6. k \in 1 .. Months + 1 /\ k + 1 \in 1 .. Months + 1 /\ DaysBefore(k) \in Nat /\ DaysBefore(k + 1) \in Nat
    BY <1>4, MonthsRise
  <1>7. DaysBefore(m) < DaysBefore(k + 1) /\ DaysBefore(k) < DaysBefore(m + 1)
    BY <1>1, <1>5, <1>6 DEF r
  <1>8. m < k + 1 /\ k < m + 1
    BY <1>1, <1>6, <1>7, MonthsRise
  <1>9. k = m
    BY <1>1, <1>4, <1>8
  <1>10. r - DaysBefore(m) + 1 = e + 1
    BY <1>1 DEF r
  <1> QED
    BY <1>3, <1>4, <1>9, <1>10 DEF n

LEMMA FirstOf ==
    ASSUME NEW y, NEW m, NEW d, NEW ymd, ymd = [y |-> y, m |-> m, d |-> d]
    PROVE  /\ Floored(ymd, "year") = [y |-> y, m |-> 1, d |-> 1]
           /\ Ceiled(ymd, "month") = [y |-> y, m |-> (m % Months) + 1, d |-> 1]
  <1>1. "year" # "day" /\ "year" # "month" /\ "month" # "day"
    OBVIOUS
  <1>2. Floored(ymd, "year") = [ymd EXCEPT !.m = 1, !.d = 1]
    BY <1>1 DEF Floored
  <1>3. Ceiled(ymd, "month") = [ymd EXCEPT !.m = (m % Months) + 1, !.d = 1]
    BY <1>1 DEF Ceiled
  <1> DEFINE q == (m % Months) + 1
  <1> HIDE DEF q
  <1>4. [ymd EXCEPT !.m = 1, !.d = 1] = [y |-> y, m |-> 1, d |-> 1]
    <2> DEFINE r == [ymd EXCEPT !.m = 1]
    <2>1. [ymd EXCEPT !.m = 1, !.d = 1] = [r EXCEPT !.d = 1]
      OBVIOUS
    <2>2. r = [y |-> y, m |-> 1, d |-> d]
      OBVIOUS
    <2> HIDE DEF r
    <2>3. [r EXCEPT !.d = 1] = [y |-> y, m |-> 1, d |-> 1]
      BY <2>2
    <2> QED
      BY <2>1, <2>3
  <1>5. [ymd EXCEPT !.m = q, !.d = 1] = [y |-> y, m |-> q, d |-> 1]
    <2> DEFINE r == [ymd EXCEPT !.m = q]
    <2>1. [ymd EXCEPT !.m = q, !.d = 1] = [r EXCEPT !.d = 1]
      OBVIOUS
    <2>2. r = [y |-> y, m |-> q, d |-> d]
      OBVIOUS
    <2> HIDE DEF r
    <2>3. [r EXCEPT !.d = 1] = [y |-> y, m |-> q, d |-> 1]
      BY <2>2
    <2> QED
      BY <2>1, <2>3
  <1> QED
    BY <1>2, <1>3, <1>4, <1>5 DEF q

\* Where a day begins its unit, and where the next one begins.
LEMMA UnitIs ==
    ASSUME NEW n \in Int
    PROVE  \E y \in Int, m \in 1 .. Months :
             /\ BeginOf("day", n) = n
             /\ BeginOf("month", n) = y * YearDays + DaysBefore(m)
             /\ BeginOf("year", n) = y * YearDays
             /\ AfterOf("day", n) = n + 1
             /\ m < Months => AfterOf("month", n) = y * YearDays + DaysBefore(m + 1)
             /\ AfterOf("year", n) = (y + 1) * YearDays
             /\ from_days(n).m = m
             /\ y * YearDays + DaysBefore(m) <= n /\ n < y * YearDays + DaysBefore(m + 1)
  <1>1. PICK m \in 1 .. Months :
          DateAt(n, m) /\ from_days(n) = [y |-> n \div YearDays, m |-> m, d |-> (n % YearDays) - DaysBefore(m) + 1]
    BY DateIs
  <1> DEFINE y == n \div YearDays
             doy == n % YearDays
             base == y * YearDays
             d == doy - DaysBefore(m) + 1
  <1>2. /\ y \in Int /\ doy \in Int /\ base \in Int /\ n = base + doy /\ YearDays \in Nat \ {0}
        /\ DaysBefore(m) \in Nat /\ DaysBefore(m + 1) \in Nat /\ DaysBefore(1) = 0 /\ Months \in Nat \ {0}
        /\ DaysBefore(m) <= doy /\ doy < DaysBefore(m + 1)
    BY <1>1, DayIs, YearDaysKnown, MonthsRise, MonthsKnown DEF DateAt
  <1>3. from_days(n) = [y |-> y, m |-> m, d |-> d]
    BY <1>1
  <1>4. (y + 1) * YearDays = base + YearDays
    BY <1>2
  <1> DEFINE next == (y + 1) * YearDays
  <1>5. next \in Int
    BY <1>2
  <1> HIDE DEF y, doy, base, d
  <1>6. BeginOf("day", n) = y * YearDays + DaysBefore(m) + d - 1
    BY <1>3 DEF BeginOf, Floored, to_days
  <1>7. BeginOf("month", n) = y * YearDays + DaysBefore(m) + 1 - 1
    BY <1>3 DEF BeginOf, Floored, to_days
  <1>8. BeginOf("year", n) = y * YearDays + DaysBefore(1) + 1 - 1
    <2>1. Floored(from_days(n), "year") = [y |-> y, m |-> 1, d |-> 1]
      BY <1>3, FirstOf
    <2> QED
      BY <2>1 DEF BeginOf, to_days
  <1>9. AfterOf("day", n) = y * YearDays + DaysBefore(m) + (d + 1) - 1
    BY <1>3 DEF AfterOf, Ceiled, to_days
  <1>10. AfterOf("month", n) = y * YearDays + DaysBefore((m % Months) + 1) + 1 - 1
    <2>1. Ceiled(from_days(n), "month") = [y |-> y, m |-> (m % Months) + 1, d |-> 1]
      BY <1>3, FirstOf
    <2> QED
      BY <2>1 DEF AfterOf, to_days
  <1>11. AfterOf("year", n) = next + DaysBefore(1) + 1 - 1
    BY <1>3 DEF AfterOf, Ceiled, to_days
  <1>12. m < Months => m % Months = m
    BY <1>2
  <1>13. base = y * YearDays
    BY DEF base
  <1>14. DaysBefore(m) + d - 1 = doy /\ d \in Int
    BY <1>2 DEF d
  <1>15. /\ BeginOf("day", n) = n /\ BeginOf("month", n) = base + DaysBefore(m) /\ BeginOf("year", n) = base
         /\ AfterOf("day", n) = n + 1
    BY <1>2, <1>6, <1>7, <1>8, <1>9, <1>13, <1>14
  <1>16. ASSUME m < Months
         PROVE  AfterOf("month", n) = base + DaysBefore(m + 1)
    BY <1>2, <1>10, <1>12, <1>13, <1>16
  <1>17. AfterOf("year", n) = next
    <2> HIDE DEF next
    <2> QED
      BY <1>2, <1>5, <1>11
  <1>18. base + DaysBefore(m) <= n /\ n < base + DaysBefore(m + 1) /\ from_days(n).m = m
    BY <1>2, <1>3
  <1> QED
    BY <1>1, <1>2, <1>13, <1>15, <1>16, <1>17, <1>18

\* Of a day, the last beginning that is not after it, and the first one that is, except
\* for the last month of a year.
LEMMA BeginningsAre ==
    ASSUME NEW n \in Int, NEW unit \in Units
    PROVE  /\ BeginOf(unit, n) \in Int /\ BeginOf(unit, n) <= n
           /\ BeginOf(unit, BeginOf(unit, n)) = BeginOf(unit, n)
           /\ \A k \in Int : BeginOf(unit, k) = k /\ k <= n => k <= BeginOf(unit, n)
           /\ ~(unit = "month" /\ from_days(n).m = Months) =>
                /\ AfterOf(unit, n) \in Int /\ n < AfterOf(unit, n)
                /\ BeginOf(unit, AfterOf(unit, n)) = AfterOf(unit, n)
                /\ \A k \in Int : BeginOf(unit, k) = k /\ n < k => AfterOf(unit, n) <= k
  <1>1. PICK y \in Int, m \in 1 .. Months :
             /\ BeginOf("day", n) = n
             /\ BeginOf("month", n) = y * YearDays + DaysBefore(m)
             /\ BeginOf("year", n) = y * YearDays
             /\ AfterOf("day", n) = n + 1
             /\ m < Months => AfterOf("month", n) = y * YearDays + DaysBefore(m + 1)
             /\ AfterOf("year", n) = (y + 1) * YearDays
             /\ from_days(n).m = m
             /\ y * YearDays + DaysBefore(m) <= n /\ n < y * YearDays + DaysBefore(m + 1)
    BY UnitIs
  <1>2. /\ YearDays \in Nat \ {0} /\ Months \in Nat \ {0} /\ DaysBefore(1) = 0 /\ m + 1 \in 1 .. Months + 1
        /\ DaysBefore(m) \in Nat /\ DaysBefore(m + 1) \in Nat /\ DaysBefore(m) < DaysBefore(m + 1)
        /\ DaysBefore(m + 1) <= YearDays /\ m \in 1 .. Months + 1
    <2>1. m \in 1 .. Months + 1 /\ m + 1 \in 1 .. Months + 1 /\ Months + 1 \in 1 .. Months + 1 /\ Months \in Nat \ {0}
      BY MonthsRise, MonthsKnown
    <2>2. (m + 1 = Months + 1 \/ m + 1 < Months + 1) /\ m < m + 1
      BY <2>1
    <2>3. DaysBefore(m) \in Nat /\ DaysBefore(m + 1) \in Nat /\ YearDays \in Nat \ {0} /\ DaysBefore(Months + 1) = YearDays
      BY <2>1, MonthsRise, YearDaysKnown
    <2>4. /\ m + 1 < Months + 1 => DaysBefore(m + 1) < DaysBefore(Months + 1)
          /\ DaysBefore(m) < DaysBefore(m + 1)
      BY <2>1, <2>2, MonthsRise
    <2> QED
      BY <2>1, <2>2, <2>3, <2>4, MonthsRise
  <1> DEFINE base == y * YearDays
             next == (y + 1) * YearDays
  <1>3. base \in Int /\ next = base + YearDays
    BY <1>2
  <1>4. \A u \in Units : \A k \in Int : BeginOf(u, k) \in Int
    <2> TAKE u \in Units
    <2> TAKE k \in Int
    <2>1. PICK yk \in Int, mk \in 1 .. Months :
             /\ BeginOf("day", k) = k
             /\ BeginOf("month", k) = yk * YearDays + DaysBefore(mk)
             /\ BeginOf("year", k) = yk * YearDays
      BY UnitIs
    <2>2. yk * YearDays \in Int /\ DaysBefore(mk) \in Int
      BY <1>2, MonthsRise
    <2> QED
      BY <2>1, <2>2 DEF Units
  \* A day of a date is a beginning where it is the first of its month.
  <1>5. ASSUME NEW v \in Int, NEW q \in 1 .. Months
        PROVE  /\ BeginOf("month", v * YearDays + DaysBefore(q)) = v * YearDays + DaysBefore(q)
               /\ BeginOf("year", v * YearDays) = v * YearDays
    <2>1. /\ q \in 1 .. Months + 1 /\ q + 1 \in 1 .. Months + 1 /\ 1 \in 1 .. Months + 1 /\ 2 \in 1 .. Months + 1
          /\ 1 \in 1 .. Months /\ q < q + 1
      BY <1>2, <1>5
    <2>2. DaysBefore(q) \in Nat /\ DaysBefore(q) + 0 < DaysBefore(q + 1) /\ DaysBefore(1) + 0 < DaysBefore(1 + 1)
      <3>1. DaysBefore(q) \in Nat /\ DaysBefore(q) < DaysBefore(q + 1) /\ DaysBefore(1) < DaysBefore(2)
        BY <2>1, MonthsRise
      <3>2. 1 + 1 = 2
        OBVIOUS
      <3> QED
        BY <1>2, <3>1, <3>2
    <2>3. v * YearDays \in Int
      BY <1>2
    <2>4. from_days(v * YearDays + DaysBefore(q) + 0) = [y |-> v, m |-> q, d |-> 0 + 1]
      BY <2>2, DateOf
    <2>5. from_days(v * YearDays + DaysBefore(1) + 0) = [y |-> v, m |-> 1, d |-> 0 + 1]
      BY <2>1, <2>2, DateOf
    <2> DEFINE c == v * YearDays
               e == DaysBefore(q)
    <2>6. c + e + 0 = c + e /\ c + DaysBefore(1) + 0 = c /\ c + e + 1 - 1 = c + e /\ c + DaysBefore(1) + 1 - 1 = c
      <3> HIDE DEF c, e
      <3>1. c \in Int /\ e \in Int
        BY <2>2, <2>3 DEF c, e
      <3> QED
        BY <1>2, <3>1
    <2>7. from_days(c + e) = [y |-> v, m |-> q, d |-> 1] /\ from_days(c) = [y |-> v, m |-> 1, d |-> 1]
      BY <2>4, <2>5, <2>6
    <2>8. Floored(from_days(c + e), "month") = [y |-> v, m |-> q, d |-> 1]
      BY <2>7 DEF Floored
    <2>9. Floored(from_days(c), "year") = [y |-> v, m |-> 1, d |-> 1]
      BY <2>7, FirstOf
    <2>10. BeginOf("month", c + e) = c + e + 1 - 1
      BY <2>8 DEF BeginOf, to_days
    <2>11. BeginOf("year", c) = c + DaysBefore(1) + 1 - 1
      BY <2>9 DEF BeginOf, to_days
    <2> QED
      BY <2>6, <2>10, <2>11
  \* Another beginning is one of the same year or of another.
  <1>6. ASSUME NEW k \in Int
        PROVE  /\ BeginOf("month", k) = k /\ k <= n => k <= base + DaysBefore(m)
               /\ BeginOf("year", k) = k /\ k <= n => k <= base
               /\ BeginOf("month", k) = k /\ n < k => base + DaysBefore(m + 1) <= k
               /\ BeginOf("year", k) = k /\ n < k => next <= k
    <2>1. PICK yk \in Int, mk \in 1 .. Months :
             /\ BeginOf("month", k) = yk * YearDays + DaysBefore(mk)
             /\ BeginOf("year", k) = yk * YearDays
      BY UnitIs
    <2>2. mk \in 1 .. Months + 1 /\ DaysBefore(mk) \in Nat /\ DaysBefore(mk) < YearDays /\ mk \in Int /\ m \in Int
      <3>1. mk \in 1 .. Months + 1 /\ Months + 1 \in 1 .. Months + 1 /\ mk < Months + 1 /\ mk \in Int /\ m \in Int
        BY <1>2
      <3> QED
        BY <3>1, MonthsRise
    <2> DEFINE bk == yk * YearDays
    <2>3. bk \in Int /\ (yk < y => bk + YearDays <= base) /\ (yk > y => next <= bk) /\ (yk = y => bk = base)
      BY <1>2
    <2>4. mk < m => DaysBefore(mk) < DaysBefore(m)
      BY <1>2, <2>2, MonthsRise
    <2>5. mk > m => DaysBefore(m + 1) <= DaysBefore(mk)
      <3> HAVE mk > m
      <3>1. m + 1 = mk \/ m + 1 < mk
        BY <2>2
      <3> QED
        BY <1>2, <2>2, <3>1, MonthsRise
    <2>6. base + DaysBefore(m) <= n /\ n < base + DaysBefore(m + 1) /\ n \in Int
      BY <1>1
    <2>7. BeginOf("month", k) = bk + DaysBefore(mk) /\ BeginOf("year", k) = bk
      BY <2>1
    <2> HIDE DEF bk, base, next
    <2>8. CASE yk < y
      BY <1>2, <1>3, <2>2, <2>3, <2>6, <2>7, <2>8
    <2>9. CASE yk > y
      BY <1>2, <1>3, <2>2, <2>3, <2>6, <2>7, <2>9
    <2>10. CASE yk = y
      <3>1. CASE mk < m
        BY <1>2, <1>3, <2>2, <2>3, <2>4, <2>6, <2>7, <2>10, <3>1
      <3>2. CASE mk > m
        BY <1>2, <1>3, <2>2, <2>3, <2>5, <2>6, <2>7, <2>10, <3>2
      <3>3. CASE mk = m
        BY <1>2, <1>3, <2>2, <2>3, <2>6, <2>7, <2>10, <3>3
      <3> QED
        BY <2>2, <3>1, <3>2, <3>3
    <2> QED
      BY <2>8, <2>9, <2>10
  <1>7. \A k \in Int : BeginOf("day", k) = k
    BY UnitIs
  <1>8. CASE unit = "day"
    BY <1>1, <1>7, <1>8
  <1>9. CASE unit = "year"
    <2>1. BeginOf("year", n) = base /\ AfterOf("year", n) = next /\ y + 1 \in Int
      BY <1>1
    <2>2. BeginOf("year", base) = base /\ BeginOf("year", next) = next
      BY <1>2, <1>5, <2>1
    <2>3. base <= n /\ n < next
      <3> HIDE DEF base, next
      <3> QED
        BY <1>1, <1>2, <1>3 DEF base
    <2> HIDE DEF base, next
    <2> QED
      BY <1>2, <1>3, <1>6, <1>9, <2>1, <2>2, <2>3
  <1>10. CASE unit = "month"
    <2>1. BeginOf("month", n) = base + DaysBefore(m) /\ BeginOf("month", base + DaysBefore(m)) = base + DaysBefore(m)
      BY <1>1, <1>5
    <2>2. base + DaysBefore(m) <= n /\ n < base + DaysBefore(m + 1) /\ from_days(n).m = m
      BY <1>1
    <2>3. ASSUME m # Months
          PROVE  /\ AfterOf("month", n) = base + DaysBefore(m + 1)
                 /\ BeginOf("month", base + DaysBefore(m + 1)) = base + DaysBefore(m + 1)
      <3>1. m < Months /\ m + 1 \in 1 .. Months
        BY <1>2, <2>3
      <3> QED
        BY <1>1, <1>5, <3>1
    <2> HIDE DEF base, next
    <2> QED
      BY <1>2, <1>3, <1>6, <1>10, <2>1, <2>2, <2>3
  <1> QED
    BY <1>8, <1>9, <1>10 DEF Units

(***************************************************************************)
(* Rounding.                                                               *)
(***************************************************************************)
LEMMA ProductsOf ==
    ASSUME NEW p \in Int, NEW q \in Int
    PROVE  /\ p * Den \in Int /\ q * Den \in Int
           /\ (p - q) * Den = p * Den - q * Den /\ (q - p) * Den = q * Den - p * Den
           /\ (p - 0) * Den = p * Den /\ (0 - p) * Den = -(p * Den)
  BY MonthsKnown

\* The days at which a unit begins in local time; a beginning that is looked up as a time
\* is one of the zone where there is no change within its reach.
LEMMA RoundedIs ==
    ASSUME NEW z, IsZone(z), NEW t \in Int, Calm(z, t), NEW o, o = getoffset(z, t),
           NEW day \in Int, day % Den = 0, NEW dir \in {1, -1},
           NEW x, x = getoffset_from(z, day, o.pos, dir).off,
           NEW r, r = day - x * Den, ~ChangesIn(z, r - Reach(z), r + Reach(z)),
           dir = -1 <=> day <= t + o.off * Den
    PROVE  /\ r \in Int /\ x \in Offsets(z) /\ OffsetAt(z, r) = x /\ Local(z, r) = day
           /\ dir = -1 => r <= t
           /\ dir = 1 => t < r
  <1> DEFINE R == Reach(z)
             S == Spread(z)
             off == o.off * Den
             w == x * Den
  <1>1. Den \in Nat \ {0} /\ R \in Nat /\ S \in Nat /\ Len(z.ats) \in Nat
    BY MonthsKnown, ReachIs, SpreadIs, ZoneKnown
  <1>2. /\ o.pos \in -1 .. Len(z.ats) - 1 /\ o.off = OffsetAt(z, t) /\ o.off \in Offsets(z) /\ o.off \in Int
        /\ Plain(t)
    BY LookUpIs, CalmLook, OffsetAtKnown DEF Calm
  <1>3. x \in Offsets(z) /\ x \in Int
    BY <1>2, FromOffsets, OffsetsBounded
  <1>4. w \in Int /\ off \in Int
    BY <1>2, <1>3, ProductsOf
  <1>5. w <= R /\ -w <= R /\ off <= R /\ -off <= R
    <2>1. \A q \in Offsets(z) : (q - 0) * Den <= R /\ (0 - q) * Den <= R
      BY ReachIs
    <2>2. (x - 0) * Den = w /\ (0 - x) * Den = -w /\ (o.off - 0) * Den = off /\ (0 - o.off) * Den = -off
      BY <1>2, <1>3, ProductsOf
    <2> HIDE DEF R, w, off
    <2> QED
      BY <1>2, <1>3, <2>1, <2>2
  <1>6. off - w <= S /\ w - off <= S
    <2>1. (o.off - x) * Den <= S /\ (x - o.off) * Den <= S
      BY <1>2, <1>3, SpreadIs
    <2> DEFINE q == o.off
    <2>3. q \in Int /\ off = q * Den
      BY <1>2
    <2> HIDE DEF q, off
    <2>4. (q - x) * Den = off - w /\ (x - q) * Den = w - off
      BY <1>3, <2>3, ProductsOf
    <2>2. (o.off - x) * Den = off - w /\ (x - o.off) * Den = w - off
      BY <2>4 DEF q
    <2> HIDE DEF S, off, w
    <2> QED
      BY <2>1, <2>2
  <1>7. r = day - w /\ r \in Int
    BY <1>4
  <1>8. ~ChangesIn(z, r - R, r + R) /\ r - R \in Int /\ r + R \in Int
    BY <1>1, <1>7
  <1>9. dir = -1 <=> day <= t + off
    OBVIOUS
  <1> HIDE DEF R, S, off, w
  <1>10. \A u, v \in Int : r - R <= u /\ u <= r + R /\ r - R <= v /\ v <= r + R => OffsetAt(z, u) = OffsetAt(z, v)
    BY <1>8, NoChangeWithin
  <1>11. r - R <= day /\ day <= r + R /\ r - R <= r /\ r <= r + R
    BY <1>1, <1>4, <1>5, <1>7
  <1>12. ~ChangesIn(z, day, day)
    <2>1. \A i \in 1 .. Len(z.ats) : z.ats[i] * Den \in Int
      BY ZoneKnown, MonthsKnown
    <2> QED
      BY <1>8, <1>11, <2>1 DEF ChangesIn
  <1>13. x = OffsetAt(z, day)
    <2>1. CASE o.pos >= 0
      <3>1. CASE (dir = -1 /\ day < t) \/ (dir = 1 /\ day >= t)
        <4>1. (IF day >= t THEN 1 ELSE -1) = dir
          BY <3>1
        <4> QED
          BY <1>2, <1>12, <2>1, <4>1, FromIs
      <3>2. CASE dir = -1 /\ day >= t
        <4>1. x = o.off
          BY <1>2, <1>12, <2>1, <3>2, FromStays
        <4>2. w = off
          BY <4>1 DEF w, off
        <4>3. r <= t /\ t <= day
          BY <1>4, <1>7, <1>9, <3>2, <4>2
        <4>4. OffsetAt(z, t) = OffsetAt(z, day)
          BY <1>1, <1>7, <1>8, <1>10, <1>11, <4>3
        <4> QED
          BY <1>2, <4>1, <4>4
      <3>3. CASE dir = 1 /\ day < t
        <4>1. x = o.off
          BY <1>2, <1>12, <2>1, <3>3, FromStays
        <4>2. w = off
          BY <4>1 DEF w, off
        <4>3. t <= r /\ day <= t
          BY <1>4, <1>7, <1>9, <3>3, <4>2
        <4>4. OffsetAt(z, t) = OffsetAt(z, day)
          BY <1>1, <1>7, <1>8, <1>10, <1>11, <4>3
        <4> QED
          BY <1>2, <4>1, <4>4
      <3> QED
        BY <3>1, <3>2, <3>3
    <2>2. CASE ~(o.pos >= 0)
      <3>1. o.pos = -1
        BY <1>1, <1>2, <2>2
      <3>2. x = getoffset(z, day).off
        BY <3>1, FromNone
      <3>3. Plain(day)
        BY DEF Plain
      <3>4. ~AtFirst(z, day)
        <4> SUFFICES ASSUME AtFirst(z, day)
                     PROVE  FALSE
          OBVIOUS
        <4>1. Len(z.ats) # 0 /\ 1 \in 1 .. Len(z.ats) /\ z.ats[1] = SecondsOf(day)
          BY <1>1, ZoneKnown, EmptySeq DEF AtFirst
        <4>2. SecondsOf(day) * Den = day
          <5>1. SecondsOf(day) * Den \in Int /\ SecondsOf(day) * Den <= day /\ day <= SecondsOf(day) * Den
            BY SecondsAre
          <5> QED
            BY <5>1
        <4> QED
          BY <1>12, <4>1, <4>2 DEF ChangesIn
      <3> QED
        BY <3>2, <3>3, <3>4, GetOffsetIs
    <2> QED
      BY <2>1, <2>2
  <1>14. OffsetAt(z, r) = x
    BY <1>7, <1>10, <1>11, <1>13
  <1>15. Local(z, r) = day
    <2>1. Local(z, r) = r + w
      BY <1>14 DEF Local, w
    <2> QED
      BY <1>4, <1>7, <2>1
  <1>16. \A u \in Int : t - S <= u /\ u <= t + S => OffsetAt(z, u) = OffsetAt(z, t)
    BY CalmLook DEF S
  <1>17. OffsetAt(z, r) = OffsetAt(z, t) => w = off
    BY <1>2, <1>14 DEF w, off
  <1>18. dir = -1 => r <= t
    <2> SUFFICES ASSUME dir = -1, ~(r <= t)
                 PROVE  FALSE
      OBVIOUS
    <2>1. t - S <= r /\ r <= t + S
      BY <1>1, <1>4, <1>6, <1>7, <1>9
    <2>2. w = off
      BY <1>7, <1>16, <1>17, <2>1
    <2> QED
      BY <1>4, <1>7, <1>9, <2>2
  <1>19. dir = 1 => t < r
    <2> SUFFICES ASSUME dir = 1, ~(t < r)
                 PROVE  FALSE
      OBVIOUS
    <2>1. t - S <= r /\ r <= t + S
      BY <1>1, <1>4, <1>6, <1>7, <1>9
    <2>2. w = off
      BY <1>7, <1>16, <1>17, <2>1
    <2> QED
      BY <1>4, <1>7, <1>9, <2>2
  <1> QED
    BY <1>3, <1>7, <1>14, <1>15, <1>18, <1>19

\* The clock of a time that is not within the reach of another has gone on or back by as
\* much as the times say.
LEMMA ClockGoesOn ==
    ASSUME NEW z, IsZone(z), NEW r \in Int, ~ChangesIn(z, r - Reach(z), r + Reach(z)), NEW s \in Int
    PROVE  /\ r < s => Local(z, r) < Local(z, s)
           /\ s < r => Local(z, s) < Local(z, r)
           /\ Local(z, r) \in Int /\ Local(z, s) \in Int
  <1> DEFINE R == Reach(z)
             p == OffsetAt(z, r)
             q == OffsetAt(z, s)
             w == p * Den
             y == q * Den
  <1>1. p \in Offsets(z) /\ q \in Offsets(z) /\ p \in Int /\ q \in Int
    BY OffsetAtKnown
  <1>2. Den \in Nat \ {0} /\ R \in Nat
    BY MonthsKnown, ReachIs
  <1>3. w \in Int /\ y \in Int /\ w - y <= R /\ y - w <= R
    <2> HIDE DEF p, q
    <2>1. (p - q) * Den <= R /\ (q - p) * Den <= R
      BY <1>1, ReachIs
    <2>2. (p - q) * Den = w - y /\ (q - p) * Den = y - w /\ w \in Int /\ y \in Int
      BY <1>1, <1>2
    <2> HIDE DEF R, w, y
    <2> QED
      BY <2>1, <2>2
  <1>4. Local(z, r) = r + w /\ Local(z, s) = s + y
    BY DEF Local
  <1>5. r - R <= s /\ s <= r + R => w = y
    <2> HAVE r - R <= s /\ s <= r + R
    <2>1. r - R <= r /\ r <= r + R /\ r - R \in Int /\ r + R \in Int
      BY <1>2
    <2>2. p = q
      <3> HIDE DEF p, q
      <3> QED
        BY <2>1, NoChangeWithin DEF p, q, R
    <2> QED
      BY <2>2
  <1> HIDE DEF R, w, y, p, q
  <1>6. (r - R <= s /\ s <= r + R) \/ s < r - R \/ r + R < s
    BY <1>2
  <1> QED
    BY <1>2, <1>3, <1>4, <1>5, <1>6

Begins(z, unit, s) == Local(z, s) = Day * to_days(Floored(from_days(Local(z, s) \div Day), unit))

\* A beginning is a day that begins its unit.
LEMMA BeginsAt ==
    ASSUME NEW z, IsZone(z), NEW s \in Int, NEW unit \in Units
    PROVE  /\ Begins(z, unit, s) => \E k \in Int : Local(z, s) = Day * k /\ BeginOf(unit, k) = k
           /\ \A k \in Int : Local(z, s) = Day * k /\ BeginOf(unit, k) = k => Begins(z, unit, s)
  <1> DEFINE n == Local(z, s) \div Day
             k == BeginOf(unit, n)
  <1>1. Day \in Nat \ {0} /\ Local(z, s) \in Int
    <2>1. OffsetAt(z, s) \in Int /\ Den \in Nat \ {0} /\ Day \in Nat \ {0}
      BY OffsetAtKnown, MonthsKnown
    <2>2. OffsetAt(z, s) * Den \in Int
      BY <2>1
    <2> QED
      BY <2>1, <2>2 DEF Local
  <1>2. n \in Int
    BY <1>1
  <1>3. \A j \in Int : (Day * j) \div Day = j
    BY <1>1
  <1>4. Begins(z, unit, s) <=> Local(z, s) = Day * k
    BY DEF Begins, BeginOf
  <1>5. k \in Int /\ BeginOf(unit, k) = k
    <2> HIDE DEF n
    <2> QED
      BY <1>2, BeginningsAre
  <1>6. ASSUME NEW j \in Int, Local(z, s) = Day * j, BeginOf(unit, j) = j
        PROVE  Begins(z, unit, s)
    <2>1. n = j
      BY <1>3, <1>6
    <2>2. k = j
      BY <1>6, <2>1
    <2> QED
      BY <1>4, <1>6, <2>2
  <1> HIDE DEF k, n
  <1> QED
    BY <1>4, <1>5, <1>6

\* The day of the beginning in floor_tz and ceiling_tz.
LEMMA RoundingIs ==
    ASSUME NEW z, NEW t, NEW unit, NEW o, o = getoffset(z, t), NEW n, n = (t + o.off * Den) \div Day
    PROVE  /\ floor_tz(z, t, unit)
                = Day * BeginOf(unit, n) - getoffset_from(z, Day * BeginOf(unit, n), o.pos, -1).off * Den
           /\ ceiling_tz(z, t, unit)
                = Day * AfterOf(unit, n) - getoffset_from(z, Day * AfterOf(unit, n), o.pos, 1).off * Den
  <1>1. getoffset_from(z, t, -1, -1) = o /\ getoffset_from(z, t, -1, 1) = o
    BY FromNone
  <1> QED
    BY <1>1 DEF floor_tz, ceiling_tz, rounded, BeginOf, AfterOf

LastMonthOf(z, t) == from_days(Local(z, t) \div Day).m = Months
FloorRight(z, t, unit, res) ==
  Calm(z, t) /\ Far(z, res) =>
    Begins(z, unit, res) /\ res <= t /\ \A s \in res + 1 .. t : ~Begins(z, unit, s)
CeilingRight(z, t, unit, res) ==
  Calm(z, t) /\ Far(z, res) /\ ~(unit = "month" /\ LastMonthOf(z, t)) =>
    Begins(z, unit, res) /\ res > t /\ \A s \in t + 1 .. res - 1 : ~Begins(z, unit, s)

LEMMA DaysWhole ==
    ASSUME NEW k \in Int
    PROVE  Day * k \in Int /\ (Day * k) % Den = 0
  <1>1. Den \in Nat \ {0} /\ DaySecs \in Nat \ {0}
    BY MonthsKnown
  <1> DEFINE j == DaySecs * k
  <1>2. j \in Int /\ Day * k = j * Den
    BY <1>1 DEF Day
  <1> HIDE DEF j
  <1>3. (j * Den) % Den = 0 /\ j * Den \in Int
    BY <1>1, <1>2
  <1> QED
    BY <1>2, <1>3

LEMMA FarIs ==
    ASSUME NEW z, NEW t, Far(z, t)
    PROVE  ~ChangesIn(z, t - Reach(z), t + Reach(z))
  BY DEF Far, Reach, Offsets

\* The clock of a time away from changes, and that of others near it.
LEMMA CalmClock ==
    ASSUME NEW z, IsZone(z), NEW t \in Int, Calm(z, t), NEW s \in Int
    PROVE  /\ s < t => Local(z, s) < Local(z, t)
           /\ t < s => Local(z, t) < Local(z, s)
           /\ Local(z, s) \in Int /\ Local(z, t) \in Int
  <1> DEFINE S == Spread(z)
             p == OffsetAt(z, t)
             q == OffsetAt(z, s)
             w == p * Den
             y == q * Den
  <1>1. p \in Offsets(z) /\ q \in Offsets(z) /\ p \in Int /\ q \in Int
    BY OffsetAtKnown
  <1>2. S \in Nat
    BY SpreadIs
  <1>3. w \in Int /\ y \in Int /\ w - y <= S /\ y - w <= S
    <2> HIDE DEF p, q
    <2>1. (p - q) * Den <= S /\ (q - p) * Den <= S
      BY <1>1, SpreadIs
    <2>2. (p - q) * Den = w - y /\ (q - p) * Den = y - w /\ w \in Int /\ y \in Int
      BY <1>1, ProductsOf
    <2> HIDE DEF S, w, y
    <2> QED
      BY <2>1, <2>2
  <1>4. Local(z, t) = t + w /\ Local(z, s) = s + y
    BY DEF Local
  <1>5. t - S <= s /\ s <= t + S => w = y
    BY CalmLook
  <1> HIDE DEF S, w, y, p, q
  <1>6. (t - S <= s /\ s <= t + S) \/ s < t - S \/ t + S < s
    BY <1>2
  <1> QED
    BY <1>2, <1>3, <1>4, <1>5, <1>6

LEMMA FloorFound ==
    ASSUME NEW z, IsZone(z), NEW t \in Int, NEW unit \in Units
    PROVE  FloorRight(z, t, unit, floor_tz(z, t, unit))
  <1> DEFINE o == getoffset(z, t)
             local == t + o.off * Den
             n == local \div Day
             k == BeginOf(unit, n)
             x == getoffset_from(z, Day * k, o.pos, -1).off
             r == Day * k - x * Den
  <1>1. floor_tz(z, t, unit) = r
    BY RoundingIs
  <1> SUFFICES ASSUME Calm(z, t), Far(z, r)
               PROVE  Begins(z, unit, r) /\ r <= t /\ \A s \in r + 1 .. t : ~Begins(z, unit, s)
    BY <1>1 DEF FloorRight
  <1>2. local = Local(z, t) /\ local \in Int
    <2>1. o.off = OffsetAt(z, t)
      BY CalmLook
    <2> QED
      BY <2>1, CalmClock DEF Local
  <1>3. Day \in Nat \ {0}
    BY MonthsKnown
  <1>4. n \in Int /\ Day * n <= local /\ local < Day * (n + 1)
    <2> HIDE DEF local
    <2> QED
      BY <1>2, <1>3
  <1>5. k \in Int /\ k <= n /\ BeginOf(unit, k) = k /\ \A j \in Int : BeginOf(unit, j) = j /\ j <= n => j <= k
    <2> HIDE DEF n
    <2> QED
      BY <1>4, BeginningsAre
  <1> HIDE DEF n, k
  <1> DEFINE day == Day * k
  <1>6. day \in Int /\ day % Den = 0
    BY <1>5, DaysWhole
  <1>7. day <= local
    <2>1. Day * k <= Day * n
      BY <1>3, <1>4, <1>5
    <2>2. Day * n \in Int /\ Day * k \in Int
      BY <1>3, <1>4, <1>5
    <2> HIDE DEF local
    <2> QED
      BY <1>2, <1>4, <2>1, <2>2
  <1>8. ~ChangesIn(z, r - Reach(z), r + Reach(z))
    BY FarIs
  <1>9. r \in Int /\ Local(z, r) = day /\ r <= t
    <2> DEFINE dir == -1
    <2>1. dir \in {1, -1} /\ dir = -1
      OBVIOUS
    <2>2. x = getoffset_from(z, day, o.pos, dir).off /\ r = day - x * Den
      OBVIOUS
    <2> HIDE DEF dir, x, r, o, day
    <2>3. o = getoffset(z, t) /\ (dir = -1 <=> day <= t + o.off * Den)
      BY <1>7, <2>1 DEF o
    <2> QED
      BY <1>6, <1>8, <2>1, <2>2, <2>3, RoundedIs
  <1> HIDE DEF r, day, local
  <1>10. Begins(z, unit, r)
    BY <1>5, <1>9, BeginsAt DEF day
  <1>11. ASSUME NEW s \in r + 1 .. t, Begins(z, unit, s)
         PROVE  FALSE
    <2>1. s \in Int /\ r < s /\ s <= t
      BY <1>9
    <2>2. PICK j \in Int : Local(z, s) = Day * j /\ BeginOf(unit, j) = j
      BY <1>11, <2>1, BeginsAt
    <2>3. Local(z, r) < Local(z, s) /\ Local(z, s) <= local
      <3>1. s = t \/ s < t
        BY <2>1
      <3> QED
        BY <1>2, <1>8, <1>9, <2>1, <3>1, ClockGoesOn, CalmClock
    <2>4. Day * k < Day * j /\ Day * j <= local
      BY <1>9, <2>2, <2>3 DEF day
    <2>5. Day * j < Day * (n + 1)
      <3>1. Day * j \in Int /\ Day * (n + 1) \in Int
        BY <1>3, <1>4, <2>2
      <3> QED
        BY <1>2, <1>4, <2>4, <3>1
    <2>6. k < j
      BY <1>3, <1>5, <2>2, <2>4
    <2>7. j < n + 1
      BY <1>3, <1>4, <2>2, <2>5
    <2> QED
      BY <1>4, <1>5, <2>2, <2>6, <2>7
  <1> QED
    BY <1>9, <1>10, <1>11

LEMMA CeilingFound ==
    ASSUME NEW z, IsZone(z), NEW t \in Int, NEW unit \in Units
    PROVE  CeilingRight(z, t, unit, ceiling_tz(z, t, unit))
  <1> DEFINE o == getoffset(z, t)
             local == t + o.off * Den
             n == local \div Day
             k == AfterOf(unit, n)
             x == getoffset_from(z, Day * k, o.pos, 1).off
             r == Day * k - x * Den
  <1>1. ceiling_tz(z, t, unit) = r
    BY RoundingIs
  <1> SUFFICES ASSUME Calm(z, t), Far(z, r), ~(unit = "month" /\ LastMonthOf(z, t))
               PROVE  Begins(z, unit, r) /\ r > t /\ \A s \in t + 1 .. r - 1 : ~Begins(z, unit, s)
    BY <1>1 DEF CeilingRight
  <1>2. local = Local(z, t) /\ local \in Int
    <2>1. o.off = OffsetAt(z, t)
      BY CalmLook
    <2> QED
      BY <2>1, CalmClock DEF Local
  <1>3. Day \in Nat \ {0}
    BY MonthsKnown
  <1>4. n \in Int /\ Day * n <= local /\ local < Day * (n + 1)
    <2> HIDE DEF local
    <2> QED
      BY <1>2, <1>3
  <1>5. k \in Int /\ n < k /\ BeginOf(unit, k) = k /\ \A j \in Int : BeginOf(unit, j) = j /\ n < j => k <= j
    <2>1. ~(unit = "month" /\ from_days(n).m = Months)
      BY <1>2 DEF LastMonthOf
    <2> HIDE DEF n
    <2> QED
      BY <1>4, <2>1, BeginningsAre
  <1> HIDE DEF n, k
  <1> DEFINE day == Day * k
  <1>6. day \in Int /\ day % Den = 0
    BY <1>5, DaysWhole
  <1>7. local < day
    <2>1. Day * (n + 1) <= Day * k
      BY <1>3, <1>4, <1>5
    <2>2. Day * (n + 1) \in Int /\ Day * k \in Int
      BY <1>3, <1>4, <1>5
    <2> HIDE DEF local
    <2> QED
      BY <1>2, <1>4, <2>1, <2>2
  <1>8. ~ChangesIn(z, r - Reach(z), r + Reach(z))
    BY FarIs
  <1>9. r \in Int /\ Local(z, r) = day /\ t < r
    <2> DEFINE dir == 1
    <2>1. dir \in {1, -1} /\ dir # -1 /\ dir = 1
      OBVIOUS
    <2>2. x = getoffset_from(z, day, o.pos, dir).off /\ r = day - x * Den
      OBVIOUS
    <2>4. ~(day <= local)
      <3> HIDE DEF day, local
      <3> QED
        BY <1>2, <1>6, <1>7
    <2> HIDE DEF dir, x, r, o, day
    <2>3. o = getoffset(z, t) /\ (dir = -1 <=> day <= t + o.off * Den)
      BY <2>1, <2>4 DEF o
    <2> QED
      BY <1>6, <1>8, <2>1, <2>2, <2>3, RoundedIs
  <1> HIDE DEF r, day, local
  <1>10. Begins(z, unit, r)
    BY <1>5, <1>9, BeginsAt DEF day
  <1>11. ASSUME NEW s \in t + 1 .. r - 1, Begins(z, unit, s)
         PROVE  FALSE
    <2>1. s \in Int /\ s < r /\ t < s
      BY <1>9
    <2>2. PICK j \in Int : Local(z, s) = Day * j /\ BeginOf(unit, j) = j
      BY <1>11, <2>1, BeginsAt
    <2>3. Local(z, s) < Local(z, r) /\ local < Local(z, s)
      BY <1>2, <1>8, <1>9, <2>1, ClockGoesOn, CalmClock
    <2>4. Day * j < Day * k /\ local < Day * j
      BY <1>9, <2>2, <2>3 DEF day
    <2>5. Day * n < Day * j
      <3>1. Day * j \in Int /\ Day * n \in Int
        BY <1>3, <1>4, <2>2
      <3> QED
        BY <1>2, <1>4, <2>4, <3>1
    <2>6. j < k
      BY <1>3, <1>5, <2>2, <2>4
    <2>7. n < j
      BY <1>3, <1>4, <2>2, <2>5
    <2> QED
      BY <1>5, <2>2, <2>6, <2>7
  <1> QED
    BY <1>9, <1>10, <1>11

(***************************************************************************)
(* Sequences.                                                              *)
(***************************************************************************)
\* A step by a duration is as long as it says, where no clock changes near it.
LEMMA StepUp ==
    ASSUME NEW z, IsZone(z), NEW t \in Int, NEW o, o = getoffset(z, t), NEW k \in Int, k > 0,
           ~ChangesIn(z, t - Den, t + k)
    PROVE  LookedFrom(z, t, o, t + k).off = o.off
  <1> DEFINE u == t + k
             w == LookedFrom(z, t, o, u)
  <1>1. Den \in Nat \ {0} /\ Len(z.ats) \in Nat /\ \A i \in 1 .. Len(z.ats) : z.ats[i] \in Int /\ z.ats[i] * Den \in Int
    BY MonthsKnown, ZoneKnown
  <1>2. u \in Int /\ u >= t /\ u > t
    OBVIOUS
  <1>3. w = getoffset_from(z, u, o.pos, 1)
    BY <1>2 DEF LookedFrom
  <1>4. \A i \in 1 .. Len(z.ats) : ~(t - Den <= z.ats[i] * Den /\ z.ats[i] * Den <= u)
    BY DEF ChangesIn
  <1>5. o.pos \in -1 .. Len(z.ats) - 1
    BY LookUpIs
  <1> HIDE DEF u, w
  <1>6. CASE o.pos >= 0
    <2>1. /\ o.pos \in 0 .. Len(z.ats) - 1 /\ o.off = z.off[o.pos + 1]
          /\ o.pos + 1 < Len(z.ats) => t < z.ats[o.pos + 2] * Den
      BY <1>6, AroundLook
    <2>2. PICK i \in o.pos .. Len(z.ats) - 1 : UpFrom(z, u, o.pos, i) /\ w = [off |-> z.off[i + 1], pos |-> i]
      BY <1>2, <1>3, <2>1, UpIs
    <2>3. i = o.pos
      <3> SUFFICES ASSUME i # o.pos
                   PROVE  FALSE
        OBVIOUS
      <3>4. o.pos \in Int /\ i \in Int /\ o.pos >= 0 /\ o.pos < i /\ i <= Len(z.ats) - 1
        BY <1>1, <2>1, <2>2
      <3>1. o.pos \in o.pos .. i - 1 /\ (o.pos + 1) + 1 = o.pos + 2 /\ o.pos + 1 < Len(z.ats) /\ o.pos + 2 \in 1 .. Len(z.ats)
        BY <1>1, <3>4
      <3>2. u > z.ats[o.pos + 2] * Den
        BY <2>2, <3>1 DEF UpFrom
      <3> DEFINE c == z.ats[o.pos + 2] * Den
      <3>3. c \in Int /\ t < c /\ u > c /\ ~(t - Den <= c /\ c <= u)
        BY <1>1, <1>4, <2>1, <3>1, <3>2
      <3> HIDE DEF c
      <3> QED
        BY <1>1, <1>2, <3>3
    <2> QED
      BY <2>1, <2>2, <2>3 DEF u, w
  <1>7. CASE ~(o.pos >= 0)
    <2>1. o.pos = -1
      BY <1>1, <1>5, <1>7
    <2>2. w = getoffset(z, u)
      BY <1>3, <2>1, FromNone
    <2>3. o.off = z.default /\ (Len(z.ats) > 0 => SecondsOf(t) <= z.ats[1])
      BY <2>1, LookUpIs
    <2>4. ~(z.ats # <<>> /\ z.ats[1] < SecondsOf(u))
      <3> SUFFICES ASSUME z.ats # <<>>, z.ats[1] < SecondsOf(u)
                   PROVE  FALSE
        OBVIOUS
      <3>1. Len(z.ats) > 0 /\ 1 \in 1 .. Len(z.ats)
        BY <1>1, ZoneKnown, EmptySeq
      <3> DEFINE c == z.ats[1]
                 s == SecondsOf(t)
                 v == SecondsOf(u)
      <3>2. c \in Int /\ s <= c /\ c < v /\ ~(t - Den <= c * Den /\ c * Den <= u)
        BY <1>1, <1>4, <2>3, <3>1
      <3>3. s \in Int /\ v \in Int /\ t < s * Den + Den /\ v * Den < u + Den /\ s * Den \in Int /\ v * Den \in Int
        BY <1>2, SecondsAre
      <3> HIDE DEF c, s, v
      <3>4. s * Den <= c * Den /\ c * Den \in Int
        BY <1>1, <3>2, <3>3
      <3>5. (c + 1) * Den <= v * Den
        <4>1. c + 1 <= v /\ c + 1 \in Int
          BY <3>2, <3>3
        <4> DEFINE e == c + 1
        <4> HIDE DEF e
        <4>2. e * Den <= v * Den
          BY <1>1, <3>3, <4>1 DEF e
        <4> QED
          BY <4>2 DEF e
      <3>6. (c + 1) * Den = c * Den + Den
        BY <1>1, <3>2
      <3> DEFINE e == c * Den
                 f == s * Den
                 h == v * Den
      <3>7. f <= e /\ e + Den <= h /\ t < f + Den /\ h < u + Den /\ e \in Int /\ f \in Int /\ h \in Int
        BY <3>3, <3>4, <3>5, <3>6
      <3>8. ~(t - Den <= e /\ e <= u)
        BY <3>2
      <3> HIDE DEF e, f, h
      <3> QED
        BY <1>1, <1>2, <3>7, <3>8
    <2>5. w.off = z.default
      BY <2>2, <2>4 DEF getoffset
    <2> QED
      BY <2>3, <2>5 DEF w, u
  <1> QED
    BY <1>6, <1>7

LEMMA StepDown ==
    ASSUME NEW z, IsZone(z), NEW t \in Int, NEW k \in Int, k < 0, ~ChangesIn(z, t + k, t + Den)
    PROVE  LookedFrom(z, t, getoffset(z, t), t + k).off = getoffset(z, t).off
  <1> DEFINE u == t + k
             o == getoffset(z, t)
             w == LookedFrom(z, t, o, u)
  <1>1. Den \in Nat \ {0} /\ Len(z.ats) \in Nat /\ \A i \in 1 .. Len(z.ats) : z.ats[i] \in Int /\ z.ats[i] * Den \in Int
    BY MonthsKnown, ZoneKnown
  <1>2. u \in Int /\ ~(u >= t) /\ u <= t
    OBVIOUS
  <1>3. w = getoffset_from(z, u, o.pos, -1)
    BY <1>2 DEF LookedFrom
  <1>4. \A i \in 1 .. Len(z.ats) : ~(u <= z.ats[i] * Den /\ z.ats[i] * Den <= t + Den)
    BY DEF ChangesIn
  <1>5. o.pos \in -1 .. Len(z.ats) - 1
    BY LookUpIs
  <1> HIDE DEF u, w
  <1>6. CASE o.pos >= 0
    <2> DEFINE c == z.ats[o.pos + 1] * Den
    <2>1. o.pos \in 0 .. Len(z.ats) - 1 /\ o.off = z.off[o.pos + 1] /\ c < t + Den /\ c \in Int
      BY <1>6, AroundLook
    <2>2. PICK i \in 0 .. o.pos :
            DownFrom(z, u, o.pos, i)
            /\ w = [off |-> IF u > z.ats[i + 1] * Den THEN z.off[i + 1] ELSE z.default, pos |-> i]
      BY <1>2, <1>3, <2>1, DownIs
    <2>3. o.pos + 1 \in 1 .. Len(z.ats)
      BY <1>1, <2>1
    <2>4. ~(u <= c /\ c <= t + Den)
      BY <1>4, <2>3
    <2>5. u > c
      <3> HIDE DEF c
      <3> QED
        BY <1>1, <1>2, <2>1, <2>4
    <2>6. i = o.pos
      <3> SUFFICES ASSUME i # o.pos
                   PROVE  FALSE
        OBVIOUS
      <3>1. o.pos \in i + 1 .. o.pos
        BY <1>1, <2>1, <2>2
      <3>2. u < c
        BY <2>2, <3>1 DEF DownFrom
      <3> HIDE DEF c
      <3> QED
        BY <1>2, <2>1, <2>5, <3>2
    <2> QED
      BY <2>1, <2>2, <2>5, <2>6 DEF u, w
  <1>7. CASE ~(o.pos >= 0)
    <2>1. o.pos = -1
      BY <1>1, <1>5, <1>7
    <2>2. w = getoffset(z, u)
      BY <1>3, <2>1, FromNone
    <2>3. o.off = z.default /\ (Len(z.ats) > 0 => SecondsOf(t) <= z.ats[1])
      BY <2>1, LookUpIs
    <2>4. ~(z.ats # <<>> /\ z.ats[1] < SecondsOf(u))
      <3> SUFFICES ASSUME z.ats # <<>>, z.ats[1] < SecondsOf(u)
                   PROVE  FALSE
        OBVIOUS
      <3>1. Len(z.ats) > 0 /\ 1 \in 1 .. Len(z.ats)
        BY <1>1, ZoneKnown, EmptySeq
      <3>2. SecondsOf(u) <= SecondsOf(t) /\ SecondsOf(u) \in Int /\ SecondsOf(t) \in Int
        BY <1>2, SecondsAre
      <3> QED
        BY <1>1, <2>3, <3>1, <3>2
    <2>5. w.off = z.default
      BY <2>2, <2>4 DEF getoffset
    <2> QED
      BY <2>3, <2>5 DEF w, u
  <1> QED
    BY <1>6, <1>7

LEMMA NarrowerToo ==
    ASSUME NEW z, IsZone(z), NEW low \in Int, NEW high \in Int, ~ChangesIn(z, low, high),
           NEW s \in Int, NEW t \in Int, low <= s, t <= high
    PROVE  ~ChangesIn(z, s, t)
  <1>1. \A i \in 1 .. Len(z.ats) : z.ats[i] * Den \in Int
    BY ZoneKnown, MonthsKnown
  <1> QED
    BY <1>1 DEF ChangesIn

\* Where no clock changes near it, a step does not go the other way.
LEMMA NoTurning ==
    ASSUME NEW z, IsZone(z), NEW t \in Int, NEW k \in Int, NEW d \in Int,
           NEW v \in Int, v = t + k + d * Den,
           k > 0 /\ ~ChangesIn(z, t - Den, t + k) => d = 0,
           k < 0 /\ ~ChangesIn(z, t + k, t + Den) => d = 0,
           NEW low \in Int, NEW high \in Int, low <= t, t <= high, low <= v, v <= high,
           ~ChangesIn(z, low - Dist(0, k), high + Dist(0, k))
    PROVE  /\ v <= t => k <= 0
           /\ t <= v => k >= 0
  <1> DEFINE x == d * Den
             g == Dist(0, k)
  <1>1. Den \in Nat \ {0}
    BY MonthsKnown
  <1>2. g \in Nat /\ g >= k /\ g >= -k
    BY DEF Dist
  <1>3. x \in Int /\ (d > 0 => x >= Den) /\ (d < 0 => x <= -Den) /\ (d = 0 => x = 0)
    <2>1. x \in Int /\ (d = 0 => x = 0)
      BY <1>1
    <2>2. d > 0 => x >= Den
      BY <1>1
    <2>3. d < 0 => x <= -Den
      <3> DEFINE e == -d
      <3>1. e \in Int /\ x = -(e * Den) /\ (d < 0 => e >= 1)
        BY <1>1
      <3> HIDE DEF e, x
      <3>2. e >= 1 => e * Den >= Den
        BY <1>1, <3>1
      <3>3. e * Den \in Int
        BY <1>1, <3>1
      <3> QED
        BY <1>1, <3>1, <3>2, <3>3
    <2> QED
      BY <2>1, <2>2, <2>3
  <1>4. low - g \in Int /\ high + g \in Int /\ t - Den \in Int /\ t + Den \in Int /\ t + k \in Int
    BY <1>1, <1>2
  <1>5. ~ChangesIn(z, low - g, high + g) /\ v = t + k + x
    OBVIOUS
  <1> HIDE DEF x, g
  <1>6. ASSUME v <= t, ~(k <= 0)
        PROVE  FALSE
    <2>1. x <= -k /\ d < 0
      BY <1>1, <1>2, <1>3, <1>5, <1>6
    <2>2. low - g <= t - Den /\ t + k <= high + g
      BY <1>1, <1>2, <1>3, <1>5, <2>1
    <2>3. ~ChangesIn(z, t - Den, t + k)
      BY <1>1, <1>2, <1>4, <1>5, <2>2, NarrowerToo
    <2> QED
      BY <1>6, <2>1, <2>3
  <1>7. ASSUME t <= v, ~(k >= 0)
        PROVE  FALSE
    <2>1. x >= -k /\ d > 0
      BY <1>1, <1>2, <1>3, <1>5, <1>7
    <2>2. low - g <= t + k /\ t + Den <= high + g
      BY <1>1, <1>2, <1>3, <1>5, <2>1
    <2>3. ~ChangesIn(z, t + k, t + Den)
      BY <1>1, <1>2, <1>4, <1>5, <2>2, NarrowerToo
    <2> QED
      BY <1>7, <2>1, <2>3
  <1> QED
    BY <1>6, <1>7

\* A step by a duration, and by what the clocks have changed.
StepBy(z, t, k, d) ==
  /\ \A p \in Period : p.months = 0 /\ k = p.days * Day + p.dur => plus(z, t, p) = t + k + d * Den
  /\ k > 0 /\ ~ChangesIn(z, t - Den, t + k) => d = 0
  /\ k < 0 /\ ~ChangesIn(z, t + k, t + Den) => d = 0

LEMMA StepIs ==
    ASSUME NEW z, IsZone(z), NEW t \in Int, NEW k \in Int
    PROVE  \E d \in Int : StepBy(z, t, k, d)
  <1> DEFINE o == getoffset(z, t)
             w == LookedFrom(z, t, o, t + k)
             d == o.off - w.off
  <1>1. o.pos \in -1 .. Len(z.ats) - 1 /\ o.off \in Int /\ t + k \in Int
    <2>1. o.pos \in -1 .. Len(z.ats) - 1 /\ -1 \in -1 .. Len(z.ats) - 1
      BY LookUpIs, ZoneKnown
    <2>2. getoffset_from(z, t, -1, 1).off \in Offsets(z)
      BY <2>1, FromOffsets
    <2>3. o.off \in Int
      BY <2>2, FromNone, OffsetsBounded
    <2> QED
      BY <2>1, <2>3
  <1>2. w.off \in Int
    <2>1. w.off \in Offsets(z)
      BY <1>1, FromOffsets DEF LookedFrom
    <2> QED
      BY <2>1, OffsetsBounded
  <1>3. d \in Int
    BY <1>1, <1>2
  <1>4. ASSUME NEW p \in Period, p.months = 0, k = p.days * Day + p.dur
        PROVE  plus(z, t, p) = t + k + d * Den
    <2>1. Unadjusted(t, o, p) = t + k
      <3>1. add_months(t, o.off * Den, p.months) = t
        BY <1>4 DEF add_months
      <3>2. p.days \in Int /\ p.dur \in Int /\ Day \in Int
        BY MonthsKnown DEF Period
      <3>3. p.days * Day \in Int
        BY <3>2
      <3> HIDE DEF o
      <3> QED
        BY <1>4, <3>1, <3>2, <3>3 DEF Unadjusted
    <2>2. plus(z, t, p) = Unadjusted(t, o, p) + (o.off - LookedFrom(z, t, o, Unadjusted(t, o, p)).off) * Den
      BY PlusIs
    <2> QED
      BY <2>1, <2>2
  <1>5. ASSUME k > 0, ~ChangesIn(z, t - Den, t + k)
        PROVE  d = 0
    <2>1. w.off = o.off
      BY <1>5, StepUp
    <2> HIDE DEF o, w
    <2> QED
      BY <1>1, <2>1
  <1>6. ASSUME k < 0, ~ChangesIn(z, t + k, t + Den)
        PROVE  d = 0
    <2>1. w.off = o.off
      BY <1>6, StepDown
    <2> HIDE DEF o, w
    <2> QED
      BY <1>1, <2>1
  <1> HIDE DEF d
  <1> QED
    BY <1>3, <1>4, <1>5, <1>6 DEF StepBy

\* A sequence by a duration turns back only if the duration does not lead to its end.
LEMMA TurnsBack ==
    ASSUME NEW z, IsZone(z), NEW t \in Int, NEW k \in Int, NEW low \in Int, NEW high \in Int,
           low <= t, t <= high, ~ChangesIn(z, low - Dist(0, k), high + Dist(0, k))
    PROVE  \A p \in Period : p.months = 0 /\ k = p.days * Day + p.dur =>
             \A v : v = plus(z, t, p) /\ low <= v /\ v <= high => (v <= t => k <= 0) /\ (t <= v => k >= 0)
  <1>1. PICK d \in Int : StepBy(z, t, k, d)
    BY StepIs
  <1> DEFINE v == t + k + d * Den
  <1>2. v \in Int
    BY MonthsKnown
  <1>3. low <= v /\ v <= high => (v <= t => k <= 0) /\ (t <= v => k >= 0)
    <2> HIDE DEF v
    <2>1. v = t + k + d * Den
      BY DEF v
    <2> QED
      BY <1>1, <1>2, <2>1, NoTurning DEF StepBy
  <1> HIDE DEF v
  <1>4. \A p \in Period : p.months = 0 /\ k = p.days * Day + p.dur => plus(z, t, p) = v
    BY <1>1 DEF v, StepBy
  <1> QED
    BY <1>3, <1>4

LEMMA MinOfTwo ==
    ASSUME NEW m \in Int, NEW n \in Int, n <= m
    PROVE  Min({m, n}) = n
  <1> DEFINE S == {m, n}
  <1>1. n \in S /\ \A k \in S : k \in Int /\ n <= k
    OBVIOUS
  <1>2. \A k \in S : (\A l \in S : k <= l) => k = n
    <2> TAKE k \in S
    <2>1. k \in Int /\ n <= k /\ n \in S
      BY <1>1
    <2> HIDE DEF S
    <2> QED
      BY <2>1
  <1> HIDE DEF S
  <1>3. Min(S) = n
    BY <1>1, <1>2 DEF Min
  <1> QED
    BY <1>3 DEF S

LEMMA SpanIs ==
    ASSUME NEW s \in Int, NEW t \in Int
    PROVE  \A x : x \in Span(s, t) <=> x \in Int /\ (IF t >= s THEN s <= x /\ x <= t ELSE t <= x /\ x <= s)
  <1>1. CASE t >= s
    <2>1. Max({t, s}) = t /\ Min({t, s}) = s /\ {s, t} = {t, s}
      BY <1>1, MaxOfTwo, MinOfTwo
    <2> QED
      BY <1>1, <2>1 DEF Span
  <1>2. CASE ~(t >= s)
    <2>1. Max({s, t}) = s /\ Min({s, t}) = t
      BY <1>2, MaxOfTwo, MinOfTwo
    <2> QED
      BY <1>2, <2>1 DEF Span
  <1> QED
    BY <1>1, <1>2

\* The times of a sequence so far: each nearer to the end than the one before it.
Walk(start, to, s) ==
  /\ s \in Seq(Int) /\ s # <<>> /\ s[1] = start
  /\ \A i \in 1 .. Len(s) : s[i] \in Span(start, to)
  /\ \A i \in 1 .. Len(s) - 1 : IF to >= start THEN s[i] < s[i + 1] ELSE s[i + 1] < s[i]

LEMMA WalkBegins ==
    ASSUME NEW start \in Int, NEW to \in Int
    PROVE  Walk(start, to, <<start>>) /\ Last(<<start>>) = start
  <1>1. start \in Span(start, to)
    BY SpanIs
  <1> DEFINE s == <<start>>
  <1>2. s \in Seq(Int) /\ Len(s) = 1 /\ s[1] = start /\ s # <<>>
    OBVIOUS
  <1> HIDE DEF s
  <1>3. \A i \in 1 .. Len(s) : i = 1
    BY <1>2
  <1>4. \A i \in 1 .. Len(s) - 1 : FALSE
    BY <1>2
  <1>5. Walk(start, to, s) /\ Last(s) = start
    BY <1>1, <1>2, <1>3, <1>4 DEF Walk, Last
  <1> QED
    BY <1>5 DEF s

LEMMA WalkEnd ==
    ASSUME NEW start \in Int, NEW to \in Int, NEW s, Walk(start, to, s)
    PROVE  Last(s) = s[Len(s)] /\ Last(s) \in Int /\ Last(s) \in Span(start, to) /\ Len(s) \in Nat \ {0}
  <1>1. Len(s) \in Nat \ {0}
    BY EmptySeq DEF Walk
  <1> QED
    BY <1>1, ElementOfSeq DEF Walk, Last

LEMMA WalkOn ==
    ASSUME NEW start \in Int, NEW to \in Int, NEW s, Walk(start, to, s), NEW next \in Int,
           ~(IF to >= start THEN next > to ELSE next < to), Dist(to, next) < Dist(to, Last(s))
    PROVE  Walk(start, to, Append(s, next)) /\ Last(Append(s, next)) = next
  <1> DEFINE u == Append(s, next)
             e == Last(s)
  <1>1. e = s[Len(s)] /\ e \in Int /\ e \in Span(start, to) /\ Len(s) \in Nat \ {0}
    BY WalkEnd
  <1>2. /\ u \in Seq(Int) /\ u # <<>> /\ Len(u) = Len(s) + 1
        /\ \A i \in 1 .. Len(s) : u[i] = s[i]
        /\ u[Len(s) + 1] = next
    <2>1. s \in Seq(Int)
      BY DEF Walk
    <2> QED
      BY <2>1, AppendProperties
  <1> HIDE DEF u, e
  <1>3. Dist(to, next) < Dist(to, e)
    BY DEF e
  <1>4. next \in Span(start, to) /\ (IF to >= start THEN e < next ELSE next < e)
    BY <1>1, <1>3, SpanIs DEF Dist
  <1>5. \A i \in 1 .. Len(u) : u[i] \in Span(start, to)
    <2> TAKE i \in 1 .. Len(u)
    <2>1. i \in 1 .. Len(s) \/ i = Len(s) + 1
      BY <1>1, <1>2
    <2> QED
      BY <1>2, <1>4, <2>1 DEF Walk
  <1>6. \A i \in 1 .. Len(u) - 1 : IF to >= start THEN u[i] < u[i + 1] ELSE u[i + 1] < u[i]
    <2> TAKE i \in 1 .. Len(u) - 1
    <2>1. CASE i \in 1 .. Len(s) - 1
      <3>1. i \in 1 .. Len(s) /\ i + 1 \in 1 .. Len(s)
        BY <1>1, <2>1
      <3> QED
        BY <1>2, <2>1, <3>1 DEF Walk
    <2>2. CASE i = Len(s)
      <3>1. u[i] = e /\ u[i + 1] = next
        BY <1>1, <1>2, <2>2
      <3> QED
        BY <1>4, <3>1
    <2> QED
      BY <1>1, <1>2, <2>1, <2>2
  <1>7. u[1] = start
    BY <1>1, <1>2 DEF Walk
  <1> QED
    BY <1>2, <1>5, <1>6, <1>7 DEF Walk, Last, u

SequenceDone(start, to, s) ==
  LET sign == IF to >= start THEN 1 ELSE -1
  IN  /\ s[1] = start /\ ToSet(s) \subseteq Span(start, to)
      /\ \A i \in 1 .. Len(s) - 1 : sign * (s[i + 1] - s[i]) > 0

LEMMA WalkDone ==
    ASSUME NEW start \in Int, NEW to \in Int, NEW s, Walk(start, to, s)
    PROVE  SequenceDone(start, to, s)
  <1> DEFINE sign == IF to >= start THEN 1 ELSE -1
  <1>1. s \in Seq(Int) /\ Len(s) \in Nat \ {0}
    BY WalkEnd DEF Walk
  <1>2. ToSet(s) \subseteq Span(start, to)
    BY <1>1, LenProperties DEF Walk, ToSet
  <1>3. ASSUME NEW i \in 1 .. Len(s) - 1
        PROVE  sign * (s[i + 1] - s[i]) > 0
    <2>1. i \in 1 .. Len(s) /\ i + 1 \in 1 .. Len(s)
      BY <1>1
    <2>2. s[i] \in Int /\ s[i + 1] \in Int
      BY <1>1, <2>1, ElementOfSeq
    <2>3. IF to >= start THEN s[i] < s[i + 1] ELSE s[i + 1] < s[i]
      BY DEF Walk
    <2>4. CASE to >= start
      BY <2>2, <2>3, <2>4
    <2>5. CASE ~(to >= start)
      BY <2>2, <2>3, <2>5
    <2> QED
      BY <2>4, <2>5
  <1> QED
    BY <1>2, <1>3 DEF SequenceDone, Walk

SequenceRefused(z, start, to, p, s) ==
  LET w    == Dist(0, p.days * Day + p.dur)
      step == p.days * Day + p.dur
  IN  p.months = 0 /\ ~ChangesIn(z, Min(ToSet(s)) - w, Max(ToSet(s)) + w) => step = 0 \/ (step > 0 <=> to < start)

LEMMA EndsOf ==
    ASSUME NEW s \in Seq(Int), s # <<>>
    PROVE  /\ Min(ToSet(s)) \in Int /\ Max(ToSet(s)) \in Int
           /\ \A i \in 1 .. Len(s) : Min(ToSet(s)) <= s[i] /\ s[i] <= Max(ToSet(s))
  <1> DEFINE S == ToSet(s)
  <1>1. \A i \in 1 .. Len(s) : s[i] \in Int /\ s[i] \in S
    BY ElementOfSeq, LenProperties DEF ToSet
  <1>2. \A x \in S : \E i \in 1 .. Len(s) : x = s[i]
    BY LenProperties DEF ToSet
  <1>3. 1 \in 1 .. Len(s)
    BY EmptySeq
  <1> HIDE DEF S
  <1>4. S \in SUBSET Int /\ S # {}
    BY <1>1, <1>2, <1>3
  <1>5. PICK most \in Nat : \A i \in 1 .. Len(s) : -most <= s[i] /\ s[i] <= most
    BY Bounded
  <1>6. most \in Int /\ -most \in Int /\ \A x \in S : -most <= x /\ x <= most
    BY <1>2, <1>5
  <1>7. Max(S) \in S /\ \A x \in S : x <= Max(S)
    BY <1>4, <1>6, LargestOf
  <1>8. Min(S) \in S /\ \A x \in S : Min(S) <= x
    BY <1>4, <1>6, SmallestOf
  <1> QED
    BY <1>1, <1>4, <1>7, <1>8 DEF S

LEMMA WalkRefused ==
    ASSUME NEW z, IsZone(z), NEW start \in Int, NEW to \in Int, NEW s, Walk(start, to, s),
           NEW p \in Period, NEW next, next = plus(z, Last(s), p),
           ~(IF to >= start THEN next > to ELSE next < to), Dist(to, next) >= Dist(to, Last(s))
    PROVE  SequenceRefused(z, start, to, p, Append(s, next))
  <1> DEFINE u == Append(s, next)
             e == Last(s)
             k == p.days * Day + p.dur
             low == Min(ToSet(u))
             high == Max(ToSet(u))
  <1>1. e = s[Len(s)] /\ e \in Int /\ e \in Span(start, to) /\ Len(s) \in Nat \ {0}
    BY WalkEnd
  <1>2. next \in Int
    BY <1>1, PlusInt
  <1>3. /\ u \in Seq(Int) /\ u # <<>> /\ Len(u) = Len(s) + 1
        /\ \A i \in 1 .. Len(s) : u[i] = s[i]
        /\ u[Len(s) + 1] = next
    <2>1. s \in Seq(Int)
      BY DEF Walk
    <2> QED
      BY <1>2, <2>1, AppendProperties
  <1>4. k \in Int
    <2>1. p.days \in Int /\ p.dur \in Int /\ Day \in Int
      BY MonthsKnown DEF Period
    <2>2. p.days * Day \in Int
      BY <2>1
    <2> QED
      BY <2>1, <2>2
  <1> SUFFICES ASSUME p.months = 0, ~ChangesIn(z, low - Dist(0, k), high + Dist(0, k))
               PROVE  k = 0 \/ (k > 0 <=> to < start)
    BY DEF SequenceRefused
  <1>5. low \in Int /\ high \in Int /\ low <= e /\ e <= high /\ low <= next /\ next <= high
    <2> HIDE DEF u, e
    <2>1. Len(s) \in 1 .. Len(u) /\ Len(s) + 1 \in 1 .. Len(u) /\ u[Len(s)] = e
      BY <1>1, <1>3
    <2>2. /\ low \in Int /\ high \in Int
          /\ \A i \in 1 .. Len(u) : low <= u[i] /\ u[i] <= high
      BY <1>3, EndsOf
    <2> HIDE DEF low, high
    <2>3. low <= u[Len(s)] /\ u[Len(s)] <= high /\ low <= u[Len(s) + 1] /\ u[Len(s) + 1] <= high
      BY <2>1, <2>2
    <2> QED
      BY <1>3, <2>1, <2>2, <2>3
  <1>6. next = plus(z, e, p)
    OBVIOUS
  <1>7. ~(IF to >= start THEN next > to ELSE next < to) /\ Dist(to, next) >= Dist(to, e)
    OBVIOUS
  <1>8. ~ChangesIn(z, low - Dist(0, k), high + Dist(0, k)) /\ k = p.days * Day + p.dur
    OBVIOUS
  <1> HIDE DEF u, e, k, low, high
  <1>9. (next <= e => k <= 0) /\ (e <= next => k >= 0)
    BY <1>1, <1>4, <1>5, <1>6, <1>8, TurnsBack, SMTT(30)
  <1>10. IF to >= start THEN next <= e ELSE e <= next
    BY <1>1, <1>2, <1>7, SpanIs DEF Dist
  <1> QED
    BY <1>4, <1>9, <1>10

\* Equal steps.
Ladder(start, step, m) == [i \in 1 .. m |-> start + (i - 1) * step]
LadderOf(s, start, step, m) ==
  /\ Len(s) = m /\ DOMAIN s = 1 .. m /\ s[1] = start /\ Last(s) = start + (m - 1) * step
  /\ \A i \in 1 .. m : s[i] = start + (i - 1) * step
  /\ \A i \in 1 .. m - 1 : s[i + 1] - s[i] = step
  /\ m > 1 => s[2] - s[1] = step

LEMMA LadderIs ==
    ASSUME NEW start \in Int, NEW step \in Int, NEW m \in Nat \ {0}, NEW s, s = Ladder(start, step, m)
    PROVE  LadderOf(s, start, step, m)
  <1> DEFINE Step(i) == start + (i - 1) * step
  <1>1. \A i \in 1 .. m : Step(i) \in Int
    OBVIOUS
  <1>2. s = [i \in 1 .. m |-> Step(i)]
    BY DEF Ladder
  <1>3. Step(1) = start
    OBVIOUS
  <1>4. ASSUME NEW i \in Int
        PROVE  Step(i + 1) - Step(i) = step
    <2>1. (i + 1) - 1 = (i - 1) + 1
      OBVIOUS
    <2> DEFINE h == i - 1
    <2>2. h \in Int /\ Step(i) = start + h * step /\ Step(i + 1) = start + (h + 1) * step
      BY <2>1
    <2> HIDE DEF h, Step
    <2>3. (h + 1) * step = h * step + step /\ h * step \in Int
      BY <2>2
    <2> QED
      BY <2>2, <2>3
  <1>5. Step(m) = start + (m - 1) * step
    OBVIOUS
  <1> HIDE DEF Step
  <1>6. s \in Seq(Int) /\ Len(s) = m /\ DOMAIN s = 1 .. m
    <2>1. s \in [1 .. m -> Int] /\ m \in Nat
      BY <1>1, <1>2
    <2>2. s \in Seq(Int)
      BY <2>1, SeqDef
    <2>3. DOMAIN s = 1 .. m /\ DOMAIN s = 1 .. Len(s) /\ Len(s) \in Nat
      BY <2>1, <2>2, LenProperties
    <2> QED
      BY <2>2, <2>3
  <1>7. 1 \in 1 .. m /\ m \in 1 .. m /\ \A i \in 1 .. m - 1 : i \in 1 .. m /\ i + 1 \in 1 .. m
    OBVIOUS
  <1>8. s[1] = start /\ Last(s) = Step(m)
    BY <1>2, <1>3, <1>6, <1>7 DEF Last
  <1>9. \A i \in 1 .. m - 1 : s[i + 1] - s[i] = step
    BY <1>2, <1>4, <1>7
  <1>10. m > 1 => s[2] - s[1] = step
    <2>1. m > 1 => 1 \in 1 .. m - 1 /\ 1 + 1 = 2
      OBVIOUS
    <2> QED
      BY <1>9, <2>1
  <1>11. \A i \in 1 .. m : s[i] = start + (i - 1) * step
    BY <1>2 DEF Step
  <1> QED
    BY <1>5, <1>6, <1>8, <1>9, <1>10, <1>11 DEF LadderOf

LEMMA QuotientIs ==
    ASSUME NEW d \in Nat, NEW g \in Nat \ {0}, NEW q, q = d \div g
    PROVE  /\ q \in Nat /\ q * g \in Nat /\ q * g <= d /\ d < q * g + g
           /\ \A h \in Nat : h <= q => h * g \in Nat /\ h * g <= d
           /\ g <= d => q >= 1
  <1>1. q \in Nat /\ q * g <= d /\ d < q * g + g
    OBVIOUS
  <1>2. q * g \in Nat
    BY <1>1
  <1>3. ASSUME NEW h \in Nat, h <= q
        PROVE  h * g \in Nat /\ h * g <= d
    <2>1. h * g <= q * g /\ h * g \in Nat
      BY <1>1, <1>3
    <2> QED
      BY <1>1, <1>2, <2>1
  <1>4. g <= d => q >= 1
    <2>1. q = 0 => q * g = 0
      OBVIOUS
    <2> QED
      BY <1>1, <1>2, <2>1
  <1> QED
    BY <1>1, <1>2, <1>3, <1>4

LEMMA SeqToIs ==
    ASSUME NEW start \in Int, NEW to \in Int, NEW g \in Nat \ {0},
           NEW step, step = (IF to < start THEN -g ELSE g), NEW s, s = seq_to(start, to, g)
    PROVE  /\ s = Ladder(start, step, (Dist(start, to) \div g) + 1)
           /\ ToSet(s) \subseteq Span(start, to)
           /\ Last(s) + step \notin Span(start, to)
  <1> DEFINE d == Dist(start, to)
             q == d \div g
             m == q + 1
  <1>1. d \in Nat /\ (to < start => d = start - to) /\ (~(to < start) => d = to - start)
    BY DEF Dist
  <1>2. step \in Int
    OBVIOUS
  <1> HIDE DEF d
  <1>3. /\ q \in Nat /\ q * g \in Nat /\ q * g <= d /\ d < q * g + g
        /\ \A h \in Nat : h <= q => h * g \in Nat /\ h * g <= d
    BY <1>1, QuotientIs
  <1> HIDE DEF q
  <1>4. m \in Nat \ {0}
    BY <1>3
  <1>5. \A i \in 1 .. m : (to < start => start - (i - 1) * g = start + (i - 1) * step)
                          /\ (~(to < start) => start + (i - 1) * g = start + (i - 1) * step)
    <2> TAKE i \in 1 .. m
    <2> DEFINE h == i - 1
    <2>1. h \in Nat
      BY <1>4
    <2> HIDE DEF h
    <2>2. h * g \in Int /\ h * (-g) = -(h * g)
      BY <2>1
    <2>3. to < start => start - h * g = start + h * step
      BY <2>2
    <2>4. ~(to < start) => start + h * g = start + h * step
      OBVIOUS
    <2> QED
      BY <2>3, <2>4 DEF h
  <1>6. s = Ladder(start, step, m)
    <2>1. s = [i \in 1 .. m |-> IF to < start THEN start - (i - 1) * g ELSE start + (i - 1) * g]
      BY DEF seq_to, d, q
    <2> HIDE DEF m
    <2> QED
      BY <1>5, <2>1 DEF Ladder
  <1>7. /\ DOMAIN s = 1 .. m /\ Last(s) = start + (m - 1) * step
        /\ \A i \in 1 .. m : s[i] = start + (i - 1) * step
    <2> HIDE DEF m
    <2>1. LadderOf(s, start, step, m)
      BY <1>2, <1>4, <1>6, LadderIs
    <2> QED
      BY <2>1 DEF LadderOf
  <1>8. ASSUME NEW h \in Nat, h <= q
        PROVE  start + h * step \in Span(start, to)
    <2>1. h * g \in Nat /\ h * g <= d
      BY <1>3, <1>8
    <2>2. h * (-g) = -(h * g)
      OBVIOUS
    <2>3. CASE to < start
      <3>1. start + h * step = start - h * g
        BY <2>1, <2>2, <2>3
      <3>2. start - h * g \in Int /\ to <= start - h * g /\ start - h * g <= start
        BY <1>1, <2>1, <2>3
      <3> QED
        BY <2>3, <3>1, <3>2, SpanIs
    <2>4. CASE ~(to < start)
      <3>1. start + h * g \in Int /\ start <= start + h * g /\ start + h * g <= to
        BY <1>1, <2>1, <2>4
      <3> QED
        BY <2>4, <3>1, SpanIs
    <2> QED
      BY <2>3, <2>4
  <1>9. ToSet(s) \subseteq Span(start, to)
    <2>1. \A i \in 1 .. m : i - 1 \in Nat /\ i - 1 <= q
      BY <1>3, <1>4
    <2>2. \A i \in 1 .. m : s[i] \in Span(start, to)
      BY <1>7, <1>8, <2>1
    <2> QED
      BY <1>7, <2>2 DEF ToSet
  <1>10. Last(s) + step \notin Span(start, to)
    <2>1. Last(s) = start + q * step
      BY <1>3, <1>7
    <2>2. q * (-g) = -(q * g)
      BY <1>3
    <2>3. CASE to < start
      <3>1. Last(s) + step = start - q * g - g
        BY <1>3, <2>1, <2>2, <2>3
      <3>2. start - q * g - g < to
        BY <1>1, <1>3, <2>3
      <3> QED
        BY <2>3, <3>1, <3>2, SpanIs
    <2>4. CASE ~(to < start)
      <3>1. Last(s) + step = start + q * g + g
        BY <1>3, <2>1, <2>4
      <3>2. start + q * g + g > to
        BY <1>1, <1>3, <2>4
      <3> QED
        BY <2>4, <3>1, <3>2, SpanIs
    <2> QED
      BY <2>3, <2>4
  <1> QED
    BY <1>6, <1>9, <1>10 DEF d, q

LEMMA DividesOut ==
    ASSUME NEW m \in Nat, NEW g \in Nat \ {0}
    PROVE  m * g \in Nat /\ (m * g) \div g = m
  <1> DEFINE d == m * g
             q == d \div g
  <1>1. d \in Nat
    OBVIOUS
  <1>2. q \in Nat /\ q * g \in Nat /\ q * g <= d /\ d < q * g + g
    <2> HIDE DEF d
    <2> QED
      BY <1>1, QuotientIs
  <1> HIDE DEF q
  <1>3. ASSUME q < m
        PROVE  FALSE
    <2>1. q + 1 \in Nat /\ q + 1 <= m
      BY <1>2, <1>3
    <2> DEFINE h == q + 1
    <2>2. h * g = q * g + g
      BY <1>2
    <2> HIDE DEF h
    <2>3. h * g <= d
      BY <2>1 DEF h
    <2> HIDE DEF d
    <2> QED
      BY <1>1, <1>2, <2>2, <2>3
  <1>4. ASSUME m < q
        PROVE  FALSE
    <2>1. m + 1 \in Nat /\ m + 1 <= q
      BY <1>2, <1>4
    <2> DEFINE h == m + 1
    <2>2. h * g = d + g
      OBVIOUS
    <2> HIDE DEF h, d
    <2>3. h * g <= q * g
      BY <1>2, <2>1 DEF h
    <2> QED
      BY <1>1, <1>2, <2>2, <2>3
  <1>5. q = m
    BY <1>2, <1>3, <1>4
  <1> QED
    BY <1>1, <1>5 DEF q

\* A step for a number of elements is not longer than the way to the end, and leads to
\* this number if it is a whole one.
LEMMA LengthStep ==
    ASSUME NEW diff \in Int, NEW n \in Nat, n # 1, NEW k, k = ByLength(diff, n), k # 0, diff >= 0 <=> k > 0,
           NEW d \in Nat, d = (IF diff >= 0 THEN diff ELSE -diff),
           NEW g \in Nat \ {0}, g = (IF diff >= 0 THEN k ELSE -k)
    PROVE  g <= d /\ (diff % (n - 1) # 0 \/ (d \div g) + 1 = n)
  <1>1. CASE n = 2
    <2>1. k = diff
      BY <1>1 DEF ByLength
    <2>2. g = d
      BY <2>1
    <2>3. d = 1 * g
      BY <2>2
    <2>4. d \div g = 1
      BY <2>3, DividesOut
    <2> QED
      BY <1>1, <2>2, <2>4
  <1>2. CASE n # 2
    <2>1. n > 2 /\ diff >= 0
      BY <1>2 DEF ByLength
    <2>2. g = diff \div (n - 1) /\ d = diff
      BY <1>2, <2>1 DEF ByLength
    <2> DEFINE m == n - 1
    <2>3. m \in Nat \ {0} /\ m >= 1 /\ n = m + 1
      BY <2>1
    <2> HIDE DEF m
    <2>4. g * m \in Nat /\ g * m <= d /\ d \in Nat /\ g = d \div m
      BY <2>2, <2>3, QuotientIs DEF m
    <2>5. g <= g * m /\ g * m = m * g
      BY <2>3
    <2>6. d % m = 0 => d = g * m
      BY <2>3, <2>4
    <2>7. d % m = 0 => d \div g = m
      BY <2>3, <2>5, <2>6, DividesOut
    <2>8. g <= d
      BY <2>4, <2>5
    <2> QED
      BY <2>2, <2>3, <2>7, <2>8 DEF m
  <1> QED
    BY <1>1, <1>2

ByRight(start, to, by, n, s) ==
  \E step \in IF Len(s) > 1 THEN {s[2] - s[1]} ELSE {Den, -Den} \cup ToSet(by) :
    /\ s[1] = start /\ \A i \in 1 .. Len(s) - 1 : s[i + 1] - s[i] = step
    /\ to # <<>> => ToSet(s) \subseteq Span(start, to[1]) /\ Last(s) + step \notin Span(start, to[1])
    /\ by # <<>> => step = by[1]
    /\ n # <<>> => \/ Len(s) = n[1] \/ n[1] = 0
                   \/ to # <<>> /\ (to[1] - start) % (n[1] - 1) # 0

LEMMA LadderRight ==
    ASSUME NEW start \in Int, NEW step \in Int, NEW m \in Nat \ {0}, NEW s, LadderOf(s, start, step, m),
           NEW to, NEW by, NEW n,
           m > 1 \/ step \in {Den, -Den} \cup ToSet(by),
           to # <<>> => ToSet(s) \subseteq Span(start, to[1]) /\ Last(s) + step \notin Span(start, to[1]),
           by # <<>> => step = by[1],
           n # <<>> => m = n[1] \/ n[1] = 0 \/ (to # <<>> /\ (to[1] - start) % (n[1] - 1) # 0)
    PROVE  ByRight(start, to, by, n, s)
  <1>1. Len(s) = m /\ s[1] = start /\ (\A i \in 1 .. m - 1 : s[i + 1] - s[i] = step) /\ (m > 1 => s[2] - s[1] = step)
    BY DEF LadderOf
  <1>2. step \in IF Len(s) > 1 THEN {s[2] - s[1]} ELSE {Den, -Den} \cup ToSet(by)
    BY <1>1
  <1>3. /\ s[1] = start /\ \A i \in 1 .. Len(s) - 1 : s[i + 1] - s[i] = step
        /\ to # <<>> => ToSet(s) \subseteq Span(start, to[1]) /\ Last(s) + step \notin Span(start, to[1])
        /\ by # <<>> => step = by[1]
        /\ n # <<>> => \/ Len(s) = n[1] \/ n[1] = 0
                       \/ to # <<>> /\ (to[1] - start) % (n[1] - 1) # 0
    BY <1>1
  <1> QED
    BY <1>2, <1>3 DEF ByRight

LEMMA GivenIs ==
    ASSUME NEW S, NEW x \in Given(S), x # <<>>
    PROVE  x[1] \in S /\ x[1] \in ToSet(x)
  <1>1. PICK e \in S : x = <<e>>
    BY DEF Given
  <1>2. 1 \in DOMAIN x /\ x[1] = e
    BY <1>1
  <1> QED
    BY <1>1, <1>2 DEF ToSet

\* A sequence to a time, by a duration or of a length.
LEMMA ToRight ==
    ASSUME NEW start \in Int, NEW to, NEW e \in Int, to[1] = e, NEW by, NEW n,
           NEW step \in Int, step # 0, e >= start <=> step > 0,
           NEW g, g = (IF e >= start THEN step ELSE -step), NEW s, s = seq_to(start, e, g),
           by # <<>> => step = by[1],
           g <= Dist(start, e) \/ step \in {Den, -Den} \cup ToSet(by),
           n # <<>> => n[1] = 0 \/ (Dist(start, e) \div g) + 1 = n[1]
                       \/ (to # <<>> /\ (to[1] - start) % (n[1] - 1) # 0)
    PROVE  ByRight(start, to, by, n, s)
  <1> DEFINE q == Dist(start, e) \div g
             m == q + 1
  <1>1. g \in Nat \ {0} /\ step = (IF e < start THEN -g ELSE g) /\ Dist(start, e) \in Nat
    BY DEF Dist
  <1>2. s = Ladder(start, step, m) /\ ToSet(s) \subseteq Span(start, e) /\ Last(s) + step \notin Span(start, e)
    BY <1>1, SeqToIs
  <1>3. q \in Nat /\ (g <= Dist(start, e) => q >= 1)
    BY <1>1, QuotientIs
  <1> HIDE DEF q
  <1>4. m \in Nat \ {0} /\ (g <= Dist(start, e) => m > 1)
    BY <1>3
  <1>5. n # <<>> => m = n[1] \/ n[1] = 0 \/ (to # <<>> /\ (to[1] - start) % (n[1] - 1) # 0)
    BY DEF q
  <1>6. m > 1 \/ step \in {Den, -Den} \cup ToSet(by)
    BY <1>4
  <1> HIDE DEF m
  <1>7. LadderOf(s, start, step, m)
    BY <1>2, <1>4, LadderIs
  <1> QED
    BY <1>2, <1>4, <1>5, <1>6, <1>7, LadderRight

LEMMA SeqByRight ==
    ASSUME NEW start \in SeqEnd, NEW to \in Given(SeqEnd), NEW by \in Given({p.dur : p \in Shift}),
           NEW n \in Given(Lengths), CallSeqBy(start, to, by, n)
    PROVE  \E res, end : /\ Ends("seq_by", tz, <<start, to, by, n>>, res, end)
                         /\ end \in {"done", "throw", "trap"}
                         /\ end = "done" => ByRight(start, to, by, n, res)
  <1> DEFINE default == IF to # <<>> /\ to[1] < start THEN -Den ELSE Den
             step == CASE to # <<>> /\ n # <<>> -> ByLength(to[1] - start, n[1])
                       [] by # <<>>             -> by[1]
                       [] OTHER                 -> default
             Ended(end, res) == Ends("seq_by", tz, <<start, to, by, n>>, res, end)
             Right == \E res, end : /\ Ended(end, res)
                                    /\ end \in {"done", "throw", "trap"}
                                    /\ end = "done" => ByRight(start, to, by, n, res)
  <1>1. /\ start \in Int /\ Den \in Nat \ {0}
        /\ to # <<>> => to[1] \in Int
        /\ by # <<>> => by[1] \in Int /\ by[1] \in ToSet(by)
        /\ n # <<>> => n[1] \in Nat
    <2>1. /\ SeqEnd \subseteq Int /\ Lengths \subseteq Nat /\ Den \in Nat \ {0}
          /\ \A p \in Shift : p.dur \in Int
      BY TimesAssumption DEF Period
    <2>2. /\ to # <<>> => to[1] \in SeqEnd
          /\ by # <<>> => by[1] \in {p.dur : p \in Shift} /\ by[1] \in ToSet(by)
          /\ n # <<>> => n[1] \in Lengths
      BY GivenIs
    <2> QED
      BY <2>1, <2>2
  <1> SUFFICES Right
    OBVIOUS
  <1>2. CASE to # <<>> /\ by # <<>> /\ n # <<>>
    <2>1. Ended("throw", <<>>)
      BY <1>2 DEF CallSeqBy
    <2> QED
      BY <2>1
  <1>3. CASE to # <<>> /\ by = <<>> /\ n = <<1>>
    <2>1. Ended("trap", <<>>)
      BY <1>3 DEF CallSeqBy
    <2> QED
      BY <2>1
  <1>4. CASE to # <<>> /\ ~(by # <<>> /\ n # <<>>) /\ n # <<1>>
    <2>1. IF step # 0 /\ (to[1] >= start <=> step > 0)
          THEN Ended("done", seq_to(start, to[1], IF to[1] >= start THEN step ELSE -step))
          ELSE Ended("throw", <<>>)
      BY <1>4 DEF CallSeqBy
    <2>2. CASE ~(step # 0 /\ (to[1] >= start <=> step > 0))
      <3>1. Ended("throw", <<>>)
        BY <2>1, <2>2
      <3> QED
        BY <3>1
    <2>3. CASE step # 0 /\ (to[1] >= start <=> step > 0)
      <3> DEFINE e == to[1]
                 g == IF e >= start THEN step ELSE -step
                 s == seq_to(start, e, g)
      <3>1. Ended("done", s) /\ e \in Int
        BY <1>1, <1>4, <2>1, <2>3
      <3>2. CASE n # <<>>
        <4>1. by = <<>> /\ n[1] \in Nat /\ n[1] # 1 /\ step = ByLength(e - start, n[1])
          <5>1. n[1] # 1
            <6>1. PICK k \in Lengths : n = <<k>>
              BY <3>2 DEF Given
            <6> QED
              BY <1>4, <6>1
          <5> QED
            BY <1>1, <1>4, <3>2, <5>1
        <4> DEFINE diff == e - start
                   d == Dist(start, e)
                   k == n[1]
        <4>2. diff \in Int /\ d \in Nat /\ d = (IF diff >= 0 THEN diff ELSE -diff) /\ (e >= start <=> diff >= 0)
          BY <1>1, <3>1 DEF Dist
        <4> HIDE DEF step, e
        <4>3. step \in Int
          <5> HIDE DEF k
          <5>1. k \in Nat /\ k # 1 /\ step = ByLength(diff, k)
            BY <4>1 DEF k
          <5> HIDE DEF diff
          <5>2. CASE k > 2
            BY <4>2, <5>1, <5>2 DEF ByLength
          <5>3. CASE ~(k > 2)
            BY <4>2, <5>1, <5>3 DEF ByLength
          <5> QED
            BY <5>2, <5>3
        <4>4. step # 0 /\ (e >= start <=> step > 0)
          BY <2>3 DEF e
        <4>5. g \in Nat \ {0} /\ g = (IF diff >= 0 THEN step ELSE -step)
          BY <4>2, <4>3, <4>4
        <4>6. g <= d /\ (diff % (n[1] - 1) # 0 \/ (d \div g) + 1 = n[1])
          <5> HIDE DEF diff, d, g
          <5>1. diff >= 0 <=> step > 0
            BY <4>2, <4>4
          <5>2. step = ByLength(diff, n[1])
            BY <4>1 DEF diff
          <5> QED
            BY <4>1, <4>2, <4>4, <4>5, <5>1, <5>2, LengthStep
        <4>7. to[1] = e /\ e \in Int
          BY <3>1 DEF e
        <4>8. ByRight(start, to, by, n, s)
          <5>1. n # <<>> => n[1] = 0 \/ (Dist(start, e) \div g) + 1 = n[1]
                       \/ (to # <<>> /\ (to[1] - start) % (n[1] - 1) # 0)
            BY <1>4, <4>6, <4>7
          <5>2. (by # <<>> => step = by[1]) /\ (g <= Dist(start, e) \/ step \in {Den, -Den} \cup ToSet(by))
            BY <4>1, <4>6
          <5>3. g = (IF e >= start THEN step ELSE -step) /\ s = seq_to(start, e, g)
            OBVIOUS
          <5> HIDE DEF g, s
          <5> QED
            BY <1>1, <4>3, <4>4, <4>7, <5>1, <5>2, <5>3, ToRight
        <4> HIDE DEF s
        <4> QED
          BY <3>1, <4>8
      <3>3. CASE n = <<>>
        <4>1. (by # <<>> => step = by[1]) /\ (by = <<>> => step = default)
          BY <1>4, <3>3
        <4>2. step \in Int /\ step \in {Den, -Den} \cup ToSet(by)
          <5>1. default \in {Den, -Den} /\ default \in Int
            BY <1>1
          <5> HIDE DEF default, step
          <5> QED
            BY <1>1, <4>1, <5>1
        <4>3. step # 0 /\ (e >= start <=> step > 0) /\ to[1] = e
          BY <2>3
        <4> HIDE DEF step, e
        <4>4. ByRight(start, to, by, n, s)
          <5>1. g = (IF e >= start THEN step ELSE -step) /\ s = seq_to(start, e, g)
            OBVIOUS
          <5> HIDE DEF g, s
          <5>2. e \in Int
            BY <3>1
          <5>3. n # <<>> => n[1] = 0 \/ (Dist(start, e) \div g) + 1 = n[1]
                       \/ (to # <<>> /\ (to[1] - start) % (n[1] - 1) # 0)
            BY <3>3
          <5> QED
            BY <1>1, <4>1, <4>2, <4>3, <5>1, <5>2, <5>3, ToRight
        <4> HIDE DEF s
        <4> QED
          BY <3>1, <4>4
      <3> QED
        BY <3>2, <3>3
    <2> QED
      BY <2>2, <2>3
  <1>5. CASE to = <<>> /\ n = <<>>
    <2>1. Ended("throw", <<>>)
      BY <1>5 DEF CallSeqBy
    <2> QED
      BY <2>1
  <1>6. CASE to = <<>> /\ n # <<>>
    <2> DEFINE m == Max({n[1], 1})
               s == Ladder(start, step, m)
    <2>1. Ended("done", s)
      BY <1>6 DEF CallSeqBy, Ladder
    <2>2. m \in Nat \ {0} /\ (m = n[1] \/ n[1] = 0)
      <3> DEFINE k == n[1]
      <3>1. k \in Nat
        BY <1>1, <1>6
      <3> HIDE DEF k
      <3>2. CASE k >= 1
        <4>1. Max({k, 1}) = k
          BY <3>1, <3>2, MaxOfTwo
        <4> QED
          BY <3>1, <3>2, <4>1 DEF k
      <3>3. CASE k = 0
        <4>1. {k, 1} = {1, k} /\ Max({1, k}) = 1
          BY <3>1, <3>3, MaxOfTwo
        <4> QED
          BY <3>3, <4>1 DEF k
      <3> QED
        BY <3>1, <3>2, <3>3
    <2>3. (by # <<>> => step = by[1]) /\ (by = <<>> => step = Den)
      BY <1>6
    <2>4. step \in Int /\ step \in {Den, -Den} \cup ToSet(by)
      <3> HIDE DEF step
      <3> QED
        BY <1>1, <2>3
    <2> HIDE DEF step, m
    <2>5. ByRight(start, to, by, n, s)
      <3>1. LadderOf(s, start, step, m)
        BY <1>1, <2>2, <2>4, LadderIs
      <3> HIDE DEF s
      <3> QED
        BY <1>1, <1>6, <2>2, <2>3, <2>4, <3>1, LadderRight
    <2> HIDE DEF s
    <2> QED
      BY <2>1, <2>5
  <1>7. \/ to # <<>> /\ by # <<>> /\ n # <<>>
        \/ to # <<>> /\ by = <<>> /\ n = <<1>>
        \/ to # <<>> /\ ~(by # <<>> /\ n # <<>>) /\ n # <<1>>
        \/ to = <<>> /\ n = <<>>
        \/ to = <<>> /\ n # <<>>
    BY <<1>> # <<>>
  <1> HIDE DEF Right
  <1> QED
    BY <1>2, <1>3, <1>4, <1>5, <1>6, <1>7

\* What every call of a function on times has returned, and what a sequence has so far.
Returned(f, z, arg, res, end) ==
  /\ end = "loop" => f = "seq"
  /\ f = "plus" => PeriodRight(z, arg[1], arg[2], res[1])
  /\ f = "floor" => FloorRight(z, arg[1], arg[2], res[1])
  /\ f = "ceiling" => CeilingRight(z, arg[1], arg[2], res[1])
  /\ f = "seq" =>
       CASE end = "loop" -> \E start, to \in Int, p \in Period :
              /\ arg = <<start, to, p, Dist(to, Last(res))>>
              /\ z \in Zone /\ Walk(start, to, res)
         [] end = "done" -> SequenceDone(arg[1], arg[2], res)
         [] end = "throw" -> SequenceRefused(z, arg[1], arg[2], arg[3], res)
  /\ f = "seq_by" /\ end = "done" => ByRight(arg[1], arg[2], arg[3], arg[4], res)
TimeInv == Returned(tf, tz, targ, tres, tpc)

LEMMA EndsKeeps ==
    ASSUME NEW f, NEW z, NEW arg, NEW res, NEW end, Ends(f, z, arg, res, end), Returned(f, z, arg, res, end)
    PROVE  TimeInv'
  <1>1. tf' = f /\ tz' = z /\ targ' = arg /\ tres' = res /\ tpc' = end
    BY DEF Ends
  <1>2. Returned(tf', tz', targ', tres', tpc')
    BY <1>1
  <1> QED
    BY <1>2 DEF TimeInv

\* Calls of other functions.
LEMMA OthersKeep ==
    ASSUME NEW f, NEW z, NEW arg, NEW res, NEW end, Ends(f, z, arg, res, end),
           f \in {"read", "readback", "seq_n"}, end # "loop"
    PROVE  TimeInv'
  <1>1. Returned(f, z, arg, res, end)
    BY DEF Returned
  <1> QED
    BY <1>1, EndsKeeps

LEMMA SeqStepKeeps ==
    ASSUME TimeInv, SeqStep
    PROVE  TimeInv'
  <1>1. tpc = "loop"
    BY DEF SeqStep
  <1>2. tf = "seq" /\ \E start, to \in Int, p \in Period :
              /\ targ = <<start, to, p, Dist(to, Last(tres))>>
              /\ tz \in Zone /\ Walk(start, to, tres)
    BY <1>1 DEF TimeInv, Returned
  <1>3. PICK start \in Int, to \in Int, p \in Period :
              /\ targ = <<start, to, p, Dist(to, Last(tres))>>
              /\ tz \in Zone /\ Walk(start, to, tres)
    BY <1>2
  <1>4. targ[1] = start /\ targ[2] = to /\ targ[3] = p /\ targ[4] = Dist(to, Last(tres)) /\ IsZone(tz)
    BY <1>3, TimesAssumption
  <1> DEFINE next == plus(tz, Last(tres), p)
             past == IF to >= start THEN next > to ELSE next < to
             arg == <<start, to, p, Dist(to, next)>>
             res == Append(tres, next)
             back == Dist(to, next) >= Dist(to, Last(tres))
  <1>5. IF past THEN Ends(tf, tz, targ, tres, "done")
        ELSE Ends(tf, tz, arg, res, IF back THEN "throw" ELSE "loop")
    <2>1. [targ EXCEPT ![4] = Dist(to, next)] = arg
      BY <1>3
    <2>2. IF (IF targ[2] >= targ[1] THEN next > targ[2] ELSE next < targ[2])
          THEN Ends(tf, tz, targ, tres, "done")
          ELSE Ends(tf, tz, [targ EXCEPT ![4] = Dist(targ[2], next)], res,
                    IF Dist(targ[2], next) >= targ[4] THEN "throw" ELSE "loop")
      BY <1>4 DEF SeqStep
    <2> HIDE DEF next, arg, res
    <2> QED
      BY <1>4, <2>1, <2>2
  <1>6. Last(tres) \in Int
    BY <1>3, WalkEnd
  <1>7. next \in Int /\ Dist(to, next) \in Int /\ Dist(to, Last(tres)) \in Int
    <2>1. next \in Int
      BY <1>4, <1>6, PlusInt
    <2> HIDE DEF next
    <2> QED
      BY <1>6, <2>1 DEF Dist
  <1>8. next = plus(tz, Last(tres), p)
    OBVIOUS
  <1>13. arg[1] = start /\ arg[2] = to /\ arg[3] = p
    OBVIOUS
  <1> HIDE DEF next
  <1>9. CASE past
    <2>1. SequenceDone(start, to, tres)
      BY <1>3, WalkDone
    <2>2. Returned(tf, tz, targ, tres, "done")
      BY <1>2, <1>4, <2>1 DEF Returned
    <2>3. Ends(tf, tz, targ, tres, "done")
      BY <1>5, <1>9
    <2> QED
      BY <2>2, <2>3, EndsKeeps
  <1>10. CASE ~past /\ back
    <2>1. SequenceRefused(tz, start, to, p, res)
      BY <1>3, <1>4, <1>8, <1>10, WalkRefused
    <2>2. Ends(tf, tz, arg, res, "throw")
      BY <1>5, <1>10
    <2> HIDE DEF arg, res
    <2>3. Returned(tf, tz, arg, res, "throw")
      BY <1>2, <1>13, <2>1 DEF Returned
    <2> QED
      BY <2>2, <2>3, EndsKeeps
  <1>11. CASE ~past /\ ~back
    <2>1. Dist(to, next) < Dist(to, Last(tres))
      BY <1>7, <1>11
    <2>2. Walk(start, to, res) /\ Last(res) = next
      BY <1>3, <1>7, <1>11, <2>1, WalkOn
    <2>3. Ends(tf, tz, arg, res, "loop")
      BY <1>5, <1>11
    <2> HIDE DEF res
    <2>4. arg = <<start, to, p, Dist(to, Last(res))>>
      BY <2>2
    <2> HIDE DEF arg
    <2>5. Returned(tf, tz, arg, res, "loop")
      BY <1>2, <1>3, <2>2, <2>4 DEF Returned
    <2> QED
      BY <2>3, <2>5, EndsKeeps
  <1> HIDE DEF past, back
  <1> QED
    BY <1>9, <1>10, <1>11

LEMMA TimeStep == TimeInv /\ [TNext]_zvars => TimeInv'
  <1> SUFFICES ASSUME TimeInv, [TNext]_zvars
               PROVE  TimeInv'
    OBVIOUS
  <1>1. CASE UNCHANGED zvars
    BY <1>1 DEF zvars, TimeInv
  <1>2. ASSUME NEW z \in Zone, NEW t \in When, NEW p \in Shift, CallPlus(z, t, p)
        PROVE  TimeInv'
    <2> DEFINE arg == <<t, p>>
               res == <<plus(z, t, p)>>
    <2>1. IsZone(z) /\ t \in Int /\ p \in Period
      BY TimesAssumption
    <2>2. PeriodRight(z, arg[1], arg[2], res[1])
      BY <2>1, PeriodFound
    <2>3. Ends("plus", z, arg, res, "done")
      BY <1>2 DEF CallPlus
    <2> HIDE DEF arg, res
    <2>4. Returned("plus", z, arg, res, "done")
      BY <2>2 DEF Returned
    <2> QED
      BY <2>3, <2>4, EndsKeeps
  <1>3. ASSUME NEW z \in Zone, NEW t \in When, NEW unit \in Units, CallRound(z, t, unit)
        PROVE  TimeInv'
    <2> DEFINE arg == <<t, unit>>
    <2>1. IsZone(z) /\ t \in Int /\ arg[1] = t /\ arg[2] = unit
      BY TimesAssumption
    <2>2. CASE Ends("floor", z, arg, <<floor_tz(z, t, unit)>>, "done")
      <3> DEFINE res == <<floor_tz(z, t, unit)>>
      <3>1. FloorRight(z, t, unit, res[1])
        BY <2>1, FloorFound
      <3> HIDE DEF arg, res
      <3>2. Returned("floor", z, arg, res, "done")
        BY <2>1, <3>1 DEF Returned
      <3> QED
        BY <2>2, <3>2, EndsKeeps DEF res
    <2>3. CASE Ends("ceiling", z, arg, <<ceiling_tz(z, t, unit)>>, "done")
      <3> DEFINE res == <<ceiling_tz(z, t, unit)>>
      <3>1. CeilingRight(z, t, unit, res[1])
        BY <2>1, CeilingFound
      <3> HIDE DEF arg, res
      <3>2. Returned("ceiling", z, arg, res, "done")
        BY <2>1, <3>1 DEF Returned
      <3> QED
        BY <2>3, <3>2, EndsKeeps DEF res
    <2> QED
      BY <1>3, <2>2, <2>3 DEF CallRound
  <1>4. ASSUME NEW z \in Zone, NEW t \in When, CallRead(z, t) \/ CallReadBack(z, t)
        PROVE  TimeInv'
    <2>1. \E f \in {"read", "readback"} : \E arg, local : Read(f, z, arg, local)
      BY <1>4 DEF CallRead, CallReadBack
    <2>2. \E f \in {"read", "readback"} : \E arg, res, end : Ends(f, z, arg, res, end) /\ end # "loop"
      BY <2>1 DEF Read
    <2> QED
      BY <2>2, OthersKeep
  <1>5. ASSUME NEW z \in Zone, NEW t \in When, NEW to \in SeqEnd, NEW p \in Shift, CallSeq(z, t, to, p)
        PROVE  TimeInv'
    <2> DEFINE res == <<t>>
               arg == <<t, to, p, Dist(t, to)>>
    <2>1. t \in Int /\ to \in Int /\ p \in Period
      BY TimesAssumption
    <2>2. Walk(t, to, res) /\ Last(res) = t
      BY <2>1, WalkBegins
    <2>3. Dist(t, to) = Dist(to, t)
      BY <2>1 DEF Dist
    <2>4. Ends("seq", z, arg, res, "loop")
      BY <1>5 DEF CallSeq
    <2> HIDE DEF res
    <2>5. arg = <<t, to, p, Dist(to, Last(res))>>
      BY <2>2, <2>3
    <2> HIDE DEF arg
    <2>6. Returned("seq", z, arg, res, "loop")
      BY <2>1, <2>2, <2>5 DEF Returned
    <2> QED
      BY <2>4, <2>6, EndsKeeps
  <1>6. ASSUME NEW z \in Zone, NEW t \in When, NEW n \in Lengths, NEW p \in Shift, CallSeqN(z, t, p, n)
        PROVE  TimeInv'
    <2>1. \E arg, res : Ends("seq_n", z, arg, res, "done")
      BY <1>6 DEF CallSeqN
    <2> QED
      BY <2>1, OthersKeep
  <1>7. ASSUME NEW start \in SeqEnd, NEW to \in Given(SeqEnd), NEW by \in Given({p.dur : p \in Shift}),
               NEW n \in Given(Lengths), CallSeqBy(start, to, by, n)
        PROVE  TimeInv'
    <2> DEFINE arg == <<start, to, by, n>>
    <2>1. PICK res, end : /\ Ends("seq_by", tz, arg, res, end)
                          /\ end \in {"done", "throw", "trap"}
                          /\ end = "done" => ByRight(start, to, by, n, res)
      BY <1>7, SeqByRight
    <2>2. arg[1] = start /\ arg[2] = to /\ arg[3] = by /\ arg[4] = n
      OBVIOUS
    <2> HIDE DEF arg
    <2>3. Returned("seq_by", tz, arg, res, end)
      BY <2>1, <2>2 DEF Returned
    <2> QED
      BY <2>1, <2>3, EndsKeeps
  <1> QED
    BY <1>1, <1>2, <1>3, <1>4, <1>5, <1>6, <1>7, SeqStepKeeps DEF TNext

\* A period that is added moves the local time by as much, rounding finds the beginning of
\* a unit next to the time, and a sequence goes from its start to its end in steps of one
\* sign, or equal ones, and is refused only if the step does not lead there, in every zone,
\* however its clocks change (tz::plus, floor_tz and ceiling_tz in ztime.cpp, seq in
\* base_funcs.cpp).
THEOREM TimeFunctionsFound == TSpec => []TimeFunctionsAreRight
  <1>1. TInit => TimeInv
    BY DEF TInit, TimeInv, Returned
  <1>2. TimeInv /\ [TNext]_zvars => TimeInv'
    BY TimeStep
  <1>3. ASSUME TimeInv
        PROVE  TimeFunctionsAreRight
    <2>1. PeriodIsAdded
      BY <1>3 DEF TimeInv, Returned, PeriodIsAdded, PeriodRight
    <2>2. RoundingIsRight
      <3>1. CASE tf = "floor"
        BY <1>3, <3>1 DEF TimeInv, Returned, RoundingIsRight, FloorRight, Begins
      <3>2. CASE tf = "ceiling"
        BY <1>3, <3>2 DEF TimeInv, Returned, RoundingIsRight, CeilingRight, Begins, LastMonth, LastMonthOf
      <3> QED
        BY <3>1, <3>2 DEF RoundingIsRight
    <2>3. SequenceIsRight
      <3>1. tf = "seq" /\ tpc = "done" => SequenceDone(targ[1], targ[2], tres)
        BY <1>3 DEF TimeInv, Returned
      <3>2. tf = "seq" /\ tpc = "throw" => SequenceRefused(tz, targ[1], targ[2], targ[3], tres)
        BY <1>3 DEF TimeInv, Returned
      <3>3. tf = "seq_by" /\ tpc = "done" => ByRight(targ[1], targ[2], targ[3], targ[4], tres)
        BY <1>3 DEF TimeInv, Returned
      <3> QED
        BY <3>1, <3>2, <3>3 DEF SequenceIsRight, SequenceDone, SequenceRefused, SeqCalm, ByRight, Steps, Steady
    <2> QED
      BY <2>1, <2>2, <2>3 DEF TimeFunctionsAreRight
  <1> QED
    BY <1>1, <1>2, <1>3, PTL DEF TSpec
=============================================================================
