---------------------------- MODULE IntervalOps -----------------------------
(***************************************************************************)
(* Intersection, union and difference of two vectors of intervals          *)
(* (timezone/vector_set_time.hpp).  A vector stands for the points that    *)
(* its intervals hold.                                                     *)
(***************************************************************************)
EXTENDS Interval, Sequences

CONSTANTS Instants,  \* the times at which intervals start and end, numbers
          MaxIvls    \* bound: length of a vector

ASSUME IntervalAssumption == Instants \subseteq Nat /\ MaxIvls \in Nat

VARIABLES
  fun,        \* the function called
  a, b,       \* its arguments, sorted
  ia, ib,     \* positions in them
  from,       \* <<start, sopen>> of the interval being built
  out, run

ivars == <<fun, a, b, ia, ib, from, out, run>>

Built(bound, e) == Interval(bound[1], e[1], bound[2], e[2])

\* Vectors as sorting leaves them.
Sorted == {v \in UNION {[1 .. n -> Intervals(Instants)] : n \in 0 .. MaxIvls} :
             \A i \in 1 .. Len(v) - 1 : ~interval_lt(v[i + 1], v[i])}

IInit ==
  /\ fun = "none" /\ a = <<>> /\ b = <<>>
  /\ ia = 1 /\ ib = 1 /\ from = <<0, FALSE>> /\ out = <<>>
  /\ run = "idle"

InA == ia <= Len(a)
InB == ib <= Len(b)
A == a[ia]
B == b[ib]

\* The interval that starts first gives the start of a union; a difference
\* starts with that of the first interval of a.
Enter(f) ==
  /\ run = "idle"
  /\ fun' = f
  /\ a' \in Sorted /\ b' \in Sorted
  /\ run' = IF a' # <<>> /\ b' # <<>> THEN "loop" ELSE "rest"
  /\ from' = CASE f = "setdiff" /\ a' # <<>> -> Start(a'[1])
               [] f = "union" /\ a' # <<>> /\ b' # <<>> ->
                    IF start_lt(Start(a'[1]), Start(b'[1])) THEN Start(a'[1]) ELSE Start(b'[1])
               [] OTHER -> from
  /\ UNCHANGED <<ia, ib, out>>

Fixed == UNCHANGED <<fun, a, b>>
Emit(i) == out' = Append(out, i)
Advance(na, nb) == ia' = ia + na /\ ib' = ib + nb

-----------------------------------------------------------------------------
\* An interval that starts where or after the other ends is passed over; it is
\* the one of a that is passed, in both cases.
PassedByIntersect == A.s >= B.e \/ B.s >= A.e

IntersectStep ==
  /\ run = "loop" /\ fun = "intersect" /\ InA /\ InB /\ Fixed
  /\ LET lo == IF start_gt(Start(A), Start(B)) THEN Start(A) ELSE Start(B)
     IN  IF PassedByIntersect THEN Advance(1, 0) /\ UNCHANGED out
         ELSE IF end_lt(End(A), End(B))
         THEN Emit(Built(lo, End(A))) /\ Advance(1, 0)
         ELSE Emit(Built(lo, End(B))) /\ Advance(0, 1)
  /\ UNCHANGED <<from, run>>

-----------------------------------------------------------------------------
\* i ends inside j: it reaches j's start and not beyond j's end.
EndsIn(i, j) == ~end_lt_start(i, j) /\ ~end_gt(End(i), End(j))

\* The next start takes over the smaller time, but not whether it is open.
NextStart(na, nb) ==
  from' = IF na <= Len(a) /\ nb <= Len(b)
          THEN <<IF a[na].s < b[nb].s THEN a[na].s ELSE b[nb].s, from[2]>>
          ELSE from

UnionStep ==
  /\ run = "loop" /\ fun = "union" /\ Fixed
  /\ \/ /\ EndsIn(A, B)
        /\ IF ia = Len(a)
           THEN Emit(Built(from, End(B))) /\ Advance(1, 1) /\ run' = "rest"
           ELSE Advance(1, 0) /\ UNCHANGED <<out, run>>
        /\ UNCHANGED from
     \/ /\ ~EndsIn(A, B) /\ EndsIn(B, A)
        /\ IF ib = Len(b)
           THEN Emit(Built(from, End(A))) /\ Advance(1, 1) /\ run' = "rest"
           ELSE Advance(0, 1) /\ UNCHANGED <<out, run>>
        /\ UNCHANGED from
     \/ /\ ~EndsIn(A, B) /\ ~EndsIn(B, A)
        /\ LET first == end_lt(End(A), End(B))
               na == IF first THEN ia + 1 ELSE ia
               nb == IF first THEN ib ELSE ib + 1
           IN  /\ Emit(Built(from, IF first THEN End(A) ELSE End(B)))
               /\ ia' = na /\ ib' = nb
               /\ NextStart(na, nb)
               /\ run' = IF na <= Len(a) /\ nb <= Len(b) THEN "loop" ELSE "rest"

-----------------------------------------------------------------------------
\* The next interval of a, or the end of a.
NextA ==
  /\ Advance(1, 0)
  /\ IF ia = Len(a) THEN run' = "rest" /\ UNCHANGED from
     ELSE from' = Start(a[ia + 1]) /\ UNCHANGED run

\* Mutant: what remains begins with the interval taken away.
BehindStart == from' = <<B.s, ~B.eopen>> /\ Advance(0, 1) /\ UNCHANGED run

\* What remains of A begins behind B, open where B is closed.
Behind == from' = <<B.e, ~B.eopen>> /\ Advance(0, 1) /\ UNCHANGED run

SetdiffStep ==
  /\ run = "loop" /\ fun = "setdiff" /\ InA /\ InB /\ Fixed
  /\ CASE end_lt_start(A, B) ->
            Emit(Built(from, End(A))) /\ NextA
       [] ~end_lt_start(A, B) /\ start_lt(End(B), from) ->
            Advance(0, 1) /\ UNCHANGED <<out, from, run>>
       [] ~end_lt_start(A, B) /\ ~start_lt(End(B), from) /\ start_lt(from, Start(B)) ->
            /\ Emit(Built(from, <<B.s, ~B.sopen>>))
            /\ IF end_gt(End(A), End(B)) THEN Behind ELSE NextA
       [] OTHER ->
            /\ UNCHANGED out
            /\ IF ~start_lt(from, Start(B)) /\ ~end_lt(End(B), End(A)) THEN NextA ELSE Behind

-----------------------------------------------------------------------------
LoopEnds ==
  /\ run = "loop" /\ ~(InA /\ InB)
  /\ run' = "rest"
  /\ UNCHANGED <<fun, a, b, ia, ib, from, out>>

\* What is left of a (a difference: beginning at from), or of b.
Rest ==
  /\ run = "rest" /\ Fixed
  /\ run' = "done"
  /\ out' = out \o
       CASE fun = "union"   -> SubSeq(a, ia, Len(a)) \o SubSeq(b, ib, Len(b))
         [] fun = "setdiff" -> IF InA THEN <<Built(from, End(A))>> \o SubSeq(a, ia + 1, Len(a))
                               ELSE <<>>
         [] OTHER           -> <<>>
  /\ UNCHANGED <<ia, ib, from>>

INext == \/ \E f \in {"intersect", "union", "setdiff"} : Enter(f)
         \/ IntersectStep \/ UnionStep \/ SetdiffStep \/ LoopEnds \/ Rest

ISpec == IInit /\ [][INext]_ivars

-----------------------------------------------------------------------------
(* Properties.                                                             *)

Cover(v) == UNION {Points(v[k]) : k \in 1 .. Len(v)}
Between(S) == {p \in S : p % 2 = 1}
Combined == CASE fun = "intersect" -> Cover(a) \cap Cover(b)
              [] fun = "union"     -> Cover(a) \cup Cover(b)
              [] fun = "setdiff"   -> Cover(a) \ Cover(b)

Inhabited(v) == \A k \in 1 .. Len(v) : Points(v[k]) # {}
Disjoint(v)  == \A k \in 1 .. Len(v) - 1 : Points(v[k]) \cap Points(v[k + 1]) = {}
Apart(v)     == \A k \in 1 .. Len(v) - 1 : v[k].e < v[k + 1].s
Closed(v)    == \A k \in 1 .. Len(v) : ~v[k].sopen /\ ~v[k].eopen

\* union and setdiff of two sets of intervals, each given by disjoint intervals
\* that hold something, cover what lies between two times exactly when they should,
\* however the intervals overlap, nest or touch across the two vectors.  The times
\* themselves come out right as well when all the intervals are closed and those of
\* one vector do not touch.
CombinationIsRight ==
  run = "done" /\ fun \in {"union", "setdiff"} =>
    /\ Inhabited(a) /\ Inhabited(b) /\ Disjoint(a) /\ Disjoint(b)
         => Between(Cover(out)) = Between(Combined)
    /\ Closed(a) /\ Closed(b) /\ Apart(a) /\ (fun = "union" => Apart(b))
         => Cover(out) = Combined

\* intersect never returns a time that is not in both; as long as the second vector
\* has no second interval it also loses nothing of what lies between two times.
IntersectionIsWithin ==
  run = "done" /\ fun = "intersect" =>
    /\ Cover(out) \subseteq Combined
    /\ Len(b) < 2 => Between(Combined) \subseteq Cover(out)

\* The one pass of vector_set_time.hpp over two vectors of intervals computes their
\* union, difference and intersection.
IntervalSetsAreRight == CombinationIsRight /\ IntersectionIsWithin
=============================================================================
