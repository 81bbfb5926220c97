-------------------------------- MODULE Align -------------------------------
(***************************************************************************)
(* Alignment of a time series onto a vector of times (align, align.idx)    *)
(* and op.zts: timezone/ztime_vector.hpp, align_funcs.hpp, zts.hpp and     *)
(* base_funcs.cpp.                                                         *)
(*                                                                         *)
(* Around each time of `to` there is a window, from the time plus its      *)
(* start to the time plus its end; start and end are periods, added in a   *)
(* zone, or durations, which are periods without months and days in a      *)
(* zone that never changes.  One pass over `from` finds what is in the     *)
(* windows.  Columns are aligned one by one, each like the one modelled.   *)
(***************************************************************************)
EXTENDS Times

CONSTANTS FromTime,   \* the times of the series
          ToTime,     \* the times aligned to
          MaxTo,      \* bound: how many of them
          Window,     \* pairs: start and end
          ManyWindows,\* sequences of starts, and of ends, one for each time of `to`
          AlignZone,  \* the zones periods are added in
          Data        \* the data of a series; as much as it is long is used

\* A series has as many data as times at most.
ASSUME AlignAssumption ==
  /\ FromTime \cup ToTime \subseteq Int /\ IsFiniteSet(FromTime) /\ IsFiniteSet(ToTime) /\ MaxTo \in Nat
  /\ Window \subseteq Period \X Period /\ ManyWindows \subseteq Seq(Period) \X Seq(Period)
  /\ \A z \in AlignZone : IsZone(z)
  /\ \A d \in Data : d \in Seq(Int) /\ Len(d) >= Cardinality(FromTime)

VARIABLES lf,         \* the function or the method
          lz,         \* the zone
          lx, ld,     \* index and data of the series
          ly,         \* the times aligned to
          ls, le,     \* start, end
          lo,         \* what has been found
          lix, liy,   \* positions in lx and ly, counted from 1
          lpc

lvars == <<lf, lz, lx, ld, ly, ls, le, lo, lix, liy, lpc>>

NoDatum == <<>>   \* Global::ZNAN
Methods == {"closest", "mean", "max", "min", "count", "median"}

InOrder(s) == \A i \in 1 .. Len(s) - 1 : s[i] < s[i + 1]
SeriesOf(S) == {s \in UNION {[1 .. n -> S] : n \in 0 .. Cardinality(S)} : InOrder(s)}
TimesTo == UNION {[1 .. n -> ToTime] : n \in 0 .. MaxTo}

\* PseudoVector: one value stands for a vector of it.
At(v, i) == IF Len(v) = 1 THEN v[1] ELSE v[i]
ystart(i) == plus(lz, ly[i], At(ls, i))
yend(i) == plus(lz, ly[i], At(le, i))

LInit == /\ lf = "none" /\ lz = Utc /\ lx = <<>> /\ ld = <<>> /\ ly = <<>> /\ ls = <<>> /\ le = <<>>
         /\ lo = <<>> /\ lix = 1 /\ liy = 1 /\ lpc = "idle"

\* checkVector.
checkVector(to, v) == Len(v) = 1 \/ Len(v) = Len(to)

\* The series is in order; nobody asks whether `to` is.
CallAlign(f) ==
  /\ lpc = "idle" /\ lf' = f
  /\ lz' \in AlignZone /\ lx' \in SeriesOf(FromTime) /\ ly' \in TimesTo
  /\ \E d \in Data : ld' = SubSeq(d, 1, Len(lx'))
  /\ \E w \in {<<<<v[1]>>, <<v[2]>>>> : v \in Window} \cup ManyWindows : ls' = w[1] /\ le' = w[2]
  /\ lpc' = IF checkVector(ly', ls') /\ checkVector(ly', le') THEN "loop" ELSE "throw"
  /\ UNCHANGED <<lo, lix, liy>>

-----------------------------------------------------------------------------
Size == Len(lx)
Found(e, ix) == lo' = Append(lo, e) /\ lix' = ix /\ liy' = liy + 1 /\ UNCHANGED lpc
AlignSame == UNCHANGED <<lf, lz, lx, ld, ly, ls, le>>
Turn(S) == lpc = "loop" /\ lf \in S /\ liy <= Len(ly) /\ AlignSame

\* The first position from ix on that is not before t.
NotBefore(ix, t) == CHOOSE i \in ix .. Max({Size + 1, ix}) : /\ i > Size \/ lx[i] >= t
                                                 /\ \A j \in ix .. i - 1 : lx[j] < t

\* Mutant: the first that is not farther ends the search backwards.
Closest_far(ix) == Max({i \in ix .. Size : lx[i] <= yend(liy)})

\* On from ix while the next one is in the window and nearer.
Closest(ix) ==
  CHOOSE i \in ix .. Size :
    /\ ~(i < Size /\ lx[i + 1] <= yend(liy) /\ Dist(lx[i], ly[liy]) > Dist(lx[i + 1], ly[liy]))
    /\ \A j \in ix .. i - 1 : lx[j + 1] <= yend(liy) /\ Dist(lx[j], ly[liy]) > Dist(lx[j + 1], ly[liy])

align_closest ==
  /\ Turn({"closest"})
  /\ LET ix == NotBefore(lix, ystart(liy))
     IN  IF ix > Size \/ lx[ix] > yend(liy) THEN Found(NoDatum, ix)
         ELSE Found(ld[Closest(ix)], Closest(ix))

\* The loop looks at the element behind the last, which throws; in a series without
\* elements it is not noticed, and what is there does not matter.
align_idx ==
  /\ Turn({"align.idx"})
  /\ LET ix == NotBefore(lix, ystart(liy))
     IN  IF ix > Size /\ Size > 0 THEN lpc' = "throw" /\ UNCHANGED <<lo, lix, liy>>
         ELSE IF ix > Size THEN Found(NoDatum, 1)
         ELSE IF lx[ix] > yend(liy) THEN Found(NoDatum, ix)
         ELSE Found(Closest(ix), Closest(ix))

-----------------------------------------------------------------------------
(* The functions of the data in a window.                                  *)

\* A priority queue is the ascending sequence of what is in it.
AtMost(s, v) == Cardinality({i \in 1 .. Len(s) : s[i] <= v})
push(s, v) == InsertAt(s, AtMost(s, v) + 1, v)

\* Mutant: the element is not compared with the top that it displaces.
MedianTurn_push(h, v) ==
  IF Len(h[1]) <= Len(h[2]) THEN <<push(h[1], v), h[2]>> ELSE <<h[1], push(h[2], v)>>

\* median_element: the smaller half and the larger half, sorted; the tops are the last of
\* one and the first of the other.
MedianTurn(h, v) ==
  LET left == h[1]
      right == h[2]
  IN  IF Len(left) = Len(right)
      THEN IF left = <<>> \/ v < Last(left) THEN <<push(left, v), right>>
           ELSE <<left, push(right, v)>>
      ELSE IF Len(left) < Len(right)
      THEN IF v < Head(right) THEN <<push(left, v), right>>
           ELSE <<push(left, Head(right)), push(Tail(right), v)>>
      ELSE IF v > Last(left) THEN <<left, push(right, v)>>
           ELSE <<push(Front(left), v), push(right, Last(left))>>

\* A mean or a median is its numerator and denominator.
Of(f, s) ==
  LET h == FoldLeft(MedianTurn, <<<<>>, <<>>>>, s)
  IN  CASE f = "count" -> <<Len(s)>>
        [] f # "count" /\ s = <<>> -> NoDatum
        [] f = "mean" /\ s # <<>> -> <<FoldLeft(LAMBDA a, b : a + b, 0, s), Len(s)>>
        [] f = "max" /\ s # <<>> -> <<Max(ToSet(s))>>
        [] f = "min" /\ s # <<>> -> <<Min(ToSet(s))>>
        [] f = "median" /\ s # <<>> ->
             IF Len(h[1]) = Len(h[2]) THEN <<Last(h[1]) + Head(h[2]), 2>>
             ELSE IF Len(h[1]) < Len(h[2]) THEN <<2 * Head(h[2]), 2>> ELSE <<2 * Last(h[1]), 2>>

\* The end of the window is not in it.  The next window begins its search where this
\* one began.
align_func ==
  /\ Turn(Methods \ {"closest"})
  /\ LET ix == NotBefore(lix, ystart(liy))
     IN  IF ix > Size \/ lx[ix] >= yend(liy) THEN Found(Of(lf, <<>>), ix)
         ELSE Found(Of(lf, SubSeq(ld, ix, NotBefore(ix, yend(liy)) - 1)), ix)

\* The series that is returned must be in order.
AlignEnds ==
  /\ lpc = "loop" /\ lf \in Methods \cup {"align.idx"} /\ liy > Len(ly) /\ AlignSame
  /\ lpc' = IF lf = "align.idx" \/ InOrder(ly) THEN "done" ELSE "throw"
  /\ UNCHANGED <<lo, lix, liy>>

-----------------------------------------------------------------------------
(* op.zts: the elements of y up to each time of x are combined with its    *)
(* datum.  ly is y's index, lo its data, liy where the elements that are   *)
(* left begin.                                                             *)

CallOp ==
  /\ lpc = "idle" /\ lf' = "op" /\ lx' \in SeriesOf(FromTime) /\ ly' \in SeriesOf(ToTime)
  /\ \E d \in Data : ld' = SubSeq(d, 1, Len(lx'))
  /\ lo' = [i \in 1 .. Len(ly') |-> <<i>>] \o <<>>
  /\ lpc' = "op" /\ UNCHANGED <<lz, ls, le, lix, liy>>

\* Mutant: the elements begin again at the first.
OpTurn_again ==
  LET to == CHOOSE i \in liy .. Len(ly) + 1 : /\ i > Len(ly) \/ ly[i] >= lx[lix]
                                              /\ \A j \in liy .. i - 1 : ly[j] < lx[lix]
  IN  /\ lpc = "op" /\ lix <= Size /\ lix' = lix + 1 /\ AlignSame /\ UNCHANGED lpc
      /\ IF to > Len(ly) THEN UNCHANGED <<lo, liy>>
         ELSE lo' = [i \in 1 .. Len(ly) |-> IF i < to THEN Append(lo[i], ld[lix]) ELSE lo[i]] /\ liy' = liy

OpTurn ==
  LET to == CHOOSE i \in liy .. Len(ly) + 1 : /\ i > Len(ly) \/ ly[i] >= lx[lix]
                                              /\ \A j \in liy .. i - 1 : ly[j] < lx[lix]
  IN  /\ lpc = "op" /\ lix <= Size /\ lix' = lix + 1 /\ AlignSame /\ UNCHANGED lpc
      /\ IF to > Len(ly) THEN UNCHANGED <<lo, liy>>
         ELSE lo' = [i \in 1 .. Len(ly) |-> IF liy <= i /\ i < to THEN Append(lo[i], ld[lix]) ELSE lo[i]] /\ liy' = to

OpEnds == lpc = "op" /\ lix > Size /\ lpc' = "done" /\ AlignSame /\ UNCHANGED <<lo, lix, liy>>

LNext == \/ \E f \in Methods \cup {"align.idx"} : CallAlign(f)
         \/ CallOp
         \/ align_closest \/ align_idx \/ align_func \/ AlignEnds
         \/ OpTurn \/ OpEnds
LSpec == LInit /\ [][LNext]_lvars

-----------------------------------------------------------------------------
(* Properties.                                                             *)

\* Windows that begin and end in the order of the times they are around.
WindowsAscend ==
  \A i \in 1 .. Len(ly) - 1 : ly[i] <= ly[i + 1] /\ ystart(i) <= ystart(i + 1) /\ yend(i) <= yend(i + 1)

InClosed(i) == {j \in 1 .. Size : ystart(i) <= lx[j] /\ lx[j] <= yend(i)}
Nearest(S, t) ==
  IF S = {} THEN 0
  ELSE CHOOSE j \in S : \A k \in S \ {j} : \/ Dist(lx[j], t) < Dist(lx[k], t)
                                           \/ Dist(lx[j], t) = Dist(lx[k], t) /\ j < k

\* align by "closest" and align.idx find the nearest element of every window, the
\* earlier of two, and nothing where a window is empty, although the pass never goes
\* back; and align.idx refuses only where a window begins behind the series.
ClosestIsRight ==
  /\ (lf \in {"closest", "align.idx"} /\ lpc = "done" /\ WindowsAscend) =>
       \A i \in 1 .. Len(ly) :
         LET n == Nearest(InClosed(i), ly[i])
         IN  lo[i] = IF n = 0 THEN NoDatum ELSE IF lf = "closest" THEN ld[n] ELSE n
  /\ (lf = "align.idx" /\ lpc = "throw" /\ checkVector(ly, ls) /\ checkVector(ly, le)) =>
       \E i \in 1 .. Len(ly) : ystart(i) > Last(lx)

\* The data in a window, in the order of their times; the k-th smallest of them; what a
\* median is.
InHalfOpen(i) == {j \in 1 .. Size : ystart(i) <= lx[j] /\ lx[j] < yend(i)}
DataAt(W) == [k \in 1 .. Cardinality(W) |-> ld[CHOOSE j \in W : Cardinality({l \in W : l < j}) = k - 1]]
Ranked(s, k) == CHOOSE v \in ToSet(s) : AtMost(s, v - 1) < k /\ k <= AtMost(s, v)
MedianOf(s) == Ranked(s, (Len(s) + 1) \div 2) + Ranked(s, (Len(s) \div 2) + 1)

\* The other methods see all elements of every window and no other, windows that overlap,
\* are empty or lie in gaps included.
WindowsAreRight ==
  (lf \in Methods \ {"closest"} /\ lpc = "done" /\ WindowsAscend) =>
    \A i \in 1 .. Len(ly) : lo[i] = Of(lf, DataAt(InHalfOpen(i)))

\* A median that is kept between two heaps is the middle element of the sorted window, or
\* the mean of the two.
MediansAreRight ==
  (lf = "median" /\ lpc = "done" /\ WindowsAscend) =>
    \A i \in 1 .. Len(ly) :
      \E s \in {DataAt(InHalfOpen(i))} : lo[i] = IF s = <<>> THEN NoDatum ELSE <<MedianOf(s), 2>>

\* op.zts combines an element of y with one datum of x, that of the first time after it;
\* with none if there is no such time, or if all of y is before it.
OpIsRight ==
  lf = "op" /\ lpc = "done" =>
    \A i \in 1 .. Len(ly) :
      LET after == {j \in 1 .. Size : lx[j] > ly[i]}
      IN  lo[i] = IF after = {} \/ lx[Min(after)] > Last(ly) THEN <<i>> ELSE <<i, ld[Min(after)]>>

\* The one pass of align, align.idx and op.zts over two vectors of times finds for each
\* time what its window, or the time after it, says.
AlignmentIsRight == ClosestIsRight /\ WindowsAreRight /\ OpIsRight
=============================================================================
