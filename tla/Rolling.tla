------------------------------ MODULE Rolling -------------------------------
(***************************************************************************)
(* Functions on the columns of an array (array_ops.hpp) and the built-in   *)
(* functions that call them (base_funcs_roll.cpp): rolling windows,        *)
(* shifts, cumulative functions and aggregates.  All but rollcov work in   *)
(* place, on a copy or, when the argument is a reference, on the           *)
(* variable's own array.                                                   *)
(*                                                                         *)
(* An array is the sequence of its columns; rows count from 0.  Numbers    *)
(* are integers, ZNAN is the missing value, and a mean or a variance is    *)
(* its numerator and denominator: rounding is left out.                    *)
(***************************************************************************)
EXTENDS Integers, SequencesExt

CONSTANTS ZNAN,          \* Global::ZNAN
          Numbers,       \* the elements that are not missing
          Shapes,        \* pairs: rows and columns of an argument
          CovRows,       \* bound: rows of the arguments of rollcov
          Shifts,        \* the n of move, rotate, diff and locf
          Huge           \* numeric_limits<double>::max()

ASSUME RollingAssumption ==
  /\ Numbers \subseteq Int /\ Shifts \subseteq Int
  /\ Shapes \subseteq (Nat \ {0}) \X (Nat \ {0}) /\ CovRows \in Nat \ {0}
  /\ Huge \in Int /\ \A v \in Numbers : v < Huge

VARIABLES rf,            \* the function called
          rwin, rvalid,  \* window and nbvalid; rwin is also the n of a shift
          rx, ry,        \* the arguments
          ra,            \* the array being computed
          rcol, row,     \* where the loops are
          rs,            \* what the loop carries from row to row
          rpc

rvars == <<rf, rwin, rvalid, rx, ry, ra, rcol, row, rs, rpc>>

Ring == {"rollmean", "rollvar", "rollcov"}
Extrema == {"rollmin", "rollmax"}
ShiftFuncs == {"locf", "move", "rotate", "diff"}
CumFuncs == {"cumsum", "cumprod", "cummax", "cummin"}

isnan(v) == v = ZNAN
Rows(a) == Len(a[1])
Matrices(rows, cols) == [1 .. cols -> [1 .. rows -> Numbers \cup {ZNAN}]]

\* The smallest power of two that holds the window.
RingSize(w) == CHOOSE s \in {2 ^ k : k \in 0 .. w} : s >= w /\ \A k \in 0 .. w : 2 ^ k >= w => s <= 2 ^ k
Slot(r) == (r % RingSize(rwin)) + 1

NoRing == [nbv |-> 0, sum |-> <<0, 0, 0>>, ring |-> <<>>, q |-> <<>>, front |-> 1, back |-> 1]

\* The loop begins: rings of zeros, and an array of pairs of zeros for the extrema.
Fresh(f, w, rows) ==
  [NoRing EXCEPT !.ring = IF f \in Ring THEN [s \in 1 .. RingSize(w) |-> <<0, 0, 0>>] \o <<>> ELSE <<>>,
                 !.q    = IF f \in Extrema THEN [s \in 1 .. rows |-> <<0, 0>>] \o <<>> ELSE <<>>]

\* A column begins: neither the ring nor the pairs of the last one are cleared.
NextColumn(s) == [s EXCEPT !.nbv = 0, !.sum = <<0, 0, 0>>, !.front = 1, !.back = 1]

RInit ==
  /\ rf = "none" /\ rwin = 0 /\ rvalid = 0 /\ rx = <<>> /\ ry = <<>> /\ ra = <<>>
  /\ rcol = 1 /\ row = 0 /\ rs = NoRing /\ rpc = "idle"

\* checkParams: an nbvalid of 1 is refused.
checkParams(rows, w, n) == w > 0 /\ w <= rows /\ n > 1 /\ n <= w

CallRoll(f) ==
  /\ rpc = "idle" /\ f \in (Ring \cup Extrema) \ {"rollcov"}
  /\ \E d \in Shapes : \E w \in 0 .. d[1] + 1 : \E n \in 1 .. w + 1 :
       /\ rwin' = w /\ rvalid' = n
       /\ rx' \in Matrices(d[1], d[2])
       /\ rpc' = IF checkParams(d[1], w, n) THEN "loop" ELSE "throw"
       /\ rs' = IF checkParams(d[1], w, n) THEN Fresh(f, w, d[1]) ELSE NoRing
  /\ ra' = rx' /\ ry' = <<>> /\ rf' = f /\ UNCHANGED <<rcol, row>>

\* Both arguments have their parameters checked; the result grows row by row.
CallCov ==
  /\ rpc = "idle" /\ rf' = "rollcov"
  /\ \E k, l \in 1 .. CovRows, w \in 2 .. CovRows, n \in 2 .. CovRows :
       /\ n <= w
       /\ rwin' = w /\ rvalid' = n
       /\ rx' \in Matrices(k, 1) /\ ry' \in Matrices(l, IF l = k /\ k < CovRows THEN 2 ELSE 1)
       /\ rpc' = IF checkParams(k, w, n) /\ checkParams(l, w, n) /\ k = l THEN "loop" ELSE "throw"
       /\ rs' = IF rpc' = "loop" THEN Fresh("rollcov", w, k) ELSE NoRing
  /\ ra' = [i \in 1 .. Len(ry') |-> <<>>] \o <<>> /\ UNCHANGED <<rcol, row>>

-----------------------------------------------------------------------------
(* The ring functions.  What leaves the window is taken to be what the slot*)
(* of the new row holds.                                                   *)

\* nbv is unsigned: below zero it is larger than every nbvalid.
Enough(nbv) == nbv < 0 \/ nbv >= rvalid

PlusAll(s, t, sign) == [i \in 1 .. 3 |-> s[i] + sign * t[i]]

\* Mutant: the slot is read after the new value has been put into it.
RingRow_late(u, v) ==
  LET valid == ~isnan(u) /\ ~isnan(v)
      new   == IF valid THEN <<u, v, u * v>> ELSE <<0, 0, 0>>
      gone  == row >= rwin
  IN  [rs EXCEPT !.ring = IF valid THEN [@ EXCEPT ![Slot(row)] = new] ELSE @,
                 !.sum  = PlusAll(PlusAll(@, new, 1), IF gone THEN new ELSE <<0, 0, 0>>, -1),
                 !.nbv  = @ + (IF valid THEN 1 ELSE 0) - (IF gone THEN 1 ELSE 0)]

\* One row with the values u and v: the sums of u, v and u v.
RingRow(u, v) ==
  LET out   == rs.ring[Slot(row)]
      valid == ~isnan(u) /\ ~isnan(v)
      new   == IF valid THEN <<u, v, u * v>> ELSE <<0, 0, 0>>
      gone  == row >= rwin
  IN  [rs EXCEPT !.ring = IF valid THEN [@ EXCEPT ![Slot(row)] = new] ELSE @,
                 !.sum  = PlusAll(PlusAll(@, new, 1), IF gone THEN out ELSE <<0, 0, 0>>, -1),
                 !.nbv  = @ + (IF valid THEN 1 ELSE 0) - (IF gone THEN 1 ELSE 0)]

Fraction(n, d) == <<n, d>>
\* (Sxy - Sx Sy / n) / (n - 1)
Moment(s, n) == Fraction(n * s[3] - s[1] * s[2], n * (n - 1))
Clamped(q) == IF q[1] < 0 /\ q[2] > 0 THEN Fraction(0, q[2]) ELSE q

\* The loops go on: next row, next column, or the end.
Go(s, rows, cols) ==
  IF row + 1 < rows THEN row' = row + 1 /\ rcol' = rcol /\ rpc' = rpc /\ rs' = s
  ELSE /\ row' = 0 /\ rs' = NextColumn(s)
       /\ IF rcol < cols THEN rcol' = rcol + 1 /\ rpc' = rpc ELSE rcol' = 1 /\ rpc' = "done"

\* The three write the result of a row and read none of them again.
rollmean ==
  /\ rpc = "loop" /\ rf = "rollmean"
  /\ LET v == rx[rcol][row + 1]
         s == RingRow(v, v)
     IN  /\ ra' = [ra EXCEPT ![rcol][row + 1] = IF Enough(s.nbv) THEN Fraction(s.sum[1], rwin) ELSE ZNAN]
         /\ Go(s, Rows(rx), Len(rx))
  /\ UNCHANGED <<rf, rwin, rvalid, rx, ry>>

rollvar ==
  /\ rpc = "loop" /\ rf = "rollvar"
  /\ LET v == rx[rcol][row + 1]
         s == RingRow(v, v)
     IN  /\ ra' = [ra EXCEPT ![rcol][row + 1] = IF Enough(s.nbv) THEN Clamped(Moment(s.sum, s.nbv)) ELSE ZNAN]
         /\ Go(s, Rows(rx), Len(rx))
  /\ UNCHANGED <<rf, rwin, rvalid, rx, ry>>

rollcov ==
  /\ rpc = "loop" /\ rf = "rollcov"
  /\ LET s == RingRow(rx[1][row + 1], ry[rcol][row + 1])
     IN  /\ ra' = [ra EXCEPT ![rcol] = Append(@, IF Enough(s.nbv) THEN Moment(s.sum, s.nbv) ELSE ZNAN)]
         /\ Go(s, Rows(rx), Len(ry))
  /\ UNCHANGED <<rf, rwin, rvalid, rx, ry>>

-----------------------------------------------------------------------------
(* rollmin and rollmax keep the candidates with their rows in q, between   *)
(* front and back.  The row that leaves the window is looked up in the     *)
(* array that is being overwritten.                                        *)

Beats(u, v) == IF rf = "rollmin" THEN u >= v ELSE u <= v   \* v makes u useless

\* The candidates behind are dropped from where all of them are beaten.
Popped(s, v) ==
  CHOOSE k \in s.front .. s.back :
    /\ \A j \in k .. s.back - 1 : Beats(s.q[j][1], v)
    /\ k > s.front => ~Beats(s.q[k - 1][1], v)

\* Mutant: a candidate that has been beaten is kept.
PushCandidate_keep(s, v) ==
  IF isnan(v) THEN s
  ELSE [s EXCEPT !.q = [@ EXCEPT ![s.back] = <<v, row>>], !.back = @ + 1, !.nbv = @ + 1]

PushCandidate(s, v) ==
  IF isnan(v) THEN s
  ELSE LET k == IF s.back > s.front THEN Popped(s, v) ELSE s.back
       IN  [s EXCEPT !.q = [@ EXCEPT ![k] = <<v, row>>], !.back = k + 1, !.nbv = @ + 1]

Expire(s) ==
  IF row >= rwin /\ ~isnan(ra[rcol][row - rwin + 1]) THEN [s EXCEPT !.nbv = @ - 1] ELSE s

\* The first pair from front on that is in the window; the array of pairs may have
\* none, the loop then reads behind it.
InWindow(s) == {j \in s.front .. Len(s.q) : row < rwin \/ s.q[j][2] > row - rwin}
FirstIn(S) == CHOOSE j \in S : \A k \in S : j <= k

rollextremum ==
  /\ rpc = "loop" /\ rf \in Extrema
  /\ LET s == Expire(PushCandidate(rs, ra[rcol][row + 1]))
     IN  CASE ~Enough(s.nbv) ->
                ra' = [ra EXCEPT ![rcol][row + 1] = ZNAN] /\ Go(s, Rows(rx), Len(rx))
           [] Enough(s.nbv) /\ InWindow(s) # {} ->
                LET t == [s EXCEPT !.front = FirstIn(InWindow(s))]
                IN  ra' = [ra EXCEPT ![rcol][row + 1] = t.q[t.front][1]] /\ Go(t, Rows(rx), Len(rx))
           [] OTHER ->
                rpc' = "undefined" /\ UNCHANGED <<ra, rcol, row, rs>>
  /\ UNCHANGED <<rf, rwin, rvalid, rx, ry>>

-----------------------------------------------------------------------------
(* Loops that assign one element after the other: a sequence of            *)
(* assignments that stops at the first that is out of bounds.  An          *)
(* assignment is the row and what is put there, computed from the column   *)
(* as it is by then.                                                       *)

Up(from, to)   == [i \in 1 .. (IF to >= from THEN to - from + 1 ELSE 0) |-> from + i - 1]
Down(from, to) == [i \in 1 .. (IF from >= to THEN from - to + 1 ELSE 0) |-> from - i + 1]

Column(c) == [e |-> c, threw |-> FALSE]
\* F(e, r): what row r gets; from: the row it reads, r itself if it reads none.
Assign(c, rows, F(_, _), From(_)) ==
  FoldLeft(LAMBDA s, r :
             IF s.threw \/ r >= Len(s.e) \/ From(r) >= Len(s.e)
             THEN [s EXCEPT !.threw = TRUE]
             ELSE [s EXCEPT !.e = [@ EXCEPT ![r + 1] = F(s.e, r)]],
           c, rows)

Minus(u, v) == IF isnan(u) \/ isnan(v) THEN ZNAN ELSE u - v
Self(r) == r
Missing(c, rows) == Assign(c, rows, LAMBDA e, r : ZNAN, Self)

\* For a negative n the number of rows to move wraps when it is too large: the loop
\* then begins and throws.
Kept(e, n) == IF Len(e) + n >= 0 THEN Len(e) + n - 1 ELSE Len(e)

\* Mutant: the rows are moved down from the first one.
move_up(c, n) ==
  LET e == c.e
      F(t, r) == t[r - n + 1]
      From(r) == r - n
  IN  IF n > 0
      THEN Missing(Assign(c, Up(n, Len(e) - 1), F, From), Up(0, n - 1))
      ELSE Missing(Assign(c, Up(0, Kept(e, n)), F, From), Up(Len(e) + n, Len(e) - 1))

move_inplace(c, n) ==
  LET e == c.e
      F(t, r) == t[r - n + 1]
      From(r) == r - n
  IN  IF n > 0
      THEN Missing(Assign(c, Down(Len(e) - 1, n), F, From), Up(0, n - 1))
      ELSE Missing(Assign(c, Up(0, Kept(e, n)), F, From), Up(Len(e) + n, Len(e) - 1))

diff_inplace(c, n) ==
  LET e == c.e
      F(t, r) == Minus(t[r + 1], t[r - n + 1])
      From(r) == r - n
  IN  IF n > 0
      THEN Missing(Assign(c, Down(Len(e) - 1, n), F, From), Up(0, n - 1))
      ELSE Missing(Assign(c, Up(0, Kept(e, n)), F, From), Up(Len(e) + n, Len(e) - 1))

\* The rows that fall out are kept in v; when n is larger than the column nothing is
\* kept and v has zeros.
rotate_inplace(c, n) ==
  LET e == c.e
      F(t, r) == t[r - n + 1]
      From(r) == r - n
      Out(r) == IF n > Len(e) THEN 0 ELSE e[Len(e) - n + r + 1]
      In(r) == e[r - (Len(e) + n) + 1]
  IN  IF n > 0
      THEN Assign(Assign(c, Down(Len(e) - 1, n), F, From),
                  Up(0, n - 1), LAMBDA t, r : Out(r), Self)
      ELSE IF -n > Len(e) THEN [c EXCEPT !.threw = TRUE]
      ELSE Assign(Assign(c, Up(0, Len(e) + n - 1), F, From),
                  Up(Len(e) + n, Len(e) - 1), LAMBDA t, r : In(r), Self)

\* last: the row before the missing ones, -1 when the last row was not missing.
locf_inplace(c, n) ==
  LET Step(s, r) ==
        IF ~isnan(s.e[r + 1]) THEN [s EXCEPT !.last = -1]
        ELSE LET last == IF s.last < 0 THEN r - 1 ELSE s.last
             IN  [last |-> last,
                  e    |-> [s.e EXCEPT ![r + 1] = IF n < 0 \/ r - last <= n THEN s.e[r] ELSE ZNAN]]
  IN  Column(FoldLeft(Step, [last |-> -1, e |-> c.e], Up(1, Len(c.e) - 1)).e)

Shifted(f, c, n) ==
  CASE f = "move"   -> move_inplace(c, n)
    [] f = "rotate" -> rotate_inplace(c, n)
    [] f = "diff"   -> diff_inplace(c, n)
    [] f = "locf"   -> locf_inplace(c, n)

\* std::plus, std::multiplies, and ztsdb::max and min, which hand on a missing value.
F2(f, u, v) ==
  IF isnan(u) \/ isnan(v) THEN ZNAN
  ELSE CASE f = "cumsum"  -> u + v
         [] f = "cumprod" -> u * v
         [] f = "cummax"  -> IF u > v THEN u ELSE v
         [] f = "cummin"  -> IF u < v THEN u ELSE v

\* Mutant: backwards in the order of the rows.
cumul_up(c, f, back) ==
  IF ~back
  THEN Assign(c, Up(1, Len(c.e) - 1), LAMBDA e, r : F2(f, e[r + 1], e[r]), Self)
  ELSE Assign(c, Up(0, Len(c.e) - 2), LAMBDA e, r : F2(f, e[r + 1], e[r + 2]), Self)

cumul_inplace(c, f, back) ==
  IF ~back
  THEN Assign(c, Up(1, Len(c.e) - 1), LAMBDA e, r : F2(f, e[r + 1], e[r]), Self)
  ELSE Assign(c, Down(Len(c.e) - 2, 0), LAMBDA e, r : F2(f, e[r + 1], e[r + 2]), Self)

\* The halves are swapped element by element.
rev_inplace(c) ==
  LET n == Len(c.e)
  IN  Column(FoldLeft(LAMBDA e, j : [e EXCEPT ![j] = e[n - j + 1], ![n - j + 1] = e[j]],
                      c.e, Up(1, n \div 2)))

\* The columns in turn, up to the one that throws.
Columns(a, F(_)) ==
  FoldLeftDomain(LAMBDA s, i :
                   IF s.threw THEN s
                   ELSE LET c == F(Column(a[i]))
                        IN  [a |-> [s.a EXCEPT ![i] = c.e], threw |-> c.threw],
                 [a |-> a, threw |-> FALSE], a)

Computed(R) ==
  /\ ra' = R.a
  /\ rpc' = IF R.threw THEN "throw" ELSE "done"
  /\ rvalid' = 0 /\ ry' = <<>> /\ UNCHANGED <<rcol, row, rs>>

doroll2(f) ==
  /\ rpc = "idle" /\ rf' = f
  /\ \E d \in Shapes, n \in Shifts : rx' \in Matrices(d[1], d[2]) /\ rwin' = n
  /\ Computed(Columns(rx', LAMBDA c : Shifted(f, c, rwin')))

\* rwin' = 1: backwards.
docum(f) ==
  /\ rpc = "idle" /\ rf' = f
  /\ \E d \in Shapes, back \in BOOLEAN :
        rx' \in Matrices(d[1], d[2]) /\ rwin' = IF back THEN 1 ELSE 0
  /\ Computed(Columns(rx', LAMBDA c : cumul_inplace(c, f, rwin' = 1)))

rev ==
  /\ rpc = "idle" /\ rf' = "rev" /\ rwin' = 0
  /\ \E d \in Shapes : rx' \in Matrices(d[1], d[2])
  /\ Computed(Columns(rx', rev_inplace))

\* Aggr over all elements; min and max both begin with the largest number and, as
\* a comparison with a missing value is false, pass over missing values.
Aggregate(f, u, v) ==
  CASE f = "sum"  -> IF isnan(u) \/ isnan(v) THEN ZNAN ELSE u + v
    [] f = "prod" -> IF isnan(u) \/ isnan(v) THEN ZNAN ELSE u * v
    [] f = "min"  -> IF ~isnan(v) /\ v < u THEN v ELSE u
    [] f = "max"  -> IF ~isnan(v) /\ u < v THEN v ELSE u
AggrStart(f) == CASE f = "sum" -> 0 [] f = "prod" -> 1 [] OTHER -> Huge

Aggregated(f) ==
  /\ rpc = "idle" /\ rf' = f /\ rwin' = 0
  /\ \E d \in Shapes : rx' \in Matrices(d[1], d[2])
  /\ Computed([a     |-> <<<<FoldLeft(LAMBDA u, v : Aggregate(f, u, v), AggrStart(f), FlattenSeq(rx'))>>>>,
               threw |-> FALSE])

sum == Aggregated("sum")
prod == Aggregated("prod")
minMax == \E f \in {"min", "max"} : Aggregated(f)

-----------------------------------------------------------------------------
RNext ==
  \/ \E f \in Ring \cup Extrema : CallRoll(f)
  \/ CallCov
  \/ rollmean \/ rollvar \/ rollcov \/ rollextremum
  \/ \E f \in ShiftFuncs : doroll2(f)
  \/ \E f \in CumFuncs : docum(f)
  \/ rev
  \/ sum \/ prod \/ minMax

RSpec == RInit /\ [][RNext]_rvars

-----------------------------------------------------------------------------
(* Properties: what is computed in one pass, in place, is what the         *)
(* definition of the function says of the argument.                        *)

InRange(c, r) == {k \in 0 .. r : k > r - rwin /\ ~isnan(c[k + 1])}
SumOver(S, F(_)) == MapThenSumSet(F, S)
Clean(c) == \A i \in 1 .. Len(c) : ~isnan(c[i])

\* What row r of a rolling function is, from the values u and v of its window.
WindowMoment(u, v, r) ==
  LET S == InRange(u, r) \cap InRange(v, r)
      n == Cardinality(S)
      s == <<SumOver(S, LAMBDA k : u[k + 1]), SumOver(S, LAMBDA k : v[k + 1]),
             SumOver(S, LAMBDA k : u[k + 1] * v[k + 1])>>
  IN  IF n < rvalid THEN ZNAN
      ELSE IF rf = "rollmean" THEN Fraction(s[1], rwin) ELSE Moment(s, n)

\* rollmean (a sum over the size of the window), rollvar and rollcov are what the
\* rows of the window give, for the columns after the first too, whose ring is not
\* cleared: in the first rows, where nothing leaves the window, whatever is missing;
\* in all rows when nothing is missing and the window is a power of two.
WindowSumsAreRight ==
  rpc = "done" /\ rf \in Ring =>
    \A c \in 1 .. Len(ra), r \in 0 .. Rows(ra) - 1 :
      LET u == IF rf = "rollcov" THEN rx[1] ELSE rx[c]
          v == IF rf = "rollcov" THEN ry[c] ELSE rx[c]
      IN  r < rwin \/ (Clean(u) /\ Clean(v) /\ RingSize(rwin) = rwin)
            => ra[c][r + 1] = WindowMoment(u, v, r)

WindowExtremum(c, r) ==
  LET S == InRange(c, r)
  IN  IF Cardinality(S) < rvalid THEN ZNAN
      ELSE (CHOOSE k \in S : \A l \in S : IF rf = "rollmin" THEN c[k + 1] <= c[l + 1]
                                        ELSE c[k + 1] >= c[l + 1]) + 1

\* rollmin and rollmax, whose candidates are dropped at both ends of a queue and
\* whose column is overwritten while it is read, give the extremum of the window: in
\* the first rows whatever is missing, in all rows when nothing is; and then the
\* queue is never read behind its end.
ExtremaAreRight ==
  /\ rpc = "undefined" => \E c \in 1 .. Len(rx) : ~Clean(rx[c])
  /\ rpc = "done" /\ rf \in Extrema =>
       \A c \in 1 .. Len(ra), r \in 0 .. Rows(ra) - 1 :
         r < rwin \/ Clean(rx[c]) =>
           LET k == WindowExtremum(rx[c], r)
           IN  ra[c][r + 1] = IF k = ZNAN THEN ZNAN ELSE rx[c][k]

\* What row r of the column c is after a shift by n.
ShiftedRow(c, n, r) ==
  LET from == r - n
      in   == from >= 0 /\ from < Len(c)
      V    == {k \in 0 .. r : ~isnan(c[k + 1])}
      last == CHOOSE k \in V : \A l \in V : l <= k
  IN  CASE rf = "move"   -> IF in THEN c[from + 1] ELSE ZNAN
        [] rf = "diff"   -> IF in THEN Minus(c[r + 1], c[from + 1]) ELSE ZNAN
        [] rf = "rotate" -> c[(from % Len(c)) + 1]
        [] rf = "locf"   -> IF V # {} /\ (n < 0 \/ r - last <= n) THEN c[last + 1] ELSE ZNAN

\* move, rotate, diff and locf, which write the column they read, give what the old
\* column says; they refuse a shift by more than its length, and no other.
ShiftsAreRight ==
  rpc \in {"done", "throw"} /\ rf \in ShiftFuncs =>
    /\ rpc = "throw" <=> rf # "locf" /\ (rwin > Rows(rx) \/ -rwin > Rows(rx))
    /\ rpc = "done" => \A c \in 1 .. Len(ra), r \in 0 .. Rows(ra) - 1 :
                         ra[c][r + 1] = ShiftedRow(rx[c], rwin, r)

\* What a fold over the elements of the sequence s, none of them missing, is.
Largest(s) == CHOOSE m \in ToSet(s) : \A i \in 1 .. Len(s) : s[i] <= m
Smallest(s) == CHOOSE m \in ToSet(s) : \A i \in 1 .. Len(s) : m <= s[i]
FoldOf(f, s) ==
  CASE f \in {"cumsum", "sum"}   -> SumOver(1 .. Len(s), LAMBDA i : s[i])
    [] f \in {"cumprod", "prod"} -> FoldLeft(LAMBDA u, v : u * v, 1, s)
    [] f = "cummax"              -> Largest(s)
    [] f \in {"cummin", "min"}   -> Smallest(s)

\* A row of a cumulative function is the fold of the rows up to it, or from it on
\* when it runs backwards, and is missing when one of them is; rev reverses; sum,
\* prod and min fold all elements, min those that are not missing.
FoldsAreRight ==
  rpc = "done" =>
    /\ rf \in CumFuncs => \A c \in 1 .. Len(ra), r \in 1 .. Rows(ra) :
         LET s == IF rwin = 1 THEN SubSeq(rx[c], r, Rows(rx)) ELSE SubSeq(rx[c], 1, r)
         IN  ra[c][r] = IF Clean(s) THEN FoldOf(rf, s) ELSE ZNAN
    /\ rf = "rev" => \A c \in 1 .. Len(ra) : ra[c] = Reverse(rx[c])
    /\ rf \in {"sum", "prod", "min"} =>
         LET all == FlattenSeq(rx)
             s   == IF rf = "min" THEN SelectSeq(all, LAMBDA v : ~isnan(v)) ELSE all
         IN  ra[1][1] = CASE ~Clean(s)              -> ZNAN
                          [] rf = "min" /\ s = <<>> -> Huge
                          [] OTHER                  -> FoldOf(rf, s)

\* Every function of array_ops.hpp leaves in each row of each column what the rows of the
\* old column give.
ColumnsAreRight == WindowSumsAreRight /\ ExtremaAreRight /\ ShiftsAreRight /\ FoldsAreRight
=============================================================================
