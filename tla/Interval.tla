------------------------------ MODULE Interval ------------------------------
(***************************************************************************)
(* tz::interval (timezone/interval.hpp): two times and whether each end is *)
(* open.  A time t is the point 2t of a line on which the odd points stand *)
(* for what lies between two times.                                        *)
(***************************************************************************)
EXTENDS Integers

Interval(s, e, so, eo) == [s |-> s, e |-> e, sopen |-> so, eopen |-> eo]

\* The constructor throws unless s <= e.
Intervals(T) == {i \in [s : T, e : T, sopen : BOOLEAN, eopen : BOOLEAN] : i.s <= i.e}

Scalar(t) == Interval(t, t, FALSE, FALSE)

\* A time against an interval.
time_lt(t, i) == t < i.s \/ (t = i.s /\ i.sopen)
time_gt(t, i) == t > i.e \/ (t = i.e /\ i.eopen)

\* Mutant: a start that is open is not behind one that is closed.
start_gt_time(b, c) == b[1] > c[1]

\* Bounds <<time, open>>: where intervals start ...
start_lt(b, c) == b[1] < c[1] \/ (b[1] = c[1] /\ ~b[2] /\ c[2])
start_gt(b, c) == b[1] > c[1] \/ (b[1] = c[1] /\ b[2] /\ ~c[2])
\* ... and where they end.
end_lt(b, c) == b[1] < c[1] \/ (b[1] = c[1] /\ b[2] /\ ~c[2])
end_gt(b, c) == b[1] > c[1] \/ (b[1] = c[1] /\ ~b[2] /\ c[2])

Start(i) == <<i.s, i.sopen>>
End(i)   == <<i.e, i.eopen>>

\* The end of i is compared with the start of j as if both were ends.
end_lt_start(i, j) == end_lt(End(i), Start(j))

\* operator<: by start, then by end.
interval_lt(i, j) ==
  \/ start_lt(Start(i), Start(j))
  \/ Start(i) = Start(j) /\ end_lt(End(i), End(j))

\* The points of an interval, for reference.
Points(i) == {p \in 2 * i.s .. 2 * i.e :
                (p = 2 * i.s => ~i.sopen) /\ (p = 2 * i.e => ~i.eopen)}
=============================================================================
