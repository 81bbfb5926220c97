------------------------------- MODULE Series -------------------------------
(***************************************************************************)
(* What a time series promises: rows in the order of their times, to which *)
(* an append adds all of its rows or none, and which a resize cuts.  Once  *)
(* it is broken nothing is promised.                                       *)
(***************************************************************************)
EXTENDS Integers, Sequences

CONSTANTS Cols,   \* the index and the data columns
          Times

VARIABLES rows, broken

Whole(t) == [c \in Cols |-> t]

Init == rows = <<>> /\ broken = FALSE

\* ts ascends and begins behind the last row.
AppendRows(ts) ==
  /\ \A i \in 1 .. Len(ts) - 1 : ts[i] < ts[i + 1]
  /\ rows # <<>> => rows[Len(rows)][0] < ts[1]
  /\ rows' = rows \o [i \in 1 .. Len(ts) |-> Whole(ts[i])]
  /\ UNCHANGED broken

Cut(n) == rows' = SubSeq(rows, 1, n) /\ UNCHANGED broken

Break == broken' = TRUE

Next ==
  \/ broken
  \/ Break
  \/ \E n \in 0 .. Len(rows) : Cut(n)
  \/ \E n \in 1 .. Len(rows') - Len(rows) : \E ts \in [1 .. n -> Times] : AppendRows(ts)

Spec == Init /\ [][Next]_<<rows, broken>>
=============================================================================
