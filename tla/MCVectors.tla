------------------------------ MODULE MCVectors -----------------------------
(***************************************************************************)
(* One call of a function on vectors: a set function on scalars or on      *)
(* intervals, a function on the columns of an array, a function on times,  *)
(* or an alignment.                                                        *)
(***************************************************************************)
EXTENDS SetOps, IntervalOps, Rolling, Align

\* Two columns show what one leaves to the next; in seven rows rollmin and rollmax
\* come to read behind their queue.
MCShapes == {<<1, 1>>, <<2, 1>>, <<3, 2>>, <<4, 1>>, <<7, 1>>}
MCShifts == -3 .. 3

\* Two months of unequal length.  Zones without a change, with clocks put forward and
\* back, with a change of more than one second, with changes one day apart, and with a
\* change larger than the offsets.
MCMonths == <<3, 2>>
Changing == [ats |-> <<-7, 9, 20>>, off |-> <<1, 2, 1>>, default |-> 0]
MCZones == {Utc, Changing,
            [ats |-> <<-9>>, off |-> <<-1>>, default |-> 0], [ats |-> <<3>>, off |-> <<-5>>, default |-> -4],
            [ats |-> <<3, 12, 26, 31>>, off |-> <<-2, -1, -2, -1>>, default |-> -1],
            [ats |-> <<11>>, off |-> <<-2>>, default |-> 2]}
MCWhen == -26 .. 74
MCSeqEnd == {-9, 0, 4, 13, 24, 31, 50}
P(m, d, u) == [months |-> m, days |-> d, dur |-> u]
MCShift == {P(m, d, 0) : m \in {0, 1, -2}, d \in {0, 1, -1, 4}}
           \cup {P(0, d, u) : d \in {0, 1}, u \in {2, -2, 5, -24}}

\* Windows that overlap, are empty, have gaps between them, contain a change of the
\* clocks; and some that do not ascend.
MCFrom == {12, 15, 17, 20}
MCTo == {13, 15, 18}
MCWindow == {<<P(0, 0, -u), P(0, 0, v)>> : u \in {0, 3, -1}, v \in {0, 4}} \cup {<<P(0, -1, 12), P(0, 0, 1)>>}
MCMany == {<<<<P(0, 0, 0), P(0, 0, -6)>>, <<P(0, 0, 1)>>>>, <<<<P(0, 0, -9)>>, <<P(0, 0, 9), P(0, 0, -1)>>>>}
MCAlignZone == {Utc, Changing}
MCData == {<<2, 1, 3, 1>>, <<1, 3, 2, 2>>, <<3, 2, 1, 4>>}

Idle == <<pc, run, rpc, tpc, lpc>>
Alone(i) == \A j \in 1 .. 5 : j # i => Idle[j] = "idle"

MCInit == Init /\ IInit /\ RInit /\ TInit /\ LInit
MCNext == \/ Alone(1) /\ Next /\ UNCHANGED <<ivars, rvars, zvars, lvars>>
          \/ Alone(2) /\ INext /\ UNCHANGED <<vars, rvars, zvars, lvars>>
          \/ Alone(3) /\ RNext /\ UNCHANGED <<vars, ivars, zvars, lvars>>
          \/ Alone(4) /\ TNext /\ UNCHANGED <<vars, ivars, rvars, lvars>>
          \/ Alone(5) /\ LNext /\ UNCHANGED <<vars, ivars, rvars, zvars>>
MCSpec == MCInit /\ [][MCNext]_<<vars, ivars, rvars, zvars, lvars>>
=============================================================================
