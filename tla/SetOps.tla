------------------------------- MODULE SetOps -------------------------------
(***************************************************************************)
(* Union, intersection and difference of vectors, and the indices of their *)
(* elements (vector_set.hpp, base_funcs_set.cpp): one pass over two sorted *)
(* vectors.  An element of the first vector is a time or any other scalar; *)
(* one of the second is an interval, or a scalar, which is an interval     *)
(* that holds nothing else.                                                *)
(***************************************************************************)
EXTENDS Interval, Sequences, Functions

CONSTANTS Time,     \* the values of the elements, numbers
          MaxLen,   \* bound: length of a vector
          MaxIvl    \* bound: length of a vector of intervals

ASSUME SetAssumption == Time \subseteq Nat /\ MaxLen \in Nat /\ MaxIvl \in Nat

VARIABLES op, kind,        \* the function called; what the second vector holds
          x, y,            \* its arguments
          v1, v2,          \* the sorted vectors it works on
          i1, i2,          \* the positions in them, counted from 1
          res, res2,       \* the result; with indices, the pair
          pc

vars == <<op, kind, x, y, v1, v2, i1, i2, res, res2, pc>>

Ops == {"intersect", "union", "setdiff",
        "intersect_idx", "union_idx", "setdiff_idx"}
NaN == 0   \* Global::ZNAN where a union has no index; indices start at 1

Vectors(S, max) == UNION {[1 .. n -> S] : n \in 0 .. max}

num_lt(a, b) == a < b
Below(s, lt(_, _)) == \A i \in 1 .. Len(s) - 1 : lt(s[i], s[i + 1])

\* conditional_sort_helper: a vector that is not strictly ascending is copied
\* and sorted.
Copies(s, lt(_, _)) ==
  IF Below(s, lt) THEN {s}
  ELSE LET N == 1 .. Len(s)
       IN  {t \in {[i \in N |-> s[p[i]]] : p \in Bijection(N, N)} :
              \A i \in 1 .. Len(s) - 1 : ~lt(t[i + 1], t[i])}
FirstCopies(s) == Copies(s, num_lt)
SecondCopies(s) == Copies(s, interval_lt)

\* apply_to_types_xy: the pairs of types each function takes.
Allowed(o, k) == k = "scalar" \/ o \notin {"union", "union_idx"}

Seconds(k) == IF k = "scalar" THEN Vectors({Scalar(t) : t \in Time}, MaxLen)
              ELSE Vectors(Intervals(Time), MaxIvl)

Init ==
  /\ op = "none" /\ kind = "scalar"
  /\ x = <<>> /\ y = <<>> /\ v1 = <<>> /\ v2 = <<>>
  /\ i1 = 1 /\ i2 = 1 /\ res = <<>> /\ res2 = <<>>
  /\ pc = "idle"

Call(o, k) ==
  /\ pc = "idle" /\ Allowed(o, k)
  /\ op' = o /\ kind' = k
  /\ x' \in Vectors(Time, MaxLen)
  /\ y' \in Seconds(k)
  /\ v1' \in FirstCopies(x')
  /\ v2' \in SecondCopies(y')
  /\ pc' = "loop"
  /\ UNCHANGED <<i1, i2, res, res2>>

-----------------------------------------------------------------------------
In1 == i1 <= Len(v1)
In2 == i2 <= Len(v2)
Both == pc = "loop" /\ In1 /\ In2

Less    == time_lt(v1[i1], v2[i2])
Greater == ~Less /\ time_gt(v1[i1], v2[i2])
Equal   == ~Less /\ ~time_gt(v1[i1], v2[i2])

Take1 == i1' = i1 + 1 /\ UNCHANGED i2
Take2 == i2' = i2 + 1 /\ UNCHANGED i1

Same == UNCHANGED <<op, kind, x, y, v1, v2>>
Keep == UNCHANGED <<res, res2, pc>>
Add(e) == res' = Append(res, e) /\ UNCHANGED <<res2, pc>>

\* Mutant: the second index repeats the first.
AddPairSame(a, b) == res' = Append(res, a) /\ res2' = Append(res2, a) /\ UNCHANGED pc

AddPair(a, b) == res' = Append(res, a) /\ res2' = Append(res2, b) /\ UNCHANGED pc
IsNew(e) == res = <<>> \/ e # res[Len(res)]

\* Vector::operator[] throws outside the vector, also at position i - 1 of the
\* first element.
Throw == pc' = "throw" /\ UNCHANGED <<i1, i2, res, res2>>

Differs(s, i, e) == i = 1 \/ e # s[i - 1]

\* Mutant: an interval is left behind with its first element.
IntersectLeaves ==
  /\ Both /\ op = "intersect" /\ Same
  /\ \/ Less    /\ Take1 /\ Keep
     \/ Greater /\ Take2 /\ Keep
     \/ Equal   /\ i1' = i1 + 1 /\ i2' = i2 + 1
        /\ IF IsNew(v1[i1]) THEN Add(v1[i1]) ELSE Keep

Intersect ==
  /\ Both /\ op = "intersect" /\ Same
  /\ \/ Less    /\ Take1 /\ Keep
     \/ Greater /\ Take2 /\ Keep
     \/ Equal   /\ Take1 /\ IF IsNew(v1[i1]) THEN Add(v1[i1]) ELSE Keep

\* The guard against the first element tests v1.size() instead of i1.
IntersectIdx ==
  /\ Both /\ op = "intersect_idx" /\ Same
  /\ \/ Less    /\ Take1 /\ Keep
     \/ Greater /\ Take2 /\ Keep
     \/ Equal   /\ i1 = 1 /\ Throw
     \/ Equal   /\ i1 > 1 /\ Take1
        /\ IF v1[i1] # v1[i1 - 1] THEN AddPair(i1, i2) ELSE Keep

Union ==
  /\ Both /\ op = "union" /\ Same
  /\ \/ Less    /\ Take1 /\ IF IsNew(v1[i1]) THEN Add(v1[i1]) ELSE Keep
     \/ Greater /\ Take2 /\ IF IsNew(v2[i2].s) THEN Add(v2[i2].s) ELSE Keep
     \/ Equal   /\ i1' = i1 + 1 /\ i2' = i2 + 1
        /\ IF IsNew(v1[i1]) THEN Add(v1[i1]) ELSE Keep

\* An element of v2 is compared with the one before it in v1.
UnionIdx ==
  /\ Both /\ op = "union_idx" /\ Same
  /\ \/ Less /\ Take1
        /\ IF Differs(v1, i1, v1[i1]) THEN AddPair(i1, NaN) ELSE Keep
     \/ Greater /\ i2 > Len(v1) + 1 /\ Throw
     \/ Greater /\ i2 <= Len(v1) + 1 /\ Take2
        /\ IF Differs(v1, i2, v2[i2].s) THEN AddPair(NaN, i2) ELSE Keep
     \/ Equal /\ i1' = i1 + 1 /\ i2' = i2 + 1
        /\ IF Differs(v1, i1, v1[i1]) THEN AddPair(i1, i2) ELSE Keep

Setdiff ==
  /\ Both /\ op = "setdiff" /\ Same
  /\ \/ Less    /\ Take1 /\ Add(v1[i1])
     \/ Greater /\ Take2 /\ Keep
     \/ Equal   /\ Take1 /\ Keep

\* Mutant: an element that is in both leaves only the first vector.
SetdiffKeepsSecond ==
  /\ Both /\ op = "setdiff_idx" /\ Same
  /\ \/ Less    /\ Take1 /\ res' = Append(res, i1) /\ UNCHANGED <<res2, pc>>
     \/ Greater /\ Take2 /\ res2' = Append(res2, i2) /\ UNCHANGED <<res, pc>>
     \/ Equal   /\ Take1 /\ Keep

\* Also for times and intervals: the specialization names its parameters in
\* another order and is never chosen.
SetdiffIdx ==
  /\ Both /\ op = "setdiff_idx" /\ Same
  /\ \/ Less    /\ Take1 /\ res' = Append(res, i1) /\ UNCHANGED <<res2, pc>>
     \/ Greater /\ Take2 /\ res2' = Append(res2, i2) /\ UNCHANGED <<res, pc>>
     \/ Equal   /\ i1' = i1 + 1 /\ i2' = i2 + 1 /\ Keep

\* What is left in one of the vectors.
Left1 == In1 /\ op \notin {"intersect", "intersect_idx"}
Left2 == In2 /\ op \in {"union", "union_idx", "setdiff_idx"}

Rest1 ==
  /\ pc = "loop" /\ Left1 /\ ~In2 /\ Same /\ Take1
  /\ CASE op = "union" ->
            IF Differs(v1, i1, v1[i1]) THEN Add(v1[i1]) ELSE Keep
       [] op = "union_idx" ->
            IF Differs(v1, i1, v1[i1]) THEN AddPair(i1, NaN) ELSE Keep
       [] op = "setdiff"     -> Add(v1[i1])
       [] op = "setdiff_idx" -> Add(i1)

Rest2 ==
  /\ pc = "loop" /\ ~In1 /\ Left2 /\ Same /\ Take2
  /\ CASE op = "union" ->
            IF Differs(v2, i2, v2[i2]) THEN Add(v2[i2].s) ELSE Keep
       [] op = "union_idx" ->
            IF Differs(v2, i2, v2[i2]) THEN AddPair(NaN, i2) ELSE Keep
       [] op = "setdiff_idx" -> res2' = Append(res2, i2) /\ UNCHANGED <<res, pc>>

Finish ==
  /\ pc = "loop" /\ ~(In1 /\ In2) /\ ~Left1 /\ ~Left2
  /\ pc' = "done"
  /\ UNCHANGED <<op, kind, x, y, v1, v2, i1, i2, res, res2>>

Next == \/ \E o \in Ops, k \in {"scalar", "interval"} : Call(o, k)
        \/ Intersect \/ IntersectIdx \/ Union \/ UnionIdx \/ Setdiff \/ SetdiffIdx
        \/ Rest1 \/ Rest2 \/ Finish

Spec == Init /\ [][Next]_vars

-----------------------------------------------------------------------------
(* Properties.                                                             *)

\* Every variable has its type; positions and indices stay inside the vectors.
TypeOK ==
  /\ op \in Ops \cup {"none"} /\ kind \in {"scalar", "interval"}
  /\ pc \in {"idle", "loop", "done", "throw"}
  /\ i1 \in 1 .. Len(v1) + 1 /\ i2 \in 1 .. Len(v2) + 1
  /\ res \in Seq(Time \cup 0 .. Len(v1)) /\ res2 \in Seq(0 .. Len(v2))

Elems(s) == {s[i] : i \in 1 .. Len(s)}
Within(t, i) == ~time_lt(t, i) /\ ~time_gt(t, i)
Held == {t \in Elems(x) : \E i \in Elems(y) : Within(t, i)}
Others == {i.s : i \in Elems(y)}

\* The set that op stands for.
Wanted ==
  CASE op \in {"intersect", "intersect_idx"} -> Held
    [] op \in {"union", "union_idx"}         -> Elems(x) \cup Others
    [] op \in {"setdiff", "setdiff_idx"}     -> Elems(x) \ Held

\* intersect, union and setdiff return exactly the elements they should, in order
\* and, but for setdiff, without repetition, whatever the order of their arguments,
\* repetitions in them, and intervals that overlap, nest, or are open at an end.
SetIsRight ==
  pc = "done" /\ op \in {"intersect", "union", "setdiff"} =>
    /\ Elems(res) = Wanted
    /\ \A i \in 1 .. Len(res) - 1 :
          res[i] < res[i + 1] \/ (op = "setdiff" /\ res[i] = res[i + 1])

\* The element a pair of indices stands for.
Picked(k) == IF res[k] # NaN THEN x[res[k]] ELSE y[res2[k]].s

Pairs ==
  CASE op = "intersect_idx" ->
         /\ Len(res) = Len(res2)
         /\ {x[i] : i \in Elems(res)} = Wanted
         /\ \A k \in 1 .. Len(res) : Within(x[res[k]], y[res2[k]])
    [] op = "union_idx" ->
         /\ Len(res) = Len(res2)
         /\ {Picked(k) : k \in 1 .. Len(res)} = Wanted
         /\ \A k \in 1 .. Len(res) - 1 : Picked(k) < Picked(k + 1)
         /\ \A k \in 1 .. Len(res) :
               /\ res[k] = NaN <=> Picked(k) \notin Elems(x)
               /\ res2[k] = NaN <=> Picked(k) \notin Others
               /\ res[k] # NaN /\ res2[k] # NaN => Within(x[res[k]], y[res2[k]])
    [] op = "setdiff_idx" ->
         /\ {x[i] : i \in Elems(res)} = Wanted
         /\ {y[i].s : i \in Elems(res2)} = Others \ Elems(x)

Idx == op \in {"intersect_idx", "union_idx", "setdiff_idx"}

\* The indices that are returned for ascending vectors pick the right elements,
\* each once and in pairs that belong together, although the loops compare an
\* element with the one before it in the wrong vector; excepted is setdiff_idx of
\* times and intervals.
IndicesAreRight ==
  pc = "done" /\ Idx /\ Below(x, num_lt) /\ Below(y, interval_lt)
    => Pairs \/ (op = "setdiff_idx" /\ kind = "interval")

\* "we need the indices to be correct, so if we sorted we need to translate the
\* result": the indices refer to the vectors the caller gave.
IndicesTranslated == pc = "done" /\ Idx /\ kind = "scalar" => Pairs

\* The one pass of vector_set.hpp over two vectors computes the set and the indices, and
\* stays inside the vectors.
SetsAreRight == TypeOK /\ SetIsRight /\ IndicesAreRight
=============================================================================
