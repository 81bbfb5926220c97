------------------------------- MODULE Index --------------------------------
(***************************************************************************)
(* Indices into an array (index.hpp) and what they select and assign       *)
(* (Array::operator() of array.hpp).                                       *)
(*                                                                         *)
(* An index is a record with its kind and its data.  Every kind can do two *)
(* things: walk over positions (getfirst, getnext), and subset a column,   *)
(* which several kinds do without walking.  Position 0 stands for a name   *)
(* that is not found, where the code throws.                               *)
(***************************************************************************)
EXTENDS Arrays, Interval

NullIndex(n)         == [kind |-> "null", sz |-> n]
IntIndex(s)          == [kind |-> "int", vi |-> s]
IntIndexNeg(s, n)    == [kind |-> "neg", vi |-> s, sz |-> n]
NameIndex(s, d)      == [kind |-> "names", vs |-> s, names |-> d]
BoolIndex(s)         == [kind |-> "bool", vb |-> s]
DtimeIndex(s, t)     == [kind |-> "dtime", idx |-> s, vd |-> t]
IntervalIndex(s, t)  == [kind |-> "interval", idx |-> s, vd |-> t]

Ints(m, n) == [j \in 1 .. n - m + 1 |-> m + j - 1]

\* Mutant: the last position is forgotten.
PositiveShort(i, n) == SelectSeq(Ints(1, n - 1), LAMBDA j : j \notin ToSet(i.vi))

\* IntIndexNeg: the positions that are not excluded.
Positive(i, n) == SelectSeq(Ints(1, n), LAMBDA j : j \notin ToSet(i.vi))

\* BoolIndex::getnext goes on by two positions at a time until it finds one.
RECURSIVE WalkBool(_, _)
WalkBool(vb, i) ==
  LET next == {k \in i + 1 .. Len(vb) : vb[k] /\ (k - i) % 2 = 1}
  IN  IF next = {} THEN <<>> ELSE <<Min(next)>> \o WalkBool(vb, Min(next))

\* DtimeIndex: every time is searched for; those that are not there are skipped.
WalkDtime(idx, vd) ==
  LET where(t) == {k \in 1 .. Len(vd) : vd[k] = t}
      found == SelectSeq(idx, LAMBDA t : where(t) # {})
  IN  [j \in 1 .. Len(found) |-> CHOOSE k \in where(found[j]) : TRUE]

\* IntervalIndex: the elements of one interval after the other, until the walk comes
\* to the end of the column.
WalkInterval(idx, vd) ==
  LET in(i) == SelectSeq(Ints(1, Len(vd)), LAMBDA k : ~time_lt(vd[k], i) /\ ~time_gt(vd[k], i))
      last  == {j \in 1 .. Len(idx) : in(idx[j]) # <<>> /\ Last(in(idx[j])) = Len(vd)}
      upto  == IF last = {} THEN Len(idx) ELSE Min(last)
  IN  FlattenSeq([j \in 1 .. upto |-> in(idx[j])])

Walk(i) ==
  CASE i.kind = "null"     -> Ints(1, i.sz)
    [] i.kind = "int"      -> i.vi
    [] i.kind = "neg"      -> Positive(i, i.sz)
    [] i.kind = "names"    -> [j \in 1 .. Len(i.vs) |-> dname_lookup(i.names, i.vs[j])]
    [] i.kind = "bool"     -> LET first == {k \in 1 .. Len(i.vb) : i.vb[k]}
                              IN  IF first = {} THEN <<>>
                                  ELSE <<Min(first)>> \o WalkBool(i.vb, Min(first))
    [] i.kind = "dtime"    -> WalkDtime(i.idx, i.vd)
    [] i.kind = "interval" -> WalkInterval(i.idx, i.vd)

\* What subset() selects of a column: by the bits themselves for a BoolIndex.
Select(i) ==
  IF i.kind = "bool" THEN SelectSeq(Ints(1, Len(i.vb)), LAMBDA k : i.vb[k]) ELSE Walk(i)

\* trueSize and selectNames of times and intervals: one pass over the index and the
\* column, both taken to be sorted.  A time is left behind once it is matched.
RECURSIVE Merged(_, _, _, _)
Merged(i, vd, ii, iv) ==
  IF ii > Len(i.idx) \/ iv > Len(vd) THEN <<>>
  ELSE LET at == IF i.kind = "dtime" THEN Scalar(i.idx[ii]) ELSE i.idx[ii]
       IN  CASE time_lt(vd[iv], at) -> Merged(i, vd, ii, iv + 1)
             [] ~time_lt(vd[iv], at) /\ time_gt(vd[iv], at) -> Merged(i, vd, ii + 1, iv)
             [] OTHER -> <<iv>> \o Merged(i, vd, IF i.kind = "dtime" THEN ii + 1 ELSE ii, iv + 1)

\* size() is what an index is taken to select before it is known; trueSize() what an
\* assignment has to bring.
size(i) ==
  CASE i.kind = "dtime"    -> Len(i.idx)
    [] i.kind = "interval" -> Len(i.vd)
    [] OTHER               -> Len(Select(i))
trueSize(i) ==
  IF i.kind \in {"dtime", "interval"} THEN Len(Merged(i, i.vd, 1, 1)) ELSE size(i)

\* selectNames, of a dimension that has names.
selectNames(i, d) ==
  CASE i.kind = "null"  -> d
    [] i.kind = "names" -> FoldLeft(dname_addafter, NoNames(0), i.vs)
    [] OTHER ->
         FoldLeft(LAMBDA dn, k : dname_addafter(dn, d.names[k]), NoNames(0),
                  IF i.kind \in {"dtime", "interval"} THEN Merged(i, i.vd, 1, 1) ELSE Select(i))
NamesThrow(i, d) ==
  CASE i.kind = "names" -> \E j \in 1 .. Len(i.vs) : dname_lookup(d, i.vs[j]) = 0
    [] i.kind \in {"int", "neg", "bool"} -> \E k \in ToSet(Select(i)) : k > d.sz
    [] OTHER -> FALSE

-----------------------------------------------------------------------------
\* getfirstcol, getnextcol: the columns in the order of the walk, the second
\* dimension running fastest; 0 where it throws.
Columns(is, dim) ==
  LET Times(cols, k) ==
        LET w == Walk(is[k])
            mul == Product(SubSeq(dim, 2, k - 1))
            one(c, p) == IF c = 0 \/ p \notin 1 .. dim[k] THEN 0 ELSE c + (p - 1) * mul
        IN  FlattenSeq([p \in 1 .. Len(w) |-> [c \in 1 .. Len(cols) |-> one(cols[c], w[p])]])
  IN  FoldLeft(Times, <<1>>, Ints(2, Len(dim)))

SubsetThrows(i, v) ==
  \/ i.kind \in {"int", "names", "bool"} /\ \E p \in ToSet(Select(i)) : p \notin 1 .. Len(v.e)
  \/ i.kind \in {"dtime", "interval"} /\ Len(i.vd) # Len(v.e)
subset_column(i, v) ==
  IF i.kind = "null" THEN v
  ELSE LET s == Select(i) IN PushAll(vector_rsv, [j \in 1 .. Len(s) |-> v.e[s[j]]])

\* A matrix as one long vector.  Positions are looked for column by column, and the
\* search in a column ends at the first position outside it, so the first one that
\* lies in an earlier column, or nowhere, ends the selection.
subset_vector(a, i) ==
  LET n     == a.dim[1]
      colOf(p) == (p - 1) \div n
      ok(j) == \A k \in 1 .. j : /\ i.vi[k] \in 1 .. Size(a)
                                 /\ k > 1 => colOf(i.vi[k - 1]) <= colOf(i.vi[k])
      upto  == Max({j \in 0 .. Len(i.vi) : j = 0 \/ ok(j)})
      where == IF i.kind = "int" THEN SubSeq(i.vi, 1, upto)
               ELSE SelectSeq(Select(i), LAMBDA p : p <= Size(a))
      all   == Elements(a)
  IN  IF i.kind \notin {"int", "neg", "bool"} \/ (i.kind = "bool" /\ Len(i.vb) < Size(a))
      THEN Threw
      ELSE Array(<<Len(where)>>,
                 <<PushAll(vector_rsv, [j \in 1 .. Len(where) |-> all[where[j]]])>>,
                 <<NoNames(Len(where))>>)

\* The names of the dimensions that stay, of the first one for a scalar.
subset_names(a, is, kept, rdim, rv) ==
  LET named == {k \in 1 .. Len(kept) : a.names[kept[k]].names # <<>>}
  IN  IF \E k \in named : NamesThrow(is[kept[k]], a.names[kept[k]]) THEN Threw
      ELSE Array(rdim, rv, [k \in 1 .. Len(kept) |->
                              IF k \in named THEN selectNames(is[kept[k]], a.names[kept[k]])
                              ELSE NoNames(rdim[k])])
subset_sized(a, is, left, rdim, rv) ==
  subset_names(a, is, IF rdim = <<1>> /\ 1 \notin ToSet(left) THEN <<1>> \o left ELSE left, rdim, rv)

\* One row: the elements fill the columns of the result one after the other.
RowColumns(picked, rdim) ==
  [c \in 1 .. Product(Tail(rdim)) |->
     PushAll(vector_rsv, SubSeq(picked, (c - 1) * rdim[1] + 1, Min({c * rdim[1], Len(picked)})))]

\* Otherwise every column is subset, and may turn out shorter than its index was taken to be.
subset_columns(a, is, left, rdim, rv, all) ==
  IF rv = <<>> \/ Len(rv[1].e) = rdim[1] THEN subset_sized(a, is, left, rdim, rv)
  ELSE IF all /\ Len(rv[1].e) = 1 /\ Len(rv) # 1 THEN Threw
  ELSE subset_sized(a, is, left, <<Len(rv[1].e)>> \o Tail(rdim), rv)

subset_picked(a, is, cols, row, left, rdim, all, oneRow, garbage) ==
  CASE 0 \in ToSet(cols) -> Threw
    [] 0 \notin ToSet(cols) /\ oneRow ->
         IF \/ row = <<>> \/ (garbage /\ is[1].kind \in {"dtime", "interval"})
            \/ row[1] \notin 1 .. a.dim[1]
         THEN Threw
         ELSE subset_sized(a, is, left, rdim,
                           RowColumns([c \in 1 .. Len(cols) |-> a.v[cols[c]].e[row[1]]], rdim))
    [] OTHER ->
         IF \E c \in 1 .. Len(cols) : SubsetThrows(is[1], a.v[cols[c]]) THEN Threw
         ELSE subset_columns(a, is, left, rdim,
                             [c \in 1 .. Product(Tail(rdim)) |->
                                IF c <= Len(cols) THEN subset_column(is[1], a.v[cols[c]]) ELSE vector_rsv],
                             all)

\* One index per dimension.  dropfirst is 0 for arrays and 2 for a zts; garbage is
\* what an uninitialized position of the first index holds, which times and
\* intervals start from.
subset_array(a, is, dropped, dropfirst, garbage) ==
  LET undropped == [d \in 1 .. Len(is) |-> size(is[d])]
      left      == SelectSeq(Ints(1, Len(is)), LAMBDA d : ~dropped \/ d <= dropfirst \/ undropped[d] # 1)
      all       == dropped /\ dropfirst = 0
  IN  IF Len(is) # Len(a.dim) THEN Threw
      ELSE subset_picked(a, is, Columns(is, a.dim), Walk(is[1]), left,
                         IF left = <<>> THEN <<1>> ELSE [k \in 1 .. Len(left) |-> undropped[left[k]]],
                         all, all /\ undropped[1] = 1, garbage)

operator_subset(a, is, dropped, garbage) ==
  IF Len(is) = 1 /\ Len(a.dim) > 1 THEN subset_vector(a, is[1])
  ELSE subset_array(a, is, dropped, 0, garbage)

-----------------------------------------------------------------------------
\* IntIndex: the order in which an unordered index is assigned.  The constructor means
\* to sort the positions, but puts the j-th one where the j-th smallest comes from.
AssignOrder(vi) ==
  IF Ascends(vi) \/ Len(vi) <= 1 THEN Ints(1, Len(vi))
  ELSE LET sorted == SortSeq(Ints(1, Len(vi)),
                             LAMBDA j, k : vi[j] < vi[k] \/ (vi[j] = vi[k] /\ j < k))
       IN  [k \in 1 .. Len(vi) |-> CHOOSE j \in 1 .. Len(vi) : sorted[j] = k]

\* Mutant: every column starts with the first element again.
FromStart(used, n) == used

\* The iterator over the elements goes on behind those of the last column.
GoesOn(used, n) == used + n

\* subassign of one column: state st is the column, the elements of u used and whether
\* it threw.  Where the next position follows directly, the order with the element
\* behind is left to the next assignment.
AssignInOrder(i, st, u, scalar, w, order) ==
  LET n == Len(w)
      follows(k) == k < n /\ LET gap == w[order[k + 1]] - w[order[k]]
                             IN  gap = 1 \/ (gap = 0 /\ i.kind # "int")
      value(k) == IF scalar THEN u[1] ELSE u[st.used + order[k]]
      One(s, k) ==
        CASE s.threw -> s
          [] ~s.threw /\ (\/ w[order[k]] \notin 1 .. Len(s.col.e)
                          \/ ~scalar /\ st.used + order[k] > Len(u)) -> [s EXCEPT !.threw = TRUE]
          [] OTHER -> [s EXCEPT !.col = IF (i.kind = "null" /\ ~scalar) \/ (i.kind # "null" /\ follows(k))
                                        THEN setv_checkbefore(@, w[order[k]], value(k))
                                        ELSE setv(@, w[order[k]], value(k))]
  IN  [FoldLeft(One, st, Ints(1, n)) EXCEPT !.used = GoesOn(@, n)]
AssignWalk(i, st, u, scalar, w) ==
  AssignInOrder(i, st, u, scalar, w, IF i.kind = "int" THEN AssignOrder(w) ELSE Ints(1, Len(w)))
AssignColumn(i, st, u, scalar) == AssignWalk(i, st, u, scalar, Walk(i))

Assigned(a, c, r) == [a |-> [a EXCEPT !.v[c] = r.col, !.threw = r.threw], used |-> r.used]

\* operator()(i, u): one column after the other, in place; what was assigned before it
\* throws stays.
operator_subassign(a, is, u) ==
  LET scalar == Len(u) = 1
      nelts  == FoldLeft(LAMBDA m, i : m * trueSize(i), 1, is)
      cols   == Columns(is, a.dim)
      OneCol(s, c) ==
        IF s.a.threw \/ c = 0 THEN [s EXCEPT !.a = Thrown(@)]
        ELSE Assigned(s.a, c, AssignColumn(is[1], [col |-> s.a.v[c], used |-> s.used, threw |-> FALSE],
                                           u, scalar))
  IN  IF Len(is) # Len(a.dim) \/ (~scalar /\ nelts # Len(u)) THEN Thrown(a)
      ELSE FoldLeft(OneCol, [a |-> a, used |-> 0], cols).a

-----------------------------------------------------------------------------
(* convertToIndex: from the arguments of x[...].  An argument is its type  *)
(* and its elements.  times is the column that times index into: that of a *)
(* zts, or the array itself if it is a vector of times; <<>> otherwise.    *)

\* minus1, negminus1: positions count from 1, the sign of the first decides for all.
Double(s, sz) ==
  CASE s = <<>> -> IntIndex(s)
    [] s # <<>> /\ s[1] >= 0 -> IntIndex(s)
    [] OTHER -> IntIndexNeg([j \in 1 .. Len(s) |-> -s[j]], sz)
DoubleThrows(s, sz) ==
  \/ \E j \in 1 .. Len(s) : s[j] = 0
  \/ \E j, k \in 1 .. Len(s) : s[j] > 0 /\ s[k] < 0
  \/ \E j \in 1 .. Len(s) : s[j] < -sz

convertToIndex(args, a, times, zts) ==
  LET alone  == Len(args) = 1
      sz(j)  == IF alone /\ Len(a.dim) > 1 /\ ~zts THEN Size(a) ELSE a.dim[j]
      bad(j) ==
        LET s == args[j].e
        IN  CASE args[j].type = "null"   -> FALSE
              [] args[j].type = "double" -> DoubleThrows(s, sz(j))
              [] args[j].type = "bool"   ->
                   a.dim[j] # Len(s) /\ (zts \/ Size(a) # Len(s))
              [] args[j].type = "string" -> FALSE
              [] args[j].type \in {"time", "interval"} ->
                   IF zts THEN j > 1 ELSE ~isVector(a) \/ times = <<>>
      one(j) ==
        LET s == args[j].e
        IN  CASE args[j].type = "null"     -> NullIndex(a.dim[j])
              [] args[j].type = "double"   -> Double(s, sz(j))
              [] args[j].type = "bool"     -> BoolIndex(s)
              [] args[j].type = "string"   -> NameIndex(s, a.names[j])
              [] args[j].type = "time"     -> DtimeIndex(s, times)
              [] args[j].type = "interval" -> IntervalIndex(s, times)
  IN  IF alone /\ args[1].type = "null"
      THEN [threw |-> FALSE, is |-> [d \in 1 .. Len(a.dim) |-> NullIndex(a.dim[d])]]
      ELSE IF (Len(args) > 1 /\ Len(args) # Len(a.dim)) \/ \E j \in 1 .. Len(args) : bad(j)
      THEN [threw |-> TRUE, is |-> <<>>]
      ELSE [threw |-> FALSE, is |-> [j \in 1 .. Len(args) |-> one(j)]]

\* x[...]
subset(a, times, args, dropped, garbage) ==
  LET c == convertToIndex(args, a, times, FALSE)
  IN  IF c.threw THEN Threw ELSE operator_subset(a, c.is, dropped, garbage)

\* x[[...]]: one element.
dblsubset(a, times, args, garbage) ==
  LET c == convertToIndex(args, a, times, FALSE)
  IN  IF c.threw \/ \E j \in 1 .. Len(c.is) : trueSize(c.is[j]) # 1 THEN Threw
      ELSE operator_subset(a, c.is, TRUE, garbage)

\* x[...] <- u.
subassign(a, times, args, u) ==
  LET c == convertToIndex(args, a, times, FALSE)
  IN  IF c.threw THEN Thrown(a) ELSE operator_subassign(a, c.is, u)
=============================================================================
