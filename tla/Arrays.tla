------------------------------- MODULE Arrays -------------------------------
(***************************************************************************)
(* arr::Array (array.hpp): the lengths dim of the dimensions, the columns  *)
(* v, each a Vector over the first dimension, and the names of every       *)
(* dimension.  Element <<i, j, k>> is in column (j - 1) + (k - 1) * dim[2].*)
(*                                                                         *)
(* An operation that throws returns Threw; one that throws after it has    *)
(* changed its array returns the array with threw = TRUE.                  *)
(***************************************************************************)
EXTENDS Vectors, FiniteSetsExt

Product(s) == FoldLeft(LAMBDA m, n : m * n, 1, s)
NbColumns(dim) == IF dim = <<>> THEN 0 ELSE Product(Tail(dim))

Array(dim, v, names) == [dim |-> dim, v |-> v, names |-> names, threw |-> FALSE]
Thrown(a) == [a EXCEPT !.threw = TRUE]
Null == Array(<<>>, <<>>, <<>>)
Threw == Thrown(Null)

NoNamesFor(dim) == [d \in 1 .. Len(dim) |-> NoNames(dim[d])]

\* buildNames: names for all dimensions or for none.
buildNames(dim, names) ==
  [d \in 1 .. Len(dim) |-> IF names = <<>> \/ names[d] = <<>> THEN NoNames(dim[d])
                           ELSE Dname(dim[d], names[d])]
NamesFit(dim, names) ==
  /\ names = <<>> \/ Len(names) = Len(dim)
  /\ \A d \in 1 .. Len(names) : names[d] = <<>> \/ Len(names[d]) = dim[d]

Size(a) == IF a.dim = <<>> THEN 0 ELSE Len(a.v) * a.dim[1]
isVector(a) == Len(a.v) = 1
isScalar(a) == a.dim = <<1>>
isOrdered(a) == \A c \in 1 .. Len(a.v) : a.v[c].ordered

\* All the elements, column after column.
Elements(a) == FlattenSeq([c \in 1 .. Len(a.v) |-> a.v[c].e])

\* The constructor from data: none fills with the initial value, one element is
\* repeated, otherwise the data has to fill the array.
make_array(dim, data, names) ==
  LET n == NbColumns(dim)
  IN  CASE ~NamesFit(dim, names) -> Threw
        [] Len(data) > 1 /\ Len(data) # n * dim[1] -> Threw
        [] OTHER ->
             Array(dim,
                   [c \in 1 .. n |->
                      CASE Len(data) = 0 -> vector_n(dim[1], 0)
                        [] Len(data) = 1 -> vector_n(dim[1], data[1])
                        [] OTHER -> vector_range(SubSeq(data, (c - 1) * dim[1] + 1, c * dim[1]))],
                   buildNames(dim, names))

-----------------------------------------------------------------------------
\* checkdims: the dimensions other than d agree, missing ones count as 1; an array
\* without dimensions fits all.
checkdims(dim, u, d) ==
  \/ dim = <<>> \/ u = <<>>
  \/ \A j \in 1 .. Max({Len(dim), Len(u)}) \ {d} :
       (IF j <= Len(dim) THEN dim[j] ELSE 1) = (IF j <= Len(u) THEN u[j] ELSE 1)

addprefix(a, p, d) ==
  CASE p = NoName        -> a
    [] p # NoName /\ d <= Len(a.dim) -> [a EXCEPT !.names[d] = dname_addprefix(@, p)]
    \* dim.resize(d + 1, 1) asks for a reallocation at an offset, which throws
    \* after the names were added.
    [] OTHER -> Thrown([a EXCEPT !.names = @ \o Copies(d - Len(a.dim), NoNames(1))])

concat(a, u, prefix) ==
  IF Len(a.dim) > 1 \/ Len(u.dim) > 1 THEN Thrown(a)
  ELSE [a EXCEPT !.v[1]     = PushAll(@, u.v[1].e),
                 !.names[1] = dname_addall(@, dname_addprefix(u.names[1], prefix)),
                 !.dim[1]   = @ + u.dim[1]]

vectorize(u) ==
  IF isVector(u) THEN u
  ELSE LET col == FoldLeft(LAMBDA v, c : insert_end(v, c.e), vector_rsv, u.v)
       IN  Array(<<Size(u)>>, <<col>>, <<NoNames(Size(u))>>)

transpose(a) ==
  CASE Len(a.dim) = 1 ->
         make_array(<<1>> \o a.dim, a.v[1].e, <<<<>>, a.names[1].names>>)
    [] Len(a.dim) = 2 ->
         Array(<<a.dim[2], a.dim[1]>>,
               [j \in 1 .. a.dim[1] |->
                  apply([e |-> Copies(a.dim[2], 0), ordered |-> TRUE],
                        LAMBDA k : a.v[k].e[j])],
               <<Dname(a.dim[2], a.names[2].names), Dname(a.dim[1], a.names[1].names)>>)
    [] OTHER -> Threw

\* drop: dimensions of length 1, but for the first, go away; the loop goes from the
\* last to the second.
drop(a) ==
  LET kept == <<1>> \o SelectSeq([j \in 1 .. Len(a.dim) - 1 |-> j + 1],
                                 LAMBDA d : a.dim[d] # 1)
  IN  [a EXCEPT !.dim   = [j \in 1 .. Len(kept) |-> a.dim[kept[j]]],
                !.names = [j \in 1 .. Len(kept) |-> a.names[kept[j]]]]

-----------------------------------------------------------------------------
(* abind: the columns of u are interleaved with those of a so that the     *)
(* dimension d of the result is that of a followed by that of u.           *)

\* The null array takes the dimensions of u, with 0 in d; missing dimensions are 1,
\* but d is 0 if there are no columns.
BindReady(a, u, d) ==
  LET dim0 == IF a.dim # <<>> THEN a.dim
              ELSE [j \in 1 .. Len(u.dim) |-> IF j = d THEN 0 ELSE u.dim[j]]
      dim1 == dim0 \o [j \in 1 .. Max({0, d - Len(dim0)}) |->
                         IF a.v = <<>> /\ j = d - Len(dim0) THEN 0 ELSE 1]
  IN  [a EXCEPT !.dim   = dim1,
                !.names = @ \o [j \in 1 .. Len(dim1) - Len(a.names) |->
                                  NoNames(dim1[Len(a.names) + j])]]

\* Mutant: the new columns stay at the end.
BindAtEnd(a, u, d) ==
  [c \in 1 .. Len(a.v) + Len(u.v) |->
     IF c <= Len(a.v) THEN a.v[c] ELSE PushAll(vector_rsv, u.v[c - Len(a.v)].e)]

\* The new columns come last and are moved into place from the end: n times, ucols
\* columns of u behind cols columns of a.
BindColumns(a, u, d) ==
  LET upto(dim) == Product(SubSeq(dim, 2, Min({d, Len(dim)})))
      ucols == upto(u.dim)
      cols  == upto(a.dim)
      block == ucols + cols
  IN  [c \in 1 .. Len(a.v) + Len(u.v) |->
         LET b == (c - 1) \div block
             r == (c - 1) % block
         IN  IF a.v = <<>> THEN PushAll(vector_rsv, u.v[c].e)
             ELSE IF r < cols THEN a.v[b * cols + r + 1]
             ELSE PushAll(vector_rsv, u.v[b * ucols + r - cols + 1].e)]

BindNames(a, u, d, prefix) ==
  [i \in 1 .. Len(a.names) |->
     IF i = d
     THEN dname_addall(a.names[d],
                       dname_addprefix(IF d <= Len(u.dim) THEN u.names[d] ELSE NoNames(1), prefix))
     ELSE IF ~hasNames(a.names[i]) /\ i <= Len(u.names) /\ hasNames(u.names[i])
     THEN u.names[i] ELSE a.names[i]]

BoundArray(a, u, d, prefix) ==
  [a EXCEPT !.v = IF d > 1 THEN BindColumns(a, u, d)
                  ELSE [j \in 1 .. Max({Len(a.v), Len(u.v)}) |->
                          LET col == IF j <= Len(a.v) THEN a.v[j] ELSE vector_rsv
                          IN  IF j <= Len(u.v) THEN PushAll(col, u.v[j].e) ELSE col],
            !.names  = BindNames(a, u, d, prefix),
            !.dim[d] = @ + (IF d <= Len(u.dim) THEN u.dim[d] ELSE 1)]
BindChecked(a, u, d, prefix) ==
  IF checkdims(a.dim, u.dim, d) THEN BoundArray(BindReady(a, u, d), u, d, prefix) ELSE Thrown(a)

\* Vectors are bound as rows.
abind(a, u, d, prefix) ==
  LET AsRow(b) == IF d = 1 /\ Len(b.dim) = 1 THEN transpose(b) ELSE b
  IN  BindChecked(AsRow(a), AsRow(u), d, prefix)

-----------------------------------------------------------------------------
\* subsetRows: n rows behind the first from rows; the names go through assign.  Rows
\* without names can be given their number.
subsetRows(a, n, from, addrownums) ==
  LET old == a.names[1]
      name(j) == IF hasNames(old) THEN old.names[j] ELSE <<-j>>
  IN  IF from + n > a.dim[1] THEN Threw
      ELSE Array([a.dim EXCEPT ![1] = n],
                 [c \in 1 .. Len(a.v) |-> PushAll(vector_rsv, SubSeq(a.v[c].e, from + 1, from + n))],
                 [a.names EXCEPT ![1] =
                    IF ~hasNames(old) /\ ~addrownums THEN NoNames(n)
                    ELSE FoldLeft(LAMBDA dn, j : dname_assign(dn, j, name(from + j)),
                                  NoNames(n), [j \in 1 .. n |-> j])])

array_resize(a, n) ==
  [a EXCEPT !.dim[1]   = n,
            !.v        = [c \in 1 .. Len(@) |-> shrink(@[c], n)],
            !.names[1] = dname_resize(@, n)]

array_sort(a, decreasing) ==
  [a EXCEPT !.v = [c \in 1 .. Len(@) |-> IF decreasing THEN sort_greater(@[c]) ELSE sort(@[c])]]

-----------------------------------------------------------------------------
\* An array is in order: one column per combination of the other dimensions, every
\* column as long as the first, names or none for every dimension.
WellFormed(a) ==
  /\ Len(a.v) = NbColumns(a.dim)
  /\ \A c \in 1 .. Len(a.v) : Len(a.v[c].e) = a.dim[1]
  /\ Len(a.names) = Len(a.dim)
  /\ \A d \in 1 .. Len(a.dim) :
        a.names[d].sz = a.dim[d] /\ Len(a.names[d].names) \in {0, a.dim[d]}

\* The column of the position p, one number per dimension; throws for 0.
ColumnOf(dim, p) ==
  FoldLeftDomain(LAMBDA c, k : IF k = 1 THEN c ELSE c + (p[k] - 1) * Product(SubSeq(dim, 2, k - 1)),
                 1, dim)

\* Element p, for reference.
At(a, p) == a.v[ColumnOf(a.dim, p)].e[p[1]]
=============================================================================
