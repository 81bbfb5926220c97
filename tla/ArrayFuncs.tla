----------------------------- MODULE ArrayFuncs -----------------------------
(***************************************************************************)
(* The built-in functions on arrays and time series: base_funcs_array.cpp, *)
(* base_funcs_array_idx.cpp and zts.cpp.                                   *)
(*                                                                         *)
(* x is one variable of the interpreter.  A call takes x, passed by value  *)
(* or by reference, and either changes it in place or has its result       *)
(* assigned to it.  call remembers what was called, what x was and whether *)
(* it threw, in which case x holds what the function left behind.          *)
(*                                                                         *)
(* A value is of kind "double", "time" or "zts"; idx is the index of a zts.*)
(***************************************************************************)
EXTENDS Index

CONSTANTS Sources,      \* values x can be made from
          Others,       \* second arguments of c and the bind functions
          IndexArgs,    \* lists of arguments of x[...]
          Elems,        \* sequences of elements to assign
          ArgNames,     \* argument names
          Counts,       \* the n of head and tail
          MaxCalls, MaxElements

VARIABLES x, call, calls

avars == <<x, call, calls>>

ASSUME ArrayFuncsAssumption ==
  MaxCalls \in Nat /\ MaxElements \in Nat /\ Counts \subseteq Int

Value(kind, a, idx) == [kind |-> kind, a |-> a, idx |-> idx]
NoIndex == vector_rsv
NoCall == [f |-> "none", ref |-> FALSE, args |-> <<>>, dropped |-> FALSE, d |-> 0,
           before |-> Value("double", Null, NoIndex), u |-> Value("double", Null, NoIndex),
           threw |-> FALSE]

TimesOf(v) ==
  CASE v.kind = "zts" -> v.idx.e
    [] v.kind = "time" /\ isVector(v.a) -> v.a.v[1].e
    [] OTHER -> <<>>

\* The constructor of zts: checkDims, and the index has to ascend.
ZtsOk(idx, a) == (a.dim = <<>> \/ Len(idx.e) = a.dim[1]) /\ idx.ordered
zts(idx, a) == Value("zts", IF ZtsOk(idx, a) THEN a ELSE Thrown(a), idx)

-----------------------------------------------------------------------------
\* zts::operator(): the index is subset like a column, the first two dimensions are
\* not dropped.
zts_selected(z, i, r) == IF r.threw THEN [z EXCEPT !.a = r] ELSE zts(subset_column(i, z.idx), r)
zts_indexed(z, c, dropped, garbage) ==
  IF c.threw \/ Len(c.is) # Len(z.a.dim) \/ SubsetThrows(c.is[1], z.idx)
  THEN [z EXCEPT !.a = Threw]
  ELSE zts_selected(z, c.is[1], subset_array(z.a, c.is, dropped, 2, garbage))
zts_subset(z, args, dropped, garbage) ==
  zts_indexed(z, convertToIndex(args, z.a, z.idx.e, TRUE), dropped, garbage)

zts_subassign(z, args, u) ==
  LET c == convertToIndex(args, z.a, z.idx.e, TRUE)
  IN  [z EXCEPT !.a = IF c.threw THEN Thrown(@) ELSE operator_subassign(@, c.is, u)]

zts_subsetRows(z, n, from) ==
  LET i == subsetRows(Array(<<Len(z.idx.e)>>, <<z.idx>>, <<NoNames(Len(z.idx.e))>>), n, from, FALSE)
      r == subsetRows(z.a, n, from, FALSE)
  IN  IF i.threw \/ r.threw THEN [z EXCEPT !.a = Threw] ELSE zts(i.v[1], r)

\* zts::abind: rows bring their index with them.
zts_abind(z, u, d, prefix) ==
  CASE d = 1 /\ u.kind # "zts" -> [z EXCEPT !.a = Thrown(@)]
    [] d = 1 /\ u.kind = "zts" ->
         [z EXCEPT !.idx = PushAll(@, u.idx.e), !.a = abind(@, u.a, d, prefix)]
    [] OTHER -> [z EXCEPT !.a = abind(@, u.a, d, prefix)]

\* Mutant: the order of the indices is not checked.
checkZtsDims(v, u) == v.kind = "zts" /\ u.kind = "zts" /\ checkdims(v.a.dim, u.a.dim, 1)

checkZtsBindInDim0(v, u) ==
  /\ v.kind = "zts" /\ u.kind = "zts"
  /\ checkdims(v.a.dim, u.a.dim, 1)
  /\ v.a.dim[1] > 0 /\ u.a.dim[1] > 0 => Last(v.idx.e) < u.idx.e[1]

\* The index and the dimensions of the first zts are those of all; but the loop starts
\* at the second argument.
checkZtsBindInDimGt0(v, u, d) ==
  LET first == IF v.kind = "zts" THEN v ELSE u
  IN  /\ u.kind = "zts" => u.idx.e = first.idx.e
      /\ checkdims(first.a.dim, u.a.dim, d)

-----------------------------------------------------------------------------
\* Several steps on one array, the first that throws is the last.
Then(v, F(_)) == IF v.a.threw THEN v ELSE F(v)

\* c(): in place if the first argument is a reference.
makeVector(v, u, name) == [v EXCEPT !.a = concat(@, vectorize(u.a), name)]
cHelper(v, u, ref, n0, n1) ==
  LET empty == Value(v.kind, Array(<<0>>, <<vector_rsv>>, <<NoNames(0)>>), NoIndex)
      start == IF ref THEN [v EXCEPT !.a = addprefix(@, n0, 1)] ELSE makeVector(empty, v, n0)
  IN  Then(start, LAMBDA w : makeVector(w, u, n1))

\* One argument of the bind functions: an array does not take a zts.
bindVector(v, u, d, name) ==
  CASE v.kind = "zts" -> zts_abind(v, u, d, name)
    [] v.kind # "zts" /\ u.kind = "zts" -> [v EXCEPT !.a = Thrown(@)]
    [] OTHER -> [v EXCEPT !.a = abind(@, u.a, d, name)]

bindHelper(v, u, d, ref, n0, n1) ==
  LET empty == IF v.kind = "zts" \/ u.kind = "zts"
               THEN Value("zts", Null, IF v.kind = "zts" THEN v.idx ELSE u.idx)
               ELSE Value(v.kind, Null, NoIndex)
      start == CASE ref /\ v.kind # "zts" -> [v EXCEPT !.a = addprefix(@, n0, IF isVector(@) THEN 1 ELSE d)]
                 [] v.kind = "zts" /\ (ref \/ d = 1) ->
                      IF ref /\ d > 1 THEN [v EXCEPT !.a = addprefix(@, n0, d)] ELSE v
                 [] OTHER -> bindVector(empty, v, d, n0)
      zok == IF d = 1 THEN checkZtsBindInDim0(v, u) ELSE checkZtsBindInDimGt0(v, u, d)
  IN  IF (v.kind = "zts" \/ (~ref /\ u.kind = "zts")) /\ ~zok THEN [v EXCEPT !.a = Thrown(@)]
      ELSE Then(start, LAMBDA w : bindVector(w, u, d, n1))

headf(v, n) ==
  LET rows == v.a.dim[1]
      m == IF n >= 0 THEN n ELSE Max({0, rows + n})
  IN  CASE n >= rows -> v
        [] n < rows /\ v.kind = "zts" -> zts_subsetRows(v, m, 0)
        [] OTHER -> [v EXCEPT !.a = subsetRows(@, m, 0, FALSE)]

tailf(v, n, addrownums) ==
  LET rows == v.a.dim[1]
      from == IF n >= 0 THEN Max({0, rows - n}) ELSE Min({rows, -n})
  IN  IF v.kind = "zts" THEN zts_subsetRows(v, rows - from, from)
      ELSE [v EXCEPT !.a = subsetRows(@, rows - from, from, addrownums /\ Len(v.a.dim) > 1)]

-----------------------------------------------------------------------------
\* The same value, its sequences evaluated (see Copies).
Settled(v) ==
  LET column(c) == [v.a.v[c] EXCEPT !.e = @ \o <<>>]
      dname(d)  == [v.a.names[d] EXCEPT !.names = @ \o <<>>]
  IN  [v EXCEPT !.a.dim   = @ \o <<>>,
                !.a.v     = [c \in 1 .. Len(@) |-> column(c)] \o <<>>,
                !.a.names = [d \in 1 .. Len(@) |-> dname(d)] \o <<>>,
                !.idx.e   = @ \o <<>>]

\* A call: its result becomes x; a call by value that throws leaves x alone.
Return(r, c, inplace) ==
  /\ calls' = calls + 1
  /\ call' = [c EXCEPT !.before = x, !.threw = r.a.threw]
  /\ x' = IF r.a.threw THEN IF inplace THEN Settled([r EXCEPT !.a.threw = FALSE]) ELSE x
          ELSE Settled(r)
  /\ Size(x'.a) <= MaxElements

NonDescending(s) == \A i \in 1 .. Len(s) - 1 : s[i] <= s[i + 1]

\* A value in order: a column per combination of the other dimensions, all as long as
\* the first and as the index, and flags that tell the truth.
Sound(v) ==
  /\ WellFormed(v.a)
  /\ v.kind = "zts" => Len(v.idx.e) = (IF v.a.dim = <<>> THEN 0 ELSE v.a.dim[1])
  /\ \A c \in 1 .. Len(v.a.v) : v.a.v[c].ordered => NonDescending(v.a.v[c].e)

\* What a call reads of a value that is not in order is undefined; no further call is
\* followed.
Calls == calls > 0 /\ calls < MaxCalls /\ Sound(x)
Plain == x.a.dim # <<>>

make_value == calls = 0 /\ \E v \in Sources : Return(v, [NoCall EXCEPT !.f = "make"], FALSE)

c_ ==
  Calls /\ Plain /\ x.kind # "zts" /\ \E u \in Others, ref \in BOOLEAN, n0, n1 \in ArgNames :
    /\ u.kind = x.kind
    /\ Return(cHelper(x, u, ref, n0, n1), [NoCall EXCEPT !.f = "c", !.ref = ref, !.u = u], ref)

bind ==
  Calls /\ Plain /\ \E u \in Others, d \in 1 .. 3, ref \in BOOLEAN, n0, n1 \in ArgNames :
    /\ x.kind = "time" <=> u.kind = "time"
    /\ Return(bindHelper(x, u, d, ref, n0, n1),
              [NoCall EXCEPT !.f = "bind", !.d = d, !.ref = ref, !.u = u], ref)

t_ == Calls /\ Plain /\ x.kind # "zts"
      /\ Return([x EXCEPT !.a = transpose(@)], [NoCall EXCEPT !.f = "t"], FALSE)

_sort ==
  Calls /\ x.kind # "zts" /\ \E decreasing \in BOOLEAN :
    Return([x EXCEPT !.a = array_sort(@, decreasing)], [NoCall EXCEPT !.f = "sort"], FALSE)

head_ == Calls /\ Plain /\ \E n \in Counts : Return(headf(x, n), [NoCall EXCEPT !.f = "head"], FALSE)

tail_ ==
  Calls /\ Plain /\ \E n \in Counts, addrownums \in BOOLEAN :
    Return(tailf(x, n, addrownums), [NoCall EXCEPT !.f = "tail"], FALSE)

\* Times are searched for in a column that ascends; what a search in another one finds
\* is not defined.
Searchable(args) ==
  (\E j \in 1 .. Len(args) : args[j].type \in {"time", "interval"}) => Ascends(TimesOf(x))

subset_ ==
  Calls /\ Plain /\ \E args \in {as \in IndexArgs : Searchable(as)}, dropped, dbl \in BOOLEAN :
                  \E garbage \in IF args[1].type \in {"time", "interval"} THEN BOOLEAN ELSE {FALSE} :
    /\ dbl => dropped /\ x.kind # "zts"
    /\ Return(CASE x.kind = "zts" -> zts_subset(x, args, dropped, garbage)
                [] x.kind # "zts" /\ dbl -> [x EXCEPT !.a = dblsubset(@, TimesOf(x), args, garbage)]
                [] OTHER -> [x EXCEPT !.a = subset(@, TimesOf(x), args, dropped, garbage)],
              [NoCall EXCEPT !.f = "subset", !.args = args, !.dropped = dropped], FALSE)

subassign_ ==
  Calls /\ Plain /\ \E args \in IndexArgs, u \in Elems :
    /\ Searchable(args)
    /\ Return(IF x.kind = "zts" THEN zts_subassign(x, args, u)
              ELSE [x EXCEPT !.a = subassign(@, TimesOf(x), args, u)],
              [NoCall EXCEPT !.f = "subassign", !.args = args,
                             !.u = Value("double", make_array(<<Len(u)>>, u, <<>>), NoIndex)], TRUE)

AInit == x = Value("double", Null, NoIndex) /\ call = NoCall /\ calls = 0

ANext == make_value \/ c_ \/ bind \/ t_ \/ _sort \/ head_ \/ tail_ \/ subset_ \/ subassign_

ASpec == AInit /\ [][ANext]_avars

-----------------------------------------------------------------------------
\* An index whose ways of going through it agree.
Regular(i) ==
  /\ Walk(i) = Select(i)
  /\ i.kind \in {"dtime", "interval"} => Merged(i, i.vd, 1, 1) = Walk(i)
CallIndex == convertToIndex(call.args, call.before.a, TimesOf(call.before), call.before.kind = "zts")
RegularCall ==
  call.f \in {"subset", "subassign"} => \A j \in 1 .. Len(CallIndex.is) : Regular(CallIndex.is[j])

-----------------------------------------------------------------------------
(* What the calls mean, on all the elements of an array in one sequence.   *)

\* The positions an argument stands for in a dimension of n elements.
Meant(arg, n, names, times) ==
  LET s == arg.e
      where(P(_)) == SelectSeq(Ints(1, n), P)
  IN  CASE arg.type = "null"   -> Ints(1, n)
        [] arg.type = "double" -> IF s = <<>> \/ s[1] > 0 THEN s
                                  ELSE where(LAMBDA k : -k \notin ToSet(s))
        [] arg.type = "bool"   -> where(LAMBDA k : k <= Len(s) /\ s[k])
        [] arg.type = "string" -> [j \in 1 .. Len(s) |-> Min(Positions(names.names, s[j]))]
        [] arg.type = "time"   -> FlattenSeq([j \in 1 .. Len(s) |-> where(LAMBDA k : times[k] = s[j])])
        [] arg.type = "interval" ->
             FlattenSeq([j \in 1 .. Len(s) |-> where(LAMBDA k : 2 * times[k] \in Points(s[j]))])

\* The places of a combination of positions, the first dimension running fastest.
Places(dim, ps) ==
  FoldLeft(LAMBDA acc, k : FlattenSeq([j \in 1 .. Len(ps[k]) |->
              [m \in 1 .. Len(acc) |-> acc[m] + (ps[k][j] - 1) * Product(SubSeq(dim, 1, k - 1))]]),
           <<1>>, Ints(1, Len(dim)))

MeantPlaces(a, args, times) ==
  CASE Len(args) = 1 /\ args[1].type = "null" -> Ints(1, Size(a))
    [] Len(args) = 1 /\ args[1].type # "null" -> Meant(args[1], Size(a), a.names[1], times)
    [] OTHER -> Places(a.dim, [d \in 1 .. Len(args) |-> Meant(args[d], a.dim[d], a.names[d], times)])

Returned(f) == call.f = f /\ ~call.threw /\ RegularCall
CallPlaces == MeantPlaces(call.before.a, call.args, TimesOf(call.before))

\* A call that returns leaves x in order: every column as long as the dimensions, the
\* names and the index say, and marked as ordered only if it is.  Flags are updated one
\* element at a time by every function, names and columns separately.
CallsLeaveOrder == RegularCall /\ ~call.threw => Sound(x)

\* The index of a time series ascends, whatever was selected, bound or assigned.
IndexAscends == x.kind = "zts" => Ascends(x.idx.e)

\* x[...] are the elements the arguments stand for, in their order.  A matrix taken as
\* one vector gives those before the first that lies in an earlier column or nowhere.
SubsetIsRight ==
  Returned("subset") =>
    LET from == Elements(call.before.a)
        there == SelectSeq(CallPlaces, LAMBDA p : p <= Len(from))
        all  == [k \in 1 .. Len(there) |-> from[there[k]]]
    IN  IF Len(call.args) = 1 /\ Len(call.before.a.dim) > 1 /\ ~NonDescending(CallPlaces)
        THEN IsPrefix(Elements(x.a), all)
        ELSE Elements(x.a) = all

\* x[...] <- u changes the elements the arguments stand for and no other; of several
\* values for one element one stays.
AssignIsRight ==
  Returned("subassign") =>
    LET u == Elements(call.u.a)
        value(k) == IF Len(u) = 1 THEN u[1] ELSE u[k]
    IN  /\ x.a.dim = call.before.a.dim /\ x.a.names = call.before.a.names
        /\ \A p \in 1 .. Size(x.a) :
             LET ks == {k \in 1 .. Len(CallPlaces) : CallPlaces[k] = p}
             IN  Elements(x.a)[p] \in IF ks = {} THEN {Elements(call.before.a)[p]}
                                      ELSE {value(k) : k \in ks}

\* Binding along d puts the elements of the second array behind those of the first in
\* that dimension; c() puts them behind all.
JoinIsRight ==
  LET b == call.before.a
      u == call.u.a
      d == call.d
      padded(dim) == [k \in 1 .. Max({Len(dim), d}) |-> IF k <= Len(dim) THEN dim[k] ELSE 1]
      asRow(dim) == IF d = 1 /\ Len(dim) = 1 THEN <<1>> \o dim ELSE padded(dim)
      bdim == asRow(b.dim)
      udim == asRow(u.dim)
      place(dim, p) == 1 + FoldLeftDomain(LAMBDA n, k : n + (p[k] - 1) * Product(SubSeq(dim, 1, k - 1)), 0, dim)
  IN  /\ call.f = "c" /\ ~call.threw => Elements(x.a) = Elements(b) \o Elements(u)
      /\ call.f = "bind" /\ ~call.threw =>
           /\ x.a.dim = [bdim EXCEPT ![d] = @ + udim[d]]
           /\ \A p \in [1 .. Len(bdim) -> 1 .. Max(ToSet(x.a.dim) \cup {0})] :
                (\A k \in 1 .. Len(bdim) : p[k] <= x.a.dim[k]) =>
                  Elements(x.a)[place(x.a.dim, p)] =
                    IF p[d] <= bdim[d] THEN Elements(b)[place(bdim, p)]
                    ELSE Elements(u)[place(udim, [p EXCEPT ![d] = @ - bdim[d]])]

Found(v) ==
  \A d \in 1 .. Len(v.a.names) :
    LET dn == v.a.names[d]
    IN  \A i \in 1 .. Len(dn.names) : dn.names[i] # NoName =>
          dname_lookup(dn, dn.names[i]) = Min(Positions(dn.names, dn.names[i]))

\* Names are found where they are first, through the map that is kept beside them, and
\* stay so from call to call; but head and tail lose the first name they copy.
NamesAreFound == Found(call.before) /\ call.f \notin {"head", "tail"} => Found(x)

\* "we can't really let an incorrect subassign mess up an array" (array.hpp): an
\* assignment that throws changes nothing.
FailedAssignChangesNothing == call.f = "subassign" /\ call.threw => x = call.before

\* Any sequence of calls leaves an array in which dimensions, columns, order flags, names,
\* the map of the names and the index of a time series agree, and selection, assignment and
\* binding put every element where the arguments say.
ArraysAreRight ==
  /\ CallsLeaveOrder /\ IndexAscends /\ NamesAreFound
  /\ SubsetIsRight /\ AssignIsRight /\ JoinIsRight
=============================================================================
