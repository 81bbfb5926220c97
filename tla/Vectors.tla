------------------------------ MODULE Vectors -------------------------------
(***************************************************************************)
(* arr::Vector (vector_base.hpp) and arr::Dname (dname.cpp).               *)
(*                                                                         *)
(* A vector is its elements e and the flag "ordered", which is kept up to  *)
(* date element by element so that nobody has to look at the whole vector. *)
(* Elements are numbers, positions count from 1.                           *)
(***************************************************************************)
EXTENDS Integers, SequencesExt

\* operator O: std::less.
Ascends(s) == \A i \in 1 .. Len(s) - 1 : s[i] < s[i + 1]

\* n times t.  s \o <<>> is s, but has TLC evaluate it: of a sequence that is not
\* evaluated, \o and Append lose what EXCEPT has changed.
Copies(n, t) == [i \in 1 .. n |-> t] \o <<>>

-----------------------------------------------------------------------------
(* Constructors: of n equal elements, from a range, and with room only.    *)

vector_n(n, t) == [e |-> Copies(n, t), ordered |-> n <= 1]
vector_range(s) == [e |-> s, ordered |-> Ascends(s)]
vector_rsv == [e |-> <<>>, ordered |-> TRUE]

push_back(v, t) ==
  [e       |-> Append(v.e, t),
   ordered |-> v.e = <<>> \/ (v.ordered /\ Last(v.e) < t)]

PushAll(v, s) == FoldLeft(push_back, v, s)

\* insert(end(), s): the flag is remembered, as an iterator that is dereferenced
\* clears it; the order inside s is only looked at while the flag is set, so never.
insert_end(v, s) ==
  IF s = <<>> THEN v
  ELSE [e       |-> v.e \o s,
        ordered |-> v.ordered /\ (v.e = <<>> \/ Last(v.e) < s[1])]

\* erase of the positions from .. to: moving the elements clears the flag, unless
\* there are none to move.
erase(v, from, to) ==
  [e       |-> SubSeq(v.e, 1, from - 1) \o SubSeq(v.e, to + 1, Len(v.e)),
   ordered |-> v.ordered /\ to = Len(v.e)]

\* resize to fewer elements.
shrink(v, n) == [v EXCEPT !.e = SubSeq(@, 1, n)]

append(v, u) ==
  [e       |-> v.e \o u.e,
   ordered |-> IF u.e = <<>> THEN v.ordered
               ELSE v.ordered /\ u.ordered /\ (v.e = <<>> \/ Last(v.e) < u.e[1])]

\* sort(): nothing if the flag is set; sort<greater>() leaves it cleared.
sort(v) ==
  IF v.ordered THEN v
  ELSE [e |-> SortSeq(v.e, LAMBDA a, b : a < b), ordered |-> TRUE]
sort_greater(v) ==
  [e       |-> SortSeq(v.e, LAMBDA a, b : a > b),
   ordered |-> v.ordered /\ Len(v.e) <= 1]

-----------------------------------------------------------------------------
(* Assignment to one element.  While the flag is set the neighbours decide *)
(* whether it stays; setv_checkbefore leaves the one behind to the next    *)
(* assignment.                                                             *)

\* Mutant: the element behind is not looked at.
setv_before(v, i, t) ==
  [e |-> [v.e EXCEPT ![i] = t], ordered |-> v.ordered /\ (i > 1 => v.e[i - 1] < t)]

setv(v, i, t) ==
  [e       |-> [v.e EXCEPT ![i] = t],
   ordered |-> /\ v.ordered
               /\ i > 1 => v.e[i - 1] < t
               /\ i < Len(v.e) => t < v.e[i + 1]]

setv_checkbefore(v, i, t) ==
  [e       |-> [v.e EXCEPT ![i] = t],
   ordered |-> v.ordered /\ (i > 1 => v.e[i - 1] < t)]

\* apply(): every element in turn, the flag computed anew.
apply(v, F(_)) ==
  FoldLeftDomain(LAMBDA w, i : setv_checkbefore(w, i, F(i)),
                 [v EXCEPT !.ordered = TRUE], v.e)

-----------------------------------------------------------------------------
(* Dname: the names of one dimension of length sz.  No names at all is     *)
(* names = <<>>.  A name is a sequence of parts, numbers; NoName is the    *)
(* empty string.  map says where a name is.                                *)

NoName == <<>>
Dot == 0

Positions(names, s) == {i \in 1 .. Len(names) : names[i] = s}
putNamesInMap(names) == [s \in ToSet(names) \ {NoName} |-> Positions(names, s)]
Dname(n, names) == [sz |-> n, names |-> names, map |-> putNamesInMap(names)]
NoNames(n) == Dname(n, <<>>)

hasNames(d) == d.sz > 0 /\ d.sz = Len(d.names)

\* Names that are all empty are no names.
Renamed(d, n, names) ==
  [sz    |-> n,
   names |-> IF ToSet(names) \subseteq {NoName} THEN <<>> ELSE names,
   map   |-> putNamesInMap(names)]

dname_resize(d, n) ==
  IF d.names = <<>> THEN [d EXCEPT !.sz = n]
  ELSE Renamed(d, n, [i \in 1 .. n |-> IF i <= Len(d.names) THEN d.names[i] ELSE NoName])

\* The first name of a dimension without names is not put in the map.
dname_assign(d, i, s) ==
  CASE s = NoName /\ d.names = <<>> -> d
    [] s # NoName /\ ~hasNames(d)   -> [d EXCEPT !.names = [Copies(d.sz, NoName) EXCEPT ![i] = s]]
    [] OTHER                        -> Renamed(d, d.sz, [d.names EXCEPT ![i] = s])

AddToMap(map, s, P) ==
  [t \in DOMAIN map \cup {s} |->
     (IF t \in DOMAIN map THEN map[t] ELSE {}) \cup (IF t = s THEN P ELSE {})]

dname_addafter(d, s) ==
  IF s = NoName /\ d.names = <<>> THEN [d EXCEPT !.sz = @ + 1]
  ELSE [sz    |-> d.sz + 1,
        names |-> Append(IF d.names = <<>> THEN Copies(d.sz, NoName) ELSE d.names, s),
        map   |-> AddToMap(d.map, s, {d.sz + 1})]

\* Mutant: the map points to the positions in u.
dname_addall_unshifted(d, u) ==
  LET names(x) == IF x.names = <<>> THEN Copies(x.sz, NoName) ELSE x.names
  IN  [sz    |-> d.sz + u.sz,
       names |-> IF d.names = <<>> /\ u.names = <<>> THEN <<>> ELSE names(d) \o names(u),
       map   |-> FoldLeftDomain(LAMBDA m, j : AddToMap(m, u.names[j], {j}), d.map, u.names)]

dname_addall(d, u) ==
  [sz    |-> d.sz + u.sz,
   names |-> IF d.names = <<>> /\ u.names = <<>> THEN <<>>
             ELSE (IF d.names = <<>> THEN Copies(d.sz, NoName) ELSE d.names)
                  \o (IF u.names = <<>> THEN Copies(u.sz, NoName) ELSE u.names),
   map   |-> FoldLeftDomain(LAMBDA m, j : AddToMap(m, u.names[j], {d.sz + j}),
                            d.map, u.names)]

\* A prefix p makes "p.s" of a name s and "p" with its number of an empty one;
\* a number is a part that is not a name.
dname_addprefix(d, p) ==
  IF p = NoName THEN d
  ELSE LET old == IF d.sz # Len(d.names) THEN Copies(d.sz, NoName) ELSE d.names
           new == [i \in 1 .. Len(old) |->
                     IF old[i] # NoName THEN p \o <<Dot>> \o old[i]
                     ELSE IF Len(old) = 1 THEN p ELSE Append(p, -i)]
       IN  Dname(d.sz, new)

\* Where a name is first; 0: it throws.
dname_lookup(d, s) ==
  IF s \in DOMAIN d.map THEN CHOOSE i \in d.map[s] : \A j \in d.map[s] : i <= j ELSE 0
=============================================================================
