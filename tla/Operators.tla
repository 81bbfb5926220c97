----------------------------- MODULE Operators ------------------------------
(***************************************************************************)
(* Unary and binary operators on values (unop_binop_funcs.cpp) and the     *)
(* mathematical functions (base_funcs_math.cpp).                           *)
(*                                                                         *)
(* l is what a variable of the interpreter holds.  If it is passed by      *)
(* reference, an operator whose result has its type works on the           *)
(* variable's own array; otherwise a new array is made.  Elements of all   *)
(* types are numbers, and what an operator does to two of them is Elem.    *)
(***************************************************************************)
EXTENDS Arrays

CONSTANTS Lefts, Rights,     \* the operands
          Elem(_, _, _),     \* an operator applied to two elements
          MaxOps             \* bound: operators in a row

VARIABLES l, rhs,            \* the operands, l.ref: passed by reference
          out,               \* the last operator: what l was, what came out
          torn,              \* a refused operator has left l half changed
          nops

ovars == <<l, rhs, out, torn, nops>>

Kinds == {"double", "zts", "time", "duration", "interval", "period", "bool", "string",
          "list", "error", "function"}
Operand(kind, a, idx) == [kind |-> kind, a |-> a, idx |-> idx, ref |-> FALSE]
NoOperand == Operand("null", Null, <<>>)

\* A variable holds an array in order, whose flags do not lie; a time series has a time
\* for each of its rows.
FlagsHold(a) == \A c \in 1 .. Len(a.v) : a.v[c].ordered => Ascends(a.v[c].e)
Column == [e : Seq(Int), ordered : BOOLEAN]
IsArray(a) ==
  /\ a \in [dim : Seq(Nat), v : Seq(Column), names : {a.names}, threw : {FALSE}]
  /\ WellFormed(a)
IsOperand(x) ==
  /\ x \in [kind : Kinds, a : {x.a}, idx : Seq(Int), ref : BOOLEAN]
  /\ IsArray(x.a)
  /\ Len(x.idx) = IF x.kind = "zts" THEN x.a.dim[1] ELSE 0

ASSUME OperatorsAssumption ==
  MaxOps \in Nat /\ \A x \in Lefts \cup Rights : IsOperand(x) /\ FlagsHold(x.a)

NoOut == [op |-> "none", before |-> NoOperand, zone |-> FALSE, inplace |-> FALSE,
          threw |-> FALSE, res |-> NoOperand]

arithmetic == {"PLUS", "MINUS", "MUL", "DIV", "MOD", "POWER"}
plus_minus == {"PLUS", "MINUS"}
mul_div    == {"MUL", "DIV"}
eq_ne      == {"EQ", "NE"}
comp       == eq_ne \cup {"LE", "LT", "GE", "GT"}
boolean    == comp \cup {"AND", "AND2", "OR", "OR2"}
or_and     == {"AND", "OR"}

-----------------------------------------------------------------------------
(* The switch over the types of both operands: which operators there are,  *)
(* of which type their result is, and which of them can work in place.     *)

Rule(k1, k2, ops, k) == [k1 |-> k1, k2 |-> k2, ops |-> ops, k |-> k]

DoubleRules ==
  {Rule("double", "double", arithmetic, "double"), Rule("double", "double", boolean, "bool"),
   Rule("double", "zts", arithmetic, "zts"), Rule("double", "zts", boolean, "bool"),
   Rule("double", "duration", {"MUL"}, "duration"), Rule("double", "period", {"MUL"}, "period")}

ZtsRules == UNION {{Rule("zts", k, arithmetic, "zts"), Rule("zts", k, boolean, "bool")} : k \in {"double", "zts"}}

TimeRules == {Rule("time", "time", {"MINUS"}, "duration"), Rule("time", "time", comp, "bool"),
              Rule("time", "duration", plus_minus, "time"), Rule("time", "period", plus_minus, "time")}

DurationRules == {Rule("duration", "duration", plus_minus, "duration"),
                  Rule("duration", "duration", comp, "bool"),
                  Rule("duration", "time", {"PLUS"}, "time"),
                  Rule("duration", "interval", {"PLUS"}, "interval"),
                  Rule("duration", "double", mul_div, "duration")}

IntervalRules == {Rule("interval", "interval", comp, "bool"),
                  Rule("interval", "duration", plus_minus, "interval"),
                  Rule("interval", "period", plus_minus, "interval")}

\* Mutant: a period in front of an interval is forgotten.
PeriodRulesFewer == {Rule("period", "period", plus_minus, "period"), Rule("period", "period", eq_ne, "bool"),
                     Rule("period", "time", {"PLUS"}, "time"), Rule("period", "double", mul_div, "period")}

PeriodRules == {Rule("period", "period", plus_minus, "period"), Rule("period", "period", eq_ne, "bool"),
                Rule("period", "time", {"PLUS"}, "time"), Rule("period", "interval", {"PLUS"}, "interval"),
                Rule("period", "double", mul_div, "period")}

BoolRules == {Rule("bool", "bool", boolean, "bool")}

\* An error is compared with a string by its text.
StringRules == {Rule(k[1], k[2], comp, "bool") :
                  k \in {<<"string", "string">>, <<"string", "error">>, <<"error", "string">>}}

Rules == DoubleRules \cup ZtsRules \cup TimeRules \cup DurationRules \cup IntervalRules
           \cup PeriodRules \cup BoolRules \cup StringRules
Applies(k1, k2, op) == {u \in Rules : u.k1 = k1 /\ u.k2 = k2 /\ op \in u.ops}

InplaceOps(k1, k2) ==
  CASE <<k1, k2>> \in {<<"double", "double">>, <<"zts", "double">>, <<"zts", "zts">>} -> arithmetic
    [] <<k1, k2>> \in {<<k, d>> : k \in {"time", "interval"}, d \in {"duration", "period"}}
         \cup {<<"duration", "duration">>, <<"period", "period">>} -> plus_minus
    [] <<k1, k2>> = <<"duration", "double">> -> mul_div
    [] <<k1, k2>> = <<"bool", "bool">>       -> or_and
    [] OTHER -> {}

\* Mutant: the operand that may have one element is the wrong one.
isInplaceSwapped(x, y) == x.ref /\ (Size(x.a) = Size(y.a) \/ Size(x.a) = 1)

isInplace(x, y) == x.ref /\ (Size(x.a) = Size(y.a) \/ Size(y.a) = 1)

NeedsZone(k1, k2) == "period" \in {k1, k2} /\ {k1, k2} \cap {"time", "interval"} # {}

-----------------------------------------------------------------------------
(* Over all elements.                                                      *)

\* Row i of column c; one element goes with every element.
Part(a, c, i) == IF Size(a) = 1 THEN a.v[1].e[1] ELSE a.v[c].e[i]

\* A new array of the dimensions and the names of big.
NewArray(big, G(_, _)) ==
  [big EXCEPT !.v = [c \in 1 .. Len(@) |->
                       PushAll(vector_rsv, [i \in 1 .. Len(@[c].e) |-> G(c, i)])]]

apply_scalar(t, u, op) ==
  NewArray(IF Size(t) = 1 THEN u ELSE t, LAMBDA c, i : Elem(op, Part(t, c, i), Part(u, c, i)))

\* Mutant: the rows of the first column are used for all.
apply_first(t, u, op) ==
  IF Size(t) = 1 \/ Size(u) = 1 THEN apply_scalar(t, u, op)
  ELSE IF t.dim # u.dim THEN Threw
  ELSE NewArray(u, LAMBDA c, i : Elem(op, t.v[1].e[i], u.v[c].e[i]))

\* apply and apply_attrib of two arrays.
apply_arrays(t, u, op) ==
  IF Size(t) = 1 \/ Size(u) = 1 THEN apply_scalar(t, u, op)
  ELSE IF t.dim # u.dim THEN Threw
  ELSE [NewArray(u, LAMBDA c, i : Elem(op, t.v[c].e[i], u.v[c].e[i])) EXCEPT
          !.names = [j \in 1 .. Len(@) |-> IF hasNames(t.names[j]) THEN t.names[j] ELSE @[j]]]

\* Vector::apply: the flag is found anew; without enough elements in w it throws when
\* it gets there.
\* Mutant: the flag is left as it was.
apply_column_keep(v, w, op) ==
  FoldLeftDomain(LAMBDA s, i :
                   IF i > Len(w) THEN [s EXCEPT !.threw = TRUE]
                   ELSE [s EXCEPT !.v.e[i] = Elem(op, @, w[i])],
                 [v |-> v, threw |-> FALSE], v.e)

apply_column(v, w, op) ==
  FoldLeftDomain(LAMBDA s, i :
                   IF i > Len(w) THEN [s EXCEPT !.threw = TRUE]
                   ELSE [s EXCEPT !.v = setv_checkbefore(@, i, Elem(op, @.e[i], w[i]))],
                 [v |-> [v EXCEPT !.ordered = TRUE], threw |-> FALSE], v.e)

\* Array::apply, in place: no dimensions are compared.  The columns in turn, up to
\* the one that throws.
apply_inplace(t, u, op) ==
  FoldLeftDomain(LAMBDA s, c :
                   CASE s.threw -> s
                     [] ~s.threw /\ Size(u) # 1 /\ c > Len(u.v) -> Thrown(s)
                     [] OTHER ->
                          LET w == IF Size(u) = 1 THEN Copies(Len(t.v[c].e), u.v[1].e[1]) ELSE u.v[c].e
                              d == apply_column(t.v[c], w, op)
                          IN  [s EXCEPT !.v = [@ EXCEPT ![c] = d.v], !.threw = d.threw],
                 [t EXCEPT !.v = @ \o <<>>], t.v)

\* Mutant: the dimensions are not compared.
apply_attrib_unchecked(t, u, op) == apply_inplace(t, u, op)

\* Every element i in turn becomes g[i]; the flag can only be cleared.
setv_all(v, g) == FoldLeftDomain(LAMBDA s, i : setv_checkbefore(s, i, g[i]), v, v.e)

\* Array::apply_attrib, in place: the dimensions are compared.
apply_attrib(t, u, op) ==
  IF Size(u) # 1 /\ ~checkdims(t.dim, u.dim, 0) THEN Thrown(t)
  ELSE [t EXCEPT !.v = [c \in 1 .. Len(@) |->
          setv_all(@[c], [i \in 1 .. Len(@[c].e) |-> Elem(op, @[c].e[i], Part(u, c, i))])]]

-----------------------------------------------------------------------------
(* A list is compared element by element with any other value.  Its        *)
(* elements stand for numbers, so only a number can be equal to one.       *)

isNumber(v, n) == v.kind = "double" /\ isScalar(v.a) /\ v.a.v[1].e[1] = n

evalbinop_array_scalar(lst, v, op) ==
  IF op \notin eq_ne THEN Threw
  ELSE NewArray(lst.a, LAMBDA c, i : IF isNumber(v, lst.a.v[c].e[i]) = (op = "EQ") THEN 1 ELSE 0)

Scalar1(n) == make_array(<<1>>, <<n>>, <<>>)
First(a) == Size(a) > 0 /\ a.v[1].e[1] # 0
Bool(b) == Scalar1(IF b THEN 1 ELSE 0)

\* Different types are different; there is no other operator on them, and none at
\* all on two values of a type without rules.
evalbinop_value_value_comp(x, y, op) ==
  IF x.kind # y.kind /\ op \in eq_ne THEN Bool(op = "NE") ELSE Threw

zts_of(idx, a) == IF ~a.threw /\ Len(idx) # a.dim[1] THEN Threw ELSE a

doop(x, y, op, k) ==
  CASE op = "AND2" -> Bool(First(x.a) /\ First(y.a))
    [] op = "OR2"  -> Bool(First(x.a) \/ First(y.a))
    [] k = "zts"   -> zts_of(IF x.kind = "zts" THEN x.idx ELSE y.idx, apply_arrays(x.a, y.a, op))
    [] OTHER       -> apply_arrays(x.a, y.a, op)

Outcome(k, a, x, y) ==
  [inplace |-> FALSE, left |-> x.a, threw |-> a.threw,
   res |-> Operand(k, a, IF k # "zts" THEN <<>> ELSE IF x.kind = "zts" THEN x.idx ELSE y.idx)]

\* Nothing is done in place.
evalbinop_copy(x, y, op, zone) ==
  LET A == Applies(x.kind, y.kind, op)
      k == (CHOOSE u \in A : TRUE).k
  IN  CASE y.kind = "list" \/ x.kind = "list" ->
             Outcome("bool",
                     CASE y.kind = "list" /\ x.kind = "list" -> Threw
                       [] y.kind = "list" /\ x.kind # "list" -> evalbinop_array_scalar(y, x, op)
                       [] OTHER -> evalbinop_array_scalar(x, y, op), x, y)
        [] x.kind = "zts" /\ y.kind = "zts" /\ x.idx # y.idx -> Outcome("zts", Threw, x, y)
        [] x.kind # "list" /\ y.kind # "list" /\ A = {} ->
             Outcome("bool", evalbinop_value_value_comp(x, y, op), x, y)
        [] NeedsZone(x.kind, y.kind) /\ A # {} /\ ~zone -> Outcome(k, Threw, x, y)
        [] OTHER -> Outcome(k, doop(x, y, op, k), x, y)

evalbinop_inplace(x, y, op) ==
  LET a == IF NeedsZone(x.kind, y.kind) THEN apply_attrib(x.a, y.a, op) ELSE apply_inplace(x.a, y.a, op)
  IN  [inplace |-> TRUE, left |-> a, threw |-> a.threw, res |-> [x EXCEPT !.a = a]]

evalbinop(x, y, op, zone) ==
  IF /\ isInplace(x, y) /\ op \in InplaceOps(x.kind, y.kind)
     /\ NeedsZone(x.kind, y.kind) => zone
     /\ x.kind = "zts" /\ y.kind = "zts" => x.idx = y.idx
  THEN evalbinop_inplace(x, y, op) ELSE evalbinop_copy(x, y, op, zone)

evalunop(x, op) ==
  LET ok  == \/ op \in plus_minus /\ x.kind \in {"double", "duration", "period"}
             \/ op = "NOT" /\ x.kind \in {"double", "bool"}
      ref == x.ref /\ (x.kind = "double" => op \in plus_minus)
      Un(e) == CASE op = "PLUS" -> e [] op = "MINUS" -> -e [] OTHER -> IF e = 0 THEN 1 ELSE 0
      a   == CASE ~ok -> Thrown(x.a)
               [] ok /\ op = "PLUS" -> x.a
               [] ok /\ op # "PLUS" /\ ref ->
                    [x.a EXCEPT !.v = [c \in 1 .. Len(@) |->
                       setv_all([@[c] EXCEPT !.ordered = TRUE], [i \in 1 .. Len(@[c].e) |-> Un(@[c].e[i])])]]
               [] OTHER -> NewArray(x.a, LAMBDA c, i : Un(x.a.v[c].e[i]))
  IN  [inplace |-> ok /\ ref, threw |-> ~ok, left |-> IF ok /\ ref THEN a ELSE x.a,
       res |-> [x EXCEPT !.a = a, !.kind = IF op = "NOT" THEN "bool" ELSE @, !.ref = FALSE]]

-----------------------------------------------------------------------------
OInit == l \in Lefts /\ rhs = NoOperand /\ out = NoOut /\ torn = FALSE /\ nops = 0

Done(op, zone, e) ==
  /\ nops' = nops + 1
  /\ out' = [op |-> op, before |-> l, zone |-> zone, inplace |-> e.inplace,
             threw |-> e.threw, res |-> e.res]
  /\ l' = [l EXCEPT !.a = [e.left EXCEPT !.threw = FALSE]]
  /\ torn' = (torn \/ (e.threw /\ l'.a # l.a))

Binop == out = NoOut /\ \E y \in Rights, op \in arithmetic \cup boolean, zone \in BOOLEAN :
           /\ zone \/ NeedsZone(l.kind, y.kind)
           /\ rhs' = y
           /\ Done(op, zone, evalbinop(l, y, op, zone))

Unop == out = NoOut /\ \E op \in {"PLUS", "MINUS", "NOT"} :
          rhs' = NoOperand /\ Done(op, FALSE, evalunop(l, op))

\* The function f of every element.
applyf(a, f) ==
  [a EXCEPT !.v = [c \in 1 .. Len(@) |-> setv_all(@[c], [i \in 1 .. Len(@[c].e) |-> f[@[c].e[i]]])]]

\* sin, cos and the others, on the variable's own array or on a copy; this one falls
\* and rises.
mathfunc ==
  LET a  == applyf(l.a, [e \in Int |-> e * e - 2 * e])
      ok == l.kind \in {"double", "zts"}
  IN  /\ out = NoOut /\ rhs' = NoOperand
      /\ Done("math", FALSE,
              [inplace |-> ok /\ l.ref, threw |-> ~ok, left |-> IF ok /\ l.ref THEN a ELSE l.a,
               res |-> [l EXCEPT !.a = IF ok THEN a ELSE Thrown(@), !.ref = FALSE]])

\* floor and ceiling always work on a copy and know no references.  A number has no
\* unit; a time or an interval has one, and from a day on a time zone.
floor ==
  out = NoOut /\ \E unit \in {"null", "hour", "day"}, zone \in BOOLEAN, up \in BOOLEAN :
    LET n  == IF unit = "day" THEN 3 ELSE 2
        a  == applyf(l.a, [e \in Int |-> (e - (e % n)) + (IF up /\ (e % n) # 0 THEN n ELSE 0)])
        ok == /\ ~l.ref
              /\ \/ l.kind \in {"double", "zts"} /\ unit = "null"
                 \/ l.kind \in {"time", "interval"} /\ unit # "null" /\ (unit = "day" => zone)
    IN  /\ rhs' = NoOperand
        /\ Done("floor", zone, [inplace |-> FALSE, threw |-> ~ok, left |-> l.a,
                                res |-> [l EXCEPT !.a = IF ok THEN a ELSE Thrown(@), !.ref = FALSE]])

\* The result is assigned to the variable, or is dropped.
Keep ==
  /\ out # NoOut /\ nops < MaxOps
  /\ \/ ~out.threw /\ l' = [out.res EXCEPT !.ref = l.ref]
     \/ UNCHANGED l
  /\ rhs' = NoOperand /\ out' = NoOut /\ UNCHANGED <<torn, nops>>

ONext == Binop \/ Unop \/ mathfunc \/ floor \/ Keep
OSpec == OInit /\ [][ONext]_ovars

-----------------------------------------------------------------------------
(* Properties.                                                             *)

Binary == out.op \in arithmetic \cup boolean /\ rhs # NoOperand
Grid(a) == {<<c, i>> : c \in 1 .. Len(a.v), i \in 1 .. (IF a.dim = <<>> THEN 0 ELSE a.dim[1])}
SameElements(a, b) == [c \in 1 .. Len(a.v) |-> a.v[c].e] = [c \in 1 .. Len(b.v) |-> b.v[c].e]

\* An operator that is not refused combines the elements at the same place of both
\* operands, in place or not, whichever of them has one element; a time series keeps
\* one time for each of its rows.
OperatorIsRight ==
  Binary /\ ~out.threw /\ out.op \notin {"AND2", "OR2"} /\ Applies(out.before.kind, rhs.kind, out.op) # {} =>
    /\ \A p \in Grid(out.res.a) :
         out.res.a.v[p[1]].e[p[2]]
           = Elem(out.op, Part(out.before.a, p[1], p[2]), Part(rhs.a, p[1], p[2]))
    /\ out.res.a.dim \in {out.before.a.dim, rhs.a.dim}
    /\ WellFormed(out.res.a)
    /\ out.res.kind = "zts" => Len(out.res.idx) = out.res.a.dim[1]

\* "if it's a pure reference and if the sizes are compatible for inplace assignment,
\* modify in place": what is computed in place is what would have been computed in
\* a new array, and nothing is refused in place that would not have been refused.
InplaceAgrees ==
  Binary /\ out.inplace =>
    LET c == evalbinop_copy(out.before, rhs, out.op, out.zone)
    IN  /\ out.threw => c.threw
        /\ ~c.threw => /\ SameElements(out.res.a, c.res.a)
                       /\ out.res.kind = c.res.kind /\ out.res.idx = c.res.idx
                       /\ out.res.a.dim = c.res.a.dim \/ Size(out.res.a) = 1

\* The flag of a column that says it ascends does not lie after any operators in a
\* row, in place or copied, as long as none of them was refused half way.
OrderFlagsHold == ~torn => FlagsHold(l.a) /\ FlagsHold(out.res.a)

\* An operator that is refused leaves the variable as it was, unless it works in
\* place on as many elements as the other operand has in other dimensions, and none
\* of them is a period, for which the dimensions are compared.
RefusalKeeps ==
  Binary /\ out.threw =>
    \/ l.a = out.before.a
    \/ /\ out.inplace /\ Size(l.a) = Size(rhs.a) /\ l.a.dim # rhs.a.dim
       /\ ~NeedsZone(l.kind, rhs.kind)

\* Sums and comparisons for equality do not depend on the order of the operands, for
\* any two types.
SumsCommute ==
  Binary /\ ~out.inplace /\ out.op \in {"PLUS"} \cup eq_ne =>
    LET c == evalbinop_copy(rhs, out.before, out.op, out.zone)
    IN  /\ out.threw <=> c.threw
        /\ ~c.threw => SameElements(out.res.a, c.res.a) /\ out.res.kind = c.res.kind

\* An operator computes the same in place and in a new array, in either order where it
\* commutes, keeps its order flags true, and changes nothing when it is refused.
OperatorsAreRight == OperatorIsRight /\ InplaceAgrees /\ OrderFlagsHold /\ RefusalKeeps /\ SumsCommute
=============================================================================
