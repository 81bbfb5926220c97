-------------------------------- MODULE Lang --------------------------------
(***************************************************************************)
(* The language of ztsdb and what a program means.                         *)
(*                                                                         *)
(* Expressions are records; their field t is the type of the node of the   *)
(* syntax tree (ast.hpp).  Eval says directly what an expression does to a *)
(* stack of environments: arguments are matched by name and then by        *)
(* position, a function sees the variables of its callers ("for the time   *)
(* being at least, no closures"), an error leaves everything up to the     *)
(* tryCatch around it.  Interp is the machine that is to compute the same. *)
(***************************************************************************)
EXTENDS Integers, Sequences, FiniteSets, SequencesExt

CONSTANT MaxDepth            \* how deeply calls nest: the option "expressions"

\* Op(e), where e is evaluated once.
With(e, Op(_)) == CHOOSE y \in {Op(z) : z \in {e}} : TRUE

-----------------------------------------------------------------------------
(* Names: <<x, 0>> is a variable of the program, <<x, n>> a temporary one, *)
(* whose name begins with a question mark.                                 *)

V(x) == <<x, 0>>
isTmp(n) == n[2] > 0
NoVar == V("")

Num(n)       == [t |-> "num", v |-> <<n>>]
NullE        == [t |-> "null"]
Str(x)       == [t |-> "str", x |-> V(x)]
Sym(n)       == [t |-> "sym", x |-> n]
Bin(op, a, b) == [t |-> "bin", op |-> op, a |-> a, b |-> b]
Neg(a)       == [t |-> "un", a |-> a]
Let(n, e)    == [t |-> "la", x |-> n, e |-> e]
LetUp(n, e)  == [t |-> "sa", x |-> n, e |-> e]
Blk(es)      == [t |-> "blk", es |-> es]
If(c, a, b)  == [t |-> "if", c |-> c, a |-> a, b |-> b]
While(c, b)  == [t |-> "while", c |-> c, b |-> b]
For(n, e, b) == [t |-> "for", x |-> n, e |-> e, b |-> b]
Fun(fs, b)   == [t |-> "fun", fs |-> fs, b |-> b]
Call(f, as)  == [t |-> "call", f |-> f, as |-> as]
Nothing      == [t |-> "none"]

\* A formal argument: its name and its default, or the ellipsis.
Formal(n, e) == [x |-> n, e |-> e, dots |-> FALSE]
Dots == [x |-> NoVar, e |-> Nothing, dots |-> TRUE]
\* An actual argument: its tag, if any, and its expression.
Actual(n, e) == [x |-> n, e |-> e]
Arg(e) == Actual(NoVar, e)

Clos(f)  == [t |-> "clos", f |-> f]
Blt(b)   == [t |-> "blt", b |-> b]
isFun(v) == v.t \in {"clos", "blt"}
isTrue(v) == v.t = "num" /\ Len(v.v) = 1 /\ v.v[1] # 0
isTruth(v) == v.t = "num" /\ Len(v.v) = 1

\* What an infix operator does to two values; an empty answer is a refusal.
evalbinop2(op, a, b) ==
  IF ~isTruth(a) \/ ~isTruth(b) THEN {}
  ELSE LET x == a.v[1]
           y == b.v[1]
       IN  {Num(CASE op = "+" -> x + y [] op = "*" -> x * y
                  [] op = "<=" -> IF x <= y THEN 1 ELSE 0
                  [] op = "==" -> IF x = y THEN 1 ELSE 0)}

-----------------------------------------------------------------------------
(* Built-in functions: their formal arguments, those that are not          *)
(* evaluated, and what the ones without an effect compute.                 *)

EnvirFormals == <<Formal(V("envir"), Str("current")), Formal(V("inherits"), Num(0))>>

Signatures ==
  [stop      |-> <<Formal(V("x"), Nothing)>>,
   c         |-> <<Dots>>,
   length    |-> <<Formal(V("x"), Nothing)>>,
   dblsubset |-> <<Formal(V("x"), Nothing), Formal(V("i"), Nothing)>>,
   tryCatch  |-> <<Formal(V("expr"), Nothing), Formal(V("catch"), Nothing)>>,
   get       |-> <<Formal(V("x"), Nothing)>> \o EnvirFormals,
   assign    |-> <<Formal(V("x"), Nothing), Formal(V("value"), Nothing)>> \o EnvirFormals,
   rm        |-> <<Dots>> \o EnvirFormals,
   source    |-> <<Formal(V("file"), Nothing)>>]

Builtins == DOMAIN Signatures
NoEvalArgs(b) == IF b = "tryCatch" THEN {V("expr"), V("catch")} ELSE {}
evalEllipsis(b) == b # "rm"

PureBuiltin(b, as, ds) ==
  CASE b = "c"         -> IF \A i \in 1 .. Len(ds) : ds[i].t = "num"
                          THEN {[t |-> "num", v |-> FoldLeft(LAMBDA s, d : s \o d.v, <<>>, ds)]} ELSE {}
    [] b = "length"    -> {Num(IF as[1].t = "num" THEN Len(as[1].v) ELSE 1)}
    [] b = "dblsubset" -> IF /\ as[1].t = "num" /\ isTruth(as[2])
                             /\ as[2].v[1] \in 1 .. Len(as[1].v)
                          THEN {Num(as[1].v[as[2].v[1]])} ELSE {}

-----------------------------------------------------------------------------
(* Which argument goes where.                                              *)

Tagged(as) == {g \in 1 .. Len(as) : as[g].x # NoVar}
NamedBy(fs, as, i) == {g \in Tagged(as) : ~fs[i].dots /\ fs[i].x = as[g].x}

\* The formals that are matched by position: those in front of the ellipsis that no
\* argument names.
ArgPositions(fs, as) ==
  SelectSeq([i \in 1 .. Len(fs) |-> i],
            LAMBDA i : ~(\E j \in 1 .. i : fs[j].dots) /\ NamedBy(fs, as, i) = {})
Untagged(as) == SelectSeq([g \in 1 .. Len(as) |-> g], LAMBDA g : g \notin Tagged(as))

\* The actual argument of formal i, none if its default is to be used.
ActualOf(fs, as, i) ==
  NamedBy(fs, as, i)
    \cup {Untagged(as)[p] : p \in {q \in 1 .. Len(Untagged(as)) :
                                     q <= Len(ArgPositions(fs, as)) /\ ArgPositions(fs, as)[q] = i}}

LeftOver(fs, as) == (1 .. Len(as)) \ UNION {ActualOf(fs, as, i) : i \in 1 .. Len(fs)}
HasDots(fs) == \E i \in 1 .. Len(fs) : fs[i].dots

ArgsFit(fs, as) ==
  /\ \A i \in 1 .. Len(fs) : ~fs[i].dots =>
       /\ Cardinality(NamedBy(fs, as, i)) <= 1
       /\ ActualOf(fs, as, i) # {} \/ fs[i].e # Nothing
  /\ HasDots(fs) \/ LeftOver(fs, as) = {}

\* In the order of the formals, then what goes to the ellipsis in its own order.
Matched(fs, as) ==
  LET named == SelectSeq([i \in 1 .. Len(fs) |-> i], LAMBDA i : ~fs[i].dots)
      rest  == SelectSeq([g \in 1 .. Len(as) |-> g], LAMBDA g : g \in LeftOver(fs, as))
      One(i) == IF ActualOf(fs, as, i) = {}
                THEN [x |-> fs[i].x, e |-> fs[i].e, formal |-> TRUE, dots |-> FALSE]
                ELSE [x |-> fs[i].x, e |-> as[CHOOSE g \in ActualOf(fs, as, i) : TRUE].e,
                      formal |-> FALSE, dots |-> FALSE]
  IN  [p \in 1 .. Len(named) |-> One(named[p])]
        \o [p \in 1 .. Len(rest) |->
              [x |-> as[rest[p]].x, e |-> as[rest[p]].e, formal |-> FALSE, dots |-> TRUE]]

-----------------------------------------------------------------------------
(* The meaning of an expression in s: s.fs are the environments of the     *)
(* calls in progress, the global one first.  s.odd: something has happened *)
(* about which the language says nothing, see Odd below.                   *)

Empty == [x \in {} |-> NullE]
Put(m, n, v) == [x \in DOMAIN m \cup {n} |-> IF x = n THEN v ELSE m[x]]

Good(v, s) == [ok |-> TRUE, v |-> v, s |-> s]
Fail(s) == [ok |-> FALSE, v |-> NullE, s |-> s]
Odd(s, b) == [s EXCEPT !.odd = @ \/ b]

Where(n, s) == {i \in 1 .. Len(s.fs) : n \in DOMAIN s.fs[i]}
Largest(I) == CHOOSE i \in I : \A j \in I : j <= i
LookUp(n, s) == IF Where(n, s) # {} THEN {s.fs[Largest(Where(n, s))][n]}
                ELSE IF n[1] \in Builtins /\ n[2] = 0 THEN {Blt(n[1])} ELSE {}
LookUpFun(n, s) ==
  LET I == {i \in Where(n, s) : isFun(s.fs[i][n])}
  IN  IF I # {} THEN {s.fs[Largest(I)][n]} ELSE IF n[1] \in Builtins THEN {Blt(n[1])} ELSE {}
Bind(n, v, s, i) == [s EXCEPT !.fs[i] = Put(@, n, v)]
BindUp(n, v, s, top) ==
  LET I == {i \in Where(n, s) : i <= top} IN Bind(n, v, s, IF I = {} THEN 1 ELSE Largest(I))

\* The variables an operand reads when the other operands have been computed.
RECURSIVE Late(_)
Late(e) == CASE e.t \in {"sym", "sa"} -> {e.x}
             [] e.t = "bin" -> Late(e.a) \cup Late(e.b)
             [] e.t = "un"  -> Late(e.a)
             [] OTHER -> {}

\* An operand x <<- e whose e is not simple.
HasRawLetUp(e) == e.t = "sa" /\ e.e.t \notin {"num", "null", "str", "sym"}

RECURSIVE Eval(_, _), EvalList(_, _), EvalLoop(_, _, _), EvalFor(_, _, _, _, _), BindArgs(_, _, _, _)
Truncated(s, n) == [s EXCEPT !.fs = SubSeq(@, 1, n)]

\* The arguments in turn; the default of one is computed where the others are bound.
BindArgs(ms, new, ds, s) ==
  IF ms = <<>> THEN [ok |-> TRUE, new |-> new, ds |-> ds, s |-> s]
  ELSE LET m == Head(ms)
           r == Eval(m.e, IF m.formal THEN [s EXCEPT !.fs = Append(@, new)] ELSE s)
           n == IF m.formal THEN Last(r.s.fs) ELSE new
           t == IF m.formal THEN [r.s EXCEPT !.fs = Front(@)] ELSE r.s
       IN  IF ~r.ok THEN [ok |-> FALSE, new |-> new, ds |-> ds, s |-> r.s]
           ELSE IF m.dots THEN BindArgs(Tail(ms), n, Append(ds, r.v), t)
           ELSE BindArgs(Tail(ms), Put(n, m.x, r.v), ds, t)

EvalClos(f, as, s) ==
  IF ~ArgsFit(f.fs, as) \/ Len(s.fs) >= MaxDepth THEN Fail(s)
  ELSE LET b == BindArgs(Matched(f.fs, as), Empty, <<>>, s)
           r == Eval(f.b, [b.s EXCEPT !.fs = Append(@, b.new)])
       IN  IF ~b.ok THEN Fail(b.s) ELSE IF r.ok THEN Good(r.v, [r.s EXCEPT !.fs = Front(@)]) ELSE r

Envir(e, s) == CASE e.x = V("current") -> Len(s.fs) [] OTHER -> 1

EvalTry(as, s) ==
  LET r == Eval(Matched(Signatures.tryCatch, as)[1].e, s)
      c == Eval(Matched(Signatures.tryCatch, as)[2].e, Truncated(r.s, Len(s.fs)))
  IN  CASE ~ArgsFit(Signatures.tryCatch, as) -> Fail(s)
        [] ArgsFit(Signatures.tryCatch, as) /\ r.ok -> r
        [] OTHER -> [c EXCEPT !.s = Odd(@, ~c.ok)]

EvalBuiltin(b, as, s) ==
  LET fs == Signatures[b]
      r  == BindArgs(SelectSeq(Matched(fs, as), LAMBDA m : ~m.dots \/ evalEllipsis(b)), Empty, <<>>, s)
      A(n) == r.new[V(n)]
      at == Envir(A("envir"), r.s)
      up == isTrue(A("inherits"))
      x  == A("x").x
      names == SelectSeq(Matched(fs, as), LAMBDA m : m.dots)
  IN  CASE ~ArgsFit(fs, as) -> Fail(s)
        [] ArgsFit(fs, as) /\ (~r.ok \/ b = "stop") -> Fail(r.s)
        [] b = "source" -> Eval(Blk(A("file").es), r.s)
        [] b = "get" -> LET f == LookUp(x, Truncated(r.s, at))
                        IN  IF x \in DOMAIN r.s.fs[at] \/ (up /\ f # {})
                            THEN Good(CHOOSE v \in f : TRUE, r.s) ELSE Fail(r.s)
        [] b = "assign" -> Good(A("value"), IF up THEN BindUp(x, A("value"), r.s, at)
                                            ELSE Bind(x, A("value"), r.s, at))
        [] b = "rm" -> LET n == Last(names).e.x
                           I == {i \in Where(n, r.s) : i = at \/ (up /\ i <= at)}
                       IN  IF I = {} THEN Fail(r.s)
                           ELSE Good(NullE, [r.s EXCEPT !.fs[Largest(I)] =
                                               [y \in DOMAIN @ \ {n} |-> @[y]]])
        [] OTHER ->
             LET vs == [i \in 1 .. Len(fs) |-> IF fs[i].dots THEN NullE ELSE r.new[fs[i].x]]
                 p  == PureBuiltin(b, vs, r.ds)
             IN  IF ~r.ok \/ p = {} THEN Fail(r.s) ELSE Good(CHOOSE v \in p : TRUE, r.s)

EvalCall(e, s) ==
  LET f == IF e.f.t = "sym" THEN [ok |-> TRUE, vs |-> LookUpFun(e.f.x, s), s |-> s]
           ELSE LET r == Eval(e.f, s) IN [ok |-> r.ok, vs |-> {r.v}, s |-> r.s]
      v == CHOOSE u \in f.vs : TRUE
  IN  IF ~f.ok \/ f.vs = {} \/ ~isFun(v) THEN Fail(f.s)
      ELSE IF v.t = "clos" THEN EvalClos(v.f, e.as, f.s)
      ELSE IF v.b = "tryCatch" THEN EvalTry(e.as, f.s) ELSE EvalBuiltin(v.b, e.as, f.s)

EvalList(es, s) ==
  LET r == Eval(Head(es), s)
  IN  IF Len(es) = 1 \/ ~r.ok THEN r ELSE EvalList(Tail(es), r.s)

EvalLoop(c, b, s) ==
  LET r == Eval(c, s)
      d == Eval(b, r.s)
  IN  IF ~r.ok \/ ~isTruth(r.v) THEN Fail(r.s)
      ELSE IF ~isTrue(r.v) THEN Good(NullE, r.s) ELSE IF ~d.ok THEN d ELSE EvalLoop(c, b, d.s)

EvalFor(x, v, i, b, s) ==
  LET d == Eval(b, Bind(x, Num(v[i]), s, Len(s.fs)))
  IN  IF i > Len(v) THEN Good(NullE, s) ELSE IF ~d.ok THEN d ELSE EvalFor(x, v, i + 1, b, d.s)

Eval(e, s) ==
  CASE e.t \in {"num", "null", "str", "file"} -> Good(e, s)
    [] e.t = "sym" -> LET f == LookUp(e.x, s) IN IF f = {} THEN Fail(s) ELSE Good(CHOOSE v \in f : TRUE, s)
    [] e.t = "fun" -> Good(Clos(e), s)
    [] e.t = "un"  -> LET r == Eval(e.a, s)
                      IN  IF r.ok /\ isTruth(r.v) THEN Good(Num(-r.v.v[1]), Odd(r.s, HasRawLetUp(e.a)))
                          ELSE Fail(Odd(r.s, HasRawLetUp(e.a)))
    [] e.t = "bin" ->
         LET a == Eval(e.a, s)
             b == Eval(e.b, a.s)
             p == evalbinop2(e.op, a.v, b.v)
             t == Odd(b.s, \/ HasRawLetUp(e.a) \/ HasRawLetUp(e.b)
                           \/ \E x \in Late(e.a) : LookUp(x, a.s) # LookUp(x, b.s))
         IN  IF ~a.ok THEN Fail(Odd(a.s, e.b.t # "num" \/ HasRawLetUp(e.a)))
             ELSE IF ~b.ok \/ p = {} THEN Fail(t) ELSE Good(CHOOSE v \in p : TRUE, t)
    [] e.t = "la" -> LET r == Eval(e.e, s)
                     IN  IF r.ok THEN Good(r.v, Odd(Bind(e.x, r.v, r.s, Len(r.s.fs)), HasRawLetUp(e.e)))
                         ELSE [r EXCEPT !.s = Odd(@, HasRawLetUp(e.e))]
    [] e.t = "sa" -> LET r == Eval(e.e, s)
                     IN  IF r.ok THEN Good(r.v, Odd(BindUp(e.x, r.v, r.s, Len(r.s.fs)), HasRawLetUp(e.e)))
                         ELSE [r EXCEPT !.s = Odd(@, HasRawLetUp(e.e))]
    [] e.t = "blk" -> EvalList(e.es, s)
    [] e.t = "if"  -> LET c == Eval(e.c, s)
                          t == Odd(c.s, HasRawLetUp(e.c))
                      IN  IF ~c.ok \/ ~isTruth(c.v) THEN Fail(t)
                          ELSE IF isTrue(c.v) THEN Eval(e.a, t) ELSE Eval(e.b, t)
    [] e.t = "while" -> EvalLoop(e.c, e.b, s)
    [] e.t = "for"   -> LET r == Eval(e.e, s)
                        IN  IF ~r.ok \/ r.v.t # "num" THEN Fail(r.s) ELSE EvalFor(e.x, r.v.v, 1, e.b, r.s)
    [] e.t = "call"  -> EvalCall(e, s)
=============================================================================
