------------------------------- MODULE Interp -------------------------------
(***************************************************************************)
(* The interpreter: a program is brought into A-normal form (anf.cpp) and  *)
(* executed by a machine of continuations and environments (interp.cpp,    *)
(* env.hpp), one step at a time so that it can wait in the middle.         *)
(*                                                                         *)
(* k is the chain of continuations, the current one first; it ends with    *)
(* the one that halts.  Each has the expression to evaluate, the frame to  *)
(* do it in, and the variable which the value of the one before it is      *)
(* assigned to.  A frame is its index in fr.  Passing by reference and     *)
(* requests to other instances are left out (see Operators, InterpCtx).    *)
(***************************************************************************)
EXTENDS Lang

CONSTANTS Programs,          \* the programs, lists of expressions
          FormalLists, ActualLists   \* for the matching of arguments

VARIABLES prog, k, fr, fstack,
          status,            \* "run", "done", "error", "again"
          cleared,           \* the frames cleared by an error
          caught,            \* the frames whose escape continuation has run
          match,             \* a call whose arguments are matched on its own
          tick               \* the parity of the steps: each one changes it

ivars == <<prog, k, fr, fstack, status, cleared, caught, match, tick>>

-----------------------------------------------------------------------------
(* A-normal form: operands that are not atomic are computed before, into   *)
(* temporary variables.  A result: the expression, what comes before it in *)
(* the list it stands in, and the next number for a temporary variable.    *)

Anf(e, pre, n) == [e |-> e, pre |-> pre, n |-> n]
AtomicTypes == {"num", "bin", "sym", "null", "str", "file"}
strip(e) == IF e.t = "blk" /\ Len(e.es) = 1 THEN e.es[1] ELSE e

\* What a for loop is: the constructor of the node.
ForLoop(e, n) ==
  LET idx == <<"?foridx", n>>
      in  == <<"?inexpr", n>>
  IN  Blk(<<Let(in, e.e), Let(idx, Num(1)),
            While(Bin("<=", Sym(idx), Call(Sym(V("length")), <<Arg(Sym(in))>>)),
                  Blk(<<Let(e.x, Call(Sym(V("dblsubset")), <<Arg(Sym(in)), Arg(Sym(idx))>>)),
                        e.b, Let(idx, Bin("+", Sym(idx), Num(1)))>>))>>)

RECURSIVE norm(_, _), normName(_, _), normTerm(_, _), normArgs(_, _), normEach(_, _)

\* A list of its own: what comes before an element goes into it.
normTerm(e, n) ==
  LET es == IF e.t = "blk" THEN e.es ELSE <<e>>
      r  == FoldLeft(LAMBDA s, x : LET y == norm(x, s.n) IN [es |-> s.es \o y.pre \o <<y.e>>, n |-> y.n],
                     [es |-> <<>>, n |-> n], es)
  IN  Anf(strip(Blk(r.es)), <<>>, r.n)

\* The expressions of arguments or formals (in field e), each a list of its own.
normArgs(as, n) ==
  FoldLeft(LAMBDA s, a : IF a.e = Nothing THEN [s EXCEPT !.as = Append(@, a)]
                         ELSE LET y == normTerm(a.e, s.n) IN [as |-> Append(s.as, [a EXCEPT !.e = y.e]), n |-> y.n],
           [as |-> <<>>, n |-> n], as)

normEach(es, n) ==
  FoldLeft(LAMBDA s, x : LET y == normTerm(x, s.n) IN [es |-> Append(s.es, y.e), n |-> y.n],
           [es |-> <<>>, n |-> n], es)

normName(e0, n) ==
  LET e == strip(e0)
      r == norm(e, n)
      x == <<"?anf", r.n>>
  IN  CASE e.t = "la" -> Anf(Sym(x), r.pre \o <<r.e, Let(x, Sym(e.x))>>, r.n + 1)
        [] e.t = "sa" -> Anf(Sym(e.x), <<e>>, n)
        [] e.t \in AtomicTypes -> r
        [] OTHER -> Anf(Sym(x), r.pre \o <<Let(x, r.e)>>, r.n + 1)

norm(e, n) ==
  CASE e.t = "call" -> LET f == normName(e.f, n)
                           as == normArgs(e.as, f.n)
                       IN  Anf(Call(f.e, as.as), f.pre, as.n)
    [] e.t = "la" -> LET r == IF e.e.t = "call" THEN norm(e.e, n) ELSE normName(e.e, n)
                     IN  Anf([e EXCEPT !.e = r.e], r.pre, r.n)
    [] e.t = "sa" -> LET r == normName(e.e, n) IN Anf([e EXCEPT !.e = r.e], r.pre, r.n)
    [] e.t = "un" -> LET r == normName(e.a, n) IN Anf([e EXCEPT !.a = r.e], r.pre, r.n)
    [] e.t = "bin" -> LET a == normName(e.a, n)
                          b == normName(e.b, a.n)
                      IN  Anf([e EXCEPT !.a = a.e, !.b = b.e], a.pre \o b.pre, b.n)
    [] e.t = "blk" -> LET r == normEach(e.es, n) IN Anf(Blk(r.es), <<>>, r.n)
    [] e.t = "fun" -> LET fs == normArgs(e.fs, n)
                          b  == normTerm(e.b, fs.n)
                      IN  Anf(Fun(fs.as, b.e), <<>>, b.n)
    [] e.t = "if" -> LET c == normName(e.c, n)
                         a == normTerm(e.a, c.n)
                         b == normTerm(e.b, a.n)
                     IN  Anf(If(c.e, a.e, b.e), c.pre, b.n)
    [] e.t = "while" -> LET c == normTerm(e.c, n)
                            b == normTerm(e.b, c.n)
                        IN  Anf(While(c.e, b.e), <<>>, b.n)
    [] e.t = "for" -> LET r == normTerm(ForLoop(e, n), n + 1)
                      IN  Anf([t |-> "for", loop |-> r.e], <<>>, r.n)
    [] OTHER -> Anf(e, <<>>, n)

convertToANF(es, n) ==
  FoldLeft(LAMBDA s, x : LET y == norm(x, s.n) IN [es |-> s.es \o y.pre \o <<y.e>>, n |-> y.n],
           [es |-> <<>>, n |-> n], es).es

-----------------------------------------------------------------------------
(* Arguments: first the named ones, then by position.                      *)

Matching(name, e, formal, dots) == [x |-> name, e |-> e, formal |-> formal, dots |-> dots]
EllipsisPos(fs) == IF HasDots(fs) THEN CHOOSE i \in 1 .. Len(fs) : fs[i].dots ELSE Len(fs) + 1
\* Mutant: a formal after the ellipsis goes where it stands in the list of formals.
SlotRaw(fs, i) == i
Slot(fs, i) == IF i > EllipsisPos(fs) THEN i - 1 ELSE i

\* The next one that is not used, 0 if there is none.
getUnused(i, n, used) ==
  LET rest == (i + 1 .. n) \ used IN IF rest = {} THEN 0 ELSE CHOOSE j \in rest : \A m \in rest : j <= m

NoMatch == Matching(NoVar, Nothing, FALSE, FALSE)

Named(fs, as) ==
  FoldLeftDomain(
    LAMBDA s, g :
      LET I == {i \in 1 .. Len(fs) : as[g].x # NoVar /\ ~fs[i].dots /\ fs[i].x = as[g].x}
          i == CHOOSE j \in I : TRUE
      IN  IF I = {} THEN s
          ELSE [s EXCEPT !.ok = @ /\ i \notin s.uf, !.uf = @ \cup {i}, !.ug = @ \cup {g},
                         !.res = [@ EXCEPT ![Slot(fs, i)] = Matching(as[g].x, as[g].e, FALSE, FALSE)]],
    [ok |-> TRUE, uf |-> {}, ug |-> {}, f |-> 0,
     res |-> [i \in 1 .. Len(fs) - (IF HasDots(fs) THEN 1 ELSE 0) |-> NoMatch] \o <<>>], as)

RECURSIVE Positional(_, _, _, _, _), Defaults(_, _, _)
\* f and g: the next formal and the next actual that are not used.
Positional(fs, as, f, g, s) ==
  LET g2 == getUnused(g, Len(as), s.ug)
      f2 == getUnused(f, Len(fs), s.uf)
  IN  IF f = 0 \/ g = 0 THEN [s EXCEPT !.ok = @ /\ g = 0, !.f = f]
      ELSE IF as[g].x # NoVar \/ fs[f].dots
      THEN IF HasDots(fs)
           THEN With([s EXCEPT !.res = Append(@, Matching(as[g].x, as[g].e, FALSE, TRUE))],
                     LAMBDA t : Positional(fs, as, f, g2, t))
           ELSE [s EXCEPT !.ok = FALSE]
      ELSE With([s EXCEPT !.res[f] = Matching(fs[f].x, as[g].e, FALSE, FALSE)],
                LAMBDA t : Positional(fs, as, f2, g2, t))

Defaults(fs, f, s) ==
  LET f2 == getUnused(f, Len(fs), s.uf)
  IN  IF f = 0 \/ ~s.ok THEN s
      ELSE IF fs[f].dots THEN Defaults(fs, f2, s)
      ELSE IF fs[f].e = Nothing THEN [s EXCEPT !.ok = FALSE]
      ELSE With([s EXCEPT !.res[Slot(fs, f)] = Matching(fs[f].x, fs[f].e, TRUE, FALSE)],
                LAMBDA t : Defaults(fs, f2, t))

processArgs(fs, as) ==
  With(Named(fs, as), LAMBDA n :
    IF ~n.ok THEN n
    ELSE With(Positional(fs, as, getUnused(0, Len(fs), n.uf), getUnused(0, Len(as), n.ug), n),
              LAMBDA p : IF ~p.ok THEN p ELSE Defaults(fs, p.f, p)))

-----------------------------------------------------------------------------
(* Frames (env.hpp).                                                       *)

Frame(kind, up, depth, ec) ==
  [kind |-> kind, up |-> up, depth |-> depth, m |-> Empty, args |-> <<>>, dots |-> <<>>,
   ec |-> ec, bc |-> <<>>, cc |-> <<>>]

Cleared(f) == [f EXCEPT !.m = Empty, !.args = <<>>, !.dots = <<>>, !.ec = <<>>, !.bc = <<>>, !.cc = <<>>]
ArgNames(f) == {f.args[i].x : i \in 1 .. Len(f.args)}

RECURSIVE find(_, _, _, _), findLocal(_, _, _), trueFrame(_, _, _), specialFrame(_, _, _), ownerFrame(_, _, _)

\* Empty if there is none.  If a function is wanted other values are passed over.
find(frames, r, n, funcall) ==
  LET f == frames[r]
      here == IF f.kind = "shadow" /\ ~isTmp(n) THEN {}
              ELSE IF n \in ArgNames(f)
              THEN {f.args[CHOOSE i \in 1 .. Len(f.args) : f.args[i].x = n].v}
              ELSE IF n \in DOMAIN f.m THEN {f.m[n]} ELSE {}
      fit == {v \in here : funcall => isFun(v)}
  IN  IF r = 0 THEN {} ELSE IF fit # {} THEN fit
      ELSE IF f.up = 0 THEN {} ELSE find(frames, f.up, n, funcall)

\* The frame in which a name is bound: a shadow frame keeps only temporary ones.
trueFrame(frames, r, n) ==
  IF frames[r].kind = "shadow" /\ ~isTmp(n) THEN trueFrame(frames, frames[r].up, n) ELSE r

findLocal(frames, r, n) ==
  LET f == frames[trueFrame(frames, r, n)] IN IF n \in DOMAIN f.m THEN {f.m[n]} ELSE {}

\* Mutant: the search begins above the frame itself.
specialFrameAbove(frames, r, n) ==
  LET RECURSIVE Above(_)
      Above(q) == IF frames[q].kind = "global" \/ n \in DOMAIN frames[q].m THEN q ELSE Above(frames[q].up)
  IN  IF frames[r].kind = "global" THEN r ELSE Above(frames[r].up)

specialFrame(frames, r, n) ==
  IF frames[r].kind = "shadow" THEN specialFrame(frames, frames[r].up, n)
  ELSE IF n \in DOMAIN frames[r].m \/ frames[r].kind = "global" THEN r
  ELSE specialFrame(frames, frames[r].up, n)

ownerFrame(frames, r, n) ==
  IF frames[r].kind # "shadow" /\ n \in DOMAIN frames[r].m THEN r
  ELSE IF frames[r].up = 0 THEN 0 ELSE ownerFrame(frames, frames[r].up, n)

PutIn(frames, r, n, v) == [frames EXCEPT ![r].m = Put(@, n, v)]
add(frames, r, n, v) == PutIn(frames, trueFrame(frames, r, n), n, v)
addSpecial(frames, r, n, v) == PutIn(frames, specialFrame(frames, r, n), n, v)

addArg(frames, r, n, v) ==
  IF frames[r].kind = "native" THEN [frames EXCEPT ![r].args = Append(@, [x |-> n, v |-> v])]
  ELSE add(frames, r, n, v)

addEllipsis(frames, r, v) == [frames EXCEPT ![r].dots = Append(@, v)]

remove(frames, r, n, inherit) ==
  LET at == IF inherit THEN ownerFrame(frames, r, n) ELSE trueFrame(frames, r, n)
  IN  IF at # 0 /\ n \in DOMAIN frames[at].m
      THEN {[frames EXCEPT ![at].m = [x \in DOMAIN @ \ {n} |-> @[x]]]} ELSE {}

RECURSIVE getStack(_, _)
getStack(frames, r) == IF r = 0 THEN <<>> ELSE <<r>> \o getStack(frames, frames[r].up)

\* By its name or by its place, empty if there is none.
getEnv(frames, r, envir) ==
  LET st == getStack(frames, r)
      P  == IF envir.t = "str"
            THEN {i \in 1 .. Len(st) : envir.x = V("current") \/ V(frames[st[i]].kind) = envir.x}
            ELSE {i \in 1 .. Len(st) : envir.v[1] \in {-1, i}}
  IN  IF P = {} THEN {} ELSE {st[CHOOSE i \in P : \A j \in P : i <= j]}

-----------------------------------------------------------------------------
(* Continuations.                                                          *)

K(e, r) == [var |-> NoVar, c |-> e, r |-> r, at |-> {}]
Sentinel(r) == [K(Nothing, r) EXCEPT !.at = {"END"}]
Flag(e) == IF e.t = "sa" THEN {"GLOBAL"} ELSE {}
isAssign(e) == e.t \in {"la", "sa"}

\* The value of e.e is assigned to e.x by the continuation after it, which reads it.
buildKont(e, r, kk) ==
  IF isAssign(e) THEN <<K(e.e, r), [K(Sym(e.x), r) EXCEPT !.var = e.x, !.at = Flag(e)]>> \o kk
  ELSE <<K(e, r)>> \o kk

\* Each element, assigned to the variable of the one before it; if the last one is an
\* assignment there is one more, so that what comes next keeps its variable.
buildElChain(es, r, kk) ==
  LET Then(i) == IF i > 0 /\ isAssign(es[i]) THEN [var |-> es[i].x, at |-> Flag(es[i])]
                 ELSE [var |-> NoVar, at |-> {}]
      n == Len(es)
  IN  [i \in 1 .. n |-> [var |-> Then(i - 1).var, at |-> Then(i - 1).at, r |-> r,
                         c |-> IF isAssign(es[i]) THEN es[i].e ELSE es[i]]]
        \o (IF isAssign(es[n])
            THEN <<[var |-> es[n].x, at |-> Flag(es[n]), r |-> r, c |-> Sym(es[n].x)]>> ELSE <<>>)
        \o kk

\* The state of a step.
St == [k |-> k, fr |-> fr, st |-> fstack, threw |-> FALSE]
Throws(s) == [s EXCEPT !.threw = TRUE]
Push(s, f) == [s EXCEPT !.fr = Append(@, f), !.st = Append(@, Len(s.fr) + 1)]

RECURSIVE evalAtom(_, _, _)

\* How many functions end here.
Ends(kk) == CHOOSE n \in 0 .. Len(kk) - 2 : /\ "END" \notin kk[n + 2].at
                                            /\ \A i \in 1 .. n : "END" \in kk[i + 1].at
NoKonts(f) == [f EXCEPT !.ec = <<>>, !.bc = <<>>, !.cc = <<>>]

\* Mutant: one frame too many is popped.
PopEndsMore(s) ==
  LET n == Ends(s.k)
  IN  [s EXCEPT !.st = SubSeq(@, 1, Len(@) - (IF n > 0 THEN n + 1 ELSE n)), !.k = SubSeq(@, n + 1, Len(@))]

\* At the end of a function its frame is popped, whichever is on top.
PopEnds(s) ==
  LET n == Ends(s.k)
      R == {s.k[i].r : i \in 1 .. n}
  IN  [s EXCEPT !.fr = [r \in 1 .. Len(@) |-> IF r \in R THEN NoKonts(@[r]) ELSE @[r]],
                !.st = SubSeq(@, 1, Len(@) - n), !.k = SubSeq(@, n + 1, Len(@))]

\* First phase: what is done with the value.
Assigned(s, v) ==
  LET nx == s.k[2]
  IN  CASE "ELLIPSIS" \in nx.at -> addEllipsis(s.fr, nx.r, v)
        [] nx.var # NoVar /\ "ARG" \in nx.at -> addArg(s.fr, nx.r, nx.var, v)
        [] nx.var # NoVar /\ "GLOBAL" \in nx.at -> addSpecial(s.fr, nx.r, nx.var, v)
        [] nx.var # NoVar /\ nx.at \cap {"ARG", "GLOBAL"} = {} -> add(s.fr, nx.r, nx.var, v)
        [] OTHER -> IF Len(s.k) > 2 THEN s.fr ELSE add(s.fr, nx.r, V(".Last.value"), v)

\* Mutant: a continuation that only receives an argument is not passed over.
GoesOnStays(t, v) ==
  LET nx == t.k[2]
  IN  CASE "COND" \in nx.at /\ ~isTruth(v) -> Throws(t)
        [] "COND" \in nx.at /\ isTruth(v) ->
             IF isTrue(v) THEN [t EXCEPT !.k = Tail(@)]
             ELSE [t EXCEPT !.k = t.fr[nx.r].cc, !.fr[nx.r] = Cleared(@)]
        [] "COND" \notin nx.at /\ "WHILE" \in nx.at -> [t EXCEPT !.k = t.fr[nx.r].bc]
        [] OTHER -> [t EXCEPT !.k = Tail(@)]

\* Mutant: a loop outside of any call goes back to its condition when that fails.
GoesOnBack(t, v) ==
  LET nx == t.k[2]
  IN  CASE "COND" \in nx.at /\ ~isTruth(v) -> Throws(t)
        [] "COND" \in nx.at /\ isTruth(v) ->
             IF isTrue(v) THEN [t EXCEPT !.k = Tail(@)]
             ELSE IF t.fr[nx.r].depth = 3 THEN [t EXCEPT !.k = t.fr[nx.r].bc]
             ELSE [t EXCEPT !.k = t.fr[nx.r].cc, !.fr[nx.r] = Cleared(@)]
        [] "COND" \notin nx.at /\ "WHILE" \in nx.at -> [t EXCEPT !.k = t.fr[nx.r].bc]
        [] OTHER -> [t EXCEPT !.k = IF nx.c # Nothing \/ Len(@) = 2 THEN Tail(@) ELSE Tail(Tail(@))]

\* Second phase: where it goes on.
GoesOn(t, v) ==
  LET nx == t.k[2]
  IN  CASE "COND" \in nx.at /\ ~isTruth(v) -> Throws(t)
        [] "COND" \in nx.at /\ isTruth(v) ->
             IF isTrue(v) THEN [t EXCEPT !.k = Tail(@)]
             ELSE [t EXCEPT !.k = t.fr[nx.r].cc, !.fr[nx.r] = Cleared(@)]
        [] "COND" \notin nx.at /\ "WHILE" \in nx.at -> [t EXCEPT !.k = t.fr[nx.r].bc]
        [] OTHER -> [t EXCEPT !.k = IF nx.c # Nothing \/ Len(@) = 2 THEN Tail(@) ELSE Tail(Tail(@))]

applyKont(s0, v) ==
  With(PopEnds(s0), LAMBDA s : With([s EXCEPT !.fr = Assigned(s, v)], LAMBDA t : GoesOn(t, v)))

evalAtom(frames, e, r) ==
  CASE e.t \in {"num", "null", "str", "file"} -> {e}
    [] e.t = "sym" -> find(frames, r, e.x, FALSE)
    [] e.t = "fun" -> {Clos(e)}
    [] e.t = "un"  -> {Num(-v.v[1]) : v \in {u \in evalAtom(frames, e.a, r) : isTruth(u)}}
    [] e.t = "bin" -> UNION {evalbinop2(e.op, a, b) : a \in evalAtom(frames, e.a, r),
                                                      b \in evalAtom(frames, e.b, r)}
    [] OTHER -> {}

-----------------------------------------------------------------------------
(* Calls.                                                                  *)

ArgFlag(m) == {IF m.dots THEN "ELLIPSIS" ELSE "ARG"}
ArgKonts(ms, r, fenv) ==
  FoldLeft(LAMBDA c, m : c \o <<K(m.e, IF m.formal THEN fenv ELSE r),
                               [K(Nothing, fenv) EXCEPT !.var = m.x, !.at = ArgFlag(m)]>>, <<>>, ms)

CallProc(s, f, as, p) ==
  LET r    == s.k[1].r
      fenv == Len(s.fr)
      none == f.fs = <<>> \/ (f.fs = <<Dots>> /\ as = <<>>)
      body == <<K(f.b, fenv), Sentinel(fenv)>> \o Tail(s.k)
  IN  IF s.fr[fenv].depth >= MaxDepth \/ (f.fs = <<>> /\ as # <<>>) \/ (~none /\ ~p.ok) THEN Throws(s)
      ELSE [s EXCEPT !.k = IF none THEN body ELSE ArgKonts(p.res, r, fenv) \o body]

PushFrame(s, kind) == Push(s, Frame(kind, s.k[1].r, s.fr[s.k[1].r].depth + 1, s.fr[s.k[1].r].ec))

applyProc(s, f, as) ==
  With(PushFrame(s, "closure"), LAMBDA t : With(processArgs(f.fs, as), LAMBDA p : CallProc(t, f, as, p)))

noEval(b, m) == IF m.dots THEN ~evalEllipsis(b) ELSE m.x \in NoEvalArgs(b)
Code(e) == [t |-> "code", e |-> e]

\* Arguments that are not evaluated are kept as code, the last one first.
AddCode(frames, fenv, b, ms) ==
  FoldRight(LAMBDA m, f : IF ~noEval(b, m) THEN f
                          ELSE IF m.dots THEN addEllipsis(f, fenv, Code(m.e)) ELSE add(f, fenv, m.x, Code(m.e)),
            ms, frames)

CallBuiltin(s, b, as, p) ==
  LET r    == s.k[1].r
      fenv == Len(s.fr)
      none == Signatures[b] = <<Dots>> /\ as = <<>>
      inv  == <<K([t |-> "invoke", b |-> b], fenv), Sentinel(fenv)>> \o Tail(s.k)
  IN  IF none THEN [s EXCEPT !.k = inv]
      ELSE IF ~p.ok THEN Throws(s)
      ELSE [s EXCEPT !.fr = AddCode(@, fenv, b, p.res),
                     !.k = ArgKonts(SelectSeq(p.res, LAMBDA m : ~noEval(b, m)), r, fenv) \o inv]

applyBuiltin(s, b, as) ==
  With(PushFrame(s, "native"), LAMBDA t :
    With(processArgs(Signatures[b], as), LAMBDA p : CallBuiltin(t, b, as, p)))

LoopIn(s) ==
  LET q  == s.k[1]
      r  == Len(s.fr)
      Es(e) == IF e.t = "blk" THEN e.es ELSE <<e>>
      cc == <<[K(NullE, r) EXCEPT !.var = s.k[2].var, !.at = {"WHILE"}]>> \o Tail(s.k)
      body == buildElChain(Es(q.c.b), r, cc)
      bc == buildElChain(Es(q.c.c), r, <<[Head(body) EXCEPT !.at = @ \cup {"COND"}]>> \o Tail(body))
  IN  [s EXCEPT !.fr = [@ EXCEPT ![r].bc = bc, ![r].cc = cc], !.k = bc]

insertWhile(s) == With(PushFrame(s, "shadow"), LAMBDA t : LoopIn(t))

-----------------------------------------------------------------------------
(* Built-in functions, called with the frame that holds their arguments.   *)

\* The value of the call is that of the expression, or of the catch code: both go on
\* behind a sentinel for a frame in which an error leads to the catch code.
TryIn(s, b) ==
  LET r == Len(s.fr)
      Then(x) == <<K(b.m[V(x)].e, r), Sentinel(r)>> \o Tail(s.k)
  IN  [s EXCEPT !.fr[r].ec = Then("catch"), !.k = <<Head(@)>> \o Then("expr")]

tryCatch(s) ==
  LET b == s.fr[s.k[1].r]
  IN  With(Push(s, Frame("shadow", b.up, s.fr[b.up].depth + 1, <<>>)), LAMBDA t : applyKont(TryIn(t, b), NullE))

\* The program of the file goes on behind the sentinel of this call, in the frame of
\* what comes after it.
source(s) ==
  LET file == s.fr[s.k[1].r].args[1].v
      r    == s.k[3].r
  IN  applyKont([s EXCEPT !.k = <<Head(@), K(NullE, r)>>
                                  \o buildElChain(convertToANF(file.es, 100), r, Tail(Tail(@)))], NullE)

ArgOf(s, n) == (CHOOSE a \in Range(s.fr[s.k[1].r].args) : a.x = V(n)).v
EnvOf(s) == getEnv(s.fr, s.fr[s.k[1].r].up, ArgOf(s, "envir"))

getvar(s) ==
  LET x == ArgOf(s, "x").x
      f == UNION {IF isTrue(ArgOf(s, "inherits")) THEN find(s.fr, e, x, FALSE) ELSE findLocal(s.fr, e, x) : e \in EnvOf(s)}
  IN  IF f = {} THEN Throws(s) ELSE applyKont(s, CHOOSE v \in f : TRUE)

assign(s) ==
  LET x == ArgOf(s, "x").x
      v == ArgOf(s, "value")
      e == CHOOSE r \in EnvOf(s) : TRUE
  IN  IF EnvOf(s) = {} THEN Throws(s)
      ELSE applyKont([s EXCEPT !.fr = IF isTrue(ArgOf(s, "inherits")) THEN addSpecial(@, e, x, v)
                                      ELSE add(@, e, x, v)], v)

\* One name after the other; those before the one that is not there are gone.
rm(s) ==
  LET e == CHOOSE r \in EnvOf(s) : TRUE
      Removed(t, code) ==
        LET f == remove(t.fr, e, code.e.x, isTrue(ArgOf(s, "inherits")))
        IN  IF t.threw \/ code.e.t \notin {"sym", "str"} \/ f = {} THEN Throws(t)
            ELSE [t EXCEPT !.fr = CHOOSE u \in f : TRUE]
      t == FoldLeft(Removed, s, s.fr[s.k[1].r].dots)
  IN  IF EnvOf(s) = {} THEN Throws(s) ELSE With(t, LAMBDA u : IF u.threw THEN u ELSE applyKont(u, NullE))

pure(s, b) ==
  LET f == s.fr[s.k[1].r]
      p == PureBuiltin(b, [i \in 1 .. Len(f.args) |-> f.args[i].v], f.dots)
  IN  IF p = {} THEN Throws(s) ELSE applyKont(s, CHOOSE v \in p : TRUE)

\* The function is looked up again, in the frame of the caller.
invoke(s) ==
  LET f == find(s.fr, s.fr[s.k[1].r].up, V(s.k[1].c.b), TRUE)
      v == CHOOSE u \in f : TRUE
  IN  CASE f = {} \/ v.t # "blt" -> Throws(s)
        [] v.b = "stop"     -> Throws(s)
        [] v.b = "tryCatch" -> tryCatch(s)
        [] v.b = "source"   -> source(s)
        [] v.b = "get"      -> getvar(s)
        [] v.b = "assign"   -> assign(s)
        [] v.b = "rm"       -> rm(s)
        [] OTHER            -> pure(s, v.b)

-----------------------------------------------------------------------------
(* The machine.                                                            *)

Base == 1
Global == 2
Top == 3

NoCall == [fs |-> <<>>, as |-> <<>>, res |-> [ok |-> FALSE]]

IInit ==
  /\ match = NoCall /\ tick = 0
  /\ prog \in Programs
  /\ fr = <<[Frame("base", 0, 0, <<>>) EXCEPT !.m = [n \in {V(b) : b \in Builtins} |-> Blt(n[1])]],
            Frame("global", Base, 1, <<>>), Frame("shadow", Global, 2, <<>>)>>
  /\ k = <<K(Blk(convertToANF(prog, 1)), Top), K(Nothing, Top)>>
  /\ fstack = <<Top>> /\ status = "run" /\ cleared = {} /\ caught = {}

\* Nothing runs: some formal and some actual arguments.
MatchInit ==
  /\ \E fs \in FormalLists, as \in ActualLists : match = [fs |-> fs, as |-> as, res |-> [ok |-> FALSE]]
  /\ prog = <<>> /\ k = <<>> /\ fr = <<>> /\ fstack = <<>> /\ status = "match" /\ cleared = {} /\ caught = {} /\ tick = 0

Match == /\ status = "match" /\ status' = "matched"
         /\ match' = [match EXCEPT !.res = processArgs(match.fs, match.as)]
         /\ UNCHANGED <<prog, k, fr, fstack, cleared, caught, tick>>

RECURSIVE Until(_, _)
\* How many frames stay: up to and with r, none if it is not there.
Until(st, r) == IF st = <<>> THEN 0 ELSE IF Last(st) = r THEN Len(st) ELSE Until(Front(st), r)

ClearAll(frames, I) == [i \in 1 .. Len(frames) |-> IF i \in I THEN Cleared(frames[i]) ELSE frames[i]]

popAndClearUntil(st, r) == Until(st, r)

\* An error: the escape continuation of the frame, or the end.
Escape(s) ==
  LET ec   == s.fr[k[1].r].ec
      keep == popAndClearUntil(s.st, ec[1].r)
      gone == {s.st[i] : i \in keep + 1 .. Len(s.st)}
      fs   == add(s.fr, Global, V(".Last.error"), Str("error"))
  IN  CASE ec = <<>> -> /\ status' = "error" /\ fr' = ClearAll(fs, Range(s.st))
                        /\ fstack' = s.st /\ UNCHANGED <<k, cleared, caught>>
        [] ec # <<>> /\ ec[1].r \in caught ->
             status' = "again" /\ UNCHANGED <<k, fr, fstack, cleared, caught>>
        [] OTHER -> /\ k' = ec /\ fr' = ClearAll([fs EXCEPT ![k[1].r].ec = <<>>], gone)
                    /\ fstack' = SubSeq(s.st, 1, keep) /\ cleared' = cleared \cup gone
                    /\ caught' = caught \cup {ec[1].r} /\ status' = "run"

Step(t) ==
  \E s \in {t} :
  /\ UNCHANGED <<prog, match>> /\ tick' = 1 - tick
  /\ IF s.threw THEN Escape(s)
     ELSE /\ k' = s.k /\ fr' = s.fr /\ fstack' = s.st /\ UNCHANGED <<cleared, caught>>
          /\ status' = IF Len(s.k) > 1 THEN "run" ELSE "done"

ControlIs(T) == status = "run" /\ k[1].c.t \in T

Atom == /\ ControlIs({"num", "null", "str", "file", "sym", "fun", "un", "bin"})
        /\ LET v == evalAtom(fr, k[1].c, k[1].r)
           IN  Step(IF v = {} THEN Throws(St) ELSE applyKont(St, CHOOSE u \in v : TRUE))
Invoke == ControlIs({"invoke"}) /\ Step(invoke(St))
Assign == ControlIs({"la", "sa"}) /\ Step([St EXCEPT !.k = buildKont(Head(@).c, Head(@).r, Tail(@))])
List == ControlIs({"blk"}) /\ Step([St EXCEPT !.k = buildElChain(Head(@).c.es, Head(@).r, Tail(@))])
IfElse == /\ ControlIs({"if"})
          /\ LET v == evalAtom(fr, k[1].c.c, k[1].r)
             IN  Step(IF v = {} \/ \E u \in v : ~isTruth(u) THEN Throws(St)
                      ELSE [St EXCEPT !.k[1] = K(IF \E u \in v : isTrue(u) THEN @.c.a ELSE @.c.b, @.r)])
Funcall == /\ ControlIs({"call"})
           /\ LET c == k[1].c
                  f == IF c.f.t = "sym" THEN find(fr, k[1].r, c.f.x, TRUE) ELSE evalAtom(fr, c.f, k[1].r)
                  v == CHOOSE u \in f : TRUE
              IN  Step(IF f = {} \/ ~isFun(v) THEN Throws(St)
                       ELSE IF v.t = "clos" THEN applyProc(St, v.f, c.as) ELSE applyBuiltin(St, v.b, c.as))
DoWhile == ControlIs({"while"}) /\ Step(insertWhile(St))
DoFor == ControlIs({"for"}) /\ Step([St EXCEPT !.k = buildElChain(Head(@).c.loop.es, Head(@).r, Tail(@))])

INext == Atom \/ Invoke \/ Assign \/ List \/ IfElse \/ Funcall \/ DoWhile \/ DoFor \/ Match

\* The event loop calls step again as long as there is something to evaluate: weak
\* fairness of INext, which is enabled as long as the status is one of these.
Scheduled == []<>(status \notin {"run", "match"}) \/ []<><<TRUE>>_ivars
ISpec == (IInit \/ MatchInit) /\ [][INext]_ivars /\ Scheduled

-----------------------------------------------------------------------------
(* Properties.                                                             *)

Meant == Eval(Blk(prog), [fs |-> <<Empty>>, odd |-> FALSE])
Visible(m) == {n \in DOMAIN m : ~isTmp(n) /\ n \notin {V(".Last.value"), V(".Last.error")}}
SameValue(a, b) == IF isFun(b) THEN a.t = b.t ELSE a = b

\* A program ends as it is meant to, with an error or without, with the same value
\* and the same variables, through A-normal form, continuations and frames: unless
\* catch code fails itself, which may run again for ever, or an operand is assigned
\* to by another one.
EndsAsMeant ==
  status \in {"done", "error", "again"} =>
    LET r == Meant
        m == fr[Global].m
    IN  r.s.odd \/
        /\ status = IF r.ok THEN "done" ELSE "error"
        /\ status = "done" => SameValue(m[V(".Last.value")], r.v)
        /\ Visible(m) = DOMAIN r.s.fs[1]
        /\ \A n \in Visible(m) : SameValue(m[n], r.s.fs[1][n])

RECURSIVE Ups(_)
Ups(r) == IF r = 0 THEN {} ELSE {r} \cup Ups(fr[r].up)
InUse == UNION {Ups(k[i].r) : i \in 1 .. Len(k)}

\* The frames that the continuations to come use are not among those an error has
\* cleared, and the frame of catch code that may still run is on the stack, however
\* many loops, calls and errors have pushed and popped frames before.
FramesStay ==
  status = "run" =>
    /\ InUse \cap cleared = {}
    /\ \A r \in InUse : fr[r].ec # <<>> => fr[r].ec[1].r \in Range(fstack)

\* There is something to evaluate at every step, and the last continuation halts.
ControlIsThere ==
  status = "run" => Len(k) > 1 /\ Head(k).c # Nothing /\ Last(k) = K(Nothing, Top)

\* Arguments are matched by name, then by position; the rest goes to the ellipsis.
ArgsAreMatched ==
  status = "matched" =>
    /\ match.res.ok <=> ArgsFit(match.fs, match.as)
    /\ match.res.ok => match.res.res = Matched(match.fs, match.as)

\* A program computes what it means, step by step on frames and continuations that
\* are there, with its arguments where they belong.
ProgramsAreRight == EndsAsMeant /\ FramesStay /\ ControlIsThere /\ ArgsAreMatched

\* Every program ends.
ProgramsEnd == <>(status \notin {"run", "match"})
=============================================================================
