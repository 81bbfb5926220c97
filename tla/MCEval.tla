------------------------------- MODULE MCEval -------------------------------
(***************************************************************************)
(* A program, or the matching of the arguments of one call; or statements  *)
(* on variables that share their values.                                   *)
(***************************************************************************)
EXTENDS Interp, CowPtr

S(n) == Sym(V(n))
VX == V("x")
F(as, b) == Fun(as, b)
C0(f) == Call(S(f), <<>>)
C1(f, a) == Call(S(f), <<Arg(a)>>)
C2(f, a, b) == Call(S(f), <<Arg(a), Arg(b)>>)
Stop == C1("stop", Num(0))
Try(a, b) == C2("tryCatch", a, b)
Req(n) == Formal(V(n), Nothing)
Inc(n) == Let(V(n), Bin("+", S(n), Num(1)))
Setup == <<Let(VX, Num(1)),
           Let(V("f"), F(<<>>, Blk(<<LetUp(VX, Bin("+", S("x"), Num(1))), S("x")>>))),
           Let(V("g"), F(<<Req("a"), Formal(V("b"), Bin("*", S("a"), Num(2)))>>, Bin("+", S("a"), S("b")))),
           Let(V("h"), F(<<Req("x")>>, Blk(<<C0("f"), Let(V("y"), S("x")), S("y")>>))),
           Let(V("bad"), F(<<Req("a")>>, Blk(<<Let(V("a"), Num(8)), Bin("+", S("a"), S("u"))>>)))>>

Loop(n, b) == Blk(<<Let(V("i"), Num(0)), While(Bin("<=", S("i"), Num(n)), Blk(<<Inc("i"), b>>)), S("i")>>)
Vec == Call(S("c"), <<Arg(Num(3)), Arg(Num(5))>>)
Sum == For(V("j"), Vec, LetUp(VX, Bin("+", S("x"), S("j"))))

Operands == {Num(2), S("x"), S("u"), Let(VX, Num(5)), LetUp(VX, Num(3)), LetUp(VX, Bin("+", C0("f"), Num(1))),
             Bin("*", S("x"), Neg(S("x"))), Blk(<<Let(VX, Num(7)), Bin("+", S("x"), Num(1))>>),
             If(S("x"), Num(4), S("u")), C0("f"), C1("g", C0("f")), C1("h", Num(6)),
             Try(S("u"), Num(9)), Loop(0, NullE), C0("bad")}
OperandPrograms == {Setup \o <<Let(V("y"), Bin("+", a, b)), S("x")>> : a, b \in Operands}

Things == {Stop, Blk(<<C0("f"), S("u")>>), C1("bad", S("x")), Blk(<<LetUp(VX, Num(4)), S("u")>>), Num(1),
           Loop(1, If(Bin("==", S("i"), Num(2)), Stop, S("i"))), C1("h", Stop), Sum,
           Try(C1("bad", Num(1)), Num(3)), Try(C1("bad", Num(1)), Stop), Try(S("u"), S("u"))}
Catches == {Num(2), C1("g", Num(3)), Loop(0, NullE), Stop, S("u")}
Around(e) == {<<Let(V("y"), e), S("y")>>, <<Let(V("w"), F(<<>>, e)), C0("w")>>,
              <<Loop(0, LetUp(V("y"), Bin("+", e, Num(1))))>>,
              <<Let(V("w"), F(<<>>, Blk(<<Loop(0, Num(0)), Sum, e>>))), Try(C0("w"), Num(5)), C0("w")>>}
TryPrograms == {Setup \o p : p \in UNION {Around(Try(a, b)) : a \in Things, b \in Catches}}

Envs == {Call(S("assign"), <<Arg(Str("x")), Arg(Num(7))>> \o as) :
           as \in {<<>>, <<Actual(V("inherits"), Num(1))>>, <<Arg(Str("global"))>>}}
        \cup {Call(S("get"), <<Arg(Str(n))>> \o as) :
               n \in {"x", "u", "a"}, as \in {<<>>, <<Actual(V("inherits"), Num(1))>>, <<Arg(Str("global"))>>}}
        \cup {Call(S("rm"), <<Arg(S("x"))>> \o as) : as \in {<<>>, <<Actual(V("inherits"), Num(1))>>}}
        \cup {C1("source", [t |-> "file", es |-> <<Inc("x"), Bin("+", S("x"), C0("f"))>>])}
EnvPrograms == {Setup \o <<e, S("x")>> : e \in Envs}
  \cup {Setup \o <<Let(V("w"), F(<<Formal(V("a"), Num(4))>>, Blk(<<e, C0("f"), S("x")>>))), C0("w"), S("x")>> : e \in Envs}
  \cup {Setup \o <<Let(V("w"), F(<<Req("x")>>, Blk(<<e, If(S("x"), S("x"), Num(0))>>))), C1("w", Num(2)), S("x")>> : e \in Envs}

CallPrograms ==
  {Setup \o <<Let(V("w"), F(fs, b)), Let(V("y"), Call(S("w"), as)), S("x")>> :
     fs \in {<<>>, <<Dots>>, <<Req("x"), Dots>>, <<Req("a"), Formal(V("x"), C0("f"))>>,
             <<Formal(V("x"), S("x")), Formal(V("a"), Let(VX, Num(9)))>>},
     as \in {<<>>, <<Arg(Inc("x"))>>, <<Arg(C0("f")), Actual(VX, C0("f"))>>, <<Actual(V("a"), Num(1)), Arg(Num(2))>>,
             <<Actual(V("q"), Num(1)), Arg(Num(2))>>},
     b \in {S("x"), Blk(<<Let(VX, Num(2)), C0("f")>>), C1("h", S("a"))}}
  \cup {Setup \o <<Let(V("w"), F(<<Req("n")>>, If(Bin("<=", S("n"), Num(1)), Num(1),
                     Bin("*", S("n"), C1("w", Bin("+", S("n"), Num(-1))))))), C1("w", Num(n))>> : n \in {1, 3, 9}}
  \cup {Setup \o <<Let(V("stop"), F(<<>>, Num(4))), C0("stop")>>,
        Setup \o <<Let(V("t"), S("stop")), Let(V("stop"), F(<<>>, Num(4))), Try(C1("t", Num(1)), Num(6))>>,
        Setup \o <<Call(F(<<Req("z")>>, Neg(S("z"))), <<Arg(Num(3))>>)>>, Setup \o <<Let(V("f"), Num(3)), C0("f")>>,
        Setup \o <<Let(V("w"), F(<<Req("f")>>, Bin("+", C0("f"), S("f")))), C1("w", Num(3))>>}

MCPrograms == OperandPrograms \cup TryPrograms \cup EnvPrograms \cup CallPrograms

Fs == {Req("x"), Formal(V("x"), Num(7)), Req("y"), Formal(V("y"), Num(8)), Dots}
MCFormalLists == {s \in UNION {[1 .. n -> Fs] : n \in 1 .. 3} : \A i, j \in DOMAIN s : i # j => s[i].x # s[j].x}
MCActualLists ==
  {[g \in 1 .. Len(t) |-> Actual(t[g], Num(g))] :
     t \in UNION {[1 .. n -> {NoVar, V("x"), V("y"), V("w")}] : n \in 0 .. 3}}

-----------------------------------------------------------------------------
NoProgram == /\ prog = <<>> /\ k = <<>> /\ fr = <<>> /\ fstack = <<>> /\ status = "none"
             /\ cleared = {} /\ caught = {} /\ match = NoCall /\ tick = 0
MCLiteralIs == [n \in {"one"} |-> 1]
NoVariables == Began /\ odd = TRUE
MCInit == \/ (IInit \/ MatchInit) /\ NoVariables
          \/ NoProgram /\ CowInit
MCNext == \/ INext /\ UNCHANGED cowvars
          \/ CowNext /\ UNCHANGED ivars
MCSpec == MCInit /\ [][MCNext]_<<ivars, cowvars>> /\ Scheduled
=============================================================================
