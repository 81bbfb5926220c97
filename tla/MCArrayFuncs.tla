---------------------------- MODULE MCArrayFuncs ----------------------------
(***************************************************************************)
(* A few calls on one array or series; or operators applied to a variable. *)
(***************************************************************************)
EXTENDS ArrayFuncs, Operators

A == <<1>>
B == <<2>>
Arr(dim, data, names) == Value("double", make_array(dim, data, names), NoIndex)

MCSources == {Arr(<<n>>, d, <<>>) : n \in {0}, d \in {<<>>}}
  \cup {Arr(<<Len(d)>>, d, <<n>>) : d \in {<<1>>}, n \in {<<>>, <<A>>}}
  \cup {Arr(<<3>>, d, n) : d \in {<<1, 2, 3>>, <<2, 1, 2>>}, n \in {<<>>, <<<<A, B, A>>>>}}
  \cup {Arr(<<2, 2>>, d, n) : d \in {<<1, 2, 3, 4>>, <<2, 1, 1, 3>>},
                             n \in {<<>>, <<<<A, B>>, <<>>>>, <<<<>>, <<B, A>>>>}}
  \cup {Arr(<<2, 3>>, <<1, 2, 3, 4, 5, 6>>, <<>>), Arr(<<2, 1>>, <<1, 2>>, <<>>), Arr(<<1, 2, 2>>, <<1, 2, 3, 4>>, <<>>)}
  \cup {Value("time", make_array(<<3>>, <<1, 2, 3>>, n), NoIndex) : n \in {<<>>, <<<<A, B, A>>>>}}
  \cup {Value("time", make_array(<<1>>, <<2>>, <<>>), NoIndex)}
  \cup {zts(vector_range(<<1, 2, 3>>), make_array(<<3, 1>>, <<3, 2, 1>>, <<>>)),
        zts(vector_range(<<1, 2>>), make_array(<<2, 2>>, <<1, 2, 3, 4>>, <<>>))}
MCOthers ==
  {Arr(<<1>>, <<2>>, <<>>), Arr(<<2>>, <<4, 5>>, <<<<A, B>>>>), Arr(<<2, 2>>, <<1, 2, 3, 4>>, <<>>),
   Arr(<<1, 1, 2>>, <<5, 6>>, <<>>), Value("time", make_array(<<2>>, <<3, 4>>, <<>>), NoIndex),
   zts(vector_range(<<3, 4>>), make_array(<<2, 2>>, <<5, 6, 7, 8>>, <<>>)),
   zts(vector_range(<<1, 2>>), make_array(<<2, 1>>, <<5, 6>>, <<>>))}
Arg(type, e) == [type |-> type, e |-> e]
Ivl(s, e) == [s |-> s, e |-> e, sopen |-> FALSE, eopen |-> TRUE]
Rows == {Arg("null", <<>>), Arg("double", <<1>>), Arg("double", <<3, 1, 2>>), Arg("double", <<1, 2>>), Arg("double", <<-2>>),
         Arg("bool", <<TRUE, FALSE, TRUE>>), Arg("bool", <<FALSE, TRUE>>), Arg("string", <<A>>), Arg("string", <<B, A>>),
         Arg("time", <<2>>), Arg("time", <<3, 1>>), Arg("interval", <<Ivl(2, 4)>>), Arg("interval", <<Ivl(1, 2), Ivl(3, 4)>>)}
Cols == {Arg("null", <<>>), Arg("double", <<2>>), Arg("double", <<2, 1>>), Arg("double", <<-1>>),
         Arg("bool", <<TRUE, FALSE, TRUE>>), Arg("bool", <<FALSE, TRUE>>), Arg("string", <<B>>)}
Few == {Arg("null", <<>>), Arg("double", <<2>>), Arg("double", <<2, 1>>), Arg("bool", <<TRUE, FALSE>>),
        Arg("string", <<A>>), Arg("time", <<2>>), Arg("interval", <<Ivl(1, 2), Ivl(3, 4)>>)}
MCIndexArgs == {<<r>> : r \in Rows} \cup {<<r, c>> : r \in Few, c \in Cols}
  \cup {<<Arg("null", <<>>), Arg("double", <<2>>), Arg("double", <<1>>)>>}
MCElems == {<<7>>, <<2, 3>>, <<5, 4, 6>>, <<1, 2, 3, 4>>}
MCArgNames == {NoName, B}
MCCounts == {-1, 1, 2}

-----------------------------------------------------------------------------
MCElem(op, a, b) ==
  LET Bit(p) == IF p THEN 1 ELSE 0
  IN  CASE op = "PLUS" -> a + b [] op = "MINUS" -> a - b [] op = "MUL" -> a * b
        [] op \in {"DIV", "MOD", "POWER"} -> 1 - b
        [] op = "LE" -> Bit(a <= b) [] op = "LT" -> Bit(a < b) [] op = "EQ" -> Bit(a = b)
        [] op = "NE" -> Bit(a # b) [] op = "GE" -> Bit(a >= b) [] op = "GT" -> Bit(a > b)
        [] op = "AND" -> Bit(a # 0 /\ b # 0) [] op = "OR" -> Bit(a # 0 \/ b # 0)
Arrs == {make_array(<<1>>, <<2>>, <<>>), make_array(<<1, 1>>, <<0>>, <<>>),
         make_array(<<2>>, <<0, 1>>, <<<<A, A>>>>),
         make_array(<<3>>, <<2, 1, 3>>, <<>>), make_array(<<3, 1>>, <<1, 2, 3>>, <<>>), make_array(<<2, 3>>, <<1, 2, 0, 1, 2, 1>>, <<>>),
         make_array(<<3, 2>>, <<3, 1, 2, 0, 1, 2>>, <<>>)}
Dim(d) == {a \in Arrs : a.dim = d}
Basic(Ts, D) == {Operand(t, a, <<>>) : t \in Ts, a \in UNION {Dim(d) : d \in D}}
Z == {Operand("zts", a, i) : a \in Dim(<<3, 2>>) \cup Dim(<<3, 1>>), i \in {<<1, 2, 3>>, <<1, 2, 4>>}}
     \cup {Operand("zts", a, <<1>>) : a \in Dim(<<1, 1>>)}
Some == Basic({"double"}, {<<1>>, <<1, 1>>, <<3>>, <<2, 3>>, <<3, 2>>, <<3, 1>>})
        \cup Basic({"bool"}, {<<3>>, <<2, 3>>})
        \cup Basic({"time", "duration", "interval", "period"}, {<<1>>, <<3>>, <<2, 3>>})
        \cup Basic({"period"}, {<<3, 2>>}) \cup Basic({"string", "list"}, {<<3>>})
        \cup Basic({"error", "function"}, {<<1>>}) \cup Z
MCLefts == Some \cup {[o EXCEPT !.ref = TRUE] : o \in {p \in Some : p.kind \notin {"string", "list", "error", "function"}}}
MCRights == Some

-----------------------------------------------------------------------------
NoOperator == l = NoOperand /\ rhs = NoOperand /\ out = NoOut /\ torn = FALSE /\ nops = 0
MCInit == AInit /\ (NoOperator \/ OInit)
MCNext == \/ l = NoOperand /\ ANext /\ UNCHANGED ovars
          \/ l # NoOperand /\ ONext /\ UNCHANGED avars
MCSpec == MCInit /\ [][MCNext]_<<avars, ovars>>
=============================================================================
