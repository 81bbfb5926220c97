------------------------------ MODULE MCEncode ------------------------------
(***************************************************************************)
(* A message sent in chunks and read back; or a client of the library that *)
(* waits for answers in chunks.                                            *)
(***************************************************************************)
EXTENDS Encode, NetClient

Vec(t, es)      == [t |-> t, dim |-> <<Len(es)>>, names |-> <<<<>>>>, ordered |-> <<1>>, e |-> es]
Mat(t, es, nms) == [t |-> t, dim |-> <<2, Len(es) \div 2>>, names |-> <<<<>>, nms>>,
                    ordered |-> [k \in 1 .. Len(es) \div 2 |-> k % 2], e |-> es]
Ones(n)    == [k \in 1 .. n |-> <<k>>]
Named(nvs) == [t |-> "list", e |-> nvs]

Ex(t, str, lit, kids) == [t |-> t, str |-> str, lit |-> lit, kids |-> kids]
Sym(s)  == Ex("symbol", s, <<1>>, <<>>)
Lit(n)  == Ex("double", <<>>, <<n>>, <<>>)
Var(s)  == Ex("boundvar", s, <<>>, <<>>)
Block(es) == Ex("exprlist", <<>>, <<>>, es)

MCValues ==
  { [t |-> "null"],
    [t |-> "error", e |-> <<1, 2, 3>>],
    Vec("double", Ones(9)),
    Vec("double", <<>>),
    Mat("bool", Ones(6), <<<<1>>, <<2, 3, 4>>, <<>>>>),
    Vec("interval", <<<<1, 2, 0>>, <<2, 3, 1>>, <<4, 5, 0>>>>),
    Vec("period", <<<<1, 2>>, <<3, 4>>>>),
    Vec("string", <<<<1, 2, 3>>, <<>>, <<4, 5>>>>),
    [t |-> "zts", data |-> Mat("double", Ones(4), <<<<7>>, <<8>>>>), idx |-> Vec("time", Ones(2))],
    Named(<<>>),
    Named(<<<< <<5, 6, 7>>, [t |-> "null"]>>,
            << <<>>, Named(<<<< <<9>>, Vec("duration", Ones(2))>>, << <<>>, Named(<<>>)>>>>)>>,
            << <<1>>, Vec("time", Ones(3))>>>>),
    Named(<<<< <<1>>, [t |-> "code"]>>>>) }

MCCodes ==
  { Ex("funcall", <<>>, <<>>,
       <<Sym(<<1, 2, 3>>),
         Block(<<Ex("arg", <<>>, <<0>>, <<Lit(4)>>),
                 Ex("taggedexpr", <<>>, <<>>, <<Sym(<<>>), Var(<<2>>)>>)>>)>>),
    Block(<<Ex("leftassign", <<>>, <<>>,
               <<Sym(<<1>>),
                 Ex("function", <<>>, <<>>,
                    <<Block(<<Ex("arg", <<>>, <<1>>, <<Sym(<<2>>)>>)>>),
                      Ex("ifelse", <<>>, <<>>,
                         <<Ex("bool", <<>>, <<1>>, <<>>),
                           Ex("binop", <<>>, <<3>>, <<Lit(1), Ex("unop", <<>>, <<2>>, <<Lit(5)>>)>>),
                           Ex("null", <<>>, <<>>, <<>>)>>)>>)>>),
            Ex("interval", <<>>, <<1, 2, 0>>, <<>>)>>) }

MCRooms == (6 .. 40) \cup {120}

MCMessages ==
  ({NoCode} \X MCValues)
    \cup (MCCodes \X {Named(<<>>), Named(<<<< <<2>>, Vec("double", Ones(2))>>>>)})

-----------------------------------------------------------------------------
NoClient == pc = "none" /\ ClientOff
MCInit == EInit /\ (NoClient \/ ClientInit)
MCNext == \/ pc = "none" /\ ENext /\ UNCHANGED cvars
          \/ pc # "none" /\ ClientNext /\ UNCHANGED evars
MCSpec == MCInit /\ [][MCNext]_<<evars, cvars>> /\ ClientFair
=============================================================================
