------------------------------- MODULE Encode -------------------------------
(***************************************************************************)
(* A message on its way: Encode writes a value, or an expression and its   *)
(* bound values, into chunks; RspState and ReqState read it back chunk by  *)
(* chunk, without putting the chunks together (encode.hpp, encode.cpp,     *)
(* interp_ctx.cpp).                                                        *)
(*                                                                         *)
(* The unit is the cell, 8 bytes.  A number, a tag or a pair of flags is   *)
(* one cell; a cell of a string holds Align characters.  Of an expression  *)
(* only the shape counts.  The field split of the writer is a note for the *)
(* properties: a chunk has ended inside something that is read in one go.  *)
(***************************************************************************)
EXTENDS Integers, Sequences, FiniteSets, SequencesExt

CONSTANTS Rooms,      \* what fits in a chunk behind its header, in cells
          Messages    \* pairs <<expression, value>>; NoCode in a response

ASSUME EncodeAssumption == Rooms \subseteq Nat

VARIABLES
  msg,          \* the message sent
  out,          \* the writer: [room, sent, buf, bad, split]
  state,        \* CTX_REQ_..., CTX_RSP...
  codeLen, codeBuf, code,
  chunk, off,   \* the chunk being read and the cells of it already read
  valstack, idx,
  status        \* "idle", "chunk" (readValue loops), "wait", or how it ended

evars == <<msg, out, state, codeLen, codeBuf, code, chunk, off, valstack, idx, status>>

Align  == 2
NoCode == [t |-> "none"]

-----------------------------------------------------------------------------
(* Encode                                                                  *)

flush(o) == [o EXCEPT !.sent = Append(@, o.buf), !.buf = <<>>]

Put(o, c) ==
  LET p == IF Len(o.buf) + 1 > o.room THEN flush(o) ELSE o
  IN  [p EXCEPT !.buf = Append(@, c)]

\* p follows o; what lies between them is read in one go.
InOneGo(o, p) == [p EXCEPT !.split = @ \/ Len(p.sent) > Len(o.sent)]

PutAll(o, s) == IF s = <<>> THEN o
                ELSE LET p == Put(o, s[1]) IN InOneGo(p, FoldLeft(Put, p, Tail(s)))

\* Characters in whole cells.
Cells(s) ==
  [k \in 1 .. (Len(s) + Align - 1) \div Align |->
     [j \in 1 .. Align |-> IF Align * (k - 1) + j <= Len(s) THEN s[Align * (k - 1) + j] ELSE 0]]

\* operator <<(const string&).  A string that fills the chunk sends the chunk
\* without it, starts again from its first character, and keeps the chunk; with
\* no place at all it does so for ever.
RECURSIVE PutChars(_, _, _)
PutChars(o, s, done) ==
  LET nmax      == Align * (o.room - Len(o.buf))
      remaining == Len(s) - done
  IN  CASE remaining <= 0   -> o
        [] remaining > 0 /\ remaining < nmax ->
             [o EXCEPT !.buf = @ \o Cells(SubSeq(s, 1, remaining))]
        [] remaining > 0 /\ remaining >= nmax /\ nmax > 0 ->
             PutChars([o EXCEPT !.sent = Append(@, o.buf), !.bad = "cut"], s, done + nmax)
        [] OTHER -> [o EXCEPT !.bad = "flood", !.split = TRUE]

PutString(o, s) == LET p == Put(o, Len(s)) IN InOneGo(p, PutChars(p, s, 0))

\* How many cells an element of an array takes.
Width(t) == CASE t = "interval" -> 3 [] t = "period" -> 2 [] OTHER -> 1
Arrays_ == {"double", "bool", "time", "duration", "interval", "period", "string"}
isArray(t) == t \in Arrays_ \cup {"zts"}
isAtomic(t) == t \in {"std_int", "std_string", "error"}

PutElement(t, o, e) == IF t = "string" THEN PutString(o, e) ELSE PutAll(o, e)

List(s)    == [t |-> "list", e |-> [k \in 1 .. Len(s) |-> <<<<>>, s[k]>>]]
Ints(s)    == [t |-> "std_int", e |-> s]
String(s)  == [t |-> "std_string", e |-> s]

\* Dimensions, names and order of an array.
ArrayList(a) ==
  List(<<Ints(a.dim),
         List([d \in 1 .. Len(a.names) |->
                 List([k \in 1 .. Len(a.names[d]) |-> String(a.names[d][k])])]),
         Ints(a.ordered)>>)

\* Mutant: the room for a header is not looked at.
NoHeaderRoom(o) == o

\* A tag and its length go in one chunk.
HeaderRoom(o) == IF Len(o.buf) + 2 >= o.room THEN flush(o) ELSE o

\* operator <<(const val::Value&): a tag and a length are kept in one chunk, but not
\* those of the two arrays inside a zts.
RECURSIVE PutValue(_, _)
PutValue(o, v) ==
  LET q == Put(HeaderRoom(o), v.t)
      PutArray(r, a) ==
        LET body == PutValue(Put(r, Len(a.e)), ArrayList(a))
        IN  FoldLeft(LAMBDA w, e : PutElement(a.t, w, e), body, a.e)
      Named(r, nv) ==
        PutValue(PutValue(PutAll(HeaderRoom(r), <<"named", 2>>), String(nv[1])), nv[2])
  IN  CASE o.bad # "no" -> o
        [] o.bad = "no" /\ v.t = "null" -> Put(q, 0)
        [] o.bad = "no" /\ v.t = "list" -> FoldLeft(Named, Put(q, Len(v.e)), v.e)
        [] o.bad = "no" /\ v.t = "std_int" -> PutAll(q, <<Len(v.e)>> \o v.e)
        [] o.bad = "no" /\ v.t \in {"std_string", "error"} -> PutString(q, v.e)
        [] o.bad = "no" /\ v.t \in Arrays_ -> PutArray(q, v)
        [] o.bad = "no" /\ v.t = "zts" ->
             LET first  == Put(Put(q, 2), "double")
                 data   == PutArray(first, v.data)
                 second == Put(data, "time")
                 split  == Len(first.buf) = o.room \/ Len(second.buf) = o.room
             IN  [PutArray(second, v.idx) EXCEPT !.split = @ \/ split]
        [] OTHER -> [q EXCEPT !.bad = "thrown"]

-----------------------------------------------------------------------------
(* Expressions: [t, str, lit, kids], where str is empty or holds a name.   *)

HasString == {"symbol", "string", "boundvar"}
Literals(t) == CASE t = "interval" -> 3
                 [] t \in {"bool", "double", "dtime", "symbol", "unop", "binop", "arg"} -> 1
                 [] OTHER -> 0
Kids(t) == CASE t \in {"unop", "for", "arg"} -> 1
             [] t \in {"binop", "while", "leftassign", "specialassign", "request",
                       "taggedexpr", "function", "funcall"} -> 2
             [] t = "ifelse" -> 3
             [] OTHER -> 0

RECURSIVE codeLength(_)
codeLength(e) ==
  1 + (IF e.t \in HasString THEN 1 + Len(Cells(e.str)) ELSE 0)
    + Literals(e.t)
    + (IF e.t = "exprlist" THEN 1 ELSE 0)
    + FoldLeft(LAMBDA n, k : n + codeLength(k), 0, e.kids)

RECURSIVE writeCode(_, _)
writeCode(o, e) ==
  LET tag == Put(o, e.t)
      str == IF e.t \in HasString THEN PutString(tag, e.str) ELSE tag
      lit == PutAll(str, e.lit)
      cnt == IF e.t = "exprlist" THEN Put(lit, Len(e.kids)) ELSE lit
  IN  FoldLeft(writeCode, cnt, e.kids)

Broken == [t |-> "invalid_argument", str |-> <<>>, lit |-> <<>>, kids |-> <<>>]

\* readCode: <<expression, next position>>.  The arguments of a constructor are read
\* from left to right, as the compiler of the Makefile does.
RECURSIVE readCode(_, _)
readCode(buf, p) ==
  LET t     == buf[p]
      slen  == IF t \in HasString THEN buf[p + 1] ELSE 0
      words == IF t \in HasString THEN (slen + Align - 1) \div Align ELSE 0
      p1    == p + 1 + (IF t \in HasString THEN 1 + words ELSE 0)
      p2    == p1 + Literals(t)
      p3    == IF t = "exprlist" THEN p2 + 1 ELSE p2
      n     == IF t = "exprlist" THEN buf[p2] ELSE Kids(t)
      step(acc, k) == LET r == readCode(buf, acc[2]) IN <<Append(acc[1], r[1]), r[2]>>
      kids  == FoldLeft(step, <<<<>>, p3>>, [k \in 1 .. n |-> k])
      wrong == \/ t = "taggedexpr" /\ kids[1][1].t # "symbol"
               \/ t = "function"   /\ kids[1][1].t # "exprlist"
               \/ t = "funcall"    /\ kids[1][2].t # "exprlist"
  IN  << IF wrong THEN Broken
         ELSE [t    |-> t,
               str  |-> SubSeq(FlattenSeq(SubSeq(buf, p1 - words, p1 - 1)), 1, slen),
               lit  |-> SubSeq(buf, p1, p2 - 1),
               kids |-> kids[1]],
         kids[2] >>

-----------------------------------------------------------------------------
(* Sending                                                                 *)

Transmissible(v) == v.t \notin {"clos", "builting", "future", "connection", "timer"}

Blank(room) == [room |-> room, sent |-> <<>>, buf |-> <<>>, bad |-> "no", split |-> FALSE]

\* sendReq and sendRsp: the last chunk is sent whatever it holds.
Encoded(room, m) ==
  LET withCode == IF m[1] = NoCode THEN Blank(room)
                  ELSE writeCode(Put(Blank(room), codeLength(m[1])), m[1])
      atEnd == m[1] # NoCode /\ Len(withCode.buf) + 2 >= room
  IN  flush([PutValue(withCode, m[2]) EXCEPT !.split = @ \/ atEnd])

EInit ==
  /\ msg = <<NoCode, [t |-> "null"]>> /\ out = Blank(0)
  /\ state = "CTX_IDLE" /\ codeLen = 0 /\ codeBuf = <<>> /\ code = NoCode
  /\ chunk = <<>> /\ off = 0 /\ valstack = <<>> /\ idx = 0
  /\ status = "idle"

Send(m, room) ==
  /\ status = "idle" /\ Transmissible(m[2])
  /\ msg' = m
  /\ out' = Encoded(room, m)
  /\ status' = IF out'.bad = "no" THEN "wait" ELSE out'.bad
  /\ UNCHANGED <<state, codeLen, codeBuf, code, chunk, off, valstack, idx>>

-----------------------------------------------------------------------------
(* Receiving                                                               *)

Sent == UNCHANGED msg
Code == UNCHANGED <<codeLen, codeBuf, code>>

\* RspState::readData takes the next chunk.
RspData ==
  /\ status = "wait" /\ out.sent # <<>> /\ msg[1] = NoCode
  /\ state' = "CTX_RSP"
  /\ chunk' = Head(out.sent) /\ off' = 0
  /\ out' = [out EXCEPT !.sent = Tail(@)]
  /\ status' = "chunk"
  /\ Sent /\ Code /\ UNCHANGED <<valstack, idx>>

\* ReqState::readData: the length of the code, the code, and in what is left of the
\* chunk the values.
ReqData ==
  /\ status = "wait" /\ out.sent # <<>> /\ msg[1] # NoCode
  /\ LET data   == Head(out.sent)
         first  == state = "CTX_IDLE"
         length == IF first THEN data[1] ELSE codeLen
         buf    == IF first THEN Tail(data) ELSE data
         copied == IF state = "CTX_REQ_VALUE" THEN 0
                   ELSE IF Len(codeBuf) + Len(buf) >= length THEN length - Len(codeBuf)
                   ELSE Len(buf)
         all    == codeBuf \o SubSeq(buf, 1, copied)
         full   == state # "CTX_REQ_VALUE" /\ Len(all) = length
     IN  /\ code'    = IF full THEN readCode(all, 1)[1] ELSE code
         /\ codeBuf' = IF full THEN <<>> ELSE all
         /\ codeLen' = IF full THEN 0 ELSE length
         /\ state'   = IF full \/ state = "CTX_REQ_VALUE" THEN "CTX_REQ_VALUE" ELSE "CTX_REQ_CODE"
         /\ chunk'   = SubSeq(buf, copied + 1, Len(buf))
         /\ status'  = IF state' = "CTX_REQ_VALUE" THEN "chunk" ELSE "wait"
  /\ off' = 0
  /\ out' = [out EXCEPT !.sent = Tail(@)]
  /\ Sent /\ UNCHANGED <<valstack, idx>>

Fixed_ == UNCHANGED <<msg, out, state, codeLen, codeBuf, code, chunk>>
Left   == Len(chunk) - off
Inner  == idx > 0 /\ idx < Len(valstack)
Top    == valstack[idx]
Under  == valstack[idx + 1]   \* the value just completed, a part of Top

\* The rest of a vector of integers or of a string begins the chunk: it is taken for
\* the header of a value.
Unfinished == idx > 0 /\ isAtomic(Top.val.t) /\ Top.n < Top.exp

make_value(t) ==
  CASE t = "null"  -> [t |-> t]
    [] t = "named" -> [t |-> t, name |-> <<>>, val |-> [t |-> "null"]]
    [] t = "zts"   -> [t |-> t]
    [] t \in Arrays_ -> [t |-> t, dim |-> <<0, 1>>, names |-> <<>>, ordered |-> <<>>, e |-> <<>>]
    [] OTHER       -> [t |-> t, e |-> <<>>]

\* The loop of readValue goes on ...
Loops == status = "chunk" /\ (Left > 0 \/ Inner)

\* ... with the tag and the length of a value.  The length is read without looking
\* where the chunk ends.
ReadHeader ==
  /\ Loops /\ idx = Len(valstack) /\ Fixed_
  /\ IF Left < 2 \/ Unfinished
     THEN status' = "garbled" /\ UNCHANGED <<off, valstack, idx>>
     ELSE LET t == chunk[off + 1]
              n == chunk[off + 2]
          IN  /\ off' = off + 2
              /\ valstack' = Append(valstack, [val |-> make_value(t), exp |-> n, n |-> 0, stage |-> 0])
              /\ idx' = idx + 1
              \* a value without parts goes on in the same turn of the loop
              /\ status' = IF isArray(t) \/ (n > 0 /\ ~isAtomic(t)) THEN "chunk"
                           ELSE IF off' = Len(chunk) /\ n # 0 THEN "return" ELSE "value"

\* A chunk that begins inside a value, or a value whose part is complete.
ReadOn ==
  /\ Loops /\ idx < Len(valstack) /\ Fixed_
  /\ status' = "value" /\ UNCHANGED <<off, valstack, idx>>

Switch(ts) == status = "value" /\ Top.val.t \in ts /\ Fixed_
SetTop(x)  == valstack' = [valstack EXCEPT ![idx] = x]
Again      == status' = "chunk"

\* Mutant: the part stays on the stack.
DropNothing(x) == valstack' = [valstack EXCEPT ![idx] = x]

\* Top becomes x; the part above it is popped.
Drop(x) == valstack' = Append(SubSeq(valstack, 1, idx - 1), x)

\* A vector of integers or a string, as far as the chunk goes.
ReadAtom ==
  /\ Switch({"std_int", "std_string", "error"})
  /\ LET ints == Top.val.t = "std_int"
         per  == IF ints THEN 1 ELSE Align
         want == IF ints THEN Top.exp - Top.n ELSE Top.exp
         len  == IF want < per * Left THEN want ELSE per * Left
         used == (len + per - 1) \div per
         data == SubSeq(chunk, off + 1, off + used)
         n    == Top.n + per * used
     IN  /\ SetTop([Top EXCEPT !.val.e = @ \o IF ints THEN data ELSE SubSeq(FlattenSeq(data), 1, len),
                               !.n = n])
         /\ off' = off + used
         /\ idx' = IF n >= Top.exp THEN idx - 1 ELSE idx
  /\ Again

ReadNull ==
  /\ Switch({"null"}) /\ idx' = idx - 1 /\ Again /\ UNCHANGED <<off, valstack>>

\* readArray, stage 0: convertFromList.
ArrayMade ==
  /\ Switch(Arrays_) /\ Top.stage = 0
  /\ LET lst == Under.val.e
         nms == [d \in 1 .. Len(lst[2][2].e) |->
                   [k \in 1 .. Len(lst[2][2].e[d][2].e) |-> lst[2][2].e[d][2].e[k][2].e]]
         top == [Top EXCEPT !.val.dim = lst[1][2].e, !.val.names = nms,
                            !.val.ordered = lst[3][2].e, !.stage = 1]
     IN  IF Top.exp = 0
         THEN Drop(top) /\ idx' = idx - 1
         ELSE SetTop(top) /\ UNCHANGED idx
  /\ Again /\ UNCHANGED off

\* Stage 1: the elements.  Numbers are copied by whole elements, and as long as the
\* chunk has a rest the loop goes on; a string is taken from where it begins.
ArrayRead ==
  /\ Switch(Arrays_ \ {"string"}) /\ Top.stage = 1
  /\ LET w    == Width(Top.val.t)
         fits == Left \div w
         want == Top.exp - Top.n
         k    == IF want < fits THEN want ELSE fits
         nums == [j \in 1 .. k |-> SubSeq(chunk, off + w * (j - 1) + 1, off + w * j)]
         n    == Top.n + k
         top  == [Top EXCEPT !.val.e = @ \o nums, !.n = n]
     IN  /\ off' = off + w * k
         /\ IF n = Top.exp
            THEN Drop(top) /\ idx' = idx - 1 /\ Again
            ELSE /\ SetTop(top) /\ UNCHANGED idx
                 /\ status' = IF off' = Len(chunk) THEN "return" ELSE "spin"

StringsRead ==
  /\ Switch({"string"}) /\ Top.stage = 1
  /\ IF Left = 0 THEN status' = "return" /\ UNCHANGED <<off, valstack, idx>>
     ELSE LET len  == chunk[off + 1]
              used == (len + Align - 1) \div Align
              s    == SubSeq(FlattenSeq(SubSeq(chunk, off + 2, off + 1 + used)), 1, len)
              top  == [Top EXCEPT !.val.e = Append(@, s), !.n = @ + 1]
          IN  IF off + 1 + used > Len(chunk)
              THEN status' = "garbled" /\ UNCHANGED <<off, valstack, idx>>
              ELSE /\ off' = off + 1 + used
                   /\ IF top.n = top.exp
                      THEN Drop(top) /\ idx' = idx - 1 /\ Again
                      ELSE SetTop(top) /\ UNCHANGED <<idx, status>>

ReadList ==
  /\ Switch({"list"})
  /\ IF Top.n < Top.exp
     THEN /\ Drop([Top EXCEPT !.val.e = Append(@, <<Under.val.name, Under.val.val>>), !.n = @ + 1])
          /\ idx' = IF Top.n + 1 = Top.exp THEN idx - 1 ELSE idx
     ELSE idx' = idx - 1 /\ UNCHANGED valstack
  /\ Again /\ UNCHANGED off

\* The array of the data, then that of the times.
ReadZts ==
  /\ Switch({"zts"})
  /\ IF Top.stage = 0
     THEN /\ Drop([Top EXCEPT !.val = [t |-> "zts", data |-> Under.val], !.n = @ + 1, !.stage = 1])
          /\ UNCHANGED idx
     ELSE /\ Drop([Top EXCEPT !.val = [t |-> "zts", data |-> @.data, idx |-> Under.val], !.n = @ + 1])
          /\ idx' = idx - 1
  /\ Again /\ UNCHANGED off

ReadNamed ==
  /\ Switch({"named"})
  /\ IF Top.n = 0
     THEN Drop([Top EXCEPT !.val.name = Under.val.e, !.n = 1]) /\ UNCHANGED idx
     ELSE Drop([Top EXCEPT !.val.val = Under.val, !.n = 2]) /\ idx' = idx - 1
  /\ Again /\ UNCHANGED off

\* Mutant: a response is complete when one part is missing.
ReadDoneEarly ==
  /\ \/ status = "return"
     \/ status = "chunk" /\ ~Loops
  /\ status' = IF valstack = <<>> THEN "nostack"
               ELSE IF state = "CTX_REQ_VALUE" /\ valstack[1].n = valstack[1].exp THEN "done"
               ELSE IF state = "CTX_RSP" /\ valstack[1].n + 1 >= valstack[1].exp THEN "done"
               ELSE "wait"
  /\ Fixed_ /\ UNCHANGED <<off, valstack, idx>>

\* readValue returns; a request is complete when the list has its length, a response
\* when the value has at least its length.
ReadDone ==
  /\ \/ status = "return"
     \/ status = "chunk" /\ ~Loops
  /\ status' = IF valstack = <<>> THEN "nostack"
               ELSE IF state = "CTX_REQ_VALUE" /\ valstack[1].n = valstack[1].exp THEN "done"
               ELSE IF state = "CTX_RSP" /\ valstack[1].n >= valstack[1].exp THEN "done"
               ELSE "wait"
  /\ Fixed_ /\ UNCHANGED <<off, valstack, idx>>

ENext == \/ \E m \in Messages, r \in Rooms : Send(m, r)
         \/ RspData \/ ReqData \/ ReadHeader \/ ReadOn
         \/ ReadAtom \/ ReadNull \/ ArrayMade \/ ArrayRead \/ StringsRead
         \/ ReadList \/ ReadZts \/ ReadNamed \/ ReadDone

ESpec == EInit /\ [][ENext]_evars

-----------------------------------------------------------------------------
(* Properties.                                                             *)

\* Every variable has its type; valstack[idx] is being read or has just been
\* completed by the value above it.
DecoderTypeOK ==
  /\ state \in {"CTX_IDLE", "CTX_REQ_CODE", "CTX_REQ_VALUE", "CTX_RSP"}
  /\ status \in {"idle", "wait", "chunk", "value", "return", "done",
                "cut", "flood", "thrown", "garbled", "spin", "nostack"}
  /\ off \in 0 .. Len(chunk) /\ codeLen \in Nat
  /\ idx \in 0 .. Len(valstack) /\ Len(valstack) <= idx + 1

\* What is taken for a complete message is the message, all of it and no more: the
\* expression and its values, with the names, dimensions and order of every array
\* and the nesting of lists, wherever the chunks end.  (Excepted is an array without
\* elements, complete by its length before its names are read.)
DoneIsRight ==
  status = "done" =>
    /\ code = msg[1]
    /\ \/ valstack[1].val = msg[2] /\ out.sent = <<>> /\ Len(valstack) = 1
       \/ isArray(msg[2].t) /\ valstack[1].exp = 0

\* A message none of whose strings, vectors of integers, wide elements and headers of
\* a zts is cut by the end of a chunk is understood to its end: the reader neither
\* stops early, nor waits for a chunk that does not come, nor reads beyond one.
UncutArrives ==
  ~out.split =>
    /\ status \in {"idle", "wait", "chunk", "value", "return", "done", "thrown"}
    /\ status = "wait" => out.sent # <<>>

\* A message is read back as it was written, wherever its chunks end, or is not taken
\* for complete; and the states of the decoder fit each other all the way.
DecodedIsRight == DecoderTypeOK /\ DoneIsRight /\ UncutArrives
=============================================================================
