------------------------------ MODULE ZtsStore ------------------------------
(***************************************************************************)
(* A persistent time series: an index of times and an array of NC columns, *)
(* every column a Vector in a file mapped into memory (zts.cpp, array.hpp, *)
(* vector_base.hpp, allocator.hpp).                                        *)
(*                                                                         *)
(* An append goes column by column and writes the lengths dim last.  The   *)
(* process may be killed between any two writes: what was written to the   *)
(* mapping stays in the file.  A reallocation may fail.  Then the process  *)
(* starts again and loads the files.                                       *)
(***************************************************************************)
EXTENDS Integers, Sequences, FiniteSetsExt

CONSTANTS NC,            \* number of data columns
          InitialAlloc,  \* VECTOR_INITIAL_ALLOC
          MaxChunk,      \* bound: rows in one append
          MaxRows,       \* bound: largest time stamp that is appended
          MaxOps,        \* bound: appends and resizes
          MaxFail,       \* bound: reallocations that fail
          MaxCrash       \* bound: crashes

ASSUME StoreAssumption ==
  /\ NC \in Nat \ {0} /\ MaxChunk \in Nat \ {0}
  /\ InitialAlloc \in Nat /\ InitialAlloc >= 6
  /\ MaxRows \in Nat /\ MaxOps \in Nat /\ MaxFail \in Nat /\ MaxCrash \in Nat

VARIABLES
  vec,     \* vec[0] the column of the index, vec[1..NC] those of the data
  dim,     \* dim.idx, dim.a: dim[0] of the two arrays, each in its own file
  open,    \* the mapping has the descriptor it needs to grow (mmapallocator::fd)
  pc, at,  \* the write that comes next; the column, or the element, it is about
  req,     \* the append or resize in progress
  ops, fails, crashes,
  hurt,    \* history: a failure or a crash left columns of different lengths
  overrun  \* history: an element was written outside the memory of its column

vars == <<vec, dim, open, pc, at, req, ops, fails, crashes, hurt, overrun>>

Cols == 0 .. NC
Data == 1 .. NC

\* A row carries its time in every column, so a row that mixes two appends shows.
NoReq == [op |-> "none", times |-> <<>>, wrong |-> FALSE, sz |-> 0]

Junk == 0   \* an element that was never initialized; times are positive

Ascending(s) == \A i \in 1 .. Len(s) - 1 : s[i] < s[i + 1]

-----------------------------------------------------------------------------
(* Vector.  v are the elements, cap the capacity it believes it has, mem   *)
(* the elements its memory really holds, file those the file holds.        *)

\* Mutant: the capacity is counted in elements of the old size.
GrowStale(n) == IF n < InitialAlloc \div 2 THEN InitialAlloc ELSE n

growCapacity(n) == IF n < InitialAlloc \div 2 THEN InitialAlloc ELSE (n * 4) \div 3

NewVector == [v |-> <<>>, cap |-> growCapacity(0), mem |-> growCapacity(0),
              file |-> growCapacity(0), ordered |-> TRUE]

\* Mutant: the file is not extended.
ReallocNoExtend(x, n) == [x EXCEPT !.cap = n, !.mem = n]

\* mmapallocator::reallocate to n elements.  The file never shrinks.
Reallocated(x, n) == [x EXCEPT !.cap = n, !.mem = n, !.file = Max({@, n})]

\* capacity is assigned before the reallocation that may throw.
ReallocThrew(x, n) == [x EXCEPT !.cap = n]

\* resize(n): nothing when the length is already n; what it adds is not initialized.
Resizes(x, n) == n # Len(x.v)
Resized(x, n) ==
  [Reallocated(x, growCapacity(n)) EXCEPT
     !.v = [i \in 1 .. n |-> IF i <= Len(@) THEN @[i] ELSE Junk]]

\* Mutant: the elements are copied to the beginning.
AppendedAtStart(x, s) ==
  [Reallocated(x, growCapacity(Len(x.v) + Len(s))) EXCEPT
     !.v = s \o SubSeq(@ \o s, Len(s) + 1, Len(@) + Len(s))]

\* append(buf, len): grow, copy, and keep the flag if the seam is in order.
Appended(x, s) ==
  [Reallocated(x, growCapacity(Len(x.v) + Len(s))) EXCEPT
     !.v = @ \o s,
     !.ordered = /\ @ /\ Ascending(s)
                 /\ Len(x.v) > 0 /\ Len(s) > 0 => x.v[Len(x.v)] < s[1]]

\* push_back(e): grows only when the capacity is used up.
PushGrows(x) == Len(x.v) + 1 > x.cap
Pushed(x, e) ==
  [(IF PushGrows(x) THEN Reallocated(x, growCapacity(Len(x.v))) ELSE x) EXCEPT
     !.v = Append(@, e),
     !.ordered = Len(x.v) > 0 => @ /\ x.v[Len(x.v)] < e]

\* The constructor from a file: the capacity is the size of the file in bytes.
Loaded(x) == [x EXCEPT !.mem = x.file, !.cap = 8 * x.file + 24]

-----------------------------------------------------------------------------
Init ==
  /\ vec = [c \in Cols |-> NewVector]
  /\ dim = [idx |-> 0, a |-> 0]
  /\ open = TRUE
  /\ pc = "idle" /\ at = 0 /\ req = NoReq
  /\ ops = 0 /\ fails = 0 /\ crashes = 0
  /\ hurt = FALSE /\ overrun = FALSE

env == <<open, ops, crashes>>

\* (*idx)[idx->size()-1]: throws behind the end of the column, but for an empty
\* one, where size() - 1 wraps around and the stale memory is read.
LastTimes ==
  CASE dim.idx = 0             -> {0}
    [] dim.idx \in DOMAIN vec[0].v -> {vec[0].v[dim.idx]}
    [] dim.idx > 0 /\ vec[0].v = <<>> -> 0 .. MaxRows
    [] OTHER                   -> {}

\* A message comes: a chunk of rows that continues the index, or starts at or
\* before its end; wrong: its number of columns does not fit.  What follows a
\* call that failed is up to the sender.
Chunks ==
  {c \in UNION {[1 .. n -> 1 .. MaxRows] : n \in 1 .. MaxChunk} :
     /\ \E l \in LastTimes : c[1] \in {l, l + 1}
     /\ \A i \in 1 .. Len(c) - 1 : c[i + 1] \in {c[i], c[i] + 1}}

Begin(op, c, w) ==
  /\ pc = "idle" /\ ops < MaxOps
  /\ ops' = ops + 1
  /\ req' = [NoReq EXCEPT !.op = op, !.times = c, !.wrong = w]
  /\ pc' = IF op = "append" THEN "idxcol" ELSE "idxpush"
  /\ at' = 1
  /\ UNCHANGED <<vec, dim, open, fails, crashes, hurt, overrun>>

BeginResize(n) ==
  /\ pc = "idle" /\ n < dim.a /\ ops < MaxOps
  /\ ops' = ops + 1
  /\ req' = [NoReq EXCEPT !.op = "resize", !.sz = n]
  /\ pc' = "cutidx" /\ at' = 0
  /\ UNCHANGED <<vec, dim, open, fails, crashes, hurt, overrun>>

\* A reallocation succeeds if the mapping kept its descriptor; it may fail.
Fits  == open
Fails == open => fails < MaxFail
CountFail == fails' = IF open THEN fails + 1 ELSE fails

Return == pc' = "idle" /\ at' = 0 /\ req' = NoReq
Goto(l, n) == pc' = l /\ at' = n /\ UNCHANGED req

\* Vector c becomes x, unless the reallocation to n elements throws, which
\* leads to the handler.
Grows(c, x, n, ok, handler) ==
  \/ /\ Fits
     /\ vec' = [vec EXCEPT ![c] = x]
     /\ ok /\ UNCHANGED <<fails, hurt>>
  \/ /\ Fails
     /\ vec' = [vec EXCEPT ![c] = ReallocThrew(@, growCapacity(n))]
     /\ handler /\ CountFail

Shrinks(c, n, ok, handler) ==
  IF Resizes(vec[c], n)
  THEN Grows(c, Resized(vec[c], n), n, ok, handler)
  ELSE ok /\ UNCHANGED <<vec, fails, hurt>>

-----------------------------------------------------------------------------
(* zts::append: the index, its order, then the data.                       *)

\* Array::append of the index: its only column.  When it throws, the column is
\* resized to dim[0], and the exception leaves zts::append.
AppendIndexColumn ==
  /\ pc = "idxcol"
  /\ Grows(0, Appended(vec[0], req.times), Len(vec[0].v) + Len(req.times),
           Goto("idxdim", 0), Goto("idxback", 0) /\ UNCHANGED hurt)
  /\ UNCHANGED <<dim, env, overrun>>

IndexColumnBack ==
  /\ pc = "idxback"
  /\ Shrinks(0, dim.idx, Return, Return /\ hurt' = TRUE)
  /\ UNCHANGED <<dim, env, overrun>>

AppendIndexDim ==
  /\ pc = "idxdim"
  /\ dim' = [dim EXCEPT !.idx = @ + Len(req.times)]
  /\ Goto("order", 0)
  /\ UNCHANGED <<vec, fails, hurt, env, overrun>>

\* Mutant: the order is not looked at.
OrderUnchecked ==
  /\ pc = "order"
  /\ IF req.wrong THEN Goto("undo", 0) ELSE Goto("col", 1)
  /\ UNCHANGED <<vec, dim, fails, hurt, env, overrun>>

\* if (!idx->isOrdered()): undo and throw; the array checks the dimensions.
CheckOrder ==
  /\ pc = "order"
  /\ IF ~vec[0].ordered THEN Goto("undo", 1)
     ELSE IF req.wrong THEN Goto("undo", 0)
     ELSE Goto("col", 1)
  /\ UNCHANGED <<vec, dim, fails, hurt, env, overrun>>

\* Array::append of the data, one column after the other.
AppendColumn ==
  /\ pc = "col"
  /\ Grows(at, Appended(vec[at], req.times), Len(vec[at].v) + Len(req.times),
           IF at = NC THEN Goto("adim", 0) ELSE Goto("col", at + 1),
           Goto("back", 1) /\ UNCHANGED hurt)
  /\ UNCHANGED <<dim, env, overrun>>

\* catch (...): every column is resized to dim[0], which may throw in its turn;
\* either way zts::append catches it and resizes the index.
ColumnBack ==
  /\ pc = "back"
  /\ Shrinks(at, dim.a, IF at = NC THEN Goto("undo", 0) ELSE Goto("back", at + 1),
             Goto("undo", 0) /\ hurt' = TRUE)
  /\ UNCHANGED <<dim, env, overrun>>

AppendDim ==
  /\ pc = "adim"
  /\ dim' = [dim EXCEPT !.a = @ + Len(req.times)]
  /\ Return
  /\ UNCHANGED <<vec, fails, hurt, env, overrun>>

\* idx->resize(0, a->getdim(0)): the column, then dim; at = 1 forces the flag.
UndoIndex ==
  /\ pc = "undo"
  /\ Shrinks(0, dim.a, Goto("undodim", at), Return /\ hurt' = TRUE)
  /\ UNCHANGED <<dim, env, overrun>>

\* Mutant: the flag of the index is not restored.
UndoKeepsFlag ==
  /\ pc = "undodim"
  /\ dim' = [dim EXCEPT !.idx = dim.a]
  /\ Return
  /\ UNCHANGED <<vec, fails, hurt, env, overrun>>

UndoIndexDim ==
  /\ pc = "undodim"
  /\ dim' = [dim EXCEPT !.idx = dim.a]
  /\ vec' = IF at = 1 THEN [vec EXCEPT ![0].ordered = TRUE] ELSE vec
  /\ Return
  /\ UNCHANGED <<fails, hurt, env, overrun>>

-----------------------------------------------------------------------------
(* zts::appendVector: row by row for the index, element by element for the *)
(* data.                                                                   *)

\* Element e is written behind the last one: outside the memory if the capacity
\* says more than there is.
Push(c, e, ok, handler) ==
  /\ IF PushGrows(vec[c])
     THEN Grows(c, Pushed(vec[c], e), Len(vec[c].v), ok, handler)
     ELSE vec' = [vec EXCEPT ![c] = Pushed(@, e)] /\ ok /\ UNCHANGED <<fails, hurt>>
  /\ overrun' = (overrun \/ Len(vec'[c].v) > Max({vec'[c].mem, Len(vec[c].v)}))

\* The loop over the times: stop at one that does not ascend; concat the others.
\* Nothing catches what concat throws.
PushIndex ==
  /\ pc = "idxpush"
  /\ \/ /\ LastTimes = {} /\ Return
        /\ UNCHANGED <<vec, fails, hurt, overrun>>
     \/ \E l \in LastTimes :
          IF req.times[at] <= l
          THEN Goto("undo", 0) /\ UNCHANGED <<vec, fails, hurt, overrun>>
          ELSE Push(0, req.times[at], Goto("idxpushdim", at), Return /\ hurt' = TRUE)
  /\ UNCHANGED <<dim, env>>

\* setv(dim): then the next time or, after the sizes are compared, the data.
PushIndexDim ==
  /\ pc = "idxpushdim"
  /\ dim' = [dim EXCEPT !.idx = @ + 1]
  /\ IF at < Len(req.times) THEN Goto("idxpush", at + 1)
     ELSE IF req.wrong THEN Goto("undo", 0)
     ELSE Goto("push", 0)
  /\ UNCHANGED <<vec, fails, hurt, env, overrun>>

\* Array::appendVector: element number at of the data, column by column.
PushData ==
  /\ pc = "push"
  /\ LET k == Len(req.times)
     IN  Push(at \div k + 1, req.times[(at % k) + 1],
              IF at = NC * k - 1 THEN Goto("adim", 0) ELSE Goto("push", at + 1),
              Goto("undo", 0) /\ hurt' = TRUE)
  /\ UNCHANGED <<dim, env>>

-----------------------------------------------------------------------------
(* zts::resize to fewer rows: the index, then the array.                   *)

CutIndex ==
  /\ pc = "cutidx"
  /\ Shrinks(0, req.sz, Goto("cutidxdim", 0), Return /\ UNCHANGED hurt)
  /\ UNCHANGED <<dim, env, overrun>>

CutIndexDim ==
  /\ pc = "cutidxdim"
  /\ dim' = [dim EXCEPT !.idx = req.sz]
  /\ Goto("cut", 1)
  /\ UNCHANGED <<vec, fails, hurt, env, overrun>>

CutColumn ==
  /\ pc = "cut"
  /\ Shrinks(at, req.sz, IF at = NC THEN Goto("cutdim", 0) ELSE Goto("cut", at + 1),
             Return /\ hurt' = TRUE)
  /\ UNCHANGED <<dim, env, overrun>>

CutDim ==
  /\ pc = "cutdim"
  /\ dim' = [dim EXCEPT !.a = req.sz]
  /\ Return
  /\ UNCHANGED <<vec, fails, hurt, env, overrun>>

-----------------------------------------------------------------------------
(* Crash, and the constructor that loads the files.                        *)

Crash ==
  /\ pc # "down" /\ crashes < MaxCrash
  /\ pc' = "down" /\ at' = 0 /\ req' = NoReq
  /\ crashes' = crashes + 1
  /\ hurt' = (hurt \/ pc # "idle")
  /\ UNCHANGED <<vec, dim, open, ops, fails, overrun>>

\* checkDims and the order of the index.
Loads == dim.idx = dim.a /\ vec[0].ordered

\* mmapallocator::initialize keeps the descriptor in a local variable.
Load ==
  /\ pc = "down" /\ Loads
  /\ vec' = [c \in Cols |-> Loaded(vec[c])]
  /\ open' = FALSE
  /\ pc' = "idle"
  /\ UNCHANGED <<dim, at, req, ops, fails, crashes, hurt, overrun>>

Next ==
  \/ \E c \in Chunks, w \in BOOLEAN :
        \/ Begin("append", c, w)
        \/ Begin("vector", c, w)
  \/ \E n \in 0 .. MaxRows : BeginResize(n)
  \/ AppendIndexColumn \/ IndexColumnBack \/ AppendIndexDim \/ CheckOrder
  \/ AppendColumn \/ ColumnBack \/ AppendDim \/ UndoIndex \/ UndoIndexDim
  \/ PushIndex \/ PushIndexDim \/ PushData
  \/ CutIndex \/ CutIndexDim \/ CutColumn \/ CutDim
  \/ Crash \/ Load

Spec == Init /\ [][Next]_vars

-----------------------------------------------------------------------------
(* Properties.                                                             *)

Vectors == [v : Seq(0 .. MaxRows), cap : Nat, mem : Nat, file : Nat, ordered : BOOLEAN]

\* Every variable has its type; a column has its file behind its memory.
TypeOK ==
  /\ vec \in [Cols -> Vectors]
  /\ \A c \in Cols : vec[c].mem <= vec[c].file
  /\ dim \in [idx : Nat, a : Nat]
  /\ open \in BOOLEAN /\ hurt \in BOOLEAN /\ overrun \in BOOLEAN
  /\ ops \in 0 .. MaxOps /\ fails \in 0 .. MaxFail /\ crashes \in 0 .. MaxCrash

Row(i) == [c \in Cols |-> vec[c].v[i]]

\* What a reader of the files can rely on: rows inside every length.
Visible == Min({dim.idx, dim.a} \cup {Len(vec[c].v) : c \in Cols})
rows == [i \in 1 .. Visible |-> Row(i)]

Coherent ==
  /\ dim.idx = dim.a
  /\ \A c \in Cols : Len(vec[c].v) = dim.a
  /\ vec[0].ordered /\ Ascending(vec[0].v)
  /\ \A i \in 1 .. dim.a, c \in Data : vec[c].v[i] = vec[0].v[i]

\* "stay in a coherent state!": an append or a resize that ends, whether it
\* succeeds or throws for its order, its dimensions or a reallocation that fails,
\* leaves index and columns of one length, rows whole, times ascending; excepted
\* are the three places where nothing undoes a failure, and a crash in the middle.
CoherentWhenIdle == pc = "idle" /\ ~hurt => Coherent

\* No append, no rollback, no crash and no load overwrites or loses a row that was
\* complete: only a resize takes rows away.
RowsAreKept ==
  [][/\ \A i \in 1 .. Visible : i <= Visible' => Row(i)' = Row(i)
     /\ Visible' < Visible => req.op = "resize"]_vars

\* push_back writes inside the memory of its vector, as long as no reallocation
\* has failed and the file was not loaded.
WritesInBounds == overrun => fails > 0 \/ crashes > 0

\* An append is all or nothing.
Log == INSTANCE Series WITH broken <- hurt, Times <- 1 .. MaxRows
ImplementsSeries == Log!Spec

\* "it's important to do the dimension update at the end, as it allows mmapped
\* arrays to recover in the event of a crash in the middle of an append": the
\* files that a crash leaves can be loaded.
Recoverable == pc = "down" => Loads
=============================================================================
