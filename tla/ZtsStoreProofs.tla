--------------------------- MODULE ZtsStoreProofs ---------------------------
(***************************************************************************)
(* Theorems about ZtsStore, for every number of columns, every length of   *)
(* an append, and every number of operations, failures and crashes.        *)
(***************************************************************************)
EXTENDS ZtsStore, SequenceTheorems, WellFoundedInduction, TLAPS

(***************************************************************************)
(* Vector.                                                                 *)
(***************************************************************************)
\* The capacity asked for always has room for one element more.
LEMMA GrowCapacity ==
    ASSUME NEW n \in Nat
    PROVE  growCapacity(n) \in Nat /\ growCapacity(n) > n
  BY StoreAssumption DEF growCapacity

LEMMA MaxOfTwo ==
    ASSUME NEW a \in Int, NEW b \in Int
    PROVE  Max({a, b}) \in {a, b} /\ Max({a, b}) >= a /\ Max({a, b}) >= b
  <1>1. \E x \in {a, b} : \A y \in {a, b} : x >= y
    OBVIOUS
  <1> QED BY <1>1 DEF Max

LEMMA VectorFields ==
    ASSUME NEW x \in Vectors
    PROVE  /\ x.v \in Seq(0 .. MaxRows) /\ Len(x.v) \in Nat
           /\ x.cap \in Nat /\ x.mem \in Nat /\ x.file \in Nat /\ x.ordered \in BOOLEAN
  <1>1. x.v \in Seq(0 .. MaxRows) BY DEF Vectors
  <1> QED BY <1>1 DEF Vectors

\* mmapallocator::reallocate keeps the elements, and the file behind the memory.
LEMMA ReallocatedProperties ==
    ASSUME NEW x \in Vectors, NEW n \in Nat
    PROVE  /\ Reallocated(x, n) \in Vectors
           /\ Reallocated(x, n).v = x.v /\ Reallocated(x, n).ordered = x.ordered
           /\ Reallocated(x, n).cap = n /\ Reallocated(x, n).mem = n
           /\ Reallocated(x, n).file >= n
  <1>1. Max({x.file, n}) \in Nat /\ Max({x.file, n}) >= n
    <2>1. x.file \in Nat /\ x.file \in Int /\ n \in Int BY VectorFields
    <2>2. Max({x.file, n}) \in {x.file, n} /\ Max({x.file, n}) >= n
      BY <2>1, MaxOfTwo, Zenon
    <2> QED BY <2>1, <2>2
  <1> QED BY <1>1 DEF Reallocated, Vectors

\* resize: the rows that stay keep what they hold.
LEMMA ResizedProperties ==
    ASSUME NEW x \in Vectors, NEW n \in Nat
    PROVE  /\ Resized(x, n) \in Vectors
           /\ Len(Resized(x, n).v) = n
           /\ \A i \in 1 .. n : i <= Len(x.v) => Resized(x, n).v[i] = x.v[i]
           /\ Resized(x, n).ordered = x.ordered
           /\ Resized(x, n).cap = Resized(x, n).mem
           /\ Resized(x, n).mem <= Resized(x, n).file
  <1> DEFINE r == Reallocated(x, growCapacity(n))
             w == [i \in 1 .. n |-> IF i <= Len(x.v) THEN x.v[i] ELSE Junk]
  <1>1. /\ r \in Vectors /\ r.v = x.v /\ r.ordered = x.ordered /\ r.cap = r.mem
        /\ r.mem <= r.file
    BY GrowCapacity, ReallocatedProperties
  <1>2. w \in Seq(0 .. MaxRows) /\ Len(w) = n
    BY StoreAssumption DEF Vectors, Junk
  <1>3. Resized(x, n) = [r EXCEPT !.v = w]
    BY <1>1 DEF Resized
  <1> HIDE DEF r
  <1> QED BY <1>1, <1>2, <1>3 DEF Vectors

\* append(buf, len).
LEMMA AppendedProperties ==
    ASSUME NEW x \in Vectors, NEW s \in Seq(1 .. MaxRows)
    PROVE  /\ Appended(x, s) \in Vectors
           /\ Appended(x, s).v = x.v \o s
           /\ Appended(x, s).ordered =
                (/\ x.ordered /\ Ascending(s)
                 /\ Len(x.v) > 0 /\ Len(s) > 0 => x.v[Len(x.v)] < s[1])
           /\ Appended(x, s).cap = Appended(x, s).mem
           /\ Appended(x, s).mem <= Appended(x, s).file
  <1> DEFINE r == Reallocated(x, growCapacity(Len(x.v) + Len(s)))
             o == (/\ x.ordered /\ Ascending(s)
                   /\ Len(x.v) > 0 /\ Len(s) > 0 => x.v[Len(x.v)] < s[1])
  <1>1. x.v \in Seq(0 .. MaxRows) /\ s \in Seq(0 .. MaxRows) /\ Len(x.v) + Len(s) \in Nat
    <2>1. 1 .. MaxRows \subseteq 0 .. MaxRows BY StoreAssumption
    <2>2. s \in Seq(0 .. MaxRows) BY <2>1, SeqMonotonic
    <2>3. Len(s) \in Nat BY LenProperties
    <2> QED BY <2>2, <2>3, VectorFields
  <1>2. /\ r \in Vectors /\ r.v = x.v /\ r.ordered = x.ordered /\ r.cap = r.mem
        /\ r.mem <= r.file
    BY <1>1, GrowCapacity, ReallocatedProperties
  <1>3. x.v \o s \in Seq(0 .. MaxRows)
    BY <1>1, ConcatProperties
  <1>4. Appended(x, s) = [r EXCEPT !.v = x.v \o s, !.ordered = o]
    BY <1>2 DEF Appended
  <1>5. o \in BOOLEAN OBVIOUS
  <1>6. /\ Appended(x, s) \in Vectors
        /\ Appended(x, s).v = x.v \o s
        /\ Appended(x, s).ordered = o
        /\ Appended(x, s).cap = r.cap /\ Appended(x, s).mem = r.mem
        /\ Appended(x, s).file = r.file
    <2> HIDE DEF r, o
    <2> QED BY <1>2, <1>3, <1>4, <1>5 DEF Vectors
  <1> QED BY <1>2, <1>6

\* push_back: the element fits when the capacity is what there is.
LEMMA PushedProperties ==
    ASSUME NEW x \in Vectors, NEW e \in 0 .. MaxRows, x.mem <= x.file
    PROVE  /\ Pushed(x, e) \in Vectors
           /\ Pushed(x, e).v = Append(x.v, e)
           /\ Pushed(x, e).ordered = (Len(x.v) > 0 => x.ordered /\ x.v[Len(x.v)] < e)
           /\ Pushed(x, e).mem <= Pushed(x, e).file
           /\ x.cap = x.mem => /\ Pushed(x, e).cap = Pushed(x, e).mem
                               /\ Len(x.v) + 1 <= Pushed(x, e).mem
  <1> DEFINE r == IF PushGrows(x) THEN Reallocated(x, growCapacity(Len(x.v))) ELSE x
             o == Len(x.v) > 0 => x.ordered /\ x.v[Len(x.v)] < e
  <1>1. x.v \in Seq(0 .. MaxRows) /\ Len(x.v) \in Nat
    BY VectorFields
  <1>2. /\ r \in Vectors /\ r.v = x.v /\ r.ordered = x.ordered
        /\ r.mem <= r.file
        /\ x.cap = x.mem => r.cap = r.mem /\ Len(x.v) + 1 <= r.mem
    <2>1. CASE PushGrows(x)
      <3> DEFINE n == growCapacity(Len(x.v))
      <3>1. n \in Nat /\ n > Len(x.v)
        BY <1>1, GrowCapacity
      <3>2. r = Reallocated(x, n) BY <2>1
      <3> HIDE DEF n, r
      <3>3. /\ r \in Vectors /\ r.v = x.v /\ r.ordered = x.ordered
            /\ r.cap = n /\ r.mem = n /\ r.file >= n
        BY <3>1, <3>2, ReallocatedProperties
      <3> QED BY <1>1, <3>1, <3>3
    <2>2. CASE ~PushGrows(x)
      BY <1>1, <2>2, VectorFields DEF PushGrows
    <2> QED BY <2>1, <2>2
  <1>3. Append(x.v, e) \in Seq(0 .. MaxRows)
    BY <1>1, AppendProperties
  <1>4. Pushed(x, e) = [r EXCEPT !.v = Append(x.v, e), !.ordered = o]
    BY <1>2 DEF Pushed
  <1>5. o \in BOOLEAN OBVIOUS
  <1>6. /\ Pushed(x, e) \in Vectors
        /\ Pushed(x, e).v = Append(x.v, e)
        /\ Pushed(x, e).ordered = o
        /\ Pushed(x, e).cap = r.cap /\ Pushed(x, e).mem = r.mem
        /\ Pushed(x, e).file = r.file
    <2> HIDE DEF r, o
    <2> QED BY <1>2, <1>3, <1>4, <1>5 DEF Vectors
  <1> HIDE DEF r
  <1> QED BY <1>2, <1>6

\* The constructor from a file changes no element.
LEMMA LoadedProperties ==
    ASSUME NEW x \in Vectors
    PROVE  /\ Loaded(x) \in Vectors
           /\ Loaded(x).v = x.v /\ Loaded(x).ordered = x.ordered
           /\ Loaded(x).mem <= Loaded(x).file
  <1> DEFINE n == 8 * x.file + 24
  <1>1. x.file \in Nat BY DEF Vectors
  <1>2. n \in Nat BY <1>1
  <1>3. Loaded(x) = [x EXCEPT !.mem = x.file, !.cap = n] BY DEF Loaded
  <1> HIDE DEF n
  <1>4. /\ Loaded(x) \in Vectors /\ Loaded(x).v = x.v /\ Loaded(x).ordered = x.ordered
        /\ Loaded(x).mem = x.file /\ Loaded(x).file = x.file
    BY <1>1, <1>2, <1>3 DEF Vectors
  <1> QED BY <1>1, <1>4

(***************************************************************************)
(* Type correctness, with the control state.                               *)
(***************************************************************************)
k == Len(req.times)

AppendPc == {"idxcol", "idxback", "idxdim", "order", "col", "back", "adim"}
VectorPc == {"idxpush", "idxpushdim", "push"}
CutPc == {"cutidx", "cutidxdim", "cut", "cutdim"}
UndoPc == {"undo", "undodim"}

VecOK ==
    /\ vec \in [Cols -> Vectors]
    /\ \A c \in Cols : vec[c].mem <= vec[c].file

ReqOK ==
    req \in [op : {"none", "append", "vector", "resize"}, times : Seq(1 .. MaxRows),
             wrong : BOOLEAN, sz : Nat]

\* A call has the rows, the column or the element that its next write is about.
ControlOK ==
    /\ pc \in AppendPc \cup VectorPc \cup CutPc \cup UndoPc \cup {"idle", "down"}
    /\ at \in Nat
    /\ pc \in AppendPc \cup VectorPc => k > 0
    /\ pc \in {"col", "back", "cut"} => at \in Data
    /\ pc \in {"idxpush", "idxpushdim"} => at \in 1 .. k
    /\ pc = "push" => at < NC * k
    /\ pc \in CutPc => req.op = "resize"

RestOK ==
    /\ dim \in [idx : Nat, a : Nat]
    /\ open \in BOOLEAN /\ hurt \in BOOLEAN /\ overrun \in BOOLEAN
    /\ ops \in 0 .. MaxOps /\ fails \in 0 .. MaxFail /\ crashes \in 0 .. MaxCrash

StoreInv == VecOK /\ RestOK /\ ReqOK /\ ControlOK

LEMMA StoreInvTypes == StoreInv => TypeOK
  BY DEF StoreInv, TypeOK, VecOK, RestOK

LEMMA ColumnType ==
    ASSUME VecOK, NEW c \in Cols, NEW x \in Vectors, x.mem <= x.file,
           vec' = [vec EXCEPT ![c] = x]
    PROVE  VecOK' /\ vec'[c] = x /\ \A d \in Cols : d # c => vec'[d] = vec[d]
  BY DEF VecOK

(***************************************************************************)
(* What a write leaves behind.                                             *)
(***************************************************************************)
Sound == VecOK' /\ fails' \in 0 .. MaxFail

Others(c) == \A d \in Cols : d # c => vec'[d] = vec[d]
SameElements == \A d \in Cols : vec'[d].v = vec[d].v
Kept == SameElements /\ \A d \in Cols : vec'[d].ordered = vec[d].ordered

Succeeds == UNCHANGED <<fails, hurt>>
Throws == Kept /\ (open => fails' > 0)

\* append, push_back and resize of vector c.
RowsAdded(c) ==
    /\ vec'[c].v = vec[c].v \o req.times
    /\ vec'[c].ordered = (/\ vec[c].ordered /\ Ascending(req.times)
                          /\ Len(vec[c].v) > 0 /\ Len(req.times) > 0
                               => vec[c].v[Len(vec[c].v)] < req.times[1])
    /\ vec'[c].cap = vec'[c].mem
    /\ Others(c)
ElementAdded(c, e) ==
    /\ vec'[c].v = Append(vec[c].v, e)
    /\ vec'[c].ordered = (Len(vec[c].v) > 0 => vec[c].ordered /\ vec[c].v[Len(vec[c].v)] < e)
    /\ vec[c].cap = vec[c].mem => vec'[c].cap = vec'[c].mem /\ (overrun' <=> overrun)
    /\ Others(c)
LengthSet(c, n) ==
    /\ Len(vec'[c].v) = n /\ vec'[c].ordered = vec[c].ordered
    /\ \A i \in 1 .. n : i <= Len(vec[c].v) => vec'[c].v[i] = vec[c].v[i]
    /\ vec[c].cap = vec[c].mem => vec'[c].cap = vec'[c].mem
    /\ Others(c)

\* A reallocation that throws leaves the elements and the memory.
LEMMA ThrewType ==
    ASSUME VecOK, NEW c \in Cols, NEW n \in Nat,
           vec' = [vec EXCEPT ![c] = ReallocThrew(@, growCapacity(n))]
    PROVE  VecOK' /\ Kept
  <1> DEFINE x == ReallocThrew(vec[c], growCapacity(n))
  <1>1. vec[c] \in Vectors /\ vec[c].mem <= vec[c].file BY DEF VecOK
  <1>2. growCapacity(n) \in Nat BY GrowCapacity
  <1>3. x \in Vectors /\ x.mem <= x.file /\ x.v = vec[c].v /\ x.ordered = vec[c].ordered
    BY <1>1, <1>2 DEF ReallocThrew, Vectors
  <1>4. vec' = [vec EXCEPT ![c] = x] OBVIOUS
  <1> HIDE DEF x
  <1>5. VecOK' /\ vec'[c] = x /\ \A d \in Cols : d # c => vec'[d] = vec[d]
    BY <1>3, <1>4, ColumnType
  <1> QED BY <1>3, <1>5 DEF Kept, SameElements

\* What Grows leaves behind: the new vector, or the old elements and the handler.
LEMMA GrowsEffect ==
    ASSUME VecOK, RestOK,
           NEW c \in Cols, NEW x \in Vectors, x.mem <= x.file, NEW n \in Nat,
           NEW ACTION ok, NEW ACTION handler, Grows(c, x, n, ok, handler)
    PROVE  /\ Sound
           /\ \/ ok /\ Succeeds /\ vec'[c] = x /\ Others(c)
              \/ handler /\ Throws
  <1> USE DEF Sound, Succeeds, Throws, Others
  <1>1. CASE /\ vec' = [vec EXCEPT ![c] = x]
             /\ ok /\ UNCHANGED <<fails, hurt>>
    BY <1>1, ColumnType DEF RestOK
  <1>2. CASE /\ Fails /\ handler /\ CountFail
             /\ vec' = [vec EXCEPT ![c] = ReallocThrew(@, growCapacity(n))]
    <2>1. fails' \in 0 .. MaxFail /\ (open => fails' > 0)
      BY <1>2, StoreAssumption DEF Fails, CountFail, RestOK
    <2> QED BY <1>2, <2>1, ThrewType
  <1> QED BY <1>1, <1>2 DEF Grows

LEMMA AppendsEffect ==
    ASSUME VecOK, RestOK, ReqOK, NEW c \in Cols, NEW ACTION ok, NEW ACTION handler,
           Grows(c, Appended(vec[c], req.times), Len(vec[c].v) + Len(req.times), ok, handler)
    PROVE  /\ Sound
           /\ \/ ok /\ Succeeds /\ RowsAdded(c)
              \/ handler /\ Throws
  <1> DEFINE x == Appended(vec[c], req.times)
             n == Len(vec[c].v) + Len(req.times)
  <1>1. vec[c] \in Vectors /\ req.times \in Seq(1 .. MaxRows) BY DEF VecOK, ReqOK
  <1>2. /\ x \in Vectors /\ x.v = vec[c].v \o req.times
        /\ x.ordered = (/\ vec[c].ordered /\ Ascending(req.times)
                        /\ Len(vec[c].v) > 0 /\ Len(req.times) > 0
                             => vec[c].v[Len(vec[c].v)] < req.times[1])
        /\ x.cap = x.mem /\ x.mem <= x.file
    BY <1>1, AppendedProperties
  <1>3. n \in Nat
    <2>1. vec[c].v \in Seq(0 .. MaxRows) BY <1>1, VectorFields
    <2>2. Len(vec[c].v) \in Nat BY <2>1, LenProperties
    <2>3. Len(req.times) \in Nat BY <1>1, LenProperties
    <2>4. \A a, b \in Nat : a + b \in Nat OBVIOUS
    <2> QED BY <2>2, <2>3, <2>4, Zenon
  <1>4. Grows(c, x, n, ok, handler) OBVIOUS
  <1> HIDE DEF x, n
  <1>5. /\ Sound
        /\ \/ ok /\ Succeeds /\ vec'[c] = x /\ Others(c)
           \/ handler /\ Throws
    BY <1>2, <1>3, <1>4, GrowsEffect
  <1> QED BY <1>2, <1>5 DEF RowsAdded

LEMMA ShrinksEffect ==
    ASSUME VecOK, RestOK, NEW c \in Cols, NEW n \in Nat,
           NEW ACTION ok, NEW ACTION handler, Shrinks(c, n, ok, handler)
    PROVE  /\ Sound
           /\ \/ ok /\ Succeeds /\ LengthSet(c, n)
              \/ handler /\ Throws /\ Len(vec[c].v) # n
  <1> DEFINE x == Resized(vec[c], n)
  <1>1. CASE Resizes(vec[c], n)
    <2>1. vec[c] \in Vectors BY DEF VecOK
    <2>2. /\ x \in Vectors /\ x.mem <= x.file /\ Len(x.v) = n
          /\ \A i \in 1 .. n : i <= Len(vec[c].v) => x.v[i] = vec[c].v[i]
          /\ x.ordered = vec[c].ordered /\ x.cap = x.mem
      BY <2>1, ResizedProperties
    <2>3. Grows(c, x, n, ok, handler) BY <1>1 DEF Shrinks
    <2>4. Len(vec[c].v) # n BY <1>1 DEF Resizes
    <2> HIDE DEF x
    <2>5. /\ Sound
          /\ \/ ok /\ Succeeds /\ vec'[c] = x /\ Others(c)
             \/ handler /\ Throws
      BY <2>2, <2>3, GrowsEffect
    <2> QED BY <2>2, <2>4, <2>5 DEF LengthSet
  <1>2. CASE ~Resizes(vec[c], n)
    <2>1. ok /\ UNCHANGED <<vec, fails, hurt>> BY <1>2 DEF Shrinks
    <2>2. Len(vec[c].v) = n BY <1>2 DEF Resizes
    <2> QED BY <2>1, <2>2 DEF VecOK, RestOK, Sound, Succeeds, LengthSet, Others
  <1> QED BY <1>1, <1>2

\* idx->resize forces the flag, and nothing else.
LEMMA FlagForced ==
    ASSUME VecOK, vec' = [vec EXCEPT ![0].ordered = TRUE]
    PROVE  /\ VecOK' /\ Others(0) /\ vec'[0].v = vec[0].v /\ vec'[0].ordered = TRUE
           /\ vec'[0].cap = vec[0].cap /\ vec'[0].mem = vec[0].mem
  <1> DEFINE x == [vec[0] EXCEPT !.ordered = TRUE]
  <1>1. 0 \in Cols BY StoreAssumption DEF Cols
  <1>2. vec[0] \in Vectors /\ vec[0].mem <= vec[0].file BY <1>1 DEF VecOK
  <1>3. /\ x \in Vectors /\ x.mem <= x.file /\ x.v = vec[0].v /\ x.ordered = TRUE
        /\ x.cap = vec[0].cap /\ x.mem = vec[0].mem
    BY <1>2 DEF Vectors
  <1>4. vec' = [vec EXCEPT ![0] = x] OBVIOUS
  <1> HIDE DEF x
  <1>5. VecOK' /\ vec'[0] = x /\ Others(0)
    BY <1>1, <1>3, <1>4, ColumnType DEF Others
  <1> QED BY <1>3, <1>5

LEMMA PushEffect ==
    ASSUME VecOK, RestOK, NEW c \in Cols, NEW e \in 0 .. MaxRows,
           NEW ACTION ok, NEW ACTION handler, Push(c, e, ok, handler)
    PROVE  /\ Sound /\ overrun' \in BOOLEAN
           /\ \/ ok /\ Succeeds /\ ElementAdded(c, e)
              \/ handler /\ Throws
  <1> DEFINE x == Pushed(vec[c], e)
  <1>1. vec[c] \in Vectors /\ vec[c].mem <= vec[c].file BY DEF VecOK
  <1>2. vec[c].v \in Seq(0 .. MaxRows) /\ Len(vec[c].v) \in Nat BY <1>1, VectorFields
  <1>3. /\ x \in Vectors /\ x.v = Append(vec[c].v, e)
        /\ x.ordered = (Len(vec[c].v) > 0 => vec[c].ordered /\ vec[c].v[Len(vec[c].v)] < e)
        /\ x.mem <= x.file
        /\ vec[c].cap = vec[c].mem => /\ x.cap = x.mem /\ Len(vec[c].v) + 1 <= x.mem
    BY <1>1, PushedProperties
  <1>4. overrun' \in BOOLEAN BY DEF Push
  <1>5. overrun' <=> overrun \/ Len(vec'[c].v) > Max({vec'[c].mem, Len(vec[c].v)})
    BY DEF Push
  <1>6. ASSUME vec'[c] = x, vec[c].cap = vec[c].mem
        PROVE  overrun' <=> overrun
    <2>1. Len(x.v) = Len(vec[c].v) + 1 BY <1>2, <1>3, AppendProperties
    <2>2. x.mem \in Int /\ Len(vec[c].v) \in Int BY <1>2, <1>3, VectorFields
    <2>3. Max({x.mem, Len(vec[c].v)}) \in {x.mem, Len(vec[c].v)}
          /\ Max({x.mem, Len(vec[c].v)}) >= x.mem
      BY <2>2, MaxOfTwo, Zenon
    <2> DEFINE m == Max({x.mem, Len(vec[c].v)})
    <2>4. ~(Len(x.v) > m)
      <3>1. m \in Int /\ m >= x.mem BY <2>2, <2>3
      <3> HIDE DEF m, x
      <3> QED BY <1>2, <1>3, <1>6, <2>1, <2>2, <3>1
    <2> QED BY <1>5, <1>6, <2>4
  <1>7. CASE PushGrows(vec[c])
    <2>1. Grows(c, x, Len(vec[c].v), ok, handler) BY <1>7 DEF Push
    <2> HIDE DEF x
    <2>2. /\ Sound
          /\ \/ ok /\ Succeeds /\ vec'[c] = x /\ Others(c)
             \/ handler /\ Throws
      BY <1>2, <1>3, <2>1, GrowsEffect
    <2> QED BY <1>3, <1>4, <1>6, <2>2 DEF ElementAdded
  <1>8. CASE ~PushGrows(vec[c])
    <2>1. vec' = [vec EXCEPT ![c] = x] /\ ok /\ UNCHANGED <<fails, hurt>>
      BY <1>8 DEF Push
    <2> HIDE DEF x
    <2>2. VecOK' /\ vec'[c] = x /\ Others(c)
      BY <1>3, <2>1, ColumnType DEF Others
    <2> QED BY <1>3, <1>4, <1>6, <2>1, <2>2 DEF ElementAdded, Sound, Succeeds, RestOK
  <1> QED BY <1>7, <1>8

LEMMA DivMod ==
    ASSUME NEW a \in Nat, NEW b \in Nat \ {0}
    PROVE  /\ a \div b \in Nat /\ a % b \in 0 .. b - 1
           /\ a = b * (a \div b) + (a % b)
  BY SMT

LEMMA DivModBound ==
    ASSUME NEW a \in Nat, NEW b \in Nat \ {0}, NEW n \in Nat, a < n * b
    PROVE  a \div b < n
  BY DivMod, SMT

LEMMA DivModSucc ==
    ASSUME NEW a \in Nat, NEW b \in Nat \ {0}
    PROVE  /\ a % b = b - 1 => (a + 1) \div b = (a \div b) + 1 /\ (a + 1) % b = 0
           /\ a % b < b - 1 => (a + 1) \div b = a \div b /\ (a + 1) % b = (a % b) + 1
  BY SMT

\* The element that push is about is in a column, and of a row.
LEMMA PushElement ==
    ASSUME ControlOK, ReqOK, pc = "push"
    PROVE  /\ k \in Nat \ {0} /\ at \div k \in 0 .. NC - 1 /\ at % k \in 0 .. k - 1
           /\ at \div k + 1 \in Data /\ (at % k) + 1 \in 1 .. k
  <1>1. k \in Nat \ {0} /\ at \in Nat /\ at < NC * k
    BY LenProperties DEF ControlOK, ReqOK, VectorPc, k
  <1>2. at \div k \in Nat /\ at % k \in 0 .. k - 1 BY <1>1, DivMod
  <1>3. at \div k < NC BY <1>1, DivModBound, StoreAssumption
  <1> QED BY <1>1, <1>2, <1>3, StoreAssumption DEF Data

LEMMA ReqFields ==
    ASSUME ReqOK
    PROVE  /\ req.times \in Seq(1 .. MaxRows) /\ k \in Nat /\ req.sz \in Nat
           /\ req.wrong \in BOOLEAN
           /\ \A i \in 1 .. k : req.times[i] \in 1 .. MaxRows
  <1>1. req.times \in Seq(1 .. MaxRows) BY DEF ReqOK
  <1> QED BY <1>1, LenProperties, ElementOfSeq DEF ReqOK, k

LEMMA NoReqType == NoReq \in [op : {"none", "append", "vector", "resize"}, times : Seq(1 .. MaxRows),
             wrong : BOOLEAN, sz : Nat]
  BY EmptySeq DEF NoReq

\* A call that ends, however it ends.
LEMMA ReturnControl == Return => ReqOK' /\ ControlOK'
  BY NoReqType DEF Return, ReqOK, ControlOK, AppendPc, VectorPc, CutPc, UndoPc

\* A call that goes on.
LEMMA GotoControl ==
    ASSUME ReqOK, ControlOK, NEW l, NEW n \in Nat, Goto(l, n),
           l \in AppendPc \cup VectorPc \cup CutPc \cup UndoPc,
           l \in AppendPc \cup VectorPc => pc \in AppendPc \cup VectorPc,
           l \in {"col", "back", "cut"} => n \in Data,
           l \in {"idxpush", "idxpushdim"} => n \in 1 .. k,
           l = "push" => n < NC * k,
           l \in CutPc => pc \in CutPc
    PROVE  ReqOK' /\ ControlOK'
  BY DEF Goto, ReqOK, ControlOK, k

LEMMA StoreInit == Init => StoreInv
  <1> SUFFICES ASSUME Init PROVE StoreInv OBVIOUS
  <1> USE StoreAssumption
  <1>1. NewVector \in Vectors /\ NewVector.mem <= NewVector.file
    <2>1. growCapacity(0) \in Nat BY GrowCapacity
    <2> QED BY <2>1, EmptySeq DEF NewVector, Vectors
  <1>2. VecOK BY <1>1 DEF Init, VecOK
  <1>3. ReqOK BY NoReqType DEF Init, ReqOK
  <1>4. ControlOK BY DEF Init, ControlOK, AppendPc, VectorPc, CutPc, UndoPc
  <1>5. RestOK
    <2>1. /\ dim = [idx |-> 0, a |-> 0] /\ open = TRUE /\ hurt = FALSE /\ overrun = FALSE
          /\ ops = 0 /\ fails = 0 /\ crashes = 0
      BY DEF Init
    <2>2. dim \in [idx : Nat, a : Nat] BY <2>1
    <2>3. open \in BOOLEAN /\ hurt \in BOOLEAN /\ overrun \in BOOLEAN BY <2>1
    <2>4. ops \in 0 .. MaxOps /\ fails \in 0 .. MaxFail /\ crashes \in 0 .. MaxCrash BY <2>1
    <2> QED BY <2>2, <2>3, <2>4 DEF RestOK
  <1> QED
    BY <1>2, <1>3, <1>4, <1>5 DEF StoreInv

(***************************************************************************)
(* The writes that may throw, one by one.                                  *)
(***************************************************************************)
\* The column, the element after this one.
AfterColumn(l, done) == IF at = NC THEN Goto(done, 0) ELSE Goto(l, at + 1)
AfterElement == IF at = NC * k - 1 THEN Goto("adim", 0) ELSE Goto("push", at + 1)

LEMMA InCols == 0 \in Cols /\ Data \subseteq Cols /\ \A c \in Data : c # 0 /\ c \in Nat
  BY StoreAssumption DEF Cols, Data

LEMMA AppendIndexColumnEffect ==
    ASSUME StoreInv, AppendIndexColumn
    PROVE  /\ pc = "idxcol" /\ Sound /\ UNCHANGED <<dim, env, overrun>>
           /\ \/ Goto("idxdim", 0) /\ Succeeds /\ RowsAdded(0)
              \/ Goto("idxback", 0) /\ UNCHANGED hurt /\ Throws
  <1>1. Grows(0, Appended(vec[0], req.times), Len(vec[0].v) + Len(req.times),
              Goto("idxdim", 0), Goto("idxback", 0) /\ UNCHANGED hurt)
    BY DEF AppendIndexColumn
  <1>2. VecOK /\ RestOK /\ ReqOK /\ 0 \in Cols BY InCols DEF StoreInv
  <1>3. /\ Sound
        /\ \/ Goto("idxdim", 0) /\ Succeeds /\ RowsAdded(0)
           \/ (Goto("idxback", 0) /\ UNCHANGED hurt) /\ Throws
    BY <1>1, <1>2, AppendsEffect, Zenon
  <1> QED BY <1>3 DEF AppendIndexColumn

LEMMA IndexColumnBackEffect ==
    ASSUME StoreInv, IndexColumnBack
    PROVE  /\ pc = "idxback" /\ Sound /\ UNCHANGED <<dim, env, overrun>>
           /\ \/ Return /\ Succeeds /\ LengthSet(0, dim.idx)
              \/ Return /\ hurt' = TRUE /\ Throws /\ Len(vec[0].v) # dim.idx
  <1>1. Shrinks(0, dim.idx, Return, Return /\ hurt' = TRUE)
    BY DEF IndexColumnBack
  <1>2. VecOK /\ RestOK /\ 0 \in Cols /\ dim.idx \in Nat BY InCols DEF StoreInv, RestOK
  <1>3. /\ Sound
        /\ \/ Return /\ Succeeds /\ LengthSet(0, dim.idx)
           \/ (Return /\ hurt' = TRUE) /\ Throws /\ Len(vec[0].v) # dim.idx
    BY <1>1, <1>2, ShrinksEffect, Zenon
  <1> QED BY <1>3 DEF IndexColumnBack

LEMMA AppendColumnEffect ==
    ASSUME StoreInv, AppendColumn
    PROVE  /\ pc = "col" /\ at \in Data /\ Sound /\ UNCHANGED <<dim, env, overrun>>
           /\ \/ /\ IF at = NC THEN Goto("adim", 0) ELSE Goto("col", at + 1)
                 /\ Succeeds /\ RowsAdded(at)
              \/ Goto("back", 1) /\ UNCHANGED hurt /\ Throws
  <1>1. Grows(at, Appended(vec[at], req.times), Len(vec[at].v) + Len(req.times),
              AfterColumn("col", "adim"), Goto("back", 1) /\ UNCHANGED hurt)
    BY DEF AppendColumn, AfterColumn
  <1>2. VecOK /\ RestOK /\ ReqOK /\ at \in Data /\ at \in Cols
    BY InCols DEF StoreInv, ControlOK, AppendColumn
  <1>3. /\ Sound
        /\ \/ AfterColumn("col", "adim") /\ Succeeds /\ RowsAdded(at)
           \/ (Goto("back", 1) /\ UNCHANGED hurt) /\ Throws
    BY <1>1, <1>2, AppendsEffect, Zenon
  <1> QED BY <1>2, <1>3 DEF AppendColumn, AfterColumn

LEMMA ColumnBackEffect ==
    ASSUME StoreInv, ColumnBack
    PROVE  /\ pc = "back" /\ at \in Data /\ Sound /\ UNCHANGED <<dim, env, overrun>>
           /\ \/ /\ IF at = NC THEN Goto("undo", 0) ELSE Goto("back", at + 1)
                 /\ Succeeds /\ LengthSet(at, dim.a)
              \/ Goto("undo", 0) /\ hurt' = TRUE /\ Throws
  <1>1. Shrinks(at, dim.a, AfterColumn("back", "undo"),
                Goto("undo", 0) /\ hurt' = TRUE)
    BY DEF ColumnBack, AfterColumn
  <1>2. VecOK /\ RestOK /\ dim.a \in Nat /\ at \in Data /\ at \in Cols
    BY InCols DEF StoreInv, ControlOK, ColumnBack, RestOK
  <1>3. /\ Sound
        /\ \/ AfterColumn("back", "undo") /\ Succeeds /\ LengthSet(at, dim.a)
           \/ (Goto("undo", 0) /\ hurt' = TRUE) /\ Throws /\ Len(vec[at].v) # dim.a
    BY <1>1, <1>2, ShrinksEffect, Zenon
  <1> QED BY <1>2, <1>3 DEF ColumnBack, AfterColumn

LEMMA UndoIndexEffect ==
    ASSUME StoreInv, UndoIndex
    PROVE  /\ pc = "undo" /\ Sound /\ UNCHANGED <<dim, env, overrun>>
           /\ \/ Goto("undodim", at) /\ Succeeds /\ LengthSet(0, dim.a)
              \/ Return /\ hurt' = TRUE /\ Throws
  <1>1. Shrinks(0, dim.a, Goto("undodim", at), Return /\ hurt' = TRUE)
    BY DEF UndoIndex
  <1>2. VecOK /\ RestOK /\ dim.a \in Nat /\ 0 \in Cols BY InCols DEF StoreInv, RestOK
  <1>3. /\ Sound
        /\ \/ Goto("undodim", at) /\ Succeeds /\ LengthSet(0, dim.a)
           \/ (Return /\ hurt' = TRUE) /\ Throws /\ Len(vec[0].v) # dim.a
    BY <1>1, <1>2, ShrinksEffect, Zenon
  <1> QED BY <1>3 DEF UndoIndex

LEMMA CutIndexEffect ==
    ASSUME StoreInv, CutIndex
    PROVE  /\ pc = "cutidx" /\ Sound /\ UNCHANGED <<dim, env, overrun>>
           /\ \/ Goto("cutidxdim", 0) /\ Succeeds /\ LengthSet(0, req.sz)
              \/ Return /\ UNCHANGED hurt /\ Throws
  <1>1. Shrinks(0, req.sz, Goto("cutidxdim", 0), Return /\ UNCHANGED hurt)
    BY DEF CutIndex
  <1>2. VecOK /\ RestOK /\ req.sz \in Nat /\ 0 \in Cols BY InCols, ReqFields DEF StoreInv
  <1>3. /\ Sound
        /\ \/ Goto("cutidxdim", 0) /\ Succeeds /\ LengthSet(0, req.sz)
           \/ (Return /\ UNCHANGED hurt) /\ Throws /\ Len(vec[0].v) # req.sz
    BY <1>1, <1>2, ShrinksEffect, Zenon
  <1> QED BY <1>3 DEF CutIndex

LEMMA CutColumnEffect ==
    ASSUME StoreInv, CutColumn
    PROVE  /\ pc = "cut" /\ at \in Data /\ Sound /\ UNCHANGED <<dim, env, overrun>>
           /\ \/ /\ IF at = NC THEN Goto("cutdim", 0) ELSE Goto("cut", at + 1)
                 /\ Succeeds /\ LengthSet(at, req.sz)
              \/ Return /\ hurt' = TRUE /\ Throws
  <1>1. Shrinks(at, req.sz, AfterColumn("cut", "cutdim"),
                Return /\ hurt' = TRUE)
    BY DEF CutColumn, AfterColumn
  <1>2. VecOK /\ RestOK /\ req.sz \in Nat /\ at \in Data /\ at \in Cols
    BY InCols, ReqFields DEF StoreInv, ControlOK, CutColumn
  <1>3. /\ Sound
        /\ \/ AfterColumn("cut", "cutdim") /\ Succeeds /\ LengthSet(at, req.sz)
           \/ (Return /\ hurt' = TRUE) /\ Throws /\ Len(vec[at].v) # req.sz
    BY <1>1, <1>2, ShrinksEffect, Zenon
  <1> QED BY <1>2, <1>3 DEF CutColumn, AfterColumn

\* The time that is pushed comes behind l, what the code takes for the last one.
LEMMA PushIndexEffect ==
    ASSUME StoreInv, PushIndex
    PROVE  /\ pc = "idxpush" /\ at \in 1 .. k /\ Sound /\ UNCHANGED <<dim, env>>
           /\ overrun' \in BOOLEAN
           /\ \/ Return /\ UNCHANGED <<vec, fails, hurt, overrun>> /\ LastTimes = {}
              \/ Goto("undo", 0) /\ UNCHANGED <<vec, fails, hurt, overrun>>
              \/ /\ Goto("idxpushdim", at) /\ Succeeds /\ ElementAdded(0, req.times[at])
                 /\ \E l \in LastTimes : ~(req.times[at] <= l)
              \/ Return /\ hurt' = TRUE /\ Throws
  <1>1. VecOK /\ RestOK /\ ReqOK /\ 0 \in Cols /\ at \in 1 .. k /\ pc = "idxpush"
    BY InCols DEF StoreInv, ControlOK, PushIndex
  <1>2. req.times[at] \in 0 .. MaxRows
    BY <1>1, ReqFields
  <1>3. CASE UNCHANGED <<vec, fails, hurt, overrun>>
             /\ ((Return /\ LastTimes = {}) \/ Goto("undo", 0))
    BY <1>1, <1>3 DEF Sound, VecOK, RestOK, PushIndex
  <1>4. CASE \E l \in LastTimes : /\ ~(req.times[at] <= l)
                                  /\ Push(0, req.times[at], Goto("idxpushdim", at), Return /\ hurt' = TRUE)
    <2>1. Push(0, req.times[at], Goto("idxpushdim", at), Return /\ hurt' = TRUE)
      BY <1>4
    <2>2. /\ Sound /\ overrun' \in BOOLEAN
          /\ \/ Goto("idxpushdim", at) /\ Succeeds /\ ElementAdded(0, req.times[at])
             \/ (Return /\ hurt' = TRUE) /\ Throws
      BY <1>1, <1>2, <2>1, PushEffect, Zenon
    <2> QED BY <1>1, <1>4, <2>2 DEF PushIndex
  <1> QED BY <1>3, <1>4 DEF PushIndex

LEMMA PushDataEffect ==
    ASSUME StoreInv, PushData
    PROVE  /\ pc = "push" /\ Sound /\ UNCHANGED <<dim, env>>
           /\ overrun' \in BOOLEAN
           /\ \/ /\ IF at = NC * k - 1 THEN Goto("adim", 0) ELSE Goto("push", at + 1)
                 /\ Succeeds /\ ElementAdded(at \div k + 1, req.times[(at % k) + 1])
              \/ Goto("undo", 0) /\ hurt' = TRUE /\ Throws
  <1>1. Push(at \div k + 1, req.times[(at % k) + 1],
             AfterElement, Goto("undo", 0) /\ hurt' = TRUE)
    BY DEF PushData, k, AfterElement
  <1>2. VecOK /\ RestOK /\ ReqOK /\ ControlOK /\ pc = "push" BY DEF StoreInv, PushData
  <1>3. at \div k + 1 \in Cols /\ req.times[(at % k) + 1] \in 0 .. MaxRows
    BY <1>2, InCols, ReqFields, PushElement
  <1>4. /\ Sound /\ overrun' \in BOOLEAN
        /\ \/ AfterElement /\ Succeeds /\ ElementAdded(at \div k + 1, req.times[(at % k) + 1])
           \/ (Goto("undo", 0) /\ hurt' = TRUE) /\ Throws
    BY <1>1, <1>2, <1>3, PushEffect, Zenon
  <1> QED BY <1>2, <1>4 DEF PushData, AfterElement

(***************************************************************************)
(* StoreInv is inductive.                                                  *)
(***************************************************************************)
LEMMA RestKept ==
    ASSUME RestOK, dim' \in [idx : Nat, a : Nat], hurt' \in BOOLEAN, overrun' \in BOOLEAN,
           UNCHANGED env, fails' \in 0 .. MaxFail
    PROVE  RestOK'
  BY DEF RestOK, env

LEMMA CallStarts ==
    ASSUME StoreInv,
           \/ \E c \in Chunks, w \in BOOLEAN : Begin("append", c, w) \/ Begin("vector", c, w)
           \/ \E n \in 0 .. MaxRows : BeginResize(n)
    PROVE  StoreInv'
  <1> USE StoreAssumption
  <1>0. VecOK /\ RestOK /\ ops \in 0 .. MaxOps BY DEF StoreInv, RestOK
  <1>1. ASSUME NEW c \in Chunks, NEW w \in BOOLEAN, NEW op \in {"append", "vector"}, Begin(op, c, w)
        PROVE  StoreInv'
    <2>1. PICK n \in 1 .. MaxChunk : c \in [1 .. n -> 1 .. MaxRows]
      BY DEF Chunks
    <2>2. c \in Seq(1 .. MaxRows) /\ Len(c) = n /\ n > 0 BY <2>1
    <2>3. ops' \in 0 .. MaxOps
      <3>1. ops < MaxOps /\ ops' = ops + 1 BY <1>1 DEF Begin
      <3>2. ops \in 0 .. MaxOps /\ MaxOps \in Nat BY <1>0
      <3> QED BY <3>1, <3>2
    <2>4. req' = [NoReq EXCEPT !.op = op, !.times = c, !.wrong = w] BY <1>1 DEF Begin
    <2>5. ReqOK' BY <2>2, <2>4, NoReqType DEF ReqOK
    <2>6. Len(req'.times) > 0 BY <2>2, <2>4 DEF NoReq
    <2>7. ControlOK'
      <3>1. pc' \in {"idxcol", "idxpush"} /\ at' = 1 BY <1>1 DEF Begin
      <3>2. req'.times \in Seq(1 .. MaxRows) BY <2>5 DEF ReqOK
      <3>3. k' \in Nat /\ k' > 0 BY <2>6, <3>2, LenProperties DEF k
      <3>4. 1 \in Nat /\ 1 \in 1 .. k' BY <3>3
      <3> QED BY <3>1, <3>3, <3>4 DEF ControlOK, AppendPc, VectorPc, CutPc, UndoPc
    <2>8. VecOK' /\ RestOK' BY <1>0, <1>1, <2>3 DEF Begin, VecOK, RestOK
    <2> QED BY <2>5, <2>7, <2>8 DEF StoreInv
  <1>2. ASSUME NEW n \in 0 .. MaxRows, BeginResize(n)
        PROVE  StoreInv'
    <2>1. ops' \in 0 .. MaxOps
      <3>1. ops < MaxOps /\ ops' = ops + 1 BY <1>2 DEF BeginResize
      <3>2. ops \in 0 .. MaxOps /\ MaxOps \in Nat BY <1>0
      <3> QED BY <3>1, <3>2
    <2>2. req' = [NoReq EXCEPT !.op = "resize", !.sz = n] BY <1>2 DEF BeginResize
    <2>3. ReqOK'
      <3>1. n \in Nat OBVIOUS
      <3> QED BY <2>2, <3>1, NoReqType DEF ReqOK
    <2>4. req'.op = "resize" BY <2>2 DEF NoReq
    <2>5. ControlOK'
      <3>1. pc' = "cutidx" /\ at' = 0 BY <1>2 DEF BeginResize
      <3> QED BY <2>4, <3>1 DEF ControlOK, AppendPc, VectorPc, CutPc, UndoPc
    <2>6. VecOK' /\ RestOK' BY <1>0, <1>2, <2>1 DEF BeginResize, VecOK, RestOK
    <2> QED BY <2>3, <2>5, <2>6 DEF StoreInv
  <1> QED BY <1>1, <1>2

\* The writes that may throw.
LEMMA WriteTypes ==
    ASSUME StoreInv,
           \/ AppendIndexColumn \/ IndexColumnBack \/ AppendColumn \/ ColumnBack
           \/ UndoIndex \/ PushIndex \/ PushData \/ CutIndex \/ CutColumn
    PROVE  StoreInv'
  <1> USE DEF AppendPc, VectorPc, CutPc, UndoPc
  <1>0. /\ VecOK /\ RestOK /\ ReqOK /\ ControlOK
        /\ dim \in [idx : Nat, a : Nat] /\ hurt \in BOOLEAN /\ overrun \in BOOLEAN
        /\ NC \in Nat \ {0} /\ k \in Nat
    BY StoreAssumption, ReqFields DEF StoreInv, RestOK
  <1>1. CASE AppendIndexColumn
    <2>1. /\ pc = "idxcol" /\ Sound /\ UNCHANGED <<dim, env, overrun>> /\ UNCHANGED hurt
          /\ Goto("idxdim", 0) \/ Goto("idxback", 0)
      BY <1>1, AppendIndexColumnEffect DEF Succeeds
    <2>2. ReqOK' /\ ControlOK' BY <1>0, <2>1, GotoControl
    <2>3. RestOK' BY <1>0, <2>1, RestKept DEF Sound
    <2> QED BY <2>1, <2>2, <2>3 DEF StoreInv, Sound
  <1>2. CASE IndexColumnBack
    <2>1. /\ Sound /\ UNCHANGED <<dim, env, overrun>> /\ hurt' \in BOOLEAN /\ Return
      BY <1>0, <1>2, IndexColumnBackEffect DEF Succeeds
    <2>2. ReqOK' /\ ControlOK' BY <2>1, ReturnControl
    <2>3. RestOK' BY <1>0, <2>1, RestKept DEF Sound
    <2> QED BY <2>1, <2>2, <2>3 DEF StoreInv, Sound
  <1>3. CASE AppendColumn
    <2>1. /\ pc = "col" /\ at \in Data /\ Sound /\ UNCHANGED <<dim, env, overrun>> /\ UNCHANGED hurt
          /\ \/ at = NC /\ Goto("adim", 0)
             \/ at # NC /\ Goto("col", at + 1)
             \/ Goto("back", 1)
      BY <1>3, AppendColumnEffect DEF Succeeds
    <2>2. at + 1 \in Nat /\ 1 \in Data /\ (at # NC => at + 1 \in Data) BY <1>0, <2>1 DEF Data
    <2>3. ReqOK' /\ ControlOK' BY <1>0, <2>1, <2>2, GotoControl
    <2>4. RestOK' BY <1>0, <2>1, RestKept DEF Sound
    <2> QED BY <2>1, <2>3, <2>4 DEF StoreInv, Sound
  <1>4. CASE ColumnBack
    <2>1. /\ pc = "back" /\ at \in Data /\ Sound /\ UNCHANGED <<dim, env, overrun>>
          /\ hurt' \in BOOLEAN
          /\ \/ Goto("undo", 0)
             \/ at # NC /\ Goto("back", at + 1)
      BY <1>0, <1>4, ColumnBackEffect DEF Succeeds
    <2>2. at + 1 \in Nat /\ (at # NC => at + 1 \in Data) BY <1>0, <2>1 DEF Data
    <2>3. ReqOK' /\ ControlOK' BY <1>0, <2>1, <2>2, GotoControl
    <2>4. RestOK' BY <1>0, <2>1, RestKept DEF Sound
    <2> QED BY <2>1, <2>3, <2>4 DEF StoreInv, Sound
  <1>5. CASE UndoIndex
    <2>1. /\ pc = "undo" /\ Sound /\ UNCHANGED <<dim, env, overrun>> /\ hurt' \in BOOLEAN
          /\ Goto("undodim", at) \/ Return
      BY <1>0, <1>5, UndoIndexEffect DEF Succeeds
    <2>2. at \in Nat BY <1>0 DEF ControlOK
    <2>3. ReqOK' /\ ControlOK' BY <1>0, <2>1, <2>2, GotoControl, ReturnControl
    <2>4. RestOK' BY <1>0, <2>1, RestKept DEF Sound
    <2> QED BY <2>1, <2>3, <2>4 DEF StoreInv, Sound
  <1>6. CASE PushIndex
    <2>1. /\ pc = "idxpush" /\ at \in 1 .. k /\ Sound /\ UNCHANGED <<dim, env>>
          /\ overrun' \in BOOLEAN /\ hurt' \in BOOLEAN
          /\ Return \/ Goto("undo", 0) \/ Goto("idxpushdim", at)
      BY <1>0, <1>6, PushIndexEffect DEF Succeeds
    <2>2. at \in Nat BY <1>0 DEF ControlOK
    <2>3. ReqOK' /\ ControlOK' BY <1>0, <2>1, <2>2, GotoControl, ReturnControl
    <2>4. RestOK' BY <1>0, <2>1, RestKept DEF Sound
    <2> QED BY <2>1, <2>3, <2>4 DEF StoreInv, Sound
  <1>7. CASE PushData
    <2>1. /\ pc = "push" /\ Sound /\ UNCHANGED <<dim, env>>
          /\ overrun' \in BOOLEAN /\ hurt' \in BOOLEAN
          /\ \/ Goto("adim", 0) \/ Goto("undo", 0)
             \/ at # NC * k - 1 /\ Goto("push", at + 1)
      BY <1>0, <1>7, PushDataEffect DEF Succeeds
    <2>2. at \in Nat /\ at < NC * k BY <1>0, <2>1 DEF ControlOK
    <2>3. at + 1 \in Nat /\ (at # NC * k - 1 => at + 1 < NC * k)
      BY <1>0, <2>2
    <2>4. ReqOK' /\ ControlOK' BY <1>0, <2>1, <2>3, GotoControl
    <2>5. RestOK' BY <1>0, <2>1, RestKept DEF Sound
    <2> QED BY <2>1, <2>4, <2>5 DEF StoreInv, Sound
  <1>8. CASE CutIndex
    <2>1. /\ pc = "cutidx" /\ Sound /\ UNCHANGED <<dim, env, overrun>> /\ hurt' \in BOOLEAN
          /\ Goto("cutidxdim", 0) \/ Return
      BY <1>0, <1>8, CutIndexEffect DEF Succeeds
    <2>2. ReqOK' /\ ControlOK' BY <1>0, <2>1, GotoControl, ReturnControl
    <2>3. RestOK' BY <1>0, <2>1, RestKept DEF Sound
    <2> QED BY <2>1, <2>2, <2>3 DEF StoreInv, Sound
  <1>9. CASE CutColumn
    <2>1. /\ pc = "cut" /\ at \in Data /\ Sound /\ UNCHANGED <<dim, env, overrun>>
          /\ hurt' \in BOOLEAN
          /\ \/ Goto("cutdim", 0) \/ Return
             \/ at # NC /\ Goto("cut", at + 1)
      BY <1>0, <1>9, CutColumnEffect DEF Succeeds
    <2>2. at + 1 \in Nat /\ (at # NC => at + 1 \in Data) BY <1>0, <2>1 DEF Data
    <2>3. ReqOK' /\ ControlOK' BY <1>0, <2>1, <2>2, GotoControl, ReturnControl
    <2>4. RestOK' BY <1>0, <2>1, RestKept DEF Sound
    <2> QED BY <2>1, <2>3, <2>4 DEF StoreInv, Sound
  <1> QED BY <1>1, <1>2, <1>3, <1>4, <1>5, <1>6, <1>7, <1>8, <1>9

\* The writes of dim, the checks, a crash, and the load of the files.
LEMMA OtherTypes ==
    ASSUME StoreInv,
           \/ AppendIndexDim \/ CheckOrder \/ AppendDim \/ UndoIndexDim \/ PushIndexDim
           \/ CutIndexDim \/ CutDim \/ Crash \/ Load
    PROVE  StoreInv'
  <1> USE DEF AppendPc, VectorPc, CutPc, UndoPc
  <1>0. /\ VecOK /\ RestOK /\ ReqOK /\ ControlOK
        /\ dim \in [idx : Nat, a : Nat] /\ hurt \in BOOLEAN /\ overrun \in BOOLEAN
        /\ fails \in 0 .. MaxFail
        /\ NC \in Nat \ {0} /\ k \in Nat /\ req.sz \in Nat /\ 1 \in Data
    BY StoreAssumption, ReqFields DEF StoreInv, RestOK, Data
  <1>1. CASE AppendIndexDim
    <2>1. ReqOK' /\ ControlOK' BY <1>0, <1>1, GotoControl DEF AppendIndexDim
    <2>2. VecOK' BY <1>0, <1>1 DEF AppendIndexDim, VecOK
    <2>3. dim' \in [idx : Nat, a : Nat] BY <1>0, <1>1 DEF AppendIndexDim, k
    <2>4. RestOK' BY <1>0, <1>1, <2>3, RestKept DEF AppendIndexDim
    <2> QED BY <2>1, <2>2, <2>4 DEF StoreInv
  <1>2. CASE CheckOrder
    <2>1. pc = "order" /\ (Goto("undo", 1) \/ Goto("undo", 0) \/ Goto("col", 1))
      BY <1>2 DEF CheckOrder
    <2>2. ReqOK' /\ ControlOK' BY <1>0, <2>1, GotoControl
    <2>3. VecOK' BY <1>0, <1>2 DEF CheckOrder, VecOK
    <2>4. RestOK' BY <1>0, <1>2, RestKept DEF CheckOrder
    <2> QED BY <2>2, <2>3, <2>4 DEF StoreInv
  <1>3. CASE AppendDim
    <2>1. ReqOK' /\ ControlOK' BY <1>3, ReturnControl DEF AppendDim
    <2>2. VecOK' BY <1>0, <1>3 DEF AppendDim, VecOK
    <2>3. dim' \in [idx : Nat, a : Nat] BY <1>0, <1>3 DEF AppendDim, k
    <2>4. RestOK' BY <1>0, <1>3, <2>3, RestKept DEF AppendDim
    <2> QED BY <2>1, <2>2, <2>4 DEF StoreInv
  <1>4. CASE UndoIndexDim
    <2>1. ReqOK' /\ ControlOK' BY <1>4, ReturnControl DEF UndoIndexDim
    <2>2. VecOK' BY <1>0, <1>4 DEF UndoIndexDim, VecOK, Vectors
    <2>3. dim' \in [idx : Nat, a : Nat] BY <1>0, <1>4 DEF UndoIndexDim
    <2>4. RestOK' BY <1>0, <1>4, <2>3, RestKept DEF UndoIndexDim
    <2> QED BY <2>1, <2>2, <2>4 DEF StoreInv
  <1>5. CASE PushIndexDim
    <2>1. /\ pc = "idxpushdim" /\ at \in 1 .. k
          /\ \/ at < k /\ Goto("idxpush", at + 1)
             \/ Goto("undo", 0) \/ Goto("push", 0)
      BY <1>0, <1>5 DEF PushIndexDim, k, ControlOK
    <2>2. at + 1 \in Nat /\ (at < k => at + 1 \in 1 .. k) /\ 0 < NC * k
      BY <1>0, <2>1
    <2>3. ReqOK' /\ ControlOK' BY <1>0, <2>1, <2>2, GotoControl
    <2>4. VecOK' BY <1>0, <1>5 DEF PushIndexDim, VecOK
    <2>5. dim' \in [idx : Nat, a : Nat] BY <1>0, <1>5 DEF PushIndexDim
    <2>6. RestOK' BY <1>0, <1>5, <2>5, RestKept DEF PushIndexDim
    <2> QED BY <2>3, <2>4, <2>6 DEF StoreInv
  <1>6. CASE CutIndexDim
    <2>1. ReqOK' /\ ControlOK' BY <1>0, <1>6, GotoControl DEF CutIndexDim
    <2>2. VecOK' BY <1>0, <1>6 DEF CutIndexDim, VecOK
    <2>3. dim' \in [idx : Nat, a : Nat] BY <1>0, <1>6 DEF CutIndexDim
    <2>4. RestOK' BY <1>0, <1>6, <2>3, RestKept DEF CutIndexDim
    <2> QED BY <2>1, <2>2, <2>4 DEF StoreInv
  <1>7. CASE CutDim
    <2>1. ReqOK' /\ ControlOK' BY <1>7, ReturnControl DEF CutDim
    <2>2. VecOK' BY <1>0, <1>7 DEF CutDim, VecOK
    <2>3. dim' \in [idx : Nat, a : Nat] BY <1>0, <1>7 DEF CutDim
    <2>4. RestOK' BY <1>0, <1>7, <2>3, RestKept DEF CutDim
    <2> QED BY <2>1, <2>2, <2>4 DEF StoreInv
  <1>8. CASE Crash
    <2>1. ReqOK' /\ ControlOK' BY <1>8, NoReqType DEF Crash, ReqOK, ControlOK
    <2>2. crashes' \in 0 .. MaxCrash BY <1>0, <1>8, StoreAssumption DEF Crash, RestOK
    <2>3. VecOK' /\ RestOK' BY <1>0, <1>8, <2>2 DEF Crash, VecOK, RestOK
    <2> QED BY <2>1, <2>3 DEF StoreInv
  <1>9. CASE Load
    <2>1. ReqOK' /\ ControlOK' BY <1>0, <1>9 DEF Load, ReqOK, ControlOK
    <2>2. VecOK'
      <3>1. ASSUME NEW c \in Cols
            PROVE  Loaded(vec[c]) \in Vectors /\ Loaded(vec[c]).mem <= Loaded(vec[c]).file
        <4>1. vec[c] \in Vectors BY <1>0 DEF VecOK
        <4> QED BY <4>1, LoadedProperties
      <3> QED BY <1>9, <3>1 DEF Load, VecOK
    <2>3. RestOK' BY <1>0, <1>9 DEF Load, RestOK
    <2> QED BY <2>1, <2>2, <2>3 DEF StoreInv
  <1> QED BY <1>1, <1>2, <1>3, <1>4, <1>5, <1>6, <1>7, <1>8, <1>9

LEMMA StoreStep == StoreInv /\ [Next]_vars => StoreInv'
  <1>1. StoreInv /\ Next => StoreInv'
    BY CallStarts, WriteTypes, OtherTypes DEF Next
  <1>2. StoreInv /\ UNCHANGED vars => StoreInv'
    BY DEF StoreInv, VecOK, RestOK, ReqOK, ControlOK, vars, k
  <1> QED BY <1>1, <1>2

LEMMA StoreAlways == Spec => []StoreInv
  BY StoreInit, StoreStep, PTL DEF Spec

\* Every variable has its type, and no column has more memory than its file: what
\* growCapacity, reallocate and the load compute are sizes, whichever calls fail.
THEOREM StoreTypeCorrect == Spec => []TypeOK
  BY StoreAlways, StoreInvTypes, PTL

(***************************************************************************)
(* push_back writes inside the memory.                                     *)
(***************************************************************************)
\* The mapping keeps its descriptor until the files are loaded, and a capacity
\* is what there is until a reallocation fails.
BoundsInv ==
    /\ crashes = 0 => open /\ pc # "down"
    /\ crashes = 0 /\ fails = 0 => ~overrun /\ \A c \in Cols : vec[c].cap = vec[c].mem

LEMMA BoundsThrow ==
    ASSUME BoundsInv, Throws, UNCHANGED env, pc' # "down", fails' \in 0 .. MaxFail
    PROVE  BoundsInv'
  BY DEF BoundsInv, Throws, env

LEMMA BoundsSucceed ==
    ASSUME BoundsInv, Succeeds, UNCHANGED env, pc' # "down", NEW c \in Cols,
           \/ RowsAdded(c) /\ UNCHANGED overrun
           \/ \E n \in Nat : LengthSet(c, n) /\ UNCHANGED overrun
           \/ \E e \in 0 .. MaxRows : ElementAdded(c, e) /\ overrun' \in BOOLEAN
    PROVE  BoundsInv'
  <1>1. ASSUME crashes = 0, fails = 0
        PROVE  ~overrun' /\ \A d \in Cols : vec'[d].cap = vec'[d].mem
    <2>1. ~overrun /\ \A d \in Cols : vec[d].cap = vec[d].mem BY <1>1 DEF BoundsInv
    <2>2. Others(c) BY DEF RowsAdded, ElementAdded, LengthSet
    <2>3. ~overrun' /\ vec'[c].cap = vec'[c].mem
      <3>1. CASE RowsAdded(c) /\ UNCHANGED overrun
        <4>1. vec'[c].cap = vec'[c].mem /\ overrun' = overrun BY <3>1 DEF RowsAdded
        <4> QED BY <2>1, <4>1
      <3>2. CASE \E n \in Nat : LengthSet(c, n) /\ UNCHANGED overrun
        <4>1. /\ overrun' = overrun
              /\ vec[c].cap = vec[c].mem => vec'[c].cap = vec'[c].mem
          BY <3>2 DEF LengthSet
        <4> QED BY <2>1, <4>1
      <3>3. CASE \E e \in 0 .. MaxRows : ElementAdded(c, e) /\ overrun' \in BOOLEAN
        <4>1. vec[c].cap = vec[c].mem => vec'[c].cap = vec'[c].mem /\ (overrun' <=> overrun)
          BY <3>3, Zenon DEF ElementAdded
        <4> QED BY <2>1, <4>1, Zenon
      <3> QED BY <3>1, <3>2, <3>3
    <2> QED BY <2>1, <2>2, <2>3 DEF Others
  <1> QED BY <1>1 DEF BoundsInv, Succeeds, env

LEMMA BoundsInit == Init => BoundsInv
  BY DEF Init, BoundsInv, NewVector

LEMMA BoundsStep == StoreInv /\ BoundsInv /\ [Next]_vars => BoundsInv'
  <1> SUFFICES ASSUME StoreInv, BoundsInv, [Next]_vars PROVE BoundsInv'
    OBVIOUS
  <1> USE DEF Sound
  <1>0. /\ 0 \in Cols /\ (\A c \in Data : c \in Cols)
        /\ dim.a \in Nat /\ dim.idx \in Nat /\ req.sz \in Nat
    BY InCols, ReqFields DEF StoreInv, RestOK
  <1>1. CASE \/ AppendIndexColumn \/ AppendColumn
    <2>1. PICK c \in Cols : (RowsAdded(c) /\ Succeeds) \/ Throws
      BY <1>0, <1>1, AppendIndexColumnEffect, AppendColumnEffect
    <2>2. /\ UNCHANGED <<env, overrun>> /\ fails' \in 0 .. MaxFail
          /\ pc' # "down"
      BY <1>1, AppendIndexColumnEffect, AppendColumnEffect DEF Goto
    <2> QED BY <2>1, <2>2, BoundsThrow, BoundsSucceed
  <1>2. CASE \/ IndexColumnBack \/ ColumnBack \/ UndoIndex \/ CutIndex \/ CutColumn
    <2>1. PICK c \in Cols, n \in Nat : (LengthSet(c, n) /\ Succeeds) \/ Throws
      BY <1>0, <1>2, IndexColumnBackEffect, ColumnBackEffect, UndoIndexEffect, CutIndexEffect,
         CutColumnEffect
    <2>2. /\ UNCHANGED <<env, overrun>> /\ fails' \in 0 .. MaxFail
          /\ pc' # "down"
      BY <1>2, IndexColumnBackEffect, ColumnBackEffect, UndoIndexEffect, CutIndexEffect,
         CutColumnEffect DEF Goto, Return
    <2> QED BY <2>1, <2>2, BoundsThrow, BoundsSucceed
  <1>3. CASE PushIndex
    <2>1. /\ UNCHANGED env /\ fails' \in 0 .. MaxFail /\ pc' # "down" /\ overrun' \in BOOLEAN
      BY <1>3, PushIndexEffect DEF Goto, Return
    <2>2. CASE UNCHANGED <<vec, fails, hurt, overrun>>
      BY <2>1, <2>2 DEF BoundsInv, env
    <2>3. CASE Throws BY <2>1, <2>3, BoundsThrow
    <2>4. CASE Succeeds /\ ElementAdded(0, req.times[at])
      <3>1. req.times[at] \in 0 .. MaxRows
        BY <1>3, PushIndexEffect, ReqFields, StoreAssumption DEF StoreInv
      <3> QED BY <1>0, <2>1, <2>4, <3>1, BoundsSucceed
    <2> QED BY <1>3, <2>2, <2>3, <2>4, PushIndexEffect
  <1>4. CASE PushData
    <2>1. /\ UNCHANGED env /\ fails' \in 0 .. MaxFail /\ pc' # "down" /\ overrun' \in BOOLEAN
      BY <1>4, PushDataEffect DEF Goto
    <2>2. CASE Throws BY <2>1, <2>2, BoundsThrow
    <2>3. CASE Succeeds /\ ElementAdded(at \div k + 1, req.times[(at % k) + 1])
      <3>1. req.times[(at % k) + 1] \in 0 .. MaxRows /\ at \div k + 1 \in Cols
        BY <1>0, <1>4, PushDataEffect, PushElement, ReqFields, StoreAssumption DEF StoreInv
      <3> QED BY <2>1, <2>3, <3>1, BoundsSucceed
    <2> QED BY <1>4, <2>2, <2>3, PushDataEffect
  <1>5. CASE \/ AppendIndexDim \/ CheckOrder \/ AppendDim \/ UndoIndexDim \/ PushIndexDim
             \/ CutIndexDim \/ CutDim
    <2>1. /\ UNCHANGED <<env, fails, overrun>> /\ pc' # "down"
          /\ \A c \in Cols : vec'[c].cap = vec[c].cap /\ vec'[c].mem = vec[c].mem
      <3>1. CASE UndoIndexDim
        <4>1. vec' = vec \/ vec' = [vec EXCEPT ![0].ordered = TRUE]
          BY <3>1 DEF UndoIndexDim
        <4>2. \A c \in Cols : vec'[c].cap = vec[c].cap /\ vec'[c].mem = vec[c].mem
          BY <1>0, <4>1, FlagForced DEF StoreInv, Others
        <4> QED BY <3>1, <4>2 DEF UndoIndexDim, Return
      <3>2. CASE ~UndoIndexDim
        BY <1>5, <3>2 DEF AppendIndexDim, CheckOrder, AppendDim, PushIndexDim,
           CutIndexDim, CutDim, Goto, Return
      <3> QED BY <3>1, <3>2
    <2> QED BY <2>1 DEF BoundsInv, env
  <1>6. CASE \/ \E c \in Chunks, w \in BOOLEAN : Begin("append", c, w) \/ Begin("vector", c, w)
             \/ \E n \in 0 .. MaxRows : BeginResize(n)
    <2>1. UNCHANGED <<vec, open, fails, crashes, overrun>> /\ pc' # "down"
      BY <1>6 DEF Begin, BeginResize
    <2> QED BY <2>1 DEF BoundsInv
  <1>7. CASE Crash
    <2>1. crashes' # 0 BY <1>7 DEF Crash, StoreInv, RestOK
    <2> QED BY <2>1 DEF BoundsInv
  <1>8. CASE Load
    BY <1>8 DEF Load, BoundsInv
  <1>9. CASE UNCHANGED vars
    BY <1>9 DEF BoundsInv, vars
  <1> QED BY <1>1, <1>2, <1>3, <1>4, <1>5, <1>6, <1>7, <1>8, <1>9 DEF Next

\* push_back writes inside the memory of its vector as long as no reallocation has
\* failed and the files were not loaded: for every number of rows and every growth.
THEOREM StoreWritesInBounds == Spec => []WritesInBounds
  <1>1. Spec => []BoundsInv
    BY StoreAlways, BoundsInit, BoundsStep, PTL DEF Spec
  <1>2. StoreInv /\ BoundsInv => WritesInBounds
    BY DEF StoreInv, RestOK, BoundsInv, WritesInBounds
  <1> QED BY <1>1, <1>2, StoreAlways, PTL

(***************************************************************************)
(* Rows are kept.                                                          *)
(***************************************************************************)
LEMMA MinOfNats ==
    ASSUME NEW S \in SUBSET Nat, S # {}
    PROVE  /\ Min(S) \in S
           /\ \A x \in S : Min(S) <= x
  <1> DEFINE R == {ss \in Nat \X Nat : ss[1] < ss[2]}
  <1>1. R = OpToRel(<, Nat)
    BY Zenon DEF OpToRel
  <1>2. IsWellFoundedOn(R, Nat)
    BY <1>1, NatLessThanWellFounded, Zenon
  <1>3. \A x, y \in Nat : <<y, x>> \notin R => x <= y
    <2>1. \A x, y \in Nat : <<y, x>> \notin R => ~(y < x)
      BY Zenon
    <2> QED BY <2>1
  <1> HIDE DEF R
  <1>4. PICK x \in S : \A y \in S : <<y, x>> \notin R
    BY <1>2, WFMin
  <1>5. \A y \in S : x <= y
    BY <1>3, <1>4
  <1> QED BY <1>4, <1>5 DEF Min

\* What is visible is inside every length, and nothing more is asked of it.
VisibleBounds ==
    /\ Visible \in Nat /\ Visible <= dim.idx /\ Visible <= dim.a
    /\ \A c \in Cols : Visible <= Len(vec[c].v)
    /\ \/ Visible = dim.idx \/ Visible = dim.a
       \/ \E c \in Cols : Visible = Len(vec[c].v)

LEMMA VisibleNow == VecOK /\ RestOK => VisibleBounds
  <1> SUFFICES ASSUME VecOK, RestOK PROVE VisibleBounds OBVIOUS
  <1> DEFINE L == {dim.idx, dim.a} \cup {Len(vec[c].v) : c \in Cols}
  <1>1. dim.idx \in Nat /\ dim.a \in Nat BY DEF RestOK
  <1>2. \A c \in Cols : Len(vec[c].v) \in Nat BY VectorFields DEF VecOK
  <1>3. L \in SUBSET Nat /\ L # {} BY <1>1, <1>2
  <1>4. Visible = Min(L) BY DEF Visible
  <1>5. Visible \in L /\ \A x \in L : Visible <= x
    <2> HIDE DEF L
    <2> QED BY <1>3, <1>4, MinOfNats
  <1>6. \A c \in Cols : Len(vec[c].v) \in L OBVIOUS
  <1> QED BY <1>1, <1>2, <1>5, <1>6 DEF VisibleBounds

LEMMA VisibleNext == VecOK' /\ RestOK' => VisibleBounds'
  BY VisibleNow, PTL

\* No write changes an element.
Preserves ==
    \A c \in Cols : \A i \in 1 .. Len(vec[c].v) :
        i <= Len(vec'[c].v) => vec'[c].v[i] = vec[c].v[i]

\* No column becomes shorter than n.
Lasts(n) == \A c \in Cols : Len(vec'[c].v) >= Len(vec[c].v) \/ Len(vec'[c].v) >= n
AllLast(n) == Lasts(n) /\ dim'.idx >= n /\ dim'.a >= n

LEMMA OneColumnKeeps ==
    ASSUME VecOK, VecOK', NEW n \in Nat, NEW c \in Cols, Others(c),
           \A i \in 1 .. Len(vec[c].v) :
               i <= Len(vec'[c].v) => vec'[c].v[i] = vec[c].v[i],
           Len(vec'[c].v) >= Len(vec[c].v) \/ Len(vec'[c].v) >= n
    PROVE  Preserves /\ Lasts(n)
  <1>1. \A d \in Cols : Len(vec[d].v) \in Nat
    BY VectorFields DEF VecOK
  <1>2. ASSUME NEW d \in Cols
        PROVE  /\ \A i \in 1 .. Len(vec[d].v) :
                      i <= Len(vec'[d].v) => vec'[d].v[i] = vec[d].v[i]
               /\ Len(vec'[d].v) >= Len(vec[d].v) \/ Len(vec'[d].v) >= n
    <2>1. CASE d = c BY <2>1
    <2>2. CASE d # c
      <3>1. vec'[d] = vec[d] BY <2>2 DEF Others
      <3> QED BY <1>1, <3>1
    <2> QED BY <2>1, <2>2
  <1> QED BY <1>2 DEF Preserves, Lasts

LEMMA WriteKeeps ==
    ASSUME StoreInv, VecOK', NEW n \in Nat,
           \/ SameElements
           \/ \E c \in Cols : RowsAdded(c)
           \/ \E c \in Cols, e \in 0 .. MaxRows : ElementAdded(c, e)
           \/ \E c \in Cols, m \in Nat : m >= n /\ LengthSet(c, m)
    PROVE  Preserves /\ Lasts(n)
  <1>0. \A c \in Cols : /\ vec[c].v \in Seq(0 .. MaxRows) /\ Len(vec[c].v) \in Nat
                        /\ vec'[c].v \in Seq(0 .. MaxRows) /\ Len(vec'[c].v) \in Nat
    <2>1. \A c \in Cols : vec[c] \in Vectors /\ vec'[c] \in Vectors BY DEF StoreInv, VecOK
    <2> QED BY <2>1, VectorFields
  <1>1. CASE SameElements
    BY <1>0, <1>1 DEF SameElements, Preserves, Lasts
  <1>2. ASSUME NEW c \in Cols, RowsAdded(c)
        PROVE  Preserves /\ Lasts(n)
    <2>1. req.times \in Seq(0 .. MaxRows)
      <3>1. req.times \in Seq(1 .. MaxRows) /\ 1 .. MaxRows \subseteq 0 .. MaxRows
        BY ReqFields, StoreAssumption DEF StoreInv
      <3> QED BY <3>1, SeqMonotonic
    <2>2. /\ Len(vec'[c].v) = Len(vec[c].v) + Len(req.times) /\ Len(req.times) \in Nat
          /\ \A i \in 1 .. Len(vec[c].v) : vec'[c].v[i] = vec[c].v[i]
      <3> DEFINE v == vec[c].v
                 t == req.times
                 w == vec'[c].v
      <3>1. w = v \o t /\ v \in Seq(0 .. MaxRows) /\ t \in Seq(0 .. MaxRows)
        BY <1>0, <1>2, <2>1 DEF RowsAdded
      <3>2. Len(w) = Len(v) + Len(t) /\ Len(v) \in Nat /\ Len(t) \in Nat
            /\ \A i \in 1 .. Len(v) : w[i] = v[i]
        <4> HIDE DEF v, t, w
        <4>1. Len(v) \in Nat /\ Len(t) \in Nat BY <3>1, LenProperties
        <4>2. /\ Len(w) = Len(v) + Len(t)
              /\ \A i \in 1 .. Len(v) + Len(t) : w[i] = IF i <= Len(v) THEN v[i] ELSE t[i - Len(v)]
          BY <3>1, ConcatProperties
        <4> QED BY <4>1, <4>2
      <3> QED BY <3>2
    <2>3. Others(c) BY <1>2 DEF RowsAdded
    <2>4. Len(vec'[c].v) >= Len(vec[c].v)
      <3>1. \A a, b, t \in Nat : b = a + t => b >= a OBVIOUS
      <3>2. Len(vec'[c].v) \in Nat /\ Len(vec[c].v) \in Nat BY <1>0
      <3> QED BY <2>2, <3>1, <3>2, Zenon
    <2> QED BY <1>0, <2>2, <2>3, <2>4, OneColumnKeeps DEF StoreInv
  <1>3. ASSUME NEW c \in Cols, NEW e \in 0 .. MaxRows, ElementAdded(c, e)
        PROVE  Preserves /\ Lasts(n)
    <2>1. /\ Len(vec'[c].v) = Len(vec[c].v) + 1
          /\ \A i \in 1 .. Len(vec[c].v) : vec'[c].v[i] = vec[c].v[i]
      BY <1>0, <1>3, AppendProperties DEF ElementAdded
    <2>2. Others(c) BY <1>3 DEF ElementAdded
    <2>3. Len(vec'[c].v) >= Len(vec[c].v)
      <3>1. Len(vec[c].v) \in Nat BY <1>0
      <3>2. \A a, b \in Nat : b = a + 1 => b >= a OBVIOUS
      <3>3. Len(vec'[c].v) \in Nat BY <1>0
      <3> QED BY <2>1, <3>1, <3>2, <3>3, Zenon
    <2> QED BY <1>0, <2>1, <2>2, <2>3, OneColumnKeeps DEF StoreInv
  <1>4. ASSUME NEW c \in Cols, NEW m \in Nat, m >= n, LengthSet(c, m)
        PROVE  Preserves /\ Lasts(n)
    <2>1. /\ Len(vec'[c].v) = m
          /\ \A i \in 1 .. m : i <= Len(vec[c].v) => vec'[c].v[i] = vec[c].v[i]
      BY <1>4 DEF LengthSet
    <2>2. Others(c) BY <1>4 DEF LengthSet
    <2>3. \A i \in 1 .. Len(vec[c].v) : i <= Len(vec'[c].v) => vec'[c].v[i] = vec[c].v[i]
      BY <1>0, <2>1
    <2> QED BY <1>0, <1>4, <2>1, <2>2, <2>3, OneColumnKeeps DEF StoreInv
  <1> QED BY <1>1, <1>2, <1>3, <1>4

\* Only a resize sets a length below what is visible.
LEMMA StepKeeps ==
    ASSUME StoreInv, Next
    PROVE  /\ Preserves
           /\ req.op = "resize" \/ AllLast(Visible)
  <1>0. /\ StoreInv' /\ VecOK' /\ VisibleBounds
        /\ 0 \in Cols /\ (\A c \in Data : c \in Cols)
        /\ dim.a \in Nat /\ dim.idx \in Nat /\ req.sz \in Nat /\ k \in Nat
        /\ Visible \in Nat /\ Visible <= dim.idx /\ Visible <= dim.a
    <2>1. StoreInv' BY StoreStep
    <2>2. VisibleBounds BY VisibleNow DEF StoreInv
    <2> QED BY <2>1, <2>2, InCols, ReqFields DEF StoreInv, RestOK, VisibleBounds
  <1>1. CASE \/ AppendIndexColumn \/ AppendColumn
    <2>1. \/ SameElements \/ \E c \in Cols : RowsAdded(c)
      BY <1>0, <1>1, AppendIndexColumnEffect, AppendColumnEffect DEF Throws, Kept
    <2>2. UNCHANGED dim BY <1>1, AppendIndexColumnEffect, AppendColumnEffect
    <2> QED BY <1>0, <2>1, <2>2, WriteKeeps DEF AllLast
  <1>2. CASE \/ IndexColumnBack \/ ColumnBack \/ UndoIndex
    <2>1. \/ SameElements \/ \E c \in Cols, m \in Nat : m >= Visible /\ LengthSet(c, m)
      BY <1>0, <1>2, IndexColumnBackEffect, ColumnBackEffect, UndoIndexEffect DEF Throws, Kept
    <2>2. UNCHANGED dim BY <1>2, IndexColumnBackEffect, ColumnBackEffect, UndoIndexEffect
    <2> QED BY <1>0, <2>1, <2>2, WriteKeeps DEF AllLast
  <1>3. CASE PushIndex \/ PushData
    <2>1. \/ SameElements
          \/ \E c \in Cols, e \in 0 .. MaxRows : ElementAdded(c, e)
      <3>1. CASE PushIndex
        <4>1. req.times[at] \in 0 .. MaxRows
          BY <3>1, PushIndexEffect, ReqFields, StoreAssumption DEF StoreInv
        <4> QED BY <1>0, <3>1, <4>1, PushIndexEffect DEF Throws, Kept, SameElements
      <3>2. CASE PushData
        <4>1. req.times[(at % k) + 1] \in 0 .. MaxRows /\ at \div k + 1 \in Cols
          BY <1>0, <3>2, PushDataEffect, PushElement, ReqFields, StoreAssumption DEF StoreInv
        <4> QED BY <3>2, <4>1, PushDataEffect DEF Throws, Kept
      <3> QED BY <1>3, <3>1, <3>2
    <2>2. UNCHANGED dim BY <1>3, PushIndexEffect, PushDataEffect
    <2> QED BY <1>0, <2>1, <2>2, WriteKeeps DEF AllLast
  <1>4. CASE CutIndex \/ CutColumn
    <2>1. \/ SameElements \/ \E c \in Cols, m \in Nat : LengthSet(c, m)
      BY <1>0, <1>4, CutIndexEffect, CutColumnEffect DEF Throws, Kept
    <2>2. Preserves
      <3>1. 0 \in Nat /\ \A m \in Nat : m >= 0 OBVIOUS
      <3> QED BY <1>0, <2>1, <3>1, WriteKeeps
    <2>3. req.op = "resize"
      BY <1>4, CutIndexEffect, CutColumnEffect DEF StoreInv, ControlOK, CutPc
    <2> QED BY <2>2, <2>3
  <1>5. CASE CutIndexDim \/ CutDim
    <2>1. SameElements BY <1>5 DEF SameElements, CutIndexDim, CutDim
    <2>2. Preserves BY <1>0, <2>1, WriteKeeps
    <2>3. req.op = "resize"
      BY <1>5 DEF CutIndexDim, CutDim, StoreInv, ControlOK, CutPc
    <2> QED BY <2>2, <2>3
  <1>6. CASE \/ AppendIndexDim \/ CheckOrder \/ AppendDim \/ UndoIndexDim \/ PushIndexDim
    <2>1. SameElements
      <3>1. CASE UndoIndexDim
        <4>1. CASE vec' = vec BY <4>1 DEF SameElements
        <4>2. CASE vec' = [vec EXCEPT ![0].ordered = TRUE] /\ pc = "undodim"
          <5>1. VecOK BY DEF StoreInv
          <5> QED BY <4>2, <5>1, FlagForced DEF SameElements, Others
        <4> QED BY <3>1, <4>1, <4>2 DEF UndoIndexDim
      <3>2. CASE ~UndoIndexDim
        BY <1>6, <3>2 DEF SameElements, AppendIndexDim, CheckOrder, AppendDim, PushIndexDim
      <3> QED BY <3>1, <3>2
    <2>2. dim'.idx >= Visible /\ dim'.a >= Visible
      BY <1>0, <1>6 DEF AppendIndexDim, CheckOrder, AppendDim, UndoIndexDim, PushIndexDim, k,
         StoreInv, RestOK
    <2> QED BY <1>0, <2>1, <2>2, WriteKeeps DEF AllLast
  <1>7. CASE \/ \E c \in Chunks, w \in BOOLEAN : Begin("append", c, w) \/ Begin("vector", c, w)
             \/ \E n \in 0 .. MaxRows : BeginResize(n)
             \/ Crash
    <2>1. UNCHANGED <<vec, dim>> BY <1>7 DEF Begin, BeginResize, Crash
    <2>2. SameElements BY <2>1 DEF SameElements
    <2> QED BY <1>0, <2>1, <2>2, WriteKeeps DEF AllLast
  <1>8. CASE Load
    <2>1. SameElements
      <3>1. \A c \in Cols : vec[c] \in Vectors /\ vec'[c] = Loaded(vec[c])
        BY <1>8 DEF Load, StoreInv, VecOK
      <3> QED BY <3>1, LoadedProperties DEF SameElements
    <2>2. UNCHANGED dim BY <1>8 DEF Load
    <2> QED BY <1>0, <2>1, <2>2, WriteKeeps DEF AllLast
  <1> QED BY <1>1, <1>2, <1>3, <1>4, <1>5, <1>6, <1>7, <1>8 DEF Next

\* No append, no rollback, no crash and no load overwrites or loses a row that was
\* complete, whatever has failed before: only a resize takes rows away.
THEOREM StoreKeepsRows == Spec => RowsAreKept
  <1> DEFINE A == /\ \A i \in 1 .. Visible : i <= Visible' => Row(i)' = Row(i)
                  /\ Visible' < Visible => req.op = "resize"
  <1>1. StoreInv /\ [Next]_vars => [A]_vars
    <2> SUFFICES ASSUME StoreInv, Next PROVE A
      OBVIOUS
    <2>1. /\ Preserves
          /\ req.op = "resize" \/ AllLast(Visible)
      BY StepKeeps
    <2>2. StoreInv' BY StoreStep
    <2>3. VisibleBounds /\ VisibleBounds' BY <2>2, VisibleNow, VisibleNext DEF StoreInv
    <2>4. \A c \in Cols : Len(vec[c].v) \in Nat /\ Len(vec'[c].v) \in Nat
      <3>1. \A c \in Cols : vec[c] \in Vectors /\ vec'[c] \in Vectors BY <2>2 DEF StoreInv, VecOK
      <3> QED BY <3>1, VectorFields
    <2>5. ASSUME NEW i \in 1 .. Visible, i <= Visible'
          PROVE  Row(i)' = Row(i)
      <3>1. \A c \in Cols : i \in 1 .. Len(vec[c].v) /\ i <= Len(vec'[c].v)
        BY <2>3, <2>4, <2>5 DEF VisibleBounds
      <3>2. \A c \in Cols : vec'[c].v[i] = vec[c].v[i] BY <2>1, <3>1 DEF Preserves
      <3> QED BY <3>2 DEF Row
    <2>6. ASSUME Visible' < Visible PROVE req.op = "resize"
      <3>1. ASSUME AllLast(Visible) PROVE FALSE
        <4>1. \A c \in Cols : Len(vec'[c].v) >= Visible
          BY <2>3, <2>4, <3>1 DEF VisibleBounds, AllLast, Lasts
        <4> QED BY <2>3, <2>6, <3>1, <4>1 DEF VisibleBounds, AllLast
      <3> QED BY <2>1, <3>1
    <2> QED BY <2>5, <2>6
  <1>2. Spec => [][A]_vars
    BY <1>1, StoreAlways, PTL DEF Spec
  <1> QED BY <1>2 DEF RowsAreKept

(***************************************************************************)
(* Coherence.                                                              *)
(***************************************************************************)
len(c) == Len(vec[c].v)

\* How far the index is: dim.a rows are complete, the others are being appended,
\* or cut.
IndexLength ==
    CASE pc \in {"idle", "down", "idxcol", "idxback", "undodim", "cutidx"} -> len(0) = dim.a
      [] pc \in {"idxdim", "order", "col", "back", "adim", "push"} -> len(0) = dim.a + k
      [] pc = "idxpush" -> len(0) = dim.a + at - 1
      [] pc = "idxpushdim" -> len(0) = dim.a + at
      [] pc = "undo" -> len(0) >= dim.a
      [] OTHER -> len(0) = req.sz

IndexDim ==
    CASE pc \in {"idxdim", "cutidxdim"} -> dim.idx = dim.a
      [] pc = "idxpushdim" -> dim.idx = len(0) - 1
      [] pc = "undodim" -> dim.idx >= dim.a
      [] OTHER -> dim.idx = len(0)

\* How far column c of the data is.
DataLength(c) ==
    CASE pc = "col"  -> len(c) = IF c < at THEN dim.a + k ELSE dim.a
      [] pc = "back" -> IF c < at THEN len(c) = dim.a ELSE len(c) \in {dim.a, dim.a + k}
      [] pc = "adim" -> len(c) = dim.a + k
      [] pc = "push" -> len(c) = dim.a + (IF c <= at \div k THEN k
                                          ELSE IF c = (at \div k) + 1 THEN at % k ELSE 0)
      [] pc = "cut"  -> len(c) = IF c < at THEN req.sz ELSE dim.a
      [] pc = "cutdim" -> len(c) = req.sz
      [] OTHER -> len(c) = dim.a
DataLengths == \A c \in Data : DataLength(c)

\* The index ascends when its flag says so, and as far as its rows are complete.
FlagTrue == vec[0].ordered => Ascending(vec[0].v)
FlagKnown ==
    /\ pc \notin {"idxdim", "order", "undo", "undodim"} => vec[0].ordered
    /\ pc \in {"undo", "undodim"} => at = 1 \/ vec[0].ordered
RowsAscend == \A i \in 1 .. dim.a - 1 : i < len(0) => vec[0].v[i] < vec[0].v[i + 1]

RowsAgree ==
    \A c \in Data : \A i \in 1 .. len(c) : i <= len(0) => vec[c].v[i] = vec[0].v[i]

\* What is in the index behind the complete rows is what is being appended.
NewRows ==
    pc \in AppendPc \cup VectorPc =>
        \A i \in 1 .. k : dim.a + i <= len(0) => vec[0].v[dim.a + i] = req.times[i]

CutSize == pc \in CutPc => req.sz < dim.a

Coherence ==
    /\ IndexLength /\ IndexDim /\ DataLengths /\ FlagTrue /\ FlagKnown
    /\ RowsAscend /\ RowsAgree /\ NewRows /\ CutSize
CoherenceInv == ~hurt => Coherence

(***************************************************************************)
(* Ascending sequences.                                                    *)
(***************************************************************************)
LEMMA AscendingConcat ==
    ASSUME NEW s \in Seq(Nat), NEW t \in Seq(Nat), NEW w, w = s \o t,
           Ascending(s), Ascending(t),
           (Len(s) > 0 /\ Len(t) > 0) => s[Len(s)] < t[1]
    PROVE  Ascending(w)
  <1>1. /\ Len(w) = Len(s) + Len(t) /\ Len(s) \in Nat /\ Len(t) \in Nat
        /\ \A i \in 1 .. Len(s) + Len(t) : w[i] = IF i <= Len(s) THEN s[i] ELSE t[i - Len(s)]
    BY ConcatProperties, LenProperties
  <1>2. SUFFICES ASSUME NEW i \in 1 .. Len(w) - 1 PROVE w[i] < w[i + 1]
    BY DEF Ascending
  <1>3. CASE i < Len(s)
    <2>1. i \in 1 .. Len(s) - 1 /\ i + 1 <= Len(s) BY <1>1, <1>3
    <2>2. w[i] = s[i] /\ w[i + 1] = s[i + 1] BY <1>1, <2>1
    <2> QED BY <2>1, <2>2 DEF Ascending
  <1>4. CASE i = Len(s)
    <2>1. Len(s) > 0 /\ Len(t) > 0 BY <1>1, <1>4
    <2>2. w[i] = s[Len(s)] /\ w[i + 1] = t[1] BY <1>1, <1>4
    <2> QED BY <2>1, <2>2
  <1>5. CASE i > Len(s)
    <2>1. i - Len(s) \in 1 .. Len(t) - 1 BY <1>1, <1>5
    <2>2. i \in 1 .. Len(s) + Len(t) /\ ~(i <= Len(s)) BY <1>1, <1>5
    <2>3. i + 1 \in 1 .. Len(s) + Len(t) /\ ~(i + 1 <= Len(s)) BY <1>1, <1>5
    <2>4. (i + 1) - Len(s) = (i - Len(s)) + 1 BY <1>1
    <2>5. w[i] = t[i - Len(s)] BY <1>1, <2>2, Zenon
    <2>6. w[i + 1] = t[(i - Len(s)) + 1] BY <1>1, <2>3, <2>4, Zenon
    <2> QED BY <2>1, <2>5, <2>6 DEF Ascending
  <1> QED BY <1>1, <1>3, <1>4, <1>5

LEMMA AscendingAppend ==
    ASSUME NEW s \in Seq(Nat), NEW e \in Nat, Ascending(s),
           Len(s) > 0 => s[Len(s)] < e
    PROVE  Ascending(Append(s, e))
  <1> DEFINE w == Append(s, e)
  <1>1. /\ Len(w) = Len(s) + 1 /\ Len(s) \in Nat
        /\ (\A i \in 1 .. Len(s) : w[i] = s[i]) /\ w[Len(s) + 1] = e
    BY AppendProperties, LenProperties
  <1> HIDE DEF w
  <1>2. ASSUME NEW i \in 1 .. Len(w) - 1 PROVE w[i] < w[i + 1]
    <2>1. CASE i < Len(s)
      <3>1. i \in 1 .. Len(s) - 1 /\ i + 1 \in 1 .. Len(s) /\ i \in 1 .. Len(s) BY <1>1, <2>1
      <3>2. s[i] < s[i + 1] BY <3>1 DEF Ascending
      <3> QED BY <1>1, <3>1, <3>2
    <2>2. CASE i = Len(s)
      BY <1>1, <2>2
    <2> QED BY <1>1, <2>1, <2>2
  <1>3. Ascending(w) BY <1>2 DEF Ascending
  <1> QED BY <1>3 DEF w

LEMMA AscendingPrefix ==
    ASSUME NEW s \in Seq(Nat), NEW w \in Seq(Nat), Len(w) <= Len(s),
           \A i \in 1 .. Len(w) : w[i] = s[i],
           \A i \in 1 .. Len(w) - 1 : s[i] < s[i + 1]
    PROVE  Ascending(w)
  <1>1. Len(w) \in Nat /\ Len(s) \in Nat BY LenProperties
  <1> QED BY <1>1 DEF Ascending

(***************************************************************************)
(* What the writes do to rows that agree.                                  *)
(***************************************************************************)
newLen(c) == Len(vec'[c].v)

Numbers ==
    /\ \A c \in Cols : vec[c].v \in Seq(0 .. MaxRows) /\ len(c) \in Nat
    /\ dim.a \in Nat /\ dim.idx \in Nat /\ at \in Nat
    /\ req.times \in Seq(1 .. MaxRows) /\ k \in Nat /\ req.sz \in Nat

LEMMA NumbersNow == StoreInv => Numbers
  <1> SUFFICES ASSUME StoreInv PROVE Numbers OBVIOUS
  <1>1. \A c \in Cols : vec[c] \in Vectors BY DEF StoreInv, VecOK
  <1> QED BY <1>1, VectorFields, ReqFields DEF StoreInv, Numbers, RestOK, ControlOK, len

LEMMA NumbersNext == StoreInv' => Numbers'
  BY NumbersNow, PTL

LEMMA Sizes ==
    ASSUME StoreInv, StoreInv'
    PROVE  /\ dim.a \in Nat /\ dim.idx \in Nat /\ at \in Nat /\ k \in Nat /\ req.sz \in Nat
           /\ \A c \in Cols : len(c) \in Nat /\ newLen(c) \in Nat /\ len(c)' = newLen(c)
           /\ 0 \in Cols /\ \A c \in Data : c \in Cols /\ c # 0 /\ c \in Nat
  BY NumbersNow, NumbersNext, InCols DEF Numbers, len, newLen

LEMMA TimesAreNumbers == ReqOK => req.times \in Seq(0 .. MaxRows) /\ req.times \in Seq(Nat)
  <1>1. 1 .. MaxRows \subseteq 0 .. MaxRows /\ 1 .. MaxRows \subseteq Nat
    BY StoreAssumption
  <1> QED BY <1>1, SeqMonotonic, ReqFields

\* What an append leaves in a column.
LEMMA RowsAddedShape ==
    ASSUME StoreInv, NEW c \in Cols, RowsAdded(c)
    PROVE  /\ newLen(c) = len(c) + k
           /\ \A i \in 1 .. len(c) : vec'[c].v[i] = vec[c].v[i]
           /\ \A i \in 1 .. k : vec'[c].v[len(c) + i] = req.times[i]
           /\ \A d \in Cols : d # c => vec'[d] = vec[d] /\ newLen(d) = len(d)
  <1> DEFINE v == vec[c].v
             t == req.times
             w == vec'[c].v
  <1>1. w = v \o t BY DEF RowsAdded
  <1>2. v \in Seq(0 .. MaxRows) /\ t \in Seq(0 .. MaxRows)
    BY NumbersNow, TimesAreNumbers DEF Numbers, StoreInv
  <1>3. /\ Len(w) = Len(v) + Len(t) /\ Len(v) \in Nat /\ Len(t) \in Nat
        /\ \A i \in 1 .. Len(v) : w[i] = v[i]
        /\ \A i \in 1 .. Len(t) : w[Len(v) + i] = t[i]
    <2> HIDE DEF v, t, w
    <2>1. Len(v) \in Nat /\ Len(t) \in Nat BY <1>2, LenProperties
    <2>2. /\ Len(w) = Len(v) + Len(t)
          /\ \A i \in 1 .. Len(v) + Len(t) : w[i] = IF i <= Len(v) THEN v[i] ELSE t[i - Len(v)]
      BY <1>1, <1>2, ConcatProperties
    <2>3. ASSUME NEW i \in 1 .. Len(t) PROVE w[Len(v) + i] = t[i]
      <3>1. Len(v) + i \in 1 .. Len(v) + Len(t) /\ ~(Len(v) + i <= Len(v)) /\ (Len(v) + i) - Len(v) = i
        BY <2>1
      <3> QED BY <2>2, <3>1
    <2> QED BY <2>1, <2>2, <2>3
  <1>4. \A d \in Cols : d # c => vec'[d] = vec[d]
    BY DEF RowsAdded, Others
  <1> QED BY <1>3, <1>4 DEF len, newLen, k

LEMMA ElementAddedShape ==
    ASSUME StoreInv, NEW c \in Cols, NEW e \in 0 .. MaxRows, ElementAdded(c, e)
    PROVE  /\ newLen(c) = len(c) + 1
           /\ \A i \in 1 .. len(c) : vec'[c].v[i] = vec[c].v[i]
           /\ vec'[c].v[len(c) + 1] = e
           /\ \A d \in Cols : d # c => vec'[d] = vec[d] /\ newLen(d) = len(d)
  <1>1. vec[c].v \in Seq(0 .. MaxRows) BY NumbersNow DEF Numbers
  <1> QED BY <1>1, AppendProperties DEF ElementAdded, Others, len, newLen

LEMMA LengthSetShape ==
    ASSUME NEW c \in Cols, NEW n \in Nat, LengthSet(c, n)
    PROVE  /\ newLen(c) = n /\ vec'[c].ordered = vec[c].ordered
           /\ \A i \in 1 .. n : i <= len(c) => vec'[c].v[i] = vec[c].v[i]
           /\ \A d \in Cols : d # c => vec'[d] = vec[d] /\ newLen(d) = len(d)
  BY DEF LengthSet, Others, len, newLen

LEMMA KeptShape ==
    ASSUME Kept
    PROVE  \A d \in Cols : /\ vec'[d].v = vec[d].v /\ newLen(d) = len(d)
                           /\ vec'[d].ordered = vec[d].ordered
  BY DEF Kept, SameElements, len, newLen

LEMMA WritePreserves ==
    ASSUME StoreInv, StoreInv',
           \/ SameElements
           \/ \E c \in Cols : RowsAdded(c)
           \/ \E c \in Cols, e \in 0 .. MaxRows : ElementAdded(c, e)
           \/ \E c \in Cols, m \in Nat : LengthSet(c, m)
    PROVE  Preserves
  <1>1. 0 \in Nat /\ \A m \in Nat : m >= 0 OBVIOUS
  <1>2. VecOK' BY DEF StoreInv
  <1> QED BY <1>1, <1>2, WriteKeeps

\* Rows agree after a write if the elements behind the old ones do.
LEMMA RowsStillAgree ==
    ASSUME StoreInv, StoreInv', RowsAgree, Preserves,
           \A c \in Data : \A i \in 1 .. newLen(c) :
               i <= newLen(0) => (i <= len(c) /\ i <= len(0)) \/ vec'[c].v[i] = vec'[0].v[i]
    PROVE  RowsAgree'
  <1>1. /\ \A c \in Cols : len(c) \in Nat /\ newLen(c) \in Nat /\ len(c)' = newLen(c)
        /\ 0 \in Cols /\ \A c \in Data : c \in Cols
    BY Sizes
  <1>2. ASSUME NEW c \in Data, NEW i \in 1 .. newLen(c), i <= newLen(0)
        PROVE  vec'[c].v[i] = vec'[0].v[i]
    <2>1. c \in Cols /\ 0 \in Cols BY <1>1
    <2>2. CASE i <= len(c) /\ i <= len(0)
      <3>1. /\ len(c) \in Nat /\ len(0) \in Nat /\ newLen(c) \in Nat /\ newLen(0) \in Nat
        BY <1>1, <2>1
      <3>2. i \in 1 .. len(c) /\ i \in 1 .. len(0) /\ i <= newLen(c) BY <1>2, <2>2, <3>1
      <3>3. vec'[c].v[i] = vec[c].v[i] /\ vec'[0].v[i] = vec[0].v[i]
        BY <1>2, <2>1, <3>2 DEF Preserves, len, newLen
      <3> QED BY <2>2, <3>2, <3>3 DEF RowsAgree
    <2> QED BY <1>2, <2>2
  <1> QED BY <1>1, <1>2 DEF RowsAgree

\* A write that leaves the elements.
LEMMA SameElementsAgree ==
    ASSUME StoreInv, StoreInv', Coherence, SameElements
    PROVE  /\ \A d \in Cols : newLen(d) = len(d)
           /\ RowsAgree'
           /\ Ascending(vec[0].v) => Ascending(vec'[0].v)
           /\ vec'[0].ordered = vec[0].ordered => FlagTrue'
           /\ dim'.a = dim.a => RowsAscend'
           /\ UNCHANGED <<dim, req>> /\ pc \in AppendPc \cup VectorPc => NewRows'
  <1>1. 0 \in Cols /\ \A c \in Data : c \in Cols BY InCols
  <1>0. \A c \in Cols : len(c)' = newLen(c) BY Sizes
  <1>2. \A d \in Cols : newLen(d) = len(d) /\ vec'[d].v = vec[d].v BY DEF SameElements, len, newLen
  <1>3. RowsAgree' BY <1>0, <1>1, <1>2 DEF Coherence, RowsAgree
  <1>4. vec'[0].ordered = vec[0].ordered => FlagTrue'
    BY <1>0, <1>1, <1>2 DEF Coherence, FlagTrue
  <1>5. dim'.a = dim.a => RowsAscend' BY <1>0, <1>1, <1>2 DEF Coherence, RowsAscend
  <1>6. UNCHANGED <<dim, req>> /\ pc \in AppendPc \cup VectorPc => NewRows'
    BY <1>0, <1>1, <1>2 DEF Coherence, NewRows, k
  <1> QED BY <1>1, <1>2, <1>3, <1>4, <1>5, <1>6

\* A write of a data column says nothing about the index.
LEMMA DataWriteKeepsIndex ==
    ASSUME Coherence, vec'[0] = vec[0], UNCHANGED dim
    PROVE  /\ newLen(0) = len(0) /\ FlagTrue' /\ RowsAscend'
           /\ UNCHANGED req /\ pc \in AppendPc \cup VectorPc => NewRows'
  BY DEF Coherence, FlagTrue, RowsAscend, NewRows, len, newLen, k

LEMMA AppendIndexColumnCoherent ==
    ASSUME StoreInv, StoreInv', Coherence, AppendIndexColumn
    PROVE  Coherence'
  <1>0. /\ dim.a \in Nat /\ dim.idx \in Nat /\ at \in Nat /\ k \in Nat
        /\ \A c \in Cols : len(c) \in Nat /\ newLen(c) \in Nat /\ len(c)' = newLen(c)
        /\ 0 \in Cols /\ \A c \in Data : c \in Cols /\ c # 0 /\ c \in Nat
    BY Sizes
  <1>1. pc = "idxcol" /\ dim' = dim
    BY AppendIndexColumnEffect
  <1>2. /\ len(0) = dim.a /\ dim.idx = len(0) /\ (\A c \in Data : len(c) = dim.a)
        /\ vec[0].ordered /\ Ascending(vec[0].v)
    BY <1>0, <1>1 DEF Coherence, IndexLength, IndexDim, DataLengths, DataLength, FlagTrue, FlagKnown
  <1>3. CASE Goto("idxdim", 0) /\ RowsAdded(0)
    <2>1. pc' = "idxdim" /\ req' = req /\ k' = k BY <1>3 DEF Goto, k
    <2>2. /\ newLen(0) = len(0) + k
          /\ \A i \in 1 .. len(0) : vec'[0].v[i] = vec[0].v[i]
          /\ \A i \in 1 .. k : vec'[0].v[len(0) + i] = req.times[i]
          /\ \A d \in Data : vec'[d] = vec[d] /\ newLen(d) = len(d)
      BY <1>0, <1>1, <1>3, RowsAddedShape
    <2>3. IndexLength' /\ IndexDim' BY <1>0, <1>1, <1>2, <2>1, <2>2 DEF IndexLength, IndexDim
    <2>4. DataLengths' BY <1>0, <1>1, <1>2, <2>1, <2>2 DEF DataLengths, DataLength
    <2>5. FlagTrue'
      <3>1. vec[0].v \in Seq(Nat) /\ req.times \in Seq(Nat)
        BY <1>0, NumbersNow, TimesAreNumbers, SeqMonotonic, StoreAssumption DEF Numbers, StoreInv
      <3>2. vec'[0].v = vec[0].v \o req.times BY <1>3 DEF RowsAdded
      <3>3. vec'[0].ordered => /\ Ascending(req.times)
                               /\ Len(vec[0].v) > 0 /\ Len(req.times) > 0
                                    => vec[0].v[Len(vec[0].v)] < req.times[1]
        BY <1>3 DEF RowsAdded
      <3>4. vec'[0].ordered => Ascending(vec'[0].v)
        BY <1>2, <3>1, <3>2, <3>3, AscendingConcat
      <3> QED BY <3>4 DEF FlagTrue
    <2>6. FlagKnown' BY <2>1 DEF FlagKnown
    <2>7. RowsAscend'
      <3>1. \A i \in 1 .. dim.a - 1 : vec[0].v[i] < vec[0].v[i + 1]
        BY <1>2 DEF Ascending, len, newLen
      <3> QED BY <1>0, <1>1, <1>2, <2>2, <3>1 DEF RowsAscend
    <2>8. RowsAgree'
      <3>1. Preserves BY <1>0, <1>1, <1>3, WritePreserves
      <3>2. \A c \in Data : \A i \in 1 .. newLen(c) :
                i <= newLen(0) => (i <= len(c) /\ i <= len(0)) \/ vec'[c].v[i] = vec'[0].v[i]
        BY <1>0, <1>2, <2>2
      <3> QED BY <3>1, <3>2, RowsStillAgree DEF Coherence
    <2>9. NewRows' BY <1>0, <1>1, <1>2, <2>1, <2>2 DEF NewRows
    <2>10. CutSize' BY <2>1 DEF CutSize, CutPc
    <2> QED BY <2>3, <2>4, <2>5, <2>6, <2>7, <2>8, <2>9, <2>10 DEF Coherence
  <1>4. CASE Goto("idxback", 0) /\ Kept
    <2>1. pc' = "idxback" /\ req' = req /\ k' = k BY <1>4 DEF Goto, k
    <2>2. \A d \in Cols : newLen(d) = len(d) BY <1>4, KeptShape
    <2>3. RowsAgree' /\ FlagTrue' /\ RowsAscend' /\ NewRows' /\ vec'[0].ordered
      BY <1>0, <1>1, <1>2, <1>4, <2>1, SameElementsAgree DEF Kept, AppendPc
    <2>4. IndexLength' /\ IndexDim' BY <1>0, <1>1, <1>2, <2>1, <2>2 DEF IndexLength, IndexDim
    <2>5. DataLengths' BY <1>0, <1>1, <1>2, <2>1, <2>2 DEF DataLengths, DataLength
    <2>6. FlagKnown' /\ CutSize' BY <2>1, <2>3 DEF FlagKnown, CutSize, CutPc
    <2> QED BY <2>3, <2>4, <2>5, <2>6 DEF Coherence
  <1> QED BY <1>3, <1>4, AppendIndexColumnEffect DEF Throws

LEMMA IndexColumnBackCoherent ==
    ASSUME StoreInv, StoreInv', Coherence, IndexColumnBack, ~hurt'
    PROVE  Coherence'
  <1>0. /\ dim.a \in Nat /\ dim.idx \in Nat /\ at \in Nat /\ k \in Nat
        /\ \A c \in Cols : len(c) \in Nat /\ newLen(c) \in Nat /\ len(c)' = newLen(c)
        /\ 0 \in Cols /\ \A c \in Data : c \in Cols /\ c # 0 /\ c \in Nat
    BY Sizes
  <1>1. pc = "idxback" /\ dim' = dim /\ Return /\ LengthSet(0, dim.idx)
    BY IndexColumnBackEffect
  <1>2. /\ len(0) = dim.a /\ dim.idx = len(0) /\ (\A c \in Data : len(c) = dim.a)
        /\ vec[0].ordered /\ Ascending(vec[0].v)
    BY <1>0, <1>1 DEF Coherence, IndexLength, IndexDim, DataLengths, DataLength, FlagTrue, FlagKnown
  <1>3. /\ newLen(0) = len(0) /\ vec'[0].ordered = vec[0].ordered
        /\ \A i \in 1 .. len(0) : vec'[0].v[i] = vec[0].v[i]
        /\ \A d \in Data : vec'[d] = vec[d] /\ newLen(d) = len(d)
    <2>1. /\ newLen(0) = dim.idx /\ vec'[0].ordered = vec[0].ordered
          /\ \A i \in 1 .. dim.idx : i <= len(0) => vec'[0].v[i] = vec[0].v[i]
          /\ \A d \in Cols : d # 0 => vec'[d] = vec[d] /\ newLen(d) = len(d)
      BY <1>0, <1>1, LengthSetShape, Zenon
    <2> QED BY <1>0, <1>2, <2>1
  <1>4. pc' = "idle" BY <1>1 DEF Return
  <1>5. IndexLength' /\ IndexDim' BY <1>0, <1>1, <1>2, <1>3, <1>4 DEF IndexLength, IndexDim
  <1>6. DataLengths' BY <1>0, <1>1, <1>2, <1>3, <1>4 DEF DataLengths, DataLength
  <1>7. Ascending(vec'[0].v)
    <2>1. \A i \in 1 .. len(0) - 1 : i \in 1 .. len(0) /\ i + 1 \in 1 .. len(0) BY <1>0
    <2>2. \A i \in 1 .. len(0) - 1 : vec[0].v[i] < vec[0].v[i + 1] BY <1>2 DEF Ascending, len, newLen
    <2>3. \A i \in 1 .. newLen(0) - 1 : vec'[0].v[i] < vec'[0].v[i + 1]
      BY <1>3, <2>1, <2>2
    <2> QED BY <2>3 DEF Ascending, len, newLen
  <1>8. FlagTrue' /\ FlagKnown' /\ RowsAscend'
    <2>1. \A i \in 1 .. dim.a - 1 : vec'[0].v[i] < vec'[0].v[i + 1]
      BY <1>2, <1>3, <1>7 DEF Ascending, len, newLen
    <2> QED BY <1>0, <1>1, <1>2, <1>3, <1>4, <1>7, <2>1 DEF FlagTrue, FlagKnown, RowsAscend
  <1>9. RowsAgree'
    <2>1. Preserves BY <1>0, <1>1, WritePreserves
    <2>2. \A c \in Data : \A i \in 1 .. newLen(c) :
              i <= newLen(0) => (i <= len(c) /\ i <= len(0)) \/ vec'[c].v[i] = vec'[0].v[i]
      BY <1>0, <1>2, <1>3
    <2> QED BY <2>1, <2>2, RowsStillAgree DEF Coherence
  <1>10. NewRows' /\ CutSize' BY <1>4 DEF NewRows, CutSize, AppendPc, VectorPc, CutPc
  <1> QED BY <1>5, <1>6, <1>8, <1>9, <1>10 DEF Coherence

LEMMA AppendColumnCoherent ==
    ASSUME StoreInv, StoreInv', Coherence, AppendColumn
    PROVE  Coherence'
  <1>0. /\ dim.a \in Nat /\ dim.idx \in Nat /\ at \in Nat /\ k \in Nat
        /\ \A c \in Cols : len(c) \in Nat /\ newLen(c) \in Nat /\ len(c)' = newLen(c)
        /\ 0 \in Cols /\ \A c \in Data : c \in Cols /\ c # 0 /\ c \in Nat
    BY Sizes
  <1>1. pc = "col" /\ dim' = dim /\ at \in Data
    BY AppendColumnEffect
  <1>2. /\ len(0) = dim.a + k /\ dim.idx = len(0) /\ vec[0].ordered
        /\ \A c \in Data : len(c) = IF c < at THEN dim.a + k ELSE dim.a
        /\ \A i \in 1 .. k : vec[0].v[dim.a + i] = req.times[i]
    BY <1>0, <1>1 DEF Coherence, IndexLength, IndexDim, DataLengths, DataLength, FlagKnown, NewRows,
       AppendPc
  <1>3. CASE (IF at = NC THEN Goto("adim", 0) ELSE Goto("col", at + 1)) /\ RowsAdded(at)
    <2>1. /\ pc' \in {"adim", "col"} /\ req' = req /\ k' = k
          /\ pc' = "adim" => at = NC
          /\ pc' = "col" => at' = at + 1
      BY <1>3 DEF Goto, k
    <2>2. /\ newLen(at) = dim.a + k
          /\ \A i \in 1 .. k : vec'[at].v[dim.a + i] = req.times[i]
          /\ \A d \in Cols : d # at => vec'[d] = vec[d] /\ newLen(d) = len(d)
      <3>1. /\ newLen(at) = len(at) + k
            /\ \A i \in 1 .. k : vec'[at].v[len(at) + i] = req.times[i]
            /\ \A d \in Cols : d # at => vec'[d] = vec[d] /\ newLen(d) = len(d)
        BY <1>0, <1>1, <1>3, RowsAddedShape, Zenon
      <3>2. len(at) = dim.a BY <1>0, <1>1, <1>2
      <3> QED BY <3>1, <3>2
    <2>3. newLen(0) = len(0) /\ FlagTrue' /\ RowsAscend' /\ NewRows' /\ vec'[0].ordered
      BY <1>0, <1>1, <1>2, <2>1, <2>2, DataWriteKeepsIndex DEF AppendPc
    <2>4. IndexLength' /\ IndexDim' BY <1>0, <1>1, <1>2, <2>1, <2>3 DEF IndexLength, IndexDim
    <2>5. DataLengths'
      <3>1. ASSUME NEW c \in Data PROVE DataLength(c)'
        <4>1. c \in 1 .. NC /\ c \in Cols BY <1>0 DEF Data
        <4>2. c = at => newLen(c) = dim.a + k BY <2>2
        <4>3. c # at => newLen(c) = IF c < at THEN dim.a + k ELSE dim.a
          BY <1>2, <2>2, <4>1
        <4>4. CASE pc' = "adim"
          <5>1. c = at \/ c < at BY <1>0, <2>1, <4>1, <4>4, StoreAssumption
          <5>2. newLen(c) = dim.a + k BY <4>2, <4>3, <5>1
          <5> QED BY <1>0, <1>1, <2>1, <4>1, <4>4, <5>2 DEF DataLength
        <4>5. CASE pc' = "col"
          <5>1. newLen(c) = IF c < at + 1 THEN dim.a + k ELSE dim.a
            BY <1>0, <4>2, <4>3
          <5> QED BY <1>0, <1>1, <2>1, <4>1, <4>5, <5>1 DEF DataLength
        <4> QED BY <2>1, <4>4, <4>5
      <3> QED BY <3>1 DEF DataLengths
    <2>6. FlagKnown' /\ CutSize' BY <2>1, <2>3 DEF FlagKnown, CutSize, CutPc
    <2>7. RowsAgree'
      <3>1. Preserves BY <1>0, <1>1, <1>3, WritePreserves
      <3>2. ASSUME NEW c \in Data, NEW i \in 1 .. newLen(c), i <= newLen(0)
            PROVE  (i <= len(c) /\ i <= len(0)) \/ vec'[c].v[i] = vec'[0].v[i]
        <4>1. CASE c # at BY <1>0, <1>2, <2>2, <2>3, <3>2, <4>1
        <4>2. CASE c = at /\ i <= dim.a BY <1>0, <1>1, <1>2, <2>3, <3>2, <4>2
        <4>3. CASE c = at /\ i > dim.a
          <5>1. i - dim.a \in 1 .. k /\ dim.a + (i - dim.a) = i
            BY <1>0, <2>2, <4>3
          <5>2. vec'[at].v[i] = req.times[i - dim.a] /\ vec[0].v[i] = req.times[i - dim.a]
            BY <1>2, <2>2, <5>1
          <5> QED BY <1>0, <2>2, <4>3, <5>2
        <4> QED BY <1>0, <1>1, <3>2, <4>1, <4>2, <4>3
      <3> QED BY <3>1, <3>2, RowsStillAgree DEF Coherence
    <2> QED BY <2>3, <2>4, <2>5, <2>6, <2>7 DEF Coherence
  <1>4. CASE Goto("back", 1) /\ Kept
    <2>1. pc' = "back" /\ at' = 1 /\ req' = req /\ k' = k BY <1>4 DEF Goto, k
    <2>2. \A d \in Cols : newLen(d) = len(d) BY <1>4, KeptShape
    <2>3. RowsAgree' /\ FlagTrue' /\ RowsAscend' /\ NewRows' /\ vec'[0].ordered
      BY <1>0, <1>1, <1>2, <1>4, <2>1, SameElementsAgree DEF Kept, AppendPc
    <2>4. IndexLength' /\ IndexDim' BY <1>0, <1>1, <1>2, <2>1, <2>2 DEF IndexLength, IndexDim
    <2>5. DataLengths'
      <3>1. \A c \in Data : ~(c < 1) BY StoreAssumption DEF Data
      <3> QED BY <1>0, <1>1, <1>2, <2>1, <2>2, <3>1 DEF DataLengths, DataLength
    <2>6. FlagKnown' /\ CutSize' BY <2>1, <2>3 DEF FlagKnown, CutSize, CutPc
    <2> QED BY <2>3, <2>4, <2>5, <2>6 DEF Coherence
  <1> QED BY <1>3, <1>4, AppendColumnEffect DEF Throws

LEMMA ColumnBackCoherent ==
    ASSUME StoreInv, StoreInv', Coherence, ColumnBack, ~hurt'
    PROVE  Coherence'
  <1>0. /\ dim.a \in Nat /\ dim.idx \in Nat /\ at \in Nat /\ k \in Nat
        /\ \A c \in Cols : len(c) \in Nat /\ newLen(c) \in Nat /\ len(c)' = newLen(c)
        /\ 0 \in Cols /\ \A c \in Data : c \in Cols /\ c # 0 /\ c \in Nat
    BY Sizes
  <1>1. /\ pc = "back" /\ dim' = dim /\ at \in Data /\ LengthSet(at, dim.a)
        /\ IF at = NC THEN Goto("undo", 0) ELSE Goto("back", at + 1)
    BY ColumnBackEffect
  <1>2. /\ len(0) = dim.a + k /\ dim.idx = len(0) /\ vec[0].ordered
        /\ \A c \in Data : IF c < at THEN len(c) = dim.a ELSE len(c) \in {dim.a, dim.a + k}
    BY <1>0, <1>1 DEF Coherence, IndexLength, IndexDim, DataLengths, DataLength, FlagKnown
  <1>3. /\ pc' \in {"undo", "back"} /\ req' = req /\ k' = k
        /\ pc' = "undo" => at = NC
        /\ pc' = "back" => at' = at + 1
    BY <1>1 DEF Goto, k
  <1>4. /\ newLen(at) = dim.a
        /\ \A d \in Cols : d # at => vec'[d] = vec[d] /\ newLen(d) = len(d)
    BY <1>0, <1>1, LengthSetShape, Zenon
  <1>5. newLen(0) = len(0) /\ FlagTrue' /\ RowsAscend' /\ NewRows' /\ vec'[0].ordered
    BY <1>0, <1>1, <1>2, <1>3, <1>4, DataWriteKeepsIndex DEF AppendPc
  <1>6. IndexLength' /\ IndexDim' BY <1>0, <1>1, <1>2, <1>3, <1>5 DEF IndexLength, IndexDim
  <1>7. DataLengths'
    <2>1. ASSUME NEW c \in Data PROVE DataLength(c)'
      <3>1. c \in 1 .. NC /\ c \in Cols BY <1>0 DEF Data
      <3>2. c = at => newLen(c) = dim.a BY <1>4
      <3>3. c # at => IF c < at THEN newLen(c) = dim.a ELSE newLen(c) \in {dim.a, dim.a + k}
        BY <1>2, <1>4, <3>1
      <3>4. CASE pc' = "undo"
        <4>1. c = at \/ c < at BY <1>0, <1>3, <3>1, <3>4, StoreAssumption
        <4>2. newLen(c) = dim.a BY <3>2, <3>3, <4>1
        <4> QED BY <1>0, <1>1, <3>1, <3>4, <4>2 DEF DataLength
      <3>5. CASE pc' = "back"
        <4>1. IF c < at + 1 THEN newLen(c) = dim.a ELSE newLen(c) \in {dim.a, dim.a + k}
          BY <1>0, <3>2, <3>3
        <4> QED BY <1>0, <1>1, <1>3, <3>1, <3>5, <4>1 DEF DataLength
      <3> QED BY <1>3, <3>4, <3>5
    <2> QED BY <2>1 DEF DataLengths
  <1>8. FlagKnown' /\ CutSize' BY <1>3, <1>5 DEF FlagKnown, CutSize, CutPc
  <1>9. RowsAgree'
    <2>1. Preserves BY <1>0, <1>1, WritePreserves
    <2>2. \A c \in Data : newLen(c) <= len(c)
      <3>1. \A c \in Data : c = at => len(c) >= dim.a BY <1>0, <1>2
      <3> QED BY <1>0, <1>4, <3>1
    <2>3. \A c \in Data : \A i \in 1 .. newLen(c) :
              i <= newLen(0) => (i <= len(c) /\ i <= len(0)) \/ vec'[c].v[i] = vec'[0].v[i]
      BY <1>0, <1>5, <2>2
    <2> QED BY <2>1, <2>3, RowsStillAgree DEF Coherence
  <1> QED BY <1>5, <1>6, <1>7, <1>8, <1>9 DEF Coherence

LEMMA UndoIndexCoherent ==
    ASSUME StoreInv, StoreInv', Coherence, UndoIndex, ~hurt'
    PROVE  Coherence'
  <1>0. /\ dim.a \in Nat /\ dim.idx \in Nat /\ at \in Nat /\ k \in Nat
        /\ \A c \in Cols : len(c) \in Nat /\ newLen(c) \in Nat /\ len(c)' = newLen(c)
        /\ 0 \in Cols /\ \A c \in Data : c \in Cols /\ c # 0 /\ c \in Nat
    BY Sizes
  <1>1. pc = "undo" /\ dim' = dim /\ Goto("undodim", at) /\ LengthSet(0, dim.a)
    BY UndoIndexEffect
  <1>2. /\ len(0) >= dim.a /\ dim.idx = len(0) /\ (\A c \in Data : len(c) = dim.a)
        /\ at = 1 \/ vec[0].ordered
    BY <1>0, <1>1 DEF Coherence, IndexLength, IndexDim, DataLengths, DataLength, FlagKnown
  <1>3. pc' = "undodim" /\ at' = at BY <1>1 DEF Goto
  <1>4. /\ newLen(0) = dim.a /\ vec'[0].ordered = vec[0].ordered
        /\ \A i \in 1 .. dim.a : i <= len(0) => vec'[0].v[i] = vec[0].v[i]
        /\ \A d \in Cols : d # 0 => vec'[d] = vec[d] /\ newLen(d) = len(d)
    BY <1>0, <1>1, LengthSetShape, Zenon
  <1>5. IndexLength' /\ IndexDim' BY <1>0, <1>1, <1>2, <1>3, <1>4 DEF IndexLength, IndexDim
  <1>6. DataLengths' BY <1>0, <1>1, <1>2, <1>3, <1>4 DEF DataLengths, DataLength
  <1>7. \A i \in 1 .. dim.a - 1 : vec'[0].v[i] < vec'[0].v[i + 1]
    <2>1. \A i \in 1 .. dim.a - 1 : /\ i \in 1 .. dim.a /\ i + 1 \in 1 .. dim.a
                                    /\ i < len(0) /\ i <= len(0) /\ i + 1 <= len(0)
      BY <1>0, <1>2
    <2>2. \A i \in 1 .. dim.a - 1 : vec[0].v[i] < vec[0].v[i + 1]
      BY <2>1 DEF Coherence, RowsAscend
    <2> QED BY <1>4, <2>1, <2>2
  <1>8. Ascending(vec'[0].v) BY <1>4, <1>7 DEF Ascending, newLen
  <1>9. FlagTrue' /\ FlagKnown' /\ RowsAscend'
    BY <1>1, <1>2, <1>3, <1>4, <1>7, <1>8 DEF FlagTrue, FlagKnown, RowsAscend
  <1>10. RowsAgree'
    <2>1. Preserves BY <1>0, <1>1, WritePreserves
    <2>2. \A c \in Data : \A i \in 1 .. newLen(c) :
              i <= newLen(0) => (i <= len(c) /\ i <= len(0)) \/ vec'[c].v[i] = vec'[0].v[i]
      BY <1>0, <1>2, <1>4
    <2> QED BY <2>1, <2>2, RowsStillAgree DEF Coherence
  <1>11. NewRows' /\ CutSize' BY <1>3 DEF NewRows, CutSize, AppendPc, VectorPc, CutPc
  <1> QED BY <1>5, <1>6, <1>9, <1>10, <1>11 DEF Coherence

LEMMA CutIndexCoherent ==
    ASSUME StoreInv, StoreInv', Coherence, CutIndex
    PROVE  Coherence'
  <1>0. /\ dim.a \in Nat /\ dim.idx \in Nat /\ at \in Nat /\ k \in Nat
        /\ \A c \in Cols : len(c) \in Nat /\ newLen(c) \in Nat /\ len(c)' = newLen(c)
        /\ 0 \in Cols /\ \A c \in Data : c \in Cols /\ c # 0 /\ c \in Nat
    BY Sizes
  <1>1. pc = "cutidx" /\ dim' = dim /\ req.sz \in Nat /\ req.sz < dim.a
    BY CutIndexEffect, Sizes DEF Coherence, CutSize, CutPc
  <1>2. /\ len(0) = dim.a /\ dim.idx = len(0) /\ (\A c \in Data : len(c) = dim.a)
        /\ vec[0].ordered
    BY <1>0, <1>1 DEF Coherence, IndexLength, IndexDim, DataLengths, DataLength, FlagKnown
  <1>3. CASE Goto("cutidxdim", 0) /\ LengthSet(0, req.sz)
    <2>1. pc' = "cutidxdim" /\ req' = req BY <1>3 DEF Goto
    <2>2. /\ newLen(0) = req.sz /\ vec'[0].ordered = vec[0].ordered
          /\ \A i \in 1 .. req.sz : i <= len(0) => vec'[0].v[i] = vec[0].v[i]
          /\ \A d \in Cols : d # 0 => vec'[d] = vec[d] /\ newLen(d) = len(d)
      BY <1>0, <1>1, <1>3, LengthSetShape, Zenon
    <2>3. IndexLength' /\ IndexDim' BY <1>0, <1>1, <1>2, <2>1, <2>2 DEF IndexLength, IndexDim
    <2>4. DataLengths' BY <1>0, <1>1, <1>2, <2>1, <2>2 DEF DataLengths, DataLength
    <2>5. \A i \in 1 .. req.sz - 1 : vec'[0].v[i] < vec'[0].v[i + 1]
      <3>1. \A i \in 1 .. req.sz - 1 : /\ i \in 1 .. req.sz /\ i + 1 \in 1 .. req.sz
                                       /\ i < len(0) /\ i <= len(0) /\ i + 1 <= len(0)
                                       /\ i \in 1 .. dim.a - 1
        BY <1>0, <1>1, <1>2
      <3>2. \A i \in 1 .. req.sz - 1 : vec[0].v[i] < vec[0].v[i + 1]
        BY <3>1 DEF Coherence, RowsAscend
      <3> QED BY <2>2, <3>1, <3>2
    <2>6. Ascending(vec'[0].v) BY <2>2, <2>5 DEF Ascending, newLen
    <2>7. RowsAscend'
      <3>1. \A i \in 1 .. dim.a - 1 : i < req.sz => i \in 1 .. req.sz - 1 BY <1>0, <1>1
      <3> QED BY <1>0, <1>1, <2>2, <2>5, <3>1 DEF RowsAscend
    <2>8. FlagTrue' /\ FlagKnown' BY <1>2, <2>1, <2>2, <2>6 DEF FlagTrue, FlagKnown
    <2>9. RowsAgree'
      <3>1. Preserves BY <1>0, <1>1, <1>3, WritePreserves
      <3>2. \A c \in Data : \A i \in 1 .. newLen(c) :
                i <= newLen(0) => (i <= len(c) /\ i <= len(0)) \/ vec'[c].v[i] = vec'[0].v[i]
        BY <1>0, <1>1, <1>2, <2>2
      <3> QED BY <3>1, <3>2, RowsStillAgree DEF Coherence
    <2>10. NewRows' /\ CutSize'
      BY <1>1, <2>1 DEF NewRows, CutSize, AppendPc, VectorPc, CutPc
    <2> QED BY <2>3, <2>4, <2>7, <2>8, <2>9, <2>10 DEF Coherence
  <1>4. CASE Return /\ Kept
    <2>1. pc' = "idle" BY <1>4 DEF Return
    <2>2. \A d \in Cols : newLen(d) = len(d) BY <1>4, KeptShape
    <2>3. RowsAgree' /\ FlagTrue' /\ RowsAscend' /\ vec'[0].ordered
      BY <1>0, <1>1, <1>2, <1>4, SameElementsAgree DEF Kept
    <2>4. IndexLength' /\ IndexDim' BY <1>0, <1>1, <1>2, <2>1, <2>2 DEF IndexLength, IndexDim
    <2>5. DataLengths' BY <1>0, <1>1, <1>2, <2>1, <2>2 DEF DataLengths, DataLength
    <2>6. FlagKnown' /\ NewRows' /\ CutSize'
      BY <2>1, <2>3 DEF FlagKnown, NewRows, CutSize, AppendPc, VectorPc, CutPc
    <2> QED BY <2>3, <2>4, <2>5, <2>6 DEF Coherence
  <1> QED BY <1>3, <1>4, CutIndexEffect DEF Throws

LEMMA CutColumnCoherent ==
    ASSUME StoreInv, StoreInv', Coherence, CutColumn, ~hurt'
    PROVE  Coherence'
  <1>0. /\ dim.a \in Nat /\ dim.idx \in Nat /\ at \in Nat /\ k \in Nat
        /\ \A c \in Cols : len(c) \in Nat /\ newLen(c) \in Nat /\ len(c)' = newLen(c)
        /\ 0 \in Cols /\ \A c \in Data : c \in Cols /\ c # 0 /\ c \in Nat
    BY Sizes
  <1>1. /\ pc = "cut" /\ dim' = dim /\ at \in Data /\ LengthSet(at, req.sz)
        /\ IF at = NC THEN Goto("cutdim", 0) ELSE Goto("cut", at + 1)
        /\ req.sz \in Nat /\ req.sz < dim.a
    BY CutColumnEffect, Sizes DEF Coherence, CutSize, CutPc
  <1>2. /\ len(0) = req.sz /\ dim.idx = len(0) /\ vec[0].ordered
        /\ \A c \in Data : len(c) = IF c < at THEN req.sz ELSE dim.a
    BY <1>0, <1>1 DEF Coherence, IndexLength, IndexDim, DataLengths, DataLength, FlagKnown
  <1>3. /\ pc' \in {"cutdim", "cut"} /\ req' = req
        /\ pc' = "cutdim" => at = NC
        /\ pc' = "cut" => at' = at + 1
    BY <1>1 DEF Goto
  <1>4. /\ newLen(at) = req.sz
        /\ \A d \in Cols : d # at => vec'[d] = vec[d] /\ newLen(d) = len(d)
    BY <1>0, <1>1, LengthSetShape, Zenon
  <1>5. newLen(0) = len(0) /\ FlagTrue' /\ RowsAscend' /\ vec'[0].ordered
    BY <1>0, <1>1, <1>2, <1>3, <1>4, DataWriteKeepsIndex
  <1>6. IndexLength' /\ IndexDim' BY <1>0, <1>1, <1>2, <1>3, <1>5 DEF IndexLength, IndexDim
  <1>7. DataLengths'
    <2>1. ASSUME NEW c \in Data PROVE DataLength(c)'
      <3>1. c \in 1 .. NC /\ c \in Cols BY <1>0 DEF Data
      <3>2. c = at => newLen(c) = req.sz BY <1>4
      <3>3. c # at => newLen(c) = IF c < at THEN req.sz ELSE dim.a
        BY <1>2, <1>4, <3>1
      <3>4. CASE pc' = "cutdim"
        <4>1. c = at \/ c < at BY <1>0, <1>3, <3>1, <3>4, StoreAssumption
        <4>2. newLen(c) = req.sz BY <3>2, <3>3, <4>1
        <4> QED BY <1>0, <1>1, <1>3, <3>1, <3>4, <4>2 DEF DataLength
      <3>5. CASE pc' = "cut"
        <4>1. newLen(c) = IF c < at + 1 THEN req.sz ELSE dim.a
          BY <1>0, <3>2, <3>3
        <4> QED BY <1>0, <1>1, <1>3, <3>1, <3>5, <4>1 DEF DataLength
      <3> QED BY <1>3, <3>4, <3>5
    <2> QED BY <2>1 DEF DataLengths
  <1>8. FlagKnown' /\ NewRows' /\ CutSize'
    BY <1>1, <1>3, <1>5 DEF FlagKnown, NewRows, CutSize, CutPc, AppendPc, VectorPc
  <1>9. RowsAgree'
    <2>1. Preserves BY <1>0, <1>1, WritePreserves
    <2>2. \A c \in Data : newLen(c) <= len(c)
      <3>1. \A c \in Data : c = at => len(c) >= req.sz BY <1>0, <1>1, <1>2
      <3> QED BY <1>0, <1>4, <3>1
    <2>3. \A c \in Data : \A i \in 1 .. newLen(c) :
              i <= newLen(0) => (i <= len(c) /\ i <= len(0)) \/ vec'[c].v[i] = vec'[0].v[i]
      BY <1>0, <1>5, <2>2
    <2> QED BY <2>1, <2>3, RowsStillAgree DEF Coherence
  <1> QED BY <1>5, <1>6, <1>7, <1>8, <1>9 DEF Coherence

\* The last element of the last column.
LEMMA LastElement ==
    ASSUME NEW a \in Nat, NEW b \in Nat \ {0}, NEW n \in Nat \ {0}, a = n * b - 1
    PROVE  a \div b = n - 1 /\ a % b = b - 1
  <1> DEFINE q == a \div b
             r == a % b
  <1>1. q \in Nat /\ r \in 0 .. b - 1 /\ a = b * q + r BY DivMod
  <1> HIDE DEF q, r
  <1>2. b * (n - q) = r + 1 BY <1>1, SMT
  <1>3. n - q = 1
    <2> DEFINE m == n - q
    <2>1. m \in Int /\ b * m = r + 1 /\ r + 1 \in 1 .. b BY <1>1, <1>2
    <2> HIDE DEF m
    <2>2. m <= 0 => b * m <= 0 BY <2>1, SMT
    <2>3. m >= 2 => b * m >= 2 * b BY <2>1, SMT
    <2>4. m = 1 BY <2>1, <2>2, <2>3
    <2> QED BY <2>4 DEF m
  <1>4. q = n - 1 /\ r = b - 1 BY <1>1, <1>2, <1>3
  <1> QED BY <1>4 DEF q, r

LEMMA PushIndexCoherent ==
    ASSUME StoreInv, StoreInv', Coherence, PushIndex, ~hurt'
    PROVE  Coherence'
  <1>0. /\ dim.a \in Nat /\ dim.idx \in Nat /\ at \in Nat /\ k \in Nat
        /\ \A c \in Cols : len(c) \in Nat /\ newLen(c) \in Nat /\ len(c)' = newLen(c)
        /\ 0 \in Cols /\ \A c \in Data : c \in Cols /\ c # 0 /\ c \in Nat
    BY Sizes
  <1>1. /\ pc = "idxpush" /\ dim' = dim /\ at \in 1 .. k /\ req.times[at] \in 1 .. MaxRows
        /\ req.times[at] \in 0 .. MaxRows
    BY PushIndexEffect, ReqFields, StoreAssumption DEF StoreInv
  <1>2. /\ len(0) = dim.a + at - 1 /\ dim.idx = len(0) /\ (\A c \in Data : len(c) = dim.a)
        /\ vec[0].ordered /\ Ascending(vec[0].v)
        /\ \A i \in 1 .. k : dim.a + i <= len(0) => vec[0].v[dim.a + i] = req.times[i]
    BY <1>0, <1>1 DEF Coherence, IndexLength, IndexDim, DataLengths, DataLength, FlagTrue,
       FlagKnown, NewRows, VectorPc
  <1>3. /\ LastTimes # {}
        /\ \A l \in LastTimes : len(0) = 0 \/ l = vec[0].v[len(0)]
    <2>1. vec[0].v \in Seq(0 .. MaxRows) /\ len(0) = Len(vec[0].v) /\ dim.idx = len(0)
      BY <1>0, <1>2, NumbersNow DEF Numbers, len
    <2>2. DOMAIN vec[0].v = 1 .. len(0) BY <2>1, LenProperties
    <2>3. CASE len(0) = 0
      <3>1. dim.idx = 0 /\ ~(dim.idx > 0) /\ dim.idx \notin DOMAIN vec[0].v
        BY <1>0, <2>1, <2>2, <2>3
      <3>2. LastTimes = {0} BY <3>1 DEF LastTimes
      <3> QED BY <2>3, <3>2
    <2>4. CASE len(0) # 0
      <3>1. dim.idx # 0 /\ dim.idx \in DOMAIN vec[0].v BY <1>0, <2>1, <2>2, <2>4
      <3>2. vec[0].v # <<>> BY <2>1, <2>2, <3>1
      <3>3. LastTimes = {vec[0].v[dim.idx]} BY <3>1, <3>2 DEF LastTimes
      <3> QED BY <2>1, <3>3
    <2> QED BY <2>3, <2>4
  <1>4. CASE Goto("undo", 0) /\ vec' = vec
    <2>1. pc' = "undo" BY <1>4 DEF Goto
    <2>2. SameElements /\ \A d \in Cols : newLen(d) = len(d) /\ vec'[0] = vec[0]
      BY <1>4 DEF SameElements, newLen, len
    <2>3. RowsAgree' /\ FlagTrue' /\ RowsAscend' /\ vec'[0].ordered
      BY <1>0, <1>1, <1>2, <2>2, SameElementsAgree
    <2>4. IndexLength' /\ IndexDim' BY <1>0, <1>1, <1>2, <2>1, <2>2 DEF IndexLength, IndexDim
    <2>5. DataLengths' BY <1>0, <1>1, <1>2, <2>1, <2>2 DEF DataLengths, DataLength
    <2>6. FlagKnown' /\ NewRows' /\ CutSize'
      BY <2>1, <2>3 DEF FlagKnown, NewRows, CutSize, AppendPc, VectorPc, CutPc
    <2> QED BY <2>3, <2>4, <2>5, <2>6 DEF Coherence
  <1>5. CASE /\ Goto("idxpushdim", at) /\ ElementAdded(0, req.times[at])
             /\ \E l \in LastTimes : ~(req.times[at] <= l)
    <2>1. pc' = "idxpushdim" /\ at' = at /\ req' = req /\ k' = k BY <1>5 DEF Goto, k
    <2>2. /\ newLen(0) = len(0) + 1
          /\ \A i \in 1 .. len(0) : vec'[0].v[i] = vec[0].v[i]
          /\ vec'[0].v[len(0) + 1] = req.times[at]
          /\ \A d \in Cols : d # 0 => vec'[d] = vec[d] /\ newLen(d) = len(d)
      BY <1>0, <1>1, <1>5, ElementAddedShape, Zenon
    <2>3. len(0) > 0 => vec[0].v[len(0)] < req.times[at]
      <3>1. PICK l \in LastTimes : ~(req.times[at] <= l) BY <1>5
      <3>2. len(0) > 0 => l = vec[0].v[len(0)] BY <1>3
      <3>3. len(0) > 0 => vec[0].v[len(0)] \in 0 .. MaxRows
        <4>1. vec[0].v \in Seq(0 .. MaxRows) /\ len(0) = Len(vec[0].v)
          BY <1>0, NumbersNow DEF Numbers, len
        <4>2. len(0) > 0 => len(0) \in 1 .. Len(vec[0].v) BY <1>0, <4>1
        <4> QED BY <4>1, <4>2, ElementOfSeq
      <3> QED BY <1>1, <3>1, <3>2, <3>3, StoreAssumption
    <2>4. Ascending(vec'[0].v) /\ vec'[0].ordered
      <3>1. vec[0].v \in Seq(Nat)
        BY <1>0, NumbersNow, SeqMonotonic, StoreAssumption DEF Numbers
      <3>2. req.times[at] \in Nat BY <1>1
      <3>3. Ascending(Append(vec[0].v, req.times[at]))
        BY <1>2, <2>3, <3>1, <3>2, AscendingAppend DEF len
      <3> QED BY <1>2, <1>5, <2>3, <3>3 DEF ElementAdded, len
    <2>5. IndexLength' /\ IndexDim' BY <1>0, <1>1, <1>2, <2>1, <2>2 DEF IndexLength, IndexDim
    <2>6. DataLengths' BY <1>0, <1>1, <1>2, <2>1, <2>2 DEF DataLengths, DataLength
    <2>7. FlagTrue' /\ FlagKnown' BY <2>4 DEF FlagTrue, FlagKnown
    <2>8. RowsAscend'
      <3>1. \A i \in 1 .. dim.a - 1 : i < newLen(0) => i \in 1 .. newLen(0) - 1 BY <1>0
      <3>2. \A i \in 1 .. newLen(0) - 1 : vec'[0].v[i] < vec'[0].v[i + 1]
        BY <2>4 DEF Ascending, newLen
      <3> QED BY <1>0, <1>1, <3>1, <3>2 DEF RowsAscend
    <2>9. RowsAgree'
      <3>1. Preserves BY <1>0, <1>1, <1>5, WritePreserves
      <3>2. \A c \in Data : \A i \in 1 .. newLen(c) :
                i <= newLen(0) => (i <= len(c) /\ i <= len(0)) \/ vec'[c].v[i] = vec'[0].v[i]
        BY <1>0, <1>1, <1>2, <2>2
      <3> QED BY <3>1, <3>2, RowsStillAgree DEF Coherence
    <2>10. NewRows'
      <3>1. ASSUME NEW i \in 1 .. k, dim.a + i <= newLen(0)
            PROVE  vec'[0].v[dim.a + i] = req.times[i]
        <4>1. CASE i = at
          <5>1. dim.a + i = len(0) + 1 BY <1>0, <1>2, <4>1
          <5> QED BY <2>2, <4>1, <5>1
        <4>2. CASE i # at
          <5>1. dim.a + i <= len(0) /\ dim.a + i \in 1 .. len(0)
            BY <1>0, <1>1, <1>2, <2>2, <3>1, <4>2
          <5> QED BY <1>2, <2>2, <5>1
        <4> QED BY <4>1, <4>2
      <3> QED BY <1>0, <1>1, <2>1, <3>1 DEF NewRows
    <2>11. CutSize' BY <2>1 DEF CutSize, CutPc
    <2> QED BY <2>5, <2>6, <2>7, <2>8, <2>9, <2>10, <2>11 DEF Coherence
  <1> QED BY <1>3, <1>4, <1>5, PushIndexEffect

LEMMA PushDataCoherent ==
    ASSUME StoreInv, StoreInv', Coherence, PushData, ~hurt'
    PROVE  Coherence'
  <1>0. /\ dim.a \in Nat /\ dim.idx \in Nat /\ at \in Nat /\ k \in Nat
        /\ \A c \in Cols : len(c) \in Nat /\ newLen(c) \in Nat /\ len(c)' = newLen(c)
        /\ 0 \in Cols /\ \A c \in Data : c \in Cols /\ c # 0 /\ c \in Nat
    BY Sizes
  <1> DEFINE q == at \div k
             r == at % k
             a == q + 1
  <1>1. /\ pc = "push" /\ dim' = dim /\ ElementAdded(a, req.times[r + 1])
        /\ IF at = NC * k - 1 THEN Goto("adim", 0) ELSE Goto("push", at + 1)
    BY PushDataEffect
  <1>2. /\ len(0) = dim.a + k /\ dim.idx = len(0) /\ vec[0].ordered
        /\ \A c \in Data : len(c) = dim.a + (IF c <= q THEN k ELSE IF c = q + 1 THEN r ELSE 0)
        /\ \A i \in 1 .. k : vec[0].v[dim.a + i] = req.times[i]
    BY <1>0, <1>1 DEF Coherence, IndexLength, IndexDim, DataLengths, DataLength, FlagKnown,
       NewRows, VectorPc
  <1>3. /\ k \in Nat \ {0} /\ q \in 0 .. NC - 1 /\ r \in 0 .. k - 1
        /\ a \in Data /\ r + 1 \in 1 .. k
    BY <1>1, PushElement DEF StoreInv
  <1>4. /\ r = k - 1 => (at + 1) \div k = q + 1 /\ (at + 1) % k = 0
        /\ r < k - 1 => (at + 1) \div k = q /\ (at + 1) % k = r + 1
        /\ at = NC * k - 1 => q = NC - 1 /\ r = k - 1
    BY <1>0, <1>3, DivModSucc, LastElement, StoreAssumption, Zenon
  <1>5. req.times[r + 1] \in 0 .. MaxRows
    <2>1. req.times[r + 1] \in 1 .. MaxRows BY <1>3, ReqFields DEF StoreInv
    <2> QED BY <2>1, StoreAssumption
  <1>6. /\ pc' \in {"adim", "push"} /\ req' = req /\ k' = k
        /\ pc' = "adim" => at = NC * k - 1
        /\ pc' = "push" => at' = at + 1
    BY <1>1 DEF Goto, k
  <1>7. /\ newLen(a) = len(a) + 1
        /\ \A i \in 1 .. len(a) : vec'[a].v[i] = vec[a].v[i]
        /\ vec'[a].v[len(a) + 1] = req.times[r + 1]
        /\ \A d \in Cols : d # a => vec'[d] = vec[d] /\ newLen(d) = len(d)
    <2>1. a \in Cols BY <1>0, <1>3
    <2> HIDE DEF a, r
    <2> QED BY <1>1, <1>5, <2>1, ElementAddedShape, Zenon
  <1> HIDE DEF q, r, a
  <1>8. a = q + 1 /\ len(a) = dim.a + r
    <2>1. a = q + 1 BY DEF a
    <2> QED BY <1>2, <1>3, <2>1
  <1>9. newLen(0) = len(0) /\ FlagTrue' /\ RowsAscend' /\ NewRows' /\ vec'[0].ordered
    BY <1>0, <1>1, <1>2, <1>3, <1>6, <1>7, DataWriteKeepsIndex DEF VectorPc
  <1>10. IndexLength' /\ IndexDim' BY <1>0, <1>1, <1>2, <1>6, <1>9 DEF IndexLength, IndexDim
  <1>11. DataLengths'
    <2>1. ASSUME NEW c \in Data PROVE DataLength(c)'
      <3>1. c \in 1 .. NC /\ c \in Cols BY <1>0 DEF Data
      <3>2. c = a => newLen(c) = dim.a + (r + 1) BY <1>0, <1>3, <1>7, <1>8
      <3>3. c # a => newLen(c) = dim.a + (IF c <= q THEN k ELSE 0)
        BY <1>2, <1>7, <1>8, <3>1
      <3>4. CASE pc' = "adim"
        <4>1. q = NC - 1 /\ r = k - 1 BY <1>4, <1>6, <3>4
        <4>2. newLen(c) = dim.a + k
          BY <1>0, <1>3, <1>8, <3>1, <3>2, <3>3, <4>1, StoreAssumption
        <4> QED BY <1>0, <1>1, <1>6, <3>1, <3>4, <4>2 DEF DataLength
      <3>5. CASE pc' = "push"
        <4> DEFINE q2 == (at + 1) \div k
                   r2 == (at + 1) % k
        <4>1. q2 = (at' \div k') /\ r2 = (at' % k') BY <1>6, <3>5
        <4>2. /\ r = k - 1 => q2 = q + 1 /\ r2 = 0
              /\ r < k - 1 => q2 = q /\ r2 = r + 1
          BY <1>4
        <4> HIDE DEF q2, r2
        <4>3. newLen(c) = dim.a + (IF c <= q2 THEN k ELSE IF c = q2 + 1 THEN r2 ELSE 0)
          <5>1. CASE r = k - 1 BY <1>0, <1>3, <1>8, <3>1, <3>2, <3>3, <4>2, <5>1
          <5>2. CASE r < k - 1 BY <1>0, <1>3, <1>8, <3>1, <3>2, <3>3, <4>2, <5>2
          <5> QED BY <1>0, <1>3, <5>1, <5>2
        <4> QED BY <1>0, <1>1, <1>6, <3>1, <3>5, <4>1, <4>3 DEF DataLength
      <3> QED BY <1>6, <3>4, <3>5
    <2> QED BY <2>1 DEF DataLengths
  <1>12. FlagKnown' /\ CutSize' BY <1>6, <1>9 DEF FlagKnown, CutSize, CutPc
  <1>13. RowsAgree'
    <2>1. Preserves
      <3>1. \E c \in Cols, e \in 0 .. MaxRows : ElementAdded(c, e) BY <1>0, <1>1, <1>3, <1>5
      <3> QED BY <3>1, WritePreserves
    <2>2. ASSUME NEW c \in Data, NEW i \in 1 .. newLen(c), i <= newLen(0)
          PROVE  (i <= len(c) /\ i <= len(0)) \/ vec'[c].v[i] = vec'[0].v[i]
      <3>1. CASE c # a BY <1>0, <1>7, <1>9, <2>2, <3>1
      <3>2. CASE c = a /\ i <= len(a) BY <1>9, <2>2, <3>2
      <3>3. CASE c = a /\ i > len(a)
        <4>1. i = dim.a + (r + 1) /\ i = len(a) + 1
          <5>1. newLen(c) = len(a) + 1 /\ i \in 1 .. newLen(c) BY <1>7, <3>3
          <5>2. len(a) \in Nat BY <1>0, <1>3
          <5> QED BY <1>0, <1>3, <1>8, <3>3, <5>1, <5>2
        <4>2. vec[0].v[dim.a + (r + 1)] = req.times[r + 1] BY <1>2, <1>3
        <4>3. vec'[0] = vec[0] BY <1>0, <1>3, <1>7
        <4> QED BY <1>7, <3>3, <4>1, <4>2, <4>3
      <3>4. len(a) \in Nat BY <1>0, <1>3
      <3>5. i <= len(a) \/ i > len(a) BY <1>0, <2>2, <3>4
      <3> QED BY <3>1, <3>2, <3>3, <3>5
    <2> QED BY <2>1, <2>2, RowsStillAgree DEF Coherence
  <1> QED BY <1>9, <1>10, <1>11, <1>12, <1>13 DEF Coherence

(***************************************************************************)
(* The steps that write no element.                                        *)
(***************************************************************************)
LEMMA SameVectors ==
    ASSUME StoreInv, StoreInv', Coherence, UNCHANGED vec
    PROVE  /\ \A d \in Cols : newLen(d) = len(d)
           /\ RowsAgree' /\ FlagTrue' /\ vec'[0].ordered = vec[0].ordered
           /\ dim'.a = dim.a => RowsAscend'
           /\ UNCHANGED <<dim, req>> /\ pc \in AppendPc \cup VectorPc => NewRows'
  <1>1. SameElements BY DEF SameElements
  <1>2. \A d \in Cols : newLen(d) = len(d) BY DEF newLen, len
  <1> QED BY <1>1, <1>2, SameElementsAgree

\* In these steps at most the length of the index changes.
LEMMA CallCoherent ==
    ASSUME StoreInv, StoreInv', Coherence,
           \/ \E c \in Chunks, w \in BOOLEAN : Begin("append", c, w) \/ Begin("vector", c, w)
           \/ \E n \in 0 .. MaxRows : BeginResize(n)
    PROVE  Coherence'
  <1>0. /\ dim.a \in Nat /\ dim.idx \in Nat /\ at \in Nat /\ k \in Nat
        /\ \A c \in Cols : len(c) \in Nat /\ newLen(c) \in Nat /\ len(c)' = newLen(c)
        /\ 0 \in Cols /\ \A c \in Data : c \in Cols /\ c # 0 /\ c \in Nat
    BY Sizes
  <1>1. pc = "idle" /\ UNCHANGED <<vec, dim>> BY DEF Begin, BeginResize
  <1>2. /\ len(0) = dim.a /\ dim.idx = len(0) /\ (\A c \in Data : len(c) = dim.a)
        /\ vec[0].ordered
    BY <1>0, <1>1 DEF Coherence, IndexLength, IndexDim, DataLengths, DataLength, FlagKnown
  <1>3. /\ \A d \in Cols : newLen(d) = len(d)
        /\ RowsAgree' /\ FlagTrue' /\ RowsAscend' /\ vec'[0].ordered
    BY <1>1, <1>2, SameVectors
  <1>4. /\ pc' \in {"idxcol", "idxpush", "cutidx"}
        /\ pc' = "idxpush" => at' = 1
        /\ pc' = "cutidx" => req'.sz < dim.a
    BY DEF Begin, BeginResize, NoReq
  <1>5. IndexLength' /\ IndexDim' BY <1>0, <1>1, <1>2, <1>3, <1>4 DEF IndexLength, IndexDim
  <1>6. DataLengths' BY <1>0, <1>1, <1>2, <1>3, <1>4 DEF DataLengths, DataLength
  <1>7. FlagKnown' /\ CutSize' BY <1>1, <1>3, <1>4 DEF FlagKnown, CutSize, CutPc
  <1>8. NewRows'
    <2>1. \A i \in 1 .. k' : ~(dim'.a + i <= newLen(0)) BY <1>0, <1>1, <1>2, <1>3
    <2> QED BY <1>0, <2>1 DEF NewRows
  <1> QED BY <1>3, <1>5, <1>6, <1>7, <1>8 DEF Coherence

LEMMA AppendIndexDimCoherent ==
    ASSUME StoreInv, StoreInv', Coherence, AppendIndexDim
    PROVE  Coherence'
  <1>0. /\ dim.a \in Nat /\ dim.idx \in Nat /\ at \in Nat /\ k \in Nat
        /\ \A c \in Cols : len(c) \in Nat /\ newLen(c) \in Nat /\ len(c)' = newLen(c)
        /\ 0 \in Cols /\ \A c \in Data : c \in Cols /\ c # 0 /\ c \in Nat
    BY Sizes
  <1>1. /\ pc = "idxdim" /\ vec' = vec /\ dim'.idx = dim.idx + k /\ dim'.a = dim.a
        /\ pc' = "order" /\ req' = req /\ k' = k
    BY DEF AppendIndexDim, Goto, k, StoreInv, RestOK
  <1>2. /\ len(0) = dim.a + k /\ dim.idx = dim.a /\ (\A c \in Data : len(c) = dim.a)
    BY <1>0, <1>1 DEF Coherence, IndexLength, IndexDim, DataLengths, DataLength
  <1>3. /\ \A d \in Cols : newLen(d) = len(d)
        /\ RowsAgree' /\ FlagTrue' /\ RowsAscend'
    BY <1>1, SameVectors
  <1>4. IndexLength' /\ IndexDim' BY <1>0, <1>1, <1>2, <1>3 DEF IndexLength, IndexDim
  <1>5. DataLengths' BY <1>0, <1>1, <1>2, <1>3 DEF DataLengths, DataLength
  <1>6. FlagKnown' /\ CutSize' BY <1>1 DEF FlagKnown, CutSize, CutPc
  <1>7. NewRows'
    BY <1>0, <1>1, <1>3 DEF Coherence, NewRows, AppendPc
  <1> QED BY <1>3, <1>4, <1>5, <1>6, <1>7 DEF Coherence

LEMMA CheckOrderCoherent ==
    ASSUME StoreInv, StoreInv', Coherence, CheckOrder
    PROVE  Coherence'
  <1>0. /\ dim.a \in Nat /\ dim.idx \in Nat /\ at \in Nat /\ k \in Nat
        /\ \A c \in Cols : len(c) \in Nat /\ newLen(c) \in Nat /\ len(c)' = newLen(c)
        /\ 0 \in Cols /\ \A c \in Data : c \in Cols /\ c # 0 /\ c \in Nat
    BY Sizes
  <1>1. /\ pc = "order" /\ vec' = vec /\ dim' = dim /\ req' = req /\ k' = k
        /\ \/ pc' = "undo" /\ at' = 1
           \/ pc' = "undo" /\ vec[0].ordered
           \/ pc' = "col" /\ at' = 1 /\ vec[0].ordered
    BY DEF CheckOrder, Goto, k
  <1>2. /\ len(0) = dim.a + k /\ dim.idx = len(0) /\ (\A c \in Data : len(c) = dim.a)
    BY <1>0, <1>1 DEF Coherence, IndexLength, IndexDim, DataLengths, DataLength
  <1>3. /\ \A d \in Cols : newLen(d) = len(d)
        /\ RowsAgree' /\ FlagTrue' /\ RowsAscend' /\ NewRows' /\ vec'[0].ordered = vec[0].ordered
    BY <1>1, SameVectors DEF AppendPc
  <1>4. IndexLength' /\ IndexDim' BY <1>0, <1>1, <1>2, <1>3 DEF IndexLength, IndexDim
  <1>5. DataLengths'
    <2>1. \A c \in Data : ~(c < 1) BY <1>0
    <2> QED BY <1>0, <1>1, <1>2, <1>3, <2>1 DEF DataLengths, DataLength
  <1>6. FlagKnown' /\ CutSize' BY <1>1 DEF FlagKnown, CutSize, CutPc
  <1> QED BY <1>3, <1>4, <1>5, <1>6 DEF Coherence

LEMMA AppendDimCoherent ==
    ASSUME StoreInv, StoreInv', Coherence, AppendDim
    PROVE  Coherence'
  <1>0. /\ dim.a \in Nat /\ dim.idx \in Nat /\ at \in Nat /\ k \in Nat
        /\ \A c \in Cols : len(c) \in Nat /\ newLen(c) \in Nat /\ len(c)' = newLen(c)
        /\ 0 \in Cols /\ \A c \in Data : c \in Cols /\ c # 0 /\ c \in Nat
    BY Sizes
  <1>1. /\ pc = "adim" /\ vec' = vec /\ dim'.a = dim.a + k /\ dim'.idx = dim.idx /\ pc' = "idle"
    BY DEF AppendDim, Return, k, StoreInv, RestOK
  <1>2. /\ len(0) = dim.a + k /\ dim.idx = len(0) /\ (\A c \in Data : len(c) = dim.a + k)
        /\ vec[0].ordered /\ Ascending(vec[0].v)
    BY <1>0, <1>1 DEF Coherence, IndexLength, IndexDim, DataLengths, DataLength, FlagTrue, FlagKnown
  <1>3. /\ \A d \in Cols : newLen(d) = len(d)
        /\ RowsAgree' /\ FlagTrue' /\ vec'[0].ordered
    BY <1>1, <1>2, SameVectors
  <1>4. IndexLength' /\ IndexDim' BY <1>0, <1>1, <1>2, <1>3 DEF IndexLength, IndexDim
  <1>5. DataLengths' BY <1>0, <1>1, <1>2, <1>3 DEF DataLengths, DataLength
  <1>6. FlagKnown' /\ NewRows' /\ CutSize'
    BY <1>1, <1>3 DEF FlagKnown, NewRows, CutSize, CutPc, AppendPc, VectorPc
  <1>7. RowsAscend'
    <2>1. \A i \in 1 .. len(0) - 1 : vec[0].v[i] < vec[0].v[i + 1] BY <1>2 DEF Ascending, len
    <2> QED BY <1>0, <1>1, <1>2, <2>1 DEF RowsAscend
  <1> QED BY <1>3, <1>4, <1>5, <1>6, <1>7 DEF Coherence

LEMMA UndoIndexDimCoherent ==
    ASSUME StoreInv, StoreInv', Coherence, UndoIndexDim
    PROVE  Coherence'
  <1>0. /\ dim.a \in Nat /\ dim.idx \in Nat /\ at \in Nat /\ k \in Nat
        /\ \A c \in Cols : len(c) \in Nat /\ newLen(c) \in Nat /\ len(c)' = newLen(c)
        /\ 0 \in Cols /\ \A c \in Data : c \in Cols /\ c # 0 /\ c \in Nat
    BY Sizes
  <1>1. /\ pc = "undodim" /\ dim'.a = dim.a /\ dim'.idx = dim.a /\ pc' = "idle"
        /\ vec' = IF at = 1 THEN [vec EXCEPT ![0].ordered = TRUE] ELSE vec
    BY DEF UndoIndexDim, Return, StoreInv, RestOK
  <1>2. /\ len(0) = dim.a /\ (\A c \in Data : len(c) = dim.a)
        /\ at = 1 \/ vec[0].ordered
    BY <1>0, <1>1 DEF Coherence, IndexLength, DataLengths, DataLength, FlagKnown
  <1>3. /\ SameElements /\ vec'[0].ordered /\ \A d \in Cols : newLen(d) = len(d)
    <2>1. SameElements /\ vec'[0].ordered
      <3>1. CASE at = 1 BY <1>1, <3>1, FlagForced DEF SameElements, Others, StoreInv
      <3>2. CASE at # 1 BY <1>1, <1>2, <3>2 DEF SameElements
      <3> QED BY <3>1, <3>2
    <2> QED BY <2>1 DEF SameElements, newLen, len
  <1>4. RowsAgree' /\ RowsAscend' /\ Ascending(vec[0].v) => Ascending(vec'[0].v)
    BY <1>1, <1>3, SameElementsAgree
  <1>5. Ascending(vec[0].v)
    BY <1>0, <1>2 DEF Coherence, RowsAscend, Ascending, len
  <1>6. RowsAgree' /\ RowsAscend' /\ FlagTrue' /\ FlagKnown'
    BY <1>1, <1>3, <1>4, <1>5, SameElementsAgree DEF FlagTrue, FlagKnown
  <1>7. IndexLength' /\ IndexDim' BY <1>0, <1>1, <1>2, <1>3 DEF IndexLength, IndexDim
  <1>8. DataLengths' BY <1>0, <1>1, <1>2, <1>3 DEF DataLengths, DataLength
  <1>9. NewRows' /\ CutSize' BY <1>1 DEF NewRows, CutSize, CutPc, AppendPc, VectorPc
  <1> QED BY <1>6, <1>7, <1>8, <1>9 DEF Coherence

LEMMA PushIndexDimCoherent ==
    ASSUME StoreInv, StoreInv', Coherence, PushIndexDim
    PROVE  Coherence'
  <1>0. /\ dim.a \in Nat /\ dim.idx \in Nat /\ at \in Nat /\ k \in Nat
        /\ \A c \in Cols : len(c) \in Nat /\ newLen(c) \in Nat /\ len(c)' = newLen(c)
        /\ 0 \in Cols /\ \A c \in Data : c \in Cols /\ c # 0 /\ c \in Nat
    BY Sizes
  <1>1. /\ pc = "idxpushdim" /\ vec' = vec /\ dim'.idx = dim.idx + 1 /\ dim'.a = dim.a
        /\ req' = req /\ k' = k /\ at \in 1 .. k
        /\ \/ pc' = "idxpush" /\ at' = at + 1
           \/ pc' = "undo"
           \/ pc' = "push" /\ at' = 0 /\ ~(at < k)
    BY DEF PushIndexDim, Goto, k, StoreInv, RestOK, ControlOK
  <1>2. /\ len(0) = dim.a + at /\ dim.idx = len(0) - 1 /\ (\A c \in Data : len(c) = dim.a)
        /\ vec[0].ordered
    BY <1>0, <1>1 DEF Coherence, IndexLength, IndexDim, DataLengths, DataLength, FlagKnown
  <1>3. /\ \A d \in Cols : newLen(d) = len(d)
        /\ RowsAgree' /\ FlagTrue' /\ RowsAscend' /\ vec'[0].ordered
    BY <1>1, <1>2, SameVectors
  <1>4. IndexLength' /\ IndexDim' BY <1>0, <1>1, <1>2, <1>3 DEF IndexLength, IndexDim
  <1>5. DataLengths'
    <2>1. CASE pc' # "push" BY <1>0, <1>1, <1>2, <1>3, <2>1 DEF DataLengths, DataLength
    <2>2. CASE pc' = "push"
      <3>1. at' \div k' = 0 /\ at' % k' = 0
        <4>1. \A n \in Nat \ {0} : 0 \div n = 0 /\ 0 % n = 0 OBVIOUS
        <4>2. at' = 0 /\ k' \in Nat \ {0} BY <1>0, <1>1, <2>2
        <4> QED BY <4>1, <4>2
      <3>2. \A c \in Data : ~(c <= 0) BY <1>0, StoreAssumption DEF Data
      <3> QED BY <1>0, <1>1, <1>2, <1>3, <2>2, <3>1, <3>2 DEF DataLengths, DataLength
    <2> QED BY <2>1, <2>2
  <1>6. FlagKnown' /\ CutSize' BY <1>1, <1>3 DEF FlagKnown, CutSize, CutPc
  <1>7. NewRows'
    BY <1>0, <1>1, <1>3 DEF Coherence, NewRows, VectorPc
  <1> QED BY <1>3, <1>4, <1>5, <1>6, <1>7 DEF Coherence

LEMMA CutIndexDimCoherent ==
    ASSUME StoreInv, StoreInv', Coherence, CutIndexDim
    PROVE  Coherence'
  <1>0. /\ dim.a \in Nat /\ dim.idx \in Nat /\ at \in Nat /\ k \in Nat
        /\ \A c \in Cols : len(c) \in Nat /\ newLen(c) \in Nat /\ len(c)' = newLen(c)
        /\ 0 \in Cols /\ \A c \in Data : c \in Cols /\ c # 0 /\ c \in Nat
    BY Sizes
  <1>1. /\ pc = "cutidxdim" /\ vec' = vec /\ dim'.idx = req.sz /\ dim'.a = dim.a
        /\ req' = req /\ pc' = "cut" /\ at' = 1
    BY DEF CutIndexDim, Goto, StoreInv, RestOK
  <1>2. /\ len(0) = req.sz /\ (\A c \in Data : len(c) = dim.a)
        /\ vec[0].ordered /\ req.sz < dim.a
    BY <1>0, <1>1 DEF Coherence, IndexLength, DataLengths, DataLength, FlagKnown, CutSize, CutPc
  <1>3. /\ \A d \in Cols : newLen(d) = len(d)
        /\ RowsAgree' /\ FlagTrue' /\ RowsAscend' /\ vec'[0].ordered
    BY <1>1, <1>2, SameVectors
  <1>4. IndexLength' /\ IndexDim' BY <1>0, <1>1, <1>2, <1>3 DEF IndexLength, IndexDim
  <1>5. DataLengths'
    <2>1. \A c \in Data : ~(c < 1) BY <1>0, StoreAssumption DEF Data
    <2> QED BY <1>0, <1>1, <1>2, <1>3, <2>1 DEF DataLengths, DataLength
  <1>6. FlagKnown' /\ NewRows' /\ CutSize'
    BY <1>1, <1>2, <1>3 DEF FlagKnown, NewRows, CutSize, CutPc, AppendPc, VectorPc
  <1> QED BY <1>3, <1>4, <1>5, <1>6 DEF Coherence

LEMMA CutDimCoherent ==
    ASSUME StoreInv, StoreInv', Coherence, CutDim
    PROVE  Coherence'
  <1>0. /\ dim.a \in Nat /\ dim.idx \in Nat /\ at \in Nat /\ k \in Nat
        /\ \A c \in Cols : len(c) \in Nat /\ newLen(c) \in Nat /\ len(c)' = newLen(c)
        /\ 0 \in Cols /\ \A c \in Data : c \in Cols /\ c # 0 /\ c \in Nat
    BY Sizes
  <1>1. /\ pc = "cutdim" /\ vec' = vec /\ dim'.a = req.sz /\ dim'.idx = dim.idx
        /\ pc' = "idle" /\ req.sz \in Nat
    BY Sizes DEF CutDim, Return, StoreInv, RestOK
  <1>2. /\ len(0) = req.sz /\ dim.idx = len(0) /\ (\A c \in Data : len(c) = req.sz)
        /\ vec[0].ordered /\ req.sz < dim.a
    BY <1>0, <1>1 DEF Coherence, IndexLength, IndexDim, DataLengths, DataLength, FlagKnown,
       CutSize, CutPc
  <1>3. /\ \A d \in Cols : newLen(d) = len(d)
        /\ RowsAgree' /\ FlagTrue' /\ vec'[0].ordered
    BY <1>1, <1>2, SameVectors
  <1>4. IndexLength' /\ IndexDim' BY <1>0, <1>1, <1>2, <1>3 DEF IndexLength, IndexDim
  <1>5. DataLengths' BY <1>0, <1>1, <1>2, <1>3 DEF DataLengths, DataLength
  <1>6. FlagKnown' /\ NewRows' /\ CutSize'
    BY <1>1, <1>3 DEF FlagKnown, NewRows, CutSize, CutPc, AppendPc, VectorPc
  <1>7. RowsAscend'
    <2>1. \A i \in 1 .. req.sz - 1 : i \in 1 .. dim.a - 1 /\ i < len(0) BY <1>0, <1>1, <1>2
    <2> QED BY <1>0, <1>1, <1>2, <2>1 DEF Coherence, RowsAscend
  <1> QED BY <1>3, <1>4, <1>5, <1>6, <1>7 DEF Coherence

LEMMA CrashLoadCoherent ==
    ASSUME StoreInv, StoreInv', Coherence, Crash \/ Load, ~hurt'
    PROVE  Coherence'
  <1>0. /\ dim.a \in Nat /\ dim.idx \in Nat /\ at \in Nat /\ k \in Nat
        /\ \A c \in Cols : len(c) \in Nat /\ newLen(c) \in Nat /\ len(c)' = newLen(c)
        /\ 0 \in Cols /\ \A c \in Data : c \in Cols /\ c # 0 /\ c \in Nat
    BY Sizes
  <1>1. pc \in {"idle", "down"} /\ pc' \in {"idle", "down"} /\ dim' = dim
    BY DEF Crash, Load
  <1>2. /\ len(0) = dim.a /\ dim.idx = len(0) /\ (\A c \in Data : len(c) = dim.a)
        /\ vec[0].ordered
    BY <1>0, <1>1 DEF Coherence, IndexLength, IndexDim, DataLengths, DataLength, FlagKnown
  <1>3. SameElements /\ vec'[0].ordered = vec[0].ordered
    <2>1. CASE Crash BY <2>1 DEF Crash, SameElements
    <2>2. CASE Load
      <3>1. \A c \in Cols : vec[c] \in Vectors /\ vec'[c] = Loaded(vec[c])
        BY <2>2 DEF Load, StoreInv, VecOK
      <3> QED BY <1>0, <3>1, LoadedProperties DEF SameElements
    <2> QED BY <2>1, <2>2
  <1>4. /\ \A d \in Cols : newLen(d) = len(d)
        /\ RowsAgree' /\ FlagTrue' /\ RowsAscend' /\ vec'[0].ordered
    BY <1>0, <1>1, <1>2, <1>3, SameElementsAgree
  <1>5. IndexLength' /\ IndexDim' BY <1>0, <1>1, <1>2, <1>4 DEF IndexLength, IndexDim
  <1>6. DataLengths' BY <1>0, <1>1, <1>2, <1>4 DEF DataLengths, DataLength
  <1>7. FlagKnown' /\ NewRows' /\ CutSize'
    BY <1>1, <1>4 DEF FlagKnown, NewRows, CutSize, CutPc, AppendPc, VectorPc
  <1> QED BY <1>4, <1>5, <1>6, <1>7 DEF Coherence

LEMMA CoherenceInit == Init => CoherenceInv
  <1> SUFFICES ASSUME Init PROVE Coherence BY DEF CoherenceInv
  <1>1. \A c \in Cols : vec[c].v = <<>> /\ vec[c].ordered /\ len(c) = 0
    BY DEF Init, NewVector, len
  <1>2. 0 \in Cols /\ \A c \in Data : c \in Cols BY InCols
  <1>3. pc = "idle" /\ dim.a = 0 /\ dim.idx = 0 BY DEF Init
  <1>4. IndexLength /\ IndexDim /\ DataLengths
    BY <1>1, <1>2, <1>3 DEF IndexLength, IndexDim, DataLengths, DataLength
  <1>5. FlagTrue /\ FlagKnown /\ RowsAscend /\ RowsAgree
    BY <1>1, <1>2, <1>3 DEF FlagTrue, FlagKnown, RowsAscend, RowsAgree, Ascending
  <1>6. NewRows /\ CutSize
    BY <1>3 DEF NewRows, CutSize, CutPc, AppendPc, VectorPc
  <1> QED BY <1>4, <1>5, <1>6 DEF Coherence

\* Once hurt, for ever hurt.
LEMMA HurtStays == StoreInv /\ Next /\ hurt => hurt'
  <1> SUFFICES ASSUME StoreInv, Next, hurt PROVE hurt' OBVIOUS
  <1>1. CASE \/ AppendIndexColumn \/ IndexColumnBack \/ AppendColumn \/ ColumnBack
             \/ UndoIndex \/ PushIndex \/ PushData \/ CutIndex \/ CutColumn
    BY <1>1, AppendIndexColumnEffect, IndexColumnBackEffect, AppendColumnEffect,
       ColumnBackEffect, UndoIndexEffect, PushIndexEffect, PushDataEffect, CutIndexEffect,
       CutColumnEffect DEF Succeeds
  <1>2. CASE \/ AppendIndexDim \/ CheckOrder \/ AppendDim \/ UndoIndexDim \/ PushIndexDim
             \/ CutIndexDim \/ CutDim \/ Crash \/ Load
    BY <1>2 DEF AppendIndexDim, CheckOrder, AppendDim, UndoIndexDim, PushIndexDim,
       CutIndexDim, CutDim, Crash, Load
  <1>3. CASE \/ \E c \in Chunks, w \in BOOLEAN : Begin("append", c, w) \/ Begin("vector", c, w)
             \/ \E n \in 0 .. MaxRows : BeginResize(n)
    BY <1>3 DEF Begin, BeginResize
  <1> QED BY <1>1, <1>2, <1>3 DEF Next

LEMMA CoherenceStep == StoreInv /\ CoherenceInv /\ [Next]_vars => CoherenceInv'
  <1>1. ASSUME StoreInv, CoherenceInv, Next, ~hurt' PROVE Coherence'
    <2>1. ~hurt /\ StoreInv' BY <1>1, HurtStays, StoreStep
    <2>2. Coherence BY <1>1, <2>1 DEF CoherenceInv
    <2>3. CASE \/ AppendIndexColumn \/ IndexColumnBack \/ AppendColumn \/ ColumnBack
               \/ UndoIndex \/ PushIndex \/ PushData \/ CutIndex \/ CutColumn
      BY <1>1, <2>1, <2>2, <2>3, AppendIndexColumnCoherent, IndexColumnBackCoherent,
         AppendColumnCoherent, ColumnBackCoherent, UndoIndexCoherent, PushIndexCoherent,
         PushDataCoherent, CutIndexCoherent, CutColumnCoherent
    <2>4. CASE \/ AppendIndexDim \/ CheckOrder \/ AppendDim \/ UndoIndexDim \/ PushIndexDim
               \/ CutIndexDim \/ CutDim \/ Crash \/ Load
      BY <1>1, <2>1, <2>2, <2>4, AppendIndexDimCoherent, CheckOrderCoherent,
         AppendDimCoherent, UndoIndexDimCoherent, PushIndexDimCoherent, CutIndexDimCoherent,
         CutDimCoherent, CrashLoadCoherent
    <2>5. CASE \/ \E c \in Chunks, w \in BOOLEAN : Begin("append", c, w) \/ Begin("vector", c, w)
               \/ \E n \in 0 .. MaxRows : BeginResize(n)
      BY <1>1, <2>1, <2>2, <2>5, CallCoherent
    <2> QED BY <1>1, <2>3, <2>4, <2>5 DEF Next
  <1>2. StoreInv /\ CoherenceInv /\ Next => CoherenceInv' BY <1>1 DEF CoherenceInv
  <1>3. CoherenceInv /\ UNCHANGED vars => CoherenceInv'
    BY DEF CoherenceInv, Coherence, IndexLength, IndexDim, DataLengths, DataLength, FlagTrue,
       FlagKnown, RowsAscend, RowsAgree, NewRows, CutSize, len, k, vars
  <1> QED BY <1>2, <1>3

LEMMA CoherenceAlways == Spec => [](StoreInv /\ CoherenceInv)
  <1>1. Spec => []StoreInv BY StoreAlways
  <1>2. StoreInv /\ CoherenceInv /\ [Next]_vars => CoherenceInv' BY CoherenceStep
  <1> QED BY <1>1, <1>2, CoherenceInit, PTL DEF Spec

LEMMA CoherenceWhenIdle == StoreInv /\ CoherenceInv => CoherentWhenIdle
  <1> SUFFICES ASSUME StoreInv, Coherence, pc = "idle" PROVE Coherent
    BY DEF CoherenceInv, CoherentWhenIdle
  <1>0. /\ dim.a \in Nat /\ 0 \in Cols /\ \A c \in Data : c \in Cols
    BY NumbersNow, InCols DEF Numbers
  <1>1. /\ len(0) = dim.a /\ dim.idx = len(0) /\ (\A c \in Data : len(c) = dim.a)
        /\ vec[0].ordered /\ Ascending(vec[0].v)
    BY <1>0 DEF Coherence, IndexLength, IndexDim, DataLengths, DataLength, FlagTrue, FlagKnown
  <1>2. \A c \in Cols : c = 0 \/ c \in Data BY StoreAssumption DEF Cols, Data
  <1>3. \A c \in Cols : Len(vec[c].v) = dim.a BY <1>1, <1>2 DEF len
  <1>4. \A i \in 1 .. dim.a, c \in Data : vec[c].v[i] = vec[0].v[i]
    BY <1>0, <1>1 DEF Coherence, RowsAgree
  <1> QED BY <1>1, <1>3, <1>4 DEF Coherent

\* "stay in a coherent state!": whatever an append or a resize meets - times that do
\* not ascend, dimensions that do not fit, reallocations that fail - its end leaves
\* the index and the columns with one length, rows whole, times ascending; excepted
\* are the places where nothing undoes a failure, and a crash in the middle (hurt).
THEOREM StoreCoherent == Spec => []CoherentWhenIdle
  BY CoherenceAlways, CoherenceWhenIdle, PTL

(***************************************************************************)
(* An append is all or nothing: the store implements Series.               *)
(***************************************************************************)
\* How many rows are visible, as long as nothing is hurt.
Extent == IF pc \in {"cutidxdim", "cut", "cutdim"} THEN req.sz ELSE dim.a

ExtentBounds ==
    /\ Visible = Extent /\ Extent \in Nat /\ Extent <= dim.a /\ Extent <= len(0)
    /\ \A c \in Data : Extent <= len(c)

LEMMA ExtentIsVisible == StoreInv /\ Coherence => ExtentBounds
  <1> SUFFICES ASSUME StoreInv, Coherence PROVE ExtentBounds OBVIOUS
  <1>0. /\ dim.a \in Nat /\ dim.idx \in Nat /\ k \in Nat /\ req.sz \in Nat
        /\ \A c \in Cols : len(c) \in Nat
        /\ 0 \in Cols /\ \A c \in Data : c \in Cols
    BY NumbersNow, InCols DEF Numbers
  <1>1. \A c \in Cols : c = 0 \/ c \in Data BY StoreAssumption DEF Cols, Data
  <1>2. VisibleBounds BY VisibleNow DEF StoreInv
  <1>3. \A c \in Cols : Visible <= len(c) BY <1>2 DEF VisibleBounds, len
  <1>4. \/ Visible = dim.idx \/ Visible = dim.a
        \/ \E c \in Cols : Visible = len(c)
    BY <1>2 DEF VisibleBounds, len
  <1>5. CASE pc \in {"cutidxdim", "cut", "cutdim"}
    <2>1. /\ len(0) = req.sz /\ dim.idx >= req.sz /\ req.sz < dim.a
          /\ Extent = req.sz
      BY <1>0, <1>5 DEF Coherence, IndexLength, IndexDim, CutSize, CutPc, Extent
    <2>2. \A c \in Data : len(c) >= req.sz
      BY <1>0, <1>5, <2>1 DEF Coherence, DataLengths, DataLength
    <2>3. \A c \in Cols : len(c) >= req.sz BY <1>0, <1>1, <2>1, <2>2
    <2>4. Visible >= req.sz BY <1>0, <1>2, <1>4, <2>1, <2>3 DEF VisibleBounds
    <2>5. Visible <= req.sz BY <1>0, <1>3, <2>1
    <2> QED BY <1>0, <1>2, <2>1, <2>2, <2>4, <2>5 DEF VisibleBounds, ExtentBounds
  <1>6. CASE pc \notin {"cutidxdim", "cut", "cutdim"}
    <2>1. Extent = dim.a BY <1>6 DEF Extent
    <2>2. len(0) >= dim.a /\ dim.idx >= dim.a
      <3>1. pc \in AppendPc \cup VectorPc \cup UndoPc \cup {"idle", "down", "cutidx"}
        BY <1>6 DEF StoreInv, ControlOK, CutPc
      <3>2. pc \in VectorPc => at \in Nat /\ (pc # "push" => at >= 1)
        BY <1>0 DEF StoreInv, ControlOK, VectorPc
      <3> QED BY <1>0, <3>1, <3>2 DEF Coherence, IndexLength, IndexDim, AppendPc, VectorPc,
              UndoPc
    <2>3. \A c \in Data : len(c) >= dim.a
      <3>1. pc = "push" => at % k \in Nat BY PushElement DEF StoreInv
      <3> QED BY <1>0, <1>6, <3>1 DEF Coherence, DataLengths, DataLength
    <2>4. \A c \in Cols : len(c) >= dim.a BY <1>1, <2>2, <2>3
    <2>5. Visible >= dim.a BY <1>0, <1>2, <1>4, <2>2, <2>4 DEF VisibleBounds
    <2> QED BY <1>0, <1>2, <2>1, <2>2, <2>3, <2>5 DEF VisibleBounds, ExtentBounds
  <1> QED BY <1>5, <1>6

\* The rows carry their time in every column.
Times == [i \in 1 .. Extent |-> Log!Whole(vec[0].v[i])]

RowsAreWhole == rows = Times

LEMMA RowsAreTimes == StoreInv /\ Coherence => RowsAreWhole
  <1> SUFFICES ASSUME StoreInv, Coherence PROVE rows = Times BY DEF RowsAreWhole
  <1>1. /\ Visible = Extent /\ Extent \in Nat /\ Extent <= len(0)
        /\ \A c \in Data : Extent <= len(c)
    BY ExtentIsVisible DEF ExtentBounds
  <1>2. len(0) \in Nat /\ \A c \in Data : len(c) \in Nat /\ c \in Cols
    BY NumbersNow, InCols DEF Numbers
  <1>3. \A c \in Cols : c = 0 \/ c \in Data BY StoreAssumption DEF Cols, Data
  <1>4. \A c \in Cols : \A i \in 1 .. Extent : vec[c].v[i] = vec[0].v[i]
    BY <1>1, <1>2, <1>3 DEF Coherence, RowsAgree
  <1>5. \A i \in 1 .. Extent : Row(i) = Log!Whole(vec[0].v[i])
    BY <1>4 DEF Row, Log!Whole
  <1> QED BY <1>1, <1>5 DEF rows, Times

LEMMA RowsAreTimesNext == StoreInv' /\ Coherence' => RowsAreWhole'
  BY RowsAreTimes, PTL

\* Every step but the last of an append and the first of a resize leaves the rows.
LEMMA ExtentKept ==
    ASSUME StoreInv, Next, ~hurt', ~AppendDim,
           ~(CutIndex /\ pc' = "cutidxdim")
    PROVE  Extent' = Extent
  <1>1. CASE \/ AppendIndexColumn \/ IndexColumnBack \/ AppendColumn \/ ColumnBack
             \/ UndoIndex \/ PushIndex \/ PushData
    <2>1. /\ dim' = dim /\ pc \notin {"cutidxdim", "cut", "cutdim"}
          /\ pc' \notin {"cutidxdim", "cut", "cutdim"}
      BY <1>1, AppendIndexColumnEffect, IndexColumnBackEffect, AppendColumnEffect,
         ColumnBackEffect, UndoIndexEffect, PushIndexEffect, PushDataEffect
         DEF Goto, Return
    <2> QED BY <2>1 DEF Extent
  <1>2. CASE CutIndex
    <2>1. pc = "cutidx" /\ dim' = dim /\ pc' = "idle"
      BY <1>2, CutIndexEffect DEF Goto, Return
    <2> QED BY <2>1 DEF Extent
  <1>3. CASE CutColumn
    <2>1. pc = "cut" /\ req' = req /\ pc' \in {"cut", "cutdim"}
      BY <1>3, CutColumnEffect DEF Goto
    <2> QED BY <2>1 DEF Extent
  <1>4. CASE AppendIndexDim \/ CheckOrder \/ UndoIndexDim \/ PushIndexDim
    <2>1. /\ dim'.a = dim.a /\ pc \notin {"cutidxdim", "cut", "cutdim"}
          /\ pc' \notin {"cutidxdim", "cut", "cutdim"}
      BY <1>4 DEF AppendIndexDim, CheckOrder, UndoIndexDim, PushIndexDim, Goto, Return,
         StoreInv, RestOK
    <2> QED BY <2>1 DEF Extent
  <1>5. CASE CutIndexDim
    BY <1>5 DEF CutIndexDim, Goto, Extent
  <1>6. CASE CutDim
    BY <1>6 DEF CutDim, Return, Extent, StoreInv, RestOK
  <1>7. CASE \/ Crash \/ Load
             \/ \E c \in Chunks, w \in BOOLEAN : Begin("append", c, w) \/ Begin("vector", c, w)
             \/ \E n \in 0 .. MaxRows : BeginResize(n)
    <2>1. /\ dim' = dim /\ pc \notin {"cutidxdim", "cut", "cutdim"}
          /\ pc' \notin {"cutidxdim", "cut", "cutdim"}
      BY <1>7 DEF Crash, Load, Begin, BeginResize
    <2> QED BY <2>1 DEF Extent
  <1> QED BY <1>1, <1>2, <1>3, <1>4, <1>5, <1>6, <1>7 DEF Next

LEMMA ConcatAsFunction ==
    ASSUME NEW S, NEW s \in Seq(S), NEW t \in Seq(S)
    PROVE  s \o t = [i \in 1 .. Len(s) + Len(t) |-> IF i <= Len(s) THEN s[i] ELSE t[i - Len(s)]]
  <1> DEFINE w == s \o t
  <1>1. /\ w \in Seq(S) /\ Len(w) = Len(s) + Len(t)
        /\ \A i \in 1 .. Len(s) + Len(t) : w[i] = IF i <= Len(s) THEN s[i] ELSE t[i - Len(s)]
    BY ConcatProperties
  <1> HIDE DEF w
  <1>2. w = [i \in 1 .. Len(w) |-> w[i]] BY <1>1, LenProperties
  <1>3. w = [i \in 1 .. Len(s) + Len(t) |-> IF i <= Len(s) THEN s[i] ELSE t[i - Len(s)]]
    BY <1>1, <1>2
  <1> QED BY <1>3 DEF w

LEMMA AppendDimAppends ==
    ASSUME StoreInv, Coherence, StoreInv', Coherence', AppendDim
    PROVE  Log!Next
  <1>0. /\ dim.a \in Nat /\ k \in Nat /\ 0 \in Cols
        /\ req.times \in Seq(1 .. MaxRows) /\ Len(req.times) = k
    BY NumbersNow, InCols DEF Numbers, k
  <1>1. /\ pc = "adim" /\ vec' = vec /\ dim'.a = dim.a + k /\ pc' = "idle" /\ hurt' = hurt
    BY DEF AppendDim, Return, k, StoreInv, RestOK
  <1>2. /\ len(0) = dim.a + k /\ k > 0
        /\ \A i \in 1 .. dim.a + k - 1 : vec[0].v[i] < vec[0].v[i + 1]
        /\ \A i \in 1 .. k : vec[0].v[dim.a + i] = req.times[i]
    <2>1. len(0) = dim.a + k BY <1>1 DEF Coherence, IndexLength
    <2>2. k > 0 BY <1>1 DEF StoreInv, ControlOK, AppendPc
    <2>3. Ascending(vec[0].v) BY <1>1 DEF Coherence, FlagTrue, FlagKnown
    <2>4. \A i \in 1 .. dim.a + k - 1 : vec[0].v[i] < vec[0].v[i + 1]
      <3>1. \A i \in 1 .. len(0) - 1 : vec[0].v[i] < vec[0].v[i + 1]
        BY <2>3 DEF Ascending, len
      <3> QED BY <1>0, <2>1, <3>1
    <2>5. \A i \in 1 .. k : vec[0].v[dim.a + i] = req.times[i]
      <3>1. \A i \in 1 .. k : dim.a + i <= dim.a + k BY <1>0
      <3> QED BY <1>1, <2>1, <3>1 DEF Coherence, NewRows, AppendPc
    <2> QED BY <2>1, <2>2, <2>4, <2>5
  <1>3. rows = [i \in 1 .. dim.a |-> Log!Whole(vec[0].v[i])]
    BY <1>1, RowsAreTimes DEF RowsAreWhole, Times, Extent
  <1>4. rows' = [i \in 1 .. dim.a + k |-> Log!Whole(vec[0].v[i])]
    BY <1>1, RowsAreTimesNext DEF RowsAreWhole, Times, Extent, Log!Whole
  <1> DEFINE ts == req.times
             new == [i \in 1 .. Len(ts) |-> Log!Whole(ts[i])]
  <1>5. rows' = rows \o new
    <2>1. Len(rows) = dim.a
      BY <1>0, <1>3
    <2>2. Len(new) = k BY <1>0
    <2>3. rows \o new = [i \in 1 .. dim.a + k |-> IF i <= dim.a THEN rows[i] ELSE new[i - dim.a]]
      <3> DEFINE S == {Log!Whole(vec[0].v[i]) : i \in 1 .. dim.a + k}
                       \cup {Log!Whole(ts[i]) : i \in 1 .. k}
      <3>1. rows \in Seq(S) BY <1>0, <1>3
      <3>2. new \in Seq(S) BY <1>0
      <3> HIDE DEF S, new
      <3>3. rows \o new = [i \in 1 .. Len(rows) + Len(new) |->
                             IF i <= Len(rows) THEN rows[i] ELSE new[i - Len(rows)]]
        BY <3>1, <3>2, ConcatAsFunction, Zenon
      <3> QED BY <2>1, <2>2, <3>3
    <2>4. ASSUME NEW i \in 1 .. dim.a + k
          PROVE  Log!Whole(vec[0].v[i]) = IF i <= dim.a THEN rows[i] ELSE new[i - dim.a]
      <3>1. CASE i <= dim.a BY <1>0, <1>3, <3>1
      <3>2. CASE ~(i <= dim.a)
        <4>1. i - dim.a \in 1 .. k /\ dim.a + (i - dim.a) = i BY <1>0, <3>2
        <4>2. vec[0].v[i] = ts[i - dim.a] BY <1>2, <4>1
        <4> QED BY <1>0, <3>2, <4>1, <4>2
      <3> QED BY <3>1, <3>2
    <2> QED BY <1>4, <2>3, <2>4
  <1>6. \A i \in 1 .. Len(ts) - 1 : ts[i] < ts[i + 1]
    <2>1. ASSUME NEW i \in 1 .. k - 1 PROVE ts[i] < ts[i + 1]
      <3>1. i \in 1 .. k /\ i + 1 \in 1 .. k /\ dim.a + i \in 1 .. dim.a + k - 1
            /\ (dim.a + i) + 1 = dim.a + (i + 1)
        BY <1>0
      <3> QED BY <1>2, <3>1
    <2> QED BY <1>0, <2>1
  <1>7. rows # <<>> => rows[Len(rows)][0] < ts[1]
    <2>1. Len(rows) = dim.a BY <1>0, <1>3
    <2>2. CASE dim.a = 0 BY <1>3, <2>2
    <2>3. CASE dim.a > 0
      <3>1. dim.a \in 1 .. dim.a + k - 1 /\ dim.a \in 1 .. dim.a /\ 1 \in 1 .. k BY <1>0, <1>2, <2>3
      <3>2. rows[dim.a][0] = vec[0].v[dim.a] BY <1>0, <1>3, <3>1 DEF Log!Whole
      <3>3. vec[0].v[dim.a] < vec[0].v[dim.a + 1] /\ vec[0].v[dim.a + 1] = req.times[1]
        BY <1>2, <3>1
      <3> QED BY <2>1, <3>2, <3>3
    <2> QED BY <1>0, <2>2, <2>3
  <1>8. Log!AppendRows(ts) BY <1>1, <1>5, <1>6, <1>7 DEF Log!AppendRows
  <1>9. /\ k \in 1 .. Len(rows') - Len(rows)
        /\ ts \in [1 .. k -> 1 .. MaxRows]
    <2>1. Len(rows) = dim.a BY <1>0, <1>3
    <2>2. Len(rows') = dim.a + k BY <1>0, <1>4
    <2>3. ts \in [1 .. k -> 1 .. MaxRows]
      <3>1. DOMAIN ts = 1 .. k /\ ts = [i \in DOMAIN ts |-> ts[i]] BY <1>0, LenProperties
      <3>2. \A i \in 1 .. k : ts[i] \in 1 .. MaxRows BY <1>0, ElementOfSeq
      <3> QED BY <3>1, <3>2
    <2> QED BY <1>0, <1>2, <2>1, <2>2, <2>3
  <1> HIDE DEF ts
  <1> QED BY <1>8, <1>9 DEF Log!Next

LEMMA CutIndexCuts ==
    ASSUME StoreInv, Coherence, StoreInv', Coherence', CutIndex, pc' = "cutidxdim"
    PROVE  Log!Next
  <1>0. /\ dim.a \in Nat /\ req.sz \in Nat /\ 0 \in Cols
    BY NumbersNow, InCols DEF Numbers
  <1>1. /\ pc = "cutidx" /\ req' = req /\ hurt' = hurt /\ LengthSet(0, req.sz)
    BY CutIndexEffect DEF Goto, Return, Succeeds
  <1>2. len(0) = dim.a /\ req.sz < dim.a
    BY <1>0, <1>1 DEF Coherence, IndexLength, CutSize, CutPc
  <1>3. \A i \in 1 .. req.sz : vec'[0].v[i] = vec[0].v[i]
    <2>1. \A i \in 1 .. req.sz : i <= len(0) => vec'[0].v[i] = vec[0].v[i]
      BY <1>1 DEF LengthSet, len
    <2> QED BY <1>0, <1>2, <2>1
  <1>4. rows = [i \in 1 .. dim.a |-> Log!Whole(vec[0].v[i])]
    BY <1>1, RowsAreTimes DEF RowsAreWhole, Times, Extent
  <1>5. rows' = [i \in 1 .. req.sz |-> Log!Whole(vec'[0].v[i])]
    BY <1>1, RowsAreTimesNext DEF RowsAreWhole, Times, Extent, Log!Whole
  <1>6. rows' = [i \in 1 .. req.sz |-> rows[i]]
    <2>1. \A i \in 1 .. req.sz : i \in 1 .. dim.a BY <1>0, <1>2
    <2>2. \A i \in 1 .. req.sz : Log!Whole(vec'[0].v[i]) = rows[i] BY <1>3, <1>4, <2>1
    <2> QED BY <1>5, <2>2
  <1>7. Len(rows) = dim.a /\ req.sz \in 0 .. Len(rows) BY <1>0, <1>2, <1>4
  <1>8. SubSeq(rows, 1, req.sz) = [i \in 1 .. req.sz |-> rows[i]]
    <2> DEFINE S == {rows[i] : i \in 1 .. dim.a}
    <2>1. rows \in [1 .. dim.a -> S] BY <1>4
    <2> HIDE DEF S
    <2>2. rows \in Seq(S) BY <1>0, <2>1, SeqDef
    <2> QED BY <1>0, <1>2, <1>7, <2>2
  <1>9. Log!Cut(req.sz) BY <1>1, <1>6, <1>8 DEF Log!Cut
  <1> QED BY <1>7, <1>9 DEF Log!Next

LEMMA SeriesInit == Init => Log!Init
  <1> SUFFICES ASSUME Init PROVE Log!Init OBVIOUS
  <1>1. ~hurt /\ hurt = FALSE /\ pc = "idle" /\ dim.a = 0 BY DEF Init
  <1>2. StoreInv /\ Coherence BY <1>1, StoreInit, CoherenceInit DEF CoherenceInv
  <1>3. rows = Times /\ Extent = 0 BY <1>1, <1>2, RowsAreTimes DEF RowsAreWhole, Extent
  <1>4. rows = <<>> BY <1>3 DEF Times
  <1> QED BY <1>1, <1>4 DEF Log!Init

LEMMA SeriesStep ==
    ASSUME StoreInv, CoherenceInv, [Next]_vars
    PROVE  [Log!Next]_<<rows, hurt>>
  <1>0. StoreInv' /\ CoherenceInv' /\ hurt \in BOOLEAN /\ hurt' \in BOOLEAN
    <2>1. StoreInv' /\ CoherenceInv' BY StoreStep, CoherenceStep
    <2> QED BY <2>1 DEF StoreInv, RestOK
  <1>1. CASE UNCHANGED vars
    BY <1>1 DEF vars, rows, Visible, Row
  <1>2. CASE Next /\ hurt
    BY <1>2 DEF Log!Next
  <1>3. CASE Next /\ hurt'
    BY <1>0, <1>3 DEF Log!Next, Log!Break
  <1>4. CASE Next /\ ~hurt /\ ~hurt'
    <2>1. Coherence /\ Coherence' BY <1>0, <1>4 DEF CoherenceInv
    <2>2. CASE AppendDim BY <1>0, <2>1, <2>2, AppendDimAppends
    <2>3. CASE CutIndex /\ pc' = "cutidxdim" BY <1>0, <2>1, <2>3, CutIndexCuts
    <2>4. CASE ~AppendDim /\ ~(CutIndex /\ pc' = "cutidxdim")
      <3>1. Extent' = Extent BY <1>4, <2>4, ExtentKept
      <3>2. Preserves BY <1>4, StepKeeps
      <3>3. rows = Times /\ rows' = Times' BY <1>0, <2>1, RowsAreTimes, RowsAreTimesNext DEF RowsAreWhole
      <3>4. \A i \in 1 .. Extent : vec'[0].v[i] = vec[0].v[i]
        <4>1. Extent \in Nat /\ Extent <= len(0) BY <2>1, ExtentIsVisible DEF ExtentBounds
        <4>2. Extent' <= len(0)'
          <5>1. StoreInv' /\ Coherence' => ExtentBounds' BY ExtentIsVisible, PTL
          <5> QED BY <1>0, <2>1, <5>1 DEF ExtentBounds
        <4>3. len(0) \in Nat /\ newLen(0) \in Nat /\ len(0)' = newLen(0) /\ 0 \in Cols
          BY <1>0, Sizes
        <4>4. \A i \in 1 .. Extent : i \in 1 .. len(0) /\ i <= newLen(0)
          BY <3>1, <4>1, <4>2, <4>3
        <4> QED BY <3>2, <4>3, <4>4 DEF Preserves, len, newLen
      <3>5. Times' = Times BY <3>1, <3>4 DEF Times, Log!Whole
      <3> QED BY <1>0, <1>4, <3>3, <3>5
    <2> QED BY <2>2, <2>3, <2>4
  <1> QED BY <1>0, <1>1, <1>2, <1>3, <1>4

\* zts::append and zts::appendVector add all of their rows, ascending and behind the
\* last one, in the write of the array's dim, or none; a resize cuts in its first
\* write; until a failure that nothing undoes, or a crash in the middle of a call.
THEOREM StoreImplementsSeries == Spec => ImplementsSeries
  <1>1. Spec => [](StoreInv /\ CoherenceInv) BY CoherenceAlways
  <1>2. StoreInv /\ CoherenceInv /\ [Next]_vars => [Log!Next]_<<rows, hurt>>
    BY SeriesStep
  <1> QED BY <1>1, <1>2, SeriesInit, PTL DEF Spec, ImplementsSeries, Log!Spec
=============================================================================
