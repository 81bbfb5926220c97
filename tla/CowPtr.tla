------------------------------- MODULE CowPtr -------------------------------
(***************************************************************************)
(* Values shared by variables: the copy-on-write pointer (cow_ptr.hpp),    *)
(* its flags (valuevar.cpp) and the statements of the top level that use   *)
(* them (interp.cpp, env.hpp).                                             *)
(*                                                                         *)
(* A variable holds a handle: an object and flags.  Each object has a      *)
(* count beside it, kept by the handles themselves; a write through a      *)
(* handle copies the object first when the count is above one.  A literal  *)
(* of the program is a handle too, in the syntax tree of a function that   *)
(* stays.  The handle of .Last.value is not counted.                       *)
(*                                                                         *)
(* A statement is one action; its temporaries are made and dropped inside. *)
(* `x <- x` and `.Last.value` alone are left out: they read the map entry  *)
(* that add() has just erased (env.hpp).  TMP is never set by the program, *)
(* and no expression here gives a constant value that is assigned.         *)
(***************************************************************************)
EXTENDS Naturals, FiniteSets

CONSTANTS Vars,      \* names of variables
          Literals,  \* literals in the code of functions
          LiteralIs  \* the value of each

LastName == "last"
ArgName == "arg"
Nobody == "none"

ASSUME CowAssumption ==
  /\ IsFiniteSet(Vars) /\ IsFiniteSet(Literals) /\ Literals \cap Vars = {}
  /\ {LastName, ArgName, Nobody} \cap (Vars \cup Literals) = {}
  /\ LiteralIs \in [Literals -> 0 .. 1]

VARIABLES handle, \* of each variable, literal and .Last.value
          obj,    \* the objects: value, count, whether it is mapped to a file
          target, \* the variable the last statement assigned or removed
          byRef,  \* the variables the last statement was given by reference
          infix,  \* the variable the last statement negated in place with infix minus
          odd     \* .Last.value was once written by reference

cowvars == <<handle, obj, target, byRef, infix, odd>>

VarNames == Vars \cup {LastName}
Holders == VarNames \cup Literals \cup {ArgName}

\* An object for each holder, and two for the temporaries of a statement.
Objects == 1 .. (Cardinality(Holders) + 2)
Flags == {"REF", "LOCKED", "CONSTREF", "LAST"}
NoHandle == [o |-> 0, flags |-> {}]
NoObject == [v |-> 0, n |-> 0, file |-> FALSE]
\* Values are 0 and 1: every operator, and every write, gives the other one.
Other(v) == 1 - v

-----------------------------------------------------------------------------
(* A store s is the handles and the objects; the handle given to an        *)
(* operator is owned by a temporary value.                                 *)

Bound(s, n) == s.h[n] # NoHandle

\* The copy constructor.
Copied(s, hd) == [s EXCEPT !.o[hd.o].n = @ + 1]
TheCopy(hd) == [hd EXCEPT !.flags = @ \ {"LAST"}]

\* Mutant: the destructor decrements for .Last.value too.
DroppedAlways(s, hd) == IF hd = NoHandle THEN s ELSE [s EXCEPT !.o[hd.o].n = @ - 1]

\* The destructor.
Dropped(s, hd) ==
  IF hd = NoHandle \/ "LAST" \in hd.flags THEN s ELSE [s EXCEPT !.o[hd.o].n = @ - 1]

\* An object nothing refers to any more is gone.  An object has the place of its first
\* holder: which one it is does not matter.
Place == CHOOSE f \in [Holders -> 1 .. Cardinality(Holders)] : \A a, b \in Holders : a # b => f[a] # f[b]
PlaceOf(s, n) ==
  IF s.h[n] = NoHandle THEN 0
  ELSE LET A == {Place[m] : m \in {q \in Holders : s.h[q].o = s.h[n].o}} IN CHOOSE i \in A : \A j \in A : i <= j
Swept(s) ==
  [h |-> [n \in Holders |-> [s.h[n] EXCEPT !.o = PlaceOf(s, n)]],
   o |-> [i \in Objects |-> IF \E n \in Holders : PlaceOf(s, n) = i
                            THEN s.o[s.h[CHOOSE n \in Holders : PlaceOf(s, n) = i].o] ELSE NoObject]]

Unused(s) == {i \in Objects : s.o[i] = NoObject /\ \A n \in Holders : s.h[n].o # i}
New(s) == CHOOSE i \in Unused(s) : \A j \in Unused(s) : i <= j

\* make_cow: an object with one handle.
Made(s, v, file) == [s EXCEPT !.o[New(s)] = [v |-> v, n |-> 1, file |-> file]]

setRef(s, n) == [s EXCEPT !.h[n].flags = @ \cup {"REF"}]
resetRef(s, n) == [s EXCEPT !.h[n].flags = @ \ {"REF"}]
setLock(s, n) == [s EXCEPT !.h[n].flags = @ \cup {"LOCKED"}]
resetLock(s, n) == [s EXCEPT !.h[n].flags = @ \ {"LOCKED"}]
setConst(hd) == [hd EXCEPT !.flags = @ \cup {"CONSTREF"}]
setLast(s) == [s EXCEPT !.h[LastName].flags = @ \cup {"LAST"}, !.o[s.h[LastName].o].n = @ - 1]

isConst(hd) == "CONSTREF" \in hd.flags
isLocked(hd) == "LOCKED" \in hd.flags

\* Mutant: an object is shared by up to two handles.
NeedsCopyLate(s, n) == s.o[s.h[n].o].n > 2

NeedsCopy(s, n) == s.o[s.h[n].o].n > 1

\* Mutant: a locked object is copied like any other.
MayWriteLocked(s, n) == ~isConst(s.h[n])

\* The non-const dereference of the handle of n: whether it throws, and the copy it makes.
MayWrite(s, n) == ~isConst(s.h[n]) /\ ~(NeedsCopy(s, n) /\ isLocked(s.h[n]))
Owned(s, n) ==
  IF NeedsCopy(s, n)
  THEN LET i == New(s)
       IN  [s EXCEPT !.o[s.h[n].o].n = @ - 1,
                     !.o[i] = [v |-> s.o[s.h[n].o].v, n |-> 1, file |-> FALSE],
                     !.h[n].o = i]
  ELSE s
Written(s, n) == LET t == Owned(s, n) IN [t EXCEPT !.o[t.h[n].o].v = Other(@)]

-----------------------------------------------------------------------------
(* Expressions.  The result is a temporary handle, or a pointer to the     *)
(* variable `ptr`; or it failed.                                           *)

Value(s, hd) == [s |-> s, hd |-> hd, ptr |-> Nobody, ok |-> TRUE]
Pointer(s, n) == [s |-> s, hd |-> NoHandle, ptr |-> n, ok |-> TRUE]
NullValue(s) == Value(s, NoHandle)
Failed(s) == [s |-> s, hd |-> NoHandle, ptr |-> Nobody, ok |-> FALSE]
Fresh(s, v) == Value(Made(s, v, FALSE), [o |-> New(s), flags |-> {}])
OwnCopy(s, n) == Value(Copied(s, s.h[n]), TheCopy(s.h[n]))

evalLiteral(s, n) == OwnCopy(s, n)

\* matrix(..., file=) makes a locked object mapped to a file.
evalFile(s, v) == Value(Made(s, v, TRUE), [o |-> New(s), flags |-> {"LOCKED"}])

\* A binary operator resets the reference flag of its left operand.
evalBinop(s, n) == Fresh(resetRef(s, n), Other(s.o[s.h[n].o].v))

\* A unary operator works in place when REF is the only flag, however it got there.
evalUnop(s, n) ==
  IF s.h[n].flags = {"REF"}
  THEN OwnCopy(Written(s, n), n)
  ELSE Fresh(s, Other(s.o[s.h[n].o].v))

\* An operator called as a function with a reference: `-`(--x).
prefixOp(s, n) == evalUnop(setRef(s, n), n)

\* x[1] <- v is subassign(--x, v, 1).
subassign(s, n) ==
  LET t == setRef(s, n)
  IN  IF MayWrite(t, n) THEN OwnCopy(Written(t, n), n) ELSE Failed(t)

lock(s, n) == NullValue(setLock(setRef(s, n), n))

\* Mutant: the lock of a mapped object is taken away.
unlockAny(s, n) == NullValue(resetLock(setRef(s, n), n))

unlock(s, n) ==
  LET t == setRef(s, n) IN IF t.o[t.h[n].o].file THEN Failed(t) ELSE NullValue(resetLock(t, n))

\* The argument of a closure, by value: a handle in its frame.
addArg1(s, n) == [Copied(s, s.h[n]) EXCEPT !.h[ArgName] = [TheCopy(s.h[n]) EXCEPT !.flags = @ \ {"REF"}]]
LeaveFrame(s) == [Dropped(s, s.h[ArgName]) EXCEPT !.h[ArgName] = NoHandle]

\* Mutant: the argument is always a reference.
callByRefAlways(s, n) ==
  LET t == setRef(s, n) IN IF MayWrite(t, n) THEN Pointer(Written(t, n), n) ELSE Failed(t)

\* f(n) with f <- function(p) { p[1] <- v; p }: the value is still in the frame.
callByValue(s, n) ==
  LET t == setRef(addArg1(s, n), ArgName)
  IN  IF MayWrite(t, ArgName) THEN Pointer(Written(t, ArgName), ArgName) ELSE Failed(LeaveFrame(t))

\* f(--n): the argument points to the variable.
callByRef(s, n) ==
  LET t == setRef(s, n) IN IF MayWrite(t, n) THEN Pointer(Written(t, n), n) ELSE Failed(t)

-----------------------------------------------------------------------------
\* Frame::add: the new entry is a copy; then the old one is dropped.
Entered(s, n, hd) ==
  [Dropped(Copied(s, hd), s.h[n]) EXCEPT !.h[n] = TheCopy(hd)]

Got(r) == IF r.ptr = Nobody THEN r.hd ELSE r.s.h[r.ptr]
TempGone(s, r) == LeaveFrame(Dropped(s, r.hd))

\* The last evaluation of a statement: .Last.value; a value that is no variable becomes constant.
Shown(r) ==
  LET hd == IF r.ptr = Nobody THEN setConst(r.hd) ELSE Got(r)
  IN  IF r.ptr = Nobody /\ r.hd = NoHandle
      THEN TempGone([Dropped(r.s, r.s.h[LastName]) EXCEPT !.h[LastName] = NoHandle], r)
      ELSE TempGone(setLast(Entered(r.s, LastName, hd)), r)

\* n <- r, and then n itself is the last evaluation.
AssignedTo(r, n) ==
  LET s == TempGone(resetRef(Entered(r.s, n, Got(r)), n), r) IN Shown(Pointer(s, n))

Becomes(s, x, refs, neg) ==
  /\ \E t \in {Swept(s)} : handle' = t.h /\ obj' = t.o
  /\ target' = x /\ byRef' = refs /\ infix' = neg
  /\ odd' = (odd \/ LastName \in refs)

Store == [h |-> handle, o |-> obj]

\* The expression e, whose references are refs: assigned to a variable, or alone.
Statement(e, refs, neg) ==
  \E r \in {e} :
    \/ ~r.ok /\ Becomes(r.s, Nobody, refs, neg)
    \/ r.ok /\ Got(r) # NoHandle
       /\ \E x \in Vars \ {r.ptr} : Becomes(AssignedTo(r, x), x, refs, neg)
    \/ r.ok /\ r.ptr # LastName /\ Becomes(Shown(r), Nobody, refs, neg)

Assignable == {n \in VarNames : Bound(Store, n)}

Literal == \E n \in Literals : Statement(evalLiteral(Store, n), {}, Nobody)
File == Statement(evalFile(Store, 0), {}, Nobody)
Symbol == \E n \in Assignable : Statement(Pointer(Store, n), {}, Nobody)
InfixBinop == \E n \in Assignable : Statement(evalBinop(Store, n), {}, Nobody)
InfixUnop == \E n \in Assignable : Statement(evalUnop(Store, n), {}, IF handle[n].flags = {"REF"} THEN n ELSE Nobody)
Prefix == \E n \in Assignable : Statement(prefixOp(Store, n), {n}, Nobody)
Subassign == \E n \in Assignable : Statement(subassign(Store, n), {n}, Nobody)
Lock == \E n \in Assignable : Statement(lock(Store, n), {n} \cap Vars, Nobody)
Unlock == \E n \in Assignable : Statement(unlock(Store, n), {n} \cap Vars, Nobody)
CallByValue == \E n \in Assignable : Statement(callByValue(Store, n), {}, Nobody)
CallByRef == \E n \in Assignable : Statement(callByRef(Store, n), {n}, Nobody)
\* rm(n): its value is NULL.
Rm ==
  \E n \in Assignable \cap Vars :
    Becomes(Shown(NullValue([Dropped(Store, handle[n]) EXCEPT !.h[n] = NoHandle])), n, {}, Nobody)

Began ==
  /\ handle = [n \in Holders |-> IF n \in Literals THEN [o |-> Place[n], flags |-> {}] ELSE NoHandle]
  /\ obj = [i \in Objects |-> IF \E n \in Literals : Place[n] = i
                              THEN [v |-> LiteralIs[CHOOSE n \in Literals : Place[n] = i], n |-> 1, file |-> FALSE]
                              ELSE NoObject]
  /\ target = Nobody /\ byRef = {} /\ infix = Nobody
CowInit == Began /\ odd = FALSE

\* Once .Last.value was written the counts are wrong, and nothing more is claimed.
CowNext ==
  ~odd /\ (\/ Literal \/ File \/ Symbol \/ InfixBinop \/ InfixUnop \/ Prefix
           \/ Subassign \/ Lock \/ Unlock \/ CallByValue \/ CallByRef \/ Rm)
CowSpec == CowInit /\ [][CowNext]_cowvars

-----------------------------------------------------------------------------
ValueOf(n) == obj[handle[n].o].v
Counted(i) == {n \in Holders : handle[n].o = i /\ "LAST" \notin handle[n].flags}

\* Between statements the count of an object is the number of its counted handles: no
\* copy, return, throw or replacement leaves it too low, which would let a write reach a
\* second variable, or too high.  After a write through .Last.value it is too low.
CountIsRight == ~odd => \A i \in Objects : obj[i].n = Cardinality(Counted(i))

\* The literals in the code of a function keep their value whatever is done with the
\* variables they were assigned to (the syntax tree shares its objects with them).
LiteralsKeep == ~odd => \A n \in Literals : ValueOf(n) = LiteralIs[n]

\* A statement changes the value of no variable but the one it assigns and those it is
\* given by reference.  (Infix minus changes its operand when an earlier statement left
\* REF on it, and a write through .Last.value the variable it was made from.)
OthersKeep ==
  [][\A n \in Vars :
       (handle[n] # NoHandle /\ handle'[n] # NoHandle /\ ~odd' /\ n \notin byRef' \cup {target', infix'})
       => ValueOf(n)' = ValueOf(n)]_cowvars

\* A write through a locked variable never goes to a copy: the variables that shared its
\* object still do.
Share(n, m) == handle[n] # NoHandle /\ handle[n].o = handle[m].o
LockedKeep ==
  [][\A n \in Vars, m \in Vars \cup Literals :
       ("LOCKED" \in handle[n].flags /\ Share(n, m) /\ target' \notin {n, m} /\ byRef' \cup {infix'} \subseteq {n, Nobody})
       => Share(n, m)']_cowvars

\* Every variable that holds an object mapped to a file is locked, so that what is
\* written through it reaches the file.
MappedIsLocked == \A n \in Vars : handle[n] # NoHandle /\ obj[handle[n].o].file => isLocked(handle[n])

\* What is shared is known to be shared: counts are right, literals keep their value and
\* mapped objects are locked.
SharingIsSound == CountIsRight /\ LiteralsKeep /\ MappedIsLocked

\* A write through a variable reaches that variable and what is locked with it, and no
\* other variable.
WritesStay == OthersKeep /\ LockedKeep
=============================================================================
