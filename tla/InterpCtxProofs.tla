-------------------------- MODULE InterpCtxProofs --------------------------
(***************************************************************************)
(* Five theorems about InterpCtx, for any contexts, programs and bounds.   *)
(*                                                                         *)
(* First: the keyboard is never suspended without a line that brings it    *)
(* back.  KeyboardGuarded is not inductive by itself: when interpret()     *)
(* ends, it needs to know that the state it ends is the one s points to    *)
(* (Running), and a new line needs an id (Shapes).                         *)
(***************************************************************************)
EXTENDS InterpCtx, TLAPS

Shapes ==
    /\ states \in [Ctx -> SUBSET ReqId]
    /\ s \in [Ctx -> ReqId \cup {NoReq}]
    /\ cur \in Ctx \cup {NoCtx}
    /\ inflight \subseteq Request
    /\ nextId \in Nat \ {0}
    /\ keyboard \in BOOLEAN /\ crossed \in BOOLEAN

Running == cur # NoCtx => s[cur] \in states[cur]

GuardInv == Shapes /\ Running /\ KeyboardGuarded

\* Initially the keyboard is polled and no context is interpreting.
LEMMA GuardInit == Init => GuardInv
  <1> SUFFICES ASSUME Init PROVE GuardInv
    OBVIOUS
  <1>0. /\ states = [c \in Ctx |-> {}] /\ s = [c \in Ctx |-> NoReq] /\ cur = NoCtx
        /\ inflight = {} /\ nextId = 1 /\ keyboard = TRUE /\ crossed = FALSE
    BY DEF Init
  <1>1. Shapes
    <2>1. keyboard \in BOOLEAN /\ crossed \in BOOLEAN
      BY <1>0, Zenon
    <2>2. /\ states \in [Ctx -> SUBSET ReqId] /\ s \in [Ctx -> ReqId \cup {NoReq}]
          /\ cur \in Ctx \cup {NoCtx} /\ inflight \subseteq Request /\ nextId \in Nat \ {0}
      BY <1>0
    <2> QED
      BY <2>1, <2>2 DEF Shapes
  <1>2. Running /\ KeyboardGuarded
    BY <1>0 DEF Running, KeyboardGuarded
  <1> QED
    BY <1>1, <1>2 DEF GuardInv

\* Ending the state q of context c keeps the invariant: a line gives the
\* keyboard back, a request does not touch the state of the line.
LEMMA GuardEnd ==
    ASSUME GuardInv, NEW c \in Ctx, NEW q \in ReqId, NEW a, End(c, q, a),
           inflight' \subseteq Request, nextId' \in Nat \ {0}, UNCHANGED crossed
    PROVE  GuardInv'
  BY CtxAssumption DEF End, Erase, GuardInv, Shapes, Running, KeyboardGuarded

\* Every step of an interpretation keeps the invariant.
LEMMA GuardInterpret ==
    ASSUME GuardInv, NEW c \in Ctx,
           \/ Evaluate(c) \/ Throw(c) \/ Block(c) \/ Finish(c) \/ Interrupt(c)
           \/ \E o \in Ctx : SendReq(c, o)
    PROVE  GuardInv'
  <1> USE CtxAssumption
  <1>0. cur = c => s[c] \in ReqId
    BY DEF GuardInv, Shapes, Running
  <1>1. CASE Evaluate(c)
    BY <1>1 DEF Evaluate, GuardInv, Shapes, Running, KeyboardGuarded, rspVars, userVars
  <1>2. CASE Throw(c)
    <2>1. /\ End(c, s[c], [kind |-> "error", of |-> s[c]]) /\ cur = c
          /\ UNCHANGED <<inflight, crossed>> /\ nextId' \in Nat \ {0}
      BY <1>2 DEF Throw, GuardInv, Shapes
    <2> QED
      BY <2>1, <1>0, GuardEnd DEF GuardInv, Shapes
  <1>3. CASE Block(c)
    BY <1>3 DEF Block, GuardInv, Shapes, Running, KeyboardGuarded, rspVars, userVars
  <1>4. CASE Finish(c)
    <2> DEFINE v == IF Silent(c) THEN [kind |-> "TRUE", of |-> s[c]]
                    ELSE [kind |-> last[c].kind, of |-> last[c].of]
    <2>1. /\ cur = c /\ UNCHANGED <<inflight, nextId, crossed>>
          /\ \/ End(c, s[c], v)
             \/ cur' = NoCtx /\ UNCHANGED <<states, s, keyboard>>
      BY <1>4 DEF Finish
    <2>2. CASE End(c, s[c], v)
      BY <2>1, <2>2, <1>0, GuardEnd DEF GuardInv, Shapes
    <2>3. CASE cur' = NoCtx /\ UNCHANGED <<states, s, keyboard>>
      BY <2>1, <2>3 DEF GuardInv, Shapes, Running, KeyboardGuarded
    <2> QED
      BY <2>1, <2>2, <2>3
  <1>5. CASE Interrupt(c)
    <2>1. /\ End(c, s[c], [kind |-> "error", of |-> s[c]]) /\ cur = c
          /\ UNCHANGED <<inflight, nextId, crossed>>
      BY <1>5 DEF Interrupt
    <2> QED
      BY <2>1, <1>0, GuardEnd DEF GuardInv, Shapes
  <1>6. ASSUME NEW o \in Ctx, SendReq(c, o) PROVE GuardInv'
    <2>1. /\ nextId \in Id /\ cur = c
          /\ inflight' = inflight \cup {[id |-> nextId, ctx |-> c, src |-> s[c], opener |-> o]}
          /\ nextId' = nextId + 1
          /\ UNCHANGED <<states, s, cur, keyboard, crossed>>
      BY <1>6 DEF SendReq, GuardInv, Shapes, userVars, Id
    <2>2. inflight' \subseteq Request
      BY <2>1, <1>0 DEF GuardInv, Shapes, Request
    <2> QED
      BY <2>1, <2>2 DEF GuardInv, Shapes, Running, KeyboardGuarded
  <1> QED
    BY <1>1, <1>2, <1>3, <1>4, <1>5, <1>6

\* A request or a line that arrives keeps the invariant.
LEMMA GuardRequest ==
    ASSUME GuardInv,
           \/ ProcessReqData
           \/ \E c \in Ctx, q \in PeerId :
                 ReadReqPart(c, q) \/ ReadReqData(c, q) \/ ReadReqTail(c, q)
    PROVE  GuardInv'
  <1> USE CtxAssumption
  <1>1. CASE ProcessReqData
    <2>1. PICK p \in Code : Start(LocalCtx, nextId, p)
      BY <1>1 DEF ProcessReqData
    <2>2. /\ nextId \in ReqId /\ nextId' = nextId + 1 /\ keyboard' = FALSE
          /\ UNCHANGED <<inflight, crossed>>
      BY <1>1 DEF ProcessReqData, GuardInv, Shapes, ReqId, Id
    <2>3. /\ states' \in [Ctx -> SUBSET ReqId] /\ s' \in [Ctx -> ReqId \cup {NoReq}]
          /\ cur' = LocalCtx /\ s'[LocalCtx] \in states'[LocalCtx]
      BY <2>1, <2>2 DEF Start, GuardInv, Shapes
    <2>4. Shapes'
      <3>1. keyboard' \in BOOLEAN
        BY <2>2, Zenon
      <3> QED
        BY <3>1, <2>2, <2>3 DEF GuardInv, Shapes
    <2> QED
      BY <2>3, <2>4 DEF GuardInv, Running, KeyboardGuarded
  <1>2. ASSUME NEW c \in Ctx, NEW q \in PeerId, ReadReqPart(c, q) \/ ReadReqTail(c, q)
        PROVE  GuardInv'
    BY <1>2 DEF ReadReqPart, ReadReqTail, runVars, rspVars, userVars,
                GuardInv, Shapes, Running, KeyboardGuarded
  <1>3. ASSUME NEW c \in Ctx, NEW q \in PeerId, ReadReqData(c, q) PROVE GuardInv'
    <2>1. PICK p \in Code : Start(c, q, p)
      BY <1>3 DEF ReadReqData
    <2>2. c # LocalCtx /\ q \in ReqId /\ UNCHANGED <<inflight, nextId, keyboard, crossed>>
      BY <1>3 DEF ReadReqData, MaySend, rspVars, userVars, ReqId
    <2> QED
      BY <2>1, <2>2 DEF Start, GuardInv, Shapes, Running, KeyboardGuarded
  <1> QED
    BY <1>1, <1>2, <1>3

\* So does a response, wherever it goes.
LEMMA GuardResponse ==
    ASSUME GuardInv, NEW r \in inflight,
           \/ DropRsp(r) \/ MisplacedRsp(r)
           \/ \E kind \in {"value", "error"} : ReadRspData(r, kind)
    PROVE  GuardInv'
  <1> USE CtxAssumption
  <1>0. r.ctx \in Ctx /\ r.src \in ReqId /\ r.opener \in Ctx
    BY DEF GuardInv, Shapes, Request
  <1>1. CASE DropRsp(r)
    BY <1>1 DEF DropRsp, runVars, userVars, GuardInv, Shapes, Running, KeyboardGuarded
  <1>2. CASE MisplacedRsp(r)
    BY <1>0, <1>2 DEF MisplacedRsp, Erase, userVars, GuardInv, Shapes, Running, KeyboardGuarded
  <1>3. ASSUME NEW kind \in {"value", "error"}, ReadRspData(r, kind) PROVE GuardInv'
    <2>1. /\ r.src \in states[r.ctx]
          /\ inflight' = inflight \ {r} /\ UNCHANGED <<nextId, crossed>>
          /\ \/ End(r.ctx, r.src, [kind |-> "error", of |-> r.src])
             \/ /\ s' = [s EXCEPT ![r.ctx] = r.src] /\ cur' = r.ctx
                /\ UNCHANGED <<states, keyboard>>
      BY <1>3 DEF ReadRspData
    <2>2. CASE End(r.ctx, r.src, [kind |-> "error", of |-> r.src])
      BY <2>1, <2>2, <1>0, GuardEnd DEF GuardInv, Shapes
    <2>3. CASE /\ s' = [s EXCEPT ![r.ctx] = r.src] /\ cur' = r.ctx
               /\ UNCHANGED <<states, keyboard>>
      BY <2>1, <2>3, <1>0 DEF GuardInv, Shapes, Running, KeyboardGuarded
    <2> QED
      BY <2>1, <2>2, <2>3
  <1> QED
    BY <1>1, <1>2, <1>3

\* Collection reports the state it takes from the keyboard, and an interrupt
\* polls the keyboard again.
LEMMA GuardLoop ==
    ASSUME GuardInv, AgeRsp \/ AgeReq \/ Gc \/ Reset
    PROVE  GuardInv'
  <1> USE CtxAssumption
  <1>1. CASE AgeRsp \/ AgeReq
    BY <1>1 DEF AgeRsp, AgeReq, runVars, rspVars, userVars, GuardInv, Shapes, Running,
                KeyboardGuarded
  <1>2. CASE Gc
    BY <1>2 DEF Gc, GuardInv, Shapes, Running, KeyboardGuarded
  <1>3. CASE Reset
    BY <1>3 DEF Reset, GuardInv, Shapes, Running, KeyboardGuarded
  <1> QED
    BY <1>1, <1>2, <1>3

\* Every step keeps the invariant.
LEMMA GuardStep == GuardInv /\ [Next]_vars => GuardInv'
  <1> SUFFICES ASSUME GuardInv, [Next]_vars PROVE GuardInv'
    OBVIOUS
  <1>1. CASE UNCHANGED vars
    BY <1>1 DEF vars, runVars, rspVars, userVars, GuardInv, Shapes, Running, KeyboardGuarded
  <1>2. CASE Next
    BY <1>2, GuardInterpret, GuardRequest, GuardResponse, GuardLoop DEF Next, Interpret
  <1> QED
    BY <1>1, <1>2

\* The keyboard is never suspended without a line whose state is the one that
\* is reported when it expires, for any number of contexts, requests and
\* programs: gc_states, the errors, interrupts and late responses all give it
\* back, unless a response of a shared connection has erased that state.
THEOREM KeyboardIsGuarded == Spec => []KeyboardGuarded
  <1>1. GuardInv => KeyboardGuarded
    BY DEF GuardInv
  <1> QED
    BY GuardInit, GuardStep, <1>1, PTL DEF Spec

(***************************************************************************)
(* No request is answered twice, when every value can be transmitted.      *)
(*                                                                         *)
(* An answer and the erasure of the state go together (Once); a state is   *)
(* never created twice, because a peer does not send a request again and   *)
(* the ids of lines are fresh (Fresh).  The exception is a value that      *)
(* cannot be transmitted: its state stays.  NoOdd excludes it, and needs   *)
(* to know what the states interpret (Progs).                              *)
(***************************************************************************)
NoOdd == \A p \in Code : \A i \in 1 .. Len(p) : p[i] # "odd"

Outcome == [kind : {"none", "future", "value", "error", "odd", "TRUE", "timeout"},
            of : ReqId \cup {NoReq}]

Progs ==
    /\ code \in [Ctx -> [ReqId -> Code \cup {<< >>}]]
    /\ at \in [Ctx -> [ReqId -> Nat]]
    /\ \A c \in Ctx : \A q \in states[c] : code[c][q] \in Code /\ at[c][q] >= 1

Slots ==
    /\ last \in [Ctx -> Slot] /\ x \in [Ctx -> Slot]
    /\ \A c \in Ctx : last[c].kind # "odd" /\ x[c].kind # "odd"

Once ==
    /\ got \in [Ctx -> [ReqId -> Seq(Outcome)]]
    /\ \A c \in Ctx, q \in ReqId :
          got[c][q] = << >> \/ (q \notin states[c] /\ Len(got[c][q]) = 1)

Used(c, q) == q \in states[c] \/ got[c][q] # << >>

Fresh ==
    /\ peer \in [Ctx -> [PeerId -> {"new", "begun", "sent"}]]
    /\ \A c \in Ctx \ {LocalCtx}, q \in ReqId : Used(c, q) => q \in PeerId /\ peer[c][q] = "sent"
    /\ \A q \in ReqId : Used(LocalCtx, q) => q < nextId

OnceInv == GuardInv /\ Progs /\ Slots /\ Once /\ Fresh

\* No statement of a chain is one that NoOdd excludes.
LEMMA ChainNoOdd ==
    ASSUME NoOdd, NEW p \in Code, NEW i \in 1 .. Len(Chain(p))
    PROVE  Chain(p)[i] # "odd"
  <1>1. p \in Seq(Stmt)
    BY CtxAssumption
  <1>2. CASE p[Len(p)] = "set"
    <2>1. Chain(p) = Append(p, "silent")
      BY <1>2 DEF Chain
    <2>2. CASE i \in 1 .. Len(p)
      BY <1>1, <2>1, <2>2 DEF NoOdd
    <2>3. CASE i = Len(p) + 1
      BY <1>1, <2>1, <2>3
    <2> QED
      BY <1>1, <2>1, <2>2, <2>3
  <1>3. CASE p[Len(p)] # "set"
    BY <1>1, <1>3 DEF Chain, NoOdd
  <1> QED
    BY <1>2, <1>3

\* A chain has a length.
LEMMA ChainLen ==
    ASSUME NEW p \in Code
    PROVE  Len(Chain(p)) \in Nat
  <1>1. p \in Seq(Stmt)
    BY CtxAssumption
  <1>2. Append(p, "silent") \in Seq(Stmt \cup {"silent"})
    BY <1>1
  <1> QED
    BY <1>1, <1>2 DEF Chain

\* Fresh is kept as long as no request gets a state or an answer for the first
\* time.
LEMMA FreshKept ==
    ASSUME Fresh, nextId \in Nat, nextId' \in Nat, nextId' >= nextId, UNCHANGED peer,
           \A c \in Ctx, q \in ReqId : Used(c, q)' => Used(c, q)
    PROVE  Fresh'
  <1>1. ReqId \subseteq Nat /\ LocalCtx \in Ctx
    BY CtxAssumption DEF ReqId, Id
  <1> QED
    BY <1>1 DEF Fresh

\* A step that leaves the states, their code and the answers alone.
LEMMA QuietStep ==
    ASSUME OnceInv, UNCHANGED <<states, code, got>>, nextId' \in Nat, nextId' >= nextId,
           UNCHANGED peer, UNCHANGED at
    PROVE  Progs' /\ Once' /\ Fresh'
  <1>1. Progs' /\ Once'
    BY DEF OnceInv, Progs, Once
  <1>2. nextId \in Nat
    BY DEF OnceInv, GuardInv, Shapes
  <1>3. Fresh'
    BY <1>2, FreshKept DEF OnceInv, Used
  <1> QED
    BY <1>1, <1>3

\* Ending a state that exists answers a request that was not answered, and
\* leaves no state behind.
LEMMA OnceEnd ==
    ASSUME OnceInv, NEW c \in Ctx, NEW q \in states[c], NEW a \in Outcome, End(c, q, a),
           nextId' \in Nat, nextId' >= nextId, UNCHANGED peer
    PROVE  Progs' /\ Once' /\ Fresh'
  <1> USE DEF OnceInv
  <1>0. /\ q \in ReqId /\ states \in [Ctx -> SUBSET ReqId] /\ nextId \in Nat
        /\ states' = [states EXCEPT ![c] = @ \ {q}]
        /\ code' = [code EXCEPT ![c][q] = << >>]
        /\ at' = [at EXCEPT ![c][q] = 0]
        /\ got' = [got EXCEPT ![c][q] = Append(@, a)]
    BY DEF End, Erase, GuardInv, Shapes
  <1>1. Progs'
    <2>1. /\ code' \in [Ctx -> [ReqId -> Code \cup {<< >>}]]
          /\ at' \in [Ctx -> [ReqId -> Nat]]
      BY <1>0 DEF Progs
    <2>2. ASSUME NEW d \in Ctx, NEW r \in states'[d]
          PROVE  r \in states[d] /\ code'[d][r] = code[d][r] /\ at'[d][r] = at[d][r]
      BY <1>0 DEF Progs
    <2> QED
      BY <2>1, <2>2 DEF Progs
  <1>2. got[c][q] = << >>
    BY <1>0 DEF Once
  <1>3. /\ got'[c][q] = Append(<< >>, a) /\ q \notin states'[c]
        /\ \A d \in Ctx, r \in ReqId : d # c \/ r # q =>
              got'[d][r] = got[d][r] /\ (r \in states'[d] => r \in states[d])
    BY <1>0, <1>2 DEF Once
  <1>4. Append(<< >>, a) \in Seq(Outcome) /\ Len(Append(<< >>, a)) = 1
    OBVIOUS
  <1>5. Once'
    <2>1. got' \in [Ctx -> [ReqId -> Seq(Outcome)]]
      BY <1>0, <1>2, <1>4 DEF Once
    <2>2. ASSUME NEW d \in Ctx, NEW r \in ReqId
          PROVE  got'[d][r] = << >> \/ (r \notin states'[d] /\ Len(got'[d][r]) = 1)
      <3>1. CASE d = c /\ r = q
        <4>1. got'[d][r] = Append(<< >>, a) /\ r \notin states'[d]
          BY <3>1, <1>3, Zenon
        <4>2. Len(got'[d][r]) = 1
          BY <4>1, <1>4, Zenon
        <4> QED
          BY <4>1, <4>2
      <3>2. CASE d # c \/ r # q
        <4>1. got'[d][r] = got[d][r] /\ (r \in states'[d] => r \in states[d])
          BY <3>2, <1>3
        <4>2. got[d][r] = << >> \/ (r \notin states[d] /\ Len(got[d][r]) = 1)
          BY DEF Once
        <4> QED
          BY <4>1, <4>2, Zenon
      <3> QED
        BY <3>1, <3>2
    <2> QED
      BY <2>1, <2>2 DEF Once
  <1>6. Fresh'
    BY <1>0, <1>3, FreshKept DEF Used
  <1> QED
    BY <1>1, <1>5, <1>6

\* The steps of an interpretation.
LEMMA OnceInterpret ==
    ASSUME NoOdd, OnceInv, NEW c \in Ctx,
           \/ Evaluate(c) \/ Throw(c) \/ Block(c) \/ Finish(c) \/ Interrupt(c)
           \/ \E o \in Ctx : SendReq(c, o)
    PROVE  Progs' /\ Slots' /\ Once' /\ Fresh'
  <1> USE CtxAssumption
  <1>0. ASSUME cur = c
        PROVE  /\ s[c] \in states[c] /\ s[c] \in ReqId
               /\ code[c][s[c]] \in Code /\ at[c][s[c]] \in Nat /\ at[c][s[c]] >= 1
               /\ Now(c) # "odd"
    <2>1. /\ s[c] \in states[c] /\ s[c] \in ReqId
          /\ code[c][s[c]] \in Code /\ at[c][s[c]] \in Nat /\ at[c][s[c]] >= 1
      BY <1>0 DEF OnceInv, GuardInv, Shapes, Running, Progs
    <2>2. CASE at[c][s[c]] <= Len(Chain(code[c][s[c]]))
      <3>1. at[c][s[c]] \in 1 .. Len(Chain(code[c][s[c]]))
        BY <2>1, <2>2, ChainLen
      <3>2. Now(c) = Chain(code[c][s[c]])[at[c][s[c]]]
        BY <2>2 DEF Now
      <3> QED
        BY <2>1, <3>1, <3>2, ChainNoOdd
    <2>3. CASE ~(at[c][s[c]] <= Len(Chain(code[c][s[c]])))
      BY <2>1, <2>3 DEF Now
    <2> QED
      BY <2>1, <2>2, <2>3
  <1>a. nextId \in Nat
    BY DEF OnceInv, GuardInv, Shapes
  <1>b. ASSUME Advance(c), cur = c, UNCHANGED <<states, code, got, peer>>,
               nextId' \in Nat, nextId' >= nextId
        PROVE  Progs' /\ Once' /\ Fresh'
    <2>1. Progs'
      BY <1>b, <1>0 DEF Advance, OnceInv, Progs
    <2>2. Once'
      BY <1>b DEF OnceInv, Once
    <2>3. Fresh'
      BY <1>a, <1>b, FreshKept DEF OnceInv, Used
    <2> QED
      BY <2>1, <2>2, <2>3
  <1>1. CASE Evaluate(c)
    <2>1. Progs' /\ Once' /\ Fresh'
      BY <1>1, <1>a, <1>b DEF Evaluate, reqVars, rspVars
    <2>2. CASE ~Final(c)
      BY <1>1, <2>1, <2>2 DEF Evaluate, OnceInv, Slots
    <2>3. CASE Final(c)
      <3> DEFINE v == [kind |-> CASE Now(c) = "odd" -> "odd"
                                  [] Now(c) = "val" -> "value"
                                  [] OTHER -> x[c].kind,
                       id |-> 0, of |-> s[c]]
      <3>1. /\ last' = [last EXCEPT ![c] = v] /\ UNCHANGED x /\ cur = c
            /\ \/ Now(c) \in {"val", "odd"}
               \/ Now(c) \in {"use", "silent"} /\ x[c].kind \in {"value", "error"}
        BY <1>1, <2>3 DEF Evaluate
      <3>2. v.kind \in {"value", "error"} /\ v.id = 0 /\ v.of \in ReqId
        BY <3>1, <1>0
      <3>3. v \in Slot
        BY <3>2 DEF Slot
      <3> HIDE DEF v
      <3>4. Slots'
        BY <3>1, <3>2, <3>3 DEF OnceInv, Slots
      <3> QED
        BY <2>1, <3>4
    <2> QED
      BY <2>2, <2>3
  <1>2. CASE Throw(c)
    <2>1. /\ End(c, s[c], [kind |-> "error", of |-> s[c]]) /\ cur = c
          /\ UNCHANGED <<peer, last, x>> /\ nextId' \in Nat /\ nextId' >= nextId
      BY <1>2, <1>a DEF Throw, reqVars, envVars
    <2>2. [kind |-> "error", of |-> s[c]] \in Outcome
      BY <2>1, <1>0 DEF Outcome
    <2> QED
      BY <2>1, <2>2, <1>0, OnceEnd DEF OnceInv, Slots
  <1>3. CASE Block(c)
    <2>1. /\ UNCHANGED <<states, code, got, nextId, peer, at, last, x>>
      BY <1>3 DEF Block, reqVars, rspVars, envVars
    <2> QED
      BY <2>1, <1>a, QuietStep DEF OnceInv, Slots
  <1>4. CASE Finish(c)
    <2> DEFINE v == IF Silent(c) THEN [kind |-> "TRUE", of |-> s[c]]
                    ELSE [kind |-> last[c].kind, of |-> last[c].of]
    <2>1. last[c] \in Slot /\ last[c].kind # "odd"
      BY DEF OnceInv, Slots
    <2>2. cur = c
      BY <1>4 DEF Finish
    <2>3. v \in Outcome /\ v.kind # "odd"
      BY <2>1, <2>2, <1>0 DEF Outcome, Slot
    <2>4. End(c, s[c], v) /\ UNCHANGED <<nextId, peer, last, x>>
      BY <1>4, <2>3 DEF Finish, reqVars, envVars
    <2> HIDE DEF v
    <2> QED
      BY <2>2, <2>3, <2>4, <1>0, <1>a, OnceEnd DEF OnceInv, Slots
  <1>5. CASE Interrupt(c)
    <2>1. /\ End(c, s[c], [kind |-> "error", of |-> s[c]]) /\ cur = c
          /\ UNCHANGED <<nextId, peer, last, x>>
      BY <1>5 DEF Interrupt, reqVars, envVars
    <2>2. [kind |-> "error", of |-> s[c]] \in Outcome
      BY <2>1, <1>0 DEF Outcome
    <2> QED
      BY <2>1, <2>2, <1>0, <1>a, OnceEnd DEF OnceInv, Slots
  <1>6. ASSUME NEW o \in Ctx, SendReq(c, o) PROVE Progs' /\ Slots' /\ Once' /\ Fresh'
    <2> DEFINE future == [kind |-> "future", id |-> nextId, of |-> s[c]]
    <2>1. /\ cur = c /\ nextId \in Id /\ nextId' = nextId + 1 /\ Advance(c)
          /\ UNCHANGED <<states, code, got, peer>>
          /\ x' = x \/ x' = [x EXCEPT ![c] = future]
          /\ last' = last \/ last' = [last EXCEPT ![c] = future]
      BY <1>6 DEF SendReq, reqVars, OnceInv, GuardInv, Shapes, Id
    <2>2. Progs' /\ Once' /\ Fresh'
      BY <2>1, <1>a, <1>b
    <2>3. future \in Slot /\ future.kind # "odd"
      BY <2>1, <1>0 DEF Slot
    <2> HIDE DEF future
    <2>4. Slots'
      BY <2>1, <2>3 DEF OnceInv, Slots
    <2> QED
      BY <2>2, <2>4
  <1> QED
    BY <1>1, <1>2, <1>3, <1>4, <1>5, <1>6

\* Requests and lines: what gets a state had neither a state nor an answer.
LEMMA OnceRequest ==
    ASSUME OnceInv,
           \/ ProcessReqData
           \/ \E c \in Ctx, q \in PeerId :
                 ReadReqPart(c, q) \/ ReadReqData(c, q) \/ ReadReqTail(c, q)
    PROVE  Progs' /\ Slots' /\ Once' /\ Fresh'
  <1> USE CtxAssumption
  <1>0. nextId \in Nat /\ states \in [Ctx -> SUBSET ReqId] /\ ReqId \subseteq Nat
    BY DEF OnceInv, GuardInv, Shapes, ReqId, Id
  <1>1. ASSUME NEW c \in Ctx, NEW q \in ReqId, NEW p \in Code, Start(c, q, p), ~Used(c, q),
               UNCHANGED <<got, last, x>>
        PROVE  /\ Progs' /\ Slots' /\ Once'
               /\ \A d \in Ctx, r \in ReqId :
                     Used(d, r)' => Used(d, r) \/ (d = c /\ r = q)
    <2>0. /\ states' = [states EXCEPT ![c] = @ \cup {q}]
          /\ code' = [code EXCEPT ![c][q] = p]
          /\ at' = [at EXCEPT ![c][q] = 1]
          /\ got[c][q] = << >>
      BY <1>1 DEF Start, Used
    <2>1. Progs'
      BY <1>0, <2>0 DEF OnceInv, Progs
    <2>2. Slots'
      BY <1>1 DEF OnceInv, Slots
    <2>3. Once'
      BY <1>0, <1>1, <2>0 DEF OnceInv, Once
    <2>4. \A d \in Ctx, r \in ReqId : Used(d, r)' => Used(d, r) \/ (d = c /\ r = q)
      BY <1>0, <1>1, <2>0 DEF Used
    <2> QED
      BY <2>1, <2>2, <2>3, <2>4
  <1>2. CASE ProcessReqData
    <2>1. PICK p \in Code : Start(LocalCtx, nextId, p)
      BY <1>2 DEF ProcessReqData
    <2>2. /\ nextId \in ReqId /\ nextId' = nextId + 1 /\ UNCHANGED <<got, last, x, peer>>
      BY <1>2 DEF ProcessReqData, OnceInv, GuardInv, Shapes, ReqId, Id, reqVars, envVars
    <2>3. ~Used(LocalCtx, nextId)
      BY <1>0, <2>2 DEF OnceInv, Fresh
    <2>4. /\ Progs' /\ Slots' /\ Once'
          /\ \A d \in Ctx, r \in ReqId :
                Used(d, r)' => Used(d, r) \/ (d = LocalCtx /\ r = nextId)
      BY <1>1, <2>1, <2>2, <2>3
    <2>5. Fresh'
      BY <1>0, <2>2, <2>4 DEF OnceInv, Fresh
    <2> QED
      BY <2>4, <2>5
  <1>3. ASSUME NEW c \in Ctx, NEW q \in PeerId, ReadReqPart(c, q) \/ ReadReqTail(c, q)
        PROVE  Progs' /\ Slots' /\ Once' /\ Fresh'
    <2>1. UNCHANGED <<states, code, got, nextId, at, last, x>>
      BY <1>3 DEF ReadReqPart, ReadReqTail, runVars, rspVars, envVars
    <2>2. /\ peer[c][q] # "sent"
          /\ \E v \in {"begun", "sent"} : peer' = [peer EXCEPT ![c][q] = v]
      BY <1>3 DEF ReadReqPart, ReadReqTail
    <2>3. Progs' /\ Slots' /\ Once'
      BY <2>1 DEF OnceInv, Progs, Slots, Once
    <2>4. Fresh'
      BY <2>1, <2>2 DEF OnceInv, Fresh, Used
    <2> QED
      BY <2>3, <2>4
  <1>4. ASSUME NEW c \in Ctx, NEW q \in PeerId, ReadReqData(c, q)
        PROVE  Progs' /\ Slots' /\ Once' /\ Fresh'
    <2>1. PICK p \in Code : Start(c, q, p)
      BY <1>4 DEF ReadReqData
    <2>2. /\ c # LocalCtx /\ q \in ReqId /\ peer[c][q] # "sent"
          /\ peer' = [peer EXCEPT ![c][q] = "sent"]
          /\ UNCHANGED <<got, last, x, nextId>>
      BY <1>4 DEF ReadReqData, MaySend, rspVars, envVars, ReqId
    <2>3. ~Used(c, q)
      BY <2>2 DEF OnceInv, Fresh
    <2>4. /\ Progs' /\ Slots' /\ Once'
          /\ \A d \in Ctx, r \in ReqId : Used(d, r)' => Used(d, r) \/ (d = c /\ r = q)
      BY <1>1, <2>1, <2>2, <2>3
    <2>5. Fresh'
      BY <2>2, <2>4 DEF OnceInv, Fresh
    <2> QED
      BY <2>4, <2>5
  <1> QED
    BY <1>2, <1>3, <1>4

\* Responses: one that finds no state is dropped, one that finds its state
\* resumes or ends it.
LEMMA OnceResponse ==
    ASSUME OnceInv, NEW r \in inflight,
           \/ DropRsp(r) \/ MisplacedRsp(r)
           \/ \E kind \in {"value", "error"} : ReadRspData(r, kind)
    PROVE  Progs' /\ Slots' /\ Once' /\ Fresh'
  <1> USE CtxAssumption
  <1>0. /\ r.ctx \in Ctx /\ r.src \in ReqId /\ r.opener \in Ctx
        /\ nextId \in Nat /\ states \in [Ctx -> SUBSET ReqId]
    BY DEF OnceInv, GuardInv, Shapes, Request
  <1>1. CASE DropRsp(r)
    <2>1. UNCHANGED <<states, code, got, nextId, peer, at, last, x>>
      BY <1>1 DEF DropRsp, reqVars, runVars, envVars
    <2> QED
      BY <2>1, <1>0, QuietStep DEF OnceInv, Slots
  <1>2. CASE MisplacedRsp(r)
    <2>1. /\ states' = [states EXCEPT ![r.opener] = @ \ {r.src}]
          /\ code' = [code EXCEPT ![r.opener][r.src] = << >>]
          /\ at' = [at EXCEPT ![r.opener][r.src] = 0]
          /\ UNCHANGED <<got, nextId, peer, last, x>>
      BY <1>2 DEF MisplacedRsp, Erase, reqVars, envVars
    <2>2. Progs'
      <3>1. /\ code' \in [Ctx -> [ReqId -> Code \cup {<< >>}]]
            /\ at' \in [Ctx -> [ReqId -> Nat]]
        BY <1>0, <2>1 DEF OnceInv, Progs
      <3>2. ASSUME NEW d \in Ctx, NEW q \in states'[d]
            PROVE  q \in states[d] /\ code'[d][q] = code[d][q] /\ at'[d][q] = at[d][q]
        BY <1>0, <2>1 DEF OnceInv, Progs
      <3> QED
        BY <3>1, <3>2 DEF OnceInv, Progs
    <2>3. \A d \in Ctx : states'[d] \subseteq states[d]
      BY <1>0, <2>1
    <2>4. Slots' /\ Once'
      BY <2>1, <2>3 DEF OnceInv, Slots, Once
    <2>5. Fresh'
      BY <1>0, <2>1, <2>3, FreshKept DEF OnceInv, Used
    <2> QED
      BY <2>2, <2>4, <2>5
  <1>3. ASSUME NEW kind \in {"value", "error"}, ReadRspData(r, kind)
        PROVE  Progs' /\ Slots' /\ Once' /\ Fresh'
    <2>1. ASSUME NEW slot \in Slot, slot.kind # "odd"
          PROVE  Fill(slot, r.id, kind) \in Slot /\ Fill(slot, r.id, kind).kind # "odd"
      BY <2>1 DEF Fill, Slot
    <2>2. /\ x' = [x EXCEPT ![r.ctx] = Fill(@, r.id, kind)]
          /\ last' = [last EXCEPT ![r.ctx] = Fill(@, r.id, kind)]
      BY <1>3 DEF ReadRspData
    <2>3. Slots'
      BY <1>0, <2>1, <2>2 DEF OnceInv, Slots
    <2>4. /\ r.src \in states[r.ctx] /\ UNCHANGED <<nextId, peer>>
          /\ \/ End(r.ctx, r.src, [kind |-> "error", of |-> r.src])
             \/ UNCHANGED <<states, code, at, got>>
      BY <1>3 DEF ReadRspData, reqVars
    <2>5. CASE End(r.ctx, r.src, [kind |-> "error", of |-> r.src])
      <3>1. [kind |-> "error", of |-> r.src] \in Outcome
        BY <1>0 DEF Outcome
      <3> QED
        BY <2>3, <2>4, <2>5, <3>1, <1>0, OnceEnd
    <2>6. CASE UNCHANGED <<states, code, at, got>>
      BY <2>3, <2>4, <2>6, <1>0, QuietStep
    <2> QED
      BY <2>4, <2>5, <2>6
  <1> QED
    BY <1>1, <1>2, <1>3

\* The event loop: what is collected is answered at most now, and forgotten.
LEMMA OnceLoop ==
    ASSUME OnceInv, AgeRsp \/ AgeReq \/ Gc \/ Reset
    PROVE  Progs' /\ Slots' /\ Once' /\ Fresh'
  <1> USE CtxAssumption
  <1>0. nextId \in Nat /\ states \in [Ctx -> SUBSET ReqId]
    BY DEF OnceInv, GuardInv, Shapes
  <1>1. CASE AgeRsp \/ AgeReq
    <2>1. UNCHANGED <<states, code, got, nextId, peer, at, last, x>>
      BY <1>1 DEF AgeRsp, AgeReq, reqVars, runVars, rspVars, envVars
    <2> QED
      BY <2>1, <1>0, QuietStep DEF OnceInv, Slots
  <1>2. CASE Gc
    <2>0. UNCHANGED <<nextId, peer, last, x>>
      BY <1>2 DEF Gc, envVars
    <2>1. \A c \in Ctx : Expired(c) \subseteq states[c]
      BY DEF Expired
    <2>2. /\ states' = [c \in Ctx |-> states[c] \ Expired(c)]
          /\ code' = [c \in Ctx |-> [q \in ReqId |->
                        IF q \in Expired(c) THEN << >> ELSE code[c][q]]]
          /\ at' = [c \in Ctx |-> [q \in ReqId |->
                      IF q \in Expired(c) THEN 0 ELSE at[c][q]]]
      BY <1>2 DEF Gc
    <2>3. Progs'
      <3>1. /\ code' \in [Ctx -> [ReqId -> Code \cup {<< >>}]]
            /\ at' \in [Ctx -> [ReqId -> Nat]]
        BY <2>2 DEF OnceInv, Progs
      <3>2. ASSUME NEW d \in Ctx, NEW q \in states'[d]
            PROVE  q \in states[d] /\ code'[d][q] = code[d][q] /\ at'[d][q] = at[d][q]
        BY <1>0, <2>2
      <3> QED
        BY <3>1, <3>2 DEF OnceInv, Progs
    <2>4. ASSUME NEW c \in Ctx, NEW q \in ReqId
          PROVE  \/ got'[c][q] = got[c][q] /\ (q \in states'[c] => q \in states[c])
                 \/ /\ q \in Expired(c) /\ q \notin states'[c] /\ got[c][q] = << >>
                    /\ got'[c][q] = Append(<< >>, [kind |-> "timeout", of |-> q])
      <3>1. got'[c][q] = IF q \in Expired(c) /\ q = s[c]
                         THEN Append(got[c][q], [kind |-> "timeout", of |-> q]) ELSE got[c][q]
        BY <1>2 DEF Gc
      <3>2. q \in Expired(c) => got[c][q] = << >>
        BY <2>1 DEF OnceInv, Once
      <3> QED
        BY <2>2, <3>1, <3>2
    <2>5. ASSUME NEW q \in ReqId
          PROVE  /\ Append(<< >>, [kind |-> "timeout", of |-> q]) \in Seq(Outcome)
                 /\ Len(Append(<< >>, [kind |-> "timeout", of |-> q])) = 1
      <3>1. [kind |-> "timeout", of |-> q] \in Outcome
        BY DEF Outcome
      <3> QED
        BY <3>1
    <2>6. Once'
      <3>1. got' = [c \in Ctx |-> [q \in ReqId |->
                 IF q \in Expired(c) /\ q = s[c]
                 THEN Append(got[c][q], [kind |-> "timeout", of |-> q]) ELSE got[c][q]]]
        BY <1>2 DEF Gc
      <3>2. ASSUME NEW c \in Ctx, NEW q \in ReqId PROVE got'[c][q] \in Seq(Outcome)
        <4>1. CASE got'[c][q] = got[c][q]
          <5>1. got[c][q] \in Seq(Outcome)
            BY DEF OnceInv, Once
          <5> QED
            BY <4>1, <5>1, Zenon
        <4>2. CASE got'[c][q] = Append(<< >>, [kind |-> "timeout", of |-> q])
          BY <4>2, <2>5, Zenon
        <4> QED
          BY <4>1, <4>2, <2>4
      <3>3. got' \in [Ctx -> [ReqId -> Seq(Outcome)]]
        BY <3>1, <3>2
      <3>4. ASSUME NEW c \in Ctx, NEW q \in ReqId
            PROVE  got'[c][q] = << >> \/ (q \notin states'[c] /\ Len(got'[c][q]) = 1)
        <4>1. CASE got'[c][q] = got[c][q] /\ (q \in states'[c] => q \in states[c])
          <5>1. got[c][q] = << >> \/ (q \notin states[c] /\ Len(got[c][q]) = 1)
            BY DEF OnceInv, Once
          <5> QED
            BY <4>1, <5>1, Zenon
        <4>2. CASE /\ q \notin states'[c]
                   /\ got'[c][q] = Append(<< >>, [kind |-> "timeout", of |-> q])
          BY <4>2, <2>5, Zenon
        <4> QED
          BY <4>1, <4>2, <2>4
      <3> QED
        BY <3>3, <3>4 DEF Once
    <2>7. Fresh'
      <3>1. \A c \in Ctx, q \in ReqId : Used(c, q)' => Used(c, q)
        BY <2>1, <2>4 DEF Used
      <3> QED
        BY <1>0, <2>0, <3>1, FreshKept DEF OnceInv
    <2>8. Slots'
      BY <2>0 DEF OnceInv, Slots
    <2> QED
      BY <2>3, <2>6, <2>7, <2>8
  <1>3. CASE Reset
    <2>1. /\ states' = [states EXCEPT ![LocalCtx] = {}]
          /\ code' = [code EXCEPT ![LocalCtx] = [q \in ReqId |-> << >>]]
          /\ at' = [at EXCEPT ![LocalCtx] = [q \in ReqId |-> 0]]
          /\ UNCHANGED <<got, nextId, peer, last, x>>
      BY <1>3 DEF Reset, envVars
    <2>2. Progs'
      BY <1>0, <2>1 DEF OnceInv, Progs
    <2>3. \A d \in Ctx : states'[d] \subseteq states[d]
      BY <1>0, <2>1
    <2>4. Slots' /\ Once'
      BY <2>1, <2>3 DEF OnceInv, Slots, Once
    <2>5. Fresh'
      BY <1>0, <2>1, <2>3, FreshKept DEF OnceInv, Used
    <2> QED
      BY <2>2, <2>4, <2>5
  <1> QED
    BY <1>1, <1>2, <1>3

\* Initially nothing has been sent, interpreted or answered.
LEMMA OnceInit == Init => OnceInv
  <1> SUFFICES ASSUME Init PROVE OnceInv
    OBVIOUS
  <1> USE CtxAssumption
  <1>0. /\ peer = [c \in Ctx |-> [q \in PeerId |-> "new"]]
        /\ states = [c \in Ctx |-> {}]
        /\ code = [c \in Ctx |-> [q \in ReqId |-> << >>]]
        /\ at = [c \in Ctx |-> [q \in ReqId |-> 0]]
        /\ last = [c \in Ctx |-> Empty] /\ x = [c \in Ctx |-> Empty]
        /\ got = [c \in Ctx |-> [q \in ReqId |-> << >>]]
    BY DEF Init
  <1>1. Progs
    BY <1>0 DEF Progs
  <1>2. Slots
    <2>1. Empty \in Slot /\ Empty.kind # "odd"
      BY DEF Empty, Slot
    <2> QED
      BY <1>0, <2>1 DEF Slots
  <1>3. Once
    BY <1>0 DEF Once
  <1>4. Fresh
    BY <1>0 DEF Fresh, Used
  <1> QED
    BY <1>1, <1>2, <1>3, <1>4, GuardInit DEF OnceInv

\* Every step keeps the invariant.
LEMMA OnceStep == NoOdd /\ OnceInv /\ [Next]_vars => OnceInv'
  <1> SUFFICES ASSUME NoOdd, OnceInv, [Next]_vars PROVE OnceInv'
    OBVIOUS
  <1>0. GuardInv'
    BY GuardStep DEF OnceInv
  <1>1. CASE UNCHANGED vars
    <2>1. UNCHANGED <<states, code, at, got, nextId, peer, last, x>>
      BY <1>1 DEF vars, reqVars, runVars, rspVars, envVars
    <2> QED
      BY <1>0, <2>1 DEF OnceInv, Progs, Slots, Once, Fresh, Used
  <1>2. CASE Next
    <2>1. Progs' /\ Slots' /\ Once' /\ Fresh'
      BY <1>2, OnceInterpret, OnceRequest, OnceResponse, OnceLoop DEF Next, Interpret
    <2> QED
      BY <1>0, <2>1 DEF OnceInv
  <1> QED
    BY <1>1, <1>2

\* No request and no line is answered twice, for any number of contexts and
\* programs, whatever is pipelined, late, expired or interrupted, as long as
\* no program evaluates to a value that cannot be transmitted.
THEOREM AnsweredAtMostOnce == ASSUME NoOdd PROVE Spec => []AnsweredOnce
  <1>1. OnceInv => AnsweredOnce
    <2> SUFFICES ASSUME OnceInv, NEW c \in Ctx, NEW q \in ReqId
                 PROVE  Len(got[c][q]) <= 1
      BY DEF AnsweredOnce
    <2>1. Len(<< >>) = 0
      OBVIOUS
    <2>2. Len(got[c][q]) = 0 \/ Len(got[c][q]) = 1
      BY <2>1, Zenon DEF OnceInv, Once
    <2>3. ASSUME NEW n, n = 0 \/ n = 1 PROVE n <= 1
      BY <2>3
    <2> QED
      BY <2>2, <2>3, Zenon
  <1>2. OnceInv /\ [Next]_vars => OnceInv'
    BY OnceStep
  <1> QED
    BY OnceInit, <1>1, <1>2, PTL DEF Spec

-----------------------------------------------------------------------------
(***************************************************************************)
(* The answers: their type, which says that no unfinished value is sent,   *)
(* and that a request is answered with what its own code evaluated to.     *)
(***************************************************************************)

\* The value of a program is shown unless the program ends in an assignment.
Shown(p) == p[Len(p)] # "set"

\* A state has evaluated the last statement of a program that shows its value.
Done(c, q) == Shown(code[c][q]) /\ at[c][q] > Len(code[c][q])

ReqOK  == /\ peer \in [Ctx -> [PeerId -> {"new", "begun", "sent"}]]
          /\ requests \in [Ctx -> SUBSET PeerId] /\ oldReq \in [Ctx -> SUBSET PeerId]
RunOK  == /\ states \in [Ctx -> SUBSET ReqId] /\ s \in [Ctx -> ReqId \cup {NoReq}]
          /\ cur \in Ctx \cup {NoCtx} /\ Running
RspOK  == /\ responses \subseteq Request /\ inflight \subseteq Request
          /\ horizon \in 0 .. MaxId /\ nextId \in 1 .. MaxId + 1
EnvOK  == last \in [Ctx -> Slot] /\ x \in [Ctx -> Slot]
UserOK == keyboard \in BOOLEAN /\ lines \in 0 .. MaxLines /\ ints \in 0 .. MaxInt
          /\ crossed \in BOOLEAN
GotOK  == got \in [Ctx -> [ReqId -> Seq(Answer)]]

(***************************************************************************)
(* TypeOK is not inductive: an answer is never an unfinished value because *)
(* the last statement of a program leaves something in .Last.value         *)
(* (LastSet).                                                              *)
(***************************************************************************)
LastSet == \A c \in Ctx : \A q \in states[c] : Done(c, q) => last[c].kind # "none"

TypeInv == ReqOK /\ RunOK /\ RspOK /\ EnvOK /\ UserOK /\ GotOK /\ Progs /\ LastSet

LEMMA TypeInvTypes == TypeInv => TypeOK
  BY Zenon DEF TypeInv, TypeOK, ReqOK, RunOK, RspOK, EnvOK, UserOK, GotOK, Progs, Running

\* What is interpreted after the program itself.
LEMMA ChainShape ==
    ASSUME NEW p \in Code
    PROVE  /\ Len(p) \in Nat \ {0}
           /\ \A i \in 1 .. Len(p) : Chain(p)[i] = p[i] /\ p[i] \in Stmt
           /\ Shown(p) => Chain(p) = p
           /\ ~Shown(p) => Len(Chain(p)) = Len(p) + 1 /\ Chain(p)[Len(p) + 1] = "silent"
  <1>1. p \in Seq(Stmt) /\ p # << >>
    BY CtxAssumption
  <1>2. Len(p) \in Nat \ {0}
    BY <1>1
  <1>3. \A i \in 1 .. Len(p) : p[i] \in Stmt
    BY <1>1
  <1>4. CASE Shown(p)
    BY <1>2, <1>3, <1>4 DEF Shown, Chain
  <1>5. CASE ~Shown(p)
    <2>1. Chain(p) = Append(p, "silent")
      BY <1>5 DEF Shown, Chain
    <2>2. /\ Len(Append(p, "silent")) = Len(p) + 1
          /\ \A i \in 1 .. Len(p) : Append(p, "silent")[i] = p[i]
          /\ Append(p, "silent")[Len(p) + 1] = "silent"
      BY <1>1
    <2> QED
      BY <1>2, <1>3, <1>5, <2>1, <2>2
  <1> QED
    BY <1>4, <1>5

\* What is known while interpret() runs.
Runs(c) ==
    /\ s[c] \in states[c] /\ s[c] \in ReqId
    /\ code[c][s[c]] \in Code /\ at[c][s[c]] \in Nat /\ at[c][s[c]] >= 1
    /\ Silent(c) <=> ~Shown(code[c][s[c]])
    /\ Now(c) = "end" /\ ~Silent(c) => Done(c, s[c])
    /\ Shown(code[c][s[c]]) /\ Now(c) # "end" => at[c][s[c]] <= Len(code[c][s[c]])
    /\ Shown(code[c][s[c]]) /\ at[c][s[c]] = Len(code[c][s[c]]) =>
          Final(c) /\ Now(c) = code[c][s[c]][Len(code[c][s[c]])]

LEMMA RunsNow ==
    ASSUME TypeInv, NEW c \in Ctx, cur = c
    PROVE  Runs(c)
  <1> DEFINE p == code[c][s[c]]
             i == at[c][s[c]]
  <1>1. s[c] \in states[c] /\ s[c] \in ReqId /\ p \in Code /\ i \in Nat /\ i >= 1
    BY CtxAssumption DEF TypeInv, RunOK, Running, Progs
  <1>2. /\ Now(c) = IF i <= Len(Chain(p)) THEN Chain(p)[i] ELSE "end"
        /\ Final(c) <=> i = Len(Chain(p))
        /\ Silent(c) <=> Chain(p)[Len(Chain(p))] = "silent"
        /\ Done(c, s[c]) <=> Shown(p) /\ i > Len(p)
    BY DEF Now, Final, Silent, Done
  <1> HIDE DEF p, i
  <1>3. /\ Len(p) \in Nat \ {0}
        /\ \A j \in 1 .. Len(p) : Chain(p)[j] = p[j] /\ p[j] \in Stmt
        /\ Shown(p) => Chain(p) = p
        /\ ~Shown(p) => Len(Chain(p)) = Len(p) + 1 /\ Chain(p)[Len(p) + 1] = "silent"
    BY <1>1, ChainShape
  <1>4. "silent" \notin Stmt /\ "end" \notin Stmt
    BY DEF Stmt
  <1>5. CASE Shown(p)
    <2>1. p[Len(p)] # "silent"
      BY <1>3, <1>4
    <2>2. i <= Len(p) => Now(c) = p[i] /\ p[i] # "end"
      BY <1>1, <1>2, <1>3, <1>4, <1>5
    <2>3. /\ Silent(c) <=> ~Shown(p)
          /\ Now(c) = "end" /\ ~Silent(c) => Done(c, s[c])
          /\ Shown(p) /\ Now(c) # "end" => i <= Len(p)
          /\ Shown(p) /\ i = Len(p) => Final(c) /\ Now(c) = p[Len(p)]
      BY <1>1, <1>2, <1>3, <1>5, <2>1, <2>2
    <2> QED
      BY <1>1, <2>3 DEF Runs, p, i
  <1>6. CASE ~Shown(p)
    <2>1. Silent(c)
      BY <1>2, <1>3, <1>6
    <2> QED
      BY <1>1, <1>6, <2>1 DEF Runs, p, i
  <1> QED
    BY <1>5, <1>6

(***************************************************************************)
(* Steps that touch no state, and steps that only take states away.        *)
(***************************************************************************)
\* The states that are left are as they were, and .Last.value is not lost.
Shrinks ==
    /\ code' \in [Ctx -> [ReqId -> Code \cup {<< >>}]]
    /\ at' \in [Ctx -> [ReqId -> Nat]]
    /\ \A d \in Ctx : \A r \in states'[d] :
          r \in states[d] /\ code'[d][r] = code[d][r] /\ at'[d][r] = at[d][r]
    /\ \A d \in Ctx : last'[d].kind = "none" => last[d].kind = "none"

LEMMA TypeShrinks == TypeInv /\ Shrinks => Progs' /\ LastSet'
  <1> SUFFICES ASSUME TypeInv, Shrinks PROVE Progs' /\ LastSet'
    OBVIOUS
  <1>1. Progs'
    BY DEF TypeInv, Progs, Shrinks
  <1>2. ASSUME NEW d \in Ctx, NEW r \in states'[d], Done(d, r)' PROVE last'[d].kind # "none"
    <2>1. /\ r \in states[d] /\ code'[d][r] = code[d][r] /\ at'[d][r] = at[d][r]
          /\ last'[d].kind = "none" => last[d].kind = "none"
      BY DEF Shrinks
    <2>2. Done(d, r)
      BY <1>2, <2>1 DEF Done
    <2> QED
      BY <2>1, <2>2 DEF TypeInv, LastSet
  <1>3. LastSet'
    BY <1>2 DEF LastSet
  <1> QED
    BY <1>1, <1>3

LEMMA ShrinksQuiet == TypeInv /\ UNCHANGED <<states, code, at, last>> => Shrinks
  BY DEF TypeInv, Progs, Shrinks

\* states.erase.
LEMMA ShrinksErase ==
    ASSUME TypeInv, NEW c \in Ctx, NEW q \in ReqId, Erase(c, q),
           \A d \in Ctx : last'[d].kind = "none" => last[d].kind = "none"
    PROVE  /\ Shrinks /\ responses' \subseteq Request
           /\ states' \in [Ctx -> SUBSET ReqId]
           /\ states' = [states EXCEPT ![c] = @ \ {q}]
  <1>1. /\ states' = [states EXCEPT ![c] = @ \ {q}]
        /\ code' = [code EXCEPT ![c][q] = << >>]
        /\ at' = [at EXCEPT ![c][q] = 0]
        /\ responses' \subseteq responses
        /\ states \in [Ctx -> SUBSET ReqId]
        /\ code \in [Ctx -> [ReqId -> Code \cup {<< >>}]]
        /\ at \in [Ctx -> [ReqId -> Nat]]
    BY DEF Erase, TypeInv, RunOK, Progs
  <1>2. /\ code' \in [Ctx -> [ReqId -> Code \cup {<< >>}]]
        /\ at' \in [Ctx -> [ReqId -> Nat]]
    BY <1>1
  <1>3. ASSUME NEW d \in Ctx, NEW r \in states'[d]
        PROVE  r \in states[d] /\ code'[d][r] = code[d][r] /\ at'[d][r] = at[d][r]
    BY <1>1
  <1> QED
    BY <1>1, <1>2, <1>3 DEF Shrinks, TypeInv, RspOK

\* The state of a request that has ended is gone, and its answer sent.
LEMMA TypeEnd ==
    ASSUME TypeInv, NEW c \in Ctx, NEW q \in states[c], NEW a \in Answer, End(c, q, a),
           \A d \in Ctx : last'[d].kind = "none" => last[d].kind = "none"
    PROVE  /\ RunOK' /\ responses' \subseteq Request /\ GotOK' /\ keyboard' \in BOOLEAN
           /\ Progs' /\ LastSet'
  <1>1. q \in ReqId
    BY DEF TypeInv, RunOK
  <1>2. Erase(c, q)
    BY DEF End
  <1>3. /\ Shrinks /\ responses' \subseteq Request /\ states' \in [Ctx -> SUBSET ReqId]
    BY <1>1, <1>2, ShrinksErase
  <1>4. RunOK'
    BY <1>3, CtxAssumption DEF End, TypeInv, RunOK, Running
  <1>5. GotOK'
    <2>1. got[c][q] \in Seq(Answer)
      BY <1>1 DEF TypeInv, GotOK
    <2>2. Append(got[c][q], a) \in Seq(Answer)
      BY <2>1
    <2>3. got' = [got EXCEPT ![c][q] = Append(@, a)]
      BY DEF End
    <2> QED
      BY <1>1, <2>2, <2>3 DEF TypeInv, GotOK
  <1>6. keyboard' \in BOOLEAN
    BY Zenon DEF End
  <1> QED
    BY <1>3, <1>4, <1>5, <1>6, TypeShrinks

\* A statement has been evaluated; the last one has left its value.
LEMMA TypeAdvance ==
    ASSUME TypeInv, NEW c \in Ctx, cur = c, Advance(c), UNCHANGED <<states, code>>,
           \A d \in Ctx : last'[d].kind = "none" => last[d].kind = "none",
           Shown(code[c][s[c]]) /\ at[c][s[c]] = Len(code[c][s[c]]) => last'[c].kind # "none"
    PROVE  Progs' /\ LastSet'
  <1>0. Runs(c)
    BY RunsNow
  <1>1. /\ s[c] \in states[c] /\ s[c] \in ReqId /\ code[c][s[c]] \in Code
        /\ at[c][s[c]] \in Nat /\ at[c][s[c]] >= 1 /\ Len(code[c][s[c]]) \in Nat
    BY <1>0, ChainShape DEF Runs
  <1>2. /\ at' = [at EXCEPT ![c][s[c]] = @ + 1] /\ at \in [Ctx -> [ReqId -> Nat]]
        /\ states \in [Ctx -> SUBSET ReqId]
    BY DEF Advance, TypeInv, Progs, RunOK
  <1>3. /\ at' \in [Ctx -> [ReqId -> Nat]] /\ at'[c][s[c]] = at[c][s[c]] + 1
        /\ \A d \in Ctx : \A r \in ReqId : d # c \/ r # s[c] => at'[d][r] = at[d][r]
    BY <1>1, <1>2
  <1>4. Progs'
    BY <1>1, <1>2, <1>3 DEF TypeInv, Progs
  <1>5. ASSUME NEW d \in Ctx, NEW r \in states'[d], Done(d, r)' PROVE last'[d].kind # "none"
    <2>1. CASE d # c \/ r # s[c]
      <3>1. r \in states[d] /\ Done(d, r)
        BY <1>2, <1>3, <1>5, <2>1 DEF Done
      <3> QED
        BY <3>1 DEF TypeInv, LastSet
    <2>2. CASE d = c /\ r = s[c]
      <3>1. Shown(code[c][s[c]]) /\ at[c][s[c]] + 1 > Len(code[c][s[c]])
        BY <1>3, <1>5, <2>2 DEF Done
      <3>2. CASE at[c][s[c]] = Len(code[c][s[c]])
        BY <2>2, <3>1, <3>2
      <3>3. CASE at[c][s[c]] # Len(code[c][s[c]])
        <4>1. at[c][s[c]] > Len(code[c][s[c]])
          BY <1>1, <3>1, <3>3
        <4>2. Done(c, s[c])
          BY <3>1, <4>1 DEF Done
        <4> QED
          BY <1>1, <2>2, <4>2 DEF TypeInv, LastSet
      <3> QED
        BY <3>2, <3>3
    <2> QED
      BY <2>1, <2>2
  <1>6. LastSet'
    BY <1>5 DEF LastSet
  <1> QED
    BY <1>4, <1>6

LEMMA TypeEvaluate ==
    ASSUME TypeInv, NEW c \in Ctx, Evaluate(c)
    PROVE  TypeInv'
  <1> DEFINE v == [kind |-> CASE Now(c) = "odd" -> "odd"
                              [] Now(c) = "val" -> "value"
                              [] OTHER -> x[c].kind,
                   id |-> 0, of |-> s[c]]
  <1>1. /\ cur = c /\ Advance(c) /\ UNCHANGED <<states, code, s, cur, x, got, crossed>>
        /\ UNCHANGED <<reqVars, rspVars, userVars>>
        /\ last' = IF Final(c) THEN [last EXCEPT ![c] = v] ELSE last
        /\ \/ Now(c) \in {"val", "odd"}
           \/ Now(c) \in {"use", "silent"} /\ x[c].kind \in {"value", "error"}
    BY DEF Evaluate
  <1>2. Runs(c)
    BY <1>1, RunsNow
  <1>3. v.kind \in {"value", "error", "odd"} /\ v.id = 0 /\ v.of \in ReqId
    BY <1>1, <1>2 DEF Runs
  <1>4. v \in Slot
    BY <1>3 DEF Slot
  <1> HIDE DEF v
  <1>5. EnvOK'
    BY <1>1, <1>4 DEF TypeInv, EnvOK
  <1>6. /\ \A d \in Ctx : last'[d].kind = "none" => last[d].kind = "none"
        /\ Final(c) => last'[c].kind # "none"
    BY <1>1, <1>3 DEF TypeInv, EnvOK
  <1>7. Progs' /\ LastSet'
    BY <1>1, <1>2, <1>6, TypeAdvance DEF Runs
  <1>8. ReqOK' /\ RunOK' /\ RspOK' /\ GotOK'
    BY <1>1 DEF TypeInv, ReqOK, RunOK, RspOK, GotOK, Running, reqVars, rspVars
  <1>9. UserOK'
    BY <1>1, Zenon DEF TypeInv, UserOK, userVars
  <1> QED
    BY <1>5, <1>7, <1>8, <1>9 DEF TypeInv

LEMMA TypeSendReq ==
    ASSUME TypeInv, NEW c \in Ctx, NEW o \in Ctx, SendReq(c, o)
    PROVE  TypeInv'
  <1> DEFINE r == [id |-> nextId, ctx |-> c, src |-> s[c], opener |-> o]
             future == [kind |-> "future", id |-> nextId, of |-> s[c]]
  <1>1. /\ cur = c /\ Advance(c) /\ UNCHANGED <<states, code, s, cur, horizon, got, crossed>>
        /\ UNCHANGED <<reqVars, userVars>>
        /\ Now(c) \in {"ask", "set"} /\ nextId <= MaxId /\ nextId' = nextId + 1
        /\ responses' = responses \cup {r} /\ inflight' = inflight \cup {r}
        /\ x' = IF Now(c) = "set" THEN [x EXCEPT ![c] = future] ELSE x
        /\ last' = IF Now(c) = "ask" /\ Final(c) THEN [last EXCEPT ![c] = future] ELSE last
    BY DEF SendReq
  <1>2. Runs(c)
    BY <1>1, RunsNow
  <1>3. nextId \in Id /\ s[c] \in ReqId /\ nextId' \in 1 .. MaxId + 1
    BY <1>1, <1>2, CtxAssumption DEF Id, TypeInv, RspOK, Runs
  <1>4. r \in Request /\ future \in Slot /\ future.kind # "none"
    BY <1>3 DEF Request, Slot
  <1> HIDE DEF r, future
  <1>5. EnvOK'
    BY <1>1, <1>4 DEF TypeInv, EnvOK
  <1>6. /\ \A d \in Ctx : last'[d].kind = "none" => last[d].kind = "none"
        /\ Now(c) = "ask" /\ Final(c) => last'[c].kind # "none"
    BY <1>1, <1>4 DEF TypeInv, EnvOK
  <1>7. Shown(code[c][s[c]]) /\ at[c][s[c]] = Len(code[c][s[c]]) => last'[c].kind # "none"
    <2>1. Shown(code[c][s[c]]) /\ at[c][s[c]] = Len(code[c][s[c]]) => Final(c) /\ Now(c) # "set"
      BY <1>2 DEF Runs, Shown
    <2> QED
      BY <1>1, <1>6, <2>1
  <1>8. Progs' /\ LastSet'
    BY <1>1, <1>6, <1>7, TypeAdvance
  <1>9. ReqOK' /\ RunOK' /\ RspOK' /\ GotOK'
    BY <1>1, <1>3, <1>4 DEF TypeInv, ReqOK, RunOK, RspOK, GotOK, Running, reqVars
  <1>10. UserOK'
    BY <1>1, Zenon DEF TypeInv, UserOK, userVars
  <1> QED
    BY <1>5, <1>8, <1>9, <1>10 DEF TypeInv

\* The code has thrown, was interrupted, or has to wait.
LEMMA TypeStops ==
    ASSUME TypeInv, NEW c \in Ctx, Throw(c) \/ Interrupt(c) \/ Block(c)
    PROVE  TypeInv'
  <1>0. cur = c /\ Runs(c)
    BY RunsNow DEF Throw, Interrupt, Block
  <1>1. [kind |-> "error", of |-> s[c]] \in Answer
    BY <1>0 DEF Runs, Answer
  <1>2. CASE Throw(c) \/ Interrupt(c)
    <2>1. /\ End(c, s[c], [kind |-> "error", of |-> s[c]])
          /\ UNCHANGED <<reqVars, horizon, inflight, envVars, lines, crossed>>
          /\ nextId' \in 1 .. MaxId + 1 /\ ints' \in 0 .. MaxInt
      BY <1>2, CtxAssumption DEF Throw, Interrupt, TypeInv, RspOK, UserOK
    <2>2. UNCHANGED last
      BY <2>1 DEF envVars
    <2>3. /\ RunOK' /\ responses' \subseteq Request /\ GotOK' /\ keyboard' \in BOOLEAN
          /\ Progs' /\ LastSet'
      BY <1>0, <1>1, <2>1, <2>2, TypeEnd DEF Runs
    <2>4. ReqOK' /\ RspOK' /\ EnvOK'
      BY <2>1, <2>3 DEF TypeInv, ReqOK, RspOK, EnvOK, reqVars, envVars
    <2>5. UserOK'
      BY <2>1, <2>3, Zenon DEF TypeInv, UserOK
    <2> QED
      BY <2>3, <2>4, <2>5 DEF TypeInv
  <1>3. CASE Block(c)
    <2>1. /\ cur' = NoCtx
          /\ UNCHANGED <<reqVars, states, code, at, s, rspVars, envVars, userVars, got, crossed>>
      BY <1>3 DEF Block
    <2>2. Progs' /\ LastSet'
      BY <2>1, ShrinksQuiet, TypeShrinks DEF envVars
    <2>3. ReqOK' /\ RunOK' /\ RspOK' /\ EnvOK' /\ GotOK'
      BY <2>1 DEF TypeInv, ReqOK, RunOK, RspOK, EnvOK, GotOK, Running, reqVars, rspVars, envVars
    <2>4. UserOK'
      BY <2>1, Zenon DEF TypeInv, UserOK, userVars
    <2> QED
      BY <2>2, <2>3, <2>4 DEF TypeInv
  <1> QED
    BY <1>2, <1>3

\* The program has ended with a value, or with one that cannot be sent.
LEMMA TypeFinish ==
    ASSUME TypeInv, NEW c \in Ctx, Finish(c)
    PROVE  TypeInv'
  <1> DEFINE v == IF Silent(c) THEN [kind |-> "TRUE", of |-> s[c]]
                  ELSE [kind |-> last[c].kind, of |-> last[c].of]
             e == [v EXCEPT !.kind = "error"]
  <1>1. /\ cur = c /\ Now(c) = "end"
        /\ Silent(c) \/ last[c].kind # "future"
        /\ UNCHANGED <<reqVars, horizon, inflight, nextId, envVars, lines, ints, crossed>>
        /\ \/ End(c, s[c], v)
           \/ /\ got' = [got EXCEPT ![c][s[c]] = Append(@, e)]
              /\ cur' = NoCtx
              /\ UNCHANGED <<states, code, at, s, responses, keyboard>>
    BY DEF Finish
  <1>2. Runs(c)
    BY <1>1, RunsNow
  <1>3. v \in Answer /\ e \in Answer
    <2>1. CASE Silent(c)
      BY <1>2, <2>1 DEF Runs, Answer
    <2>2. CASE ~Silent(c)
      <3>1. last[c] \in Slot /\ last[c].kind # "none" /\ last[c].kind # "future"
        BY <1>1, <1>2, <2>2 DEF Runs, TypeInv, LastSet, EnvOK
      <3>2. last[c].kind \in {"value", "error", "odd"} /\ last[c].of \in ReqId \cup {NoReq}
        BY <3>1 DEF Slot
      <3> QED
        BY <2>2, <3>2 DEF Answer
    <2> QED
      BY <2>1, <2>2
  <1> HIDE DEF v, e
  <1>4. UNCHANGED last /\ s[c] \in states[c] /\ s[c] \in ReqId
    BY <1>1, <1>2 DEF envVars, Runs
  <1>5. /\ RunOK' /\ responses' \subseteq Request /\ GotOK' /\ keyboard' \in BOOLEAN
        /\ Progs' /\ LastSet'
    <2>1. CASE End(c, s[c], v)
      BY <1>3, <1>4, <2>1, TypeEnd
    <2>2. CASE /\ got' = [got EXCEPT ![c][s[c]] = Append(@, e)]
               /\ cur' = NoCtx
               /\ UNCHANGED <<states, code, at, s, responses, keyboard>>
      <3>1. Progs' /\ LastSet'
        BY <1>4, <2>2, ShrinksQuiet, TypeShrinks
      <3>2. RunOK' /\ responses' \subseteq Request
        BY <2>2 DEF TypeInv, RunOK, Running, RspOK
      <3>3. Append(got[c][s[c]], e) \in Seq(Answer)
        BY <1>3, <1>4 DEF TypeInv, GotOK
      <3>4. GotOK'
        BY <1>4, <2>2, <3>3 DEF TypeInv, GotOK
      <3>5. keyboard' \in BOOLEAN
        BY <2>2, Zenon DEF TypeInv, UserOK
      <3> QED
        BY <3>1, <3>2, <3>4, <3>5
    <2> QED
      BY <1>1, <2>1, <2>2
  <1>6. ReqOK' /\ RspOK' /\ EnvOK'
    BY <1>1, <1>5 DEF TypeInv, ReqOK, RspOK, EnvOK, reqVars, envVars
  <1>7. UserOK'
    BY <1>1, <1>5, Zenon DEF TypeInv, UserOK
  <1> QED
    BY <1>5, <1>6, <1>7 DEF TypeInv

\* A request or a line gets a state.
LEMMA TypeStart ==
    ASSUME TypeInv, NEW c \in Ctx, NEW q \in ReqId, NEW p \in Code, Start(c, q, p),
           UNCHANGED last
    PROVE  RunOK' /\ Progs' /\ LastSet'
  <1>1. /\ states' = [states EXCEPT ![c] = @ \cup {q}]
        /\ code' = [code EXCEPT ![c][q] = p]
        /\ at' = [at EXCEPT ![c][q] = 1]
        /\ s' = [s EXCEPT ![c] = q] /\ cur' = c
        /\ states \in [Ctx -> SUBSET ReqId]
        /\ code \in [Ctx -> [ReqId -> Code \cup {<< >>}]] /\ at \in [Ctx -> [ReqId -> Nat]]
    BY DEF Start, TypeInv, RunOK, Progs
  <1>2. RunOK'
    BY <1>1 DEF TypeInv, RunOK, Running
  <1>3. code'[c][q] = p /\ at'[c][q] = 1
    BY <1>1
  <1>4. ASSUME NEW d \in Ctx, NEW r \in states'[d], d # c \/ r # q
        PROVE  r \in states[d] /\ code'[d][r] = code[d][r] /\ at'[d][r] = at[d][r]
    BY <1>1, <1>4
  <1>5. Progs'
    <2>1. /\ code' \in [Ctx -> [ReqId -> Code \cup {<< >>}]]
          /\ at' \in [Ctx -> [ReqId -> Nat]]
      BY <1>1
    <2>2. ASSUME NEW d \in Ctx, NEW r \in states'[d]
          PROVE  code'[d][r] \in Code /\ at'[d][r] >= 1
      <3>1. CASE d = c /\ r = q
        BY <1>3, <3>1
      <3>2. CASE d # c \/ r # q
        BY <1>4, <3>2 DEF TypeInv, Progs
      <3> QED
        BY <3>1, <3>2
    <2> QED
      BY <2>1, <2>2 DEF Progs
  <1>6. ASSUME NEW d \in Ctx, NEW r \in states'[d], Done(d, r)' PROVE last'[d].kind # "none"
    <2>1. CASE d = c /\ r = q
      <3>1. 1 > Len(p) /\ Len(p) \in Nat \ {0}
        BY <1>3, <1>6, <2>1, ChainShape DEF Done
      <3> QED
        BY <3>1
    <2>2. CASE d # c \/ r # q
      <3>1. r \in states[d] /\ Done(d, r)
        BY <1>4, <1>6, <2>2 DEF Done
      <3> QED
        BY <3>1 DEF TypeInv, LastSet
    <2> QED
      BY <2>1, <2>2
  <1>7. LastSet'
    BY <1>6 DEF LastSet
  <1> QED
    BY <1>2, <1>5, <1>7

LEMMA TypeRequest ==
    ASSUME TypeInv,
           \/ ProcessReqData
           \/ \E c \in Ctx, q \in PeerId :
                 ReadReqPart(c, q) \/ ReadReqData(c, q) \/ ReadReqTail(c, q)
    PROVE  TypeInv'
  <1> USE CtxAssumption
  <1>1. CASE ProcessReqData
    <2>1. PICK p \in Code : Start(LocalCtx, nextId, p)
      BY <1>1 DEF ProcessReqData
    <2>2. /\ UNCHANGED <<reqVars, responses, horizon, inflight, envVars, ints, got, crossed>>
          /\ nextId \in ReqId /\ nextId' = nextId + 1 /\ nextId' \in 1 .. MaxId + 1
          /\ lines' \in 0 .. MaxLines /\ keyboard' = FALSE
      BY <1>1 DEF ProcessReqData, TypeInv, RspOK, UserOK, ReqId, Id
    <2>3. RunOK' /\ Progs' /\ LastSet'
      BY <2>1, <2>2, TypeStart DEF envVars
    <2>4. ReqOK' /\ RspOK' /\ EnvOK' /\ GotOK'
      BY <2>2 DEF TypeInv, ReqOK, RspOK, EnvOK, GotOK, reqVars, envVars
    <2>5. UserOK'
      <3>1. keyboard' \in BOOLEAN
        BY <2>2, Zenon
      <3> QED
        BY <2>2, <3>1, Zenon DEF TypeInv, UserOK
    <2> QED
      BY <2>3, <2>4, <2>5 DEF TypeInv
  <1>2. ASSUME NEW c \in Ctx, NEW q \in PeerId, ReadReqPart(c, q) \/ ReadReqTail(c, q)
        PROVE  TypeInv'
    <2>1. /\ UNCHANGED <<oldReq, runVars, rspVars, envVars, userVars, got, crossed>>
          /\ \E v \in {"begun", "sent"} : peer' = [peer EXCEPT ![c][q] = v]
          /\ \E R \in {{}, {q}} : requests' = [requests EXCEPT ![c] = @ \cup R]
      BY <1>2 DEF ReadReqPart, ReadReqTail
    <2>2. UNCHANGED <<states, code, at, last, s, cur>>
      BY <2>1 DEF runVars, envVars
    <2>3. Progs' /\ LastSet'
      BY <2>2, ShrinksQuiet, TypeShrinks
    <2>4. ReqOK'
      BY <2>1 DEF TypeInv, ReqOK
    <2>5. RunOK' /\ RspOK' /\ EnvOK' /\ GotOK'
      BY <2>1, <2>2 DEF TypeInv, RunOK, Running, RspOK, EnvOK, GotOK, rspVars, envVars
    <2>6. UserOK'
      BY <2>1, Zenon DEF TypeInv, UserOK, userVars
    <2> QED
      BY <2>3, <2>4, <2>5, <2>6 DEF TypeInv
  <1>3. ASSUME NEW c \in Ctx, NEW q \in PeerId, ReadReqData(c, q) PROVE TypeInv'
    <2>1. PICK p \in Code : Start(c, q, p)
      BY <1>3 DEF ReadReqData
    <2>2. /\ UNCHANGED <<rspVars, envVars, userVars, got, crossed>> /\ q \in ReqId
          /\ peer' = [peer EXCEPT ![c][q] = "sent"]
          /\ requests' = [requests EXCEPT ![c] = @ \ {q}]
          /\ oldReq' = [oldReq EXCEPT ![c] = @ \ {q}]
      BY <1>3 DEF ReadReqData, ReqId
    <2>3. RunOK' /\ Progs' /\ LastSet'
      BY <2>1, <2>2, TypeStart DEF envVars
    <2>4. ReqOK'
      BY <2>2 DEF TypeInv, ReqOK
    <2>5. RspOK' /\ EnvOK' /\ GotOK'
      BY <2>2 DEF TypeInv, RspOK, EnvOK, GotOK, rspVars, envVars
    <2>6. UserOK'
      BY <2>2, Zenon DEF TypeInv, UserOK, userVars
    <2> QED
      BY <2>3, <2>4, <2>5, <2>6 DEF TypeInv
  <1> QED
    BY <1>1, <1>2, <1>3

\* A value replaces the future it was promised by, wherever that is.
LEMMA FillSlot ==
    ASSUME NEW slot \in Slot, NEW i, NEW kind \in {"value", "error"}
    PROVE  /\ Fill(slot, i, kind) \in Slot /\ Fill(slot, i, kind).of = slot.of
           /\ Fill(slot, i, kind).kind = "none" => slot.kind = "none"
           /\ Fill(slot, i, kind).kind = "odd" => slot.kind = "odd"
  BY DEF Fill, Slot

LEMMA TypeResponse ==
    ASSUME TypeInv, NEW r \in inflight,
           \/ DropRsp(r) \/ MisplacedRsp(r)
           \/ \E kind \in {"value", "error"} : ReadRspData(r, kind)
    PROVE  TypeInv'
  <1>0. r.ctx \in Ctx /\ r.src \in ReqId /\ r.opener \in Ctx
    BY DEF TypeInv, RspOK, Request
  <1>1. CASE DropRsp(r)
    <2>1. /\ inflight' = inflight \ {r}
          /\ UNCHANGED <<reqVars, runVars, responses, horizon, nextId, envVars, userVars, got, crossed>>
      BY <1>1 DEF DropRsp
    <2>2. Progs' /\ LastSet'
      BY <2>1, ShrinksQuiet, TypeShrinks DEF runVars, envVars
    <2>3. ReqOK' /\ RunOK' /\ RspOK' /\ EnvOK' /\ GotOK'
      BY <2>1 DEF TypeInv, ReqOK, RunOK, RspOK, EnvOK, GotOK, Running, reqVars, runVars, envVars
    <2>4. UserOK'
      BY <2>1, Zenon DEF TypeInv, UserOK, userVars
    <2> QED
      BY <2>2, <2>3, <2>4 DEF TypeInv
  <1>2. CASE MisplacedRsp(r)
    <2>1. /\ inflight' = inflight \ {r} /\ cur = NoCtx
          /\ Erase(r.opener, r.src)
          /\ crossed' = TRUE
          /\ UNCHANGED <<reqVars, s, cur, horizon, nextId, envVars, userVars, got>>
      BY <1>2 DEF MisplacedRsp
    <2>2. /\ Shrinks /\ responses' \subseteq Request /\ states' \in [Ctx -> SUBSET ReqId]
      BY <1>0, <2>1, ShrinksErase DEF envVars
    <2>3. Progs' /\ LastSet'
      BY <2>2, TypeShrinks
    <2>4. ReqOK' /\ RunOK' /\ RspOK' /\ EnvOK' /\ GotOK'
      BY <2>1, <2>2 DEF TypeInv, ReqOK, RunOK, RspOK, EnvOK, GotOK, Running, reqVars, envVars
    <2>5. UserOK'
      <3>1. crossed' \in BOOLEAN
        BY <2>1, Zenon
      <3> QED
        BY <2>1, <3>1, Zenon DEF TypeInv, UserOK, userVars
    <2> QED
      BY <2>3, <2>4, <2>5 DEF TypeInv
  <1>3. ASSUME NEW kind \in {"value", "error"}, ReadRspData(r, kind) PROVE TypeInv'
    <2>1. /\ inflight' = inflight \ {r} /\ r.src \in states[r.ctx] /\ cur = NoCtx
          /\ x' = [x EXCEPT ![r.ctx] = Fill(@, r.id, kind)]
          /\ last' = [last EXCEPT ![r.ctx] = Fill(@, r.id, kind)]
          /\ UNCHANGED <<reqVars, horizon, nextId, lines, ints, crossed>>
          /\ \/ End(r.ctx, r.src, [kind |-> "error", of |-> r.src])
             \/ /\ s' = [s EXCEPT ![r.ctx] = r.src] /\ cur' = r.ctx
                /\ UNCHANGED <<states, code, at, responses, keyboard, got>>
      BY <1>3 DEF ReadRspData
    <2>2. EnvOK' /\ \A d \in Ctx : last'[d].kind = "none" => last[d].kind = "none"
      BY <1>0, <2>1, FillSlot DEF TypeInv, EnvOK
    <2>3. /\ RunOK' /\ responses' \subseteq Request /\ GotOK' /\ keyboard' \in BOOLEAN
          /\ Progs' /\ LastSet'
      <3>1. CASE End(r.ctx, r.src, [kind |-> "error", of |-> r.src])
        <4>1. [kind |-> "error", of |-> r.src] \in Answer
          BY <1>0 DEF Answer
        <4> QED
          BY <1>0, <2>1, <2>2, <3>1, <4>1, TypeEnd
      <3>2. CASE /\ s' = [s EXCEPT ![r.ctx] = r.src] /\ cur' = r.ctx
                 /\ UNCHANGED <<states, code, at, responses, keyboard, got>>
        <4>1. Shrinks
          BY <2>2, <3>2 DEF TypeInv, Progs, Shrinks
        <4>2. RunOK' /\ responses' \subseteq Request /\ GotOK'
          BY <1>0, <2>1, <3>2 DEF TypeInv, RunOK, Running, RspOK, GotOK
        <4>3. keyboard' \in BOOLEAN
          BY <3>2, Zenon DEF TypeInv, UserOK
        <4> QED
          BY <4>1, <4>2, <4>3, TypeShrinks
      <3> QED
        BY <2>1, <3>1, <3>2
    <2>4. ReqOK' /\ RspOK'
      BY <2>1, <2>3 DEF TypeInv, ReqOK, RspOK, reqVars
    <2>5. UserOK'
      BY <2>1, <2>3, Zenon DEF TypeInv, UserOK
    <2> QED
      BY <2>2, <2>3, <2>4, <2>5 DEF TypeInv
  <1> QED
    BY <1>1, <1>2, <1>3

LEMMA TypeLoop ==
    ASSUME TypeInv, AgeRsp \/ AgeReq \/ Gc \/ Reset
    PROVE  TypeInv'
  <1> USE CtxAssumption
  <1>1. CASE AgeRsp
    <2>1. /\ horizon' = nextId - 1
          /\ UNCHANGED <<reqVars, runVars, responses, inflight, nextId, envVars, userVars, got, crossed>>
      BY <1>1 DEF AgeRsp
    <2>2. Progs' /\ LastSet'
      BY <2>1, ShrinksQuiet, TypeShrinks DEF runVars, envVars
    <2>3. ReqOK' /\ RunOK' /\ RspOK' /\ EnvOK' /\ GotOK'
      BY <2>1 DEF TypeInv, ReqOK, RunOK, RspOK, EnvOK, GotOK, Running, reqVars, runVars, envVars
    <2>4. UserOK'
      BY <2>1, Zenon DEF TypeInv, UserOK, userVars
    <2> QED
      BY <2>2, <2>3, <2>4 DEF TypeInv
  <1>2. CASE AgeReq
    <2>1. /\ oldReq' = requests
          /\ UNCHANGED <<peer, requests, runVars, rspVars, envVars, userVars, got, crossed>>
      BY <1>2 DEF AgeReq
    <2>2. Progs' /\ LastSet'
      BY <2>1, ShrinksQuiet, TypeShrinks DEF runVars, envVars
    <2>3. ReqOK' /\ RunOK' /\ RspOK' /\ EnvOK' /\ GotOK'
      BY <2>1 DEF TypeInv, ReqOK, RunOK, RspOK, EnvOK, GotOK, Running, rspVars, runVars, envVars
    <2>4. UserOK'
      BY <2>1, Zenon DEF TypeInv, UserOK, userVars
    <2> QED
      BY <2>2, <2>3, <2>4 DEF TypeInv
  <1>3. CASE Gc
    <2>1. /\ requests' = [c \in Ctx |-> requests[c] \ oldReq[c]]
          /\ oldReq' = [c \in Ctx |-> {}]
          /\ states' = [c \in Ctx |-> states[c] \ Expired(c)]
          /\ code' = [c \in Ctx |-> [q \in ReqId |->
                        IF q \in Expired(c) THEN << >> ELSE code[c][q]]]
          /\ at' = [c \in Ctx |-> [q \in ReqId |-> IF q \in Expired(c) THEN 0 ELSE at[c][q]]]
          /\ responses' \subseteq responses
          /\ s' = [c \in Ctx |-> IF s[c] \in Expired(c) THEN NoReq ELSE s[c]]
          /\ cur = NoCtx
          /\ keyboard' = (keyboard \/ s[LocalCtx] \in Expired(LocalCtx))
          /\ UNCHANGED <<peer, cur, horizon, inflight, nextId, envVars, lines, ints, crossed>>
      BY <1>3 DEF Gc
    <2>2. got' = [c \in Ctx |-> [q \in ReqId |->
                   IF q \in Expired(c) /\ q = s[c]
                   THEN Append(got[c][q], [kind |-> "timeout", of |-> q]) ELSE got[c][q]]]
      BY <1>3 DEF Gc
    <2>3. Shrinks
      <3>1. /\ code' \in [Ctx -> [ReqId -> Code \cup {<< >>}]]
            /\ at' \in [Ctx -> [ReqId -> Nat]]
        BY <2>1 DEF TypeInv, Progs
      <3>2. ASSUME NEW d \in Ctx, NEW q \in states'[d]
            PROVE  q \in states[d] /\ code'[d][q] = code[d][q] /\ at'[d][q] = at[d][q]
        BY <2>1 DEF TypeInv, RunOK
      <3> QED
        BY <2>1, <3>1, <3>2 DEF Shrinks, envVars
    <2>4. Progs' /\ LastSet'
      BY <2>3, TypeShrinks
    <2>5. ReqOK' /\ RunOK' /\ RspOK' /\ EnvOK'
      BY <2>1 DEF TypeInv, ReqOK, RunOK, Running, RspOK, EnvOK, envVars
    <2>6. GotOK'
      <3>1. ASSUME NEW c \in Ctx, NEW q \in ReqId
            PROVE  Append(got[c][q], [kind |-> "timeout", of |-> q]) \in Seq(Answer)
        <4>1. [kind |-> "timeout", of |-> q] \in Answer
          BY DEF Answer
        <4> QED
          BY <4>1 DEF TypeInv, GotOK
      <3> QED
        BY <2>2, <3>1 DEF TypeInv, GotOK
    <2>7. UserOK'
      <3>1. keyboard' \in BOOLEAN
        BY <2>1, Zenon
      <3> QED
        BY <2>1, <3>1, Zenon DEF TypeInv, UserOK
    <2> QED
      BY <2>4, <2>5, <2>6, <2>7 DEF TypeInv
  <1>4. CASE Reset
    <2>1. /\ requests' = [requests EXCEPT ![LocalCtx] = {}]
          /\ oldReq' = [oldReq EXCEPT ![LocalCtx] = {}]
          /\ states' = [states EXCEPT ![LocalCtx] = {}]
          /\ code' = [code EXCEPT ![LocalCtx] = [q \in ReqId |-> << >>]]
          /\ at' = [at EXCEPT ![LocalCtx] = [q \in ReqId |-> 0]]
          /\ responses' \subseteq responses
          /\ s' = [s EXCEPT ![LocalCtx] = NoReq]
          /\ keyboard' = TRUE /\ cur = NoCtx /\ ints' = ints + 1 /\ ints < MaxInt
          /\ UNCHANGED <<peer, cur, horizon, inflight, nextId, envVars, lines, got, crossed>>
      BY <1>4 DEF Reset
    <2>2. Shrinks
      BY <2>1 DEF Shrinks, TypeInv, RunOK, Progs, envVars
    <2>3. Progs' /\ LastSet'
      BY <2>2, TypeShrinks
    <2>4. ReqOK' /\ RunOK' /\ RspOK' /\ EnvOK' /\ GotOK'
      BY <2>1 DEF TypeInv, ReqOK, RunOK, Running, RspOK, EnvOK, GotOK, envVars
    <2>5. UserOK'
      <3>1. keyboard' \in BOOLEAN
        BY <2>1, Zenon
      <3>2. ints' \in 0 .. MaxInt
        BY <2>1 DEF TypeInv, UserOK
      <3> QED
        BY <2>1, <3>1, <3>2, Zenon DEF TypeInv, UserOK
    <2> QED
      BY <2>3, <2>4, <2>5 DEF TypeInv
  <1> QED
    BY <1>1, <1>2, <1>3, <1>4

LEMMA TypeInit == Init => TypeInv
  <1> SUFFICES ASSUME Init PROVE TypeInv
    OBVIOUS
  <1> USE CtxAssumption
  <1>1. Progs /\ Running
    BY OnceInit DEF OnceInv, GuardInv
  <1>2. Empty \in Slot
    BY DEF Empty, Slot
  <1>3. ReqOK /\ RunOK /\ RspOK /\ EnvOK /\ GotOK /\ LastSet
    BY <1>1, <1>2 DEF Init, ReqOK, RunOK, RspOK, EnvOK, GotOK, LastSet
  <1>4. UserOK
    <2>1. keyboard \in BOOLEAN /\ crossed \in BOOLEAN
      BY Zenon DEF Init
    <2>2. lines \in 0 .. MaxLines /\ ints \in 0 .. MaxInt
      BY DEF Init
    <2> QED
      BY <2>1, <2>2 DEF UserOK
  <1> QED
    BY <1>1, <1>3, <1>4 DEF TypeInv

LEMMA TypeStep == TypeInv /\ [Next]_vars => TypeInv'
  <1> SUFFICES ASSUME TypeInv, [Next]_vars PROVE TypeInv'
    OBVIOUS
  <1>1. CASE UNCHANGED vars
    <2>1. UNCHANGED <<reqVars, runVars, rspVars, envVars, userVars, got, crossed>>
      BY <1>1 DEF vars
    <2>2. Progs' /\ LastSet'
      BY <2>1, ShrinksQuiet, TypeShrinks DEF runVars, envVars
    <2>3. ReqOK' /\ RunOK' /\ RspOK' /\ EnvOK' /\ GotOK'
      BY <2>1 DEF TypeInv, ReqOK, RunOK, RspOK, EnvOK, GotOK, Running, reqVars, runVars, rspVars,
                  envVars
    <2>4. UserOK'
      BY <2>1, Zenon DEF TypeInv, UserOK, userVars
    <2> QED
      BY <2>2, <2>3, <2>4 DEF TypeInv
  <1>2. CASE Next
    BY <1>2, TypeEvaluate, TypeSendReq, TypeStops, TypeFinish, TypeRequest, TypeResponse, TypeLoop
       DEF Next, Interpret
  <1> QED
    BY <1>1, <1>2

LEMMA TypeAlways == Spec => []TypeInv
  BY TypeInit, TypeStep, PTL DEF Spec

\* Types of InterpCtx, for any number of contexts, requests and programs.  Beyond
\* types: a context that interprets has the state it interprets, whatever has been
\* collected, erased or interrupted, and neither a future nor the absence of a
\* value is ever sent as an answer.
THEOREM ContextTypes == Spec => []TypeOK
  BY TypeAlways, TypeInvTypes, PTL

(***************************************************************************)
(* A peer that waits for each answer gets the value of its own request.    *)
(*                                                                         *)
(* The value is taken from .Last.value, which the requests of a context    *)
(* share.  It is the right one because a context has one request at a time *)
(* that is not answered (Single), which holds because the peer waits       *)
(* (InTurn) and because a line suspends the keyboard (OneLine), and        *)
(* because nothing resumes a state that has answered (Lingering).  That a  *)
(* request is not confused with an older one of the same number needs that *)
(* numbers are not used twice (Known).                                     *)
(*                                                                         *)
(* A state that evaluates to what cannot be transmitted answers an error   *)
(* and stays.  If its program has asked somebody, the response resumes it  *)
(* and it answers again, by then with the value of a later request.        *)
(* OddAlone excludes such programs, and no others.                         *)
(***************************************************************************)
Asks(p) == \E i \in 1 .. Len(p) : p[i] \in {"ask", "set"}

OddAlone == \A p \in Code : p[Len(p)] = "odd" => ~Asks(p)

Live(c, q) == q \in states[c] /\ got[c][q] = << >>

Begun(c, q) == IF c = LocalCtx THEN q < nextId ELSE q \in PeerId /\ peer[c][q] = "sent"

\* A number belongs to one request, with its answers and what it has sent.
Known ==
    /\ \A c \in Ctx, q \in ReqId : Used(c, q) => Begun(c, q)
    /\ \A r \in responses \cup inflight : Begun(r.ctx, r.src)

Single == \A c \in Ctx \ Pipelines : \A p, q \in ReqId : Live(c, p) /\ Live(c, q) => p = q

RunsLive == cur # NoCtx /\ cur \notin Pipelines => Live(cur, s[cur])

InTurn ==
    \A c \in Ctx \ (Pipelines \cup {LocalCtx}) : \A p, q \in PeerId :
       p < q /\ peer[c][q] # "new" => peer[c][p] = "sent" /\ got[c][p] # << >>

OneLine == /\ keyboard => states[LocalCtx] = {}
           /\ \A q \in states[LocalCtx] : q = s[LocalCtx]

\* What a request has been answered.
ToldOwn(c, q) == \E a \in Answer : a.of = q /\ got[c][q] = <<a>>
Told == \A c \in Ctx \ Pipelines, q \in ReqId : got[c][q] = << >> \/ ToldOwn(c, q)

\* What it is about to be answered.
OwnLast ==
    \A c \in Ctx \ Pipelines, q \in ReqId : Live(c, q) /\ Done(c, q) =>
       last[c].of = q /\ (last[c].kind = "odd" => ~Asks(code[c][q]))

\* Only a program that asks has responses, and one that has been answered but
\* has a state does not.
Asked == \A r \in responses \cup inflight :
            r.src \in states[r.ctx] => Asks(code[r.ctx][r.src])
Lingering == \A c \in Ctx \ Pipelines : \A q \in states[c] :
                got[c][q] # << >> => ~Asks(code[c][q])

OwnInv == /\ Known /\ Single /\ RunsLive /\ InTurn /\ OneLine /\ Told /\ OwnLast
          /\ Asked /\ Lingering

\* A response that finds its state finds one that has not answered.
LEMMA AskedIsLive ==
    ASSUME TypeInv, OwnInv, NEW r \in responses \cup inflight, r.src \in states[r.ctx],
           r.ctx \notin Pipelines
    PROVE  Live(r.ctx, r.src)
  <1>1. r.ctx \in Ctx /\ r.src \in ReqId
    BY DEF TypeInv, RspOK, Request
  <1> QED
    BY <1>1 DEF OwnInv, Asked, Lingering, Live

LEMMA BegunStays ==
    ASSUME TypeInv, NEW c \in Ctx, NEW q \in ReqId, Begun(c, q),
           nextId' \in Nat, nextId' >= nextId, UNCHANGED peer
    PROVE  Begun(c, q)'
  <1>1. q \in Nat /\ nextId \in Nat
    BY CtxAssumption DEF ReqId, Id, TypeInv, RspOK
  <1> QED
    BY <1>1 DEF Begun

LEMMA NotEmptyAfter ==
    ASSUME NEW S, NEW h \in Seq(S), NEW a \in S
    PROVE  Append(h, a) # << >>
  <1>1. Len(Append(h, a)) = Len(h) + 1 /\ Len(h) \in Nat /\ Len(<< >>) = 0
    OBVIOUS
  <1> QED
    BY <1>1

\* A step that takes states away and answers some of them, each with its own.
AnswerOwn(d, q) ==
    \/ got'[d][q] = got[d][q]
    \/ /\ q \in states[d] /\ q \notin states'[d]
       /\ \E a \in Answer : /\ got'[d][q] = Append(got[d][q], a)
                            /\ d \notin Pipelines => got[d][q] = << >> /\ a.of = q
AnswersOwn == \A d \in Ctx, q \in ReqId : AnswerOwn(d, q)

LEMMA OwnShrinks ==
    ASSUME TypeInv, OwnInv, Shrinks, AnswersOwn, states' \in [Ctx -> SUBSET ReqId],
           \A d \in Ctx : /\ last'[d].of = last[d].of
                          /\ last'[d].kind = "odd" => last[d].kind = "odd",
           nextId' \in Nat, nextId' >= nextId, UNCHANGED peer,
           responses' \subseteq responses, inflight' \subseteq inflight,
           RunsLive', OneLine'
    PROVE  OwnInv'
  <1> USE CtxAssumption
  <1>1. \A d \in Ctx : \A r \in states'[d] :
           r \in states[d] /\ code'[d][r] = code[d][r] /\ at'[d][r] = at[d][r] /\ r \in ReqId
    BY DEF Shrinks
  <1>2. ASSUME NEW d \in Ctx, NEW q \in ReqId
        PROVE  got[d][q] \in Seq(Answer) /\ (got'[d][q] = << >> => got[d][q] = << >>)
    <2>1. got[d][q] \in Seq(Answer)
      BY DEF TypeInv, GotOK
    <2>2. \A a \in Answer : Append(got[d][q], a) # << >>
      BY <2>1, NotEmptyAfter
    <2>3. AnswerOwn(d, q)
      BY DEF AnswersOwn
    <2>4. got'[d][q] = got[d][q] \/ \E a \in Answer : got'[d][q] = Append(got[d][q], a)
      BY <2>3, Zenon DEF AnswerOwn
    <2> QED
      BY <2>1, <2>2, <2>4, Zenon
  <1>3. \A d \in Ctx, q \in ReqId : Live(d, q)' => Live(d, q)
    BY <1>1, <1>2 DEF Live
  <1>4. \A d \in Ctx, q \in ReqId : Live(d, q)' /\ Done(d, q)' => Done(d, q)
    BY <1>1 DEF Live, Done
  <1>5. Known'
    <2>1. \A d \in Ctx, q \in ReqId : Used(d, q)' => Used(d, q)
      BY <1>1 DEF Used, AnswersOwn, AnswerOwn
    <2>2. ASSUME NEW d \in Ctx, NEW q \in ReqId, Used(d, q)' PROVE Begun(d, q)'
      BY <2>1, <2>2, BegunStays DEF OwnInv, Known
    <2>3. ASSUME NEW r \in (responses \cup inflight)' PROVE Begun(r.ctx, r.src)'
      <3>1. r \in responses \cup inflight
        BY <2>3
      <3>2. r.ctx \in Ctx /\ r.src \in ReqId
        BY <3>1 DEF TypeInv, RspOK, Request
      <3> QED
        BY <3>1, <3>2, BegunStays DEF OwnInv, Known
    <2> QED
      BY <2>2, <2>3 DEF Known
  <1>6. Single'
    BY <1>3 DEF OwnInv, Single
  <1>7. InTurn'
    <2>1. PeerId \subseteq ReqId
      BY DEF ReqId
    <2> QED
      BY <1>2, <2>1 DEF OwnInv, InTurn
  <1>8. Told'
    <2>1. ASSUME NEW c \in Ctx \ Pipelines, NEW q \in ReqId
          PROVE  got'[c][q] = << >> \/ ToldOwn(c, q)'
      <3>1. CASE got'[c][q] = got[c][q]
        BY <3>1 DEF OwnInv, Told, ToldOwn
      <3>2. CASE got[c][q] = << >> /\ \E a \in Answer :
                    got'[c][q] = Append(got[c][q], a) /\ a.of = q
        <4>1. PICK a \in Answer : a.of = q /\ got'[c][q] = Append(<< >>, a)
          BY <3>2
        <4>2. Append(<< >>, a) = <<a>>
          OBVIOUS
        <4> QED
          BY <4>1, <4>2 DEF ToldOwn
      <3>3. AnswerOwn(c, q) /\ c \notin Pipelines
        BY DEF AnswersOwn
      <3> QED
        BY <3>1, <3>2, <3>3, Zenon DEF AnswerOwn
    <2> QED
      BY <2>1 DEF Told
  <1>9. OwnLast'
    <2>1. ASSUME NEW c \in Ctx \ Pipelines, NEW q \in ReqId, Live(c, q)', Done(c, q)'
          PROVE  last'[c].of = q /\ (last'[c].kind = "odd" => ~Asks(code'[c][q]))
      <3>1. Live(c, q) /\ Done(c, q) /\ code'[c][q] = code[c][q]
        BY <1>1, <1>3, <1>4, <2>1 DEF Live
      <3>2. last[c].of = q /\ (last[c].kind = "odd" => ~Asks(code[c][q]))
        BY <3>1 DEF OwnInv, OwnLast
      <3> QED
        BY <3>1, <3>2
    <2> QED
      BY <2>1, Zenon DEF OwnLast, Asks
  <1>10. Asked'
    <2>1. ASSUME NEW r \in (responses \cup inflight)', r.src \in states'[r.ctx]
          PROVE  Asks(code'[r.ctx][r.src])
      <3>1. r \in responses \cup inflight
        BY <2>1
      <3>2. r.ctx \in Ctx
        BY <3>1 DEF TypeInv, RspOK, Request
      <3> QED
        BY <1>1, <2>1, <3>1, <3>2 DEF OwnInv, Asked
    <2> QED
      BY <2>1, Zenon DEF Asked, Asks
  <1>11. Lingering'
    <2>1. ASSUME NEW c \in Ctx \ Pipelines, NEW q \in states'[c], got'[c][q] # << >>
          PROVE  ~Asks(code'[c][q])
      <3>1. q \in states[c] /\ code'[c][q] = code[c][q] /\ q \in ReqId
        BY <1>1
      <3>2. got'[c][q] = got[c][q]
        BY <2>1, <3>1 DEF AnswersOwn, AnswerOwn
      <3> QED
        BY <2>1, <3>1, <3>2 DEF OwnInv, Lingering
    <2> QED
      BY <2>1, Zenon DEF Lingering, Asks
  <1> QED
    BY <1>5, <1>6, <1>7, <1>8, <1>9, <1>10, <1>11 DEF OwnInv

\* A request that has not been answered is answered now.
LEMMA OwnEnd ==
    ASSUME TypeInv, OwnInv, NEW c \in Ctx, NEW q \in states[c],
           NEW a \in Answer, c \notin Pipelines => got[c][q] = << >> /\ a.of = q,
           End(c, q, a),
           \A d \in Ctx : /\ last'[d].of = last[d].of
                          /\ last'[d].kind = "odd" => last[d].kind = "odd"
                          /\ last'[d].kind = "none" => last[d].kind = "none",
           nextId' \in Nat, nextId' >= nextId, UNCHANGED peer, inflight' \subseteq inflight
    PROVE  OwnInv'
  <1>0. q \in ReqId
    BY DEF TypeInv, RunOK
  <1>1. /\ Erase(c, q) /\ got' = [got EXCEPT ![c][q] = Append(@, a)]
        /\ s' = [s EXCEPT ![c] = NoReq] /\ cur' = NoCtx
        /\ keyboard' = (keyboard \/ c = LocalCtx) /\ responses' \subseteq responses
    BY DEF End, Erase
  <1>2. /\ Shrinks /\ states' \in [Ctx -> SUBSET ReqId]
        /\ states' = [states EXCEPT ![c] = @ \ {q}]
    BY <1>0, <1>1, ShrinksErase
  <1>3. AnswersOwn
    <2>1. ASSUME NEW d \in Ctx, NEW r \in ReqId
          PROVE  IF d = c /\ r = q THEN got'[d][r] = Append(got[d][r], a)
                 ELSE got'[d][r] = got[d][r]
      BY <1>0, <1>1 DEF TypeInv, GotOK
    <2>2. q \notin states'[c]
      BY <1>2 DEF TypeInv, RunOK
    <2> QED
      BY <2>1, <2>2 DEF AnswersOwn, AnswerOwn
  <1>4. RunsLive'
    BY <1>1 DEF RunsLive
  <1>5. OneLine'
    <2>1. CASE c = LocalCtx
      BY <1>1, <1>2, <2>1 DEF OwnInv, OneLine, TypeInv, RunOK
    <2>2. CASE c # LocalCtx
      <3>1. states'[LocalCtx] = states[LocalCtx] /\ s'[LocalCtx] = s[LocalCtx]
        BY <1>1, <1>2, <2>2, CtxAssumption DEF TypeInv, RunOK
      <3>2. keyboard' = keyboard
        BY <1>1, <2>2, Zenon DEF TypeInv, UserOK
      <3> QED
        BY <3>1, <3>2 DEF OwnInv, OneLine
    <2> QED
      BY <2>1, <2>2
  <1> QED
    BY <1>1, <1>2, <1>3, <1>4, <1>5, OwnShrinks

\* What is asked is asked by a program that asks.
LEMMA AsksNow ==
    ASSUME TypeInv, NEW c \in Ctx, cur = c, Now(c) \in {"ask", "set"}
    PROVE  Asks(code[c][s[c]])
  <1> DEFINE p == code[c][s[c]]
             i == at[c][s[c]]
  <1>1. p \in Code /\ i \in Nat /\ i >= 1
    BY RunsNow DEF Runs
  <1>2. Now(c) = IF i <= Len(Chain(p)) THEN Chain(p)[i] ELSE "end"
    BY DEF Now
  <1> HIDE DEF p, i
  <1>3. /\ Len(p) \in Nat \ {0}
        /\ \A j \in 1 .. Len(p) : Chain(p)[j] = p[j]
        /\ Shown(p) => Chain(p) = p
        /\ ~Shown(p) => Len(Chain(p)) = Len(p) + 1 /\ Chain(p)[Len(p) + 1] = "silent"
    BY <1>1, ChainShape
  <1>4. i <= Len(Chain(p)) /\ Chain(p)[i] \in {"ask", "set"}
    BY <1>2
  <1>5. i \in 1 .. Len(p)
    BY <1>1, <1>3, <1>4
  <1>6. p[i] \in {"ask", "set"}
    BY <1>3, <1>4, <1>5
  <1> QED
    BY <1>5, <1>6 DEF Asks, p

\* A statement has been evaluated; the last one has left the value of the program.
LEMMA OwnAdvance ==
    ASSUME TypeInv, OwnInv, NEW c \in Ctx, cur = c, Now(c) # "end", Advance(c),
           UNCHANGED <<states, code, s, cur, got, peer, keyboard>>,
           nextId' \in Nat, nextId' >= nextId,
           \A d \in Ctx : d # c => last'[d] = last[d],
           Shown(code[c][s[c]]) /\ at[c][s[c]] = Len(code[c][s[c]]) =>
              last'[c].of = s[c] /\ (last'[c].kind = "odd" => ~Asks(code[c][s[c]])),
           \A r \in (responses \cup inflight)' :
              \/ r \in responses \cup inflight
              \/ r.ctx = c /\ r.src = s[c] /\ Asks(code[c][s[c]])
    PROVE  OwnInv'
  <1> USE CtxAssumption
  <1>0. Runs(c)
    BY RunsNow
  <1>1. /\ s[c] \in states[c] /\ s[c] \in ReqId /\ code[c][s[c]] \in Code
        /\ at[c][s[c]] \in Nat /\ Len(code[c][s[c]]) \in Nat
        /\ Shown(code[c][s[c]]) => at[c][s[c]] <= Len(code[c][s[c]])
    BY <1>0, ChainShape DEF Runs
  <1>2. /\ at'[c][s[c]] = at[c][s[c]] + 1
        /\ \A d \in Ctx : \A r \in ReqId : d # c \/ r # s[c] => at'[d][r] = at[d][r]
    BY <1>1 DEF Advance, TypeInv, Progs
  <1>3. Known'
    <2>1. ASSUME NEW d \in Ctx, NEW q \in ReqId, Used(d, q)' PROVE Begun(d, q)'
      <3>1. Used(d, q)
        BY <2>1 DEF Used
      <3> QED
        BY <3>1, BegunStays DEF OwnInv, Known
    <2>2. ASSUME NEW r \in (responses \cup inflight)' PROVE Begun(r.ctx, r.src)'
      <3>1. CASE r \in responses \cup inflight
        <4>1. r.ctx \in Ctx /\ r.src \in ReqId
          BY <3>1 DEF TypeInv, RspOK, Request
        <4> QED
          BY <3>1, <4>1, BegunStays DEF OwnInv, Known
      <3>2. CASE r.ctx = c /\ r.src = s[c]
        <4>1. Used(c, s[c])'
          BY <1>1 DEF Used
        <4> QED
          BY <1>1, <2>1, <3>2, <4>1
      <3> QED
        BY <3>1, <3>2
    <2> QED
      BY <2>1, <2>2 DEF Known
  <1>4. Single' /\ RunsLive' /\ InTurn' /\ OneLine'
    BY DEF OwnInv, Single, RunsLive, InTurn, OneLine, Live
  <1>5. Told'
    BY DEF OwnInv, Told, ToldOwn
  <1>6. OwnLast'
    <2>1. ASSUME NEW d \in Ctx \ Pipelines, NEW q \in ReqId, Live(d, q)', Done(d, q)'
          PROVE  last'[d].of = q /\ (last'[d].kind = "odd" => ~Asks(code[d][q]))
      <3>1. Live(d, q)
        BY <2>1 DEF Live
      <3>2. CASE d # c
        <4>1. Done(d, q) /\ last'[d] = last[d]
          BY <1>2, <2>1, <3>2 DEF Done
        <4>2. last[d].of = q /\ (last[d].kind = "odd" => ~Asks(code[d][q]))
          BY <3>1, <4>1 DEF OwnInv, OwnLast
        <4> QED
          BY <4>1, <4>2
      <3>3. CASE d = c
        <4>1. Live(c, s[c])
          BY <3>3 DEF OwnInv, RunsLive
        <4>2. q = s[c]
          BY <1>1, <3>1, <3>3, <4>1 DEF OwnInv, Single
        <4>3. Shown(code[c][s[c]]) /\ at[c][s[c]] + 1 > Len(code[c][s[c]])
          BY <1>2, <2>1, <3>3, <4>2 DEF Done
        <4>4. at[c][s[c]] = Len(code[c][s[c]])
          BY <1>1, <4>3
        <4> QED
          BY <3>3, <4>2, <4>3, <4>4
      <3> QED
        BY <3>2, <3>3
    <2> QED
      BY <2>1 DEF OwnLast
  <1>7. Asked'
    BY DEF OwnInv, Asked
  <1>8. Lingering'
    BY DEF OwnInv, Lingering
  <1> QED
    BY <1>3, <1>4, <1>5, <1>6, <1>7, <1>8 DEF OwnInv

LEMMA OwnEvaluate ==
    ASSUME OddAlone, TypeInv, OwnInv, NEW c \in Ctx, Evaluate(c)
    PROVE  OwnInv'
  <1> DEFINE v == [kind |-> CASE Now(c) = "odd" -> "odd"
                              [] Now(c) = "val" -> "value"
                              [] OTHER -> x[c].kind,
                   id |-> 0, of |-> s[c]]
  <1>1. /\ cur = c /\ Advance(c) /\ Now(c) # "end"
        /\ UNCHANGED <<states, code, s, cur, got, reqVars, rspVars, userVars>>
        /\ last' = IF Final(c) THEN [last EXCEPT ![c] = v] ELSE last
        /\ \/ Now(c) \in {"val", "odd"}
           \/ Now(c) \in {"use", "silent"} /\ x[c].kind \in {"value", "error"}
    BY DEF Evaluate
  <1>2. Runs(c)
    BY <1>1, RunsNow
  <1>3. v.of = s[c] /\ (v.kind = "odd" => Now(c) = "odd")
    BY <1>1
  <1> HIDE DEF v
  <1>4. \A d \in Ctx : d # c => last'[d] = last[d]
    BY <1>1 DEF TypeInv, EnvOK
  <1>5. ASSUME Shown(code[c][s[c]]), at[c][s[c]] = Len(code[c][s[c]])
        PROVE  last'[c].of = s[c] /\ (last'[c].kind = "odd" => ~Asks(code[c][s[c]]))
    <2>1. /\ code[c][s[c]] \in Code
          /\ Final(c) /\ Now(c) = code[c][s[c]][Len(code[c][s[c]])]
      BY <1>2, <1>5 DEF Runs
    <2>2. last'[c] = v
      BY <1>1, <2>1 DEF TypeInv, EnvOK
    <2> QED
      BY <1>3, <2>1, <2>2 DEF OddAlone
  <1>6. /\ nextId' \in Nat /\ nextId' >= nextId
        /\ UNCHANGED <<peer, keyboard, responses, inflight>>
    BY <1>1, CtxAssumption DEF reqVars, rspVars, userVars, TypeInv, RspOK
  <1>7. \A r \in (responses \cup inflight)' : r \in responses \cup inflight
    BY <1>6
  <1> QED
    BY <1>1, <1>4, <1>5, <1>6, <1>7, OwnAdvance

LEMMA OwnSendReq ==
    ASSUME TypeInv, OwnInv, NEW c \in Ctx, NEW o \in Ctx, SendReq(c, o)
    PROVE  OwnInv'
  <1> DEFINE r == [id |-> nextId, ctx |-> c, src |-> s[c], opener |-> o]
             future == [kind |-> "future", id |-> nextId, of |-> s[c]]
  <1>1. /\ cur = c /\ Advance(c) /\ Now(c) \in {"ask", "set"}
        /\ UNCHANGED <<states, code, s, cur, got, reqVars, userVars>>
        /\ nextId' = nextId + 1
        /\ responses' = responses \cup {r} /\ inflight' = inflight \cup {r}
        /\ last' = IF Now(c) = "ask" /\ Final(c) THEN [last EXCEPT ![c] = future] ELSE last
    BY DEF SendReq
  <1>2. Runs(c) /\ Asks(code[c][s[c]])
    BY <1>1, RunsNow, AsksNow
  <1>3. /\ r.ctx = c /\ r.src = s[c] /\ future.of = s[c] /\ future.kind = "future"
    OBVIOUS
  <1> HIDE DEF r, future
  <1>4. \A d \in Ctx : d # c => last'[d] = last[d]
    BY <1>1 DEF TypeInv, EnvOK
  <1>5. ASSUME Shown(code[c][s[c]]), at[c][s[c]] = Len(code[c][s[c]])
        PROVE  last'[c].of = s[c] /\ (last'[c].kind = "odd" => ~Asks(code[c][s[c]]))
    <2>1. Final(c) /\ Now(c) # "set"
      BY <1>2, <1>5 DEF Runs, Shown
    <2>2. last'[c] = future
      BY <1>1, <2>1 DEF TypeInv, EnvOK
    <2> QED
      BY <1>3, <2>2
  <1>6. nextId' \in Nat /\ nextId' >= nextId /\ UNCHANGED <<peer, keyboard>>
    BY <1>1, CtxAssumption DEF reqVars, userVars, TypeInv, RspOK
  <1>7. \A e \in (responses \cup inflight)' :
           \/ e \in responses \cup inflight
           \/ e.ctx = c /\ e.src = s[c] /\ Asks(code[c][s[c]])
    BY <1>1, <1>2, <1>3
  <1> QED
    BY <1>1, <1>4, <1>5, <1>6, <1>7, OwnAdvance

LEMMA OwnStops ==
    ASSUME TypeInv, OwnInv, NEW c \in Ctx, Throw(c) \/ Interrupt(c) \/ Block(c)
    PROVE  OwnInv'
  <1>0. cur = c /\ Runs(c)
    BY RunsNow DEF Throw, Interrupt, Block
  <1>1. [kind |-> "error", of |-> s[c]] \in Answer
    BY <1>0 DEF Runs, Answer
  <1>2. c # NoCtx /\ nextId \in Nat
    BY CtxAssumption DEF TypeInv, RspOK
  <1>3. CASE Throw(c) \/ Interrupt(c)
    <2>1. /\ End(c, s[c], [kind |-> "error", of |-> s[c]])
          /\ UNCHANGED <<peer, inflight, last>>
          /\ nextId' \in Nat /\ nextId' >= nextId
      BY <1>2, <1>3 DEF Throw, Interrupt, reqVars, envVars
    <2>2. c \notin Pipelines => got[c][s[c]] = << >>
      BY <1>0, <1>2 DEF OwnInv, RunsLive, Live
    <2> QED
      BY <1>0, <1>1, <2>1, <2>2, OwnEnd DEF Runs
  <1>4. CASE Block(c)
    <2>1. /\ cur' = NoCtx
          /\ UNCHANGED <<peer, states, code, at, s, nextId, responses, inflight, last, keyboard, got>>
      BY <1>4 DEF Block, reqVars, rspVars, envVars, userVars
    <2>2. Shrinks
      BY <2>1, ShrinksQuiet
    <2>3. AnswersOwn /\ RunsLive' /\ OneLine' /\ states' \in [Ctx -> SUBSET ReqId]
      BY <2>1 DEF AnswersOwn, AnswerOwn, RunsLive, OwnInv, OneLine, TypeInv, RunOK
    <2> QED
      BY <1>2, <2>1, <2>2, <2>3, OwnShrinks
  <1> QED
    BY <1>3, <1>4

\* The answer is the value of the program that has ended; a state that stays
\* behind waits for nothing.
LEMMA OwnFinish ==
    ASSUME TypeInv, OwnInv, NEW c \in Ctx, Finish(c)
    PROVE  OwnInv'
  <1> USE CtxAssumption
  <1> DEFINE v == IF Silent(c) THEN [kind |-> "TRUE", of |-> s[c]]
                  ELSE [kind |-> last[c].kind, of |-> last[c].of]
             e == [v EXCEPT !.kind = "error"]
  <1>1. /\ cur = c /\ Now(c) = "end"
        /\ UNCHANGED <<peer, inflight, nextId, last>>
        /\ \/ End(c, s[c], v)
           \/ /\ c # LocalCtx /\ v.kind = "odd"
              /\ got' = [got EXCEPT ![c][s[c]] = Append(@, e)]
              /\ cur' = NoCtx
              /\ UNCHANGED <<states, code, at, s, responses, keyboard>>
    BY DEF Finish, reqVars, envVars
  <1>2. Runs(c)
    BY <1>1, RunsNow
  <1>3. s[c] \in ReqId /\ s[c] \in states[c] /\ c # NoCtx /\ nextId \in Nat
    BY <1>2 DEF Runs, TypeInv, RspOK
  <1>4. v \in Answer /\ e \in Answer /\ e.of = v.of
    <2>1. CASE Silent(c)
      BY <1>3, <2>1 DEF Answer
    <2>2. CASE ~Silent(c)
      <3>1. last[c] \in Slot /\ last[c].kind # "none" /\ last[c].kind # "future"
        BY <1>1, <1>2, <1>3, <2>2 DEF Finish, Runs, TypeInv, LastSet, EnvOK
      <3>2. last[c].kind \in {"value", "error", "odd"} /\ last[c].of \in ReqId \cup {NoReq}
        BY <3>1 DEF Slot
      <3> QED
        BY <2>2, <3>2 DEF Answer
    <2> QED
      BY <2>1, <2>2
  <1>5. ASSUME c \notin Pipelines
        PROVE  /\ got[c][s[c]] = << >> /\ v.of = s[c]
               /\ v.kind = "odd" => ~Asks(code[c][s[c]])
    <2>1. Live(c, s[c])
      BY <1>1, <1>3, <1>5 DEF OwnInv, RunsLive
    <2>2. CASE Silent(c)
      BY <2>1, <2>2 DEF Live
    <2>3. CASE ~Silent(c)
      <3>1. Done(c, s[c])
        BY <1>1, <1>2, <2>3 DEF Runs
      <3>2. last[c].of = s[c] /\ (last[c].kind = "odd" => ~Asks(code[c][s[c]]))
        BY <1>3, <1>5, <2>1, <3>1 DEF OwnInv, OwnLast
      <3> QED
        BY <2>1, <2>3, <3>2 DEF Live
    <2> QED
      BY <2>2, <2>3
  <1> HIDE DEF v, e
  <1>6. CASE End(c, s[c], v)
    BY <1>1, <1>3, <1>4, <1>5, <1>6, OwnEnd
  <1>7. CASE /\ c # LocalCtx /\ v.kind = "odd"
             /\ got' = [got EXCEPT ![c][s[c]] = Append(@, e)]
             /\ cur' = NoCtx
             /\ UNCHANGED <<states, code, at, s, responses, keyboard>>
    <2>1. /\ got'[c][s[c]] = Append(got[c][s[c]], e)
          /\ \A d \in Ctx, q \in ReqId : d # c \/ q # s[c] => got'[d][q] = got[d][q]
      BY <1>3, <1>7 DEF TypeInv, GotOK
    <2>2. got'[c][s[c]] # << >>
      <3>1. got[c][s[c]] \in Seq(Answer)
        BY <1>3 DEF TypeInv, GotOK
      <3> QED
        BY <1>4, <2>1, <3>1, NotEmptyAfter
    <2>3. \A d \in Ctx, q \in ReqId : Live(d, q)' => Live(d, q)
      BY <1>7, <2>1, <2>2 DEF Live
    <2>4. Known'
      BY <1>1, <1>3, <1>7, <2>1 DEF OwnInv, Known, Used, Begun
    <2>5. Single' /\ RunsLive' /\ OneLine'
      BY <1>7, <2>3 DEF OwnInv, Single, RunsLive, OneLine
    <2>6. InTurn'
      <3>1. PeerId \subseteq ReqId
        BY DEF ReqId
      <3> QED
        BY <1>1, <2>1, <2>2, <3>1 DEF OwnInv, InTurn
    <2>7. Told'
      <3>1. ASSUME NEW d \in Ctx \ Pipelines, NEW q \in ReqId
            PROVE  got'[d][q] = << >> \/ ToldOwn(d, q)'
        <4>1. CASE d # c \/ q # s[c]
          <5>1. got'[d][q] = got[d][q]
            BY <2>1, <4>1
          <5> QED
            BY <5>1 DEF OwnInv, Told, ToldOwn
        <4>2. CASE d = c /\ q = s[c]
          <5>1. got'[d][q] = Append(<< >>, e) /\ e.of = q
            BY <1>4, <1>5, <2>1, <4>2
          <5>2. Append(<< >>, e) = <<e>>
            OBVIOUS
          <5> QED
            BY <1>4, <5>1, <5>2 DEF ToldOwn
        <4> QED
          BY <4>1, <4>2
      <3> QED
        BY <3>1 DEF Told
    <2>8. OwnLast'
      BY <1>1, <1>7, <2>3 DEF OwnInv, OwnLast, Done
    <2>9. Asked'
      BY <1>1, <1>7 DEF OwnInv, Asked
    <2>10. Lingering'
      <3>1. ASSUME NEW d \in Ctx \ Pipelines, NEW q \in states[d], got'[d][q] # << >>
            PROVE  ~Asks(code[d][q])
        <4>0. q \in ReqId
          BY DEF TypeInv, RunOK
        <4>1. CASE d # c \/ q # s[c]
          BY <2>1, <3>1, <4>0, <4>1 DEF OwnInv, Lingering
        <4>2. CASE d = c /\ q = s[c]
          BY <1>5, <1>7, <4>2
        <4> QED
          BY <4>1, <4>2
      <3> QED
        BY <1>7, <3>1 DEF Lingering
    <2> QED
      BY <2>4, <2>5, <2>6, <2>7, <2>8, <2>9, <2>10 DEF OwnInv
  <1> QED
    BY <1>1, <1>6, <1>7

\* A request or a line that nobody has heard of gets a state.
LEMMA OwnStart ==
    ASSUME TypeInv, OwnInv, NEW c \in Ctx, NEW q \in ReqId, NEW p \in Code, Start(c, q, p),
           ~Begun(c, q), Begun(c, q)',
           \A d \in Ctx, r \in ReqId : Begun(d, r) => Begun(d, r)',
           c \notin Pipelines => \A r \in ReqId : ~Live(c, r),
           UNCHANGED <<got, last, responses, inflight>>,
           InTurn', OneLine'
    PROVE  OwnInv'
  <1>1. /\ states' = [states EXCEPT ![c] = @ \cup {q}]
        /\ code' = [code EXCEPT ![c][q] = p]
        /\ at' = [at EXCEPT ![c][q] = 1]
        /\ s' = [s EXCEPT ![c] = q] /\ cur' = c
        /\ states \in [Ctx -> SUBSET ReqId] /\ s \in [Ctx -> ReqId \cup {NoReq}]
        /\ code \in [Ctx -> [ReqId -> Code \cup {<< >>}]] /\ at \in [Ctx -> [ReqId -> Nat]]
    BY DEF Start, TypeInv, RunOK, Progs
  <1>2. /\ q \in states'[c] /\ code'[c][q] = p /\ at'[c][q] = 1 /\ s'[c] = q
        /\ \A d \in Ctx, r \in ReqId : d # c \/ r # q =>
              /\ r \in states'[d] <=> r \in states[d]
              /\ code'[d][r] = code[d][r] /\ at'[d][r] = at[d][r]
    BY <1>1
  <1>3. ~Used(c, q) /\ got[c][q] = << >>
    BY DEF OwnInv, Known, Used
  <1>4. \A d \in Ctx, r \in ReqId : d # c \/ r # q => (Live(d, r)' <=> Live(d, r))
    BY <1>2 DEF Live
  <1>5. Known'
    <2>1. \A d \in Ctx, r \in ReqId : Used(d, r)' => Used(d, r) \/ (d = c /\ r = q)
      BY <1>2 DEF Used
    <2>2. \A d \in Ctx, r \in ReqId : Used(d, r)' => Begun(d, r)'
      BY <2>1 DEF OwnInv, Known
    <2>3. \A r \in responses \cup inflight : r.ctx \in Ctx /\ r.src \in ReqId
      BY DEF TypeInv, RspOK, Request
    <2>4. ASSUME NEW r \in (responses \cup inflight)' PROVE Begun(r.ctx, r.src)'
      BY <2>3 DEF OwnInv, Known
    <2> QED
      BY <2>2, <2>4 DEF Known
  <1>6. Single'
    BY <1>4 DEF OwnInv, Single
  <1>7. RunsLive'
    BY <1>1, <1>2, <1>3 DEF RunsLive, Live
  <1>8. Told'
    BY DEF OwnInv, Told, ToldOwn
  <1>9. OwnLast'
    <2>1. ASSUME NEW d \in Ctx \ Pipelines, NEW r \in ReqId, Live(d, r)', Done(d, r)'
          PROVE  last'[d].of = r /\ (last'[d].kind = "odd" => ~Asks(code'[d][r]))
      <3>1. CASE d = c /\ r = q
        <4>1. 1 > Len(p) /\ Len(p) \in Nat \ {0}
          BY <1>2, <2>1, <3>1, ChainShape DEF Done
        <4> QED
          BY <4>1
      <3>2. CASE d # c \/ r # q
        <4>1. Live(d, r) /\ Done(d, r) /\ code'[d][r] = code[d][r]
          BY <1>2, <1>4, <2>1, <3>2 DEF Done
        <4>2. last[d].of = r /\ (last[d].kind = "odd" => ~Asks(code[d][r]))
          BY <4>1 DEF OwnInv, OwnLast
        <4> QED
          BY <4>1, <4>2
      <3> QED
        BY <3>1, <3>2
    <2> QED
      BY <2>1, Zenon DEF OwnLast, Asks
  <1>10. Asked'
    <2>1. ASSUME NEW r \in (responses \cup inflight)', r.src \in states'[r.ctx]
          PROVE  Asks(code'[r.ctx][r.src])
      <3>1. r \in responses \cup inflight
        BY <2>1
      <3>2. r.ctx \in Ctx /\ r.src \in ReqId /\ Begun(r.ctx, r.src)
        BY <3>1 DEF TypeInv, RspOK, Request, OwnInv, Known
      <3>3. r.ctx # c \/ r.src # q
        BY <3>2
      <3>4. r.src \in states[r.ctx] /\ code'[r.ctx][r.src] = code[r.ctx][r.src]
        BY <1>2, <2>1, <3>2, <3>3
      <3> QED
        BY <3>1, <3>4 DEF OwnInv, Asked
    <2> QED
      BY <2>1, Zenon DEF Asked, Asks
  <1>11. Lingering'
    <2>1. ASSUME NEW d \in Ctx \ Pipelines, NEW r \in states'[d], got'[d][r] # << >>
          PROVE  ~Asks(code'[d][r])
      <3>1. r \in ReqId
        BY <1>1
      <3>2. d # c \/ r # q
        BY <1>3, <2>1
      <3>3. r \in states[d] /\ code'[d][r] = code[d][r]
        BY <1>2, <3>1, <3>2
      <3> QED
        BY <2>1, <3>3 DEF OwnInv, Lingering
    <2> QED
      BY <2>1, Zenon DEF Lingering, Asks
  <1> QED
    BY <1>5, <1>6, <1>7, <1>8, <1>9, <1>10, <1>11 DEF OwnInv

\* A peer that waits sends a request when those before it are answered.
LEMMA SentInTurn ==
    ASSUME TypeInv, OwnInv, NEW c \in Ctx, NEW q \in PeerId, MaySend(c, q) \/ peer[c][q] = "begun",
           peer[c][q] # "sent", NEW v \in {"begun", "sent"},
           peer' = [peer EXCEPT ![c][q] = v], UNCHANGED got
    PROVE  InTurn'
  <1>1. /\ \A d \in Ctx, r \in PeerId : d # c \/ r # q => peer'[d][r] = peer[d][r]
        /\ peer'[c][q] = v
    BY DEF TypeInv, ReqOK
  <1>2. SUFFICES ASSUME NEW d \in Ctx \ (Pipelines \cup {LocalCtx}), NEW p \in PeerId, NEW r \in PeerId,
                        p < r, peer'[d][r] # "new"
                 PROVE  peer'[d][p] = "sent" /\ got[d][p] # << >>
    BY DEF InTurn
  <1>3. peer[d][p] = "sent" /\ got[d][p] # << >>
    <2>1. CASE peer[d][r] # "new"
      BY <1>2, <2>1 DEF OwnInv, InTurn
    <2>2. CASE peer[d][r] = "new"
      <3>1. d = c /\ r = q
        BY <1>1, <1>2, <2>2
      <3>2. MaySend(c, q)
        BY <2>2, <3>1
      <3> QED
        BY <1>2, <3>1, <3>2 DEF MaySend
    <2> QED
      BY <2>1, <2>2
  <1>4. d # c \/ p # q
    BY <1>3
  <1> QED
    BY <1>1, <1>3, <1>4

LEMMA OwnRequest ==
    ASSUME TypeInv, OwnInv,
           \/ ProcessReqData
           \/ \E c \in Ctx, q \in PeerId :
                 ReadReqPart(c, q) \/ ReadReqData(c, q) \/ ReadReqTail(c, q)
    PROVE  OwnInv'
  <1> USE CtxAssumption
  <1>0. ReqId \subseteq Nat /\ PeerId \subseteq ReqId /\ nextId \in Nat
    BY DEF ReqId, Id, TypeInv, RspOK
  <1>1. CASE ProcessReqData
    <2>0. PICK q \in ReqId : q = nextId
      BY <1>1 DEF ProcessReqData, TypeInv, RspOK, ReqId, Id
    <2>1. PICK p \in Code : Start(LocalCtx, q, p)
      BY <1>1, <2>0 DEF ProcessReqData
    <2>2. /\ UNCHANGED <<peer, responses, inflight, last, got>> /\ cur = NoCtx
          /\ q = nextId /\ nextId' = nextId + 1 /\ keyboard /\ keyboard' = FALSE
      BY <1>1, <2>0 DEF ProcessReqData, reqVars, envVars
    <2>3. ~Begun(LocalCtx, q) /\ Begun(LocalCtx, q)'
      BY <1>0, <2>2 DEF Begun
    <2>4. \A d \in Ctx, r \in ReqId : Begun(d, r) => Begun(d, r)'
      BY <1>0, <2>2 DEF Begun
    <2>5. states[LocalCtx] = {}
      BY <2>2 DEF OwnInv, OneLine
    <2>6. \A r \in ReqId : ~Live(LocalCtx, r)
      BY <2>5 DEF Live
    <2>7. InTurn'
      BY <2>2 DEF OwnInv, InTurn
    <2>8. OneLine'
      BY <2>1, <2>2, <2>5 DEF Start, OneLine, TypeInv, RunOK
    <2> QED
      BY <2>1, <2>2, <2>3, <2>4, <2>6, <2>7, <2>8, OwnStart
  <1>2. ASSUME NEW c \in Ctx, NEW q \in PeerId, ReadReqPart(c, q) \/ ReadReqTail(c, q)
        PROVE  OwnInv'
    <2>1. /\ UNCHANGED <<states, code, at, s, cur, nextId, responses, inflight, last, keyboard, got>>
          /\ MaySend(c, q) \/ peer[c][q] = "begun"
          /\ peer[c][q] # "sent"
          /\ \E v \in {"begun", "sent"} : peer' = [peer EXCEPT ![c][q] = v]
      BY <1>2 DEF ReadReqPart, ReadReqTail, runVars, rspVars, envVars, userVars
    <2>2. InTurn'
      BY <2>1, SentInTurn
    <2>3. \A d \in Ctx, r \in ReqId : Begun(d, r) => Begun(d, r)'
      BY <2>1 DEF Begun, TypeInv, ReqOK
    <2>4. Known'
      <3>1. \A r \in responses \cup inflight : r.ctx \in Ctx /\ r.src \in ReqId
        BY DEF TypeInv, RspOK, Request
      <3> QED
        BY <2>1, <2>3, <3>1 DEF OwnInv, Known, Used
    <2>5. Single' /\ RunsLive' /\ OneLine' /\ Told'
      BY <2>1 DEF OwnInv, Single, RunsLive, OneLine, Told, ToldOwn, Live
    <2>6. OwnLast' /\ Asked' /\ Lingering'
      BY <2>1 DEF OwnInv, OwnLast, Asked, Lingering, Live, Done
    <2> QED
      BY <2>2, <2>4, <2>5, <2>6 DEF OwnInv
  <1>3. ASSUME NEW c \in Ctx, NEW q \in PeerId, ReadReqData(c, q) PROVE OwnInv'
    <2>1. PICK p \in Code : Start(c, q, p)
      BY <1>3 DEF ReadReqData
    <2>2. /\ UNCHANGED <<nextId, responses, inflight, last, keyboard, got>>
          /\ q \in ReqId /\ MaySend(c, q) /\ c # LocalCtx
          /\ peer[c][q] # "sent" /\ peer' = [peer EXCEPT ![c][q] = "sent"]
      BY <1>3 DEF ReadReqData, MaySend, rspVars, envVars, userVars, ReqId
    <2>3. ~Begun(c, q) /\ Begun(c, q)'
      BY <2>2 DEF Begun, TypeInv, ReqOK
    <2>4. \A d \in Ctx, r \in ReqId : Begun(d, r) => Begun(d, r)'
      BY <2>2 DEF Begun, TypeInv, ReqOK
    <2>5. InTurn'
      BY <2>2, SentInTurn
    <2>6. ASSUME c \notin Pipelines, NEW r \in ReqId, Live(c, r) PROVE FALSE
      <3>1. r \in PeerId /\ peer[c][r] = "sent" /\ got[c][r] = << >>
        BY <2>2, <2>6 DEF OwnInv, Known, Used, Live, Begun
      <3>2. r \in Nat /\ q \in Nat /\ r # q
        BY <1>0, <2>2, <3>1
      <3>3. CASE r < q
        BY <2>2, <2>6, <3>1, <3>3 DEF MaySend
      <3>4. CASE q < r
        BY <2>2, <2>6, <3>1, <3>4 DEF OwnInv, InTurn
      <3> QED
        BY <3>2, <3>3, <3>4
    <2>7. OneLine'
      BY <2>1, <2>2 DEF Start, OwnInv, OneLine, TypeInv, RunOK
    <2> QED
      BY <2>1, <2>2, <2>3, <2>4, <2>5, <2>6, <2>7, OwnStart
  <1> QED
    BY <1>1, <1>2, <1>3

\* Responses resume, end or erase a state that has not answered.
LEMMA OwnResponse ==
    ASSUME TypeInv, OwnInv, NEW r \in inflight,
           \/ DropRsp(r) \/ MisplacedRsp(r)
           \/ \E kind \in {"value", "error"} : ReadRspData(r, kind)
    PROVE  OwnInv'
  <1> USE CtxAssumption
  <1>0. r.ctx \in Ctx /\ r.src \in ReqId /\ r.opener \in Ctx /\ nextId \in Nat
    BY DEF TypeInv, RspOK, Request
  <1>1. CASE DropRsp(r)
    <2>1. /\ inflight' \subseteq inflight /\ cur = NoCtx
          /\ UNCHANGED <<peer, states, code, at, s, cur, responses, nextId, last, keyboard, got>>
      BY <1>1 DEF DropRsp, reqVars, runVars, envVars, userVars
    <2>2. Shrinks
      BY <2>1, ShrinksQuiet
    <2>3. AnswersOwn /\ RunsLive' /\ OneLine' /\ states' \in [Ctx -> SUBSET ReqId]
      BY <2>1 DEF AnswersOwn, AnswerOwn, RunsLive, OwnInv, OneLine, TypeInv, RunOK
    <2> QED
      BY <1>0, <2>1, <2>2, <2>3, OwnShrinks
  <1>2. CASE MisplacedRsp(r)
    <2>1. /\ inflight' \subseteq inflight /\ cur = NoCtx /\ Erase(r.opener, r.src)
          /\ UNCHANGED <<peer, s, cur, nextId, last, keyboard, got>>
      BY <1>2 DEF MisplacedRsp, reqVars, envVars, userVars
    <2>2. /\ Shrinks /\ responses' \subseteq responses /\ states' \in [Ctx -> SUBSET ReqId]
          /\ states' = [states EXCEPT ![r.opener] = @ \ {r.src}]
      BY <1>0, <2>1, ShrinksErase DEF Erase
    <2>3. AnswersOwn /\ RunsLive'
      BY <2>1 DEF AnswersOwn, AnswerOwn, RunsLive
    <2>4. OneLine'
      BY <1>0, <2>1, <2>2 DEF OwnInv, OneLine, TypeInv, RunOK
    <2> QED
      BY <1>0, <2>1, <2>2, <2>3, <2>4, OwnShrinks
  <1>3. ASSUME NEW kind \in {"value", "error"}, ReadRspData(r, kind) PROVE OwnInv'
    <2>1. /\ inflight' \subseteq inflight /\ r.src \in states[r.ctx] /\ cur = NoCtx
          /\ last' = [last EXCEPT ![r.ctx] = Fill(@, r.id, kind)]
          /\ UNCHANGED <<peer, nextId>>
          /\ \/ End(r.ctx, r.src, [kind |-> "error", of |-> r.src])
             \/ /\ s' = [s EXCEPT ![r.ctx] = r.src] /\ cur' = r.ctx
                /\ UNCHANGED <<states, code, at, responses, keyboard, got>>
      BY <1>3 DEF ReadRspData, reqVars
    <2>2. \A d \in Ctx : /\ last'[d].of = last[d].of
                         /\ last'[d].kind = "odd" => last[d].kind = "odd"
                         /\ last'[d].kind = "none" => last[d].kind = "none"
      BY <1>0, <2>1, FillSlot DEF TypeInv, EnvOK
    <2>3. r.ctx \notin Pipelines => Live(r.ctx, r.src)
      BY <2>1, AskedIsLive
    <2>4. CASE End(r.ctx, r.src, [kind |-> "error", of |-> r.src])
      <3>1. [kind |-> "error", of |-> r.src] \in Answer
        BY <1>0 DEF Answer
      <3>2. r.ctx \notin Pipelines => got[r.ctx][r.src] = << >>
        BY <2>3 DEF Live
      <3> QED
        BY <1>0, <2>1, <2>2, <2>4, <3>1, <3>2, OwnEnd
    <2>5. CASE /\ s' = [s EXCEPT ![r.ctx] = r.src] /\ cur' = r.ctx
               /\ UNCHANGED <<states, code, at, responses, keyboard, got>>
      <3>1. Shrinks /\ states' \in [Ctx -> SUBSET ReqId]
        BY <2>2, <2>5 DEF TypeInv, RunOK, Progs, Shrinks
      <3>2. AnswersOwn
        BY <2>5 DEF AnswersOwn, AnswerOwn
      <3>3. s'[r.ctx] = r.src
        BY <1>0, <2>5 DEF TypeInv, RunOK
      <3>4. RunsLive'
        BY <2>3, <2>5, <3>3 DEF RunsLive, Live
      <3>5. OneLine'
        <4>1. CASE r.ctx = LocalCtx
          BY <2>1, <2>5, <3>3, <4>1 DEF OwnInv, OneLine
        <4>2. CASE r.ctx # LocalCtx
          BY <2>5, <4>2 DEF OwnInv, OneLine, TypeInv, RunOK
        <4> QED
          BY <4>1, <4>2
      <3> QED
        BY <1>0, <2>1, <2>2, <2>5, <3>1, <3>2, <3>4, <3>5, OwnShrinks
    <2> QED
      BY <2>1, <2>4, <2>5
  <1> QED
    BY <1>1, <1>2, <1>3

\* The event loop reports of the states it takes away, each to its own request.
LEMMA OwnLoop ==
    ASSUME TypeInv, OwnInv, AgeRsp \/ AgeReq \/ Gc \/ Reset
    PROVE  OwnInv'
  <1> USE CtxAssumption
  <1>0. nextId \in Nat /\ LocalCtx \in Ctx
    BY DEF TypeInv, RspOK
  <1>1. CASE AgeRsp \/ AgeReq
    <2>1. UNCHANGED <<peer, states, code, at, s, cur, responses, inflight, nextId, last, keyboard, got>>
      BY <1>1 DEF AgeRsp, AgeReq, reqVars, runVars, rspVars, envVars, userVars
    <2>2. Shrinks
      BY <2>1, ShrinksQuiet
    <2>3. AnswersOwn /\ RunsLive' /\ OneLine' /\ states' \in [Ctx -> SUBSET ReqId]
      BY <2>1 DEF AnswersOwn, AnswerOwn, OwnInv, RunsLive, Live, OneLine, TypeInv, RunOK
    <2> QED
      BY <1>0, <2>1, <2>2, <2>3, OwnShrinks
  <1>2. CASE Gc
    <2>1. /\ states' = [c \in Ctx |-> states[c] \ Expired(c)]
          /\ code' = [c \in Ctx |-> [q \in ReqId |->
                        IF q \in Expired(c) THEN << >> ELSE code[c][q]]]
          /\ at' = [c \in Ctx |-> [q \in ReqId |-> IF q \in Expired(c) THEN 0 ELSE at[c][q]]]
          /\ responses' \subseteq responses
          /\ s' = [c \in Ctx |-> IF s[c] \in Expired(c) THEN NoReq ELSE s[c]]
          /\ cur = NoCtx
          /\ keyboard' = (keyboard \/ s[LocalCtx] \in Expired(LocalCtx))
          /\ UNCHANGED <<peer, cur, inflight, nextId, last>>
      BY <1>2 DEF Gc, envVars
    <2>2. got' = [c \in Ctx |-> [q \in ReqId |->
                   IF q \in Expired(c) /\ q = s[c]
                   THEN Append(got[c][q], [kind |-> "timeout", of |-> q]) ELSE got[c][q]]]
      BY <1>2 DEF Gc
    <2>3. Shrinks /\ states' \in [Ctx -> SUBSET ReqId]
      <3>1. /\ code' \in [Ctx -> [ReqId -> Code \cup {<< >>}]]
            /\ at' \in [Ctx -> [ReqId -> Nat]]
        BY <2>1 DEF TypeInv, Progs
      <3>2. states' \in [Ctx -> SUBSET ReqId]
        BY <2>1 DEF TypeInv, RunOK
      <3>3. ASSUME NEW d \in Ctx, NEW q \in states'[d]
            PROVE  q \in states[d] /\ code'[d][q] = code[d][q] /\ at'[d][q] = at[d][q]
        BY <2>1 DEF TypeInv, RunOK
      <3> QED
        BY <2>1, <3>1, <3>2, <3>3 DEF Shrinks
    <2>4. ASSUME NEW c \in Ctx, NEW q \in Expired(c)
          PROVE  q \in states[c] /\ (c \notin Pipelines => got[c][q] = << >>)
      <3>1. PICK r \in responses : r.ctx = c /\ r.src = q /\ q \in states[c]
        BY DEF Expired
      <3> QED
        BY <3>1, AskedIsLive DEF Live
    <2>5. AnswersOwn
      <3>1. ASSUME NEW d \in Ctx, NEW q \in ReqId PROVE AnswerOwn(d, q)
        <4>1. CASE q \in Expired(d) /\ q = s[d]
          <5>1. got'[d][q] = Append(got[d][q], [kind |-> "timeout", of |-> q])
            BY <2>2, <4>1
          <5>2. [kind |-> "timeout", of |-> q] \in Answer
            BY DEF Answer
          <5>3. q \in states[d] /\ q \notin states'[d]
            BY <2>1, <2>4, <4>1
          <5> QED
            BY <2>4, <4>1, <5>1, <5>2, <5>3 DEF AnswerOwn
        <4>2. CASE ~(q \in Expired(d) /\ q = s[d])
          BY <2>2, <4>2 DEF AnswerOwn
        <4> QED
          BY <4>1, <4>2
      <3> QED
        BY <3>1 DEF AnswersOwn
    <2>6. RunsLive'
      BY <2>1 DEF RunsLive
    <2>7. OneLine'
      BY <1>0, <2>1 DEF OwnInv, OneLine
    <2> QED
      BY <1>0, <2>1, <2>3, <2>5, <2>6, <2>7, OwnShrinks
  <1>3. CASE Reset
    <2>1. /\ states' = [states EXCEPT ![LocalCtx] = {}]
          /\ code' = [code EXCEPT ![LocalCtx] = [q \in ReqId |-> << >>]]
          /\ at' = [at EXCEPT ![LocalCtx] = [q \in ReqId |-> 0]]
          /\ responses' \subseteq responses /\ cur = NoCtx
          /\ UNCHANGED <<peer, cur, inflight, nextId, last, got>>
      BY <1>3 DEF Reset, envVars
    <2>2. Shrinks /\ states' \in [Ctx -> SUBSET ReqId]
      BY <2>1 DEF Shrinks, TypeInv, RunOK, Progs
    <2>3. AnswersOwn /\ RunsLive'
      BY <2>1 DEF AnswersOwn, AnswerOwn, RunsLive
    <2>4. OneLine'
      BY <1>0, <2>1 DEF OneLine, TypeInv, RunOK
    <2> QED
      BY <1>0, <2>1, <2>2, <2>3, <2>4, OwnShrinks
  <1> QED
    BY <1>1, <1>2, <1>3

LEMMA OwnInit == Init => OwnInv
  <1> SUFFICES ASSUME Init PROVE OwnInv
    OBVIOUS
  <1>0. /\ peer = [c \in Ctx |-> [q \in PeerId |-> "new"]]
        /\ states = [c \in Ctx |-> {}] /\ cur = NoCtx
        /\ responses = {} /\ inflight = {}
        /\ got = [c \in Ctx |-> [q \in ReqId |-> << >>]]
    BY DEF Init
  <1>1. Known /\ Single /\ RunsLive /\ InTurn
    BY <1>0 DEF Known, Used, Single, RunsLive, InTurn, Live
  <1>2. OneLine /\ Told /\ OwnLast /\ Asked /\ Lingering
    BY <1>0, CtxAssumption DEF OneLine, Told, OwnLast, Asked, Lingering, Live
  <1> QED
    BY <1>1, <1>2 DEF OwnInv

LEMMA OwnStep == OddAlone /\ TypeInv /\ OwnInv /\ [Next]_vars => OwnInv'
  <1> SUFFICES ASSUME OddAlone, TypeInv, OwnInv, [Next]_vars PROVE OwnInv'
    OBVIOUS
  <1>1. CASE UNCHANGED vars
    <2>1. UNCHANGED <<peer, states, code, at, s, cur, responses, inflight, nextId, last, keyboard, got>>
      BY <1>1 DEF vars, reqVars, runVars, rspVars, envVars, userVars
    <2>2. Known' /\ Single' /\ RunsLive' /\ InTurn' /\ OneLine'
      BY <2>1 DEF OwnInv, Known, Used, Begun, Single, RunsLive, InTurn, OneLine, Live
    <2>3. Told' /\ OwnLast' /\ Asked' /\ Lingering'
      BY <2>1 DEF OwnInv, Told, ToldOwn, OwnLast, Asked, Lingering, Live, Done
    <2> QED
      BY <2>2, <2>3 DEF OwnInv
  <1>2. CASE Next
    BY <1>2, OwnEvaluate, OwnSendReq, OwnStops, OwnFinish, OwnRequest, OwnResponse, OwnLoop
       DEF Next, Interpret
  <1> QED
    BY <1>1, <1>2

LEMMA OwnAlways == ASSUME OddAlone PROVE Spec => [](TypeInv /\ OwnInv)
  <1>1. Init => TypeInv /\ OwnInv
    BY TypeInit, OwnInit
  <1>2. TypeInv /\ OwnInv /\ [Next]_vars => (TypeInv /\ OwnInv)'
    BY TypeStep, OwnStep
  <1> QED
    BY <1>1, <1>2, PTL DEF Spec

\* A peer that waits for each answer before it sends the next request, and the
\* user at the keyboard, are answered with what their own request evaluated to,
\* although the requests of a context share x and .Last.value, and whatever
\* responses are late or misplaced, states expire, or evaluations are
\* interrupted; for any number of contexts, requests and programs, as long as no
\* program that asks another process ends in a value that cannot be transmitted.
THEOREM AnswersAreOwn == ASSUME OddAlone PROVE Spec => []OwnAnswer
  <1>1. OwnInv => OwnAnswer
    <2> SUFFICES ASSUME OwnInv, NEW c \in Ctx \ Pipelines, NEW q \in ReqId,
                        NEW k \in 1 .. Len(got[c][q])
                 PROVE  got[c][q][k].of = q
      BY DEF OwnAnswer, Own
    <2>1. got[c][q] = << >> \/ ToldOwn(c, q)
      BY DEF OwnInv, Told
    <2>2. PICK a \in Answer : a.of = q /\ got[c][q] = <<a>>
      BY <2>1 DEF ToldOwn
    <2>3. k = 1
      BY <2>2
    <2> QED
      BY <2>2, <2>3
  <1> QED
    BY <1>1, OwnAlways, PTL

\* Without pipelining a request is answered at most once also when a value cannot
\* be transmitted, under the same condition on the programs.
THEOREM AnsweredOnceInTurn == ASSUME OddAlone, Pipelines = {} PROVE Spec => []AnsweredOnce
  <1>1. OwnInv => AnsweredOnce
    <2> SUFFICES ASSUME OwnInv, NEW c \in Ctx, NEW q \in ReqId PROVE Len(got[c][q]) <= 1
      BY DEF AnsweredOnce
    <2>1. got[c][q] = << >> \/ \E a \in Answer : got[c][q] = <<a>>
      BY DEF OwnInv, Told, ToldOwn
    <2>2. Len(<< >>) = 0 /\ \A a \in Answer : Len(<<a>>) = 1
      OBVIOUS
    <2>3. Len(got[c][q]) = 0 \/ Len(got[c][q]) = 1
      BY <2>1, <2>2, Zenon
    <2>4. ASSUME NEW n, n = 0 \/ n = 1 PROVE n <= 1
      BY <2>4
    <2> QED
      BY <2>3, <2>4, Zenon
  <1> QED
    BY <1>1, OwnAlways, PTL
=============================================================================
