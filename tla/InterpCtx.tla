------------------------------ MODULE InterpCtx ------------------------------
(***************************************************************************)
(* The interpretation contexts of a process (zcore::InterpCtx): one per    *)
(* peer and one for the keyboard.  A context runs several requests, each   *)
(* in a state of its own, on one shared frame.  The expression             *)
(* 'con ? e' sends a request to a third process and yields a future; code  *)
(* that needs the value of a future suspends its state until the response  *)
(* has come, and a state that waits for too long is collected.             *)
(*                                                                         *)
(* Code is abstracted to the statements that matter to this protocol, and  *)
(* runs outside of any tryCatch.  Everything here happens on one thread:   *)
(* 'cur' is the context whose interpret() is on the stack.                 *)
(***************************************************************************)
EXTENDS Naturals, Sequences, FiniteSets

CONSTANTS
    Ctx,         \* the contexts
    LocalCtx,    \* the one that reads the keyboard
    NoCtx,       \* none: the event loop is waiting
    Openers,     \* Ctx -> SUBSET Ctx: who opened the connections that c uses
    Pipelines,   \* contexts whose peer sends requests without waiting
    PeerId,      \* request ids the peers use (they number them themselves)
    MaxLines,    \* bound on the lines typed
    MaxId,       \* bound on getNextId()
    MaxInt,      \* bound on the interrupts
    Code         \* the programs that requests and lines may hold

Stmt == {"val",   \* an expression of this process
         "odd",   \* an expression whose value cannot be transmitted
         "ask",   \* con ? e
         "set",   \* x <- con ? e
         "use",   \* x
         "fail"}  \* an expression that throws

ASSUME CtxAssumption ==
    /\ LocalCtx \in Ctx /\ NoCtx \notin Ctx
    /\ Openers \in [Ctx -> SUBSET Ctx]
    /\ Pipelines \subseteq Ctx \ {LocalCtx}
    /\ PeerId \subseteq Nat \ {0}
    /\ MaxLines \in Nat /\ MaxId \in Nat /\ MaxInt \in Nat
    /\ Code \subseteq Seq(Stmt) /\ << >> \notin Code

NoReq == 0
Id    == 1 .. MaxId
ReqId == PeerId \cup Id

VARIABLES
    peer,        \* what a peer has sent of each of its requests
    requests,    \* requests being reassembled
    oldReq,      \* those of them older than in.req.ttl.secs
    states,      \* the requests and lines that have a state
    code, at,    \* what a state interprets, and the next statement
    responses,   \* the RspStates of the states, finished ones included
    horizon,     \* responses up to this id are older than in.rsp.ttl.secs
    inflight,    \* requests a third process has not answered yet
    s,           \* the state a context interpreted last, or NoReq
    cur,         \* the context that is interpreting, or NoCtx
    last, x,     \* .Last.value and the variable x, in the frame of a context
    nextId,      \* getNextId()
    keyboard,    \* whether the keyboard is polled
    lines, ints, \* lines read and interrupts received
    got,         \* history: what a request was answered, or a line displayed
    crossed      \* history: a response hit the state of another request

reqVars  == <<peer, requests, oldReq>>
runVars  == <<states, code, at, s, cur>>
rspVars  == <<responses, horizon, inflight, nextId>>
envVars  == <<last, x>>
userVars == <<keyboard, lines, ints>>
vars     == <<reqVars, runVars, rspVars, envVars, userVars, got, crossed>>

\* The last assignment of a program is followed by an evaluation of its
\* variable, whose result is not shown (Kont::SILENT).
Chain(p) == IF p[Len(p)] = "set" THEN Append(p, "silent") ELSE p

Slot    == [kind : {"none", "future", "value", "error", "odd"}, id : Id \cup {0},
            of : ReqId \cup {NoReq}]
Empty   == [kind |-> "none", id |-> 0, of |-> NoReq]
Answer  == [kind : {"value", "error", "odd", "TRUE", "timeout"}, of : ReqId \cup {NoReq}]
Request == [id : Id, ctx : Ctx, src : ReqId, opener : Ctx]

TypeOK ==
    /\ peer \in [Ctx -> [PeerId -> {"new", "begun", "sent"}]]
    /\ requests \in [Ctx -> SUBSET PeerId]
    /\ oldReq \in [Ctx -> SUBSET PeerId]
    /\ states \in [Ctx -> SUBSET ReqId]
    /\ code \in [Ctx -> [ReqId -> Code \cup {<< >>}]]
    /\ at \in [Ctx -> [ReqId -> Nat]]
    /\ responses \subseteq Request
    /\ horizon \in 0 .. MaxId
    /\ inflight \subseteq Request
    /\ s \in [Ctx -> ReqId \cup {NoReq}]
    /\ cur \in Ctx \cup {NoCtx}
    /\ cur # NoCtx => s[cur] \in states[cur]
    /\ last \in [Ctx -> Slot] /\ x \in [Ctx -> Slot]
    /\ nextId \in 1 .. MaxId + 1
    /\ keyboard \in BOOLEAN
    /\ lines \in 0 .. MaxLines /\ ints \in 0 .. MaxInt
    /\ got \in [Ctx -> [ReqId -> Seq(Answer)]]
    /\ crossed \in BOOLEAN

Init ==
    /\ peer = [c \in Ctx |-> [q \in PeerId |-> "new"]]
    /\ requests = [c \in Ctx |-> {}]
    /\ oldReq = [c \in Ctx |-> {}]
    /\ states = [c \in Ctx |-> {}]
    /\ code = [c \in Ctx |-> [q \in ReqId |-> << >>]]
    /\ at = [c \in Ctx |-> [q \in ReqId |-> 0]]
    /\ responses = {} /\ horizon = 0 /\ inflight = {}
    /\ s = [c \in Ctx |-> NoReq]
    /\ cur = NoCtx
    /\ last = [c \in Ctx |-> Empty] /\ x = [c \in Ctx |-> Empty]
    /\ nextId = 1
    /\ keyboard = TRUE /\ lines = 0 /\ ints = 0
    /\ got = [c \in Ctx |-> [q \in ReqId |-> << >>]]
    /\ crossed = FALSE

(***************************************************************************)
(* Requests arrive                                                         *)
(***************************************************************************)
\* A peer numbers its requests in order; one that does not pipeline waits for
\* the answer of a request before it sends the next.
MaySend(c, q) ==
    /\ c # LocalCtx
    /\ \A p \in PeerId : p < q => /\ peer[c][p] = "sent"
                                  /\ c \notin Pipelines => got[c][p] # << >>

\* A new state is interpreted at once.
Start(c, q, p) ==
    /\ states' = [states EXCEPT ![c] = @ \cup {q}]
    /\ code' = [code EXCEPT ![c][q] = p]
    /\ at' = [at EXCEPT ![c][q] = 1]
    /\ s' = [s EXCEPT ![c] = q]
    /\ cur' = c

\* readReqData with a message that does not complete the request.
ReadReqPart(c, q) ==
    /\ cur = NoCtx /\ MaySend(c, q) /\ peer[c][q] = "new"
    /\ peer' = [peer EXCEPT ![c][q] = "begun"]
    /\ requests' = [requests EXCEPT ![c] = @ \cup {q}]
    /\ UNCHANGED <<oldReq, runVars, rspVars, envVars, userVars, got, crossed>>

\* readReqData with the message that completes it.
ReadReqData(c, q) ==
    /\ cur = NoCtx /\ MaySend(c, q)
    /\ peer[c][q] = "new" \/ (peer[c][q] = "begun" /\ q \in requests[c])
    /\ peer' = [peer EXCEPT ![c][q] = "sent"]
    /\ requests' = [requests EXCEPT ![c] = @ \ {q}]
    /\ oldReq' = [oldReq EXCEPT ![c] = @ \ {q}]
    /\ \E p \in Code : Start(c, q, p)
    /\ UNCHANGED <<rspVars, envVars, userVars, got, crossed>>

\* The end of a request whose beginning has been collected is read as a
\* beginning: it throws, and is dropped, or waits for more.
ReadReqTail(c, q) ==
    /\ cur = NoCtx /\ peer[c][q] = "begun" /\ q \notin requests[c]
    /\ peer' = [peer EXCEPT ![c][q] = "sent"]
    /\ \E R \in {{}, {q}} : requests' = [requests EXCEPT ![c] = @ \cup R]
    /\ UNCHANGED <<oldReq, runVars, rspVars, envVars, userVars, got, crossed>>

\* A line is read: processReqData.
ProcessReqData ==
    /\ cur = NoCtx /\ keyboard /\ lines < MaxLines /\ nextId <= MaxId
    /\ keyboard' = FALSE
    /\ lines' = lines + 1
    /\ nextId' = nextId + 1
    /\ \E p \in Code : Start(LocalCtx, nextId, p)
    /\ UNCHANGED <<reqVars, responses, horizon, inflight, envVars, ints, got, crossed>>

(***************************************************************************)
(* interpret                                                               *)
(***************************************************************************)
Now(c)    == LET p == Chain(code[c][s[c]]) IN
             IF at[c][s[c]] <= Len(p) THEN p[at[c][s[c]]] ELSE "end"
Final(c)  == at[c][s[c]] = Len(Chain(code[c][s[c]]))
Silent(c) == LET p == Chain(code[c][s[c]]) IN p[Len(p)] = "silent"

Advance(c) == at' = [at EXCEPT ![c][s[c]] = @ + 1]

\* states.erase(q), its RspStates included.
Erase(c, q) ==
    /\ states' = [states EXCEPT ![c] = @ \ {q}]
    /\ code' = [code EXCEPT ![c][q] = << >>]
    /\ at' = [at EXCEPT ![c][q] = 0]
    /\ responses' = {r \in responses : ~(r.ctx = c /\ r.src = q)}

\* Mutant: the state is left behind.
EndKeepsState(c, q, a) ==
    /\ got' = [got EXCEPT ![c][q] = Append(@, a)]
    /\ s' = [s EXCEPT ![c] = NoReq]
    /\ cur' = NoCtx
    /\ keyboard' = (keyboard \/ c = LocalCtx)
    /\ UNCHANGED <<states, code, at, responses>>

\* Answers the peer or displays, and leaves interpret(); the keyboard is
\* polled again after a line.
End(c, q, a) ==
    /\ got' = [got EXCEPT ![c][q] = Append(@, a)]
    /\ Erase(c, q)
    /\ s' = [s EXCEPT ![c] = NoReq]
    /\ cur' = NoCtx
    /\ keyboard' = (keyboard \/ c = LocalCtx)

\* A statement is evaluated; the value of the last one is .Last.value.
Evaluate(c) ==
    /\ cur = c
    /\ \/ Now(c) \in {"val", "odd"}
       \/ Now(c) \in {"use", "silent"} /\ x[c].kind \in {"value", "error"}
    /\ last' = IF Final(c)
               THEN [last EXCEPT ![c] =
                       [kind |-> CASE Now(c) = "odd" -> "odd"
                                   [] Now(c) = "val" -> "value"
                                   [] OTHER -> x[c].kind,
                        id |-> 0, of |-> s[c]]]
               ELSE last
    /\ Advance(c)
    /\ UNCHANGED <<reqVars, states, code, s, cur, rspVars, x, userVars, got, crossed>>

\* Mutant: the future does not replace a .Last.value that exists (emplace
\* without erase).
SendReqForgets(c, o) ==
    LET r == [id |-> nextId, ctx |-> c, src |-> s[c], opener |-> o]
        future == [kind |-> "future", id |-> nextId, of |-> s[c]]
    IN  /\ cur = c /\ o \in Openers[c] /\ Now(c) \in {"ask", "set"} /\ nextId <= MaxId
        /\ nextId' = nextId + 1
        /\ responses' = responses \cup {r}
        /\ inflight' = inflight \cup {r}
        /\ x' = IF Now(c) = "set" THEN [x EXCEPT ![c] = future] ELSE x
        /\ last' = IF Now(c) = "ask" /\ Final(c) /\ last[c].kind = "none"
                   THEN [last EXCEPT ![c] = future] ELSE last
        /\ Advance(c)
        /\ UNCHANGED <<reqVars, states, code, s, cur, horizon, userVars, got, crossed>>

\* A request is sent and its future stored: in x, or in .Last.value, or not at
\* all.
SendReq(c, o) ==
    LET r == [id |-> nextId, ctx |-> c, src |-> s[c], opener |-> o]
        future == [kind |-> "future", id |-> nextId, of |-> s[c]]
    IN  /\ cur = c /\ o \in Openers[c] /\ Now(c) \in {"ask", "set"} /\ nextId <= MaxId
        /\ nextId' = nextId + 1
        /\ responses' = responses \cup {r}
        /\ inflight' = inflight \cup {r}
        /\ x' = IF Now(c) = "set" THEN [x EXCEPT ![c] = future] ELSE x
        /\ last' = IF Now(c) = "ask" /\ Final(c) THEN [last EXCEPT ![c] = future] ELSE last
        /\ Advance(c)
        /\ UNCHANGED <<reqVars, states, code, s, cur, horizon, userVars, got, crossed>>

\* The code throws, x does not exist, or there is no connection to send on.
Throw(c) ==
    /\ cur = c
    /\ Now(c) \in {"fail", "ask", "set"} \/ (Now(c) = "use" /\ x[c].kind = "none")
    /\ Now(c) \in {"ask", "set"} => nextId <= MaxId
    /\ nextId' = IF Now(c) \in {"ask", "set"} THEN nextId + 1 ELSE nextId
    /\ End(c, s[c], [kind |-> "error", of |-> s[c]])
    /\ UNCHANGED <<reqVars, horizon, inflight, envVars, lines, ints, crossed>>

\* FutureException, or .Last.value is a future at the end: the state is left
\* as it is.
Block(c) ==
    /\ cur = c
    /\ \/ Now(c) \in {"use", "silent"} /\ x[c].kind = "future"
       \/ Now(c) = "end" /\ ~Silent(c) /\ last[c].kind = "future"
    /\ cur' = NoCtx
    /\ UNCHANGED <<reqVars, states, code, at, s, rspVars, envVars, userVars, got, crossed>>

Finish(c) ==
    LET v == IF Silent(c) THEN [kind |-> "TRUE", of |-> s[c]]
             ELSE [kind |-> last[c].kind, of |-> last[c].of]
    IN  /\ cur = c /\ Now(c) = "end"
        /\ Silent(c) \/ last[c].kind # "future"
        /\ \/ /\ c = LocalCtx \/ v.kind # "odd"
              /\ End(c, s[c], v)
           \/ /\ c # LocalCtx /\ v.kind = "odd"    \* returns without erasing
              /\ got' = [got EXCEPT ![c][s[c]] = Append(@, [v EXCEPT !.kind = "error"])]
              /\ cur' = NoCtx
              /\ UNCHANGED <<states, code, at, s, responses, keyboard>>
        /\ UNCHANGED <<reqVars, horizon, inflight, nextId, envVars, lines, ints, crossed>>

\* SIGINT while a context is interpreting.
Interrupt(c) ==
    /\ cur = c /\ ints < MaxInt
    /\ ints' = ints + 1
    /\ End(c, s[c], [kind |-> "error", of |-> s[c]])
    /\ UNCHANGED <<reqVars, horizon, inflight, nextId, envVars, lines, crossed>>

(***************************************************************************)
(* Responses arrive                                                        *)
(***************************************************************************)
\* The place that still holds the future of request i gets its value.
Fill(slot, i, kind) ==
    IF slot.kind = "future" /\ slot.id = i
    THEN [slot EXCEPT !.kind = kind, !.id = 0] ELSE slot
Referenced(c, i) == \E slot \in {x[c], last[c]} : slot.kind = "future" /\ slot.id = i

\* A response goes to the context that opened the connection.
\* Without a state: "that's OK".
DropRsp(r) ==
    /\ cur = NoCtx /\ r \in inflight
    /\ r.src \notin states[r.opener]
    /\ inflight' = inflight \ {r}
    /\ UNCHANGED <<reqVars, runVars, responses, horizon, nextId, envVars, userVars, got, crossed>>

\* With a state that has sent no such request: the state is erased, and s keeps
\* pointing to it.
MisplacedRsp(r) ==
    LET c == r.opener
    IN  /\ cur = NoCtx /\ r \in inflight
        /\ r.src \in states[c] /\ r.ctx # c
        /\ inflight' = inflight \ {r}
        /\ Erase(c, r.src)
        /\ crossed' = TRUE
        /\ UNCHANGED <<reqVars, s, cur, horizon, nextId, envVars, userVars, got>>

\* Mutant: a late response resumes a state that is gone.
ReadRspLate(r, kind) ==
    LET c == r.ctx
    IN  /\ cur = NoCtx /\ r \in inflight /\ r.opener = c
        /\ inflight' = inflight \ {r}
        /\ x' = [x EXCEPT ![c] = Fill(@, r.id, kind)]
        /\ last' = [last EXCEPT ![c] = Fill(@, r.id, kind)]
        /\ s' = [s EXCEPT ![c] = r.src]
        /\ cur' = c
        /\ UNCHANGED <<states, code, at, responses, keyboard, got>>
        /\ UNCHANGED <<reqVars, horizon, nextId, lines, ints, crossed>>

\* With the state that waits for it: the value is stored and the state
\* resumed.  In a line, an error is thrown where the line waits.
ReadRspData(r, kind) ==
    LET c == r.ctx
        q == r.src
    IN  /\ cur = NoCtx /\ r \in inflight
        /\ r.opener = c /\ q \in states[c]
        /\ inflight' = inflight \ {r}
        /\ x' = [x EXCEPT ![c] = Fill(@, r.id, kind)]
        /\ last' = [last EXCEPT ![c] = Fill(@, r.id, kind)]
        /\ \/ /\ c = LocalCtx /\ kind = "error" /\ Referenced(c, r.id)
              /\ at[c][q] <= Len(Chain(code[c][q]))
              /\ End(c, q, [kind |-> "error", of |-> q])
           \/ /\ ~(/\ c = LocalCtx /\ kind = "error" /\ Referenced(c, r.id)
                   /\ at[c][q] <= Len(Chain(code[c][q])))
              /\ s' = [s EXCEPT ![c] = q]
              /\ cur' = c
              /\ UNCHANGED <<states, code, at, responses, keyboard, got>>
        /\ UNCHANGED <<reqVars, horizon, nextId, lines, ints, crossed>>

(***************************************************************************)
(* Time, collection and interrupts of the event loop                       *)
(***************************************************************************)
AgeRsp ==
    /\ horizon < nextId - 1
    /\ horizon' = nextId - 1
    /\ UNCHANGED <<reqVars, runVars, responses, inflight, nextId, envVars, userVars, got, crossed>>

AgeReq ==
    /\ oldReq # requests
    /\ oldReq' = requests
    /\ UNCHANGED <<peer, requests, runVars, rspVars, envVars, userVars, got, crossed>>

\* Mutant: the oldest response that counts as expired is one too old.
ExpiredLate(c) == {q \in states[c] : \E r \in responses :
                      r.ctx = c /\ r.src = q /\ r.id < horizon}
Expired(c) == {q \in states[c] : \E r \in responses :
                  r.ctx = c /\ r.src = q /\ r.id <= horizon}

\* Mutant: the peers are not told.
GcSilent ==
    /\ cur = NoCtx
    /\ \E c \in Ctx : Expired(c) # {} \/ oldReq[c] # {}
    /\ requests' = [c \in Ctx |-> requests[c] \ oldReq[c]]
    /\ oldReq' = [c \in Ctx |-> {}]
    /\ states' = [c \in Ctx |-> states[c] \ Expired(c)]
    /\ code' = [c \in Ctx |-> [q \in ReqId |->
                  IF q \in Expired(c) THEN << >> ELSE code[c][q]]]
    /\ at' = [c \in Ctx |-> [q \in ReqId |-> IF q \in Expired(c) THEN 0 ELSE at[c][q]]]
    /\ responses' = {r \in responses : r.src \notin Expired(r.ctx)}
    /\ s' = [c \in Ctx |-> IF s[c] \in Expired(c) THEN NoReq ELSE s[c]]
    /\ got' = [c \in Ctx |-> [q \in ReqId |->
                 IF c = LocalCtx /\ q \in Expired(c) /\ q = s[c]
                 THEN Append(got[c][q], [kind |-> "timeout", of |-> q]) ELSE got[c][q]]]
    /\ keyboard' = (keyboard \/ s[LocalCtx] \in Expired(LocalCtx))
    /\ UNCHANGED <<peer, cur, horizon, inflight, nextId, envVars, lines, ints, crossed>>

\* epoll_wait times out: gc_requests and gc_states of every context.  Only the
\* state a context interpreted last is answered.
Gc ==
    /\ cur = NoCtx
    /\ \E c \in Ctx : Expired(c) # {} \/ oldReq[c] # {}
    /\ requests' = [c \in Ctx |-> requests[c] \ oldReq[c]]
    /\ oldReq' = [c \in Ctx |-> {}]
    /\ states' = [c \in Ctx |-> states[c] \ Expired(c)]
    /\ code' = [c \in Ctx |-> [q \in ReqId |->
                  IF q \in Expired(c) THEN << >> ELSE code[c][q]]]
    /\ at' = [c \in Ctx |-> [q \in ReqId |-> IF q \in Expired(c) THEN 0 ELSE at[c][q]]]
    /\ responses' = {r \in responses : r.src \notin Expired(r.ctx)}
    /\ s' = [c \in Ctx |-> IF s[c] \in Expired(c) THEN NoReq ELSE s[c]]
    /\ got' = [c \in Ctx |-> [q \in ReqId |->
                 IF q \in Expired(c) /\ q = s[c]
                 THEN Append(got[c][q], [kind |-> "timeout", of |-> q]) ELSE got[c][q]]]
    /\ keyboard' = (keyboard \/ s[LocalCtx] \in Expired(LocalCtx))
    /\ UNCHANGED <<peer, cur, horizon, inflight, nextId, envVars, lines, ints, crossed>>

\* Mutant: the keyboard is not polled again.
ResetForgetsKeyboard ==
    /\ cur = NoCtx /\ ints < MaxInt
    /\ ints' = ints + 1
    /\ requests' = [requests EXCEPT ![LocalCtx] = {}]
    /\ oldReq' = [oldReq EXCEPT ![LocalCtx] = {}]
    /\ states' = [states EXCEPT ![LocalCtx] = {}]
    /\ code' = [code EXCEPT ![LocalCtx] = [q \in ReqId |-> << >>]]
    /\ at' = [at EXCEPT ![LocalCtx] = [q \in ReqId |-> 0]]
    /\ responses' = {r \in responses : r.ctx # LocalCtx}
    /\ s' = [s EXCEPT ![LocalCtx] = NoReq]
    /\ UNCHANGED <<peer, cur, horizon, inflight, nextId, envVars, keyboard, lines, got, crossed>>

\* SIGINT while the loop waits: localContext->reset().
Reset ==
    /\ cur = NoCtx /\ ints < MaxInt
    /\ ints' = ints + 1
    /\ requests' = [requests EXCEPT ![LocalCtx] = {}]
    /\ oldReq' = [oldReq EXCEPT ![LocalCtx] = {}]
    /\ states' = [states EXCEPT ![LocalCtx] = {}]
    /\ code' = [code EXCEPT ![LocalCtx] = [q \in ReqId |-> << >>]]
    /\ at' = [at EXCEPT ![LocalCtx] = [q \in ReqId |-> 0]]
    /\ responses' = {r \in responses : r.ctx # LocalCtx}
    /\ s' = [s EXCEPT ![LocalCtx] = NoReq]
    /\ keyboard' = TRUE
    /\ UNCHANGED <<peer, cur, horizon, inflight, nextId, envVars, lines, got, crossed>>

Interpret ==
    \E c \in Ctx : \/ Evaluate(c) \/ Throw(c) \/ Block(c) \/ Finish(c)
                  \/ \E o \in Ctx : SendReq(c, o)

Next ==
    \/ \E c \in Ctx, q \in PeerId : ReadReqPart(c, q) \/ ReadReqData(c, q) \/ ReadReqTail(c, q)
    \/ ProcessReqData
    \/ Interpret
    \/ \E c \in Ctx : Interrupt(c)
    \/ \E r \in inflight : \/ DropRsp(r) \/ MisplacedRsp(r)
                           \/ \E kind \in {"value", "error"} : ReadRspData(r, kind)
    \/ AgeRsp \/ AgeReq \/ Gc \/ Reset

Spec == Init /\ [][Next]_vars

\* Interpretation goes on, time passes, and the loop finds the time to collect
\* (no event for EPOLL_TIMEOUT).  Third processes need not answer.
FairSpec == Spec /\ WF_vars(Interpret) /\ WF_vars(AgeRsp) /\ WF_vars(Gc)

(***************************************************************************)
(* Properties                                                              *)
(***************************************************************************)
\* A request is answered at most once, whatever responses arrive late, also
\* when requests are pipelined and share x and .Last.value.  (Programs that
\* ask and then evaluate to a value that cannot be transmitted are excepted:
\* interp_ctx.cpp:757-764 keeps their state, so Code has none.)
AnsweredOnce == \A c \in Ctx, q \in ReqId : Len(got[c][q]) <= 1

Own(c) == \A q \in ReqId : \A k \in 1 .. Len(got[c][q]) : got[c][q][k].of = q

\* A request is answered with what its own code evaluated to, when the peer
\* waits for each answer before it sends the next request.
OwnAnswer == \A c \in Ctx \ Pipelines : Own(c)

\* The same for every peer: "the evaluation that we need to return is in
\* .Last.value" (interp_ctx.cpp:751-752).
OwnAnswerAlways == \A c \in Ctx : Own(c)

\* While the keyboard is suspended the line has a state, and it is the one that
\* gc_states reports: it is not lost when it expires.
KeyboardGuarded == ~keyboard => s[LocalCtx] \in states[LocalCtx] \/ crossed

\* The keyboard comes back: a line that waits gets its response or expires.
KeyboardBack == ~keyboard ~> keyboard \/ crossed

\* So is every request answered, of a peer that does not pipeline.
Answered ==
    \A c \in Ctx \ (Pipelines \cup {LocalCtx}), q \in PeerId :
       q \in states[c] ~> got[c][q] # << >> \/ crossed
=============================================================================
