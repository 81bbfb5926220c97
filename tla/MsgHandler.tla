----------------------------- MODULE MsgHandler -----------------------------
(***************************************************************************)
(* The event loop of the interpreter thread (zcore::MsgHandler) composed   *)
(* with the communication layer it listens to.                             *)
(*                                                                         *)
(* One iteration of MsgHandler::run waits for events, empties the          *)
(* signalling eventfd, then handles the other events: the messages counted *)
(* by the data eventfd, the keyboard and the timers.  Interpreting a       *)
(* request, a response, a line or a timer may open connections and may     *)
(* disconnect the peer that is being answered; what else it does is the    *)
(* subject of module InterpCtx.                                            *)
(***************************************************************************)
EXTENDS NetHandler

CONSTANTS
    Dials,       \* BOOLEAN: interpreted code opens connections
    WriteFails   \* BOOLEAN: a response is sent in several writes, so that
                 \* Encode throws when the peer has reset the connection

ASSUME MsgAssumption == Dials \in BOOLEAN /\ WriteFails \in BOOLEAN

VARIABLES
    reqContexts, \* ids with an interpretation context for their requests
    rspContexts, \* ids whose responses are awaited by a context
    owner,       \* id -> the context rspContexts refers to (NoId: local)
    purged,      \* history: ids whose DOWN has been handled
    events,      \* what epoll_wait returned and is not handled yet
    val,         \* the count read from an eventfd, minus what was retrieved
    cur,         \* the context being interpreted (NoId: local or a timer)
    back         \* where the loop resumes after interpreting

msgVars == <<reqContexts, rspContexts, owner, purged, events, val, cur, back>>
ctxVars == <<reqContexts, rspContexts, owner, purged>>
loopVars == <<events, val, cur, back>>
vars == <<netVars, msgVars>>

Event == {"sig", "data", "local"}
MsgPc == {"poll", "sigread", "sig", "events", "data", "run", "create", "watch",
          "register", "dc_get", "dc_close", "dc_del", "dc_sig", "sigwrite"}

\* A call in progress knows its connection, its descriptor.
NeedsId == {"create", "up", "watch", "register", "dc_get", "dc_close", "dc_del", "dc_sig"}
NeedsFd == {"read", "datawrite", "create", "watch", "dc_close"}

ThreadsOK ==
    /\ pc \in [Thread -> NetPc \cup MsgPc]
    /\ pc["net"] \in NetPc /\ pc["msg"] \in MsgPc
    /\ reg \in [Thread -> [fd : Fd \cup {NoFd}, id : Ids \cup {NoId}]]
    /\ \A t \in Thread : /\ pc[t] \in NeedsId => reg[t].id # NoId
                         /\ pc[t] \in NeedsFd => reg[t].fd # NoFd

LoopTypeOK ==
    /\ reqContexts \in SUBSET Ids
    /\ rspContexts \in SUBSET Ids
    /\ owner \in [Ids -> Ids \cup {NoId}]
    /\ purged \in SUBSET Ids
    /\ events \in SUBSET Event
    /\ val \in Nat
    /\ cur \in Ids \cup {NoId}
    /\ back \in {"data", "events"}

TypeOK == NetTypeOK /\ ThreadsOK /\ LoopTypeOK

Init ==
    /\ NetInit
    /\ reqContexts = {}
    /\ rspContexts = {}
    /\ owner = [i \in Ids |-> NoId]
    /\ purged = {}
    /\ events = {}
    /\ val = 0
    /\ cur = NoId
    /\ back = "events"

Goto(p) == pc' = [pc EXCEPT !["msg"] = p]

(***************************************************************************)
(* MsgHandler::run                                                         *)
(***************************************************************************)
\* Mutant: the pass over the signalling events is left out.
PollWithoutPriority ==
    /\ pc["msg"] = "poll"
    /\ \E local \in SUBSET {"local"} :
          /\ events' = local \cup {e \in {"sig", "data"} :
                           IF e = "sig" THEN sigCnt > 0 ELSE dataCnt > 0}
          /\ events' # {}
    /\ Goto("events")
    /\ UNCHANGED <<kernelVars, tableVars, dataVars, sigVars, reg, runVars, ctxVars, val, cur, back>>

\* epoll_wait returns what is ready; a line or a timer may or may not be.
Poll ==
    /\ pc["msg"] = "poll"
    /\ \E local \in SUBSET {"local"} :
          /\ events' = local \cup {e \in {"sig", "data"} :
                           IF e = "sig" THEN sigCnt > 0 ELSE dataCnt > 0}
          /\ events' # {}
          /\ Goto(IF "sig" \in events' THEN "sigread" ELSE "events")
    /\ UNCHANGED <<kernelVars, tableVars, dataVars, sigVars, reg, runVars, ctxVars, val, cur, back>>

ReadSigCount ==
    /\ pc["msg"] = "sigread"
    /\ val' = sigCnt
    /\ sigCnt' = 0
    /\ Goto("sig")
    /\ UNCHANGED <<kernelVars, tableVars, dataVars, siglist, sigDropped, reg, runVars,
                   ctxVars, events, cur, back>>

\* Mutant: DOWN leaves the context behind.
HandleSigKeepsReq ==
    LET id == Head(siglist)[1]
    IN  /\ pc["msg"] = "sig" /\ val > 0 /\ siglist # << >>
        /\ val' = val - 1
        /\ siglist' = Tail(siglist)
        /\ \/ /\ Head(siglist)[2] = "UP"
              /\ reqContexts' = reqContexts \cup {id}
              /\ UNCHANGED <<rspContexts, purged>>
           \/ /\ Head(siglist)[2] = "DOWN"
              /\ rspContexts' = rspContexts \ {id}
              /\ purged' = purged \cup {id}
              /\ UNCHANGED reqContexts
        /\ UNCHANGED <<kernelVars, tableVars, dataVars, sigCnt, sigDropped, threadVars,
                       owner, events, cur, back>>

\* One turn of 'while (val-- > 0 && com.get_sig(id, st))'.
HandleSig ==
    LET id == Head(siglist)[1]
        st == Head(siglist)[2]
    IN  /\ pc["msg"] = "sig" /\ val > 0 /\ siglist # << >>
        /\ val' = val - 1
        /\ siglist' = Tail(siglist)
        /\ \/ /\ st = "UP"
              /\ reqContexts' = reqContexts \cup {id}
              /\ UNCHANGED <<rspContexts, purged>>
           \/ /\ st = "DOWN"
              /\ rspContexts' = rspContexts \ {id}
              /\ reqContexts' = reqContexts \ {id}
              /\ purged' = purged \cup {id}
        /\ UNCHANGED <<kernelVars, tableVars, dataVars, sigCnt, sigDropped, threadVars,
                       owner, events, cur, back>>

SigsDone ==
    /\ pc["msg"] = "sig" /\ (val = 0 \/ siglist = << >>)
    /\ val' = 0
    /\ Goto("events")
    /\ UNCHANGED <<kernelVars, tableVars, dataVars, sigVars, reg, runVars, ctxVars, events, cur, back>>

ReadDataCount ==
    /\ pc["msg"] = "events" /\ "data" \in events
    /\ events' = events \ {"data"}
    /\ val' = dataCnt
    /\ dataCnt' = 0
    /\ Goto("data")
    /\ UNCHANGED <<kernelVars, tableVars, readybuflist, sigVars, reg, runVars, ctxVars, cur, back>>

\* The context a message is dispatched to, if it has one.
HasContext(m) == IF m.kind = "REQ" THEN m.id \in reqContexts ELSE m.id \in rspContexts
ContextOf(m)  == IF m.kind = "REQ" THEN m.id ELSE owner[m.id]

\* One turn of 'while (val-- > 0 && com.get_data(id, combuf))'.
HandleData ==
    LET m == Head(readybuflist)
    IN  /\ pc["msg"] = "data" /\ val > 0 /\ readybuflist # << >>
        /\ readybuflist' = Tail(readybuflist)
        /\ \/ /\ HasContext(m)
              /\ val' = val - 1
              /\ cur' = ContextOf(m)
              /\ back' = "data"
              /\ Goto("run")
           \/ /\ ~HasContext(m)     \* break: leaves the while loop
              /\ val' = 0
              /\ Goto("events")
              /\ UNCHANGED <<cur, back>>
        /\ UNCHANGED <<kernelVars, tableVars, dataCnt, sigVars, reg, runVars, ctxVars, events>>

DataDone ==
    /\ pc["msg"] = "data" /\ (val = 0 \/ readybuflist = << >>)
    /\ val' = 0
    /\ Goto("events")
    /\ UNCHANGED <<kernelVars, tableVars, dataVars, sigVars, reg, runVars, ctxVars, events, cur, back>>

HandleLocal ==
    /\ pc["msg"] = "events" /\ "local" \in events
    /\ events' = events \ {"local"}
    /\ cur' = NoId
    /\ back' = "events"
    /\ Goto("run")
    /\ UNCHANGED <<kernelVars, tableVars, dataVars, sigVars, reg, runVars, ctxVars, val>>

EventsDone ==
    /\ pc["msg"] = "events" /\ events \subseteq {"sig"}
    /\ events' = {}
    /\ Goto("poll")
    /\ UNCHANGED <<kernelVars, tableVars, dataVars, sigVars, reg, runVars, ctxVars, val, cur, back>>

(***************************************************************************)
(* Interpretation, as far as the connections are concerned.                *)
(***************************************************************************)
RunDone ==
    /\ pc["msg"] = "run"
    /\ Goto(back)
    /\ UNCHANGED <<kernelVars, tableVars, dataVars, sigVars, reg, runVars, msgVars>>

\* sendRsp catches an exception of Encode: the connection is not in the map
\* (NetHandler::send), or a write of a long string fails.
AnswerFails ==
    /\ pc["msg"] = "run" /\ cur # NoId
    /\ \/ connections[cur] = NoFd
       \/ WriteFails /\ connections[cur] \in eof
    /\ Locals("msg", reg["msg"].fd, cur)
    /\ Goto("dc_get")
    /\ UNCHANGED <<kernelVars, tableVars, dataVars, sigVars, runVars, msgVars>>

\* NetHandler::connect: socket and connect(2), createConnection, epoll ADD;
\* MsgHandler::connect then enters the id in rspContexts.
Dial(f) ==
    /\ Dials /\ pc["msg"] = "run" /\ gennb < MaxId
    /\ OpenSocket(f, "out")
    /\ Locals("msg", f, gennb + 1)
    /\ Goto("create")
    /\ UNCHANGED <<watched, inbox, edge, eof, sent, tableVars, dataVars, sigVars, runVars, msgVars>>

\* epoll_ctl fails when the descriptor is no longer open: the connection is
\* deleted and connect throws.
Watch ==
    LET f == reg["msg"].fd
    IN  /\ pc["msg"] = "watch"
        /\ \/ /\ sock[f] # "free"
              /\ watched' = watched \cup {f}
              /\ Goto("register")
              /\ UNCHANGED tableVars
           \/ /\ sock[f] = "free"
              /\ DeleteConnection(reg["msg"].id)
              /\ Goto("run")
              /\ UNCHANGED <<watched, gennb>>
        /\ UNCHANGED <<sock, inbox, edge, eof, sent, dataVars, sigVars, reg, runVars, msgVars>>

Register ==
    LET id == reg["msg"].id
    IN  /\ pc["msg"] = "register"
        /\ rspContexts' = rspContexts \cup {id}
        /\ owner' = [owner EXCEPT ![id] = IF id \in rspContexts THEN @ ELSE cur]
        /\ Goto("run")
        /\ UNCHANGED <<kernelVars, tableVars, dataVars, sigVars, reg, runVars, reqContexts, purged,
                       loopVars>>

MsgThread ==
    \/ Poll \/ ReadSigCount \/ HandleSig \/ SigsDone
    \/ ReadDataCount \/ HandleData \/ DataDone \/ HandleLocal \/ EventsDone
    \/ RunDone \/ AnswerFails \/ (\E f \in Fd : Dial(f)) \/ Watch \/ Register
    \/ UNCHANGED msgVars /\ (\/ CreateConnection("msg", "watch")
                             \/ DisconnectGet("msg", back)
                             \/ DisconnectClose("msg")
                             \/ DisconnectDelete("msg")
                             \/ SignalDown("msg")
                             \/ WriteSig("msg", back))

Next ==
    \/ (NetThread \/ Peers) /\ UNCHANGED msgVars
    \/ MsgThread

Spec == Init /\ [][Next]_vars

(***************************************************************************)
(* Both threads keep running: the net thread is never blocked for good and *)
(* the interpretation of a request ends.  Nothing is assumed of the peers  *)
(* or of the keyboard.                                                     *)
(***************************************************************************)
NetFairness ==
    WF_vars((NetThread /\ UNCHANGED msgVars)
            /\ (pc["net"] = "poll" => pc'["net"] = "read" \/ (accepting /\ ~accepting') \/ batch' # {}))
MsgFairness ==
    /\ WF_vars(MsgThread /\ pc["msg"] \notin {"poll", "run"})
    /\ WF_vars(Poll /\ "sig" \in events')
    /\ WF_vars(RunDone)
FairSpec == Spec /\ NetFairness /\ MsgFairness

(***************************************************************************)
(* Properties.                                                             *)
(***************************************************************************)
Pending(t, id) == pc[t] = "dc_sig" /\ reg[t].id = id
Signalled(id, st) == \E k \in 1 .. Len(siglist) : siglist[k] = <<id, st>>
Tokens(t, p) == IF pc[t] = p THEN 1 ELSE 0

\* No UP or DOWN is left in the list without a count that makes the interpreter
\* come and fetch it: entries are covered by the signalling eventfd, by the
\* count being worked off, or by a thread about to write the eventfd, also
\* when the list has overflowed and whichever threads disconnect.
SignalsCovered ==
    Len(siglist) <= sigCnt + Tokens("net", "sigwrite") + Tokens("msg", "sigwrite")
                    + (IF pc["msg"] = "sig" THEN val ELSE 0)

\* The same for the messages: "the lower level increments the count for each
\* retrievable data or signalling buffer [...] know exactly how many messages
\* it should retrieve" (net_handler.hpp:229-233).
MessagesCovered ==
    Len(readybuflist) <= dataCnt + Tokens("net", "datawrite")
                         + (IF pc["msg"] = "data" THEN val ELSE 0)

\* A connection that a peer has opened has its interpretation context, or the
\* UP that creates it is on its way, as long as the signalling list has not
\* overflowed.
LiveHasContext ==
    \A id \in Ids :
       connections[id] # NoFd /\ sock[connections[id]] = "in" /\ ~sigDropped
       => \/ id \in reqContexts
          \/ Signalled(id, "UP")
          \/ pc["net"] = "up" /\ reg["net"].id = id

\* A context outlives its connection only until the DOWN that is queued, or
\* about to be queued, is handled: contexts are "purged when a peer goes down".
ContextHasLink ==
    \A id \in reqContexts :
       ~sigDropped => \/ connections[id] # NoFd
                      \/ Signalled(id, "DOWN")
                      \/ \E t \in Thread : Pending(t, id)

\* The two connection tables are inverse of each other, and what they list is
\* open, except for the descriptor a disconnect has just closed.
TablesAgree ==
    /\ \A f \in Fd : fdToId[f] # NoId => connections[fdToId[f]] = f
    /\ \A id \in Ids : connections[id] # NoFd =>
          /\ fdToId[connections[id]] = id
          /\ \/ sock[connections[id]] # "free"
             \/ \E t \in Thread : pc[t] = "dc_del" /\ reg[t].id = id

\* deleteConnection always finds the connection it is asked to delete: "it's
\* possible to have simultaneous disconnects [...] here we can safely just
\* ignore it" (net_handler.cpp:612-614).
DeletesWhatExists == ~endDeref

\* A socket the net thread closes is one whose peer is gone: "if we've been
\* signalled but there is not data on the socket, we infer the connection is
\* down" (net_handler.cpp:412-413).
ClosesOnlyDead ==
    pc["net"] = "dc_close" /\ sock[reg["net"].fd] # "free" => reg["net"].fd \in eof

\* The same for the connections this process opened: an entry of rspContexts
\* outlives its connection only until the DOWN is handled, also when the
\* connection goes down before MsgHandler::connect has entered it.
RspHasLink ==
    \A id \in rspContexts :
       ~sigDropped => \/ connections[id] # NoFd
                      \/ Signalled(id, "DOWN")
                      \/ \E t \in Thread : Pending(t, id)

\* The context of a connection that is gone is eventually purged, unless the
\* signalling list overflows.
ContextPurged ==
    \A id \in Ids :
       (id \in reqContexts /\ connections[id] = NoFd) ~> (id \notin reqContexts \/ sigDropped)

\* An entry of rspContexts whose connection is gone is eventually dropped.
RspPurged ==
    \A id \in Ids :
       (id \in rspContexts /\ connections[id] = NoFd) ~> (id \notin rspContexts \/ sigDropped)

\* A peer that closes its connection has it closed on this side, and its
\* context purged (interp_ctx.hpp:124-125), eventually.
PeerCloseSeen == \A f \in Fd : (f \in eof /\ f \in watched) ~> f \notin eof

\* It has when all that the peer sent was read before the close was reported.
QuietCloseSeen ==
    \A f \in Fd :
       (/\ f \in eof \cap edge \cap watched /\ inbox[f] = 0
        /\ ~(pc["net"] \in {"read", "datawrite"} /\ reg["net"].fd = f))
       ~> f \notin eof

(***************************************************************************)
(* The abstract view of the incoming connections.  It applies when the     *)
(* interpreted code opens no connections itself: the ids are then handed   *)
(* out by the net thread alone.                                            *)
(***************************************************************************)
linkView ==
    [id \in Ids |-> IF connections[id] # NoFd THEN "up"
                    ELSE IF id <= gennb THEN "down" ELSE "new"]
ctxView ==
    [id \in Ids |-> IF id \in reqContexts THEN "live"
                    ELSE IF id \in purged THEN "gone" ELSE "none"]

S == INSTANCE Session WITH Conn <- Ids, link <- linkView, ctx <- ctxView

\* The two threads implement the sessions of module Session, overflowing
\* signalling lists and simultaneous disconnects included.
ImplementsSession == S!SessionSpec

\* Contexts follow their connections: a live one has its context, or its UP is on the
\* way, and a context has its connection, or its DOWN is on the way.
ContextsFollow == LiveHasContext /\ ContextHasLink

\* disconnect, accept and read, which change the two tables of NetHandler and the
\* descriptors in several critical sections, leave the tables in agreement, delete only
\* entries that exist and close only sockets that are dead.
TablesAreSound == TablesAgree /\ DeletesWhatExists /\ ClosesOnlyDead
=============================================================================
