----------------------------- MODULE NetHandler -----------------------------
(***************************************************************************)
(* The communication layer of ztsdb: net::ConnectionMappings,              *)
(* net::BufferMgt, net::SignallingMgt and net::NetHandler.                 *)
(*                                                                         *)
(* Two threads use it.  "net" runs NetHandler::run, "msg" runs the         *)
(* interpreter (module MsgHandler) and calls connect, disconnect, get_data *)
(* and get_sig.  A step of this module is what a thread does while it      *)
(* holds one of the mutexes, or one system call: between two of them the   *)
(* other thread may run.                                                   *)
(*                                                                         *)
(* Messages are whole here: how they are put together from the bytes of a  *)
(* TCP stream is the subject of another module.                            *)
(***************************************************************************)
EXTENDS Naturals, Sequences, FiniteSets

CONSTANTS
    Fd,        \* the socket descriptors the kernel can hand out
    NoFd,      \* no descriptor (getFd answers 0)
    MaxId,     \* bound: connections created in a behaviour
    MaxSent,   \* bound: messages the peers send in a behaviour
    MaxReady,  \* BufferMgt::max_size, "data.q.size"
    MaxSig,    \* SignallingMgt::max_size, "sig.q.size"
    Listens    \* BOOLEAN: the process has a listening port

ASSUME NetAssumption ==
    /\ NoFd \notin Fd
    /\ MaxId \in Nat /\ MaxSent \in Nat
    /\ MaxReady \in Nat \ {0} /\ MaxSig \in Nat \ {0}
    /\ Listens \in BOOLEAN

Ids == 1 .. MaxId
NoId == 0                       \* getId answers 0 for an unknown descriptor
Thread == {"net", "msg"}
Signal == Ids \X {"UP", "DOWN"}
\* A request (REQ, APPEND, APPEND_VECTOR) comes in on a connection the peer
\* opened, a response (RSP) on one this process opened.
Message == [id : Ids \cup {NoId}, kind : {"REQ", "RSP"}]

VARIABLES
    \* the kernel and the peers
    sock,         \* descriptor -> "free", or open as "in" or "out"
    watched,      \* descriptors in the epoll set of the net thread
    inbox,        \* descriptor -> messages received and not yet read
    edge,         \* descriptors with an edge epoll has not reported yet
    eof,          \* descriptors whose peer closed or reset the connection
    sent,         \* number of messages sent by the peers so far
    \* the layer's own state, shared by the two threads
    gennb,        \* the counter of the connection id generator
    connections,  \* id -> descriptor, or NoFd when not in the map
    fdToId,       \* descriptor -> id, or NoId when not in the map
    readybuflist, \* completed messages for the interpreter
    siglist,      \* UP and DOWN signals for the interpreter
    dataCnt,      \* counter of the data eventfd
    sigCnt,       \* counter of the signalling eventfd
    endDeref,     \* deleteConnection has dereferenced connections.end()
    sigDropped,   \* history: add_sig has dropped a signal of a full list
    \* the threads
    pc,           \* thread -> what it does next
    reg,          \* thread -> the locals 'fd' and 'id' of the running call
    batch,        \* descriptors epoll_wait returned, not handled yet
    accepting,    \* so is the listening socket
    firstRead     \* the local 'first_read' of NetHandler::run

kernelVars == <<sock, watched, inbox, edge, eof, sent>>
tableVars  == <<gennb, connections, fdToId, endDeref>>
dataVars   == <<readybuflist, dataCnt>>
sigVars    == <<siglist, sigCnt, sigDropped>>
runVars    == <<batch, accepting, firstRead>>
threadVars == <<pc, reg, runVars>>
netVars    == <<kernelVars, tableVars, dataVars, sigVars, threadVars>>

NetPc == {"poll", "read", "create", "up", "sigwrite", "datawrite",
          "dc_get", "dc_close", "dc_del", "dc_sig"}

KernelTypeOK ==
    /\ sock \in [Fd -> {"free", "in", "out"}]
    /\ watched \in SUBSET Fd
    /\ inbox \in [Fd -> Nat]
    /\ edge \in SUBSET Fd
    /\ eof \in SUBSET Fd
    /\ sent \in 0 .. MaxSent
TableTypeOK ==
    /\ gennb \in 0 .. MaxId
    /\ connections \in [Ids -> Fd \cup {NoFd}]
    /\ fdToId \in [Fd -> Ids \cup {NoId}]
DataTypeOK ==
    /\ readybuflist \in Seq(Message)
    /\ Len(readybuflist) <= MaxReady
    /\ dataCnt \in Nat
SigTypeOK ==
    /\ siglist \in Seq(Signal)
    /\ Len(siglist) <= MaxSig
    /\ sigCnt \in Nat
FlagTypeOK ==
    /\ endDeref \in BOOLEAN
    /\ sigDropped \in BOOLEAN
    /\ accepting \in BOOLEAN
    /\ firstRead \in BOOLEAN

\* What the layer owns is well formed; where the threads are is MsgHandler's.
NetTypeOK ==
    KernelTypeOK /\ TableTypeOK /\ DataTypeOK /\ SigTypeOK /\ FlagTypeOK /\ batch \in SUBSET Fd

NetInit ==
    /\ sock = [f \in Fd |-> "free"]
    /\ watched = {}
    /\ inbox = [f \in Fd |-> 0]
    /\ edge = {}
    /\ eof = {}
    /\ sent = 0
    /\ gennb = 0
    /\ connections = [i \in Ids |-> NoFd]
    /\ fdToId = [f \in Fd |-> NoId]
    /\ readybuflist = << >>
    /\ siglist = << >>
    /\ dataCnt = 0
    /\ sigCnt = 0
    /\ endDeref = FALSE
    /\ sigDropped = FALSE
    /\ pc = [t \in Thread |-> "poll"]
    /\ reg = [t \in Thread |-> [fd |-> NoFd, id |-> NoId]]
    /\ batch = {}
    /\ accepting = FALSE
    /\ firstRead = TRUE

(***************************************************************************)
(* Bounded lists: when the list is at max_size the oldest entry is lost.   *)
(***************************************************************************)
\* Mutant: max_size is not enforced.
PushUnbounded(list, x, max) == Append(list, x)

PushDropOldest(list, x, max) ==
    Append(IF Len(list) = max THEN Tail(list) ELSE list, x)

\* BufferMgt::addBufferToReadylist
AddBufferToReadylist(m) ==
    readybuflist' = PushDropOldest(readybuflist, m, MaxReady)

\* Mutant: the newest signal is put in front.
AddSigInFront(id, st) ==
    /\ siglist' = <<<<id, st>>>> \o (IF Len(siglist) = MaxSig THEN Tail(siglist) ELSE siglist)
    /\ sigDropped' = (sigDropped \/ Len(siglist) = MaxSig)

\* SignallingMgt::add_sig
AddSig(id, st) ==
    /\ siglist' = PushDropOldest(siglist, <<id, st>>, MaxSig)
    /\ sigDropped' = (sigDropped \/ Len(siglist) = MaxSig)

(***************************************************************************)
(* Peers.  Data and the end of the stream each raise an edge.              *)
(***************************************************************************)
PeerSend(f) ==
    /\ sock[f] # "free" /\ f \notin eof /\ sent < MaxSent
    /\ inbox' = [inbox EXCEPT ![f] = @ + 1]
    /\ edge' = edge \cup {f}
    /\ sent' = sent + 1
    /\ UNCHANGED <<sock, watched, eof, tableVars, dataVars, sigVars, threadVars>>

PeerClose(f) ==
    /\ sock[f] # "free" /\ f \notin eof
    /\ eof' = eof \cup {f}
    /\ edge' = edge \cup {f}
    /\ UNCHANGED <<sock, watched, inbox, sent, tableVars, dataVars, sigVars, threadVars>>

(***************************************************************************)
(* The kernel's side of a descriptor.                                      *)
(***************************************************************************)
OpenSocket(f, dir) ==
    /\ sock[f] = "free"
    /\ sock' = [sock EXCEPT ![f] = dir]

\* close(2): also takes the descriptor out of the epoll set
CloseSocket(f) ==
    /\ sock' = [sock EXCEPT ![f] = "free"]
    /\ inbox' = [inbox EXCEPT ![f] = 0]
    /\ edge' = edge \ {f}
    /\ eof' = eof \ {f}
    /\ watched' = watched \ {f}

\* The locals of the call a thread is in.
Locals(t, f, i) == reg' = [reg EXCEPT ![t] = [fd |-> f, id |-> i]]

(***************************************************************************)
(* NetHandler::run.  The descriptors are watched edge triggered:           *)
(* epoll_wait reports one when an edge was raised since it was last        *)
(* reported and there is something to read.  It reports all of them at     *)
(* once; the events are then handled one by one, in any order.             *)
(***************************************************************************)
Readable(f) == f \in watched \cap edge /\ (inbox[f] > 0 \/ f \in eof)

EpollWait ==
    /\ pc["net"] = "poll" /\ batch = {} /\ ~accepting
    /\ batch' = {f \in Fd : Readable(f)}
    /\ accepting' \in {FALSE, Listens /\ gennb < MaxId}
    /\ batch' # {} \/ accepting'
    /\ edge' = edge \ batch'
    /\ UNCHANGED <<sock, watched, inbox, eof, sent, tableVars, dataVars, sigVars, pc, reg,
                   firstRead>>

(***************************************************************************)
(* NetHandler::acceptConnection on the net thread, until nobody is waiting *)
(* any more: accept and epoll ADD, createConnection, add_sig(UP), write to *)
(* the signalling eventfd.                                                 *)
(* 'gennb()' is an unprotected '++count', called by createConnection       *)
(* before it takes the mutex: the incremented value is computed by the     *)
(* first step and stored by the second.                                    *)
(***************************************************************************)
Accept(f) ==
    /\ pc["net"] = "poll" /\ accepting /\ gennb < MaxId
    /\ OpenSocket(f, "in")
    /\ watched' = watched \cup {f}
    /\ Locals("net", f, gennb + 1)
    /\ pc' = [pc EXCEPT !["net"] = "create"]
    /\ UNCHANGED <<inbox, edge, eof, sent, tableVars, dataVars, sigVars, runVars>>

AcceptDone ==
    /\ pc["net"] = "poll" /\ accepting
    /\ accepting' = FALSE
    /\ UNCHANGED <<kernelVars, tableVars, dataVars, sigVars, pc, reg, batch, firstRead>>

\* ConnectionMappings::createConnection; map::emplace keeps an existing entry
CreateConnection(t, next) ==
    LET f == reg[t].fd
        i == reg[t].id
    IN  /\ pc[t] = "create"
        /\ gennb' = i
        /\ fdToId' = [fdToId EXCEPT ![f] = IF @ = NoId THEN i ELSE @]
        /\ connections' = [connections EXCEPT ![i] = IF @ = NoFd THEN f ELSE @]
        /\ pc' = [pc EXCEPT ![t] = next]
        /\ UNCHANGED <<kernelVars, dataVars, sigVars, endDeref, reg, runVars>>

\* Mutant: the upper layer is woken up but not told why.
SignalUpForgotten ==
    /\ pc["net"] = "up"
    /\ pc' = [pc EXCEPT !["net"] = "sigwrite"]
    /\ UNCHANGED <<kernelVars, tableVars, dataVars, sigVars, reg, runVars>>

SignalUp ==
    /\ pc["net"] = "up"
    /\ AddSig(reg["net"].id, "UP")
    /\ pc' = [pc EXCEPT !["net"] = "sigwrite"]
    /\ UNCHANGED <<kernelVars, tableVars, dataVars, sigCnt, reg, runVars>>

\* Mutant: the eventfd is used as a flag.
WriteSigFlag(t, next) ==
    /\ pc[t] = "sigwrite"
    /\ sigCnt' = 1
    /\ pc' = [pc EXCEPT ![t] = next]
    /\ UNCHANGED <<kernelVars, tableVars, dataVars, siglist, sigDropped, reg, runVars>>

WriteSig(t, next) ==
    /\ pc[t] = "sigwrite"
    /\ sigCnt' = sigCnt + 1
    /\ pc' = [pc EXCEPT ![t] = next]
    /\ UNCHANGED <<kernelVars, tableVars, dataVars, siglist, sigDropped, reg,
                   runVars>>

(***************************************************************************)
(* The data branch of NetHandler::run.                                     *)
(***************************************************************************)
HandleEvent(f) ==
    /\ pc["net"] = "poll" /\ f \in batch
    /\ batch' = batch \ {f}
    /\ firstRead' = TRUE
    /\ Locals("net", f, reg["net"].id)
    /\ pc' = [pc EXCEPT !["net"] = "read"]
    /\ UNCHANGED <<kernelVars, tableVars, dataVars, sigVars, accepting>>

\* One turn of 'while (nread >= 0)' that completes a message.
ReceiveMessage ==
    LET f == reg["net"].fd
    IN  /\ pc["net"] = "read" /\ inbox[f] > 0
        /\ inbox' = [inbox EXCEPT ![f] = @ - 1]
        /\ AddBufferToReadylist([id |-> fdToId[f],
                                 kind |-> IF sock[f] = "in" THEN "REQ" ELSE "RSP"])
        /\ firstRead' = FALSE
        /\ pc' = [pc EXCEPT !["net"] = "datawrite"]
        /\ UNCHANGED <<sock, watched, edge, eof, sent, tableVars, sigVars, dataCnt, reg,
                       batch, accepting>>

WriteData ==
    /\ pc["net"] = "datawrite"
    /\ dataCnt' = dataCnt + 1
    /\ pc' = [pc EXCEPT !["net"] = "read"]
    /\ UNCHANGED <<kernelVars, tableVars, sigVars, readybuflist, reg, runVars>>

\* Mutant: an empty socket is never taken for a closed one.
ReadNothingIgnored ==
    /\ pc["net"] = "read" /\ inbox[reg["net"].fd] = 0
    /\ pc' = [pc EXCEPT !["net"] = "poll"]
    /\ UNCHANGED <<kernelVars, tableVars, dataVars, sigVars, reg, runVars>>

\* Mutant: the end of the data is taken for the end of the stream.
ReadNothingCloses ==
    /\ pc["net"] = "read" /\ inbox[reg["net"].fd] = 0 /\ fdToId[reg["net"].fd] # NoId
    /\ Locals("net", reg["net"].fd, fdToId[reg["net"].fd])
    /\ pc' = [pc EXCEPT !["net"] = "dc_get"]
    /\ UNCHANGED <<kernelVars, tableVars, dataVars, sigVars, runVars>>

\* Nothing left to read.  If nothing was read since epoll_wait either, or
\* the ioctl fails on a closed descriptor, the connection is taken to be
\* down: disconnect(id), which returns at once for id 0.
ReadNothing ==
    LET f == reg["net"].fd
    IN  /\ pc["net"] = "read" /\ inbox[f] = 0
        /\ \/ /\ (firstRead \/ sock[f] = "free") /\ fdToId[f] # NoId
              /\ Locals("net", f, fdToId[f])
              /\ pc' = [pc EXCEPT !["net"] = "dc_get"]
           \/ /\ (~firstRead /\ sock[f] # "free") \/ fdToId[f] = NoId
              /\ pc' = [pc EXCEPT !["net"] = "poll"]
              /\ UNCHANGED reg
        /\ UNCHANGED <<kernelVars, tableVars, dataVars, sigVars, runVars>>

\* epoll_wait times out: BufferMgt::gc drops the expired buffers at the front
\* of the ready list.  How many have expired is the clock's choice.
Gc ==
    /\ pc["net"] = "poll" /\ batch = {} /\ ~accepting /\ \A f \in Fd : ~Readable(f)
    /\ \E expired \in 1 .. Len(readybuflist) :
          readybuflist' = SubSeq(readybuflist, expired + 1, Len(readybuflist))
    /\ UNCHANGED <<kernelVars, tableVars, sigVars, dataCnt, threadVars>>

(***************************************************************************)
(* NetHandler::disconnect(reg[t].id), by either thread: getConnection,     *)
(* close, deleteConnection, then removeAllBuffersForId and add_sig(DOWN),  *)
(* and (WriteSig) the write to the signalling eventfd.                     *)
(***************************************************************************)
\* Mutant: the connection is deleted without looking it up first.
DisconnectUnchecked(t, giveUp) ==
    /\ pc[t] = "dc_get"
    /\ pc' = [pc EXCEPT ![t] = IF connections[reg[t].id] = NoFd THEN "dc_del" ELSE "dc_close"]
    /\ Locals(t, connections[reg[t].id], reg[t].id)
    /\ UNCHANGED <<kernelVars, tableVars, dataVars, sigVars, runVars>>

DisconnectGet(t, giveUp) ==
    LET f == connections[reg[t].id]
    IN  /\ pc[t] = "dc_get"
        /\ \/ /\ f = NoFd                    \* getConnection throws
              /\ pc' = [pc EXCEPT ![t] = giveUp]
              /\ UNCHANGED reg
           \/ /\ f # NoFd
              /\ Locals(t, f, reg[t].id)
              /\ pc' = [pc EXCEPT ![t] = "dc_close"]
        /\ UNCHANGED <<kernelVars, tableVars, dataVars, sigVars, runVars>>

DisconnectClose(t) ==
    /\ pc[t] = "dc_close"
    /\ CloseSocket(reg[t].fd)
    /\ pc' = [pc EXCEPT ![t] = "dc_del"]
    /\ UNCHANGED <<sent, tableVars, dataVars, sigVars, reg, runVars>>

\* Mutant: the entry of fdToId is left behind.
DeleteConnectionOnly(id) ==
    /\ connections' = [connections EXCEPT ![id] = NoFd]
    /\ UNCHANGED <<fdToId, endDeref>>

\* ConnectionMappings::deleteConnection does not compare find's result with
\* end(): for an id that is not in the map it reads and erases through end().
DeleteConnection(id) ==
    LET f == connections[id]
    IN  IF f = NoFd
        THEN endDeref' = TRUE /\ UNCHANGED <<connections, fdToId>>
        ELSE /\ fdToId' = [fdToId EXCEPT ![f] = NoId]
             /\ connections' = [connections EXCEPT ![id] = NoFd]
             /\ UNCHANGED endDeref

DisconnectDelete(t) ==
    /\ pc[t] = "dc_del"
    /\ DeleteConnection(reg[t].id)
    /\ pc' = [pc EXCEPT ![t] = "dc_sig"]
    /\ UNCHANGED <<kernelVars, gennb, dataVars, sigVars, reg, runVars>>

\* Mutant: the upper layer is woken up but not told why.
SignalDownForgotten(t) ==
    /\ pc[t] = "dc_sig"
    /\ pc' = [pc EXCEPT ![t] = "sigwrite"]
    /\ UNCHANGED <<kernelVars, tableVars, dataVars, sigVars, reg, runVars>>

\* removeAllBuffersForId touches the partial buffers only; the ready list
\* keeps the messages of the dead connection
SignalDown(t) ==
    /\ pc[t] = "dc_sig"
    /\ AddSig(reg[t].id, "DOWN")
    /\ pc' = [pc EXCEPT ![t] = "sigwrite"]
    /\ UNCHANGED <<kernelVars, tableVars, dataVars, sigCnt, reg, runVars>>

(***************************************************************************)
(* The net thread and its environment.                                     *)
(***************************************************************************)
NetThread ==
    \/ EpollWait
    \/ \E f \in Fd : Accept(f) \/ HandleEvent(f)
    \/ AcceptDone
    \/ ReceiveMessage
    \/ ReadNothing
    \/ CreateConnection("net", "up")
    \/ SignalUp
    \/ WriteSig("net", "poll")
    \/ WriteData
    \/ Gc
    \/ DisconnectGet("net", "poll")
    \/ DisconnectClose("net")
    \/ DisconnectDelete("net")
    \/ SignalDown("net")

Peers == \E f \in Fd : PeerSend(f) \/ PeerClose(f)
=============================================================================
