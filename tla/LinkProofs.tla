----------------------------- MODULE LinkProofs -----------------------------
(***************************************************************************)
(* Theorems about MsgHandler, for every number of descriptors, connections *)
(* and messages and for every size of the two lists: its types and         *)
(* signals, and then its connections and the contexts that follow them.    *)
(*                                                                         *)
(* In the second part the process is a server, whose interpreted code      *)
(* opens no connections, or a client, which listens on no port.  One that  *)
(* does both draws its ids on two threads, and is the subject of           *)
(* TypeCorrect and SignalsAreCovered only.                                 *)
(***************************************************************************)
EXTENDS MsgHandler, SequenceTheorems, TLAPS

(***************************************************************************)
(* The bounded lists.                                                      *)
(***************************************************************************)
\* The list stays a list and within its bound, and grows by one at most.
LEMMA PushDropOldestBounded ==
    ASSUME NEW E, NEW list \in Seq(E), NEW x \in E, NEW max \in Nat \ {0},
           Len(list) <= max
    PROVE  /\ PushDropOldest(list, x, max) \in Seq(E)
           /\ Len(PushDropOldest(list, x, max)) <= max
           /\ Len(PushDropOldest(list, x, max)) <= Len(list) + 1
  <1>1. CASE Len(list) = max
    <2>1. Tail(list) \in Seq(E) /\ Len(Tail(list)) = max - 1
      BY <1>1
    <2> QED BY <1>1, <2>1 DEF PushDropOldest
  <1>2. CASE Len(list) # max
    BY <1>2 DEF PushDropOldest
  <1> QED BY <1>1, <1>2

(***************************************************************************)
(* Type correctness.                                                       *)
(***************************************************************************)
\* What ThreadsOK says about the call a thread is running.
LEMMA CallTypes ==
    ASSUME ThreadsOK, NEW t \in Thread
    PROVE  /\ pc[t] \in NeedsId => reg[t].id \in Ids
           /\ pc[t] \in NeedsFd => reg[t].fd \in Fd
           /\ reg[t].id \in Ids \cup {NoId} /\ reg[t].fd \in Fd \cup {NoFd}
  BY DEF ThreadsOK

\* A thread moves on: its pc and its locals change, the other thread's do not.
LEMMA ThreadMoves ==
    ASSUME ThreadsOK, NEW t \in Thread,
           NEW p \in IF t = "net" THEN NetPc ELSE MsgPc,
           NEW f \in Fd \cup {NoFd}, NEW i \in Ids \cup {NoId},
           pc' = [pc EXCEPT ![t] = p],
           Locals(t, f, i) \/ (reg' = reg /\ f = reg[t].fd /\ i = reg[t].id),
           p \in NeedsId => i # NoId,
           p \in NeedsFd => f # NoFd
    PROVE  ThreadsOK'
  <1>1. t \in {"net", "msg"} /\ p \in NetPc \cup MsgPc
    BY DEF Thread
  <1>2. /\ reg' \in [Thread -> [fd : Fd \cup {NoFd}, id : Ids \cup {NoId}]]
        /\ reg'[t].fd = f /\ reg'[t].id = i
        /\ \A u \in Thread : u # t => reg'[u] = reg[u]
    BY DEF Locals, ThreadsOK
  <1>3. /\ pc' \in [Thread -> NetPc \cup MsgPc]
        /\ pc'[t] = p /\ \A u \in Thread : u # t => pc'[u] = pc[u]
    BY <1>1 DEF ThreadsOK
  <1>4. pc'["net"] \in NetPc /\ pc'["msg"] \in MsgPc
    BY <1>1, <1>3 DEF ThreadsOK, Thread
  <1>5. \A u \in Thread : /\ pc'[u] \in NeedsId => reg'[u].id # NoId
                          /\ pc'[u] \in NeedsFd => reg'[u].fd # NoFd
    BY <1>2, <1>3 DEF ThreadsOK
  <1> QED BY <1>2, <1>3, <1>4, <1>5 DEF ThreadsOK

\* The same when the locals stay what they are.
LEMMA ThreadGoes ==
    ASSUME ThreadsOK, NEW t \in Thread,
           NEW p \in IF t = "net" THEN NetPc ELSE MsgPc,
           pc' = [pc EXCEPT ![t] = p], reg' = reg,
           p \in NeedsId => reg[t].id # NoId,
           p \in NeedsFd => reg[t].fd # NoFd
    PROVE  ThreadsOK'
  BY CallTypes, ThreadMoves

\* What is left alone keeps its type.
LEMMA UnchangedTypes ==
    /\ KernelTypeOK /\ UNCHANGED kernelVars => KernelTypeOK'
    /\ TableTypeOK /\ UNCHANGED tableVars => TableTypeOK'
    /\ DataTypeOK /\ UNCHANGED dataVars => DataTypeOK'
    /\ SigTypeOK /\ UNCHANGED sigVars => SigTypeOK'
    /\ FlagTypeOK /\ UNCHANGED <<endDeref, sigDropped, accepting, firstRead>> => FlagTypeOK'
    /\ ThreadsOK /\ UNCHANGED <<pc, reg>> => ThreadsOK'
    /\ LoopTypeOK /\ UNCHANGED msgVars => LoopTypeOK'
  <1>1. KernelTypeOK /\ UNCHANGED kernelVars => KernelTypeOK'
    BY DEF KernelTypeOK, kernelVars
  <1>2. TableTypeOK /\ UNCHANGED tableVars => TableTypeOK'
    BY DEF TableTypeOK, tableVars
  <1>3. DataTypeOK /\ UNCHANGED dataVars => DataTypeOK'
    BY DEF DataTypeOK, dataVars
  <1>4. SigTypeOK /\ UNCHANGED sigVars => SigTypeOK'
    BY DEF SigTypeOK, sigVars
  <1>5. FlagTypeOK /\ UNCHANGED <<endDeref, sigDropped, accepting, firstRead>> => FlagTypeOK'
    BY DEF FlagTypeOK
  <1>6. ThreadsOK /\ UNCHANGED <<pc, reg>> => ThreadsOK'
    BY DEF ThreadsOK
  <1>7. LoopTypeOK /\ UNCHANGED msgVars => LoopTypeOK'
    BY DEF LoopTypeOK, msgVars
  <1> QED BY <1>1, <1>2, <1>3, <1>4, <1>5, <1>6, <1>7

LEMMA TypeInit == Init => TypeOK
  <1> SUFFICES ASSUME Init PROVE TypeOK OBVIOUS
  <1>1. KernelTypeOK BY NetAssumption DEF Init, NetInit, KernelTypeOK
  <1>2. TableTypeOK BY NetAssumption DEF Init, NetInit, TableTypeOK, Ids, NoId
  <1>3. DataTypeOK BY NetAssumption DEF Init, NetInit, DataTypeOK
  <1>4. SigTypeOK BY NetAssumption DEF Init, NetInit, SigTypeOK
  <1>5. FlagTypeOK /\ batch \in SUBSET Fd BY DEF Init, NetInit, FlagTypeOK
  <1>6. ThreadsOK
    BY DEF Init, NetInit, ThreadsOK, Thread, NetPc, MsgPc, NeedsId, NeedsFd
  <1>7. LoopTypeOK BY DEF Init, LoopTypeOK
  <1> QED BY <1>1, <1>2, <1>3, <1>4, <1>5, <1>6, <1>7 DEF TypeOK, NetTypeOK

LEMMA PeersType ==
    ASSUME TypeOK, Peers, UNCHANGED msgVars
    PROVE  TypeOK'
  <1>1. PICK f \in Fd : PeerSend(f) \/ PeerClose(f) BY DEF Peers
  <1>2. KernelTypeOK'
    BY <1>1, NetAssumption DEF TypeOK, NetTypeOK, KernelTypeOK, PeerSend, PeerClose
  <1> QED
    BY <1>1, <1>2, UnchangedTypes
       DEF TypeOK, NetTypeOK, PeerSend, PeerClose, threadVars, runVars, tableVars, sigVars

(***************************************************************************)
(* The calls either thread can be in.                                      *)
(***************************************************************************)
\* add_sig keeps the list of signals within its bound.
LEMMA AddSigType ==
    ASSUME SigTypeOK, FlagTypeOK, NEW id \in Ids, NEW st \in {"UP", "DOWN"}, AddSig(id, st)
    PROVE  /\ siglist' \in Seq(Signal) /\ Len(siglist') <= MaxSig
           /\ Len(siglist') <= Len(siglist) + 1
           /\ sigDropped' \in BOOLEAN
  <1>1. <<id, st>> \in Signal BY DEF Signal
  <1>2. siglist' = PushDropOldest(siglist, <<id, st>>, MaxSig) BY DEF AddSig
  <1>3. siglist \in Seq(Signal) /\ Len(siglist) <= MaxSig /\ MaxSig \in Nat \ {0}
    BY NetAssumption DEF SigTypeOK
  <1>4. sigDropped' \in BOOLEAN BY DEF AddSig, FlagTypeOK
  <1> QED BY <1>1, <1>2, <1>3, <1>4, PushDropOldestBounded

\* createConnection, getConnection, close, deleteConnection, add_sig and the
\* write to the eventfd, by the thread t; next and giveUp are where it goes on.
LEMMA SharedType ==
    ASSUME TypeOK, NEW t \in Thread, NEW next \in IF t = "net" THEN NetPc ELSE MsgPc,
           next \in NeedsFd \cup NeedsId => pc[t] = "create" /\ next \in {"up", "watch"},
           \/ CreateConnection(t, next) \/ WriteSig(t, next) \/ DisconnectGet(t, next)
           \/ DisconnectClose(t) \/ DisconnectDelete(t) \/ SignalDown(t)
    PROVE  NetTypeOK' /\ ThreadsOK'
  <1> USE DEF TypeOK, NetTypeOK
  <1>t. /\ pc[t] \in NeedsId => reg[t].id \in Ids /\ reg[t].id # NoId
        /\ pc[t] \in NeedsFd => reg[t].fd \in Fd /\ reg[t].fd # NoFd
        /\ reg[t].id \in Ids \cup {NoId} /\ reg[t].fd \in Fd \cup {NoFd}
    BY CallTypes DEF ThreadsOK
  <1>p. {"dc_close", "dc_del", "dc_sig", "sigwrite"} \subseteq IF t = "net" THEN NetPc ELSE MsgPc
    BY DEF Thread, NetPc, MsgPc
  <1>1. CASE CreateConnection(t, next)
    <2>1. pc[t] = "create" /\ pc' = [pc EXCEPT ![t] = next] /\ reg' = reg
      BY <1>1 DEF CreateConnection
    <2>2. reg[t].id \in Ids /\ reg[t].fd \in Fd /\ reg[t].id # NoId /\ reg[t].fd # NoFd
      BY <1>t, <2>1 DEF NeedsId, NeedsFd
    <2>3. ThreadsOK'
      BY <2>1, <2>2, ThreadGoes
    <2>4. TableTypeOK'
      BY <1>1, <2>2, NetAssumption DEF TableTypeOK, CreateConnection, Ids, NoId
    <2> QED
      BY <1>1, <2>3, <2>4, UnchangedTypes DEF CreateConnection, runVars, sigVars
  <1>2. CASE WriteSig(t, next)
    <2>1. pc[t] = "sigwrite" /\ pc' = [pc EXCEPT ![t] = next] /\ reg' = reg
      BY <1>2 DEF WriteSig
    <2>2. ThreadsOK'
      BY <2>1, ThreadGoes
    <2>3. SigTypeOK'
      BY <1>2 DEF WriteSig, SigTypeOK
    <2> QED
      BY <1>2, <2>2, <2>3, UnchangedTypes DEF WriteSig, runVars, tableVars
  <1>3. CASE DisconnectGet(t, next)
    <2>1. pc[t] = "dc_get" BY <1>3 DEF DisconnectGet
    <2>2. reg[t].id \in Ids /\ reg[t].id # NoId BY <1>t, <2>1 DEF NeedsId
    <2>3. CASE connections[reg[t].id] = NoFd
      <3>1. pc' = [pc EXCEPT ![t] = next] /\ reg' = reg BY <1>3, <2>3 DEF DisconnectGet
      <3> QED
        BY <1>3, <2>1, <3>1, ThreadGoes, UnchangedTypes
           DEF DisconnectGet, runVars, tableVars, sigVars
    <2>4. CASE connections[reg[t].id] # NoFd
      <3>1. /\ pc' = [pc EXCEPT ![t] = "dc_close"]
            /\ Locals(t, connections[reg[t].id], reg[t].id)
        BY <1>3, <2>4 DEF DisconnectGet
      <3>2. connections[reg[t].id] \in Fd \cup {NoFd} BY <2>2 DEF TableTypeOK
      <3>3. ThreadsOK'
        BY <1>p, <2>2, <2>4, <3>1, <3>2, ThreadMoves
      <3> QED
        BY <1>3, <3>3, UnchangedTypes
           DEF DisconnectGet, runVars, tableVars, sigVars
    <2> QED BY <2>3, <2>4
  <1>4. CASE DisconnectClose(t)
    <2>1. pc[t] = "dc_close" /\ pc' = [pc EXCEPT ![t] = "dc_del"] /\ reg' = reg
      BY <1>4 DEF DisconnectClose
    <2>2. reg[t].id # NoId /\ reg[t].fd \in Fd BY <1>t, <2>1 DEF NeedsId, NeedsFd
    <2>3. ThreadsOK' BY <1>p, <2>1, <2>2, ThreadGoes DEF NeedsFd
    <2>4. KernelTypeOK'
      BY <1>4, <2>2 DEF DisconnectClose, CloseSocket, KernelTypeOK
    <2> QED
      BY <1>4, <2>3, <2>4, UnchangedTypes DEF DisconnectClose, runVars, tableVars, sigVars
  <1>5. CASE DisconnectDelete(t)
    <2>1. pc[t] = "dc_del" /\ pc' = [pc EXCEPT ![t] = "dc_sig"] /\ reg' = reg
      BY <1>5 DEF DisconnectDelete
    <2>2. reg[t].id \in Ids /\ reg[t].id # NoId BY <1>t, <2>1 DEF NeedsId
    <2>3. ThreadsOK' BY <1>p, <2>1, <2>2, ThreadGoes DEF NeedsFd
    <2>4. DeleteConnection(reg[t].id) /\ gennb' = gennb BY <1>5 DEF DisconnectDelete
    <2>5. TableTypeOK'
      BY <2>2, <2>4 DEF DeleteConnection, TableTypeOK
    <2>6. endDeref' \in BOOLEAN
      BY <2>4 DEF DeleteConnection, FlagTypeOK
    <2>7. FlagTypeOK' BY <1>5, <2>6 DEF DisconnectDelete, FlagTypeOK, sigVars, runVars
    <2> QED
      BY <1>5, <2>3, <2>5, <2>7, UnchangedTypes DEF DisconnectDelete, runVars
  <1>6. CASE SignalDown(t)
    <2>1. pc[t] = "dc_sig" /\ pc' = [pc EXCEPT ![t] = "sigwrite"] /\ reg' = reg
      BY <1>6 DEF SignalDown
    <2>2. reg[t].id \in Ids /\ reg[t].id # NoId BY <1>t, <2>1 DEF NeedsId
    <2>3. ThreadsOK' BY <1>p, <2>1, ThreadGoes DEF NeedsFd, NeedsId
    <2>4. AddSig(reg[t].id, "DOWN") /\ sigCnt' = sigCnt BY <1>6 DEF SignalDown
    <2>5. siglist' \in Seq(Signal) /\ Len(siglist') <= MaxSig /\ sigDropped' \in BOOLEAN
      BY <2>2, <2>4, AddSigType
    <2>6. SigTypeOK' BY <2>4, <2>5 DEF SigTypeOK
    <2>7. FlagTypeOK' BY <1>6, <2>5 DEF SignalDown, FlagTypeOK, tableVars, runVars
    <2> QED
      BY <1>6, <2>3, <2>6, <2>7, UnchangedTypes DEF SignalDown, runVars
  <1> QED BY <1>1, <1>2, <1>3, <1>4, <1>5, <1>6

(***************************************************************************)
(* The net thread.                                                         *)
(***************************************************************************)
LEMMA NetThreadType ==
    ASSUME TypeOK, NetThread, UNCHANGED msgVars
    PROVE  TypeOK'
  <1> USE DEF TypeOK, NetTypeOK
  <1>t. /\ "net" \in Thread
        /\ pc["net"] \in NeedsId => reg["net"].id \in Ids
        /\ pc["net"] \in NeedsFd => reg["net"].fd \in Fd /\ reg["net"].fd # NoFd
        /\ reg["net"].id \in Ids \cup {NoId} /\ reg["net"].fd \in Fd \cup {NoFd}
    <2>1. "net" \in Thread BY DEF Thread
    <2> QED BY <2>1, CallTypes DEF ThreadsOK
  <1>l. LoopTypeOK' BY UnchangedTypes
  <1>1. CASE EpollWait
    <2>1. batch' \in SUBSET Fd BY <1>1 DEF EpollWait
    <2>2. accepting' \in BOOLEAN
      BY <1>1, NetAssumption DEF EpollWait
    <2>3. FlagTypeOK' BY <1>1, <2>2 DEF EpollWait, FlagTypeOK, tableVars, sigVars
    <2>4. KernelTypeOK' BY <1>1 DEF EpollWait, KernelTypeOK
    <2> QED
      BY <1>1, <1>l, <2>1, <2>3, <2>4, UnchangedTypes DEF EpollWait
  <1>2. CASE \E f \in Fd : Accept(f)
    <2>1. PICK f \in Fd : Accept(f) BY <1>2
    <2>2. gennb + 1 \in Ids /\ gennb + 1 # NoId /\ f # NoFd
      BY <2>1, NetAssumption DEF Accept, TableTypeOK, Ids, NoId
    <2>3. pc' = [pc EXCEPT !["net"] = "create"] /\ Locals("net", f, gennb + 1)
      BY <2>1 DEF Accept
    <2>4. "create" \in NetPc BY DEF NetPc
    <2>5. ThreadsOK' BY <1>t, <2>2, <2>3, <2>4, ThreadMoves
    <2>6. KernelTypeOK' BY <2>1 DEF Accept, OpenSocket, KernelTypeOK
    <2> QED
      BY <1>l, <2>1, <2>5, <2>6, UnchangedTypes DEF Accept, runVars, tableVars, sigVars
  <1>3. CASE AcceptDone
    <2>1. FlagTypeOK' BY <1>3 DEF AcceptDone, FlagTypeOK, tableVars, sigVars
    <2> QED BY <1>3, <1>l, <2>1, UnchangedTypes DEF AcceptDone
  <1>4. CASE \E f \in Fd : HandleEvent(f)
    <2>1. PICK f \in Fd : HandleEvent(f) BY <1>4
    <2>2. pc' = [pc EXCEPT !["net"] = "read"] /\ Locals("net", f, reg["net"].id)
      BY <2>1 DEF HandleEvent
    <2>3. "read" \in NetPc /\ "read" \notin NeedsId /\ f # NoFd
      BY NetAssumption DEF NetPc, NeedsId
    <2>4. ThreadsOK' BY <1>t, <2>2, <2>3, ThreadMoves
    <2>5. FlagTypeOK' BY <2>1 DEF HandleEvent, FlagTypeOK, tableVars, sigVars
    <2>6. batch' \in SUBSET Fd BY <2>1 DEF HandleEvent
    <2> QED BY <1>l, <2>1, <2>4, <2>5, <2>6, UnchangedTypes DEF HandleEvent
  <1>5. CASE ReceiveMessage
    <2> DEFINE f == reg["net"].fd
               m == [id |-> fdToId[f], kind |-> IF sock[f] = "in" THEN "REQ" ELSE "RSP"]
    <2>1. /\ pc["net"] = "read" /\ pc' = [pc EXCEPT !["net"] = "datawrite"] /\ reg' = reg
          /\ readybuflist' = PushDropOldest(readybuflist, m, MaxReady)
          /\ dataCnt' = dataCnt
      BY <1>5 DEF ReceiveMessage, AddBufferToReadylist
    <2>2. f \in Fd /\ f # NoFd BY <1>t, <2>1 DEF NeedsFd
    <2>3. ThreadsOK'
      <3>1. "datawrite" \in NetPc /\ "datawrite" \notin NeedsId BY DEF NetPc, NeedsId
      <3> QED BY <1>t, <2>1, <2>2, <3>1, ThreadGoes
    <2>4. m \in Message BY <2>2 DEF TableTypeOK, Message
    <2>5. readybuflist \in Seq(Message) /\ Len(readybuflist) <= MaxReady /\ MaxReady \in Nat \ {0}
      BY NetAssumption DEF DataTypeOK
    <2>6. readybuflist' \in Seq(Message) /\ Len(readybuflist') <= MaxReady
      <3> HIDE DEF m
      <3> QED BY <2>1, <2>4, <2>5, PushDropOldestBounded
    <2>7. DataTypeOK' BY <2>1, <2>6 DEF DataTypeOK
    <2>8. KernelTypeOK'
      <3>1. inbox[f] > 0 /\ inbox' = [inbox EXCEPT ![f] = @ - 1] BY <1>5 DEF ReceiveMessage
      <3>2. inbox' \in [Fd -> Nat] BY <2>2, <3>1 DEF KernelTypeOK
      <3> QED BY <1>5, <3>2 DEF ReceiveMessage, KernelTypeOK
    <2>9. FlagTypeOK' /\ batch' \in SUBSET Fd
      BY <1>5 DEF ReceiveMessage, FlagTypeOK, tableVars, sigVars
    <2> QED BY <1>5, <1>l, <2>3, <2>7, <2>8, <2>9, UnchangedTypes DEF ReceiveMessage
  <1>6. CASE ReadNothing
    <2>1. ThreadsOK'
      <3>1. pc["net"] = "read" BY <1>6 DEF ReadNothing
      <3>2. reg["net"].fd \in Fd BY <1>t, <3>1 DEF NeedsFd
      <3>3. CASE /\ fdToId[reg["net"].fd] # NoId
                 /\ Locals("net", reg["net"].fd, fdToId[reg["net"].fd])
                 /\ pc' = [pc EXCEPT !["net"] = "dc_get"]
        <4>1. "dc_get" \in NetPc /\ "dc_get" \notin NeedsFd BY DEF NetPc, NeedsFd
        <4>2. fdToId[reg["net"].fd] \in Ids \cup {NoId} BY <3>2 DEF TableTypeOK
        <4> QED BY <1>t, <3>3, <4>1, <4>2, ThreadMoves
      <3>4. CASE pc' = [pc EXCEPT !["net"] = "poll"] /\ UNCHANGED reg
        <4>1. "poll" \in NetPc /\ "poll" \notin NeedsFd \cup NeedsId BY DEF NetPc, NeedsFd, NeedsId
        <4> QED BY <1>t, <3>4, <4>1, ThreadGoes
      <3> QED BY <1>6, <3>3, <3>4 DEF ReadNothing
    <2> QED BY <1>6, <1>l, <2>1, UnchangedTypes DEF ReadNothing, runVars, tableVars, sigVars
  <1>7. CASE SignalUp
    <2>1. pc["net"] = "up" /\ pc' = [pc EXCEPT !["net"] = "sigwrite"] /\ reg' = reg
      BY <1>7 DEF SignalUp
    <2>2. reg["net"].id \in Ids BY <1>t, <2>1 DEF NeedsId
    <2>3. "sigwrite" \in NetPc /\ "sigwrite" \notin NeedsFd \cup NeedsId
      BY DEF NetPc, NeedsFd, NeedsId
    <2>4. ThreadsOK' BY <1>t, <2>1, <2>3, ThreadGoes
    <2>5. AddSig(reg["net"].id, "UP") /\ sigCnt' = sigCnt BY <1>7 DEF SignalUp
    <2>6. siglist' \in Seq(Signal) /\ Len(siglist') <= MaxSig /\ sigDropped' \in BOOLEAN
      BY <2>2, <2>5, AddSigType
    <2>7. SigTypeOK' BY <2>5, <2>6 DEF SigTypeOK
    <2>8. FlagTypeOK' BY <1>7, <2>6 DEF SignalUp, FlagTypeOK, tableVars, runVars
    <2> QED BY <1>7, <1>l, <2>4, <2>7, <2>8, UnchangedTypes DEF SignalUp, runVars
  <1>8. CASE WriteData
    <2>1. pc' = [pc EXCEPT !["net"] = "read"] /\ reg' = reg /\ pc["net"] = "datawrite"
      BY <1>8 DEF WriteData
    <2>2. "read" \in NetPc /\ "read" \notin NeedsId BY DEF NetPc, NeedsId
    <2>3. reg["net"].fd # NoFd BY <1>t, <2>1 DEF NeedsFd
    <2>4. ThreadsOK' BY <1>t, <2>1, <2>2, <2>3, ThreadGoes
    <2>5. DataTypeOK' BY <1>8 DEF WriteData, DataTypeOK
    <2> QED BY <1>8, <1>l, <2>4, <2>5, UnchangedTypes DEF WriteData, runVars, tableVars, sigVars
  <1>9. CASE Gc
    <2>1. PICK expired \in 1 .. Len(readybuflist) :
             readybuflist' = SubSeq(readybuflist, expired + 1, Len(readybuflist))
      BY <1>9 DEF Gc
    <2>2. DataTypeOK'
      BY <1>9, <2>1, NetAssumption DEF Gc, DataTypeOK
    <2> QED BY <1>9, <1>l, <2>2, UnchangedTypes DEF Gc, threadVars, runVars, tableVars, sigVars
  <1>10. CASE CreateConnection("net", "up")
    <2>1. "up" \in NetPc /\ pc["net"] = "create" BY <1>10 DEF NetPc, CreateConnection
    <2> QED BY <1>10, <1>t, <1>l, <2>1, SharedType
  <1>11. CASE \/ WriteSig("net", "poll") \/ DisconnectGet("net", "poll")
              \/ DisconnectClose("net") \/ DisconnectDelete("net") \/ SignalDown("net")
    <2>1. "poll" \in NetPc /\ "poll" \notin NeedsFd \cup NeedsId BY DEF NetPc, NeedsFd, NeedsId
    <2> QED BY <1>11, <1>t, <1>l, <2>1, SharedType
  <1> QED
    BY <1>1, <1>2, <1>3, <1>4, <1>5, <1>6, <1>7, <1>8, <1>9, <1>10, <1>11 DEF NetThread

(***************************************************************************)
(* The interpreter's thread.                                               *)
(***************************************************************************)
\* A step of the event loop proper: only pc of the thread's state changes.
LEMMA LoopGoes ==
    ASSUME ThreadsOK, NEW p \in MsgPc \ (NeedsFd \cup NeedsId), Goto(p), UNCHANGED reg
    PROVE  ThreadsOK'
  <1>1. "msg" \in Thread /\ "msg" # "net" BY DEF Thread
  <1>2. pc' = [pc EXCEPT !["msg"] = p] BY DEF Goto
  <1> QED BY <1>1, <1>2, ThreadGoes

LEMMA MsgThreadType ==
    ASSUME TypeOK, MsgThread
    PROVE  TypeOK'
  <1> USE DEF TypeOK, NetTypeOK
  <1>t. /\ "msg" \in Thread /\ "msg" # "net"
        /\ pc["msg"] \in NeedsId => reg["msg"].id \in Ids /\ reg["msg"].id # NoId
        /\ pc["msg"] \in NeedsFd => reg["msg"].fd \in Fd /\ reg["msg"].fd # NoFd
        /\ reg["msg"].id \in Ids \cup {NoId} /\ reg["msg"].fd \in Fd \cup {NoFd}
    <2>1. "msg" \in Thread /\ "msg" # "net" BY DEF Thread
    <2> QED BY <2>1, CallTypes DEF ThreadsOK
  <1>p. {"poll", "sigread", "sig", "events", "data", "run", back}
           \subseteq MsgPc \ (NeedsFd \cup NeedsId)
    BY DEF MsgPc, NeedsFd, NeedsId, LoopTypeOK
  <1>1. CASE Poll
    <2>1. PICK p \in {"sigread", "events"} : Goto(p) BY <1>1 DEF Poll
    <2>2. ThreadsOK' BY <1>1, <1>p, <2>1, LoopGoes DEF Poll
    <2>3. LoopTypeOK' BY <1>1 DEF Poll, LoopTypeOK, Event, ctxVars
    <2> QED BY <1>1, <2>2, <2>3, UnchangedTypes DEF Poll, runVars, tableVars, sigVars
  <1>2. CASE ReadSigCount
    <2>1. ThreadsOK' BY <1>2, <1>p, LoopGoes DEF ReadSigCount
    <2>2. LoopTypeOK' BY <1>2 DEF ReadSigCount, LoopTypeOK, SigTypeOK, ctxVars
    <2>3. SigTypeOK' BY <1>2 DEF ReadSigCount, SigTypeOK
    <2> QED BY <1>2, <2>1, <2>2, <2>3, UnchangedTypes DEF ReadSigCount, runVars, tableVars
  <1>3. CASE HandleSig
    <2>1. siglist \in Seq(Signal) /\ siglist # << >> /\ val > 0 /\ siglist' = Tail(siglist)
      BY <1>3 DEF HandleSig, SigTypeOK
    <2>2. Head(siglist) \in Signal BY <2>1
    <2>3. Head(siglist)[1] \in Ids BY <2>2 DEF Signal
    <2>4. SigTypeOK' BY <1>3, <2>1, NetAssumption DEF HandleSig, SigTypeOK
    <2>5. LoopTypeOK' BY <1>3, <2>1, <2>3 DEF HandleSig, LoopTypeOK
    <2> QED
      BY <1>3, <2>4, <2>5, UnchangedTypes DEF HandleSig, threadVars, runVars, tableVars
  <1>4. CASE SigsDone
    <2>1. ThreadsOK' BY <1>4, <1>p, LoopGoes DEF SigsDone
    <2>2. LoopTypeOK' BY <1>4 DEF SigsDone, LoopTypeOK, ctxVars
    <2> QED BY <1>4, <2>1, <2>2, UnchangedTypes DEF SigsDone, runVars, tableVars, sigVars
  <1>5. CASE ReadDataCount
    <2>1. ThreadsOK' BY <1>5, <1>p, LoopGoes DEF ReadDataCount
    <2>2. LoopTypeOK' BY <1>5 DEF ReadDataCount, LoopTypeOK, DataTypeOK, ctxVars
    <2>3. DataTypeOK' BY <1>5 DEF ReadDataCount, DataTypeOK
    <2> QED
      BY <1>5, <2>1, <2>2, <2>3, UnchangedTypes DEF ReadDataCount, runVars, tableVars, sigVars
  <1>6. CASE HandleData
    <2>1. /\ readybuflist \in Seq(Message) /\ readybuflist # << >> /\ val > 0
          /\ readybuflist' = Tail(readybuflist)
      BY <1>6 DEF HandleData, DataTypeOK
    <2>2. Head(readybuflist) \in Message BY <2>1
    <2>3. HasContext(Head(readybuflist)) => ContextOf(Head(readybuflist)) \in Ids \cup {NoId}
      BY <2>2 DEF HasContext, ContextOf, Message, LoopTypeOK
    <2>4. PICK p \in {"run", "events"} : Goto(p) BY <1>6 DEF HandleData
    <2>5. ThreadsOK' BY <1>6, <1>p, <2>4, LoopGoes DEF HandleData
    <2>6. LoopTypeOK' BY <1>6, <2>1, <2>3 DEF HandleData, LoopTypeOK, ctxVars
    <2>7. DataTypeOK' BY <1>6, <2>1, NetAssumption DEF HandleData, DataTypeOK
    <2> QED BY <1>6, <2>5, <2>6, <2>7, UnchangedTypes DEF HandleData, runVars, tableVars, sigVars
  <1>7. CASE DataDone
    <2>1. ThreadsOK' BY <1>7, <1>p, LoopGoes DEF DataDone
    <2>2. LoopTypeOK' BY <1>7 DEF DataDone, LoopTypeOK, ctxVars
    <2> QED BY <1>7, <2>1, <2>2, UnchangedTypes DEF DataDone, runVars, tableVars, sigVars
  <1>8. CASE HandleLocal
    <2>1. ThreadsOK' BY <1>8, <1>p, LoopGoes DEF HandleLocal
    <2>2. LoopTypeOK' BY <1>8 DEF HandleLocal, LoopTypeOK, ctxVars
    <2> QED BY <1>8, <2>1, <2>2, UnchangedTypes DEF HandleLocal, runVars, tableVars, sigVars
  <1>9. CASE EventsDone
    <2>1. ThreadsOK' BY <1>9, <1>p, LoopGoes DEF EventsDone
    <2>2. LoopTypeOK' BY <1>9 DEF EventsDone, LoopTypeOK, ctxVars
    <2> QED BY <1>9, <2>1, <2>2, UnchangedTypes DEF EventsDone, runVars, tableVars, sigVars
  <1>10. CASE RunDone
    <2>1. ThreadsOK' BY <1>10, <1>p, LoopGoes DEF RunDone
    <2> QED BY <1>10, <2>1, UnchangedTypes DEF RunDone, runVars, tableVars, sigVars
  <1>11. CASE AnswerFails
    <2>1. cur # NoId /\ cur \in Ids \cup {NoId} BY <1>11 DEF AnswerFails, LoopTypeOK
    <2>2. pc' = [pc EXCEPT !["msg"] = "dc_get"] /\ Locals("msg", reg["msg"].fd, cur)
      BY <1>11 DEF AnswerFails, Goto
    <2>3. "dc_get" \in MsgPc /\ "dc_get" \notin NeedsFd BY DEF MsgPc, NeedsFd
    <2>4. ThreadsOK' BY <1>t, <2>1, <2>2, <2>3, ThreadMoves
    <2> QED BY <1>11, <2>4, UnchangedTypes DEF AnswerFails, runVars, tableVars, sigVars
  <1>12. CASE \E f \in Fd : Dial(f)
    <2>1. PICK f \in Fd : Dial(f) BY <1>12
    <2>2. gennb + 1 \in Ids /\ gennb + 1 # NoId /\ f # NoFd
      BY <2>1, NetAssumption DEF Dial, TableTypeOK, Ids, NoId
    <2>3. pc' = [pc EXCEPT !["msg"] = "create"] /\ Locals("msg", f, gennb + 1)
      BY <2>1 DEF Dial, Goto
    <2>4. "create" \in MsgPc BY DEF MsgPc
    <2>5. ThreadsOK' BY <1>t, <2>2, <2>3, <2>4, ThreadMoves
    <2>6. KernelTypeOK' BY <2>1 DEF Dial, OpenSocket, KernelTypeOK
    <2> QED
      BY <2>1, <2>5, <2>6, UnchangedTypes DEF Dial, runVars, tableVars, sigVars
  <1>13. CASE Watch
    <2>1. pc["msg"] = "watch" /\ reg' = reg BY <1>13 DEF Watch
    <2>2. reg["msg"].id \in Ids /\ reg["msg"].id # NoId /\ reg["msg"].fd \in Fd
      BY <1>t, <2>1 DEF NeedsId, NeedsFd
    <2>3. PICK p \in {"run", "register"} : pc' = [pc EXCEPT !["msg"] = p]
      BY <1>13 DEF Watch, Goto
    <2>4. p \in MsgPc /\ p \notin NeedsFd BY DEF MsgPc, NeedsFd
    <2>5. ThreadsOK' BY <1>t, <2>1, <2>2, <2>3, <2>4, ThreadGoes
    <2>6. KernelTypeOK' BY <1>13, <2>2 DEF Watch, KernelTypeOK
    <2>7. TableTypeOK'
      BY <1>13, <2>2 DEF Watch, DeleteConnection, TableTypeOK, tableVars
    <2>8. endDeref' \in BOOLEAN
      BY <1>13 DEF Watch, DeleteConnection, FlagTypeOK, tableVars
    <2>9. FlagTypeOK' BY <1>13, <2>8 DEF Watch, FlagTypeOK, sigVars, runVars
    <2> QED BY <1>13, <2>5, <2>6, <2>7, <2>9, UnchangedTypes DEF Watch, runVars
  <1>14. CASE Register
    <2>1. ThreadsOK' BY <1>14, <1>p, LoopGoes DEF Register
    <2>2. reg["msg"].id \in Ids BY <1>t, <1>14 DEF Register, NeedsId
    <2>3. LoopTypeOK' BY <1>14, <2>2 DEF Register, LoopTypeOK, loopVars
    <2> QED BY <1>14, <2>1, <2>3, UnchangedTypes DEF Register, runVars, tableVars, sigVars
  <1>15. CASE CreateConnection("msg", "watch") /\ UNCHANGED msgVars
    <2>1. "watch" \in MsgPc /\ pc["msg"] = "create" BY <1>15 DEF MsgPc, CreateConnection
    <2> QED BY <1>15, <1>t, <2>1, SharedType, UnchangedTypes
  <1>16. CASE /\ UNCHANGED msgVars
              /\ \/ WriteSig("msg", back) \/ DisconnectGet("msg", back)
                 \/ DisconnectClose("msg") \/ DisconnectDelete("msg") \/ SignalDown("msg")
    BY <1>16, <1>t, <1>p, SharedType, UnchangedTypes
  <1> QED
    BY <1>1, <1>2, <1>3, <1>4, <1>5, <1>6, <1>7, <1>8, <1>9, <1>10, <1>11, <1>12, <1>13, <1>14,
       <1>15, <1>16 DEF MsgThread

LEMMA TypeStep == TypeOK /\ [Next]_vars => TypeOK'
  <1> SUFFICES ASSUME TypeOK, [Next]_vars PROVE TypeOK' OBVIOUS
  <1>1. CASE (NetThread \/ Peers) /\ UNCHANGED msgVars
    BY <1>1, NetThreadType, PeersType
  <1>2. CASE MsgThread
    BY <1>2, MsgThreadType
  <1>3. CASE UNCHANGED vars
    BY <1>3, UnchangedTypes
       DEF TypeOK, NetTypeOK, vars, netVars, threadVars, runVars, tableVars, sigVars
  <1> QED BY <1>1, <1>2, <1>3 DEF Next

\* Whatever the threads and the peers do, the tables, the lists and the event
\* loop stay well formed, the lists stay within their configured sizes, and no
\* call is entered without the connection and the descriptor it works on.
THEOREM TypeCorrect == Spec => []TypeOK
  <1> QED BY TypeInit, TypeStep, PTL DEF Spec

(***************************************************************************)
(* No signal is stranded.  SignalsCovered is inductive together with the   *)
(* types: every signal is added by a thread that then writes the eventfd.  *)
(***************************************************************************)
\* Where a thread goes is where it is, and the other one stays.
LEMMA PcMoves ==
    ASSUME ThreadsOK, NEW t \in Thread, NEW p, pc' = [pc EXCEPT ![t] = p]
    PROVE  pc'[t] = p /\ \A u \in Thread \ {t} : pc'[u] = pc[u]
  BY DEF ThreadsOK

\* A step that leaves the signalling alone and does not enter or leave the
\* places where a count is held.
LEMMA SignalsUntouched ==
    ASSUME TypeOK, SignalsCovered, UNCHANGED <<siglist, sigCnt, val>>,
           \A t \in Thread : pc'[t] = pc[t] \/ {pc[t], pc'[t]} \cap {"sigwrite", "sig"} = {}
    PROVE  SignalsCovered'
  BY DEF SignalsCovered, Tokens, Thread

\* add_sig by a thread on its way to the eventfd, and the write itself.
LEMMA SharedSignals ==
    ASSUME TypeOK, SignalsCovered, UNCHANGED val, NEW t \in Thread,
           NEW next \in {"poll", "up", "watch", "data", "events"},
           \/ CreateConnection(t, next) \/ WriteSig(t, next) \/ DisconnectGet(t, next)
           \/ DisconnectClose(t) \/ DisconnectDelete(t) \/ SignalDown(t)
           \/ t = "net" /\ SignalUp
    PROVE  SignalsCovered'
  <1>t. t \in {"net", "msg"} /\ Thread = {"net", "msg"} BY DEF Thread
  <1>n. sigCnt \in Nat /\ Len(siglist) \in Nat /\ val \in Nat
    BY DEF TypeOK, NetTypeOK, SigTypeOK, LoopTypeOK
  <1>th. ThreadsOK BY DEF TypeOK
  <1>1. CASE \/ CreateConnection(t, next) \/ DisconnectGet(t, next) \/ DisconnectClose(t)
             \/ DisconnectDelete(t)
    <2>1. PICK p \in {"poll", "up", "watch", "data", "events", "dc_close", "dc_del", "dc_sig"} :
             pc' = [pc EXCEPT ![t] = p]
      BY <1>1 DEF CreateConnection, DisconnectGet, DisconnectClose, DisconnectDelete
    <2>2. /\ UNCHANGED <<siglist, sigCnt>>
          /\ pc[t] \in {"create", "dc_get", "dc_close", "dc_del"}
      BY <1>1 DEF CreateConnection, DisconnectGet, DisconnectClose, DisconnectDelete, sigVars
    <2> QED BY <1>th, <2>1, <2>2, PcMoves, SignalsUntouched
  <1>2. CASE WriteSig(t, next)
    <2>1. /\ pc[t] = "sigwrite" /\ pc' = [pc EXCEPT ![t] = next]
          /\ sigCnt' = sigCnt + 1 /\ siglist' = siglist
      BY <1>2 DEF WriteSig
    <2>2. pc'[t] = next /\ \A u \in Thread \ {t} : pc'[u] = pc[u] BY <1>th, <2>1, PcMoves
    <2> QED BY <1>t, <1>n, <2>1, <2>2 DEF SignalsCovered, Tokens
  <1>3. CASE SignalDown(t) \/ (t = "net" /\ SignalUp)
    <2>1. /\ pc[t] \in {"dc_sig", "up"} /\ pc' = [pc EXCEPT ![t] = "sigwrite"]
          /\ sigCnt' = sigCnt /\ \E st \in {"UP", "DOWN"} : AddSig(reg[t].id, st)
      BY <1>3 DEF SignalDown, SignalUp
    <2>2. reg[t].id \in Ids BY <1>th, <2>1, CallTypes DEF NeedsId
    <2>3. siglist' \in Seq(Signal) /\ Len(siglist') <= Len(siglist) + 1
      BY <2>1, <2>2, AddSigType DEF TypeOK, NetTypeOK
    <2>4. pc'[t] = "sigwrite" /\ \A u \in Thread \ {t} : pc'[u] = pc[u] BY <1>th, <2>1, PcMoves
    <2>5. Len(siglist') \in Nat BY <2>3
    <2> QED BY <1>t, <1>n, <2>1, <2>3, <2>4, <2>5 DEF SignalsCovered, Tokens
  <1> QED BY <1>1, <1>2, <1>3

LEMMA SignalsStep == TypeOK /\ SignalsCovered /\ [Next]_vars => SignalsCovered'
  <1> SUFFICES ASSUME TypeOK, SignalsCovered, [Next]_vars PROVE SignalsCovered' OBVIOUS
  <1>t. Thread = {"net", "msg"} BY DEF Thread
  <1>n. sigCnt \in Nat /\ Len(siglist) \in Nat /\ val \in Nat /\ siglist \in Seq(Signal)
    BY DEF TypeOK, NetTypeOK, SigTypeOK, LoopTypeOK
  <1>th. ThreadsOK BY DEF TypeOK
  <1>b. back \in {"data", "events"} BY DEF TypeOK, LoopTypeOK
  <1>1. CASE Peers /\ UNCHANGED msgVars
    BY <1>1, SignalsUntouched DEF Peers, PeerSend, PeerClose, sigVars, threadVars, msgVars
  <1>2. CASE NetThread /\ UNCHANGED msgVars
    <2>1. val' = val BY <1>2 DEF msgVars
    <2>2. CASE EpollWait \/ AcceptDone \/ Gc
      BY <2>1, <2>2, SignalsUntouched DEF EpollWait, AcceptDone, Gc, sigVars, threadVars
    <2>3. CASE (\E f \in Fd : Accept(f) \/ HandleEvent(f)) \/ ReceiveMessage \/ ReadNothing \/ WriteData
      <3>1. /\ UNCHANGED <<siglist, sigCnt>> /\ pc["net"] \in {"poll", "read", "datawrite"}
            /\ \E p \in {"create", "read", "datawrite", "dc_get", "poll"} :
                  pc' = [pc EXCEPT !["net"] = p]
        BY <2>3 DEF Accept, HandleEvent, ReceiveMessage, ReadNothing, WriteData, sigVars
      <3> QED BY <1>t, <1>th, <2>1, <3>1, PcMoves, SignalsUntouched
    <2>4. CASE \/ CreateConnection("net", "up") \/ SignalUp \/ WriteSig("net", "poll")
               \/ DisconnectGet("net", "poll") \/ DisconnectClose("net")
               \/ DisconnectDelete("net") \/ SignalDown("net")
      BY <1>t, <2>1, <2>4, SharedSignals
    <2> QED BY <1>2, <2>2, <2>3, <2>4 DEF NetThread
  <1>3. CASE MsgThread
    <2>1. CASE \/ Poll \/ ReadDataCount \/ HandleData \/ DataDone \/ HandleLocal \/ EventsDone
               \/ RunDone \/ AnswerFails \/ (\E f \in Fd : Dial(f)) \/ Watch \/ Register
      <3>1. /\ UNCHANGED <<siglist, sigCnt>>
            /\ pc["msg"] \notin {"sigwrite", "sig"}
            /\ \E p \in {"sigread", "events", "data", "poll", "run", "dc_get", "create",
                        "register"} : pc' = [pc EXCEPT !["msg"] = p]
        BY <1>b, <2>1
           DEF Poll, ReadDataCount, HandleData, DataDone, HandleLocal, EventsDone, RunDone,
               AnswerFails, Dial, Watch, Register, Goto, sigVars
      <3>2. /\ pc'["msg"] \notin {"sigwrite", "sig"} /\ pc'["net"] = pc["net"]
        BY <1>t, <1>th, <3>1, PcMoves
      <3> QED BY <1>n, <3>1, <3>2 DEF SignalsCovered, Tokens
    <2>2. CASE ReadSigCount
      <3>1. /\ pc["msg"] = "sigread" /\ val' = sigCnt /\ sigCnt' = 0 /\ siglist' = siglist
            /\ pc' = [pc EXCEPT !["msg"] = "sig"]
        BY <2>2 DEF ReadSigCount, Goto
      <3>2. pc'["msg"] = "sig" /\ pc'["net"] = pc["net"] BY <1>t, <1>th, <3>1, PcMoves
      <3> QED BY <1>n, <3>1, <3>2 DEF SignalsCovered, Tokens
    <2>3. CASE HandleSig
      <3>1. /\ pc["msg"] = "sig" /\ val' = val - 1 /\ sigCnt' = sigCnt /\ pc' = pc
            /\ siglist # << >> /\ siglist' = Tail(siglist)
        BY <2>3 DEF HandleSig, threadVars
      <3>2. Len(siglist') = Len(siglist) - 1 BY <1>n, <3>1
      <3> QED BY <1>n, <3>1, <3>2 DEF SignalsCovered, Tokens
    <2>4. CASE SigsDone
      <3>1. /\ pc["msg"] = "sig" /\ (val = 0 \/ Len(siglist) = 0) /\ val' = 0
            /\ UNCHANGED <<siglist, sigCnt>> /\ pc' = [pc EXCEPT !["msg"] = "events"]
        BY <2>4 DEF SigsDone, Goto, sigVars
      <3>2. pc'["msg"] = "events" /\ pc'["net"] = pc["net"] BY <1>t, <1>th, <3>1, PcMoves
      <3> QED BY <1>n, <3>1, <3>2 DEF SignalsCovered, Tokens
    <2>5. CASE /\ UNCHANGED msgVars
               /\ \/ CreateConnection("msg", "watch") \/ DisconnectGet("msg", back)
                  \/ DisconnectClose("msg") \/ DisconnectDelete("msg") \/ SignalDown("msg")
                  \/ WriteSig("msg", back)
      BY <1>t, <1>b, <2>5, SharedSignals DEF msgVars
    <2> QED BY <1>3, <2>1, <2>2, <2>3, <2>4, <2>5 DEF MsgThread
  <1>4. CASE UNCHANGED vars
    BY <1>4, SignalsUntouched DEF vars, netVars, sigVars, threadVars, msgVars
  <1> QED BY <1>1, <1>2, <1>3, <1>4 DEF Next

\* Every UP and DOWN that add_sig has left in the list is covered by a count
\* that makes the event loop fetch it, for lists of any size and whichever of
\* the two threads disconnects: the eventfd protocol loses no wake-up.
THEOREM SignalsAreCovered == Spec => []SignalsCovered
  <1>1. Init => SignalsCovered
    BY DEF Init, NetInit, SignalsCovered, Tokens, Thread
  <1> QED BY <1>1, SignalsStep, TypeCorrect, PTL DEF Spec

-----------------------------------------------------------------------------
Has(list, id, st) == \E j \in 1 .. Len(list) : list[j] = <<id, st>>

\* Of the entries of one connection only the first can be its UP.
UpsFirst(list) ==
    \A i, j \in 1 .. Len(list) : i < j /\ list[i][1] = list[j][1] => list[j][2] = "DOWN"

(***************************************************************************)
(* The list of signals.                                                    *)
(***************************************************************************)
\* What is retrieved is the head, and the rest keeps its order.
LEMMA TailHas ==
    ASSUME NEW list \in Seq(Signal), list # << >>
    PROVE  /\ Head(list) \in Signal /\ Has(list, Head(list)[1], Head(list)[2])
           /\ \A id, st : Has(Tail(list), id, st) => Has(list, id, st)
           /\ \A id, st : Has(list, id, st) => Has(Tail(list), id, st) \/ Head(list) = <<id, st>>
           /\ UpsFirst(list) => UpsFirst(Tail(list)) /\ ~Has(Tail(list), Head(list)[1], "UP")
  <1> DEFINE t == Tail(list)
  <1>1. /\ Len(list) \in Nat \ {0} /\ t \in Seq(Signal) /\ Len(t) = Len(list) - 1
        /\ \A j \in 1 .. Len(t) : t[j] = list[j + 1] /\ j + 1 \in 1 .. Len(list)
        /\ Head(list) = list[1] /\ 1 \in 1 .. Len(list)
        /\ \A j \in 1 .. Len(list) : list[j] \in Signal
    OBVIOUS
  <1>2. \A s \in Signal : s = <<s[1], s[2]>> BY DEF Signal
  <1>3. Head(list) \in Signal /\ Has(list, Head(list)[1], Head(list)[2]) BY <1>1, <1>2 DEF Has
  <1>4. \A id, st : Has(t, id, st) => Has(list, id, st) BY <1>1 DEF Has
  <1>5. ASSUME NEW id, NEW st, Has(list, id, st)
        PROVE  Has(t, id, st) \/ Head(list) = <<id, st>>
    <2>1. PICK j \in 1 .. Len(list) : list[j] = <<id, st>> BY <1>5 DEF Has
    <2>2. CASE j = 1
      <3>1. Head(list) = <<id, st>> BY <1>1, <2>1, <2>2
      <3> QED BY <3>1
    <2>3. CASE j # 1
      <3>1. j - 1 \in 1 .. Len(t) /\ (j - 1) + 1 = j BY <1>1, <2>3
      <3>2. t[j - 1] = <<id, st>> BY <1>1, <2>1, <3>1
      <3> QED BY <3>1, <3>2 DEF Has
    <2> QED BY <2>2, <2>3
  <1>6. ASSUME UpsFirst(list) PROVE UpsFirst(t) /\ ~Has(t, Head(list)[1], "UP")
    <2>1. UpsFirst(t)
      <3> SUFFICES ASSUME NEW i \in 1 .. Len(t), NEW j \in 1 .. Len(t), i < j, t[i][1] = t[j][1]
                   PROVE  t[j][2] = "DOWN"
        BY DEF UpsFirst
      <3>1. i + 1 \in 1 .. Len(list) /\ j + 1 \in 1 .. Len(list) /\ i + 1 < j + 1 BY <1>1
      <3>2. list[i + 1][1] = list[j + 1][1] BY <1>1
      <3>3. list[j + 1][2] = "DOWN" BY <1>6, <3>1, <3>2 DEF UpsFirst
      <3> QED BY <1>1, <3>3
    <2>2. ASSUME Has(t, Head(list)[1], "UP") PROVE FALSE
      <3>1. PICK j \in 1 .. Len(t) : t[j] = <<Head(list)[1], "UP">> BY <2>2 DEF Has
      <3>2. list[j + 1] = <<Head(list)[1], "UP">> /\ j + 1 \in 1 .. Len(list) /\ 1 < j + 1
        BY <1>1, <3>1
      <3>3. list[1][1] = list[j + 1][1] BY <1>1, <3>2
      <3>4. list[j + 1][2] = "DOWN" BY <1>1, <1>6, <3>2, <3>3 DEF UpsFirst
      <3> QED BY <3>2, <3>4
    <2> QED BY <2>1, <2>2
  <1> QED BY <1>3, <1>4, <1>5, <1>6

\* What an element s of connection i, put behind a list, changes.
Behind(new, list, i, s) ==
    /\ Has(new, i, s)
    /\ \A id, st : Has(new, id, st) => Has(list, id, st) \/ (id = i /\ st = s)
    /\ \A id, st : Has(list, id, st) => Has(new, id, st)
    /\ UpsFirst(list) /\ (s = "DOWN" \/ \A st \in {"UP", "DOWN"} : ~Has(list, i, st))
          => UpsFirst(new)

LEMMA AppendHas ==
    ASSUME NEW list \in Seq(Signal), NEW i \in Ids, NEW s \in {"UP", "DOWN"},
           NEW new, new = Append(list, <<i, s>>)
    PROVE  Behind(new, list, i, s)
  <1> DEFINE n == Len(list)
  <1>1. <<i, s>> \in Signal BY DEF Signal
  <1>2. /\ n \in Nat /\ Len(new) = n + 1 /\ new[n + 1] = <<i, s>>
        /\ \A j \in 1 .. n : new[j] = list[j] /\ list[j] \in Signal
    BY <1>1
  <1>l. n = Len(list) OBVIOUS
  <1> HIDE DEF n
  <1>3. Has(new, i, s) BY <1>2 DEF Has
  <1>4. ASSUME NEW id, NEW st, Has(new, id, st)
        PROVE  Has(list, id, st) \/ (id = i /\ st = s)
    <2>1. PICK j \in 1 .. n + 1 : new[j] = <<id, st>> BY <1>2, <1>4 DEF Has
    <2>2. CASE j = n + 1 BY <1>2, <2>1, <2>2
    <2>3. CASE j # n + 1
      <3>1. j \in 1 .. n BY <1>2, <2>3
      <3> QED BY <1>2, <1>l, <2>1, <3>1 DEF Has
    <2> QED BY <2>2, <2>3
  <1>5. ASSUME NEW id, NEW st, Has(list, id, st) PROVE Has(new, id, st)
    <2>1. PICK j \in 1 .. n : list[j] = <<id, st>> BY <1>5, <1>l DEF Has
    <2>2. new[j] = <<id, st>> /\ j \in 1 .. n + 1 BY <1>2, <2>1
    <2> QED BY <1>2, <2>2 DEF Has
  <1>6. ASSUME UpsFirst(list), s = "DOWN" \/ \A st \in {"UP", "DOWN"} : ~Has(list, i, st)
        PROVE  UpsFirst(new)
    <2> SUFFICES ASSUME NEW a \in 1 .. n + 1, NEW b \in 1 .. n + 1, a < b, new[a][1] = new[b][1]
                 PROVE  new[b][2] = "DOWN"
      BY <1>2 DEF UpsFirst
    <2>1. a \in 1 .. n /\ new[a] = list[a] /\ list[a] \in Signal BY <1>2
    <2>2. CASE b = n + 1
      <3>0. <<i, s>>[1] = i /\ <<i, s>>[2] = s OBVIOUS
      <3>1. new[b] = <<i, s>> BY <1>2, <2>2
      <3>2. list[a][1] = i BY <2>1, <3>0, <3>1, Zenon
      <3>5. list[a][2] \in {"UP", "DOWN"} /\ list[a] = <<list[a][1], list[a][2]>>
        BY <2>1 DEF Signal
      <3>3. Has(list, i, list[a][2]) BY <1>l, <2>1, <3>2, <3>5 DEF Has
      <3>4. s = "DOWN" BY <1>6, <3>3, <3>5
      <3> QED BY <3>0, <3>1, <3>4, Zenon
    <2>3. CASE b # n + 1
      <3>1. b \in 1 .. n BY <1>2, <2>3
      <3>2. new[b] = list[b] BY <1>2, <3>1
      <3> QED BY <1>6, <1>l, <2>1, <3>1, <3>2 DEF UpsFirst
    <2> QED BY <2>2, <2>3
  <1> QED BY <1>3, <1>4, <1>5, <1>6 DEF Behind

\* add_sig: the new signal is listed behind those that are kept, and unless
\* sigDropped says so all are kept.
LEMMA AddSigHas ==
    ASSUME SigTypeOK, sigDropped \in BOOLEAN, NEW i \in Ids, NEW s \in {"UP", "DOWN"}, AddSig(i, s)
    PROVE  /\ Has(siglist', i, s)
           /\ \A id, st : Has(siglist', id, st) => Has(siglist, id, st) \/ (id = i /\ st = s)
           /\ ~sigDropped' => ~sigDropped /\ \A id, st : Has(siglist, id, st) => Has(siglist', id, st)
           /\ UpsFirst(siglist) /\ (s = "DOWN" \/ \A st \in {"UP", "DOWN"} : ~Has(siglist, i, st))
                 => UpsFirst(siglist')
  <1> DEFINE kept == IF Len(siglist) = MaxSig THEN Tail(siglist) ELSE siglist
  <1>1. siglist' = Append(kept, <<i, s>>) /\ sigDropped' = (sigDropped \/ Len(siglist) = MaxSig)
    BY DEF AddSig, PushDropOldest
  <1>2. siglist \in Seq(Signal) /\ (Len(siglist) = MaxSig => siglist # << >>)
    BY NetAssumption DEF SigTypeOK
  <1>3. kept \in Seq(Signal) BY <1>2
  <1>4. /\ \A id, st : Has(kept, id, st) => Has(siglist, id, st)
        /\ UpsFirst(siglist) => UpsFirst(kept)
        /\ ~sigDropped' => ~sigDropped /\ kept = siglist
    BY <1>1, <1>2, TailHas
  <1> HIDE DEF kept
  <1>a. Behind(siglist', kept, i, s) BY <1>1, <1>3, AppendHas, Zenon
  <1>5. /\ Has(siglist', i, s)
        /\ \A id, st : Has(siglist', id, st) => Has(kept, id, st) \/ (id = i /\ st = s)
        /\ \A id, st : Has(kept, id, st) => Has(siglist', id, st)
        /\ UpsFirst(kept) /\ (s = "DOWN" \/ \A st \in {"UP", "DOWN"} : ~Has(kept, i, st))
              => UpsFirst(siglist')
    BY <1>a, Zenon DEF Behind
  <1>6. \A id, st : Has(siglist', id, st) => Has(siglist, id, st) \/ (id = i /\ st = s)
    BY <1>4, <1>5, Zenon
  <1>7. ~sigDropped' => ~sigDropped /\ \A id, st : Has(siglist, id, st) => Has(siglist', id, st)
    BY <1>4, <1>5
  <1>8. UpsFirst(siglist) /\ (s = "DOWN" \/ \A st \in {"UP", "DOWN"} : ~Has(siglist, i, st))
           => UpsFirst(siglist')
    BY <1>4, <1>5, Zenon
  <1> QED BY <1>5, <1>6, <1>7, <1>8

(***************************************************************************)
(* The threads.                                                            *)
(***************************************************************************)
LEMMA NetGoes ==
    ASSUME ThreadsOK, NEW p, pc' = [pc EXCEPT !["net"] = p]
    PROVE  pc'["net"] = p /\ pc'["msg"] = pc["msg"]
  BY DEF ThreadsOK, Thread

LEMMA MsgGoes ==
    ASSUME ThreadsOK, NEW p, pc' = [pc EXCEPT !["msg"] = p]
    PROVE  pc'["msg"] = p /\ pc'["net"] = pc["net"]
  BY DEF ThreadsOK, Thread

LEMMA LocalsSet ==
    ASSUME ThreadsOK, NEW t \in Thread, NEW f, NEW i, Locals(t, f, i)
    PROVE  /\ reg'[t].fd = f /\ reg'[t].id = i
           /\ \A u \in Thread \ {t} : reg'[u] = reg[u]
  BY DEF ThreadsOK, Locals

(***************************************************************************)
(* A server: the net thread alone hands out ids, and each is used once.    *)
(***************************************************************************)
Disconnecting == {"dc_get", "dc_close", "dc_del", "dc_sig"}

\* Every id in use has been handed out.
IdsKnown ==
    /\ reqContexts \cup purged \subseteq 1 .. gennb
    /\ cur <= gennb
    /\ \A id, st : Has(siglist, id, st) => id <= gennb
    /\ \A id \in Ids : connections[id] # NoFd => id <= gennb
    /\ \A f \in Fd : fdToId[f] <= gennb
    /\ \A t \in Thread : pc[t] \in Disconnecting \cup {"up"} => reg[t].id <= gennb

\* Only the net thread creates connections.
OneAllocator ==
    /\ pc["msg"] \notin {"create", "watch", "register"}
    /\ rspContexts = {}
    /\ pc["net"] = "create" => reg["net"].id = gennb + 1

\* Before its UP is in the list a connection is up and nobody knows its id.
FreshAtUp ==
    LET id == reg["net"].id
    IN  pc["net"] = "up" =>
            /\ connections[id] # NoFd
            /\ id \notin reqContexts \cup purged
            /\ ~Has(siglist, id, "UP") /\ ~Has(siglist, id, "DOWN")
            /\ cur # id
            /\ pc["msg"] \in Disconnecting => reg["msg"].id # id

\* An UP comes before the context, and the context before the DOWN; a DOWN is final.
SignalsOrdered ==
    /\ UpsFirst(siglist)
    /\ \A id \in Ids : Has(siglist, id, "UP") => id \notin reqContexts \cup purged
    /\ \A id \in Ids :
          id \in purged \/ Has(siglist, id, "DOWN") \/ (\E t \in Thread : Pending(t, id))
              => connections[id] = NoFd

LinkFollows(id) ==
    /\ connections[id] # NoFd =>
          id \in reqContexts \/ Has(siglist, id, "UP") \/ (pc["net"] = "up" /\ reg["net"].id = id)
    /\ id \in reqContexts \/ Has(siglist, id, "UP") =>
          \/ connections[id] # NoFd
          \/ Has(siglist, id, "DOWN")
          \/ \E t \in Thread : Pending(t, id)
LinksFollow == ~sigDropped => \A id \in Ids : LinkFollows(id)

ServerInv == IdsKnown /\ OneAllocator /\ FreshAtUp /\ SignalsOrdered /\ LinksFollow

\* What the invariant speaks of besides the threads' calls.
linkState == <<gennb, connections, fdToId, siglist, sigDropped, reqContexts, rspContexts, purged>>

\* A call of the net thread that neither begins nor ends with a signal to be
\* listed, nor touches the tables.
LEMMA ServerNetCalls ==
    ASSUME TypeOK, ServerInv, UNCHANGED <<linkState, cur>>,
           pc'["msg"] = pc["msg"], reg'["msg"] = reg["msg"],
           {pc["net"], pc'["net"]} \cap {"up", "dc_sig"} = {},
           pc'["net"] = "create" => reg'["net"].id = gennb + 1,
           pc'["net"] \in Disconnecting => reg'["net"].id <= gennb
    PROVE  ServerInv'
  <1>t. Thread = {"net", "msg"} BY DEF Thread
  <1>p. \A id : (\E t \in Thread : Pending(t, id))' <=> \E t \in Thread : Pending(t, id)
    BY <1>t DEF Pending
  <1>1. IdsKnown' BY <1>t DEF ServerInv, IdsKnown, linkState
  <1>2. OneAllocator' BY DEF ServerInv, OneAllocator, linkState
  <1>3. FreshAtUp' BY DEF FreshAtUp
  <1>4. SignalsOrdered' BY <1>p DEF ServerInv, SignalsOrdered, linkState
  <1>5. LinksFollow' BY <1>p DEF ServerInv, LinksFollow, LinkFollows, linkState
  <1> QED BY <1>1, <1>2, <1>3, <1>4, <1>5 DEF ServerInv

\* The same for the event loop, which may turn to another context that exists.
LEMMA ServerMsgCalls ==
    ASSUME TypeOK, ServerInv, UNCHANGED linkState,
           pc'["net"] = pc["net"], reg'["net"] = reg["net"],
           {pc["msg"], pc'["msg"]} \cap {"up", "dc_sig", "create", "watch", "register"} = {},
           cur' \in {cur, NoId} \cup reqContexts,
           pc'["msg"] \in Disconnecting =>
               \/ reg'["msg"].id = cur
               \/ pc["msg"] \in Disconnecting /\ reg'["msg"].id = reg["msg"].id
    PROVE  ServerInv'
  <1>t. Thread = {"net", "msg"} BY DEF Thread
  <1>g. gennb \in Nat /\ NoId = 0 BY DEF TypeOK, NetTypeOK, TableTypeOK, NoId
  <1>p. \A id : (\E t \in Thread : Pending(t, id))' <=> \E t \in Thread : Pending(t, id)
    BY <1>t DEF Pending
  <1>c. pc["net"] = "up" => reg["net"].id # NoId
    BY <1>t DEF TypeOK, ThreadsOK, NeedsId
  <1>1. IdsKnown'
    <2>1. cur' <= gennb BY <1>g DEF ServerInv, IdsKnown
    <2>2. pc'["net"] \in Disconnecting \cup {"up"} => reg'["net"].id <= gennb
      BY <1>t DEF ServerInv, IdsKnown
    <2>3. pc'["msg"] \in Disconnecting \cup {"up"} => reg'["msg"].id <= gennb
      BY <1>t DEF ServerInv, IdsKnown
    <2> QED BY <1>t, <2>1, <2>2, <2>3 DEF ServerInv, IdsKnown, linkState
  <1>2. OneAllocator' BY DEF ServerInv, OneAllocator, linkState
  <1>3. FreshAtUp' BY <1>c DEF ServerInv, FreshAtUp, linkState
  <1>4. SignalsOrdered' BY <1>p DEF ServerInv, SignalsOrdered, linkState
  <1>5. LinksFollow' BY <1>p DEF ServerInv, LinksFollow, LinkFollows, linkState
  <1> QED BY <1>1, <1>2, <1>3, <1>4, <1>5 DEF ServerInv

\* createConnection: the id is new, so the connection enters both tables.
LEMMA ServerCreates ==
    ASSUME TypeOK, ServerInv, CreateConnection("net", "up"), UNCHANGED msgVars
    PROVE  ServerInv' /\ connections' = [connections EXCEPT ![gennb + 1] = reg["net"].fd]
                      /\ gennb' = gennb + 1 /\ gennb + 1 \in Ids /\ connections[gennb + 1] = NoFd
                      /\ reg["net"].fd \in Fd /\ reg["net"].fd # NoFd
  <1> DEFINE i == reg["net"].id
             f == reg["net"].fd
  <1>t. Thread = {"net", "msg"} /\ "net" \in Thread BY DEF Thread
  <1>0. pc["net"] = "create" /\ pc' = [pc EXCEPT !["net"] = "up"]
    BY DEF CreateConnection
  <1>1. /\ i = gennb + 1 /\ i \in Ids /\ f \in Fd /\ f # NoFd /\ gennb \in Nat
        /\ connections \in [Ids -> Fd \cup {NoFd}] /\ fdToId \in [Fd -> Ids \cup {NoId}]
    BY <1>0, <1>t, CallTypes, NetAssumption
       DEF ServerInv, OneAllocator, TypeOK, NetTypeOK, TableTypeOK, NeedsId, NeedsFd
  <1>2. /\ pc'["net"] = "up" /\ pc'["msg"] = pc["msg"]
        /\ \A id : (\E t \in Thread : Pending(t, id))' <=> \E t \in Thread : Pending(t, id)
    <2>1. pc'["net"] = "up" /\ pc'["msg"] = pc["msg"] BY <1>0, NetGoes DEF TypeOK
    <2>2. reg' = reg BY DEF CreateConnection
    <2> QED BY <1>0, <1>t, <2>1, <2>2 DEF Pending
  <1>3. /\ gennb' = i /\ fdToId' = [fdToId EXCEPT ![f] = IF @ = NoId THEN i ELSE @]
        /\ connections' = [connections EXCEPT ![i] = IF @ = NoFd THEN f ELSE @]
        /\ UNCHANGED <<siglist, sigDropped, reg, reqContexts, rspContexts, purged, cur>>
    BY DEF CreateConnection, sigVars, msgVars
  <1> HIDE DEF i, f
  <1>4. connections[i] = NoFd
    BY <1>1 DEF ServerInv, IdsKnown
  <1>5. connections' = [connections EXCEPT ![i] = f] BY <1>3, <1>4, <1>1
  <1>6. IdsKnown'
    <2>1. \A g \in Fd : fdToId'[g] <= gennb + 1
      <3>1. \A g \in Fd : fdToId[g] <= gennb BY DEF ServerInv, IdsKnown
      <3>2. \A g \in Fd : fdToId'[g] \in {fdToId[g], i} BY <1>1, <1>3
      <3>3. \A g \in Fd : fdToId[g] \in Nat BY <1>1, NetAssumption DEF Ids, NoId
      <3> QED BY <1>1, <3>1, <3>2, <3>3
    <2>2. \A id \in Ids : connections'[id] # NoFd => id <= gennb + 1
      <3>1. \A id \in Ids : id # i => connections'[id] = connections[id] BY <1>1, <1>5
      <3>2. \A id \in Ids : connections[id] # NoFd => id <= gennb BY DEF ServerInv, IdsKnown
      <3>3. \A id \in Ids : id \in Nat BY NetAssumption DEF Ids
      <3> QED BY <1>1, <3>1, <3>2, <3>3
    <2>3. reqContexts' \cup purged' \subseteq 1 .. gennb' BY <1>1, <1>3 DEF ServerInv, IdsKnown
    <2>4. cur' <= gennb' /\ cur \in Nat
      <3>1. cur \in Nat BY NetAssumption DEF TypeOK, LoopTypeOK, Ids, NoId
      <3> QED BY <1>1, <1>3, <3>1 DEF ServerInv, IdsKnown
    <2>5. \A id, st : Has(siglist', id, st) => id <= gennb'
      <3>1. ASSUME NEW id, NEW st, Has(siglist, id, st) PROVE id <= gennb + 1
        <4>1. id \in Nat
          <5>1. PICK j \in 1 .. Len(siglist) : siglist[j] = <<id, st>> BY <3>1 DEF Has
          <5>2. siglist[j] \in Signal BY <5>1 DEF TypeOK, NetTypeOK, SigTypeOK
          <5> QED BY <5>1, <5>2, NetAssumption DEF Signal, Ids
        <4>2. id <= gennb BY <3>1 DEF ServerInv, IdsKnown
        <4> QED BY <1>1, <4>1, <4>2
      <3> QED BY <1>1, <1>3, <3>1
    <2>6. \A t \in Thread : pc'[t] \in Disconnecting \cup {"up"} => reg'[t].id <= gennb'
      <3>1. reg'["net"].id <= gennb' BY <1>1, <1>3 DEF i
      <3>2. pc'["msg"] \in Disconnecting \cup {"up"} => reg'["msg"].id <= gennb
        BY <1>t, <1>2, <1>3 DEF ServerInv, IdsKnown
      <3>3. reg["msg"].id \in Nat
        BY <1>t, CallTypes, NetAssumption DEF TypeOK, Ids, NoId
      <3> QED BY <1>1, <1>3, <1>t, <3>1, <3>2, <3>3
    <2> QED BY <1>1, <1>3, <2>1, <2>2, <2>3, <2>4, <2>5, <2>6 DEF IdsKnown
  <1>7. OneAllocator' BY <1>2, <1>3 DEF ServerInv, OneAllocator
  <1>8. FreshAtUp'
    <2>1. i \notin reqContexts \cup purged /\ cur # i BY <1>1 DEF ServerInv, IdsKnown
    <2>2. \A st : ~Has(siglist, i, st) BY <1>1 DEF ServerInv, IdsKnown
    <2>3. pc["msg"] \in Disconnecting => reg["msg"].id # i
      BY <1>t, <1>1 DEF ServerInv, IdsKnown
    <2>4. connections'[i] # NoFd BY <1>1, <1>5
    <2> QED BY <1>2, <1>3, <2>1, <2>2, <2>3, <2>4 DEF FreshAtUp, i
  <1>9. SignalsOrdered'
    <2>1. ASSUME NEW id \in Ids,
                 id \in purged \/ Has(siglist, id, "DOWN") \/ (\E t \in Thread : Pending(t, id))
          PROVE  connections'[id] = NoFd
      <3>1. id # i
        <4>1. id <= gennb
          BY <1>t, <1>1, <2>1 DEF ServerInv, IdsKnown, Pending, Disconnecting
        <4> QED BY <1>1, <4>1
      <3>2. connections[id] = NoFd BY <2>1 DEF ServerInv, SignalsOrdered
      <3> QED BY <1>1, <1>5, <3>1, <3>2
    <2> QED BY <1>2, <1>3, <2>1 DEF ServerInv, SignalsOrdered
  <1>10. LinksFollow'
    <2> SUFFICES ASSUME ~sigDropped, NEW id \in Ids PROVE LinkFollows(id)'
      BY <1>3 DEF LinksFollow
    <2>1. LinkFollows(id) BY DEF ServerInv, LinksFollow
    <2>2. CASE id = i
      <3>1. connections'[i] # NoFd BY <1>1, <1>5
      <3> QED BY <1>2, <1>3, <2>2, <3>1 DEF LinkFollows, i
    <2>3. CASE id # i
      <3>1. connections'[id] = connections[id] BY <1>1, <1>5, <2>3
      <3> QED BY <1>0, <1>2, <1>3, <2>1, <3>1 DEF LinkFollows
    <2> QED BY <2>2, <2>3
  <1> QED BY <1>1, <1>3, <1>4, <1>5, <1>6, <1>7, <1>8, <1>9, <1>10 DEF ServerInv, f

\* add_sig(UP)
LEMMA ServerSignalsUp ==
    ASSUME TypeOK, ServerInv, SignalUp, UNCHANGED msgVars
    PROVE  ServerInv'
  <1> DEFINE i == reg["net"].id
  <1>t. Thread = {"net", "msg"} BY DEF Thread
  <1>0. /\ pc["net"] = "up" /\ pc' = [pc EXCEPT !["net"] = "sigwrite"] /\ AddSig(i, "UP")
        /\ UNCHANGED <<gennb, connections, fdToId, reg, reqContexts, rspContexts, purged, cur>>
    BY DEF SignalUp, tableVars, msgVars
  <1>1. i \in Ids /\ i <= gennb
    BY <1>0, <1>t, CallTypes DEF TypeOK, NeedsId, ServerInv, IdsKnown
  <1> HIDE DEF i
  <1>2. /\ pc'["net"] = "sigwrite" /\ pc'["msg"] = pc["msg"]
        /\ \A id : (\E t \in Thread : Pending(t, id))' <=> \E t \in Thread : Pending(t, id)
    <2>1. pc'["net"] = "sigwrite" /\ pc'["msg"] = pc["msg"] BY <1>0, NetGoes DEF TypeOK
    <2> QED BY <1>0, <1>t, <2>1 DEF Pending
  <1>3. /\ connections[i] # NoFd /\ i \notin reqContexts \cup purged
        /\ \A st \in {"UP", "DOWN"} : ~Has(siglist, i, st)
    BY <1>0 DEF ServerInv, FreshAtUp, i
  <1>4. /\ Has(siglist', i, "UP")
        /\ \A id, st : Has(siglist', id, st) => Has(siglist, id, st) \/ (id = i /\ st = "UP")
        /\ ~sigDropped' => ~sigDropped /\ \A id, st : Has(siglist, id, st) => Has(siglist', id, st)
        /\ UpsFirst(siglist')
    <2>1. SigTypeOK /\ sigDropped \in BOOLEAN BY DEF TypeOK, NetTypeOK, FlagTypeOK
    <2> QED BY <1>0, <1>1, <1>3, <2>1, AddSigHas DEF ServerInv, SignalsOrdered
  <1>5. IdsKnown'
    <2>1. \A id, st : Has(siglist', id, st) => id <= gennb BY <1>1, <1>4 DEF ServerInv, IdsKnown
    <2>2. \A t \in Thread : pc'[t] \in Disconnecting \cup {"up"} => reg'[t].id <= gennb
      BY <1>t, <1>0, <1>2 DEF ServerInv, IdsKnown, Disconnecting
    <2> QED BY <1>0, <2>1, <2>2 DEF ServerInv, IdsKnown
  <1>6. OneAllocator' BY <1>0, <1>2 DEF ServerInv, OneAllocator
  <1>7. FreshAtUp' BY <1>2 DEF FreshAtUp
  <1>8. SignalsOrdered' BY <1>0, <1>2, <1>3, <1>4 DEF ServerInv, SignalsOrdered
  <1>9. LinksFollow'
    <2> SUFFICES ASSUME ~sigDropped', NEW id \in Ids PROVE LinkFollows(id)'
      BY DEF LinksFollow
    <2>1. LinkFollows(id) BY <1>4 DEF ServerInv, LinksFollow
    <2>2. \A st : Has(siglist, id, st) => Has(siglist', id, st) BY <1>4
    <2> QED BY <1>0, <1>2, <1>3, <1>4, <2>1, <2>2 DEF LinkFollows, i
  <1> QED BY <1>5, <1>6, <1>7, <1>8, <1>9 DEF ServerInv

\* add_sig(DOWN), by either thread.
LEMMA ServerSignalsDown ==
    ASSUME TypeOK, ServerInv, NEW t \in Thread, SignalDown(t), UNCHANGED msgVars
    PROVE  ServerInv'
  <1> DEFINE i == reg[t].id
  <1>t. Thread = {"net", "msg"} BY DEF Thread
  <1>0. /\ pc[t] = "dc_sig" /\ pc' = [pc EXCEPT ![t] = "sigwrite"] /\ AddSig(i, "DOWN")
        /\ UNCHANGED <<gennb, connections, fdToId, reg, reqContexts, rspContexts, purged, cur>>
    BY DEF SignalDown, tableVars, msgVars
  <1>1. i \in Ids /\ i <= gennb /\ Pending(t, i)
    BY <1>0, <1>t, CallTypes DEF TypeOK, NeedsId, ServerInv, IdsKnown, Pending, Disconnecting
  <1>2. pc'[t] = "sigwrite" /\ \A u \in Thread \ {t} : pc'[u] = pc[u]
    BY <1>0, PcMoves DEF TypeOK
  <1>p. /\ \A id : (\E u \in Thread : Pending(u, id))' => \E u \in Thread : Pending(u, id)
        /\ \A id : (\E u \in Thread : Pending(u, id)) => id = i \/ (\E u \in Thread : Pending(u, id))'
    BY <1>0, <1>2 DEF Pending
  <1>4. /\ Has(siglist', i, "DOWN")
        /\ \A id, st : Has(siglist', id, st) => Has(siglist, id, st) \/ (id = i /\ st = "DOWN")
        /\ ~sigDropped' => ~sigDropped /\ \A id, st : Has(siglist, id, st) => Has(siglist', id, st)
        /\ UpsFirst(siglist')
    <2>1. SigTypeOK /\ sigDropped \in BOOLEAN BY DEF TypeOK, NetTypeOK, FlagTypeOK
    <2> QED BY <1>0, <1>1, <2>1, AddSigHas DEF ServerInv, SignalsOrdered
  <1>3. connections[i] = NoFd BY <1>1 DEF ServerInv, SignalsOrdered
  <1>f. pc'["net"] = "up" => pc["net"] = "up" /\ reg["net"].id # i
    <2>1. t = "net" \/ (t = "msg" /\ pc'["net"] = pc["net"]) BY <1>t, <1>2
    <2>2. t = "net" => pc'["net"] = "sigwrite" BY <1>2
    <2>3. t = "msg" /\ pc["net"] = "up" => reg["net"].id # i
      BY <1>0 DEF ServerInv, FreshAtUp, Disconnecting
    <2> QED BY <2>1, <2>2, <2>3
  <1> HIDE DEF i
  <1>5. IdsKnown'
    <2>1. \A id, st : Has(siglist', id, st) => id <= gennb BY <1>1, <1>4 DEF ServerInv, IdsKnown
    <2>2. \A u \in Thread : pc'[u] \in Disconnecting \cup {"up"} => reg'[u].id <= gennb
      BY <1>0, <1>2 DEF ServerInv, IdsKnown, Disconnecting
    <2> QED BY <1>0, <2>1, <2>2 DEF ServerInv, IdsKnown
  <1>6. OneAllocator' BY <1>t, <1>0, <1>2 DEF ServerInv, OneAllocator
  <1>7. FreshAtUp'
    <2> SUFFICES ASSUME pc'["net"] = "up" PROVE FreshAtUp' BY DEF FreshAtUp
    <2>1. pc["net"] = "up" /\ reg["net"].id # i BY <1>f
    <2>2. \A st : Has(siglist', reg["net"].id, st) => Has(siglist, reg["net"].id, st)
      BY <1>4, <2>1
    <2>3. pc'["msg"] \in Disconnecting => pc["msg"] \in Disconnecting
      BY <1>t, <1>2 DEF Disconnecting
    <2> QED BY <1>0, <2>1, <2>2, <2>3 DEF ServerInv, FreshAtUp
  <1>8. SignalsOrdered' BY <1>0, <1>p, <1>3, <1>4 DEF ServerInv, SignalsOrdered
  <1>9. LinksFollow'
    <2> SUFFICES ASSUME ~sigDropped', NEW id \in Ids PROVE LinkFollows(id)'
      BY DEF LinksFollow
    <2>1. LinkFollows(id) BY <1>4 DEF ServerInv, LinksFollow
    <2>2. \A st : Has(siglist, id, st) => Has(siglist', id, st) BY <1>4
    <2>3. Has(siglist', id, "UP") => Has(siglist, id, "UP") BY <1>4
    <2>4. pc["net"] = "up" => pc'["net"] = "up" BY <1>t, <1>0, <1>2
    <2>5. connections[id] # NoFd =>
            \/ id \in reqContexts \/ Has(siglist', id, "UP")
            \/ pc'["net"] = "up" /\ reg'["net"].id = id
      BY <1>0, <2>1, <2>2, <2>4 DEF LinkFollows
    <2>6. id \in reqContexts \/ Has(siglist', id, "UP") =>
            \/ connections[id] # NoFd \/ Has(siglist', id, "DOWN")
            \/ (\E u \in Thread : Pending(u, id))'
      BY <1>p, <1>4, <2>1, <2>2, <2>3 DEF LinkFollows
    <2> QED BY <1>0, <2>5, <2>6 DEF LinkFollows
  <1> QED BY <1>5, <1>6, <1>7, <1>8, <1>9 DEF ServerInv

\* deleteConnection, by either thread, for an id that is in the map or no more.
LEMMA ServerDeletes ==
    ASSUME TypeOK, ServerInv, NEW t \in Thread, DisconnectDelete(t), UNCHANGED msgVars
    PROVE  /\ ServerInv'
           /\ reg[t].id \in Ids /\ gennb' = gennb
           /\ connections' = [connections EXCEPT ![reg[t].id] = NoFd]
  <1> DEFINE i == reg[t].id
  <1>t. Thread = {"net", "msg"} BY DEF Thread
  <1>0. /\ pc[t] = "dc_del" /\ pc' = [pc EXCEPT ![t] = "dc_sig"] /\ DeleteConnection(i)
        /\ UNCHANGED <<gennb, siglist, sigDropped, reg, reqContexts, rspContexts, purged, cur>>
    BY DEF DisconnectDelete, sigVars, msgVars
  <1>1. /\ i \in Ids /\ i <= gennb /\ gennb \in Nat
        /\ connections \in [Ids -> Fd \cup {NoFd}] /\ fdToId \in [Fd -> Ids \cup {NoId}]
    BY <1>0, <1>t, CallTypes
       DEF TypeOK, NetTypeOK, TableTypeOK, NeedsId, ServerInv, IdsKnown, Disconnecting
  <1>2. pc'[t] = "dc_sig" /\ \A u \in Thread \ {t} : pc'[u] = pc[u]
    BY <1>0, PcMoves DEF TypeOK
  <1>p. /\ \A id : (\E u \in Thread : Pending(u, id))' =>
                      id = i \/ (\E u \in Thread : Pending(u, id))
        /\ \A id : (\E u \in Thread : Pending(u, id)) => (\E u \in Thread : Pending(u, id))'
        /\ \A id : id = i => (\E u \in Thread : Pending(u, id))'
    BY <1>0, <1>2 DEF Pending
  <1>f. pc'["net"] = "up" => pc["net"] = "up" /\ reg["net"].id # i
    <2>1. t = "net" \/ (t = "msg" /\ pc'["net"] = pc["net"]) BY <1>t, <1>2
    <2>2. t = "net" => pc'["net"] = "dc_sig" BY <1>2
    <2>3. t = "msg" /\ pc["net"] = "up" => reg["net"].id # i
      BY <1>0 DEF ServerInv, FreshAtUp, Disconnecting
    <2> QED BY <2>1, <2>2, <2>3
  <1> HIDE DEF i
  <1>3. /\ connections' = [connections EXCEPT ![i] = NoFd]
        /\ \A f \in Fd : fdToId'[f] \in {fdToId[f], NoId}
    <2>1. CASE connections[i] = NoFd
      BY <1>0, <1>1, <2>1 DEF DeleteConnection
    <2>2. CASE connections[i] # NoFd
      BY <1>0, <1>1, <2>2 DEF DeleteConnection
    <2> QED BY <2>1, <2>2
  <1>4. connections'[i] = NoFd /\ \A id \in Ids : id # i => connections'[id] = connections[id]
    BY <1>1, <1>3
  <1>5. IdsKnown'
    <2>1. \A f \in Fd : fdToId'[f] <= gennb
      BY <1>1, <1>3 DEF ServerInv, IdsKnown, NoId
    <2>2. \A id \in Ids : connections'[id] # NoFd => id <= gennb
      BY <1>4 DEF ServerInv, IdsKnown
    <2>3. \A u \in Thread : pc'[u] \in Disconnecting \cup {"up"} => reg'[u].id <= gennb
      BY <1>0, <1>2 DEF ServerInv, IdsKnown, Disconnecting
    <2> QED BY <1>0, <2>1, <2>2, <2>3 DEF ServerInv, IdsKnown
  <1>6. OneAllocator' BY <1>t, <1>0, <1>2 DEF ServerInv, OneAllocator
  <1>7. FreshAtUp'
    <2> SUFFICES ASSUME pc'["net"] = "up" PROVE FreshAtUp' BY DEF FreshAtUp
    <2>1. pc["net"] = "up" /\ reg["net"].id # i BY <1>f
    <2>2. reg["net"].id \in Ids BY <1>t, <2>1, CallTypes DEF TypeOK, NeedsId
    <2>3. pc'["msg"] \in Disconnecting => pc["msg"] \in Disconnecting
      BY <1>t, <1>0, <1>2 DEF Disconnecting
    <2> QED BY <1>0, <1>4, <2>1, <2>2, <2>3 DEF ServerInv, FreshAtUp
  <1>8. SignalsOrdered'
    <2>1. ASSUME NEW id \in Ids,
                 \/ id \in purged \/ Has(siglist, id, "DOWN")
                 \/ (\E u \in Thread : Pending(u, id))'
          PROVE  connections'[id] = NoFd
      <3>1. CASE id = i BY <1>4, <3>1
      <3>2. CASE id # i
        <4>1. connections[id] = NoFd BY <1>p, <2>1, <3>2 DEF ServerInv, SignalsOrdered
        <4> QED BY <1>4, <3>2, <4>1
      <3> QED BY <3>1, <3>2
    <2> QED BY <1>0, <2>1 DEF ServerInv, SignalsOrdered
  <1>9. LinksFollow'
    <2> SUFFICES ASSUME ~sigDropped', NEW id \in Ids PROVE LinkFollows(id)'
      BY DEF LinksFollow
    <2>1. LinkFollows(id) BY <1>0 DEF ServerInv, LinksFollow
    <2>2. pc["net"] = "up" => pc'["net"] = "up" BY <1>t, <1>0, <1>2
    <2>3. CASE id = i
      <3>1. connections'[id] = NoFd /\ (\E u \in Thread : Pending(u, id))' BY <1>4, <1>p, <2>3
      <3> QED BY <3>1 DEF LinkFollows
    <2>4. CASE id # i
      <3>1. connections'[id] = connections[id] BY <1>4, <2>4
      <3>2. connections'[id] # NoFd =>
              \/ id \in reqContexts \/ Has(siglist, id, "UP")
              \/ pc'["net"] = "up" /\ reg["net"].id = id
        BY <2>1, <2>2, <3>1 DEF LinkFollows
      <3>3. id \in reqContexts \/ Has(siglist, id, "UP") =>
              \/ connections'[id] # NoFd \/ Has(siglist, id, "DOWN")
              \/ (\E u \in Thread : Pending(u, id))'
        BY <1>p, <2>1, <3>1 DEF LinkFollows
      <3> QED BY <1>0, <3>2, <3>3 DEF LinkFollows
    <2> QED BY <2>3, <2>4
  <1> QED BY <1>0, <1>1, <1>3, <1>5, <1>6, <1>7, <1>8, <1>9 DEF ServerInv, i

\* The head of the list is handled, and its rest is no longer than the list.
LEMMA ServerHandles ==
    ASSUME TypeOK, ServerInv, HandleSig
    PROVE  /\ ServerInv'
           /\ UNCHANGED <<gennb, connections>>
           /\ Head(siglist)[1] \in Ids /\ Head(siglist)[1] <= gennb
           /\ \/ /\ reqContexts' = reqContexts \cup {Head(siglist)[1]} /\ purged' = purged
                 /\ Head(siglist)[1] \notin reqContexts \cup purged
              \/ /\ reqContexts' = reqContexts \ {Head(siglist)[1]}
                 /\ purged' = purged \cup {Head(siglist)[1]}
                 /\ connections[Head(siglist)[1]] = NoFd
  <1> DEFINE i == Head(siglist)[1]
             s == Head(siglist)[2]
  <1>t. Thread = {"net", "msg"} BY DEF Thread
  <1>0. /\ siglist # << >> /\ siglist' = Tail(siglist)
        /\ UNCHANGED <<gennb, connections, fdToId, sigDropped, pc, reg, cur>>
        /\ \/ s = "UP" /\ reqContexts' = reqContexts \cup {i} /\ UNCHANGED <<rspContexts, purged>>
           \/ /\ s = "DOWN" /\ reqContexts' = reqContexts \ {i}
              /\ rspContexts' = rspContexts \ {i} /\ purged' = purged \cup {i}
    BY DEF HandleSig, tableVars, threadVars
  <1>1. siglist \in Seq(Signal) BY DEF TypeOK, NetTypeOK, SigTypeOK
  <1>2. /\ Head(siglist) \in Signal /\ Has(siglist, i, s)
        /\ \A id, st : Has(siglist', id, st) => Has(siglist, id, st)
        /\ \A id, st : Has(siglist, id, st) => Has(siglist', id, st) \/ Head(siglist) = <<id, st>>
        /\ UpsFirst(siglist') /\ ~Has(siglist', i, "UP")
    <2>1. UpsFirst(siglist) BY DEF ServerInv, SignalsOrdered
    <2> QED BY <1>0, <1>1, <2>1, TailHas
  <1>3. i \in Ids /\ i <= gennb /\ gennb \in Nat /\ i \in 1 .. gennb
    <2>1. i \in Ids BY <1>2 DEF Signal
    <2>2. i <= gennb BY <1>2 DEF ServerInv, IdsKnown
    <2>3. gennb \in Nat BY DEF TypeOK, NetTypeOK, TableTypeOK
    <2> QED BY <2>1, <2>2, <2>3, NetAssumption DEF Ids
  <1>4. \A id, st : Head(siglist) = <<id, st>> => id = i /\ st = s OBVIOUS
  <1>5. /\ s = "UP" => i \notin reqContexts \cup purged
        /\ s = "DOWN" => connections[i] = NoFd
    BY <1>2, <1>3 DEF ServerInv, SignalsOrdered
  <1>6. pc["net"] = "up" => i # reg["net"].id
    BY <1>0, <1>2 DEF ServerInv, FreshAtUp
  <1> HIDE DEF i, s
  <1>7. IdsKnown' BY <1>0, <1>2, <1>3 DEF ServerInv, IdsKnown
  <1>8. OneAllocator' BY <1>0 DEF ServerInv, OneAllocator
  <1>9. FreshAtUp' BY <1>0, <1>2, <1>6 DEF ServerInv, FreshAtUp
  <1>10. SignalsOrdered'
    <2>1. ASSUME NEW id \in Ids, Has(siglist', id, "UP") PROVE id \notin reqContexts' \cup purged'
      <3>1. id # i /\ Has(siglist, id, "UP") BY <1>2, <2>1
      <3>2. id \notin reqContexts \cup purged BY <3>1 DEF ServerInv, SignalsOrdered
      <3> QED BY <1>0, <3>1, <3>2
    <2>2. ASSUME NEW id \in Ids,
                 id \in purged' \/ Has(siglist', id, "DOWN") \/ (\E u \in Thread : Pending(u, id))
          PROVE  connections[id] = NoFd
      <3>1. (id = i /\ s = "DOWN") \/ id \in purged \/ Has(siglist, id, "DOWN")
              \/ (\E u \in Thread : Pending(u, id))
        BY <1>0, <1>2, <2>2
      <3> QED BY <1>5, <3>1 DEF ServerInv, SignalsOrdered
    <2>3. \A id : (\E u \in Thread : Pending(u, id))' <=> \E u \in Thread : Pending(u, id)
      BY <1>0 DEF Pending
    <2> QED BY <1>0, <1>2, <2>1, <2>2, <2>3 DEF SignalsOrdered
  <1>11. LinksFollow'
    <2> SUFFICES ASSUME ~sigDropped', NEW id \in Ids PROVE LinkFollows(id)'
      BY DEF LinksFollow
    <2>1. LinkFollows(id) BY <1>0 DEF ServerInv, LinksFollow
    <2>2. (\E u \in Thread : Pending(u, id))' <=> \E u \in Thread : Pending(u, id)
      BY <1>0 DEF Pending
    <2>3. connections[id] # NoFd =>
            \/ id \in reqContexts' \/ Has(siglist', id, "UP")
            \/ pc["net"] = "up" /\ reg["net"].id = id
      <3> SUFFICES ASSUME connections[id] # NoFd
                   PROVE  \/ id \in reqContexts' \/ Has(siglist', id, "UP")
                          \/ pc["net"] = "up" /\ reg["net"].id = id
        OBVIOUS
      <3>1. ~(id = i /\ s = "DOWN") BY <1>5
      <3>2. id \in reqContexts => id \in reqContexts' BY <1>0, <3>1
      <3>3. Has(siglist, id, "UP") => Has(siglist', id, "UP") \/ (id = i /\ s = "UP")
        BY <1>2, <1>4
      <3>4. id = i /\ s = "UP" => id \in reqContexts' BY <1>0
      <3> QED BY <2>1, <3>2, <3>3, <3>4 DEF LinkFollows
    <2>4. id \in reqContexts' \/ Has(siglist', id, "UP") =>
            \/ connections[id] # NoFd \/ Has(siglist', id, "DOWN")
            \/ \E u \in Thread : Pending(u, id)
      <3> SUFFICES ASSUME id \in reqContexts' \/ Has(siglist', id, "UP")
                   PROVE  \/ connections[id] # NoFd \/ Has(siglist', id, "DOWN")
                          \/ \E u \in Thread : Pending(u, id)
        OBVIOUS
      <3>1. ~(id = i /\ s = "DOWN") BY <1>0, <1>2
      <3>2. id \in reqContexts \/ Has(siglist, id, "UP") BY <1>0, <1>2
      <3>3. Has(siglist, id, "DOWN") => Has(siglist', id, "DOWN") BY <1>2, <1>4, <3>1
      <3> QED BY <2>1, <3>2, <3>3 DEF LinkFollows
    <2> QED BY <1>0, <2>2, <2>3, <2>4 DEF LinkFollows
  <1> QED BY <1>0, <1>3, <1>5, <1>7, <1>8, <1>9, <1>10, <1>11 DEF ServerInv, i, s

LEMMA ServerInit == Init => ServerInv
  <1> SUFFICES ASSUME Init PROVE ServerInv OBVIOUS
  <1>1. /\ siglist = << >> /\ gennb = 0 /\ cur = 0 /\ reqContexts = {} /\ rspContexts = {}
        /\ purged = {} /\ connections = [i \in Ids |-> NoFd] /\ fdToId = [f \in Fd |-> 0]
        /\ pc["net"] = "poll" /\ pc["msg"] = "poll" /\ Thread = {"net", "msg"}
    BY DEF Init, NetInit, NoId, Thread
  <1>2. \A id, st : ~Has(siglist, id, st) BY <1>1 DEF Has
  <1>3. IdsKnown BY <1>1, <1>2 DEF IdsKnown, Disconnecting
  <1>4. OneAllocator BY <1>1 DEF OneAllocator
  <1>5. FreshAtUp BY <1>1 DEF FreshAtUp
  <1>6. UpsFirst(siglist) BY <1>1 DEF UpsFirst
  <1>7. SignalsOrdered BY <1>1, <1>2, <1>6 DEF SignalsOrdered
  <1>8. LinksFollow BY <1>1, <1>2 DEF LinksFollow, LinkFollows
  <1> QED BY <1>3, <1>4, <1>5, <1>7, <1>8 DEF ServerInv

\* Everything a server does besides these calls leaves the links alone.
LEMMA ServerQuietSteps ==
    ASSUME ~Dials, TypeOK, ServerInv, [Next]_vars,
           ~(UNCHANGED msgVars /\ CreateConnection("net", "up")),
           ~(UNCHANGED msgVars /\ SignalUp),
           ~(UNCHANGED msgVars /\ \E t \in Thread : SignalDown(t) \/ DisconnectDelete(t)),
           ~HandleSig
    PROVE  ServerInv' /\ UNCHANGED linkState
  <1>t. Thread = {"net", "msg"} /\ ThreadsOK BY DEF Thread, TypeOK
  <1>g. gennb \in Nat BY DEF TypeOK, NetTypeOK, TableTypeOK
  <1>o. pc["msg"] \notin {"create", "watch", "register"} BY DEF ServerInv, OneAllocator
  <1>1. CASE Peers /\ UNCHANGED msgVars
    <2>1. UNCHANGED <<linkState, cur, pc, reg>>
      BY <1>1 DEF Peers, PeerSend, PeerClose, linkState, tableVars, sigVars, threadVars, msgVars
    <2>2. ServerInv' BY <1>t, <2>1 DEF ServerInv, IdsKnown, OneAllocator, FreshAtUp, SignalsOrdered, LinksFollow, LinkFollows, linkState, Pending
    <2> QED BY <2>1, <2>2
  <1>2. CASE NetThread /\ UNCHANGED msgVars
    <2>1. CASE EpollWait \/ AcceptDone \/ Gc
      <3>1. UNCHANGED <<linkState, cur, pc, reg>>
        BY <1>2, <2>1 DEF EpollWait, AcceptDone, Gc, linkState, tableVars, sigVars, threadVars, msgVars
      <3>2. ServerInv' BY <1>t, <3>1 DEF ServerInv, IdsKnown, OneAllocator, FreshAtUp, SignalsOrdered, LinksFollow, LinkFollows, linkState, Pending
      <3> QED BY <3>1, <3>2
    <2>2. CASE \E f \in Fd : Accept(f)
      <3>1. PICK f \in Fd : Accept(f) BY <2>2
      <3>2. /\ pc["net"] = "poll" /\ pc' = [pc EXCEPT !["net"] = "create"]
            /\ Locals("net", f, gennb + 1) /\ UNCHANGED <<linkState, cur>>
        BY <1>2, <3>1 DEF Accept, linkState, tableVars, sigVars, msgVars
      <3>3. pc'["net"] = "create" /\ pc'["msg"] = pc["msg"] BY <1>t, <3>2, NetGoes
      <3>4. reg'["net"].id = gennb + 1 /\ reg'["msg"] = reg["msg"] BY <1>t, <3>2, LocalsSet
      <3> QED BY <3>2, <3>3, <3>4, ServerNetCalls DEF Disconnecting
    <2>3. CASE \E f \in Fd : HandleEvent(f)
      <3>1. PICK f \in Fd : HandleEvent(f) BY <2>3
      <3>2. /\ pc["net"] = "poll" /\ pc' = [pc EXCEPT !["net"] = "read"]
            /\ Locals("net", f, reg["net"].id) /\ UNCHANGED <<linkState, cur>>
        BY <1>2, <3>1 DEF HandleEvent, linkState, tableVars, sigVars, msgVars
      <3>3. pc'["net"] = "read" /\ pc'["msg"] = pc["msg"] BY <1>t, <3>2, NetGoes
      <3>4. reg'["msg"] = reg["msg"] BY <1>t, <3>2, LocalsSet
      <3> QED BY <3>2, <3>3, <3>4, ServerNetCalls DEF Disconnecting
    <2>4. CASE \/ ReceiveMessage \/ WriteData \/ WriteSig("net", "poll")
      <3>1. /\ pc["net"] \in {"read", "datawrite", "sigwrite"} /\ reg' = reg
            /\ UNCHANGED <<linkState, cur>>
            /\ \E p \in {"read", "datawrite", "poll"} : pc' = [pc EXCEPT !["net"] = p]
        BY <1>2, <2>4
           DEF ReceiveMessage, WriteData, WriteSig, linkState, tableVars, sigVars, msgVars
      <3>2. pc'["net"] \in {"read", "datawrite", "poll"} /\ pc'["msg"] = pc["msg"]
        BY <1>t, <3>1, NetGoes
      <3> QED BY <3>1, <3>2, ServerNetCalls DEF Disconnecting
    <2>5. CASE ReadNothing
      <3>1. /\ pc["net"] = "read" /\ UNCHANGED <<linkState, cur>>
            /\ \/ /\ pc' = [pc EXCEPT !["net"] = "dc_get"]
                  /\ Locals("net", reg["net"].fd, fdToId[reg["net"].fd])
               \/ pc' = [pc EXCEPT !["net"] = "poll"] /\ reg' = reg
        BY <1>2, <2>5 DEF ReadNothing, linkState, tableVars, sigVars, msgVars
      <3>2. fdToId[reg["net"].fd] <= gennb
        BY <1>t, <3>1, CallTypes DEF NeedsFd, ServerInv, IdsKnown
      <3>3. CASE pc' = [pc EXCEPT !["net"] = "poll"] /\ reg' = reg
        <4>1. pc'["net"] = "poll" /\ pc'["msg"] = pc["msg"] BY <1>t, <3>3, NetGoes
        <4> QED BY <3>1, <3>3, <4>1, ServerNetCalls DEF Disconnecting
      <3>4. CASE /\ pc' = [pc EXCEPT !["net"] = "dc_get"]
                 /\ Locals("net", reg["net"].fd, fdToId[reg["net"].fd])
        <4>1. pc'["net"] = "dc_get" /\ pc'["msg"] = pc["msg"] BY <1>t, <3>4, NetGoes
        <4>2. reg'["net"].id = fdToId[reg["net"].fd] /\ reg'["msg"] = reg["msg"]
          BY <1>t, <3>4, LocalsSet
        <4> QED BY <3>1, <3>2, <4>1, <4>2, ServerNetCalls
      <3> QED BY <3>1, <3>3, <3>4
    <2>6. CASE DisconnectGet("net", "poll") \/ DisconnectClose("net")
      <3>1. /\ pc["net"] \in {"dc_get", "dc_close"} /\ UNCHANGED <<linkState, cur>>
            /\ \E p \in {"poll", "dc_close", "dc_del"} : pc' = [pc EXCEPT !["net"] = p]
            /\ reg' = reg \/ Locals("net", connections[reg["net"].id], reg["net"].id)
        BY <1>2, <2>6
           DEF DisconnectGet, DisconnectClose, linkState, tableVars, sigVars, msgVars
      <3>2. pc'["net"] \in {"poll", "dc_close", "dc_del"} /\ pc'["msg"] = pc["msg"]
        BY <1>t, <3>1, NetGoes
      <3>3. reg'["net"].id = reg["net"].id /\ reg'["msg"] = reg["msg"] BY <1>t, <3>1, LocalsSet
      <3>4. reg["net"].id <= gennb BY <1>t, <3>1 DEF ServerInv, IdsKnown, Disconnecting
      <3> QED BY <3>1, <3>2, <3>3, <3>4, ServerNetCalls
    <2> QED BY <1>2, <1>t, <2>1, <2>2, <2>3, <2>4, <2>5, <2>6 DEF NetThread
  <1>3. CASE MsgThread
    <2>1. CASE \/ Poll \/ ReadSigCount \/ SigsDone \/ ReadDataCount \/ DataDone \/ HandleLocal
               \/ EventsDone \/ RunDone
               \/ (WriteSig("msg", back) /\ UNCHANGED msgVars)
      <3>1. /\ pc["msg"] \in {"poll", "sigread", "sig", "events", "data", "run", "sigwrite"}
            /\ \E p \in {"sigread", "sig", "events", "data", "run", "poll"} :
                  pc' = [pc EXCEPT !["msg"] = p]
            /\ reg' = reg /\ UNCHANGED linkState /\ cur' \in {cur, NoId}
        <4>1. back \in {"data", "events"} BY DEF TypeOK, LoopTypeOK
        <4> QED
          BY <2>1, <4>1
             DEF Poll, ReadSigCount, SigsDone, ReadDataCount, DataDone, HandleLocal, EventsDone,
                 RunDone, WriteSig, Goto, linkState, tableVars, sigVars, ctxVars, msgVars
      <3>2. /\ pc'["msg"] \in {"sigread", "sig", "events", "data", "run", "poll"}
            /\ pc'["net"] = pc["net"]
        BY <1>t, <3>1, MsgGoes
      <3> QED BY <3>1, <3>2, ServerMsgCalls DEF Disconnecting
    <2>2. CASE HandleData
      <3>1. /\ pc["msg"] = "data" /\ reg' = reg /\ UNCHANGED linkState
            /\ \E p \in {"run", "events"} : pc' = [pc EXCEPT !["msg"] = p]
            /\ \/ cur' = cur
               \/ HasContext(Head(readybuflist)) /\ cur' = ContextOf(Head(readybuflist))
        BY <2>2 DEF HandleData, Goto, linkState, tableVars, sigVars, ctxVars
      <3>2. pc'["msg"] \in {"run", "events"} /\ pc'["net"] = pc["net"] BY <1>t, <3>1, MsgGoes
      <3>3. cur' \in {cur} \cup reqContexts
        BY <3>1 DEF HasContext, ContextOf, ServerInv, OneAllocator
      <3> QED BY <3>1, <3>2, <3>3, ServerMsgCalls DEF Disconnecting
    <2>3. CASE AnswerFails
      <3>1. /\ pc["msg"] = "run" /\ pc' = [pc EXCEPT !["msg"] = "dc_get"]
            /\ Locals("msg", reg["msg"].fd, cur) /\ UNCHANGED <<linkState, cur>>
        BY <2>3 DEF AnswerFails, Goto, linkState, tableVars, sigVars, msgVars
      <3>2. pc'["msg"] = "dc_get" /\ pc'["net"] = pc["net"] BY <1>t, <3>1, MsgGoes
      <3>3. reg'["msg"].id = cur /\ reg'["net"] = reg["net"] BY <1>t, <3>1, LocalsSet
      <3> QED BY <3>1, <3>2, <3>3, ServerMsgCalls
    <2>4. CASE (DisconnectGet("msg", back) \/ DisconnectClose("msg")) /\ UNCHANGED msgVars
      <3>1. /\ pc["msg"] \in {"dc_get", "dc_close"} /\ UNCHANGED <<linkState, cur>>
            /\ \E p \in {"data", "events", "dc_close", "dc_del"} : pc' = [pc EXCEPT !["msg"] = p]
            /\ reg' = reg \/ Locals("msg", connections[reg["msg"].id], reg["msg"].id)
        <4>1. back \in {"data", "events"} BY DEF TypeOK, LoopTypeOK
        <4> QED
          BY <2>4, <4>1 DEF DisconnectGet, DisconnectClose, linkState, tableVars, sigVars, msgVars
      <3>2. pc'["msg"] \in {"data", "events", "dc_close", "dc_del"} /\ pc'["net"] = pc["net"]
        BY <1>t, <3>1, MsgGoes
      <3>3. reg'["msg"].id = reg["msg"].id /\ reg'["net"] = reg["net"] BY <1>t, <3>1, LocalsSet
      <3> QED BY <3>1, <3>2, <3>3, ServerMsgCalls DEF Disconnecting
    <2>5. ~(\E f \in Fd : Dial(f)) /\ ~Watch /\ ~Register /\ ~CreateConnection("msg", "watch")
      BY <1>o DEF Dial, Watch, Register, CreateConnection
    <2> QED BY <1>3, <1>t, <2>1, <2>2, <2>3, <2>4, <2>5 DEF MsgThread
  <1>4. CASE UNCHANGED vars
    <2>1. UNCHANGED <<linkState, cur, pc, reg>>
      BY <1>4 DEF vars, netVars, linkState, tableVars, sigVars, threadVars, msgVars, ctxVars, loopVars
    <2>2. ServerInv' BY <1>t, <2>1 DEF ServerInv, IdsKnown, OneAllocator, FreshAtUp, SignalsOrdered, LinksFollow, LinkFollows, linkState, Pending
    <2> QED BY <2>1, <2>2
  <1> QED BY <1>1, <1>2, <1>3, <1>4 DEF Next

LEMMA ServerStep ==
    ASSUME ~Dials, TypeOK, ServerInv, [Next]_vars
    PROVE  ServerInv'
  <1>1. CASE UNCHANGED msgVars /\ CreateConnection("net", "up") BY <1>1, ServerCreates
  <1>2. CASE UNCHANGED msgVars /\ SignalUp BY <1>2, ServerSignalsUp
  <1>3. CASE UNCHANGED msgVars /\ \E t \in Thread : SignalDown(t) \/ DisconnectDelete(t)
    BY <1>3, ServerSignalsDown, ServerDeletes
  <1>4. CASE HandleSig BY <1>4, ServerHandles
  <1> QED BY <1>1, <1>2, <1>3, <1>4, ServerQuietSteps

LEMMA ServerAlways ==
    ASSUME ~Dials
    PROVE  Spec => [](TypeOK /\ ServerInv)
  <1>1. Init => TypeOK /\ ServerInv BY TypeInit, ServerInit
  <1>2. TypeOK /\ ServerInv /\ [Next]_vars => (TypeOK /\ ServerInv)'
    BY TypeStep, ServerStep
  <1> QED BY <1>1, <1>2, PTL DEF Spec

\* A server that opens no connections itself: as long as the signalling list has
\* not overflowed, every connection a peer has opened has its context or the UP
\* that creates it, and every context has its connection or the DOWN that purges
\* it, at every point of the calls of both threads.
THEOREM ServerContextsFollow == ~Dials => (Spec => []ContextsFollow)
  <1> SUFFICES ASSUME ~Dials PROVE Spec => []ContextsFollow OBVIOUS
  <1>1. TypeOK /\ ServerInv => ContextsFollow
    <2> SUFFICES ASSUME TypeOK, ServerInv PROVE LiveHasContext /\ ContextHasLink
      BY DEF ContextsFollow
    <2>1. \A id, st : Signalled(id, st) <=> Has(siglist, id, st) BY DEF Signalled, Has
    <2>2. LiveHasContext BY <2>1 DEF LiveHasContext, ServerInv, LinksFollow, LinkFollows
    <2>3. \A id \in reqContexts : id \in Ids BY DEF TypeOK, LoopTypeOK
    <2>4. ContextHasLink BY <2>1, <2>3 DEF ContextHasLink, ServerInv, LinksFollow, LinkFollows
    <2> QED BY <2>2, <2>4
  <1>2. Spec => [](TypeOK /\ ServerInv) BY ServerAlways
  <1> QED BY <1>1, <1>2, PTL

(***************************************************************************)
(* A server implements the sessions.                                       *)
(***************************************************************************)
LEMMA ViewsKept ==
    ASSUME UNCHANGED linkState
    PROVE  UNCHANGED <<linkView, ctxView>>
  BY DEF linkState, linkView, ctxView

\* createConnection brings the link up.
LEMMA CreateIsLinkUp ==
    ASSUME TypeOK, ServerInv, CreateConnection("net", "up"), UNCHANGED msgVars
    PROVE  S!SessionNext
  <1> DEFINE i == gennb + 1
             f == reg["net"].fd
  <1>1. /\ connections' = [connections EXCEPT ![i] = f]
        /\ gennb' = i /\ i \in Ids /\ connections[i] = NoFd /\ f # NoFd
    BY ServerCreates
  <1>2. gennb \in Nat /\ connections \in [Ids -> Fd \cup {NoFd}] /\ \A id \in Ids : id \in Nat
    BY NetAssumption DEF TypeOK, NetTypeOK, TableTypeOK, Ids
  <1> HIDE DEF f
  <1>3. linkView' = [linkView EXCEPT ![i] = "up"]
    <2>1. ASSUME NEW id \in Ids, id # i
          PROVE  (IF connections'[id] # NoFd THEN "up" ELSE IF id <= gennb' THEN "down" ELSE "new")
                  = linkView[id]
      <3>1. connections'[id] = connections[id] BY <1>1, <1>2, <2>1
      <3>2. id <= gennb' <=> id <= gennb BY <1>1, <1>2, <2>1
      <3> QED BY <3>1, <3>2 DEF linkView
    <2>2. connections'[i] # NoFd BY <1>1, <1>2
    <2>3. linkView' = [id \in Ids |-> IF connections'[id] # NoFd THEN "up"
                                      ELSE IF id <= gennb' THEN "down" ELSE "new"]
      BY DEF linkView
    <2>4. linkView = [id \in Ids |-> linkView[id]] BY DEF linkView
    <2> HIDE DEF i
    <2> QED BY <2>1, <2>2, <2>3, <2>4
  <1>4. linkView[i] = "new" BY <1>1, <1>2 DEF linkView
  <1>5. ctxView' = ctxView BY DEF ctxView, msgVars
  <1>6. S!LinkUp(i) BY <1>3, <1>4, <1>5 DEF S!LinkUp
  <1> QED BY <1>1, <1>6 DEF S!SessionNext

\* deleteConnection brings it down, unless the other thread already has.
LEMMA DeleteIsLinkDown ==
    ASSUME TypeOK, ServerInv, NEW t \in Thread, DisconnectDelete(t), UNCHANGED msgVars
    PROVE  S!SessionNext \/ UNCHANGED <<linkView, ctxView>>
  <1> DEFINE i == reg[t].id
  <1>1. i \in Ids /\ gennb' = gennb /\ connections' = [connections EXCEPT ![i] = NoFd]
    BY ServerDeletes
  <1>2. connections \in [Ids -> Fd \cup {NoFd}] BY DEF TypeOK, NetTypeOK, TableTypeOK
  <1>3. ctxView' = ctxView BY DEF ctxView, msgVars
  <1> HIDE DEF i
  <1>4. CASE connections[i] = NoFd
    <2>1. connections' = connections BY <1>1, <1>2, <1>4
    <2> QED BY <1>1, <1>3, <2>1 DEF linkView
  <1>5. CASE connections[i] # NoFd
    <2>1. i <= gennb BY <1>1, <1>5 DEF ServerInv, IdsKnown
    <2>2. linkView[i] = "up" BY <1>1, <1>5 DEF linkView
    <2>3. linkView' = [linkView EXCEPT ![i] = "down"]
      <3>1. ASSUME NEW id \in Ids, id # i
            PROVE  (IF connections'[id] # NoFd THEN "up" ELSE IF id <= gennb' THEN "down" ELSE "new")
                    = linkView[id]
        BY <1>1, <1>2, <3>1 DEF linkView
      <3>2. connections'[i] = NoFd /\ i <= gennb' BY <1>1, <1>2, <2>1
      <3>3. linkView' = [id \in Ids |-> IF connections'[id] # NoFd THEN "up"
                                        ELSE IF id <= gennb' THEN "down" ELSE "new"]
        BY DEF linkView
      <3>4. linkView = [id \in Ids |-> linkView[id]] BY DEF linkView
      <3> QED BY <3>1, <3>2, <3>3, <3>4
    <2>4. S!LinkDown(i) BY <1>3, <2>2, <2>3 DEF S!LinkDown
    <2> QED BY <1>1, <2>4 DEF S!SessionNext
  <1> QED BY <1>4, <1>5

\* An UP that is handled creates the context, a DOWN purges it.
LEMMA HandleIsContextStep ==
    ASSUME TypeOK, ServerInv, HandleSig
    PROVE  S!SessionNext \/ UNCHANGED <<linkView, ctxView>>
  <1> DEFINE i == Head(siglist)[1]
  <1>1. /\ UNCHANGED <<gennb, connections>> /\ i \in Ids /\ i <= gennb
        /\ \/ /\ reqContexts' = reqContexts \cup {i} /\ purged' = purged
              /\ i \notin reqContexts \cup purged
           \/ /\ reqContexts' = reqContexts \ {i} /\ purged' = purged \cup {i}
              /\ connections[i] = NoFd
    BY ServerHandles
  <1> HIDE DEF i
  <1>2. linkView' = linkView /\ linkView[i] # "new" /\ (connections[i] = NoFd => linkView[i] = "down")
    BY <1>1 DEF linkView
  <1>3. ctxView = [id \in Ids |-> ctxView[id]] BY DEF ctxView
  <1>4. ctxView' = [id \in Ids |-> IF id \in reqContexts' THEN "live"
                                   ELSE IF id \in purged' THEN "gone" ELSE "none"]
    BY DEF ctxView
  <1>5. CASE /\ reqContexts' = reqContexts \cup {i} /\ purged' = purged
             /\ i \notin reqContexts \cup purged
    <2>1. ctxView[i] = "none" BY <1>1, <1>5 DEF ctxView
    <2>2. \A id \in Ids : id # i =>
             (IF id \in reqContexts' THEN "live" ELSE IF id \in purged' THEN "gone" ELSE "none")
                = ctxView[id]
      BY <1>5 DEF ctxView
    <2>3. ctxView' = [ctxView EXCEPT ![i] = "live"] BY <1>3, <1>4, <1>5, <2>2
    <2>4. S!CreateContext(i) BY <1>2, <2>1, <2>3 DEF S!CreateContext
    <2> QED BY <1>1, <2>4 DEF S!SessionNext
  <1>6. CASE /\ reqContexts' = reqContexts \ {i} /\ purged' = purged \cup {i}
             /\ connections[i] = NoFd
    <2>1. \A id \in Ids : id # i =>
             (IF id \in reqContexts' THEN "live" ELSE IF id \in purged' THEN "gone" ELSE "none")
                = ctxView[id]
      BY <1>6 DEF ctxView
    <2>2. ctxView' = [ctxView EXCEPT ![i] = "gone"] BY <1>3, <1>4, <1>6, <2>1
    <2>3. CASE ctxView[i] = "gone"
      <3>1. ctxView' = ctxView BY <1>3, <2>2, <2>3
      <3> QED BY <1>2, <3>1
    <2>4. CASE ctxView[i] # "gone"
      <3>1. S!PurgeContext(i) BY <1>2, <1>6, <2>2, <2>4 DEF S!PurgeContext
      <3> QED BY <1>1, <3>1 DEF S!SessionNext
    <2> QED BY <2>3, <2>4
  <1> QED BY <1>1, <1>5, <1>6

LEMMA SessionStep ==
    ASSUME ~Dials, TypeOK, ServerInv, [Next]_vars
    PROVE  [S!SessionNext]_(S!sessionVars)
  <1>1. UNCHANGED <<linkView, ctxView>> => UNCHANGED S!sessionVars BY DEF S!sessionVars
  <1>2. CASE UNCHANGED msgVars /\ CreateConnection("net", "up") BY <1>2, CreateIsLinkUp
  <1>3. CASE UNCHANGED msgVars /\ SignalUp
    BY <1>1, <1>3 DEF SignalUp, tableVars, msgVars, linkView, ctxView
  <1>4. CASE UNCHANGED msgVars /\ \E t \in Thread : SignalDown(t) \/ DisconnectDelete(t)
    <2>1. PICK t \in Thread : SignalDown(t) \/ DisconnectDelete(t) BY <1>4
    <2>2. CASE SignalDown(t)
      BY <1>1, <1>4, <2>2 DEF SignalDown, tableVars, msgVars, linkView, ctxView
    <2>3. CASE DisconnectDelete(t) BY <1>1, <1>4, <2>3, DeleteIsLinkDown
    <2> QED BY <2>1, <2>2, <2>3
  <1>5. CASE HandleSig BY <1>1, <1>5, HandleIsContextStep
  <1> QED BY <1>1, <1>2, <1>3, <1>4, <1>5, ServerQuietSteps, ViewsKept

\* A server that opens no connections itself implements the sessions: a context
\* is created at most once, not before its connection exists, is given up only
\* when the connection is gone and never comes back, also when the list of
\* signals overflows and when both threads disconnect the same connection.
THEOREM ServerImplementsSession == ~Dials => (Spec => ImplementsSession)
  <1> SUFFICES ASSUME ~Dials PROVE Spec => ImplementsSession OBVIOUS
  <1>1. Init => S!SessionInit
    <2> SUFFICES ASSUME Init PROVE S!SessionInit OBVIOUS
    <2>1. /\ gennb = 0 /\ reqContexts = {} /\ purged = {} /\ connections = [i \in Ids |-> NoFd]
          /\ \A id \in Ids : ~(id <= 0)
      BY NetAssumption DEF Init, NetInit, Ids
    <2>2. linkView = [id \in Ids |-> "new"] BY <2>1 DEF linkView
    <2>3. ctxView = [id \in Ids |-> "none"] BY <2>1 DEF ctxView
    <2> QED BY <2>2, <2>3 DEF S!SessionInit
  <1>2. TypeOK /\ ServerInv /\ [Next]_vars => [S!SessionNext]_(S!sessionVars) BY SessionStep
  <1>3. Spec => [](TypeOK /\ ServerInv) BY ServerAlways
  <1> QED BY <1>1, <1>2, <1>3, PTL DEF Spec, ImplementsSession, S!SessionSpec

(***************************************************************************)
(* A server whose writes do not fail: the net thread alone closes          *)
(* connections, the event loop at most finds them closed.                  *)
(***************************************************************************)
\* A connection that the event loop is about to disconnect is down already.
OneCloser ==
    /\ pc["msg"] \notin {"dc_close", "dc_del", "dc_sig"}
    /\ pc["msg"] = "dc_get" => connections[reg["msg"].id] = NoFd

\* A descriptor is free only when it is in no table, or about to be removed.
TableInverse ==
    /\ \A f \in Fd : fdToId[f] # NoId => connections[fdToId[f]] = f
    /\ \A id \in Ids : connections[id] # NoFd => fdToId[connections[id]] = id
    /\ \A f \in Fd : sock[f] = "free" =>
          fdToId[f] = NoId \/ (pc["net"] = "dc_del" /\ reg["net"].id = fdToId[f])

\* What epoll_wait has reported is still so when the net thread comes to it.
BatchHolds ==
    /\ \A f \in watched \cup batch : sock[f] # "free"
    /\ \A f \in batch : inbox[f] > 0 \/ f \in eof

\* What the net thread knows of the descriptor it is working on.
CallHolds ==
    LET f == reg["net"].fd
    IN  /\ pc["net"] = "create" => sock[f] # "free" /\ fdToId[f] = NoId /\ f \notin batch
        /\ pc["net"] \in {"read", "datawrite"} => sock[f] # "free" /\ f \notin batch
        /\ pc["net"] = "read" /\ firstRead => inbox[f] > 0 \/ f \in eof
        /\ pc["net"] = "datawrite" => ~firstRead
        /\ pc["net"] \in {"dc_get", "dc_close", "dc_del"} =>
              f \notin batch /\ f \in Fd /\ connections[reg["net"].id] = f
        /\ pc["net"] \in {"dc_get", "dc_close"} => sock[f] # "free" /\ f \in eof
        /\ pc["net"] = "dc_del" => sock[f] = "free"

CloserInv == OneCloser /\ TableInverse /\ BatchHolds /\ CallHolds /\ ~endDeref

\* A step of the event loop: what the net thread works on stays.
netState == <<kernelVars, connections, fdToId, endDeref, batch, firstRead>>

LEMMA CloserMsgSteps ==
    ASSUME CloserInv, UNCHANGED netState, pc'["net"] = pc["net"], reg'["net"] = reg["net"],
           pc'["msg"] \notin {"dc_close", "dc_del", "dc_sig"},
           pc'["msg"] = "dc_get" => connections[reg'["msg"].id] = NoFd
    PROVE  CloserInv'
  <1>1. OneCloser' BY DEF OneCloser, netState
  <1>2. TableInverse' BY DEF CloserInv, TableInverse, netState, kernelVars
  <1>3. BatchHolds' BY DEF CloserInv, BatchHolds, netState, kernelVars
  <1>4. CallHolds' BY DEF CloserInv, CallHolds, netState, kernelVars
  <1> QED BY <1>1, <1>2, <1>3, <1>4 DEF CloserInv, netState

\* The peers only add: data, and the end of the stream.
LEMMA CloserPeers ==
    ASSUME TypeOK, CloserInv, Peers, UNCHANGED msgVars
    PROVE  CloserInv'
  <1>1. PICK f \in Fd : PeerSend(f) \/ PeerClose(f) BY DEF Peers
  <1>2. /\ UNCHANGED <<sock, watched, connections, fdToId, endDeref, batch, firstRead, pc, reg>>
        /\ eof \subseteq eof' /\ \A g \in Fd : inbox[g] > 0 => inbox'[g] > 0
    BY <1>1 DEF PeerSend, PeerClose, TypeOK, NetTypeOK, KernelTypeOK, tableVars, threadVars, runVars
  <1>3. OneCloser' BY <1>2 DEF CloserInv, OneCloser
  <1>4. TableInverse' BY <1>2 DEF CloserInv, TableInverse
  <1>5. BatchHolds' BY <1>2 DEF CloserInv, BatchHolds, TypeOK, NetTypeOK
  <1>6. CallHolds'
    <2>1. pc["net"] \in {"read", "datawrite"} => reg["net"].fd \in Fd
      <3>1. "net" \in Thread BY DEF Thread
      <3> QED BY <3>1, CallTypes DEF TypeOK, NeedsFd
    <2> QED BY <1>2, <2>1 DEF CloserInv, CallHolds
  <1> QED BY <1>2, <1>3, <1>4, <1>5, <1>6 DEF CloserInv

\* The calls of the net thread.
LEMMA CloserNetSteps ==
    ASSUME TypeOK, ServerInv, CloserInv, NetThread, UNCHANGED msgVars
    PROVE  CloserInv'
  <1> DEFINE f == reg["net"].fd
             i == reg["net"].id
  <1>t. Thread = {"net", "msg"} /\ "net" \in Thread /\ ThreadsOK BY DEF Thread, TypeOK
  <1>y. /\ connections \in [Ids -> Fd \cup {NoFd}] /\ fdToId \in [Fd -> Ids \cup {NoId}]
        /\ sock \in [Fd -> {"free", "in", "out"}] /\ inbox \in [Fd -> Nat]
        /\ watched \subseteq Fd /\ batch \subseteq Fd /\ eof \subseteq Fd
        /\ NoFd \notin Fd /\ NoId \notin Ids /\ gennb \in Nat
    BY NetAssumption DEF TypeOK, NetTypeOK, TableTypeOK, KernelTypeOK, Ids, NoId
  <1>m. pc["msg"] = "dc_get" => reg["msg"].id \in Ids /\ reg["msg"].id <= gennb
    BY <1>t, CallTypes DEF NeedsId, ServerInv, IdsKnown, Disconnecting
  <1>1. CASE EpollWait
    <2>1. /\ pc["net"] = "poll" /\ batch' = {g \in Fd : Readable(g)}
          /\ UNCHANGED <<sock, watched, inbox, eof, connections, fdToId, endDeref, firstRead, pc, reg>>
      BY <1>1 DEF EpollWait, tableVars
    <2>2. BatchHolds' BY <2>1 DEF CloserInv, BatchHolds, Readable
    <2>3. OneCloser' /\ TableInverse' /\ CallHolds'
      BY <2>1 DEF CloserInv, OneCloser, TableInverse, CallHolds
    <2> QED BY <2>1, <2>2, <2>3 DEF CloserInv
  <1>2. CASE AcceptDone \/ Gc
    <2>1. /\ UNCHANGED <<sock, watched, inbox, eof, connections, fdToId, endDeref, firstRead, pc, reg>>
          /\ batch' = batch
      BY <1>2 DEF AcceptDone, Gc, kernelVars, tableVars, threadVars, runVars
    <2>2. OneCloser' /\ TableInverse' BY <2>1 DEF CloserInv, OneCloser, TableInverse
    <2>3. BatchHolds' /\ CallHolds' BY <2>1 DEF CloserInv, BatchHolds, CallHolds
    <2> QED BY <2>1, <2>2, <2>3 DEF CloserInv
  <1>3. CASE \E g \in Fd : Accept(g)
    <2>1. PICK g \in Fd : Accept(g) BY <1>3
    <2>2. /\ pc["net"] = "poll" /\ pc' = [pc EXCEPT !["net"] = "create"] /\ sock[g] = "free"
          /\ Locals("net", g, gennb + 1) /\ sock' = [sock EXCEPT ![g] = "in"]
          /\ watched' = watched \cup {g}
          /\ UNCHANGED <<inbox, eof, connections, fdToId, endDeref, firstRead, batch>>
      BY <2>1 DEF Accept, OpenSocket, tableVars, runVars
    <2>3. pc'["net"] = "create" /\ pc'["msg"] = pc["msg"] BY <1>t, <2>2, NetGoes
    <2>4. reg'["net"].fd = g /\ reg'["msg"] = reg["msg"] BY <1>t, <2>2, LocalsSet
    <2>5. fdToId[g] = NoId /\ g \notin batch
      BY <2>2 DEF CloserInv, TableInverse, BatchHolds
    <2>6. /\ sock'[g] # "free" /\ \A h \in Fd : sock[h] # "free" => sock'[h] # "free"
          /\ \A h \in Fd : sock'[h] = "free" => sock[h] = "free"
      BY <1>y, <2>2
    <2>7. OneCloser' BY <2>2, <2>3, <2>4 DEF CloserInv, OneCloser
    <2>8. TableInverse' BY <2>2, <2>6 DEF CloserInv, TableInverse
    <2>9. BatchHolds' BY <1>y, <2>2, <2>6 DEF CloserInv, BatchHolds
    <2>10. CallHolds' BY <2>2, <2>3, <2>4, <2>5, <2>6 DEF CallHolds
    <2> QED BY <2>2, <2>7, <2>8, <2>9, <2>10 DEF CloserInv
  <1>4. CASE \E g \in Fd : HandleEvent(g)
    <2>1. PICK g \in Fd : HandleEvent(g) BY <1>4
    <2>2. /\ pc["net"] = "poll" /\ pc' = [pc EXCEPT !["net"] = "read"] /\ g \in batch
          /\ Locals("net", g, i) /\ batch' = batch \ {g}
          /\ UNCHANGED <<sock, watched, inbox, eof, connections, fdToId, endDeref>>
      BY <2>1 DEF HandleEvent, kernelVars, tableVars
    <2>3. pc'["net"] = "read" /\ pc'["msg"] = pc["msg"] BY <1>t, <2>2, NetGoes
    <2>4. reg'["net"].fd = g /\ reg'["msg"] = reg["msg"] BY <1>t, <2>2, LocalsSet
    <2>5. OneCloser' BY <2>2, <2>3, <2>4 DEF CloserInv, OneCloser
    <2>6. TableInverse' BY <2>2, <2>3 DEF CloserInv, TableInverse
    <2>7. BatchHolds' BY <2>2 DEF CloserInv, BatchHolds
    <2>8. CallHolds' BY <2>2, <2>3, <2>4 DEF CloserInv, CallHolds, BatchHolds
    <2> QED BY <2>2, <2>5, <2>6, <2>7, <2>8 DEF CloserInv
  <1>5. CASE ReceiveMessage
    <2>1. /\ pc["net"] = "read" /\ pc' = [pc EXCEPT !["net"] = "datawrite"] /\ firstRead' = FALSE
          /\ inbox' = [inbox EXCEPT ![f] = @ - 1]
          /\ UNCHANGED <<sock, watched, eof, connections, fdToId, endDeref, reg, batch>>
      BY <1>5 DEF ReceiveMessage, tableVars
    <2>2. pc'["net"] = "datawrite" /\ pc'["msg"] = pc["msg"] BY <1>t, <2>1, NetGoes
    <2>3. sock[f] # "free" /\ f \notin batch BY <2>1 DEF CloserInv, CallHolds
    <2>4. \A g \in batch : inbox'[g] = inbox[g] BY <1>y, <2>1, <2>3
    <2>5. OneCloser' BY <2>1, <2>2 DEF CloserInv, OneCloser
    <2>6. TableInverse' BY <2>1, <2>2 DEF CloserInv, TableInverse
    <2>7. BatchHolds' BY <2>1, <2>4 DEF CloserInv, BatchHolds
    <2>8. CallHolds' BY <2>1, <2>2, <2>3 DEF CallHolds
    <2> QED BY <2>1, <2>5, <2>6, <2>7, <2>8 DEF CloserInv
  <1>6. CASE WriteData
    <2>1. /\ pc["net"] = "datawrite" /\ pc' = [pc EXCEPT !["net"] = "read"]
          /\ UNCHANGED <<sock, watched, inbox, eof, connections, fdToId, endDeref, reg, batch, firstRead>>
      BY <1>6 DEF WriteData, kernelVars, tableVars, runVars
    <2>2. pc'["net"] = "read" /\ pc'["msg"] = pc["msg"] BY <1>t, <2>1, NetGoes
    <2>3. OneCloser' BY <2>1, <2>2 DEF CloserInv, OneCloser
    <2>4. TableInverse' BY <2>1, <2>2 DEF CloserInv, TableInverse
    <2>5. BatchHolds' BY <2>1 DEF CloserInv, BatchHolds
    <2>6. CallHolds' BY <2>1, <2>2 DEF CloserInv, CallHolds
    <2> QED BY <2>1, <2>3, <2>4, <2>5, <2>6 DEF CloserInv
  <1>7. CASE ReadNothing
    <2>1. /\ pc["net"] = "read" /\ inbox[f] = 0
          /\ UNCHANGED <<sock, watched, inbox, eof, connections, fdToId, endDeref, batch, firstRead>>
          /\ \/ /\ firstRead \/ sock[f] = "free" 
                /\ fdToId[f] # NoId
                /\ Locals("net", f, fdToId[f]) /\ pc' = [pc EXCEPT !["net"] = "dc_get"]
             \/ pc' = [pc EXCEPT !["net"] = "poll"] /\ reg' = reg
      BY <1>7 DEF ReadNothing, kernelVars, tableVars, runVars
    <2>2. BatchHolds' BY <2>1 DEF CloserInv, BatchHolds
    <2>3. CASE pc' = [pc EXCEPT !["net"] = "poll"] /\ reg' = reg
      <3>1. pc'["net"] = "poll" /\ pc'["msg"] = pc["msg"] BY <1>t, <2>3, NetGoes
      <3>2. OneCloser' BY <2>1, <2>3, <3>1 DEF CloserInv, OneCloser
      <3>3. TableInverse' BY <2>1, <3>1 DEF CloserInv, TableInverse
      <3>4. CallHolds' BY <3>1 DEF CallHolds
      <3> QED BY <2>1, <2>2, <3>2, <3>3, <3>4 DEF CloserInv
    <2>4. CASE /\ firstRead \/ sock[f] = "free" 
               /\ fdToId[f] # NoId
               /\ Locals("net", f, fdToId[f]) /\ pc' = [pc EXCEPT !["net"] = "dc_get"]
      <3>1. pc'["net"] = "dc_get" /\ pc'["msg"] = pc["msg"] BY <1>t, <2>4, NetGoes
      <3>2. reg'["net"].fd = f /\ reg'["net"].id = fdToId[f] /\ reg'["msg"] = reg["msg"]
        BY <1>t, <2>4, LocalsSet
      <3>3. f \in Fd BY <1>t, <2>1, CallTypes DEF NeedsFd
      <3>4. sock[f] # "free" /\ f \notin batch /\ f \in eof
        BY <1>y, <2>1, <2>4, <3>3 DEF CloserInv, CallHolds
      <3>5. connections[fdToId[f]] = f BY <2>4, <3>3 DEF CloserInv, TableInverse
      <3>6. OneCloser' BY <2>1, <3>1, <3>2 DEF CloserInv, OneCloser
      <3>7. TableInverse' BY <2>1, <3>1 DEF CloserInv, TableInverse
      <3>8. CallHolds' BY <2>1, <3>1, <3>2, <3>3, <3>4, <3>5 DEF CallHolds
      <3> QED BY <2>1, <2>2, <3>6, <3>7, <3>8 DEF CloserInv
    <2> QED BY <2>1, <2>3, <2>4
  <1>8. CASE CreateConnection("net", "up")
    <2>1. /\ connections' = [connections EXCEPT ![gennb + 1] = f] /\ gennb + 1 \in Ids
          /\ connections[gennb + 1] = NoFd /\ f \in Fd /\ f # NoFd
      BY <1>8, ServerCreates
    <2>2. pc["net"] = "create" /\ pc' = [pc EXCEPT !["net"] = "up"] /\ i = gennb + 1
      BY <1>8 DEF CreateConnection, ServerInv, OneAllocator
    <2>3. /\ UNCHANGED <<sock, watched, inbox, eof, endDeref, reg, batch, firstRead>>
          /\ fdToId' = [fdToId EXCEPT ![f] = IF @ = NoId THEN i ELSE @]
      BY <1>8 DEF CreateConnection, kernelVars, runVars
    <2>4. pc'["net"] = "up" /\ pc'["msg"] = pc["msg"] BY <1>t, <2>2, NetGoes
    <2>5. sock[f] # "free" /\ fdToId[f] = NoId BY <2>2 DEF CloserInv, CallHolds
    <2> HIDE DEF f, i
    <2>6. fdToId' = [fdToId EXCEPT ![f] = i] BY <1>y, <2>1, <2>3, <2>5
    <2>7. OneCloser'
      <3>1. pc["msg"] = "dc_get" => connections'[reg["msg"].id] = connections[reg["msg"].id]
        BY <1>m, <1>y, <2>1
      <3> QED BY <2>3, <2>4, <3>1 DEF CloserInv, OneCloser
    <2>8. TableInverse'
      <3>1. ASSUME NEW g \in Fd, fdToId'[g] # NoId PROVE connections'[fdToId'[g]] = g
        <4>1. CASE g = f BY <1>y, <2>1, <2>2, <2>6, <4>1
        <4>2. CASE g # f
          <5>1. fdToId'[g] = fdToId[g] /\ connections[fdToId[g]] = g
            BY <1>y, <2>6, <3>1, <4>2 DEF CloserInv, TableInverse
          <5>2. fdToId[g] # gennb + 1 BY <1>y, <2>1, <5>1
          <5> QED BY <1>y, <2>1, <3>1, <5>1, <5>2
        <4> QED BY <4>1, <4>2
      <3>2. ASSUME NEW id \in Ids, connections'[id] # NoFd PROVE fdToId'[connections'[id]] = id
        <4>1. CASE id = i BY <1>y, <2>1, <2>2, <2>6, <4>1
        <4>2. CASE id # i
          <5>1. connections'[id] = connections[id] /\ fdToId[connections[id]] = id
            BY <1>y, <2>1, <2>2, <3>2, <4>2 DEF CloserInv, TableInverse
          <5>2. connections[id] # f BY <1>y, <2>5, <5>1
          <5>3. connections[id] \in Fd BY <1>y, <3>2, <5>1
          <5> QED BY <1>y, <2>6, <5>1, <5>2, <5>3
        <4> QED BY <4>1, <4>2
      <3>3. ASSUME NEW g \in Fd, sock[g] = "free" PROVE fdToId'[g] = NoId
        <4>1. g # f BY <2>5, <3>3
        <4>2. fdToId[g] = NoId BY <2>2, <3>3 DEF CloserInv, TableInverse
        <4> QED BY <1>y, <2>6, <4>1, <4>2
      <3> QED BY <2>3, <3>1, <3>2, <3>3 DEF TableInverse
    <2>9. BatchHolds' BY <2>3 DEF CloserInv, BatchHolds
    <2>10. CallHolds' BY <2>4 DEF CallHolds
    <2> QED BY <2>3, <2>7, <2>8, <2>9, <2>10 DEF CloserInv
  <1>9. CASE SignalUp \/ WriteSig("net", "poll") \/ SignalDown("net")
    <2>1. /\ pc["net"] \in {"up", "sigwrite", "dc_sig"}
          /\ \E p \in {"sigwrite", "poll"} : pc' = [pc EXCEPT !["net"] = p]
          /\ UNCHANGED <<sock, watched, inbox, eof, connections, fdToId, endDeref, batch, firstRead, reg>>
      BY <1>9 DEF SignalUp, WriteSig, SignalDown, kernelVars, tableVars, runVars
    <2>2. pc'["net"] \in {"sigwrite", "poll"} /\ pc'["msg"] = pc["msg"] BY <1>t, <2>1, NetGoes
    <2>3. OneCloser' BY <2>1, <2>2 DEF CloserInv, OneCloser
    <2>4. TableInverse' BY <2>1, <2>2 DEF CloserInv, TableInverse
    <2>5. BatchHolds' BY <2>1 DEF CloserInv, BatchHolds
    <2>6. CallHolds' BY <2>2 DEF CallHolds
    <2> QED BY <2>1, <2>3, <2>4, <2>5, <2>6 DEF CloserInv
  <1>10. CASE DisconnectGet("net", "poll")
    <2>1. /\ pc["net"] = "dc_get"
          /\ UNCHANGED <<sock, watched, inbox, eof, connections, fdToId, endDeref, batch, firstRead>>
      BY <1>10 DEF DisconnectGet, kernelVars, tableVars, runVars
    <2>2. f \notin batch /\ f \in Fd /\ connections[i] = f /\ sock[f] # "free" /\ f \in eof
      BY <2>1 DEF CloserInv, CallHolds
    <2>3. pc' = [pc EXCEPT !["net"] = "dc_close"] /\ Locals("net", f, i)
      BY <1>y, <1>10, <2>2 DEF DisconnectGet
    <2>4. pc'["net"] = "dc_close" /\ pc'["msg"] = pc["msg"] BY <1>t, <2>3, NetGoes
    <2>5. reg'["net"].fd = f /\ reg'["net"].id = i /\ reg'["msg"] = reg["msg"]
      BY <1>t, <2>3, LocalsSet
    <2>6. OneCloser' BY <2>1, <2>4, <2>5 DEF CloserInv, OneCloser
    <2>7. TableInverse' BY <2>1, <2>4 DEF CloserInv, TableInverse
    <2>8. BatchHolds' BY <2>1 DEF CloserInv, BatchHolds
    <2>9. CallHolds' BY <2>1, <2>2, <2>4, <2>5 DEF CallHolds
    <2> QED BY <2>1, <2>6, <2>7, <2>8, <2>9 DEF CloserInv
  <1>11. CASE DisconnectClose("net")
    <2>1. /\ pc["net"] = "dc_close" /\ pc' = [pc EXCEPT !["net"] = "dc_del"]
          /\ sock' = [sock EXCEPT ![f] = "free"] /\ inbox' = [inbox EXCEPT ![f] = 0]
          /\ eof' = eof \ {f} /\ watched' = watched \ {f}
          /\ UNCHANGED <<connections, fdToId, endDeref, reg, batch, firstRead>>
      BY <1>11 DEF DisconnectClose, CloseSocket, tableVars, runVars
    <2>2. f \notin batch /\ f \in Fd /\ connections[i] = f /\ sock[f] # "free" /\ f # NoFd
      BY <1>y, <2>1 DEF CloserInv, CallHolds
    <2>3. i \in Ids BY <1>t, <2>1, CallTypes DEF NeedsId
    <2>4. pc'["net"] = "dc_del" /\ pc'["msg"] = pc["msg"] BY <1>t, <2>1, NetGoes
    <2>5. fdToId[f] = i BY <2>2, <2>3 DEF CloserInv, TableInverse
    <2>6. OneCloser' BY <2>1, <2>4 DEF CloserInv, OneCloser
    <2>7. \A g \in Fd : sock'[g] = IF g = f THEN "free" ELSE sock[g] BY <1>y, <2>1
    <2>8. \A g \in Fd : inbox'[g] = IF g = f THEN 0 ELSE inbox[g] BY <1>y, <2>1
    <2> HIDE DEF f, i
    <2>9. TableInverse'
      <3>1. ASSUME NEW g \in Fd, sock'[g] = "free"
            PROVE  fdToId[g] = NoId \/ reg["net"].id = fdToId[g]
        <4>1. CASE g = f BY <2>5, <4>1 DEF i
        <4>2. CASE g # f
          <5>1. sock[g] = "free" BY <2>7, <3>1, <4>2
          <5> QED BY <2>1, <5>1 DEF CloserInv, TableInverse
        <4> QED BY <4>1, <4>2
      <3> QED BY <2>1, <2>4, <3>1 DEF CloserInv, TableInverse
    <2>10. BatchHolds' BY <1>y, <2>1, <2>2, <2>7, <2>8 DEF CloserInv, BatchHolds
    <2>11. CallHolds' BY <2>1, <2>2, <2>4, <2>7 DEF CallHolds, f, i
    <2> QED BY <2>1, <2>6, <2>9, <2>10, <2>11 DEF CloserInv
  <1>12. CASE DisconnectDelete("net")
    <2>1. /\ pc["net"] = "dc_del" /\ pc' = [pc EXCEPT !["net"] = "dc_sig"] /\ DeleteConnection(i)
          /\ UNCHANGED <<sock, watched, inbox, eof, reg, batch, firstRead>>
      BY <1>12 DEF DisconnectDelete, kernelVars, runVars
    <2>2. f \in Fd /\ connections[i] = f /\ f # NoFd BY <1>y, <2>1 DEF CloserInv, CallHolds
    <2>3. i \in Ids BY <1>t, <2>1, CallTypes DEF NeedsId
    <2>4. pc'["net"] = "dc_sig" /\ pc'["msg"] = pc["msg"] BY <1>t, <2>1, NetGoes
    <2> HIDE DEF f, i
    <2>5. /\ fdToId' = [fdToId EXCEPT ![f] = NoId] /\ connections' = [connections EXCEPT ![i] = NoFd]
          /\ endDeref' = endDeref
      BY <2>1, <2>2 DEF DeleteConnection
    <2>6. \A g \in Fd : fdToId'[g] = IF g = f THEN NoId ELSE fdToId[g] BY <1>y, <2>5
    <2>7. \A id \in Ids : connections'[id] = IF id = i THEN NoFd ELSE connections[id]
      BY <1>y, <2>5
    <2>8. OneCloser' BY <1>m, <2>1, <2>4, <2>7 DEF CloserInv, OneCloser
    <2>9. TableInverse'
      <3>1. ASSUME NEW g \in Fd, fdToId'[g] # NoId PROVE connections'[fdToId'[g]] = g
        <4>1. g # f /\ fdToId'[g] = fdToId[g] /\ connections[fdToId[g]] = g
          BY <2>6, <3>1 DEF CloserInv, TableInverse
        <4>2. fdToId[g] \in Ids /\ fdToId[g] # i BY <1>y, <2>2, <3>1, <4>1
        <4> QED BY <2>7, <4>1, <4>2
      <3>2. ASSUME NEW id \in Ids, connections'[id] # NoFd PROVE fdToId'[connections'[id]] = id
        <4>1. id # i /\ connections'[id] = connections[id] /\ fdToId[connections[id]] = id
          BY <2>7, <3>2 DEF CloserInv, TableInverse
        <4>2. fdToId[f] = i BY <2>2, <2>3 DEF CloserInv, TableInverse
        <4>3. connections[id] # f /\ connections[id] \in Fd BY <1>y, <3>2, <4>1, <4>2
        <4> QED BY <2>6, <4>1, <4>3
      <3>3. ASSUME NEW g \in Fd, sock[g] = "free" PROVE fdToId'[g] = NoId
        <4>1. fdToId[g] = NoId \/ i = fdToId[g] BY <3>3 DEF CloserInv, TableInverse, i
        <4>2. fdToId[g] = i => g = f BY <1>y, <2>2, <2>3 DEF CloserInv, TableInverse
        <4> QED BY <2>6, <4>1, <4>2
      <3> QED BY <2>1, <3>1, <3>2, <3>3 DEF TableInverse
    <2>10. BatchHolds' BY <2>1 DEF CloserInv, BatchHolds
    <2>11. CallHolds' BY <2>4 DEF CallHolds
    <2> QED BY <2>5, <2>8, <2>9, <2>10, <2>11 DEF CloserInv
  <1> QED
    BY <1>1, <1>2, <1>3, <1>4, <1>5, <1>6, <1>7, <1>8, <1>9, <1>10, <1>11, <1>12 DEF NetThread

LEMMA CloserInit == Init => CloserInv
  <1> SUFFICES ASSUME Init PROVE CloserInv OBVIOUS
  <1>1. /\ sock = [f \in Fd |-> "free"] /\ watched = {} /\ batch = {} /\ endDeref = FALSE
        /\ connections = [i \in Ids |-> NoFd] /\ fdToId = [f \in Fd |-> NoId]
        /\ pc["net"] = "poll" /\ pc["msg"] = "poll"
    BY DEF Init, NetInit, Thread
  <1> QED BY <1>1 DEF CloserInv, OneCloser, TableInverse, BatchHolds, CallHolds

LEMMA CloserStep ==
    ASSUME ~Dials, ~WriteFails, TypeOK, ServerInv, CloserInv, [Next]_vars
    PROVE  CloserInv'
  <1>t. Thread = {"net", "msg"} /\ ThreadsOK BY DEF Thread, TypeOK
  <1>o. pc["msg"] \notin {"create", "watch", "register", "dc_close", "dc_del", "dc_sig"}
    BY DEF ServerInv, OneAllocator, CloserInv, OneCloser
  <1>1. CASE Peers /\ UNCHANGED msgVars BY <1>1, CloserPeers
  <1>2. CASE NetThread /\ UNCHANGED msgVars BY <1>2, CloserNetSteps
  <1>3. CASE MsgThread
    <2>1. CASE \/ Poll \/ ReadSigCount \/ SigsDone \/ ReadDataCount \/ HandleData \/ DataDone
               \/ HandleLocal \/ EventsDone \/ RunDone
               \/ (UNCHANGED msgVars /\ WriteSig("msg", back))
      <3>1. /\ \E p \in {"sigread", "sig", "events", "data", "run", "poll"} :
                  pc' = [pc EXCEPT !["msg"] = p]
            /\ reg' = reg /\ UNCHANGED netState
        <4>1. back \in {"data", "events"} BY DEF TypeOK, LoopTypeOK
        <4> QED
          BY <2>1, <4>1
             DEF Poll, ReadSigCount, SigsDone, ReadDataCount, HandleData, DataDone, HandleLocal,
                 EventsDone, RunDone, WriteSig, Goto, netState, tableVars, runVars
      <3>2. /\ pc'["msg"] \in {"sigread", "sig", "events", "data", "run", "poll"}
            /\ pc'["net"] = pc["net"]
        BY <1>t, <3>1, MsgGoes
      <3> QED BY <3>1, <3>2, CloserMsgSteps
    <2>2. CASE HandleSig
      <3>1. UNCHANGED <<netState, pc, reg>>
        BY <2>2 DEF HandleSig, netState, tableVars, threadVars, runVars
      <3> QED BY <3>1, CloserMsgSteps DEF CloserInv, OneCloser
    <2>3. CASE AnswerFails
      <3>1. /\ pc' = [pc EXCEPT !["msg"] = "dc_get"] /\ Locals("msg", reg["msg"].fd, cur)
            /\ connections[cur] = NoFd /\ UNCHANGED netState
        BY <2>3 DEF AnswerFails, Goto, netState, tableVars, runVars
      <3>2. pc'["msg"] = "dc_get" /\ pc'["net"] = pc["net"] BY <1>t, <3>1, MsgGoes
      <3>3. reg'["msg"].id = cur /\ reg'["net"] = reg["net"] BY <1>t, <3>1, LocalsSet
      <3> QED BY <3>1, <3>2, <3>3, CloserMsgSteps
    <2>4. CASE UNCHANGED msgVars /\ DisconnectGet("msg", back)
      <3>1. pc["msg"] = "dc_get" /\ UNCHANGED netState
        BY <2>4 DEF DisconnectGet, netState, tableVars, runVars
      <3>2. connections[reg["msg"].id] = NoFd BY <3>1 DEF CloserInv, OneCloser
      <3>3. pc' = [pc EXCEPT !["msg"] = back] /\ reg' = reg BY <2>4, <3>2 DEF DisconnectGet
      <3>4. pc'["msg"] = back /\ pc'["net"] = pc["net"] BY <1>t, <3>3, MsgGoes
      <3>5. back \in {"data", "events"} BY DEF TypeOK, LoopTypeOK
      <3> QED BY <3>1, <3>3, <3>4, <3>5, CloserMsgSteps
    <2>5. /\ ~(\E f \in Fd : Dial(f)) /\ ~Watch /\ ~Register /\ ~CreateConnection("msg", "watch")
          /\ ~DisconnectClose("msg") /\ ~DisconnectDelete("msg") /\ ~SignalDown("msg")
      BY <1>o DEF Dial, Watch, Register, CreateConnection, DisconnectClose, DisconnectDelete,
                  SignalDown
    <2> QED BY <1>3, <2>1, <2>2, <2>3, <2>4, <2>5 DEF MsgThread
  <1>4. CASE UNCHANGED vars
    <2>1. UNCHANGED <<netState, pc, reg>>
      BY <1>4 DEF vars, netVars, netState, tableVars, threadVars, runVars
    <2> QED BY <2>1, CloserMsgSteps DEF CloserInv, OneCloser
  <1> QED BY <1>1, <1>2, <1>3, <1>4 DEF Next

\* A server that opens no connections itself and whose answers are written whole:
\* the two tables are inverse of each other and list open descriptors only, what
\* deleteConnection is asked to delete exists, and the net thread closes only
\* sockets whose peer is gone, with descriptors reused between any two steps.
THEOREM ServerTablesAreSound == ~Dials /\ ~WriteFails => (Spec => []TablesAreSound)
  <1> SUFFICES ASSUME ~Dials, ~WriteFails PROVE Spec => []TablesAreSound OBVIOUS
  <1>1. Init => CloserInv BY CloserInit
  <1>2. TypeOK /\ ServerInv /\ CloserInv /\ [Next]_vars => CloserInv' BY CloserStep
  <1>3. TypeOK /\ CloserInv => TablesAreSound
    <2> SUFFICES ASSUME TypeOK, CloserInv PROVE TablesAreSound OBVIOUS
    <2>1. TablesAgree
      <3>1. ASSUME NEW id \in Ids, connections[id] # NoFd, sock[connections[id]] = "free"
            PROVE  \E t \in Thread : pc[t] = "dc_del" /\ reg[t].id = id
        <4>1. connections[id] \in Fd BY <3>1 DEF TypeOK, NetTypeOK, TableTypeOK
        <4>2. fdToId[connections[id]] = id /\ id # NoId
          BY <3>1, NetAssumption DEF CloserInv, TableInverse, Ids, NoId
        <4>3. pc["net"] = "dc_del" /\ reg["net"].id = id
          BY <3>1, <4>1, <4>2 DEF CloserInv, TableInverse
        <4> QED BY <4>3 DEF Thread
      <3> QED BY <3>1 DEF TablesAgree, CloserInv, TableInverse
    <2>2. DeletesWhatExists BY DEF DeletesWhatExists, CloserInv
    <2>3. ClosesOnlyDead BY DEF ClosesOnlyDead, CloserInv, CallHolds
    <2> QED BY <2>1, <2>2, <2>3 DEF TablesAreSound
  <1>4. Spec => [](TypeOK /\ ServerInv) BY ServerAlways
  <1> QED BY <1>1, <1>2, <1>3, <1>4, PTL DEF Spec

(***************************************************************************)
(* A client: the event loop alone hands out ids.                           *)
(***************************************************************************)
\* A connection this process opened is up, or its DOWN will be handled.
Answerable(id) ==
    \/ connections[id] # NoFd
    \/ Has(siglist, id, "DOWN")
    \/ \E t \in Thread : Pending(t, id)

\* The event loop knows each connection it has entered or is about to enter.
DialsFollow ==
    /\ ~accepting /\ pc["net"] \notin {"create", "up"}
    /\ pc["msg"] = "create" => reg["msg"].id = gennb + 1
    /\ rspContexts \subseteq 1 .. gennb
    /\ pc["msg"] = "watch" => reg["msg"].id \notin rspContexts
    /\ pc["msg"] \in {"watch", "register"} => reg["msg"].id \in 1 .. gennb

RspAnswerable ==
    ~sigDropped =>
       /\ \A id \in rspContexts : Answerable(id)
       /\ pc["msg"] \in {"watch", "register"} => Answerable(reg["msg"].id)

ClientInv == DialsFollow /\ RspAnswerable

clientState == <<gennb, connections, siglist, sigDropped, rspContexts>>

\* A step that leaves the connections alone, and begins or ends no call that the
\* invariant speaks of.
LEMMA ClientQuiet ==
    ASSUME TypeOK, ClientInv, UNCHANGED clientState, ~accepting', pc'["net"] \notin {"create", "up"},
           \A t \in Thread : pc[t] = "dc_sig" => pc'[t] = pc[t] /\ reg'[t].id = reg[t].id,
           pc'["msg"] = "create" => reg'["msg"].id = gennb + 1,
           pc'["msg"] \in {"watch", "register"} => pc'["msg"] = pc["msg"] /\ reg'["msg"] = reg["msg"]
    PROVE  ClientInv'
  <1>1. \A id : Answerable(id) => Answerable(id)'
    BY DEF Answerable, Pending, clientState
  <1>2. DialsFollow' BY DEF ClientInv, DialsFollow, clientState
  <1>3. RspAnswerable'
    <2> SUFFICES ASSUME ~sigDropped
                 PROVE  /\ \A id \in rspContexts : Answerable(id)'
                        /\ pc'["msg"] \in {"watch", "register"} => Answerable(reg["msg"].id)'
      BY DEF RspAnswerable, clientState
    <2> QED BY <1>1 DEF ClientInv, RspAnswerable
  <1> QED BY <1>2, <1>3 DEF ClientInv

\* deleteConnection and add_sig(DOWN), by either thread.
LEMMA ClientDisconnects ==
    ASSUME TypeOK, ClientInv, NEW t \in Thread, DisconnectDelete(t) \/ SignalDown(t),
           UNCHANGED msgVars
    PROVE  ClientInv'
  <1> DEFINE i == reg[t].id
  <1>t. Thread = {"net", "msg"} /\ ThreadsOK BY DEF Thread, TypeOK
  <1>0. /\ pc[t] \in {"dc_del", "dc_sig"}
        /\ \E p \in {"dc_sig", "sigwrite"} : pc' = [pc EXCEPT ![t] = p]
        /\ UNCHANGED <<gennb, reg, accepting, rspContexts>>
    BY DEF DisconnectDelete, SignalDown, tableVars, runVars, msgVars
  <1>1. i \in Ids /\ connections \in [Ids -> Fd \cup {NoFd}]
    BY <1>0, <1>t, CallTypes DEF TypeOK, NetTypeOK, TableTypeOK, NeedsId
  <1>2. pc'[t] \in {"dc_sig", "sigwrite"} /\ \A u \in Thread \ {t} : pc'[u] = pc[u]
    BY <1>0, <1>t, PcMoves
  <1>3. \A u \in Thread : pc'[u] \notin {"dc_sig", "sigwrite"} => pc'[u] = pc[u]
    BY <1>2
  <1> HIDE DEF i
  <1>4. DialsFollow' BY <1>t, <1>0, <1>3 DEF ClientInv, DialsFollow
  <1>5. ASSUME NEW id \in Ids, Answerable(id), ~sigDropped' PROVE Answerable(id)'
    <2>1. CASE DisconnectDelete(t)
      <3>1. /\ DeleteConnection(i) /\ siglist' = siglist /\ pc' = [pc EXCEPT ![t] = "dc_sig"]
            /\ pc[t] = "dc_del"
        BY <2>1 DEF DisconnectDelete, sigVars, i
      <3>2. pc'[t] = "dc_sig" BY <1>t, <3>1, PcMoves
      <3>3. \A u \in Thread : Pending(u, id) => Pending(u, id)'
        BY <1>0, <1>2, <3>1 DEF Pending
      <3>4. id = i => Pending(t, id)' BY <1>0, <3>2 DEF Pending, i
      <3>5. id # i => connections'[id] = connections[id]
        BY <1>1, <3>1 DEF DeleteConnection
      <3> QED BY <1>5, <3>1, <3>3, <3>4, <3>5 DEF Answerable
    <2>2. CASE SignalDown(t)
      <3>1. /\ AddSig(i, "DOWN") /\ connections' = connections /\ pc[t] = "dc_sig"
        BY <2>2 DEF SignalDown, tableVars, i
      <3>2. SigTypeOK /\ sigDropped \in BOOLEAN BY DEF TypeOK, NetTypeOK, FlagTypeOK
      <3>3. /\ Has(siglist', i, "DOWN")
            /\ \A x, st : Has(siglist, x, st) => Has(siglist', x, st)
        BY <1>1, <1>5, <3>1, <3>2, AddSigHas
      <3>4. \A u \in Thread : Pending(u, id) => id = i \/ Pending(u, id)'
        BY <1>0, <1>2 DEF Pending, i
      <3> QED BY <1>5, <3>1, <3>3, <3>4 DEF Answerable
    <2> QED BY <2>1, <2>2
  <1>6. RspAnswerable'
    <2> SUFFICES ASSUME ~sigDropped'
                 PROVE  /\ \A id \in rspContexts : Answerable(id)'
                        /\ pc'["msg"] \in {"watch", "register"} => Answerable(reg["msg"].id)'
      BY <1>0 DEF RspAnswerable
    <2>1. ~sigDropped BY DEF DisconnectDelete, SignalDown, AddSig, sigVars
    <2>2. \A id \in rspContexts : id \in Ids BY DEF TypeOK, LoopTypeOK
    <2>3. \A id \in rspContexts : Answerable(id)'
      BY <1>5, <2>1, <2>2 DEF ClientInv, RspAnswerable
    <2>4. ASSUME pc'["msg"] \in {"watch", "register"} PROVE Answerable(reg["msg"].id)'
      <3>1. pc["msg"] \in {"watch", "register"} BY <1>t, <1>3, <2>4
      <3>2. reg["msg"].id \in Ids BY <1>t, <3>1, CallTypes DEF NeedsId
      <3>3. Answerable(reg["msg"].id) BY <2>1, <3>1 DEF ClientInv, RspAnswerable
      <3>4. \A id \in Ids : id = reg["msg"].id => Answerable(id)' BY <1>5, <3>3
      <3>5. reg' = reg BY <1>0
      <3> QED BY <3>2, <3>4, <3>5 DEF Answerable
    <2> QED BY <2>3, <2>4
  <1> QED BY <1>4, <1>6 DEF ClientInv

\* connect: createConnection, the epoll ADD that may fail, and the entry in
\* rspContexts.
LEMMA ClientConnects ==
    ASSUME TypeOK, ClientInv,
           (CreateConnection("msg", "watch") /\ UNCHANGED msgVars) \/ Watch \/ Register
    PROVE  ClientInv'
  <1> DEFINE i == reg["msg"].id
  <1>t. Thread = {"net", "msg"} /\ "msg" \in Thread /\ ThreadsOK BY DEF Thread, TypeOK
  <1>0. pc["msg"] \in {"create", "watch", "register"} /\ UNCHANGED <<siglist, sigDropped, reg, accepting>>
    BY DEF CreateConnection, Watch, Register, sigVars, runVars
  <1>1. /\ i \in Ids /\ connections \in [Ids -> Fd \cup {NoFd}] /\ gennb \in Nat
        /\ rspContexts \subseteq Ids /\ \A id \in Ids : id \in Nat
    BY <1>0, <1>t, CallTypes, NetAssumption
       DEF TypeOK, NetTypeOK, TableTypeOK, LoopTypeOK, NeedsId, Ids
  <1>2. CASE CreateConnection("msg", "watch") /\ UNCHANGED msgVars
    <2>1. /\ pc["msg"] = "create" /\ pc' = [pc EXCEPT !["msg"] = "watch"] /\ gennb' = i
          /\ connections' = [connections EXCEPT ![i] = IF @ = NoFd THEN reg["msg"].fd ELSE @]
          /\ rspContexts' = rspContexts
      BY <1>2 DEF CreateConnection, msgVars
    <2>2. i = gennb + 1 /\ i \notin rspContexts BY <1>1, <2>1 DEF ClientInv, DialsFollow
    <2>3. pc'["msg"] = "watch" /\ pc'["net"] = pc["net"] BY <1>t, <2>1, MsgGoes
    <2>4. reg["msg"].fd # NoFd BY <1>t, <2>1 DEF ThreadsOK, NeedsFd
    <2>5. \A id \in Ids : connections[id] # NoFd \/ id = i => connections'[id] # NoFd
      BY <1>1, <2>1, <2>4
    <2>6. DialsFollow' BY <1>0, <1>1, <2>1, <2>2, <2>3 DEF ClientInv, DialsFollow
    <2>7. \A u \in Thread, id \in Ids : Pending(u, id) => Pending(u, id)'
      BY <1>t, <1>0, <2>1, <2>3 DEF Pending
    <2>8. \A id \in Ids : Answerable(id) \/ id = i => Answerable(id)'
      BY <1>0, <2>5, <2>7 DEF Answerable
    <2>9. Answerable(i)' BY <1>0, <1>1, <2>5 DEF Answerable
    <2>10. RspAnswerable' BY <1>0, <1>1, <2>1, <2>8, <2>9 DEF ClientInv, RspAnswerable
    <2> QED BY <2>6, <2>10 DEF ClientInv
  <1>3. CASE Watch /\ sock[reg["msg"].fd] # "free"
    <2>1. /\ pc["msg"] = "watch" /\ pc' = [pc EXCEPT !["msg"] = "register"]
          /\ UNCHANGED <<gennb, connections, rspContexts>>
      BY <1>3 DEF Watch, Goto, tableVars, msgVars
    <2>2. pc'["msg"] = "register" /\ pc'["net"] = pc["net"] BY <1>t, <2>1, MsgGoes
    <2>3. DialsFollow' BY <1>0, <2>1, <2>2 DEF ClientInv, DialsFollow
    <2>4. \A u \in Thread, id \in Ids : Pending(u, id) => Pending(u, id)'
      BY <1>t, <1>0, <2>1, <2>2 DEF Pending
    <2>5. \A id \in Ids : Answerable(id) => Answerable(id)' BY <1>0, <2>1, <2>4 DEF Answerable
    <2>6. ~sigDropped => Answerable(i)'
      <3> SUFFICES ASSUME ~sigDropped PROVE Answerable(i)' OBVIOUS
      <3>1. Answerable(i) BY <2>1 DEF ClientInv, RspAnswerable
      <3> QED BY <1>t, <1>0, <2>1, <2>2, <3>1 DEF Answerable, Pending
    <2>7. RspAnswerable' BY <1>0, <1>1, <2>1, <2>5, <2>6 DEF ClientInv, RspAnswerable
    <2> QED BY <2>3, <2>7 DEF ClientInv
  <1>4. CASE Watch /\ sock[reg["msg"].fd] = "free"
    <2>1. /\ pc["msg"] = "watch" /\ pc' = [pc EXCEPT !["msg"] = "run"]
          /\ DeleteConnection(i) /\ UNCHANGED <<gennb, rspContexts>>
      BY <1>4 DEF Watch, Goto, msgVars
    <2>2. pc'["msg"] = "run" /\ pc'["net"] = pc["net"] BY <1>t, <2>1, MsgGoes
    <2>3. i \notin rspContexts BY <2>1 DEF ClientInv, DialsFollow
    <2>4. \A id \in Ids : id # i => connections'[id] = connections[id]
      BY <1>1, <2>1 DEF DeleteConnection
    <2>5. DialsFollow' BY <1>0, <2>1, <2>2 DEF ClientInv, DialsFollow
    <2>6. \A u \in Thread, id \in Ids : Pending(u, id) => Pending(u, id)'
      BY <1>t, <1>0, <2>1, <2>2 DEF Pending
    <2>7. \A id \in rspContexts : Answerable(id) => Answerable(id)'
      BY <1>0, <1>1, <2>3, <2>4, <2>6 DEF Answerable
    <2>8. RspAnswerable' BY <1>0, <2>1, <2>2, <2>7 DEF ClientInv, RspAnswerable
    <2> QED BY <2>5, <2>8 DEF ClientInv
  <1>5. CASE Register
    <2>1. /\ pc["msg"] = "register" /\ pc' = [pc EXCEPT !["msg"] = "run"]
          /\ UNCHANGED <<gennb, connections>> /\ rspContexts' = rspContexts \cup {i}
      BY <1>5 DEF Register, Goto, tableVars
    <2>2. pc'["msg"] = "run" /\ pc'["net"] = pc["net"] BY <1>t, <2>1, MsgGoes
    <2>3. DialsFollow' BY <1>0, <2>1, <2>2 DEF ClientInv, DialsFollow
    <2>4. \A u \in Thread, id \in Ids : Pending(u, id) => Pending(u, id)'
      BY <1>t, <1>0, <2>1, <2>2 DEF Pending
    <2>5. \A id \in Ids : Answerable(id) => Answerable(id)' BY <1>0, <2>1, <2>4 DEF Answerable
    <2>6. ~sigDropped => Answerable(i) BY <2>1 DEF ClientInv, RspAnswerable
    <2>7. RspAnswerable'
      BY <1>0, <1>1, <2>1, <2>2, <2>5, <2>6 DEF ClientInv, RspAnswerable
    <2> QED BY <2>3, <2>7 DEF ClientInv
  <1> QED BY <1>2, <1>3, <1>4, <1>5

\* A DOWN takes the entry that it is about, and no other loses its own.
LEMMA ClientHandles ==
    ASSUME TypeOK, ClientInv, HandleSig
    PROVE  ClientInv'
  <1> DEFINE i == Head(siglist)[1]
             s == Head(siglist)[2]
  <1>0. /\ pc["msg"] = "sig" /\ siglist # << >> /\ siglist' = Tail(siglist)
        /\ UNCHANGED <<gennb, connections, sigDropped, pc, reg, accepting>>
        /\ \/ s = "UP" /\ rspContexts' = rspContexts
           \/ s = "DOWN" /\ rspContexts' = rspContexts \ {i}
    BY DEF HandleSig, tableVars, threadVars, runVars
  <1>1. siglist \in Seq(Signal) BY DEF TypeOK, NetTypeOK, SigTypeOK
  <1>2. \A id, st : Has(siglist, id, st) => Has(siglist', id, st) \/ Head(siglist) = <<id, st>>
    BY <1>0, <1>1, TailHas
  <1>3. \A id, st : Head(siglist) = <<id, st>> => id = i /\ st = s OBVIOUS
  <1> HIDE DEF i, s
  <1>4. DialsFollow' BY <1>0 DEF ClientInv, DialsFollow
  <1>5. ASSUME ~sigDropped, NEW id \in rspContexts' PROVE Answerable(id)'
    <2>1. Answerable(id) BY <1>0, <1>5 DEF ClientInv, RspAnswerable
    <2>2. Has(siglist, id, "DOWN") => Has(siglist', id, "DOWN") BY <1>0, <1>2, <1>3, <1>5
    <2> QED BY <1>0, <2>1, <2>2 DEF Answerable, Pending
  <1>6. RspAnswerable' BY <1>0, <1>5 DEF RspAnswerable
  <1> QED BY <1>4, <1>6 DEF ClientInv

LEMMA ClientStep ==
    ASSUME ~Listens, TypeOK, ClientInv, [Next]_vars
    PROVE  ClientInv'
  <1>t. Thread = {"net", "msg"} /\ ThreadsOK BY DEF Thread, TypeOK
  <1>a. ~accepting /\ pc["net"] \notin {"create", "up"} BY DEF ClientInv, DialsFollow
  <1>b. back \in {"data", "events"} BY DEF TypeOK, LoopTypeOK
  <1>1. CASE Peers /\ UNCHANGED msgVars
    <2>1. UNCHANGED <<clientState, pc, reg, accepting>>
      BY <1>1 DEF Peers, PeerSend, PeerClose, clientState, tableVars, sigVars, threadVars, runVars,
                  msgVars
    <2> QED BY <1>a, <2>1, ClientQuiet DEF ClientInv, DialsFollow
  <1>2. CASE NetThread /\ UNCHANGED msgVars
    <2>1. CASE EpollWait \/ Gc
      <3>1. UNCHANGED <<clientState, pc, reg>>
        BY <1>2, <2>1
           DEF EpollWait, Gc, clientState, tableVars, sigVars, threadVars, runVars, msgVars
      <3>2. ~accepting'
        <4>1. CASE EpollWait
          <5>1. accepting' = FALSE \/ accepting' = (Listens /\ gennb < MaxId) BY <4>1 DEF EpollWait
          <5> QED BY <5>1, Zenon
        <4>2. CASE Gc BY <1>a, <4>2 DEF Gc, threadVars, runVars
        <4> QED BY <2>1, <4>1, <4>2
      <3> QED BY <3>2, <1>a, <3>1, ClientQuiet DEF ClientInv, DialsFollow
    <2>2. CASE \/ (\E f \in Fd : HandleEvent(f)) \/ ReceiveMessage \/ WriteData \/ ReadNothing
               \/ WriteSig("net", "poll") \/ DisconnectGet("net", "poll") \/ DisconnectClose("net")
      <3>1. /\ pc["net"] # "dc_sig" /\ UNCHANGED <<clientState, accepting>>
            /\ \E p \in {"read", "datawrite", "poll", "dc_get", "dc_close", "dc_del"} :
                  pc' = [pc EXCEPT !["net"] = p]
        BY <1>2, <2>2
           DEF HandleEvent, ReceiveMessage, WriteData, ReadNothing, WriteSig, DisconnectGet,
               DisconnectClose, clientState, tableVars, sigVars, runVars, msgVars
      <3>2. /\ pc'["net"] \in {"read", "datawrite", "poll", "dc_get", "dc_close", "dc_del"}
            /\ pc'["msg"] = pc["msg"]
        BY <1>t, <3>1, NetGoes
      <3>3. reg'["msg"] = reg["msg"]
        <4>1. reg' = reg \/ \E f, i : Locals("net", f, i)
          BY <2>2 DEF HandleEvent, ReceiveMessage, WriteData, ReadNothing, WriteSig, DisconnectGet,
                      DisconnectClose
        <4> QED BY <1>t, <4>1, LocalsSet
      <3> QED BY <1>a, <1>t, <3>1, <3>2, <3>3, ClientQuiet DEF ClientInv, DialsFollow
    <2>3. CASE DisconnectDelete("net") \/ SignalDown("net")
      BY <1>2, <1>t, <2>3, ClientDisconnects
    <2>4. /\ ~(\E f \in Fd : Accept(f)) /\ ~AcceptDone /\ ~SignalUp
          /\ ~CreateConnection("net", "up")
      BY <1>a DEF Accept, AcceptDone, SignalUp, CreateConnection
    <2> QED BY <1>2, <2>1, <2>2, <2>3, <2>4 DEF NetThread
  <1>3. CASE MsgThread
    <2>1. CASE \/ Poll \/ ReadSigCount \/ SigsDone \/ ReadDataCount \/ HandleData \/ DataDone
               \/ HandleLocal \/ EventsDone \/ RunDone \/ AnswerFails
               \/ (UNCHANGED msgVars /\ (\/ WriteSig("msg", back) \/ DisconnectGet("msg", back)
                                         \/ DisconnectClose("msg")))
      <3>1. /\ pc["msg"] # "dc_sig" /\ UNCHANGED <<clientState, accepting>>
            /\ \E p \in {"sigread", "sig", "events", "data", "run", "poll", "dc_get", "dc_close",
                         "dc_del"} : pc' = [pc EXCEPT !["msg"] = p]
        BY <1>b, <2>1
           DEF Poll, ReadSigCount, SigsDone, ReadDataCount, HandleData, DataDone, HandleLocal,
               EventsDone, RunDone, AnswerFails, WriteSig, DisconnectGet, DisconnectClose, Goto,
               clientState, tableVars, sigVars, runVars, ctxVars, msgVars
      <3>2. /\ pc'["msg"] \in {"sigread", "sig", "events", "data", "run", "poll", "dc_get",
                               "dc_close", "dc_del"}
            /\ pc'["net"] = pc["net"]
        BY <1>t, <3>1, MsgGoes
      <3>3. reg'["net"] = reg["net"]
        <4>1. reg' = reg \/ \E f, i : Locals("msg", f, i)
          BY <2>1 DEF Poll, ReadSigCount, SigsDone, ReadDataCount, HandleData, DataDone, HandleLocal,
               EventsDone, RunDone, AnswerFails, WriteSig, DisconnectGet, DisconnectClose
        <4> QED BY <1>t, <4>1, LocalsSet
      <3> QED BY <1>a, <1>t, <3>1, <3>2, <3>3, ClientQuiet
    <2>2. CASE \E f \in Fd : Dial(f)
      <3>1. PICK f \in Fd : Dial(f) BY <2>2
      <3>2. /\ pc["msg"] = "run" /\ pc' = [pc EXCEPT !["msg"] = "create"]
            /\ Locals("msg", f, gennb + 1) /\ UNCHANGED <<clientState, accepting>>
        BY <3>1 DEF Dial, Goto, clientState, tableVars, sigVars, runVars, msgVars
      <3>3. pc'["msg"] = "create" /\ pc'["net"] = pc["net"] BY <1>t, <3>2, MsgGoes
      <3>4. reg'["msg"].id = gennb + 1 /\ reg'["net"] = reg["net"] BY <1>t, <3>2, LocalsSet
      <3> QED BY <1>a, <1>t, <3>2, <3>3, <3>4, ClientQuiet
    <2>3. CASE (CreateConnection("msg", "watch") /\ UNCHANGED msgVars) \/ Watch \/ Register
      BY <2>3, ClientConnects
    <2>4. CASE UNCHANGED msgVars /\ (DisconnectDelete("msg") \/ SignalDown("msg"))
      BY <1>t, <2>4, ClientDisconnects
    <2>5. CASE HandleSig BY <2>5, ClientHandles
    <2> QED BY <1>3, <2>1, <2>2, <2>3, <2>4, <2>5 DEF MsgThread
  <1>4. CASE UNCHANGED vars
    <2>1. UNCHANGED <<clientState, pc, reg, accepting>>
      BY <1>4 DEF vars, netVars, clientState, tableVars, sigVars, threadVars, runVars, msgVars,
                  ctxVars
    <2> QED BY <1>a, <2>1, ClientQuiet DEF ClientInv, DialsFollow
  <1> QED BY <1>1, <1>2, <1>3, <1>4 DEF Next

\* A client, which listens on no port: as long as the signalling list has not
\* overflowed, an entry of rspContexts has its connection or the DOWN that will
\* drop it, also when the connection goes down, and its DOWN is queued, before
\* connect has entered it.
THEOREM ClientRspHasLink == ~Listens => (Spec => []RspHasLink)
  <1> SUFFICES ASSUME ~Listens PROVE Spec => []RspHasLink OBVIOUS
  <1>1. Init => ClientInv
    <2> SUFFICES ASSUME Init PROVE ClientInv OBVIOUS
    <2>1. /\ accepting = FALSE /\ pc["net"] = "poll" /\ pc["msg"] = "poll" /\ rspContexts = {}
      BY DEF Init, NetInit, Thread
    <2> QED BY <2>1 DEF ClientInv, DialsFollow, RspAnswerable
  <1>2. TypeOK /\ ClientInv /\ [Next]_vars => ClientInv' BY ClientStep
  <1>3. ClientInv => RspHasLink
    BY DEF ClientInv, RspAnswerable, Answerable, RspHasLink, Signalled, Has
  <1>4. Spec => []TypeOK BY TypeCorrect
  <1> QED BY <1>1, <1>2, <1>3, <1>4, PTL DEF Spec
=============================================================================
