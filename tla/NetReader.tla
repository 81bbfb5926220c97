----------------------------- MODULE NetReader -----------------------------
(***************************************************************************)
(* How the net thread puts messages together from TCP streams: the data    *)
(* branch of NetHandler::run with NetHandler::read and BufferMgt::bufmap.  *)
(*                                                                         *)
(* A stream is a sequence of 8 byte words.  A message is the magic number, *)
(* the length of the message in words, these two included, and the body.   *)
(* The sockets are watched edge triggered: a descriptor is reported once   *)
(* for whatever arrived since it was last reported.                        *)
(***************************************************************************)
EXTENDS Naturals, Sequences

CONSTANTS
    Peer,      \* the connections, all accepted
    Magic,     \* Global::MAGICNB
    Stream     \* peer -> the words it sends

HeaderLen == 2 \* words; the "16" of NetHandler::run

ASSUME ReaderAssumption ==
    /\ Magic \notin Nat
    /\ Stream \in [Peer -> Seq(Nat \cup {Magic})]
    \* every message has a body: an encoder writes type, reqid and sourceid
    /\ \A p \in Peer : \A k \in 1 .. Len(Stream[p]) - 1 :
          Stream[p][k] = Magic => Stream[p][k + 1] \in Nat /\ Stream[p][k + 1] > HeaderLen

VARIABLES
    arrived,   \* peer -> words of its stream in the socket, or already read
    taken,     \* peer -> words read
    closed,    \* peers that have closed their end
    edge,      \* peers with an edge epoll has not reported yet
    up,        \* peers that this side has not disconnected
    bufmap,    \* peer -> the buffer being assembled, a sequence of at most one
    queued,    \* peer -> messages handed over: <<first, last>> word of the body
    reading,   \* the peer whose event is handled: a set of at most one
    firstRead  \* the local 'first_read' of NetHandler::run

vars == <<arrived, taken, closed, edge, up, bufmap, queued, reading, firstRead>>
peerVars == <<arrived, closed>>

TypeOK ==
    /\ arrived \in [Peer -> Nat] /\ taken \in [Peer -> Nat]
    /\ \A p \in Peer : taken[p] <= arrived[p] /\ arrived[p] <= Len(Stream[p])
    /\ closed \subseteq Peer /\ edge \subseteq Peer /\ up \subseteq Peer
    /\ \A p \in Peer : bufmap[p] = << >>
                       \/ bufmap[p][1].len > bufmap[p][1].offset
    /\ reading \in {{}} \cup {{p} : p \in Peer}
    /\ firstRead \in BOOLEAN

Init ==
    /\ arrived = [p \in Peer |-> 0] /\ taken = [p \in Peer |-> 0]
    /\ closed = {} /\ edge = {} /\ up = Peer
    /\ bufmap = [p \in Peer |-> << >>]
    /\ queued = [p \in Peer |-> << >>]
    /\ reading = {}
    /\ firstRead = TRUE

Avail(p) == arrived[p] - taken[p]
NextWord(p) == Stream[p][taken[p] + 1]

(***************************************************************************)
(* The peers.                                                              *)
(***************************************************************************)
Arrive(p) ==
    /\ p \in up \ closed
    /\ \E n \in arrived[p] + 1 .. Len(Stream[p]) : arrived' = [arrived EXCEPT ![p] = n]
    /\ edge' = edge \cup {p}
    /\ UNCHANGED <<taken, closed, up, bufmap, queued, reading, firstRead>>

Close(p) ==
    /\ p \in up \ closed
    /\ closed' = closed \cup {p}
    /\ edge' = edge \cup {p}
    /\ UNCHANGED <<arrived, taken, up, bufmap, queued, reading, firstRead>>

(***************************************************************************)
(* The net thread.                                                         *)
(***************************************************************************)
EpollWait(p) ==
    /\ reading = {} /\ p \in edge \cap up /\ (Avail(p) > 0 \/ p \in closed)
    /\ reading' = {p}
    /\ firstRead' = TRUE
    /\ edge' = edge \ {p}
    /\ UNCHANGED <<peerVars, taken, up, bufmap, queued>>

\* disconnect, with removeAllBuffersForId
Disconnect(p) ==
    /\ up' = up \ {p}
    /\ bufmap' = [bufmap EXCEPT ![p] = << >>]
    /\ edge' = edge \ {p}

\* Mutant: the length is taken to be that of the body.
ReadHeaderLong(p) ==
    /\ p \in reading /\ bufmap[p] = << >> /\ Avail(p) >= HeaderLen /\ NextWord(p) = Magic
    /\ taken' = [taken EXCEPT ![p] = @ + HeaderLen]
    /\ bufmap' = [bufmap EXCEPT ![p] = <<[len |-> Stream[p][taken[p] + 2], offset |-> 0]>>]
    /\ firstRead' = FALSE
    /\ UNCHANGED <<peerVars, edge, up, queued, reading>>

\* No buffer yet and a whole header: allocate a buffer for the body.
ReadHeader(p) ==
    /\ p \in reading /\ bufmap[p] = << >> /\ Avail(p) >= HeaderLen /\ NextWord(p) = Magic
    /\ taken' = [taken EXCEPT ![p] = @ + HeaderLen]
    /\ bufmap' = [bufmap EXCEPT ![p] =
                    <<[len |-> Stream[p][taken[p] + 2] - HeaderLen, offset |-> 0]>>]
    /\ firstRead' = FALSE
    /\ UNCHANGED <<peerVars, edge, up, queued, reading>>

\* Not the magic number: the word is lost and the loop is left.
ReadMalformed(p) ==
    /\ p \in reading /\ bufmap[p] = << >> /\ Avail(p) >= HeaderLen /\ NextWord(p) # Magic
    /\ taken' = [taken EXCEPT ![p] = @ + 1]
    /\ firstRead' = FALSE
    /\ reading' = {}
    /\ UNCHANGED <<peerVars, edge, up, bufmap, queued>>

\* Less than a header: wait for more.  An event without any data means that
\* the connection is down.
ReadShort(p) ==
    /\ p \in reading /\ bufmap[p] = << >> /\ Avail(p) < HeaderLen
    /\ IF firstRead /\ Avail(p) = 0 THEN Disconnect(p) ELSE UNCHANGED <<up, bufmap, edge>>
    /\ reading' = {}
    /\ UNCHANGED <<peerVars, taken, queued, firstRead>>

\* Mutants: the buffer of a completed message is not given up; the loop is
\* left when a message is not complete yet.
ReadBodyKeeps(p) ==
    /\ p \in reading /\ bufmap[p] # << >> /\ Avail(p) > 0
    /\ LET b == bufmap[p][1]
           n == IF Avail(p) < b.len - b.offset THEN Avail(p) ELSE b.len - b.offset
       IN  /\ taken' = [taken EXCEPT ![p] = @ + n]
           /\ bufmap' = [bufmap EXCEPT ![p][1].offset = @ + n]
           /\ queued' = IF b.offset + n < b.len THEN queued
                        ELSE [queued EXCEPT ![p] =
                                Append(@, <<taken[p] + n - b.len + 1, taken[p] + n>>)]
    /\ UNCHANGED <<peerVars, edge, up, reading, firstRead>>
ReadBodyReturns(p) ==
    /\ p \in reading /\ bufmap[p] # << >> /\ Avail(p) > 0
    /\ LET b == bufmap[p][1]
           n == IF Avail(p) < b.len - b.offset THEN Avail(p) ELSE b.len - b.offset
       IN  /\ taken' = [taken EXCEPT ![p] = @ + n]
           /\ IF b.offset + n = b.len
              THEN /\ queued' = [queued EXCEPT ![p] =
                          Append(@, <<taken[p] + n - b.len + 1, taken[p] + n>>)]
                   /\ bufmap' = [bufmap EXCEPT ![p] = << >>]
                   /\ UNCHANGED reading
              ELSE /\ bufmap' = [bufmap EXCEPT ![p][1].offset = @ + n]
                   /\ reading' = {}
                   /\ UNCHANGED queued
    /\ UNCHANGED <<peerVars, edge, up, firstRead>>

\* Mutant: one message is read per event, as if the sockets were watched
\* level triggered.
ReadBodyOnce(p) ==
    /\ p \in reading /\ bufmap[p] # << >> /\ Avail(p) > 0
    /\ LET b == bufmap[p][1]
           n == IF Avail(p) < b.len - b.offset THEN Avail(p) ELSE b.len - b.offset
       IN  /\ taken' = [taken EXCEPT ![p] = @ + n]
           /\ IF b.offset + n = b.len
              THEN /\ queued' = [queued EXCEPT ![p] =
                          Append(@, <<taken[p] + n - b.len + 1, taken[p] + n>>)]
                   /\ bufmap' = [bufmap EXCEPT ![p] = << >>]
                   /\ reading' = {}
              ELSE /\ bufmap' = [bufmap EXCEPT ![p][1].offset = @ + n]
                   /\ UNCHANGED <<queued, reading>>
    /\ UNCHANGED <<peerVars, edge, up, firstRead>>

\* Continue the reassembly; a complete message goes to the ready list.
ReadBody(p) ==
    /\ p \in reading /\ bufmap[p] # << >> /\ Avail(p) > 0
    /\ LET b == bufmap[p][1]
           n == IF Avail(p) < b.len - b.offset THEN Avail(p) ELSE b.len - b.offset
       IN  /\ taken' = [taken EXCEPT ![p] = @ + n]
           /\ IF b.offset + n = b.len
              THEN /\ queued' = [queued EXCEPT ![p] =
                          Append(@, <<taken[p] + n - b.len + 1, taken[p] + n>>)]
                   /\ bufmap' = [bufmap EXCEPT ![p] = << >>]
              ELSE /\ bufmap' = [bufmap EXCEPT ![p][1].offset = @ + n]
                   /\ UNCHANGED queued
    /\ UNCHANGED <<peerVars, edge, up, reading, firstRead>>

\* recv returns 0: disconnect; the next turn finds the descriptor closed.
\* (While the socket is empty and open recv returns -1 and the loop goes on:
\* 'if (nread <= 0) continue' sees its own nread, 'while (nread >= 0)' the
\* outer one, which stays 0.  The thread spins and no step is possible.)
ReadEof(p) ==
    /\ p \in reading /\ bufmap[p] # << >> /\ Avail(p) = 0 /\ p \in closed
    /\ Disconnect(p)
    /\ reading' = {}
    /\ UNCHANGED <<peerVars, taken, queued, firstRead>>

NetThread ==
    \E p \in Peer : \/ EpollWait(p) \/ ReadHeader(p) \/ ReadMalformed(p)
                    \/ ReadShort(p) \/ ReadBody(p) \/ ReadEof(p)

Next == NetThread \/ \E p \in Peer : Arrive(p) \/ Close(p)

Spec == Init /\ [][Next]_vars

(***************************************************************************)
(* Fairness: the net thread runs; and, where said, a peer that has begun   *)
(* to send its stream goes on until it is sent or closed.                  *)
(***************************************************************************)
FairSpec == Spec /\ WF_vars(NetThread)
PeersSend == \A p \in Peer : WF_vars(Arrive(p))
SendSpec == FairSpec /\ PeersSend

(***************************************************************************)
(* Properties.                                                             *)
(***************************************************************************)
\* The messages of a stream, as the interval of their bodies: found by reading
\* it from the beginning, and word by word where there is no magic number.
Messages(s) ==
    LET from[k \in 1 .. Len(s) + 1] ==
          IF k >= Len(s) THEN << >>
          ELSE IF s[k] # Magic THEN from[k + 1]
          ELSE IF k + s[k + 1] - 1 > Len(s) THEN << >>
          ELSE <<<<k + HeaderLen, k + s[k + 1] - 1>>>> \o from[k + s[k + 1]]
    IN  from[1]

\* What is handed to the interpreter is the messages of the stream, whole and
\* in order, however the stream was cut into segments.
Framing ==
    \A p \in Peer : LET m == Messages(Stream[p])
                    IN  /\ Len(queued[p]) <= Len(m)
                        /\ queued[p] = SubSeq(m, 1, Len(queued[p]))

\* A partially assembled buffer exists only while its own event is handled:
\* bufmap is empty whenever epoll_wait, and so BufferMgt::gc, is reached.
NoPartialAtPoll == \A p \in Peer : bufmap[p] # << >> => p \in reading

\* Nothing but messages comes before the end of the k-th one.
Clean(m, k) ==
    \A j \in 1 .. k : m[j][1] = HeaderLen + 1 + (IF j = 1 THEN 0 ELSE m[j - 1][2])

\* Every message that has arrived is handed over, unless the peer is gone or
\* has sent something else before.
Delivered ==
    \A p \in Peer : LET m == Messages(Stream[p]) IN
       \A k \in 1 .. Len(m) :
          Clean(m, k) /\ arrived[p] >= m[k][2] ~> (Len(queued[p]) >= k \/ p \notin up)

\* However TCP cuts the streams, what NetHandler::read has handed over is a prefix of the
\* messages that were sent, and nothing half assembled is left when it polls.
ReassemblyIsRight == TypeOK /\ Framing /\ NoPartialAtPoll
=============================================================================
