------------------------------ MODULE NetClient -----------------------------
(***************************************************************************)
(* The client library (net_client.cpp): one request at a time, and run(),  *)
(* which waits for its answer.                                             *)
(*                                                                         *)
(* The network thread queues the chunks of the answer and writes to an     *)
(* eventfd.  run() reads the eventfd, which resets it, and then takes as   *)
(* many chunks as read() returned: the eight bytes of its counter, whatever*)
(* the counter says.  A chunk is a position in the answer to a request;    *)
(* one that is bad makes the decoder throw, which run() swallows.          *)
(***************************************************************************)
EXTENDS Naturals, Sequences

CONSTANTS MaxRequests, \* requests of a client
          MaxChunks,   \* chunks of an answer
          Batch        \* what read() of the eventfd returns: 8

ASSUME ClientAssumption ==
  /\ MaxRequests \in Nat /\ MaxChunks \in Nat \ {0} /\ Batch \in Nat \ {0}

VARIABLES pc,       \* "off", "idle", "poll" or "take" in run(), "failed"
          link,     \* the connection is up
          reqs,     \* requests sent
          answer,   \* chunks of the answer the server has still to send
          queue,    \* chunks received
          event,    \* the eventfd of the data is not zero
          signal,   \* that of the signals
          left,     \* chunks this round may still take
          rsp,      \* the response state: its request, what was decoded, whether it is complete
          burst,    \* a round began with more chunks than it may take
          garbled   \* a chunk of the answer made the decoder throw

cvars == <<pc, link, reqs, answer, queue, event, signal, left, rsp, burst, garbled>>

RspState(r) == [req |-> r, got |-> <<>>, state |-> "RSP_IDLE"]
Chunk(r, i, n, bad) == [req |-> r, i |-> i, last |-> i = n, bad |-> bad]

ClientOff ==
  /\ link = FALSE /\ reqs = 0 /\ answer = <<>> /\ queue = <<>> /\ event = FALSE
  /\ signal = FALSE /\ left = 0 /\ rsp = RspState(0) /\ burst = FALSE /\ garbled = FALSE
ClientInit == pc = "off" /\ ClientOff

connect == /\ pc = "off" /\ pc' = "idle" /\ link' = TRUE
           /\ UNCHANGED <<reqs, answer, queue, event, signal, left, rsp, burst, garbled>>

\* Mutant: the response state of the last request stays.
NewRspKept(r) == [rsp EXCEPT !.req = r, !.state = "RSP_IDLE"]

NewRsp(r) == RspState(r)

\* The server answers with some number of chunks; one of them may be bad.
sendReq ==
  /\ pc = "idle" /\ reqs < MaxRequests
  /\ reqs' = reqs + 1 /\ rsp' = NewRsp(reqs + 1)
  /\ IF link
     THEN /\ pc' = "poll"
          /\ \E n \in 1 .. MaxChunks : \E b \in 0 .. n :
               answer' = [i \in 1 .. n |-> Chunk(reqs + 1, i, n, i = b)] \o <<>>
     ELSE pc' = "failed" /\ UNCHANGED answer
  /\ UNCHANGED <<link, queue, event, signal, left, burst, garbled>>

\* The network thread.
Deliver == /\ link /\ answer # <<>>
           /\ answer' = Tail(answer) /\ queue' = Append(queue, Head(answer)) /\ event' = TRUE
           /\ UNCHANGED <<pc, link, reqs, signal, left, rsp, burst, garbled>>
PeerDown == /\ link /\ link' = FALSE /\ signal' = TRUE /\ answer' = <<>>
            /\ UNCHANGED <<pc, reqs, queue, event, left, rsp, burst, garbled>>

\* run(): a signal is read and ignored.
runSignal == /\ pc = "poll" /\ signal /\ signal' = FALSE
             /\ UNCHANGED <<pc, link, reqs, answer, queue, event, left, rsp, burst, garbled>>

\* Mutant: --n > 0.
RoundIsShort == Batch - 1

Round == Batch

runData == /\ pc = "poll" /\ ~signal /\ event
           /\ event' = FALSE /\ left' = Round /\ pc' = "take"
           /\ burst' = (burst \/ Len(queue) > Batch)
           /\ UNCHANGED <<link, reqs, answer, queue, signal, rsp, garbled>>

\* The decoder; `whole` is whether it finds the value complete.  What it makes of the
\* chunks after one it threw on is open.
readRspData(c, whole) ==
  /\ rsp' = [rsp EXCEPT !.got = Append(@, c), !.state = IF whole THEN "RSP_DONE" ELSE "RSP"]
  /\ garbled' = (garbled \/ c.bad)
  /\ pc' = IF whole THEN "idle" ELSE "take"

runTake == /\ pc = "take" /\ left > 0 /\ queue # <<>>
           /\ left' = left - 1 /\ queue' = Tail(queue)
           /\ \E whole \in BOOLEAN :
                /\ ~garbled => whole = (Head(queue).last /\ ~Head(queue).bad)
                /\ Head(queue).bad => ~whole
                /\ readRspData(Head(queue), whole)
           /\ UNCHANGED <<link, reqs, answer, event, signal, burst>>

runAgain == /\ pc = "take" /\ (left = 0 \/ queue = <<>>) /\ pc' = "poll"
            /\ UNCHANGED <<link, reqs, answer, queue, event, signal, left, rsp, burst, garbled>>

ClientNext == connect \/ sendReq \/ Deliver \/ PeerDown \/ runSignal \/ runData \/ runTake \/ runAgain

\* The network thread and the loop of run() go on.
ClientFair == WF_cvars(Deliver) /\ WF_cvars(runSignal \/ runData \/ runTake \/ runAgain)
ClientSpec == ClientInit /\ [][ClientNext]_cvars /\ ClientFair

-----------------------------------------------------------------------------
getVal == rsp.got

\* When run() has returned, getVal is made of the chunks of the answer to the last
\* request, all of them and in their order, though run() compares no request number.
OwnAnswerInOrder ==
  (pc = "idle" /\ reqs > 0 /\ ~garbled) =>
    /\ getVal # <<>> /\ getVal[Len(getVal)].last
    /\ \A i \in DOMAIN getVal : getVal[i].req = reqs /\ getVal[i].i = i

\* run() returns when the connection holds, the decoder takes every chunk, and no round
\* begins with more than eight chunks queued.  (With more, the rest waits for an event
\* that has been consumed.)
RunReturns == (pc \in {"poll", "take"}) ~> (pc = "idle" \/ ~link \/ garbled \/ burst)
=============================================================================
