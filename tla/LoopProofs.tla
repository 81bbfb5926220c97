----------------------------- MODULE LoopProofs ------------------------------
(***************************************************************************)
(* What four loops make of what they go over: the event loop of its timers,*)
(* run() of the client library of the chunks of an answer, the network     *)
(* thread of the words of its streams, and the operators of the elements   *)
(* of arrays.  For any timers, requests, chunks, streams and operands.     *)
(***************************************************************************)
EXTENDS Timers, NetClient, NetReader, Operators, SequenceTheorems, Induction, TLAPS

(***************************************************************************)
(* Timers.  A timer that is gone is silent (GoneIsSilent): the destructor  *)
(* clears what has expired, so that a batch which still has its event finds*)
(* nothing to read.  Its context is not looked at before the read.         *)
(***************************************************************************)
TimerRecord == [life : {"none", "live", "gone"}, armed : BOOLEAN, every : BOOLEAN, due : BOOLEAN,
                ctx : BOOLEAN, waits : BOOLEAN, done_first : BOOLEAN, loop_n : Nat, loop_max : Nat,
                zero : BOOLEAN]

GoneIsSilent(r) == r.life = "gone" => ~r.armed /\ ~r.due
WithinBound(r) == r.loop_max > 0 => r.loop_n <= r.loop_max

TimerOK(r) == r \in TimerRecord /\ GoneIsSilent(r) /\ WithinBound(r)
TimersOK(m) == DOMAIN m = Timer /\ \A t \in Timer : TimerOK(m[t])

TimersInv == TimersOK(tmr) /\ ~lost

\* Changing one timer.
LEMMA OneTimer ==
    ASSUME NEW m, TimersOK(m), NEW t \in Timer, NEW r, TimerOK(r)
    PROVE  TimersOK([m EXCEPT ![t] = r])
  BY DEF TimersOK

\* What is set for one timer at a time.
LEMMA StopOK ==
    ASSUME NEW m, TimersOK(m), NEW t \in Timer
    PROVE  TimersOK(stop(m, t))
  <1> DEFINE r == [m[t] EXCEPT !.armed = FALSE, !.every = FALSE, !.due = FALSE]
  <1>1. TimerOK(m[t])
    BY DEF TimersOK
  <1>2. TimerOK(r)
    BY <1>1 DEF TimerOK, TimerRecord, GoneIsSilent, WithinBound
  <1>3. stop(m, t) = [m EXCEPT ![t] = r]
    BY DEF stop, TimersOK
  <1> HIDE DEF r
  <1>4. TimersOK([m EXCEPT ![t] = r])
    BY <1>2, OneTimer, Zenon
  <1> QED
    BY <1>3, <1>4

\* The destructor.
LEMMA DestroyedOK ==
    ASSUME NEW m, TimersOK(m), NEW t \in Timer
    PROVE  TimersOK(Destroyed(m, t))
  <1> DEFINE r == [m[t] EXCEPT !.armed = FALSE, !.every = FALSE, !.due = FALSE, !.life = "gone"]
  <1>1. TimerOK(m[t])
    BY DEF TimersOK
  <1>2. TimerOK(r)
    BY <1>1 DEF TimerOK, TimerRecord, GoneIsSilent, WithinBound
  <1>3. Destroyed(m, t) = [m EXCEPT ![t] = r]
    BY DEF Destroyed, stop, TimersOK
  <1> HIDE DEF r
  <1>4. TimersOK([m EXCEPT ![t] = r])
    BY <1>2, OneTimer, Zenon
  <1> QED
    BY <1>3, <1>4

\* What interpretTimer counts: only while the bound is not reached.
LEMMA BegunOK ==
    ASSUME NEW m, TimersOK(m), NEW t \in Timer, ~RanOut(m[t])
    PROVE  TimersOK(Begun(m, t))
  <1> DEFINE first == [m[t] EXCEPT !.done_first = TRUE]
             n     == IF m[t].loop_max = 0 /\ m[t].loop_n = CountTo THEN m[t].loop_n ELSE m[t].loop_n + 1
             next  == [m[t] EXCEPT !.loop_n = n]
  <1>1. TimerOK(m[t])
    BY DEF TimersOK
  <1>2. TimerOK(first)
    BY <1>1 DEF TimerOK, TimerRecord, GoneIsSilent, WithinBound
  <1>3. n \in Nat /\ (m[t].loop_max > 0 => n <= m[t].loop_max)
    BY <1>1 DEF TimerOK, TimerRecord, WithinBound, RanOut
  <1>4. TimerOK(next)
    <2> HIDE DEF n
    <2> QED
      BY <1>1, <1>3 DEF TimerOK, TimerRecord, GoneIsSilent, WithinBound
  <1>5. Begun(m, t) = [m EXCEPT ![t] = first] \/ Begun(m, t) = [m EXCEPT ![t] = next]
    BY DEF Begun, TimersOK
  <1> HIDE DEF first, next
  <1>6. TimersOK([m EXCEPT ![t] = first]) /\ TimersOK([m EXCEPT ![t] = next])
    BY <1>2, <1>4, OneTimer, Zenon
  <1> QED
    BY <1>5, <1>6

\* An evaluation of the code of a timer.
LEMMA EvaluatedOK ==
    ASSUME NEW m, TimersOK(m), NEW t \in Timer, Evaluated(m, t)
    PROVE  TimersOK(tmr')
  <1>1. CASE tmr' = m
    BY <1>1
  <1>2. CASE \E u \in Timer : tmr' = Destroyed(m, u)
    BY <1>2, DestroyedOK
  <1>3. CASE tmr' = [m EXCEPT ![t].waits = TRUE]
    <2> DEFINE r == [m[t] EXCEPT !.waits = TRUE]
    <2>1. TimerOK(m[t])
      BY DEF TimersOK
    <2>2. TimerOK(r)
      BY <2>1 DEF TimerOK, TimerRecord, GoneIsSilent, WithinBound
    <2>3. tmr' = [m EXCEPT ![t] = r]
      BY <1>3
    <2> HIDE DEF r
    <2>4. TimersOK([m EXCEPT ![t] = r])
      BY <2>2, OneTimer, Zenon
    <2> QED
      BY <2>3, <2>4
  <1> QED
    BY <1>1, <1>2, <1>3 DEF Evaluated

\* A timer that is there is not found to be gone, and the counts stay in their bounds.
LEMMA InterpretOK ==
    ASSUME NEW m, TimersOK(m), NEW t \in Timer, m[t].life # "gone", ~lost, interpretTimer(m, t)
    PROVE  TimersInv'
  <1>1. ~lost'
    BY DEF interpretTimer
  <1>2. CASE RanOut(m[t])
    BY <1>1, <1>2, StopOK DEF interpretTimer, TimersInv
  <1>3. CASE ~RanOut(m[t])
    <2>1. Evaluated(Begun(m, t), t)
      BY <1>3 DEF interpretTimer
    <2>2. TimersOK(Begun(m, t))
      BY <1>3, BegunOK
    <2>3. TimersOK(tmr')
      BY <2>1, <2>2, EvaluatedOK, Zenon
    <2> QED
      BY <1>1, <2>3 DEF TimersInv
  <1> QED
    BY <1>2, <1>3

LEMMA TimersNextInv ==
    ASSUME TimersInv, [TimersNext]_tvars
    PROVE  TimersInv'
  <1>0. TimersOK(tmr) /\ ~lost /\ \A t \in Timer : TimerOK(tmr[t])
    BY DEF TimersInv, TimersOK
  <1>1. CASE UNCHANGED <<tmr, lost>>
    BY <1>0, <1>1 DEF TimersInv
  <1>2. ASSUME NEW t \in Timer, Expire(t)
        PROVE  TimersInv'
    <2> DEFINE r == [tmr[t] EXCEPT !.due = TRUE, !.armed = tmr[t].every]
    <2>1. TimerOK(r)
      BY <1>0, <1>2 DEF Expire, TimerOK, TimerRecord, GoneIsSilent, WithinBound
    <2>2. tmr' = [tmr EXCEPT ![t] = r] /\ ~lost'
      BY <1>0, <1>2 DEF Expire
    <2> HIDE DEF r
    <2>3. TimersOK([tmr EXCEPT ![t] = r])
      BY <1>0, <2>1, OneTimer, Zenon
    <2> QED
      BY <2>2, <2>3 DEF TimersInv
  <1>3. CASE make_timer
    <2>1. PICK t \in Timer, n \in LoopMaxs, z \in BOOLEAN :
            interpretTimer(start([tmr EXCEPT ![t] = [NoTimer EXCEPT !.life = "live", !.loop_max = n, !.zero = z,
                                                                     !.ctx = TRUE]], t), t)
      BY <1>3 DEF make_timer
    <2> DEFINE r == [NoTimer EXCEPT !.life = "live", !.loop_max = n, !.zero = z, !.ctx = TRUE,
                                    !.armed = ~z, !.every = ~z]
               m == [tmr EXCEPT ![t] = r]
    <2>2. TimerOK(r) /\ r.life = "live"
      <3>1. ASSUME NEW on \in BOOLEAN, NEW zero \in BOOLEAN, NEW max \in Nat
            PROVE  LET new == [NoTimer EXCEPT !.life = "live", !.loop_max = max, !.zero = zero, !.ctx = TRUE,
                                              !.armed = on, !.every = on]
                   IN  TimerOK(new) /\ new.life = "live"
        <4> DEFINE made == [NoTimer EXCEPT !.life = "live", !.loop_max = max, !.zero = zero]
        <4>1. made \in TimerRecord /\ made.life = "live" /\ made.loop_n = 0
          BY DEF NoTimer, TimerRecord
        <4> DEFINE new == [made EXCEPT !.ctx = TRUE, !.armed = on, !.every = on]
        <4>2. new \in TimerRecord
          <5> HIDE DEF made
          <5> QED
            BY <4>1 DEF TimerRecord
        <4>3. new.life = "live" /\ new.loop_n = 0
          <5> HIDE DEF made
          <5> QED
            BY <4>1 DEF TimerRecord
        <4>4. TimerOK(new)
          <5> HIDE DEF new
          <5> QED
            BY <4>2, <4>3 DEF TimerOK, GoneIsSilent, WithinBound, TimerRecord
        <4> QED
          BY <4>3, <4>4
      <3>2. n \in Nat /\ z \in BOOLEAN /\ (~z) \in BOOLEAN
        BY TimersAssumption
      <3> QED
        BY <3>1, <3>2, Zenon
    <2>3. interpretTimer(m, t)
      BY <1>0, <2>1 DEF start, NoTimer, TimersOK
    <2>4. m[t].life = "live"
      BY <1>0, <2>2 DEF TimersOK
    <2> HIDE DEF r
    <2>5. TimersOK(m)
      BY <1>0, <2>2, OneTimer, Zenon
    <2> HIDE DEF m
    <2> QED
      BY <1>0, <2>3, <2>4, <2>5, InterpretOK
  <1>4. CASE otherLine
    <2>1. ~lost'
      BY <1>0, <1>4 DEF otherLine
    <2>2. TimersOK(tmr')
      BY <1>0, <1>4, DestroyedOK DEF otherLine, Live
    <2> QED
      BY <2>1, <2>2 DEF TimersInv
  <1>5. ASSUME NEW t \in Timer, timerEvent(t)
        PROVE  TimersInv'
    <2>1. CASE ~tmr[t].due
      BY <1>0, <1>5, <2>1 DEF timerEvent, TimersInv
    <2>2. CASE tmr[t].due
      <3> DEFINE r == [tmr[t] EXCEPT !.due = FALSE]
                 m == [tmr EXCEPT ![t] = r]
      <3>1. TimerOK(r) /\ r.life # "gone"
        BY <1>0, <2>2 DEF TimerOK, TimerRecord, GoneIsSilent, WithinBound
      <3>2. interpretTimer(m, t)
        BY <1>5, <2>2 DEF timerEvent
      <3>3. m[t].life # "gone"
        BY <1>0, <3>1 DEF TimersOK
      <3> HIDE DEF r
      <3>4. TimersOK(m)
        BY <1>0, <3>1, OneTimer, Zenon
      <3> HIDE DEF m
      <3> QED
        BY <1>0, <3>2, <3>3, <3>4, InterpretOK
    <2> QED
      BY <2>1, <2>2
  <1>6. ASSUME NEW t \in Timer, rspEvent(t)
        PROVE  TimersInv'
    <2> DEFINE r == [tmr[t] EXCEPT !.waits = FALSE]
               m == [tmr EXCEPT ![t] = r]
    <2>1. TimerOK(r)
      BY <1>0 DEF TimerOK, TimerRecord, GoneIsSilent, WithinBound
    <2>2. Evaluated(m, t) /\ ~lost'
      BY <1>0, <1>6 DEF rspEvent
    <2> HIDE DEF r
    <2>3. TimersOK(m)
      BY <1>0, <2>1, OneTimer, Zenon
    <2> HIDE DEF m
    <2>4. TimersOK(tmr')
      BY <2>2, <2>3, EvaluatedOK
    <2> QED
      BY <2>2, <2>4 DEF TimersInv
  <1> QED
    BY <1>1, <1>2, <1>3, <1>4, <1>5, <1>6 DEF TimersNext, tvars, epollWait, waitAgain

\* Whatever the events of one batch do to the timers of the others, the event loop does
\* not come to a timer that is gone, and evaluates a loop no more often than loop_max says.
THEOREM TimersSound == TimersSpec => []TimersAreSound
  <1>1. TimersInit => TimersInv
    BY DEF TimersInit, TimersInv, TimersOK, TimerOK, TimerRecord, GoneIsSilent, WithinBound, NoTimer
  <1>2. TimersInv => TimersAreSound
    BY DEF TimersInv, TimersOK, TimerOK, WithinBound, TimersAreSound, TimerIsThere, LoopIsBounded
  <1> QED
    BY <1>1, <1>2, TimersNextInv, PTL DEF TimersSpec

(***************************************************************************)
(* The client library.  Until the decoder throws, the chunks decoded, the  *)
(* chunks received and the chunks the server has still to send are, one    *)
(* after the other, the answer to the last request, numbered without a gap *)
(* (InLine); only the very end of it is a last chunk (LastAtTheEnd); and   *)
(* between two calls nothing is on its way (NothingLeft), which is what    *)
(* lets run() do without comparing request numbers.                        *)
(***************************************************************************)
ChunkRecord == [req : Nat, i : Nat, last : BOOLEAN, bad : BOOLEAN]

ClientTypes ==
  /\ pc \in {"off", "idle", "poll", "take", "failed"} /\ link \in BOOLEAN /\ garbled \in BOOLEAN
  /\ reqs \in Nat /\ answer \in Seq(ChunkRecord) /\ queue \in Seq(ChunkRecord)
  /\ rsp \in [req : Nat, got : Seq(ChunkRecord), state : {"RSP_IDLE", "RSP", "RSP_DONE"}]

\* s has the chunks n + 1, n + 2, ... of the answer to request r.
Numbered(s, r, n) == \A j \in 1 .. Len(s) : s[j].req = r /\ s[j].i = n + j

InLine ==
  /\ Numbered(rsp.got, reqs, 0)
  /\ Numbered(queue, reqs, Len(rsp.got))
  /\ Numbered(answer, reqs, Len(rsp.got) + Len(queue))
LastAtTheEnd ==
  /\ \A j \in 1 .. Len(queue) : queue[j].last => j = Len(queue) /\ answer = <<>>
  /\ \A j \in 1 .. Len(answer) : answer[j].last => j = Len(answer)
NothingLeft ==
  /\ ~link => answer = <<>>
  /\ pc \in {"off", "idle"} => queue = <<>> /\ answer = <<>>
  /\ pc = "off" => reqs = 0
  /\ pc = "idle" /\ reqs > 0 => rsp.got # <<>> /\ rsp.got[Len(rsp.got)].last

ClientInv == ClientTypes /\ (~garbled => InLine /\ LastAtTheEnd /\ NothingLeft)

\* Taking the first of the chunks, and adding the next one.
LEMMA NumberedTail ==
    ASSUME NEW s \in Seq(ChunkRecord), NEW r \in Nat, NEW n \in Nat, Numbered(s, r, n), s # <<>>
    PROVE  /\ Tail(s) \in Seq(ChunkRecord) /\ Head(s) \in ChunkRecord
           /\ Len(Tail(s)) = Len(s) - 1 /\ Len(s) \in Nat \ {0}
           /\ Head(s) = s[1] /\ Head(s).req = r /\ Head(s).i = n + 1
           /\ \A j \in 1 .. Len(Tail(s)) : Tail(s)[j] = s[j + 1]
           /\ Numbered(Tail(s), r, n + 1)
  <1>1. /\ Tail(s) \in Seq(ChunkRecord) /\ Head(s) = s[1] /\ Len(Tail(s)) = Len(s) - 1
        /\ Len(s) \in Nat \ {0} /\ \A j \in 1 .. Len(Tail(s)) : Tail(s)[j] = s[j + 1]
    OBVIOUS
  <1>2. s[1] \in ChunkRecord /\ s[1].req = r /\ s[1].i = n + 1
    BY <1>1 DEF Numbered
  <1>3. ASSUME NEW j \in 1 .. Len(Tail(s))
        PROVE  Tail(s)[j].req = r /\ Tail(s)[j].i = (n + 1) + j
    <2>1. j + 1 \in 1 .. Len(s) /\ Tail(s)[j] = s[j + 1]
      BY <1>1
    <2>2. s[j + 1].req = r /\ s[j + 1].i = n + (j + 1)
      BY <2>1 DEF Numbered
    <2> QED
      BY <2>1, <2>2
  <1> QED
    BY <1>1, <1>2, <1>3 DEF Numbered

LEMMA NumberedAppend ==
    ASSUME NEW s \in Seq(ChunkRecord), NEW r \in Nat, NEW n \in Nat, Numbered(s, r, n),
           NEW c \in ChunkRecord, c.req = r, c.i = n + Len(s) + 1
    PROVE  /\ Append(s, c) \in Seq(ChunkRecord) /\ Len(Append(s, c)) = Len(s) + 1
           /\ \A j \in 1 .. Len(s) : Append(s, c)[j] = s[j]
           /\ Append(s, c)[Len(s) + 1] = c
           /\ Numbered(Append(s, c), r, n)
  <1>1. /\ Append(s, c) \in Seq(ChunkRecord) /\ Len(Append(s, c)) = Len(s) + 1
        /\ \A j \in 1 .. Len(s) : Append(s, c)[j] = s[j]
        /\ Append(s, c)[Len(s) + 1] = c
    OBVIOUS
  <1>2. ASSUME NEW j \in 1 .. Len(Append(s, c))
        PROVE  Append(s, c)[j].req = r /\ Append(s, c)[j].i = n + j
    <2>1. CASE j = Len(s) + 1
      BY <1>1, <2>1
    <2>2. CASE j \in 1 .. Len(s)
      BY <1>1, <2>2 DEF Numbered
    <2> QED
      BY <1>1, <2>1, <2>2
  <1> QED
    BY <1>1, <1>2 DEF Numbered

\* The answer to a new request.
AnswerTo(r, s) ==
  /\ s \in Seq(ChunkRecord) /\ Numbered(s, r, 0)
  /\ \A j \in 1 .. Len(s) : s[j].last => j = Len(s)

LEMMA NewAnswer ==
    ASSUME NEW r \in Nat, NEW n \in Nat, NEW b \in Nat, NEW new,
           new = [i \in 1 .. n |-> Chunk(r, i, n, i = b)] \o <<>>
    PROVE  AnswerTo(r, new)
  <1> DEFINE f == [i \in 1 .. n |-> Chunk(r, i, n, i = b)]
  <1>1. \A i \in 1 .. n : /\ Chunk(r, i, n, i = b) \in ChunkRecord
                          /\ Chunk(r, i, n, i = b).req = r /\ Chunk(r, i, n, i = b).i = i
                          /\ Chunk(r, i, n, i = b).last <=> i = n
    <2> TAKE i \in 1 .. n
    <2> DEFINE c == Chunk(r, i, n, i = b)
    <2>1. (i = n) \in BOOLEAN /\ (i = b) \in BOOLEAN
      OBVIOUS
    <2>2. ASSUME NEW x \in BOOLEAN, NEW y \in BOOLEAN
          PROVE  [req |-> r, i |-> i, last |-> x, bad |-> y] \in ChunkRecord
      BY DEF ChunkRecord
    <2>3. c \in ChunkRecord
      BY <2>1, <2>2, Zenon DEF Chunk
    <2>4. c.req = r /\ c.i = i
      BY DEF Chunk
    <2>5. c.last <=> i = n
      BY Zenon DEF Chunk
    <2> QED
      BY <2>3, <2>4, <2>5
  <1>2. /\ f \in Seq(ChunkRecord) /\ Len(f) = n
        /\ \A i \in 1 .. n : f[i] = Chunk(r, i, n, i = b)
    BY <1>1
  <1>3. /\ new \in Seq(ChunkRecord) /\ Len(new) = n /\ \A i \in 1 .. n : new[i] = f[i]
    <2> HIDE DEF f
    <2> QED
      BY <1>2
  <1> QED
    BY <1>1, <1>2, <1>3 DEF AnswerTo, Numbered

LEMMA ClientNextInv ==
    ASSUME ClientInv, [ClientNext]_cvars
    PROVE  ClientInv'
  <1>0. ClientTypes /\ (~garbled => InLine /\ LastAtTheEnd /\ NothingLeft)
    BY DEF ClientInv
  <1>1. CASE UNCHANGED <<pc, link, reqs, answer, queue, rsp, garbled>>
    BY <1>0, <1>1 DEF ClientInv, ClientTypes, InLine, LastAtTheEnd, NothingLeft, Numbered
  <1>2. CASE connect
    BY <1>0, <1>2 DEF connect, ClientInv, ClientTypes, InLine, LastAtTheEnd, NothingLeft, Numbered
  <1>3. CASE sendReq
    <2>1. /\ pc = "idle" /\ reqs' = reqs + 1 /\ rsp' = [req |-> reqs + 1, got |-> <<>>, state |-> "RSP_IDLE"]
          /\ UNCHANGED <<link, queue, garbled>>
      BY <1>3 DEF sendReq, NewRsp, RspState
    <2>2. CASE link
      <3>a. PICK n \in 1 .. MaxChunks : \E b \in 0 .. n :
              answer' = [i \in 1 .. n |-> Chunk(reqs + 1, i, n, i = b)] \o <<>>
        BY <1>3, <2>2 DEF sendReq
      <3>1. PICK b \in 0 .. n :
              answer' = [i \in 1 .. n |-> Chunk(reqs + 1, i, n, i = b)] \o <<>>
        BY <3>a
      <3>2. pc' = "poll"
        BY <1>3, <2>2 DEF sendReq
      <3>3. reqs + 1 \in Nat /\ n \in Nat /\ b \in Nat
        BY <1>0, ClientAssumption DEF ClientTypes
      <3>4. /\ answer' \in Seq(ChunkRecord) /\ Numbered(answer', reqs + 1, 0)
            /\ \A j \in 1 .. Len(answer') : answer'[j].last => j = Len(answer')
        <4>1. AnswerTo(reqs + 1, answer')
          BY <3>1, <3>3, NewAnswer
        <4> QED
          BY <4>1 DEF AnswerTo
      <3>5. ClientTypes'
        BY <1>0, <2>1, <3>2, <3>4 DEF ClientTypes
      <3>6. ASSUME ~garbled
            PROVE  InLine' /\ LastAtTheEnd' /\ NothingLeft'
        <4>1. queue = <<>>
          BY <1>0, <2>1, <3>6 DEF NothingLeft
        <4> QED
          BY <2>1, <2>2, <3>2, <3>4, <4>1 DEF InLine, LastAtTheEnd, NothingLeft, Numbered
      <3> QED
        BY <2>1, <3>5, <3>6 DEF ClientInv
    <2>3. CASE ~link
      <3>1. pc' = "failed" /\ answer' = answer
        BY <1>3, <2>3 DEF sendReq
      <3>2. ClientTypes'
        BY <1>0, <2>1, <3>1 DEF ClientTypes
      <3>3. ASSUME ~garbled
            PROVE  InLine' /\ LastAtTheEnd' /\ NothingLeft'
        <4>1. queue = <<>> /\ answer = <<>>
          BY <1>0, <2>1, <3>3 DEF NothingLeft
        <4> QED
          BY <2>1, <3>1, <4>1 DEF InLine, LastAtTheEnd, NothingLeft, Numbered
      <3> QED
        BY <2>1, <3>2, <3>3 DEF ClientInv
    <2> QED
      BY <2>2, <2>3, <1>0 DEF ClientTypes
  <1>4. CASE Deliver
    <2>1. /\ link /\ answer # <<>> /\ answer' = Tail(answer) /\ queue' = Append(queue, Head(answer))
          /\ UNCHANGED <<pc, link, reqs, rsp, garbled>>
      BY <1>4 DEF Deliver
    <2>2. /\ answer \in Seq(ChunkRecord) /\ queue \in Seq(ChunkRecord) /\ reqs \in Nat
          /\ Len(queue) \in Nat /\ rsp.got \in Seq(ChunkRecord) /\ Len(rsp.got) \in Nat
      BY <1>0 DEF ClientTypes
    <2>3. ClientTypes'
      BY <1>0, <2>1, <2>2 DEF ClientTypes
    <2>4. ASSUME ~garbled
          PROVE  InLine' /\ LastAtTheEnd' /\ NothingLeft'
      <3>1. /\ InLine /\ LastAtTheEnd /\ NothingLeft
        BY <1>0, <2>4
      <3> DEFINE n == Len(rsp.got)
                 q == Len(queue)
                 c == Head(answer)
      <3>2. n \in Nat /\ q \in Nat /\ n + q \in Nat
        BY <2>2
      <3>3. /\ Numbered(answer, reqs, n + q) /\ Numbered(queue, reqs, n) /\ Numbered(rsp.got, reqs, 0)
        BY <3>1 DEF InLine
      <3> HIDE DEF n, q
      <3>4. /\ c \in ChunkRecord /\ Len(answer') = Len(answer) - 1 /\ Len(answer) \in Nat \ {0}
            /\ c = answer[1] /\ c.req = reqs /\ c.i = (n + q) + 1
            /\ \A j \in 1 .. Len(answer') : answer'[j] = answer[j + 1]
            /\ Numbered(answer', reqs, (n + q) + 1)
        BY <2>1, <2>2, <3>2, <3>3, NumberedTail
      <3>5. c.i = n + Len(queue) + 1
        BY <2>2, <3>2, <3>4 DEF q
      <3> HIDE DEF c
      <3>6. /\ Len(queue') = q + 1
            /\ \A j \in 1 .. q : queue'[j] = queue[j]
            /\ queue'[q + 1] = c
            /\ Numbered(queue', reqs, n)
        BY <2>1, <2>2, <3>2, <3>3, <3>4, <3>5, NumberedAppend DEF q, c
      <3>7. InLine'
        <4>1. (n + q) + 1 = n + Len(queue')
          BY <3>2, <3>6
        <4>2. Numbered(answer', reqs, n + Len(queue'))
          BY <3>4, <4>1
        <4> QED
          BY <2>1, <3>3, <3>6, <4>2 DEF InLine, n
      <3>8. LastAtTheEnd'
        <4>1. ASSUME NEW j \in 1 .. Len(answer'), answer'[j].last
              PROVE  j = Len(answer')
          <5>1. answer[j + 1].last /\ j + 1 \in 1 .. Len(answer)
            BY <3>4, <4>1
          <5>2. j + 1 = Len(answer)
            BY <3>1, <5>1 DEF LastAtTheEnd
          <5> QED
            BY <3>4, <5>2
        <4>2. ASSUME NEW j \in 1 .. Len(queue'), queue'[j].last
              PROVE  j = Len(queue') /\ answer' = <<>>
          <5>1. CASE j = q + 1
            <6>1. answer[1].last
              BY <3>4, <3>6, <4>2, <5>1
            <6>2. Len(answer) = 1
              BY <3>1, <3>4, <6>1 DEF LastAtTheEnd
            <6>3. answer' = <<>>
              BY <2>2, <2>1, <6>2
            <6> QED
              BY <3>6, <5>1, <6>3
          <5>2. CASE j \in 1 .. q
            <6>1. queue[j].last
              BY <3>6, <4>2, <5>2
            <6> QED
              BY <2>1, <3>1, <5>2, <6>1 DEF LastAtTheEnd, q
          <5> QED
            BY <3>2, <3>6, <5>1, <5>2
        <4> QED
          BY <4>1, <4>2 DEF LastAtTheEnd
      <3>9. NothingLeft'
        BY <2>1, <3>1 DEF NothingLeft
      <3> QED
        BY <3>7, <3>8, <3>9
    <2> QED
      BY <2>1, <2>3, <2>4 DEF ClientInv
  <1>5. CASE PeerDown
    <2>1. answer' = <<>> /\ link' = FALSE /\ UNCHANGED <<pc, reqs, queue, rsp, garbled>>
      BY <1>5 DEF PeerDown
    <2>2. ClientTypes'
      <3>1. <<>> \in Seq(ChunkRecord)
        OBVIOUS
      <3> QED
        BY <1>0, <2>1, <3>1 DEF ClientTypes
    <2>3. ASSUME ~garbled
          PROVE  InLine' /\ LastAtTheEnd' /\ NothingLeft'
      <3>1. InLine /\ LastAtTheEnd /\ NothingLeft
        BY <1>0, <2>3
      <3>2. InLine'
        BY <2>1, <3>1 DEF InLine, Numbered
      <3>3. LastAtTheEnd'
        <4>1. Len(answer') = 0
          BY <2>1
        <4>2. \A j \in 1 .. Len(queue) : queue[j].last => j = Len(queue)
          BY <3>1 DEF LastAtTheEnd
        <4> QED
          BY <2>1, <4>1, <4>2 DEF LastAtTheEnd
      <3>4. NothingLeft'
        BY <2>1, <3>1 DEF NothingLeft
      <3> QED
        BY <3>2, <3>3, <3>4
    <2> QED
      BY <2>1, <2>2, <2>3 DEF ClientInv
  <1>6. CASE runData
    <2>1. pc = "poll" /\ pc' = "take" /\ UNCHANGED <<link, reqs, answer, queue, rsp, garbled>>
      BY <1>6 DEF runData
    <2> QED
      BY <1>0, <2>1 DEF ClientInv, ClientTypes, InLine, LastAtTheEnd, NothingLeft, Numbered
  <1>7. CASE runTake
    <2> DEFINE c == Head(queue)
    <2>1. /\ pc = "take" /\ queue # <<>> /\ queue' = Tail(queue)
          /\ UNCHANGED <<link, reqs, answer>>
      BY <1>7 DEF runTake
    <2>2. PICK whole \in BOOLEAN :
            /\ ~garbled => whole = (c.last /\ ~c.bad)
            /\ c.bad => ~whole
            /\ readRspData(c, whole)
      BY <1>7, Zenon DEF runTake
    <2>3. /\ rsp' = [rsp EXCEPT !.got = Append(@, c), !.state = IF whole THEN "RSP_DONE" ELSE "RSP"]
          /\ garbled' = (garbled \/ c.bad)
          /\ pc' = IF whole THEN "idle" ELSE "take"
      BY <2>2, Zenon DEF readRspData
    <2>4. /\ answer \in Seq(ChunkRecord) /\ queue \in Seq(ChunkRecord) /\ reqs \in Nat
          /\ Len(queue) \in Nat /\ rsp.got \in Seq(ChunkRecord) /\ Len(rsp.got) \in Nat
          /\ c \in ChunkRecord
      BY <1>0, <2>1 DEF ClientTypes
    <2> HIDE DEF c
    <2>5. rsp'.got = Append(rsp.got, c)
      BY <1>0, <2>3 DEF ClientTypes
    <2>6. ClientTypes'
      <3>1. garbled' \in BOOLEAN
        BY <2>3, Zenon
      <3>2. rsp' \in [req : Nat, got : Seq(ChunkRecord), state : {"RSP_IDLE", "RSP", "RSP_DONE"}]
        <4>1. Append(rsp.got, c) \in Seq(ChunkRecord)
          BY <2>4
        <4>2. rsp' = [rsp EXCEPT !.got = Append(rsp.got, c), !.state = IF whole THEN "RSP_DONE" ELSE "RSP"]
          BY <1>0, <2>3 DEF ClientTypes
        <4>3. CASE whole
          BY <1>0, <4>1, <4>2, <4>3 DEF ClientTypes
        <4>4. CASE ~whole
          BY <1>0, <4>1, <4>2, <4>4 DEF ClientTypes
        <4> QED
          BY <4>3, <4>4
      <3>3. pc' \in {"idle", "take"}
        BY <2>3
      <3> QED
        BY <1>0, <2>1, <2>4, <3>1, <3>2, <3>3 DEF ClientTypes
    <2>7. ASSUME ~garbled'
          PROVE  InLine' /\ LastAtTheEnd' /\ NothingLeft'
      <3>1. ~garbled /\ ~c.bad
        BY <2>3, <2>7, Zenon
      <3>2. /\ InLine /\ LastAtTheEnd /\ NothingLeft
        BY <1>0, <3>1
      <3>3. whole = c.last
        BY <2>2, <3>1, <2>4, Zenon DEF ChunkRecord
      <3> DEFINE n == Len(rsp.got)
                 q == Len(queue)
      <3>4. n \in Nat /\ q \in Nat /\ n + q \in Nat
        BY <2>4
      <3>5. /\ Numbered(answer, reqs, n + q) /\ Numbered(queue, reqs, n) /\ Numbered(rsp.got, reqs, 0)
        BY <3>2 DEF InLine
      <3> HIDE DEF n, q
      <3>6. /\ Len(queue') = q - 1 /\ q \in Nat \ {0}
            /\ c = queue[1] /\ c.req = reqs /\ c.i = n + 1
            /\ \A j \in 1 .. Len(queue') : queue'[j] = queue[j + 1]
            /\ Numbered(queue', reqs, n + 1)
        BY <2>1, <2>4, <3>4, <3>5, NumberedTail DEF q, c
      <3>7. c.i = 0 + Len(rsp.got) + 1
        BY <3>4, <3>6 DEF n
      <3>8. /\ Len(rsp'.got) = n + 1
            /\ rsp'.got[n + 1] = c
            /\ Numbered(rsp'.got, reqs, 0)
        BY <2>4, <2>5, <3>5, <3>6, <3>7, NumberedAppend DEF n
      <3>9. InLine'
        <4>1. n + q = (n + 1) + Len(queue')
          BY <3>4, <3>6
        <4>2. Numbered(answer', reqs, Len(rsp'.got) + Len(queue')) /\ Numbered(queue', reqs, Len(rsp'.got))
          BY <2>1, <3>5, <3>6, <3>8, <4>1
        <4> QED
          BY <2>1, <3>8, <4>2 DEF InLine
      <3>10. LastAtTheEnd'
        <4>1. ASSUME NEW j \in 1 .. Len(queue'), queue'[j].last
              PROVE  j = Len(queue') /\ answer' = <<>>
          <5>1. queue[j + 1].last /\ j + 1 \in 1 .. Len(queue)
            BY <3>6, <4>1 DEF q
          <5>2. j + 1 = Len(queue) /\ answer = <<>>
            BY <3>2, <5>1 DEF LastAtTheEnd
          <5> QED
            <6>1. Len(queue') \in Nat /\ Len(queue') = Len(queue) - 1
              BY <2>4, <3>4, <3>6 DEF q
            <6>2. j \in Nat
              BY <4>1
            <6>3. j = Len(queue')
              BY <2>4, <5>2, <6>1, <6>2
            <6>4. answer' = <<>>
              BY <2>1, <5>2
            <6> QED
              BY <6>3, <6>4, Zenon
        <4>2. ASSUME NEW j \in 1 .. Len(answer'), answer'[j].last
              PROVE  j = Len(answer')
          BY <2>1, <3>2, <4>2 DEF LastAtTheEnd
        <4> QED
          BY <4>1, <4>2 DEF LastAtTheEnd
      <3>11. NothingLeft'
        <4>1. CASE whole
          <5>1. queue[1].last /\ 1 \in 1 .. Len(queue)
            <6>1. c.last
              BY <3>3, <4>1, Zenon
            <6>2. 1 \in 1 .. Len(queue)
              BY <3>6 DEF q
            <6> QED
              BY <3>6, <6>1, <6>2
          <5>2. q = 1 /\ answer = <<>>
            BY <3>2, <5>1 DEF LastAtTheEnd, q
          <5>3. queue' = <<>>
            BY <2>1, <2>4, <5>2 DEF q
          <5>4. rsp'.got # <<>> /\ rsp'.got[Len(rsp'.got)].last
            BY <2>4, <3>3, <3>4, <3>8, <4>1
          <5>5. pc' = "idle"
            BY <2>3, <4>1
          <5> QED
            BY <2>1, <5>2, <5>3, <5>4, <5>5 DEF NothingLeft
        <4>2. CASE ~whole
          <5>1. pc' = "take"
            BY <2>3, <4>2
          <5> QED
            BY <2>1, <3>2, <5>1 DEF NothingLeft
        <4> QED
          BY <4>1, <4>2
      <3> QED
        BY <3>9, <3>10, <3>11
    <2> QED
      BY <2>6, <2>7 DEF ClientInv
  <1>8. CASE runAgain
    <2>1. pc = "take" /\ pc' = "poll" /\ UNCHANGED <<link, reqs, answer, queue, rsp, garbled>>
      BY <1>8 DEF runAgain
    <2> QED
      BY <1>0, <2>1 DEF ClientInv, ClientTypes, InLine, LastAtTheEnd, NothingLeft, Numbered
  <1> QED
    BY <1>1, <1>2, <1>3, <1>4, <1>5, <1>6, <1>7, <1>8 DEF ClientNext, cvars, runSignal

\* However the chunks of the answers arrive, in bursts or one at a time, and whatever is
\* lost with the connection: what run() has put together when it returns is the answer to
\* the request that was sent last, whole and in order, unless the decoder threw.
THEOREM AnswerIsOwn == ClientSpec => []OwnAnswerInOrder
  <1>1. ClientInit => ClientInv
    <2> SUFFICES ASSUME ClientInit
                 PROVE  ClientInv
      OBVIOUS
    <2>1. /\ pc = "off" /\ link = FALSE /\ reqs = 0 /\ answer = <<>> /\ queue = <<>> /\ garbled = FALSE
          /\ rsp = [req |-> 0, got |-> <<>>, state |-> "RSP_IDLE"]
      BY DEF ClientInit, ClientOff, RspState
    <2>2. ClientTypes
      <3>1. <<>> \in Seq(ChunkRecord)
        OBVIOUS
      <3> QED
        BY <2>1, <3>1 DEF ClientTypes
    <2>3. InLine /\ LastAtTheEnd /\ NothingLeft
      BY <2>1 DEF InLine, LastAtTheEnd, NothingLeft, Numbered
    <2> QED
      BY <2>2, <2>3 DEF ClientInv
  <1>2. ClientInv => OwnAnswerInOrder
    BY DEF ClientInv, ClientTypes, InLine, NothingLeft, Numbered, OwnAnswerInOrder, getVal
  <1> QED
    BY <1>1, <1>2, ClientNextInv, PTL DEF ClientSpec

(***************************************************************************)
(* The streams.  Messages reads a stream by a recursive function; that     *)
(* there is one, and what it is, is shown by induction from the end of the *)
(* stream.                                                                 *)
(***************************************************************************)
GoodStream(s) ==
  /\ s \in Seq(Nat \cup {Magic})
  /\ \A k \in 1 .. Len(s) - 1 : s[k] = Magic => s[k + 1] \in Nat /\ s[k + 1] > HeaderLen

Bodies == Seq(Nat \X Nat)

\* The messages from word k on, when f has those from later words on.
FromWord(f, s, k) ==
  IF k >= Len(s) THEN << >>
  ELSE IF s[k] # Magic THEN f[k + 1]
  ELSE IF k + s[k + 1] - 1 > Len(s) THEN << >>
  ELSE <<<<k + HeaderLen, k + s[k + 1] - 1>>>> \o f[k + s[k + 1]]

Parsed(s) == CHOOSE f : f = [k \in 1 .. Len(s) + 1 |-> FromWord(f, s, k)]

LEMMA FromWordOK ==
    ASSUME NEW s, GoodStream(s), NEW f \in [1 .. Len(s) + 1 -> Bodies], NEW k \in 1 .. Len(s) + 1
    PROVE  FromWord(f, s, k) \in Bodies
  <1>1. Len(s) \in Nat /\ k \in Nat
    BY DEF GoodStream
  <1>2. CASE k >= Len(s)
    BY <1>2 DEF FromWord, Bodies
  <1>3. CASE k < Len(s) /\ s[k] # Magic
    BY <1>1, <1>3 DEF FromWord
  <1>4. CASE k < Len(s) /\ s[k] = Magic
    <2>1. s[k + 1] \in Nat /\ s[k + 1] > HeaderLen
      BY <1>1, <1>4 DEF GoodStream
    <2>2. CASE k + s[k + 1] - 1 > Len(s)
      BY <1>1, <1>4, <2>2 DEF FromWord, Bodies
    <2>3. CASE ~(k + s[k + 1] - 1 > Len(s))
      <3>1. k + s[k + 1] \in 1 .. Len(s) + 1
        BY <1>1, <2>1, <2>3 DEF HeaderLen
      <3>2. f[k + s[k + 1]] \in Bodies
        BY <3>1
      <3>3. <<<<k + HeaderLen, k + s[k + 1] - 1>>>> \in Bodies
        BY <1>1, <2>1 DEF HeaderLen, Bodies
      <3>4. <<<<k + HeaderLen, k + s[k + 1] - 1>>>> \o f[k + s[k + 1]] \in Bodies
        BY <3>2, <3>3, ConcatProperties DEF Bodies
      <3> QED
        BY <1>1, <1>4, <2>3, <3>4 DEF FromWord
    <2> QED
      BY <2>2, <2>3
  <1> QED
    BY <1>1, <1>2, <1>3, <1>4

LEMMA FromWordLooksAhead ==
    ASSUME NEW s, GoodStream(s), NEW f, NEW g, NEW k \in 1 .. Len(s) + 1,
           \A j \in k + 1 .. Len(s) + 1 : f[j] = g[j]
    PROVE  FromWord(f, s, k) = FromWord(g, s, k)
  <1>1. Len(s) \in Nat /\ k \in Nat
    BY DEF GoodStream
  <1>2. CASE k >= Len(s)
    BY <1>2 DEF FromWord
  <1>3. CASE k < Len(s) /\ s[k] # Magic
    BY <1>1, <1>3 DEF FromWord
  <1>4. CASE k < Len(s) /\ s[k] = Magic
    <2>1. s[k + 1] \in Nat /\ s[k + 1] > HeaderLen
      BY <1>1, <1>4 DEF GoodStream
    <2>2. CASE k + s[k + 1] - 1 > Len(s)
      BY <1>1, <1>4, <2>2 DEF FromWord
    <2>3. CASE ~(k + s[k + 1] - 1 > Len(s))
      <3>1. k + s[k + 1] \in k + 1 .. Len(s) + 1
        BY <1>1, <2>1, <2>3 DEF HeaderLen
      <3>2. f[k + s[k + 1]] = g[k + s[k + 1]]
        BY <3>1
      <3> QED
        BY <1>1, <1>4, <2>3, <3>2 DEF FromWord
    <2> QED
      BY <2>2, <2>3
  <1> QED
    BY <1>1, <1>2, <1>3, <1>4

\* There is such a function, so that Parsed(s) is one.
LEMMA ParsedOK ==
    ASSUME NEW s, GoodStream(s)
    PROVE  /\ Messages(s) = Parsed(s)[1]
           /\ Parsed(s) \in [1 .. Len(s) + 1 -> Bodies]
           /\ \A k \in 1 .. Len(s) + 1 : Parsed(s)[k] = FromWord(Parsed(s), s, k)
  <1> DEFINE L == Len(s)
             D == 1 .. L + 1
             Right(f, n) == \A k \in D : k > L + 1 - n => f[k] = FromWord(f, s, k)
             I == {n \in Nat : n <= L + 1 => \E f \in [D -> Bodies] : Right(f, n)}
  <1>1. L \in Nat
    BY DEF GoodStream
  <1>2. 0 \in I
    <2>1. [k \in D |-> <<>>] \in [D -> Bodies]
      BY DEF Bodies
    <2>2. Right([k \in D |-> <<>>], 0)
      BY <1>1
    <2> QED
      BY <2>1, <2>2
  <1>3. ASSUME NEW n \in Nat, n \in I
        PROVE  n + 1 \in I
    <2>1. CASE n + 1 <= L + 1
      <3>1. PICK f \in [D -> Bodies] : Right(f, n)
        BY <1>1, <1>3, <2>1
      <3> DEFINE e == L + 1 - n
                 g == [f EXCEPT ![e] = FromWord(f, s, e)]
      <3>2. e \in D
        BY <1>1, <2>1
      <3>3. FromWord(f, s, e) \in Bodies
        BY <3>2, FromWordOK
      <3>4. g \in [D -> Bodies]
        BY <3>3
      <3>5. ASSUME NEW k \in D, k > L + 1 - (n + 1)
            PROVE  g[k] = FromWord(g, s, k)
        <4>1. \A j \in k + 1 .. L + 1 : f[j] = g[j]
          BY <1>1, <3>2, <3>5
        <4>2. FromWord(f, s, k) = FromWord(g, s, k)
          <5> HIDE DEF g
          <5> QED
            BY <4>1, FromWordLooksAhead
        <4>3. CASE k = e
          BY <3>2, <4>2, <4>3
        <4>4. CASE k # e
          <5>1. k > L + 1 - n
            BY <1>1, <3>5, <4>4
          <5>2. f[k] = FromWord(f, s, k)
            BY <3>1, <5>1
          <5> QED
            BY <4>2, <4>4, <5>2
        <4> QED
          BY <4>3, <4>4
      <3>6. Right(g, n + 1)
        BY <3>5
      <3> HIDE DEF g, Right
      <3> QED
        BY <3>4, <3>6
    <2>2. CASE ~(n + 1 <= L + 1)
      BY <2>2
    <2> QED
      BY <2>1, <2>2
  <1>4. L + 1 \in I
    <2>1. Nat \subseteq I
      <3> HIDE DEF I
      <3> QED
        BY <1>2, <1>3, SetInduction
    <2> QED
      BY <1>1, <2>1
  <1>5. PICK f \in [D -> Bodies] : Right(f, L + 1)
    BY <1>1, <1>4
  <1>6. f = [k \in D |-> FromWord(f, s, k)]
    BY <1>1, <1>5
  <1>7. Parsed(s) = [k \in D |-> FromWord(Parsed(s), s, k)]
    BY <1>6 DEF Parsed
  <1> DEFINE g == Parsed(s)
             E == {n \in Nat : n <= L + 1 => \A k \in D : k > L + 1 - n => g[k] = f[k]}
  <1>9. 0 \in E
    BY <1>1
  <1>10. ASSUME NEW n \in Nat, n \in E
         PROVE  n + 1 \in E
    <2> SUFFICES ASSUME n + 1 <= L + 1, NEW k \in D, k > L + 1 - (n + 1)
                 PROVE  g[k] = f[k]
      OBVIOUS
    <2>1. \A j \in k + 1 .. L + 1 : g[j] = f[j]
      BY <1>1, <1>10
    <2>2. FromWord(g, s, k) = FromWord(f, s, k)
      <3> HIDE DEF g
      <3> QED
        BY <2>1, FromWordLooksAhead
    <2>3. f[k] = FromWord(f, s, k) /\ g[k] = FromWord(g, s, k)
      <3> HIDE DEF g
      <3> QED
        BY <1>6, <1>7 DEF g
    <2> QED
      BY <2>2, <2>3
  <1>11. L + 1 \in E
    <2>1. Nat \subseteq E
      <3> HIDE DEF E
      <3> QED
        BY <1>9, <1>10, SetInduction
    <2> QED
      BY <1>1, <2>1
  <1>12. g = f
    <2>1. \A k \in D : g[k] = f[k]
      BY <1>1, <1>11
    <2> HIDE DEF g
    <2> QED
      BY <1>6, <1>7, <2>1 DEF g
  <1>8. Messages(s) = Parsed(s)[1]
    BY DEF Messages, Parsed, FromWord
  <1> QED
    <2> HIDE DEF g
    <2> QED
      BY <1>7, <1>8, <1>12 DEF g

(***************************************************************************)
(* What is handed over of a stream, and what Messages finds from the first *)
(* word that is not handed over, are the messages of the stream (Ahead).   *)
(* While a message is put together, that word is its magic number.         *)
(***************************************************************************)
WordFirst(p) ==
  IF bufmap[p] = <<>> THEN taken[p] + 1 ELSE taken[p] - bufmap[p][1].offset - HeaderLen + 1

BufferOK(p) ==
  bufmap[p] = <<>>
  \/ /\ \E ln \in Nat, o \in Nat : o < ln /\ bufmap[p] = <<[len |-> ln, offset |-> o]>>
     /\ p \in reading
     /\ WordFirst(p) \in 1 .. Len(Stream[p]) - 1
     /\ Stream[p][WordFirst(p)] = Magic
     /\ Stream[p][WordFirst(p) + 1] = bufmap[p][1].len + HeaderLen

PrefixOf(q, m) == Len(q) <= Len(m) /\ q = SubSeq(m, 1, Len(q))

Ahead(p) == Messages(Stream[p]) = queued[p] \o Parsed(Stream[p])[WordFirst(p)]

PeerInv(p) ==
  /\ arrived[p] \in Nat /\ taken[p] \in Nat /\ taken[p] <= arrived[p] /\ arrived[p] <= Len(Stream[p])
  /\ queued[p] \in Bodies
  /\ BufferOK(p)
  /\ PrefixOf(queued[p], Messages(Stream[p]))
  /\ p \in up => Ahead(p)

PerPeer(f) == DOMAIN f = Peer /\ f = [p \in Peer |-> f[p]]

ReaderTypes ==
  /\ PerPeer(arrived) /\ PerPeer(taken) /\ PerPeer(bufmap) /\ PerPeer(queued)
  /\ closed \subseteq Peer /\ edge \subseteq Peer /\ up \subseteq Peer
  /\ reading = {} \/ \E p \in up : reading = {p}
  /\ firstRead \in BOOLEAN

ReaderInv == ReaderTypes /\ \A p \in Peer : PeerInv(p)

LEMMA StreamsAreGood == \A p \in Peer : GoodStream(Stream[p]) /\ Len(Stream[p]) \in Nat
  BY ReaderAssumption DEF GoodStream

\* What was handed over before something else is a prefix.
LEMMA PrefixOfConcat ==
    ASSUME NEW q \in Bodies, NEW r \in Bodies, NEW m, m = q \o r
    PROVE  PrefixOf(q, m)
  <1>1. m \in Bodies /\ Len(m) = Len(q) + Len(r) /\ Len(q) \in Nat /\ Len(r) \in Nat
    BY ConcatProperties DEF Bodies
  <1>2. \A i \in 1 .. Len(q) : m[i] = q[i]
    BY <1>1, ConcatProperties DEF Bodies
  <1>3. /\ SubSeq(m, 1, Len(q)) \in Bodies /\ Len(SubSeq(m, 1, Len(q))) = Len(q)
        /\ \A i \in 1 .. Len(q) : SubSeq(m, 1, Len(q))[i] = q[i]
    BY <1>1, <1>2 DEF Bodies
  <1>4. q = SubSeq(m, 1, Len(q))
    <2> DEFINE u == SubSeq(m, 1, Len(q))
    <2> HIDE DEF u
    <2>1. q \in Seq(Nat \X Nat) /\ u \in Seq(Nat \X Nat) /\ Len(q) = Len(u) /\ \A i \in 1 .. Len(q) : q[i] = u[i]
      BY <1>3 DEF u, Bodies
    <2>2. q = u
      BY <2>1, SeqEqual, Zenon
    <2> QED
      BY <2>2 DEF u
  <1> QED
    BY <1>1, <1>4 DEF PrefixOf

\* One more message of those that are ahead.
LEMMA OneMore ==
    ASSUME NEW q \in Bodies, NEW x \in Nat \X Nat, NEW r \in Bodies
    PROVE  Append(q, x) \in Bodies /\ q \o (<<x>> \o r) = Append(q, x) \o r
  <1>1. <<x>> \in Seq(Nat \X Nat) /\ Append(q, x) = q \o <<x>> /\ Append(q, x) \in Bodies
    BY DEF Bodies
  <1>2. (q \o <<x>>) \o r = q \o (<<x>> \o r)
    BY <1>1, ConcatAssociative DEF Bodies
  <1> QED
    BY <1>1, <1>2

\* The peers whose event is not handled.
LEMMA OtherPeers ==
    ASSUME NEW p \in Peer, PeerInv(p), bufmap[p] = <<>> \/ (p \in reading => p \in reading'),
           taken'[p] = taken[p], bufmap'[p] = bufmap[p], queued'[p] = queued[p],
           arrived'[p] \in Nat, arrived'[p] >= arrived[p], arrived'[p] <= Len(Stream[p]),
           up' \subseteq up
    PROVE  PeerInv(p)'
  <1>1. WordFirst(p)' = WordFirst(p)
    BY DEF WordFirst
  <1>2. BufferOK(p)'
    BY <1>1 DEF PeerInv, BufferOK
  <1>3. p \in up' => Ahead(p)'
    BY <1>1 DEF PeerInv, Ahead
  <1> QED
    BY <1>2, <1>3, StreamsAreGood DEF PeerInv

LEMMA ReadHeaderInv ==
    ASSUME ReaderInv, NEW p \in Peer, ReadHeader(p)
    PROVE  PeerInv(p)'
  <1> DEFINE s == Stream[p]
             k == taken[p] + 1
  <1>1. GoodStream(s) /\ Len(s) \in Nat
    BY StreamsAreGood
  <1>2. PeerInv(p) /\ DOMAIN taken = Peer /\ DOMAIN bufmap = Peer
    BY DEF ReaderInv, ReaderTypes, PerPeer
  <1>3. /\ k \in 1 .. Len(s) - 1 /\ s[k] = Magic /\ bufmap[p] = <<>> /\ p \in reading
        /\ taken[p] + 2 <= arrived[p]
    BY <1>1, <1>2 DEF ReadHeader, PeerInv, Avail, NextWord, HeaderLen
  <1>4. s[k + 1] \in Nat /\ s[k + 1] > HeaderLen
    BY <1>1, <1>3 DEF GoodStream
  <1>5. /\ taken'[p] = taken[p] + 2 /\ bufmap'[p] = <<[len |-> s[k + 1] - HeaderLen, offset |-> 0]>>
        /\ UNCHANGED <<arrived, up, queued, reading>>
    <2>1. k + 1 = taken[p] + 2
      BY <1>2 DEF PeerInv
    <2> QED
      BY <1>2, <2>1 DEF ReadHeader, HeaderLen, peerVars
  <1>6. WordFirst(p)' = k /\ WordFirst(p) = k
    BY <1>2, <1>3, <1>5 DEF WordFirst, PeerInv, HeaderLen
  <1>7. BufferOK(p)'
    <2> DEFINE ln == s[k + 1] - HeaderLen
    <2>1. ln \in Nat /\ 0 < ln /\ ln + HeaderLen = s[k + 1]
      BY <1>4 DEF HeaderLen
    <2>2. bufmap'[p] = <<[len |-> ln, offset |-> 0]>> /\ bufmap'[p][1].len = ln
      BY <1>5
    <2> HIDE DEF ln, k
    <2>3. \E ll \in Nat, o \in Nat : o < ll /\ bufmap'[p] = <<[len |-> ll, offset |-> o]>>
      BY <2>1, <2>2
    <2>4. /\ p \in reading' /\ WordFirst(p)' \in 1 .. Len(s) - 1 /\ s[WordFirst(p)'] = Magic
          /\ s[WordFirst(p)' + 1] = bufmap'[p][1].len + HeaderLen
      BY <1>3, <1>5, <1>6, <2>1, <2>2
    <2> QED
      BY <2>3, <2>4 DEF BufferOK
  <1>8. p \in up' => Ahead(p)'
    BY <1>2, <1>5, <1>6 DEF Ahead, PeerInv
  <1> QED
    BY <1>1, <1>2, <1>3, <1>5, <1>7, <1>8 DEF PeerInv

LEMMA ReadMalformedInv ==
    ASSUME ReaderInv, NEW p \in Peer, ReadMalformed(p)
    PROVE  PeerInv(p)'
  <1> DEFINE s == Stream[p]
             k == taken[p] + 1
  <1>1. GoodStream(s) /\ Len(s) \in Nat
    BY StreamsAreGood
  <1>2. PeerInv(p) /\ DOMAIN taken = Peer
    BY DEF ReaderInv, ReaderTypes, PerPeer
  <1>3. /\ k \in 1 .. Len(s) - 1 /\ s[k] # Magic /\ bufmap[p] = <<>> /\ taken[p] + 1 <= arrived[p]
    BY <1>1, <1>2 DEF ReadMalformed, PeerInv, Avail, NextWord, HeaderLen
  <1>4. taken'[p] = taken[p] + 1 /\ UNCHANGED <<arrived, up, queued, bufmap>>
    BY <1>2 DEF ReadMalformed, peerVars
  <1>5. WordFirst(p)' = k + 1 /\ WordFirst(p) = k
    BY <1>3, <1>4 DEF WordFirst
  <1>6. Parsed(s)[k] = Parsed(s)[k + 1]
    <2>1. k \in 1 .. Len(s) + 1 /\ k < Len(s)
      BY <1>1, <1>3
    <2>2. Parsed(s)[k] = FromWord(Parsed(s), s, k)
      BY <1>1, <2>1, ParsedOK
    <2> QED
      BY <1>1, <1>2, <1>3, <2>1, <2>2 DEF FromWord, PeerInv
  <1>7. p \in up' => Ahead(p)'
    BY <1>2, <1>4, <1>5, <1>6 DEF Ahead, PeerInv
  <1> QED
    BY <1>1, <1>2, <1>3, <1>4, <1>7 DEF PeerInv, BufferOK

\* The peer goes: what was handed over stays.
LEMMA DisconnectInv ==
    ASSUME ReaderInv, NEW p \in Peer, Disconnect(p), UNCHANGED <<arrived, taken, queued>>
    PROVE  PeerInv(p)'
  <1>1. PeerInv(p) /\ DOMAIN bufmap = Peer
    BY DEF ReaderInv, ReaderTypes, PerPeer
  <1>2. bufmap'[p] = <<>> /\ p \notin up'
    BY <1>1 DEF Disconnect
  <1> QED
    BY <1>1, <1>2 DEF PeerInv, BufferOK

LEMMA ReadBodyInv ==
    ASSUME ReaderInv, NEW p \in Peer, ReadBody(p)
    PROVE  PeerInv(p)'
  <1> DEFINE s == Stream[p]
  <1>k. PICK k : k = WordFirst(p)
    OBVIOUS
  <1>1. GoodStream(s) /\ Len(s) \in Nat
    BY StreamsAreGood
  <1>2. /\ PeerInv(p) /\ DOMAIN taken = Peer /\ DOMAIN bufmap = Peer /\ DOMAIN queued = Peer
        /\ bufmap[p] # <<>> /\ Avail(p) > 0 /\ p \in reading /\ p \in up
    BY DEF ReaderInv, ReaderTypes, PerPeer, ReadBody
  <1>3. PICK ln \in Nat, o \in Nat : o < ln /\ bufmap[p] = <<[len |-> ln, offset |-> o]>>
    BY <1>2 DEF PeerInv, BufferOK
  <1>4. bufmap[p][1].len = ln /\ bufmap[p][1].offset = o
    BY <1>3
  <1>n. PICK n : n = IF Avail(p) < ln - o THEN Avail(p) ELSE ln - o
    OBVIOUS
  <1>5. /\ taken' = [taken EXCEPT ![p] = @ + n]
        /\ IF o + n = ln
           THEN /\ queued' = [queued EXCEPT ![p] = Append(@, <<taken[p] + n - ln + 1, taken[p] + n>>)]
                /\ bufmap' = [bufmap EXCEPT ![p] = << >>]
           ELSE /\ bufmap' = [bufmap EXCEPT ![p][1].offset = @ + n]
                /\ UNCHANGED queued
        /\ UNCHANGED <<arrived, up, reading>>
    BY <1>4, <1>n DEF ReadBody, peerVars
  <1>6. /\ n \in Nat /\ n > 0 /\ n <= ln - o /\ taken[p] + n <= arrived[p] /\ taken'[p] = taken[p] + n
    <2>1. /\ arrived[p] \in Nat /\ taken[p] \in Nat /\ taken[p] <= arrived[p]
          /\ Avail(p) = arrived[p] - taken[p]
      BY <1>2 DEF PeerInv, Avail
    <2>2. Avail(p) \in Nat /\ Avail(p) > 0 /\ ln - o \in Nat /\ ln - o > 0
      BY <1>2, <1>3, <2>1
    <2>3. n \in Nat /\ n > 0 /\ n <= ln - o /\ n <= Avail(p)
      <3>1. CASE Avail(p) < ln - o
        BY <1>n, <2>2, <3>1
      <3>2. CASE ~(Avail(p) < ln - o)
        BY <1>n, <2>2, <3>2
      <3> QED
        BY <3>1, <3>2
    <2>4. taken'[p] = taken[p] + n
      BY <1>2, <1>5
    <2> QED
      BY <2>1, <2>3, <2>4
  <1>7. /\ k = taken[p] - o - 1 /\ k \in 1 .. Len(s) - 1 /\ s[k] = Magic /\ s[k + 1] = ln + 2
    BY <1>2, <1>3, <1>4, <1>k DEF WordFirst, PeerInv, BufferOK, HeaderLen
  <1>8. CASE o + n = ln
    <2>1. /\ queued'[p] = Append(queued[p], <<taken[p] + n - ln + 1, taken[p] + n>>)
          /\ bufmap'[p] = <<>>
      BY <1>2, <1>5, <1>8
    <2>a. taken[p] \in Nat /\ arrived[p] \in Nat /\ arrived[p] <= Len(s) /\ k \in Nat /\ s[k + 1] \in Nat
      BY <1>1, <1>2, <1>3, <1>7 DEF PeerInv
    <2>b. n \in Nat /\ taken[p] + n <= arrived[p] /\ k = taken[p] - o - 1 /\ s[k + 1] = ln + 2
      BY <1>6, <1>7
    <2>c. /\ taken[p] + n = k + s[k + 1] - 1 /\ taken[p] + n - ln + 1 = k + 2
          /\ k \in 1 .. Len(s) + 1 /\ k < Len(s) /\ ~(k + s[k + 1] - 1 > Len(s))
          /\ k + s[k + 1] \in 1 .. Len(s) + 1
      <3>1. k >= 1 /\ k <= Len(s) - 1
        BY <1>1, <1>7, <2>a
      <3> QED
        <4>1. taken[p] \in Nat /\ n \in Nat /\ ln \in Nat /\ o \in Nat /\ arrived[p] \in Nat /\ Len(s) \in Nat
          BY <1>1, <2>a, <2>b
        <4>2. k \in Nat /\ s[k + 1] \in Nat
          BY <2>a
        <4>3. k = taken[p] - o - 1 /\ s[k + 1] = ln + 2 /\ o + n = ln
          BY <1>8, <2>b
        <4>4. taken[p] + n <= arrived[p] /\ arrived[p] <= Len(s)
          BY <2>a, <2>b
        <4>5. taken[p] + n = k + s[k + 1] - 1
          <5>1. taken[p] = k + o + 1
            BY <4>1, <4>2, <4>3
          <5>2. s[k + 1] = ln + 2 /\ o + n = ln
            BY <4>3
          <5> QED
            BY <4>1, <4>2, <5>1, <5>2
        <4>6. taken[p] + n - ln + 1 = k + 2
          BY <4>1, <4>2, <4>3
        <4>7. k \in 1 .. Len(s) + 1 /\ k < Len(s)
          BY <4>1, <4>2, <3>1
        <4>8. ~(k + s[k + 1] - 1 > Len(s))
          BY <4>1, <4>2, <4>4, <4>5
        <4>9. k + s[k + 1] \in 1 .. Len(s) + 1
          BY <4>1, <4>2, <4>4, <4>5, <3>1
        <4> QED
          BY <4>5, <4>6, <4>7, <4>8, <4>9
    <2>2. taken[p] + n = k + s[k + 1] - 1 /\ taken[p] + n - ln + 1 = k + HeaderLen
      BY <2>c DEF HeaderLen
    <2>3. /\ k \in 1 .. Len(s) + 1 /\ k < Len(s) /\ ~(k + s[k + 1] - 1 > Len(s))
          /\ k + s[k + 1] \in 1 .. Len(s) + 1
      BY <2>c
    <2> DEFINE x == <<k + HeaderLen, k + s[k + 1] - 1>>
               r == Parsed(s)[k + s[k + 1]]
    <2>4. Parsed(s)[k] = <<x>> \o r
      <3>1. Parsed(s)[k] = FromWord(Parsed(s), s, k)
        BY <1>1, <2>3, ParsedOK
      <3> QED
        <4>1. ~(k >= Len(s))
          BY <1>1, <2>3, <2>a
        <4>2. ~(k + s[k + 1] - 1 > Len(s))
          BY <2>3
        <4> QED
          BY <1>7, <3>1, <4>1, <4>2, Zenon DEF FromWord
    <2>5. r \in Bodies /\ x \in Nat \X Nat
      <3>1. Parsed(s) \in [1 .. Len(s) + 1 -> Bodies]
        BY <1>1, ParsedOK
      <3>2. r \in Bodies
        BY <2>3, <3>1
      <3>3. x \in Nat \X Nat
        <4>1. k + HeaderLen \in Nat
          BY <2>a DEF HeaderLen
        <4>2. k + s[k + 1] - 1 \in Nat
          BY <1>7, <2>a
        <4> QED
          BY <4>1, <4>2
      <3> QED
        BY <3>2, <3>3
    <2>6. queued'[p] = Append(queued[p], x)
      BY <2>1, <2>2
    <2> HIDE DEF x
    <2>7. Messages(s) = queued[p] \o (<<x>> \o r)
      BY <1>2, <1>k, <2>4 DEF PeerInv, Ahead
    <2> HIDE DEF r
    <2>8. queued'[p] \in Bodies /\ Messages(s) = queued'[p] \o r
      <3>1. queued[p] \in Bodies
        BY <1>2 DEF PeerInv
      <3>2. Append(queued[p], x) \in Bodies /\ queued[p] \o (<<x>> \o r) = Append(queued[p], x) \o r
        BY <2>5, <3>1, OneMore, Zenon
      <3> QED
        BY <2>6, <2>7, <3>2
    <2>9. PrefixOf(queued'[p], Messages(s))
      <3>1. \A m : m = queued'[p] \o r => PrefixOf(queued'[p], m)
        BY <2>5, <2>8, PrefixOfConcat
      <3> QED
        BY <2>8, <3>1
    <2>10. WordFirst(p)' = k + s[k + 1]
      BY <1>1, <1>2, <1>6, <1>7, <1>3, <2>1, <2>2 DEF WordFirst, PeerInv
    <2>11. Ahead(p)'
      BY <2>8, <2>10 DEF Ahead, r
    <2>12. BufferOK(p)'
      BY <2>1 DEF BufferOK
    <2>13. /\ arrived'[p] \in Nat /\ taken'[p] \in Nat /\ taken'[p] <= arrived'[p]
           /\ arrived'[p] <= Len(Stream[p])
      BY <1>5, <1>6, <2>a
    <2> QED
      BY <2>8, <2>9, <2>11, <2>12, <2>13 DEF PeerInv
  <1>9. CASE o + n # ln
    <2>1. bufmap'[p] = <<[len |-> ln, offset |-> o + n]>> /\ queued'[p] = queued[p]
      <3>1. bufmap'[p] = [bufmap[p] EXCEPT ![1].offset = o + n]
        BY <1>2, <1>4, <1>5, <1>9
      <3>2. [bufmap[p] EXCEPT ![1].offset = o + n] = <<[len |-> ln, offset |-> o + n]>>
        BY <1>3
      <3> QED
        BY <1>5, <1>9, <3>1, <3>2
    <2>2. o + n \in Nat /\ o + n < ln
      BY <1>3, <1>6, <1>9
    <2>3. WordFirst(p)' = k
      BY <1>2, <1>3, <1>6, <1>7, <2>1 DEF WordFirst, PeerInv, HeaderLen
    <2>4. BufferOK(p)'
      <3>1. \E ll \in Nat, oo \in Nat : oo < ll /\ bufmap'[p] = <<[len |-> ll, offset |-> oo]>>
        BY <2>1, <2>2
      <3>2. /\ p \in reading' /\ WordFirst(p)' \in 1 .. Len(s) - 1 /\ s[WordFirst(p)'] = Magic
            /\ s[WordFirst(p)' + 1] = bufmap'[p][1].len + HeaderLen
        BY <1>2, <1>5, <1>7, <2>1, <2>3 DEF HeaderLen
      <3> QED
        BY <3>1, <3>2 DEF BufferOK
    <2>5. Ahead(p)'
      BY <1>2, <1>k, <2>1, <2>3 DEF Ahead, PeerInv
    <2> QED
      BY <1>2, <1>5, <1>6, <2>1, <2>4, <2>5 DEF PeerInv
  <1> QED
    BY <1>8, <1>9

LEMMA ReaderNextInv ==
    ASSUME ReaderInv, [Next]_vars
    PROVE  ReaderInv'
  <1>0. ReaderTypes /\ \A q \in Peer : PeerInv(q)
    BY DEF ReaderInv
  <1>a. \A q \in Peer : arrived[q] \in Nat /\ arrived[q] <= Len(Stream[q]) /\ (q \notin reading => bufmap[q] = <<>>)
    BY <1>0 DEF PeerInv, BufferOK
  <1>1. CASE UNCHANGED vars
    <2>1. ReaderTypes'
      BY <1>0, <1>1 DEF ReaderTypes, PerPeer, vars
    <2>2. ASSUME NEW q \in Peer
          PROVE  PeerInv(q)'
      BY <1>0, <1>a, <1>1, OtherPeers DEF vars
    <2> QED
      BY <2>1, <2>2 DEF ReaderInv
  <1>2. ASSUME NEW p \in Peer, Arrive(p)
        PROVE  ReaderInv'
    <2>1. PICK n \in arrived[p] + 1 .. Len(Stream[p]) : arrived' = [arrived EXCEPT ![p] = n]
      BY <1>2 DEF Arrive
    <2>2. UNCHANGED <<taken, closed, up, bufmap, queued, reading, firstRead>> /\ edge' = edge \cup {p}
      BY <1>2 DEF Arrive
    <2>3. ReaderTypes'
      BY <1>0, <2>1, <2>2 DEF ReaderTypes, PerPeer
    <2>4. ASSUME NEW q \in Peer
          PROVE  PeerInv(q)'
      <3>1. arrived'[q] \in Nat /\ arrived'[q] >= arrived[q] /\ arrived'[q] <= Len(Stream[q])
        <4>1. CASE q = p
          <5>1. arrived'[q] = n
            BY <1>0, <2>1, <4>1 DEF ReaderTypes, PerPeer
          <5>2. n \in Nat /\ n >= arrived[p] /\ n <= Len(Stream[p])
            BY <1>a, <2>1, StreamsAreGood
          <5> QED
            BY <4>1, <5>1, <5>2
        <4>2. CASE q # p
          BY <1>0, <1>a, <2>1, <4>2 DEF ReaderTypes, PerPeer
        <4> QED
          BY <4>1, <4>2
      <3> QED
        BY <1>0, <2>2, <3>1, OtherPeers
    <2> QED
      BY <2>3, <2>4 DEF ReaderInv
  <1>3. ASSUME NEW p \in Peer, Close(p)
        PROVE  ReaderInv'
    <2>1. UNCHANGED <<arrived, taken, up, bufmap, queued, reading, firstRead>>
          /\ edge' = edge \cup {p} /\ closed' = closed \cup {p}
      BY <1>3 DEF Close
    <2>2. ReaderTypes'
      BY <1>0, <2>1 DEF ReaderTypes, PerPeer
    <2>3. ASSUME NEW q \in Peer
          PROVE  PeerInv(q)'
      BY <1>0, <1>a, <2>1, OtherPeers
    <2> QED
      BY <2>2, <2>3 DEF ReaderInv
  <1>4. ASSUME NEW p \in Peer, EpollWait(p)
        PROVE  ReaderInv'
    <2>1. /\ reading = {} /\ reading' = {p} /\ firstRead' = TRUE /\ edge' = edge \ {p} /\ p \in up
          /\ UNCHANGED <<arrived, closed, taken, up, bufmap, queued>>
      BY <1>4 DEF EpollWait, peerVars
    <2>2. ReaderTypes'
      BY <1>0, <2>1 DEF ReaderTypes, PerPeer
    <2>3. ASSUME NEW q \in Peer
          PROVE  PeerInv(q)'
      BY <1>0, <1>a, <2>1, OtherPeers
    <2> QED
      BY <2>2, <2>3 DEF ReaderInv
  <1>5. ASSUME NEW p \in Peer, p \in reading, PeerInv(p)', ReaderTypes',
               arrived' = arrived, up' \subseteq up,
               \A q \in Peer \ {p} : taken'[q] = taken[q] /\ bufmap'[q] = bufmap[q] /\ queued'[q] = queued[q]
        PROVE  ReaderInv'
    <2>1. reading = {p}
      BY <1>0, <1>5 DEF ReaderTypes, PerPeer
    <2>2. ASSUME NEW q \in Peer \ {p}
          PROVE  PeerInv(q)'
      <3>1. bufmap[q] = <<>>
        BY <1>a, <2>1
      <3>2. arrived'[q] \in Nat /\ arrived'[q] >= arrived[q] /\ arrived'[q] <= Len(Stream[q])
        BY <1>a, <1>5
      <3> QED
        BY <1>0, <1>5, <3>1, <3>2, OtherPeers
    <2> QED
      BY <1>5, <2>2 DEF ReaderInv
  <1>6. ASSUME NEW p \in Peer, ReadHeader(p)
        PROVE  ReaderInv'
    <2>1. ReaderTypes'
      BY <1>0, <1>6 DEF ReaderTypes, PerPeer, ReadHeader, peerVars
    <2>2. PeerInv(p)'
      BY <1>6, ReadHeaderInv
    <2> QED
      BY <1>0, <1>5, <1>6, <2>1, <2>2 DEF ReadHeader, peerVars, ReaderTypes, PerPeer
  <1>7. ASSUME NEW p \in Peer, ReadMalformed(p)
        PROVE  ReaderInv'
    <2>1. ReaderTypes'
      BY <1>0, <1>7 DEF ReaderTypes, PerPeer, ReadMalformed, peerVars
    <2>2. PeerInv(p)'
      BY <1>7, ReadMalformedInv
    <2> QED
      BY <1>0, <1>5, <1>7, <2>1, <2>2 DEF ReadMalformed, peerVars, ReaderTypes, PerPeer
  <1>8. ASSUME NEW p \in Peer, ReadShort(p) \/ ReadEof(p)
        PROVE  ReaderInv'
    <2>1. /\ p \in reading /\ reading' = {} /\ UNCHANGED <<arrived, closed, taken, queued, firstRead>>
          /\ Disconnect(p) \/ UNCHANGED <<up, bufmap, edge>>
      BY <1>8 DEF ReadShort, ReadEof, peerVars
    <2>2. ReaderTypes'
      BY <1>0, <2>1 DEF ReaderTypes, PerPeer, Disconnect
    <2>3. CASE Disconnect(p)
      <3>1. PeerInv(p)'
        BY <2>1, <2>3, DisconnectInv
      <3> QED
        BY <1>0, <1>5, <2>1, <2>2, <2>3, <3>1 DEF Disconnect, ReaderTypes, PerPeer
    <2>4. CASE UNCHANGED <<up, bufmap, edge>> /\ ~Disconnect(p)
      <3>1. bufmap[p] = <<>>
        BY <1>8, <2>4 DEF ReadShort, ReadEof
      <3>2. PeerInv(p)'
        BY <1>0, <1>a, <2>1, <2>4, <3>1, OtherPeers
      <3> QED
        BY <1>0, <1>5, <2>1, <2>2, <2>4, <3>2
    <2> QED
      BY <2>1, <2>3, <2>4
  <1>9. ASSUME NEW p \in Peer, ReadBody(p)
        PROVE  ReaderInv'
    <2>1. /\ p \in reading /\ UNCHANGED <<arrived, closed, edge, up, reading, firstRead>>
      BY <1>9 DEF ReadBody, peerVars
    <2>2. \E n, m, b :
             /\ taken' = [taken EXCEPT ![p] = n]
             /\ bufmap' = [bufmap EXCEPT ![p] = b]
             /\ queued' = [queued EXCEPT ![p] = m]
      <3> DEFINE b == bufmap[p][1]
                 n == IF Avail(p) < b.len - b.offset THEN Avail(p) ELSE b.len - b.offset
      <3>1. taken' = [taken EXCEPT ![p] = taken[p] + n]
        BY <1>0, <1>9 DEF ReadBody, ReaderTypes, PerPeer
      <3>2. CASE b.offset + n = b.len
        <4>1. /\ bufmap' = [bufmap EXCEPT ![p] = << >>]
              /\ queued' = [queued EXCEPT ![p] = Append(@, <<taken[p] + n - b.len + 1, taken[p] + n>>)]
          BY <1>9, <3>2, Zenon DEF ReadBody
        <4>2. queued' = [queued EXCEPT ![p] = Append(queued[p], <<taken[p] + n - b.len + 1, taken[p] + n>>)]
          BY <4>1
        <4> QED
          BY <3>1, <4>1, <4>2, Zenon
      <3>3. CASE b.offset + n # b.len
        <4>1. bufmap' = [bufmap EXCEPT ![p][1].offset = @ + n] /\ queued' = queued
          BY <1>9, <3>3, Zenon DEF ReadBody
        <4>2. bufmap' = [bufmap EXCEPT ![p] = [bufmap[p] EXCEPT ![1].offset = bufmap[p][1].offset + n]]
          BY <1>0, <4>1 DEF ReaderTypes, PerPeer
        <4>3. queued' = [queued EXCEPT ![p] = queued[p]]
          BY <1>0, <4>1 DEF ReaderTypes, PerPeer
        <4> QED
          BY <3>1, <4>2, <4>3, Zenon
      <3> QED
        BY <3>2, <3>3
    <2>3. ReaderTypes'
      BY <1>0, <2>1, <2>2 DEF ReaderTypes, PerPeer
    <2>4. PeerInv(p)'
      BY <1>9, ReadBodyInv
    <2> QED
      BY <1>0, <1>5, <2>1, <2>2, <2>3, <2>4 DEF ReaderTypes, PerPeer
  <1> QED
    BY <1>1, <1>2, <1>3, <1>4, <1>6, <1>7, <1>8, <1>9 DEF Next, NetThread

\* Messages, whole and in order, are what is handed over of any streams, however they are
\* cut and interleaved and wherever words that belong to no message come between them; and
\* nothing is half assembled when the thread polls.
THEOREM ReaderSound == Spec => []ReassemblyIsRight
  <1>1. Init => ReaderInv
    <2> SUFFICES ASSUME Init, NEW p \in Peer
                 PROVE  ReaderTypes /\ PeerInv(p)
      BY DEF ReaderInv, ReaderTypes, PerPeer, Init
    <2>1. ReaderTypes
      BY DEF Init, ReaderTypes, PerPeer
    <2>2. /\ arrived[p] = 0 /\ taken[p] = 0 /\ bufmap[p] = <<>> /\ queued[p] = <<>>
      BY DEF Init
    <2>3. WordFirst(p) = 1
      BY <2>2 DEF WordFirst
    <2> DEFINE s == Stream[p]
               r == Parsed(s)[1]
    <2>4. Messages(s) = r /\ r \in Bodies
      BY StreamsAreGood, ParsedOK
    <2>5. <<>> \in Bodies /\ <<>> \o r = r
      BY <2>4, ConcatEmptySeq DEF Bodies
    <2> HIDE DEF r
    <2>6. PrefixOf(<<>>, Messages(s))
      <3>1. \A m : m = <<>> \o r => PrefixOf(<<>>, m)
        BY <2>4, <2>5, PrefixOfConcat
      <3> QED
        BY <2>4, <2>5, <3>1
    <2>7. Ahead(p)
      BY <2>2, <2>3, <2>4, <2>5 DEF Ahead, r
    <2> QED
      BY <2>1, <2>2, <2>5, <2>6, <2>7, StreamsAreGood DEF PeerInv, BufferOK
  <1>2. ReaderInv => ReassemblyIsRight
    <2> SUFFICES ASSUME ReaderInv
                 PROVE  ReassemblyIsRight
      OBVIOUS
    <2>0. ReaderTypes /\ \A p \in Peer : PeerInv(p)
      BY DEF ReaderInv
    <2>1. TypeOK
      <3>1. arrived \in [Peer -> Nat] /\ taken \in [Peer -> Nat]
        BY <2>0 DEF ReaderTypes, PerPeer, PeerInv
      <3>2. \A p \in Peer : bufmap[p] = << >> \/ bufmap[p][1].len > bufmap[p][1].offset
        <4> SUFFICES ASSUME NEW p \in Peer, bufmap[p] # <<>>
                     PROVE  bufmap[p][1].len > bufmap[p][1].offset
          OBVIOUS
        <4>1. PICK ln \in Nat, o \in Nat : o < ln /\ bufmap[p] = <<[len |-> ln, offset |-> o]>>
          BY <2>0 DEF PeerInv, BufferOK
        <4>2. bufmap[p][1].len = ln /\ bufmap[p][1].offset = o
          BY <4>1
        <4> QED
          BY <4>1, <4>2
      <3>3. reading \in {{}} \cup {{p} : p \in Peer}
        BY <2>0 DEF ReaderTypes, PerPeer
      <3>4. \A p \in Peer : taken[p] <= arrived[p] /\ arrived[p] <= Len(Stream[p])
        BY <2>0 DEF PeerInv
      <3> QED
        BY <2>0, <3>1, <3>2, <3>3, <3>4 DEF TypeOK, ReaderTypes, PerPeer
    <2>2. Framing
      BY <2>0 DEF PeerInv, PrefixOf, Framing
    <2>3. NoPartialAtPoll
      BY <2>0 DEF PeerInv, BufferOK, NoPartialAtPoll
    <2> QED
      BY <2>1, <2>2, <2>3 DEF ReassemblyIsRight
  <1> QED
    BY <1>1, <1>2, ReaderNextInv, PTL DEF Spec

-----------------------------------------------------------------------------
(***************************************************************************)
(* Operators on arrays.  A loop over the elements of a column, or over the *)
(* columns, is a fold of the community modules, a function of sets of      *)
(* positions.  Turn is one turn of any of these loops; d says which.       *)
(***************************************************************************)
PushTurn(d, v, i) == push_back(v, d.s[i])
SetTurn(d, v, i) == setv_checkbefore(v, i, d.g[i])
ElemTurn(d, s, i) ==
  IF i > Len(d.w) THEN [s EXCEPT !.threw = TRUE]
  ELSE [s EXCEPT !.v = setv_checkbefore(@, i, Elem(d.op, @.e[i], d.w[i]))]
OneColumn(d, c) == IF Size(d.u) = 1 THEN Copies(Len(d.t.v[c].e), d.u.v[1].e[1]) ELSE d.u.v[c].e
ColumnTurn(d, s, c) ==
  CASE s.threw -> s
    [] ~s.threw /\ Size(d.u) # 1 /\ c > Len(d.u.v) -> Thrown(s)
    [] OTHER -> LET r == apply_column(d.t.v[c], OneColumn(d, c), d.op)
                IN  [s EXCEPT !.v = [@ EXCEPT ![c] = r.v], !.threw = r.threw]

Turn(d, s, i) ==
  CASE d.what = "push"    -> PushTurn(d, s, i)
    [] d.what = "set"     -> SetTurn(d, s, i)
    [] d.what = "elem"    -> ElemTurn(d, s, i)
    [] d.what = "columns" -> ColumnTurn(d, s, i)

ElemStart(v) == [v |-> [v EXCEPT !.ordered = TRUE], threw |-> FALSE]
ColumnsStart(t) == [t EXCEPT !.v = @ \o <<>>]

\* What the fold over 1 .. n is defined by, on sets of positions, and the turns it stands for.
RunsOn(g, d, z, n) ==
  g = [t \in SUBSET (1 .. n) |-> IF t = {} THEN z ELSE Turn(d, g[t \ {Max(t)}], Max(t))]
Run(f, d, z, n) == f[0] = z /\ \A k \in 0 .. n - 1 : f[k + 1] = Turn(d, f[k], k + 1)

LEMMA GreatestIs ==
    ASSUME NEW n \in Nat, NEW S \in SUBSET (1 .. n), S # {}
    PROVE  Max(S) \in S /\ \A i \in S : i <= Max(S)
  <1> DEFINE D == {n - i : i \in S}
  <1>1. D \in SUBSET Nat /\ D # {}
    <2>1. \A i \in S : i \in 1 .. n /\ n - i \in Nat
      OBVIOUS
    <2> QED
      BY <2>1
  <1>2. PICK d \in D : \A e \in D : d <= e
    <2> HIDE DEF D
    <2> QED
      BY <1>1, LeastNumber
  <1>3. PICK m \in S : d = n - m
    BY <1>2
  <1>4. \A i \in S : m >= i
    <2> TAKE i \in S
    <2>1. n - m <= n - i
      BY <1>2, <1>3
    <2> QED
      BY <2>1
  <1>5. Max(S) \in S /\ \A i \in S : Max(S) >= i
    BY <1>4 DEF Max
  <1> QED
    BY <1>5

LEMMA GreatestUpTo ==
    ASSUME NEW k \in Nat
    PROVE  Max(1 .. k + 1) = k + 1 /\ (1 .. k + 1) \ {k + 1} = 1 .. k
  <1> DEFINE m == Max(1 .. k + 1)
  <1>1. m \in 1 .. k + 1 /\ \A i \in 1 .. k + 1 : i <= m
    <2> DEFINE n == k + 1
               D == 1 .. n
    <2>1. n \in Nat /\ D \in SUBSET (1 .. n) /\ D # {}
      OBVIOUS
    <2> HIDE DEF n, D
    <2>2. Max(D) \in D /\ \A i \in D : i <= Max(D)
      BY <2>1, GreatestIs
    <2> QED
      BY <2>2 DEF D, n
  <1> HIDE DEF m
  <1>2. m = k + 1
    BY <1>1
  <1> QED
    BY <1>2 DEF m

LEMMA RunExists ==
    ASSUME NEW n \in Nat, NEW z, NEW d
    PROVE  \E g : RunsOn(g, d, z, n)
  <1> DEFINE E(g, t) == IF t = {} THEN z ELSE Turn(d, g[t \ {Max(t)}], Max(t))
             I == {k \in Nat : k <= n => \E g : RunsOn(g, d, z, k)}
  <1>1. 0 \in I
    <2> DEFINE g == [t \in SUBSET (1 .. 0) |-> z]
    <2>1. \A t \in SUBSET (1 .. 0) : t = {}
      OBVIOUS
    <2>2. g = [t \in SUBSET (1 .. 0) |-> E(g, t)]
      BY <2>1
    <2>3. RunsOn(g, d, z, 0)
      BY <2>2, Zenon DEF RunsOn
    <2> QED
      BY <2>3
  <1>2. ASSUME NEW k \in Nat, k \in I
        PROVE  k + 1 \in I
    <2> SUFFICES ASSUME k + 1 <= n
                 PROVE  \E g : RunsOn(g, d, z, k + 1)
      OBVIOUS
    <2>0. PICK g : RunsOn(g, d, z, k)
      BY <1>2
    <2>1. g = [t \in SUBSET (1 .. k) |-> E(g, t)]
      BY <2>0, Zenon DEF RunsOn
    <2> DEFINE h == [t \in SUBSET (1 .. k + 1) |-> E(g, t)]
    <2>2. ASSUME NEW t \in SUBSET (1 .. k)
          PROVE  h[t] = g[t]
      <3>1. t \in SUBSET (1 .. k + 1)
        OBVIOUS
      <3> HIDE DEF E
      <3>2. h[t] = E(g, t) /\ g[t] = E(g, t)
        BY <2>1, <3>1
      <3> QED
        BY <3>2
    <2>3. ASSUME NEW t \in SUBSET (1 .. k + 1)
          PROVE  E(g, t) = E(h, t)
      <3>1. CASE t = {}
        BY <3>1
      <3>2. CASE t # {}
        <4> DEFINE m == Max(t)
        <4>1. m \in t /\ \A i \in t : i <= m
          <5>1. k + 1 \in Nat
            OBVIOUS
          <5> QED
            BY <3>2, <5>1, GreatestIs
        <4> HIDE DEF m, h
        <4>2. t \ {m} \in SUBSET (1 .. k)
          BY <4>1
        <4>3. h[t \ {m}] = g[t \ {m}]
          BY <2>2, <4>2
        <4> QED
          BY <3>2, <4>3 DEF m
      <3> QED
        BY <3>1, <3>2
    <2> HIDE DEF E
    <2>4. h = [t \in SUBSET (1 .. k + 1) |-> E(h, t)]
      <3> DEFINE T == SUBSET (1 .. k + 1)
                 q == h
      <3>1. \A t \in T : E(g, t) = E(q, t)
        BY <2>3
      <3>2. q = [t \in T |-> E(g, t)]
        OBVIOUS
      <3> HIDE DEF q, T
      <3>3. [t \in T |-> E(g, t)] = [t \in T |-> E(q, t)]
        BY <3>1
      <3>4. q = [t \in T |-> E(q, t)]
        BY <3>2, <3>3, Zenon
      <3> QED
        BY <3>4 DEF q, T
    <2>5. RunsOn(h, d, z, k + 1)
      BY <2>4, Zenon DEF RunsOn, E
    <2> QED
      BY <2>5
  <1>3. n \in I
    <2> HIDE DEF I
    <2> QED
      BY <1>1, <1>2, SetInduction
  <1> QED
    BY <1>3

LEMMA RunSteps ==
    ASSUME NEW n \in Nat, NEW z, NEW d, NEW g, RunsOn(g, d, z, n)
    PROVE  \E f : Run(f, d, z, n) /\ f[n] = g[1 .. n]
  <1> DEFINE E(t) == IF t = {} THEN z ELSE Turn(d, g[t \ {Max(t)}], Max(t))
             f == [k \in 0 .. n |-> g[1 .. k]]
  <1>1. \A t \in SUBSET (1 .. n) : g[t] = E(t)
    <2>1. g = [t \in SUBSET (1 .. n) |-> E(t)]
      BY Zenon DEF RunsOn
    <2> HIDE DEF E
    <2> QED
      BY <2>1
  <1>2. f[0] = z
    <2>1. 1 .. 0 = {} /\ 1 .. 0 \in SUBSET (1 .. n)
      OBVIOUS
    <2>2. f[0] = g[1 .. 0]
      OBVIOUS
    <2>3. E({}) = z
      OBVIOUS
    <2> HIDE DEF f, E
    <2> QED
      BY <1>1, <2>1, <2>2, <2>3
  <1>3. ASSUME NEW k \in 0 .. n - 1
        PROVE  f[k + 1] = Turn(d, f[k], k + 1)
    <2>1. Max(1 .. k + 1) = k + 1 /\ (1 .. k + 1) \ {k + 1} = 1 .. k
      <3>1. k \in Nat
        OBVIOUS
      <3> QED
        BY <3>1, GreatestUpTo
    <2>2. 1 .. k + 1 \in SUBSET (1 .. n) /\ 1 .. k + 1 # {}
      OBVIOUS
    <2>3. f[k + 1] = g[1 .. k + 1] /\ f[k] = g[1 .. k]
      OBVIOUS
    <2> DEFINE t == 1 .. k + 1
    <2>4. g[t] = E(t)
      <3> HIDE DEF E
      <3> QED
        BY <1>1, <2>2
    <2>5. E(t) = Turn(d, g[t \ {Max(t)}], Max(t))
      <3> HIDE DEF t
      <3> QED
        BY <2>2 DEF t
    <2> HIDE DEF E, f
    <2> QED
      BY <2>1, <2>3, <2>4, <2>5
  <1>4. f[n] = g[1 .. n]
    OBVIOUS
  <1> HIDE DEF f
  <1>5. Run(f, d, z, n)
    BY <1>2, <1>3 DEF Run
  <1> QED
    BY <1>4, <1>5

LEMMA PushRun ==
    ASSUME NEW n \in Nat, NEW v, NEW q, DOMAIN q = 1 .. n
    PROVE  \E f : /\ Run(f, [what |-> "push", s |-> q], v, n)
                  /\ f[n] = PushAll(v, q)
  <1> DEFINE d == [what |-> "push", s |-> q]
             B(s, i) == push_back(s, q[i])
             E(g, t) == IF t = {} THEN v ELSE B(g[t \ {Max(t)}], Max(t))
             Solves(g) == g = [t \in SUBSET (1 .. n) |-> E(g, t)]
             h == CHOOSE g : Solves(g)
  <1>1. \A s, i : i \in 1 .. n => B(s, i) = Turn(d, s, i)
    BY DEF Turn, PushTurn
  <1>2. PushAll(v, q) = h[1 .. n]
    BY DEF PushAll, FoldLeft, MapThenFoldSet
  <1> HIDE DEF B, d
  <1>3. \A g, t : t \in SUBSET (1 .. n) =>
          E(g, t) = IF t = {} THEN v ELSE Turn(d, g[t \ {Max(t)}], Max(t))
    <2> SUFFICES ASSUME NEW g, NEW t \in SUBSET (1 .. n), t # {}
                 PROVE  B(g[t \ {Max(t)}], Max(t)) = Turn(d, g[t \ {Max(t)}], Max(t))
      BY Zenon
    <2>1. Max(t) \in 1 .. n
      <3>1. Max(t) \in t
        BY GreatestIs
      <3> QED
        BY <3>1
    <2> QED
      BY <1>1, <2>1
  <1>4. \A g : Solves(g) <=> RunsOn(g, d, v, n)
    <2> TAKE g
    <2> DEFINE T == SUBSET (1 .. n)
               G(t) == E(g, t)
               H(t) == IF t = {} THEN v ELSE Turn(d, g[t \ {Max(t)}], Max(t))
    <2>1. \A t \in T : G(t) = H(t)
      BY <1>3, Zenon
    <2>2. [t \in T |-> G(t)] = [t \in T |-> H(t)]
      <3> HIDE DEF G, H, T
      <3> QED
        BY <2>1
    <2> QED
      BY <2>2, Zenon DEF RunsOn
  <1>5. \E g : Solves(g)
    <2>1. \E g : RunsOn(g, d, v, n)
      BY RunExists
    <2> HIDE DEF Solves
    <2> QED
      BY <1>4, <2>1, Zenon
  <1>6. RunsOn(h, d, v, n)
    <2>1. Solves(h)
      <3> HIDE DEF Solves
      <3> QED
        BY <1>5, Zenon DEF h
    <2> HIDE DEF Solves, h
    <2> QED
      BY <1>4, <2>1, Zenon
  <1> HIDE DEF h
  <1>7. \E f : Run(f, d, v, n) /\ f[n] = h[1 .. n]
    BY <1>6, RunSteps
  <1> QED
    BY <1>2, <1>7, Zenon DEF d

LEMMA SetRun ==
    ASSUME NEW n \in Nat, NEW v, NEW q, DOMAIN v.e = 1 .. n
    PROVE  \E f : /\ Run(f, [what |-> "set", g |-> q], v, n)
                  /\ f[n] = setv_all(v, q)
  <1> DEFINE d == [what |-> "set", g |-> q]
             B(s, i) == setv_checkbefore(s, i, q[i])
             rows == [j \in DOMAIN v.e |-> j]
             E(g, t) == IF t = {} THEN v ELSE B(g[t \ {Max(t)}], rows[Max(t)])
             Solves(g) == g = [t \in SUBSET (DOMAIN rows) |-> E(g, t)]
             h == CHOOSE g : Solves(g)
  <1>1. \A s, i : i \in 1 .. n => B(s, i) = Turn(d, s, i)
    BY DEF Turn, SetTurn
  <1>2. setv_all(v, q) = h[DOMAIN rows]
    BY DEF setv_all, FoldLeftDomain, FoldLeft, MapThenFoldSet
  <1>8. DOMAIN rows = 1 .. n /\ \A i \in 1 .. n : rows[i] = i
    OBVIOUS
  <1> HIDE DEF B, d, rows
  <1>3. \A g, t : t \in SUBSET (1 .. n) =>
          E(g, t) = IF t = {} THEN v ELSE Turn(d, g[t \ {Max(t)}], Max(t))
    <2> SUFFICES ASSUME NEW g, NEW t \in SUBSET (1 .. n), t # {}
                 PROVE  B(g[t \ {Max(t)}], rows[Max(t)]) = Turn(d, g[t \ {Max(t)}], Max(t))
      BY Zenon
    <2>1. Max(t) \in 1 .. n
      <3>1. Max(t) \in t
        BY GreatestIs
      <3> QED
        BY <3>1
    <2>2. rows[Max(t)] = Max(t)
      BY <1>8, <2>1
    <2> QED
      BY <1>1, <2>1, <2>2
  <1>4. \A g : Solves(g) <=> RunsOn(g, d, v, n)
    <2> TAKE g
    <2> DEFINE T == SUBSET (1 .. n)
               G(t) == E(g, t)
               H(t) == IF t = {} THEN v ELSE Turn(d, g[t \ {Max(t)}], Max(t))
    <2>1. \A t \in T : G(t) = H(t)
      BY <1>3, Zenon
    <2>2. [t \in T |-> G(t)] = [t \in T |-> H(t)]
      <3> HIDE DEF G, H, T
      <3> QED
        BY <2>1
    <2> QED
      BY <1>8, <2>2, Zenon DEF RunsOn
  <1>5. \E g : Solves(g)
    <2>1. \E g : RunsOn(g, d, v, n)
      BY RunExists
    <2> HIDE DEF Solves
    <2> QED
      BY <1>4, <2>1, Zenon
  <1>6. RunsOn(h, d, v, n)
    <2>1. Solves(h)
      <3> HIDE DEF Solves
      <3> QED
        BY <1>5, Zenon DEF h
    <2> HIDE DEF Solves, h
    <2> QED
      BY <1>4, <2>1, Zenon
  <1> HIDE DEF h
  <1>7. \E f : Run(f, d, v, n) /\ f[n] = h[1 .. n]
    BY <1>6, RunSteps
  <1> QED
    BY <1>8, <1>2, <1>7, Zenon DEF d

LEMMA ElemRun ==
    ASSUME NEW n \in Nat, NEW v, NEW w, NEW op, DOMAIN v.e = 1 .. n
    PROVE  \E f : /\ Run(f, [what |-> "elem", w |-> w, op |-> op], ElemStart(v), n)
                  /\ f[n] = apply_column(v, w, op)
  <1> DEFINE d == [what |-> "elem", w |-> w, op |-> op]
             B(s, i) == IF i > Len(w) THEN [s EXCEPT !.threw = TRUE]
                        ELSE [s EXCEPT !.v = setv_checkbefore(@, i, Elem(op, @.e[i], w[i]))]
             rows == [j \in DOMAIN v.e |-> j]
             E(g, t) == IF t = {} THEN ElemStart(v) ELSE B(g[t \ {Max(t)}], rows[Max(t)])
             Solves(g) == g = [t \in SUBSET (DOMAIN rows) |-> E(g, t)]
             h == CHOOSE g : Solves(g)
  <1>1. \A s, i : i \in 1 .. n => B(s, i) = Turn(d, s, i)
    BY DEF Turn, ElemTurn
  <1>2. apply_column(v, w, op) = h[DOMAIN rows]
    BY DEF apply_column, ElemStart, FoldLeftDomain, FoldLeft, MapThenFoldSet
  <1>8. DOMAIN rows = 1 .. n /\ \A i \in 1 .. n : rows[i] = i
    OBVIOUS
  <1> HIDE DEF B, d, rows
  <1>3. \A g, t : t \in SUBSET (1 .. n) =>
          E(g, t) = IF t = {} THEN ElemStart(v) ELSE Turn(d, g[t \ {Max(t)}], Max(t))
    <2> SUFFICES ASSUME NEW g, NEW t \in SUBSET (1 .. n), t # {}
                 PROVE  B(g[t \ {Max(t)}], rows[Max(t)]) = Turn(d, g[t \ {Max(t)}], Max(t))
      BY Zenon
    <2>1. Max(t) \in 1 .. n
      <3>1. Max(t) \in t
        BY GreatestIs
      <3> QED
        BY <3>1
    <2>2. rows[Max(t)] = Max(t)
      BY <1>8, <2>1
    <2> QED
      BY <1>1, <2>1, <2>2
  <1>4. \A g : Solves(g) <=> RunsOn(g, d, ElemStart(v), n)
    <2> TAKE g
    <2> DEFINE T == SUBSET (1 .. n)
               G(t) == E(g, t)
               H(t) == IF t = {} THEN ElemStart(v) ELSE Turn(d, g[t \ {Max(t)}], Max(t))
    <2>1. \A t \in T : G(t) = H(t)
      BY <1>3, Zenon
    <2>2. [t \in T |-> G(t)] = [t \in T |-> H(t)]
      <3> HIDE DEF G, H, T
      <3> QED
        BY <2>1
    <2> QED
      BY <1>8, <2>2, Zenon DEF RunsOn
  <1>5. \E g : Solves(g)
    <2>1. \E g : RunsOn(g, d, ElemStart(v), n)
      BY RunExists
    <2> HIDE DEF Solves
    <2> QED
      BY <1>4, <2>1, Zenon
  <1>6. RunsOn(h, d, ElemStart(v), n)
    <2>1. Solves(h)
      <3> HIDE DEF Solves
      <3> QED
        BY <1>5, Zenon DEF h
    <2> HIDE DEF Solves, h
    <2> QED
      BY <1>4, <2>1, Zenon
  <1> HIDE DEF h
  <1>7. \E f : Run(f, d, ElemStart(v), n) /\ f[n] = h[1 .. n]
    BY <1>6, RunSteps
  <1> QED
    BY <1>8, <1>2, <1>7, Zenon DEF d

LEMMA ColumnsRun ==
    ASSUME NEW n \in Nat, NEW y, NEW u, NEW op, DOMAIN y.v = 1 .. n
    PROVE  \E f : /\ Run(f, [what |-> "columns", t |-> y, u |-> u, op |-> op], ColumnsStart(y), n)
                  /\ f[n] = apply_inplace(y, u, op)
  <1> DEFINE d == [what |-> "columns", t |-> y, u |-> u, op |-> op]
             B(s, i) == CASE s.threw -> s
                          [] ~s.threw /\ Size(u) # 1 /\ i > Len(u.v) -> Thrown(s)
                          [] OTHER ->
                               LET w == IF Size(u) = 1 THEN Copies(Len(y.v[i].e), u.v[1].e[1]) ELSE u.v[i].e
                                   r == apply_column(y.v[i], w, op)
                               IN  [s EXCEPT !.v = [@ EXCEPT ![i] = r.v], !.threw = r.threw]
             rows == [j \in DOMAIN y.v |-> j]
             E(g, t) == IF t = {} THEN ColumnsStart(y) ELSE B(g[t \ {Max(t)}], rows[Max(t)])
             Solves(g) == g = [t \in SUBSET (DOMAIN rows) |-> E(g, t)]
             h == CHOOSE g : Solves(g)
  <1>1. \A s, i : i \in 1 .. n => B(s, i) = Turn(d, s, i)
    BY DEF Turn, ColumnTurn, OneColumn
  <1>2. apply_inplace(y, u, op) = h[DOMAIN rows]
    BY DEF apply_inplace, ColumnsStart, FoldLeftDomain, FoldLeft, MapThenFoldSet
  <1>8. DOMAIN rows = 1 .. n /\ \A i \in 1 .. n : rows[i] = i
    OBVIOUS
  <1> HIDE DEF B, d, rows
  <1>3. \A g, t : t \in SUBSET (1 .. n) =>
          E(g, t) = IF t = {} THEN ColumnsStart(y) ELSE Turn(d, g[t \ {Max(t)}], Max(t))
    <2> SUFFICES ASSUME NEW g, NEW t \in SUBSET (1 .. n), t # {}
                 PROVE  B(g[t \ {Max(t)}], rows[Max(t)]) = Turn(d, g[t \ {Max(t)}], Max(t))
      BY Zenon
    <2>1. Max(t) \in 1 .. n
      <3>1. Max(t) \in t
        BY GreatestIs
      <3> QED
        BY <3>1
    <2>2. rows[Max(t)] = Max(t)
      BY <1>8, <2>1
    <2> QED
      BY <1>1, <2>1, <2>2
  <1>4. \A g : Solves(g) <=> RunsOn(g, d, ColumnsStart(y), n)
    <2> TAKE g
    <2> DEFINE T == SUBSET (1 .. n)
               G(t) == E(g, t)
               H(t) == IF t = {} THEN ColumnsStart(y) ELSE Turn(d, g[t \ {Max(t)}], Max(t))
    <2>1. \A t \in T : G(t) = H(t)
      BY <1>3, Zenon
    <2>2. [t \in T |-> G(t)] = [t \in T |-> H(t)]
      <3> HIDE DEF G, H, T
      <3> QED
        BY <2>1
    <2> QED
      BY <1>8, <2>2, Zenon DEF RunsOn
  <1>5. \E g : Solves(g)
    <2>1. \E g : RunsOn(g, d, ColumnsStart(y), n)
      BY RunExists
    <2> HIDE DEF Solves
    <2> QED
      BY <1>4, <2>1, Zenon
  <1>6. RunsOn(h, d, ColumnsStart(y), n)
    <2>1. Solves(h)
      <3> HIDE DEF Solves
      <3> QED
        BY <1>5, Zenon DEF h
    <2> HIDE DEF Solves, h
    <2> QED
      BY <1>4, <2>1, Zenon
  <1> HIDE DEF h
  <1>7. \E f : Run(f, d, ColumnsStart(y), n) /\ f[n] = h[1 .. n]
    BY <1>6, RunSteps
  <1> QED
    BY <1>8, <1>2, <1>7, Zenon DEF d

\* The elements of s, which has n of them, up to k are those of q, and the flag is not
\* set while they do not ascend.
Filled(v, q, k) ==
  /\ \A i \in 1 .. k : v.e[i] = q[i]
  /\ v.ordered => \A i \in 1 .. k - 1 : q[i] < q[i + 1]

LEMMA ColumnIs ==
    ASSUME NEW s \in Seq(Int), NEW b \in BOOLEAN
    PROVE  [e |-> s, ordered |-> b] \in Column
  BY DEF Column

LEMMA SetOne ==
    ASSUME NEW v \in Column, NEW i \in 1 .. Len(v.e), NEW t \in Int, NEW q,
           Filled(v, q, i - 1), q[i] = t
    PROVE  LET w == setv_checkbefore(v, i, t)
           IN  /\ w \in Column /\ Len(w.e) = Len(v.e) /\ Filled(w, q, i)
               /\ \A j \in 1 .. Len(v.e) : j # i => w.e[j] = v.e[j]
  <1> DEFINE s == [v.e EXCEPT ![i] = t]
             b == v.ordered /\ (i > 1 => v.e[i - 1] < t)
             w == setv_checkbefore(v, i, t)
  <1>1. v.e \in Seq(Int) /\ v.ordered \in BOOLEAN
    BY DEF Column
  <1>2. s \in Seq(Int) /\ Len(s) = Len(v.e) /\ s[i] = t /\ \A j \in 1 .. Len(v.e) : j # i => s[j] = v.e[j]
    BY <1>1, ExceptSeq
  <1>3. w = [e |-> s, ordered |-> b]
    BY DEF setv_checkbefore
  <1>4. w.e = s /\ (w.ordered <=> b)
    <2> HIDE DEF s, b, w
    <2> QED
      BY <1>3
  <1>5. w \in Column
    <2>1. b \in BOOLEAN
      OBVIOUS
    <2> HIDE DEF s, b, w
    <2> QED
      BY <1>2, <1>3, <2>1, ColumnIs
  <1> HIDE DEF s, w
  <1>6. Filled(w, q, i)
    <2>1. \A j \in 1 .. i : w.e[j] = q[j]
      <3> TAKE j \in 1 .. i
      <3>1. CASE j = i
        BY <1>2, <1>4, <3>1
      <3>2. CASE j # i
        <4>1. j \in 1 .. i - 1 /\ j \in 1 .. Len(v.e)
          BY <3>2
        <4> QED
          BY <1>2, <1>4, <3>2, <4>1 DEF Filled
      <3> QED
        BY <3>1, <3>2
    <2>2. ASSUME w.ordered, NEW j \in 1 .. i - 1
          PROVE  q[j] < q[j + 1]
      <3>1. v.ordered /\ (i > 1 => v.e[i - 1] < t)
        BY <1>4, <2>2
      <3>2. CASE j = i - 1
        <4>1. v.e[i - 1] = q[i - 1] /\ i > 1 /\ j + 1 = i
          BY <3>2 DEF Filled
        <4> QED
          BY <3>1, <3>2, <4>1
      <3>3. CASE j # i - 1
        <4>1. j \in 1 .. (i - 1) - 1
          BY <3>3
        <4> QED
          BY <3>1, <4>1 DEF Filled
      <3> QED
        BY <3>2, <3>3
    <2> QED
      BY <2>1, <2>2 DEF Filled
  <1> QED
    BY <1>2, <1>4, <1>5, <1>6 DEF w

LEMMA FilledAscends ==
    ASSUME NEW v \in Column, NEW q, Filled(v, q, Len(v.e)), v.ordered
    PROVE  Ascends(v.e)
  <1> SUFFICES ASSUME NEW i \in 1 .. Len(v.e) - 1
               PROVE  v.e[i] < v.e[i + 1]
    BY DEF Ascends
  <1>1. v.e \in Seq(Int)
    BY DEF Column
  <1>2. Len(v.e) \in Nat
    BY <1>1
  <1>3. i \in 1 .. Len(v.e) /\ i + 1 \in 1 .. Len(v.e)
    BY <1>2
  <1> QED
    BY <1>3 DEF Filled

\* setv_all leaves the new elements, and a flag that does not lie.
LEMMA SetAll ==
    ASSUME NEW v \in Column, NEW q, \A i \in 1 .. Len(v.e) : q[i] \in Int
    PROVE  LET w == setv_all(v, q)
           IN  /\ w \in Column /\ Len(w.e) = Len(v.e)
               /\ \A i \in 1 .. Len(v.e) : w.e[i] = q[i]
               /\ w.ordered => Ascends(w.e)
  <1> DEFINE n == Len(v.e)
             d == [what |-> "set", g |-> q]
  <1>1. v.e \in Seq(Int) /\ n \in Nat /\ DOMAIN v.e = 1 .. n
    BY DEF Column
  <1>2. PICK f : Run(f, d, v, n) /\ f[n] = setv_all(v, q)
    <2> HIDE DEF n
    <2> QED
      BY <1>1, SetRun
  <1> DEFINE I == {k \in Nat : k <= n => f[k] \in Column /\ Len(f[k].e) = n /\ Filled(f[k], q, k)}
  <1>3. 0 \in I
    BY <1>2 DEF Run, Filled
  <1>4. ASSUME NEW k \in Nat, k \in I
        PROVE  k + 1 \in I
    <2> SUFFICES ASSUME k + 1 <= n
                 PROVE  f[k + 1] \in Column /\ Len(f[k + 1].e) = n /\ Filled(f[k + 1], q, k + 1)
      OBVIOUS
    <2> DEFINE i == k + 1
               x == f[k]
    <2>1. x \in Column /\ Len(x.e) = n /\ Filled(x, q, i - 1)
      BY <1>1, <1>4
    <2>2. f[i] = Turn(d, x, i)
      <3>1. k \in 0 .. n - 1
        BY <1>1
      <3> QED
        BY <1>2, <3>1 DEF Run
    <2>3. f[i] = setv_checkbefore(x, i, q[i])
      BY <2>2 DEF Turn, SetTurn
    <2>4. i \in 1 .. Len(x.e) /\ q[i] \in Int
      BY <1>1, <2>1
    <2> HIDE DEF i, x, n
    <2>5. f[i] \in Column /\ Len(f[i].e) = Len(x.e) /\ Filled(f[i], q, i)
      BY <2>1, <2>3, <2>4, SetOne
    <2> QED
      BY <2>1, <2>5 DEF i
  <1>5. n \in I
    <2> HIDE DEF I, n
    <2> QED
      BY <1>1, <1>3, <1>4, SetInduction
  <1>6. f[n] \in Column /\ Len(f[n].e) = n /\ Filled(f[n], q, n)
    BY <1>5
  <1>7. f[n].ordered => Ascends(f[n].e)
    <2> HIDE DEF n
    <2> QED
      BY <1>6, FilledAscends
  <1> QED
    BY <1>2, <1>6, <1>7 DEF Filled

\* push_back of every element of q to a new vector gives q, and a flag that does not lie.
LEMMA PushedAll ==
    ASSUME NEW q \in Seq(Int)
    PROVE  LET w == PushAll(vector_rsv, q)
           IN  /\ w \in Column /\ Len(w.e) = Len(q)
               /\ \A i \in 1 .. Len(q) : w.e[i] = q[i]
               /\ w.ordered => Ascends(w.e)
  <1> DEFINE n == Len(q)
             d == [what |-> "push", s |-> q]
  <1>1. n \in Nat /\ DOMAIN q = 1 .. n /\ vector_rsv \in Column /\ vector_rsv.e = <<>>
    BY DEF Column, vector_rsv
  <1>2. PICK f : Run(f, d, vector_rsv, n) /\ f[n] = PushAll(vector_rsv, q)
    <2> HIDE DEF n
    <2> QED
      BY <1>1, PushRun
  <1> DEFINE I == {k \in Nat : k <= n => f[k] \in Column /\ Len(f[k].e) = k /\ Filled(f[k], q, k)}
  <1>3. 0 \in I
    BY <1>1, <1>2 DEF Run, Filled
  <1>4. ASSUME NEW k \in Nat, k \in I
        PROVE  k + 1 \in I
    <2> SUFFICES ASSUME k + 1 <= n
                 PROVE  f[k + 1] \in Column /\ Len(f[k + 1].e) = k + 1 /\ Filled(f[k + 1], q, k + 1)
      OBVIOUS
    <2> DEFINE x == f[k]
               t == q[k + 1]
    <2>1. x \in Column /\ Len(x.e) = k /\ Filled(x, q, k)
      BY <1>1, <1>4
    <2>2. f[k + 1] = Turn(d, x, k + 1)
      <3>1. k \in 0 .. n - 1
        BY <1>1
      <3> QED
        BY <1>2, <3>1 DEF Run
    <2> DEFINE s == Append(x.e, t)
               b == x.e = <<>> \/ (x.ordered /\ Last(x.e) < t)
    <2>3. f[k + 1] = [e |-> s, ordered |-> b]
      BY <2>2 DEF Turn, PushTurn, push_back
    <2>4. t \in Int /\ x.e \in Seq(Int) /\ x.ordered \in BOOLEAN
      <3>1. k + 1 \in 1 .. Len(q)
        BY <1>1
      <3> QED
        BY <2>1, <3>1, ElementOfSeq DEF Column
    <2>5. s \in Seq(Int) /\ Len(s) = k + 1 /\ s[k + 1] = t /\ \A j \in 1 .. k : s[j] = x.e[j]
      <3> HIDE DEF t, x
      <3> QED
        BY <2>1, <2>4, AppendProperties
    <2>6. b \in BOOLEAN
      OBVIOUS
    <2>7. f[k + 1] \in Column /\ f[k + 1].e = s /\ (f[k + 1].ordered <=> b)
      <3> HIDE DEF s, b
      <3> QED
        BY <2>3, <2>5, <2>6, ColumnIs
    <2>8. \A j \in 1 .. k + 1 : s[j] = q[j]
      <3> TAKE j \in 1 .. k + 1
      <3>1. j = k + 1 \/ j \in 1 .. k
        OBVIOUS
      <3> HIDE DEF s, x
      <3> QED
        BY <2>1, <2>5, <3>1 DEF Filled, t
    <2>9. ASSUME b, NEW j \in 1 .. (k + 1) - 1
          PROVE  q[j] < q[j + 1]
      <3>1. k # 0 /\ x.e # <<>>
        <4>1. k # 0
          OBVIOUS
        <4> HIDE DEF x
        <4> QED
          BY <2>1, <4>1, EmptySeq
      <3>2. x.ordered /\ x.e[k] < t
        BY <2>1, <2>9, <3>1 DEF Last
      <3>3. CASE j = k
        <4>1. x.e[k] = q[k]
          <5>1. k \in 1 .. k
            BY <3>1
          <5> HIDE DEF x
          <5> QED
            BY <2>1, <5>1 DEF Filled
        <4> HIDE DEF x
        <4> QED
          BY <3>2, <3>3, <4>1 DEF t
      <3>4. CASE j # k
        <4>1. j \in 1 .. k - 1
          BY <3>4
        <4> HIDE DEF x
        <4> QED
          BY <2>1, <3>2, <4>1 DEF Filled
      <3> QED
        BY <3>3, <3>4
    <2>10. Filled(f[k + 1], q, k + 1)
      <3> HIDE DEF s, b
      <3> QED
        BY <2>7, <2>8, <2>9 DEF Filled
    <2> HIDE DEF s, b
    <2> QED
      BY <2>5, <2>7, <2>10
  <1>5. n \in I
    <2> HIDE DEF I, n
    <2> QED
      BY <1>1, <1>3, <1>4, SetInduction
  <1>6. f[n] \in Column /\ Len(f[n].e) = n /\ Filled(f[n], q, n)
    BY <1>5
  <1>7. f[n].ordered => Ascends(f[n].e)
    <2> HIDE DEF n
    <2> QED
      BY <1>6, FilledAscends
  <1> QED
    BY <1>2, <1>6, <1>7 DEF Filled

\* An operator on two numbers gives a number.
ElemIn(op) == \A x, y \in Int : Elem(op, x, y) \in Int

\* apply_column applies op to the elements at the same place, as long as w has enough of
\* them, and keeps the column's length in any case.
LEMMA ElemAll ==
    ASSUME NEW v \in Column, NEW w \in Seq(Int), NEW op, ElemIn(op)
    PROVE  LET r == apply_column(v, w, op)
           IN  /\ r.v \in Column /\ Len(r.v.e) = Len(v.e) /\ r.threw \in BOOLEAN
               /\ r.threw <=> Len(w) < Len(v.e)
               /\ ~r.threw =>
                    /\ \A i \in 1 .. Len(v.e) : r.v.e[i] = Elem(op, v.e[i], w[i])
                    /\ r.v.ordered => Ascends(r.v.e)
  <1> DEFINE n == Len(v.e)
             m == Len(w)
             d == [what |-> "elem", w |-> w, op |-> op]
             z == ElemStart(v)
             q == [i \in 1 .. n |-> Elem(op, v.e[i], w[i])]
             Right(s, k) == /\ s \in [v : Column, threw : BOOLEAN] /\ Len(s.v.e) = n
                            /\ k <= m => ~s.threw /\ Filled(s.v, q, k)
                            /\ k > m => s.threw
                            /\ \A i \in k + 1 .. n : s.v.e[i] = v.e[i]
  <1>1. v.e \in Seq(Int) /\ n \in Nat /\ m \in Nat /\ DOMAIN v.e = 1 .. n
    BY DEF Column
  <1>2. PICK f : Run(f, d, z, n) /\ f[n] = apply_column(v, w, op)
    <2>1. \E f : /\ Run(f, [what |-> "elem", w |-> w, op |-> op], ElemStart(v), n)
                 /\ f[n] = apply_column(v, w, op)
      <3>1. n \in Nat /\ DOMAIN v.e = 1 .. n
        BY <1>1
      <3> HIDE DEF n, d, z, q
      <3> QED
        BY <3>1, ElemRun, SMTT(30)
    <2> QED
      BY <2>1
  <1> DEFINE I == {k \in Nat : k <= n => Right(f[k], k)}
  <1>3. 0 \in I
    <2>1. f[0] = z
      BY <1>2 DEF Run
    <2>2. z \in [v : Column, threw : BOOLEAN] /\ ~z.threw /\ z.v.e = v.e
      BY DEF Column, ElemStart
    <2>3. Filled(z.v, q, 0)
      BY DEF Filled, ElemStart
    <2> HIDE DEF z, q
    <2> QED
      BY <1>1, <2>1, <2>2, <2>3
  <1>4. ASSUME NEW k \in Nat, k \in I
        PROVE  k + 1 \in I
    <2> SUFFICES ASSUME k + 1 <= n
                 PROVE  Right(f[k + 1], k + 1)
      OBVIOUS
    <2> DEFINE i == k + 1
               s == f[k]
               t == Elem(op, s.v.e[i], w[i])
    <2>1. Right(s, k)
      BY <1>1, <1>4
    <2>2. f[i] = Turn(d, s, i)
      <3>1. k \in 0 .. n - 1
        BY <1>1
      <3> QED
        BY <1>2, <3>1 DEF Run
    <2>3. f[i] = ElemTurn(d, s, i)
      BY <2>2 DEF Turn
    <2>4. s \in [v : Column, threw : BOOLEAN] /\ Len(s.v.e) = n /\ i \in 1 .. n /\ i \in Nat /\ i - 1 = k
      <3>1. i \in 1 .. n /\ i \in Nat /\ i - 1 = k
        BY <1>1
      <3> HIDE DEF s, q, n, m, i
      <3> QED
        BY <2>1, <3>1
    <2>5. CASE i > m
      <3>1. f[i] = [s EXCEPT !.threw = TRUE]
        BY <2>3, <2>5 DEF ElemTurn
      <3>2. f[i] \in [v : Column, threw : BOOLEAN] /\ f[i].v = s.v /\ f[i].threw
        <4> HIDE DEF s
        <4> QED
          BY <2>4, <3>1
      <3>3. \A j \in i + 1 .. n : s.v.e[j] = v.e[j]
        <4> TAKE j \in i + 1 .. n
        <4>1. j \in k + 1 .. n
          BY <1>1
        <4> HIDE DEF s
        <4> QED
          BY <2>1, <4>1
      <3>4. ~(i <= m)
        BY <1>1, <2>5
      <3> HIDE DEF s, i, n, m, q
      <3> QED
        BY <2>4, <3>2, <3>3, <3>4
    <2>6. CASE i <= m
      <3> DEFINE x == setv_checkbefore(s.v, i, t)
      <3>1. f[i] = [s EXCEPT !.v = x]
        <4>1. ~(i > m)
          BY <1>1, <2>6
        <4> HIDE DEF x
        <4> QED
          BY <2>3, <4>1 DEF ElemTurn, x
      <3>2. s.v \in Column /\ Len(s.v.e) = n /\ ~s.threw /\ Filled(s.v, q, k)
        <4>1. k <= m
          BY <1>1, <2>6
        <4> HIDE DEF s, q
        <4> QED
          BY <2>1, <4>1
      <3>3. s.v.e[i] = v.e[i] /\ q[i] = t
        <4>1. i \in k + 1 .. n
          BY <1>1
        <4>2. s.v.e[i] = v.e[i]
          <5> HIDE DEF s, q
          <5> QED
            BY <2>1, <4>1
        <4> HIDE DEF s
        <4> QED
          BY <2>4, <4>2
      <3>4. t \in Int
        <4>1. v.e[i] \in Int /\ w[i] \in Int
          <5>1. i \in 1 .. m
            BY <1>1, <2>6
          <5> HIDE DEF i
          <5> QED
            BY <1>1, <2>4, <5>1, ElementOfSeq
        <4> HIDE DEF s
        <4> QED
          BY <3>3, <4>1 DEF ElemIn
      <3> HIDE DEF t, q, s, n, i
      <3>5. /\ x \in Column /\ Len(x.e) = n /\ Filled(x, q, i)
            /\ \A j \in 1 .. n : j # i => x.e[j] = s.v.e[j]
        <4>1. i \in 1 .. Len(s.v.e) /\ Filled(s.v, q, i - 1)
          BY <2>4, <3>2
        <4> QED
          BY <3>2, <3>3, <3>4, <4>1, SetOne
      <3> HIDE DEF x
      <3>6. f[i] \in [v : Column, threw : BOOLEAN] /\ f[i].v = x /\ f[i].threw = s.threw
        BY <2>4, <3>1, <3>5
      <3>7. \A j \in i + 1 .. n : x.e[j] = v.e[j]
        <4> TAKE j \in i + 1 .. n
        <4>1. j \in 1 .. n /\ j # i /\ j \in k + 1 .. n
          BY <1>1, <2>4
        <4> QED
          BY <2>1, <3>5, <4>1
      <3> QED
        BY <2>4, <2>6, <3>2, <3>5, <3>6, <3>7
    <2>7. i > m \/ i <= m
      BY <1>1, <2>4
    <2> HIDE DEF Right
    <2> QED
      BY <2>5, <2>6, <2>7
  <1>5. n \in I
    <2> HIDE DEF I, n
    <2> QED
      BY <1>1, <1>3, <1>4, SetInduction
  <1>6. Right(f[n], n)
    <2> HIDE DEF Right, n
    <2> QED
      BY <1>1, <1>5
  <1>7. ASSUME m >= n
        PROVE  /\ ~f[n].threw
               /\ \A i \in 1 .. n : f[n].v.e[i] = Elem(op, v.e[i], w[i])
               /\ f[n].v.ordered => Ascends(f[n].v.e)
    <2>1. ~f[n].threw /\ Filled(f[n].v, q, n) /\ f[n].v \in Column /\ Len(f[n].v.e) = n
      <3>1. n <= m
        BY <1>1, <1>7
      <3> HIDE DEF n, m, q
      <3> QED
        BY <1>6, <3>1
    <2>2. f[n].v.ordered => Ascends(f[n].v.e)
      <3> HIDE DEF n, m, q
      <3> QED
        BY <2>1, FilledAscends
    <2>3. \A i \in 1 .. n : f[n].v.e[i] = q[i]
      <3> HIDE DEF q, n
      <3> QED
        BY <2>1 DEF Filled
    <2> HIDE DEF n
    <2> QED
      BY <2>1, <2>2, <2>3
  <1>8. /\ f[n].v \in Column /\ Len(f[n].v.e) = n /\ f[n].threw \in BOOLEAN
        /\ f[n].threw <=> m < n
    <2> HIDE DEF n, q, m
    <2> QED
      BY <1>1, <1>6
  <1> HIDE DEF n, m
  <1> QED
    BY <1>1, <1>2, <1>7, <1>8 DEF n, m

LEMMA SeqFromFunction ==
    ASSUME NEW S, NEW n \in Nat, NEW f \in [1 .. n -> S]
    PROVE  f \in Seq(S) /\ Len(f) = n
  <1>1. f \in Seq(S)
    BY SeqDef
  <1> QED
    BY <1>1, LenProperties

\* What an array is, and how its size says that it has one element.
LEMMA ArrayFacts ==
    ASSUME NEW a, IsArray(a)
    PROVE  /\ a \in [dim : Seq(Nat), v : Seq(Column), names : {a.names}, threw : {FALSE}]
           /\ a.dim \in Seq(Nat) /\ a.v \in Seq(Column) /\ ~a.threw /\ Len(a.v) \in Nat
           /\ a.dim = <<>> => Len(a.v) = 0
           /\ Len(a.v) # 0 => a.dim # <<>> /\ a.dim[1] \in Nat
           /\ \A c \in 1 .. Len(a.v) :
                a.v[c] \in Column /\ a.v[c].e \in Seq(Int) /\ Len(a.v[c].e) = a.dim[1]
           /\ Size(a) = 1 => Len(a.v) = 1 /\ a.dim # <<>> /\ a.dim[1] = 1
  <1>1. /\ a \in [dim : Seq(Nat), v : Seq(Column), names : {a.names}, threw : {FALSE}]
        /\ WellFormed(a)
    BY DEF IsArray
  <1>2. a.dim \in Seq(Nat) /\ a.v \in Seq(Column) /\ ~a.threw
    BY <1>1
  <1>3. Len(a.v) \in Nat /\ Len(a.dim) \in Nat
    BY <1>2, LenProperties
  <1>4. a.dim = <<>> => Len(a.v) = 0
    BY <1>1 DEF WellFormed, NbColumns
  <1>5. a.dim # <<>> => a.dim[1] \in Nat
    BY <1>2
  <1>6. ASSUME NEW c \in 1 .. Len(a.v)
        PROVE  a.v[c] \in Column /\ a.v[c].e \in Seq(Int) /\ Len(a.v[c].e) = a.dim[1]
    <2>1. a.v[c] \in Column
      BY <1>2, ElementOfSeq
    <2>2. a.v[c].e \in Seq(Int)
      BY <2>1 DEF Column
    <2> QED
      BY <1>1, <2>1, <2>2 DEF WellFormed
  <1>7. ASSUME Size(a) = 1
        PROVE  Len(a.v) = 1 /\ a.dim # <<>> /\ a.dim[1] = 1
    <2> DEFINE n == Len(a.v)
               m == a.dim[1]
    <2>1. a.dim # <<>> /\ n * m = 1
      BY <1>7 DEF Size
    <2>2. n \in Nat /\ m \in Nat
      BY <1>3, <1>5, <2>1
    <2> HIDE DEF n, m
    <2>3. n = 1 /\ m = 1
      <3>1. n # 0 /\ m # 0
        BY <2>1, <2>2
      <3>2. n >= 1 /\ m >= 1
        BY <2>2, <3>1
      <3>3. PICK k \in Nat : n = k + 1
        <4>1. n - 1 \in Nat /\ n = (n - 1) + 1
          BY <2>2, <3>2
        <4> QED
          BY <4>1
      <3>4. k * m + m = 1
        BY <2>1, <2>2, <3>3
      <3>5. k * m \in Nat
        BY <2>2
      <3>6. m = 1 /\ k * m = 0
        BY <2>2, <3>2, <3>4, <3>5
      <3>7. k = 0
        BY <3>6
      <3> QED
        BY <3>3, <3>6, <3>7
    <2> QED
      BY <2>1, <2>3 DEF n, m
  <1> QED
    BY <1>1, <1>2, <1>3, <1>4, <1>5, <1>6, <1>7

\* Part is the element itself, or the only one.
LEMMA PartSelf ==
    ASSUME NEW a, IsArray(a), NEW c \in 1 .. Len(a.v), NEW i \in 1 .. Len(a.v[c].e)
    PROVE  Part(a, c, i) = a.v[c].e[i] /\ Part(a, c, i) \in Int
  <1>1. a.v[c].e \in Seq(Int) /\ Len(a.v[c].e) = a.dim[1]
    BY ArrayFacts
  <1>2. a.v[c].e[i] \in Int
    BY <1>1, ElementOfSeq
  <1>3. CASE Size(a) = 1
    <2>1. Len(a.v) = 1 /\ a.dim[1] = 1
      BY <1>3, ArrayFacts
    <2>2. c = 1 /\ i = 1
      BY <1>1, <2>1
    <2> QED
      BY <1>2, <1>3, <2>2 DEF Part
  <1>4. CASE Size(a) # 1
    BY <1>2, <1>4 DEF Part
  <1> QED
    BY <1>3, <1>4

LEMMA PartSingle ==
    ASSUME NEW a, IsArray(a), Size(a) = 1, NEW c, NEW i
    PROVE  Part(a, c, i) = a.v[1].e[1] /\ Part(a, c, i) \in Int
  <1>1. Len(a.v) = 1 /\ a.dim[1] = 1
    BY ArrayFacts
  <1>2. 1 \in 1 .. Len(a.v)
    BY <1>1
  <1>3. a.v[1].e \in Seq(Int) /\ Len(a.v[1].e) = 1
    BY <1>1, <1>2, ArrayFacts
  <1>4. a.v[1].e[1] \in Int
    BY <1>3, ElementOfSeq
  <1> QED
    BY <1>4 DEF Part

\* Other columns of the same length make an array in order.
LEMMA ColumnsReplaced ==
    ASSUME NEW a, IsArray(a), NEW w, w \in [1 .. Len(a.v) -> Column],
           \A c \in 1 .. Len(a.v) : Len(w[c].e) = Len(a.v[c].e)
    PROVE  LET r == [a EXCEPT !.v = w]
           IN  /\ IsArray(r) /\ r.v = w /\ r.dim = a.dim /\ r.names = a.names /\ Len(r.v) = Len(a.v)
               /\ (\A c \in 1 .. Len(a.v) : w[c].ordered => Ascends(w[c].e)) => FlagsHold(r)
  <1> DEFINE r == [a EXCEPT !.v = w]
  <1>1. /\ a \in [dim : Seq(Nat), v : Seq(Column), names : {a.names}, threw : {FALSE}]
        /\ Len(a.v) \in Nat
    BY ArrayFacts
  <1>2. w \in Seq(Column) /\ Len(w) = Len(a.v)
    BY <1>1, SeqFromFunction
  <1>3. /\ r \in [dim : Seq(Nat), v : Seq(Column), names : {a.names}, threw : {FALSE}]
        /\ r.v = w /\ r.dim = a.dim /\ r.names = a.names
    BY <1>1, <1>2
  <1> HIDE DEF r
  <1>4. \A c \in 1 .. Len(a.v) : Len(w[c].e) = a.dim[1]
    BY ArrayFacts
  <1>5. WellFormed(r)
    <2>1. WellFormed(a)
      BY DEF IsArray
    <2> QED
      BY <1>2, <1>3, <1>4, <2>1 DEF WellFormed
  <1>6. IsArray(r)
    BY <1>3, <1>5 DEF IsArray
  <1>7. (\A c \in 1 .. Len(a.v) : w[c].ordered => Ascends(w[c].e)) => FlagsHold(r)
    BY <1>2, <1>3 DEF FlagsHold
  <1> QED
    BY <1>2, <1>3, <1>6, <1>7 DEF r

\* The elements q of all columns of an array like a.
FitsIn(q, a) == \A c \in 1 .. Len(a.v) : q[c] \in [1 .. Len(a.v[c].e) -> Int]
Pushed(a, q) == [a EXCEPT !.v = [c \in 1 .. Len(a.v) |-> PushAll(vector_rsv, q[c])]]
AllSet(a, b, q) == [a EXCEPT !.v = [c \in 1 .. Len(a.v) |-> setv_all(b[c], q[c])]]
ColumnsFit(b, a) == \A c \in 1 .. Len(a.v) : b[c] \in Column /\ Len(b[c].e) = Len(a.v[c].e)
HasElements(r, a, q) ==
  /\ IsArray(r) /\ FlagsHold(r) /\ r.dim = a.dim /\ r.names = a.names /\ Len(r.v) = Len(a.v)
  /\ \A c \in 1 .. Len(a.v) : \A i \in 1 .. Len(a.v[c].e) : r.v[c].e[i] = q[c][i]

\* What NewArray makes: the elements q of b's shape are pushed back one by one.
LEMMA ColumnsPushed ==
    ASSUME NEW a, IsArray(a), NEW q, FitsIn(q, a)
    PROVE  HasElements(Pushed(a, q), a, q)
  <1> DEFINE r == Pushed(a, q)
             w == [c \in 1 .. Len(a.v) |-> PushAll(vector_rsv, q[c])]
  <1>1. ASSUME NEW c \in 1 .. Len(a.v)
        PROVE  /\ w[c] \in Column /\ Len(w[c].e) = Len(a.v[c].e)
               /\ \A i \in 1 .. Len(a.v[c].e) : w[c].e[i] = q[c][i]
               /\ w[c].ordered => Ascends(w[c].e)
    <2> DEFINE p == q[c]
               n == Len(a.v[c].e)
    <2>1. n \in Nat /\ p \in [1 .. n -> Int]
      <3>1. a.v[c].e \in Seq(Int)
        BY ArrayFacts
      <3> QED
        BY <3>1 DEF FitsIn
    <2>2. w[c] = PushAll(vector_rsv, p)
      OBVIOUS
    <2> HIDE DEF p, n, w
    <2>3. p \in Seq(Int) /\ Len(p) = n
      BY <2>1, SeqFromFunction
    <2> QED
      BY <2>2, <2>3, PushedAll DEF p, n
  <1>2. w \in [1 .. Len(a.v) -> Column]
    <2>1. \A c \in 1 .. Len(a.v) : PushAll(vector_rsv, q[c]) \in Column
      BY <1>1
    <2> QED
      BY <2>1
  <1>3. r = [a EXCEPT !.v = w]
    BY DEF Pushed
  <1> HIDE DEF w, r
  <1>4. /\ IsArray(r) /\ r.v = w /\ r.dim = a.dim /\ r.names = a.names /\ Len(r.v) = Len(a.v)
        /\ FlagsHold(r)
    <2>1. \A c \in 1 .. Len(a.v) : Len(w[c].e) = Len(a.v[c].e)
      BY <1>1
    <2>2. \A c \in 1 .. Len(a.v) : w[c].ordered => Ascends(w[c].e)
      BY <1>1
    <2> DEFINE x == [a EXCEPT !.v = w]
    <2>3. /\ IsArray(x) /\ x.v = w /\ x.dim = a.dim /\ x.names = a.names /\ Len(x.v) = Len(a.v)
          /\ FlagsHold(x)
      BY <1>2, <2>1, <2>2, ColumnsReplaced
    <2> HIDE DEF x
    <2>4. r = x
      BY <1>3 DEF x
    <2> QED
      BY <2>3, <2>4
  <1> QED
    BY <1>1, <1>4 DEF HasElements, r

\* What the loops that write in place make: the elements q, column after column.
LEMMA ColumnsSet ==
    ASSUME NEW a, IsArray(a), NEW q, FitsIn(q, a), NEW b, ColumnsFit(b, a)
    PROVE  HasElements(AllSet(a, b, q), a, q)
  <1> DEFINE r == AllSet(a, b, q)
             w == [c \in 1 .. Len(a.v) |-> setv_all(b[c], q[c])]
  <1>1. ASSUME NEW c \in 1 .. Len(a.v)
        PROVE  /\ w[c] \in Column /\ Len(w[c].e) = Len(a.v[c].e)
               /\ \A i \in 1 .. Len(a.v[c].e) : w[c].e[i] = q[c][i]
               /\ w[c].ordered => Ascends(w[c].e)
    <2> DEFINE p == q[c]
               x == b[c]
    <2>1. x \in Column /\ Len(x.e) = Len(a.v[c].e) /\ \A i \in 1 .. Len(x.e) : p[i] \in Int
      BY DEF FitsIn, ColumnsFit
    <2>2. w[c] = setv_all(x, p)
      OBVIOUS
    <2> HIDE DEF p, x, w
    <2> QED
      BY <2>1, <2>2, SetAll DEF p
  <1>2. w \in [1 .. Len(a.v) -> Column]
    <2>1. \A c \in 1 .. Len(a.v) : setv_all(b[c], q[c]) \in Column
      BY <1>1
    <2> QED
      BY <2>1
  <1>3. r = [a EXCEPT !.v = w]
    BY DEF AllSet
  <1> HIDE DEF w, r
  <1>4. /\ IsArray(r) /\ r.v = w /\ r.dim = a.dim /\ r.names = a.names /\ Len(r.v) = Len(a.v)
        /\ FlagsHold(r)
    <2>1. \A c \in 1 .. Len(a.v) : Len(w[c].e) = Len(a.v[c].e)
      BY <1>1
    <2>2. \A c \in 1 .. Len(a.v) : w[c].ordered => Ascends(w[c].e)
      BY <1>1
    <2> DEFINE x == [a EXCEPT !.v = w]
    <2>3. /\ IsArray(x) /\ x.v = w /\ x.dim = a.dim /\ x.names = a.names /\ Len(x.v) = Len(a.v)
          /\ FlagsHold(x)
      BY <1>2, <2>1, <2>2, ColumnsReplaced
    <2> HIDE DEF x
    <2>4. r = x
      BY <1>3 DEF x
    <2> QED
      BY <2>3, <2>4
  <1> QED
    BY <1>1, <1>4 DEF HasElements, r

\* Other names, for the same dimensions.
LEMMA NamesReplaced ==
    ASSUME NEW a, IsArray(a), NEW m, Len(m) = Len(a.dim),
           \A d \in 1 .. Len(a.dim) : m[d].sz = a.dim[d] /\ Len(m[d].names) \in {0, a.dim[d]}
    PROVE  LET r == [a EXCEPT !.names = m]
           IN  IsArray(r) /\ r.v = a.v /\ r.dim = a.dim
  <1> DEFINE r == [a EXCEPT !.names = m]
  <1>1. a \in [dim : Seq(Nat), v : Seq(Column), names : {a.names}, threw : {FALSE}]
    BY ArrayFacts
  <1>2. /\ r \in [dim : Seq(Nat), v : Seq(Column), names : {m}, threw : {FALSE}]
        /\ r.v = a.v /\ r.dim = a.dim /\ r.names = m
    BY <1>1
  <1> HIDE DEF r
  <1>3. WellFormed(r)
    <2>1. WellFormed(a)
      BY DEF IsArray
    <2> QED
      BY <1>2, <2>1 DEF WellFormed
  <1> QED
    BY <1>2, <1>3 DEF IsArray, r

\* The elements of r are those of t and u combined.  Shape is the operand whose dimensions
\* the result has.
Combines(r, t, u, op) ==
  \A c \in 1 .. Len(r.v) : \A i \in 1 .. Len(r.v[c].e) :
    r.v[c].e[i] = Elem(op, Part(t, c, i), Part(u, c, i))
Compatible(t, u) == Size(t) = 1 \/ Size(u) = 1 \/ t.dim = u.dim
Shape(t, u) == IF Size(t) # 1 /\ Size(u) = 1 THEN t ELSE u
Fresh(r, b) == IsArray(r) /\ FlagsHold(r) /\ r.dim = b.dim /\ Len(r.v) = Len(b.v)

LEMMA ShapeFits ==
    ASSUME NEW t, NEW u, IsArray(t), IsArray(u), Compatible(t, u),
           NEW c \in 1 .. Len(Shape(t, u).v), NEW i \in 1 .. Len(Shape(t, u).v[c].e)
    PROVE  Part(t, c, i) \in Int /\ Part(u, c, i) \in Int
  <1>1. CASE Size(t) # 1 /\ Size(u) = 1
    <2>1. c \in 1 .. Len(t.v) /\ i \in 1 .. Len(t.v[c].e)
      BY <1>1 DEF Shape
    <2> QED
      BY <1>1, <2>1, PartSelf, PartSingle
  <1>2. CASE Size(t) = 1
    <2>1. c \in 1 .. Len(u.v) /\ i \in 1 .. Len(u.v[c].e)
      BY <1>2 DEF Shape
    <2> QED
      BY <1>2, <2>1, PartSelf, PartSingle
  <1>3. CASE Size(t) # 1 /\ Size(u) # 1
    <2>1. c \in 1 .. Len(u.v) /\ i \in 1 .. Len(u.v[c].e) /\ t.dim = u.dim
      BY <1>3 DEF Shape, Compatible
    <2>2. c \in 1 .. Len(t.v) /\ i \in 1 .. Len(t.v[c].e)
      <3>1. Len(t.v) = Len(u.v)
        BY <2>1 DEF IsArray, WellFormed
      <3>2. Len(t.v[c].e) = t.dim[1] /\ Len(u.v[c].e) = u.dim[1]
        BY <2>1, <3>1, ArrayFacts
      <3> QED
        BY <2>1, <3>1, <3>2
    <2> QED
      BY <2>1, <2>2, PartSelf
  <1> QED
    BY <1>1, <1>2, <1>3

Combined(b, t, u, op) ==
  [b EXCEPT !.v = [c \in 1 .. Len(b.v) |->
     PushAll(vector_rsv, [i \in 1 .. Len(b.v[c].e) |-> Elem(op, Part(t, c, i), Part(u, c, i))])]]
HasParts(b, t, u) ==
  \A c \in 1 .. Len(b.v) : \A i \in 1 .. Len(b.v[c].e) : Part(t, c, i) \in Int /\ Part(u, c, i) \in Int

LEMMA NewIs ==
    ASSUME NEW b, IsArray(b), NEW t, NEW u, NEW op, ElemIn(op), HasParts(b, t, u)
    PROVE  LET r == Combined(b, t, u, op)
           IN  Fresh(r, b) /\ r.names = b.names /\ Combines(r, t, u, op)
  <1> DEFINE r == Combined(b, t, u, op)
             E(c, i) == Elem(op, Part(t, c, i), Part(u, c, i))
             q == [c \in 1 .. Len(b.v) |-> [i \in 1 .. Len(b.v[c].e) |-> E(c, i)]]
  <1>1. \A c \in 1 .. Len(b.v) : \A i \in 1 .. Len(b.v[c].e) : E(c, i) \in Int
    BY DEF ElemIn, HasParts
  <1>2. [c \in 1 .. Len(b.v) |-> PushAll(vector_rsv, [i \in 1 .. Len(b.v[c].e) |-> E(c, i)])]
          = [c \in 1 .. Len(b.v) |-> PushAll(vector_rsv, q[c])]
    <2>1. \A c \in 1 .. Len(b.v) : q[c] = [i \in 1 .. Len(b.v[c].e) |-> E(c, i)]
      <3> HIDE DEF E
      <3> QED
        OBVIOUS
    <2> HIDE DEF q, E
    <2> QED
      BY <2>1
  <1>3. r = Pushed(b, q)
    <2> HIDE DEF q
    <2> QED
      BY <1>2 DEF Combined, Pushed
  <1>4. FitsIn(q, b)
    <2> HIDE DEF E
    <2> QED
      BY <1>1 DEF FitsIn
  <1>5. \A c \in 1 .. Len(b.v) : \A i \in 1 .. Len(b.v[c].e) : q[c][i] = E(c, i)
    <2> HIDE DEF E
    <2> QED
      OBVIOUS
  <1> HIDE DEF q, r
  <1>6. /\ IsArray(r) /\ FlagsHold(r) /\ r.dim = b.dim /\ r.names = b.names /\ Len(r.v) = Len(b.v)
        /\ \A c \in 1 .. Len(b.v) : \A i \in 1 .. Len(b.v[c].e) : r.v[c].e[i] = q[c][i]
    BY <1>3, <1>4, ColumnsPushed DEF HasElements
  <1>7. \A c \in 1 .. Len(b.v) : Len(r.v[c].e) = Len(b.v[c].e)
    <2> TAKE c \in 1 .. Len(b.v)
    <2>1. Len(r.v[c].e) = r.dim[1] /\ Len(b.v[c].e) = b.dim[1]
      BY <1>6, ArrayFacts
    <2> QED
      BY <1>6, <2>1
  <1>8. Combines(r, t, u, op)
    <2> SUFFICES ASSUME NEW c \in 1 .. Len(r.v), NEW i \in 1 .. Len(r.v[c].e)
                 PROVE  r.v[c].e[i] = E(c, i)
      BY DEF Combines
    <2>1. c \in 1 .. Len(b.v) /\ i \in 1 .. Len(b.v[c].e)
      BY <1>6, <1>7
    <2> HIDE DEF E
    <2> QED
      BY <1>5, <1>6, <2>1
  <1> QED
    BY <1>6, <1>8 DEF Fresh, r

\* An operator whose result is a new array.
LEMMA ArraysApplied ==
    ASSUME NEW t, NEW u, IsArray(t), IsArray(u), NEW op, ElemIn(op)
    PROVE  LET r == apply_arrays(t, u, op)
           IN  /\ ~Compatible(t, u) => r = Threw
               /\ Compatible(t, u) => Fresh(r, Shape(t, u)) /\ Combines(r, t, u, op)
  <1> DEFINE r == apply_arrays(t, u, op)
             b == Shape(t, u)
             x == Combined(b, t, u, op)
  <1>1. ASSUME ~Compatible(t, u)
        PROVE  r = Threw
    BY <1>1 DEF Compatible, apply_arrays
  <1>2. ASSUME Compatible(t, u)
        PROVE  Fresh(x, b) /\ x.names = b.names /\ Combines(x, t, u, op)
    <2>1. IsArray(b)
      BY DEF Shape
    <2>2. HasParts(b, t, u)
      BY <1>2, ShapeFits DEF HasParts
    <2> HIDE DEF b
    <2> QED
      BY <2>1, <2>2, NewIs
  <1>3. CASE Size(t) = 1 \/ Size(u) = 1
    <2>1. r = apply_scalar(t, u, op)
      BY <1>3 DEF apply_arrays
    <2>2. (IF Size(t) = 1 THEN u ELSE t) = b
      BY <1>3 DEF Shape
    <2> HIDE DEF b
    <2>3. r = x
      BY <2>1, <2>2, Zenon DEF apply_scalar, NewArray, Combined
    <2>4. Compatible(t, u)
      BY <1>3 DEF Compatible
    <2> HIDE DEF x, r
    <2>5. Fresh(r, b) /\ Combines(r, t, u, op)
      BY <1>2, <2>3, <2>4
    <2> QED
      BY <2>4, <2>5 DEF b, r
  <1>4. CASE Size(t) # 1 /\ Size(u) # 1 /\ t.dim = u.dim
    <2> DEFINE m == [j \in 1 .. Len(u.names) |-> IF hasNames(t.names[j]) THEN t.names[j] ELSE u.names[j]]
               y == [u EXCEPT !.v = [c \in 1 .. Len(u.v) |->
                       PushAll(vector_rsv, [i \in 1 .. Len(u.v[c].e) |-> Elem(op, t.v[c].e[i], u.v[c].e[i])])]]
    <2>1. r = [y EXCEPT !.names = [j \in 1 .. Len(y.names) |->
                 IF hasNames(t.names[j]) THEN t.names[j] ELSE y.names[j]]]
      BY <1>4, Zenon DEF apply_arrays, NewArray
    <2>2. b = u /\ Compatible(t, u)
      BY <1>4 DEF Shape, Compatible
    <2>3. \A c \in 1 .. Len(u.v) : \A i \in 1 .. Len(u.v[c].e) :
            Elem(op, t.v[c].e[i], u.v[c].e[i]) = Elem(op, Part(t, c, i), Part(u, c, i))
      <3> TAKE c \in 1 .. Len(u.v)
      <3> TAKE i \in 1 .. Len(u.v[c].e)
      <3> QED
        BY <1>4 DEF Part
    <2>4. y = Combined(u, t, u, op)
      <3> DEFINE F(c) == [i \in 1 .. Len(u.v[c].e) |-> Elem(op, t.v[c].e[i], u.v[c].e[i])]
                 G(c) == [i \in 1 .. Len(u.v[c].e) |-> Elem(op, Part(t, c, i), Part(u, c, i))]
      <3>1. ASSUME NEW c \in 1 .. Len(u.v)
            PROVE  F(c) = G(c)
        BY <2>3
      <3> HIDE DEF F, G
      <3>2. [c \in 1 .. Len(u.v) |-> PushAll(vector_rsv, F(c))]
              = [c \in 1 .. Len(u.v) |-> PushAll(vector_rsv, G(c))]
        BY <3>1
      <3> QED
        BY <3>2, Zenon DEF F, G, Combined
    <2>5. Fresh(y, u) /\ y.names = u.names /\ Combines(y, t, u, op)
      <3> DEFINE z == y
      <3>1. z = x
        BY <2>2, <2>4
      <3> HIDE DEF z, x
      <3>2. Fresh(z, b) /\ z.names = b.names /\ Combines(z, t, u, op)
        BY <1>2, <2>2, <3>1
      <3> HIDE DEF b
      <3>3. Fresh(z, u) /\ z.names = u.names /\ Combines(z, t, u, op)
        BY <2>2, <3>2
      <3> QED
        BY <3>3 DEF z
    <2> HIDE DEF y
    <2>6. r = [y EXCEPT !.names = m]
      BY <2>1, <2>5
    <2>7. /\ Len(u.names) = Len(u.dim) /\ Len(t.names) = Len(t.dim) /\ y.dim = u.dim
          /\ \A d \in 1 .. Len(u.dim) :
               /\ u.names[d].sz = u.dim[d] /\ Len(u.names[d].names) \in {0, u.dim[d]}
               /\ t.names[d].sz = u.dim[d] /\ Len(t.names[d].names) \in {0, u.dim[d]}
      BY <1>4, <2>5 DEF IsArray, WellFormed, Fresh
    <2>8. /\ Len(m) = Len(y.dim)
          /\ \A d \in 1 .. Len(y.dim) : m[d].sz = y.dim[d] /\ Len(m[d].names) \in {0, y.dim[d]}
      <3>1. Len(u.dim) \in Nat
        BY ArrayFacts, LenProperties
      <3>2. DOMAIN m = 1 .. Len(u.dim) /\ Len(m) = Len(u.dim)
        BY <2>7, <3>1
      <3>3. ASSUME NEW d \in 1 .. Len(u.dim)
            PROVE  m[d] = t.names[d] \/ m[d] = u.names[d]
        BY <2>7
      <3> HIDE DEF m
      <3> QED
        BY <2>7, <3>2, <3>3
    <2> HIDE DEF m, r
    <2> DEFINE z == [y EXCEPT !.names = m]
    <2>9. IsArray(z) /\ z.v = y.v /\ z.dim = y.dim
      BY <2>5, <2>8, NamesReplaced DEF Fresh
    <2> HIDE DEF z
    <2>10. r = z
      BY <2>6 DEF z
    <2>11. Fresh(r, u) /\ Combines(r, t, u, op)
      BY <2>5, <2>9, <2>10 DEF Fresh, Combines, FlagsHold
    <2> HIDE DEF b
    <2> QED
      BY <2>2, <2>11 DEF r, b
  <1> HIDE DEF r, b
  <1>5. CASE Size(t) # 1 /\ Size(u) # 1 /\ t.dim # u.dim
    <2>1. ~Compatible(t, u)
      BY <1>5 DEF Compatible
    <2> QED
      BY <1>1, <2>1 DEF r
  <1> QED
    BY <1>3, <1>4, <1>5

LEMMA Cancelled ==
    ASSUME NEW m \in Nat, NEW n \in Nat, NEW k \in Nat, k # 0, m * k = n * k
    PROVE  m = n
  <1>1. ASSUME NEW x \in Nat, NEW y \in Nat, x < y
        PROVE  x * k # y * k
    <2>1. PICK z \in Nat : y = x + z /\ z # 0
      <3>1. y - x \in Nat /\ y = x + (y - x) /\ y - x # 0
        BY <1>1
      <3> QED
        BY <3>1
    <2>2. y * k = x * k + z * k
      BY <2>1
    <2>3. z * k # 0 /\ z * k \in Nat /\ x * k \in Nat
      BY <2>1
    <2> QED
      BY <2>2, <2>3
  <1>2. m < n \/ n < m \/ m = n
    OBVIOUS
  <1> QED
    BY <1>1, <1>2

\* Arrays of one size whose dimensions agree have elements at the same places.
LEMMA SameShape ==
    ASSUME NEW t, NEW u, IsArray(t), IsArray(u), Size(t) = Size(u), checkdims(t.dim, u.dim, 0),
           NEW c \in 1 .. Len(t.v), NEW i \in 1 .. Len(t.v[c].e)
    PROVE  c \in 1 .. Len(u.v) /\ i \in 1 .. Len(u.v[c].e)
  <1> DEFINE m == t.dim[1]
  <1>1. Len(t.v) \in Nat /\ Len(u.v) \in Nat /\ Len(t.v) # 0
    BY ArrayFacts
  <1>2. t.dim # <<>> /\ m \in Nat /\ Len(t.v[c].e) = m /\ m # 0
    <2>1. t.dim # <<>> /\ m \in Nat /\ Len(t.v[c].e) = m
      BY <1>1, ArrayFacts
    <2>2. i \in 1 .. m
      BY <2>1
    <2> HIDE DEF m
    <2> QED
      BY <2>1, <2>2
  <1>3. Size(t) = Len(t.v) * m
    BY <1>2 DEF Size
  <1>4. Size(t) # 0
    BY <1>1, <1>2, <1>3
  <1>5. u.dim # <<>>
    BY <1>4 DEF Size
  <1>6. Len(t.dim) \in Nat /\ Len(u.dim) \in Nat /\ Len(t.dim) # 0 /\ Len(u.dim) # 0
    BY <1>2, <1>5, ArrayFacts
  <1>7. u.dim[1] = m
    <2> DEFINE S == {Len(t.dim), Len(u.dim)}
               N == Len(t.dim) + Len(u.dim)
    <2>1. Max(S) \in S
      <3>1. N \in Nat /\ S \in SUBSET (1 .. N) /\ S # {}
        <4>1. N \in Nat /\ Len(t.dim) \in 1 .. N /\ Len(u.dim) \in 1 .. N
          <5> DEFINE x == Len(t.dim)
                     y == Len(u.dim)
          <5>1. x \in Nat /\ y \in Nat /\ x # 0 /\ y # 0
            BY <1>6
          <5> HIDE DEF x, y
          <5>2. x + y \in Nat /\ x \in 1 .. x + y /\ y \in 1 .. x + y
            BY <5>1
          <5> QED
            BY <5>2 DEF x, y
        <4> HIDE DEF N
        <4> QED
          BY <4>1
      <3> HIDE DEF S, N
      <3> QED
        BY <3>1, GreatestIs
    <2>2. 1 \in (1 .. Max(S)) \ {0}
      <3> DEFINE M == Max(S)
      <3>1. M = Len(t.dim) \/ M = Len(u.dim)
        BY <2>1
      <3> HIDE DEF M
      <3>2. 1 \in (1 .. M) \ {0}
        BY <1>6, <3>1
      <3> QED
        BY <3>2 DEF M
    <2>3. (IF 1 <= Len(t.dim) THEN t.dim[1] ELSE 1) = (IF 1 <= Len(u.dim) THEN u.dim[1] ELSE 1)
      BY <1>2, <1>5, <2>2 DEF checkdims
    <2> QED
      BY <1>6, <2>3
  <1>8. Len(t.v) = Len(u.v)
    <2>1. Size(u) = Len(u.v) * m
      BY <1>5, <1>7 DEF Size
    <2> HIDE DEF m
    <2> QED
      BY <1>1, <1>2, <1>3, <2>1, Cancelled
  <1>9. Len(u.v[c].e) = m
    BY <1>7, <1>8, ArrayFacts
  <1> QED
    BY <1>2, <1>8, <1>9

LEMMA SameDims ==
    ASSUME NEW dim \in Seq(Nat)
    PROVE  checkdims(dim, dim, 0)
  BY DEF checkdims

\* apply_attrib, on the array itself.
LEMMA AttribApplied ==
    ASSUME NEW t, NEW u, IsArray(t), IsArray(u), NEW op, ElemIn(op), Size(u) = 1 \/ Size(t) = Size(u)
    PROVE  LET r == apply_attrib(t, u, op)
               refused == Size(u) # 1 /\ ~checkdims(t.dim, u.dim, 0)
           IN  /\ refused => r = Thrown(t)
               /\ ~refused => Fresh(r, t) /\ r.names = t.names /\ Combines(r, t, u, op)
  <1> DEFINE r == apply_attrib(t, u, op)
             refused == Size(u) # 1 /\ ~checkdims(t.dim, u.dim, 0)
             E(c, i) == Elem(op, t.v[c].e[i], Part(u, c, i))
             q == [c \in 1 .. Len(t.v) |-> [i \in 1 .. Len(t.v[c].e) |-> E(c, i)]]
  <1>1. refused => r = Thrown(t)
    BY DEF apply_attrib
  <1> SUFFICES ASSUME ~refused
               PROVE  Fresh(r, t) /\ r.names = t.names /\ Combines(r, t, u, op)
    BY <1>1
  <1>2. ASSUME NEW c \in 1 .. Len(t.v), NEW i \in 1 .. Len(t.v[c].e)
        PROVE  E(c, i) \in Int /\ E(c, i) = Elem(op, Part(t, c, i), Part(u, c, i))
    <2>1. Part(t, c, i) = t.v[c].e[i] /\ Part(t, c, i) \in Int
      BY PartSelf
    <2>2. Part(u, c, i) \in Int
      <3>1. CASE Size(u) = 1
        BY <3>1, PartSingle
      <3>2. CASE Size(u) # 1
        <4>1. c \in 1 .. Len(u.v) /\ i \in 1 .. Len(u.v[c].e)
          BY <3>2, SameShape
        <4> QED
          BY <4>1, PartSelf
      <3> QED
        BY <3>1, <3>2
    <2> QED
      BY <2>1, <2>2 DEF ElemIn
  <1>3. r = AllSet(t, t.v, q)
    <2>1. r = [t EXCEPT !.v = [c \in 1 .. Len(t.v) |->
                 setv_all(t.v[c], [i \in 1 .. Len(t.v[c].e) |-> E(c, i)])]]
      BY Zenon DEF apply_attrib
    <2>2. \A c \in 1 .. Len(t.v) : q[c] = [i \in 1 .. Len(t.v[c].e) |-> E(c, i)]
      <3> HIDE DEF E
      <3> QED
        OBVIOUS
    <2> HIDE DEF E, q, r
    <2>3. [c \in 1 .. Len(t.v) |-> setv_all(t.v[c], [i \in 1 .. Len(t.v[c].e) |-> E(c, i)])]
            = [c \in 1 .. Len(t.v) |-> setv_all(t.v[c], q[c])]
      BY <2>2
    <2> QED
      BY <2>1, <2>3 DEF AllSet
  <1>4. FitsIn(q, t)
    <2> HIDE DEF E
    <2> QED
      BY <1>2 DEF FitsIn
  <1>5. ColumnsFit(t.v, t)
    BY ArrayFacts DEF ColumnsFit
  <1>6. \A c \in 1 .. Len(t.v) : \A i \in 1 .. Len(t.v[c].e) : q[c][i] = E(c, i)
    <2> HIDE DEF E
    <2> QED
      OBVIOUS
  <1> HIDE DEF q, r
  <1>7. HasElements(r, t, q)
    <2> DEFINE b == t.v
    <2>1. r = AllSet(t, b, q) /\ ColumnsFit(b, t)
      BY <1>3, <1>5
    <2> HIDE DEF b
    <2> QED
      BY <1>4, <2>1, ColumnsSet
  <1>8. \A c \in 1 .. Len(t.v) : Len(r.v[c].e) = Len(t.v[c].e)
    <2> TAKE c \in 1 .. Len(t.v)
    <2>1. Len(r.v[c].e) = r.dim[1] /\ Len(t.v[c].e) = t.dim[1]
      BY <1>7, ArrayFacts DEF HasElements
    <2> QED
      BY <1>7, <2>1 DEF HasElements
  <1>9. Combines(r, t, u, op)
    <2> SUFFICES ASSUME NEW c \in 1 .. Len(r.v), NEW i \in 1 .. Len(r.v[c].e)
                 PROVE  r.v[c].e[i] = Elem(op, Part(t, c, i), Part(u, c, i))
      BY DEF Combines
    <2>1. c \in 1 .. Len(t.v) /\ i \in 1 .. Len(t.v[c].e)
      BY <1>7, <1>8 DEF HasElements
    <2>2. r.v[c].e[i] = E(c, i)
      <3> HIDE DEF E
      <3> QED
        BY <1>6, <1>7, <2>1 DEF HasElements
    <2> QED
      BY <1>2, <2>1, <2>2
  <1> QED
    BY <1>7, <1>9 DEF HasElements, Fresh

\* What a column becomes in place, and what of it the loop over the columns has done.
Second(u, c, i) == IF Size(u) = 1 THEN u.v[1].e[1] ELSE u.v[c].e[i]
ColumnDone(s, t, u, op, c) ==
  /\ s.v[c].ordered => Ascends(s.v[c].e)
  /\ \A i \in 1 .. Len(t.v[c].e) : s.v[c].e[i] = Elem(op, t.v[c].e[i], Second(u, c, i))
  /\ Size(u) # 1 => c <= Len(u.v) /\ Len(t.v[c].e) <= Len(u.v[c].e)
Half(t) == [dim : {t.dim}, v : [1 .. Len(t.v) -> Column], names : {t.names}, threw : BOOLEAN]
ColumnsDone(s, t, u, op, k) ==
  /\ s \in Half(t) /\ \A c \in 1 .. Len(t.v) : Len(s.v[c].e) = Len(t.v[c].e)
  /\ ~s.threw => \A c \in 1 .. k : ColumnDone(s, t, u, op, c)
  /\ Size(u) = 1 \/ t.dim = u.dim => ~s.threw

LEMMA ColumnTurned ==
    ASSUME NEW t, NEW u, IsArray(t), IsArray(u), NEW op, ElemIn(op), NEW c \in 1 .. Len(t.v),
           NEW s, ColumnsDone(s, t, u, op, c - 1)
    PROVE  ColumnsDone(ColumnTurn([what |-> "columns", t |-> t, u |-> u, op |-> op], s, c), t, u, op, c)
  <1> DEFINE d == [what |-> "columns", t |-> t, u |-> u, op |-> op]
             w == OneColumn(d, c)
             r == apply_column(t.v[c], w, op)
             x == ColumnTurn(d, s, c)
  <1>1. Len(t.v) \in Nat /\ Len(u.v) \in Nat /\ c \in Nat
    BY ArrayFacts
  <1>2. t.v[c] \in Column /\ t.v[c].e \in Seq(Int) /\ Len(t.v[c].e) = t.dim[1]
    BY ArrayFacts
  <1>3. /\ s \in Half(t) /\ \A k \in 1 .. Len(t.v) : Len(s.v[k].e) = Len(t.v[k].e)
        /\ ~s.threw => \A k \in 1 .. c - 1 : ColumnDone(s, t, u, op, k)
        /\ Size(u) = 1 \/ t.dim = u.dim => ~s.threw
    BY DEF ColumnsDone
  <1>4. s.v \in [1 .. Len(t.v) -> Column] /\ s.threw \in BOOLEAN
    BY <1>3 DEF Half
  <1>5. CASE s.threw
    <2>1. x = s
      BY <1>5 DEF ColumnTurn
    <2> HIDE DEF x
    <2>2. ColumnsDone(x, t, u, op, c)
      BY <1>3, <1>5, <2>1 DEF ColumnsDone
    <2> QED
      BY <2>2 DEF x, d
  <1>6. CASE ~s.threw /\ Size(u) # 1 /\ c > Len(u.v)
    <2>1. x = Thrown(s)
      BY <1>6 DEF ColumnTurn
    <2>2. x \in Half(t) /\ x.v = s.v /\ x.threw
      <3> HIDE DEF x
      <3> QED
        BY <1>3, <2>1 DEF Thrown, Half
    <2>3. ~(t.dim = u.dim)
      <3> SUFFICES ASSUME t.dim = u.dim
                   PROVE  FALSE
        OBVIOUS
      <3>1. Len(t.v) = Len(u.v)
        BY DEF IsArray, WellFormed
      <3> QED
        BY <1>1, <1>6, <3>1
    <2> HIDE DEF x
    <2>4. ColumnsDone(x, t, u, op, c)
      BY <1>3, <1>6, <2>2, <2>3 DEF ColumnsDone
    <2> QED
      BY <2>4 DEF x, d
  <1>7. CASE ~s.threw /\ ~(Size(u) # 1 /\ c > Len(u.v))
    <2>1. x = [s EXCEPT !.v = [@ EXCEPT ![c] = r.v], !.threw = r.threw]
      BY <1>7 DEF ColumnTurn
    <2>2. /\ w \in Seq(Int)
          /\ Size(u) = 1 => Len(w) = Len(t.v[c].e) /\ \A i \in 1 .. Len(t.v[c].e) : w[i] = Second(u, c, i)
          /\ Size(u) # 1 => w = u.v[c].e /\ c \in 1 .. Len(u.v)
      <3>1. CASE Size(u) = 1
        <4> DEFINE n == Len(t.v[c].e)
                   e == u.v[1].e[1]
                   z == [i \in 1 .. n |-> e]
        <4>1. w = z \o <<>>
          BY <3>1 DEF OneColumn, Copies
        <4>2. e \in Int /\ n \in Nat
          BY <1>2, <3>1, PartSingle
        <4> HIDE DEF e, n, w
        <4>3. z \in Seq(Int) /\ Len(z) = n /\ \A i \in 1 .. n : z[i] = e
          BY <4>2, SeqFromFunction
        <4> HIDE DEF z
        <4>4. w = z
          BY <4>1, <4>3
        <4> QED
          BY <3>1, <4>3, <4>4 DEF Second, e, n
      <3>2. CASE Size(u) # 1
        <4>1. w = u.v[c].e
          BY <3>2 DEF OneColumn
        <4>2. c \in 1 .. Len(u.v)
          BY <1>1, <1>7, <3>2
        <4>3. u.v[c].e \in Seq(Int)
          BY <4>2, ArrayFacts
        <4> HIDE DEF w
        <4> QED
          BY <3>2, <4>1, <4>2, <4>3
      <3> QED
        BY <3>1, <3>2
    <2> HIDE DEF w
    <2>3. /\ r.v \in Column /\ Len(r.v.e) = Len(t.v[c].e) /\ r.threw \in BOOLEAN
          /\ r.threw <=> Len(w) < Len(t.v[c].e)
          /\ ~r.threw =>
               /\ \A i \in 1 .. Len(t.v[c].e) : r.v.e[i] = Elem(op, t.v[c].e[i], w[i])
               /\ r.v.ordered => Ascends(r.v.e)
      <3> DEFINE v == t.v[c]
      <3>1. v \in Column
        BY <1>2
      <3> HIDE DEF v
      <3>2. LET p == apply_column(v, w, op)
            IN  /\ p.v \in Column /\ Len(p.v.e) = Len(v.e) /\ p.threw \in BOOLEAN
                /\ p.threw <=> Len(w) < Len(v.e)
                /\ ~p.threw =>
                     /\ \A i \in 1 .. Len(v.e) : p.v.e[i] = Elem(op, v.e[i], w[i])
                     /\ p.v.ordered => Ascends(p.v.e)
        BY <2>2, <3>1, ElemAll
      <3> QED
        BY <3>2 DEF v
    <2> HIDE DEF r, x
    <2> DEFINE y == [s.v EXCEPT ![c] = r.v]
    <2>4. /\ y \in [1 .. Len(t.v) -> Column] /\ y[c] = r.v
          /\ \A k \in 1 .. Len(t.v) : k # c => y[k] = s.v[k]
      BY <1>4, <2>3
    <2>5. x = [s EXCEPT !.v = y, !.threw = r.threw]
      BY <2>1
    <2> HIDE DEF y
    <2>6. x \in Half(t) /\ x.v = y /\ x.threw = r.threw
      BY <1>3, <2>3, <2>4, <2>5 DEF Half
    <2>7. \A k \in 1 .. Len(t.v) : Len(x.v[k].e) = Len(t.v[k].e)
      BY <1>3, <2>3, <2>4, <2>6
    <2>8. ASSUME ~x.threw, NEW k \in 1 .. c
          PROVE  ColumnDone(x, t, u, op, k)
      <3>1. CASE k = c
        <4>1. /\ x.v[c] = r.v /\ ~r.threw /\ Len(w) >= Len(t.v[c].e)
          <5>1. Len(w) \in Nat /\ Len(t.v[c].e) \in Nat
            BY <1>2, <2>2
          <5> QED
            BY <2>3, <2>4, <2>6, <2>8, <5>1
        <4>2. \A i \in 1 .. Len(t.v[c].e) : w[i] = Second(u, c, i)
          BY <2>2 DEF Second
        <4>3. Size(u) # 1 => c <= Len(u.v) /\ Len(t.v[c].e) <= Len(u.v[c].e)
          BY <1>1, <1>2, <2>2, <4>1
        <4> QED
          BY <2>3, <3>1, <4>1, <4>2, <4>3 DEF ColumnDone
      <3>2. CASE k # c
        <4>1. k \in 1 .. c - 1 /\ k \in 1 .. Len(t.v)
          BY <1>1, <3>2
        <4>2. x.v[k] = s.v[k]
          BY <2>4, <2>6, <3>2, <4>1
        <4>3. ColumnDone(s, t, u, op, k)
          BY <1>3, <1>7, <4>1
        <4> QED
          BY <4>2, <4>3 DEF ColumnDone
      <3> QED
        BY <3>1, <3>2
    <2>9. Size(u) = 1 \/ t.dim = u.dim => ~r.threw
      <3>1. CASE Size(u) = 1
        BY <1>2, <2>2, <2>3, <3>1
      <3>2. CASE Size(u) # 1 /\ t.dim = u.dim
        <4>1. Len(u.v[c].e) = u.dim[1] /\ Len(t.v[c].e) \in Nat
          <5>1. c \in 1 .. Len(u.v)
            BY <2>2, <3>2
          <5>2. Len(u.v[c].e) = u.dim[1]
            BY <5>1, ArrayFacts
          <5>3. Len(t.v[c].e) \in Nat
            BY <1>2, LenProperties
          <5> QED
            BY <5>2, <5>3
        <4>2. Len(w) = Len(t.v[c].e)
          BY <1>2, <2>2, <3>2, <4>1
        <4> QED
          BY <2>3, <4>1, <4>2
      <3> QED
        BY <3>1, <3>2
    <2>10. ColumnsDone(x, t, u, op, c)
      BY <2>6, <2>7, <2>8, <2>9 DEF ColumnsDone
    <2> QED
      BY <2>10 DEF x, d
  <1> QED
    BY <1>5, <1>6, <1>7

\* apply_inplace, on the array itself: what it leaves when it throws has the old shape.
LEMMA InplaceApplied ==
    ASSUME NEW t, NEW u, IsArray(t), IsArray(u), NEW op, ElemIn(op)
    PROVE  LET r == apply_inplace(t, u, op)
           IN  /\ r.threw \in BOOLEAN /\ r.dim = t.dim /\ r.names = t.names /\ Len(r.v) = Len(t.v)
               /\ IsArray([r EXCEPT !.threw = FALSE])
               /\ ~r.threw => Fresh(r, t) /\ Combines(r, t, u, op)
               /\ Size(u) = 1 \/ t.dim = u.dim => ~r.threw
  <1> DEFINE r == apply_inplace(t, u, op)
             n == Len(t.v)
             d == [what |-> "columns", t |-> t, u |-> u, op |-> op]
             z == ColumnsStart(t)
  <1>1. t.v \in Seq(Column) /\ n \in Nat /\ DOMAIN t.v = 1 .. n
    <2>1. t.v \in Seq(Column)
      BY ArrayFacts
    <2> QED
      BY <2>1, LenProperties
  <1>2. PICK f : Run(f, d, z, n) /\ f[n] = r
    <2> HIDE DEF n
    <2> QED
      BY <1>1, ColumnsRun
  <1> DEFINE I == {k \in Nat : k <= n => ColumnsDone(f[k], t, u, op, k)}
  <1>3. 0 \in I
    <2>1. f[0] = z
      BY <1>2 DEF Run
    <2>2. t \in [dim : Seq(Nat), v : Seq(Column), names : {t.names}, threw : {FALSE}]
      BY ArrayFacts
    <2>3. z = [t EXCEPT !.v = t.v \o <<>>]
      BY DEF ColumnsStart
    <2>4. t.v \o <<>> = t.v
      BY <1>1
    <2>5. t.v \in [1 .. Len(t.v) -> Column]
      BY <1>1
    <2>6. z \in Half(t) /\ z.v = t.v /\ ~z.threw
      <3> HIDE DEF z
      <3> QED
        BY <2>2, <2>3, <2>4, <2>5 DEF Half
    <2> HIDE DEF z
    <2>7. ColumnsDone(z, t, u, op, 0)
      BY <2>6 DEF ColumnsDone
    <2> QED
      BY <2>1, <2>7
  <1>4. ASSUME NEW k \in Nat, k \in I
        PROVE  k + 1 \in I
    <2> SUFFICES ASSUME k + 1 <= n
                 PROVE  ColumnsDone(f[k + 1], t, u, op, k + 1)
      OBVIOUS
    <2> DEFINE i == k + 1
               s == f[k]
    <2>1. ColumnsDone(s, t, u, op, k)
      BY <1>1, <1>4
    <2>2. f[i] = Turn(d, s, i)
      <3>1. k \in 0 .. n - 1
        BY <1>1
      <3> QED
        BY <1>2, <3>1 DEF Run
    <2>3. f[i] = ColumnTurn(d, s, i)
      BY <2>2 DEF Turn
    <2>4. i \in 1 .. n /\ i - 1 = k
      BY <1>1
    <2> HIDE DEF i, s
    <2>5. ColumnsDone(s, t, u, op, i - 1)
      BY <2>1, <2>4
    <2>6. ColumnsDone(ColumnTurn(d, s, i), t, u, op, i)
      BY <2>4, <2>5, ColumnTurned
    <2>7. ColumnsDone(f[i], t, u, op, i)
      BY <2>3, <2>6
    <2> QED
      BY <2>7 DEF i
  <1>5. n \in I
    <2> HIDE DEF I, n
    <2> QED
      BY <1>1, <1>3, <1>4, SetInduction
  <1>6. ColumnsDone(r, t, u, op, n)
    <2> HIDE DEF n, r
    <2> QED
      BY <1>1, <1>2, <1>5
  <1> HIDE DEF r
  <1>7. /\ r \in Half(t) /\ \A c \in 1 .. n : Len(r.v[c].e) = Len(t.v[c].e)
        /\ ~r.threw => \A c \in 1 .. n : ColumnDone(r, t, u, op, c)
        /\ Size(u) = 1 \/ t.dim = u.dim => ~r.threw
    BY <1>6 DEF ColumnsDone
  <1>8. /\ r.v \in [1 .. n -> Column] /\ r.threw \in BOOLEAN /\ r.dim = t.dim /\ r.names = t.names
    BY <1>7 DEF Half
  <1>9. Len(r.v) = n
    BY <1>1, <1>8, SeqFromFunction
  <1>10. IsArray([r EXCEPT !.threw = FALSE])
    <2> DEFINE x == [r EXCEPT !.threw = FALSE]
               y == [t EXCEPT !.v = r.v]
    <2>1. /\ IsArray(y) /\ y.v = r.v /\ y.dim = t.dim /\ y.names = t.names
      <3> DEFINE w == r.v
      <3>1. w \in [1 .. Len(t.v) -> Column] /\ \A c \in 1 .. Len(t.v) : Len(w[c].e) = Len(t.v[c].e)
        BY <1>7, <1>8
      <3> HIDE DEF w
      <3>2. LET q == [t EXCEPT !.v = w]
            IN  IsArray(q) /\ q.v = w /\ q.dim = t.dim /\ q.names = t.names
        BY <3>1, ColumnsReplaced
      <3> QED
        BY <3>2 DEF w
    <2>2. t.dim \in Seq(Nat)
      BY ArrayFacts
    <2>3. r.v \in Seq(Column)
      BY <1>1, <1>8, SeqFromFunction
    <2>4. x \in [dim : Seq(Nat), v : Seq(Column), names : {t.names}, threw : {FALSE}]
          /\ x.v = r.v /\ x.dim = t.dim /\ x.names = t.names
      BY <1>7, <2>2, <2>3 DEF Half
    <2> HIDE DEF x, y
    <2>5. WellFormed(x)
      BY <2>1, <2>4 DEF IsArray, WellFormed
    <2> QED
      BY <2>4, <2>5 DEF IsArray, x
  <1>11. ASSUME ~r.threw
         PROVE  Fresh(r, t) /\ Combines(r, t, u, op)
    <2> DEFINE x == [r EXCEPT !.threw = FALSE]
    <2>1. x = r
      BY <1>7, <1>8, <1>11 DEF Half
    <2>2. IsArray(x)
      BY <1>10
    <2> HIDE DEF x
    <2>3. \A c \in 1 .. n : ColumnDone(r, t, u, op, c)
      BY <1>7, <1>11
    <2>4. FlagsHold(r)
      BY <1>9, <2>3 DEF FlagsHold, ColumnDone
    <2>5. Combines(r, t, u, op)
      <3> SUFFICES ASSUME NEW c \in 1 .. Len(r.v), NEW i \in 1 .. Len(r.v[c].e)
                   PROVE  r.v[c].e[i] = Elem(op, Part(t, c, i), Part(u, c, i))
        BY DEF Combines
      <3>1. c \in 1 .. Len(t.v) /\ i \in 1 .. Len(t.v[c].e)
        BY <1>7, <1>9
      <3>2. r.v[c].e[i] = Elem(op, t.v[c].e[i], Second(u, c, i))
        BY <2>3, <3>1 DEF ColumnDone
      <3>3. Part(t, c, i) = t.v[c].e[i]
        BY <3>1, PartSelf
      <3>4. Part(u, c, i) = Second(u, c, i)
        BY DEF Part, Second
      <3> QED
        BY <3>2, <3>3, <3>4
    <2> QED
      BY <1>8, <1>9, <2>1, <2>2, <2>4, <2>5 DEF Fresh
  <1> QED
    BY <1>7, <1>8, <1>9, <1>10, <1>11 DEF r

-----------------------------------------------------------------------------
\* An array is what it is made of; one that has thrown, once the flag is reset, is the old one.
LEMMA Unthrown ==
    ASSUME NEW a, IsArray(a)
    PROVE  [a EXCEPT !.threw = FALSE] = a /\ [Thrown(a) EXCEPT !.threw = FALSE] = a /\ Thrown(a).threw
           /\ Thrown(a).v = a.v
  <1>1. a \in [dim : Seq(Nat), v : Seq(Column), names : {a.names}, threw : {FALSE}]
    BY ArrayFacts
  <1> QED
    BY <1>1 DEF Thrown

LEMMA NullIs ==
    /\ IsArray(Null) /\ FlagsHold(Null) /\ Null.v = <<>>
    /\ Threw.threw /\ Threw.v = <<>> /\ FlagsHold(Threw) /\ Threw.dim = <<>>
  <1>1. Null = [dim |-> <<>>, v |-> <<>>, names |-> <<>>, threw |-> FALSE]
    BY DEF Null, Array
  <1>2. <<>> \in Seq(Nat) /\ <<>> \in Seq(Column)
    OBVIOUS
  <1>3. Null \in [dim : Seq(Nat), v : Seq(Column), names : {Null.names}, threw : {FALSE}]
    BY <1>1, <1>2
  <1>4. WellFormed(Null)
    BY <1>1 DEF WellFormed, NbColumns
  <1>5. IsArray(Null) /\ FlagsHold(Null)
    BY <1>1, <1>3, <1>4 DEF IsArray, FlagsHold
  <1>6. Threw.threw /\ Threw.v = <<>> /\ Threw.dim = <<>>
    BY <1>1 DEF Threw, Thrown
  <1>7. FlagsHold(Threw)
    BY <1>6 DEF FlagsHold
  <1> QED
    BY <1>1, <1>5, <1>6, <1>7

\* The product of no numbers.
LEMMA EmptyProduct == Product(<<>>) = 1
  <1> DEFINE B(x, y) == y * x
             E(g, s) == IF s = {} THEN 1 ELSE B(<<>>[Max(s)], g[s \ {Max(s)}])
             Solves(g) == g = [s \in SUBSET (DOMAIN <<>>) |-> E(g, s)]
             h == CHOOSE g : Solves(g)
  <1>1. Product(<<>>) = h[DOMAIN <<>>]
    BY DEF Product, FoldLeft, MapThenFoldSet
  <1>2. DOMAIN <<>> = {}
    OBVIOUS
  <1> DEFINE f == [s \in SUBSET {} |-> 1]
  <1>3. Solves(f)
    <2>1. \A s \in SUBSET {} : s = {}
      OBVIOUS
    <2>2. \A s \in SUBSET {} : E(f, s) = 1
      BY <2>1
    <2> HIDE DEF E
    <2>3. f = [s \in SUBSET {} |-> E(f, s)]
      BY <2>2
    <2> QED
      BY <1>2, <2>3
  <1>4. Solves(h)
    <2> HIDE DEF Solves
    <2> QED
      BY <1>3, Zenon DEF h
  <1> HIDE DEF h
  <1>5. h[{}] = E(h, {})
    <2> HIDE DEF E
    <2>1. h = [s \in SUBSET {} |-> E(h, s)]
      BY <1>2, <1>4
    <2> QED
      BY <2>1
  <1> QED
    BY <1>1, <1>2, <1>5

\* A single truth value.
LEMMA BoolIs ==
    ASSUME NEW b \in BOOLEAN
    PROVE  IsArray(Bool(b)) /\ FlagsHold(Bool(b)) /\ ~Bool(b).threw
  <1> DEFINE m == IF b THEN 1 ELSE 0
             e == Copies(1, m)
             a == Bool(b)
             col == vector_n(1, m)
  <1>1. m \in Int
    OBVIOUS
  <1> HIDE DEF m
  <1>2. NbColumns(<<1>>) = 1
    <2>1. Tail(<<1>>) = <<>> /\ <<1>> # <<>>
      OBVIOUS
    <2> QED
      BY <2>1, EmptyProduct DEF NbColumns
  <1>3. e \in Seq(Int) /\ Len(e) = 1
    <2>1. e = [i \in 1 .. 1 |-> m] \o <<>>
      BY DEF Copies
    <2> DEFINE f == [i \in 1 .. 1 |-> m]
    <2>2. f \in Seq(Int) /\ Len(f) = 1
      BY <1>1, SeqFromFunction
    <2> HIDE DEF f, e
    <2>3. e = f \o <<>>
      BY <2>1 DEF f
    <2> QED
      BY <2>2, <2>3
  <1>4. col = [e |-> e, ordered |-> 1 <= 1]
    BY Zenon DEF vector_n
  <1>5. col \in Column /\ Len(col.e) = 1 /\ Ascends(col.e)
    <2>1. col \in Column /\ col.e = e
      <3> DEFINE o == 1 <= 1
      <3>1. o \in BOOLEAN /\ col = [e |-> e, ordered |-> o]
        BY <1>4
      <3> HIDE DEF e, col, o
      <3> QED
        BY <1>3, <3>1, ColumnIs
    <2> HIDE DEF e, col
    <2>2. Len(e) - 1 = 0
      BY <1>3
    <2>3. Ascends(e)
      BY <2>2 DEF Ascends
    <2> QED
      BY <1>3, <2>1, <2>3
  <1>6. a = Array(<<1>>, [c \in 1 .. 1 |-> col], buildNames(<<1>>, <<>>))
    <2>1. NamesFit(<<1>>, <<>>)
      BY DEF NamesFit
    <2>2. Len(<<m>>) = 1 /\ <<1>>[1] = 1 /\ <<m>>[1] = m
      OBVIOUS
    <2>3. Bool(b) = make_array(<<1>>, <<m>>, <<>>)
      BY DEF Bool, Scalar1, m
    <2> QED
      BY <1>2, <2>1, <2>2, <2>3 DEF make_array
  <1> DEFINE v == [c \in 1 .. 1 |-> col]
             names == buildNames(<<1>>, <<>>)
  <1>7. Len(names) = 1 /\ names[1].sz = 1 /\ Len(names[1].names) = 0
    BY DEF buildNames, NoNames, Dname
  <1>8. v \in Seq(Column) /\ Len(v) = 1 /\ v[1] = col
    <2> HIDE DEF col
    <2> QED
      BY <1>5, SeqFromFunction
  <1> HIDE DEF col, v, names, a
  <1>9. a = [dim |-> <<1>>, v |-> v, names |-> names, threw |-> FALSE]
    BY <1>6 DEF Array, v, names
  <1>10. a \in [dim : Seq(Nat), v : Seq(Column), names : {a.names}, threw : {FALSE}]
    <2>1. <<1>> \in Seq(Nat)
      OBVIOUS
    <2> QED
      BY <1>8, <1>9, <2>1
  <1>11. WellFormed(a)
    <2>1. a.dim = <<1>> /\ a.v = v /\ a.names = names /\ Len(<<1>>) = 1 /\ <<1>>[1] = 1
      BY <1>9
    <2> QED
      BY <1>2, <1>5, <1>7, <1>8, <2>1 DEF WellFormed
  <1>12. FlagsHold(a) /\ ~a.threw
    <2>1. a.v = v /\ ~a.threw
      BY <1>9
    <2>2. \A c \in 1 .. Len(v) : c = 1
      BY <1>8
    <2> QED
      BY <1>5, <1>8, <2>1, <2>2 DEF FlagsHold
  <1> QED
    BY <1>10, <1>11, <1>12 DEF IsArray, a

(***************************************************************************)
(* The rules: what is added to what, and what is compared with what.       *)
(***************************************************************************)
SumTable ==
  {<<"double", "double", "double">>, <<"double", "zts", "zts">>, <<"zts", "double", "zts">>,
   <<"zts", "zts", "zts">>, <<"time", "duration", "time">>, <<"duration", "time", "time">>,
   <<"time", "period", "time">>, <<"period", "time", "time">>,
   <<"duration", "duration", "duration">>, <<"period", "period", "period">>,
   <<"duration", "interval", "interval">>, <<"interval", "duration", "interval">>,
   <<"interval", "period", "interval">>, <<"period", "interval", "interval">>}
EqTable ==
  {<<k, k>> : k \in {"double", "zts", "time", "duration", "interval", "period", "bool", "string"}}
  \cup {<<"double", "zts">>, <<"zts", "double">>, <<"string", "error">>, <<"error", "string">>}

LEMMA RuleCases ==
    ASSUME NEW u \in Rules
    PROVE  \/ u \in DoubleRules \/ u \in ZtsRules \/ u \in TimeRules \/ u \in DurationRules
           \/ u \in IntervalRules \/ u \in PeriodRules \/ u \in BoolRules \/ u \in StringRules
  BY DEF Rules

LEMMA SumRules ==
    ASSUME NEW u \in Rules, "PLUS" \in u.ops
    PROVE  <<u.k1, u.k2, u.k>> \in SumTable
  <1>1. u \in DoubleRules => <<u.k1, u.k2, u.k>> \in SumTable
    BY DEF DoubleRules, Rule, SumTable, arithmetic, boolean, comp, eq_ne
  <1>2. u \in ZtsRules => <<u.k1, u.k2, u.k>> \in SumTable
    BY DEF ZtsRules, Rule, SumTable, arithmetic, boolean, comp, eq_ne
  <1>3. u \in TimeRules => <<u.k1, u.k2, u.k>> \in SumTable
    BY DEF TimeRules, Rule, SumTable, plus_minus, comp, eq_ne
  <1>4. u \in DurationRules => <<u.k1, u.k2, u.k>> \in SumTable
    BY DEF DurationRules, Rule, SumTable, plus_minus, mul_div, comp, eq_ne
  <1>5. u \in IntervalRules => <<u.k1, u.k2, u.k>> \in SumTable
    BY DEF IntervalRules, Rule, SumTable, plus_minus, comp, eq_ne
  <1>6. u \in PeriodRules => <<u.k1, u.k2, u.k>> \in SumTable
    BY DEF PeriodRules, Rule, SumTable, plus_minus, mul_div, comp, eq_ne
  <1>7. u \notin BoolRules /\ u \notin StringRules
    BY DEF BoolRules, StringRules, Rule, boolean, comp, eq_ne
  <1> QED
    BY <1>1, <1>2, <1>3, <1>4, <1>5, <1>6, <1>7, RuleCases

LEMMA EqRules ==
    ASSUME NEW u \in Rules, NEW op \in eq_ne, op \in u.ops
    PROVE  <<u.k1, u.k2>> \in EqTable /\ u.k = "bool"
  <1> DEFINE P == <<u.k1, u.k2>> \in EqTable /\ u.k = "bool"
  <1>1. u \in DoubleRules => P
    BY DEF DoubleRules, Rule, EqTable, arithmetic, boolean, comp, eq_ne
  <1>2. u \in ZtsRules => P
    BY DEF ZtsRules, Rule, EqTable, arithmetic, boolean, comp, eq_ne
  <1>3. u \in TimeRules => P
    BY DEF TimeRules, Rule, EqTable, plus_minus, comp, eq_ne
  <1>4. u \in DurationRules => P
    BY DEF DurationRules, Rule, EqTable, plus_minus, mul_div, comp, eq_ne
  <1>5. u \in IntervalRules => P
    BY DEF IntervalRules, Rule, EqTable, plus_minus, comp, eq_ne
  <1>6. u \in PeriodRules => P
    BY DEF PeriodRules, Rule, EqTable, plus_minus, mul_div, comp, eq_ne
  <1>7. u \in BoolRules => P
    BY DEF BoolRules, Rule, EqTable, boolean, comp, eq_ne
  <1>8. u \in StringRules => P
    BY DEF StringRules, Rule, EqTable, comp, eq_ne
  <1> QED
    BY <1>1, <1>2, <1>3, <1>4, <1>5, <1>6, <1>7, <1>8, RuleCases

\* For every line of the tables there is a rule.
LEMMA SumRuleExists ==
    ASSUME NEW p \in SumTable
    PROVE  \E u \in Rules : u.k1 = p[1] /\ u.k2 = p[2] /\ "PLUS" \in u.ops
  <1> DEFINE P(S) == \E u \in S : u.k1 = p[1] /\ u.k2 = p[2] /\ "PLUS" \in u.ops
  <1>1. P(DoubleRules) \/ P(ZtsRules) \/ P(TimeRules) \/ P(DurationRules) \/ P(IntervalRules) \/ P(PeriodRules)
    <2>1. p \in {<<"double", "double", "double">>, <<"double", "zts", "zts">>} => P(DoubleRules)
      BY DEF DoubleRules, Rule, arithmetic
    <2>2. p \in {<<"zts", "double", "zts">>, <<"zts", "zts", "zts">>} => P(ZtsRules)
      <3>1. \A k \in {"double", "zts"} : Rule("zts", k, arithmetic, "zts") \in ZtsRules
        BY DEF ZtsRules
      <3> QED
        BY <3>1 DEF Rule, arithmetic
    <2>3. p \in {<<"time", "duration", "time">>, <<"time", "period", "time">>} => P(TimeRules)
      BY DEF TimeRules, Rule, plus_minus
    <2>4. p \in {<<"duration", "time", "time">>, <<"duration", "duration", "duration">>, <<"duration", "interval", "interval">>} => P(DurationRules)
      BY DEF DurationRules, Rule, plus_minus
    <2>5. p \in {<<"interval", "duration", "interval">>, <<"interval", "period", "interval">>} => P(IntervalRules)
      BY DEF IntervalRules, Rule, plus_minus
    <2>6. p \in {<<"period", "time", "time">>, <<"period", "period", "period">>, <<"period", "interval", "interval">>} => P(PeriodRules)
      BY DEF PeriodRules, Rule, plus_minus
    <2> HIDE DEF P
    <2> QED
      BY <2>1, <2>2, <2>3, <2>4, <2>5, <2>6 DEF SumTable
  <1> QED
    BY <1>1 DEF Rules

LEMMA EqRuleExists ==
    ASSUME NEW p \in EqTable, NEW op \in eq_ne
    PROVE  \E u \in Rules : u.k1 = p[1] /\ u.k2 = p[2] /\ op \in u.ops
  <1> DEFINE P(S) == \E u \in S : u.k1 = p[1] /\ u.k2 = p[2] /\ op \in u.ops
  <1>0. op \in comp /\ op \in boolean
    BY DEF comp, boolean
  <1>1. \/ P(DoubleRules) \/ P(ZtsRules) \/ P(TimeRules) \/ P(DurationRules) \/ P(IntervalRules)
        \/ P(PeriodRules) \/ P(BoolRules) \/ P(StringRules)
    <2>1. p \in {<<"double", "double">>, <<"double", "zts">>} => P(DoubleRules)
      BY <1>0 DEF DoubleRules, Rule
    <2>2. p \in {<<"zts", "double">>, <<"zts", "zts">>} => P(ZtsRules)
      <3>1. \A k \in {"double", "zts"} : Rule("zts", k, boolean, "bool") \in ZtsRules
        BY DEF ZtsRules
      <3> QED
        BY <1>0, <3>1 DEF Rule
    <2>3. p = <<"time", "time">> => P(TimeRules)
      BY <1>0 DEF TimeRules, Rule
    <2>4. p = <<"duration", "duration">> => P(DurationRules)
      BY <1>0 DEF DurationRules, Rule
    <2>5. p = <<"interval", "interval">> => P(IntervalRules)
      BY <1>0 DEF IntervalRules, Rule
    <2>6. p = <<"period", "period">> => P(PeriodRules)
      BY DEF PeriodRules, Rule
    <2>7. p = <<"bool", "bool">> => P(BoolRules)
      BY <1>0 DEF BoolRules, Rule
    <2>8. p \in {<<"string", "string">>, <<"string", "error">>, <<"error", "string">>} => P(StringRules)
      <3>1. ASSUME NEW k \in {<<"string", "string">>, <<"string", "error">>, <<"error", "string">>}
            PROVE  Rule(k[1], k[2], comp, "bool") \in StringRules
        BY DEF StringRules
      <3> QED
        BY <1>0, <3>1 DEF Rule
    <2> HIDE DEF P
    <2> QED
      BY <2>1, <2>2, <2>3, <2>4, <2>5, <2>6, <2>7, <2>8 DEF EqTable
  <1> QED
    BY <1>1 DEF Rules

\* The tables are the same from both sides, and give one type.
LEMMA TablesSwap ==
    /\ \A a, b, k : <<a, b, k>> \in SumTable => <<b, a, k>> \in SumTable
    /\ \A a, b, k, m : <<a, b, k>> \in SumTable /\ <<a, b, m>> \in SumTable => k = m
    /\ \A a, b : <<a, b>> \in EqTable => <<b, a>> \in EqTable
  <1>1. \A a, b, k : <<a, b, k>> \in SumTable => <<b, a, k>> \in SumTable
    BY DEF SumTable
  <1>2. \A a, b, k, m : <<a, b, k>> \in SumTable /\ <<a, b, m>> \in SumTable => k = m
    BY DEF SumTable
  <1>3. \A a, b : <<a, b>> \in EqTable => <<b, a>> \in EqTable
    BY DEF EqTable
  <1> QED
    BY <1>1, <1>2, <1>3

LEMMA RulesSwap ==
    ASSUME NEW a, NEW b, NEW op \in {"PLUS"} \cup eq_ne
    PROVE  /\ Applies(a, b, op) = {} => Applies(b, a, op) = {}
           /\ \A u \in Applies(a, b, op), w \in Applies(b, a, op) : u.k = w.k
  <1>1. CASE op = "PLUS"
    <2>1. ASSUME NEW w \in Applies(b, a, op)
          PROVE  <<b, a, w.k>> \in SumTable /\ Applies(a, b, op) # {}
      <3>1. w \in Rules /\ w.k1 = b /\ w.k2 = a /\ "PLUS" \in w.ops
        BY <1>1 DEF Applies
      <3>2. <<b, a, w.k>> \in SumTable
        BY <3>1, SumRules
      <3>3. <<a, b, w.k>> \in SumTable
        BY <3>2, TablesSwap
      <3> DEFINE p == <<a, b, w.k>>
      <3>4. p[1] = a /\ p[2] = b /\ p \in SumTable
        BY <3>3
      <3> HIDE DEF p
      <3>5. PICK u \in Rules : u.k1 = p[1] /\ u.k2 = p[2] /\ "PLUS" \in u.ops
        BY <3>4, SumRuleExists
      <3>6. u \in Applies(a, b, op)
        BY <1>1, <3>4, <3>5 DEF Applies
      <3> QED
        BY <3>2, <3>6
    <2>2. ASSUME NEW u \in Applies(a, b, op), NEW w \in Applies(b, a, op)
          PROVE  u.k = w.k
      <3>1. u \in Rules /\ u.k1 = a /\ u.k2 = b /\ "PLUS" \in u.ops
        BY <1>1 DEF Applies
      <3>2. <<a, b, u.k>> \in SumTable
        BY <3>1, SumRules
      <3>3. <<a, b, w.k>> \in SumTable
        BY <2>1, TablesSwap
      <3> QED
        BY <3>2, <3>3, TablesSwap
    <2> QED
      BY <2>1, <2>2
  <1>2. CASE op \in eq_ne
    <2>1. ASSUME NEW w \in Applies(b, a, op)
          PROVE  w.k = "bool" /\ Applies(a, b, op) # {}
      <3>1. w \in Rules /\ w.k1 = b /\ w.k2 = a /\ op \in w.ops
        BY DEF Applies
      <3>2. <<b, a>> \in EqTable /\ w.k = "bool"
        BY <1>2, <3>1, EqRules
      <3> DEFINE p == <<a, b>>
      <3>3. p[1] = a /\ p[2] = b /\ p \in EqTable
        BY <3>2, TablesSwap
      <3> HIDE DEF p
      <3>4. PICK u \in Rules : u.k1 = p[1] /\ u.k2 = p[2] /\ op \in u.ops
        BY <1>2, <3>3, EqRuleExists
      <3>5. u \in Applies(a, b, op)
        BY <3>3, <3>4 DEF Applies
      <3> QED
        BY <3>2, <3>5
    <2>2. ASSUME NEW u \in Applies(a, b, op)
          PROVE  u.k = "bool"
      <3>1. u \in Rules /\ op \in u.ops
        BY DEF Applies
      <3> QED
        BY <1>2, <3>1, EqRules
    <2> QED
      BY <2>1, <2>2
  <1> QED
    BY <1>1, <1>2

\* The types; lists have no rules; only a time series makes a time series, and
\* AND2 and OR2 make none.
RuleTypes(u) == /\ u.k \in Kinds /\ u.k1 # "list" /\ u.k2 # "list"
                /\ u.k = "zts" => u.k1 = "zts" \/ u.k2 = "zts"
                /\ "AND2" \in u.ops \/ "OR2" \in u.ops => u.k # "zts"

LEMMA RuleTypesHold ==
    ASSUME NEW u \in Rules
    PROVE  RuleTypes(u)
  <1>1. u \in DoubleRules => RuleTypes(u)
    BY DEF DoubleRules, Rule, RuleTypes, Kinds, arithmetic, boolean, comp, eq_ne
  <1>2. u \in ZtsRules => RuleTypes(u)
    BY DEF ZtsRules, Rule, RuleTypes, Kinds, arithmetic, boolean, comp, eq_ne
  <1>3. u \in TimeRules => RuleTypes(u)
    BY DEF TimeRules, Rule, RuleTypes, Kinds, plus_minus, mul_div, comp, eq_ne
  <1>4. u \in DurationRules => RuleTypes(u)
    BY DEF DurationRules, Rule, RuleTypes, Kinds, plus_minus, mul_div, comp, eq_ne
  <1>5. u \in IntervalRules => RuleTypes(u)
    BY DEF IntervalRules, Rule, RuleTypes, Kinds, plus_minus, mul_div, comp, eq_ne
  <1>6. u \in PeriodRules => RuleTypes(u)
    BY DEF PeriodRules, Rule, RuleTypes, Kinds, plus_minus, mul_div, comp, eq_ne
  <1>7. u \in BoolRules => RuleTypes(u)
    BY DEF BoolRules, Rule, RuleTypes, Kinds, boolean, comp, eq_ne
  <1>8. u \in StringRules => RuleTypes(u)
    BY DEF StringRules, Rule, RuleTypes, Kinds, boolean, comp, eq_ne
  <1> QED
    BY <1>1, <1>2, <1>3, <1>4, <1>5, <1>6, <1>7, <1>8, RuleCases

\* What can be done in place has the type of the variable.
LEMMA InplaceRules ==
    ASSUME NEW u \in Rules, NEW op \in u.ops, op \in InplaceOps(u.k1, u.k2)
    PROVE  u.k = u.k1 /\ op \notin {"AND2", "OR2"} /\ op \notin eq_ne
  <1> DEFINE P == u.k = u.k1 /\ op \notin {"AND2", "OR2"} /\ op \notin eq_ne
  <1>1. u \in DoubleRules => P
    BY DEF DoubleRules, Rule, InplaceOps, arithmetic, boolean, comp, eq_ne
  <1>2. u \in ZtsRules => P
    BY DEF ZtsRules, Rule, InplaceOps, arithmetic, boolean, comp, eq_ne
  <1>3. u \in TimeRules => P
    BY DEF TimeRules, Rule, InplaceOps, plus_minus, comp, eq_ne
  <1>4. u \in DurationRules => P
    BY DEF DurationRules, Rule, InplaceOps, plus_minus, mul_div, comp, eq_ne
  <1>5. u \in IntervalRules => P
    BY DEF IntervalRules, Rule, InplaceOps, plus_minus, comp, eq_ne
  <1>6. u \in PeriodRules => P
    BY DEF PeriodRules, Rule, InplaceOps, plus_minus, mul_div, comp, eq_ne
  <1>7. u \in BoolRules => P
    BY DEF BoolRules, Rule, InplaceOps, boolean, comp, eq_ne, or_and
  <1>8. u \in StringRules => P
    BY DEF StringRules, Rule, InplaceOps, comp, eq_ne
  <1> QED
    BY <1>1, <1>2, <1>3, <1>4, <1>5, <1>6, <1>7, <1>8, RuleCases

\* Whatever can be done in place has a rule.
LEMMA InplaceRuleExists ==
    ASSUME NEW a, NEW b, NEW op \in InplaceOps(a, b)
    PROVE  Applies(a, b, op) # {} /\ a # "list" /\ b # "list"
  <1> DEFINE Q == a # "list" /\ b # "list" /\ \E u \in Rules : u.k1 = a /\ u.k2 = b /\ op \in u.ops
  <1> SUFFICES Q
    BY DEF Applies
  <1> DEFINE Arithmetic == <<a, b>> \in {<<"double", "double">>, <<"zts", "double">>, <<"zts", "zts">>}
             Moved  == <<a, b>> \in {<<k, d>> : k \in {"time", "interval"}, d \in {"duration", "period"}}
             Sums   == <<a, b>> \in {<<"duration", "duration">>, <<"period", "period">>}
             Scaled == <<a, b>> = <<"duration", "double">>
             Truth  == <<a, b>> = <<"bool", "bool">>
  <1>1. CASE Arithmetic
    <2>1. op \in arithmetic
      BY <1>1 DEF InplaceOps
    <2>2. Rule("double", "double", arithmetic, "double") \in Rules
      BY DEF Rules, DoubleRules
    <2>3. \A k \in {"double", "zts"} : Rule("zts", k, arithmetic, "zts") \in Rules
      BY DEF Rules, ZtsRules
    <2>4. CASE a = "double" /\ b = "double"
      BY <2>1, <2>2, <2>4 DEF Rule
    <2>5. CASE a = "zts" /\ b \in {"double", "zts"}
      BY <2>1, <2>3, <2>5 DEF Rule
    <2>6. (a = "double" /\ b = "double") \/ (a = "zts" /\ b \in {"double", "zts"})
      BY <1>1
    <2> QED
      BY <2>4, <2>5, <2>6
  <1>2. CASE Moved
    <2>0. a \in {"time", "interval"} /\ b \in {"duration", "period"}
      BY <1>2
    <2>1. op \in plus_minus
      BY <1>2, <2>0 DEF InplaceOps
    <2>2. CASE a = "time"
      <3>1. Rule("time", "duration", plus_minus, "time") \in Rules /\ Rule("time", "period", plus_minus, "time") \in Rules
        BY DEF Rules, TimeRules
      <3> QED
        BY <2>0, <2>1, <2>2, <3>1 DEF Rule
    <2>3. CASE a = "interval"
      <3>1. /\ Rule("interval", "duration", plus_minus, "interval") \in Rules
            /\ Rule("interval", "period", plus_minus, "interval") \in Rules
        BY DEF Rules, IntervalRules
      <3> QED
        BY <2>0, <2>1, <2>3, <3>1 DEF Rule
    <2> QED
      BY <2>0, <2>2, <2>3
  <1>3. CASE Sums
    <2>0. (a = "duration" /\ b = "duration") \/ (a = "period" /\ b = "period")
      BY <1>3
    <2>1. op \in plus_minus
      BY <2>0 DEF InplaceOps
    <2>2. /\ Rule("duration", "duration", plus_minus, "duration") \in Rules
          /\ Rule("period", "period", plus_minus, "period") \in Rules
      BY DEF Rules, DurationRules, PeriodRules
    <2> QED
      BY <2>0, <2>1, <2>2 DEF Rule
  <1>4. CASE Scaled
    <2>0. a = "duration" /\ b = "double"
      BY <1>4
    <2>1. op \in mul_div
      BY <2>0 DEF InplaceOps
    <2>2. Rule("duration", "double", mul_div, "duration") \in Rules
      BY DEF Rules, DurationRules
    <2> QED
      BY <2>0, <2>1, <2>2 DEF Rule
  <1>5. CASE Truth
    <2>0. a = "bool" /\ b = "bool"
      BY <1>5
    <2>1. op \in boolean
      BY <2>0 DEF InplaceOps, or_and, boolean
    <2>2. Rule("bool", "bool", boolean, "bool") \in Rules
      BY DEF Rules, BoolRules
    <2> QED
      BY <2>0, <2>1, <2>2 DEF Rule
  <1>6. Arithmetic \/ Moved \/ Sums \/ Scaled \/ Truth
    <2>1. ASSUME ~Arithmetic, ~Moved, ~Sums, ~Scaled, ~Truth
          PROVE  InplaceOps(a, b) = {}
      BY <2>1 DEF InplaceOps
    <2> HIDE DEF Arithmetic, Moved, Sums, Scaled, Truth
    <2> QED
      BY <2>1
  <1> HIDE DEF Arithmetic, Moved, Sums, Scaled, Truth, Q
  <1> QED
    BY <1>1, <1>2, <1>3, <1>4, <1>5, <1>6

-----------------------------------------------------------------------------
(***************************************************************************)
(* An operator that works on a copy.                                       *)
(***************************************************************************)
\* The rows a result that is a time series has times for.
Times2(x, y) == IF x.kind = "zts" THEN x.idx ELSE y.idx
\* The variable is not touched; what comes out is a value whose flags do not lie.
Copied(e, x) ==
  /\ e.left = x.a /\ e.inplace = FALSE /\ e.threw \in BOOLEAN /\ e.threw = e.res.a.threw
  /\ FlagsHold(e.res.a)
  /\ ~e.threw => IsOperand(e.res)

Fits(k, a, x, y) ==
  /\ k \in Kinds /\ FlagsHold(a)
  /\ a.threw = TRUE \/ (IsArray(a) /\ (k = "zts" => Len(Times2(x, y)) = a.dim[1]))
ComesOut(e, k, a, x) == Copied(e, x) /\ e.threw = a.threw /\ e.res.a = a /\ e.res.kind = k

LEMMA OutcomeIs ==
    ASSUME NEW x, NEW y, IsOperand(x), IsOperand(y), NEW k, NEW a, Fits(k, a, x, y)
    PROVE  ComesOut(Outcome(k, a, x, y), k, a, x)
  <1> DEFINE e == Outcome(k, a, x, y)
             i == IF k # "zts" THEN <<>> ELSE Times2(x, y)
  <1>1. /\ e.left = x.a /\ e.inplace = FALSE /\ e.threw = a.threw
        /\ e.res = [kind |-> k, a |-> a, idx |-> i, ref |-> FALSE]
    BY DEF Outcome, Operand, Times2
  <1>2. e.res.a = a /\ e.res.kind = k /\ e.res.idx = i
    BY <1>1
  <1>3. FlagsHold(a) /\ a.threw \in BOOLEAN /\ k \in Kinds
    BY ArrayFacts DEF Fits
  <1>4. ASSUME ~a.threw
        PROVE  IsOperand(e.res)
    <2>1. IsArray(a) /\ (k = "zts" => Len(Times2(x, y)) = a.dim[1])
      BY <1>4 DEF Fits
    <2>2. i \in Seq(Int)
      BY DEF Times2, IsOperand
    <2>3. e.res \in [kind : Kinds, a : {e.res.a}, idx : Seq(Int), ref : BOOLEAN]
      BY <1>1, <1>3, <2>2
    <2>4. Len(i) = IF k = "zts" THEN a.dim[1] ELSE 0
      BY <2>1
    <2> HIDE DEF e, i
    <2> QED
      BY <1>2, <2>1, <2>3, <2>4 DEF IsOperand
  <1> HIDE DEF e, i
  <1>5. Copied(e, x)
    BY <1>1, <1>2, <1>3, <1>4 DEF Copied
  <1> QED
    BY <1>1, <1>2, <1>5 DEF e, ComesOut

\* A list compared with a value: truth values.
LEMMA ListCompared ==
    ASSUME NEW lst, NEW v, IsOperand(lst), NEW op
    PROVE  LET a == evalbinop_array_scalar(lst, v, op)
           IN  FlagsHold(a) /\ (a.threw = TRUE \/ IsArray(a))
  <1>0. IsArray(lst.a)
    BY DEF IsOperand
  <1>1. CASE op \notin eq_ne
    BY <1>1, NullIs DEF evalbinop_array_scalar
  <1>2. CASE op \in eq_ne
    <2> DEFINE q == [c \in 1 .. Len(lst.a.v) |-> [i \in 1 .. Len(lst.a.v[c].e) |->
                       IF isNumber(v, lst.a.v[c].e[i]) = (op = "EQ") THEN 1 ELSE 0]]
    <2>1. evalbinop_array_scalar(lst, v, op) = Pushed(lst.a, q)
      BY <1>2 DEF evalbinop_array_scalar, NewArray, Pushed
    <2>2. FitsIn(q, lst.a)
      BY DEF FitsIn
    <2> HIDE DEF q
    <2>3. HasElements(Pushed(lst.a, q), lst.a, q)
      BY <1>0, <2>2, ColumnsPushed
    <2> QED
      BY <2>1, <2>3 DEF HasElements
  <1> QED
    BY <1>1, <1>2

LEMMA TypesCompared ==
    ASSUME NEW x, NEW y, NEW op
    PROVE  LET a == evalbinop_value_value_comp(x, y, op)
           IN  FlagsHold(a) /\ (a.threw = TRUE \/ IsArray(a))
  <1>1. (op = "NE") \in BOOLEAN
    OBVIOUS
  <1> QED
    BY <1>1, BoolIs, NullIs DEF evalbinop_value_value_comp

\* The operator's outcome on two values there is a rule for.
DoopRight(a, x, y, op, k) ==
  /\ FlagsHold(a)
  /\ a.threw = TRUE \/ (IsArray(a) /\ (k = "zts" => Len(Times2(x, y)) = a.dim[1]))
  /\ a.threw # TRUE /\ op \notin {"AND2", "OR2"} =>
       Compatible(x.a, y.a) /\ Fresh(a, Shape(x.a, y.a)) /\ Combines(a, x.a, y.a, op)
LEMMA DoopIs ==
    ASSUME NEW x, NEW y, IsOperand(x), IsOperand(y), NEW op, NEW k,
           op \notin {"AND2", "OR2"} => ElemIn(op),
           op \in {"AND2", "OR2"} => k # "zts"
    PROVE  DoopRight(doop(x, y, op, k), x, y, op, k)
  <1>0. IsArray(x.a) /\ IsArray(y.a)
    BY DEF IsOperand
  <1>1. CASE op \in {"AND2", "OR2"}
    <2> DEFINE b == IF op = "AND2" THEN First(x.a) /\ First(y.a) ELSE First(x.a) \/ First(y.a)
    <2>1. doop(x, y, op, k) = Bool(b)
      BY <1>1 DEF doop
    <2>2. b \in BOOLEAN
      BY DEF First
    <2> HIDE DEF b
    <2> QED
      BY <1>1, <2>1, <2>2, BoolIs DEF DoopRight
  <1>2. CASE op \notin {"AND2", "OR2"}
    <2> DEFINE r == apply_arrays(x.a, y.a, op)
    <2>1. /\ ~Compatible(x.a, y.a) => r = Threw
          /\ Compatible(x.a, y.a) => Fresh(r, Shape(x.a, y.a)) /\ Combines(r, x.a, y.a, op)
      BY <1>0, <1>2, ArraysApplied
    <2>2. doop(x, y, op, k) = IF k = "zts" THEN zts_of(Times2(x, y), r) ELSE r
      BY <1>2 DEF doop, Times2
    <2> HIDE DEF r
    <2>0. Threw.threw = TRUE
      BY DEF Threw, Thrown, Null, Array
    <2>3. CASE ~Compatible(x.a, y.a)
      <3>1. doop(x, y, op, k) = Threw
        BY <2>1, <2>2, <2>3, NullIs DEF zts_of
      <3> QED
        BY <2>0, <3>1, NullIs DEF DoopRight
    <2>4. CASE Compatible(x.a, y.a)
      <3>1. IsArray(r) /\ FlagsHold(r) /\ r.threw = FALSE
        BY <2>1, <2>4, ArrayFacts DEF Fresh
      <3>2. CASE k = "zts" /\ Len(Times2(x, y)) # r.dim[1]
        <4>1. doop(x, y, op, k) = Threw
          BY <2>2, <3>1, <3>2 DEF zts_of
        <4> QED
          BY <2>0, <4>1, NullIs DEF DoopRight
      <3>3. CASE ~(k = "zts" /\ Len(Times2(x, y)) # r.dim[1])
        <4>1. doop(x, y, op, k) = r
          BY <2>2, <3>1, <3>3 DEF zts_of
        <4> QED
          BY <2>1, <2>4, <3>1, <3>3, <4>1 DEF DoopRight
      <3> QED
        BY <3>2, <3>3
    <2> QED
      BY <2>3, <2>4
  <1> QED
    BY <1>1, <1>2

BinaryOps == arithmetic \cup boolean
RuleFor(x, y, op) == CHOOSE u \in Applies(x.kind, y.kind, op) : TRUE
Lists(x, y) == x.kind = "list" \/ y.kind = "list"
OtherTimes(x, y) == x.kind = "zts" /\ y.kind = "zts" /\ x.idx # y.idx
NoRule(x, y, op) == Applies(x.kind, y.kind, op) = {}
ListOutcome(x, y, op) ==
  CASE y.kind = "list" /\ x.kind = "list" -> Threw
    [] y.kind = "list" /\ x.kind # "list" -> evalbinop_array_scalar(y, x, op)
    [] OTHER -> evalbinop_array_scalar(x, y, op)

LEMMA RuleForIs ==
    ASSUME NEW x, NEW y, NEW op, ~NoRule(x, y, op)
    PROVE  /\ RuleFor(x, y, op) \in Applies(x.kind, y.kind, op)
           /\ LET u == RuleFor(x, y, op)
              IN  u \in Rules /\ u.k1 = x.kind /\ u.k2 = y.kind /\ op \in u.ops /\ RuleTypes(u)
  <1>1. RuleFor(x, y, op) \in Applies(x.kind, y.kind, op)
    BY DEF RuleFor, NoRule
  <1> QED
    BY <1>1, RuleTypesHold DEF Applies

LEMMA NoRuleForLists ==
    ASSUME NEW x, NEW y, NEW op, Lists(x, y)
    PROVE  NoRule(x, y, op)
  <1> SUFFICES ASSUME ~NoRule(x, y, op) PROVE FALSE
    OBVIOUS
  <1> QED
    BY RuleForIs DEF RuleTypes, Lists

LEMMA SeriesHaveRules ==
    ASSUME NEW x, NEW y, NEW op \in BinaryOps, OtherTimes(x, y)
    PROVE  ~NoRule(x, y, op)
  <1>1. /\ Rule("zts", "zts", arithmetic, "zts") \in Rules
        /\ Rule("zts", "zts", boolean, "bool") \in Rules
    BY DEF Rules, ZtsRules
  <1>2. PICK u \in Rules : u.k1 = "zts" /\ u.k2 = "zts" /\ op \in u.ops
    BY <1>1 DEF Rule, BinaryOps
  <1> QED
    BY <1>2 DEF NoRule, Applies, OtherTimes

\* What an operator that makes a new value does, case by case.
LEMMA CopyIs ==
    ASSUME NEW x, NEW y, NEW op \in BinaryOps, NEW zone
    PROVE  LET e == evalbinop_copy(x, y, op, zone)
               k == RuleFor(x, y, op).k
           IN  /\ Lists(x, y) => e = Outcome("bool", ListOutcome(x, y, op), x, y)
               /\ OtherTimes(x, y) => e = Outcome("zts", Threw, x, y)
               /\ ~Lists(x, y) /\ NoRule(x, y, op) =>
                    e = Outcome("bool", evalbinop_value_value_comp(x, y, op), x, y)
               /\ ~OtherTimes(x, y) /\ ~NoRule(x, y, op) /\ NeedsZone(x.kind, y.kind) /\ ~zone =>
                    e = Outcome(k, Threw, x, y)
               /\ ~OtherTimes(x, y) /\ ~NoRule(x, y, op) /\ (NeedsZone(x.kind, y.kind) => zone) =>
                    e = Outcome(k, doop(x, y, op, k), x, y)
  <1>1. OtherTimes(x, y) => ~Lists(x, y) /\ ~NoRule(x, y, op) /\ ~NeedsZone(x.kind, y.kind)
    BY SeriesHaveRules DEF OtherTimes, Lists, NeedsZone
  <1>2. Lists(x, y) => NoRule(x, y, op)
    BY NoRuleForLists
  <1> DEFINE e == evalbinop_copy(x, y, op, zone)
             k == RuleFor(x, y, op).k
  <1>3. e = CASE Lists(x, y) -> Outcome("bool", ListOutcome(x, y, op), x, y)
              [] OtherTimes(x, y) -> Outcome("zts", Threw, x, y)
              [] ~Lists(x, y) /\ NoRule(x, y, op) ->
                   Outcome("bool", evalbinop_value_value_comp(x, y, op), x, y)
              [] NeedsZone(x.kind, y.kind) /\ ~NoRule(x, y, op) /\ ~zone -> Outcome(k, Threw, x, y)
              [] OTHER -> Outcome(k, doop(x, y, op, k), x, y)
    BY DEF evalbinop_copy, Lists, OtherTimes, NoRule, ListOutcome, RuleFor
  <1> HIDE DEF e, k
  <1>4. Lists(x, y) => e = Outcome("bool", ListOutcome(x, y, op), x, y)
    BY <1>1, <1>2, <1>3
  <1>5. OtherTimes(x, y) => e = Outcome("zts", Threw, x, y)
    BY <1>1, <1>2, <1>3
  <1>6. ~Lists(x, y) /\ NoRule(x, y, op) =>
          e = Outcome("bool", evalbinop_value_value_comp(x, y, op), x, y)
    BY <1>1, <1>2, <1>3
  <1>7. ~OtherTimes(x, y) /\ ~NoRule(x, y, op) /\ NeedsZone(x.kind, y.kind) /\ ~zone =>
          e = Outcome(k, Threw, x, y)
    BY <1>1, <1>2, <1>3
  <1>8. ~OtherTimes(x, y) /\ ~NoRule(x, y, op) /\ (NeedsZone(x.kind, y.kind) => zone) =>
          e = Outcome(k, doop(x, y, op, k), x, y)
    BY <1>1, <1>2, <1>3
  <1> QED
    BY <1>4, <1>5, <1>6, <1>7, <1>8 DEF e, k

\* An operator that is not refused, on values there is a rule for, combines them.
CopyRight(e, x, y, op) ==
  /\ Copied(e, x)
  /\ ~e.threw /\ op \notin {"AND2", "OR2"} /\ ~NoRule(x, y, op) =>
       /\ Compatible(x.a, y.a) /\ Fresh(e.res.a, Shape(x.a, y.a)) /\ Combines(e.res.a, x.a, y.a, op)
       /\ e.res.kind = RuleFor(x, y, op).k
       /\ e.res.idx = IF e.res.kind = "zts" THEN Times2(x, y) ELSE <<>>

LEMMA ThrewIs == FlagsHold(Threw) /\ Threw.threw = TRUE
  BY NullIs DEF Threw, Thrown, Null, Array

LEMMA OutcomeTimes ==
    ASSUME NEW k, NEW a, NEW x, NEW y
    PROVE  Outcome(k, a, x, y).res.idx = IF k = "zts" THEN Times2(x, y) ELSE <<>>
  BY DEF Outcome, Operand, Times2

LEMMA CopySound ==
    ASSUME NEW x, NEW y, IsOperand(x), IsOperand(y), NEW op \in BinaryOps, NEW zone,
           op \notin {"AND2", "OR2"} => ElemIn(op)
    PROVE  CopyRight(evalbinop_copy(x, y, op, zone), x, y, op)
  <1> DEFINE e == evalbinop_copy(x, y, op, zone)
             k == RuleFor(x, y, op).k
  <1>0. \A m \in Kinds : LET o == Outcome(m, Threw, x, y) IN Copied(o, x) /\ o.threw = TRUE
    <2>1. ASSUME NEW m \in Kinds
          PROVE  LET o == Outcome(m, Threw, x, y) IN Copied(o, x) /\ o.threw = TRUE
      <3>1. Fits(m, Threw, x, y)
        BY ThrewIs DEF Fits
      <3> QED
        BY <3>1, ThrewIs, OutcomeIs DEF ComesOut
    <2> QED
      BY <2>1
  <1>1. "bool" \in Kinds /\ "zts" \in Kinds
    BY DEF Kinds
  <1>2. CASE Lists(x, y)
    <2> DEFINE a == ListOutcome(x, y, op)
    <2>1. e = Outcome("bool", a, x, y) /\ NoRule(x, y, op)
      BY <1>2, CopyIs, NoRuleForLists
    <2>2. FlagsHold(a) /\ (a.threw = TRUE \/ IsArray(a))
      BY ListCompared, ThrewIs DEF ListOutcome
    <2> HIDE DEF a
    <2>3. Copied(Outcome("bool", a, x, y), x)
      <3>1. Fits("bool", a, x, y)
        BY <1>1, <2>2 DEF Fits
      <3> QED
        BY <3>1, OutcomeIs DEF ComesOut
    <2> QED
      BY <2>1, <2>3 DEF CopyRight
  <1>3. CASE OtherTimes(x, y)
    <2>1. e = Outcome("zts", Threw, x, y)
      BY <1>3, CopyIs
    <2> HIDE DEF e
    <2>2. Copied(e, x) /\ e.threw = TRUE
      BY <1>0, <1>1, <2>1
    <2>3. CopyRight(e, x, y, op)
      BY <2>2 DEF CopyRight
    <2> QED
      BY <2>3 DEF e
  <1>4. CASE ~Lists(x, y) /\ NoRule(x, y, op)
    <2> DEFINE a == evalbinop_value_value_comp(x, y, op)
    <2>1. e = Outcome("bool", a, x, y)
      BY <1>4, CopyIs
    <2>2. FlagsHold(a) /\ (a.threw = TRUE \/ IsArray(a))
      BY TypesCompared
    <2> HIDE DEF a
    <2>3. Copied(Outcome("bool", a, x, y), x)
      <3>1. Fits("bool", a, x, y)
        BY <1>1, <2>2 DEF Fits
      <3> QED
        BY <3>1, OutcomeIs DEF ComesOut
    <2> QED
      BY <1>4, <2>1, <2>3 DEF CopyRight
  <1>5. CASE ~OtherTimes(x, y) /\ ~NoRule(x, y, op) /\ NeedsZone(x.kind, y.kind) /\ ~zone
    <2>1. e = Outcome(k, Threw, x, y)
      BY <1>5, CopyIs
    <2>2. k \in Kinds
      BY <1>5, RuleForIs DEF RuleTypes
    <2> HIDE DEF e, k
    <2>3. Copied(e, x) /\ e.threw = TRUE
      BY <1>0, <2>1, <2>2
    <2>4. CopyRight(e, x, y, op)
      BY <2>3 DEF CopyRight
    <2> QED
      BY <2>4 DEF e
  <1>6. CASE ~OtherTimes(x, y) /\ ~NoRule(x, y, op) /\ (NeedsZone(x.kind, y.kind) => zone)
    <2> DEFINE a == doop(x, y, op, k)
    <2>1. e = Outcome(k, a, x, y)
      BY <1>6, CopyIs
    <2>2. k \in Kinds /\ (op \in {"AND2", "OR2"} => k # "zts")
      BY <1>6, RuleForIs DEF RuleTypes
    <2>3. DoopRight(a, x, y, op, k)
      BY <2>2, DoopIs
    <2>4. e.res.idx = IF k = "zts" THEN Times2(x, y) ELSE <<>>
      BY <2>1, OutcomeTimes
    <2>5. k = RuleFor(x, y, op).k
      OBVIOUS
    <2> HIDE DEF a, e, k
    <2>6. Copied(e, x) /\ e.threw = a.threw /\ e.res.a = a /\ e.res.kind = k
      <3>1. Fits(k, a, x, y)
        BY <2>2, <2>3 DEF DoopRight, Fits
      <3> QED
        BY <2>1, <3>1, OutcomeIs DEF ComesOut
    <2>7. CopyRight(e, x, y, op)
      BY <2>3, <2>4, <2>5, <2>6 DEF CopyRight, DoopRight
    <2> QED
      BY <2>7 DEF e
  <1> QED
    BY <1>2, <1>3, <1>4, <1>5, <1>6

-----------------------------------------------------------------------------
(***************************************************************************)
(* An operator that works in place.                                        *)
(***************************************************************************)
Reset(a) == [a EXCEPT !.threw = FALSE]
InplaceRight(e, x, y, op) ==
  /\ e.inplace = TRUE /\ e.threw \in BOOLEAN /\ e.left.threw = e.threw
  /\ e.res = [x EXCEPT !.a = e.left]
  /\ IsArray(Reset(e.left)) /\ Reset(e.left).v = e.left.v /\ e.left.dim = x.a.dim
  /\ Reset(e.left).dim = x.a.dim /\ Len(e.left.v) = Len(x.a.v)
  /\ ~e.threw => Fresh(e.left, x.a) /\ Combines(e.left, x.a, y.a, op)
  /\ e.threw => /\ Size(y.a) # 1 /\ x.a.dim # y.a.dim
                /\ NeedsZone(x.kind, y.kind) => Reset(e.left) = x.a

LEMMA ResetIs ==
    ASSUME NEW a, IsArray(Reset(a))
    PROVE  Reset(a).v = a.v /\ Reset(a).dim = a.dim
  <1>1. DOMAIN Reset(a) = {"dim", "v", "names", "threw"}
    BY DEF IsArray
  <1>2. DOMAIN Reset(a) = DOMAIN a
    BY DEF Reset
  <1>3. "v" \in DOMAIN a /\ "dim" \in DOMAIN a
    BY <1>1, <1>2
  <1> QED
    BY <1>3 DEF Reset

LEMMA InplaceSound ==
    ASSUME NEW x, NEW y, IsOperand(x), IsOperand(y), isInplace(x, y), NEW op, ElemIn(op)
    PROVE  InplaceRight(evalbinop_inplace(x, y, op), x, y, op)
  <1>0. IsArray(x.a) /\ IsArray(y.a)
    BY DEF IsOperand
  <1> DEFINE e == evalbinop_inplace(x, y, op)
             a == e.left
  <1>1. CASE NeedsZone(x.kind, y.kind)
    <2>1. a = apply_attrib(x.a, y.a, op) /\ e.threw = a.threw /\ e.inplace = TRUE /\ e.res = [x EXCEPT !.a = a]
      BY <1>1 DEF evalbinop_inplace
    <2> DEFINE refused == Size(y.a) # 1 /\ ~checkdims(x.a.dim, y.a.dim, 0)
    <2>2. Size(y.a) = 1 \/ Size(x.a) = Size(y.a)
      BY DEF isInplace
    <2>3. /\ refused => a = Thrown(x.a)
          /\ ~refused => Fresh(a, x.a) /\ Combines(a, x.a, y.a, op)
      BY <1>0, <2>1, <2>2, AttribApplied
    <2>4. CASE refused
      <3>1. a = Thrown(x.a)
        BY <2>3, <2>4
      <3>2. Reset(a) = x.a /\ a.threw = TRUE
        BY <1>0, <3>1, Unthrown DEF Reset
      <3>3. a.threw = TRUE
        <4>1. x.a \in [dim : Seq(Nat), v : Seq(Column), names : {x.a.names}, threw : {FALSE}]
          BY <1>0 DEF IsArray
        <4> QED
          BY <3>1, <4>1 DEF Thrown
      <3>4. Reset(a).v = a.v /\ Reset(a).dim = a.dim
        BY <1>0, <3>2, ResetIs
      <3>5. x.a.dim # y.a.dim
        <4>1. x.a.dim \in Seq(Nat)
          BY <1>0, ArrayFacts
        <4> QED
          BY <2>4, <4>1, SameDims
      <3>6. Size(y.a) # 1
        BY <2>4
      <3> HIDE DEF a, refused, e
      <3>7. InplaceRight(e, x, y, op)
        <4> USE DEF a
        <4> QED
          BY <1>0, <2>1, <3>2, <3>3, <3>4, <3>5, <3>6 DEF InplaceRight
      <3> QED
        BY <3>7 DEF e
    <2>5. CASE ~refused
      <3>1. Fresh(a, x.a) /\ Combines(a, x.a, y.a, op)
        BY <2>3, <2>5
      <3>2. IsArray(a) /\ a.threw = FALSE
        BY <3>1, ArrayFacts DEF Fresh
      <3>3. Reset(a) = a
        BY <3>2, Unthrown DEF Reset
      <3> HIDE DEF a, refused, e
      <3>4. InplaceRight(e, x, y, op)
        <4> USE DEF a
        <4> QED
          BY <2>1, <3>1, <3>2, <3>3 DEF InplaceRight, Fresh
      <3> QED
        BY <3>4 DEF e
    <2> QED
      BY <2>4, <2>5
  <1>2. CASE ~NeedsZone(x.kind, y.kind)
    <2>1. a = apply_inplace(x.a, y.a, op) /\ e.threw = a.threw /\ e.inplace = TRUE /\ e.res = [x EXCEPT !.a = a]
      BY <1>2 DEF evalbinop_inplace
    <2>2. /\ a.threw \in BOOLEAN /\ a.dim = x.a.dim /\ Len(a.v) = Len(x.a.v)
          /\ IsArray(Reset(a))
          /\ ~a.threw => Fresh(a, x.a) /\ Combines(a, x.a, y.a, op)
          /\ Size(y.a) = 1 \/ x.a.dim = y.a.dim => ~a.threw
      BY <1>0, <2>1, InplaceApplied DEF Reset
    <2>3. Reset(a).v = a.v /\ Reset(a).dim = a.dim
      BY <2>2, ResetIs
    <2> HIDE DEF a, e
    <2>4. InplaceRight(e, x, y, op)
      <3> USE DEF a
      <3> QED
        BY <1>2, <2>1, <2>2, <2>3 DEF InplaceRight
    <2> QED
      BY <2>4 DEF e
  <1> QED
    BY <1>1, <1>2

-----------------------------------------------------------------------------
(***************************************************************************)
(* What an operator on x and y, whose outcome is e, may do.                *)
(***************************************************************************)
Effect(e, x) ==
  /\ e.threw \in BOOLEAN
  /\ IsArray(Reset(e.left)) /\ Reset(e.left).dim = x.a.dim
  /\ ~e.threw => IsOperand(e.res)
  /\ FlagsHold(x.a) /\ (e.threw => Reset(e.left) = x.a) => FlagsHold(Reset(e.left)) /\ FlagsHold(e.res.a)

\* The four properties, for one operator.
ResultRight(e, x, y, op) ==
  ~e.threw /\ op \notin {"AND2", "OR2"} /\ Applies(x.kind, y.kind, op) # {} =>
    /\ \A p \in Grid(e.res.a) :
         e.res.a.v[p[1]].e[p[2]] = Elem(op, Part(x.a, p[1], p[2]), Part(y.a, p[1], p[2]))
    /\ e.res.a.dim \in {x.a.dim, y.a.dim}
    /\ WellFormed(e.res.a)
    /\ e.res.kind = "zts" => Len(e.res.idx) = e.res.a.dim[1]
Agrees(e, x, y, op, zone) ==
  e.inplace =>
    LET c == evalbinop_copy(x, y, op, zone)
    IN  /\ e.threw => c.threw
        /\ ~c.threw => /\ SameElements(e.res.a, c.res.a)
                       /\ e.res.kind = c.res.kind /\ e.res.idx = c.res.idx
                       /\ e.res.a.dim = c.res.a.dim \/ Size(e.res.a) = 1
RefusedRight(e, x, y) ==
  e.threw =>
    \/ Reset(e.left) = x.a
    \/ /\ e.inplace /\ Size(Reset(e.left)) = Size(y.a) /\ Reset(e.left).dim # y.a.dim
       /\ ~NeedsZone(x.kind, y.kind)
Commutes(e, x, y, op, zone) ==
  ~e.inplace /\ op \in {"PLUS"} \cup eq_ne =>
    LET c == evalbinop_copy(y, x, op, zone)
    IN  /\ e.threw <=> c.threw
        /\ ~c.threw => SameElements(e.res.a, c.res.a) /\ e.res.kind = c.res.kind

LEMMA SameFlags ==
    ASSUME NEW a, NEW b, a.v = b.v
    PROVE  FlagsHold(a) <=> FlagsHold(b)
  BY DEF FlagsHold

LEMMA CopyEffect ==
    ASSUME NEW x, IsOperand(x), NEW e, Copied(e, x)
    PROVE  Effect(e, x) /\ Reset(e.left) = x.a
  <1>1. IsArray(x.a) /\ e.left = x.a
    BY DEF IsOperand, Copied
  <1>2. Reset(e.left) = x.a
    BY <1>1, Unthrown DEF Reset
  <1> QED
    BY <1>1, <1>2 DEF Effect, Copied

LEMMA OperandReplaced ==
    ASSUME NEW x, IsOperand(x), NEW a, IsArray(a), a.dim = x.a.dim
    PROVE  LET r == [x EXCEPT !.a = a]
           IN  IsOperand(r) /\ r.a = a /\ r.kind = x.kind /\ r.idx = x.idx /\ r.ref = x.ref
  <1> DEFINE r == [x EXCEPT !.a = a]
  <1>1. x \in [kind : Kinds, a : {x.a}, idx : Seq(Int), ref : BOOLEAN]
    BY DEF IsOperand
  <1>2. r.a = a /\ r.kind = x.kind /\ r.idx = x.idx /\ r.ref = x.ref
    BY <1>1
  <1>3. r \in [kind : Kinds, a : {r.a}, idx : Seq(Int), ref : BOOLEAN]
    BY <1>1
  <1>4. Len(r.idx) = IF r.kind = "zts" THEN r.a.dim[1] ELSE 0
    BY <1>2 DEF IsOperand
  <1> HIDE DEF r
  <1>5. IsOperand(r)
    BY <1>2, <1>3, <1>4 DEF IsOperand
  <1> QED
    BY <1>2, <1>5 DEF r

LEMMA ReplacedIs ==
    ASSUME NEW x, IsOperand(x), NEW a
    PROVE  LET r == [x EXCEPT !.a = a] IN r.a = a /\ r.kind = x.kind /\ r.idx = x.idx
  <1>1. x \in [kind : Kinds, a : {x.a}, idx : Seq(Int), ref : BOOLEAN]
    BY DEF IsOperand
  <1> QED
    BY <1>1

LEMMA InplaceEffect ==
    ASSUME NEW x, NEW y, NEW op, IsOperand(x), NEW e, InplaceRight(e, x, y, op)
    PROVE  Effect(e, x)
  <1>1. e.res.a = e.left
    BY ReplacedIs DEF InplaceRight
  <1>2. ASSUME ~e.threw
        PROVE  IsOperand(e.res)
    <2>1. IsArray(e.left) /\ e.left.dim = x.a.dim /\ e.res = [x EXCEPT !.a = e.left]
      BY <1>2 DEF InplaceRight, Fresh
    <2> QED
      BY <2>1, OperandReplaced
  <1>3. FlagsHold(Reset(e.left)) <=> FlagsHold(e.left)
    BY SameFlags DEF InplaceRight
  <1>4. ~e.threw => FlagsHold(e.left)
    BY DEF InplaceRight, Fresh
  <1> QED
    BY <1>1, <1>2, <1>3, <1>4 DEF Effect, InplaceRight

LEMMA CombinedGrid ==
    ASSUME NEW r, IsArray(r), NEW t, NEW u, NEW op, Combines(r, t, u, op), NEW p \in Grid(r)
    PROVE  r.v[p[1]].e[p[2]] = Elem(op, Part(t, p[1], p[2]), Part(u, p[1], p[2]))
  <1>1. PICK c \in 1 .. Len(r.v), i \in 1 .. (IF r.dim = <<>> THEN 0 ELSE r.dim[1]) : p = <<c, i>>
    BY DEF Grid
  <1>2. i \in 1 .. Len(r.v[c].e)
    <2>1. Len(r.v) \in Nat /\ Len(r.v) # 0
      BY <1>1, ArrayFacts
    <2>2. r.dim # <<>> /\ Len(r.v[c].e) = r.dim[1]
      BY <2>1, ArrayFacts
    <2>3. i \in 1 .. r.dim[1]
      BY <1>1, <2>2
    <2> QED
      BY <2>2, <2>3
  <1>3. r.v[c].e[i] = Elem(op, Part(t, c, i), Part(u, c, i))
    BY <1>2 DEF Combines
  <1>4. p[1] = c /\ p[2] = i
    BY <1>1
  <1> QED
    BY <1>3, <1>4

LEMMA CopyResult ==
    ASSUME NEW x, NEW y, NEW op, NEW e, CopyRight(e, x, y, op)
    PROVE  ResultRight(e, x, y, op)
  <1> SUFFICES ASSUME ~e.threw, op \notin {"AND2", "OR2"}, Applies(x.kind, y.kind, op) # {}
               PROVE  ResultRight(e, x, y, op)
    BY DEF ResultRight
  <1>1. /\ Fresh(e.res.a, Shape(x.a, y.a)) /\ Combines(e.res.a, x.a, y.a, op) /\ IsOperand(e.res)
    BY DEF CopyRight, NoRule, Copied
  <1>2. IsArray(e.res.a) /\ WellFormed(e.res.a) /\ e.res.a.dim \in {x.a.dim, y.a.dim}
    BY <1>1 DEF Fresh, Shape, IsArray
  <1>3. e.res.kind = "zts" => Len(e.res.idx) = e.res.a.dim[1]
    BY <1>1 DEF IsOperand
  <1>4. \A p \in Grid(e.res.a) :
          e.res.a.v[p[1]].e[p[2]] = Elem(op, Part(x.a, p[1], p[2]), Part(y.a, p[1], p[2]))
    BY <1>1, <1>2, CombinedGrid
  <1> QED
    BY <1>2, <1>3, <1>4 DEF ResultRight

LEMMA InplaceResult ==
    ASSUME NEW x, NEW y, NEW op, IsOperand(x), NEW e, InplaceRight(e, x, y, op)
    PROVE  ResultRight(e, x, y, op)
  <1> SUFFICES ASSUME ~e.threw
               PROVE  ResultRight(e, x, y, op)
    BY DEF ResultRight
  <1>0. e.res.a = e.left
    BY ReplacedIs DEF InplaceRight
  <1>1. /\ Fresh(e.res.a, x.a) /\ Combines(e.res.a, x.a, y.a, op) /\ IsOperand(e.res)
    BY <1>0, InplaceEffect DEF InplaceRight, Effect
  <1>2. IsArray(e.res.a) /\ WellFormed(e.res.a) /\ e.res.a.dim \in {x.a.dim, y.a.dim}
    BY <1>1 DEF Fresh, IsArray
  <1>3. e.res.kind = "zts" => Len(e.res.idx) = e.res.a.dim[1]
    BY <1>1 DEF IsOperand
  <1>4. \A p \in Grid(e.res.a) :
          e.res.a.v[p[1]].e[p[2]] = Elem(op, Part(x.a, p[1], p[2]), Part(y.a, p[1], p[2]))
    BY <1>1, <1>2, CombinedGrid
  <1> QED
    BY <1>2, <1>3, <1>4 DEF ResultRight

LEMMA InplaceRefused ==
    ASSUME NEW x, NEW y, NEW op, IsOperand(x), isInplace(x, y), NEW e, InplaceRight(e, x, y, op)
    PROVE  RefusedRight(e, x, y)
  <1> SUFFICES ASSUME e.threw, Reset(e.left) # x.a
               PROVE  RefusedRight(e, x, y)
    BY DEF RefusedRight
  <1>1. Size(y.a) # 1 /\ x.a.dim # y.a.dim /\ ~NeedsZone(x.kind, y.kind) /\ e.inplace = TRUE
    BY DEF InplaceRight
  <1>2. Reset(e.left).dim = x.a.dim /\ Len(Reset(e.left).v) = Len(x.a.v)
    BY DEF InplaceRight
  <1>3. Size(Reset(e.left)) = Size(y.a)
    BY <1>1, <1>2 DEF Size, isInplace
  <1> QED
    BY <1>1, <1>2, <1>3 DEF RefusedRight

-----------------------------------------------------------------------------
(***************************************************************************)
(* In place and copied, and in either order.                               *)
(***************************************************************************)
LEMMA SizesAre ==
    ASSUME NEW a, NEW b, IsArray(a), IsArray(b)
    PROVE  /\ Size(a) \in Nat
           /\ a.dim = b.dim => Len(a.v) = Len(b.v) /\ Size(a) = Size(b)
  <1>1. a.dim = b.dim => Len(a.v) = Len(b.v)
    BY DEF IsArray, WellFormed
  <1>2. ASSUME a.dim # <<>>
        PROVE  Len(a.v) \in Nat /\ a.dim[1] \in Nat
    <2>1. a.dim \in Seq(Nat)
      BY ArrayFacts
    <2> QED
      BY <1>2, <2>1, ArrayFacts
  <1>3. Size(a) \in Nat
    BY <1>2 DEF Size
  <1> QED
    BY <1>1, <1>3 DEF Size

\* Arrays of the same number of columns and rows.
SameGrid(a, b) ==
  /\ Len(a.v) = Len(b.v)
  /\ \A c \in 1 .. Len(a.v) : Len(a.v[c].e) = Len(b.v[c].e)

LEMMA GridsAgree ==
    ASSUME NEW a, NEW b, IsArray(a), IsArray(b), a.dim = b.dim \/ (Size(a) = 1 /\ Size(b) = 1)
    PROVE  SameGrid(a, b)
  <1>1. Len(a.v) = Len(b.v)
    BY SizesAre, ArrayFacts
  <1>2. a.dim # <<>> /\ b.dim # <<>> => a.dim[1] = b.dim[1]
    BY ArrayFacts
  <1>3. Len(a.v) \in Nat
    BY ArrayFacts
  <1>4. ASSUME NEW c \in 1 .. Len(a.v)
        PROVE  Len(a.v[c].e) = Len(b.v[c].e)
    <2>1. Len(a.v) # 0 /\ Len(b.v) # 0 /\ c \in 1 .. Len(b.v)
      BY <1>1, <1>3
    <2>2. a.dim # <<>> /\ b.dim # <<>> /\ Len(a.v[c].e) = a.dim[1] /\ Len(b.v[c].e) = b.dim[1]
      BY <2>1, ArrayFacts
    <2> QED
      BY <1>2, <2>2
  <1> QED
    BY <1>1, <1>4 DEF SameGrid

LEMMA ElementsAgree ==
    ASSUME NEW a, NEW b, IsArray(a), IsArray(b), SameGrid(a, b),
           \A c \in 1 .. Len(a.v) : \A i \in 1 .. Len(a.v[c].e) : a.v[c].e[i] = b.v[c].e[i]
    PROVE  SameElements(a, b)
  <1>1. \A c \in 1 .. Len(a.v) : a.v[c].e \in Seq(Int) /\ b.v[c].e \in Seq(Int)
    BY ArrayFacts DEF SameGrid
  <1>2. ASSUME NEW c \in 1 .. Len(a.v)
        PROVE  a.v[c].e = b.v[c].e
    <2> DEFINE p == a.v[c].e
               q == b.v[c].e
    <2>1. p \in Seq(Int) /\ q \in Seq(Int) /\ Len(p) = Len(q) /\ \A i \in 1 .. Len(p) : p[i] = q[i]
      BY <1>1 DEF SameGrid
    <2> HIDE DEF p, q
    <2>2. p = q
      BY <2>1, SeqEqual
    <2> QED
      BY <2>2 DEF p, q
  <1>3. Len(a.v) = Len(b.v)
    BY DEF SameGrid
  <1> QED
    BY <1>2, <1>3 DEF SameElements

LEMMA InplaceLikeCopy ==
    ASSUME NEW x, NEW y, IsOperand(x), IsOperand(y), isInplace(x, y),
           NEW op \in BinaryOps, ElemIn(op), op \in InplaceOps(x.kind, y.kind), NEW zone,
           NEW e, InplaceRight(e, x, y, op)
    PROVE  Agrees(e, x, y, op, zone)
  <1> DEFINE f == evalbinop_copy(x, y, op, zone)
  <1>0. IsArray(x.a) /\ IsArray(y.a)
    BY DEF IsOperand
  <1>1. ~NoRule(x, y, op)
    BY InplaceRuleExists DEF NoRule
  <1>2. /\ RuleFor(x, y, op).k = x.kind
        /\ op \notin {"AND2", "OR2"}
    <2>1. LET u == RuleFor(x, y, op)
          IN  u \in Rules /\ u.k1 = x.kind /\ u.k2 = y.kind /\ op \in u.ops
      BY <1>1, RuleForIs
    <2> DEFINE u == RuleFor(x, y, op)
    <2>2. u \in Rules /\ op \in u.ops /\ op \in InplaceOps(u.k1, u.k2) /\ u.k1 = x.kind
      BY <2>1
    <2> HIDE DEF u
    <2>3. u.k = u.k1 /\ op \notin {"AND2", "OR2"}
      BY <2>2, InplaceRules
    <2> QED
      BY <2>2, <2>3 DEF u
  <1>3. CopyRight(f, x, y, op)
    BY CopySound
  <1>4. ~f.threw =>
          /\ Compatible(x.a, y.a) /\ Fresh(f.res.a, Shape(x.a, y.a)) /\ Combines(f.res.a, x.a, y.a, op)
          /\ f.res.kind = x.kind /\ f.res.idx = IF x.kind = "zts" THEN x.idx ELSE <<>>
    BY <1>1, <1>2, <1>3 DEF CopyRight, Times2
  <1> HIDE DEF f
  <1>5. e.res.a = e.left /\ e.res.kind = x.kind /\ e.res.idx = x.idx
    BY ReplacedIs DEF InplaceRight
  <1>6. Size(x.a) = Size(y.a) \/ Size(y.a) = 1
    BY DEF isInplace
  <1>7. ASSUME e.threw
        PROVE  f.threw
    <2>1. Size(y.a) # 1 /\ x.a.dim # y.a.dim
      BY <1>7 DEF InplaceRight
    <2>2. ~Compatible(x.a, y.a)
      BY <1>6, <2>1 DEF Compatible
    <2> QED
      BY <1>4, <2>2
  <1>8. ASSUME ~f.threw
        PROVE  /\ SameElements(e.res.a, f.res.a)
               /\ e.res.kind = f.res.kind /\ e.res.idx = f.res.idx
               /\ e.res.a.dim = f.res.a.dim \/ Size(e.res.a) = 1
    <2>1. Fresh(e.res.a, x.a) /\ Combines(e.res.a, x.a, y.a, op)
      BY <1>5, <1>7, <1>8 DEF InplaceRight
    <2>2. /\ Compatible(x.a, y.a) /\ Fresh(f.res.a, Shape(x.a, y.a)) /\ Combines(f.res.a, x.a, y.a, op)
          /\ f.res.kind = x.kind /\ f.res.idx = IF x.kind = "zts" THEN x.idx ELSE <<>>
      BY <1>4, <1>8
    <2>3. x.a.dim = Shape(x.a, y.a).dim \/ (Size(x.a) = 1 /\ Size(Shape(x.a, y.a)) = 1)
      BY <1>6, <2>2 DEF Compatible, Shape
    <2>4. IsArray(e.res.a) /\ IsArray(f.res.a)
      BY <2>1, <2>2 DEF Fresh
    <2>5. IsArray(Shape(x.a, y.a))
      BY <1>0 DEF Shape
    <2>6. Size(e.res.a) = Size(x.a) /\ Size(f.res.a) = Size(Shape(x.a, y.a))
      BY <2>1, <2>2 DEF Fresh, Size
    <2>7. e.res.a.dim = f.res.a.dim \/ (Size(e.res.a) = 1 /\ Size(f.res.a) = 1)
      BY <2>1, <2>2, <2>3, <2>6 DEF Fresh
    <2>8. SameGrid(e.res.a, f.res.a)
      BY <2>4, <2>7, GridsAgree
    <2>9. \A c \in 1 .. Len(e.res.a.v) : \A i \in 1 .. Len(e.res.a.v[c].e) :
            e.res.a.v[c].e[i] = f.res.a.v[c].e[i]
      BY <2>1, <2>2, <2>8 DEF Combines, SameGrid
    <2>10. SameElements(e.res.a, f.res.a)
      BY <2>4, <2>8, <2>9, ElementsAgree
    <2>11. x.idx = IF x.kind = "zts" THEN x.idx ELSE <<>>
      <3>1. x.idx \in Seq(Int)
        BY DEF IsOperand
      <3>2. x.kind # "zts" => Len(x.idx) = 0
        BY DEF IsOperand
      <3> QED
        BY <3>1, <3>2
    <2> QED
      BY <1>5, <2>2, <2>7, <2>10, <2>11
  <1>9. Agrees(e, x, y, op, zone)
    BY <1>7, <1>8 DEF Agrees, f
  <1> QED
    BY <1>9

LEMMA OutcomeFields ==
    ASSUME NEW k, NEW a, NEW x, NEW y
    PROVE  LET e == Outcome(k, a, x, y) IN e.threw = a.threw /\ e.res.a = a /\ e.res.kind = k
  BY DEF Outcome, Operand

\* What comes out of an operator has the same elements and the same type.
Alike(e, f) ==
  /\ e.threw <=> f.threw
  /\ ~f.threw => SameElements(e.res.a, f.res.a) /\ e.res.kind = f.res.kind

LEMMA OutcomesAlike ==
    ASSUME NEW k, NEW a, NEW x, NEW y
    PROVE  Alike(Outcome(k, a, x, y), Outcome(k, a, y, x))
  BY OutcomeFields DEF Alike, SameElements

Symmetric(op) == \A m, n \in Int : Elem(op, m, n) = Elem(op, n, m)

Twins(r, s) ==
  \/ r = Threw /\ s = Threw
  \/ /\ r.threw = FALSE /\ s.threw = FALSE /\ SameElements(r, s)
     /\ r.dim = s.dim \/ (r.dim[1] = 1 /\ s.dim[1] = 1)

\* New arrays of the same two operands, in either order.
LEMMA ArraysCommute ==
    ASSUME NEW t, NEW u, IsArray(t), IsArray(u), NEW op, ElemIn(op),
           Symmetric(op)
    PROVE  Twins(apply_arrays(t, u, op), apply_arrays(u, t, op))
  <1> DEFINE r == apply_arrays(t, u, op)
             s == apply_arrays(u, t, op)
  <1>1. /\ ~Compatible(t, u) => r = Threw
        /\ Compatible(t, u) => Fresh(r, Shape(t, u)) /\ Combines(r, t, u, op)
    BY ArraysApplied
  <1>2. /\ ~Compatible(u, t) => s = Threw
        /\ Compatible(u, t) => Fresh(s, Shape(u, t)) /\ Combines(s, u, t, op)
    BY ArraysApplied
  <1>3. Compatible(t, u) <=> Compatible(u, t)
    BY DEF Compatible
  <1> HIDE DEF r, s
  <1>4. ASSUME Compatible(t, u)
        PROVE  /\ r.threw = FALSE /\ s.threw = FALSE /\ SameElements(r, s)
               /\ r.dim = s.dim \/ (r.dim[1] = 1 /\ s.dim[1] = 1)
    <2>1. /\ Fresh(r, Shape(t, u)) /\ Combines(r, t, u, op)
          /\ Fresh(s, Shape(u, t)) /\ Combines(s, u, t, op)
      BY <1>1, <1>2, <1>3, <1>4
    <2>2. Shape(t, u).dim = Shape(u, t).dim \/ (Size(Shape(t, u)) = 1 /\ Size(Shape(u, t)) = 1)
      BY <1>4 DEF Shape, Compatible
    <2>3. IsArray(r) /\ IsArray(s) /\ r.threw = FALSE /\ s.threw = FALSE
      BY <2>1, ArrayFacts DEF Fresh
    <2>4. Size(r) = Size(Shape(t, u)) /\ Size(s) = Size(Shape(u, t))
      BY <2>1 DEF Fresh, Size
    <2>5. r.dim = s.dim \/ (Size(r) = 1 /\ Size(s) = 1)
      BY <2>1, <2>2, <2>4 DEF Fresh
    <2>6. SameGrid(r, s)
      BY <2>3, <2>5, GridsAgree
    <2>7. ASSUME NEW c \in 1 .. Len(r.v), NEW i \in 1 .. Len(r.v[c].e)
          PROVE  r.v[c].e[i] = s.v[c].e[i]
      <3>1. c \in 1 .. Len(s.v) /\ i \in 1 .. Len(s.v[c].e)
        BY <2>6 DEF SameGrid
      <3>2. /\ r.v[c].e[i] = Elem(op, Part(t, c, i), Part(u, c, i))
            /\ s.v[c].e[i] = Elem(op, Part(u, c, i), Part(t, c, i))
        BY <2>1, <3>1 DEF Combines
      <3>3. Part(t, c, i) \in Int /\ Part(u, c, i) \in Int
        <4> DEFINE b == Shape(t, u)
        <4>1. IsArray(b) /\ r.dim = b.dim /\ Len(r.v) = Len(b.v)
          BY <2>1 DEF Shape, Fresh
        <4> HIDE DEF b
        <4>2. SameGrid(r, b)
          BY <2>3, <4>1, GridsAgree
        <4>3. c \in 1 .. Len(b.v) /\ i \in 1 .. Len(b.v[c].e)
          BY <4>2 DEF SameGrid
        <4>4. c \in 1 .. Len(Shape(t, u).v) /\ i \in 1 .. Len(Shape(t, u).v[c].e)
          BY <4>3 DEF b
        <4> QED
          BY <1>4, <4>4, ShapeFits
      <3> QED
        BY <3>2, <3>3 DEF Symmetric
    <2>8. SameElements(r, s)
      BY <2>3, <2>6, <2>7, ElementsAgree
    <2>9. Size(r) = 1 /\ Size(s) = 1 => r.dim[1] = 1 /\ s.dim[1] = 1
      BY <2>3, ArrayFacts
    <2> QED
      BY <2>3, <2>5, <2>8, <2>9
  <1>5. ~Compatible(t, u) => r = Threw /\ s = Threw
    BY <1>1, <1>2, <1>3
  <1> QED
    BY <1>4, <1>5 DEF r, s, Twins

SumOps == {"PLUS"} \cup eq_ne
LEMMA DoopCommutes ==
    ASSUME NEW x, NEW y, IsOperand(x), IsOperand(y), NEW op \in SumOps, ElemIn(op),
           Symmetric(op), NEW k,
           ~OtherTimes(x, y), k = "zts" => x.kind = "zts" \/ y.kind = "zts"
    PROVE  LET r == doop(x, y, op, k)
               s == doop(y, x, op, k)
           IN  \/ r.threw = TRUE /\ s.threw = TRUE
               \/ r.threw = FALSE /\ s.threw = FALSE /\ SameElements(r, s)
  <1> DEFINE r == apply_arrays(x.a, y.a, op)
             s == apply_arrays(y.a, x.a, op)
  <1>0. op # "AND2" /\ op # "OR2"
    BY DEF SumOps, eq_ne
  <1>1. Twins(r, s)
    <2>1. IsArray(x.a) /\ IsArray(y.a)
      BY DEF IsOperand
    <2> QED
      BY <2>1, ArraysCommute
  <1>2. /\ doop(x, y, op, k) = IF k = "zts" THEN zts_of(Times2(x, y), r) ELSE r
        /\ doop(y, x, op, k) = IF k = "zts" THEN zts_of(Times2(y, x), s) ELSE s
    BY <1>0 DEF doop, Times2
  <1>3. k = "zts" => Times2(x, y) = Times2(y, x)
    BY DEF Times2, OtherTimes
  <1> HIDE DEF r, s
  <1>4. CASE r = Threw /\ s = Threw
    BY <1>2, <1>4, ThrewIs DEF zts_of
  <1>5. CASE /\ r.threw = FALSE /\ s.threw = FALSE /\ SameElements(r, s)
             /\ r.dim[1] = s.dim[1]
    <2>1. CASE k = "zts" /\ Len(Times2(x, y)) # r.dim[1]
      <3>1. doop(x, y, op, k) = Threw /\ doop(y, x, op, k) = Threw
        BY <1>2, <1>3, <1>5, <2>1 DEF zts_of
      <3> QED
        BY <3>1, ThrewIs
    <2>2. CASE ~(k = "zts" /\ Len(Times2(x, y)) # r.dim[1])
      <3>1. doop(x, y, op, k) = r /\ doop(y, x, op, k) = s
        BY <1>2, <1>3, <1>5, <2>2 DEF zts_of
      <3> QED
        BY <1>5, <3>1
    <2> QED
      BY <2>1, <2>2
  <1> QED
    BY <1>1, <1>4, <1>5 DEF Twins

LEMMA CopyCommutes ==
    ASSUME NEW x, NEW y, IsOperand(x), IsOperand(y), NEW op \in SumOps, ElemIn(op),
           Symmetric(op), NEW zone
    PROVE  Alike(evalbinop_copy(x, y, op, zone), evalbinop_copy(y, x, op, zone))
  <1> DEFINE e == evalbinop_copy(x, y, op, zone)
             f == evalbinop_copy(y, x, op, zone)
             k == RuleFor(x, y, op).k
             m == RuleFor(y, x, op).k
  <1>0. op \in BinaryOps
    BY DEF SumOps, BinaryOps, arithmetic, boolean, comp
  <1>1. Lists(x, y) <=> Lists(y, x)
    BY DEF Lists
  <1>2. OtherTimes(x, y) <=> OtherTimes(y, x)
    BY DEF OtherTimes
  <1>3. NoRule(x, y, op) <=> NoRule(y, x, op)
    BY RulesSwap DEF NoRule, SumOps
  <1>4. NeedsZone(x.kind, y.kind) <=> NeedsZone(y.kind, x.kind)
    BY DEF NeedsZone
  <1>5. ~NoRule(x, y, op) => k = m
    <2>1. ASSUME ~NoRule(x, y, op)
          PROVE  k = m
      <3>1. /\ RuleFor(x, y, op) \in Applies(x.kind, y.kind, op)
            /\ RuleFor(y, x, op) \in Applies(y.kind, x.kind, op)
        BY <1>3, <2>1, RuleForIs
      <3> QED
        BY <3>1, RulesSwap DEF SumOps
    <2> QED
      BY <2>1
  <1>6. CASE Lists(x, y)
    <2>1. ListOutcome(x, y, op) = ListOutcome(y, x, op)
      <3>1. CASE x.kind = "list" /\ y.kind = "list"
        BY <3>1 DEF ListOutcome
      <3>2. CASE x.kind = "list" /\ y.kind # "list"
        BY <3>2 DEF ListOutcome
      <3>3. CASE x.kind # "list" /\ y.kind = "list"
        BY <3>3 DEF ListOutcome
      <3> QED
        BY <1>6, <3>1, <3>2, <3>3 DEF Lists
    <2>2. e = Outcome("bool", ListOutcome(x, y, op), x, y) /\ f = Outcome("bool", ListOutcome(y, x, op), y, x)
      BY <1>0, <1>1, <1>6, CopyIs
    <2> QED
      BY <2>1, <2>2, OutcomesAlike
  <1>7. CASE OtherTimes(x, y)
    <2>1. e = Outcome("zts", Threw, x, y) /\ f = Outcome("zts", Threw, y, x)
      BY <1>0, <1>2, <1>7, CopyIs
    <2> QED
      BY <2>1, OutcomesAlike
  <1>8. CASE ~Lists(x, y) /\ NoRule(x, y, op)
    <2>1. evalbinop_value_value_comp(x, y, op) = evalbinop_value_value_comp(y, x, op)
      BY DEF evalbinop_value_value_comp
    <2>2. /\ e = Outcome("bool", evalbinop_value_value_comp(x, y, op), x, y)
          /\ f = Outcome("bool", evalbinop_value_value_comp(y, x, op), y, x)
      BY <1>0, <1>1, <1>3, <1>8, CopyIs
    <2> QED
      BY <2>1, <2>2, OutcomesAlike
  <1>9. CASE ~OtherTimes(x, y) /\ ~NoRule(x, y, op) /\ NeedsZone(x.kind, y.kind) /\ ~zone
    <2>1. e = Outcome(k, Threw, x, y) /\ f = Outcome(m, Threw, y, x)
      BY <1>0, <1>2, <1>3, <1>4, <1>9, CopyIs
    <2>2. k = m
      BY <1>5, <1>9
    <2> QED
      BY <2>1, <2>2, OutcomesAlike
  <1>10. CASE ~OtherTimes(x, y) /\ ~NoRule(x, y, op) /\ (NeedsZone(x.kind, y.kind) => zone)
    <2>1. e = Outcome(k, doop(x, y, op, k), x, y) /\ f = Outcome(m, doop(y, x, op, m), y, x)
      BY <1>0, <1>2, <1>3, <1>4, <1>10, CopyIs
    <2>2. k = m
      BY <1>5, <1>10
    <2>3. k = "zts" => x.kind = "zts" \/ y.kind = "zts"
      BY <1>10, RuleForIs DEF RuleTypes
    <2>4. LET r == doop(x, y, op, k)
              s == doop(y, x, op, k)
          IN  \/ r.threw = TRUE /\ s.threw = TRUE
              \/ r.threw = FALSE /\ s.threw = FALSE /\ SameElements(r, s)
      BY <1>10, <2>3, DoopCommutes
    <2> HIDE DEF e, f, k, m
    <2>5. /\ e.threw = doop(x, y, op, k).threw /\ e.res.a = doop(x, y, op, k) /\ e.res.kind = k
          /\ f.threw = doop(y, x, op, k).threw /\ f.res.a = doop(y, x, op, k) /\ f.res.kind = k
      BY <2>1, <2>2, OutcomeFields
    <2>6. Alike(e, f)
      BY <2>4, <2>5 DEF Alike
    <2> QED
      BY <2>6 DEF e, f
  <1> QED
    BY <1>6, <1>7, <1>8, <1>9, <1>10

-----------------------------------------------------------------------------
(***************************************************************************)
(* The steps.                                                              *)
(***************************************************************************)
\* AND2 and OR2, which look at one element of each operand, are not done in place.
LEMMA InplaceElements ==
    ASSUME NEW a, NEW b, NEW op \in InplaceOps(a, b)
    PROVE  op \notin {"AND2", "OR2"}
  <1>1. PICK u \in Rules : u.k1 = a /\ u.k2 = b /\ op \in u.ops
    BY InplaceRuleExists DEF Applies
  <1>2. op \in u.ops /\ op \in InplaceOps(u.k1, u.k2)
    BY <1>1
  <1> QED
    BY <1>2, InplaceRules

LEMMA EvalbinopRight ==
    ASSUME NEW x, NEW y, IsOperand(x), IsOperand(y), NEW op \in BinaryOps,
           op \notin {"AND2", "OR2"} => ElemIn(op), op \in SumOps => Symmetric(op), NEW zone
    PROVE  LET e == evalbinop(x, y, op, zone)
           IN  /\ Effect(e, x) /\ ResultRight(e, x, y, op) /\ Agrees(e, x, y, op, zone)
               /\ RefusedRight(e, x, y) /\ Commutes(e, x, y, op, zone)
  <1> DEFINE P(e) == /\ Effect(e, x) /\ ResultRight(e, x, y, op) /\ Agrees(e, x, y, op, zone)
                     /\ RefusedRight(e, x, y) /\ Commutes(e, x, y, op, zone)
  <1>1. ASSUME isInplace(x, y), op \in InplaceOps(x.kind, y.kind)
        PROVE  P(evalbinop_inplace(x, y, op))
    <2> DEFINE e == evalbinop_inplace(x, y, op)
    <2>0. ElemIn(op)
      BY <1>1, InplaceElements
    <2>1. InplaceRight(e, x, y, op)
      BY <1>1, <2>0, InplaceSound
    <2> HIDE DEF e
    <2>2. Effect(e, x)
      BY <2>1, InplaceEffect
    <2>3. ResultRight(e, x, y, op)
      BY <2>1, InplaceResult
    <2>4. Agrees(e, x, y, op, zone)
      BY <1>1, <2>0, <2>1, InplaceLikeCopy
    <2>5. RefusedRight(e, x, y)
      BY <1>1, <2>1, InplaceRefused
    <2>6. Commutes(e, x, y, op, zone)
      BY <2>1 DEF Commutes, InplaceRight
    <2> QED
      BY <2>2, <2>3, <2>4, <2>5, <2>6 DEF e
  <1>2. P(evalbinop_copy(x, y, op, zone))
    <2> DEFINE e == evalbinop_copy(x, y, op, zone)
    <2>1. CopyRight(e, x, y, op)
      BY CopySound
    <2>2. Copied(e, x)
      BY <2>1 DEF CopyRight
    <2>3. Commutes(e, x, y, op, zone)
      <3>1. CASE op \in SumOps
        <4>1. Symmetric(op) /\ ElemIn(op)
          BY <3>1 DEF SumOps, eq_ne
        <4>2. Alike(e, evalbinop_copy(y, x, op, zone))
          BY <3>1, <4>1, CopyCommutes
        <4> HIDE DEF e
        <4> QED
          BY <4>2 DEF Commutes, Alike
      <3>2. CASE op \notin SumOps
        <4> HIDE DEF e
        <4> QED
          BY <3>2 DEF Commutes, SumOps
      <3> QED
        BY <3>1, <3>2
    <2> HIDE DEF e
    <2>4. Effect(e, x) /\ Reset(e.left) = x.a
      BY <2>2, CopyEffect
    <2>5. ResultRight(e, x, y, op)
      BY <2>1, CopyResult
    <2>6. Agrees(e, x, y, op, zone) /\ RefusedRight(e, x, y)
      BY <2>2, <2>4 DEF Agrees, RefusedRight, Copied
    <2> QED
      BY <2>3, <2>4, <2>5, <2>6 DEF e
  <1>3. evalbinop(x, y, op, zone) = evalbinop_copy(x, y, op, zone)
          \/ (/\ isInplace(x, y) /\ op \in InplaceOps(x.kind, y.kind)
              /\ evalbinop(x, y, op, zone) = evalbinop_inplace(x, y, op))
    BY DEF evalbinop
  <1>4. CASE isInplace(x, y) /\ op \in InplaceOps(x.kind, y.kind)
             /\ evalbinop(x, y, op, zone) = evalbinop_inplace(x, y, op)
    BY <1>1, <1>4
  <1> QED
    BY <1>2, <1>3, <1>4

OInv ==
  /\ IsOperand(l) /\ torn \in BOOLEAN
  /\ out # NoOut /\ ~out.threw => IsOperand(out.res)
  /\ OperatorsAreRight

\* What Done leaves in the variables.
LEMMA DoneIs ==
    ASSUME NEW op, NEW zone, NEW e, IsOperand(l), Done(op, zone, e)
    PROVE  /\ out'.op = op /\ out'.before = l /\ out'.zone = zone /\ out'.inplace = e.inplace
           /\ out'.threw = e.threw /\ out'.res = e.res
           /\ l' = [l EXCEPT !.a = Reset(e.left)]
           /\ l'.a = Reset(e.left) /\ l'.kind = l.kind
           /\ torn' = (torn \/ (e.threw /\ l'.a # l.a))
  <1>1. /\ out' = [op |-> op, before |-> l, zone |-> zone, inplace |-> e.inplace,
                   threw |-> e.threw, res |-> e.res]
        /\ l' = [l EXCEPT !.a = Reset(e.left)]
        /\ torn' = (torn \/ (e.threw /\ l'.a # l.a))
    BY DEF Done, Reset
  <1>2. l'.a = Reset(e.left) /\ l'.kind = l.kind
    BY <1>1, ReplacedIs
  <1> QED
    BY <1>1, <1>2

LEMMA DoneKeeps ==
    ASSUME NEW op, NEW zone, NEW e, OInv, Effect(e, l), Done(op, zone, e)
    PROVE  /\ IsOperand(l') /\ torn' \in BOOLEAN /\ (~out'.threw => IsOperand(out'.res))
           /\ OrderFlagsHold'
  <1>0. IsOperand(l)
    BY DEF OInv
  <1>1. /\ out'.threw = e.threw /\ out'.res = e.res /\ l' = [l EXCEPT !.a = Reset(e.left)]
        /\ l'.a = Reset(e.left) /\ torn' = (torn \/ (e.threw /\ l'.a # l.a))
    BY <1>0, DoneIs
  <1>2. IsOperand(l')
    BY <1>0, <1>1, OperandReplaced DEF Effect
  <1>3. torn' \in BOOLEAN
    BY <1>1
  <1>4. ~out'.threw => IsOperand(out'.res)
    BY <1>1 DEF Effect
  <1>5. ASSUME ~torn'
        PROVE  FlagsHold(l'.a) /\ FlagsHold(out'.res.a)
    <2>1. ~torn /\ (e.threw => Reset(e.left) = l.a)
      BY <1>1, <1>5
    <2>2. FlagsHold(l.a)
      BY <2>1 DEF OInv, OperatorsAreRight, OrderFlagsHold
    <2> QED
      BY <1>1, <2>1, <2>2 DEF Effect
  <1> QED
    BY <1>2, <1>3, <1>4, <1>5 DEF OrderFlagsHold

\* Every step but a binary operator leaves nothing for the other properties to say.
LEMMA NotBinary ==
    ASSUME rhs' = NoOperand \/ out' = NoOut
    PROVE  OperatorIsRight' /\ InplaceAgrees' /\ RefusalKeeps' /\ SumsCommute'
  <1>1. ~Binary'
    BY DEF Binary, NoOut, arithmetic, boolean, comp, eq_ne
  <1> HIDE DEF Binary
  <1> QED
    BY <1>1 DEF OperatorIsRight, InplaceAgrees, RefusalKeeps, SumsCommute

\* What the operators on elements have to be like: a number comes out of two numbers, and
\* sums and comparisons for equality do not depend on the order.
ElemAssumption ==
  (\A op \in BinaryOps \ {"AND2", "OR2"} : ElemIn(op)) /\ (\A op \in SumOps : Symmetric(op))

LEMMA BinopKeeps ==
    ASSUME ElemAssumption, OInv, Binop
    PROVE  OInv'
  <1>0. IsOperand(l)
    BY DEF OInv
  <1>1. PICK y \in Rights, op \in BinaryOps, zone \in BOOLEAN :
          rhs' = y /\ Done(op, zone, evalbinop(l, y, op, zone))
    BY DEF Binop, BinaryOps
  <1> DEFINE e == evalbinop(l, y, op, zone)
  <1>2. IsOperand(y)
    BY OperatorsAssumption DEF OperatorsAssumption
  <1>3. (op \notin {"AND2", "OR2"} => ElemIn(op)) /\ (op \in SumOps => Symmetric(op))
    BY DEF ElemAssumption
  <1>4. /\ Effect(e, l) /\ ResultRight(e, l, y, op) /\ Agrees(e, l, y, op, zone)
        /\ RefusedRight(e, l, y) /\ Commutes(e, l, y, op, zone)
    BY <1>0, <1>2, <1>3, EvalbinopRight
  <1>5. Done(op, zone, e)
    BY <1>1
  <1> HIDE DEF e
  <1>6. /\ IsOperand(l') /\ torn' \in BOOLEAN /\ (~out'.threw => IsOperand(out'.res))
        /\ OrderFlagsHold'
    BY <1>4, <1>5, DoneKeeps
  <1>7. /\ out'.op = op /\ out'.before = l /\ out'.zone = zone /\ out'.inplace = e.inplace
        /\ out'.threw = e.threw /\ out'.res = e.res /\ rhs' = y
        /\ l'.a = Reset(e.left) /\ l'.kind = l.kind
    BY <1>0, <1>1, <1>5, DoneIs
  <1>8. OperatorIsRight'
    BY <1>4, <1>7 DEF OperatorIsRight, ResultRight
  <1>9. InplaceAgrees'
    BY <1>4, <1>7 DEF InplaceAgrees, Agrees
  <1>10. RefusalKeeps'
    BY <1>4, <1>7 DEF RefusalKeeps, RefusedRight
  <1>11. SumsCommute'
    BY <1>4, <1>7 DEF SumsCommute, Commutes
  <1> QED
    BY <1>6, <1>8, <1>9, <1>10, <1>11 DEF OInv, OperatorsAreRight

LEMMA OtherKeeps ==
    ASSUME NEW op, NEW zone, NEW e, OInv, Effect(e, l), Done(op, zone, e), rhs' = NoOperand
    PROVE  OInv'
  <1>1. /\ IsOperand(l') /\ torn' \in BOOLEAN /\ (~out'.threw => IsOperand(out'.res))
        /\ OrderFlagsHold'
    BY DoneKeeps
  <1> QED
    BY <1>1, NotBinary DEF OInv, OperatorsAreRight

\* An array of the same dimensions whose flags lie no more.
LikeArray(a, b) == IsArray(a) /\ a.dim = b.dim /\ (FlagsHold(b) => FlagsHold(a))

LEMMA SimpleEffect ==
    ASSUME NEW x, IsOperand(x), NEW a, LikeArray(a, x.a),
           NEW k \in Kinds, k = "zts" <=> x.kind = "zts",
           NEW e, e.threw = FALSE, e.left \in {a, x.a},
           e.res = [x EXCEPT !.a = a, !.kind = k, !.ref = FALSE]
    PROVE  Effect(e, x)
  <1>1. x \in [kind : Kinds, a : {x.a}, idx : Seq(Int), ref : BOOLEAN] /\ IsArray(x.a)
    BY DEF IsOperand
  <1>2. IsArray(e.left) /\ e.left.dim = x.a.dim
    BY <1>1 DEF LikeArray
  <1>3. Reset(e.left) = e.left
    BY <1>2, Unthrown DEF Reset
  <1>4. e.res.a = a /\ e.res.kind = k /\ e.res.idx = x.idx
    BY <1>1
  <1>5. e.res \in [kind : Kinds, a : {e.res.a}, idx : Seq(Int), ref : BOOLEAN]
    BY <1>1
  <1>6. Len(e.res.idx) = IF e.res.kind = "zts" THEN e.res.a.dim[1] ELSE 0
    BY <1>4 DEF IsOperand, LikeArray
  <1>7. IsOperand(e.res)
    BY <1>4, <1>5, <1>6 DEF IsOperand, LikeArray
  <1> QED
    BY <1>2, <1>3, <1>4, <1>7 DEF Effect, LikeArray

LEMMA RefusedEffect ==
    ASSUME NEW x, IsOperand(x), NEW e, e.threw = TRUE, e.left = x.a, e.res.a = Thrown(x.a)
    PROVE  Effect(e, x)
  <1>1. IsArray(x.a)
    BY DEF IsOperand
  <1>2. Reset(e.left) = x.a /\ Thrown(x.a).v = x.a.v
    BY <1>1, Unthrown DEF Reset
  <1>3. FlagsHold(x.a) => FlagsHold(e.res.a)
    BY <1>2, SameFlags
  <1> QED
    BY <1>1, <1>2, <1>3 DEF Effect

\* A function of every element of an array.
LEMMA FunctionApplied ==
    ASSUME NEW a, IsArray(a), NEW f \in [Int -> Int]
    PROVE  LikeArray(applyf(a, f), a)
  <1> DEFINE q == [c \in 1 .. Len(a.v) |-> [i \in 1 .. Len(a.v[c].e) |-> f[a.v[c].e[i]]]]
             b == a.v
  <1>1. applyf(a, f) = AllSet(a, b, q)
    BY DEF applyf, AllSet
  <1>2. ASSUME NEW c \in 1 .. Len(a.v)
        PROVE  q[c] \in [1 .. Len(a.v[c].e) -> Int]
    <2> DEFINE s == a.v[c].e
    <2>1. s \in Seq(Int)
      BY ArrayFacts
    <2> DEFINE d == q[c]
    <2>2. d = [i \in 1 .. Len(s) |-> f[s[i]]]
      OBVIOUS
    <2> HIDE DEF s, d
    <2>3. ASSUME NEW i \in 1 .. Len(s) PROVE f[s[i]] \in Int
      <3>1. s[i] \in Int
        BY <2>1
      <3> QED
        BY <3>1
    <2>4. d \in [1 .. Len(s) -> Int]
      BY <2>2, <2>3
    <2> QED
      BY <2>4 DEF s, d
  <1>3. FitsIn(q, a)
    BY <1>2 DEF FitsIn
  <1>4. ColumnsFit(b, a)
    BY ArrayFacts DEF ColumnsFit
  <1> HIDE DEF q, b
  <1>5. HasElements(AllSet(a, b, q), a, q)
    BY <1>3, <1>4, ColumnsSet
  <1> QED
    BY <1>1, <1>5 DEF HasElements, LikeArray

LEMMA UnaryElements ==
    ASSUME NEW a, IsArray(a), NEW g \in [Int -> Int]
    PROVE  /\ LikeArray(Pushed(a, [c \in 1 .. Len(a.v) |-> [i \in 1 .. Len(a.v[c].e) |-> g[a.v[c].e[i]]]]), a)
           /\ LikeArray(AllSet(a, [c \in 1 .. Len(a.v) |-> [a.v[c] EXCEPT !.ordered = TRUE]],
                               [c \in 1 .. Len(a.v) |-> [i \in 1 .. Len(a.v[c].e) |-> g[a.v[c].e[i]]]]), a)
  <1> DEFINE q == [c \in 1 .. Len(a.v) |-> [i \in 1 .. Len(a.v[c].e) |-> g[a.v[c].e[i]]]]
             b == [c \in 1 .. Len(a.v) |-> [a.v[c] EXCEPT !.ordered = TRUE]]
  <1>1. ASSUME NEW c \in 1 .. Len(a.v)
        PROVE  q[c] \in [1 .. Len(a.v[c].e) -> Int]
    <2> DEFINE s == a.v[c].e
    <2>1. s \in Seq(Int)
      BY ArrayFacts
    <2> DEFINE d == q[c]
    <2>2. d = [i \in 1 .. Len(s) |-> g[s[i]]]
      OBVIOUS
    <2> HIDE DEF s, d
    <2>3. ASSUME NEW i \in 1 .. Len(s) PROVE g[s[i]] \in Int
      <3>1. s[i] \in Int
        BY <2>1
      <3> QED
        BY <3>1
    <2>4. d \in [1 .. Len(s) -> Int]
      BY <2>2, <2>3
    <2> QED
      BY <2>4 DEF s, d
  <1>2. FitsIn(q, a)
    BY <1>1 DEF FitsIn
  <1>3. ASSUME NEW c \in 1 .. Len(a.v)
        PROVE  b[c] \in Column /\ Len(b[c].e) = Len(a.v[c].e)
    <2>1. a.v[c] \in Column
      BY ArrayFacts
    <2> QED
      BY <2>1 DEF Column
  <1>4. ColumnsFit(b, a)
    BY <1>3 DEF ColumnsFit
  <1> HIDE DEF q, b
  <1>5. LikeArray(Pushed(a, q), a)
    BY <1>2, ColumnsPushed DEF HasElements, LikeArray
  <1>6. LikeArray(AllSet(a, b, q), a)
    BY <1>2, <1>4, ColumnsSet DEF HasElements, LikeArray
  <1> QED
    BY <1>5, <1>6 DEF q, b

\* What a unary operator does to an element.
Unary(op) == [e \in Int |-> CASE op = "PLUS" -> e [] op = "MINUS" -> -e [] OTHER -> IF e = 0 THEN 1 ELSE 0]
UnaryOk(x, op) == \/ op \in plus_minus /\ x.kind \in {"double", "duration", "period"}
                  \/ op = "NOT" /\ x.kind \in {"double", "bool"}
UnaryRef(x, op) == x.ref /\ (x.kind = "double" => op \in plus_minus)

LEMMA UnopEffect ==
    ASSUME NEW x, IsOperand(x), NEW op \in {"PLUS", "MINUS", "NOT"}
    PROVE  Effect(evalunop(x, op), x)
  <1> DEFINE e == evalunop(x, op)
             q == [c \in 1 .. Len(x.a.v) |-> [i \in 1 .. Len(x.a.v[c].e) |-> Unary(op)[x.a.v[c].e[i]]]]
             b == [c \in 1 .. Len(x.a.v) |-> [x.a.v[c] EXCEPT !.ordered = TRUE]]
             k == IF op = "NOT" THEN "bool" ELSE x.kind
  <1>0. IsArray(x.a) /\ x \in [kind : Kinds, a : {x.a}, idx : Seq(Int), ref : BOOLEAN]
    BY DEF IsOperand
  <1>1. Unary(op) \in [Int -> Int]
    BY DEF Unary
  <1>2. LikeArray(Pushed(x.a, q), x.a) /\ LikeArray(AllSet(x.a, b, q), x.a)
    BY <1>0, <1>1, UnaryElements
  <1>3. LikeArray(x.a, x.a)
    BY <1>0 DEF LikeArray
  <1>4. \A c \in 1 .. Len(x.a.v) : \A i \in 1 .. Len(x.a.v[c].e) : x.a.v[c].e[i] \in Int
    <2>1. ASSUME NEW c \in 1 .. Len(x.a.v), NEW i \in 1 .. Len(x.a.v[c].e)
          PROVE  x.a.v[c].e[i] \in Int
      <3> DEFINE s == x.a.v[c].e
      <3>1. s \in Seq(Int) /\ i \in 1 .. Len(s)
        BY <1>0, ArrayFacts
      <3> HIDE DEF s
      <3>2. s[i] \in Int
        BY <3>1
      <3> QED
        BY <3>2 DEF s
    <2> QED
      BY <2>1
  <1>5. CASE ~UnaryOk(x, op)
    <2>1. e.threw = TRUE /\ e.left = x.a
      BY <1>5 DEF evalunop, UnaryOk
    <2>2. e.res = [x EXCEPT !.a = Thrown(x.a), !.kind = k, !.ref = FALSE]
      BY <1>5 DEF evalunop, UnaryOk
    <2>3. e.res.a = Thrown(x.a)
      BY <1>0, <2>2
    <2> QED
      BY <2>1, <2>3, RefusedEffect
  <1>6. ASSUME UnaryOk(x, op), NEW a, LikeArray(a, x.a), e.threw = FALSE, e.left \in {a, x.a},
               e.res = [x EXCEPT !.a = a, !.kind = k, !.ref = FALSE]
        PROVE  Effect(e, x)
    <2>1. k \in Kinds /\ (k = "zts" <=> x.kind = "zts")
      BY <1>0, <1>6 DEF UnaryOk, Kinds
    <2> HIDE DEF e, k
    <2> QED
      BY <1>6, <2>1, SimpleEffect
  <1>7. CASE UnaryOk(x, op) /\ op = "PLUS"
    <2>1. /\ e.threw = FALSE /\ e.left \in {x.a}
          /\ e.res = [x EXCEPT !.a = x.a, !.kind = k, !.ref = FALSE]
      BY <1>7 DEF evalunop, UnaryOk
    <2> QED
      BY <1>3, <1>6, <1>7, <2>1
  <1>8. CASE UnaryOk(x, op) /\ op # "PLUS" /\ UnaryRef(x, op)
    <2>1. AllSet(x.a, b, q)
            = [x.a EXCEPT !.v = [c \in 1 .. Len(@) |->
                 setv_all([@[c] EXCEPT !.ordered = TRUE],
                          [i \in 1 .. Len(@[c].e) |->
                             CASE op = "PLUS" -> @[c].e[i] [] op = "MINUS" -> -@[c].e[i]
                               [] OTHER -> IF @[c].e[i] = 0 THEN 1 ELSE 0])]]
      BY <1>4 DEF AllSet, Unary
    <2>2. /\ e.threw = FALSE /\ e.left = AllSet(x.a, b, q)
          /\ e.res = [x EXCEPT !.a = AllSet(x.a, b, q), !.kind = k, !.ref = FALSE]
      BY <1>8, <2>1 DEF evalunop, UnaryOk, UnaryRef
    <2> QED
      BY <1>2, <1>6, <1>8, <2>2
  <1>9. CASE UnaryOk(x, op) /\ op # "PLUS" /\ ~UnaryRef(x, op)
    <2>1. Pushed(x.a, q)
            = [x.a EXCEPT !.v = [c \in 1 .. Len(@) |->
                 PushAll(vector_rsv, [i \in 1 .. Len(@[c].e) |->
                             CASE op = "PLUS" -> x.a.v[c].e[i] [] op = "MINUS" -> -x.a.v[c].e[i]
                               [] OTHER -> IF x.a.v[c].e[i] = 0 THEN 1 ELSE 0])]]
      BY <1>4 DEF Pushed, Unary
    <2>2. /\ e.threw = FALSE /\ e.left = x.a
          /\ e.res = [x EXCEPT !.a = Pushed(x.a, q), !.kind = k, !.ref = FALSE]
      BY <1>9, <2>1 DEF evalunop, UnaryOk, UnaryRef, NewArray
    <2> QED
      BY <1>2, <1>6, <1>9, <2>2
  <1> QED
    BY <1>5, <1>7, <1>8, <1>9

\* A function of all elements, on the variable's own array or on a copy, or refused.
FunctionOutcome(e, x, a, ok, ref) ==
  /\ e.threw = ~ok /\ e.left = IF ok /\ ref THEN a ELSE x.a
  /\ e.res = [x EXCEPT !.a = IF ok THEN a ELSE Thrown(@), !.ref = FALSE]

LEMMA FunctionEffect ==
    ASSUME NEW x, IsOperand(x), NEW f \in [Int -> Int], NEW ok \in BOOLEAN, NEW ref \in BOOLEAN,
           NEW e, FunctionOutcome(e, x, applyf(x.a, f), ok, ref)
    PROVE  Effect(e, x)
  <1> DEFINE a == applyf(x.a, f)
  <1>0. IsArray(x.a) /\ x \in [kind : Kinds, a : {x.a}, idx : Seq(Int), ref : BOOLEAN]
    BY DEF IsOperand
  <1>1. LikeArray(a, x.a)
    BY <1>0, FunctionApplied
  <1> HIDE DEF a
  <1>2. CASE ok
    <2>1. e.threw = FALSE /\ e.left \in {a, x.a}
      BY <1>2 DEF FunctionOutcome, a
    <2>2. e.res = [x EXCEPT !.a = a, !.ref = FALSE]
      BY <1>2 DEF FunctionOutcome, a
    <2>3. [x EXCEPT !.a = a, !.ref = FALSE] = [x EXCEPT !.a = a, !.kind = x.kind, !.ref = FALSE]
      BY <1>0
    <2> DEFINE k == x.kind
    <2>4. k \in Kinds /\ (k = "zts" <=> x.kind = "zts")
      BY <1>0
    <2>5. e.res = [x EXCEPT !.a = a, !.kind = k, !.ref = FALSE]
      BY <2>2, <2>3
    <2> HIDE DEF k
    <2> QED
      BY <1>1, <2>1, <2>4, <2>5, SimpleEffect
  <1>3. CASE ~ok
    <2>1. e.threw = TRUE /\ e.left = x.a /\ e.res = [x EXCEPT !.a = Thrown(x.a), !.ref = FALSE]
      BY <1>3 DEF FunctionOutcome
    <2>2. e.res.a = Thrown(x.a)
      BY <1>0, <2>1
    <2> QED
      BY <2>1, <2>2, RefusedEffect
  <1> QED
    BY <1>2, <1>3

LEMMA UnopKeeps ==
    ASSUME OInv, Unop
    PROVE  OInv'
  <1>1. PICK op \in {"PLUS", "MINUS", "NOT"} : rhs' = NoOperand /\ Done(op, FALSE, evalunop(l, op))
    BY DEF Unop
  <1>2. Effect(evalunop(l, op), l)
    BY UnopEffect DEF OInv
  <1> QED
    BY <1>1, <1>2, OtherKeeps

LEMMA MathKeeps ==
    ASSUME OInv, mathfunc
    PROVE  OInv'
  <1> DEFINE f  == [e \in Int |-> e * e - 2 * e]
             a  == applyf(l.a, f)
             ok == l.kind \in {"double", "zts"}
             d  == [inplace |-> ok /\ l.ref, threw |-> ~ok, left |-> IF ok /\ l.ref THEN a ELSE l.a,
                    res |-> [l EXCEPT !.a = IF ok THEN a ELSE Thrown(@), !.ref = FALSE]]
  <1>0. IsOperand(l) /\ l.ref \in BOOLEAN
    BY DEF OInv, IsOperand
  <1>1. rhs' = NoOperand /\ Done("math", FALSE, d)
    BY DEF mathfunc
  <1>2. f \in [Int -> Int] /\ ok \in BOOLEAN
    OBVIOUS
  <1>3. FunctionOutcome(d, l, a, ok, l.ref)
    BY DEF FunctionOutcome
  <1> HIDE DEF d, f, ok
  <1>4. Effect(d, l)
    BY <1>0, <1>2, <1>3, FunctionEffect
  <1> QED
    BY <1>1, <1>4, OtherKeeps

LEMMA FloorKeeps ==
    ASSUME OInv, floor
    PROVE  OInv'
  <1>0. IsOperand(l)
    BY DEF OInv
  <1> DEFINE n(unit) == IF unit = "day" THEN 3 ELSE 2
             f(unit, upward) == [e \in Int |-> (e - (e % n(unit))) + (IF upward /\ (e % n(unit)) # 0 THEN n(unit) ELSE 0)]
             ok(unit, zone) == /\ ~l.ref
                               /\ \/ l.kind \in {"double", "zts"} /\ unit = "null"
                                  \/ l.kind \in {"time", "interval"} /\ unit # "null" /\ (unit = "day" => zone)
             d(unit, zone, upward) ==
               [inplace |-> FALSE, threw |-> ~ok(unit, zone), left |-> l.a,
                res |-> [l EXCEPT !.a = IF ok(unit, zone) THEN applyf(l.a, f(unit, upward)) ELSE Thrown(@),
                                  !.ref = FALSE]]
  <1>1. PICK unit \in {"null", "hour", "day"}, zone \in BOOLEAN, upward \in BOOLEAN :
          rhs' = NoOperand /\ Done("floor", zone, d(unit, zone, upward))
    BY DEF floor
  <1> DEFINE g == f(unit, upward)
             k == ok(unit, zone)
             e == d(unit, zone, upward)
  <1>2. g \in [Int -> Int] /\ k \in BOOLEAN
    <2>1. n(unit) \in Int /\ n(unit) > 0
      OBVIOUS
    <2> HIDE DEF n
    <2>2. \A i \in Int : (i - (i % n(unit))) + (IF upward /\ (i % n(unit)) # 0 THEN n(unit) ELSE 0) \in Int
      BY <2>1
    <2> QED
      BY <2>2
  <1>3. FunctionOutcome(e, l, applyf(l.a, g), k, FALSE)
    BY DEF FunctionOutcome
  <1>4. Done("floor", zone, e) /\ rhs' = NoOperand
    BY <1>1
  <1> HIDE DEF e, g, k
  <1>5. Effect(e, l)
    BY <1>0, <1>2, <1>3, FunctionEffect
  <1> QED
    BY <1>4, <1>5, OtherKeeps

LEMMA KeepKeeps ==
    ASSUME OInv, Keep
    PROVE  OInv'
  <1>0. IsOperand(l) /\ torn \in BOOLEAN
    BY DEF OInv
  <1>1. out' = NoOut /\ torn' = torn /\ out # NoOut
    BY DEF Keep
  <1>2. \/ ~out.threw /\ l' = [out.res EXCEPT !.ref = l.ref]
        \/ l' = l
    BY DEF Keep
  <1>3. ASSUME NEW x, IsOperand(x), NEW b \in BOOLEAN
        PROVE  LET r == [x EXCEPT !.ref = b] IN IsOperand(r) /\ r.a = x.a
    <2> DEFINE r == [x EXCEPT !.ref = b]
    <2>1. x \in [kind : Kinds, a : {x.a}, idx : Seq(Int), ref : BOOLEAN] /\ IsArray(x.a)
      BY <1>3 DEF IsOperand
    <2>2. r.a = x.a /\ r.kind = x.kind /\ r.idx = x.idx
      BY <2>1
    <2>3. r \in [kind : Kinds, a : {r.a}, idx : Seq(Int), ref : BOOLEAN]
      BY <2>1
    <2>4. Len(r.idx) = IF r.kind = "zts" THEN r.a.dim[1] ELSE 0
      BY <1>3, <2>2 DEF IsOperand
    <2> HIDE DEF r
    <2>5. IsOperand(r)
      BY <2>1, <2>2, <2>3, <2>4 DEF IsOperand
    <2> QED
      BY <2>2, <2>5 DEF r
  <1>4. IsOperand(l') /\ (l'.a = l.a \/ (~out.threw /\ l'.a = out.res.a))
    <2>1. CASE l' = l
      BY <1>0, <2>1
    <2>2. CASE ~out.threw /\ l' = [out.res EXCEPT !.ref = l.ref]
      <3>1. IsOperand(out.res)
        BY <1>1, <2>2 DEF OInv
      <3>2. l.ref \in BOOLEAN
        BY <1>0 DEF IsOperand
      <3> QED
        BY <1>3, <2>2, <3>1, <3>2
    <2> QED
      BY <1>2, <2>1, <2>2
  <1>5. ASSUME ~torn'
        PROVE  FlagsHold(l'.a) /\ FlagsHold(out'.res.a)
    <2>1. FlagsHold(l.a) /\ FlagsHold(out.res.a)
      BY <1>1, <1>5 DEF OInv, OperatorsAreRight, OrderFlagsHold
    <2>2. out'.res.a = Null
      BY <1>1 DEF NoOut, NoOperand, Operand
    <2> QED
      BY <1>4, <2>1, <2>2, NullIs
  <1>6. OrderFlagsHold'
    BY <1>5 DEF OrderFlagsHold
  <1>7. OperatorIsRight' /\ InplaceAgrees' /\ RefusalKeeps' /\ SumsCommute'
    BY <1>1, NotBinary
  <1> QED
    BY <1>0, <1>1, <1>4, <1>6, <1>7 DEF OInv, OperatorsAreRight

LEMMA FirstOInv == OInit => OInv
  <1> SUFFICES ASSUME OInit PROVE OInv
    OBVIOUS
  <1>1. l \in Lefts /\ rhs = NoOperand /\ out = NoOut /\ torn = FALSE
    BY DEF OInit
  <1>2. IsOperand(l) /\ FlagsHold(l.a)
    BY <1>1, OperatorsAssumption DEF OperatorsAssumption
  <1>3. out.res.a = Null
    BY <1>1 DEF NoOut, NoOperand, Operand
  <1>4. OrderFlagsHold
    BY <1>2, <1>3, NullIs DEF OrderFlagsHold
  <1>5. ~Binary
    BY <1>1 DEF Binary
  <1>6. OperatorIsRight /\ InplaceAgrees /\ RefusalKeeps /\ SumsCommute
    <2> HIDE DEF Binary
    <2> QED
      BY <1>5 DEF OperatorIsRight, InplaceAgrees, RefusalKeeps, SumsCommute
  <1> QED
    BY <1>1, <1>2, <1>4, <1>6 DEF OInv, OperatorsAreRight

LEMMA NextOInv ==
    ASSUME ElemAssumption, OInv, [ONext]_ovars
    PROVE  OInv'
  <1>1. CASE Binop
    BY <1>1, BinopKeeps
  <1>2. CASE Unop
    BY <1>2, UnopKeeps
  <1>3. CASE mathfunc
    BY <1>3, MathKeeps
  <1>4. CASE floor
    BY <1>4, FloorKeeps
  <1>5. CASE Keep
    BY <1>5, KeepKeeps
  <1>6. CASE UNCHANGED ovars
    <2>1. l' = l /\ rhs' = rhs /\ out' = out /\ torn' = torn
      BY <1>6 DEF ovars
    <2> QED
      BY <2>1 DEF OInv, OperatorsAreRight, OperatorIsRight, InplaceAgrees, OrderFlagsHold,
                  RefusalKeeps, SumsCommute, Binary
  <1> QED
    BY <1>1, <1>2, <1>3, <1>4, <1>5, <1>6 DEF ONext

\* After any operators in a row, in place or copied: what an operator combines, that it is
\* the same in place, that flags do not lie, that a refused one changes nothing and that
\* sums commute, for operands of every size and number, as long as the operator on two
\* elements gives a number and itself commutes where it should.
THEOREM OperatorsFound == ElemAssumption => (OSpec => []OperatorsAreRight)
  <1>1. ElemAssumption /\ OInv /\ [ONext]_ovars => OInv'
    BY NextOInv
  <1>2. OInv => OperatorsAreRight
    BY DEF OInv
  <1>3. ElemAssumption /\ OSpec => []OInv
    <2>1. SUFFICES ASSUME ElemAssumption
                   PROVE  OSpec => []OInv
      OBVIOUS
    <2>2. OInv /\ [ONext]_ovars => OInv'
      BY <2>1, <1>1
    <2> QED
      BY <2>2, FirstOInv, PTL DEF OSpec
  <1> QED
    BY <1>2, <1>3, PTL
=============================================================================
