------------------------------- MODULE Timers -------------------------------
(***************************************************************************)
(* Timers (VTimer, InterpCtxTimer, MsgHandler::addTimer) and the part of   *)
(* the event loop that serves them.                                        *)
(*                                                                         *)
(* A timer is a variable of the program that owns a timerfd.  Its context, *)
(* in the table of the event loop, only has a weak pointer to it.  The     *)
(* loop takes a batch of events from epoll_wait and handles them one after *)
(* the other: lines from the keyboard, answers to futures the code of a    *)
(* timer waits for, and timers that have expired.  Handling one may create *)
(* or drop timers whose event comes later in the batch.  A timerfd that    *)
(* was stopped has nothing to read, and read() blocks.                     *)
(*                                                                         *)
(* What the code of a timer does is one of a few outcomes: it ends (or     *)
(* fails), it drops a timer, it waits for a future, or it quits.           *)
(***************************************************************************)
EXTENDS Naturals, FiniteSets

CONSTANTS Timer,   \* the timers a program may create
          LoopMaxs \* values of loop_max; 0 is no bound

ASSUME TimersAssumption == LoopMaxs \subseteq Nat

\* loop_n is counted up to here when there is no bound.
CountTo == 2

VARIABLES tmr,     \* the timers: see NoTimer
          batch,   \* events of epoll_wait that are still to be handled
          loop,    \* "wait" in epoll_wait, "handle", "stuck" in read() or in quit()
          lost     \* an event was handled whose timer is gone

tvars == <<tmr, batch, loop, lost>>

\* life: "none", "live" or "gone"; armed: the timerfd is set, `every`: with an interval;
\* due: it has expired; ctx: it is in timerContexts and in the epoll set; waits: an evaluation of it waits for a future.
NoTimer == [life |-> "none", armed |-> FALSE, every |-> FALSE, due |-> FALSE, ctx |-> FALSE, waits |-> FALSE,
            done_first |-> FALSE, loop_n |-> 0, loop_max |-> 0, zero |-> FALSE]

Live == {t \in Timer : tmr[t].life = "live"}
Line == <<"line", "">>
RspOf(t) == <<"rsp", t>>
Ready(t) == <<"timer", t>>

-----------------------------------------------------------------------------
\* Mutant: the interval is not set.
startOnce(m, t) == [m EXCEPT ![t].armed = ~m[t].zero, ![t].every = FALSE]

\* timerfd_settime: a duration of zero disarms.
start(m, t) == [m EXCEPT ![t].armed = ~m[t].zero, ![t].every = ~m[t].zero]

stop(m, t) == [m EXCEPT ![t].armed = FALSE, ![t].every = FALSE, ![t].due = FALSE]

\* Mutant: the destructor leaves the timer armed.
DestroyedOnly(m, t) == [m EXCEPT ![t].life = "gone"]

\* The destructor.
Destroyed(m, t) == [stop(m, t) EXCEPT ![t].life = "gone"]

\* Mutant: the bound is passed before the timer is stopped.
RanOutLate(r) == r.loop_max > 0 /\ r.loop_n > r.loop_max

RanOut(r) == r.loop_max > 0 /\ r.loop_n = r.loop_max

\* What interpretTimer counts before it evaluates: the first time it is `once`.
Begun(m, t) ==
  IF ~m[t].done_first THEN [m EXCEPT ![t].done_first = TRUE]
  ELSE [m EXCEPT ![t].loop_n = IF m[t].loop_max = 0 /\ @ = CountTo THEN @ ELSE @ + 1]

\* InterpCtxTimer::interpret: what the code leaves behind.
Evaluated(m, t) ==
  \/ tmr' = m /\ loop' = "handle"
  \/ \E u \in {v \in Timer : m[v].life = "live"} : tmr' = Destroyed(m, u) /\ loop' = "handle"
  \/ tmr' = [m EXCEPT ![t].waits = TRUE] /\ loop' = "handle"
  \* quit() throws again and again
  \/ tmr' = m /\ loop' = "stuck"

interpretTimer(m, t) ==
  IF m[t].life = "gone" THEN lost' = TRUE /\ tmr' = m /\ loop' = "handle"
  ELSE /\ UNCHANGED lost
       /\ IF RanOut(m[t]) THEN tmr' = stop(m, t) /\ loop' = "handle"
          ELSE Evaluated(Begun(m, t), t)

-----------------------------------------------------------------------------
TimersInit == /\ tmr = [t \in Timer |-> NoTimer] /\ batch = {} /\ loop = "wait" /\ lost = FALSE

\* The clock.
Expire(t) == /\ tmr[t].armed /\ ~tmr[t].due /\ loop # "stuck"
             /\ tmr' = [tmr EXCEPT ![t].due = TRUE, ![t].armed = tmr[t].every] /\ UNCHANGED <<batch, loop, lost>>

\* epoll_wait returns what is ready; there may be a line, and answers.
epollWait ==
  /\ loop = "wait"
  /\ \E L \in SUBSET {Line}, A \in SUBSET {RspOf(t) : t \in {u \in Timer : tmr[u].waits}} :
       batch' = L \cup A \cup {Ready(t) : t \in {u \in Timer : tmr[u].ctx /\ tmr[u].due}}
  /\ batch' # {}
  /\ loop' = "handle" /\ UNCHANGED <<tmr, lost>>
waitAgain == /\ loop = "handle" /\ batch = {} /\ loop' = "wait" /\ UNCHANGED <<tmr, batch, lost>>

Handles(e) == loop = "handle" /\ e \in batch /\ batch' = batch \ {e}

\* timer(): its `once` is evaluated before it is in the table.
make_timer ==
  /\ Handles(Line)
  /\ \E t \in Timer, n \in LoopMaxs, z \in BOOLEAN :
       /\ tmr[t].life = "none"
       /\ interpretTimer(start([tmr EXCEPT ![t] = [NoTimer EXCEPT !.life = "live", !.loop_max = n, !.zero = z,
                                                                 !.ctx = TRUE]], t), t)

\* rm() of the variable, or another value for it; or a line that has nothing to do with timers.
otherLine ==
  /\ Handles(Line) /\ (tmr' = tmr \/ \E t \in Live : tmr' = Destroyed(tmr, t))
  /\ UNCHANGED <<loop, lost>>

\* The event of a timer: read() of its timerfd, and its context.
timerEvent(t) ==
  /\ Handles(Ready(t))
  /\ IF tmr[t].due THEN interpretTimer([tmr EXCEPT ![t].due = FALSE], t)
     ELSE loop' = "stuck" /\ UNCHANGED <<tmr, lost>>

\* An answer: the evaluation that waited goes on.
rspEvent(t) ==
  /\ Handles(RspOf(t))
  /\ Evaluated([tmr EXCEPT ![t].waits = FALSE], t) /\ UNCHANGED lost

TimersNext ==
  \/ \E t \in Timer : Expire(t)
  \/ epollWait \/ waitAgain \/ make_timer \/ otherLine
  \/ \E t \in Timer : timerEvent(t)
  \/ \E t \in Timer : rspEvent(t)

\* Time passes, and the event loop goes on with what it was given.
TimersFair ==
  /\ \A t \in Timer : WF_tvars(Expire(t))
  /\ WF_tvars(epollWait \/ waitAgain \/ make_timer \/ otherLine)
  /\ \A t \in Timer : WF_tvars(timerEvent(t)) /\ WF_tvars(rspEvent(t))
TimersSpec == TimersInit /\ [][TimersNext]_tvars /\ TimersFair

-----------------------------------------------------------------------------
\* interpretTimer never finds that its timer is gone ("this should never happen"): the
\* context outlives the timer, but nothing is read from a timerfd that was stopped.
TimerIsThere == ~lost

\* The loop of a timer is evaluated loop_max times at most, whatever is evaluated while
\* an earlier evaluation waits for a future or drops other timers.
LoopIsBounded ==
  \A t \in Timer : tmr[t].loop_max > 0 => tmr[t].loop_n <= tmr[t].loop_max

\* A timer with a bound and a duration gets all its evaluations, unless it is dropped
\* or the event loop is stuck; and is silent from then on.
TimerRunsOut ==
  \A t \in Timer :
    (tmr[t].life = "live" /\ tmr[t].loop_max > 0 /\ ~tmr[t].zero)
      ~> (tmr[t].life = "gone" \/ loop = "stuck" \/ (tmr[t].loop_n = tmr[t].loop_max /\ ~tmr[t].armed))

\* The event loop serves a timer only while it is there and no more often than loop_max
\* says, whatever the events of one batch do to the timers of the others.
TimersAreSound == TimerIsThere /\ LoopIsBounded
=============================================================================
