----------------------------- MODULE MCInterpCtx -----------------------------
(***************************************************************************)
(* The contexts of an interpreter and a peer; or the timers of a program.  *)
(***************************************************************************)
EXTENDS InterpCtx, Timers

CONSTANTS local, remote

\* Requests also use a connection that a line opened.
Shared   == [c \in {local, remote} |-> {c, local}]

\* Programs that wait for what they asked, or do not need it.
Waiting  == {<<"set">>, <<"ask">>, <<"ask", "val">>, <<"odd">>}

-----------------------------------------------------------------------------
NoTimers == tmr = [t \in Timer |-> NoTimer] /\ batch = {} /\ loop = "off" /\ lost = FALSE
CtxOn == loop = "off"
MCInit == Init /\ (NoTimers \/ TimersInit)
MCNext == \/ CtxOn /\ Next /\ UNCHANGED tvars
          \/ ~CtxOn /\ TimersNext /\ UNCHANGED vars
\* FairSpec while there are contexts, TimersFair for the timers.
MCSpec == /\ MCInit /\ [][MCNext]_<<vars, tvars>>
          /\ WF_vars(CtxOn /\ Interpret) /\ WF_vars(CtxOn /\ AgeRsp) /\ WF_vars(CtxOn /\ Gc)
          /\ TimersFair
=============================================================================
