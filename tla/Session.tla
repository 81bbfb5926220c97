------------------------------ MODULE Session ------------------------------
(***************************************************************************)
(* What the communication layer and the event loop promise together about  *)
(* an incoming connection: its interpretation context is created at most   *)
(* once, not before the connection exists; it is given up only when the    *)
(* connection is gone, and is then never created again.                    *)
(***************************************************************************)
EXTENDS Naturals

CONSTANT Conn      \* the connections

VARIABLES
    link,          \* connection -> "new", "up" or "down"
    ctx            \* connection -> "none", "live" or "gone"

sessionVars == <<link, ctx>>

SessionInit ==
    /\ link = [c \in Conn |-> "new"]
    /\ ctx = [c \in Conn |-> "none"]

LinkUp(c) ==
    /\ link[c] = "new"
    /\ link' = [link EXCEPT ![c] = "up"]
    /\ UNCHANGED ctx

LinkDown(c) ==
    /\ link[c] = "up"
    /\ link' = [link EXCEPT ![c] = "down"]
    /\ UNCHANGED ctx

CreateContext(c) ==
    /\ link[c] # "new" /\ ctx[c] = "none"
    /\ ctx' = [ctx EXCEPT ![c] = "live"]
    /\ UNCHANGED link

\* Also when there is no context to give up: its creation may have been lost.
PurgeContext(c) ==
    /\ link[c] = "down" /\ ctx[c] # "gone"
    /\ ctx' = [ctx EXCEPT ![c] = "gone"]
    /\ UNCHANGED link

SessionNext ==
    \E c \in Conn : LinkUp(c) \/ LinkDown(c) \/ CreateContext(c) \/ PurgeContext(c)

SessionSpec == SessionInit /\ [][SessionNext]_sessionVars
=============================================================================
