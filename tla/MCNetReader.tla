---------------------------- MODULE MCNetReader ----------------------------
(* Instances of NetReader for TLC. *)
EXTENDS NetReader, TLC

CONSTANTS first, second

Msg(n) == <<Magic, n + HeaderLen>> \o [k \in 1 .. n |-> 0]

\* The first peer sends a word that does not belong there between two of its
\* messages; the second one sends messages only.
Streams == first :> (Msg(1) \o Msg(2) \o <<0>> \o Msg(1)) @@ second :> (Msg(2) \o Msg(1))
=============================================================================
