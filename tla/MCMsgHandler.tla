---------------------------- MODULE MCMsgHandler ----------------------------
(* Instances of MsgHandler for TLC. *)
EXTENDS MsgHandler, TLC

Descriptors == Permutations(Fd)
=============================================================================
