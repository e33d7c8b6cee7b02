----------------------------- MODULE MCMsgRing -----------------------------
(***************************************************************************)
(* MsgRing on small instances: the values are in the configs.              *)
(***************************************************************************)
EXTENDS MsgRing
=============================================================================
