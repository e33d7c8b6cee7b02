------------------------------- MODULE MCOms -------------------------------
(***************************************************************************)
(* Oms on small instances: the values of its constants are in the configs. *)
(***************************************************************************)
EXTENDS Oms
=============================================================================
