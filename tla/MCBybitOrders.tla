--------------------------- MODULE MCBybitOrders ---------------------------
(***************************************************************************)
(* Model values of BybitOrders for TLC: the executions are numbered in the *)
(* order the venue makes them.                                             *)
(***************************************************************************)
EXTENDS BybitOrders

=============================================================================
