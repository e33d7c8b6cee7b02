---------------------------- MODULE MCDepthSync ----------------------------
(* DepthSync on small instances: the .cfg files give the bounds. *)
EXTENDS DepthSync
=============================================================================
