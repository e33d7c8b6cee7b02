----------------------------- MODULE MCItchFeed -----------------------------
(* ItchFeed on small instances: the values of its constants are in the configs. *)
EXTENDS ItchFeed
=============================================================================
