----------------------------- MODULE MCReconcile -----------------------------
(* ReconcileDriver over ReplayScheduler, on a small history. *)
EXTENDS Reconcile

\* Bybit (newest first, by the venue's token, in windows), and Hyperliquid
\* (oldest first, a full page means more, a short history).
MCLimits == { [pageRows |-> 1, newestFirst |-> TRUE,  counts |-> FALSE, window |-> 3, history |-> 0],
              [pageRows |-> 2, newestFirst |-> FALSE, counts |-> TRUE,  window |-> 0, history |-> 2] }
=============================================================================
