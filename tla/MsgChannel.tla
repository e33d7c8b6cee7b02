----------------------------- MODULE MsgChannel -----------------------------
(***************************************************************************)
(* What a message ring promises its two threads: a first-in, first-out     *)
(* queue of messages that holds at most Cap granules.  A sender may be     *)
(* turned away earlier; nothing it sent is lost, changed or reordered.     *)
(***************************************************************************)
EXTENDS Integers, Sequences, SequencesExt

CONSTANTS
  Cap,          \* granules the ring holds
  Msgs          \* messages: sequences of words, one word per granule

VARIABLE queue

Size(q) == FoldLeft(LAMBDA n, m : n + Len(m), 0, q)

Init == queue = <<>>

Send(m) ==
  /\ Size(queue) + Len(m) <= Cap
  /\ queue' = Append(queue, m)

Take ==
  /\ queue # <<>>
  /\ queue' = Tail(queue)

Next == (\E m \in Msgs : Send(m)) \/ Take

Safety == Init /\ [][Next]_queue

\* The receiver keeps draining.
Spec == Safety /\ WF_queue(Take)

=============================================================================
