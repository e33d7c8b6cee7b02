----------------------------- MODULE MCGateway -----------------------------
(* Gateway on five small instances. *)
EXTENDS Gateway

\* One strategy with two faults, with two fills (a resume point after the first), with two orders or
\* with a request of its own, and two strategies.
MCBounds == {[who |-> {"a"}, order |-> 1, fill |-> 1, request |-> 0, fault |-> 2],
             [who |-> {"a"}, order |-> 1, fill |-> 2, request |-> 0, fault |-> 1],
             [who |-> {"a"}, order |-> 2, fill |-> 1, request |-> 0, fault |-> 1],
             [who |-> {"a"}, order |-> 1, fill |-> 1, request |-> 1, fault |-> 1],
             [who |-> {"a", "b"}, order |-> 1, fill |-> 1, request |-> 0, fault |-> 1]}
=============================================================================
