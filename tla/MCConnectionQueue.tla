-------------------------- MODULE MCConnectionQueue --------------------------
(* Instances of ConnectionQueue: node a asks node tgt for connections. *)
EXTENDS ConnectionQueue

CONSTANTS a, tgt, k1, k2, r1, r2

TwoRequests == {r1, r2}
TwoSource == [r \in TwoRequests |-> a]
TwoTarget == [r \in TwoRequests |-> tgt]

\* Two logical requests, and two identifiers that compete for one key.
TwoKey == [r \in TwoRequests |-> IF r = r1 THEN k1 ELSE k2]
SameKey == [r \in TwoRequests |-> k1]

=============================================================================
