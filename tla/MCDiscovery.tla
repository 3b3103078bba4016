----------------------------- MODULE MCDiscovery -----------------------------
(* Instances of Discovery: two nodes, or a relay and its subnode. *)
EXTENDS Discovery

CONSTANTS a, b

OneSegment == [n \in Node |-> 1]
TwoSegments == [n \in Node |-> IF n = a THEN 1 ELSE 2]

NoUpstream == [n \in Node |-> NoNode]
SubnodeB == [n \in Node |-> IF n = b THEN a ELSE NoNode]

=============================================================================
