------------------------------ MODULE MCRouting ------------------------------
(* Instances of Routing: two segments, three relays, three subnodes. *)
EXTENDS Routing, TLC

CONSTANTS s1, r1, k1, q1, q2, t1, u1, v1, p1

InA == {s1, r1, k1}

Roles ==
    [n \in Node |-> CASE n \in {r1, q1, q2} -> "relay"
                      [] n \in {s1, u1, v1} -> "subnode"
                      [] OTHER -> "client"]

Segments == [n \in Node |-> IF n \in InA THEN "A" ELSE "B"]

Upstreams == s1 :> r1 @@ u1 :> q1 @@ v1 :> q2

Ranks == r1 :> 1 @@ q1 :> 2 @@ q2 :> 3

\* A client, a relay and a subnode as sources; a client, a relay and a subnode as
\* targets; within a segment and across.
Routes == {<<s1, t1>>, <<k1, t1>>, <<q2, t1>>, <<v1, u1>>, <<s1, q1>>}

ToSubnode == {<<k1, u1>>}

\* The publisher and a relay of the other segment may move to this one; the relay
\* leaves its subnode behind.
Moves == {<<t1, [seg |-> "A", up |-> NoNode]>>, <<q2, [seg |-> "A", up |-> NoNode]>>}

NoMoves == {}

\* The entries that may be missing or old: of the publisher, at the first relay and
\* at the client.
Doubts == {<<r1, t1>>, <<k1, t1>>}

NoDoubts == {}

=============================================================================
