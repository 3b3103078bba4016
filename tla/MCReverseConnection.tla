------------------------- MODULE MCReverseConnection -------------------------
(* Instances of ReverseConnection: one relay, one publisher. *)
EXTENDS ReverseConnection

CONSTANTS r1, r2

=============================================================================
