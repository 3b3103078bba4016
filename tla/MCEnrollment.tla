---------------------------- MODULE MCEnrollment -----------------------------
(* Instances of Enrollment. *)
EXTENDS Enrollment

CONSTANTS n1, h1, h2, h3

\* One node that enrolls again and again from one address; the first and the
\* last handshake happen to draw the same device code.
OneNode == [h \in Handshake |-> n1]
OneSource == [h \in Handshake |-> 1]
TwoCodes == [h \in Handshake |-> IF h = h2 THEN 2 ELSE 1]

=============================================================================
