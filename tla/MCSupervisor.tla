---------------------------- MODULE MCSupervisor ----------------------------
(* Instances of Supervisor: one manager, one coordinator and one client. *)
EXTENDS Supervisor

CONSTANTS c, n

=============================================================================
