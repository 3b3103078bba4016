------------------------- MODULE ConnectionLifecycle -------------------------
(***************************************************************************)
(* What the coordinator promises about a connection request, whatever      *)
(* handlers race, whatever expires and however often it restarts: the      *)
(* request is created once, gets at most one final outcome, and every      *)
(* caller who hears a final outcome hears that one.                        *)
(*                                                                         *)
(* ConnectionQueue implements this specification (its refinement mapping   *)
(* is Lifecycle there); ReverseConnection uses it for the coordinator its  *)
(* nodes talk to.  Several requests may move in one step, because one      *)
(* cleanup expires and retires all that are due.                           *)
(***************************************************************************)
CONSTANT Request

VARIABLES
    phase,      \* what has become of each request
    heard       \* the final outcomes callers have heard of each request

Outcome == {"accepted", "rejected", "canceled", "expired"}

Phase == {"new", "live", "gone"} \cup Outcome

\* The only ways a request goes on.
Moves(p, q) ==
    \/ p = "new" /\ q = "live"
    \/ p = "live" /\ q \in Outcome
    \/ p \in Outcome /\ q = "gone"

Become(r, q) ==
    /\ Moves(phase[r], q)
    /\ phase' = [phase EXCEPT ![r] = q]

Hears(r, told) ==
    \/ told = heard[r]
    \/ phase'[r] \in Outcome /\ told = heard[r] \cup {phase'[r]}

LifecycleInit ==
    /\ phase = [r \in Request |-> "new"]
    /\ heard = [r \in Request |-> {}]

LifecycleNext ==
    /\ phase' \in [Request -> Phase]
    /\ heard' \in [Request -> SUBSET Outcome]
    /\ \A r \in Request :
          /\ phase'[r] = phase[r] \/ Moves(phase[r], phase'[r])
          /\ Hears(r, heard'[r])

LifecycleSpec == LifecycleInit /\ [][LifecycleNext]_<<phase, heard>>

=============================================================================
