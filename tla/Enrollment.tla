----------------------------- MODULE Enrollment ------------------------------
(***************************************************************************)
(* Enrollment and credentials: coordinator_enrollment.go, the enrollment   *)
(* part of cleanupLocked and updateNode, and on the nodes requestEnrollment *)
(* and pollEnrollment (coordinator_client.go) under runControlPlane.       *)
(*                                                                         *)
(* A node draws a key pair and asks for enrollment; an administrator       *)
(* approves or rejects the handshake by its device code; the node polls    *)
(* and, once approved, keeps the key as its credential; its first          *)
(* heartbeat completes the handshake.  Revocation removes the credential   *)
(* and every handshake of the node.                                        *)
(*                                                                         *)
(*   mem       Pending, Authorized and History of the registry             *)
(*   disk      the same in coordinator-state.json                          *)
(*   left      what is left of a handshake's ten minutes (ExpiresAt)       *)
(*   drawn     the handshakes made so far (random identifiers)             *)
(*   profile   Enrollment and Credential in each node's profile.json       *)
(*   worker    the control-plane goroutine of each node, with the profile  *)
(*             it has loaded                                               *)
(*   withdrawn ghost: keys that were replaced, or drawn before a revocation *)
(*   shown     ghost: the status listHandshakes last showed of a handshake *)
(*                                                                         *)
(* A handshake stands for its request identifier, secret and key pair,     *)
(* which are drawn together and never change.                              *)
(***************************************************************************)
EXTENDS Naturals, FiniteSets

CONSTANTS
    Node, Handshake,
    NodeOf,            \* Node.ID of each handshake
    SourceOf,          \* the address it came from
    CodeOf,            \* its device code
    None,              \* no handshake, no key
    Lifetime,          \* handshakeLifetime, in ticks
    MaxPending,        \* maxPendingHandshakes
    MaxPerSource,      \* maxPendingPerSource
    PersistMayFail,    \* whether writing coordinator-state.json may fail
    MayRestart,        \* whether the coordinator may stop and start again
    Followed           \* the handshakes whose shown status the ghost follows

ASSUME EnrollmentAssumption ==
    /\ IsFiniteSet(Handshake)
    /\ NodeOf \in [Handshake -> Node]
    /\ None \notin Handshake
    /\ Lifetime \in Nat \ {0}
    /\ MaxPending \in Nat /\ MaxPerSource \in Nat
    /\ {PersistMayFail, MayRestart} \subseteq BOOLEAN
    /\ Followed \subseteq Handshake

VARIABLES mem, disk, left, drawn, profile, worker, withdrawn, shown

vars == <<mem, disk, left, drawn, profile, worker, withdrawn, shown>>

-----------------------------------------------------------------------------
(* The registry *)

Pending(m) == {h \in Handshake : m.pending[h] # "none"}

HandshakesOf(n) == {h \in Handshake : NodeOf[h] = n}

Overdue(m) == {h \in Pending(m) : left[h] = 0}

\* Mutant: cleanup overwrites whatever outcome the history has.
CleanedAlways(m) ==
    [m EXCEPT
        !.pending = [h \in Handshake |-> IF h \in Overdue(m) THEN "none" ELSE @[h]],
        !.history = [h \in Handshake |-> IF h \in Overdue(m) THEN 410 ELSE @[h]]]

\* cleanupLocked on the handshakes: an expired one is dropped, and its history
\* becomes 410 unless it was rejected.
Cleaned(m) ==
    [m EXCEPT
        !.pending = [h \in Handshake |-> IF h \in Overdue(m) THEN "none" ELSE @[h]],
        !.history = [h \in Handshake |->
            IF h \in Overdue(m) /\ @[h] \in {100, 200} THEN 410 ELSE @[h]]]

\* Drop the handshakes hs with a final status.
Closed(m, hs, status) ==
    [m EXCEPT
        !.pending = [h \in Handshake |-> IF h \in hs THEN "none" ELSE @[h]],
        !.history = [h \in Handshake |-> IF h \in hs THEN status ELSE @[h]]]

Marked(m, h, state, status) ==
    [m EXCEPT !.pending = [@ EXCEPT ![h] = state], !.history = [@ EXCEPT ![h] = status]]

PersistOutcomes == IF PersistMayFail THEN BOOLEAN ELSE {TRUE}

\* Mutant: the state is written when the coordinator stops in good order only.
PersistedOnExit(m, ok) == disk

\* persistLocked
Persisted(m, ok) == IF ok THEN m ELSE disk

\* Unregistered: nothing enrolled, authorized or loaded.
Blank == [enroll |-> None, status |-> "none", cred |-> None]

IdleWorker == [pc |-> "idle", copy |-> Blank]

Init ==
    /\ mem = [pending |-> [h \in Handshake |-> "none"],
              authorized |-> [n \in Node |-> None],
              history |-> [h \in Handshake |-> 0]]
    /\ disk = mem
    /\ left = [h \in Handshake |-> 0]
    /\ drawn = {}
    /\ profile = [n \in Node |-> Blank]
    /\ worker = [n \in Node |-> IdleWorker]
    /\ withdrawn = {}
    /\ shown = [h \in Handshake |-> 0]

-----------------------------------------------------------------------------
(* requestEnrollment, on the coordinator and at the node *)

\* Mutant: approved handshakes are forgotten when capacity and codes are checked.
HasRoomUnapproved(m, h) ==
    LET open == {g \in Handshake : m.pending[g] = "pending"} IN
    /\ Cardinality(open) < MaxPending
    /\ Cardinality({g \in open : SourceOf[g] = SourceOf[h]}) < MaxPerSource
    /\ \A g \in open : CodeOf[g] # CodeOf[h]

\* The two capacities; the device code is drawn again until it is unused.
HasRoom(m, h) ==
    /\ Cardinality(Pending(m)) < MaxPending
    /\ Cardinality({g \in Pending(m) : SourceOf[g] = SourceOf[h]}) < MaxPerSource
    /\ \A g \in Pending(m) : CodeOf[g] # CodeOf[h]

\* What requestEnrollment saves at the node: the credential is gone and the
\* pending enrollment keeps the new key.
PendingProfile(h) == [enroll |-> h, status |-> "pending", cred |-> None]

\* The answer reaches the node, which replaces its credential by the pending
\* enrollment; or it is lost or an error, and the handshake is an orphan.
RequestEnrollment(h) ==
    LET n == NodeOf[h] IN
    \E ok \in PersistOutcomes, heard \in BOOLEAN :
        /\ h \notin drawn
        /\ HasRoom(Cleaned(mem), h)
        /\ mem' = Marked(Cleaned(mem), h, "pending", 100)
        /\ disk' = Persisted(mem', ok)
        /\ left' = [left EXCEPT ![h] = Lifetime]
        /\ drawn' = drawn \cup {h}
        /\ profile' = IF ok /\ heard
                      THEN [profile EXCEPT ![n] = PendingProfile(h)]
                      ELSE profile
        /\ UNCHANGED <<worker, withdrawn, shown>>

\* Refusals of requestEnrollment, approveHandshake and rejectHandshake, and a
\* repeated approval, leave the cleanup they ran unwritten.
CleanupUnwritten ==
    /\ Overdue(mem) # {}
    /\ mem' = Cleaned(mem)
    /\ UNCHANGED <<disk, left, drawn, profile, worker, withdrawn, shown>>

\* A failed write is ignored.
ListHandshakes ==
    \E ok \in PersistOutcomes :
        /\ mem' = Cleaned(mem)
        /\ disk' = Persisted(mem', ok)
        /\ shown' = [h \in Handshake |-> IF h \in Followed THEN mem'.history[h] ELSE 0]
        /\ UNCHANGED <<left, drawn, profile, worker, withdrawn>>

-----------------------------------------------------------------------------
(* The administrator *)

\* Mutant: a handshake that was approved before is installed again.
InstallableAgain(m, h) == m.pending[h] \in {"pending", "approved"}

\* A rejected handshake is refused; one that is approved already is confirmed
\* without being installed again.
Installable(m, h) == m.pending[h] = "pending"

\* The handshake is approved and its key installed.
Approved(m, h) ==
    [Marked(m, h, "approved", 200) EXCEPT !.authorized[NodeOf[h]] = h]

\* Another key of the same node is replaced only on request; whether the
\* administrator asks for it is open.
ApproveHandshake(h) ==
    LET n == NodeOf[h] IN
    \E ok \in PersistOutcomes :
        /\ Installable(Cleaned(mem), h)
        /\ mem' = Approved(Cleaned(mem), h)
        /\ disk' = Persisted(mem', ok)
        /\ withdrawn' = withdrawn \cup ({mem.authorized[n]} \ {None, h})
        /\ UNCHANGED <<left, drawn, profile, worker, shown>>

\* Approved handshakes are refused; a repeated rejection is stored again.
RejectHandshake(h) ==
    \E ok \in PersistOutcomes :
        /\ Cleaned(mem).pending[h] \in {"pending", "rejected"}
        /\ mem' = Marked(Cleaned(mem), h, "rejected", 403)
        /\ disk' = Persisted(mem', ok)
        /\ UNCHANGED <<left, drawn, profile, worker, withdrawn, shown>>

\* The credential and all handshakes of the node, without cleanup.
Revoked(m, n) ==
    [Closed(m, Pending(m) \cap HandshakesOf(n), 403) EXCEPT !.authorized[n] = None]

RevokeNode(n) ==
    \E ok \in PersistOutcomes :
        /\ mem.authorized[n] # None
        /\ mem' = Revoked(mem, n)
        /\ disk' = Persisted(mem', ok)
        /\ withdrawn' = withdrawn \cup (drawn \cap HandshakesOf(n))
        /\ UNCHANGED <<left, drawn, profile, worker, shown>>

-----------------------------------------------------------------------------
(* runControlPlane on the node *)

\* The profile is loaded; with a credential the workers start, without one the
\* coordinator is polled, and with neither the loop tries again.
LoadProfile(n) ==
    /\ worker[n].pc = "idle"
    /\ profile[n] # Blank
    /\ worker' = [worker EXCEPT ![n] =
          [pc |-> IF profile[n].cred # None THEN "running" ELSE "asking", copy |-> profile[n]]]
    /\ UNCHANGED <<mem, disk, left, drawn, profile, withdrawn, shown>>

\* The handler of pollEnrollment ignores a failed write.  An unknown or expired
\* handshake, like one that is still pending, sends the loop round again.
PollEnrollment(n) ==
    LET m == Cleaned(mem)
        state == m.pending[worker[n].copy.enroll]
    IN \E ok \in PersistOutcomes :
        /\ worker[n].pc = "asking"
        /\ mem' = m
        /\ disk' = Persisted(m, ok)
        /\ worker' = IF state \in {"approved", "rejected"}
                     THEN [worker EXCEPT ![n] = [@ EXCEPT !.pc = state]]
                     ELSE [worker EXCEPT ![n] = IdleWorker]
        /\ UNCHANGED <<left, drawn, profile, withdrawn, shown>>

\* Mutant: the loop ends when a call fails.
PollLostStops(n) ==
    /\ worker[n].pc = "asking"
    /\ worker' = [worker EXCEPT ![n] = [@ EXCEPT !.pc = "stopped"]]
    /\ UNCHANGED <<mem, disk, left, drawn, profile, withdrawn, shown>>

\* Request or answer are lost.
PollLost(n) ==
    /\ worker[n].pc = "asking"
    /\ worker' = [worker EXCEPT ![n] = IdleWorker]
    /\ UNCHANGED <<mem, disk, left, drawn, profile, withdrawn, shown>>

\* The whole profile loaded before the call is saved: what the command line has
\* written since, a new enrollment included, is lost.  When it cannot be saved, an
\* approved node runs with its credential in memory only.
SaveAnswer(n) ==
    LET loaded == worker[n].copy
        kept == [enroll |-> None, status |-> "none", cred |-> loaded.enroll]
        refused == [loaded EXCEPT !.status = "rejected"]
    IN  /\ \/ /\ worker[n].pc = "approved"
              /\ profile' \in {profile, [profile EXCEPT ![n] = kept]}
              /\ worker' = [worker EXCEPT ![n] = [pc |-> "running", copy |-> kept]]
           \/ /\ worker[n].pc = "rejected"
              /\ profile' \in {profile, [profile EXCEPT ![n] = refused]}
              /\ worker' = [worker EXCEPT ![n] = IdleWorker]
        /\ UNCHANGED <<mem, disk, left, drawn, withdrawn, shown>>

\* updateNode: a heartbeat signed with the authorized key completes the
\* approved handshakes of that key.
Heartbeat(n) ==
    LET key == worker[n].copy.cred IN
    \E ok \in PersistOutcomes :
        /\ worker[n].pc = "running"
        /\ key = mem.authorized[n]
        /\ mem' = Cleaned(Closed(mem, {h \in {key} : mem.pending[h] = "approved"}, 201))
        /\ disk' = Persisted(mem', ok)
        /\ UNCHANGED <<left, drawn, profile, worker, withdrawn, shown>>

\* The node is restarted: by its manager when the profile changed, or at all.
NodeRestart(n) ==
    /\ worker[n].pc # "idle"
    /\ worker' = [worker EXCEPT ![n] = IdleWorker]
    /\ UNCHANGED <<mem, disk, left, drawn, profile, withdrawn, shown>>

-----------------------------------------------------------------------------

Tick ==
    /\ left' = [h \in Handshake |-> IF left[h] = 0 THEN 0 ELSE left[h] - 1]
    /\ UNCHANGED <<mem, disk, drawn, profile, worker, withdrawn, shown>>

CoordinatorRestart ==
    /\ MayRestart
    /\ mem' = disk
    /\ UNCHANGED <<disk, left, drawn, profile, worker, withdrawn, shown>>

Next ==
    \/ Tick \/ CoordinatorRestart \/ CleanupUnwritten \/ ListHandshakes
    \/ \E h \in Handshake : RequestEnrollment(h) \/ ApproveHandshake(h) \/ RejectHandshake(h)
    \/ \E n \in Node :
          \/ RevokeNode(n)
          \/ LoadProfile(n) \/ PollEnrollment(n) \/ PollLost(n) \/ SaveAnswer(n)
          \/ Heartbeat(n) \/ NodeRestart(n)

Spec == Init /\ [][Next]_vars

\* The command line has saved an enrollment that the running process has not seen.
Reconfigured(n) == profile[n].enroll \notin {None, worker[n].copy.enroll, worker[n].copy.cred}

\* The node's loop runs on, and although calls are lost and the process is
\* restarted, a poll is answered and its answer saved again.  The manager
\* restarts a node whose profile has changed (service_supervisor.go).
PollingSpec ==
    /\ Spec
    /\ \A n \in Node :
          /\ SF_vars(LoadProfile(n)) /\ SF_vars(PollEnrollment(n)) /\ SF_vars(SaveAnswer(n))
          /\ WF_vars(Reconfigured(n) /\ NodeRestart(n))

-----------------------------------------------------------------------------
(* Properties *)

Profile == [enroll : Handshake \cup {None}, status : {"none", "pending", "rejected"},
            cred : Handshake \cup {None}]

Registry == [pending : [Handshake -> {"none", "pending", "approved", "rejected"}],
             authorized : [Node -> Handshake \cup {None}],
             history : [Handshake -> {0, 100, 200, 201, 403, 410}]]

\* The two capacities, and that a device code names at most one handshake.
Capacity(m) ==
    /\ Cardinality(Pending(m)) <= MaxPending
    /\ \A h \in Handshake :
          Cardinality({g \in Pending(m) : SourceOf[g] = SourceOf[h]}) <= MaxPerSource
    /\ \A h, g \in Pending(m) : CodeOf[h] = CodeOf[g] => h = g

\* Types, and what the handlers of coordinator_enrollment.go rely on: the
\* capacities hold and the administrator's device codes are unambiguous.
EnrollmentTypeOK ==
    /\ {mem, disk} \subseteq Registry
    /\ left \in [Handshake -> 0..Lifetime]
    /\ drawn \subseteq Handshake /\ withdrawn \subseteq drawn
    /\ profile \in [Node -> Profile]
    /\ worker \in [Node -> [pc : {"idle", "asking", "approved", "rejected", "running"},
                            copy : Profile]]
    /\ shown \in [Handshake -> {0, 100, 200, 201, 403, 410}]
    /\ Capacity(mem)

\* A key that was replaced, and every key drawn before a revocation of its
\* node, is never authorized again: not by approving an old handshake, with or
\* without replace, not by a poll under way, not by a restart.
NoResurrection == \A n \in Node : mem.authorized[n] \notin withdrawn

\* A node that keeps a key as its credential, in its profile or its running
\* process, was approved with it in coordinator-state.json, and the key is
\* authorized there unless it was withdrawn since: a restart of the coordinator
\* leaves no node with a credential it never gave.
CredentialBacked ==
    \A n \in Node : \A key \in {profile[n].cred, worker[n].copy.cred} \ {None} :
        disk.authorized[n] = key \/ key \in withdrawn

ForwardStatus(p, q) ==
    \/ p = q
    \/ p = 0
    \/ p = 100 /\ q # 0
    \/ p = 200 /\ q \in {201, 403, 410}

\* The status listHandshakes shows only moves on, from requested to approved to
\* completed, rejected or expired; a final one stays, also when a restart undoes
\* a cleanup or a revocation meets a handshake that has expired.
StatusForward ==
    [][\A h \in Handshake : ForwardStatus(shown[h], shown'[h])]_vars

\* A node whose enrollment is approved gets to use its key, in its profile or its
\* running process, unless the handshake ends first or the command line saves
\* another enrollment.  It may not if, when the enrollment was saved, the node
\* still worked on an older one: SaveAnswer of the old answer then overwrites the
\* new enrollment, and its approval reaches nobody.
ApprovedIsLearned ==
    \A h \in Handshake :
        LET n == NodeOf[h]
            asked == profile[n].enroll = h /\ worker[n].copy.enroll \in {h, None}
            learned == h \in {profile[n].cred, worker[n].copy.cred}
        IN  mem.pending[h] = "approved" /\ asked
                ~> learned \/ mem.pending[h] # "approved" \/ profile[n].enroll \notin {h, None}

=============================================================================
