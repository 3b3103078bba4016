------------------------------ MODULE Discovery ------------------------------
(***************************************************************************)
(* Registration and revision-based discovery: updateNode, discoverNodes,   *)
(* revokeNode and the node part of cleanupLocked on the coordinator, and   *)
(* the heartbeat and discovery workers and the sync command on the nodes.  *)
(*                                                                         *)
(* A node heartbeats its topology (here one value, shape, plus its direct  *)
(* candidates); the coordinator stores it, leases the candidates and       *)
(* increments the revision when peers have something to learn.  The        *)
(* heartbeat worker hands the revision of each reply to the discovery      *)
(* worker through a channel of capacity one; that worker fetches the peers *)
(* when the revision differs from the one it knows and rewrites peers.json.*)
(*                                                                         *)
(*   reg     coordinator memory: nodes, revision, authorized               *)
(*   disk    the same in coordinator-state.json                            *)
(*   shape   the topology each node's profile describes now                *)
(*   beat    whether the node has sent the heartbeat of this period        *)
(*   chan    the revisions channel of each node (NoRevision when empty)    *)
(*   work    the discovery worker: idle, asking or saving                  *)
(*   cli     a running sync command of the node, same steps                *)
(*   current the worker's revision (DiscoveryRevision in control-status)   *)
(*   peers   peers.json of each node                                       *)
(*   revoked ghost: the nodes whose revocation was answered with success   *)
(*                                                                         *)
(* Stored times are what is left until they pass: seen for LastSeen + 2    *)
(* minutes, lease for the candidates' ExpiresAt.  One tick is a heartbeat  *)
(* period of 30 seconds.                                                   *)
(***************************************************************************)
EXTENDS Integers, FiniteSets

CONSTANTS
    Node,
    Shape,           \* the topologies a node can report, numbers above 0
    Direct,          \* the ones in which a service has direct candidates
    SegmentOf,       \* the segment of each node
    Upstream,        \* the relay of a subnode, or NoNode
    NoNode,
    NoRevision,
    NodeTTL,         \* 2 minutes
    CandidateLease,  \* directCandidateLease, 90 seconds
    RenewBefore,     \* half of it, rounded down to whole periods
    MaxRevision,     \* bound: time and reconfiguration stop at this revision
    Punctual,        \* whether every heartbeat and fetch is done in its period
    MayRevoke,       \* whether an administrator may revoke a node
    MayCrash,        \* whether the coordinator may restart
    PersistMayFail,  \* whether writing coordinator-state.json may fail
    CliSync          \* the nodes on which the sync command may be run

ASSUME DiscoveryAssumption ==
    /\ IsFiniteSet(Node)
    /\ Shape \subseteq Nat \ {0} /\ Direct \subseteq Shape
    /\ SegmentOf \in [Node -> Int]
    /\ Upstream \in [Node -> Node \cup {NoNode}]
    /\ NoNode \notin Node
    /\ NoRevision \notin Nat
    /\ NodeTTL \in Nat \ {0} /\ CandidateLease \in Nat \ {0}
    /\ RenewBefore \in Nat /\ MaxRevision \in Nat
    /\ {Punctual, MayRevoke, MayCrash, PersistMayFail} \subseteq BOOLEAN
    /\ CliSync \subseteq Node

VARIABLES reg, disk, shape, beat, chan, work, cli, current, peers, revoked

vars == <<reg, disk, shape, beat, chan, work, cli, current, peers, revoked>>

clientVars == <<chan, work, cli, current, peers>>

-----------------------------------------------------------------------------
(* Registered nodes *)

\* An entry of r.state.Nodes; cand says whether candidates are listed.
Entry == [shape : Shape, cand : BOOLEAN, lease : 0..CandidateLease, seen : 0..NodeTTL]

NotListed == [shape |-> 0, cand |-> FALSE, lease |-> 0, seen |-> 0]

Listed(g, n) == g.nodes[n].shape # 0

\* Mutant: an off-by-one in the candidate lease.
RegisteredTooLong(s) ==
    [shape |-> s, cand |-> s \in Direct,
     lease |-> IF s \in Direct THEN CandidateLease + 1 ELSE 0, seen |-> NodeTTL]

\* The entry updateNode stores: managedDirectCandidates leases the candidates.
Registered(s) ==
    [shape |-> s, cand |-> s \in Direct,
     lease |-> IF s \in Direct THEN CandidateLease ELSE 0, seen |-> NodeTTL]

\* Mutant: candidates are left out of the comparison together with their expiry.
SameNodeShape(old, new) == old.shape = new.shape

\* sameNodeTopology compares without LastSeen and the candidates' expiry.
Topology(e) == [shape |-> e.shape, cand |-> e.cand]

SameNodeTopology(old, new) == Topology(old) = Topology(new)

\* directCandidateRenewalDue looks at the lease in the entry being replaced.
DirectCandidateRenewalDue(old) == old.cand /\ old.lease <= RenewBefore

-----------------------------------------------------------------------------
(* cleanupLocked on the nodes *)

Unseen(g) == {n \in Node : Listed(g, n) /\ g.nodes[n].seen = 0}

CandidatesExpired(g) ==
    {n \in Node : Listed(g, n) /\ g.nodes[n].seen # 0 /\ g.nodes[n].cand /\ g.nodes[n].lease = 0}

\* Every dropped node and every node that loses candidates counts a revision.
CleanedNodes(g) ==
    [g EXCEPT
        !.nodes = [n \in Node |->
            CASE n \in Unseen(g)            -> NotListed
              [] n \in CandidatesExpired(g) -> [g.nodes[n] EXCEPT !.cand = FALSE]
              [] OTHER                      -> g.nodes[n]],
        !.revision = @ + Cardinality(Unseen(g)) + Cardinality(CandidatesExpired(g))]

-----------------------------------------------------------------------------
(* updateNode *)

\* The registry after node n has reported topology s, before cleanup.
Updated(g, n, s) ==
    LET old == g.nodes[n]
        new == Registered(s)
        bump == ~Listed(g, n) \/ ~SameNodeTopology(old, new) \/ DirectCandidateRenewalDue(old)
    IN  [g EXCEPT !.nodes = [@ EXCEPT ![n] = new],
                  !.revision = IF bump THEN @ + 1 ELSE @]

\* Mutant: the signature of a revoked node is still accepted.
UpdateAcceptedUnchecked(g, n) == Upstream[n] # NoNode => Listed(g, Upstream[n])

\* A subnode is refused unless its relay is active.
UpdateAccepted(g, n) ==
    /\ n \in g.authorized
    /\ Upstream[n] # NoNode => Listed(g, Upstream[n])

\* What a node is shown: the other nodes, without candidates across segments.
NodesForDiscovery(g, n) ==
    [m \in Node |->
        IF m = n \/ ~Listed(g, m) THEN NotListed
        ELSE IF SegmentOf[m] = SegmentOf[n] THEN g.nodes[m]
        ELSE [g.nodes[m] EXCEPT !.cand = FALSE, !.lease = 0]]

IdleWorker == [pc |-> "idle", expected |-> 0, reply |-> [m \in Node |-> NotListed],
               revision |-> 0, changed |-> FALSE]

-----------------------------------------------------------------------------

Init ==
    /\ reg = [nodes |-> [n \in Node |-> NotListed], revision |-> 0, authorized |-> Node]
    /\ disk = reg
    /\ shape \in [Node -> Shape]
    /\ beat = [n \in Node |-> FALSE]
    /\ chan = [n \in Node |-> NoRevision]
    /\ work = [n \in Node |-> IdleWorker]
    /\ cli = [n \in Node |-> IdleWorker]
    /\ current = [n \in Node |-> 0]
    /\ peers = [n \in Node |-> [m \in Node |-> NotListed]]
    /\ revoked = {}

\* How a write of coordinator-state.json may end.
Outcomes == IF PersistMayFail THEN BOOLEAN ELSE {TRUE}

\* Mutant: the state is answered without being written.
PersistedNever(g, ok) == disk

\* persistLocked with its outcome: it replaces the file as a whole or leaves it.
\* Only a restart reads the file, so without one it is not followed.
Persisted(g, ok) == IF MayCrash /\ ok THEN g ELSE disk

\* The update, cleanup and write of one heartbeat request.  If the write fails
\* the memory keeps the update and the answer is an error.
ServeUpdate(n, ok) ==
    /\ UpdateAccepted(reg, n)
    /\ reg' = CleanedNodes(Updated(reg, n, shape[n]))
    /\ disk' = Persisted(reg', ok)
    /\ UNCHANGED revoked

\* The heartbeat worker: the revision of the reply replaces whatever the
\* channel holds.
Heartbeat(n) ==
    /\ ~beat[n]
    /\ ServeUpdate(n, TRUE)
    /\ chan' = [chan EXCEPT ![n] = reg'.revision]
    /\ beat' = [beat EXCEPT ![n] = Punctual]
    /\ UNCHANGED <<shape, work, cli, current, peers>>

\* The reply is lost with the connection, or it is the error of a failed write:
\* the worker waits for its next period.
HeartbeatLost(n) ==
    /\ \E ok \in Outcomes : (ok => ~Punctual) /\ ServeUpdate(n, ok)
    /\ UNCHANGED <<shape, beat, clientVars>>

\* The discovery worker takes a revision; the one it knows needs no fetch.
TakeRevision(n) ==
    /\ work[n].pc = "idle"
    /\ chan[n] # NoRevision
    /\ chan' = [chan EXCEPT ![n] = NoRevision]
    /\ work' = IF chan[n] = current[n] THEN work
               ELSE [work EXCEPT ![n] = [IdleWorker EXCEPT !.pc = "asking", !.expected = chan[n]]]
    /\ UNCHANGED <<reg, disk, revoked, shape, beat, cli, current, peers>>

\* discoverNodes for a caller that knows revision after: cleanup, then the
\* nodes unless the revision is the same.  Nothing is written to the file.
DiscoverReply(g, n, expected, after) ==
    IF n \in g.authorized /\ Listed(g, n)
    THEN [pc |-> "saving", expected |-> expected,
          reply |-> NodesForDiscovery(g, n), revision |-> g.revision,
          changed |-> after # g.revision]
    ELSE IdleWorker

WorkerFetch(n) ==
    /\ work[n].pc = "asking"
    /\ reg' = CleanedNodes(reg)
    /\ work' = [work EXCEPT ![n] = DiscoverReply(reg', n, @.expected, current[n])]
    /\ UNCHANGED <<disk, revoked, shape, beat, chan, cli, current, peers>>

\* Mutant: an off-by-one in the comparison of revisions.
AcceptableLater(w) == w.pc = "saving" /\ w.revision > w.expected

\* A reply that is behind the heartbeat's revision is an error.
Acceptable(w) == w.pc = "saving" /\ w.revision >= w.expected

\* peers.json after fetchDiscovery has handled the reply that w holds.
SavedPeers(n, w) ==
    IF Acceptable(w) /\ w.changed THEN [peers EXCEPT ![n] = w.reply] ELSE peers

\* The peers are saved and then the revision that the heartbeat named becomes
\* current, in memory and in control-status.json.
WorkerSave(n) ==
    /\ work[n].pc = "saving"
    /\ work' = [work EXCEPT ![n] = IdleWorker]
    /\ peers' = SavedPeers(n, work[n])
    /\ current' = IF Acceptable(work[n])
                  THEN [current EXCEPT ![n] = work[n].expected] ELSE current
    /\ UNCHANGED <<reg, disk, revoked, shape, beat, chan, cli>>

\* The node's process stops and starts: the channel and a running fetch are
\* gone, the known revision is read from control-status.json.  It may stop
\* between the writes of peers.json and control-status.json.
NodeRestart(n) ==
    /\ ~Punctual
    /\ chan' = [chan EXCEPT ![n] = NoRevision]
    /\ work' = [work EXCEPT ![n] = IdleWorker]
    /\ peers' \in {peers, SavedPeers(n, work[n])}
    /\ UNCHANGED <<reg, disk, revoked, shape, beat, cli, current>>

-----------------------------------------------------------------------------
(* The sync command runs in a process of its own: it heartbeats, fetches   *)
(* everything and rewrites peers.json, but not control-status.json.        *)

SyncHeartbeat(n) ==
    /\ n \in CliSync
    /\ cli[n].pc = "idle"
    /\ \E ok \in Outcomes :
          /\ ServeUpdate(n, ok)
          /\ cli' = IF ok
                    THEN [cli EXCEPT ![n] = [IdleWorker EXCEPT !.pc = "asking", !.expected = reg'.revision]]
                    ELSE cli
    /\ UNCHANGED <<shape, beat, chan, work, current, peers>>

SyncFetch(n) ==
    /\ cli[n].pc = "asking"
    /\ reg' = CleanedNodes(reg)
    /\ cli' = [cli EXCEPT ![n] = DiscoverReply(reg', n, @.expected, 0)]
    /\ UNCHANGED <<disk, revoked, shape, beat, chan, work, current, peers>>

SyncSave(n) ==
    /\ cli[n].pc = "saving"
    /\ cli' = [cli EXCEPT ![n] = IdleWorker]
    /\ peers' = SavedPeers(n, cli[n])
    /\ UNCHANGED <<reg, disk, revoked, shape, beat, chan, work, current>>

-----------------------------------------------------------------------------
(* The environment *)

\* The node's interfaces change, or its profile and the process with it: the
\* next heartbeat reports another topology.
TopologyChanges(n) ==
    /\ reg.revision < MaxRevision
    /\ \E s \in Shape \ {shape[n]} : shape' = [shape EXCEPT ![n] = s]
    /\ UNCHANGED <<reg, disk, revoked, beat, clientVars>>

Less(x) == IF x = 0 THEN 0 ELSE x - 1

AgedEntries(f) == [m \in Node |-> [f[m] EXCEPT !.lease = Less(@), !.seen = Less(@)]]

\* A period passes.  A punctual system has sent every heartbeat of the period
\* and has fetched what the heartbeats announced.
Tick ==
    /\ reg.revision < MaxRevision
    /\ Punctual => \A n \in Node : beat[n] /\ chan[n] = NoRevision /\ work[n].pc = "idle"
    /\ reg' = [reg EXCEPT !.nodes = AgedEntries(@)]
    /\ disk' = [disk EXCEPT !.nodes = AgedEntries(@)]
    /\ peers' = [n \in Node |-> AgedEntries(peers[n])]
    /\ work' = [n \in Node |-> [work[n] EXCEPT !.reply = AgedEntries(@)]]
    /\ cli' = [n \in Node |-> [cli[n] EXCEPT !.reply = AgedEntries(@)]]
    /\ beat' = [n \in Node |-> FALSE]
    /\ UNCHANGED <<revoked, shape, chan, current>>

\* revokeNode: the credential and the registration are removed and written.  If
\* the write fails they are gone from the memory only and the answer is an error;
\* a second try finds no credential and writes nothing.
RevokeNode(n) ==
    /\ MayRevoke
    /\ n \in reg.authorized
    /\ reg' = [reg EXCEPT !.authorized = @ \ {n}, !.nodes = [@ EXCEPT ![n] = NotListed]]
    /\ \E ok \in Outcomes :
          /\ disk' = Persisted(reg', ok)
          /\ revoked' = IF ok THEN revoked \cup {n} ELSE revoked
    /\ UNCHANGED <<shape, beat, clientVars>>

\* Every other handler runs cleanup as well: the ones of the connection queue
\* write what changed, if the write succeeds, a refused approval does not.
OtherHandler ==
    /\ CleanedNodes(reg) # reg
    /\ reg' = CleanedNodes(reg)
    /\ disk' \in {Persisted(reg', TRUE), disk}
    /\ UNCHANGED <<revoked, shape, beat, clientVars>>

\* The coordinator stops and loads its file again.
CoordinatorRestart ==
    /\ MayCrash
    /\ reg' = disk
    /\ UNCHANGED <<disk, revoked, shape, beat, clientVars>>

Next ==
    \/ Tick
    \/ OtherHandler
    \/ CoordinatorRestart
    \/ \E n \in Node :
          \/ Heartbeat(n) \/ HeartbeatLost(n) \/ TakeRevision(n) \/ WorkerFetch(n) \/ WorkerSave(n)
          \/ NodeRestart(n)
          \/ SyncHeartbeat(n) \/ SyncFetch(n) \/ SyncSave(n)
          \/ TopologyChanges(n) \/ RevokeNode(n)

Spec == Init /\ [][Next]_vars

\* The workers of a node keep heartbeating and fetching, and however often
\* replies are lost and the process restarts, a reply gets through again.
WorkersSpec ==
    /\ Spec
    /\ \A n \in Node : /\ WF_vars(Heartbeat(n)) /\ SF_vars(TakeRevision(n))
                       /\ SF_vars(WorkerFetch(n)) /\ SF_vars(WorkerSave(n))

-----------------------------------------------------------------------------
(* Properties *)

View == [Node -> Entry \cup {NotListed}]

Stored == [nodes : View, revision : Nat, authorized : SUBSET Node]

Worker == [pc : {"idle", "asking", "saving"}, expected : Nat, reply : View,
           revision : Nat, changed : BOOLEAN]

\* The type of the registry, its file, the workers and their files.
DiscoveryTypeOK ==
    /\ reg \in Stored /\ disk \in Stored
    /\ shape \in [Node -> Shape]
    /\ beat \in [Node -> BOOLEAN]
    /\ chan \in [Node -> Nat \cup {NoRevision}]
    /\ work \in [Node -> Worker] /\ cli \in [Node -> Worker]
    /\ current \in [Node -> Nat]
    /\ peers \in [Node -> View]
    /\ revoked \subseteq Node

TopologyOf(view) == [m \in Node |-> Topology(view[m])]

\* A discovery worker that knows the coordinator's revision, so that it will
\* not fetch again, has the coordinator's topology in peers.json: a change of
\* what a node is shown never goes without a new revision.
PeersCurrent ==
    LET g == CleanedNodes(reg) IN
    \A n \in Node :
        n \in g.authorized /\ Listed(g, n) /\ current[n] = g.revision
            => TopologyOf(peers[n]) = TopologyOf(NodesForDiscovery(g, n))

\* While a publisher is registered and its candidate lease runs at the
\* coordinator, a peer that cached a candidate of it has an unexpired one.
CandidateFresh ==
    \A n, m \in Node :
        peers[n][m].cand /\ reg.nodes[m].cand /\ reg.nodes[m].lease > 0
            => peers[n][m].lease > 0

\* The file is never behind a revision that a heartbeat's reply has named, so
\* fetchDiscovery never reports "revision moved backwards", not even when the
\* coordinator restarts between the heartbeat and the fetch: updateNode writes
\* the state before it answers.
NeverBackwards ==
    \A n \in Node : \A w \in {work[n], cli[n]} : w.pc = "saving" => Acceptable(w)

\* A revoked node is never registered again, by a heartbeat that was on its way
\* or by a restart of the coordinator.
RevokedStaysOut ==
    \A n \in Node : n \notin reg.authorized => ~Listed(reg, n)

\* A revocation that revokeNode answered with success is final: nothing but a new
\* enrollment, which is in Enrollment, authorizes the node again, not even a
\* restart that reads the file of an earlier moment or a file that later handlers
\* failed to write (revokeNode writes before it answers).
RevocationFinal == \A n \in revoked : n \notin reg.authorized

Agrees(n) == TopologyOf(peers[n]) = TopologyOf(NodesForDiscovery(reg, n))

\* If the revision stops changing, every node's peers.json comes to agree with
\* the coordinator for good, whatever replies were lost, channel entries
\* replaced and processes restarted on the way.
PeersConverge ==
    <>[][reg'.revision = reg.revision]_vars => <>[](\A n \in Node : Agrees(n))

=============================================================================
