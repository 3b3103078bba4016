--------------------------- MODULE Discovery_proofs ---------------------------
(* Proofs about Discovery, for every finite set of nodes, every set of       *)
(* topologies and every lease and expiry time.                               *)
EXTENDS Discovery, FiniteSetTheorems, TLAPS

-----------------------------------------------------------------------------
(* The inductive invariants *)

\* Only an authorized node is registered.
OnlyAuthorized(g) == \A n \in Node : Listed(g, n) => n \in g.authorized

\* The memory g is never behind the file d when the file may be read again.
RegistryOK(g, d) ==
    /\ g \in Stored /\ d \in Stored
    /\ OnlyAuthorized(g) /\ OnlyAuthorized(d)
    /\ MayCrash => d.revision <= g.revision

\* The nodes of v have no credential in the memory g, and none in the file d when
\* it may be read again.
GoneOK(g, d, v) ==
    /\ \A n \in v : n \notin g.authorized
    /\ MayCrash => \A n \in v : n \notin d.authorized

\* The revision below which a fetch cannot fall: the one of the file if the
\* coordinator may restart, else the one of the memory.
Floor(g, d) == IF MayCrash THEN d.revision ELSE g.revision

\* A heartbeat's reply in the channel names no revision above f.
ChanOK(c, f) == c # NoRevision => c <= f

\* A worker was told no revision above f, and the reply it is about to save is
\* not behind the one it was told.
WorkerOK(w, f) ==
    /\ w.expected <= f
    /\ w.pc = "saving" => w.expected <= w.revision

\* Every revision that a node was told is one that no restart can undo.
ToldOK(f) ==
    \A n \in Node : ChanOK(chan[n], f) /\ WorkerOK(work[n], f) /\ WorkerOK(cli[n], f)

\* The strengthening of NeverBackwards, RevokedStaysOut and RevocationFinal.
DiscoveryInv ==
    /\ DiscoveryTypeOK
    /\ RegistryOK(reg, disk)
    /\ GoneOK(reg, disk, revoked)
    /\ ToldOK(Floor(reg, disk))

\* The registry moves from g to h: never back, and never to another topology
\* without a new revision.
Moves(g, h) ==
    /\ g.revision <= h.revision
    /\ h.revision = g.revision =>
          \A m \in Node : Topology(h.nodes[m]) = Topology(g.nodes[m])

\* A view that node n took at revision v of the registry g, or before.
UpToDate(g, n, v, view) ==
    /\ v <= g.revision
    /\ v = g.revision => TopologyOf(view) = TopologyOf(NodesForDiscovery(g, n))

\* peers.json is what the known revision stands for, and so is the reply that a
\* worker holds; a reply without nodes is one at the known revision.
PeerOK(n) ==
    /\ UpToDate(reg, n, current[n], peers[n])
    /\ work[n].pc = "saving" =>
          /\ UpToDate(reg, n, work[n].revision, work[n].reply)
          /\ current[n] <= work[n].revision
          /\ ~work[n].changed => work[n].revision = current[n]

\* Nothing but updates and cleanup changes the registry, and nothing but the
\* worker writes peers.json.
Undisturbed == ~MayRevoke /\ ~MayCrash /\ CliSync = {}

\* The strengthening of PeersCurrent.
PeersInv == \A n \in Node : PeerOK(n) /\ cli[n].pc = "idle"

-----------------------------------------------------------------------------
(* The operators of the registry *)

\* Fields of the registries and entries that the operators build.
LEMMA StoredRecord ==
    ASSUME NEW g \in Stored, NEW nodes, NEW revision
    PROVE  [g EXCEPT !.nodes = nodes, !.revision = revision]
               = [nodes |-> nodes, revision |-> revision, authorized |-> g.authorized]
<1>1. PICK r : r = [g EXCEPT !.nodes = nodes, !.revision = revision]
  OBVIOUS
<1>2. r = [nodes |-> nodes, revision |-> revision, authorized |-> g.authorized]
  BY <1>1 DEF Stored
<1>3. QED
  BY <1>1, <1>2

\* An entry without its candidates is an entry of the same topology otherwise.
LEMMA EntryWithoutCandidates ==
    ASSUME NEW e \in Entry
    PROVE  /\ [e EXCEPT !.cand = FALSE] \in Entry
           /\ [e EXCEPT !.cand = FALSE].shape = e.shape
<1>1. PICK r : r = [e EXCEPT !.cand = FALSE]
  OBVIOUS
<1>2. r = [shape |-> e.shape, cand |-> FALSE, lease |-> e.lease, seen |-> e.seen]
  BY <1>1 DEF Entry
<1>3. r \in Entry /\ r.shape = e.shape
  BY <1>2 DEF Entry
<1>4. QED
  BY <1>1, <1>3

\* The same for an entry shown across segments.
LEMMA EntryShownFar ==
    ASSUME NEW e \in Entry
    PROVE  /\ [e EXCEPT !.cand = FALSE, !.lease = 0] \in Entry
           /\ [e EXCEPT !.cand = FALSE, !.lease = 0].shape = e.shape
           /\ [e EXCEPT !.cand = FALSE, !.lease = 0].cand = FALSE
<1>1. PICK r : r = [e EXCEPT !.cand = FALSE, !.lease = 0]
  OBVIOUS
<1>2. r = [shape |-> e.shape, cand |-> FALSE, lease |-> 0, seen |-> e.seen]
  BY <1>1 DEF Entry
<1>3. 0 \in 0..CandidateLease
  BY DiscoveryAssumption
<1>4. r \in Entry /\ r.shape = e.shape /\ r.cand = FALSE
  BY <1>2, <1>3 DEF Entry
<1>5. QED
  BY <1>1, <1>4

\* What is not listed is not listed; what is listed has an entry.
LEMMA ListedIsEntry ==
    ASSUME NEW view \in View, NEW n \in Node
    PROVE  view[n].shape # 0 <=> view[n] \in Entry
BY DiscoveryAssumption DEF View, Entry, NotListed

\* A registration is an entry.
LEMMA RegisteredIsEntry ==
    ASSUME NEW s \in Shape
    PROVE  Registered(s) \in Entry
<1>1. /\ CandidateLease \in 0..CandidateLease /\ 0 \in 0..CandidateLease
      /\ NodeTTL \in 0..NodeTTL
  BY DiscoveryAssumption
<1>2. (s \in Direct) \in BOOLEAN
  OBVIOUS
<1>3. QED
  BY <1>1, <1>2 DEF Registered, Entry

\* Time leaves an entry an entry of the same topology.
LEMMA AgedFacts ==
    ASSUME NEW view \in View
    PROVE  /\ AgedEntries(view) \in View
           /\ \A m \in Node : Topology(AgedEntries(view)[m]) = Topology(view[m])
<1>1. ASSUME NEW m \in Node
      PROVE  /\ AgedEntries(view)[m] \in Entry \cup {NotListed}
             /\ Topology(AgedEntries(view)[m]) = Topology(view[m])
  <2>1. PICK e : e = view[m]
    OBVIOUS
  <2>2. PICK r : r = [e EXCEPT !.lease = Less(@), !.seen = Less(@)]
    OBVIOUS
  <2>3. AgedEntries(view)[m] = r
    BY <2>1, <2>2 DEF AgedEntries
  <2>4. e \in Entry \cup {NotListed}
    BY <2>1 DEF View
  <2>5. r = [shape |-> e.shape, cand |-> e.cand, lease |-> Less(e.lease), seen |-> Less(e.seen)]
    BY <2>2, <2>4 DEF Entry, NotListed
  <2>6. /\ e.lease \in 0..CandidateLease => Less(e.lease) \in 0..CandidateLease
        /\ e.seen \in 0..NodeTTL => Less(e.seen) \in 0..NodeTTL
        /\ Less(0) = 0
    BY DiscoveryAssumption DEF Less
  <2>7. r \in Entry \cup {NotListed}
    <3>1. CASE e \in Entry
      BY <2>5, <2>6, <3>1 DEF Entry
    <3>2. CASE e = NotListed
      BY <2>5, <2>6, <3>2 DEF NotListed
    <3>3. QED
      BY <2>4, <3>1, <3>2
  <2>8. Topology(r) = Topology(e)
    BY <2>5 DEF Topology
  <2>9. QED
    BY <2>1, <2>3, <2>7, <2>8
<1>2. QED
  BY <1>1 DEF AgedEntries, View

\* Cleanup keeps the credentials, registers nobody and never goes back; without
\* a new revision it has changed nothing.
LEMMA CleanedFacts ==
    ASSUME NEW g \in Stored
    PROVE  /\ CleanedNodes(g) \in Stored
           /\ CleanedNodes(g).authorized = g.authorized
           /\ g.revision <= CleanedNodes(g).revision
           /\ \A n \in Node : Listed(CleanedNodes(g), n) => Listed(g, n)
           /\ CleanedNodes(g).revision = g.revision => CleanedNodes(g).nodes = g.nodes
<1> DEFINE nodes == [n \in Node |->
            CASE n \in Unseen(g)            -> NotListed
              [] n \in CandidatesExpired(g) -> [g.nodes[n] EXCEPT !.cand = FALSE]
              [] OTHER                      -> g.nodes[n]]
           counted == Cardinality(Unseen(g)) + Cardinality(CandidatesExpired(g))
<1>1. /\ Unseen(g) \in SUBSET Node /\ IsFiniteSet(Unseen(g))
      /\ CandidatesExpired(g) \in SUBSET Node /\ IsFiniteSet(CandidatesExpired(g))
  <2>1. Unseen(g) \in SUBSET Node /\ CandidatesExpired(g) \in SUBSET Node
    BY DEF Unseen, CandidatesExpired
  <2>2. IsFiniteSet(Node)
    BY DiscoveryAssumption
  <2>3. QED
    BY <2>1, <2>2, FS_Subset
<1>2. Cardinality(Unseen(g)) \in Nat /\ Cardinality(CandidatesExpired(g)) \in Nat
  BY <1>1, FS_CardinalityType
<1>3. g.nodes \in View /\ g.revision \in Nat /\ g.authorized \in SUBSET Node
  BY DEF Stored
<1>4. ASSUME NEW n \in Node
      PROVE  /\ nodes[n] \in Entry \cup {NotListed}
             /\ nodes[n].shape # 0 => g.nodes[n].shape # 0
  <2>1. CASE n \in Unseen(g)
    <3>1. n \notin CandidatesExpired(g)
      BY <2>1 DEF Unseen, CandidatesExpired
    <3>2. nodes[n] = NotListed
      BY <2>1, <3>1
    <3>3. NotListed.shape = 0
      BY DEF NotListed
    <3>4. QED
      BY <3>2, <3>3
  <2>2. CASE n \notin Unseen(g) /\ n \in CandidatesExpired(g)
    <3>1. g.nodes[n] \in Entry
      BY <1>3, <2>2, ListedIsEntry DEF CandidatesExpired, Listed
    <3>2. nodes[n] = [g.nodes[n] EXCEPT !.cand = FALSE]
      BY <2>2
    <3>3. QED
      BY <3>1, <3>2, EntryWithoutCandidates
  <2>3. CASE n \notin Unseen(g) /\ n \notin CandidatesExpired(g)
    BY <1>3, <2>3 DEF View
  <2>4. QED
    BY <2>1, <2>2, <2>3
<1>5. nodes \in View
  BY <1>4 DEF View
<1>6. CleanedNodes(g) = [nodes |-> nodes, revision |-> g.revision + counted,
                         authorized |-> g.authorized]
  <2>1. CleanedNodes(g) = [g EXCEPT !.nodes = nodes,
              !.revision = @ + Cardinality(Unseen(g)) + Cardinality(CandidatesExpired(g))]
    BY DEF CleanedNodes
  <2>2. PICK r : r = g.revision + Cardinality(Unseen(g)) + Cardinality(CandidatesExpired(g))
    OBVIOUS
  <2>3. r = g.revision + counted
    BY <1>2, <1>3, <2>2
  <2>4. CleanedNodes(g) = [g EXCEPT !.nodes = nodes, !.revision = r]
    BY <2>1, <2>2
  <2>5. QED
    BY <2>3, <2>4, StoredRecord
<1>7. ASSUME counted = 0
      PROVE  nodes = g.nodes
  <2>1. Unseen(g) = {} /\ CandidatesExpired(g) = {}
    BY <1>1, <1>2, <1>7, FS_EmptySet
  <2>2. \A n \in Node : nodes[n] = g.nodes[n]
    BY <2>1
  <2>3. QED
    BY <1>3, <2>2 DEF View
<1>8. counted \in Nat
  BY <1>2
<1> HIDE DEF nodes, counted
<1>9. /\ CleanedNodes(g).nodes = nodes
      /\ CleanedNodes(g).revision = g.revision + counted
      /\ CleanedNodes(g).authorized = g.authorized
  BY <1>6
<1>10. CleanedNodes(g) \in Stored
  <2>1. g.revision + counted \in Nat
    BY <1>3, <1>8
  <2>2. QED
    BY <1>3, <1>5, <1>6, <2>1 DEF Stored
<1>11. /\ g.revision <= g.revision + counted
       /\ g.revision + counted = g.revision => counted = 0
  BY <1>3, <1>8
<1>12. QED
  BY <1>4, <1>7, <1>9, <1>10, <1>11 DEF Listed

\* A report registers its node only, never goes back, and changes the topology
\* of the registry only with a new revision.
LEMMA UpdatedFacts ==
    ASSUME NEW g \in Stored, NEW n \in Node, NEW s \in Shape
    PROVE  /\ Updated(g, n, s) \in Stored
           /\ Updated(g, n, s).authorized = g.authorized
           /\ g.revision <= Updated(g, n, s).revision
           /\ \A m \in Node \ {n} : Updated(g, n, s).nodes[m] = g.nodes[m]
           /\ Updated(g, n, s).revision = g.revision =>
                 \A m \in Node : Topology(Updated(g, n, s).nodes[m]) = Topology(g.nodes[m])
<1> DEFINE nodes == [g.nodes EXCEPT ![n] = Registered(s)]
           bump == \/ ~Listed(g, n)
                   \/ ~SameNodeTopology(g.nodes[n], Registered(s))
                   \/ DirectCandidateRenewalDue(g.nodes[n])
           revision == IF bump THEN g.revision + 1 ELSE g.revision
<1>1. g.nodes \in View /\ g.revision \in Nat /\ g.authorized \in SUBSET Node
  BY DEF Stored
<1>2. nodes \in View
  BY <1>1, RegisteredIsEntry DEF View
<1>3. Updated(g, n, s) = [nodes |-> nodes, revision |-> revision, authorized |-> g.authorized]
  <2>1. Updated(g, n, s) = [g EXCEPT !.nodes = nodes, !.revision = revision]
    BY DEF Updated
  <2>2. QED
    BY <2>1, StoredRecord
<1>4. \A m \in Node \ {n} : nodes[m] = g.nodes[m]
  BY <1>1 DEF View
<1>5. nodes[n] = Registered(s)
  BY <1>1 DEF View
<1>6. ASSUME revision = g.revision
      PROVE  \A m \in Node : Topology(nodes[m]) = Topology(g.nodes[m])
  <2>1. ~bump
    BY <1>1, <1>6
  <2>2. Topology(g.nodes[n]) = Topology(Registered(s))
    BY <2>1 DEF SameNodeTopology
  <2>3. QED
    BY <1>4, <1>5, <2>2
<1>7. revision \in Nat /\ g.revision <= revision
  BY <1>1
<1> HIDE DEF nodes, revision
<1>8. /\ Updated(g, n, s).nodes = nodes
      /\ Updated(g, n, s).revision = revision
      /\ Updated(g, n, s).authorized = g.authorized
  BY <1>3
<1>9. Updated(g, n, s) \in Stored
  BY <1>1, <1>2, <1>3, <1>7 DEF Stored
<1>10. QED
  BY <1>4, <1>6, <1>7, <1>8, <1>9

\* What a node is shown is a view.
LEMMA ShownIsView ==
    ASSUME NEW g \in Stored, NEW n \in Node
    PROVE  NodesForDiscovery(g, n) \in View
<1>1. g.nodes \in View
  BY DEF Stored
<1>2. ASSUME NEW m \in Node
      PROVE  NodesForDiscovery(g, n)[m] \in Entry \cup {NotListed}
  <2>1. CASE m = n \/ ~Listed(g, m)
    BY <2>1 DEF NodesForDiscovery
  <2>2. CASE ~(m = n \/ ~Listed(g, m)) /\ SegmentOf[m] = SegmentOf[n]
    BY <1>1, <2>2 DEF NodesForDiscovery, View
  <2>3. CASE ~(m = n \/ ~Listed(g, m)) /\ SegmentOf[m] # SegmentOf[n]
    <3>1. g.nodes[m] \in Entry
      BY <1>1, <2>3, ListedIsEntry DEF Listed
    <3>2. NodesForDiscovery(g, n)[m] = [g.nodes[m] EXCEPT !.cand = FALSE, !.lease = 0]
      BY <2>3 DEF NodesForDiscovery
    <3>3. QED
      BY <3>1, <3>2, EntryShownFar
  <2>4. QED
    BY <2>1, <2>2, <2>3
<1>3. QED
  BY <1>2 DEF NodesForDiscovery, View

\* Registries of the same topology show a node views of the same topology.
LEMMA ShownTopology ==
    ASSUME NEW g \in Stored, NEW h \in Stored, NEW n \in Node,
           \A m \in Node : Topology(g.nodes[m]) = Topology(h.nodes[m])
    PROVE  TopologyOf(NodesForDiscovery(g, n)) = TopologyOf(NodesForDiscovery(h, n))
<1>1. g.nodes \in View /\ h.nodes \in View
  BY DEF Stored
<1>2. \A m \in Node : g.nodes[m].shape = h.nodes[m].shape /\ g.nodes[m].cand = h.nodes[m].cand
  BY DEF Topology
<1>3. ASSUME NEW m \in Node
      PROVE  Topology(NodesForDiscovery(g, n)[m]) = Topology(NodesForDiscovery(h, n)[m])
  <2>1. Listed(g, m) <=> Listed(h, m)
    BY <1>2 DEF Listed
  <2>2. CASE m = n \/ ~Listed(g, m)
    BY <2>1, <2>2 DEF NodesForDiscovery
  <2>3. CASE ~(m = n \/ ~Listed(g, m)) /\ SegmentOf[m] = SegmentOf[n]
    BY <2>1, <2>3 DEF NodesForDiscovery
  <2>4. CASE ~(m = n \/ ~Listed(g, m)) /\ SegmentOf[m] # SegmentOf[n]
    <3>1. g.nodes[m] \in Entry /\ h.nodes[m] \in Entry
      BY <1>1, <2>1, <2>4, ListedIsEntry DEF Listed
    <3>2. /\ NodesForDiscovery(g, n)[m] = [g.nodes[m] EXCEPT !.cand = FALSE, !.lease = 0]
          /\ NodesForDiscovery(h, n)[m] = [h.nodes[m] EXCEPT !.cand = FALSE, !.lease = 0]
      BY <2>1, <2>4 DEF NodesForDiscovery
    <3>3. /\ NodesForDiscovery(g, n)[m].shape = g.nodes[m].shape
          /\ NodesForDiscovery(h, n)[m].shape = h.nodes[m].shape
          /\ NodesForDiscovery(g, n)[m].cand = FALSE
          /\ NodesForDiscovery(h, n)[m].cand = FALSE
      BY <3>1, <3>2, EntryShownFar
    <3>4. QED
      BY <1>2, <3>3 DEF Topology
  <2>5. QED
    BY <2>2, <2>3, <2>4
<1>4. QED
  BY <1>3 DEF TopologyOf

-----------------------------------------------------------------------------
(* The workers *)

\* A worker at rest, and one that is about to ask.
LEMMA WorkerRecords ==
    /\ IdleWorker \in Worker
    /\ IdleWorker.pc = "idle" /\ IdleWorker.expected = 0
    /\ \A e \in Nat :
          /\ [IdleWorker EXCEPT !.pc = "asking", !.expected = e] \in Worker
          /\ [IdleWorker EXCEPT !.pc = "asking", !.expected = e].pc = "asking"
          /\ [IdleWorker EXCEPT !.pc = "asking", !.expected = e].expected = e
<1>1. PICK none : none = [m \in Node |-> NotListed]
  OBVIOUS
<1>2. none \in View
  BY <1>1 DEF View
<1>3. IdleWorker = [pc |-> "idle", expected |-> 0, reply |-> none, revision |-> 0, changed |-> FALSE]
  BY <1>1 DEF IdleWorker
<1>4. IdleWorker \in Worker /\ IdleWorker.pc = "idle" /\ IdleWorker.expected = 0
  BY <1>2, <1>3 DEF Worker
<1>5. ASSUME NEW e \in Nat
      PROVE  /\ [IdleWorker EXCEPT !.pc = "asking", !.expected = e] \in Worker
             /\ [IdleWorker EXCEPT !.pc = "asking", !.expected = e].pc = "asking"
             /\ [IdleWorker EXCEPT !.pc = "asking", !.expected = e].expected = e
  <2>1. PICK r : r = [IdleWorker EXCEPT !.pc = "asking", !.expected = e]
    OBVIOUS
  <2>2. r = [pc |-> "asking", expected |-> e, reply |-> none, revision |-> 0, changed |-> FALSE]
    BY <1>3, <2>1
  <2>3. r \in Worker /\ r.pc = "asking" /\ r.expected = e
    BY <1>2, <2>2 DEF Worker
  <2>4. QED
    BY <2>1, <2>3
<1>6. QED
  BY <1>4, <1>5

\* The reply of discoverNodes, to a caller it accepts or not.
LEMMA ReplyFacts ==
    ASSUME NEW g \in Stored, NEW n \in Node, NEW e \in Nat, NEW after \in Nat
    PROVE  /\ DiscoverReply(g, n, e, after) \in Worker
           /\ \/ DiscoverReply(g, n, e, after) = IdleWorker
              \/ /\ DiscoverReply(g, n, e, after).expected = e
                 /\ DiscoverReply(g, n, e, after).revision = g.revision
                 /\ DiscoverReply(g, n, e, after).reply = NodesForDiscovery(g, n)
                 /\ ~DiscoverReply(g, n, e, after).changed => after = g.revision
<1>1. CASE n \in g.authorized /\ Listed(g, n)
  <2>1. PICK view : view = NodesForDiscovery(g, n)
    OBVIOUS
  <2>2. PICK news \in BOOLEAN : news = (after # g.revision)
    OBVIOUS
  <2>3. DiscoverReply(g, n, e, after) = [pc |-> "saving", expected |-> e, reply |-> view,
                                         revision |-> g.revision, changed |-> news]
    BY <1>1, <2>1, <2>2 DEF DiscoverReply
  <2>4. view \in View
    BY <2>1, ShownIsView
  <2>5. g.revision \in Nat
    BY DEF Stored
  <2>6. DiscoverReply(g, n, e, after) \in Worker
    BY <2>3, <2>4, <2>5 DEF Worker
  <2>7. ~news => after = g.revision
    BY <2>2
  <2>8. QED
    BY <2>1, <2>3, <2>6, <2>7
<1>2. CASE ~(n \in g.authorized /\ Listed(g, n))
  BY <1>2, WorkerRecords DEF DiscoverReply
<1>3. QED
  BY <1>1, <1>2

\* Time leaves a worker what it is, but for the lease times in its reply.
LEMMA AgedWorker ==
    ASSUME NEW w \in Worker
    PROVE  /\ [w EXCEPT !.reply = AgedEntries(@)] \in Worker
           /\ [w EXCEPT !.reply = AgedEntries(@)].pc = w.pc
           /\ [w EXCEPT !.reply = AgedEntries(@)].expected = w.expected
           /\ [w EXCEPT !.reply = AgedEntries(@)].revision = w.revision
           /\ [w EXCEPT !.reply = AgedEntries(@)].changed = w.changed
           /\ [w EXCEPT !.reply = AgedEntries(@)].reply = AgedEntries(w.reply)
<1>1. PICK r : r = [w EXCEPT !.reply = AgedEntries(@)]
  OBVIOUS
<1>2. AgedEntries(w.reply) \in View
  BY AgedFacts DEF Worker
<1>3. /\ r \in Worker /\ r.pc = w.pc /\ r.expected = w.expected /\ r.revision = w.revision
      /\ r.changed = w.changed /\ r.reply = AgedEntries(w.reply)
  BY <1>1, <1>2 DEF Worker
<1>4. QED
  BY <1>1, <1>3

\* What no restart undid is not undone when the floor rises.
LEMMA ToldRises ==
    ASSUME NEW f \in Nat, NEW h \in Nat, f <= h, NEW w \in Worker, WorkerOK(w, f)
    PROVE  WorkerOK(w, h)
BY DEF WorkerOK, Worker

\* The same for the channel.
LEMMA ChanRises ==
    ASSUME NEW f \in Nat, NEW h \in Nat, f <= h, NEW c \in Nat \cup {NoRevision}, ChanOK(c, f)
    PROVE  ChanOK(c, h)
BY DiscoveryAssumption DEF ChanOK

-----------------------------------------------------------------------------
(* The registry and its file *)

\* A write of the memory, and no write, keep the file right.
LEMMA PersistedFacts ==
    ASSUME NEW g, NEW d, NEW h \in Stored, RegistryOK(g, d),
           OnlyAuthorized(h), g.revision <= h.revision
    PROVE  /\ RegistryOK(h, IF MayCrash THEN h ELSE d)
           /\ RegistryOK(h, d)
           /\ Floor(g, d) <= Floor(h, IF MayCrash THEN h ELSE d)
           /\ Floor(g, d) <= Floor(h, d)
<1>1. g.revision \in Nat /\ d.revision \in Nat /\ h.revision \in Nat
  BY DEF RegistryOK, Stored
<1>2. CASE MayCrash
  BY <1>1, <1>2 DEF RegistryOK, Floor
<1>3. CASE ~MayCrash
  BY <1>1, <1>3 DEF RegistryOK, Floor
<1>4. QED
  BY <1>2, <1>3

\* Cleanup of the memory, with or without a write.
LEMMA CleanedMoves ==
    ASSUME RegistryOK(reg, disk)
    PROVE  /\ CleanedNodes(reg) \in Stored
           /\ OnlyAuthorized(CleanedNodes(reg))
           /\ CleanedNodes(reg).authorized = reg.authorized
           /\ Moves(reg, CleanedNodes(reg))
BY CleanedFacts DEF RegistryOK, OnlyAuthorized, Moves

\* A heartbeat that the coordinator accepts: what it answers is in the file, and
\* it answers nothing but an error when the file was not written.
LEMMA ServeUpdateMoves ==
    ASSUME DiscoveryInv, NEW n \in Node, NEW ok \in BOOLEAN, ServeUpdate(n, ok)
    PROVE  /\ RegistryOK(reg', disk')
           /\ Floor(reg, disk) <= Floor(reg', disk')
           /\ ok => Floor(reg', disk') = reg'.revision
           /\ reg'.authorized = reg.authorized
           /\ disk' = disk \/ disk' = reg'
           /\ Moves(reg, reg')
<1> DEFINE u == Updated(reg, n, shape[n])
<1>1. reg \in Stored /\ disk \in Stored /\ shape[n] \in Shape
  BY DEF DiscoveryInv, DiscoveryTypeOK
<1>2. /\ u \in Stored /\ u.authorized = reg.authorized /\ reg.revision <= u.revision
      /\ \A m \in Node \ {n} : u.nodes[m] = reg.nodes[m]
      /\ u.revision = reg.revision =>
            \A m \in Node : Topology(u.nodes[m]) = Topology(reg.nodes[m])
  BY <1>1, UpdatedFacts
<1>3. reg' = CleanedNodes(u) /\ n \in reg.authorized
  BY DEF ServeUpdate, UpdateAccepted
<1> HIDE DEF u
<1>4. /\ reg' \in Stored /\ reg'.authorized = u.authorized /\ u.revision <= reg'.revision
      /\ \A m \in Node : Listed(reg', m) => Listed(u, m)
      /\ reg'.revision = u.revision => reg'.nodes = u.nodes
  BY <1>2, <1>3, CleanedFacts
<1>5. OnlyAuthorized(reg')
  BY <1>2, <1>3, <1>4 DEF DiscoveryInv, RegistryOK, OnlyAuthorized, Listed
<1>6. reg.revision \in Nat /\ u.revision \in Nat /\ reg'.revision \in Nat
  BY <1>1, <1>2, <1>4 DEF Stored
<1>7. Moves(reg, reg')
  <2>1. reg.revision <= reg'.revision
    BY <1>2, <1>4, <1>6
  <2>2. ASSUME reg'.revision = reg.revision
        PROVE  \A m \in Node : Topology(reg'.nodes[m]) = Topology(reg.nodes[m])
    <3>1. u.revision = reg.revision /\ reg'.revision = u.revision
      BY <1>2, <1>4, <1>6, <2>2
    <3>2. QED
      BY <1>2, <1>4, <3>1
  <2>3. QED
    BY <2>1, <2>2 DEF Moves
<1>8. disk' = IF MayCrash /\ ok THEN reg' ELSE disk
  BY DEF ServeUpdate, Persisted
<1>9. /\ RegistryOK(reg', disk')
      /\ Floor(reg, disk) <= Floor(reg', disk')
  <2>1. RegistryOK(reg, disk) /\ reg.revision <= reg'.revision
    BY <1>7 DEF DiscoveryInv, Moves
  <2>2. PICK g, d, h : g = reg /\ d = disk /\ h = reg'
    OBVIOUS
  <2>3. /\ RegistryOK(h, IF MayCrash THEN h ELSE d)
        /\ RegistryOK(h, d)
        /\ Floor(g, d) <= Floor(h, IF MayCrash THEN h ELSE d)
        /\ Floor(g, d) <= Floor(h, d)
    BY <1>4, <1>5, <2>1, <2>2, PersistedFacts
  <2>4. disk' = d \/ disk' = (IF MayCrash THEN h ELSE d)
    BY <1>8, <2>2
  <2>5. QED
    BY <2>2, <2>3, <2>4
<1>10. ok => Floor(reg', disk') = reg'.revision
  BY <1>8 DEF Floor
<1>11. QED
  BY <1>2, <1>4, <1>7, <1>8, <1>9, <1>10

\* Time changes no topology and no credential.
LEMMA AgedMoves ==
    ASSUME NEW g \in Stored
    PROVE  /\ [g EXCEPT !.nodes = AgedEntries(@)] \in Stored
           /\ [g EXCEPT !.nodes = AgedEntries(@)].authorized = g.authorized
           /\ [g EXCEPT !.nodes = AgedEntries(@)].revision = g.revision
           /\ \A m \in Node : Topology([g EXCEPT !.nodes = AgedEntries(@)].nodes[m])
                                  = Topology(g.nodes[m])
<1>1. PICK h : h = [g EXCEPT !.nodes = AgedEntries(@)]
  OBVIOUS
<1>2. /\ AgedEntries(g.nodes) \in View
      /\ \A m \in Node : Topology(AgedEntries(g.nodes)[m]) = Topology(g.nodes[m])
  BY AgedFacts DEF Stored
<1>3. /\ h \in Stored /\ h.authorized = g.authorized /\ h.revision = g.revision
      /\ h.nodes = AgedEntries(g.nodes)
  BY <1>1, <1>2 DEF Stored
<1>4. QED
  BY <1>1, <1>2, <1>3

\* A period passes for the registry and its file.
LEMMA TickMoves ==
    ASSUME DiscoveryInv, Tick
    PROVE  /\ RegistryOK(reg', disk')
           /\ Floor(reg, disk) = Floor(reg', disk')
           /\ reg'.authorized = reg.authorized /\ disk'.authorized = disk.authorized
           /\ Moves(reg, reg')
<1>1. reg \in Stored /\ disk \in Stored
  BY DEF DiscoveryInv, DiscoveryTypeOK
<1>2. /\ reg' = [reg EXCEPT !.nodes = AgedEntries(@)]
      /\ disk' = [disk EXCEPT !.nodes = AgedEntries(@)]
  BY DEF Tick
<1>3. /\ reg' \in Stored /\ reg'.authorized = reg.authorized /\ reg'.revision = reg.revision
      /\ \A m \in Node : Topology(reg'.nodes[m]) = Topology(reg.nodes[m])
  BY <1>1, <1>2, AgedMoves
<1>4. /\ disk' \in Stored /\ disk'.authorized = disk.authorized /\ disk'.revision = disk.revision
      /\ \A m \in Node : Topology(disk'.nodes[m]) = Topology(disk.nodes[m])
  BY <1>1, <1>2, AgedMoves
<1>5. \A m \in Node : (Listed(reg', m) <=> Listed(reg, m)) /\ (Listed(disk', m) <=> Listed(disk, m))
  BY <1>3, <1>4 DEF Topology, Listed
<1>6. RegistryOK(reg', disk')
  BY <1>3, <1>4, <1>5 DEF DiscoveryInv, RegistryOK, OnlyAuthorized
<1>7. Floor(reg, disk) = Floor(reg', disk')
  BY <1>3, <1>4 DEF Floor
<1>8. Moves(reg, reg')
  BY <1>1, <1>3 DEF Moves, Stored
<1>9. QED
  BY <1>3, <1>4, <1>6, <1>7, <1>8

\* A fetch cleans the memory and writes nothing; other handlers may write.
LEMMA FetchMoves ==
    ASSUME DiscoveryInv, reg' = CleanedNodes(reg), disk' = disk \/ disk' = Persisted(reg', TRUE)
    PROVE  /\ RegistryOK(reg', disk')
           /\ Floor(reg, disk) <= Floor(reg', disk')
           /\ reg'.authorized = reg.authorized
           /\ disk' = disk \/ disk' = reg'
           /\ Moves(reg, reg')
<1>1. RegistryOK(reg, disk)
  BY DEF DiscoveryInv
<1>2. /\ reg' \in Stored /\ OnlyAuthorized(reg')
      /\ reg'.authorized = reg.authorized
      /\ Moves(reg, reg')
  BY <1>1, CleanedMoves
<1>3. PICK g, d, h : g = reg /\ d = disk /\ h = reg'
  OBVIOUS
<1>4. /\ RegistryOK(h, IF MayCrash THEN h ELSE d)
      /\ RegistryOK(h, d)
      /\ Floor(g, d) <= Floor(h, IF MayCrash THEN h ELSE d)
      /\ Floor(g, d) <= Floor(h, d)
  BY <1>1, <1>2, <1>3, PersistedFacts DEF Moves
<1>5. disk' = d \/ disk' = (IF MayCrash THEN h ELSE d)
  BY <1>3 DEF Persisted
<1>6. QED
  BY <1>2, <1>3, <1>4, <1>5

\* revokeNode removes the credential and the registration together.
LEMMA RevokeMoves ==
    ASSUME DiscoveryInv, NEW n \in Node, RevokeNode(n)
    PROVE  /\ RegistryOK(reg', disk')
           /\ Floor(reg, disk) <= Floor(reg', disk')
           /\ GoneOK(reg', disk', revoked')
<1>1. reg \in Stored /\ disk \in Stored /\ reg.nodes \in View
  BY DEF DiscoveryInv, DiscoveryTypeOK, Stored
<1>2. PICK nodes : nodes = [reg.nodes EXCEPT ![n] = NotListed]
  OBVIOUS
<1>3. nodes \in View
  BY <1>1, <1>2 DEF View
<1>4. /\ nodes[n] = NotListed
      /\ \A m \in Node \ {n} : nodes[m] = reg.nodes[m]
  BY <1>1, <1>2 DEF View
<1>5. PICK rest : rest = reg.authorized \ {n}
  OBVIOUS
<1>6. reg' = [reg EXCEPT !.authorized = rest, !.nodes = nodes]
  BY <1>2, <1>5 DEF RevokeNode
<1>7. PICK h : h = [reg EXCEPT !.authorized = rest, !.nodes = nodes]
  OBVIOUS
<1>8. h = [nodes |-> nodes, revision |-> reg.revision, authorized |-> rest]
  BY <1>1, <1>7 DEF Stored
<1>9. reg' \in Stored /\ reg'.nodes = nodes /\ reg'.revision = reg.revision /\ reg'.authorized = rest
  BY <1>1, <1>3, <1>5, <1>6, <1>7, <1>8 DEF Stored
<1>10. NotListed.shape = 0
  BY DEF NotListed
<1>11. OnlyAuthorized(reg')
  BY <1>4, <1>5, <1>9, <1>10 DEF DiscoveryInv, RegistryOK, OnlyAuthorized, Listed
<1>12. PICK ok \in BOOLEAN :
          /\ disk' = IF MayCrash /\ ok THEN reg' ELSE disk
          /\ revoked' = IF ok THEN revoked \cup {n} ELSE revoked
  <2>1. Outcomes \subseteq BOOLEAN
    BY DEF Outcomes
  <2>2. QED
    BY <2>1 DEF RevokeNode, Persisted
<1>13. reg.revision \in Nat /\ disk.revision \in Nat
  BY <1>1 DEF Stored
<1>14. RegistryOK(reg', disk') /\ Floor(reg, disk) <= Floor(reg', disk')
  <2>1. CASE disk' = reg' /\ MayCrash
    BY <1>9, <1>11, <1>13, <2>1 DEF DiscoveryInv, RegistryOK, Floor
  <2>2. CASE disk' = disk
    BY <1>9, <1>11, <1>13, <2>2 DEF DiscoveryInv, RegistryOK, Floor
  <2>3. QED
    BY <1>12, <2>1, <2>2
<1>15. GoneOK(reg', disk', revoked')
  <2>1. \A m \in revoked : m \notin reg'.authorized /\ (MayCrash => m \notin disk.authorized)
    BY <1>5, <1>9 DEF DiscoveryInv, GoneOK
  <2>2. n \notin reg'.authorized
    BY <1>5, <1>9
  <2>3. CASE ok
    BY <1>12, <2>1, <2>2, <2>3 DEF GoneOK
  <2>4. CASE ~ok
    BY <1>12, <2>1, <2>4 DEF GoneOK
  <2>5. QED
    BY <2>3, <2>4
<1>16. QED
  BY <1>14, <1>15

\* A restart takes the memory back to the file.
LEMMA RestartMoves ==
    ASSUME DiscoveryInv, CoordinatorRestart
    PROVE  /\ RegistryOK(reg', disk')
           /\ Floor(reg, disk) <= Floor(reg', disk')
           /\ GoneOK(reg', disk', revoked')
<1>1. MayCrash /\ reg' = disk /\ disk' = disk /\ revoked' = revoked
  BY DEF CoordinatorRestart
<1>2. disk.revision \in Nat
  BY DEF DiscoveryInv, DiscoveryTypeOK, Stored
<1>3. QED
  BY <1>1, <1>2 DEF DiscoveryInv, RegistryOK, GoneOK, Floor

\* A step that changes no credential in memory, and leaves the file its
\* credentials or gives it those of the memory, authorizes nobody again.
LEMMA GoneKept ==
    ASSUME DiscoveryInv, revoked' = revoked, reg'.authorized = reg.authorized,
           disk'.authorized \in {disk.authorized, reg'.authorized}
    PROVE  GoneOK(reg', disk', revoked')
BY DEF DiscoveryInv, GoneOK

\* What every step does to the registry and its file.
LEMMA RegistryStep ==
    ASSUME DiscoveryInv, [Next]_vars
    PROVE  /\ RegistryOK(reg', disk')
           /\ Floor(reg, disk) <= Floor(reg', disk')
           /\ GoneOK(reg', disk', revoked')
           /\ ~MayRevoke /\ ~MayCrash => Moves(reg, reg')
<1>1. CASE Tick
  <2>1. Floor(reg, disk) \in Nat
    BY DEF DiscoveryInv, DiscoveryTypeOK, Stored, Floor
  <2>2. revoked' = revoked
    BY <1>1 DEF Tick
  <2>3. QED
    BY <1>1, <2>1, <2>2, TickMoves, GoneKept
<1>2. CASE OtherHandler
  <2>1. /\ reg' = CleanedNodes(reg) /\ revoked' = revoked
        /\ disk' = disk \/ disk' = Persisted(reg', TRUE)
    BY <1>2 DEF OtherHandler
  <2>2. QED
    BY <2>1, FetchMoves, GoneKept
<1>3. CASE CoordinatorRestart
  <2>1. MayCrash
    BY <1>3 DEF CoordinatorRestart
  <2>2. QED
    BY <1>3, <2>1, RestartMoves
<1>4. CASE \E n \in Node : Heartbeat(n) \/ HeartbeatLost(n) \/ SyncHeartbeat(n)
  <2>1. Outcomes \subseteq BOOLEAN
    BY DEF Outcomes
  <2>2. PICK n \in Node, ok \in BOOLEAN : ServeUpdate(n, ok)
    BY <1>4, <2>1 DEF Heartbeat, HeartbeatLost, SyncHeartbeat
  <2>3. revoked' = revoked
    BY <2>2 DEF ServeUpdate
  <2>4. QED
    BY <2>2, <2>3, ServeUpdateMoves, GoneKept
<1>5. CASE \E n \in Node : WorkerFetch(n) \/ SyncFetch(n)
  <2>1. reg' = CleanedNodes(reg) /\ disk' = disk /\ revoked' = revoked
    BY <1>5 DEF WorkerFetch, SyncFetch
  <2>2. QED
    BY <2>1, FetchMoves, GoneKept
<1>6. CASE \E n \in Node : RevokeNode(n)
  <2>1. PICK n \in Node : RevokeNode(n)
    BY <1>6
  <2>2. MayRevoke
    BY <2>1 DEF RevokeNode
  <2>3. QED
    BY <2>1, <2>2, RevokeMoves
<1>7. CASE reg' = reg /\ disk' = disk /\ revoked' = revoked
  <2>1. /\ RegistryOK(reg', disk') /\ Floor(reg, disk) = Floor(reg', disk')
        /\ GoneOK(reg', disk', revoked')
    BY <1>7 DEF DiscoveryInv
  <2>2. Floor(reg, disk) \in Nat /\ reg.revision \in Nat
    BY DEF DiscoveryInv, DiscoveryTypeOK, Stored, Floor
  <2>3. QED
    BY <1>7, <2>1, <2>2 DEF Moves
<1>8. QED
  BY <1>1, <1>2, <1>3, <1>4, <1>5, <1>6, <1>7
     DEF Next, vars, TakeRevision, WorkerSave, NodeRestart, SyncSave, TopologyChanges

-----------------------------------------------------------------------------
(* What the nodes were told *)

\* What a node was told is still not undone after any step.
LEMMA ToldKept ==
    ASSUME DiscoveryInv, RegistryOK(reg', disk'), Floor(reg, disk) <= Floor(reg', disk')
    PROVE  /\ Floor(reg', disk') \in Nat
           /\ \A n \in Node : /\ ChanOK(chan[n], Floor(reg', disk'))
                              /\ WorkerOK(work[n], Floor(reg', disk'))
                              /\ WorkerOK(cli[n], Floor(reg', disk'))
<1>1. PICK f, h : f = Floor(reg, disk) /\ h = Floor(reg', disk')
  OBVIOUS
<1>2. f \in Nat /\ h \in Nat
  BY <1>1 DEF DiscoveryInv, RegistryOK, Stored, Floor
<1>3. \A n \in Node : /\ chan[n] \in Nat \cup {NoRevision}
                     /\ work[n] \in Worker /\ cli[n] \in Worker
                     /\ ChanOK(chan[n], f) /\ WorkerOK(work[n], f) /\ WorkerOK(cli[n], f)
  BY <1>1 DEF DiscoveryInv, DiscoveryTypeOK, ToldOK
<1>4. QED
  BY <1>1, <1>2, <1>3, ToldRises, ChanRises

\* peers.json stays a list of peers.
LEMMA SavedFacts ==
    ASSUME DiscoveryInv, NEW n \in Node, NEW w \in Worker
    PROVE  SavedPeers(n, w) \in [Node -> View]
BY DEF SavedPeers, DiscoveryInv, DiscoveryTypeOK, Worker

\* What every step does to the nodes.
LEMMA NodeStep ==
    ASSUME DiscoveryInv, [Next]_vars, RegistryOK(reg', disk'),
           Floor(reg, disk) <= Floor(reg', disk')
    PROVE  DiscoveryTypeOK' /\ ToldOK(Floor(reg, disk))'
<1>0. revoked' \subseteq Node
  <2>1. revoked' = revoked \/ \E n \in Node : revoked' = revoked \cup {n}
    BY DEF Next, vars, Tick, OtherHandler, CoordinatorRestart, Heartbeat, HeartbeatLost,
           SyncHeartbeat, ServeUpdate, TakeRevision, WorkerFetch, WorkerSave, NodeRestart,
           SyncFetch, SyncSave, TopologyChanges, RevokeNode
  <2>2. QED
    BY <2>1 DEF DiscoveryInv, DiscoveryTypeOK
<1>1. /\ reg' \in Stored /\ disk' \in Stored /\ reg'.revision \in Nat
  BY DEF RegistryOK, Stored
<1>2. PICK f : f = Floor(reg', disk')
  OBVIOUS
<1>3. /\ f \in Nat
      /\ \A n \in Node : ChanOK(chan[n], f) /\ WorkerOK(work[n], f) /\ WorkerOK(cli[n], f)
  BY <1>2, ToldKept
<1>4. /\ shape \in [Node -> Shape] /\ beat \in [Node -> BOOLEAN]
      /\ chan \in [Node -> Nat \cup {NoRevision}]
      /\ work \in [Node -> Worker] /\ cli \in [Node -> Worker]
      /\ current \in [Node -> Nat] /\ peers \in [Node -> View]
  BY DEF DiscoveryInv, DiscoveryTypeOK
<1>5. WorkerOK(IdleWorker, f)
  <2>1. IdleWorker.pc = "idle" /\ IdleWorker.expected = 0
    BY WorkerRecords
  <2>2. QED
    BY <1>3, <2>1 DEF WorkerOK
<1>6. SUFFICES /\ shape' \in [Node -> Shape] /\ beat' \in [Node -> BOOLEAN]
               /\ chan' \in [Node -> Nat \cup {NoRevision}]
               /\ work' \in [Node -> Worker] /\ cli' \in [Node -> Worker]
               /\ current' \in [Node -> Nat] /\ peers' \in [Node -> View]
               /\ \A n \in Node : /\ ChanOK(chan'[n], f)
                                  /\ WorkerOK(work'[n], f) /\ WorkerOK(cli'[n], f)
  BY <1>0, <1>1, <1>2 DEF DiscoveryTypeOK, ToldOK
<1>7. CASE Tick
  <2>1. \A n \in Node : peers'[n] \in View
    BY <1>4, <1>7, AgedFacts DEF Tick
  <2>2. peers' \in [Node -> View]
    BY <1>7, <2>1 DEF Tick
  <2>3. ASSUME NEW n \in Node
        PROVE  /\ work'[n] \in Worker /\ WorkerOK(work'[n], f)
               /\ cli'[n] \in Worker /\ WorkerOK(cli'[n], f)
    <3>1. /\ work'[n] = [work[n] EXCEPT !.reply = AgedEntries(@)]
          /\ cli'[n] = [cli[n] EXCEPT !.reply = AgedEntries(@)]
      BY <1>7 DEF Tick
    <3>2. work[n] \in Worker /\ cli[n] \in Worker
      BY <1>4
    <3>3. /\ work'[n] \in Worker /\ work'[n].pc = work[n].pc
          /\ work'[n].expected = work[n].expected /\ work'[n].revision = work[n].revision
      BY <3>1, <3>2, AgedWorker
    <3>4. /\ cli'[n] \in Worker /\ cli'[n].pc = cli[n].pc
          /\ cli'[n].expected = cli[n].expected /\ cli'[n].revision = cli[n].revision
      BY <3>1, <3>2, AgedWorker
    <3>5. QED
      BY <1>3, <3>3, <3>4 DEF WorkerOK
  <2>4. work' \in [Node -> Worker] /\ cli' \in [Node -> Worker]
    BY <1>7, <2>3 DEF Tick
  <2>5. beat' \in [Node -> BOOLEAN]
    BY <1>7 DEF Tick
  <2>6. QED
    BY <1>3, <1>4, <1>7, <2>2, <2>3, <2>4, <2>5 DEF Tick
<1>8. ASSUME NEW n \in Node, Heartbeat(n)
      PROVE  <1>6!1
  <2>1. f = reg'.revision
    BY <1>2, <1>8, ServeUpdateMoves DEF Heartbeat
  <2>2. /\ chan' = [chan EXCEPT ![n] = reg'.revision]
        /\ beat' = [beat EXCEPT ![n] = Punctual]
        /\ UNCHANGED <<shape, work, cli, current, peers>>
    BY <1>8 DEF Heartbeat
  <2>3. beat' \in [Node -> BOOLEAN]
    BY <1>4, <2>2, DiscoveryAssumption
  <2>4. chan' \in [Node -> Nat \cup {NoRevision}]
    BY <1>1, <1>4, <2>2
  <2>5. ChanOK(reg'.revision, f)
    BY <1>1, <2>1 DEF ChanOK
  <2>6. \A m \in Node : ChanOK(chan'[m], f)
    BY <1>3, <1>4, <2>2, <2>5
  <2>7. QED
    BY <1>3, <1>4, <2>2, <2>3, <2>4, <2>6
<1>9. ASSUME NEW n \in Node, TakeRevision(n)
      PROVE  <1>6!1
  <2>1. PICK w : w = [IdleWorker EXCEPT !.pc = "asking", !.expected = chan[n]]
    OBVIOUS
  <2>2. /\ chan[n] \in Nat
        /\ chan[n] <= f
    BY <1>3, <1>4, <1>9 DEF TakeRevision, ChanOK
  <2>3. w \in Worker /\ w.pc = "asking" /\ w.expected = chan[n]
    BY <2>1, <2>2, WorkerRecords
  <2>4. WorkerOK(w, f)
    BY <2>2, <2>3 DEF WorkerOK
  <2>5. /\ chan' = [chan EXCEPT ![n] = NoRevision]
        /\ work' = work \/ work' = [work EXCEPT ![n] = w]
        /\ UNCHANGED <<shape, beat, cli, current, peers>>
    BY <1>9, <2>1 DEF TakeRevision
  <2>6. /\ chan' \in [Node -> Nat \cup {NoRevision}]
        /\ \A m \in Node : ChanOK(chan'[m], f)
    BY <1>3, <1>4, <2>5 DEF ChanOK
  <2>7. /\ work' \in [Node -> Worker]
        /\ \A m \in Node : WorkerOK(work'[m], f)
    BY <1>3, <1>4, <2>3, <2>4, <2>5
  <2>8. QED
    BY <1>3, <1>4, <2>5, <2>6, <2>7
<1>10. ASSUME NEW n \in Node, WorkerFetch(n)
       PROVE  <1>6!1
  <2>1. PICK w : w = DiscoverReply(reg', n, work[n].expected, current[n])
    OBVIOUS
  <2>2. work[n].expected \in Nat /\ current[n] \in Nat
    BY <1>4 DEF Worker
  <2>3. /\ w \in Worker
        /\ \/ w = IdleWorker
           \/ w.expected = work[n].expected /\ w.revision = reg'.revision
    BY <1>1, <2>1, <2>2, ReplyFacts
  <2>4. work[n].expected <= f /\ f <= reg'.revision
    BY <1>1, <1>2, <1>3, <1>10 DEF WorkerOK, Floor, RegistryOK, Stored
  <2>5. WorkerOK(w, f)
    BY <1>1, <1>3, <1>5, <2>2, <2>3, <2>4 DEF WorkerOK
  <2>6. work' = [work EXCEPT ![n] = w] /\ UNCHANGED <<shape, beat, chan, cli, current, peers>>
    BY <1>10, <2>1 DEF WorkerFetch
  <2>7. work' \in [Node -> Worker] /\ \A m \in Node : WorkerOK(work'[m], f)
    BY <1>3, <1>4, <2>3, <2>5, <2>6
  <2>8. QED
    BY <1>3, <1>4, <2>6, <2>7
<1>11. ASSUME NEW n \in Node, SyncFetch(n)
       PROVE  <1>6!1
  <2>1. PICK w : w = DiscoverReply(reg', n, cli[n].expected, 0)
    OBVIOUS
  <2>2. cli[n].expected \in Nat /\ 0 \in Nat
    BY <1>4 DEF Worker
  <2>3. /\ w \in Worker
        /\ \/ w = IdleWorker
           \/ w.expected = cli[n].expected /\ w.revision = reg'.revision
    BY <1>1, <2>1, <2>2, ReplyFacts
  <2>4. cli[n].expected <= f /\ f <= reg'.revision
    BY <1>1, <1>2, <1>3, <1>11 DEF WorkerOK, Floor, RegistryOK, Stored
  <2>5. WorkerOK(w, f)
    BY <1>1, <1>3, <1>5, <2>2, <2>3, <2>4 DEF WorkerOK
  <2>6. cli' = [cli EXCEPT ![n] = w] /\ UNCHANGED <<shape, beat, chan, work, current, peers>>
    BY <1>11, <2>1 DEF SyncFetch
  <2>7. cli' \in [Node -> Worker] /\ \A m \in Node : WorkerOK(cli'[m], f)
    BY <1>3, <1>4, <2>3, <2>5, <2>6
  <2>8. QED
    BY <1>3, <1>4, <2>6, <2>7
<1>12. ASSUME NEW n \in Node, SyncHeartbeat(n)
       PROVE  <1>6!1
  <2>1. PICK w : w = [IdleWorker EXCEPT !.pc = "asking", !.expected = reg'.revision]
    OBVIOUS
  <2>2. PICK ok \in BOOLEAN :
           /\ ServeUpdate(n, ok)
           /\ cli' = IF ok THEN [cli EXCEPT ![n] = w] ELSE cli
    <3>1. Outcomes \subseteq BOOLEAN
      BY DEF Outcomes
    <3>2. QED
      BY <1>12, <2>1, <3>1 DEF SyncHeartbeat
  <2>3. w \in Worker /\ w.pc = "asking" /\ w.expected = reg'.revision
    BY <1>1, <2>1, WorkerRecords
  <2>4. ok => WorkerOK(w, f)
    <3>1. ok => f = reg'.revision
      BY <1>2, <2>2, ServeUpdateMoves
    <3>2. QED
      BY <1>1, <2>3, <3>1 DEF WorkerOK
  <2>5. UNCHANGED <<shape, beat, chan, work, current, peers>>
    BY <1>12 DEF SyncHeartbeat
  <2>6. cli' \in [Node -> Worker] /\ \A m \in Node : WorkerOK(cli'[m], f)
    <3>1. CASE ok
      BY <1>3, <1>4, <2>2, <2>3, <2>4, <3>1
    <3>2. CASE ~ok
      BY <1>3, <1>4, <2>2, <3>2
    <3>3. QED
      BY <3>1, <3>2
  <2>7. QED
    BY <1>3, <1>4, <2>5, <2>6
<1>13. ASSUME NEW n \in Node, WorkerSave(n)
       PROVE  <1>6!1
  <2>1. work[n] \in Worker /\ work[n].expected \in Nat
    BY <1>4 DEF Worker
  <2>2. /\ work' = [work EXCEPT ![n] = IdleWorker]
        /\ peers' = SavedPeers(n, work[n])
        /\ current' = current \/ current' = [current EXCEPT ![n] = work[n].expected]
        /\ UNCHANGED <<shape, beat, chan, cli>>
    BY <1>13 DEF WorkerSave
  <2>3. work' \in [Node -> Worker] /\ \A m \in Node : WorkerOK(work'[m], f)
    BY <1>3, <1>4, <1>5, <2>2, WorkerRecords
  <2>4. peers' \in [Node -> View] /\ current' \in [Node -> Nat]
    BY <1>4, <2>1, <2>2, SavedFacts
  <2>5. QED
    BY <1>3, <1>4, <2>2, <2>3, <2>4
<1>14. ASSUME NEW n \in Node, SyncSave(n)
       PROVE  <1>6!1
  <2>1. cli[n] \in Worker
    BY <1>4
  <2>2. /\ cli' = [cli EXCEPT ![n] = IdleWorker]
        /\ peers' = SavedPeers(n, cli[n])
        /\ UNCHANGED <<shape, beat, chan, work, current>>
    BY <1>14 DEF SyncSave
  <2>3. cli' \in [Node -> Worker] /\ \A m \in Node : WorkerOK(cli'[m], f)
    BY <1>3, <1>4, <1>5, <2>2, WorkerRecords
  <2>4. peers' \in [Node -> View]
    BY <2>1, <2>2, SavedFacts
  <2>5. QED
    BY <1>3, <1>4, <2>2, <2>3, <2>4
<1>15. ASSUME NEW n \in Node, NodeRestart(n)
       PROVE  <1>6!1
  <2>1. /\ chan' = [chan EXCEPT ![n] = NoRevision]
        /\ work' = [work EXCEPT ![n] = IdleWorker]
        /\ peers' = peers \/ peers' = SavedPeers(n, work[n])
        /\ UNCHANGED <<shape, beat, cli, current>>
    BY <1>15 DEF NodeRestart
  <2>2. work' \in [Node -> Worker] /\ \A m \in Node : WorkerOK(work'[m], f)
    BY <1>3, <1>4, <1>5, <2>1, WorkerRecords
  <2>3. peers' \in [Node -> View]
    BY <1>4, <2>1, SavedFacts
  <2>4. /\ chan' \in [Node -> Nat \cup {NoRevision}]
        /\ \A m \in Node : ChanOK(chan'[m], f)
    BY <1>3, <1>4, <2>1 DEF ChanOK
  <2>5. QED
    BY <1>3, <1>4, <2>1, <2>2, <2>3, <2>4
<1>16. ASSUME NEW n \in Node, TopologyChanges(n)
       PROVE  <1>6!1
  <2>1. shape' \in [Node -> Shape] /\ UNCHANGED <<beat, clientVars>>
    BY <1>4, <1>16 DEF TopologyChanges
  <2>2. QED
    BY <1>3, <1>4, <2>1 DEF clientVars
<1>17. CASE UNCHANGED <<shape, beat, clientVars>>
  BY <1>3, <1>4, <1>17 DEF clientVars
<1>18. QED
  BY <1>7, <1>8, <1>9, <1>10, <1>11, <1>12, <1>13, <1>14, <1>15, <1>16, <1>17
     DEF Next, vars, clientVars, HeartbeatLost, RevokeNode, OtherHandler, CoordinatorRestart

-----------------------------------------------------------------------------
(* Theorems for every environment *)

\* The first state of the coordinator and its nodes.
LEMMA DiscoveryStart == Init => DiscoveryInv
<1> SUFFICES ASSUME Init PROVE DiscoveryInv
  OBVIOUS
<1>1. PICK none : none = [n \in Node |-> NotListed]
  OBVIOUS
<1>2. none \in View /\ \A n \in Node : none[n].shape = 0
  BY <1>1 DEF View, NotListed
<1>3. reg = [nodes |-> none, revision |-> 0, authorized |-> Node] /\ disk = reg
  BY <1>1 DEF Init
<1>4. /\ reg \in Stored /\ reg.nodes = none /\ reg.revision = 0 /\ reg.authorized = Node
  BY <1>2, <1>3 DEF Stored
<1>5. RegistryOK(reg, disk) /\ GoneOK(reg, disk, revoked) /\ revoked \subseteq Node
  <2>1. RegistryOK(reg, disk)
    BY <1>2, <1>3, <1>4 DEF RegistryOK, OnlyAuthorized, Listed
  <2>2. QED
    BY <2>1 DEF Init, GoneOK
<1>6. Floor(reg, disk) = 0
  BY <1>3, <1>4 DEF Floor
<1>7. /\ IdleWorker \in Worker
      /\ WorkerOK(IdleWorker, 0)
  <2>1. IdleWorker \in Worker /\ IdleWorker.pc = "idle" /\ IdleWorker.expected = 0
    BY WorkerRecords
  <2>2. QED
    BY <2>1 DEF WorkerOK
<1>8. ToldOK(0)
  BY <1>7 DEF Init, ToldOK, ChanOK
<1>9. DiscoveryTypeOK
  <2>1. /\ work \in [Node -> Worker] /\ cli \in [Node -> Worker]
        /\ shape \in [Node -> Shape] /\ beat \in [Node -> BOOLEAN]
        /\ chan \in [Node -> Nat \cup {NoRevision}] /\ current \in [Node -> Nat]
    BY <1>7 DEF Init
  <2>2. peers \in [Node -> View]
    BY <1>1, <1>2 DEF Init
  <2>3. QED
    BY <1>3, <1>4, <1>5, <2>1, <2>2 DEF DiscoveryTypeOK
<1>10. QED
  BY <1>5, <1>6, <1>8, <1>9 DEF DiscoveryInv

\* The inductive invariant: registered nodes are authorized, in memory and in
\* the file, neither authorizes a node whose revocation was answered, the file is
\* as far as anything a node was told, and a reply that is about to be saved is
\* not behind it.
THEOREM DiscoveryInvariant == Spec => []DiscoveryInv
<1>1. DiscoveryInv /\ [Next]_vars => DiscoveryInv'
  BY RegistryStep, NodeStep DEF DiscoveryInv
<1>2. QED
  BY <1>1, DiscoveryStart, PTL DEF Spec

\* The registry, its file, the workers and peers.json are always well formed.
THEOREM DiscoveryTypeCorrect == Spec => []DiscoveryTypeOK
<1>1. DiscoveryInv => DiscoveryTypeOK
  BY DEF DiscoveryInv
<1>2. QED
  BY <1>1, DiscoveryInvariant, PTL

\* fetchDiscovery never reports "revision moved backwards", whenever the
\* coordinator restarts: updateNode writes the state before it answers.
THEOREM RevisionNeverBackwards == Spec => []NeverBackwards
<1>1. DiscoveryInv => NeverBackwards
  <2> SUFFICES ASSUME DiscoveryInv, NEW n \in Node, NEW w \in {work[n], cli[n]}, w.pc = "saving"
               PROVE  Acceptable(w)
    BY DEF NeverBackwards
  <2>1. w \in Worker /\ w.expected <= w.revision
    BY DEF DiscoveryInv, DiscoveryTypeOK, ToldOK, WorkerOK
  <2>2. QED
    BY <2>1 DEF Acceptable, Worker
<1>2. QED
  BY <1>1, DiscoveryInvariant, PTL

\* A node without a credential is never registered, neither by a heartbeat that
\* was on its way nor by a restart of the coordinator.
THEOREM RevokedStaysUnregistered == Spec => []RevokedStaysOut
<1>1. DiscoveryInv => RevokedStaysOut
  BY DEF DiscoveryInv, RegistryOK, OnlyAuthorized, RevokedStaysOut
<1>2. QED
  BY <1>1, DiscoveryInvariant, PTL

\* A node whose revocation revokeNode answered with success is never authorized
\* again, whatever writes fail afterwards and whenever the coordinator restarts.
THEOREM RevocationIsFinal == Spec => []RevocationFinal
<1>1. DiscoveryInv => RevocationFinal
  BY DEF DiscoveryInv, GoneOK, RevocationFinal
<1>2. QED
  BY <1>1, DiscoveryInvariant, PTL

-----------------------------------------------------------------------------
(* peers.json and the revision *)

\* A view stays up to date, or its revision is behind.
LEMMA UpToDateKept ==
    ASSUME NEW g \in Stored, NEW h \in Stored, Moves(g, h), NEW n \in Node, NEW v \in Nat,
           NEW view, UpToDate(g, n, v, view)
    PROVE  UpToDate(h, n, v, view)
<1>1. g.revision \in Nat /\ h.revision \in Nat
  BY DEF Stored
<1>2. v <= h.revision
  BY <1>1 DEF Moves, UpToDate
<1>3. ASSUME v = h.revision
      PROVE  TopologyOf(view) = TopologyOf(NodesForDiscovery(h, n))
  <2>1. v = g.revision /\ h.revision = g.revision
    BY <1>1, <1>3 DEF Moves, UpToDate
  <2>2. TopologyOf(NodesForDiscovery(g, n)) = TopologyOf(NodesForDiscovery(h, n))
    BY <2>1, ShownTopology DEF Moves
  <2>3. QED
    BY <2>1, <2>2 DEF UpToDate
<1>4. QED
  BY <1>2, <1>3 DEF UpToDate

\* Time makes no view stale.
LEMMA UpToDateAged ==
    ASSUME NEW g \in Stored, NEW n \in Node, NEW v \in Nat, NEW view \in View,
           UpToDate(g, n, v, view)
    PROVE  UpToDate(g, n, v, AgedEntries(view))
<1>1. TopologyOf(AgedEntries(view)) = TopologyOf(view)
  BY AgedFacts DEF TopologyOf
<1>2. QED
  BY <1>1 DEF UpToDate

\* A reply that is saved is up to date, and so is peers.json when the reply says
\* that nothing changed.
LEMMA SaveUpToDate ==
    ASSUME DiscoveryInv, NEW n \in Node, PeerOK(n), work[n].pc = "saving", ~MayCrash
    PROVE  /\ UpToDate(reg, n, work[n].expected, SavedPeers(n, work[n])[n])
           /\ UpToDate(reg, n, current[n], SavedPeers(n, work[n])[n])
           /\ \A m \in Node \ {n} : SavedPeers(n, work[n])[m] = peers[m]
<1> DEFINE w == work[n]
<1>1. /\ w \in Worker /\ current[n] \in Nat /\ peers \in [Node -> View] /\ reg.revision \in Nat
  BY DEF DiscoveryInv, DiscoveryTypeOK, Stored
<1>2. /\ w.expected \in Nat /\ w.revision \in Nat
  BY <1>1 DEF Worker
<1>3. /\ w.expected <= w.revision /\ w.expected <= reg.revision
  BY DEF DiscoveryInv, ToldOK, WorkerOK, Floor
<1>4. /\ UpToDate(reg, n, current[n], peers[n])
      /\ UpToDate(reg, n, w.revision, w.reply)
      /\ current[n] <= w.revision
      /\ ~w.changed => w.revision = current[n]
      /\ w.pc = "saving"
  BY DEF PeerOK
<1> HIDE DEF w
<1>5. Acceptable(w)
  BY <1>2, <1>3, <1>4 DEF Acceptable
<1>6. CASE w.changed
  <2>1. SavedPeers(n, w) = [peers EXCEPT ![n] = w.reply]
    BY <1>5, <1>6 DEF SavedPeers
  <2>2. SavedPeers(n, w)[n] = w.reply /\ \A m \in Node \ {n} : SavedPeers(n, w)[m] = peers[m]
    BY <1>1, <2>1
  <2>3. /\ w.revision <= reg.revision
        /\ w.expected = reg.revision => w.revision = reg.revision
        /\ current[n] = reg.revision => w.revision = reg.revision
        /\ current[n] <= reg.revision
    BY <1>1, <1>2, <1>3, <1>4 DEF UpToDate
  <2>4. QED
    BY <1>3, <1>4, <2>2, <2>3 DEF UpToDate, w
<1>7. CASE ~w.changed
  <2>1. SavedPeers(n, w) = peers
    BY <1>7 DEF SavedPeers
  <2>2. /\ w.revision <= reg.revision
        /\ w.expected = reg.revision => current[n] = reg.revision
    BY <1>1, <1>2, <1>3, <1>4, <1>7 DEF UpToDate
  <2>3. QED
    BY <1>3, <1>4, <2>1, <2>2 DEF UpToDate, w
<1>8. QED
  BY <1>6, <1>7

\* Every step keeps peers.json and the replies up to date.
LEMMA PeersStep ==
    ASSUME DiscoveryInv, DiscoveryInv', PeersInv, [Next]_vars, Undisturbed
    PROVE  PeersInv'
<1>1. Moves(reg, reg') /\ ~MayCrash
  BY RegistryStep DEF Undisturbed
<1>2. /\ reg \in Stored /\ reg' \in Stored /\ reg.revision \in Nat /\ reg'.revision \in Nat
      /\ current \in [Node -> Nat] /\ peers \in [Node -> View]
      /\ work \in [Node -> Worker] /\ cli \in [Node -> Worker]
  BY DEF DiscoveryInv, DiscoveryTypeOK, Stored
<1>3. \A n \in Node : work[n].revision \in Nat /\ work[n].reply \in View /\ work[n].expected \in Nat
  BY <1>2 DEF Worker
<1>4. IdleWorker.pc = "idle"
  BY WorkerRecords
\* What a node keeps when nothing of it changes.
<1>5. ASSUME NEW n \in Node
      PROVE  /\ UpToDate(reg', n, current[n], peers[n])
             /\ work[n].pc = "saving" => UpToDate(reg', n, work[n].revision, work[n].reply)
  <2>1. PeerOK(n)
    BY DEF PeersInv
  <2>2. UpToDate(reg', n, current[n], peers[n])
    BY <1>1, <1>2, <2>1, UpToDateKept DEF PeerOK
  <2>3. ASSUME work[n].pc = "saving"
        PROVE  UpToDate(reg', n, work[n].revision, work[n].reply)
    BY <1>1, <1>2, <1>3, <2>1, <2>3, UpToDateKept DEF PeerOK
  <2>4. QED
    BY <2>2, <2>3
<1>6. ASSUME NEW n \in Node, current'[n] = current[n], peers'[n] = peers[n], work'[n] = work[n]
      PROVE  PeerOK(n)'
  BY <1>5, <1>6 DEF PeersInv, PeerOK
<1>7. ASSUME NEW n \in Node, UpToDate(reg', n, current'[n], peers'[n]), work'[n].pc # "saving"
      PROVE  PeerOK(n)'
  BY <1>7 DEF PeerOK
<1>8. SUFFICES (\A n \in Node : PeerOK(n)') /\ \A n \in Node : cli'[n].pc = "idle"
  BY DEF PeersInv
<1>9. CASE Tick
  <2> SUFFICES ASSUME NEW n \in Node
               PROVE  PeerOK(n)' /\ cli'[n].pc = "idle"
    OBVIOUS
  <2>1. /\ current'[n] = current[n] /\ peers'[n] = AgedEntries(peers[n])
        /\ work'[n] = [work[n] EXCEPT !.reply = AgedEntries(@)]
        /\ cli'[n] = [cli[n] EXCEPT !.reply = AgedEntries(@)]
    BY <1>9 DEF Tick
  <2>2. /\ work'[n].pc = work[n].pc /\ work'[n].revision = work[n].revision
        /\ work'[n].changed = work[n].changed /\ work'[n].reply = AgedEntries(work[n].reply)
    BY <1>2, <2>1, AgedWorker
  <2>3. cli'[n].pc = "idle"
    BY <1>2, <2>1, AgedWorker DEF PeersInv
  <2>4. UpToDate(reg', n, current'[n], peers'[n])
    BY <1>2, <1>5, <2>1, UpToDateAged
  <2>5. ASSUME work[n].pc = "saving"
        PROVE  UpToDate(reg', n, work'[n].revision, work'[n].reply)
    BY <1>2, <1>3, <1>5, <2>2, <2>5, UpToDateAged
  <2>6. PeerOK(n)
    BY DEF PeersInv
  <2>7. PeerOK(n)'
    BY <2>1, <2>2, <2>4, <2>5, <2>6 DEF PeerOK
  <2>8. QED
    BY <2>3, <2>7
<1>10. ASSUME NEW n \in Node, TakeRevision(n)
       PROVE  <1>8!1
  <2>1. PICK w : w = [IdleWorker EXCEPT !.pc = "asking", !.expected = chan[n]]
    OBVIOUS
  <2>2. w.pc = "asking"
    <3>1. chan[n] \in Nat
      BY <1>10 DEF TakeRevision, DiscoveryInv, DiscoveryTypeOK
    <3>2. QED
      BY <2>1, <3>1, WorkerRecords
  <2>3. /\ work' = work \/ work' = [work EXCEPT ![n] = w]
        /\ cli' = cli /\ current' = current /\ peers' = peers
    BY <1>10, <2>1 DEF TakeRevision
  <2>4. \A m \in Node : PeerOK(m)'
    BY <1>2, <1>5, <1>6, <1>7, <2>2, <2>3
  <2>5. QED
    BY <2>3, <2>4 DEF PeersInv
<1>11. ASSUME NEW n \in Node, WorkerFetch(n)
       PROVE  <1>8!1
  <2>1. PICK w : w = DiscoverReply(reg', n, work[n].expected, current[n])
    OBVIOUS
  <2>2. /\ work' = [work EXCEPT ![n] = w]
        /\ cli' = cli /\ current' = current /\ peers' = peers
    BY <1>11, <2>1 DEF WorkerFetch
  <2>3. \/ w = IdleWorker
        \/ /\ w.revision = reg'.revision
           /\ w.reply = NodesForDiscovery(reg', n)
           /\ ~w.changed => current[n] = reg'.revision
    BY <1>2, <1>3, <2>1, ReplyFacts
  <2>4. work'[n] = w /\ \A m \in Node \ {n} : work'[m] = work[m]
    BY <1>2, <2>2
  <2>5. UpToDate(reg', n, current'[n], peers'[n]) /\ current[n] <= reg'.revision
    BY <1>5, <2>2 DEF UpToDate
  <2>6. CASE w = IdleWorker
    BY <1>4, <1>6, <1>7, <2>2, <2>4, <2>5, <2>6 DEF PeersInv
  <2>7. CASE /\ w.revision = reg'.revision
             /\ w.reply = NodesForDiscovery(reg', n)
             /\ ~w.changed => current[n] = reg'.revision
    <3>1. UpToDate(reg', n, w.revision, w.reply)
      BY <1>2, <2>7 DEF UpToDate
    <3>2. PeerOK(n)'
      BY <2>2, <2>4, <2>5, <2>7, <3>1 DEF PeerOK
    <3>3. QED
      BY <1>6, <2>2, <2>4, <3>2 DEF PeersInv
  <2>8. QED
    BY <2>3, <2>6, <2>7
<1>12. ASSUME NEW n \in Node, WorkerSave(n)
       PROVE  <1>8!1
  <2>1. /\ work[n].pc = "saving" /\ work' = [work EXCEPT ![n] = IdleWorker]
        /\ peers' = SavedPeers(n, work[n])
        /\ current' = current \/ current' = [current EXCEPT ![n] = work[n].expected]
        /\ cli' = cli /\ reg' = reg
    BY <1>12 DEF WorkerSave
  <2>2. /\ UpToDate(reg', n, work[n].expected, peers'[n])
        /\ UpToDate(reg', n, current[n], peers'[n])
        /\ \A m \in Node \ {n} : peers'[m] = peers[m]
    BY <1>1, <2>1, SaveUpToDate DEF PeersInv
  <2>3. /\ work'[n] = IdleWorker /\ \A m \in Node \ {n} : work'[m] = work[m]
        /\ current'[n] \in {current[n], work[n].expected}
        /\ \A m \in Node \ {n} : current'[m] = current[m]
    BY <1>2, <2>1
  <2>4. UpToDate(reg', n, current'[n], peers'[n])
    BY <2>2, <2>3
  <2>5. \A m \in Node : PeerOK(m)'
    BY <1>4, <1>6, <1>7, <2>2, <2>3, <2>4
  <2>6. QED
    BY <2>1, <2>5 DEF PeersInv
<1>13. ASSUME NEW n \in Node, NodeRestart(n)
       PROVE  <1>8!1
  <2>1. /\ work' = [work EXCEPT ![n] = IdleWorker]
        /\ peers' = peers \/ peers' = SavedPeers(n, work[n])
        /\ current' = current /\ cli' = cli /\ reg' = reg
    BY <1>13 DEF NodeRestart
  <2>2. /\ UpToDate(reg', n, current'[n], peers'[n])
        /\ \A m \in Node \ {n} : peers'[m] = peers[m]
    <3>1. CASE peers' = peers
      BY <1>5, <2>1, <3>1
    <3>2. CASE peers' = SavedPeers(n, work[n]) /\ work[n].pc = "saving"
      BY <1>1, <2>1, <3>2, SaveUpToDate DEF PeersInv
    <3>3. CASE peers' = SavedPeers(n, work[n]) /\ work[n].pc # "saving"
      <4>1. peers' = peers
        BY <3>3 DEF SavedPeers, Acceptable
      <4>2. QED
        BY <1>5, <2>1, <4>1
    <3>4. QED
      BY <2>1, <3>1, <3>2, <3>3
  <2>3. work'[n] = IdleWorker /\ \A m \in Node \ {n} : work'[m] = work[m]
    BY <1>2, <2>1
  <2>4. \A m \in Node : PeerOK(m)'
    BY <1>4, <1>6, <1>7, <2>1, <2>2, <2>3
  <2>5. QED
    BY <2>1, <2>4 DEF PeersInv
<1>14. ASSUME NEW n \in Node, SyncHeartbeat(n) \/ SyncFetch(n) \/ SyncSave(n)
       PROVE  FALSE
  <2>1. cli[n].pc = "idle" /\ CliSync = {}
    BY DEF PeersInv, Undisturbed
  <2>2. QED
    BY <1>14, <2>1 DEF SyncHeartbeat, SyncFetch, SyncSave
<1>15. CASE UNCHANGED <<work, cli, current, peers>>
  BY <1>6, <1>15 DEF PeersInv
<1>16. QED
  BY <1>9, <1>10, <1>11, <1>12, <1>13, <1>14, <1>15
     DEF Next, vars, clientVars, Heartbeat, HeartbeatLost, TopologyChanges, RevokeNode,
         OtherHandler, CoordinatorRestart

\* While nobody is revoked, the coordinator does not restart and no sync command
\* runs: a node that knows the coordinator's revision, and so will not fetch, has
\* the coordinator's topology in peers.json.
THEOREM PeersAreCurrent ==
    ASSUME Undisturbed
    PROVE  Spec => []PeersCurrent
<1>1. Init => PeersInv
  <2> SUFFICES ASSUME Init PROVE PeersInv
    OBVIOUS
  <2>1. PICK none : none = [n \in Node |-> NotListed]
    OBVIOUS
  <2>2. reg = [nodes |-> none, revision |-> 0, authorized |-> Node]
    BY <2>1 DEF Init
  <2>3. /\ reg.nodes = none /\ reg.revision = 0
        /\ \A n \in Node : peers[n] = none /\ current[n] = 0
        /\ \A n \in Node : work[n] = IdleWorker /\ cli[n] = IdleWorker
    BY <2>1, <2>2 DEF Init
  <2>4. \A m \in Node : ~Listed(reg, m)
    BY <2>1, <2>3 DEF Listed, NotListed
  <2>5. \A n \in Node : NodesForDiscovery(reg, n) = none
    BY <2>1, <2>4 DEF NodesForDiscovery
  <2>6. IdleWorker.pc = "idle"
    BY WorkerRecords
  <2>7. \A n \in Node : UpToDate(reg, n, current[n], peers[n])
    BY <2>3, <2>5 DEF UpToDate
  <2>8. QED
    BY <2>3, <2>6, <2>7 DEF PeersInv, PeerOK
<1>2. DiscoveryInv /\ DiscoveryInv' /\ PeersInv /\ [Next]_vars => PeersInv'
  BY PeersStep
<1>3. DiscoveryInv /\ PeersInv => PeersCurrent
  <2> SUFFICES ASSUME DiscoveryInv, PeersInv, NEW n \in Node,
                      current[n] = CleanedNodes(reg).revision
               PROVE  TopologyOf(peers[n]) = TopologyOf(NodesForDiscovery(CleanedNodes(reg), n))
    BY DEF PeersCurrent
  <2>1. reg \in Stored /\ UpToDate(reg, n, current[n], peers[n]) /\ current[n] \in Nat
    BY DEF DiscoveryInv, DiscoveryTypeOK, PeersInv, PeerOK
  <2>2. CleanedNodes(reg) \in Stored /\ Moves(reg, CleanedNodes(reg))
    BY CleanedMoves DEF DiscoveryInv
  <2>3. UpToDate(CleanedNodes(reg), n, current[n], peers[n])
    BY <2>1, <2>2, UpToDateKept
  <2>4. QED
    BY <2>3 DEF UpToDate
<1>4. QED
  BY <1>1, <1>2, <1>3, DiscoveryInvariant, PTL DEF Spec

===============================================================================
