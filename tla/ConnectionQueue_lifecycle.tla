---------------------- MODULE ConnectionQueue_lifecycle ----------------------
(* Proofs about what the queue promises over a restart: its capacities, one  *)
(* outcome per request, and the refinement of ConnectionLifecycle.           *)
EXTENDS ConnectionQueue_proofs

-----------------------------------------------------------------------------
(* The capacities *)

Stored(m) == {r \in Request : m.conns[r].state # "absent"}

LiveFor(m, t) == {r \in RequestsTo(t) : m.conns[r].state \in Live}

\* The capacities of createConnection hold in a state, of memory or file.
Bounded(m) ==
    /\ Cardinality(Stored(m)) <= ConnectionMax
    /\ \A t \in Node : Cardinality(LiveFor(m, t)) <= MaxPerTarget

\* The inductive invariant: a restart must not bring back too many either.
BoundedInv == Bounded(mem) /\ Bounded(disk)

\* The sets that the capacities count are finite.
LEMMA CountedSets ==
    ASSUME NEW m, NEW t
    PROVE  /\ IsFiniteSet(Stored(m)) /\ Cardinality(Stored(m)) \in Nat
           /\ IsFiniteSet(LiveFor(m, t)) /\ Cardinality(LiveFor(m, t)) \in Nat
<1>1. Stored(m) \in SUBSET Request /\ LiveFor(m, t) \in SUBSET Request
  BY DEF Stored, LiveFor, RequestsTo
<1>2. IsFiniteSet(Stored(m)) /\ IsFiniteSet(LiveFor(m, t))
  BY <1>1, SetAssumption, FS_Subset
<1>3. QED
  BY <1>2, FS_CardinalityType

\* A state that stores nothing new and revives nothing is bounded as well.
LEMMA BoundedShrinks ==
    ASSUME NEW m, Bounded(m), NEW n,
           \A r \in Request : /\ n.conns[r].state # "absent" => m.conns[r].state # "absent"
                              /\ n.conns[r].state \in Live => m.conns[r].state \in Live
    PROVE  Bounded(n)
<1>1. Stored(n) \in SUBSET Stored(m) /\ \A t \in Node : LiveFor(n, t) \in SUBSET LiveFor(m, t)
  BY DEF Stored, LiveFor, RequestsTo
<1>2. Cardinality(Stored(n)) <= ConnectionMax
  <2>1. Cardinality(Stored(n)) <= Cardinality(Stored(m))
    BY <1>1, CountedSets, FS_Subset
  <2>2. Cardinality(Stored(m)) <= ConnectionMax
    BY DEF Bounded
  <2>3. Cardinality(Stored(n)) \in Nat /\ Cardinality(Stored(m)) \in Nat /\ ConnectionMax \in Nat
    BY CountedSets, BoundAssumption
  <2>4. QED
    BY <2>1, <2>2, <2>3
<1>3. ASSUME NEW t \in Node
      PROVE  Cardinality(LiveFor(n, t)) <= MaxPerTarget
  <2>1. Cardinality(LiveFor(n, t)) <= Cardinality(LiveFor(m, t))
    BY <1>1, CountedSets, FS_Subset
  <2>2. Cardinality(LiveFor(m, t)) <= MaxPerTarget
    BY DEF Bounded
  <2>3. /\ Cardinality(LiveFor(n, t)) \in Nat /\ Cardinality(LiveFor(m, t)) \in Nat
        /\ MaxPerTarget \in Nat
    BY CountedSets, BoundAssumption
  <2>4. QED
    BY <2>1, <2>2, <2>3
<1>4. QED
  BY <1>2, <1>3 DEF Bounded

\* A request that is let in takes the room that was checked.
LEMMA EnqueuedBounded ==
    ASSUME NEW m \in State, Bounded(m), NEW r \in Request, HasRoom(m, TargetOf[r])
    PROVE  Bounded(Enqueued(m, r))
<1> DEFINE n == Enqueued(m, r)
<1>1. /\ n.conns[r].state = "queued"
      /\ \A q \in Request : q # r => n.conns[q] = m.conns[q]
  BY DEF Enqueued, Queued, State
<1> HIDE DEF n
<1>2. Stored(n) = Stored(m) \cup {r}
  BY <1>1 DEF Stored
<1>3. LiveFor(n, TargetOf[r]) = LiveFor(m, TargetOf[r]) \cup {r}
  BY <1>1 DEF LiveFor, RequestsTo, Live
<1>4. \A t \in Node : t # TargetOf[r] => LiveFor(n, t) = LiveFor(m, t)
  BY <1>1 DEF LiveFor, RequestsTo
<1>5. /\ Cardinality(Stored(n)) <= Cardinality(Stored(m)) + 1
      /\ Cardinality(LiveFor(n, TargetOf[r])) <= Cardinality(LiveFor(m, TargetOf[r])) + 1
  <2>1. /\ IsFiniteSet(Stored(m)) /\ Cardinality(Stored(m)) \in Nat
        /\ IsFiniteSet(LiveFor(m, TargetOf[r])) /\ Cardinality(LiveFor(m, TargetOf[r])) \in Nat
    BY CountedSets
  <2>2. Cardinality(Stored(n)) = IF r \in Stored(m) THEN Cardinality(Stored(m))
                                 ELSE Cardinality(Stored(m)) + 1
    BY <1>2, <2>1, FS_AddElement
  <2>3. Cardinality(LiveFor(n, TargetOf[r])) =
            IF r \in LiveFor(m, TargetOf[r]) THEN Cardinality(LiveFor(m, TargetOf[r]))
            ELSE Cardinality(LiveFor(m, TargetOf[r])) + 1
    BY <1>3, <2>1, FS_AddElement
  <2>4. QED
    BY <2>1, <2>2, <2>3
<1>6. /\ Cardinality(Stored(m)) < ConnectionMax
      /\ Cardinality(LiveFor(m, TargetOf[r])) < MaxPerTarget
  BY DEF HasRoom, Stored, LiveFor
<1>7. /\ Cardinality(Stored(m)) \in Nat /\ Cardinality(Stored(n)) \in Nat
      /\ Cardinality(LiveFor(m, TargetOf[r])) \in Nat
      /\ Cardinality(LiveFor(n, TargetOf[r])) \in Nat
      /\ ConnectionMax \in Nat /\ MaxPerTarget \in Nat
  BY CountedSets, BoundAssumption
<1>8. /\ Cardinality(Stored(n)) <= ConnectionMax
      /\ Cardinality(LiveFor(n, TargetOf[r])) <= MaxPerTarget
  BY <1>5, <1>6, <1>7
<1>9. Bounded(n)
  BY <1>4, <1>8 DEF Bounded
<1>10. QED
  BY <1>9 DEF n

\* What a handler stores after cleanup is bounded.
LEMMA HandlerBounded ==
    ASSUME NEW m \in State, Bounded(m), NEW new, StoredFrom(m, new)
    PROVE  Bounded(new)
<1>1. CASE new = m
  BY <1>1
<1>2. ASSUME NEW r \in Request, HasRoom(m, TargetOf[r]), new = Enqueued(m, r)
      PROVE  Bounded(new)
  BY <1>2, EnqueuedBounded
<1>3. ASSUME NEW batch \in SUBSET {r \in Request : m.conns[r].state = "queued"},
             new = OfferedState(m, batch)
      PROVE  Bounded(new)
  <2>1. \A r \in Request : /\ new.conns[r].state # "absent" => m.conns[r].state # "absent"
                           /\ new.conns[r].state \in Live => m.conns[r].state \in Live
    BY <1>3 DEF OfferedState, Offered, State, Live
  <2>2. QED
    BY <2>1, BoundedShrinks
<1>4. ASSUME NEW r \in Request, NEW s \in Terminal, m.conns[r].state \in Live,
             new = SettledState(m, r, s)
      PROVE  Bounded(new)
  <2>1. \A q \in Request : /\ new.conns[q].state # "absent" => m.conns[q].state # "absent"
                           /\ new.conns[q].state \in Live => m.conns[q].state \in Live
    BY <1>4 DEF SettledState, Settled, State, Live
  <2>2. QED
    BY <2>1, BoundedShrinks
<1>5. QED
  BY <1>1, <1>2, <1>3, <1>4 DEF StoredFrom

\* Cleanup, time and acknowledgements let nothing in.
LEMMA NeutralBounded ==
    ASSUME NEW m \in State, Bounded(m)
    PROVE  /\ \A order : Bounded(Cleaned(m, order))
           /\ Bounded(AgedState(m))
           /\ \A f : Bounded([m EXCEPT !.acks = f])
<1>1. ASSUME NEW order
      PROVE  Bounded(Cleaned(m, order))
  <2>1. ASSUME NEW r \in Request
        PROVE  /\ Cleaned(m, order).conns[r].state # "absent" => m.conns[r].state # "absent"
               /\ Cleaned(m, order).conns[r].state \in Live => m.conns[r].state \in Live
    BY CleanedPhase DEF Live
  <2>2. QED
    BY <2>1, BoundedShrinks
<1>2. Bounded(AgedState(m))
  <2>1. \A r \in Request : AgedState(m).conns[r].state = m.conns[r].state
    BY DEF AgedState, Aged, State
  <2>2. QED
    BY <2>1, BoundedShrinks
<1>3. ASSUME NEW f
      PROVE  Bounded([m EXCEPT !.acks = f])
  <2>1. PICK n : n = [m EXCEPT !.acks = f]
    OBVIOUS
  <2>2. n.conns = m.conns
    BY <2>1 DEF State
  <2>3. Bounded(n)
    BY <2>2, BoundedShrinks
  <2>4. QED
    BY <2>1, <2>3
<1>4. QED
  BY <1>1, <1>2, <1>3

\* The capacities hold in memory and in the file in every environment: whatever
\* writes fail, a restart brings back no more than was let in.
THEOREM CapacityHolds == Spec => []QueueBounded
<1>1. Init => BoundedInv
  <2>1. Stored(EmptyState) = {} /\ \A t \in Node : LiveFor(EmptyState, t) = {}
    BY DEF Stored, LiveFor, EmptyState, Absent, Live, RequestsTo
  <2>2. Cardinality({}) = 0
    BY FS_EmptySet
  <2>3. Bounded(EmptyState)
    BY <2>1, <2>2, BoundAssumption DEF Bounded
  <2>4. QED
    BY <2>3 DEF Init, BoundedInv
<1>2. ASSUME TypeOK, BoundedInv, [Next]_vars
      PROVE  BoundedInv'
  <2>1. mem \in State /\ disk \in State /\ Bounded(mem) /\ Bounded(disk)
    BY <1>2 DEF TypeOK, BoundedInv
  <2>2. ASSUME mem' = AgedState(mem), disk' = AgedState(disk)
        PROVE  Bounded(mem') /\ Bounded(disk')
    BY <2>1, <2>2, NeutralBounded
  <2>3. ASSUME HandlerStep
        PROVE  Bounded(mem') /\ Bounded(disk')
    <3>1. PICK order \in RequeueOrders(mem) :
              /\ StoredFrom(Cleaned(mem, order), mem')
              /\ disk' \in {disk, Cleaned(mem, order), mem'}
      BY <2>3 DEF HandlerStep
    <3>2. PICK c : c = Cleaned(mem, order)
      OBVIOUS
    <3>3. c \in State /\ Bounded(c)
      BY <2>1, <3>2, CleanedType, NeutralBounded
    <3>4. Bounded(mem')
      BY <3>1, <3>2, <3>3, HandlerBounded
    <3>5. QED
      BY <2>1, <3>1, <3>2, <3>3, <3>4
  <2>4. ASSUME AckStep
        PROVE  Bounded(mem') /\ Bounded(disk')
    BY <2>1, <2>4, NeutralBounded DEF AckStep
  <2>5. QED
    BY <1>2, <2>1, <2>2, <2>3, <2>4, StateStep DEF BoundedInv
<1>3. BoundedInv => QueueBounded
  BY DEF BoundedInv, Bounded, Stored, LiveFor, QueueBounded
<1>4. QED
  BY <1>1, <1>2, <1>3, TypeCorrect, PTL DEF Spec

-----------------------------------------------------------------------------
(* Phases *)

\* What a state m that knows of r says has become of it, when the identifiers d
\* have been drawn.
PhaseIn(m, r, d) ==
    IF m.conns[r].state = "absent" THEN (IF r \in d THEN "gone" ELSE "new")
    ELSE IF m.conns[r].state \notin Live THEN m.conns[r].state
    ELSE IF m.conns[r].ttl = 0 THEN "expired" ELSE "live"

\* The durable state d is behind the memory m by nothing but cleanup that was
\* not written: requeueing, expiry of what is overdue, and retirement.
BehindByCleanup(d, m, r) ==
    \/ d.conns[r].state = "absent" /\ m.conns[r].state = "absent"
    \/ /\ d.conns[r].state \in Live /\ m.conns[r].state \in Live
       /\ d.conns[r].ttl = m.conns[r].ttl
    \/ d.conns[r].state \in Terminal /\ m.conns[r].state \in {d.conns[r].state, "absent"}
    \/ /\ d.conns[r].state \in Live /\ d.conns[r].ttl = 0
       /\ m.conns[r].state \in {"expired", "absent"}

\* No write that a restart could uncover fails.
WritesHold == ~PersistMayFail \/ ~MayCrash

\* What callers were told is the outcome, which may have been retired since.
ToldOutcome(r) ==
    \/ reported[r] = {}
    \/ \E s \in Terminal : reported[r] = {s} /\ PhaseIn(Durable, r, minted) \in {s, "gone"}

\* The inductive invariant of the refinement.
OutcomeInv ==
    \A r \in Request : BehindByCleanup(Durable, mem, r) /\ ToldOutcome(r)

\* A phase as the lifecycle knows it.
LEMMA PhaseType ==
    ASSUME NEW m \in State, NEW r \in Request, NEW d
    PROVE  PhaseIn(m, r, d) \in {"new", "live", "gone"} \cup Terminal
<1>1. m.conns[r].state \in Live \cup Terminal \cup {"absent"}
  BY DEF State, Connection
<1>2. QED
  BY <1>1 DEF PhaseIn, Terminal

\* The phases that the refinement mapping shows.
LEMMA DurablePhaseIs ==
    ASSUME NEW r \in Request
    PROVE  DurablePhase(r) = PhaseIn(Durable, r, minted)
<1>1. PICK c : c = Durable.conns[r]
  OBVIOUS
<1>2. CASE c.state = "absent"
  BY <1>1, <1>2 DEF DurablePhase, PhaseIn, Live
<1>3. CASE c.state \in Live /\ c.ttl = 0
  BY <1>1, <1>3 DEF DurablePhase, PhaseIn, Live
<1>4. CASE c.state \in Live /\ c.ttl # 0
  BY <1>1, <1>4 DEF DurablePhase, PhaseIn, Live
<1>5. CASE c.state # "absent" /\ c.state \notin Live
  BY <1>1, <1>5 DEF DurablePhase, PhaseIn
<1>6. QED
  BY <1>2, <1>3, <1>4, <1>5

\* The mapping, for all requests.
PhasesMapped == \A r \in Request : DurablePhase(r) = PhaseIn(Durable, r, minted)

\* The mapping before and after a step.
LEMMA PhasesMappedNext == PhasesMapped /\ PhasesMapped'
<1>1. PhasesMapped
  BY DurablePhaseIs DEF PhasesMapped
<1>2. QED
  BY <1>1, PTL

\* A request stays in its phase or goes on as the lifecycle allows.
GoesOn(p, q) ==
    \/ q = p
    \/ p = "new" /\ q = "live"
    \/ p = "live" /\ q \in Terminal
    \/ p \in Terminal /\ q = "gone"

\* What is behind by cleanup is in the same phase, or not retired yet.
LEMMA BehindPhase ==
    ASSUME NEW d \in State, NEW m \in State, NEW r \in Request, NEW drawn,
           BehindByCleanup(d, m, r), d.conns[r].state # "absent" => r \in drawn
    PROVE  \/ PhaseIn(d, r, drawn) = PhaseIn(m, r, drawn)
           \/ PhaseIn(d, r, drawn) \in Terminal /\ PhaseIn(m, r, drawn) = "gone"
BY DEF BehindByCleanup, PhaseIn, Live, Terminal

\* A request that cleanup requeues keeps its time.
LEMMA RequeuedConn ==
    ASSUME NEW m, NEW order, NEW r \in Request, r \in LeaseEnded(m)
    PROVE  /\ Cleaned(m, order).conns[r].state = "queued"
           /\ Cleaned(m, order).conns[r].ttl = m.conns[r].ttl
           /\ m.conns[r].state = "offered" /\ m.conns[r].ttl # 0
<1>1. Cleaned(m, order).conns[r] = Queued(m.cursors[TargetOf[r]] + order[r], m.conns[r].ttl)
  BY CleanedConn
<1>2. \A c, ttl : Queued(c, ttl).state = "queued" /\ Queued(c, ttl).ttl = ttl
  BY DEF Queued
<1>3. QED
  BY <1>1, <1>2 DEF LeaseEnded

\* A state is not behind itself, and cleanup of the memory leaves the file behind
\* by cleanup.
LEMMA BehindKept ==
    ASSUME NEW d \in State, NEW m \in State, NEW r \in Request
    PROVE  /\ BehindByCleanup(m, m, r)
           /\ \A order \in RequeueOrders(m) :
                 BehindByCleanup(d, m, r) => BehindByCleanup(d, Cleaned(m, order), r)
           /\ BehindByCleanup(d, m, r) => BehindByCleanup(AgedState(d), AgedState(m), r)
<1>1. /\ m.conns[r] \in Connection /\ d.conns[r] \in Connection
      /\ m.conns[r].state \in Live \cup Terminal \cup {"absent"}
  BY DEF State, Connection
<1>2. BehindByCleanup(m, m, r)
  BY <1>1 DEF BehindByCleanup
<1>3. ASSUME NEW order \in RequeueOrders(m), BehindByCleanup(d, m, r)
      PROVE  BehindByCleanup(d, Cleaned(m, order), r)
  <2> DEFINE c == Cleaned(m, order).conns[r]
  <2>1. CASE r \in Overdue(m)
    <3>1. c.state = "expired" /\ m.conns[r].state \in Live /\ m.conns[r].ttl = 0
      BY <2>1, CleanedPhase DEF Overdue
    <3>2. QED
      BY <1>3, <3>1 DEF BehindByCleanup, Live, Terminal
  <2>2. CASE r \in LeaseEnded(m)
    <3>1. c.state = "queued" /\ m.conns[r].state = "offered" /\ c.ttl = m.conns[r].ttl
      BY <2>2, RequeuedConn
    <3>2. QED
      BY <1>3, <3>1 DEF BehindByCleanup, Live, Terminal
  <2>3. CASE r \in Retired(m)
    <3>1. c.state = "absent" /\ m.conns[r].state \in Terminal
      BY <2>3, CleanedPhase
    <3>2. QED
      BY <1>3, <3>1 DEF BehindByCleanup, Live, Terminal
  <2>4. CASE r \notin Overdue(m) \cup LeaseEnded(m) \cup Retired(m)
    <3>1. c = m.conns[r]
      BY <2>4, CleanedConn
    <3>2. QED
      BY <1>3, <3>1 DEF BehindByCleanup
  <2>5. QED
    BY <2>1, <2>2, <2>3, <2>4
<1>4. ASSUME BehindByCleanup(d, m, r)
      PROVE  BehindByCleanup(AgedState(d), AgedState(m), r)
  <2>1. \A n \in State : /\ AgedState(n).conns[r].state = n.conns[r].state
                         /\ AgedState(n).conns[r].ttl = Less(n.conns[r].ttl)
    BY DEF AgedState, Aged, State
  <2>2. Less(0) = 0
    BY DEF Less
  <2>3. QED
    BY <1>4, <2>1, <2>2 DEF BehindByCleanup
<1>5. QED
  BY <1>2, <1>3, <1>4

\* Time only expires.
LEMMA AgedGoesOn ==
    ASSUME NEW m \in State, NEW r \in Request, NEW drawn
    PROVE  GoesOn(PhaseIn(m, r, drawn), PhaseIn(AgedState(m), r, drawn))
<1>1. /\ AgedState(m).conns[r].state = m.conns[r].state
      /\ AgedState(m).conns[r].ttl = Less(m.conns[r].ttl)
  BY DEF AgedState, Aged, State
<1>2. Less(0) = 0
  BY DEF Less
<1>3. QED
  BY <1>1, <1>2 DEF GoesOn, PhaseIn, Terminal

\* Cleanup leaves no request that is live and overdue.
LEMMA CleanedLive ==
    ASSUME NEW m \in State, NEW order \in RequeueOrders(m), NEW r \in Request,
           Cleaned(m, order).conns[r].state \in Live
    PROVE  Cleaned(m, order).conns[r].ttl # 0
<1>1. r \notin Overdue(m) /\ r \notin Retired(m)
  BY CleanedPhase DEF Live
<1>2. CASE r \in LeaseEnded(m)
  BY <1>2, RequeuedConn
<1>3. CASE r \notin LeaseEnded(m)
  <2>1. Cleaned(m, order).conns[r] = m.conns[r]
    BY <1>1, <1>3, CleanedConn
  <2>2. QED
    BY <1>1, <2>1 DEF Overdue
<1>4. QED
  BY <1>2, <1>3

\* A write of what a handler stored after cleanup takes the durable state d on as
\* the lifecycle allows.
LEMMA WriteGoesOn ==
    ASSUME NEW d \in State, NEW m \in State, NEW order \in RequeueOrders(m),
           NEW new \in State, StoredFrom(Cleaned(m, order), new), NEW r \in Request,
           BehindByCleanup(d, m, r), d.conns[r].state # "absent" => r \in minted,
           minted \subseteq minted', r \in minted' \ minted => new.conns[r].state # "absent"
    PROVE  GoesOn(PhaseIn(d, r, minted), PhaseIn(new, r, minted'))
<1>1. PICK c : c = Cleaned(m, order)
  OBVIOUS
<1>2. c \in State /\ BehindByCleanup(d, c, r)
  BY <1>1, CleanedType, BehindKept
<1>3. c.conns[r].state \in Live => c.conns[r].ttl # 0
  BY <1>1, CleanedLive
<1>4. \/ PhaseIn(d, r, minted) = PhaseIn(c, r, minted)
      \/ PhaseIn(d, r, minted) \in Terminal /\ PhaseIn(c, r, minted) = "gone"
  BY <1>2, BehindPhase
<1>5. c.conns[r].state # "absent" => r \in minted
  BY <1>2 DEF BehindByCleanup, Live, Terminal
\* A request that the handler does not change goes on by cleanup alone.
<1>6. ASSUME \/ new.conns[r].state = c.conns[r].state
             \/ new.conns[r].state \in Live /\ c.conns[r].state \in Live,
             new.conns[r].ttl = c.conns[r].ttl
      PROVE  GoesOn(PhaseIn(d, r, minted), PhaseIn(new, r, minted'))
  <2>1. new.conns[r].state = "absent" <=> c.conns[r].state = "absent"
    BY <1>6 DEF Live
  <2>2. r \in minted' => r \in minted
    BY <1>5, <2>1
  <2>3. PhaseIn(new, r, minted') = PhaseIn(c, r, minted)
    BY <1>6, <2>1, <2>2 DEF PhaseIn
  <2>4. QED
    BY <1>4, <2>3 DEF GoesOn
<1>7. CASE new = c
  BY <1>6, <1>7
<1>8. ASSUME NEW q \in Request \ minted, new = Enqueued(c, q)
      PROVE  GoesOn(PhaseIn(d, r, minted), PhaseIn(new, r, minted'))
  <2>1. CASE q # r
    <3>1. new.conns[r] = c.conns[r]
      BY <1>2, <1>8, <2>1 DEF Enqueued, State
    <3>2. QED
      BY <1>6, <3>1
  <2>2. CASE q = r
    <3>1. new.conns[r].state = "queued" /\ new.conns[r].ttl = TTL
      BY <1>2, <1>8, <2>2 DEF Enqueued, Queued, State
    <3>2. PhaseIn(new, r, minted') = "live"
      BY <3>1, TimeAssumption DEF PhaseIn, Live
    <3>3. PhaseIn(d, r, minted) = "new"
      BY <2>2 DEF PhaseIn
    <3>4. QED
      BY <3>2, <3>3 DEF GoesOn
  <2>3. QED
    BY <2>1, <2>2
<1>9. ASSUME NEW batch \in SUBSET {q \in Request : c.conns[q].state = "queued"},
             new = OfferedState(c, batch)
      PROVE  GoesOn(PhaseIn(d, r, minted), PhaseIn(new, r, minted'))
  <2>1. CASE r \in batch
    <3>1. /\ new.conns[r].state = "offered" /\ c.conns[r].state = "queued"
          /\ new.conns[r].ttl = c.conns[r].ttl
      BY <1>2, <1>9, <2>1 DEF OfferedState, Offered, State
    <3>2. QED
      BY <1>6, <3>1 DEF Live
  <2>2. CASE r \notin batch
    <3>1. new.conns[r] = c.conns[r]
      BY <1>2, <1>9, <2>2 DEF OfferedState, State
    <3>2. QED
      BY <1>6, <3>1
  <2>3. QED
    BY <2>1, <2>2
<1>10. ASSUME NEW q \in Request, NEW s \in Terminal, c.conns[q].state \in Live,
              new = SettledState(c, q, s)
       PROVE  GoesOn(PhaseIn(d, r, minted), PhaseIn(new, r, minted'))
  <2>1. CASE q # r
    <3>1. new.conns[r] = c.conns[r]
      BY <1>2, <1>10, <2>1 DEF SettledState, State
    <3>2. QED
      BY <1>6, <3>1
  <2>2. CASE q = r
    <3>1. new.conns[r].state = s
      BY <1>2, <1>10, <2>2 DEF SettledState, Settled, State
    <3>2. PhaseIn(new, r, minted') = s
      BY <3>1 DEF PhaseIn, Live, Terminal
    <3>3. PhaseIn(c, r, minted) = "live"
      BY <1>3, <1>10, <2>2 DEF PhaseIn, Live
    <3>4. QED
      BY <1>4, <3>2, <3>3 DEF GoesOn
  <2>3. QED
    BY <2>1, <2>2
<1>11. StoredFrom(c, new)
  BY <1>1
<1>12. QED
  BY <1>7, <1>8, <1>9, <1>10, <1>11 DEF StoredFrom

-----------------------------------------------------------------------------
(* One outcome *)

\* The inbox handlers draw no identifier and report no outcome.
LEMMA InboxQuiet ==
    ASSUME NEW t \in Node, Inbox(t) \/ InboxTimeout(t) \/ AckConnectionInbox(t)
    PROVE  minted' = minted /\ reported' = reported
<1>1. ASSUME InboxDeliver(t)
      PROVE  minted' = minted /\ reported' = reported
  <2>1. PICK m, batch, last, ok, heard : DeliverBatch(t, m, batch, last, ok, heard)
    BY <1>1 DEF InboxDeliver
  <2>2. QED
    BY <2>1 DEF DeliverBatch
<1>2. CASE InboxRegister(t) \/ InboxPark(t) \/ InboxTimeout(t) \/ AckConnectionInbox(t)
  BY <1>2 DEF InboxRegister, InboxPark, InboxTimeout, AckConnectionInbox
<1>3. QED
  BY <1>1, <1>2 DEF Inbox

\* An identifier that a step draws is stored by it.
LEMMA DrawnIsStored ==
    ASSUME TypeOK, [Next]_vars, NEW r \in minted' \ minted
    PROVE  mem'.conns[r].state = "queued"
<1>1. ASSUME NEW q \in Request, CreateAdmitted(q)
      PROVE  mem'.conns[r].state = "queued"
  <2>1. PICK order \in RequeueOrders(mem), changed \in CleanupOutcomes, ok \in PersistOutcomes :
            CreateAdmitted(q)!(order, changed, ok)
    BY <1>1 DEF CreateAdmitted
  <2>2. PICK c : c = Cleaned(mem, order)
    OBVIOUS
  <2>3. c \in State
    BY <2>2, CleanedType DEF TypeOK
  <2>4. r = q /\ mem' = Enqueued(c, q)
    BY <2>1, <2>2
  <2>5. QED
    BY <2>3, <2>4 DEF Enqueued, Queued, State
<1>2. CASE minted' = minted
  BY <1>2
<1>3. ASSUME \E q \in Request : DecideConnection(q) \/ CancelConnection(q)
      PROVE  minted' = minted
  BY <1>3 DEF DecideConnection, CancelConnection, Settle
<1>4. ASSUME \E q \in Request : Status(q) \/ StatusCall(q) \/ StatusTimeout(q) \/ SettleRepeated(q)
      PROVE  minted' = minted
  BY <1>4 DEF Status, StatusGone, StatusAnswer, StatusPark, StatusCall, StatusTimeout, SettleRepeated
<1>5. ASSUME \E t \in Node : Inbox(t) \/ InboxTimeout(t) \/ AckConnectionInbox(t)
      PROVE  minted' = minted
  BY <1>5, InboxQuiet
<1>6. ASSUME Tick \/ DiscoverNodes \/ UpdateNode \/ RevokeNode \/ Refused \/ Restart \/ UNCHANGED vars
      PROVE  minted' = minted
  BY <1>6 DEF Tick, DiscoverNodes, UpdateNode, RevokeNode, Refused, Restart, vars
<1>7. ASSUME \E k \in Node \X Key : CreateReplayed(k)
      PROVE  minted' = minted
  BY <1>7 DEF CreateReplayed
<1>8. QED
  BY <1>1, <1>2, <1>3, <1>4, <1>5, <1>6, <1>7 DEF Next

\* What a caller hears in a step is the outcome in the memory.
HeardIn(r) ==
    \/ reported'[r] = reported[r]
    \/ /\ mem'.conns[r].state \in Terminal
       /\ reported'[r] = reported[r] \cup {mem'.conns[r].state}

\* A reply shows the state it was given.
LEMMA ReplyHeard ==
    ASSUME TypeOK, NEW q \in Request, NEW s, mem'.conns[q].state = s, Reply(q, s),
           NEW r \in Request
    PROVE  HeardIn(r)
BY DEF Reply, HeardIn, TypeOK

\* Callers hear what the memory holds when the step ends.
LEMMA HeardIsStored ==
    ASSUME TypeOK, [Next]_vars, NEW r \in Request
    PROVE  HeardIn(r)
<1>1. CASE reported' = reported
  BY <1>1 DEF HeardIn
<1>2. ASSUME NEW k \in Node \X Key, CreateReplayed(k)
      PROVE  HeardIn(r)
  <2>1. PICK order \in RequeueOrders(mem), changed \in CleanupOutcomes :
            CreateReplayed(k)!(order, changed)
    BY <1>2 DEF CreateReplayed
  <2>2. PICK m : m = Cleaned(mem, order)
    OBVIOUS
  <2>3. m \in State
    BY <2>2, CleanedType DEF TypeOK
  <2>4. /\ m.idem[k] # NoRequest /\ mem' = m
        /\ Reply(m.idem[k], m.conns[m.idem[k]].state)
    BY <2>1, <2>2 DEF CleanupWith
  <2>5. m.idem[k] \in Request
    BY <2>3, <2>4 DEF State
  <2>6. QED
    BY <2>4, <2>5, ReplyHeard
<1>3. ASSUME NEW q \in Request, SettleRepeated(q)
      PROVE  HeardIn(r)
  <2>1. PICK order \in RequeueOrders(mem), changed \in CleanupOutcomes :
            SettleRepeated(q)!(order, changed)
    BY <1>3 DEF SettleRepeated
  <2>2. mem' = Cleaned(mem, order) /\ Reply(q, Cleaned(mem, order).conns[q].state)
    BY <2>1 DEF CleanupWith
  <2>3. QED
    BY <2>2, ReplyHeard
<1>4. ASSUME NEW q \in Request, StatusAnswer(q)
      PROVE  HeardIn(r)
  <2>1. PICK order \in RequeueOrders(mem), changed \in CleanupOutcomes, ok \in PersistOutcomes :
            StatusAnswer(q)!(order, changed, ok)
    BY <1>4 DEF StatusAnswer
  <2>2. /\ mem' = Cleaned(mem, order)
        /\ reported' = reported \/ Reply(q, Cleaned(mem, order).conns[q].state)
    BY <2>1
  <2>3. QED
    BY <1>1, <2>2, ReplyHeard
<1>5. ASSUME NEW q \in Request, NEW s \in Terminal, NEW ts, Settle(q, s, ts)
      PROVE  HeardIn(r)
  <2>1. PICK order \in RequeueOrders(mem), changed \in CleanupOutcomes, ok \in PersistOutcomes :
            Settle(q, s, ts)!(order, changed, ok)
    BY <1>5 DEF Settle
  <2>2. PICK m : m = Cleaned(mem, order)
    OBVIOUS
  <2>3. m \in State
    BY <2>2, CleanedType DEF TypeOK
  <2>4. mem' = SettledState(m, q, s) /\ (reported' = reported \/ Reply(q, s))
    BY <2>1, <2>2
  <2>5. mem'.conns[q].state = s
    BY <2>3, <2>4 DEF SettledState, Settled, State
  <2>6. QED
    BY <1>1, <2>4, <2>5, ReplyHeard
<1>6. CASE \E q \in Request : DecideConnection(q) \/ CancelConnection(q)
  BY <1>5, <1>6 DEF DecideConnection, CancelConnection, Terminal
<1>7. ASSUME \E q \in Request : \/ CreateAdmitted(q) \/ StatusGone(q) \/ StatusPark(q)
                                \/ StatusCall(q) \/ StatusTimeout(q)
      PROVE  reported' = reported
  BY <1>7 DEF CreateAdmitted, StatusGone, StatusPark, StatusCall, StatusTimeout
<1>8. ASSUME \E t \in Node : Inbox(t) \/ InboxTimeout(t) \/ AckConnectionInbox(t)
      PROVE  reported' = reported
  BY <1>8, InboxQuiet
<1>9. ASSUME Tick \/ DiscoverNodes \/ UpdateNode \/ RevokeNode \/ Refused \/ Restart \/ UNCHANGED vars
      PROVE  reported' = reported
  BY <1>9 DEF Tick, DiscoverNodes, UpdateNode, RevokeNode, Refused, Restart, vars
<1>10. QED
  BY <1>1, <1>2, <1>3, <1>4, <1>6, <1>7, <1>8, <1>9 DEF Next, Status

\* Every step leaves the durable state behind the memory by cleanup only, and
\* takes each request on as the lifecycle allows.
LEMMA DurableStep ==
    ASSUME TypeOK, TypeOK', IdempotencyInv, OutcomeInv, WritesHold, [Next]_vars,
           NEW r \in Request
    PROVE  /\ BehindByCleanup(Durable', mem', r)
           /\ GoesOn(PhaseIn(Durable, r, minted), PhaseIn(Durable', r, minted'))
<1>1. /\ mem \in State /\ disk \in State /\ mem' \in State /\ disk' \in State
      /\ Durable \in State /\ Durable' \in State
  BY DEF TypeOK, Durable
<1>2. /\ minted \subseteq minted'
      /\ r \in minted' \ minted => mem'.conns[r].state = "queued"
  BY StateStep, DrawnIsStored
<1>3. /\ mem.conns[r].state # "absent" => r \in minted
      /\ disk.conns[r].state # "absent" => r \in minted
      /\ Durable.conns[r].state # "absent" => r \in minted
  BY DEF IdempotencyInv, Known, Durable
<1>4. BehindByCleanup(Durable, mem, r)
  BY DEF OutcomeInv
\* Nothing is drawn unless it is stored anew.
<1>5. ASSUME mem'.conns[r].state # "absent" => mem.conns[r].state # "absent" \/ disk.conns[r].state # "absent"
      PROVE  r \in minted' <=> r \in minted
  BY <1>2, <1>3, <1>5
<1>6. ASSUME NEW m \in State, NEW n \in State, m.conns[r] = n.conns[r], r \in minted' <=> r \in minted
      PROVE  PhaseIn(m, r, minted) = PhaseIn(n, r, minted')
  BY <1>6 DEF PhaseIn
<1>7. CASE mem' = AgedState(mem) /\ disk' = AgedState(disk)
  <2>1. Durable' = AgedState(Durable)
    BY <1>7 DEF Durable
  <2>2. BehindByCleanup(Durable', mem', r)
    BY <1>1, <1>4, <1>7, <2>1, BehindKept
  <2>3. mem'.conns[r].state = mem.conns[r].state
    BY <1>1, <1>7 DEF AgedState, Aged, State
  <2>4. r \in minted' <=> r \in minted
    BY <1>5, <2>3
  <2>5. PhaseIn(Durable', r, minted) = PhaseIn(Durable', r, minted')
    BY <1>1, <1>6, <2>4
  <2>6. GoesOn(PhaseIn(Durable, r, minted), PhaseIn(Durable', r, minted))
    BY <1>1, <2>1, AgedGoesOn
  <2>7. QED
    BY <2>2, <2>5, <2>6
<1>8. CASE HandlerStep
  <2>1. PICK order \in RequeueOrders(mem) :
            /\ StoredFrom(Cleaned(mem, order), mem')
            /\ MayCrash /\ ~PersistMayFail =>
                  disk' = mem' \/ (disk' = disk /\ mem' = Cleaned(mem, order))
    BY <1>8 DEF HandlerStep
  <2>2. Durable' = mem' \/ (Durable' = Durable /\ mem' = Cleaned(mem, order))
    BY <2>1 DEF WritesHold, Durable
  <2>3. CASE Durable' = mem'
    <3>1. BehindByCleanup(mem', mem', r)
      BY <1>1, BehindKept
    <3>2. r \in minted' \ minted => mem'.conns[r].state # "absent"
      BY <1>2
    <3>3. GoesOn(PhaseIn(Durable, r, minted), PhaseIn(mem', r, minted'))
      BY <1>1, <1>2, <1>3, <1>4, <2>1, <3>2, WriteGoesOn
    <3>4. QED
      BY <2>3, <3>1, <3>3
  <2>4. CASE Durable' = Durable /\ mem' = Cleaned(mem, order)
    <3>1. BehindByCleanup(Durable, Cleaned(mem, order), r)
      BY <1>1, <1>4, BehindKept
    <3>2. mem'.conns[r].state # "absent" => mem.conns[r].state # "absent"
      BY <2>4, CleanedPhase
    <3>3. r \in minted' <=> r \in minted
      BY <1>5, <3>2
    <3>4. PhaseIn(Durable, r, minted) = PhaseIn(Durable', r, minted')
      BY <1>1, <1>6, <2>4, <3>3
    <3>5. QED
      BY <2>4, <3>1, <3>4 DEF GoesOn
  <2>5. QED
    BY <2>2, <2>3, <2>4
\* The queue stays, and may be written.
<1>9. ASSUME mem'.conns = mem.conns, disk' \in {disk, mem'}
      PROVE  /\ BehindByCleanup(Durable', mem', r)
             /\ GoesOn(PhaseIn(Durable, r, minted), PhaseIn(Durable', r, minted'))
  <2>1. r \in minted' <=> r \in minted
    BY <1>5, <1>9
  <2>2. Durable' = mem' \/ (Durable' = Durable)
    BY <1>9 DEF Durable
  <2>3. CASE Durable' = mem'
    <3>1. BehindByCleanup(mem', mem', r)
      BY <1>1, BehindKept
    <3>2. PhaseIn(mem, r, minted) = PhaseIn(mem', r, minted')
      BY <1>1, <1>6, <1>9, <2>1
    <3>3. \/ PhaseIn(Durable, r, minted) = PhaseIn(mem, r, minted)
          \/ PhaseIn(Durable, r, minted) \in Terminal /\ PhaseIn(mem, r, minted) = "gone"
      BY <1>1, <1>3, <1>4, BehindPhase
    <3>4. QED
      BY <2>3, <3>1, <3>2, <3>3 DEF GoesOn
  <2>4. CASE Durable' = Durable
    <3>1. PhaseIn(Durable, r, minted) = PhaseIn(Durable', r, minted')
      BY <1>1, <1>6, <2>1, <2>4
    <3>2. BehindByCleanup(Durable, mem', r)
      BY <1>4, <1>9 DEF BehindByCleanup
    <3>3. QED
      BY <2>4, <3>1, <3>2 DEF GoesOn
  <2>5. QED
    BY <2>2, <2>3, <2>4
<1>10. CASE AckStep
  <2>1. PICK f \in [Node -> Nat] : mem' = [mem EXCEPT !.acks = f]
    BY <1>10 DEF AckStep
  <2>2. mem'.conns = mem.conns
    BY <1>1, <2>1 DEF State
  <2>3. QED
    BY <1>9, <1>10, <2>2 DEF AckStep
<1>11. CASE MayCrash /\ mem' = disk /\ disk' = disk
  <2>1. Durable' = disk /\ Durable = disk
    BY <1>11 DEF Durable
  <2>2. r \in minted' <=> r \in minted
    BY <1>5, <1>11
  <2>3. PhaseIn(Durable, r, minted) = PhaseIn(Durable', r, minted')
    BY <1>1, <1>6, <2>1, <2>2
  <2>4. BehindByCleanup(disk, disk, r)
    BY <1>1, BehindKept
  <2>5. QED
    BY <1>11, <2>1, <2>3, <2>4 DEF GoesOn
<1>12. QED
  BY <1>7, <1>8, <1>9, <1>10, <1>11, StateStep

\* What a caller hears is the outcome that the durable state has.
LEMMA HeardIsDurable ==
    ASSUME NEW d, NEW m, NEW r, NEW drawn, BehindByCleanup(d, m, r), m.conns[r].state \in Terminal
    PROVE  PhaseIn(d, r, drawn) = m.conns[r].state
BY DEF BehindByCleanup, PhaseIn, Live, Terminal

\* The step of the inductive invariant, and what callers hear in it.
LEMMA OutcomeStep ==
    ASSUME TypeOK, TypeOK', IdempotencyInv, OutcomeInv, WritesHold, [Next]_vars
    PROVE  /\ OutcomeInv'
           /\ \A r \in Request :
                 /\ GoesOn(PhaseIn(Durable, r, minted), PhaseIn(Durable', r, minted'))
                 /\ \/ reported'[r] = reported[r]
                    \/ /\ PhaseIn(Durable', r, minted') \in Terminal
                       /\ reported'[r] = reported[r] \cup {PhaseIn(Durable', r, minted')}
<1>1. ASSUME NEW r \in Request
      PROVE  /\ BehindByCleanup(Durable', mem', r)
             /\ GoesOn(PhaseIn(Durable, r, minted), PhaseIn(Durable', r, minted'))
             /\ \/ reported'[r] = reported[r]
                \/ /\ PhaseIn(Durable', r, minted') \in Terminal
                   /\ reported'[r] = reported[r] \cup {PhaseIn(Durable', r, minted')}
             /\ ToldOutcome(r)'
  <2>1. PICK p, q : p = PhaseIn(Durable, r, minted) /\ q = PhaseIn(Durable', r, minted')
    OBVIOUS
  <2>2. BehindByCleanup(Durable', mem', r) /\ GoesOn(p, q)
    BY <2>1, DurableStep
  <2>3. HeardIn(r)
    BY HeardIsStored
  <2>4. mem'.conns[r].state \in Terminal => q = mem'.conns[r].state
    BY <2>1, <2>2, HeardIsDurable
  <2>5. reported'[r] = reported[r] \/ (q \in Terminal /\ reported'[r] = reported[r] \cup {q})
    BY <2>3, <2>4 DEF HeardIn
  <2>6. reported[r] = {} \/ \E s \in Terminal : reported[r] = {s} /\ p \in {s, "gone"}
    BY <2>1 DEF OutcomeInv, ToldOutcome
  <2>7. reported'[r] = {} \/ \E s \in Terminal : reported'[r] = {s} /\ q \in {s, "gone"}
    <3>1. CASE reported[r] = {}
      BY <2>5, <3>1
    <3>2. ASSUME NEW s \in Terminal, reported[r] = {s}, p \in {s, "gone"}
          PROVE  reported'[r] = {s} /\ q \in {s, "gone"}
      <4>1. q \in {s, "gone"}
        BY <2>2, <3>2 DEF GoesOn, Terminal
      <4>2. q \in Terminal => q = s
        BY <4>1 DEF Terminal
      <4>3. QED
        BY <2>5, <3>2, <4>1, <4>2
    <3>3. QED
      BY <2>6, <3>1, <3>2
  <2>8. ToldOutcome(r)'
    BY <2>1, <2>7 DEF ToldOutcome
  <2>9. QED
    BY <2>1, <2>2, <2>5, <2>8
<1>2. QED
  BY <1>1 DEF OutcomeInv

\* The first state.
LEMMA OutcomeStart == Init => OutcomeInv
BY DEF Init, OutcomeInv, ToldOutcome, BehindByCleanup, Durable, EmptyState, Absent

\* The invariant of the refinement, while no write fails that a restart could
\* uncover.
THEOREM OutcomeInvariant ==
    ASSUME WritesHold
    PROVE  Spec => []OutcomeInv
<1>1. TypeOK /\ TypeOK' /\ IdempotencyInv /\ OutcomeInv /\ [Next]_vars => OutcomeInv'
  BY OutcomeStep
<1>2. QED
  BY <1>1, OutcomeStart, TypeCorrect, IdempotencyInvariant, PTL DEF Spec

\* Callers never hear two outcomes of one request, whatever is retried, expires
\* or is forgotten by a restart.
THEOREM OutcomeIsOne ==
    ASSUME WritesHold
    PROVE  Spec => []OneOutcome
<1>1. OutcomeInv => OneOutcome
  <2> SUFFICES ASSUME OutcomeInv, NEW r \in Request, NEW s1 \in reported[r], NEW s2 \in reported[r]
               PROVE  s1 = s2
    BY DEF OneOutcome
  <2>1. ToldOutcome(r)
    BY DEF OutcomeInv
  <2>2. QED
    BY <2>1 DEF ToldOutcome
<1>2. QED
  BY <1>1, OutcomeInvariant, PTL

\* The durable queue implements ConnectionLifecycle: every request is created
\* once, gets one outcome and is retired after it, and callers hear that outcome.
THEOREM LifecycleImplemented ==
    ASSUME WritesHold
    PROVE  Spec => ImplementsLifecycle
<1>1. Init => Lifecycle!LifecycleInit
  <2> SUFFICES ASSUME Init PROVE Lifecycle!LifecycleInit
    OBVIOUS
  <2>1. \A r \in Request : PhaseIn(Durable, r, minted) = "new"
    BY DEF Init, Durable, EmptyState, Absent, PhaseIn
  <2>2. \A r \in Request : DurablePhase(r) = "new"
    BY <2>1, DurablePhaseIs
  <2>3. QED
    BY <2>2 DEF Init, Lifecycle!LifecycleInit
<1>2. ASSUME TypeOK, TypeOK', IdempotencyInv, OutcomeInv, [Next]_vars
      PROVE  Lifecycle!LifecycleNext
  <2>1. \A r \in Request : /\ DurablePhase(r) = PhaseIn(Durable, r, minted)
                           /\ DurablePhase(r)' = PhaseIn(Durable', r, minted')
    BY PhasesMappedNext DEF PhasesMapped
  <2>2. \A r \in Request :
            /\ GoesOn(DurablePhase(r), DurablePhase(r)')
            /\ \/ reported'[r] = reported[r]
               \/ /\ DurablePhase(r)' \in Terminal
                  /\ reported'[r] = reported[r] \cup {DurablePhase(r)'}
    BY <1>2, <2>1, OutcomeStep
  <2>3. /\ Terminal = Lifecycle!Outcome
        /\ \A p, q : GoesOn(p, q) <=> q = p \/ Lifecycle!Moves(p, q)
    BY DEF Terminal, GoesOn, Lifecycle!Outcome, Lifecycle!Moves
  <2>4. \A r \in Request : DurablePhase(r)' \in Lifecycle!Phase
    <3>1. Durable' \in State
      BY <1>2 DEF TypeOK, Durable
    <3>2. QED
      BY <2>1, <2>3, <3>1, PhaseType DEF Lifecycle!Phase
  <2>5. reported' \in [Request -> SUBSET Lifecycle!Outcome]
    BY <1>2, <2>3 DEF TypeOK
  <2>6. QED
    BY <2>2, <2>3, <2>4, <2>5 DEF Lifecycle!LifecycleNext, Lifecycle!Hears
<1>3. QED
  BY <1>1, <1>2, TypeCorrect, IdempotencyInvariant, OutcomeInvariant, PTL
     DEF Spec, ImplementsLifecycle, Lifecycle!LifecycleSpec

==============================================================================
