----------------------- MODULE ConnectionQueue_proofs -----------------------
(* Proofs about ConnectionQueue, for every set of nodes, keys and requests *)
(* and every time-to-live, lease, retention and capacity.                  *)
EXTENDS ConnectionQueue, TLAPS, FiniteSetTheorems

-----------------------------------------------------------------------------
(* What the operators of the model return *)

\* The number of requests of a target whose lease ended is a natural number.
LEMMA LeaseEndedCount ==
    ASSUME NEW m, NEW S PROVE Cardinality(LeaseEnded(m) \cap S) \in Nat
<1>1. LeaseEnded(m) \cap S \subseteq Request
  BY DEF LeaseEnded
<1>2. QED
  BY <1>1, SetAssumption, FS_Subset, FS_CardinalityType

\* A requeued request gets a number between 1 and the number of requests of
\* its target that are requeued with it, and no other of them gets it.
LEMMA RequeueOrderFacts ==
    ASSUME NEW m, NEW order \in RequeueOrders(m), NEW r \in LeaseEnded(m)
    PROVE  /\ order[r] \in Nat
           /\ order[r] >= 1
           /\ order[r] <= Cardinality(LeaseEnded(m) \cap RequestsTo(TargetOf[r]))
           /\ \A q \in LeaseEnded(m) :
                 TargetOf[q] = TargetOf[r] /\ order[q] = order[r] => q = r
<1>1. LeaseEnded(m) \cap Request = LeaseEnded(m)
  BY DEF LeaseEnded
<1>2. Cardinality(LeaseEnded(m)) \in Nat
  BY <1>1, LeaseEndedCount
<1>3. order[r] \in 1..Cardinality(LeaseEnded(m))
  BY DEF RequeueOrders
<1>4. QED
  BY <1>2, <1>3 DEF RequeueOrders

\* The three sets of requests cleanup changes are disjoint.
LEMMA CleanupSets ==
    ASSUME NEW m
    PROVE  /\ Overdue(m) \cap LeaseEnded(m) = {}
           /\ Overdue(m) \cap Retired(m) = {}
           /\ LeaseEnded(m) \cap Retired(m) = {}
BY DEF Overdue, LeaseEnded, Retired, Live, Terminal

\* What cleanup leaves of one request.
LEMMA CleanedConn ==
    ASSUME NEW m, NEW order, NEW r \in Request
    PROVE  LET c == Cleaned(m, order).conns[r] IN
           /\ r \in Overdue(m) => c = Settled(m.conns[r], "expired")
           /\ r \in LeaseEnded(m)
                 => c = Queued(m.cursors[TargetOf[r]] + order[r], m.conns[r].ttl)
           /\ r \in Retired(m) => c = Absent
           /\ r \notin Overdue(m) \cup LeaseEnded(m) \cup Retired(m) => c = m.conns[r]
BY CleanupSets DEF Cleaned

\* What cleanup does to the state of one request.
LEMMA CleanedPhase ==
    ASSUME NEW m, NEW order, NEW r \in Request
    PROVE  LET old == m.conns[r].state
               new == Cleaned(m, order).conns[r].state IN
           /\ r \in Overdue(m) => old \in Live /\ old # "absent" /\ new = "expired"
           /\ r \in LeaseEnded(m) => old = "offered" /\ new = "queued"
           /\ r \in Retired(m) => old \in Terminal /\ old # "absent" /\ new = "absent"
           /\ r \notin Overdue(m) \cup LeaseEnded(m) \cup Retired(m) => new = old
<1>1. r \in Overdue(m) => m.conns[r].state \in Live
  BY DEF Overdue
<1>2. r \in LeaseEnded(m) => m.conns[r].state = "offered"
  BY DEF LeaseEnded
<1>3. r \in Retired(m) => m.conns[r].state \in Terminal
  BY DEF Retired
<1>4. Settled(m.conns[r], "expired").state = "expired" /\ Absent.state = "absent"
  BY DEF Settled, Absent
<1>5. \A c, ttl : Queued(c, ttl).state = "queued"
  BY DEF Queued
<1>6. "absent" \notin Live \cup Terminal
  BY DEF Live, Terminal
<1>7. QED
  BY <1>1, <1>2, <1>3, <1>4, <1>5, <1>6, CleanedConn

\* Cleanup returns a well-formed state.
LEMMA CleanedType ==
    ASSUME NEW m \in State, NEW order \in RequeueOrders(m)
    PROVE  Cleaned(m, order) \in State
<1> DEFINE c == Cleaned(m, order)
<1>1. c.conns \in [Request -> Connection]
  <2>1. ASSUME NEW r \in Request PROVE c.conns[r] \in Connection
    <3>1. m.conns[r] \in Connection
      BY DEF State
    <3>2. Settled(m.conns[r], "expired") \in Connection
      BY <3>1, TimeAssumption DEF Settled, Connection, Live, Terminal
    <3>3. Absent \in Connection
      BY TimeAssumption DEF Absent, Connection
    <3>4. r \in LeaseEnded(m) =>
            Queued(m.cursors[TargetOf[r]] + order[r], m.conns[r].ttl) \in Connection
      <4> SUFFICES ASSUME r \in LeaseEnded(m)
                   PROVE Queued(m.cursors[TargetOf[r]] + order[r], m.conns[r].ttl) \in Connection
        OBVIOUS
      <4>1. order[r] \in Nat
        BY RequeueOrderFacts
      <4>2. m.cursors[TargetOf[r]] \in Nat
        BY SetAssumption DEF State
      <4>3. QED
        BY <3>1, <4>1, <4>2, TimeAssumption DEF Queued, Connection, Live
    <3>5. QED
      BY <3>1, <3>2, <3>3, <3>4, CleanedConn
  <2>2. c.conns = [r \in Request |-> c.conns[r]]
    BY DEF Cleaned
  <2>3. QED
    BY <2>1, <2>2
<1>2. c.idem \in [Node \X Key -> Request \cup {NoRequest}]
  BY DEF Cleaned, State
<1>3. c.cursors \in [Node -> Nat]
  <2>1. ASSUME NEW t \in Node PROVE c.cursors[t] \in Nat
    <3>1. Cardinality(LeaseEnded(m) \cap RequestsTo(t)) \in Nat
      BY LeaseEndedCount
    <3>2. m.cursors[t] \in Nat
      BY DEF State
    <3>3. c.cursors[t] = m.cursors[t] + Cardinality(LeaseEnded(m) \cap RequestsTo(t))
      BY DEF Cleaned
    <3>4. QED
      BY <3>1, <3>2, <3>3
  <2>2. QED
    BY <2>1 DEF Cleaned
<1>4. c.acks \in [Node -> Nat]
  BY DEF Cleaned, State
<1>5. c = [conns |-> c.conns, idem |-> c.idem, cursors |-> c.cursors, acks |-> c.acks]
  BY DEF Cleaned
<1>6. QED
  BY <1>1, <1>2, <1>3, <1>4, <1>5 DEF State

\* Notification keeps the handlers well-formed.
LEMMA NotifyType ==
    ASSUME NEW rs
    PROVE  /\ \A ws \in [Node -> InboxHandler] : NotifyTargets(ws, rs) \in [Node -> InboxHandler]
           /\ \A ws \in [Request -> WatchHandler] :
                 NotifyRequests(ws, rs) \in [Request -> WatchHandler]
BY DEF NotifyTargets, NotifyRequests, InboxHandler, WatchHandler

\* The states the handlers store after cleanup are well-formed.
LEMMA StoredType ==
    ASSUME NEW m \in State, NEW r \in Request
    PROVE  /\ Enqueued(m, r) \in State
           /\ \A s \in Terminal : SettledState(m, r, s) \in State
           /\ \A batch \in SUBSET Request : OfferedState(m, batch) \in State
           /\ AgedState(m) \in State
<1> USE TimeAssumption, SetAssumption
<1>1. Enqueued(m, r) \in State
  <2>1. m.cursors[TargetOf[r]] + 1 \in Nat
    BY DEF State
  <2>2. Queued(m.cursors[TargetOf[r]] + 1, TTL) \in Connection
    BY <2>1 DEF Queued, Connection, Live
  <2>3. QED
    BY <2>1, <2>2 DEF Enqueued, State, IdempotencyIndex
<1>2. ASSUME NEW s \in Terminal PROVE SettledState(m, r, s) \in State
  <2>1. Settled(m.conns[r], s) \in Connection
    BY DEF Settled, Connection, State
  <2>2. QED
    BY <2>1 DEF SettledState, State
<1>3. ASSUME NEW batch \in SUBSET Request PROVE OfferedState(m, batch) \in State
  <2>1. ASSUME NEW q \in Request PROVE Offered(m.conns[q]) \in Connection
    <3>1. m.conns[q] \in Connection
      BY DEF State
    <3>2. QED
      BY <3>1 DEF Offered, Connection, Live
  <2>2. QED
    BY <2>1 DEF OfferedState, State
<1>4. AgedState(m) \in State
  <2>1. ASSUME NEW q \in Request PROVE Aged(m.conns[q]) \in Connection
    <3>1. m.conns[q] \in Connection
      BY DEF State
    <3>2. QED
      BY <3>1 DEF Aged, Less, Connection
  <2>2. QED
    BY <2>1 DEF AgedState, State
<1>5. QED
  BY <1>1, <1>2, <1>3, <1>4

-----------------------------------------------------------------------------
(* Type correctness *)

\* The file always holds a well-formed state: the old one or the one written.
LEMMA PersistedType ==
    ASSUME disk \in State, NEW m \in State, NEW ok
    PROVE  Persisted(m, ok) \in State /\ DiskAfterCleanup(ok, m) \in State
BY DEF Persisted, DiskAfterCleanup

\* A reply adds at most a terminal state to what is reported.
LEMMA ReplyType ==
    ASSUME reported \in [Request -> SUBSET Terminal], NEW r, NEW s, Reply(r, s)
    PROVE  reported' \in [Request -> SUBSET Terminal]
BY DEF Reply

\* A handler that only runs cleanup keeps the four implementation variables typed.
LEMMA CleanupWithType ==
    ASSUME TypeOK, NEW order \in RequeueOrders(mem), NEW file \in State,
           CleanupWith(order, file)
    PROVE  /\ mem' \in State
           /\ disk' \in State
           /\ inbox' \in [Node -> InboxHandler]
           /\ watch' \in [Request -> WatchHandler]
BY CleanedType, NotifyType DEF CleanupWith, TypeOK

\* Every action of ConnectionQueue preserves the type invariant.
LEMMA TypeStep ==
    ASSUME TypeOK, [Next]_vars PROVE TypeOK'
<1> USE DEF TypeOK
<1>1. CASE Tick
  <2>1. CASE Request = {}
    BY <1>1, <2>1 DEF Tick, AgedState, State
  <2>2. CASE Request # {}
    BY <1>1, <2>2, StoredType DEF Tick
  <2>3. QED
    BY <2>1, <2>2
<1>2. CASE DiscoverNodes
  BY <1>2, CleanupWithType DEF DiscoverNodes
<1>3. CASE UpdateNode
  BY <1>3, CleanupWithType, CleanedType, PersistedType DEF UpdateNode
<1>4. CASE Refused
  BY <1>4, CleanupWithType, CleanedType, PersistedType DEF Refused
<1>5. ASSUME NEW k \in Node \X Key, CreateReplayed(k) PROVE TypeOK'
  BY <1>5, CleanupWithType, CleanedType, PersistedType, ReplyType DEF CreateReplayed
<1>6. ASSUME NEW t \in Node, InboxRegister(t) PROVE TypeOK'
  BY <1>6 DEF InboxRegister, InboxHandler
<1>7. ASSUME NEW t \in Node, InboxDeliver(t) PROVE TypeOK'
  <2>1. PICK order \in RequeueOrders(mem), ok \in PersistOutcomes, heard \in BOOLEAN :
            InboxDeliver(t)!(order, ok, heard)
    BY <1>7 DEF InboxDeliver
  <2> DEFINE m == Cleaned(mem, order)
  <2>2. m \in State
    BY CleanedType
  <2>3. PICK batch \in Batches(m, t, inbox[t].after) :
            \E last \in batch : DeliverBatch(t, m, batch, last, ok, heard)
    BY <2>1
  <2> HIDE DEF m
  <2>4. PICK last \in batch : DeliverBatch(t, m, batch, last, ok, heard)
    BY <2>3
  <2>5. batch \in SUBSET Request
    BY DEF Batches, PendingEvents, RequestsTo
  <2>6. OfferedState(m, batch) \in State
    BY <2>2, <2>5, StoredType
  <2>7. m.conns[last].cursor \in Nat
    BY <2>2, <2>5 DEF State, Connection
  <2>8. inbox' \in [Node -> InboxHandler]
    BY <2>4, NotifyType DEF DeliverBatch, IdleInbox, InboxHandler
  <2>9. QED
    BY <2>4, <2>6, <2>7, <2>8, NotifyType, PersistedType DEF DeliverBatch
<1>8. ASSUME NEW t \in Node, InboxPark(t) PROVE TypeOK'
  <2>1. PICK order \in RequeueOrders(mem), changed \in CleanupOutcomes, ok \in PersistOutcomes :
            InboxPark(t)!(order, changed, ok)
    BY <1>8 DEF InboxPark
  <2>2. Cleaned(mem, order) \in State
    BY CleanedType
  <2>3. Cleaned(mem, order).cursors[t] \in Nat
    BY <2>2 DEF State
  <2>4. inbox' \in [Node -> InboxHandler]
    <3> DEFINE ws == NotifyTargets(inbox, CleanupNotifies(mem))
               new == IF changed /\ ~ok THEN IdleInbox
                      ELSE [pc |-> "parked", after |-> ws[t].after,
                            captured |-> Cleaned(mem, order).cursors[t]]
    <3>1. ws \in [Node -> InboxHandler]
      BY NotifyType
    <3>2. inbox' = [ws EXCEPT ![t] = new]
      BY <2>1, <3>1
    <3> HIDE DEF ws
    <3>3. new \in InboxHandler
      BY <2>3, <3>1 DEF IdleInbox, InboxHandler
    <3>4. QED
      BY <3>1, <3>2, <3>3
  <2>5. disk' \in State
    BY <2>1, <2>2, PersistedType
  <2>6. watch' \in [Request -> WatchHandler]
    BY <2>1, NotifyType
  <2>7. QED
    BY <2>1, <2>2, <2>4, <2>5, <2>6
<1>9. ASSUME NEW t \in Node, InboxTimeout(t) PROVE TypeOK'
  BY <1>9 DEF InboxTimeout, InboxHandler, IdleInbox
<1>10. ASSUME NEW t \in Node, AckConnectionInbox(t) PROVE TypeOK'
  <2>1. PICK cursor \in 0..told[t], ok \in PersistOutcomes :
            AckConnectionInbox(t)!(cursor, ok)
    BY <1>10 DEF AckConnectionInbox
  <2>2. mem' \in State
    BY <2>1 DEF State
  <2>3. disk' \in State
    BY <2>1, <2>2 DEF Persisted
  <2>4. QED
    BY <2>1, <2>2, <2>3
<1>11. ASSUME NEW r \in Request, CreateAdmitted(r) PROVE TypeOK'
  <2>1. PICK order \in RequeueOrders(mem), changed \in CleanupOutcomes, ok \in PersistOutcomes :
            CreateAdmitted(r)!(order, changed, ok)
    BY <1>11 DEF CreateAdmitted
  <2>2. Cleaned(mem, order) \in State
    BY CleanedType
  <2>3. Enqueued(Cleaned(mem, order), r) \in State
    BY <2>2, StoredType
  <2>4. disk' \in State
    BY <2>1, <2>2, <2>3, PersistedType
  <2>5. inbox' \in [Node -> InboxHandler] /\ watch' \in [Request -> WatchHandler]
    BY <2>1, NotifyType
  <2>6. QED
    BY <2>1, <2>3, <2>4, <2>5
<1>12. ASSUME NEW r \in Request, NEW s \in Terminal, NEW ts, Settle(r, s, ts) PROVE TypeOK'
  <2>1. PICK order \in RequeueOrders(mem), changed \in CleanupOutcomes, ok \in PersistOutcomes :
            Settle(r, s, ts)!(order, changed, ok)
    BY <1>12 DEF Settle
  <2>2. Cleaned(mem, order) \in State
    BY CleanedType
  <2>3. SettledState(Cleaned(mem, order), r, s) \in State
    BY <2>2, StoredType
  <2>4. disk' \in State
    BY <2>1, <2>2, <2>3, PersistedType
  <2>5. inbox' \in [Node -> InboxHandler] /\ watch' \in [Request -> WatchHandler]
    BY <2>1, NotifyType
  <2>6. reported' \in [Request -> SUBSET Terminal]
    BY <2>1, ReplyType
  <2>7. QED
    BY <2>1, <2>3, <2>4, <2>5, <2>6
<1>13. ASSUME NEW r \in Request, SettleRepeated(r) PROVE TypeOK'
  BY <1>13, CleanupWithType, CleanedType, PersistedType, ReplyType DEF SettleRepeated
<1>14. ASSUME NEW r \in Request, StatusCall(r) PROVE TypeOK'
  BY <1>14 DEF StatusCall, WatchHandler
<1>15. ASSUME NEW r \in Request, StatusGone(r) PROVE TypeOK'
  <2>1. PICK order \in RequeueOrders(mem) : StatusGone(r)!(order)
    BY <1>15 DEF StatusGone
  <2>2. inbox' \in [Node -> InboxHandler] /\ watch' \in [Request -> WatchHandler]
    BY <2>1, NotifyType DEF IdleWatch, WatchHandler
  <2>3. QED
    BY <2>1, <2>2, CleanedType
<1>16. ASSUME NEW r \in Request, StatusAnswer(r) PROVE TypeOK'
  <2>1. PICK order \in RequeueOrders(mem), changed \in CleanupOutcomes, ok \in PersistOutcomes :
            StatusAnswer(r)!(order, changed, ok)
    BY <1>16 DEF StatusAnswer
  <2>2. mem' \in State
    BY <2>1, CleanedType
  <2>3. disk' \in State
    BY <2>1, CleanedType, PersistedType
  <2>4. inbox' \in [Node -> InboxHandler] /\ watch' \in [Request -> WatchHandler]
    BY <2>1, NotifyType DEF IdleWatch, WatchHandler
  <2>5. reported' \in [Request -> SUBSET Terminal]
    BY <2>1, ReplyType
  <2>6. QED
    BY <2>1, <2>2, <2>3, <2>4, <2>5
<1>17. ASSUME NEW r \in Request, StatusPark(r) PROVE TypeOK'
  <2>1. PICK order \in RequeueOrders(mem), changed \in CleanupOutcomes, ok \in PersistOutcomes :
            StatusPark(r)!(order, changed, ok)
    BY <1>17 DEF StatusPark
  <2>2. mem' \in State
    BY <2>1, CleanedType
  <2>3. disk' \in State
    BY <2>1, CleanedType, PersistedType
  <2>4. inbox' \in [Node -> InboxHandler]
    BY <2>1, NotifyType
  <2>5. watch' \in [Request -> WatchHandler]
    <3> DEFINE ws == NotifyRequests(watch, CleanupNotifies(mem))
               new == IF changed /\ ~ok THEN IdleWatch
                      ELSE [pc |-> "parked", known |-> ws[r].known]
    <3>1. ws \in [Request -> WatchHandler]
      BY NotifyType
    <3>2. watch' = [ws EXCEPT ![r] = new]
      BY <2>1, <3>1
    <3> HIDE DEF ws
    <3>3. new \in WatchHandler
      BY <3>1 DEF IdleWatch, WatchHandler
    <3>4. QED
      BY <3>1, <3>2, <3>3
  <2>6. QED
    BY <2>1, <2>2, <2>3, <2>4, <2>5
<1>18. ASSUME NEW r \in Request, StatusTimeout(r) PROVE TypeOK'
  BY <1>18 DEF StatusTimeout, IdleWatch, WatchHandler
<1>19. CASE Restart
  BY <1>19 DEF Restart, IdleInbox, IdleWatch, InboxHandler, WatchHandler
<1>20. CASE UNCHANGED vars
  BY <1>20 DEF vars
<1>21. CASE RevokeNode
  BY <1>21, PersistedType DEF RevokeNode
<1> HIDE DEF TypeOK
<1>22. CASE \E r \in Request : DecideConnection(r) \/ CancelConnection(r)
  BY <1>12, <1>22 DEF DecideConnection, CancelConnection, Terminal
<1>23. CASE \E t \in Node : Inbox(t) \/ InboxTimeout(t) \/ AckConnectionInbox(t)
  BY <1>6, <1>7, <1>8, <1>9, <1>10, <1>23 DEF Inbox
<1>24. CASE \E r \in Request : \/ CreateAdmitted(r) \/ SettleRepeated(r) \/ StatusCall(r)
                               \/ Status(r) \/ StatusTimeout(r)
  BY <1>11, <1>13, <1>14, <1>15, <1>16, <1>17, <1>18, <1>24 DEF Status
<1>25. QED
  BY <1>1, <1>2, <1>3, <1>4, <1>5, <1>19, <1>20, <1>21, <1>22, <1>23, <1>24 DEF Next

\* The state of connection_server.go is well-formed in every reachable state,
\* in memory and in the file, with failing writes and restarts.
THEOREM TypeCorrect == Spec => []TypeOK
<1>1. Init => TypeOK
  BY TimeAssumption
     DEF Init, TypeOK, EmptyState, State, Absent, Connection, IdleInbox, InboxHandler,
         IdleWatch, WatchHandler
<1>2. TypeOK /\ [Next]_vars => TypeOK'
  BY TypeStep
<1>3. QED
  BY <1>1, <1>2, PTL DEF Spec

-----------------------------------------------------------------------------
(* What a step does to the stored state *)

\* The states a handler may store after cleanup has produced m.
StoredFrom(m, new) ==
    \/ new = m
    \/ \E r \in Request \ minted :
          /\ m.idem[IdempotencyIndex(r)] = NoRequest
          /\ HasRoom(m, TargetOf[r])
          /\ new = Enqueued(m, r)
          /\ r \in minted'
    \/ \E batch \in SUBSET {r \in Request : m.conns[r].state = "queued"} :
          new = OfferedState(m, batch)
    \/ \E r \in Request, s \in Terminal :
          m.conns[r].state \in Live /\ new = SettledState(m, r, s)

\* A handler's critical section: cleanup, then what the handler stores; the
\* file keeps its content, or gets the state after cleanup or the final one.
\* Unless a write fails, what is not written is cleanup only.
HandlerStep ==
    \E order \in RequeueOrders(mem) :
        /\ StoredFrom(Cleaned(mem, order), mem')
        /\ disk' \in {disk, Cleaned(mem, order), mem'}
        /\ MayCrash /\ ~PersistMayFail =>
              disk' = mem' \/ (disk' = disk /\ mem' = Cleaned(mem, order))

AckStep ==
    /\ \E f \in [Node -> Nat] : mem' = [mem EXCEPT !.acks = f]
    /\ disk' \in {disk, mem'}

\* Every step ages the stored state, runs a handler, acknowledges, restarts or
\* leaves it alone.
LEMMA StateStep ==
    ASSUME TypeOK, [Next]_vars
    PROVE  /\ minted \subseteq minted'
           /\ \/ mem' = AgedState(mem) /\ disk' = AgedState(disk)
              \/ HandlerStep
              \/ AckStep
              \/ MayCrash /\ mem' = disk /\ disk' = disk
              \/ mem' = mem /\ disk' \in {disk, mem}
<1>1. CASE Tick
  BY <1>1 DEF Tick
<1>2. ASSUME NEW order \in RequeueOrders(mem), NEW file,
             CleanupWith(order, file), file \in {disk, Cleaned(mem, order)}
      PROVE  HandlerStep
  BY <1>2 DEF CleanupWith, HandlerStep, StoredFrom
<1> DEFINE File(order, changed) == DiskAfterCleanup(changed, Cleaned(mem, order))
<1>3. \A order, changed : File(order, changed) \in {disk, Cleaned(mem, order)}
  BY DEF DiskAfterCleanup, Persisted
<1>4. CASE DiscoverNodes
  BY <1>2, <1>4 DEF DiscoverNodes
<1>5. CASE UpdateNode
  BY <1>2, <1>5 DEF UpdateNode, Persisted
<1>6. CASE Refused
  BY <1>2, <1>3, <1>6 DEF Refused
<1>7. ASSUME NEW k \in Node \X Key, CreateReplayed(k) PROVE HandlerStep /\ minted' = minted
  BY <1>2, <1>3, <1>7 DEF CreateReplayed
<1>8. ASSUME NEW t \in Node, InboxRegister(t) \/ InboxTimeout(t)
      PROVE  mem' = mem /\ disk' = disk /\ minted' = minted
  BY <1>8 DEF InboxRegister, InboxTimeout
<1>9. ASSUME NEW t \in Node, InboxDeliver(t) PROVE HandlerStep /\ minted' = minted
  <2>1. PICK order \in RequeueOrders(mem), ok \in PersistOutcomes, heard \in BOOLEAN :
            InboxDeliver(t)!(order, ok, heard)
    BY <1>9 DEF InboxDeliver
  <2> DEFINE m == Cleaned(mem, order)
  <2>2. PICK batch \in Batches(m, t, inbox[t].after) :
            \E last \in batch : DeliverBatch(t, m, batch, last, ok, heard)
    BY <2>1
  <2>3. batch \in SUBSET {r \in Request : m.conns[r].state = "queued"}
    BY DEF Batches, PendingEvents, RequestsTo
  <2>4. mem' = OfferedState(m, batch) /\ disk' \in {disk, mem'} /\ minted' = minted
    BY <2>2 DEF DeliverBatch, Persisted
  <2>5. MayCrash /\ ~PersistMayFail => disk' = mem'
    BY <2>2 DEF DeliverBatch, Persisted, PersistOutcomes
  <2>6. QED
    BY <2>3, <2>4, <2>5 DEF HandlerStep, StoredFrom
<1>10. ASSUME NEW t \in Node, InboxPark(t) PROVE HandlerStep /\ minted' = minted
  BY <1>3, <1>10 DEF InboxPark, HandlerStep, StoredFrom
<1>11. ASSUME NEW t \in Node, AckConnectionInbox(t) PROVE AckStep /\ minted' = minted
  <2>1. PICK cursor \in 0..told[t], ok \in PersistOutcomes :
            AckConnectionInbox(t)!(cursor, ok)
    BY <1>11 DEF AckConnectionInbox
  <2>2. [mem.acks EXCEPT ![t] = cursor] \in [Node -> Nat]
    BY DEF TypeOK, State
  <2>3. mem' = [mem EXCEPT !.acks = [mem.acks EXCEPT ![t] = cursor]]
    BY <2>1
  <2>4. disk' \in {disk, mem'} /\ minted' = minted
    BY <2>1 DEF Persisted
  <2>5. QED
    BY <2>2, <2>3, <2>4 DEF AckStep
<1>12. ASSUME NEW r \in Request, CreateAdmitted(r) PROVE HandlerStep /\ minted \subseteq minted'
  <2>1. PICK order \in RequeueOrders(mem), changed \in CleanupOutcomes, ok \in PersistOutcomes :
            CreateAdmitted(r)!(order, changed, ok)
    BY <1>12 DEF CreateAdmitted
  <2>2. disk' \in {disk, Cleaned(mem, order), mem'}
    BY <1>3, <2>1 DEF Persisted
  <2>3. MayCrash /\ ~PersistMayFail => disk' = mem'
    BY <2>1 DEF Persisted, PersistOutcomes
  <2>4. QED
    BY <2>1, <2>2, <2>3 DEF HandlerStep, StoredFrom
<1>13. ASSUME NEW r \in Request, NEW s \in Terminal, NEW ts, Settle(r, s, ts)
       PROVE  HandlerStep /\ minted' = minted
  <2>1. PICK order \in RequeueOrders(mem), changed \in CleanupOutcomes, ok \in PersistOutcomes :
            Settle(r, s, ts)!(order, changed, ok)
    BY <1>13 DEF Settle
  <2>2. disk' \in {disk, Cleaned(mem, order), mem'}
    BY <1>3, <2>1 DEF Persisted
  <2>3. MayCrash /\ ~PersistMayFail => disk' = mem'
    BY <2>1 DEF Persisted, PersistOutcomes
  <2>4. QED
    BY <2>1, <2>2, <2>3 DEF HandlerStep, StoredFrom
<1>14. ASSUME NEW r \in Request, SettleRepeated(r) PROVE HandlerStep /\ minted' = minted
  BY <1>2, <1>3, <1>14 DEF SettleRepeated
<1>15. ASSUME NEW r \in Request, StatusCall(r) \/ StatusTimeout(r)
       PROVE  mem' = mem /\ disk' = disk /\ minted' = minted
  BY <1>15 DEF StatusCall, StatusTimeout
<1>16. ASSUME NEW r \in Request, Status(r) PROVE HandlerStep /\ minted' = minted
  BY <1>3, <1>16 DEF Status, StatusGone, StatusAnswer, StatusPark, HandlerStep, StoredFrom
<1>17. CASE Restart
  BY <1>17 DEF Restart
<1>18. CASE UNCHANGED vars
  BY <1>18 DEF vars
<1>19. ASSUME DiscoverNodes \/ UpdateNode \/ Refused PROVE minted' = minted
  BY <1>19 DEF DiscoverNodes, UpdateNode, Refused
<1>20. CASE \E k \in Node \X Key : CreateReplayed(k)
  BY <1>20, <1>7
<1>21. CASE \E t \in Node : Inbox(t) \/ InboxTimeout(t) \/ AckConnectionInbox(t)
  BY <1>21, <1>8, <1>9, <1>10, <1>11 DEF Inbox
<1>22. CASE \E r \in Request : DecideConnection(r) \/ CancelConnection(r)
  BY <1>22, <1>13 DEF DecideConnection, CancelConnection, Terminal
<1>23. CASE \E r \in Request : \/ CreateAdmitted(r) \/ SettleRepeated(r) \/ StatusCall(r)
                               \/ Status(r) \/ StatusTimeout(r)
  BY <1>23, <1>12, <1>14, <1>15, <1>16
<1>24. CASE Tick \/ Restart \/ RevokeNode \/ UNCHANGED vars
  BY <1>24, <1>1, <1>17, <1>18 DEF Tick, Restart, RevokeNode, Persisted, vars
<1>25. QED
  BY <1>4, <1>5, <1>6, <1>19, <1>20, <1>21, <1>22, <1>23, <1>24 DEF Next

-----------------------------------------------------------------------------
(* The idempotency index *)

\* Exactness is not inductive: a new request must not be stored under an
\* identifier that is already in use, so identifiers are drawn once.
Known(m) == \A r \in Request : m.conns[r].state # "absent" => r \in minted

IdempotencyInv == IdempotencyExact /\ Known(mem) /\ Known(disk)

\* Cleanup drops a request together with its index entry and adds neither.
LEMMA CleanedExact ==
    ASSUME NEW m \in State, Exact(m), Known(m), NEW order \in RequeueOrders(m)
    PROVE  Exact(Cleaned(m, order)) /\ Known(Cleaned(m, order))
<1> DEFINE c == Cleaned(m, order)
<1>1. ASSUME NEW r \in Request
      PROVE  c.conns[r].state # "absent" <=> m.conns[r].state # "absent" /\ r \notin Retired(m)
  BY CleanedPhase, CleanupSets
<1>2. ASSUME NEW k \in Node \X Key
      PROVE  c.idem[k] = IF \E r \in Retired(m) : IdempotencyIndex(r) = k
                         THEN NoRequest ELSE m.idem[k]
  BY DEF Cleaned
<1> HIDE DEF c
<1>3. ASSUME NEW k \in Node \X Key, NEW r \in Request
      PROVE  c.idem[k] = r <=> c.conns[r].state # "absent" /\ IdempotencyIndex(r) = k
  <2>1. m.idem[k] = r <=> m.conns[r].state # "absent" /\ IdempotencyIndex(r) = k
    BY DEF Exact
  <2>2. CASE \E q \in Retired(m) : IdempotencyIndex(q) = k
    <3>1. PICK q \in Retired(m) : IdempotencyIndex(q) = k
      BY <2>2
    <3>2. q \in Request /\ m.conns[q].state # "absent"
      BY DEF Retired, Terminal
    <3>3. m.idem[k] = q
      BY <3>1, <3>2 DEF Exact
    <3>4. c.idem[k] # r
      BY <1>2, <2>2, SetAssumption
    <3>5. c.conns[r].state # "absent" => IdempotencyIndex(r) # k
      BY <1>1, <2>1, <3>3
    <3>6. QED
      BY <3>4, <3>5
  <2>3. CASE ~ \E q \in Retired(m) : IdempotencyIndex(q) = k
    BY <1>1, <1>2, <2>1, <2>3
  <2>4. QED
    BY <2>2, <2>3
<1>4. Exact(c)
  BY <1>3 DEF Exact
<1>5. Known(c)
  BY <1>1 DEF Known
<1>6. QED
  BY <1>4, <1>5 DEF c

\* Only the presence of a request matters for the index.
LEMMA SamePresence ==
    ASSUME NEW m, NEW n, Exact(m), Known(m), n.idem = m.idem,
           \A r \in Request : n.conns[r].state = "absent" <=> m.conns[r].state = "absent"
    PROVE  Exact(n) /\ Known(n)
BY DEF Exact, Known

\* Whatever a handler stores after cleanup keeps the index exact.
LEMMA StoredExact ==
    ASSUME NEW m \in State, Exact(m), Known(m), minted \subseteq minted',
           NEW new, StoredFrom(m, new)
    PROVE  Exact(new) /\ \A r \in Request : new.conns[r].state # "absent" => r \in minted'
<1>1. CASE new = m
  BY <1>1 DEF Known
<1>2. ASSUME NEW r \in Request \ minted, m.idem[IdempotencyIndex(r)] = NoRequest,
             new = Enqueued(m, r), r \in minted'
      PROVE  Exact(new) /\ \A q \in Request : new.conns[q].state # "absent" => q \in minted'
  <2>1. m.conns[r].state = "absent"
    BY DEF Known
  <2>2. new.conns[r].state = "queued"
    BY <1>2 DEF Enqueued, Queued, State
  <2>3. \A q \in Request : q # r => new.conns[q] = m.conns[q]
    BY <1>2 DEF Enqueued, State
  <2>4. IdempotencyIndex(r) \in Node \X Key
    BY SetAssumption DEF IdempotencyIndex
  <2>5. \A k \in Node \X Key :
            new.idem[k] = IF k = IdempotencyIndex(r) THEN r ELSE m.idem[k]
    BY <1>2, <2>4 DEF Enqueued, State
  <2>6. ASSUME NEW k \in Node \X Key, NEW q \in Request
        PROVE  new.idem[k] = q <=> new.conns[q].state # "absent" /\ IdempotencyIndex(q) = k
    <3>1. m.idem[k] = q <=> m.conns[q].state # "absent" /\ IdempotencyIndex(q) = k
      BY DEF Exact
    <3>2. CASE q = r
      BY <2>1, <2>2, <2>5, <3>1, <3>2
    <3>3. CASE q # r
      BY <1>2, <2>3, <2>5, <3>1, <3>3, SetAssumption
    <3>4. QED
      BY <3>2, <3>3
  <2>7. Exact(new)
    BY <2>6 DEF Exact
  <2>8. QED
    BY <1>2, <2>3, <2>7 DEF Known
<1>3. ASSUME NEW batch \in SUBSET {r \in Request : m.conns[r].state = "queued"},
             new = OfferedState(m, batch)
      PROVE  Exact(new) /\ Known(new)
  <2>1. new.idem = m.idem
    BY <1>3 DEF OfferedState, State
  <2>2. \A r \in Request : new.conns[r].state = "absent" <=> m.conns[r].state = "absent"
    BY <1>3 DEF OfferedState, Offered, State
  <2>3. QED
    BY <2>1, <2>2, SamePresence
<1>4. ASSUME NEW r \in Request, NEW s \in Terminal, m.conns[r].state \in Live,
             new = SettledState(m, r, s)
      PROVE  Exact(new) /\ Known(new)
  <2>1. new.idem = m.idem
    BY <1>4 DEF SettledState, State
  <2>2. \A q \in Request : new.conns[q].state = "absent" <=> m.conns[q].state = "absent"
    BY <1>4 DEF SettledState, Settled, State, Terminal, Live
  <2>3. QED
    BY <2>1, <2>2, SamePresence
<1>5. QED
  BY <1>1, <1>2, <1>3, <1>4 DEF StoredFrom, Known

\* Ageing and acknowledging change neither the index nor who is present.
LEMMA NeutralExact ==
    ASSUME NEW m \in State, Exact(m), Known(m)
    PROVE  /\ Exact(AgedState(m)) /\ Known(AgedState(m))
           /\ \A f : Exact([m EXCEPT !.acks = f]) /\ Known([m EXCEPT !.acks = f])
<1>1. AgedState(m).idem = m.idem
  BY DEF AgedState, State
<1>2. \A r \in Request : AgedState(m).conns[r].state = m.conns[r].state
  BY DEF AgedState, Aged, State
<1>3. ASSUME NEW f PROVE Exact([m EXCEPT !.acks = f]) /\ Known([m EXCEPT !.acks = f])
  BY SamePresence DEF State
<1>4. QED
  BY <1>1, <1>2, <1>3, SamePresence

\* The inductive invariant of the index: it is exact, and no request is stored
\* under an identifier that was not drawn.
THEOREM IdempotencyInvariant == Spec => []IdempotencyInv
<1>1. Init => IdempotencyInv
  BY SetAssumption DEF Init, IdempotencyInv, IdempotencyExact, Exact, Known, EmptyState, Absent
<1>2. ASSUME TypeOK, IdempotencyInv, [Next]_vars PROVE IdempotencyInv'
  <2>1. /\ mem \in State /\ disk \in State
        /\ Exact(mem) /\ Known(mem) /\ Exact(disk) /\ Known(disk)
    BY <1>2 DEF TypeOK, IdempotencyInv, IdempotencyExact
  <2> DEFINE Good(m) == Exact(m) /\ \A r \in Request : m.conns[r].state # "absent" => r \in minted'
  <2>2. minted \subseteq minted'
    BY <1>2, StateStep
  <2>3. \A m : Exact(m) /\ Known(m) => Good(m)
    BY <2>2 DEF Known
  <2>4. ASSUME mem' = AgedState(mem), disk' = AgedState(disk) PROVE Good(mem') /\ Good(disk')
    BY <2>1, <2>3, <2>4, NeutralExact
  <2>5. ASSUME HandlerStep PROVE Good(mem') /\ Good(disk')
    <3>1. PICK order \in RequeueOrders(mem) :
              /\ StoredFrom(Cleaned(mem, order), mem')
              /\ disk' \in {disk, Cleaned(mem, order), mem'}
      BY <2>5 DEF HandlerStep
    <3> DEFINE c == Cleaned(mem, order)
    <3>2. c \in State /\ Exact(c) /\ Known(c)
      BY <2>1, CleanedType, CleanedExact
    <3>3. StoredFrom(c, mem')
      BY <3>1
    <3>4. disk' \in {disk, c, mem'}
      BY <3>1
    <3> HIDE DEF c
    <3>5. Good(mem')
      BY <2>2, <3>2, <3>3, StoredExact
    <3>6. QED
      BY <2>1, <2>3, <3>2, <3>4, <3>5
  <2>6. ASSUME AckStep PROVE Good(mem') /\ Good(disk')
    BY <2>1, <2>3, <2>6, NeutralExact DEF AckStep
  <2>7. Good(mem') /\ Good(disk')
    BY <1>2, <2>1, <2>3, <2>4, <2>5, <2>6, StateStep
  <2>8. QED
    BY <2>7 DEF IdempotencyInv, IdempotencyExact, Exact, Known
<1>3. QED
  BY <1>1, <1>2, TypeCorrect, PTL DEF Spec

\* The index names exactly the stored requests in every reachable state, also
\* when writes fail and the coordinator restarts: createConnection never meets
\* an index entry without a request, and a key never has two requests.
THEOREM IdempotencyCorrect == Spec => []IdempotencyExact
<1>1. IdempotencyInv => IdempotencyExact
  BY DEF IdempotencyInv
<1>2. QED
  BY <1>1, IdempotencyInvariant, PTL

-----------------------------------------------------------------------------
(* Cursors: no queued request is skipped *)

\* Cursor c of target t has been passed: t's counter is at least c, and what is
\* queued for t lies beyond c.
Above(m, t, c) ==
    /\ c <= m.cursors[t]
    /\ \A r \in Request : TargetOf[r] = t /\ m.conns[r].state = "queued" => m.conns[r].cursor > c

\* The counter of a target is never behind a cursor it gave out.
Counted(m) ==
    \A r \in Request : m.conns[r].state # "absent" => m.conns[r].cursor <= m.cursors[TargetOf[r]]

\* NoSkippedOffer is not inductive: a handler still holds the cursor its caller
\* passed and the one it captured before it went to sleep, and will reply with
\* the latter.
CursorInv ==
    /\ Counted(mem)
    /\ \A t \in Node :
          /\ Above(mem, t, told[t])
          /\ inbox[t].pc # "idle" => inbox[t].after <= told[t]
          /\ inbox[t].pc \in {"parked", "woken"} => Above(mem, t, inbox[t].captured)

\* Cleanup requeues beyond every passed cursor.
LEMMA CleanedAbove ==
    ASSUME NEW m \in State, NEW order \in RequeueOrders(m), Counted(m)
    PROVE  /\ Counted(Cleaned(m, order))
           /\ \A t \in Node, c \in Nat : Above(m, t, c) => Above(Cleaned(m, order), t, c)
<1> DEFINE n == Cleaned(m, order)
           up(t) == Cardinality(LeaseEnded(m) \cap RequestsTo(t))
<1>1. ASSUME NEW t \in Node
      PROVE  up(t) \in Nat /\ m.cursors[t] \in Nat /\ n.cursors[t] = m.cursors[t] + up(t)
  BY LeaseEndedCount DEF Cleaned, State
<1>2. ASSUME NEW r \in LeaseEnded(m)
      PROVE  /\ r \in Request
             /\ n.conns[r].cursor = m.cursors[TargetOf[r]] + order[r]
             /\ order[r] \in Nat /\ order[r] >= 1 /\ order[r] <= up(TargetOf[r])
  <2>1. r \in Request
    BY DEF LeaseEnded
  <2>2. n.conns[r] = Queued(m.cursors[TargetOf[r]] + order[r], m.conns[r].ttl)
    BY <2>1, CleanedConn
  <2>3. QED
    BY <2>1, <2>2, RequeueOrderFacts DEF Queued
<1>3. ASSUME NEW r \in Request, r \notin LeaseEnded(m), n.conns[r].state # "absent"
      PROVE  /\ n.conns[r].cursor = m.conns[r].cursor
             /\ m.conns[r].state # "absent"
             /\ n.conns[r].state = "queued" => m.conns[r].state = "queued"
  <2>1. r \notin Retired(m)
    BY <1>3, CleanedPhase
  <2>2. CASE r \in Overdue(m)
    <3>1. n.conns[r] = Settled(m.conns[r], "expired")
      BY <2>2, CleanedConn
    <3>2. n.conns[r].cursor = m.conns[r].cursor
      BY <3>1 DEF Settled
    <3>3. n.conns[r].state = "expired" /\ m.conns[r].state # "absent"
      BY <2>2, CleanedPhase
    <3>4. QED
      BY <3>2, <3>3
  <2>3. CASE r \notin Overdue(m)
    BY <1>3, <2>1, <2>3, CleanedConn
  <2>4. QED
    BY <2>2, <2>3
<1>4. \A r \in Request : TargetOf[r] \in Node
  BY SetAssumption
<1>5. \A r \in Request : m.conns[r].cursor \in Nat
  BY DEF State, Connection
<1> HIDE DEF n, up
<1>6. ASSUME NEW r \in Request, n.conns[r].state # "absent"
      PROVE  n.conns[r].cursor <= n.cursors[TargetOf[r]]
  <2>1. CASE r \in LeaseEnded(m)
    BY <1>1, <1>2, <1>4, <2>1
  <2>2. CASE r \notin LeaseEnded(m)
    <3>1. m.conns[r].cursor <= m.cursors[TargetOf[r]]
      BY <1>3, <1>6, <2>2 DEF Counted
    <3>2. QED
      BY <1>1, <1>3, <1>4, <1>5, <1>6, <2>2, <3>1
  <2>3. QED
    BY <2>1, <2>2
<1>7. ASSUME NEW t \in Node, NEW c \in Nat, Above(m, t, c) PROVE Above(n, t, c)
  <2>1. c <= n.cursors[t]
    BY <1>1, <1>7 DEF Above
  <2>2. ASSUME NEW r \in Request, TargetOf[r] = t, n.conns[r].state = "queued"
        PROVE  n.conns[r].cursor > c
    <3>1. CASE r \in LeaseEnded(m)
      BY <1>1, <1>2, <1>7, <2>2, <3>1 DEF Above
    <3>2. CASE r \notin LeaseEnded(m)
      BY <1>3, <1>7, <2>2, <3>2 DEF Above
    <3>3. QED
      BY <3>1, <3>2
  <2>3. QED
    BY <2>1, <2>2 DEF Above
<1>8. QED
  BY <1>6, <1>7 DEF Counted, n

\* What a handler stores after cleanup stays beyond every passed cursor.
LEMMA StoredAbove ==
    ASSUME NEW m \in State, NEW new, StoredFrom(m, new), Counted(m)
    PROVE  /\ Counted(new)
           /\ \A t \in Node, c \in Nat : Above(m, t, c) => Above(new, t, c)
<1>1. CASE new = m
  BY <1>1
<1>2. ASSUME NEW r \in Request, new = Enqueued(m, r)
      PROVE  /\ Counted(new)
             /\ \A t \in Node, c \in Nat : Above(m, t, c) => Above(new, t, c)
  <2>1. TargetOf[r] \in Node /\ \A t \in Node : m.cursors[t] \in Nat
    BY SetAssumption DEF State
  <2>2. /\ new.conns[r].cursor = m.cursors[TargetOf[r]] + 1
        /\ \A q \in Request : q # r => new.conns[q] = m.conns[q]
        /\ \A t \in Node : new.cursors[t] = IF t = TargetOf[r] THEN m.cursors[t] + 1
                                            ELSE m.cursors[t]
    BY <1>2, <2>1 DEF Enqueued, Queued, State
  <2>3. \A q \in Request : m.conns[q].cursor \in Nat /\ TargetOf[q] \in Node
    BY SetAssumption DEF State, Connection
  <2>4. Counted(new)
    BY <2>1, <2>2, <2>3 DEF Counted
  <2>5. ASSUME NEW t \in Node, NEW c \in Nat, Above(m, t, c) PROVE Above(new, t, c)
    BY <2>1, <2>2, <2>3, <2>5 DEF Above
  <2>6. QED
    BY <2>4, <2>5
<1>3. ASSUME new.cursors = m.cursors,
             \A r \in Request :
                /\ new.conns[r].cursor = m.conns[r].cursor
                /\ new.conns[r].state # "absent" => m.conns[r].state # "absent"
                /\ new.conns[r].state = "queued" => m.conns[r].state = "queued"
      PROVE  /\ Counted(new)
             /\ \A t \in Node, c \in Nat : Above(m, t, c) => Above(new, t, c)
  BY <1>3 DEF Counted, Above
<1>4. ASSUME NEW batch \in SUBSET {r \in Request : m.conns[r].state = "queued"},
             new = OfferedState(m, batch)
      PROVE  /\ Counted(new)
             /\ \A t \in Node, c \in Nat : Above(m, t, c) => Above(new, t, c)
  <2>1. new.cursors = m.cursors
    BY <1>4 DEF OfferedState, State
  <2>2. \A r \in Request : new.conns[r] = IF r \in batch THEN Offered(m.conns[r]) ELSE m.conns[r]
    BY <1>4 DEF OfferedState, State
  <2>3. \A r \in batch : m.conns[r].state # "absent"
    OBVIOUS
  <2>4. \A c : Offered(c).state = "offered" /\ Offered(c).cursor = c.cursor
    BY DEF Offered
  <2>5. QED
    BY <1>3, <2>1, <2>2, <2>3, <2>4
<1>5. ASSUME NEW r \in Request, NEW s \in Terminal, m.conns[r].state \in Live,
             new = SettledState(m, r, s)
      PROVE  /\ Counted(new)
             /\ \A t \in Node, c \in Nat : Above(m, t, c) => Above(new, t, c)
  <2>1. new.cursors = m.cursors
    BY <1>5 DEF SettledState, State
  <2>2. \A q \in Request : new.conns[q] = IF q = r THEN Settled(m.conns[r], s) ELSE m.conns[q]
    BY <1>5 DEF SettledState, State
  <2>3. s # "absent" /\ s # "queued" /\ m.conns[r].state # "absent"
    BY <1>5 DEF Terminal, Live
  <2>4. Settled(m.conns[r], s).state = s /\ Settled(m.conns[r], s).cursor = m.conns[r].cursor
    BY DEF Settled
  <2>5. QED
    BY <1>3, <2>1, <2>2, <2>3, <2>4
<1>6. QED
  BY <1>1, <1>2, <1>4, <1>5 DEF StoredFrom

\* As long as the coordinator does not restart, a passed cursor stays passed.
LEMMA AboveKept ==
    ASSUME ~MayCrash, TypeOK, Counted(mem), [Next]_vars
    PROVE  /\ Counted(mem')
           /\ \A t \in Node, c \in Nat : Above(mem, t, c) => Above(mem', t, c)
<1>1. mem \in State
  BY DEF TypeOK
<1>2. ASSUME mem' = AgedState(mem)
      PROVE  /\ Counted(mem')
             /\ \A t \in Node, c \in Nat : Above(mem, t, c) => Above(mem', t, c)
  <2>1. mem'.cursors = mem.cursors
    BY <1>1, <1>2 DEF AgedState, State
  <2>2. \A r \in Request : /\ mem'.conns[r].cursor = mem.conns[r].cursor
                           /\ mem'.conns[r].state = mem.conns[r].state
    BY <1>1, <1>2 DEF AgedState, Aged, State
  <2>3. QED
    BY <2>1, <2>2 DEF Counted, Above
<1>3. ASSUME HandlerStep
      PROVE  /\ Counted(mem')
             /\ \A t \in Node, c \in Nat : Above(mem, t, c) => Above(mem', t, c)
  <2>1. PICK order \in RequeueOrders(mem) : StoredFrom(Cleaned(mem, order), mem')
    BY <1>3 DEF HandlerStep
  <2> DEFINE n == Cleaned(mem, order)
  <2>2. n \in State
    BY <1>1, CleanedType
  <2>3. /\ Counted(n)
        /\ \A t \in Node, c \in Nat : Above(mem, t, c) => Above(n, t, c)
    BY <1>1, CleanedAbove
  <2>4. StoredFrom(n, mem')
    BY <2>1
  <2> HIDE DEF n
  <2>5. QED
    BY <2>2, <2>3, <2>4, StoredAbove
<1>4. ASSUME AckStep
      PROVE  /\ Counted(mem')
             /\ \A t \in Node, c \in Nat : Above(mem, t, c) => Above(mem', t, c)
  <2>1. mem'.cursors = mem.cursors /\ mem'.conns = mem.conns
    BY <1>1, <1>4 DEF AckStep, State
  <2>2. QED
    BY <2>1 DEF Counted, Above
<1>5. QED
  BY <1>2, <1>3, <1>4, StateStep DEF Counted, Above

\* A notification changes no cursor a handler holds and wakes no idle one.
LEMMA NotifyKeeps ==
    ASSUME inbox \in [Node -> InboxHandler], NEW rs, NEW t \in Node
    PROVE  LET n == NotifyTargets(inbox, rs)[t] IN
           /\ n.after = inbox[t].after
           /\ n.captured = inbox[t].captured
           /\ n.pc # "idle" => inbox[t].pc # "idle"
           /\ n.pc \in {"parked", "woken"} => inbox[t].pc \in {"parked", "woken"}
BY DEF NotifyTargets, InboxHandler

\* What CursorInv asks of one inbox handler when the targets know tl.
HandlerInv(m, tl, h, t) ==
    /\ h.pc # "idle" => h.after <= tl[t]
    /\ h.pc \in {"parked", "woken"} => Above(m, t, h.captured)

\* The cursors handed out by a step are passed when the step ends.
LEMMA CursorStep ==
    ASSUME ~MayCrash, TypeOK, CursorInv, [Next]_vars PROVE CursorInv'
<1>1. /\ Counted(mem')
      /\ \A t \in Node, c \in Nat : Above(mem, t, c) => Above(mem', t, c)
  BY AboveKept DEF CursorInv
<1>2. TypeOK'
  BY TypeStep
<1>3. /\ \A t \in Node : told[t] \in Nat /\ told'[t] \in Nat
      /\ \A t \in Node : inbox[t] \in InboxHandler
      /\ inbox \in [Node -> InboxHandler] /\ told \in [Node -> Nat]
  BY <1>2 DEF TypeOK
<1>4. \A t \in Node : inbox[t].captured \in Nat /\ inbox[t].after \in Nat
  BY <1>3 DEF InboxHandler
<1>5. \A t \in Node : Above(mem', t, told[t]) /\ HandlerInv(mem', told, inbox[t], t)
  BY <1>1, <1>3, <1>4 DEF CursorInv, HandlerInv
<1>6. SUFFICES ASSUME NEW t \in Node
               PROVE  Above(mem', t, told'[t]) /\ HandlerInv(mem', told', inbox'[t], t)
  BY <1>1 DEF CursorInv, HandlerInv, Above
<1>7. ASSUME told' = told, NEW rs, inbox' = NotifyTargets(inbox, rs)
      PROVE  Above(mem', t, told'[t]) /\ HandlerInv(mem', told', inbox'[t], t)
  BY <1>3, <1>5, <1>7, NotifyKeeps DEF HandlerInv
<1>8. ASSUME told' = told, inbox'[t] = inbox[t]
      PROVE  Above(mem', t, told'[t]) /\ HandlerInv(mem', told', inbox'[t], t)
  BY <1>5, <1>8 DEF HandlerInv
<1>9. ASSUME told' = told, inbox'[t] = IdleInbox
      PROVE  Above(mem', t, told'[t]) /\ HandlerInv(mem', told', inbox'[t], t)
  BY <1>5, <1>9 DEF HandlerInv, IdleInbox
<1>10. ASSUME NEW order \in RequeueOrders(mem), NEW u \in Node, Looping(u),
              NEW q \in Request, TargetOf[q] = u,
              Cleaned(mem, order).conns[q].state = "queued"
       PROVE  q \in PendingEvents(Cleaned(mem, order), u, inbox[u].after)
  <2> DEFINE n == Cleaned(mem, order)
  <2>1. n \in State
    BY CleanedType DEF TypeOK
  <2>2. Above(n, u, told[u])
    BY <1>3, CleanedAbove DEF TypeOK, CursorInv
  <2>3. inbox[u].after <= told[u]
    BY <1>10 DEF Looping, CursorInv
  <2> HIDE DEF n
  <2>4. n.conns[q].cursor > inbox[u].after
    <3>1. n.conns[q].cursor > told[u]
      BY <1>10, <2>2 DEF Above, n
    <3>2. n.conns[q].cursor \in Nat
      BY <2>1 DEF State, Connection
    <3>3. QED
      BY <1>3, <1>4, <2>3, <3>1, <3>2
  <2>5. QED
    BY <1>10, <2>4 DEF PendingEvents, RequestsTo, n
<1>11. ASSUME NEW u \in Node, InboxRegister(u)
       PROVE  Above(mem', t, told'[t]) /\ HandlerInv(mem', told', inbox'[t], t)
  <2>1. PICK after \in 0..told[u] :
          inbox' = [inbox EXCEPT ![u] = [pc |-> "looping", after |-> after, captured |-> 0]]
    BY <1>11 DEF InboxRegister
  <2>2. told' = told
    BY <1>11 DEF InboxRegister
  <2>3. CASE u = t
    BY <1>3, <1>5, <2>1, <2>2, <2>3 DEF HandlerInv
  <2>4. CASE u # t
    BY <1>3, <1>8, <2>1, <2>2, <2>4
  <2>5. QED
    BY <2>3, <2>4
<1>12. ASSUME NEW u \in Node, InboxDeliver(u)
       PROVE  Above(mem', t, told'[t]) /\ HandlerInv(mem', told', inbox'[t], t)
  <2>1. PICK order \in RequeueOrders(mem), ok \in PersistOutcomes, heard \in BOOLEAN :
            InboxDeliver(u)!(order, ok, heard)
    BY <1>12 DEF InboxDeliver
  <2> DEFINE n == Cleaned(mem, order)
  <2>2. PICK batch \in Batches(n, u, inbox[u].after) :
            \E last \in batch : DeliverBatch(u, n, batch, last, ok, heard)
    BY <2>1
  <2>3. n \in State /\ Counted(n)
    BY CleanedType, CleanedAbove DEF TypeOK, CursorInv
  <2>4. \A q \in Request : TargetOf[q] = u /\ n.conns[q].state = "queued"
            => q \in PendingEvents(n, u, inbox[u].after)
    BY <1>10, <2>1
  <2> HIDE DEF n
  <2>5. PICK last \in batch : DeliverBatch(u, n, batch, last, ok, heard)
    BY <2>2
  <2> DEFINE top == n.conns[last].cursor
  <2>6. /\ last \in Request /\ TargetOf[last] = u /\ n.conns[last].state = "queued"
        /\ \A q \in PendingEvents(n, u, inbox[u].after) \ batch : top < n.conns[q].cursor
    BY DEF Batches, PendingEvents, RequestsTo
  <2>7. top \in Nat /\ top <= n.cursors[u]
    BY <2>3, <2>6 DEF State, Connection, Counted
  <2>8. /\ mem'.cursors = n.cursors
        /\ \A q \in Request : mem'.conns[q] = IF q \in batch THEN Offered(n.conns[q])
                                              ELSE n.conns[q]
    BY <2>3, <2>5 DEF DeliverBatch, OfferedState, State
  <2>9. Above(mem', u, top)
    <3>1. \A q \in batch : Offered(n.conns[q]).state # "queued"
      BY DEF Offered
    <3>2. ASSUME NEW q \in Request, TargetOf[q] = u, mem'.conns[q].state = "queued"
          PROVE  mem'.conns[q].cursor > top
      <4>1. q \notin batch /\ mem'.conns[q] = n.conns[q]
        BY <2>8, <3>1, <3>2
      <4>2. q \in PendingEvents(n, u, inbox[u].after)
        BY <2>4, <3>2, <4>1
      <4>3. top < n.conns[q].cursor /\ n.conns[q].cursor \in Nat
        BY <2>3, <2>6, <4>1, <4>2 DEF State, Connection
      <4>4. QED
        BY <2>7, <4>1, <4>3
    <3>3. QED
      BY <2>7, <2>8, <3>2 DEF Above
  <2>10. /\ told' = IF ok /\ heard /\ top > told[u] THEN [told EXCEPT ![u] = top] ELSE told
         /\ inbox' = [NotifyTargets(inbox, CleanupNotifies(mem)) EXCEPT ![u] = IdleInbox]
    BY <2>5 DEF DeliverBatch
  <2> HIDE DEF top
  <2>11. CASE u = t
    <3>1. inbox'[t] = IdleInbox
      BY <2>10, <2>11, NotifyType, <1>3
    <3>2. told'[t] = told[t] \/ told'[t] = top
      BY <1>3, <2>10, <2>11
    <3>3. QED
      BY <1>5, <2>9, <2>11, <3>1, <3>2 DEF HandlerInv, IdleInbox
  <2>12. CASE u # t
    <3>1. told'[t] = told[t] /\ inbox'[t] = NotifyTargets(inbox, CleanupNotifies(mem))[t]
      BY <1>3, <2>10, <2>12 DEF NotifyTargets
    <3>2. QED
      BY <1>3, <1>5, <3>1, NotifyKeeps DEF HandlerInv
  <2>13. QED
    BY <2>11, <2>12
<1>13. ASSUME NEW u \in Node, InboxPark(u)
       PROVE  Above(mem', t, told'[t]) /\ HandlerInv(mem', told', inbox'[t], t)
  <2>1. PICK order \in RequeueOrders(mem), changed \in CleanupOutcomes, ok \in PersistOutcomes :
            InboxPark(u)!(order, changed, ok)
    BY <1>13 DEF InboxPark
  <2> DEFINE n == Cleaned(mem, order)
             ws == NotifyTargets(inbox, CleanupNotifies(mem))
  <2>2. /\ mem' = n /\ told' = told /\ Looping(u)
        /\ inbox' = [ws EXCEPT ![u] =
                        IF changed /\ ~ok THEN IdleInbox
                        ELSE [pc |-> "parked", after |-> ws[u].after,
                              captured |-> n.cursors[u]]]
    BY <2>1 DEF NotifyTargets
  <2>3. n.cursors[u] \in Nat
    BY CleanedType DEF TypeOK, State
  <2>4. \A q \in Request : TargetOf[q] = u => n.conns[q].state # "queued"
    BY <1>10, <2>1
  <2> HIDE DEF n
  <2>5. Above(mem', u, n.cursors[u])
    BY <2>2, <2>3, <2>4 DEF Above
  <2>6. ws \in [Node -> InboxHandler]
    BY <1>3, NotifyType
  <2>7. \A v \in Node : ws[v].after = inbox[v].after
    BY <1>3, NotifyKeeps
  <2>8. inbox[u].after <= told[u]
    BY <2>2 DEF Looping, CursorInv
  <2>9. CASE u = t
    BY <1>5, <1>9, <2>2, <2>5, <2>6, <2>7, <2>8, <2>9 DEF HandlerInv
  <2>10. CASE u # t
    <3>1. inbox'[t] = ws[t]
      BY <2>2, <2>6, <2>10
    <3>2. QED
      BY <1>3, <1>5, <2>2, <3>1, NotifyKeeps DEF HandlerInv
  <2>11. QED
    BY <2>9, <2>10
<1>14. ASSUME NEW u \in Node, InboxTimeout(u)
       PROVE  Above(mem', t, told'[t]) /\ HandlerInv(mem', told', inbox'[t], t)
  <2>1. /\ inbox' = [inbox EXCEPT ![u] = IdleInbox]
        /\ \/ told' = told
           \/ told' = [told EXCEPT ![u] = inbox[u].captured]
        /\ inbox[u].pc \in {"parked", "woken"}
    BY <1>14 DEF InboxTimeout
  <2>2. CASE u = t
    BY <1>3, <1>5, <2>1, <2>2 DEF HandlerInv, IdleInbox
  <2>3. CASE u # t
    BY <1>3, <1>5, <2>1, <2>3 DEF HandlerInv
  <2>4. QED
    BY <2>2, <2>3
<1>15. CASE \E u \in Node : AckConnectionInbox(u)
  BY <1>8, <1>15 DEF AckConnectionInbox
<1>16. CASE \/ Tick \/ RevokeNode \/ UNCHANGED vars
            \/ \E r \in Request : StatusCall(r) \/ StatusTimeout(r)
  BY <1>8, <1>16 DEF Tick, RevokeNode, vars, StatusCall, StatusTimeout
<1>17. CASE DiscoverNodes \/ UpdateNode \/ Refused
  BY <1>7, <1>17 DEF DiscoverNodes, UpdateNode, Refused, CleanupWith
<1>18. CASE \E k \in Node \X Key : CreateReplayed(k)
  BY <1>7, <1>18 DEF CreateReplayed, CleanupWith
<1>19. CASE \E r \in Request : CreateAdmitted(r) \/ SettleRepeated(r) \/ Status(r)
  BY <1>7, <1>19 DEF CreateAdmitted, SettleRepeated, CleanupWith, Status, StatusGone,
                     StatusAnswer, StatusPark
<1>20. CASE \E r \in Request : DecideConnection(r) \/ CancelConnection(r)
  BY <1>7, <1>20 DEF DecideConnection, CancelConnection, Settle
<1>21. CASE \E u \in Node : Inbox(u) \/ InboxTimeout(u)
  BY <1>11, <1>12, <1>13, <1>14, <1>21 DEF Inbox
<1>22. ~Restart
  BY DEF Restart
<1>23. QED
  BY <1>15, <1>16, <1>17, <1>18, <1>19, <1>20, <1>21, <1>22 DEF Next

\* While the coordinator is not restarted, and even if its file cannot be
\* written, no cursor a target is told hides a queued request from it.
THEOREM NoOfferSkipped == ASSUME ~MayCrash PROVE Spec => []NoSkippedOffer
<1>1. Init => CursorInv
  BY DEF Init, CursorInv, Counted, Above, EmptyState, Absent, IdleInbox
<1>2. TypeOK /\ CursorInv /\ [Next]_vars => CursorInv'
  BY CursorStep
<1>3. TypeOK /\ CursorInv => NoSkippedOffer
  BY SetAssumption DEF CursorInv, Above, NoSkippedOffer
<1>4. QED
  BY <1>1, <1>2, <1>3, TypeCorrect, PTL DEF Spec

=============================================================================
