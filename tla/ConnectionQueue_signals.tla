----------------------- MODULE ConnectionQueue_signals -----------------------
(* Proofs that no long-poll handler of the queue sleeps through what it     *)
(* waits for, in every environment of ConnectionQueue.                      *)
EXTENDS ConnectionQueue_proofs

-----------------------------------------------------------------------------
(* The inbox handlers *)

\* An inbox handler still parked after a notification was parked before and
\* none of the notified requests is for its node.
LEMMA StillParked ==
    ASSUME inbox \in [Node -> InboxHandler], NEW rs, NEW t \in Node,
           NotifyTargets(inbox, rs)[t].pc = "parked"
    PROVE  /\ inbox[t].pc = "parked"
           /\ NotifyTargets(inbox, rs)[t].after = inbox[t].after
           /\ \A r \in rs : TargetOf[r] # t
BY DEF NotifyTargets, InboxHandler

\* What is asked of the handler of t after a step.
Quiet(t) == inbox'[t].pc = "parked" => PendingEvents(mem', t, inbox'[t].after) = {}

\* A handler that is not notified finds nothing new, if the step notifies what
\* cleanup notifies and every other request that it leaves queued.
LEMMA NotifiedQuiet ==
    ASSUME TypeOK, NoLostWakeup, NEW order \in RequeueOrders(mem), NEW t \in Node,
           NEW rs, CleanupNotifies(mem) \subseteq rs,
           inbox'[t] = NotifyTargets(inbox, rs)[t],
           \A q \in Request :
               TargetOf[q] = t /\ mem'.conns[q].state = "queued" /\ q \notin rs
                   => mem'.conns[q] = Cleaned(mem, order).conns[q]
    PROVE  Quiet(t)
<1> SUFFICES ASSUME inbox'[t].pc = "parked",
                    NEW q \in PendingEvents(mem', t, inbox'[t].after)
             PROVE  FALSE
  BY DEF Quiet
<1>1. /\ inbox[t].pc = "parked"
      /\ inbox'[t].after = inbox[t].after
      /\ \A r \in rs : TargetOf[r] # t
  BY StillParked DEF TypeOK
<1>2. /\ q \in Request /\ TargetOf[q] = t
      /\ mem'.conns[q].state = "queued" /\ mem'.conns[q].cursor > inbox[t].after
  BY <1>1 DEF PendingEvents, RequestsTo
<1>3. q \notin rs /\ q \notin Overdue(mem) /\ q \notin LeaseEnded(mem)
  BY <1>1, <1>2 DEF CleanupNotifies
<1>4. mem'.conns[q] = Cleaned(mem, order).conns[q]
  BY <1>2, <1>3
<1>5. q \notin Retired(mem)
  BY <1>2, <1>4, CleanedPhase
<1>6. mem'.conns[q] = mem.conns[q]
  BY <1>2, <1>3, <1>4, <1>5, CleanedConn
<1>7. q \in PendingEvents(mem, t, inbox[t].after)
  BY <1>2, <1>6 DEF PendingEvents, RequestsTo
<1>8. QED
  BY <1>1, <1>7 DEF NoLostWakeup

\* Every step leaves every parked inbox handler with nothing to deliver.
LEMMA WakeupStep ==
    ASSUME TypeOK, NoLostWakeup, [Next]_vars, NEW t \in Node PROVE Quiet(t)
<1>1. /\ inbox \in [Node -> InboxHandler] /\ mem \in State
      /\ \A rs : NotifyTargets(inbox, rs) \in [Node -> InboxHandler]
  BY NotifyType DEF TypeOK
<1>2. ASSUME NEW order \in RequeueOrders(mem), mem' = Cleaned(mem, order),
             inbox'[t] = NotifyTargets(inbox, CleanupNotifies(mem))[t]
      PROVE  Quiet(t)
  BY <1>2, NotifiedQuiet
<1>3. ASSUME mem'.conns = mem.conns, inbox'[t] = inbox[t] PROVE Quiet(t)
  BY <1>3 DEF Quiet, NoLostWakeup, PendingEvents
<1>4. ASSUME inbox'[t].pc # "parked" PROVE Quiet(t)
  BY <1>4 DEF Quiet
<1>5. CASE Tick
  <2>1. inbox' = inbox /\ mem' = AgedState(mem)
    BY <1>5 DEF Tick
  <2>2. \A q \in Request : /\ mem'.conns[q].state = mem.conns[q].state
                           /\ mem'.conns[q].cursor = mem.conns[q].cursor
    BY <1>1, <2>1 DEF AgedState, Aged, State
  <2>3. \A after : PendingEvents(mem', t, after) = PendingEvents(mem, t, after)
    BY <2>2 DEF PendingEvents, RequestsTo
  <2>4. QED
    BY <2>1, <2>3 DEF Quiet, NoLostWakeup
<1>6. CASE DiscoverNodes \/ UpdateNode \/ Refused
  BY <1>2, <1>6 DEF DiscoverNodes, UpdateNode, Refused, CleanupWith
<1>7. CASE RevokeNode \/ UNCHANGED vars
  BY <1>3, <1>7 DEF RevokeNode, vars
<1>8. CASE Restart
  BY <1>4, <1>8 DEF Restart, IdleInbox
<1>9. CASE \E k \in Node \X Key : CreateReplayed(k)
  BY <1>2, <1>9 DEF CreateReplayed, CleanupWith
<1>10. ASSUME NEW u \in Node, InboxRegister(u) \/ InboxTimeout(u) PROVE Quiet(t)
  <2>1. mem' = mem /\ \E h : h.pc # "parked" /\ inbox' = [inbox EXCEPT ![u] = h]
    BY <1>10 DEF InboxRegister, InboxTimeout, IdleInbox
  <2>2. QED
    BY <1>1, <1>3, <1>4, <2>1
<1>11. ASSUME NEW u \in Node, InboxDeliver(u) PROVE Quiet(t)
  <2>1. PICK order \in RequeueOrders(mem), ok \in PersistOutcomes, heard \in BOOLEAN :
            InboxDeliver(u)!(order, ok, heard)
    BY <1>11 DEF InboxDeliver
  <2> DEFINE m == Cleaned(mem, order)
             ws == NotifyTargets(inbox, CleanupNotifies(mem))
  <2>2. PICK batch \in Batches(m, u, inbox[u].after) :
            \E last \in batch : DeliverBatch(u, m, batch, last, ok, heard)
    BY <2>1
  <2>3. mem' = OfferedState(m, batch) /\ inbox' = [ws EXCEPT ![u] = IdleInbox]
    BY <2>2 DEF DeliverBatch
  <2>4. m \in State /\ ws \in [Node -> InboxHandler]
    BY <1>1, CleanedType
  <2>5. CASE u = t
    BY <1>4, <2>3, <2>4, <2>5 DEF IdleInbox
  <2>6. CASE u # t
    <3>1. inbox'[t] = ws[t]
      BY <2>3, <2>4, <2>6
    <3>2. \A q \in Request : mem'.conns[q].state = "queued" => mem'.conns[q] = m.conns[q]
      BY <2>3, <2>4 DEF OfferedState, Offered, State
    <3>3. QED
      BY <3>1, <3>2, NotifiedQuiet
  <2>7. QED
    BY <2>5, <2>6
<1>12. ASSUME NEW u \in Node, InboxPark(u) PROVE Quiet(t)
  <2>1. PICK order \in RequeueOrders(mem), changed \in CleanupOutcomes, ok \in PersistOutcomes :
            InboxPark(u)!(order, changed, ok)
    BY <1>12 DEF InboxPark
  <2> DEFINE ws == NotifyTargets(inbox, CleanupNotifies(mem))
  <2>2. ws \in [Node -> InboxHandler] /\ ws[u].after = inbox[u].after
    BY <1>1, NotifyKeeps
  <2>3. PICK h : /\ inbox' = [ws EXCEPT ![u] = h]
                 /\ h.pc = "parked" => h.after = ws[u].after
    <3> DEFINE h == IF changed /\ ~ok THEN IdleInbox
                    ELSE [pc |-> "parked", after |-> ws[u].after,
                          captured |-> Cleaned(mem, order).cursors[u]]
    <3>1. inbox' = [ws EXCEPT ![u] = h]
      BY <2>1
    <3>2. h.pc = "parked" => h.after = ws[u].after
      BY DEF IdleInbox
    <3>3. QED
      BY <3>1, <3>2
  <2>4. mem' = Cleaned(mem, order) /\ PendingEvents(mem', u, inbox[u].after) = {}
    BY <2>1
  <2>5. CASE u = t
    BY <2>2, <2>3, <2>4, <2>5 DEF Quiet
  <2>6. CASE u # t
    BY <1>2, <2>2, <2>3, <2>4, <2>6
  <2>7. QED
    BY <2>5, <2>6
<1>13. ASSUME NEW u \in Node, AckConnectionInbox(u) PROVE Quiet(t)
  BY <1>1, <1>3, <1>13 DEF AckConnectionInbox, State
<1>14. ASSUME NEW r \in Request, CreateAdmitted(r) PROVE Quiet(t)
  <2>1. PICK order \in RequeueOrders(mem), changed \in CleanupOutcomes, ok \in PersistOutcomes :
            CreateAdmitted(r)!(order, changed, ok)
    BY <1>14 DEF CreateAdmitted
  <2> DEFINE m == Cleaned(mem, order)
  <2>2. m \in State
    BY <1>1, CleanedType
  <2>3. mem' = Enqueued(m, r) /\ inbox' = NotifyTargets(inbox, CleanupNotifies(mem) \cup {r})
    BY <2>1
  <2>4. \A q \in Request : q # r => mem'.conns[q] = m.conns[q]
    BY <2>2, <2>3 DEF Enqueued, State
  <2>5. QED
    BY <2>3, <2>4, NotifiedQuiet
<1>15. ASSUME NEW r \in Request, NEW s \in Terminal, NEW ts, Settle(r, s, ts) PROVE Quiet(t)
  <2>1. PICK order \in RequeueOrders(mem), changed \in CleanupOutcomes, ok \in PersistOutcomes :
            Settle(r, s, ts)!(order, changed, ok)
    BY <1>15 DEF Settle
  <2> DEFINE m == Cleaned(mem, order)
  <2>2. m \in State
    BY <1>1, CleanedType
  <2>3. mem' = SettledState(m, r, s) /\ inbox' = NotifyTargets(inbox, CleanupNotifies(mem) \cup ts)
    BY <2>1
  <2>4. /\ \A q \in Request : q # r => mem'.conns[q] = m.conns[q]
        /\ mem'.conns[r].state = s
    BY <2>2, <2>3 DEF SettledState, Settled, State
  <2>5. s # "queued"
    BY DEF Terminal
  <2>6. QED
    BY <2>3, <2>4, <2>5, NotifiedQuiet
<1>16. ASSUME NEW r \in Request, SettleRepeated(r) PROVE Quiet(t)
  BY <1>2, <1>16 DEF SettleRepeated, CleanupWith
<1>17. ASSUME NEW r \in Request, StatusCall(r) \/ StatusTimeout(r) PROVE Quiet(t)
  BY <1>3, <1>17 DEF StatusCall, StatusTimeout
<1>18. ASSUME NEW r \in Request, Status(r) PROVE Quiet(t)
  BY <1>2, <1>18 DEF Status, StatusGone, StatusAnswer, StatusPark
<1>19. CASE \E r \in Request : DecideConnection(r) \/ CancelConnection(r)
  BY <1>15, <1>19 DEF DecideConnection, CancelConnection, Terminal
<1>20. QED
  BY <1>5, <1>6, <1>7, <1>8, <1>9, <1>10, <1>11, <1>12, <1>13, <1>14, <1>16, <1>17, <1>18, <1>19
     DEF Next, Inbox

\* No inbox long-poll sleeps while its node has an event to receive: create,
\* requeueing by any handler's cleanup, failing writes and restarts included.
THEOREM NoWakeupLost == Spec => []NoLostWakeup
<1>1. Init => NoLostWakeup
  BY DEF Init, NoLostWakeup, IdleInbox
<1>2. TypeOK /\ NoLostWakeup /\ [Next]_vars => NoLostWakeup'
  BY WakeupStep DEF NoLostWakeup, Quiet
<1>3. QED
  BY <1>1, <1>2, TypeCorrect, PTL DEF Spec

-----------------------------------------------------------------------------
(* The status handlers *)

\* A status handler still parked after a notification was parked before, with
\* the same known state, and its request is not among the notified ones.
LEMMA StillWatching ==
    ASSUME watch \in [Request -> WatchHandler], NEW rs, NEW r \in Request,
           NotifyRequests(watch, rs)[r].pc = "parked"
    PROVE  /\ watch[r].pc = "parked"
           /\ NotifyRequests(watch, rs)[r].known = watch[r].known
           /\ r \notin rs
BY DEF NotifyRequests, WatchHandler

\* What is asked of the status handler of r after a step.
Current(r) == watch'[r].pc = "parked" => mem'.conns[r].state = watch'[r].known

\* A handler that is not notified still knows the state of its request, if the
\* step notifies what cleanup notifies and every other request it changes.
LEMMA NotifiedCurrent ==
    ASSUME TypeOK, NoStaleWatch, NEW order \in RequeueOrders(mem), NEW r \in Request,
           NEW rs, CleanupNotifies(mem) \subseteq rs,
           watch'[r] = NotifyRequests(watch, rs)[r],
           r \notin rs => mem'.conns[r].state = Cleaned(mem, order).conns[r].state
    PROVE  Current(r)
<1> SUFFICES ASSUME watch'[r].pc = "parked" PROVE mem'.conns[r].state = watch'[r].known
  BY DEF Current
<1>1. watch[r].pc = "parked" /\ watch'[r].known = watch[r].known /\ r \notin rs
  BY StillWatching DEF TypeOK
<1>2. mem.conns[r].state = watch[r].known
  BY <1>1 DEF NoStaleWatch
<1>3. mem.conns[r].state \in Live
  BY <1>2 DEF TypeOK, State, Connection, WatchHandler, Live, Terminal
<1>4. r \notin Overdue(mem) \cup LeaseEnded(mem) \cup Retired(mem)
  BY <1>1, <1>3 DEF CleanupNotifies, Retired, Live, Terminal
<1>5. Cleaned(mem, order).conns[r].state = mem.conns[r].state
  BY <1>4, CleanedPhase
<1>6. QED
  BY <1>1, <1>2, <1>5

\* Every step leaves every parked status handler with the state it knows.
LEMMA WatchStep ==
    ASSUME TypeOK, NoStaleWatch, [Next]_vars, NEW r \in Request PROVE Current(r)
<1>1. /\ watch \in [Request -> WatchHandler] /\ mem \in State
      /\ \A rs : NotifyRequests(watch, rs) \in [Request -> WatchHandler]
  BY NotifyType DEF TypeOK
<1>2. ASSUME NEW order \in RequeueOrders(mem), mem' = Cleaned(mem, order),
             watch'[r] = NotifyRequests(watch, CleanupNotifies(mem))[r]
      PROVE  Current(r)
  BY <1>2, NotifiedCurrent
<1>3. ASSUME mem'.conns[r].state = mem.conns[r].state, watch'[r] = watch[r] PROVE Current(r)
  BY <1>3 DEF Current, NoStaleWatch
<1>4. ASSUME watch'[r].pc # "parked" PROVE Current(r)
  BY <1>4 DEF Current
<1>5. CASE Tick
  <2>1. watch' = watch /\ mem' = AgedState(mem)
    BY <1>5 DEF Tick
  <2>2. mem'.conns[r].state = mem.conns[r].state
    BY <1>1, <2>1 DEF AgedState, Aged, State
  <2>3. QED
    BY <1>3, <2>1, <2>2
<1>6. CASE DiscoverNodes \/ UpdateNode \/ Refused
  BY <1>2, <1>6 DEF DiscoverNodes, UpdateNode, Refused, CleanupWith
<1>7. CASE RevokeNode \/ UNCHANGED vars
  BY <1>3, <1>7 DEF RevokeNode, vars
<1>8. CASE Restart
  BY <1>4, <1>8 DEF Restart, IdleWatch
<1>9. CASE \E k \in Node \X Key : CreateReplayed(k)
  BY <1>2, <1>9 DEF CreateReplayed, CleanupWith
<1>10. CASE \E u \in Node : InboxRegister(u) \/ InboxTimeout(u) \/ AckConnectionInbox(u)
  <2>1. mem'.conns = mem.conns /\ watch' = watch
    BY <1>1, <1>10 DEF InboxRegister, InboxTimeout, AckConnectionInbox, State
  <2>2. QED
    BY <1>3, <2>1
<1>11. ASSUME NEW u \in Node, InboxDeliver(u) PROVE Current(r)
  <2>1. PICK order \in RequeueOrders(mem), ok \in PersistOutcomes, heard \in BOOLEAN :
            InboxDeliver(u)!(order, ok, heard)
    BY <1>11 DEF InboxDeliver
  <2> DEFINE m == Cleaned(mem, order)
  <2>2. PICK batch \in Batches(m, u, inbox[u].after) :
            \E last \in batch : DeliverBatch(u, m, batch, last, ok, heard)
    BY <2>1
  <2>3. /\ mem' = OfferedState(m, batch)
        /\ watch' = NotifyRequests(watch, CleanupNotifies(mem) \cup batch)
    BY <2>2 DEF DeliverBatch
  <2>4. m \in State
    BY <1>1, CleanedType
  <2>5. r \notin batch => mem'.conns[r] = m.conns[r]
    BY <2>3, <2>4 DEF OfferedState, State
  <2>6. QED
    BY <2>3, <2>5, NotifiedCurrent
<1>12. CASE \E u \in Node : InboxPark(u)
  BY <1>2, <1>12 DEF InboxPark
<1>13. ASSUME NEW q \in Request, CreateAdmitted(q) PROVE Current(r)
  <2>1. PICK order \in RequeueOrders(mem), changed \in CleanupOutcomes, ok \in PersistOutcomes :
            CreateAdmitted(q)!(order, changed, ok)
    BY <1>13 DEF CreateAdmitted
  <2> DEFINE m == Cleaned(mem, order)
  <2>2. m \in State
    BY <1>1, CleanedType
  <2>3. mem' = Enqueued(m, q) /\ watch' = NotifyRequests(watch, CleanupNotifies(mem) \cup {q})
    BY <2>1
  <2>4. r # q => mem'.conns[r] = m.conns[r]
    BY <2>2, <2>3 DEF Enqueued, State
  <2>5. QED
    BY <2>3, <2>4, NotifiedCurrent
<1>14. ASSUME NEW q \in Request, NEW s, NEW ts, Settle(q, s, ts) PROVE Current(r)
  <2>1. PICK order \in RequeueOrders(mem), changed \in CleanupOutcomes, ok \in PersistOutcomes :
            Settle(q, s, ts)!(order, changed, ok)
    BY <1>14 DEF Settle
  <2> DEFINE m == Cleaned(mem, order)
  <2>2. m \in State
    BY <1>1, CleanedType
  <2>3. mem' = SettledState(m, q, s) /\ watch' = NotifyRequests(watch, CleanupNotifies(mem) \cup {q})
    BY <2>1
  <2>4. r # q => mem'.conns[r] = m.conns[r]
    BY <2>2, <2>3 DEF SettledState, State
  <2>5. QED
    BY <2>3, <2>4, NotifiedCurrent
<1>15. CASE \E q \in Request : SettleRepeated(q)
  BY <1>2, <1>15 DEF SettleRepeated, CleanupWith
<1>16. ASSUME NEW q \in Request, StatusCall(q) \/ StatusTimeout(q) PROVE Current(r)
  <2>1. mem' = mem /\ \E h : h.pc # "parked" /\ watch' = [watch EXCEPT ![q] = h]
    BY <1>16 DEF StatusCall, StatusTimeout, IdleWatch
  <2>2. QED
    BY <1>1, <1>3, <1>4, <2>1
<1>17. ASSUME NEW q \in Request, StatusGone(q) \/ StatusAnswer(q) PROVE Current(r)
  <2>1. PICK order \in RequeueOrders(mem) :
            /\ mem' = Cleaned(mem, order)
            /\ watch' = [NotifyRequests(watch, CleanupNotifies(mem)) EXCEPT ![q] = IdleWatch]
    BY <1>17 DEF StatusGone, StatusAnswer
  <2>2. CASE q = r
    BY <1>1, <1>4, <2>1, <2>2 DEF IdleWatch
  <2>3. CASE q # r
    BY <1>1, <1>2, <2>1, <2>3
  <2>4. QED
    BY <2>2, <2>3
<1>18. ASSUME NEW q \in Request, StatusPark(q) PROVE Current(r)
  <2>1. PICK order \in RequeueOrders(mem), changed \in CleanupOutcomes, ok \in PersistOutcomes :
            StatusPark(q)!(order, changed, ok)
    BY <1>18 DEF StatusPark
  <2> DEFINE ws == NotifyRequests(watch, CleanupNotifies(mem))
             h == IF changed /\ ~ok THEN IdleWatch ELSE [pc |-> "parked", known |-> ws[q].known]
  <2>2. watch' = [ws EXCEPT ![q] = h]
    BY <2>1
  <2>3. h.pc = "parked" => h.known = watch[q].known
    BY <1>1 DEF IdleWatch, NotifyRequests, WatchHandler
  <2>4. mem' = Cleaned(mem, order) /\ mem'.conns[q].state = watch[q].known
    BY <2>1
  <2>5. ws \in [Request -> WatchHandler]
    BY <1>1
  <2> HIDE DEF ws, h
  <2>6. CASE q = r
    BY <2>2, <2>3, <2>4, <2>5, <2>6 DEF Current
  <2>7. CASE q # r
    BY <1>2, <2>2, <2>4, <2>5, <2>7 DEF ws
  <2>8. QED
    BY <2>6, <2>7
<1>19. CASE \E q \in Request : DecideConnection(q) \/ CancelConnection(q)
  BY <1>14, <1>19 DEF DecideConnection, CancelConnection
<1>20. QED
  BY <1>5, <1>6, <1>7, <1>8, <1>9, <1>10, <1>11, <1>12, <1>13, <1>15, <1>16, <1>17, <1>18, <1>19
     DEF Next, Inbox, Status

\* No status long-poll sleeps on a request that has left the state its caller
\* knows: the request signal that cleanup drops unclosed has no sleeper.
THEOREM NoWatchStale == Spec => []NoStaleWatch
<1>1. Init => NoStaleWatch
  BY DEF Init, NoStaleWatch, IdleWatch
<1>2. TypeOK /\ NoStaleWatch /\ [Next]_vars => NoStaleWatch'
  BY WatchStep DEF NoStaleWatch, Current
<1>3. QED
  BY <1>1, <1>2, TypeCorrect, PTL DEF Spec

=============================================================================
