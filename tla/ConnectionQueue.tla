--------------------------- MODULE ConnectionQueue ---------------------------
(***************************************************************************)
(* The coordinator's connection-request queue: connection_server.go and    *)
(* the connection part of cleanupLocked in coordinator_nodes.go.           *)
(*                                                                         *)
(* A source node creates a request for a service of a target node; the     *)
(* target long-polls its inbox, is offered queued requests under a lease,  *)
(* acknowledges the cursor it has stored and decides; the source may       *)
(* cancel, and either side may wait for the state to change.  Every        *)
(* handler runs under the one registry mutex and first applies             *)
(* cleanupLocked, so one action is one critical section.                   *)
(*                                                                         *)
(*   mem      the maps of registry.state that belong to the queue          *)
(*   disk     the same maps in coordinator-state.json (last persistLocked) *)
(*   inbox    the inbox long-poll handler of each node (inboxWaiters)      *)
(*   watch    the status long-poll handler of each request                 *)
(*   told     ghost: the largest cursor an inbox reply gave the node       *)
(*   reported ghost: the terminal states replies have given for a request  *)
(*   minted   ghost: the random request identifiers already drawn          *)
(*                                                                         *)
(* Times are kept as what is left until the stored deadline has passed,    *)
(* so that the clock needs no bound: ttl for ExpiresAt, lease for          *)
(* OfferLeaseEnds, keep for UpdatedAt + 24h.  Each is kept only in the     *)
(* states in which the code reads it.  The source, target and idempotency  *)
(* key of a request are never written after creation, so they are          *)
(* functions of its identifier.                                            *)
(***************************************************************************)
EXTENDS Integers, FiniteSets

CONSTANTS
    Node,              \* node identifiers
    Key,               \* idempotency keys
    Request,           \* request identifiers (random tokens)
    SourceOf,          \* SourceNode of each request
    TargetOf,          \* TargetNode of each request
    KeyOf,             \* IdempotencyKey of each request
    NoRequest,         \* the missing entry of ConnectionIdempotency
    TTL,               \* connectionTTL, in ticks
    Lease,             \* connectionLease, in ticks
    Retention,         \* the 24 hours a terminal request is kept, in ticks
    ConnectionMax,     \* connectionMax
    MaxPerTarget,      \* maxConnectionsPerTarget
    MaxInboxEvents,    \* maxInboxEvents
    PersistMayFail,    \* whether writing coordinator-state.json may fail
    MayCrash,          \* whether the coordinator may stop and start again
    Polling,           \* the nodes that poll their inbox
    Watched,           \* the requests whose state somebody waits for
    Observed           \* the requests whose replies the ghost reported follows

ASSUME SetAssumption ==
    /\ IsFiniteSet(Request)
    /\ NoRequest \notin Request
    /\ SourceOf \in [Request -> Node]
    /\ TargetOf \in [Request -> Node]
    /\ KeyOf \in [Request -> Key]

ASSUME TimeAssumption ==
    /\ TTL \in Nat \ {0}
    /\ Lease \in Nat \ {0}
    /\ Retention \in Nat \ {0}

ASSUME BoundAssumption ==
    /\ ConnectionMax \in Nat
    /\ MaxPerTarget \in Nat
    /\ MaxInboxEvents \in Nat \ {0}
    /\ PersistMayFail \in BOOLEAN
    /\ MayCrash \in BOOLEAN
    /\ Polling \subseteq Node
    /\ Watched \subseteq Request
    /\ Observed \subseteq Request

VARIABLES mem, disk, inbox, watch, told, reported, minted

vars == <<mem, disk, inbox, watch, told, reported, minted>>

-----------------------------------------------------------------------------
(* Stored requests *)

Live == {"queued", "offered"}

\* connectionTerminal also lists "closed" and "failed", which nothing writes.
Terminal == {"accepted", "rejected", "canceled", "expired"}

Connection ==
    [state : Live \cup Terminal \cup {"absent"}, cursor : Nat,
     ttl : 0..TTL, lease : 0..Lease, keep : 0..Retention]

\* The value of an identifier that is not in r.state.Connections.
Absent == [state |-> "absent", cursor |-> 0, ttl |-> 0, lease |-> 0, keep |-> 0]

Queued(cursor, ttl) ==
    [state |-> "queued", cursor |-> cursor, ttl |-> ttl, lease |-> 0, keep |-> 0]

\* Mutant: an off-by-one in the offer lease.
OfferedTooLong(c) ==
    [state |-> "offered", cursor |-> c.cursor, ttl |-> c.ttl, lease |-> Lease + 1, keep |-> 0]

Offered(c) ==
    [state |-> "offered", cursor |-> c.cursor, ttl |-> c.ttl, lease |-> Lease, keep |-> 0]

\* What decide, cancel and expiry store: the lease is cleared.
Settled(c, state) ==
    [state |-> state, cursor |-> c.cursor, ttl |-> 0, lease |-> 0, keep |-> Retention]

IdempotencyIndex(r) == <<SourceOf[r], KeyOf[r]>>

RequestsTo(t) == {r \in Request : TargetOf[r] = t}

-----------------------------------------------------------------------------
(* cleanupLocked, on the connections of a state m *)

\* Mutants: expiry without the connectionTerminal test, and expiry of queued
\* requests only.
OverdueAnyState(m) == {r \in Request : m.conns[r].state # "absent" /\ m.conns[r].ttl = 0}
OverdueQueuedOnly(m) == {r \in Request : m.conns[r].state = "queued" /\ m.conns[r].ttl = 0}

Overdue(m) == {r \in Request : m.conns[r].state \in Live /\ m.conns[r].ttl = 0}

LeaseEnded(m) ==
    {r \in Request : /\ m.conns[r].state = "offered"
                     /\ m.conns[r].lease = 0
                     /\ m.conns[r].ttl # 0}

Retired(m) == {r \in Request : m.conns[r].state \in Terminal /\ m.conns[r].keep = 0}

CleanupChanges(m) == Overdue(m) \cup LeaseEnded(m) \cup Retired(m) # {}

\* Mutants: cleanup forgets to notify when it requeues, or when it expires.
CleanupNotifiesExpired(m) == Overdue(m)
CleanupNotifiesRequeued(m) == LeaseEnded(m)

\* The requests whose target and request signals cleanup closes.
CleanupNotifies(m) == Overdue(m) \cup LeaseEnded(m)

\* Go visits the map in an arbitrary order, so the requests of one target whose
\* lease ended get the next cursors of that target in any order.
RequeueOrders(m) ==
    {f \in [LeaseEnded(m) -> 1..Cardinality(LeaseEnded(m))] :
        \A r \in LeaseEnded(m) :
            /\ f[r] <= Cardinality(LeaseEnded(m) \cap RequestsTo(TargetOf[r]))
            /\ \A q \in LeaseEnded(m) :
                  TargetOf[q] = TargetOf[r] /\ f[q] = f[r] => q = r}

Cleaned(m, order) ==
    [conns |-> [r \in Request |->
        CASE r \in Overdue(m)    -> Settled(m.conns[r], "expired")
          [] r \in LeaseEnded(m) -> Queued(m.cursors[TargetOf[r]] + order[r], m.conns[r].ttl)
          [] r \in Retired(m)    -> Absent
          [] OTHER               -> m.conns[r]],
     idem |-> [k \in Node \X Key |->
        IF \E r \in Retired(m) : IdempotencyIndex(r) = k THEN NoRequest ELSE m.idem[k]],
     cursors |-> [t \in Node |->
        m.cursors[t] + Cardinality(LeaseEnded(m) \cap RequestsTo(t))],
     acks |-> m.acks]

-----------------------------------------------------------------------------
(* Signals, persistence and replies *)

IdleInbox == [pc |-> "idle", after |-> 0, captured |-> 0]

IdleWatch == [pc |-> "idle", known |-> "none"]

\* notifyTargetLocked for the targets of the requests in rs: the channel a
\* parked handler selects on is closed.
NotifyTargets(ws, rs) ==
    [t \in Node |->
        IF ws[t].pc = "parked" /\ \E r \in rs : TargetOf[r] = t
        THEN [ws[t] EXCEPT !.pc = "woken"] ELSE ws[t]]

\* notifyRequestLocked for the requests in rs.
NotifyRequests(ws, rs) ==
    [r \in Request |->
        IF ws[r].pc = "parked" /\ r \in rs
        THEN [ws[r] EXCEPT !.pc = "woken"] ELSE ws[r]]

PersistOutcomes == IF PersistMayFail THEN BOOLEAN ELSE {TRUE}

\* Mutant: the state is written when the coordinator stops in good order only.
PersistedOnExit(m, ok) == disk

\* persistLocked: the whole state replaces the file, or the write fails and the
\* file stays.  Only a restart reads the file, so without one it is not followed.
Persisted(m, ok) == IF ok /\ MayCrash THEN m ELSE disk

\* cleanupLocked also reports changes of enrollments, nodes and history, and
\* then the whole state is written although no connection changed.
CleanupOutcomes == IF CleanupChanges(mem) THEN {TRUE} ELSE BOOLEAN

\* The file after the "if cleanupLocked(now) { persistLocked() }" that starts
\* a handler, when the write succeeds.
DiskAfterCleanup(changed, m) == Persisted(m, changed)

\* A reply that shows request r in state s reaches the caller, or is lost.
Reply(r, s) ==
    \E heard \in BOOLEAN :
        reported' = IF heard /\ s \in Terminal /\ r \in Observed
                    THEN [reported EXCEPT ![r] = @ \cup {s}] ELSE reported

-----------------------------------------------------------------------------
(* Initial state: an empty coordinator-state.json *)

EmptyState ==
    [conns |-> [r \in Request |-> Absent],
     idem |-> [k \in Node \X Key |-> NoRequest],
     cursors |-> [t \in Node |-> 0],
     acks |-> [t \in Node |-> 0]]

Init ==
    /\ mem = EmptyState
    /\ disk = EmptyState
    /\ inbox = [t \in Node |-> IdleInbox]
    /\ watch = [r \in Request |-> IdleWatch]
    /\ told = [t \in Node |-> 0]
    /\ reported = [r \in Request |-> {}]
    /\ minted = {}

-----------------------------------------------------------------------------
(* Time *)

Less(n) == IF n = 0 THEN 0 ELSE n - 1

Aged(c) ==
    [state |-> c.state, cursor |-> c.cursor,
     ttl |-> Less(c.ttl), lease |-> Less(c.lease), keep |-> Less(c.keep)]

AgedState(m) == [m EXCEPT !.conns = [r \in Request |-> Aged(m.conns[r])]]

\* The stored times are absolute, so the ones in the file run down as well.
Tick ==
    /\ mem' = AgedState(mem)
    /\ disk' = AgedState(disk)
    /\ UNCHANGED <<inbox, watch, told, reported, minted>>

-----------------------------------------------------------------------------
(* Handlers that only run cleanup on the queue *)

\* The cleanup of a handler that changes no connection itself; file is what
\* coordinator-state.json holds afterwards.
CleanupWith(order, file) ==
    /\ mem' = Cleaned(mem, order)
    /\ disk' = file
    /\ inbox' = NotifyTargets(inbox, CleanupNotifies(mem))
    /\ watch' = NotifyRequests(watch, CleanupNotifies(mem))

\* discoverNodes runs cleanup and writes nothing; so do the 404 and 403 replies
\* of connectionStatus, the refusals of approveHandshake and rejectHandshake and
\* every handler whose write after cleanup fails.
DiscoverNodes ==
    \E order \in RequeueOrders(mem) :
        /\ CleanupWith(order, disk)
        /\ UNCHANGED <<told, reported, minted>>

\* updateNode (a heartbeat) runs cleanup and always writes the state; so do the
\* enrollment handlers.
UpdateNode ==
    \E order \in RequeueOrders(mem), ok \in PersistOutcomes :
        /\ CleanupWith(order, Persisted(Cleaned(mem, order), ok))
        /\ UNCHANGED <<told, reported, minted>>

\* revokeNode writes the state without cleanup.
RevokeNode ==
    \E ok \in PersistOutcomes :
        /\ disk' = Persisted(mem, ok)
        /\ UNCHANGED <<mem, inbox, watch, told, reported, minted>>

\* A create, decide or cancel that is refused (node not active, service not
\* published, queue full, request unknown, wrong node, wrong state): cleanup
\* has been applied and, if it changed anything, written.
Refused ==
    \E order \in RequeueOrders(mem), changed \in CleanupOutcomes :
        /\ CleanupWith(order, DiskAfterCleanup(changed, Cleaned(mem, order)))
        /\ UNCHANGED <<told, reported, minted>>

-----------------------------------------------------------------------------
(* createConnection *)

\* Mutant: the capacity checks let one request too many in.
HasRoomForOneMore(m, t) ==
    /\ Cardinality({q \in Request : m.conns[q].state # "absent"}) <= ConnectionMax
    /\ Cardinality({q \in RequestsTo(t) : m.conns[q].state \in Live}) <= MaxPerTarget

\* The capacity checks; a terminal request counts for the first until retired.
HasRoom(m, t) ==
    /\ Cardinality({q \in Request : m.conns[q].state # "absent"}) < ConnectionMax
    /\ Cardinality({q \in RequestsTo(t) : m.conns[q].state \in Live}) < MaxPerTarget

\* Mutant: the new request is not entered in the idempotency index.
EnqueuedUnindexed(m, r) ==
    LET t == TargetOf[r]
        c == m.cursors[t] + 1
    IN  [conns |-> [m.conns EXCEPT ![r] = Queued(c, TTL)],
         idem |-> m.idem,
         cursors |-> [m.cursors EXCEPT ![t] = c],
         acks |-> m.acks]

\* The state with the new request r: the cursor of its target is incremented
\* and given to it, and the idempotency index points to it.
Enqueued(m, r) ==
    LET t == TargetOf[r]
        c == m.cursors[t] + 1
    IN  [conns |-> [m.conns EXCEPT ![r] = Queued(c, TTL)],
         idem |-> [m.idem EXCEPT ![IdempotencyIndex(r)] = r],
         cursors |-> [m.cursors EXCEPT ![t] = c],
         acks |-> m.acks]

\* The request is stored and announced whether or not the write succeeds.
CreateAdmitted(r) ==
    \E order \in RequeueOrders(mem), changed \in CleanupOutcomes, ok \in PersistOutcomes :
        LET m == Cleaned(mem, order) IN
        /\ r \notin minted
        /\ m.idem[IdempotencyIndex(r)] = NoRequest
        /\ HasRoom(m, TargetOf[r])
        /\ mem' = Enqueued(m, r)
        /\ disk' = IF ok THEN Persisted(Enqueued(m, r), TRUE) ELSE DiskAfterCleanup(changed, m)
        /\ inbox' = NotifyTargets(inbox, CleanupNotifies(mem) \cup {r})
        /\ watch' = NotifyRequests(watch, CleanupNotifies(mem) \cup {r})
        /\ minted' = minted \cup {r}
        /\ UNCHANGED <<told, reported>>

\* A retry with a known idempotency key answers with the stored request.
CreateReplayed(k) ==
    \E order \in RequeueOrders(mem), changed \in CleanupOutcomes :
        LET m == Cleaned(mem, order) IN
        /\ m.idem[k] # NoRequest
        /\ CleanupWith(order, DiskAfterCleanup(changed, m))
        /\ Reply(m.idem[k], m.conns[m.idem[k]].state)
        /\ UNCHANGED <<told, minted>>

-----------------------------------------------------------------------------
(* waitConnectionInbox: register, then loop until a reply *)

\* One handler per node (a second one gets 409).  The node passes a cursor it
\* was told before; it may have lost or not yet stored the later ones.
InboxRegister(t) ==
    /\ t \in Polling
    /\ inbox[t].pc = "idle"
    /\ \E after \in 0..told[t] :
        inbox' = [inbox EXCEPT ![t] = [pc |-> "looping", after |-> after, captured |-> 0]]
    /\ UNCHANGED <<mem, disk, watch, told, reported, minted>>

PendingEvents(m, t, after) ==
    {r \in RequestsTo(t) : m.conns[r].state = "queued" /\ m.conns[r].cursor > after}

\* Mutant: the pending events are cut to the limit without being sorted.
BatchesUnsorted(m, t, after) ==
    LET pending == PendingEvents(m, t, after) IN
    {batch \in SUBSET pending :
        Cardinality(batch) = IF Cardinality(pending) <= MaxInboxEvents
                             THEN Cardinality(pending) ELSE MaxInboxEvents}

\* The first MaxInboxEvents of the pending events in cursor order.
Batches(m, t, after) ==
    LET pending == PendingEvents(m, t, after) IN
    {batch \in SUBSET pending :
        /\ Cardinality(batch) = IF Cardinality(pending) <= MaxInboxEvents
                                THEN Cardinality(pending) ELSE MaxInboxEvents
        /\ \A r \in batch, q \in pending \ batch : m.conns[r].cursor < m.conns[q].cursor}

OfferedState(m, batch) ==
    [m EXCEPT !.conns = [r \in Request |->
        IF r \in batch THEN Offered(m.conns[r]) ELSE m.conns[r]]]

Looping(t) == inbox[t].pc \in {"looping", "woken"}

\* The reply to a delivered batch: the cursor of its last event.
DeliverBatch(t, m, batch, last, ok, heard) ==
    /\ \A r \in batch : m.conns[r].cursor <= m.conns[last].cursor
    /\ mem' = OfferedState(m, batch)
    /\ disk' = Persisted(OfferedState(m, batch), ok)
    /\ inbox' = [NotifyTargets(inbox, CleanupNotifies(mem)) EXCEPT ![t] = IdleInbox]
    /\ watch' = NotifyRequests(watch, CleanupNotifies(mem) \cup batch)
    /\ told' = IF ok /\ heard /\ m.conns[last].cursor > told[t]
               THEN [told EXCEPT ![t] = m.conns[last].cursor] ELSE told
    /\ UNCHANGED <<reported, minted>>

\* An iteration that finds events offers the first ones; the reply may be
\* lost, and is an error if the write fails.
InboxDeliver(t) ==
    \E order \in RequeueOrders(mem), ok \in PersistOutcomes, heard \in BOOLEAN :
        LET m == Cleaned(mem, order) IN
        /\ Looping(t)
        /\ \E batch \in Batches(m, t, inbox[t].after) :
              \E last \in batch : DeliverBatch(t, m, batch, last, ok, heard)

\* An iteration that finds none captures the target's cursor and parks on the
\* target's signal; a failed write of the cleanup ends the handler instead.
InboxPark(t) ==
    \E order \in RequeueOrders(mem), changed \in CleanupOutcomes, ok \in PersistOutcomes :
        LET m == Cleaned(mem, order) IN
        /\ Looping(t)
        /\ PendingEvents(m, t, inbox[t].after) = {}
        /\ mem' = m
        /\ disk' = DiskAfterCleanup(changed /\ ok, m)
        /\ inbox' = [NotifyTargets(inbox, CleanupNotifies(mem)) EXCEPT ![t] =
                        IF changed /\ ~ok THEN IdleInbox
                        ELSE [pc |-> "parked", after |-> @.after, captured |-> m.cursors[t]]]
        /\ watch' = NotifyRequests(watch, CleanupNotifies(mem))
        /\ UNCHANGED <<told, reported, minted>>

\* The deadline fires: the reply carries the captured cursor and no events.
\* It may win the select although the signal has been closed as well.
InboxTimeout(t) ==
    /\ inbox[t].pc \in {"parked", "woken"}
    /\ \E heard \in BOOLEAN :
        told' = IF heard /\ inbox[t].captured > told[t]
                THEN [told EXCEPT ![t] = inbox[t].captured] ELSE told
    /\ inbox' = [inbox EXCEPT ![t] = IdleInbox]
    /\ UNCHANGED <<mem, disk, watch, reported, minted>>

-----------------------------------------------------------------------------
(* ackConnectionInbox: no cleanup; a cursor ahead of the server is refused *)

AckConnectionInbox(t) ==
    \E cursor \in 0..told[t], ok \in PersistOutcomes :
        /\ cursor <= mem.cursors[t]
        /\ cursor > mem.acks[t]
        /\ mem' = [mem EXCEPT !.acks = [@ EXCEPT ![t] = cursor]]
        /\ disk' = Persisted(mem', ok)
        /\ UNCHANGED <<inbox, watch, told, reported, minted>>

-----------------------------------------------------------------------------
(* decideConnection and cancelConnection *)

SettledState(m, r, state) ==
    [m EXCEPT !.conns = [@ EXCEPT ![r] = Settled(m.conns[r], state)]]

\* Both store the outcome first and write afterwards; a failed write is
\* answered with an error, but the outcome stays in memory.
Settle(r, state, targets) ==
    \E order \in RequeueOrders(mem), changed \in CleanupOutcomes, ok \in PersistOutcomes :
        LET m == Cleaned(mem, order) IN
        /\ m.conns[r].state \in Live
        /\ mem' = SettledState(m, r, state)
        /\ disk' = IF ok THEN Persisted(SettledState(m, r, state), TRUE) ELSE DiskAfterCleanup(changed, m)
        /\ inbox' = NotifyTargets(inbox, CleanupNotifies(mem) \cup targets)
        /\ watch' = NotifyRequests(watch, CleanupNotifies(mem) \cup {r})
        /\ IF ok THEN Reply(r, state) ELSE UNCHANGED reported
        /\ UNCHANGED <<told, minted>>

DecideConnection(r) == \E state \in {"accepted", "rejected"} : Settle(r, state, {})

CancelConnection(r) == Settle(r, "canceled", {r})

\* A decision or cancellation that is already stored is confirmed as it is.
SettleRepeated(r) ==
    \E order \in RequeueOrders(mem), changed \in CleanupOutcomes :
        LET m == Cleaned(mem, order) IN
        /\ m.conns[r].state \in {"accepted", "rejected", "canceled"}
        /\ CleanupWith(order, DiskAfterCleanup(changed, m))
        /\ Reply(r, m.conns[r].state)
        /\ UNCHANGED <<told, minted>>

-----------------------------------------------------------------------------
(* connectionStatus, with and without waiting *)

\* known is the KnownState of the caller ("none" for a call that cannot wait).
StatusCall(r) ==
    /\ watch[r].pc = "idle"
    /\ r \in Watched \cap minted
    /\ \E known \in Live \cup {"none"} :
        watch' = [watch EXCEPT ![r] = [pc |-> "looping", known |-> known]]
    /\ UNCHANGED <<mem, disk, inbox, told, reported, minted>>

Checking(r) == watch[r].pc \in {"looping", "woken"}

\* The request is gone: 404, and nothing is written.
StatusGone(r) ==
    \E order \in RequeueOrders(mem) :
        /\ Checking(r)
        /\ Cleaned(mem, order).conns[r].state = "absent"
        /\ mem' = Cleaned(mem, order)
        /\ inbox' = NotifyTargets(inbox, CleanupNotifies(mem))
        /\ watch' = [NotifyRequests(watch, CleanupNotifies(mem)) EXCEPT ![r] = IdleWatch]
        /\ UNCHANGED <<disk, told, reported, minted>>

\* The state differs from the known one or is terminal: it is the answer.
StatusAnswer(r) ==
    \E order \in RequeueOrders(mem), changed \in CleanupOutcomes, ok \in PersistOutcomes :
        LET m == Cleaned(mem, order) IN
        /\ Checking(r)
        /\ m.conns[r].state \notin {"absent", watch[r].known}
        /\ mem' = m
        /\ disk' = DiskAfterCleanup(changed /\ ok, m)
        /\ inbox' = NotifyTargets(inbox, CleanupNotifies(mem))
        /\ watch' = [NotifyRequests(watch, CleanupNotifies(mem)) EXCEPT ![r] = IdleWatch]
        /\ IF changed /\ ~ok THEN UNCHANGED reported ELSE Reply(r, m.conns[r].state)
        /\ UNCHANGED <<told, minted>>

\* Nothing new: the handler parks on the signal of the request.
StatusPark(r) ==
    \E order \in RequeueOrders(mem), changed \in CleanupOutcomes, ok \in PersistOutcomes :
        LET m == Cleaned(mem, order) IN
        /\ Checking(r)
        /\ m.conns[r].state = watch[r].known
        /\ mem' = m
        /\ disk' = DiskAfterCleanup(changed /\ ok, m)
        /\ inbox' = NotifyTargets(inbox, CleanupNotifies(mem))
        /\ watch' = [NotifyRequests(watch, CleanupNotifies(mem)) EXCEPT ![r] =
                        IF changed /\ ~ok THEN IdleWatch
                        ELSE [pc |-> "parked", known |-> @.known]]
        /\ UNCHANGED <<told, reported, minted>>

\* The timer fires: the answer is the live state read before parking.
StatusTimeout(r) ==
    /\ watch[r].pc \in {"parked", "woken"}
    /\ watch' = [watch EXCEPT ![r] = IdleWatch]
    /\ UNCHANGED <<mem, disk, inbox, told, reported, minted>>

-----------------------------------------------------------------------------
(* The coordinator stops and newRegistry loads coordinator-state.json: the *)
(* handlers and signals are gone.                                          *)

Restart ==
    /\ MayCrash
    /\ mem' = disk
    /\ disk' = disk
    /\ inbox' = [t \in Node |-> IdleInbox]
    /\ watch' = [r \in Request |-> IdleWatch]
    /\ UNCHANGED <<told, reported, minted>>

-----------------------------------------------------------------------------

Inbox(t) == InboxRegister(t) \/ InboxDeliver(t) \/ InboxPark(t)

Status(r) == StatusGone(r) \/ StatusAnswer(r) \/ StatusPark(r)

Next ==
    \/ Tick
    \/ DiscoverNodes
    \/ UpdateNode
    \/ RevokeNode
    \/ Refused
    \/ \E k \in Node \X Key : CreateReplayed(k)
    \/ \E t \in Node : Inbox(t) \/ InboxTimeout(t) \/ AckConnectionInbox(t)
    \/ \E r \in Request :
          \/ CreateAdmitted(r)
          \/ DecideConnection(r)
          \/ CancelConnection(r)
          \/ SettleRepeated(r)
          \/ StatusCall(r)
          \/ Status(r)
          \/ StatusTimeout(r)
    \/ Restart

Spec == Init /\ [][Next]_vars

\* A node heartbeats every 30 seconds (UpdateNode), so that cleanup runs and is
\* written again and again, and the clock advances.
SettlingSpec == Spec /\ WF_vars(Tick) /\ WF_vars(UpdateNode)

\* The target polls its inbox without pause and the handlers it starts make
\* progress.  Nothing forces the clock, so expiry cannot stand in for delivery.
PollingSpec == Spec /\ \A t \in Polling : WF_vars(Inbox(t))

-----------------------------------------------------------------------------
(* Properties *)

State ==
    [conns : [Request -> Connection],
     idem : [Node \X Key -> Request \cup {NoRequest}],
     cursors : [Node -> Nat],
     acks : [Node -> Nat]]

InboxHandler ==
    [pc : {"idle", "looping", "parked", "woken"}, after : Nat, captured : Nat]

WatchHandler ==
    [pc : {"idle", "looping", "parked", "woken"}, known : Live \cup {"none"}]

\* The type of every variable: what registry.state, its file and the long-poll
\* handlers of connection_server.go can hold.
TypeOK ==
    /\ mem \in State
    /\ disk \in State
    /\ inbox \in [Node -> InboxHandler]
    /\ watch \in [Request -> WatchHandler]
    /\ told \in [Node -> Nat]
    /\ reported \in [Request -> SUBSET Terminal]
    /\ minted \in SUBSET Request

\* A queued request that has not expired has a cursor above every cursor its
\* target was ever told, so whatever cursor the target resumes from,
\* waitConnectionInbox still offers the request.  Requeueing, partial batches
\* and time-out replies all have to keep the two in step.
NoSkippedOffer ==
    \A r \in Request :
        mem.conns[r].state = "queued" /\ mem.conns[r].ttl # 0
            => mem.conns[r].cursor > told[TargetOf[r]]

\* An inbox handler that sleeps on an open signal has nothing to deliver: every
\* way of making a request pending closes the signal of its target.
NoLostWakeup ==
    \A t \in Node :
        inbox[t].pc = "parked" => PendingEvents(mem, t, inbox[t].after) = {}

\* A status handler that sleeps on an open signal waits for a request that is
\* still in the state its caller knows; the entry of requestSignals that
\* cleanup deletes without closing never has a sleeper.
NoStaleWatch ==
    \A r \in Request :
        watch[r].pc = "parked" => mem.conns[r].state = watch[r].known

Exact(m) ==
    \A k \in Node \X Key, r \in Request :
        m.idem[k] = r <=> m.conns[r].state # "absent" /\ IdempotencyIndex(r) = k

\* ConnectionIdempotency names exactly the stored requests, in memory and in
\* the file: the "idempotency index is inconsistent" reply is never sent, a key
\* has at most one request, and retiring a request frees its key only.
IdempotencyExact == Exact(mem) /\ Exact(disk)

\* Replies never give two different final outcomes for one request, whatever
\* is retried, expires or is lost with the memory of the coordinator.
OneOutcome ==
    \A r \in Request : \A s1, s2 \in reported[r] : s1 = s2

\* The two capacities of createConnection hold at all times, also for what a
\* restart brings back.
QueueBounded ==
    /\ Cardinality({r \in Request : mem.conns[r].state # "absent"}) <= ConnectionMax
    /\ \A t \in Node :
          Cardinality({r \in RequestsTo(t) : mem.conns[r].state \in Live}) <= MaxPerTarget

\* Every stored request gets a final outcome, by decision, cancellation or
\* expiry, although expiry is only ever noticed by other handlers' cleanup.
EveryRequestSettles ==
    \A r \in Request :
        mem.conns[r].state \in Live ~> mem.conns[r].state \notin Live

\* While its target keeps polling, a queued request does not stay queued, even
\* when nobody else calls the coordinator and no deadline passes.
QueuedIsOffered ==
    \A r \in Request : mem.conns[r].state = "queued" ~> mem.conns[r].state # "queued"

-----------------------------------------------------------------------------
(* Refinement: the durable queue implements ConnectionLifecycle: the file if *)
(* the coordinator may restart, its memory if one process runs.  Deadlines   *)
(* are absolute, so a stored request whose time is over has expired even if  *)
(* no cleanup has looked at it yet; an identifier that is no longer stored   *)
(* is gone for good.                                                         *)

Durable == IF MayCrash THEN disk ELSE mem

DurablePhase(r) ==
    LET c == Durable.conns[r] IN
    CASE c.state = "absent"            -> IF r \in minted THEN "gone" ELSE "new"
      [] c.state \in Live /\ c.ttl = 0 -> "expired"
      [] c.state \in Live /\ c.ttl # 0 -> "live"
      [] OTHER                         -> c.state

Lifecycle == INSTANCE ConnectionLifecycle WITH
    phase <- [r \in Request |-> DurablePhase(r)], heard <- reported

\* What connection_server.go and cleanupLocked keep in coordinator-state.json,
\* together with the answers callers hear, follows the lifecycle: a request is
\* created once and gets one outcome, across cleanup that is not written and
\* restarts that forget it.  (Writes that fail before a restart are excluded: see
\* the README.)
ImplementsLifecycle == Lifecycle!LifecycleSpec

=============================================================================
