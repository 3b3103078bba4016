# A TLA+ model of mayoiga

mayoiga is one Go binary (`src/internal/app`) that runs as a coordinator, a
client, a relay or a subnode, and as a supervisor of several such nodes. Nodes
publish and pull TCP services; the coordinator authenticates them and tells them
of each other, and application traffic never passes through it. This directory
models the parts of the program whose correctness depends on the order of steps
of several actors, checks them with TLC on small instances, and proves the main
invariants with TLAPS for every value of the constants.

`PROJECT.json` holds the machine-readable side: components, runs, mutants, the
map from definitions to source lines, findings, hazards and theorems.

## Inventory

| component | state | operations | what is hard | what makes it correct |
|---|---|---|---|---|
| Connection-request queue (`connection_server.go`) | `Connections`, `ConnectionIdempotency`, `ConnectionCursors`, `ConnectionAcks`; signal channels, `inboxWaiters` | create, inbox wait, ack, accept/reject, cancel, status, status wait | everything runs in whichever handler comes next; long-polls sleep outside the lock; some handlers change the state and do not write it | a queued request is never hidden from its target; a sleeping handler has nothing to do; one outcome per request; the index is exact; capacities hold; every request ends |
| Registration and discovery (`coordinator_nodes.go`) | `Nodes`, `Revision`, `Authorized` | heartbeat/register, discover, cleanup, revoke | a change nobody announces stays unseen; leases | a worker that knows the revision has the topology; leases reach peers in time |
| Control-plane workers (`connection_workers.go`, `coordinator_client.go`) | the `revisions` channel, `peers.json`, `control-status.json`, `connection-inbox.json` | heartbeat, discovery and inbox workers; `sync`, `nodes`, `requests` commands in other processes | lost replies, replaced channel entries, restarts between two files, two processes writing one file | convergence; no older answer over a newer one; events stored before they are acknowledged |
| Coordinator state file | `coordinator-state.json` | `persistLocked`, `newRegistry` | a write that fails after the change; a change that is not written | what was promised survives a restart |
| Enrollment (`coordinator_enrollment.go`) | `Pending`, `History`, `Authorized`, `Audit` | request, poll, approve, reject, revoke | approve/replace/reject/expire in any order; poll racing a new request | a key is authorized only by an approval of its own handshake; bounded tables |
| Reverse rendezvous (`relay_types.go`, `relay_server.go`, `relay_pull.go`, `connection_workers.go`) | `reverseBroker.waiting`, timers | expect, take, stop; automatic offers on the publisher | the source's timer races the publisher; hand-over before confirmation | no connection is leaked or used by two sides; accepted implies handed over |
| Routing (`relay_pull.go`, `relay_server.go`) | `cooling`, `connectorCache` | resolveRoute, candidate order, failover | stale peers, nodes that move to another segment, cooling, cache keyed by the lease | what source and relays decide, each from its own cache, adds up to a path; no loops; failover before application bytes |
| Supervisor (`service_supervisor.go`, `service_profiles.go`) | `workers`, `rejected` | reconcile, stop, start, restart with back-off | changes, invalid profiles and slow stops between scans | one worker per instance; the last valid configuration is kept |
| Profile store (`profile.go`, `node_config.go`) | `profile.json` | load, save, install, add/remove mapping | read-modify-write by two processes | no lost update |
| Front end, Xray core, locale, service installation | | | input handling, a third-party library, generated text | not modelled |

Components interact through signed HTTPS requests to the coordinator (each
handler is one or more critical sections of `registry.mu`), through files of the
node's directory (shared by the running node and the commands), and through the
relays' own handshake.

## Modules

| module | models |
|---|---|
| `ConnectionLifecycle` | what the coordinator promises about a request: created once, at most one outcome, everybody hears the same one |
| `ConnectionQueue` | the queue: every handler of `connection_server.go`, the connection part of `cleanupLocked`, the state file and restarts; implements `ConnectionLifecycle` |
| `ConnectionQueue_proofs` | its theorems about types, the idempotency index and cursors |
| `ConnectionQueue_signals` | its theorems about sleeping long-poll handlers |
| `ConnectionQueue_lifecycle` | its theorems about the capacities, the outcomes and the refinement of `ConnectionLifecycle` |
| `Discovery` | registration, revisions, leases, the heartbeat and discovery workers, the sync command |
| `ReverseConnection` | the reverse connection: broker, source, relay handler, inbox worker and its file, the publisher's goroutines, the command line; its coordinator is `ConnectionLifecycle` |
| `Enrollment` | handshakes, approvals, credentials and revocation at the coordinator, the polling loop and profile at the nodes |
| `Supervisor` | the node manager, its workers and the profiles under `nodes/` |
| `Routing` | a pull from the application's connection to the bridge, at the source and at every relay |
| `Discovery_proofs`, `ReverseConnection_proofs`, `Enrollment_proofs`, `Supervisor_proofs`, `Routing_proofs` | the theorems about each of these |
| `MC...` | the instances of each |

### ConnectionQueue

`mem` is `registry.state` as far as the queue uses it, `disk` the file. All
fields of a request that are written once (source, target, key) are functions of
its identifier; identifiers are random tokens and are drawn once (`minted`).
Times are kept as what is left of them (`ttl`, `lease`, `keep`), so that the
clock is unbounded; a deadline is only kept where the code still reads it.

One action is one critical section. Nearly every handler starts with
`cleanupLocked`, so nearly every action first applies `Cleaned(mem, order)`:
expiry, requeueing in any order (Go's map order), and retirement, with the
notifications these make. `cleanupLocked` also changes other parts of the
registry and then the file is rewritten although no connection changed
(`CleanupOutcomes`).

| action | code |
|---|---|
| `CreateAdmitted`, `CreateReplayed`, `Refused` | `createConnection` and the refusals of the other handlers |
| `InboxRegister`, `InboxDeliver`, `InboxPark`, `InboxTimeout` | `waitConnectionInbox`: registration, an iteration with and without events, the `select` |
| `AckConnectionInbox` | `ackConnectionInbox` |
| `DecideConnection`, `CancelConnection`, `SettleRepeated` | `decideConnection`, `cancelConnection` and their repetitions |
| `StatusCall`, `StatusGone`, `StatusAnswer`, `StatusPark`, `StatusTimeout` | `connectionStatus` |
| `DiscoverNodes`, `UpdateNode`, `RevokeNode` | what the other handlers do to the queue: cleanup without a write, cleanup with a write, a write without cleanup |
| `Restart` | the process stops and `newRegistry` loads the file |
| `Tick` | time |

A parked handler is woken by the closing of its channel (`NotifyTargets`,
`NotifyRequests`); the time-out may win although the channel is closed. A client
that goes away is a time-out whose reply is not heard. One status handler per
request stands for all of them, since handlers of one request do not affect each
other. The inbox client resumes from any cursor it has been told, which covers a
client that lost its file.

`told`, `reported` and `minted` are history variables: the largest cursor an
inbox reply gave to a node, the final outcomes replies gave for a request, and
the identifiers drawn.

### Discovery

A topology is one value (`shape`) plus whether candidates are listed; what
matters is equality and the lease. The coordinator's part is `Updated`,
`CleanedNodes` and `DiscoverReply`, a node's part the heartbeat worker
(`Heartbeat`, `HeartbeatLost`), the channel of capacity one (`chan`), the
discovery worker (`TakeRevision`, `WorkerFetch`, `WorkerSave`) and the sync
command (`SyncHeartbeat`, `SyncFetch`, `SyncSave`), which writes the same
`peers.json` from another process. `NodeRestart` may fall between the writes of
`peers.json` and `control-status.json`. `TopologyChanges` is a change of
interfaces or of the profile. One tick is a heartbeat period. With `Punctual`
every heartbeat and fetch of a period is done before it ends; otherwise time,
losses and restarts are free. With `PersistMayFail` a write of the state file may
fail after the memory has changed: a heartbeat, a sync command or a revocation is
then answered with an error, and `revoked` (a history variable) holds the nodes
whose revocation was answered with success.

### ReverseConnection

An attempt is one random token: the key of the broker, the idempotency key of
the request and so one request. The coordinator is the instance `Coordinator` of
`ConnectionLifecycle`, which allows what the queue allows: a live request may be
offered any number of times, expire, be cancelled or decided at any moment, and be
retired once it has its outcome. The queue implements it as long as no write fails
before a restart (`WritesHold`), and so much is assumed here. `acceptor` is a
history variable: whether a goroutine or an operator made a request accepted.

| action | code |
|---|---|
| `Expect`, `Requested`, `CreateAnswered`, `CreateFails` | `expect` and `createConnectionRequest` in `tryReverse`, `dialReverseService`; the request arrives before its answer, and the answer may be lost |
| `SourceTimeout`, `CancelReturns` | the timer, then the cancel call, then the deferred `stopWaiting` |
| `Take`, `HandOver`, `Confirm`, `Abandon` | the relay's handler of a reverse handshake: the broker, the `select` that meets the source's, writing OK |
| `SourceWrites`, `SourceBridgeEnds`, `ServeBridgeEnds` | the two bridges |
| `Poll`, `SaveInbox`, `PollFails`, `Acknowledge`, `Dispatch` | `waitInbox`, `saveInbox` and the dispatch of its events |
| `ServeLocal`, `ServeDial`, `ServeAnswered`, `ServeTimeout`, `ServeReject`, `ServeAccept` | `serveAutomaticConnectionOffer` |
| `CliDecide`, `CliCancel`, `CliRead`, `CliWrite` | `decideConnectionCLI` (`accept-connection`, `reject-connection`, `cancel-connection`) and `removeInboxRequest` in another process; the command accepts without any connection |
| `Expire`, `Retire` | what `cleanupLocked` does to the request: expiry, and deletion a day after the outcome, also under a running bridge |
| `Crash` | the publisher's process stops |

`SaveInbox` models the slice it shares with its caller: the places of the batch
hold afterwards as many of the merged events, whichever the map order and the
growth of the array leave there.

### Enrollment

A handshake stands for its identifier, secret and key pair, drawn together. The
registry is `Pending`, `Authorized` and `History`, in memory and on disk; the
status codes of the history are kept because `cleanupLocked` decides by them. A
node is its `profile.json` and the goroutine of `runControlPlane` with the
profile that it loaded before its call. The administrator's decisions, the loss
of answers, the ten minutes of a handshake, a failure of `saveProfile` after the
poll, and restarts of both sides are free.
`withdrawn` (keys that were replaced, or drawn before a revocation) and `shown`
(what a listing last showed) are history variables.

### Supervisor

One action per step of `managedProfiles`, `reconcile`, `stopManagedWorker` and
the final `select`, so that edits, exits and the signal fall between any two. A
profile is a version with what is wrong with it; `Signature` is the hash of its
bytes and `Verdict` what `validateManagedProfile` decides of it. A scan reads
every file twice (`Sign`, `Load`), and the child a third time (`Launch`). The
table and the goroutines are separate, because an entry may outlive its goroutine
and a replacement could run beside it: that is what the second slot is for.
`Restore` puts back a profile as it first was, so that its signature repeats
(`restored` is a history variable); any other edit has a version of its own.

### Routing

A node's segment and upstream relay are in three places that change one after the
other: its profile (`conf`), the coordinator's registration (`registered`) and the
entries of the other nodes' `peers.json` (`knows`). `Configure` is `configure-node`
with the restart of the worker by the supervisor, which ends the node's pulls and
what it relays; `Heartbeat` registers the new placement, which for a subnode
`updateNode` refuses until its relay is in its segment; `Sync` replaces one entry by
what the coordinator answers, or drops it. `NodeForDiscovery` is evaluated when the
coordinator answers: an entry keeps the segment, the upstream relay and the LAN
addresses of that moment, and source and relays dial by what their entries say. Only
the pairs of `Unsure` lag behind, the others are always as the coordinator would
answer; the window between the write of the profile and the restart of the worker is
left out; roles, ranks and services are fixed. `calm` is a history variable: the pulls
opened when profile, registration and caches agreed, with no change and no failure
since. A pull goes through `smartPull.handle` (`Open`,
`DialDirect`, `SkipCooling`, `DialRelay`, its three answers, `TryReverse`), and each
relay it is sent to through `relayServer.handle` (`Admit`, `RouteAtRelay`,
`Authorize`, `Forward`, its answers, `Exhausted`, `Serve`, `DialReverseService`,
`BridgeEnds`). `ResolveRoute`, `Relays`, `AcceptsSourceRoute` and
`IsAuthorizedSubnodeRelay` are the functions of these names and are evaluated
from the cache of the node that calls them. A reverse stream is one step here; how
it comes about is `ReverseConnection`.

## Runs

| run | result | shows |
|---|---|---|
| `queue_delivery` | pass | `TypeOK`, `NoSkippedOffer`, `NoLostWakeup`, `QueuedIsOffered` for one process life with failing writes |
| `queue_settles` | pass | `EveryRequestSettles` across restarts; `NoStaleWatch`: status waits miss no change; `IdempotencyExact` with two identifiers for one key |
| `queue_restart` | pass | `OneOutcome`, `QueueBounded` and the refinement `ImplementsLifecycle` across restarts |
| `discovery_converges` | pass | `PeersCurrent`, `PeersConverge` |
| `discovery_faults` | pass | `DiscoveryTypeOK`, `NeverBackwards`, `RevokedStaysOut`, `RevocationFinal` with restarts, failing writes, revocation and the sync command |
| `discovery_lease` | violation | `CandidateFresh`: renewals are not announced in time |
| `reverse` | pass | `ReverseTypeOK`, `AcceptedWasHanded`, `BridgedIsAccepted`, `HandlerReleased`, `SourceReleased` |
| `reverse_dispatch` | violation | `OffersDispatched`: the worker may not serve the offers it has acknowledged |
| `enrollment` | pass | `EnrollmentTypeOK`, `NoResurrection`, `CredentialBacked`, `StatusForward`, `ApprovedIsLearned` |
| `supervisor` | pass | `SupervisorTypeOK`, `OneProcess`, `FilesApplied`, `ShutdownEnds` |
| `routing` | pass | `RoutingTypeOK`, `UndisturbedPullsSucceed`, `EveryPullSettles` while nodes move, caches lag behind and relays fail |
| `routing_subnode` | violation | `SubnodeReached`: a subnode's own relay refuses pulls of its services |

Each property of a passing run has a mutant in `PROJECT.json` that breaks it.

### Refinement

`ImplementsLifecycle` maps the durable queue to `ConnectionLifecycle`. The phase
of a request is read from the file, not from memory, because a restart may undo
what was not written; where no restart can happen (`MayCrash = FALSE`) the memory is
what lasts (`Durable`); a stored live request whose deadline has passed counts as
expired, since no handler can bring it to another outcome (every handler that
decides cleans up first); an identifier that was drawn and is no longer stored is
gone. What callers have heard is `reported`. The mapping needs
writes that succeed before a restart: an outcome that could not be written is
reported all the same (below). `LifecycleImplemented` proves it for every value of
the constants.

### Findings

* **Renewed leases are not announced** (`discovery_lease`). Heartbeats come when
  60 of 90 seconds are left; `directCandidateRenewalDue` asks for 45 or less. As
  long as heartbeats are on time the revision never moves, and peers' candidates
  expire after 90 seconds.
* **Stored offers are not dispatched** (`reverse_dispatch`). `saveInbox` builds
  the merged list in the array of the events that its caller goes on to dispatch.
  With any other event in the file, the batch's places hold other events. A
  rejected offer stays in the file with a smaller cursor, so it can take the place
  of each later batch of one, and redelivery does not help.
* **A subnode's services are refused** (`routing_subnode`). At the subnode's
  upstream relay `resolveRoute` leaves out the local node and every relay that is
  not the upstream relay: nothing is left, and the relay answers
  `target_service_missing`. The reverse mistake is there too: a relay of the
  subnode's segment that is not its upstream relay dials the subnode itself
  (`relay_server.go:133-142`; `RouteAtRelay`, `Serve`). Another subnode of that
  segment, whose `Open` always enters its own relay, gets such a pull there: in the
  layout of `MCRouting`, `v1` reaches `u1` through `q2`. `SubnodeReached` fails on
  that pull as well (`ToSubnode` as `{<<v1, u1>>}`), and `docs/architecture.py:28-29`
  says that a subnode target will "always use the target's registered upstream relay
  and never fall back to a direct connection".

Five more disagreements show when a constant of a passing run is changed; each
counterexample takes TLC a second:

* `queue_delivery` with `MayCrash = TRUE` violates `NoSkippedOffer`: **cursors move
  back at a restart**. `discoverNodes` requeues an offer and counts its target's
  cursor up without writing the state, an inbox time-out tells the target, and
  after a restart a request gets a cursor the target already has. The same missing
  write makes `PeersCurrent` fail across restarts. (`docs/security.py` promises that
  monotonic cursors "make retries recoverable across restarts".)
* `queue_restart` with `PersistMayFail = TRUE` violates `OneOutcome`: **an outcome
  that could not be written is reported**. The failed write is answered with 500,
  the outcome stays in memory and is confirmed to a retry, and a restart forgets it.
* `discovery_converges` with `MayRevoke = TRUE` violates `PeersCurrent`: **revocation
  does not move the revision**, so peers keep the revoked node until something else
  changes.
* `discovery_converges` with `CliSync = {a}` violates `PeersCurrent`: **the sync
  command can put an older `peers.json` over a newer one** and the worker does not
  fetch again.
* `enrollment` with `PersistMayFail = TRUE` violates `NoResurrection`: **a revocation
  whose write fails is undone by a restart**. `revokeNode` answers 500 with the
  credential gone from memory, a second try answers 404 and writes nothing, and a
  restart before any other write authorizes the node again. `RevocationFinal` of
  `Discovery` is therefore about revocations that were answered with success.

Further observations, for which the repository states nothing that a run could
contradict, or which the models show only as reachable steps:

* The relay hands the reverse connection to the source before it writes OK, so
  the application's bytes may come first; the publisher then rejects
  (`SourceWrites`, `ServeAnswered`).
* `bridge` closes its right side only: the publisher half-closes the reverse
  connection and leaves the rest to the relay (`ServeBridgeEnds`).
* `removeInboxRequest` of the command line and `saveInbox` of the running node
  lock a mutex each of their own process: an event may be lost from, or come back
  to, `connection-inbox.json` (`CliRead`, `CliWrite`).
* A running coordinator whose directory was deleted makes it again with its next
  write; the manager then finds a directory without a profile, reports it as
  invalid and keeps the worker (`StateWritten`), although `docs/operations.py` says
  that the manager stops deleted nodes.
* A worker kept because its new profile is invalid starts its process on that
  profile when the old process exits (`Launch`): the last valid configuration is
  not kept anywhere.
* Two edits between two scans that restore a signature leave a child that was
  restarted in between on the version in the middle (`Restore`): the table has the
  hash of the file and `reconcile` keeps the worker for good. `FilesApplied` asks
  only for the worker then.
* `pollEnrollment` saves the whole profile that it loaded before its call. If the
  command line saves a new enrollment meanwhile, the old answer overwrites it, and
  its approval, if it comes, reaches nobody (`SaveAnswer`). `ApprovedIsLearned`
  speaks of enrollments that the running node has loaded, or that it can load
  because it holds no older one; without that condition TLC finds the lost update.
* If `saveProfile` fails after an approval, the node runs with a credential that
  only its memory has, until it restarts and polls again (`SaveAnswer`).
* `accept-connection` accepts a request for which no reverse connection was made:
  the source then waits for its timer, or for the goroutine that still serves the
  offer (`CliDecide`). `AcceptedWasHanded` is about the goroutine's accept.
* A bridge may outlive its request, which is deleted a day after it was accepted
  (`Retire`).

### Bounds

The queue is checked with one source, one target and two requests, with
`MaxInboxEvents = 1`, so that a batch can be cut, a requeue can overtake, one key
can be contended and both capacities can be reached. Deadlines are one or two
ticks: what counts is which of two deadlines passes first and whether a handler
runs in between. Cursors need no bound, since a request is requeued only finitely
often before it expires. `Watched`, `Polling` and `Observed` restrict who polls
and whose replies are recorded in runs where the others do not matter.

Discovery is checked with two nodes, a relay and its subnode (or two plain nodes),
and `MaxRevision`: time and reconfiguration stop there, and everything else goes on.
Two revisions are enough for a change to be announced, missed, and followed by
another. `discovery_converges` has two topologies of which one has candidates, and
candidates that expire before their node; `discovery_faults`, which has all the
faults, one topology and entries that live for one tick.

`reverse` has one attempt with all its races and a second one of the past whose
event is still in the file; attempts share nothing but the file and the inbox
worker. `reverse_dispatch` has two attempts in one worker's file.

`enrollment` has three handshakes of one node, so that one can be authorized, one
replace it and one be pending when a revocation comes, with capacities of two, a
shared device code, and deadlines of one tick. Nodes share nothing but the
capacities. The ghost of listed statuses follows one handshake.

`supervisor` has a coordinator and a client, which is what the order and the wait
of `reconcile` tell apart, and `MaxEdits` writes of any kind: a valid or invalid
edit, the return of the first profile, a change of the disabled flag, a deletion.

`routing` has two segments, one with one relay and one with two, subnodes in both,
a client, a relay and a subnode that publish, and one pull at a time. A publisher and
a relay may move to the other segment, the relay away from its subnode; `Unsure` holds
the entries of that publisher at a relay and at a client. Connections follow one another on the same mapping,
with the relays that cool from the last one.

### Fairness

`SettlingSpec`: the clock runs and some node heartbeats every 30 seconds.
`PollingSpec` of the queue: `runInboxWorker` polls in a loop and the handlers it
starts are scheduled; nothing is assumed of the clock. `WorkersSpec`: the heartbeat
worker loops (weak fairness); the worker's fetch and save get through eventually
although the process may restart again and again (strong fairness). `RunningSpec`:
the source's calls have time-outs and its wait a timer, and a goroutine that can
run does; nothing is assumed of the inbox worker, the bridges or the operator.
`PollingSpec` of enrollment: the node's loop is started again and some poll is
answered and saved or fails to be saved (strong fairness), and the manager restarts
a node whose profile the command line has changed (`Reconfigured`), which
`Supervisor` shows as `FilesApplied`. `SupervisingSpec`:
the manager steps on, its `select` takes `ctx.Done` in the end although the ticker
may be ready as well (strong fairness; Go chooses at random), and a worker starts
its process and returns once the kill has succeeded. `HandlingSpec`: every dial, and
every wait for an answer, of a pull and of a relay's handler has a deadline. A bridge
has none: it ends when one of its two connections closes, and nothing is assumed of
the application that holds it open.

Deadlock is checked in the passing runs, except in `supervisor`, where the manager
ends.

## Proofs

Every invariant and every action property that a run checks is also proved, for
any number of nodes, requests, attempts, handshakes, instances and pulls. The
assumptions are those each module names (`SetAssumption`, `TimeAssumption`,
`BoundAssumption`, `DiscoveryAssumption` and so on: the types of the constants,
finite sets where something is counted, deadlines that are not zero) and, where a
theorem has an `ASSUME`, the environment it says. Of the
properties only `TypeOK`, and with it `NoLostWakeup` and `NoStaleWatch`, are
inductive as they stand; the strengthened invariants are in the proof modules under
the names below, and TLC has checked them on the instances of the runs.

| theorem | states | environment |
|---|---|---|
| `TypeCorrect` | `TypeOK` | any |
| `IdempotencyCorrect` | `IdempotencyExact` | any |
| `NoOfferSkipped` | `NoSkippedOffer` | `~MayCrash` |
| `NoWakeupLost`, `NoWatchStale` | `NoLostWakeup`, `NoStaleWatch` | any |
| `CapacityHolds` | `QueueBounded` | any |
| `OutcomeIsOne`, `LifecycleImplemented` | `OneOutcome`, `ImplementsLifecycle` | `WritesHold`: no failing write before a restart |
| `DiscoveryTypeCorrect`, `RevisionNeverBackwards` | `DiscoveryTypeOK`, `NeverBackwards` | any |
| `RevokedStaysUnregistered`, `RevocationIsFinal` | `RevokedStaysOut`, `RevocationFinal` | any, failing writes included; the latter is about revocations answered with success |
| `PeersAreCurrent` | `PeersCurrent` | `Undisturbed`: no revocation, coordinator restart or sync command |
| `ReverseTypeCorrect`, `AcceptedWasHandedOver`, `BridgeIsAccepted` | `ReverseTypeOK`, `AcceptedWasHanded`, `BridgedIsAccepted` | any; the coordinator keeps to `ConnectionLifecycle` |
| `EnrollmentTypeCorrect` | `EnrollmentTypeOK` | any |
| `NoKeyResurrected`, `StatusMovesForward` | `NoResurrection`, `StatusForward` | `Durable`: no failing write before a restart |
| `CredentialsBacked` | `CredentialBacked` | `~PersistMayFail` |
| `SupervisorTypeCorrect`, `OneProcessAtATime` | `SupervisorTypeOK`, `OneProcess` | any |
| `RoutingTypeCorrect` | `RoutingTypeOK` | any layout and any moves; roles are fixed |
| `UndisturbedPullsGetThrough` | `UndisturbedPullsSucceed` | any layout and any moves; the property itself is about pulls that nothing disturbs |

The restricted environments are those in which the code keeps the property: the
disagreements listed above are the counterexamples without the restriction.
`enrollment` with `PersistMayFail = TRUE` likewise violates `NoResurrection`,
`StatusForward` and `CredentialBacked` (the last also without a restart): an
approval or a revocation that could not be written stays in memory, is confirmed to
whoever asks, and is forgotten by a restart.

### The arguments

**Queue: types, index, cursors** (`ConnectionQueue_proofs`). `StateStep` sums up
`Next`: a step ages the state, runs cleanup and stores one change, acknowledges,
restarts, or leaves the memory alone. The lemma of `TypeCorrect` that needs thought
is `CleanedType`, through `RequeueOrderFacts`. Storing a new request would break
`IdempotencyExact` if its identifier were in use; `IdempotencyInv` adds that stored
identifiers, in memory and in the file, have been drawn before. `CursorInv` adds to
`NoSkippedOffer` that a target's counter is not behind any cursor it gave out
(`Counted`), that what the target was told has been passed (`Above`), and the same
for the cursor a parked handler captured, because the time-out will tell it.

**Queue: signals** (`ConnectionQueue_signals`). A handler that stays parked was not
notified (`StillParked`), and every step notifies each request it makes pending
(`NotifiedQuiet`). Cleanup drops the signal of a retired request without closing
it; no handler is parked on it, because a known state is never a final one.

**Queue: outcomes** (`ConnectionQueue_lifecycle`). `BoundedInv` states the
capacities of the file as well, which a restart brings back. `OutcomeInv` says
that what lasts differs from the memory only by a cleanup that was not written
(`BehindByCleanup`), and that an outcome callers were told is the phase that lasts
or that of a request retired since (`ToldOutcome`). `DurableStep` then shows that a
step moves every phase along the lifecycle or not at all, `OutcomeStep` that what is
heard in it is the phase it leads to, and `LifecycleImplemented` maps each step to
one of `ConnectionLifecycle`.

**Discovery.** `DiscoveryInv` adds three facts. The file's revision is not ahead of the
memory's (`RegistryOK`). Neither the memory nor, if the coordinator may restart, the
file authorizes a node whose revocation was answered (`GoneOK`): the answer comes
after the write, and every later write is of a memory that has it. And no channel or
worker was told a revision above the one a restart falls back to (`ToldOK`), because a
heartbeat whose write failed is told none. `PeersInv` relates each `peers.json`, and each
reply a worker has yet to save, to the revision it was taken at: at the
coordinator's revision it is the coordinator's topology (`UpToDate`). The lemmas
about `Updated` and `CleanedNodes` show that no topology changes without a new
revision (`Moves`).

**Reverse connection.** `RendezvousOK` follows one attempt through the parties: the
broker gives an expectation to one handler only; OK, the accept call and the
bridge descend from a hand-over; the publisher's end stays open from the handshake
to the end of the bridge; and an accepted request, by the lifecycle, becomes
nothing else but retired, so that its acceptor is known from then on.

**Enrollment.** `RegistryInv` ties the pending table to the history and each
authorized key to a drawn handshake of its node. `KeysInv` adds that a handshake
which can still be approved is neither withdrawn nor its node's key, and that an
approved one is its node's key unless withdrawn, in the file too if a restart may
read it. `BackedInv` adds that an answer on its way to a node is backed by the
file.

**Supervisor.** `SupervisorTypeOK` holds the accuracy of the table (`Accounted`);
`StopsItsOwn` adds that the manager stops only what has an entry. Two live workers
of one instance would both be the one in the table.

**Routing.** `HopsOK` says who dialled each relay that handles a pull: the source, or
the one relay its subnode source dialled, which was admitted as the relay of that
subnode and never has itself among those it tries. It needs nothing of the caches, so
it holds however stale they are. `CalmOK` is about pulls that nothing has disturbed:
profile, registration and caches agree (`Settled`), no relay of the mapping cools, and
where the layout has a path (`PathIn`) the relays left to try and the ones at work are
good ones (`Good`, `FirstOK`), so that no check on the way can refuse. Every change
and every failure empties `calm`; what remains to show is that each decision of a
source or a relay, taken from its own entries, keeps to the path. `First` needs a
least rank, which `HasLeast` takes from the well-foundedness of the natural numbers.

### What the proofs changed in the models

`NodesForDiscovery` was a `CASE` with overlapping guards, which TLA+ leaves open
and TLC decides by the order of the text; it is an `IF` now. The type
invariants of `Discovery` and `Routing` state membership in record sets, and
`RoutingAssumption` says that no node is in its own `peers.json` (`discoverNodes`
leaves the requester out), without which a relay could dial itself. `DurablePhase`
covers coordinators that never restart.

### Only model-checked

Liveness is outside the prover's reach: `EveryRequestSettles`, `QueuedIsOffered`,
`PeersConverge`, `HandlerReleased`, `SourceReleased`, `ApprovedIsLearned`,
`FilesApplied`, `ShutdownEnds`, `EveryPullSettles`. The three properties of the
violation runs do not hold.

## Plan

What is left for proofs is the safety that the liveness properties rest on:

1. `Supervisor`: the manager ends only after every worker was cancelled and has
   returned, as an action property.
2. `ReverseConnection`: a handler in its `select` always has a source that will
   receive or close `done`; this is the invariant behind `HandlerReleased`.
3. `Enrollment` and `Discovery` share `Authorized`; a common abstract registry that
   both implement would replace the two copies.

## Not modelled

* Rendering for and calls into Xray, and the cache of its instances: a
  third-party library behind `Close`.
* TLS pins, signatures, nonces, rate limits and the HTTP front end: they refuse a
  request and change nothing that is modelled.
* The coordinator tunnel of subnodes: it carries an opaque TLS session; that the
  coordinator can be reached or not is the loss of calls in the other models.
* The audit list and the trimming of the history at 10000 entries.
* Interactive prompts, translations, option parsing, service installation, staging
  of binaries: input handling and text. What they save is `Edit` in `Supervisor`.
