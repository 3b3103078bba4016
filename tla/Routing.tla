------------------------------- MODULE Routing -------------------------------
(***************************************************************************)
(* How a pull finds its way to a published service: directly, through a    *)
(* relay, through two relays, or by a reverse stream of the publisher.     *)
(*                                                                         *)
(* A pull (smartPull.handle) resolves its target in the node's discovery   *)
(* cache and tries its paths in turn; a relay that is dialled              *)
(* (relayServer.handle) resolves the target again in a cache of its own    *)
(* and may dial another relay.  Every dial ends on its own deadline, also  *)
(* when the relay it waits for is still at work.                           *)
(*                                                                         *)
(*   ends        the source and the target of each pull                    *)
(*   conf        the segment and the upstream relay in each profile        *)
(*   registered  what the coordinator has of them from the last heartbeat  *)
(*   knows       the entries of peers.json that may be out of date, as the *)
(*               coordinator answered them; Discovery models the exchange  *)
(*   pull        the handler of each pull at its source                    *)
(*   handler     the handler of each pull at each relay                    *)
(*   cooling     the relays each mapping leaves out after a failure        *)
(*   calm        a history: the pulls opened when all of the network was   *)
(*               up to date, with nothing changed or failed since          *)
(*                                                                         *)
(* Every node publishes at most one service and keeps its role.  A reverse *)
(* stream is one step here and four parties in ReverseConnection.          *)
(***************************************************************************)
EXTENDS Naturals, FiniteSets

CONSTANTS
    Node,
    RoleOf,        \* node -> "client", "relay" or "subnode"
    SegmentOf,     \* node -> the segment it is set up with
    Upstream,      \* subnode -> the upstream relay it is set up with
    Move,          \* the pairs <<n, c>>: configure-node may give n the placement c
    Rank,          \* relay -> its place by priority and node ID
    Publisher,     \* the nodes that publish a service
    Unsure,        \* the pairs <<n, m>> where the cache of n may lag behind on m
    Pull,          \* the application connections
    Route,         \* the pairs <<source, target>> a pull may be for
    NoNode,        \* no relay
    Unknown,       \* no entry in a cache
    MayFail        \* whether dials fail and relays fall silent

VARIABLES ends, conf, registered, knows, pull, handler, cooling, calm

network == <<conf, registered, knows>>

vars == <<ends, network, pull, handler, cooling, calm>>

Relay == DOMAIN Rank

Segment == {SegmentOf[m] : m \in Node} \cup {move[2].seg : move \in Move}

\* Where a profile puts a node; only a subnode has an upstream relay.
Placement(n) == [seg : Segment, up : IF RoleOf[n] = "subnode" THEN Relay ELSE {NoNode}]

\* An entry of peers.json: where the node is, and whether with its LAN addresses.
Entry == [seg : Segment, up : Relay \cup {NoNode}, lan : BOOLEAN]

ASSUME RoutingAssumption ==
    /\ RoleOf \in [Node -> {"client", "relay", "subnode"}]
    /\ DOMAIN SegmentOf = Node
    /\ Upstream \in [{n \in Node : RoleOf[n] = "subnode"} -> {n \in Node : RoleOf[n] = "relay"}]
    /\ Rank \in [{n \in Node : RoleOf[n] = "relay"} -> Nat]
    /\ \A r, q \in DOMAIN Rank : Rank[r] = Rank[q] => r = q
    /\ \A move \in Move : move[1] \in Node /\ move[2] \in Placement(move[1])
    /\ Publisher \subseteq Node
    /\ Unsure \cup Route \subseteq Node \X Node
    /\ \A n \in Node : <<n, n>> \notin Unsure
    /\ NoNode \notin Node
    /\ Unknown \notin Entry
    /\ MayFail \in BOOLEAN

SourceOf(p) == ends[p][1]

TargetOf(p) == ends[p][2]

NoHandler == [pc |-> "none", from |-> NoNode, todo |-> {}, lan |-> FALSE, at |-> NoNode]

\* A handler that is not there, has answered with an error, has ended with its bridge
\* or its process, or has vanished with its host.
Finished == {"none", "refused", "gone", "silent"}

NewHandler(from) == [NoHandler EXCEPT !.pc = "received", !.from = from]

SetUp(n) ==
    [seg |-> SegmentOf[n], up |-> IF RoleOf[n] = "subnode" THEN Upstream[n] ELSE NoNode]

\* The coordinator's answer to requester about candidate: where it is, and its LAN
\* addresses when they have the segment in common.
NodeForDiscovery(requester, candidate) ==
    [seg |-> registered[candidate].seg, up |-> registered[candidate].up,
     lan |-> registered[requester].seg = registered[candidate].seg]

Init ==
    /\ ends \in [Pull -> Route]
    /\ conf = [n \in Node |-> SetUp(n)]
    /\ registered = conf
    /\ knows = [pair \in Unsure |-> NodeForDiscovery(pair[1], pair[2])]
    /\ pull = [p \in Pull |-> [pc |-> "idle", todo |-> {}, at |-> NoNode]]
    /\ handler = [p \in Pull |-> [r \in Relay |-> NoHandler]]
    /\ cooling = {}
    /\ calm = {}

-----------------------------------------------------------------------------
(* What a node reads from its discovery cache and its profile *)

\* The entry of m that n goes by: its own is made from its profile.
View(n, m) ==
    IF m = n THEN [seg |-> conf[n].seg, up |-> conf[n].up, lan |-> TRUE]
    ELSE IF <<n, m>> \in Unsure THEN knows[<<n, m>>]
    ELSE NodeForDiscovery(n, m)

Discovered(n, m) == View(n, m) # Unknown

\* The relays resolveRoute returns: those of the target's segment, without the
\* node itself; for a subnode only its upstream relay.
Relays(n, target) ==
    {r \in Relay \ {n} :
        /\ Discovered(n, r)
        /\ View(n, r).seg = View(n, target).seg
        /\ RoleOf[target] = "subnode" => r = View(n, target).up}

ResolveRoute(n, target) ==
    /\ Discovered(n, target)
    /\ target \in Publisher
    /\ RoleOf[target] = "subnode" => Relays(n, target) # {}

RouteRelayCandidates(n, target) ==
    IF RoleOf[target] = "relay" THEN {target} ELSE Relays(n, target)

\* Mutant: another segment is reached for every known node.
IsAuthorizedKnownNode(r, source) == source # r /\ Discovered(r, source)

IsAuthorizedSubnodeRelay(r, source) ==
    /\ source # r /\ Discovered(r, source)
    /\ RoleOf[source] = "subnode"
    /\ View(r, source).seg = conf[r].seg
    /\ View(r, source).up = r

\* Mutant: every source has to be one of the relay's subnodes.
AcceptsOwnSubnodes(r, source) == IsAuthorizedSubnodeRelay(r, source)

AcceptsSourceRoute(r, source) ==
    /\ source # r /\ Discovered(r, source)
    /\ RoleOf[source] = "subnode" =>
           View(r, source).seg = conf[r].seg /\ View(r, source).up = r

\* A signed handshake is verified with the key discovery has for its source.
Verify(r, source) == source # r /\ Discovered(r, source)

\* The first relay in the order of priority and node ID.
First(relays) == CHOOSE r \in relays : \A q \in relays : Rank[r] <= Rank[q]

\* A reverse stream of the target to the relay: the publisher finds the relay in
\* its own discovery and passes the relay's checks.
ReverseStream(r, target) ==
    /\ target \in Publisher
    /\ target # r /\ Discovered(target, r)
    /\ Verify(r, target)
    /\ AcceptsSourceRoute(r, target)

\* A dial the environment decides on, and what it leaves of the calm.
Dials(possible) == {ok \in BOOLEAN : (ok => possible) /\ (~ok => MayFail \/ ~possible)}

CalmAfter(possible, ok) == calm' = IF possible /\ ~ok THEN {} ELSE calm

-----------------------------------------------------------------------------
(* The configuration, the coordinator and the discovery caches *)

\* configure-node rewrites the profile and the supervisor replaces the worker: the
\* pulls of the node and what it relays end, and its mappings start afresh.
Configure(n, c) ==
    /\ <<n, c>> \in Move
    /\ conf[n] # c
    /\ conf' = [conf EXCEPT ![n] = c]
    /\ pull' = [p \in Pull |->
                  IF SourceOf(p) = n /\ pull[p].pc # "idle"
                    THEN [pc |-> "closed", todo |-> {}, at |-> NoNode] ELSE pull[p]]
    /\ handler' = [p \in Pull |-> [r \in Relay |->
                     IF r = n /\ handler[p][r].pc \notin Finished
                       THEN [handler[p][r] EXCEPT !.pc = "gone"] ELSE handler[p][r]]]
    /\ cooling' = {pair \in cooling : pair[1][1] # n}
    /\ calm' = {}
    /\ UNCHANGED <<ends, registered, knows>>

\* updateNode: a subnode's upstream has to be a registered relay of its segment.
Heartbeat(n) ==
    /\ registered[n] # conf[n]
    /\ RoleOf[n] = "subnode" => registered[conf[n].up].seg = conf[n].seg
    /\ registered' = [registered EXCEPT ![n] = conf[n]]
    /\ calm' = {}
    /\ UNCHANGED <<ends, conf, knows, pull, handler, cooling>>

\* The answer of the coordinator replaces the entry; or m is registered no longer.
Sync(n, m) ==
    /\ <<n, m>> \in Unsure
    /\ \E entry \in {NodeForDiscovery(n, m), Unknown} \ {knows[<<n, m>>]} :
           knows' = [knows EXCEPT ![<<n, m>>] = entry]
    /\ calm' = {}
    /\ UNCHANGED <<ends, conf, registered, pull, handler, cooling>>

\* Every node is registered as it is configured and every cache has it so.
Settled ==
    /\ registered = conf
    /\ \A pair \in Unsure : knows[pair] = NodeForDiscovery(pair[1], pair[2])

-----------------------------------------------------------------------------
(* The source: smartPull.handle *)

SetPull(p, pc, at, todo) == pull' = [pull EXCEPT ![p] = [pc |-> pc, todo |-> todo, at |-> at]]

\* The route is resolved; a subnode has its upstream relay in its profile and
\* dials nothing else.  Without an address to dial, the direct attempt has failed.
Open(p) ==
    LET n == SourceOf(p)
        t == TargetOf(p)
    IN  /\ pull[p].pc = "idle"
        /\ IF ~ResolveRoute(n, t)
             THEN SetPull(p, "failed", NoNode, {})
             ELSE IF RoleOf[n] = "subnode"
             THEN SetPull(p, "relays", NoNode, {conf[n].up})
             ELSE IF RoleOf[t] # "subnode" /\ View(n, t).seg = conf[n].seg /\ View(n, t).lan
             THEN SetPull(p, "direct", NoNode, RouteRelayCandidates(n, t))
             ELSE SetPull(p, "relays", NoNode, RouteRelayCandidates(n, t))
        /\ calm' = IF Settled /\ \A r \in Relay : <<ends[p], r>> \notin cooling
                     THEN calm \cup {p} ELSE calm
        /\ UNCHANGED <<ends, network, handler, cooling>>

DialDirect(p) ==
    /\ pull[p].pc = "direct"
    /\ \E ok \in Dials(TRUE) :
           /\ IF ok THEN SetPull(p, "bridged", NoNode, {})
                    ELSE SetPull(p, "relays", NoNode, pull[p].todo)
           /\ CalmAfter(TRUE, ok)
    /\ UNCHANGED <<ends, network, handler, cooling>>

IsCooling(p, r) == RoleOf[SourceOf(p)] # "subnode" /\ <<ends[p], r>> \in cooling

SkipCooling(p) ==
    /\ pull[p].pc = "relays"
    /\ pull[p].todo # {}
    /\ IsCooling(p, First(pull[p].todo))
    /\ SetPull(p, "relays", NoNode, pull[p].todo \ {First(pull[p].todo)})
    /\ UNCHANGED <<ends, network, handler, cooling, calm>>

DialRelay(p) ==
    /\ pull[p].pc = "relays"
    /\ pull[p].todo # {}
    /\ LET r == First(pull[p].todo)
       IN  /\ ~IsCooling(p, r)
           /\ SetPull(p, "dialing", r, pull[p].todo \ {r})
           /\ handler' = [handler EXCEPT ![p][r] = NewHandler(SourceOf(p))]
    /\ UNCHANGED <<ends, network, cooling, calm>>

RelayAnswersOK(p) ==
    /\ pull[p].pc = "dialing"
    /\ handler[p][pull[p].at].pc = "ok"
    /\ SetPull(p, "bridged", pull[p].at, {})
    /\ UNCHANGED <<ends, network, handler, cooling, calm>>

\* The next relay's turn, and this one cools; a subnode has no next one.
DialFailed(p) ==
    IF RoleOf[SourceOf(p)] = "subnode"
      THEN /\ SetPull(p, "failed", NoNode, {})
           /\ UNCHANGED cooling
      ELSE /\ SetPull(p, "relays", NoNode, pull[p].todo)
           /\ cooling' = cooling \cup {<<ends[p], pull[p].at>>}

\* It answers with an error or its process ends; for the other pulls of the mapping
\* the relay now cools.
RelayRefuses(p) ==
    /\ pull[p].pc = "dialing"
    /\ handler[p][pull[p].at].pc \in {"refused", "gone"}
    /\ DialFailed(p)
    /\ calm' = {o \in calm : o = p \/ ends[o] # ends[p]}
    /\ UNCHANGED <<ends, network, handler>>

\* Mutant: the answer is read without a deadline.
DialGivesUpNever(p) ==
    /\ FALSE
    /\ UNCHANGED vars

\* Five seconds without an answer, or no connection at all.
DialGivesUp(p) ==
    /\ MayFail
    /\ pull[p].pc = "dialing"
    /\ DialFailed(p)
    /\ calm' = {}
    /\ UNCHANGED <<ends, network, handler>>

\* Thirty seconds pass.
Cooled(mapping, r) ==
    /\ <<mapping, r>> \in cooling
    /\ cooling' = cooling \ {<<mapping, r>>}
    /\ UNCHANGED <<ends, network, pull, handler, calm>>

\* Whether handle got as far as its relays and a subnode's had all failed.
NoReverse(p) == RoleOf[TargetOf(p)] = "subnode"

\* tryReverse, on a relay only.
TryReverse(p) ==
    /\ pull[p].pc = "relays"
    /\ pull[p].todo = {}
    /\ LET n == SourceOf(p)
           possible == RoleOf[n] = "relay" /\ ~NoReverse(p) /\ ReverseStream(n, TargetOf(p))
       IN  \E ok \in Dials(possible) :
               /\ SetPull(p, IF ok THEN "reversed" ELSE "failed", NoNode, {})
               /\ CalmAfter(possible, ok)
    /\ UNCHANGED <<ends, network, handler, cooling>>

\* The mapping's listener accepts the next connection, with the relays that cool
\* from the last one.
Accept(p) ==
    /\ pull[p].pc \in {"failed", "closed"}
    /\ \A r \in Relay : handler[p][r].pc \in Finished
    /\ SetPull(p, "idle", NoNode, {})
    /\ handler' = [handler EXCEPT ![p] = [r \in Relay |-> NoHandler]]
    /\ calm' = calm \ {p}
    /\ UNCHANGED <<ends, network, cooling>>

\* The application hangs up.
Close(p) ==
    /\ pull[p].pc \in {"bridged", "reversed"}
    /\ SetPull(p, "closed", NoNode, {})
    /\ UNCHANGED <<ends, network, handler, cooling, calm>>

-----------------------------------------------------------------------------
(* A relay: relayServer.handle *)

SetHandler(p, r, pc, todo) ==
    handler' = [handler EXCEPT ![p][r] = [@ EXCEPT !.pc = pc, !.todo = todo]]

\* verify and acceptsSourceRoute.
Admit(p, r) ==
    /\ handler[p][r].pc = "received"
    /\ IF Verify(r, handler[p][r].from) /\ AcceptsSourceRoute(r, handler[p][r].from)
         THEN SetHandler(p, r, "admitted", {})
         ELSE SetHandler(p, r, "refused", {})
    /\ UNCHANGED <<ends, network, pull, cooling, calm>>

\* The relay's own resolveRoute: a service of its segment it serves itself, by the
\* addresses discovery gave it or by a reverse stream.
RouteAtRelay(p, r) ==
    LET t == TargetOf(p)
    IN  /\ handler[p][r].pc = "admitted"
        /\ IF ~ResolveRoute(r, t) THEN SetHandler(p, r, "refused", {})
           ELSE IF View(r, t).seg = conf[r].seg
           THEN SetHandler(p, r, IF View(r, t).lan THEN "serve" ELSE "reverse", {})
           ELSE handler' = [handler EXCEPT ![p][r] =
                    [@ EXCEPT !.pc = "foreign", !.todo = RouteRelayCandidates(r, t),
                              !.lan = View(r, t).lan]]
        /\ UNCHANGED <<ends, network, pull, cooling, calm>>

\* Another segment is reached for the relay's own subnodes only.
Authorize(p, r) ==
    /\ handler[p][r].pc = "foreign"
    /\ IF IsAuthorizedSubnodeRelay(r, handler[p][r].from)
         THEN SetHandler(p, r, "forward", handler[p][r].todo)
         ELSE SetHandler(p, r, "refused", {})
    /\ UNCHANGED <<ends, network, pull, cooling, calm>>

Forward(p, r) ==
    /\ handler[p][r].pc = "forward"
    /\ handler[p][r].todo # {}
    /\ LET h == handler[p][r]
           q == First(h.todo)
       IN  handler' = [handler EXCEPT
               ![p][r] = [h EXCEPT !.pc = "waiting", !.at = q, !.todo = h.todo \ {q}],
               ![p][q] = NewHandler(r)]
    /\ UNCHANGED <<ends, network, pull, cooling, calm>>

ForwardAnswersOK(p, r) ==
    /\ handler[p][r].pc = "waiting"
    /\ handler[p][handler[p][r].at].pc = "ok"
    /\ SetHandler(p, r, "ok", {})
    /\ UNCHANGED <<ends, network, pull, cooling, calm>>

\* The other relay refuses or ends, or does not answer within five seconds.
ForwardFails(p, r) ==
    /\ handler[p][r].pc = "waiting"
    /\ LET answered == handler[p][handler[p][r].at].pc \in {"refused", "gone"}
       IN  /\ answered \/ MayFail
           /\ calm' = IF answered THEN calm ELSE {}
    /\ handler' = [handler EXCEPT ![p][r] = [@ EXCEPT !.pc = "forward", !.at = NoNode]]
    /\ UNCHANGED <<ends, network, pull, cooling>>

\* No relay is left to try: the service itself, with the candidates discovery
\* gave this relay.
Exhausted(p, r) ==
    /\ handler[p][r].pc = "forward"
    /\ handler[p][r].todo = {}
    /\ SetHandler(p, r, IF handler[p][r].lan THEN "serve" ELSE "reverse", {})
    /\ UNCHANGED <<ends, network, pull, cooling, calm>>

\* dialService, or the relay's own listener; then dialReverseService.  A relay
\* that serves a pull itself has its own name in at, a reverse stream leaves none.
Serve(p, r) ==
    /\ handler[p][r].pc = "serve"
    /\ \E ok \in Dials(TRUE) :
           /\ handler' = [handler EXCEPT ![p][r] =
                  IF ok THEN [@ EXCEPT !.pc = "ok", !.at = r]
                        ELSE [@ EXCEPT !.pc = "reverse"]]
           /\ CalmAfter(TRUE, ok)
    /\ UNCHANGED <<ends, network, pull, cooling>>

DialReverseService(p, r) ==
    /\ handler[p][r].pc = "reverse"
    /\ \E ok \in Dials(ReverseStream(r, TargetOf(p))) :
           /\ SetHandler(p, r, IF ok THEN "ok" ELSE "refused", {})
           /\ CalmAfter(ReverseStream(r, TargetOf(p)), ok)
    /\ UNCHANGED <<ends, network, pull, cooling>>

\* Whether the one that dialled this relay still waits for it or is bridged.
Attended(p, r) ==
    LET n == handler[p][r].from
    IN  \/ n = SourceOf(p) /\ pull[p].pc \in {"dialing", "bridged"} /\ pull[p].at = r
        \/ n \in Relay /\ handler[p][n].pc \in {"waiting", "ok"} /\ handler[p][n].at = r

\* Whether the relay it dialled has ended.
Severed(p, r) == handler[p][r].at \in Relay \ {r} /\ handler[p][handler[p][r].at].pc = "gone"

\* The bridge ends with either of its connections; OK finds the caller's closed.
BridgeEnds(p, r) ==
    /\ handler[p][r].pc = "ok"
    /\ ~Attended(p, r) \/ Severed(p, r)
    /\ SetHandler(p, r, "gone", {})
    /\ UNCHANGED <<ends, network, pull, cooling, calm>>

\* The relay's host is gone before it answers.
FallsSilent(p, r) ==
    /\ MayFail
    /\ handler[p][r].pc \notin Finished \cup {"ok"}
    /\ SetHandler(p, r, "silent", {})
    /\ calm' = {}
    /\ UNCHANGED <<ends, network, pull, cooling>>

-----------------------------------------------------------------------------
AtSource(p) ==
    \/ Open(p)
    \/ DialDirect(p)
    \/ SkipCooling(p)
    \/ DialRelay(p)
    \/ RelayAnswersOK(p)
    \/ RelayRefuses(p)
    \/ DialGivesUp(p)
    \/ TryReverse(p)

AtRelay(p, r) ==
    \/ Admit(p, r)
    \/ RouteAtRelay(p, r)
    \/ Authorize(p, r)
    \/ Forward(p, r)
    \/ ForwardAnswersOK(p, r)
    \/ ForwardFails(p, r)
    \/ Exhausted(p, r)
    \/ Serve(p, r)
    \/ DialReverseService(p, r)
    \/ BridgeEnds(p, r)

Next ==
    \/ \E move \in Move : Configure(move[1], move[2])
    \/ \E n \in Node : Heartbeat(n)
    \/ \E pair \in Unsure : Sync(pair[1], pair[2])
    \/ \E mapping \in Route, r \in Relay : Cooled(mapping, r)
    \/ \E p \in Pull : AtSource(p) \/ Accept(p) \/ Close(p)
    \/ \E p \in Pull, r \in Relay : AtRelay(p, r) \/ FallsSilent(p, r)

Spec == Init /\ [][Next]_vars

\* Every handler steps on: each of its dials, reads and waits has a deadline.
\* Nothing makes a profile or a cache change, a relay cool off or an application
\* connect or hang up.
HandlingSpec ==
    /\ Spec
    /\ \A p \in Pull : WF_vars(AtSource(p))
    /\ \A p \in Pull, r \in Relay : WF_vars(AtRelay(p, r))

-----------------------------------------------------------------------------
(* Properties *)

PullState ==
    [pc : {"idle", "direct", "relays", "dialing", "bridged", "reversed", "failed", "closed"},
     todo : SUBSET Relay, at : Relay \cup {NoNode}]

HandlerState ==
    [pc : {"none", "received", "admitted", "serve", "foreign", "forward", "waiting", "reverse",
           "ok", "refused", "gone", "silent"},
     from : Node \cup {NoNode}, todo : SUBSET Relay, lan : BOOLEAN, at : Relay \cup {NoNode}]

\* The types of the variables, and how far a pull may get: a relay that handles it
\* was dialled by the source, or by another relay that the source, a subnode,
\* dialled.  So no pull passes more than two relays or one relay twice, however far
\* the caches lag behind the profiles (resolveRoute, isAuthorizedSubnodeRelay).
RoutingTypeOK ==
    /\ ends \in [Pull -> Route]
    /\ DOMAIN conf = Node /\ DOMAIN registered = Node /\ DOMAIN knows = Unsure
    /\ \A n \in Node : conf[n] \in Placement(n) /\ registered[n] \in Placement(n)
    /\ \A pair \in Unsure : knows[pair] \in Entry \cup {Unknown}
    /\ cooling \subseteq Route \X Relay
    /\ calm \subseteq Pull
    /\ pull \in [Pull -> PullState]
    /\ handler \in [Pull -> [Relay -> HandlerState]]
    /\ \A p \in Pull, r \in Relay : LET h == handler[p][r] IN
           h.pc # "none" =>
               \/ h.from = SourceOf(p)
               \/ /\ RoleOf[SourceOf(p)] = "subnode"
                  /\ h.from \in Relay \ {r}
                  /\ handler[p][h.from].pc # "none"
                  /\ handler[p][h.from].from = SourceOf(p)

\* Whether the layout has a path between the ends of a pull: within a segment, or by
\* a relay of the target's; from a subnode, by its upstream relay in its own segment.
\* A subnode as the target is left out: see SubnodeReached.
HasPath(p) ==
    LET n == SourceOf(p)
        t == TargetOf(p)
        relayed == \E r \in Relay : conf[r].seg = conf[t].seg
    IN  /\ t \in Publisher
        /\ RoleOf[t] # "subnode"
        /\ IF RoleOf[n] = "subnode"
             THEN conf[conf[n].up].seg = conf[n].seg /\ relayed
             ELSE conf[n].seg = conf[t].seg \/ relayed

\* What the source and the relays decide, each by itself, adds up to the path there
\* is: a pull opened when the network is up to date, and not disturbed since by a
\* change or a failure, is never turned away, neither by its own resolveRoute nor by
\* the checks of a relay on its way (smartPull.handle, relayServer.handle).
UndisturbedPullsSucceed ==
    \A p \in calm : pull[p].pc = "failed" => ~HasPath(p)

\* The relays a pull holds: the one its source is bridged with, and on.
OnPath(p, r) ==
    \/ pull[p].pc = "bridged" /\ pull[p].at = r
    \/ \E q \in Relay : /\ pull[p].pc = "bridged" /\ pull[p].at = q
                        /\ handler[p][q].pc = "ok" /\ handler[p][q].at = r

\* Every pull comes to an end, bridged or refused, and every relay that worked
\* for it and is not on its path lets go, also one whose caller gave up on it
\* while it was still looking for a way (smartPull.handle, relayServer.handle).
EveryPullSettles ==
    \A p \in Pull :
        pull[p].pc # "idle" ~>
            /\ pull[p].pc \in {"bridged", "reversed", "failed", "closed"}
            /\ \A r \in Relay : handler[p][r].pc \in Finished \/ OnPath(p, r)

\* What docs/roles.py says of a subnode's service: "Other nodes also reach a
\* published subnode service through that fixed relay, without direct fallback."
\* When no dial fails, a pull of one ends on a path through that relay.
SubnodeReached ==
    \A p \in Pull :
        RoleOf[TargetOf(p)] = "subnode" =>
            /\ pull[p].pc # "failed"
            /\ pull[p].pc = "bridged" => OnPath(p, conf[TargetOf(p)].up)

=============================================================================
