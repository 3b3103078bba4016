--------------------------- MODULE Routing_proofs ---------------------------
(***************************************************************************)
(* The safety properties of Routing, for every set of nodes, every layout  *)
(* of segments and relays and every change of it, any number of pulls and  *)
(* every pair of ends.                                                     *)
(*                                                                         *)
(* The inductive invariant has two parts.  HopsOK says who dialled each    *)
(* relay that handles a pull: the source, or the one relay that a subnode  *)
(* has dialled.  CalmPull says of a pull that nothing has disturbed which  *)
(* relays it may be with and that none of them has turned it away.         *)
(***************************************************************************)
EXTENDS Routing, TLAPS, WellFoundedInduction

-----------------------------------------------------------------------------
(* The inductive invariant.  A pull has the ends e, the state s at its      *)
(* source and the states f at the relays; c is the configuration.           *)

FromSubnode(e) == RoleOf[e[1]] = "subnode"

\* The state of a pull at the relay r: who dialled it and whom it dials.
HopOK(e, r, f) ==
    /\ f[r].pc # "none" =>
           \/ f[r].from = e[1]
           \/ /\ FromSubnode(e)
              /\ f[r].from \in Relay \ {r}
              /\ f[f[r].from].pc # "none"
              /\ f[f[r].from].from = e[1]
    /\ f[r].pc \in {"foreign", "forward", "waiting"} => r \notin f[r].todo
    /\ f[r].pc \in {"forward", "waiting"} => FromSubnode(e) /\ f[r].from = e[1]
    /\ f[r].pc = "waiting" => f[r].at \in Relay \ {r}
    /\ f[r].at \in Relay \ {r} => f[r].pc # "none" /\ FromSubnode(e) /\ f[r].from = e[1]

\* A subnode dials one relay.
OneEntry(e, f) ==
    FromSubnode(e) =>
        \A r, q \in Relay :
            /\ f[r].pc # "none" /\ f[r].from = e[1]
            /\ f[q].pc # "none" /\ f[q].from = e[1]
            => r = q

\* Before the first dial no relay has the pull.
Undialled(e, s, f) ==
    s.pc = "idle" \/ (FromSubnode(e) /\ s.pc \in {"direct", "relays"})
        => \A r \in Relay : f[r].pc = "none"

HopsOK(e, s, f) ==
    /\ \A r \in Relay : HopOK(e, r, f)
    /\ OneEntry(e, f)
    /\ Undialled(e, s, f)
    /\ s.pc = "dialing" => s.at \in Relay

\* The relay r is in the segment of the target.
Local(c, e, r) == c[r].seg = c[e[2]].seg

\* HasPath, of a configuration and the ends of a pull.
PathIn(c, e) ==
    /\ e[2] \in Publisher
    /\ RoleOf[e[2]] # "subnode"
    /\ FromSubnode(e) => c[c[e[1]].up].seg = c[e[1]].seg
    /\ (FromSubnode(e) \/ c[e[1]].seg # c[e[2]].seg) => \E r \in Relay : Local(c, e, r)

\* A relay the source dials, if nothing disturbs it.
Good(c, e, r) ==
    /\ FromSubnode(e) => r = c[e[1]].up
    /\ ~FromSubnode(e) => c[e[1]].seg # c[e[2]].seg /\ Local(c, e, r)

\* The state of the pull at that relay.
FirstOK(c, e, r, f) ==
    /\ f[r].from = e[1]
    /\ f[r].pc \in {"received", "admitted", "serve", "foreign", "forward", "waiting", "ok"}
    /\ f[r].pc \in {"foreign", "forward"} => f[r].todo # {}
    /\ f[r].pc \in {"foreign", "forward", "waiting"} =>
           FromSubnode(e) /\ \A q \in f[r].todo : Local(c, e, q)
    /\ f[r].pc = "waiting" =>
           /\ Local(c, e, f[r].at)
           /\ f[f[r].at].from = r
           /\ f[f[r].at].pc \in {"received", "admitted", "serve", "ok"}
    /\ f[r].pc = "ok" /\ f[r].at \in Relay \ {r} =>
           f[f[r].at].from = r /\ f[f[r].at].pc = "ok"

CalmPull(c, e, s, f) ==
    /\ s.pc \in {"direct", "relays", "dialing", "bridged", "closed"}
    /\ s.pc = "relays" => s.todo # {} /\ \A r \in s.todo : Good(c, e, r)
    /\ s.pc = "dialing" => Good(c, e, s.at) /\ FirstOK(c, e, s.at, f)

NetworkOK ==
    /\ DOMAIN conf = Node /\ DOMAIN registered = Node /\ DOMAIN knows = Unsure
    /\ \A n \in Node : conf[n] \in Placement(n) /\ registered[n] \in Placement(n)
    /\ \A pair \in Unsure : knows[pair] \in Entry \cup {Unknown}

TypesOK ==
    /\ ends \in [Pull -> Route]
    /\ NetworkOK
    /\ cooling \subseteq Route \X Relay
    /\ calm \subseteq Pull
    /\ pull \in [Pull -> PullState]
    /\ handler \in [Pull -> [Relay -> HandlerState]]

\* What is true of a pull nothing has disturbed.
CalmOK(p) ==
    /\ Settled
    /\ PathIn(conf, ends[p]) =>
           /\ \A r \in Relay : <<ends[p], r>> \notin cooling
           /\ CalmPull(conf, ends[p], pull[p], handler[p])

\* The inductive invariant.
RoutingInv ==
    /\ TypesOK
    /\ \A p \in Pull : HopsOK(ends[p], pull[p], handler[p])
    /\ \A p \in calm : CalmOK(p)

-----------------------------------------------------------------------------
(* The operators of the model *)

\* A set of natural numbers that is not empty has a least one.
LEMMA HasLeast ==
    ASSUME NEW T, T \subseteq Nat, T # {}
    PROVE  \E x \in T : \A y \in T : x <= y
<1> DEFINE R == {ss \in Nat \X Nat : ss[1] < ss[2]}
<1>1. IsWellFoundedOn(R, Nat)
  BY NatLessThanWellFounded, Zenon DEF OpToRel
<1>2. \E x \in T : \A y \in T : ~(<<y, x>> \in R)
  <2> HIDE DEF R
  <2> QED
    BY <1>1, WFMin, Zenon
<1>3. PICK x \in T : \A y \in T : ~(<<y, x>> \in R)
  BY <1>2
<1>4. \A y \in T : <<y, x>> \in Nat \X Nat /\ ~(y < x)
  BY <1>3, SMT
<1>5. \A y \in T : x <= y
  <2> TAKE y \in T
  <2>1. x \in Nat /\ y \in Nat
    OBVIOUS
  <2>2. ~(y < x)
    BY <1>4
  <2> QED
    BY <2>1, <2>2, SMT
<1> QED
  BY <1>5

\* The relays are nodes, the nodes with that role and none else.
LEMMA RelayFacts ==
    /\ Relay = {n \in Node : RoleOf[n] = "relay"}
    /\ Rank \in [Relay -> Nat]
    /\ NoNode \notin Relay
BY RoutingAssumption DEF Relay

\* The first of some relays is one of them.
LEMMA FirstIn ==
    ASSUME NEW S, S \subseteq Relay, S # {}
    PROVE  First(S) \in S
<1> DEFINE T == {Rank[r] : r \in S}
<1>1. T \subseteq Nat /\ T # {}
  BY RelayFacts
<1>2. PICK x \in T : \A y \in T : x <= y
  <2> HIDE DEF T
  <2> QED
    BY <1>1, HasLeast, Zenon
<1>3. PICK r \in S : x = Rank[r]
  BY <1>2
<1>4. \A q \in S : Rank[r] <= Rank[q]
  BY <1>2, <1>3
<1> QED
  BY <1>4, Zenon DEF First

\* Ends of a pull and their placement are nodes and relays.
LEMMA EndsFacts ==
    ASSUME NEW e \in Route
    PROVE  /\ e[1] \in Node
           /\ e[2] \in Node
BY RoutingAssumption

\* The upstream relay in the profile of a subnode is a relay.
LEMMA UpFacts ==
    ASSUME NetworkOK, NEW n \in Node, RoleOf[n] = "subnode"
    PROVE  conf[n].up \in Relay
BY DEF NetworkOK, Placement

\* In a settled network a node sees every other one as it is configured.
LEMMA SettledView ==
    ASSUME NetworkOK, Settled, NEW n \in Node, NEW m \in Node
    PROVE  /\ Discovered(n, m)
           /\ View(n, m).seg = conf[m].seg
           /\ View(n, m).up = conf[m].up
           /\ View(n, m).lan = (conf[n].seg = conf[m].seg)
<1>1. /\ conf[m].seg \in Segment /\ conf[m].up \in Relay \cup {NoNode}
      /\ registered = conf
  BY DEF NetworkOK, Settled, Placement
<1>2. PICK v : v = View(n, m)
  OBVIOUS
<1>3. CASE m = n
  <2>1. v = [seg |-> conf[n].seg, up |-> conf[n].up, lan |-> TRUE]
    BY <1>2, <1>3 DEF View
  <2>2. v \in Entry /\ v.seg = conf[m].seg /\ v.up = conf[m].up /\ v.lan = TRUE
    BY <1>1, <1>3, <2>1 DEF Entry
  <2> QED
    BY <1>2, <1>3, <2>2, RoutingAssumption DEF Discovered
<1>4. CASE m # n
  <2>1. v = NodeForDiscovery(n, m)
    BY <1>2, <1>4 DEF View, Settled
  <2>2. v = [seg |-> conf[m].seg, up |-> conf[m].up, lan |-> (conf[n].seg = conf[m].seg)]
    BY <1>1, <2>1 DEF NodeForDiscovery
  <2>3. /\ v \in Entry /\ v.seg = conf[m].seg /\ v.up = conf[m].up
        /\ v.lan = (conf[n].seg = conf[m].seg)
    BY <1>1, <2>2 DEF Entry
  <2> QED
    BY <1>2, <2>3, RoutingAssumption DEF Discovered
<1> QED
  BY <1>3, <1>4

\* What a relay or a source finds for the target of a pull are relays, and never the
\* one that looks, unless it is the target itself.
LEMMA CandidatesFacts ==
    ASSUME NEW n \in Node, NEW t \in Node
    PROVE  /\ RouteRelayCandidates(n, t) \subseteq Relay
           /\ n # t => n \notin RouteRelayCandidates(n, t)
BY RelayFacts DEF RouteRelayCandidates, Relays

\* In a settled network they are the relays of the target's segment, and there are
\* some when the layout has one.
LEMMA SettledCandidates ==
    ASSUME NetworkOK, Settled, NEW n \in Node, NEW e \in Route, RoleOf[e[2]] # "subnode",
           conf[n].seg # conf[e[2]].seg, \E r \in Relay : Local(conf, e, r)
    PROVE  /\ RouteRelayCandidates(n, e[2]) # {}
           /\ \A r \in RouteRelayCandidates(n, e[2]) : Local(conf, e, r)
<1>1. e[2] \in Node
  BY EndsFacts
<1>2. PICK r \in Relay : Local(conf, e, r)
  OBVIOUS
<1>3. r \in Node /\ r # n
  BY <1>2, RelayFacts DEF Local
<1>4. r \in Relays(n, e[2])
  BY <1>1, <1>2, <1>3, SettledView DEF Relays, Local
<1>5. \A q \in Relays(n, e[2]) : q \in Node /\ Local(conf, e, q)
  BY <1>1, RelayFacts, SettledView DEF Relays, Local
<1> QED
  BY <1>1, <1>4, <1>5 DEF RouteRelayCandidates, Local

\* HasPath is PathIn of the configuration.
LEMMA PathFacts ==
    ASSUME NEW p \in Pull, HasPath(p)
    PROVE  PathIn(conf, ends[p])
BY DEF HasPath, PathIn, FromSubnode, Local, SourceOf, TargetOf

-----------------------------------------------------------------------------
(* Steps of one pull *)

\* What the invariant says of one pull.
LEMMA PullFacts ==
    ASSUME RoutingInv, NEW p \in Pull
    PROVE  /\ ends[p] \in Route /\ ends[p][1] \in Node /\ ends[p][2] \in Node
           /\ NetworkOK
           /\ pull[p] \in PullState
           /\ pull[p].todo \subseteq Relay
           /\ handler[p] \in [Relay -> HandlerState]
           /\ HopsOK(ends[p], pull[p], handler[p])
           /\ p \in calm => CalmOK(p)
BY EndsFacts DEF RoutingInv, TypesOK, PullState

\* The invariant is kept by a step that gives one pull the states s and f, if they
\* are such as the invariant allows, leaves the network as it is, adds no other pull
\* to the calm ones and lets no relay cool for those.
LEMMA OnePull ==
    ASSUME RoutingInv, NEW p \in Pull, NEW s \in PullState, NEW f \in [Relay -> HandlerState],
           UNCHANGED <<ends, network>>,
           pull' = [pull EXCEPT ![p] = s], handler' = [handler EXCEPT ![p] = f],
           HopsOK(ends[p], s, f),
           cooling' \subseteq Route \X Relay,
           calm' \subseteq calm \cup {p},
           \A o \in calm' : o # p =>
               \A r \in Relay : <<ends[o], r>> \in cooling' => <<ends[o], r>> \in cooling,
           p \in calm' =>
               /\ Settled
               /\ PathIn(conf, ends[p]) =>
                      /\ \A r \in Relay : <<ends[p], r>> \notin cooling'
                      /\ CalmPull(conf, ends[p], s, f)
    PROVE  RoutingInv'
<1>1. ends' = ends /\ conf' = conf /\ registered' = registered /\ knows' = knows
  BY DEF network
<1>2. TypesOK'
  <2>1. NetworkOK'
    BY <1>1 DEF RoutingInv, TypesOK, NetworkOK
  <2>2. pull' \in [Pull -> PullState] /\ handler' \in [Pull -> [Relay -> HandlerState]]
    BY DEF RoutingInv, TypesOK
  <2> QED
    BY <1>1, <2>1, <2>2 DEF RoutingInv, TypesOK
<1>3. \A o \in Pull : /\ pull'[o] = IF o = p THEN s ELSE pull[o]
                      /\ handler'[o] = IF o = p THEN f ELSE handler[o]
  BY DEF RoutingInv, TypesOK
<1>4. \A o \in Pull : HopsOK(ends[o], pull'[o], handler'[o])
  BY <1>3 DEF RoutingInv
<1>5. Settled' = Settled
  BY <1>1 DEF Settled, NodeForDiscovery
<1>6. ASSUME NEW o \in calm' PROVE CalmOK(o)'
  <2>1. o \in Pull
    BY DEF RoutingInv, TypesOK
  <2>2. CASE o = p
    BY <1>1, <1>3, <1>5, <2>1, <2>2 DEF CalmOK
  <2>3. CASE o # p
    <3>1. CalmOK(o)
      BY <2>3 DEF RoutingInv
    <3>2. pull'[o] = pull[o] /\ handler'[o] = handler[o]
      BY <1>3, <2>1, <2>3
    <3> QED
      BY <1>1, <1>5, <2>3, <3>1, <3>2 DEF CalmOK
  <2> QED
    BY <2>2, <2>3
<1> QED
  BY <1>1, <1>2, <1>4, <1>6 DEF RoutingInv

\* A step of the source alone that makes no pull calm and no relay cool.
LEMMA SourceStep ==
    ASSUME RoutingInv, NEW p \in Pull, NEW pc, NEW at, NEW todo, SetPull(p, pc, at, todo),
           [pc |-> pc, todo |-> todo, at |-> at] \in PullState,
           UNCHANGED <<ends, network, handler>>, cooling' \subseteq cooling, calm' \subseteq calm,
           pc # "idle", pc = "dialing" => at \in Relay,
           FromSubnode(ends[p]) /\ pc \in {"direct", "relays"} =>
               pull[p].pc \in {"idle", "direct", "relays"},
           p \in calm' /\ PathIn(conf, ends[p]) =>
               CalmPull(conf, ends[p], [pc |-> pc, todo |-> todo, at |-> at], handler[p])
    PROVE  RoutingInv'
<1>1. PICK s : s = [pc |-> pc, todo |-> todo, at |-> at]
  OBVIOUS
<1>2. s \in PullState /\ s.pc = pc /\ s.at = at /\ s.todo = todo
  BY <1>1
<1>3. pull' = [pull EXCEPT ![p] = s]
  BY <1>1 DEF SetPull
<1>4. handler[p] \in [Relay -> HandlerState] /\ handler' = [handler EXCEPT ![p] = handler[p]]
  BY DEF RoutingInv, TypesOK
<1>5. HopsOK(ends[p], s, handler[p])
  BY <1>2, PullFacts DEF HopsOK, Undialled
<1>6. p \in calm' =>
          /\ Settled
          /\ PathIn(conf, ends[p]) =>
                 /\ \A r \in Relay : <<ends[p], r>> \notin cooling'
                 /\ CalmPull(conf, ends[p], s, handler[p])
  BY <1>1, PullFacts DEF CalmOK
<1>7. cooling' \subseteq Route \X Relay /\ calm' \subseteq calm \cup {p}
  BY DEF RoutingInv, TypesOK
<1>8. UNCHANGED <<ends, network>>
  OBVIOUS
<1>9. \A o \in calm' : o # p =>
          \A r \in Relay : <<ends[o], r>> \in cooling' => <<ends[o], r>> \in cooling
  OBVIOUS
<1> QED
  BY <1>2, <1>3, <1>4, <1>5, <1>6, <1>7, <1>8, <1>9, OnePull

\* Open: no route, the relay of a subnode, the relays of the target's segment, and
\* a direct dial before them.
LEMMA OpenStep ==
    ASSUME RoutingInv, NEW p \in Pull, Open(p)
    PROVE  RoutingInv'
<1> DEFINE e == ends[p]
           c == RouteRelayCandidates(e[1], e[2])
<1>1. /\ pull[p].pc = "idle" /\ UNCHANGED <<ends, network, handler, cooling>>
      /\ calm' = IF Settled /\ \A r \in Relay : <<e, r>> \notin cooling
                   THEN calm \cup {p} ELSE calm
  BY DEF Open
<1>2. e[1] \in Node /\ e[2] \in Node /\ e \in Route /\ NetworkOK /\ c \subseteq Relay
  BY PullFacts, CandidatesFacts
<1>3. p \in calm' => Settled /\ (PathIn(conf, e) => \A r \in Relay : <<e, r>> \notin cooling)
  BY <1>1, PullFacts DEF CalmOK
<1>4. ASSUME NEW pc \in {"failed", "direct", "relays"}, NEW todo, todo \subseteq Relay,
             SetPull(p, pc, NoNode, todo),
             p \in calm' /\ PathIn(conf, e) =>
                 /\ pc # "failed"
                 /\ pc = "relays" => todo # {} /\ \A r \in todo : Good(conf, e, r)
      PROVE  RoutingInv'
  <2>1. PICK s : s = [pc |-> pc, todo |-> todo, at |-> NoNode]
    OBVIOUS
  <2>2. s \in PullState /\ s.pc = pc /\ s.at = NoNode /\ s.todo = todo
    BY <1>4, <2>1 DEF PullState
  <2>3. HopsOK(e, s, handler[p])
    BY <1>1, <2>2, PullFacts DEF HopsOK, Undialled
  <2>4. p \in calm' /\ PathIn(conf, e) => CalmPull(conf, e, s, handler[p])
    BY <1>4, <2>2 DEF CalmPull
  <2>5. /\ pull' = [pull EXCEPT ![p] = s]
        /\ handler' = [handler EXCEPT ![p] = handler[p]]
        /\ handler[p] \in [Relay -> HandlerState]
    BY <1>1, <1>4, <2>1 DEF SetPull, RoutingInv, TypesOK
  <2>6. calm' \subseteq calm \cup {p} /\ cooling' \subseteq Route \X Relay
    BY <1>1 DEF RoutingInv, TypesOK
  <2>7. UNCHANGED <<ends, network>> /\ cooling' = cooling
    BY <1>1
  <2> HIDE DEF e, c
  <2> QED
    BY <1>3, <2>2, <2>3, <2>4, <2>5, <2>6, <2>7, OnePull DEF e
<1>5. CASE ~ResolveRoute(e[1], e[2])
  <2>1. SetPull(p, "failed", NoNode, {})
    BY <1>5 DEF Open, SourceOf, TargetOf
  <2>2. ~(p \in calm' /\ PathIn(conf, e))
    BY <1>2, <1>3, <1>5, SettledView DEF ResolveRoute, PathIn
  <2> QED
    BY <1>4, <2>1, <2>2
<1>6. CASE ResolveRoute(e[1], e[2]) /\ FromSubnode(e)
  <2>1. SetPull(p, "relays", NoNode, {conf[e[1]].up})
    BY <1>6 DEF Open, SourceOf, TargetOf, FromSubnode
  <2>2. PICK todo : todo = {conf[e[1]].up}
    OBVIOUS
  <2>3. todo \subseteq Relay /\ \A r \in todo : Good(conf, e, r)
    BY <1>2, <1>6, <2>2, UpFacts DEF Good, FromSubnode
  <2> QED
    BY <1>4, <2>1, <2>2, <2>3
<1>7. CASE /\ ~FromSubnode(e)
           /\ RoleOf[e[2]] # "subnode" /\ View(e[1], e[2]).seg = conf[e[1]].seg /\ View(e[1], e[2]).lan
           /\ SetPull(p, "direct", NoNode, c)
  BY <1>2, <1>4, <1>7
<1>8. CASE /\ ~FromSubnode(e)
           /\ ~(RoleOf[e[2]] # "subnode" /\ View(e[1], e[2]).seg = conf[e[1]].seg /\ View(e[1], e[2]).lan)
           /\ SetPull(p, "relays", NoNode, c)
  <2>1. ASSUME p \in calm', PathIn(conf, e)
        PROVE  c # {} /\ \A r \in c : Good(conf, e, r)
    <3>1. Settled /\ RoleOf[e[2]] # "subnode"
      BY <1>3, <2>1 DEF PathIn
    <3>2. conf[e[1]].seg # conf[e[2]].seg
      <4>1. /\ View(e[1], e[2]).seg = conf[e[2]].seg
            /\ View(e[1], e[2]).lan = (conf[e[1]].seg = conf[e[2]].seg)
        BY <1>2, <3>1, SettledView
      <4> QED
        BY <1>8, <3>1, <4>1
    <3>3. \E r \in Relay : Local(conf, e, r)
      BY <2>1, <3>2 DEF PathIn
    <3>4. c # {} /\ \A r \in c : Local(conf, e, r)
      BY <1>2, <3>1, <3>2, <3>3, SettledCandidates
    <3> QED
      BY <1>8, <3>2, <3>4 DEF Good
  <2> HIDE DEF c
  <2> QED
    BY <1>2, <1>4, <1>8, <2>1
<1> QED
  BY <1>5, <1>6, <1>7, <1>8 DEF Open, SourceOf, TargetOf, FromSubnode

\* DialDirect: a dial that fails is a disturbance.
LEMMA DialDirectStep ==
    ASSUME RoutingInv, NEW p \in Pull, DialDirect(p)
    PROVE  RoutingInv'
<1>1. pull[p].pc = "direct" /\ UNCHANGED <<ends, network, handler, cooling>>
  BY DEF DialDirect
<1>2. \/ SetPull(p, "bridged", NoNode, {}) /\ calm' = calm
      \/ SetPull(p, "relays", NoNode, pull[p].todo) /\ calm' = {}
  BY Zenon DEF DialDirect, Dials, CalmAfter
<1>3. CASE SetPull(p, "bridged", NoNode, {}) /\ calm' = calm
  <2>1. [pc |-> "bridged", todo |-> {}, at |-> NoNode] \in PullState
    BY DEF PullState
  <2>2. CalmPull(conf, ends[p], [pc |-> "bridged", todo |-> {}, at |-> NoNode], handler[p])
    BY DEF CalmPull
  <2> QED
    BY <1>1, <1>3, <2>1, <2>2, SourceStep
<1>4. CASE SetPull(p, "relays", NoNode, pull[p].todo) /\ calm' = {}
  <2>1. PICK todo : todo = pull[p].todo
    OBVIOUS
  <2>2. [pc |-> "relays", todo |-> todo, at |-> NoNode] \in PullState
    BY <2>1, PullFacts DEF PullState
  <2> QED
    BY <1>1, <1>4, <2>1, <2>2, SourceStep
<1> QED
  BY <1>2, <1>3, <1>4

\* SkipCooling: no relay cools for a pull that nothing disturbed.
LEMMA SkipCoolingStep ==
    ASSUME RoutingInv, NEW p \in Pull, SkipCooling(p)
    PROVE  RoutingInv'
<1>1. PICK todo : todo = pull[p].todo \ {First(pull[p].todo)}
  OBVIOUS
<1>2. /\ SetPull(p, "relays", NoNode, todo) /\ todo \subseteq Relay
      /\ pull[p].pc = "relays" /\ UNCHANGED <<ends, network, handler, cooling, calm>>
  BY <1>1, PullFacts DEF SkipCooling
<1>3. First(pull[p].todo) \in Relay /\ <<ends[p], First(pull[p].todo)>> \in cooling
  BY PullFacts, FirstIn DEF SkipCooling, IsCooling
<1>4. ~(p \in calm /\ PathIn(conf, ends[p]))
  BY <1>3, PullFacts DEF CalmOK
<1>5. [pc |-> "relays", todo |-> todo, at |-> NoNode] \in PullState
  BY <1>2 DEF PullState
<1> QED
  BY <1>2, <1>4, <1>5, SourceStep

\* RelayAnswersOK.
LEMMA RelayAnswersOKStep ==
    ASSUME RoutingInv, NEW p \in Pull, RelayAnswersOK(p)
    PROVE  RoutingInv'
<1>1. PICK a : a = pull[p].at
  OBVIOUS
<1>2. SetPull(p, "bridged", a, {}) /\ UNCHANGED <<ends, network, handler, cooling, calm>>
  BY <1>1 DEF RelayAnswersOK
<1>3. [pc |-> "bridged", todo |-> {}, at |-> a] \in PullState
  BY <1>1, PullFacts DEF PullState
<1>4. CalmPull(conf, ends[p], [pc |-> "bridged", todo |-> {}, at |-> a], handler[p])
  BY DEF CalmPull
<1> QED
  BY <1>2, <1>3, <1>4, SourceStep

\* TryReverse: only when no relay is left to try.
LEMMA TryReverseStep ==
    ASSUME RoutingInv, NEW p \in Pull, TryReverse(p)
    PROVE  RoutingInv'
<1>1. /\ pull[p].pc = "relays" /\ pull[p].todo = {}
      /\ UNCHANGED <<ends, network, handler, cooling>>
  BY DEF TryReverse
<1>2. calm' \subseteq calm
  BY Zenon DEF TryReverse, CalmAfter
<1>3. SetPull(p, "reversed", NoNode, {}) \/ SetPull(p, "failed", NoNode, {})
  BY Zenon DEF TryReverse
<1>4. ~(p \in calm /\ PathIn(conf, ends[p]))
  BY <1>1, PullFacts DEF CalmOK, CalmPull
<1>5. \A pc \in {"reversed", "failed"} : [pc |-> pc, todo |-> {}, at |-> NoNode] \in PullState
  BY DEF PullState
<1>6. CASE SetPull(p, "reversed", NoNode, {})
  BY <1>1, <1>2, <1>4, <1>5, <1>6, SourceStep
<1>7. CASE SetPull(p, "failed", NoNode, {})
  BY <1>1, <1>2, <1>4, <1>5, <1>7, SourceStep
<1> QED
  BY <1>3, <1>6, <1>7

\* Close.
LEMMA CloseStep ==
    ASSUME RoutingInv, NEW p \in Pull, Close(p)
    PROVE  RoutingInv'
<1>1. SetPull(p, "closed", NoNode, {}) /\ UNCHANGED <<ends, network, handler, cooling, calm>>
  BY DEF Close
<1>2. [pc |-> "closed", todo |-> {}, at |-> NoNode] \in PullState
  BY DEF PullState
<1>3. CalmPull(conf, ends[p], [pc |-> "closed", todo |-> {}, at |-> NoNode], handler[p])
  BY DEF CalmPull
<1> QED
  BY <1>1, <1>2, <1>3, SourceStep

\* A handler that begins, dialled by the source.
LEMMA NewHandlerFacts ==
    ASSUME NEW n \in Node
    PROVE  /\ NewHandler(n) \in HandlerState
           /\ NewHandler(n).pc = "received" /\ NewHandler(n).from = n
           /\ NewHandler(n).todo = {} /\ NewHandler(n).at = NoNode
BY DEF NewHandler, NoHandler, HandlerState

\* DialRelay: the relay dialled is one the source may dial, and its handler begins.
LEMMA DialRelayStep ==
    ASSUME RoutingInv, NEW p \in Pull, DialRelay(p)
    PROVE  RoutingInv'
<1> DEFINE e == ends[p]
           f == handler[p]
<1>1. PICK r : r = First(pull[p].todo)
  OBVIOUS
<1>2. PICK todo : todo = pull[p].todo \ {r}
  OBVIOUS
<1>3. PICK h : h = NewHandler(e[1])
  OBVIOUS
<1>4. /\ SetPull(p, "dialing", r, todo) /\ pull[p].pc = "relays" /\ pull[p].todo # {}
      /\ handler' = [handler EXCEPT ![p][r] = h]
      /\ UNCHANGED <<ends, network, cooling, calm>>
  BY <1>1, <1>2, <1>3 DEF DialRelay, SourceOf
<1>5. r \in pull[p].todo /\ r \in Relay /\ todo \subseteq Relay
  BY <1>1, <1>2, <1>4, PullFacts, FirstIn
<1>6. h \in HandlerState /\ h.pc = "received" /\ h.from = e[1] /\ h.at = NoNode
  BY <1>3, PullFacts, NewHandlerFacts
<1>7. PICK s : s = [pc |-> "dialing", todo |-> todo, at |-> r]
  OBVIOUS
<1>8. s \in PullState /\ s.pc = "dialing" /\ s.at = r
  BY <1>5, <1>7 DEF PullState
<1>9. PICK g : g = [f EXCEPT ![r] = h]
  OBVIOUS
<1>10. /\ f \in [Relay -> HandlerState] /\ g \in [Relay -> HandlerState]
       /\ \A q \in Relay : g[q] = IF q = r THEN h ELSE f[q]
  BY <1>5, <1>6, <1>9, PullFacts
<1>11. handler' = [handler EXCEPT ![p] = g] /\ pull' = [pull EXCEPT ![p] = s]
  BY <1>4, <1>7, <1>9 DEF SetPull
<1>12. HopsOK(e, pull[p], f) /\ (p \in calm => CalmOK(p))
  BY PullFacts
<1>13. HopsOK(e, s, g)
  <2> HIDE DEF e, f
  <2>1. FromSubnode(e) => \A q \in Relay : f[q].pc = "none"
    BY <1>4, <1>12 DEF HopsOK, Undialled
  <2>2. \A q \in Relay : HopOK(e, q, g)
    <3> TAKE q \in Relay
    <3>1. CASE q = r
      BY <1>5, <1>6, <1>10, <3>1, RelayFacts DEF HopOK
    <3>2. CASE q # r
      <4>1. HopOK(e, q, f) /\ g[q] = f[q]
        BY <1>10, <1>12, <3>2 DEF HopsOK
      <4>2. CASE FromSubnode(e)
        BY <2>1, <4>1, <4>2 DEF HopOK
      <4>3. CASE ~FromSubnode(e)
        BY <4>1, <4>3 DEF HopOK
      <4> QED
        BY <4>2, <4>3
    <3> QED
      BY <3>1, <3>2
  <2>3. OneEntry(e, g)
    BY <1>10, <2>1 DEF OneEntry
  <2> QED
    BY <1>5, <1>8, <2>2, <2>3 DEF HopsOK, Undialled
<1>14. p \in calm =>
           /\ Settled
           /\ PathIn(conf, e) =>
                  /\ \A q \in Relay : <<e, q>> \notin cooling
                  /\ CalmPull(conf, e, s, g)
  <2> HIDE DEF f
  <2>1. PathIn(conf, e) /\ p \in calm => Good(conf, e, r)
    BY <1>4, <1>5, <1>12 DEF CalmOK, CalmPull
  <2>2. FirstOK(conf, e, r, g)
    BY <1>5, <1>6, <1>10, RelayFacts DEF FirstOK
  <2> QED
    BY <1>8, <1>12, <2>1, <2>2 DEF CalmOK, CalmPull
<1>15. calm' \subseteq calm \cup {p} /\ cooling' = cooling /\ cooling \subseteq Route \X Relay
  BY <1>4 DEF RoutingInv, TypesOK
<1> QED
  BY <1>4, <1>8, <1>10, <1>11, <1>13, <1>14, <1>15, OnePull

\* A dial that failed: the next relay's turn.
LEMMA DialFailedStep ==
    ASSUME RoutingInv, NEW p \in Pull, pull[p].pc = "dialing", DialFailed(p),
           UNCHANGED <<ends, network, handler>>,
           calm' \subseteq calm,
           ~(p \in calm' /\ PathIn(conf, ends[p])),
           \A o \in calm' : o # p => ends[o] # ends[p]
    PROVE  RoutingInv'
<1>1. PICK s \in PullState :
          /\ pull' = [pull EXCEPT ![p] = s]
          /\ s.pc = "failed" \/ (s.pc = "relays" /\ ~FromSubnode(ends[p]))
  <2>1. CASE FromSubnode(ends[p])
    <3>1. [pc |-> "failed", todo |-> {}, at |-> NoNode] \in PullState
      BY DEF PullState
    <3> QED
      BY <2>1, <3>1 DEF DialFailed, SetPull, FromSubnode, SourceOf
  <2>2. CASE ~FromSubnode(ends[p])
    <3>1. [pc |-> "relays", todo |-> pull[p].todo, at |-> NoNode] \in PullState
      BY PullFacts DEF PullState
    <3> QED
      BY <2>2, <3>1 DEF DialFailed, SetPull, FromSubnode, SourceOf
  <2> QED
    BY <2>1, <2>2
<1>2. cooling' = cooling \/ cooling' = cooling \cup {<<ends[p], pull[p].at>>}
  BY DEF DialFailed
<1>3. /\ cooling \subseteq Route \X Relay /\ pull[p].at \in Relay /\ ends[p] \in Route
      /\ handler[p] \in [Relay -> HandlerState] /\ handler' = [handler EXCEPT ![p] = handler[p]]
  BY PullFacts DEF RoutingInv, TypesOK, HopsOK
<1>4. cooling' \subseteq Route \X Relay
  BY <1>2, <1>3
<1>5. \A o \in calm' : o # p =>
          \A r \in Relay : <<ends[o], r>> \in cooling' => <<ends[o], r>> \in cooling
  BY <1>2
<1>6. HopsOK(ends[p], s, handler[p])
  BY <1>1, PullFacts DEF HopsOK, Undialled
<1>7. p \in calm' => Settled
  BY PullFacts DEF CalmOK
<1> QED
  BY <1>1, <1>3, <1>4, <1>5, <1>6, <1>7, OnePull

\* RelayRefuses: no relay on the way of an undisturbed pull does.
LEMMA RelayRefusesStep ==
    ASSUME RoutingInv, NEW p \in Pull, RelayRefuses(p)
    PROVE  RoutingInv'
<1>1. /\ pull[p].pc = "dialing" /\ handler[p][pull[p].at].pc \in {"refused", "gone"}
      /\ DialFailed(p) /\ UNCHANGED <<ends, network, handler>>
      /\ calm' = {o \in calm : o = p \/ ends[o] # ends[p]}
  BY DEF RelayRefuses
<1>2. ~(p \in calm /\ PathIn(conf, ends[p]))
  BY <1>1, PullFacts DEF CalmOK, CalmPull, FirstOK
<1> QED
  BY <1>1, <1>2, DialFailedStep

\* Accept: a new connection finds no handler.
LEMMA AcceptStep ==
    ASSUME RoutingInv, NEW p \in Pull, Accept(p)
    PROVE  RoutingInv'
<1>1. PICK s : s = [pc |-> "idle", todo |-> {}, at |-> NoNode]
  OBVIOUS
<1>2. PICK h : h = NoHandler
  OBVIOUS
<1>3. PICK g : g = [r \in Relay |-> h]
  OBVIOUS
<1>4. s \in PullState /\ s.pc = "idle"
  BY <1>1 DEF PullState
<1>5. h \in HandlerState /\ h.pc = "none" /\ h.at = NoNode
  BY <1>2 DEF NoHandler, HandlerState
<1>6. g \in [Relay -> HandlerState] /\ \A r \in Relay : g[r] = h
  BY <1>3, <1>5
<1>7. /\ pull' = [pull EXCEPT ![p] = s] /\ handler' = [handler EXCEPT ![p] = g]
      /\ calm' = calm \ {p} /\ UNCHANGED <<ends, network, cooling>>
  BY <1>1, <1>2, <1>3 DEF Accept, SetPull
<1>8. HopsOK(ends[p], s, g)
  BY <1>4, <1>5, <1>6, RelayFacts DEF HopsOK, HopOK, OneEntry, Undialled
<1>9. calm' \subseteq calm \cup {p} /\ cooling' \subseteq Route \X Relay /\ p \notin calm'
  BY <1>7 DEF RoutingInv, TypesOK
<1> QED
  BY <1>4, <1>6, <1>7, <1>8, <1>9, OnePull

-----------------------------------------------------------------------------
(* The steps of a relay *)

\* A handler that goes on: it keeps its caller, and dials no other relay than before.
LEMMA HopsUpdate ==
    ASSUME NEW e, NEW s, NEW f \in [Relay -> HandlerState], HopsOK(e, s, f),
           NEW r \in Relay, NEW h \in HandlerState, f[r].pc # "none", h.pc # "none",
           h.from = f[r].from,
           h.at = f[r].at \/ h.at \in {r, NoNode},
           h.pc \in {"foreign", "forward", "waiting"} => r \notin h.todo,
           h.pc \in {"forward", "waiting"} => FromSubnode(e) /\ h.from = e[1],
           h.pc # "waiting"
    PROVE  HopsOK(e, s, [f EXCEPT ![r] = h])
<1>1. PICK g : g = [f EXCEPT ![r] = h]
  OBVIOUS
<1>2. \A q \in Relay : g[q] = IF q = r THEN h ELSE f[q]
  BY <1>1
<1>3. \A q \in Relay : g[q].from = f[q].from /\ (g[q].pc # "none" <=> f[q].pc # "none")
  BY <1>2
<1>4. ASSUME NEW q \in Relay PROVE HopOK(e, q, g)
  <2>1. HopOK(e, q, f)
    BY DEF HopsOK
  <2>2. \/ g[q].pc = "none"
        \/ g[q].from = e[1]
        \/ /\ FromSubnode(e) /\ g[q].from \in Relay \ {q}
           /\ g[g[q].from].pc # "none" /\ g[g[q].from].from = e[1]
    BY <1>3, <2>1 DEF HopOK
  <2>3. CASE q = r
    BY <1>2, <2>1, <2>2, <2>3, RelayFacts DEF HopOK
  <2>4. CASE q # r
    BY <1>2, <2>1, <2>2, <2>4 DEF HopOK
  <2> QED
    BY <2>3, <2>4
<1>5. OneEntry(e, g)
  BY <1>3 DEF HopsOK, OneEntry
<1>6. Undialled(e, s, g)
  BY <1>3 DEF HopsOK, Undialled
<1> QED
  BY <1>1, <1>4, <1>5, <1>6 DEF HopsOK

\* What an undisturbed pull needs of a relay that steps: when it is the relay the
\* source dialled, and when it is the one that relay dialled.
LEMMA CalmUpdate ==
    ASSUME NEW c, NEW e, NEW s, NEW f \in [Relay -> HandlerState], HopsOK(e, s, f),
           CalmPull(c, e, s, f), NEW r \in Relay, NEW h \in HandlerState,
           s.pc = "dialing" /\ s.at = r => FirstOK(c, e, r, [f EXCEPT ![r] = h]),
           \A a \in Relay : a # r /\ s.pc = "dialing" /\ s.at = a /\ f[a].at = r =>
               /\ f[a].pc = "waiting" => h.from = a /\ h.pc \in {"received", "admitted", "serve", "ok"}
               /\ f[a].pc = "ok" => h.from = a /\ h.pc = "ok"
    PROVE  CalmPull(c, e, s, [f EXCEPT ![r] = h])
<1>1. PICK g : g = [f EXCEPT ![r] = h]
  OBVIOUS
<1>2. \A q \in Relay : g[q] = IF q = r THEN h ELSE f[q]
  BY <1>1
<1>3. s.pc = "dialing" => s.at \in Relay
  BY DEF HopsOK
<1>4. ASSUME s.pc = "dialing", s.at # r PROVE FirstOK(c, e, s.at, g)
  <2>1. PICK a \in Relay : a = s.at
    BY <1>3, <1>4
  <2>2. FirstOK(c, e, a, f) /\ g[a] = f[a] /\ HopOK(e, a, f)
    BY <1>2, <1>4, <2>1 DEF CalmPull, HopsOK
  <2>3. f[a].pc = "waiting" => f[a].at \in Relay
    BY <2>2 DEF HopOK
  <2>4. CASE f[a].at = r
    BY <1>2, <1>4, <2>1, <2>2, <2>3, <2>4 DEF FirstOK
  <2>5. CASE f[a].at # r
    BY <1>2, <1>4, <2>1, <2>2, <2>3, <2>5 DEF FirstOK
  <2> QED
    BY <2>1, <2>4, <2>5
<1> QED
  BY <1>1, <1>4 DEF CalmPull

\* A step of the handler of a pull at a relay.
LEMMA RelayStep ==
    ASSUME RoutingInv, NEW p \in Pull, NEW r \in Relay, NEW h \in HandlerState,
           handler' = [handler EXCEPT ![p][r] = h],
           UNCHANGED <<ends, network, pull, cooling>>, calm' \subseteq calm,
           HopsOK(ends[p], pull[p], [handler[p] EXCEPT ![r] = h]),
           p \in calm' /\ PathIn(conf, ends[p]) =>
               CalmPull(conf, ends[p], pull[p], [handler[p] EXCEPT ![r] = h])
    PROVE  RoutingInv'
<1>1. PICK f : f = [handler[p] EXCEPT ![r] = h]
  OBVIOUS
<1>2. /\ f \in [Relay -> HandlerState] /\ pull[p] \in PullState
      /\ pull' = [pull EXCEPT ![p] = pull[p]]
      /\ cooling' \subseteq Route \X Relay /\ calm' \subseteq calm \cup {p}
  BY <1>1 DEF RoutingInv, TypesOK
<1>3. handler' = [handler EXCEPT ![p] = f]
  BY <1>1
<1>4. p \in calm' =>
          /\ Settled
          /\ PathIn(conf, ends[p]) =>
                 /\ \A q \in Relay : <<ends[p], q>> \notin cooling'
                 /\ CalmPull(conf, ends[p], pull[p], f)
  BY <1>1, PullFacts DEF CalmOK
<1>5. UNCHANGED <<ends, network>> /\ cooling' = cooling
  OBVIOUS
<1> QED
  BY <1>1, <1>2, <1>3, <1>4, <1>5, OnePull

\* What the invariant says of a handler at work, and of the two places it may have on
\* the way of an undisturbed pull.
LEMMA HandlerFacts ==
    ASSUME RoutingInv, NEW p \in Pull, NEW r \in Relay
    PROVE  /\ handler[p] \in [Relay -> HandlerState] /\ handler[p][r] \in HandlerState
           /\ handler[p][r].todo \subseteq Relay /\ r \in Node
           /\ HopsOK(ends[p], pull[p], handler[p]) /\ HopOK(ends[p], r, handler[p])
           /\ p \in calm /\ PathIn(conf, ends[p]) =>
                  /\ Settled
                  /\ CalmPull(conf, ends[p], pull[p], handler[p])
                  /\ pull[p].pc = "dialing" /\ pull[p].at = r =>
                         Good(conf, ends[p], r) /\ FirstOK(conf, ends[p], r, handler[p])
                  /\ \A a \in Relay :
                         a # r /\ pull[p].pc = "dialing" /\ pull[p].at = a /\ handler[p][a].at = r
                         => FirstOK(conf, ends[p], a, handler[p])
BY PullFacts, RelayFacts DEF CalmOK, CalmPull, HopsOK, HandlerState

\* A handler that goes on to pc, with nothing else changed but what it has to dial.
LEMMA SetHandlerStep ==
    ASSUME RoutingInv, NEW p \in Pull, NEW r \in Relay,
           NEW pc \in {"admitted", "serve", "reverse", "ok", "refused", "gone", "silent"},
           SetHandler(p, r, pc, {}), handler[p][r].pc # "none",
           UNCHANGED <<ends, network, pull, cooling>>, calm' \subseteq calm,
           p \in calm' /\ PathIn(conf, ends[p]) =>
               /\ pull[p].pc = "dialing" /\ pull[p].at = r =>
                      /\ pc \in {"admitted", "serve", "ok"}
                      /\ pc = "ok" => \/ handler[p][r].at \in {r, NoNode}
                                      \/ /\ handler[p][r].pc = "waiting"
                                         /\ handler[p][handler[p][r].at].pc = "ok"
               /\ \A a \in Relay :
                      a # r /\ pull[p].pc = "dialing" /\ pull[p].at = a /\ handler[p][a].at = r =>
                          /\ handler[p][a].pc = "waiting" => pc \in {"admitted", "serve", "ok"}
                          /\ handler[p][a].pc = "ok" => pc = "ok"
    PROVE  RoutingInv'
<1> DEFINE e == ends[p]
           f == handler[p]
           s == pull[p]
<1>1. PICK h : h = [f[r] EXCEPT !.pc = pc, !.todo = {}]
  OBVIOUS
<1>2. handler' = [handler EXCEPT ![p][r] = h]
  BY <1>1 DEF SetHandler
<1>3. f \in [Relay -> HandlerState] /\ f[r] \in HandlerState
  BY HandlerFacts
<1>4. /\ h \in HandlerState /\ h.pc = pc /\ h.todo = {}
      /\ h.from = f[r].from /\ h.at = f[r].at
  BY <1>1, <1>3 DEF HandlerState
<1>5. HopsOK(e, s, [f EXCEPT ![r] = h])
  <2>1. HopsOK(e, s, f)
    BY HandlerFacts
  <2> HIDE DEF e, f, s
  <2> QED
    BY <1>3, <1>4, <2>1, HopsUpdate DEF f
<1>6. ASSUME p \in calm', PathIn(conf, e)
      PROVE  CalmPull(conf, e, s, [f EXCEPT ![r] = h])
  <2>1. HopsOK(e, s, f) /\ CalmPull(conf, e, s, f) /\ HopOK(e, r, f)
    BY <1>6, HandlerFacts
  <2>2. s.pc = "dialing" /\ s.at = r => FirstOK(conf, e, r, [f EXCEPT ![r] = h])
    <3>1. SUFFICES ASSUME s.pc = "dialing", s.at = r
                   PROVE  FirstOK(conf, e, r, [f EXCEPT ![r] = h])
      OBVIOUS
    <3>2. FirstOK(conf, e, r, f)
      BY <1>6, <3>1, HandlerFacts
    <3>3. PICK g : g = [f EXCEPT ![r] = h]
      OBVIOUS
    <3>4. \A q \in Relay : g[q] = IF q = r THEN h ELSE f[q]
      BY <1>3, <3>3
    <3>5. /\ pc \in {"admitted", "serve", "ok"}
          /\ pc = "ok" => \/ f[r].at \in {r, NoNode}
                          \/ f[r].pc = "waiting" /\ f[f[r].at].pc = "ok"
      BY <1>6, <3>1
    <3> HIDE DEF e, f, s
    <3>6. FirstOK(conf, e, r, g)
      BY <1>4, <2>1, <3>2, <3>4, <3>5, RelayFacts DEF FirstOK, HopOK
    <3> QED
      BY <3>3, <3>6
  <2>3. ASSUME NEW a \in Relay, a # r, s.pc = "dialing", s.at = a, f[a].at = r
        PROVE  /\ f[a].pc = "waiting" =>
                      h.from = a /\ h.pc \in {"received", "admitted", "serve", "ok"}
               /\ f[a].pc = "ok" => h.from = a /\ h.pc = "ok"
    <3>1. FirstOK(conf, e, a, f)
      BY <1>6, <2>3, HandlerFacts
    <3>2. /\ f[a].pc = "waiting" => pc \in {"admitted", "serve", "ok"}
          /\ f[a].pc = "ok" => pc = "ok"
      BY <1>6, <2>3
    <3> HIDE DEF e, f, s
    <3> QED
      BY <1>4, <2>3, <3>1, <3>2 DEF FirstOK
  <2> HIDE DEF e, f, s
  <2> QED
    BY <1>3, <1>4, <2>1, <2>2, <2>3, CalmUpdate
<1> QED
  BY <1>2, <1>4, <1>5, <1>6, RelayStep

\* In a settled network a relay accepts another relay, and a source that may dial it.
LEMMA SettledAccepts ==
    ASSUME NetworkOK, Settled, NEW r \in Relay, NEW n \in Node, n # r,
           RoleOf[n] = "subnode" => conf[n].seg = conf[r].seg /\ conf[n].up = r
    PROVE  /\ Verify(r, n) /\ AcceptsSourceRoute(r, n)
           /\ RoleOf[n] = "subnode" => IsAuthorizedSubnodeRelay(r, n)
<1>1. r \in Node
  BY RelayFacts
<1> QED
  BY <1>1, SettledView DEF Verify, AcceptsSourceRoute, IsAuthorizedSubnodeRelay

\* The relay an undisturbed source dials accepts it.
LEMMA GoodAccepts ==
    ASSUME NetworkOK, Settled, NEW e \in Route, PathIn(conf, e), NEW r \in Relay, Good(conf, e, r)
    PROVE  /\ Verify(r, e[1]) /\ AcceptsSourceRoute(r, e[1])
           /\ FromSubnode(e) => IsAuthorizedSubnodeRelay(r, e[1])
<1>1. e[1] \in Node /\ e[1] # r
  BY EndsFacts, RelayFacts DEF Good, FromSubnode, Local
<1>2. RoleOf[e[1]] = "subnode" => conf[e[1]].seg = conf[r].seg /\ conf[e[1]].up = r
  BY DEF Good, PathIn, FromSubnode
<1> QED
  BY <1>1, <1>2, SettledAccepts DEF FromSubnode

\* Admit.
LEMMA AdmitStep ==
    ASSUME RoutingInv, NEW p \in Pull, NEW r \in Relay, Admit(p, r)
    PROVE  RoutingInv'
<1> DEFINE n == handler[p][r].from
           accepted == Verify(r, n) /\ AcceptsSourceRoute(r, n)
<1>1. /\ handler[p][r].pc = "received"
      /\ UNCHANGED <<ends, network, pull, cooling, calm>>
      /\ accepted => SetHandler(p, r, "admitted", {})
      /\ ~accepted => SetHandler(p, r, "refused", {})
  BY DEF Admit
<1>2. ends[p] \in Route /\ NetworkOK
  BY PullFacts
<1>3. p \in calm /\ PathIn(conf, ends[p]) /\ pull[p].pc = "dialing" /\ pull[p].at = r => accepted
  BY <1>2, HandlerFacts, GoodAccepts DEF FirstOK
<1>4. \A a \in Relay :
          /\ p \in calm /\ PathIn(conf, ends[p]) /\ a # r
          /\ pull[p].pc = "dialing" /\ pull[p].at = a /\ handler[p][a].at = r
          => /\ handler[p][a].pc = "waiting" => accepted
             /\ handler[p][a].pc # "ok"
  <2> SUFFICES ASSUME NEW a \in Relay, p \in calm, PathIn(conf, ends[p]), a # r,
                      pull[p].pc = "dialing", pull[p].at = a, handler[p][a].at = r
               PROVE  /\ handler[p][a].pc = "waiting" => accepted
                      /\ handler[p][a].pc # "ok"
    OBVIOUS
  <2>1. FirstOK(conf, ends[p], a, handler[p]) /\ Settled
    BY HandlerFacts
  <2>2. handler[p][a].pc # "ok"
    BY <1>1, <2>1 DEF FirstOK
  <2>3. handler[p][a].pc = "waiting" => n = a
    BY <2>1 DEF FirstOK
  <2>4. a \in Node /\ RoleOf[a] # "subnode"
    BY RelayFacts
  <2> QED
    BY <1>2, <2>1, <2>2, <2>3, <2>4, SettledAccepts
<1> HIDE DEF n, accepted
<1>5. CASE accepted
  BY <1>1, <1>4, <1>5, SetHandlerStep
<1>6. CASE ~accepted
  BY <1>1, <1>3, <1>4, <1>6, SetHandlerStep
<1> QED
  BY <1>5, <1>6

\* RouteAtRelay: in a settled network a relay of the target's segment serves the pull,
\* and one that does not was dialled by its own subnode and knows relays that do.
LEMMA RouteAtRelayStep ==
    ASSUME RoutingInv, NEW p \in Pull, NEW r \in Relay, RouteAtRelay(p, r)
    PROVE  RoutingInv'
<1> DEFINE e == ends[p]
           f == handler[p]
           s == pull[p]
           t == e[2]
           c == RouteRelayCandidates(r, t)
           local == View(r, t).seg = conf[r].seg
           onWay == p \in calm /\ PathIn(conf, e) /\ s.pc = "dialing"
<1>1. f[r].pc = "admitted" /\ UNCHANGED <<ends, network, pull, cooling, calm>>
  BY DEF RouteAtRelay
<1>2. e \in Route /\ NetworkOK /\ t \in Node /\ r \in Node /\ e[1] \in Node
  BY PullFacts, RelayFacts
<1>3. onWay => /\ Settled /\ ResolveRoute(r, t)
               /\ View(r, t).seg = conf[t].seg
               /\ View(r, t).lan = (conf[r].seg = conf[t].seg)
  BY <1>2, HandlerFacts, SettledView DEF ResolveRoute, PathIn
<1>4. onWay /\ s.at = r =>
          /\ Good(conf, e, r) /\ FirstOK(conf, e, r, f)
          /\ conf[r].seg # conf[t].seg => FromSubnode(e)
  BY HandlerFacts DEF Good, Local
<1>5. ASSUME NEW a \in Relay, a # r, onWay, s.at = a, f[a].at = r
      PROVE  /\ f[a].pc # "ok"
             /\ f[a].pc = "waiting" => conf[r].seg = conf[t].seg
  BY <1>1, <1>5, HandlerFacts DEF FirstOK, Local
<1>6. CASE ~ResolveRoute(r, t)
  <2>1. SetHandler(p, r, "refused", {}) /\ ~onWay
    BY <1>3, <1>6 DEF RouteAtRelay, TargetOf
  <2> QED
    BY <1>1, <2>1, SetHandlerStep
<1>7. CASE ResolveRoute(r, t) /\ local
  <2>1. CASE View(r, t).lan
    <3>1. SetHandler(p, r, "serve", {})
      BY <1>7, <2>1 DEF RouteAtRelay, TargetOf
    <3> HIDE DEF e, f, s, t, c, local
    <3> QED
      BY <1>1, <1>5, <3>1, SetHandlerStep DEF onWay, e, f, s
  <2>2. CASE ~View(r, t).lan
    <3>1. SetHandler(p, r, "reverse", {})
      BY <1>7, <2>2 DEF RouteAtRelay, TargetOf
    <3>2. ~onWay
      BY <1>3, <1>7, <2>2
    <3> QED
      BY <1>1, <3>1, <3>2, SetHandlerStep
  <2> QED
    BY <2>1, <2>2
<1>8. CASE ResolveRoute(r, t) /\ ~local
  <2>1. PICK lan : lan = View(r, t).lan
    OBVIOUS
  <2>2. PICK h : h = [f[r] EXCEPT !.pc = "foreign", !.todo = c, !.lan = lan]
    OBVIOUS
  <2>3. handler' = [handler EXCEPT ![p][r] = h]
    BY <1>8, <2>1, <2>2 DEF RouteAtRelay, TargetOf
  <2>4. r # t /\ c \subseteq Relay /\ r \notin c
    <3>1. r # t
      BY <1>8 DEF View
    <3> QED
      BY <1>2, <3>1, CandidatesFacts
  <2>5. lan \in BOOLEAN
    <3>1. View(r, t) \in Entry \/ View(r, t) = Unknown
      <4>1. /\ registered[t].seg \in Segment /\ registered[t].up \in Relay \cup {NoNode}
        BY <1>2 DEF NetworkOK, Placement
      <4>2. NodeForDiscovery(r, t) \in Entry
        BY <4>1 DEF NodeForDiscovery, Entry
      <4> QED
        BY <1>2, <2>4, <4>2 DEF View, NetworkOK
    <3> QED
      BY <1>8, <2>1, <3>1 DEF ResolveRoute, Discovered, Entry
  <2>6. f \in [Relay -> HandlerState] /\ f[r] \in HandlerState /\ HopsOK(e, s, f) /\ HopOK(e, r, f)
    BY HandlerFacts
  <2>7. /\ h \in HandlerState /\ h.pc = "foreign" /\ h.todo = c
        /\ h.from = f[r].from /\ h.at = f[r].at
    BY <2>2, <2>4, <2>5, <2>6 DEF HandlerState
  <2>8. HopsOK(e, s, [f EXCEPT ![r] = h])
    <3> HIDE DEF e, f, s, t, c
    <3> QED
      BY <1>1, <2>4, <2>6, <2>7, HopsUpdate
  <2>9. ASSUME p \in calm, PathIn(conf, e)
        PROVE  CalmPull(conf, e, s, [f EXCEPT ![r] = h])
    <3>1. CalmPull(conf, e, s, f)
      BY <2>9, HandlerFacts
    <3>2. s.pc = "dialing" => conf[r].seg # conf[t].seg
      BY <1>3, <1>8, <2>9
    <3>3. s.pc = "dialing" /\ s.at = r => FirstOK(conf, e, r, [f EXCEPT ![r] = h])
      <4>1. SUFFICES ASSUME s.pc = "dialing", s.at = r
                     PROVE  FirstOK(conf, e, r, [f EXCEPT ![r] = h])
        OBVIOUS
      <4>2. FirstOK(conf, e, r, f) /\ FromSubnode(e)
        BY <1>4, <2>9, <3>2, <4>1
      <4>3. \E q \in Relay : Local(conf, e, q)
        BY <2>9, <4>2 DEF PathIn
      <4>4. c # {} /\ \A q \in c : Local(conf, e, q)
        <5>1. RoleOf[e[2]] # "subnode" /\ Settled
          BY <1>3, <2>9, <4>1 DEF PathIn
        <5> QED
          BY <1>2, <3>2, <4>1, <4>3, <5>1, SettledCandidates
      <4>5. PICK g : g = [f EXCEPT ![r] = h]
        OBVIOUS
      <4>6. g[r] = h
        BY <2>6, <4>5
      <4> HIDE DEF e, f, s, t, c
      <4>7. FirstOK(conf, e, r, g)
        BY <2>7, <4>2, <4>4, <4>6 DEF FirstOK
      <4> QED
        BY <4>5, <4>7
    <3>4. ASSUME NEW a \in Relay, a # r, s.pc = "dialing", s.at = a, f[a].at = r
          PROVE  f[a].pc # "waiting" /\ f[a].pc # "ok"
      BY <1>5, <2>9, <3>2, <3>4
    <3> HIDE DEF e, f, s, t, c
    <3> QED
      BY <2>6, <2>7, <3>1, <3>3, <3>4, CalmUpdate
  <2> QED
    BY <1>1, <2>3, <2>7, <2>8, <2>9, RelayStep
<1> QED
  BY <1>6, <1>7, <1>8

\* Authorize: the relay an undisturbed subnode dialled is its own.
LEMMA AuthorizeStep ==
    ASSUME RoutingInv, NEW p \in Pull, NEW r \in Relay, Authorize(p, r)
    PROVE  RoutingInv'
<1> DEFINE e == ends[p]
           f == handler[p]
           s == pull[p]
<1>1. f[r].pc = "foreign" /\ UNCHANGED <<ends, network, pull, cooling, calm>>
  BY DEF Authorize
<1>2. ASSUME NEW a \in Relay, a # r, p \in calm, PathIn(conf, e), s.pc = "dialing", s.at = a,
             f[a].at = r
      PROVE  f[a].pc # "waiting" /\ f[a].pc # "ok"
  BY <1>1, <1>2, HandlerFacts DEF FirstOK
<1>3. CASE ~IsAuthorizedSubnodeRelay(r, f[r].from)
  <2>1. SetHandler(p, r, "refused", {})
    BY <1>3 DEF Authorize
  <2>2. ~(p \in calm /\ PathIn(conf, e) /\ s.pc = "dialing" /\ s.at = r)
    BY <1>1, <1>3, PullFacts, HandlerFacts, GoodAccepts DEF FirstOK
  <2> HIDE DEF e, f, s
  <2> QED
    BY <1>1, <1>2, <2>1, <2>2, SetHandlerStep DEF e, f, s
<1>4. CASE IsAuthorizedSubnodeRelay(r, f[r].from)
  <2>1. PICK h : h = [f[r] EXCEPT !.pc = "forward", !.todo = f[r].todo]
    OBVIOUS
  <2>2. handler' = [handler EXCEPT ![p][r] = h]
    BY <1>4, <2>1 DEF Authorize, SetHandler
  <2>3. f \in [Relay -> HandlerState] /\ f[r] \in HandlerState /\ HopsOK(e, s, f) /\ HopOK(e, r, f)
    BY HandlerFacts
  <2>4. /\ h \in HandlerState /\ h.pc = "forward" /\ h.todo = f[r].todo
        /\ h.from = f[r].from /\ h.at = f[r].at
    BY <2>1, <2>3 DEF HandlerState
  <2>5. FromSubnode(e) /\ f[r].from = e[1]
    BY <1>1, <1>4, <2>3, RelayFacts DEF IsAuthorizedSubnodeRelay, HopOK, FromSubnode
  <2>6. HopsOK(e, s, [f EXCEPT ![r] = h])
    <3>1. r \notin h.todo
      BY <1>1, <2>3, <2>4 DEF HopOK
    <3> HIDE DEF e, f, s
    <3> QED
      BY <1>1, <2>3, <2>4, <2>5, <3>1, HopsUpdate
  <2>7. ASSUME p \in calm, PathIn(conf, e)
        PROVE  CalmPull(conf, e, s, [f EXCEPT ![r] = h])
    <3>1. CalmPull(conf, e, s, f)
      BY <2>7, HandlerFacts
    <3>2. s.pc = "dialing" /\ s.at = r => FirstOK(conf, e, r, f)
      BY <2>7, HandlerFacts
    <3>3. s.pc = "dialing" /\ s.at = r => FirstOK(conf, e, r, [f EXCEPT ![r] = h])
      <4>1. PICK g : g = [f EXCEPT ![r] = h]
        OBVIOUS
      <4>2. g[r] = h
        BY <2>3, <4>1
      <4> HIDE DEF e, f, s
      <4> QED
        BY <1>1, <2>4, <3>2, <4>1, <4>2 DEF FirstOK
    <3> HIDE DEF e, f, s
    <3> QED
      BY <1>2, <2>3, <2>4, <2>7, <3>1, <3>3, CalmUpdate
  <2> QED
    BY <1>1, <2>2, <2>4, <2>6, <2>7, RelayStep
<1> QED
  BY <1>3, <1>4

\* Forward: the next relay is another one, and no relay is at work for it already,
\* because the subnode dialled only this one.
LEMMA ForwardStep ==
    ASSUME RoutingInv, NEW p \in Pull, NEW r \in Relay, Forward(p, r)
    PROVE  RoutingInv'
<1> DEFINE e == ends[p]
           f == handler[p]
           s == pull[p]
<1>1. PICK q : q = First(f[r].todo)
  OBVIOUS
<1>2. PICK h : h = [f[r] EXCEPT !.pc = "waiting", !.at = q, !.todo = f[r].todo \ {q}]
  OBVIOUS
<1>3. PICK n : n = NewHandler(r)
  OBVIOUS
<1>4. /\ f[r].pc = "forward" /\ f[r].todo # {} /\ UNCHANGED <<ends, network, pull, cooling, calm>>
      /\ handler' = [handler EXCEPT ![p][r] = h, ![p][q] = n]
  BY <1>1, <1>2, <1>3 DEF Forward
<1>5. f \in [Relay -> HandlerState] /\ f[r] \in HandlerState /\ HopsOK(e, s, f) /\ HopOK(e, r, f)
  BY HandlerFacts
<1>6. q \in f[r].todo /\ q \in Relay /\ q # r /\ FromSubnode(e) /\ f[r].from = e[1]
  BY <1>1, <1>4, <1>5, HandlerFacts, FirstIn DEF HopOK
<1>7. /\ h \in HandlerState /\ h.pc = "waiting" /\ h.at = q
      /\ h.todo = f[r].todo \ {q} /\ h.from = f[r].from
  BY <1>2, <1>5, <1>6 DEF HandlerState
<1>8. n \in HandlerState /\ n.pc = "received" /\ n.from = r /\ n.at = NoNode
  BY <1>3, RelayFacts, NewHandlerFacts
<1>9. PICK g : g = [f EXCEPT ![r] = h, ![q] = n]
  OBVIOUS
<1>10. /\ g \in [Relay -> HandlerState] /\ g[r] = h /\ g[q] = n
       /\ \A x \in Relay : x # r /\ x # q => g[x] = f[x]
  BY <1>5, <1>6, <1>7, <1>8, <1>9
<1>11. handler' = [handler EXCEPT ![p] = g]
  BY <1>4, <1>9
<1>12. HopsOK(e, s, g)
  <2> HIDE DEF e, f, s
  <2>1. r # e[1]
    BY <1>6, RelayFacts DEF FromSubnode
  <2>2. \A x \in Relay : f[x].pc # "none" /\ f[x].from = e[1] => x = r
    BY <1>4, <1>5, <1>6 DEF HopsOK, OneEntry
  <2>3. \A x \in Relay : HopOK(e, x, g)
    <3> TAKE x \in Relay
    <3>1. CASE x = r
      BY <1>4, <1>5, <1>6, <1>7, <1>10, <3>1 DEF HopOK
    <3>2. CASE x = q
      BY <1>6, <1>7, <1>8, <1>10, <3>2, RelayFacts DEF HopOK
    <3>3. CASE x # r /\ x # q
      <4>1. HopOK(e, x, f) /\ g[x] = f[x]
        BY <1>5, <1>10, <3>3 DEF HopsOK
      <4>2. f[x].pc # "none" => f[x].from = r
        BY <2>2, <3>3, <4>1 DEF HopOK
      <4> QED
        BY <1>6, <1>7, <1>10, <3>3, <4>1, <4>2 DEF HopOK
    <3> QED
      BY <3>1, <3>2, <3>3
  <2>4. \A x \in Relay : g[x].pc # "none" /\ g[x].from = e[1] => x = r
    BY <1>8, <1>10, <2>1, <2>2
  <2>5. OneEntry(e, g)
    BY <2>4 DEF OneEntry
  <2>6. Undialled(e, s, g)
    BY <1>4, <1>5 DEF HopsOK, Undialled
  <2> QED
    BY <1>5, <2>3, <2>5, <2>6 DEF HopsOK
<1>13. p \in calm =>
           /\ Settled
           /\ PathIn(conf, e) =>
                  /\ \A x \in Relay : <<e, x>> \notin cooling
                  /\ CalmPull(conf, e, s, g)
  <2>1. SUFFICES ASSUME p \in calm, PathIn(conf, e) PROVE CalmPull(conf, e, s, g)
    BY PullFacts DEF CalmOK
  <2>2. CalmPull(conf, e, s, f)
    BY <2>1, HandlerFacts
  <2>3. ASSUME s.pc = "dialing" PROVE s.at = r
    <3>1. s.at \in Relay /\ FirstOK(conf, e, s.at, f)
      BY <1>5, <2>2, <2>3 DEF HopsOK, CalmPull
    <3>2. f[s.at].pc # "none" /\ f[s.at].from = e[1]
      BY <3>1 DEF FirstOK
    <3> HIDE DEF e, f, s
    <3> QED
      BY <1>4, <1>5, <1>6, <3>1, <3>2 DEF HopsOK, OneEntry
  <2> HIDE DEF e, f, s
  <2>4. ASSUME s.pc = "dialing" PROVE FirstOK(conf, e, r, g)
    <3>1. FirstOK(conf, e, r, f)
      BY <2>2, <2>3, <2>4 DEF CalmPull
    <3> QED
      BY <1>4, <1>6, <1>7, <1>8, <1>10, <3>1 DEF FirstOK
  <2> QED
    BY <2>2, <2>3, <2>4 DEF CalmPull
<1>14. /\ cooling' = cooling /\ cooling \subseteq Route \X Relay /\ calm' = calm
       /\ s \in PullState /\ pull' = [pull EXCEPT ![p] = s]
  BY <1>4 DEF RoutingInv, TypesOK
<1> QED
  BY <1>4, <1>10, <1>11, <1>12, <1>13, <1>14, OnePull

\* ForwardAnswersOK: the relay it is bridged with has a way to the service.
LEMMA ForwardAnswersOKStep ==
    ASSUME RoutingInv, NEW p \in Pull, NEW r \in Relay, ForwardAnswersOK(p, r)
    PROVE  RoutingInv'
<1>1. /\ handler[p][r].pc = "waiting" /\ handler[p][handler[p][r].at].pc = "ok"
      /\ SetHandler(p, r, "ok", {}) /\ UNCHANGED <<ends, network, pull, cooling, calm>>
  BY DEF ForwardAnswersOK
<1> QED
  BY <1>1, SetHandlerStep

\* ForwardFails: the relay it waits for is at work for an undisturbed pull, so that
\* only silence is left, which is a disturbance.
LEMMA ForwardFailsStep ==
    ASSUME RoutingInv, NEW p \in Pull, NEW r \in Relay, ForwardFails(p, r)
    PROVE  RoutingInv'
<1> DEFINE e == ends[p]
           f == handler[p]
           s == pull[p]
           answered == f[f[r].at].pc \in {"refused", "gone"}
<1>1. PICK h : h = [f[r] EXCEPT !.pc = "forward", !.at = NoNode]
  OBVIOUS
<1>2. /\ f[r].pc = "waiting" /\ handler' = [handler EXCEPT ![p][r] = h]
      /\ calm' = IF answered THEN calm ELSE {}
      /\ UNCHANGED <<ends, network, pull, cooling>>
  BY <1>1 DEF ForwardFails
<1>3. f \in [Relay -> HandlerState] /\ f[r] \in HandlerState /\ HopsOK(e, s, f) /\ HopOK(e, r, f)
  BY HandlerFacts
<1>4. /\ h \in HandlerState /\ h.pc = "forward" /\ h.at = NoNode
      /\ h.todo = f[r].todo /\ h.from = f[r].from
  BY <1>1, <1>3 DEF HandlerState
<1>5. HopsOK(e, s, [f EXCEPT ![r] = h])
  <2>1. r \notin h.todo /\ FromSubnode(e) /\ h.from = e[1]
    BY <1>2, <1>3, <1>4 DEF HopOK
  <2> HIDE DEF e, f, s
  <2> QED
    BY <1>2, <1>3, <1>4, <2>1, HopsUpdate
<1>6. ASSUME p \in calm', PathIn(conf, e)
      PROVE  CalmPull(conf, e, s, [f EXCEPT ![r] = h])
  <2>1. p \in calm /\ answered
    BY <1>2, <1>6
  <2>2. CalmPull(conf, e, s, f)
    BY <1>6, <2>1, HandlerFacts
  <2>3. ~(s.pc = "dialing" /\ s.at = r)
    BY <1>2, <1>6, <2>1, HandlerFacts DEF FirstOK
  <2>4. ASSUME NEW a \in Relay, a # r, s.pc = "dialing", s.at = a, f[a].at = r
        PROVE  f[a].pc # "waiting" /\ f[a].pc # "ok"
    BY <1>2, <1>6, <2>1, <2>4, HandlerFacts DEF FirstOK
  <2> HIDE DEF e, f, s
  <2> QED
    BY <1>3, <1>4, <2>2, <2>3, <2>4, CalmUpdate
<1> QED
  BY <1>2, <1>4, <1>5, <1>6, RelayStep

\* Exhausted: an undisturbed pull has a relay left to try.
LEMMA ExhaustedStep ==
    ASSUME RoutingInv, NEW p \in Pull, NEW r \in Relay, Exhausted(p, r)
    PROVE  RoutingInv'
<1>1. /\ handler[p][r].pc = "forward" /\ handler[p][r].todo = {}
      /\ UNCHANGED <<ends, network, pull, cooling, calm>>
      /\ SetHandler(p, r, "serve", {}) \/ SetHandler(p, r, "reverse", {})
  BY DEF Exhausted
<1>2. ~(p \in calm /\ PathIn(conf, ends[p]) /\ pull[p].pc = "dialing" /\ pull[p].at = r)
  BY <1>1, HandlerFacts DEF FirstOK
<1>3. \A a \in Relay :
          /\ p \in calm /\ PathIn(conf, ends[p]) /\ a # r
          /\ pull[p].pc = "dialing" /\ pull[p].at = a /\ handler[p][a].at = r
          => handler[p][a].pc # "waiting" /\ handler[p][a].pc # "ok"
  BY <1>1, HandlerFacts DEF FirstOK
<1> QED
  BY <1>1, <1>2, <1>3, SetHandlerStep

\* Serve: the service answers, or that is a disturbance.
LEMMA ServeStep ==
    ASSUME RoutingInv, NEW p \in Pull, NEW r \in Relay, Serve(p, r)
    PROVE  RoutingInv'
<1> DEFINE e == ends[p]
           f == handler[p]
           s == pull[p]
<1>1. f[r].pc = "serve" /\ UNCHANGED <<ends, network, pull, cooling>>
  BY DEF Serve
<1>2. PICK ok \in BOOLEAN :
          /\ handler' = [handler EXCEPT ![p][r] =
                 IF ok THEN [f[r] EXCEPT !.pc = "ok", !.at = r]
                       ELSE [f[r] EXCEPT !.pc = "reverse"]]
          /\ CalmAfter(TRUE, ok)
  <2>1. Dials(TRUE) \subseteq BOOLEAN
    BY Zenon DEF Dials
  <2> QED
    BY <2>1 DEF Serve
<1>3. PICK h : h = IF ok THEN [f[r] EXCEPT !.pc = "ok", !.at = r]
                         ELSE [f[r] EXCEPT !.pc = "reverse"]
  OBVIOUS
<1>4. handler' = [handler EXCEPT ![p][r] = h]
  BY <1>2, <1>3
<1>5. f \in [Relay -> HandlerState] /\ f[r] \in HandlerState /\ HopsOK(e, s, f) /\ HopOK(e, r, f)
  BY HandlerFacts
<1>6. /\ h \in HandlerState /\ h.from = f[r].from
      /\ ok => h.pc = "ok" /\ h.at = r
      /\ ~ok => h.pc = "reverse" /\ h.at = f[r].at
  BY <1>3, <1>5 DEF HandlerState
<1>7. HopsOK(e, s, [f EXCEPT ![r] = h])
  <2> HIDE DEF e, f, s
  <2> QED
    BY <1>1, <1>5, <1>6, HopsUpdate
<1>8. calm' \subseteq calm /\ (p \in calm' => ok)
  BY <1>2, Zenon DEF CalmAfter
<1>9. ASSUME p \in calm', PathIn(conf, e)
      PROVE  CalmPull(conf, e, s, [f EXCEPT ![r] = h])
  <2>1. p \in calm /\ h.pc = "ok" /\ h.at = r
    BY <1>6, <1>8, <1>9
  <2>2. CalmPull(conf, e, s, f)
    BY <1>9, <2>1, HandlerFacts
  <2>3. s.pc = "dialing" /\ s.at = r => FirstOK(conf, e, r, f)
    BY <1>9, <2>1, HandlerFacts
  <2>4. s.pc = "dialing" /\ s.at = r => FirstOK(conf, e, r, [f EXCEPT ![r] = h])
    <3>1. PICK g : g = [f EXCEPT ![r] = h]
      OBVIOUS
    <3>2. g[r] = h
      BY <1>5, <3>1
    <3> HIDE DEF e, f, s
    <3> QED
      BY <1>6, <2>1, <2>3, <3>1, <3>2 DEF FirstOK
  <2>5. ASSUME NEW a \in Relay, a # r, s.pc = "dialing", s.at = a, f[a].at = r
        PROVE  f[a].pc \in {"waiting", "ok"} => h.from = a
    BY <1>6, <1>9, <2>1, <2>5, HandlerFacts DEF FirstOK
  <2> HIDE DEF e, f, s
  <2> QED
    BY <1>5, <1>6, <2>1, <2>2, <2>4, <2>5, CalmUpdate
<1> QED
  BY <1>1, <1>4, <1>6, <1>7, <1>8, <1>9, RelayStep

\* DialReverseService: an undisturbed pull does not get this far.
LEMMA DialReverseServiceStep ==
    ASSUME RoutingInv, NEW p \in Pull, NEW r \in Relay, DialReverseService(p, r)
    PROVE  RoutingInv'
<1>1. handler[p][r].pc = "reverse" /\ UNCHANGED <<ends, network, pull, cooling>>
  BY DEF DialReverseService
<1>2. calm' \subseteq calm
  BY Zenon DEF DialReverseService, CalmAfter
<1>3. SetHandler(p, r, "ok", {}) \/ SetHandler(p, r, "refused", {})
  BY Zenon DEF DialReverseService
<1>4. ~(p \in calm /\ PathIn(conf, ends[p]) /\ pull[p].pc = "dialing" /\ pull[p].at = r)
  BY <1>1, HandlerFacts DEF FirstOK
<1>5. \A a \in Relay :
          /\ p \in calm /\ PathIn(conf, ends[p]) /\ a # r
          /\ pull[p].pc = "dialing" /\ pull[p].at = a /\ handler[p][a].at = r
          => handler[p][a].pc # "waiting" /\ handler[p][a].pc # "ok"
  BY <1>1, HandlerFacts DEF FirstOK
<1> QED
  BY <1>1, <1>2, <1>3, <1>4, <1>5, SetHandlerStep

\* BridgeEnds: the bridges on the way of an undisturbed pull have both their ends.
LEMMA BridgeEndsStep ==
    ASSUME RoutingInv, NEW p \in Pull, NEW r \in Relay, BridgeEnds(p, r)
    PROVE  RoutingInv'
<1> DEFINE e == ends[p]
           f == handler[p]
           s == pull[p]
<1>1. /\ f[r].pc = "ok"
      /\ ~Attended(p, r) \/ Severed(p, r)
      /\ SetHandler(p, r, "gone", {}) /\ UNCHANGED <<ends, network, pull, cooling, calm>>
  BY DEF BridgeEnds
<1>2. ~(p \in calm /\ PathIn(conf, e) /\ s.pc = "dialing" /\ s.at = r)
  <2>1. SUFFICES ASSUME p \in calm, PathIn(conf, e), s.pc = "dialing", s.at = r PROVE FALSE
    OBVIOUS
  <2>2. FirstOK(conf, e, r, f)
    BY <2>1, HandlerFacts
  <2>3. Attended(p, r)
    BY <2>1, <2>2 DEF Attended, FirstOK, SourceOf
  <2>4. ~Severed(p, r)
    BY <1>1, <2>2 DEF Severed, FirstOK
  <2> QED
    BY <1>1, <2>3, <2>4
<1>3. ASSUME NEW a \in Relay, a # r, p \in calm, PathIn(conf, e), s.pc = "dialing", s.at = a,
             f[a].at = r
      PROVE  f[a].pc # "waiting" /\ f[a].pc # "ok"
  <2>1. SUFFICES ASSUME f[a].pc \in {"waiting", "ok"} PROVE FALSE
    OBVIOUS
  <2>2. FirstOK(conf, e, a, f) /\ HopOK(e, r, f) /\ HopOK(e, a, f)
    BY <1>3, HandlerFacts
  <2>3. f[r].from = a
    BY <1>3, <2>1, <2>2 DEF FirstOK
  <2>4. Attended(p, r)
    BY <1>3, <2>1, <2>3 DEF Attended
  <2>5. FromSubnode(e) /\ a # e[1]
    BY <1>3, <2>2, RelayFacts DEF HopOK, FromSubnode
  <2>6. ~Severed(p, r)
    BY <2>2, <2>3, <2>5 DEF Severed, HopOK
  <2> QED
    BY <1>1, <2>4, <2>6
<1> HIDE DEF e, f, s
<1> QED
  BY <1>1, <1>2, <1>3, SetHandlerStep DEF e, f, s

-----------------------------------------------------------------------------
(* The steps of the network *)

\* A change of the network is a disturbance: what is left to show are the types and
\* the relays of each pull.
LEMMA NetworkStep ==
    ASSUME TypesOK', calm' = {}, \A p \in Pull : HopsOK(ends[p], pull[p], handler[p])'
    PROVE  RoutingInv'
BY DEF RoutingInv

\* Configure: pulls of the node end, handlers of the node end, and keep their callers.
LEMMA ConfigureStep ==
    ASSUME RoutingInv, NEW n, NEW c, Configure(n, c)
    PROVE  RoutingInv'
<1>1. /\ <<n, c>> \in Move /\ calm' = {} /\ UNCHANGED <<ends, registered, knows>>
      /\ conf' = [conf EXCEPT ![n] = c]
      /\ cooling' \subseteq cooling
  BY DEF Configure
<1>2. n \in Node /\ c \in Placement(n)
  BY <1>1, RoutingAssumption
<1>3. NetworkOK'
  <2>1. NetworkOK
    BY DEF RoutingInv, TypesOK
  <2>2. DOMAIN conf' = Node /\ \A m \in Node : conf'[m] \in Placement(m)
    BY <1>1, <1>2, <2>1 DEF NetworkOK
  <2> QED
    BY <1>1, <2>1, <2>2 DEF NetworkOK
<1>4. PICK x : x = [pc |-> "closed", todo |-> {}, at |-> NoNode]
  OBVIOUS
<1>5. x \in PullState /\ x.pc = "closed"
  BY <1>4 DEF PullState
<1>6. pull' = [p \in Pull |-> IF SourceOf(p) = n /\ pull[p].pc # "idle" THEN x ELSE pull[p]]
  BY <1>4 DEF Configure
<1>7. pull' \in [Pull -> PullState]
  BY <1>5, <1>6, PullFacts
<1>8. \A p \in Pull, r \in Relay :
          handler'[p][r] = IF r = n /\ handler[p][r].pc \notin Finished
                             THEN [handler[p][r] EXCEPT !.pc = "gone"] ELSE handler[p][r]
  BY DEF Configure
<1>9. ASSUME NEW p \in Pull, NEW r \in Relay
      PROVE  /\ handler'[p][r] \in HandlerState
             /\ handler'[p][r].from = handler[p][r].from
             /\ handler'[p][r].at = handler[p][r].at
             /\ handler'[p][r].todo = handler[p][r].todo
             /\ \/ handler'[p][r].pc = handler[p][r].pc
                \/ handler'[p][r].pc = "gone" /\ handler[p][r].pc # "none"
  <2>1. handler[p][r] \in HandlerState
    BY HandlerFacts
  <2>2. PICK h : h = [handler[p][r] EXCEPT !.pc = "gone"]
    OBVIOUS
  <2>3. /\ h \in HandlerState /\ h.pc = "gone" /\ h.from = handler[p][r].from
        /\ h.at = handler[p][r].at /\ h.todo = handler[p][r].todo
    BY <2>1, <2>2 DEF HandlerState
  <2> QED
    BY <1>8, <2>1, <2>2, <2>3 DEF Finished
<1>10. handler' \in [Pull -> [Relay -> HandlerState]]
  <2>1. /\ DOMAIN handler' = Pull
        /\ handler' = [p \in Pull |-> [r \in Relay |-> handler'[p][r]]]
    BY DEF Configure
  <2> QED
    BY <1>9, <2>1
<1>11. ASSUME NEW p \in Pull PROVE HopsOK(ends[p], pull'[p], handler'[p])
  <2>1. HopsOK(ends[p], pull[p], handler[p])
    BY PullFacts
  <2>2. \A r \in Relay : HopOK(ends[p], r, handler'[p])
    <3> TAKE r \in Relay
    <3>1. HopOK(ends[p], r, handler[p])
      BY <2>1 DEF HopsOK
    <3> QED
      BY <1>9, <3>1 DEF HopOK
  <2>3. OneEntry(ends[p], handler'[p])
    BY <1>9, <2>1 DEF HopsOK, OneEntry
  <2>4. pull'[p] = pull[p] \/ pull'[p] = x
    BY <1>6
  <2>5. Undialled(ends[p], pull'[p], handler'[p]) /\ (pull'[p].pc = "dialing" => pull'[p].at \in Relay)
    BY <1>5, <1>9, <2>1, <2>4 DEF HopsOK, Undialled
  <2> QED
    BY <2>2, <2>3, <2>5 DEF HopsOK
<1>12. TypesOK'
  BY <1>1, <1>3, <1>7, <1>10 DEF RoutingInv, TypesOK
<1> QED
  BY <1>1, <1>11, <1>12, NetworkStep

\* Heartbeat.
LEMMA HeartbeatStep ==
    ASSUME RoutingInv, NEW n \in Node, Heartbeat(n)
    PROVE  RoutingInv'
<1>1. /\ registered' = [registered EXCEPT ![n] = conf[n]]
      /\ calm' = {} /\ UNCHANGED <<ends, conf, knows, pull, handler, cooling>>
  BY DEF Heartbeat
<1>2. NetworkOK'
  <2>1. NetworkOK
    BY DEF RoutingInv, TypesOK
  <2>2. DOMAIN registered' = Node /\ \A m \in Node : registered'[m] \in Placement(m)
    BY <1>1, <2>1 DEF NetworkOK
  <2> QED
    BY <1>1, <2>1, <2>2 DEF NetworkOK
<1>3. TypesOK'
  BY <1>1, <1>2 DEF RoutingInv, TypesOK
<1>4. \A p \in Pull : HopsOK(ends[p], pull[p], handler[p])'
  BY <1>1 DEF RoutingInv
<1> QED
  BY <1>1, <1>3, <1>4, NetworkStep

\* Sync: the coordinator's answer is an entry.
LEMMA SyncStep ==
    ASSUME RoutingInv, NEW n, NEW m, Sync(n, m)
    PROVE  RoutingInv'
<1>1. /\ <<n, m>> \in Unsure /\ calm' = {}
      /\ UNCHANGED <<ends, conf, registered, pull, handler, cooling>>
  BY DEF Sync
<1>2. PICK entry \in {NodeForDiscovery(n, m), Unknown} : knows' = [knows EXCEPT ![<<n, m>>] = entry]
  BY DEF Sync
<1>3. NetworkOK
  BY DEF RoutingInv, TypesOK
<1>4. NodeForDiscovery(n, m) \in Entry
  <2>1. m \in Node
    BY <1>1, RoutingAssumption
  <2>2. registered[m].seg \in Segment /\ registered[m].up \in Relay \cup {NoNode}
    BY <1>3, <2>1 DEF NetworkOK, Placement
  <2> QED
    BY <2>2 DEF NodeForDiscovery, Entry
<1>5. NetworkOK'
  <2>1. DOMAIN knows' = Unsure /\ \A pair \in Unsure : knows'[pair] \in Entry \cup {Unknown}
    BY <1>2, <1>3, <1>4 DEF NetworkOK
  <2> QED
    BY <1>1, <1>3, <2>1 DEF NetworkOK
<1>6. TypesOK'
  BY <1>1, <1>5 DEF RoutingInv, TypesOK
<1>7. \A p \in Pull : HopsOK(ends[p], pull[p], handler[p])'
  BY <1>1 DEF RoutingInv
<1> QED
  BY <1>1, <1>6, <1>7, NetworkStep

\* Cooled: one relay less that cools.
LEMMA CooledStep ==
    ASSUME RoutingInv, NEW mapping, NEW r, Cooled(mapping, r)
    PROVE  RoutingInv'
<1>1. /\ cooling' \subseteq cooling
      /\ ends' = ends /\ conf' = conf /\ registered' = registered /\ knows' = knows
      /\ pull' = pull /\ handler' = handler /\ calm' = calm
  BY DEF Cooled, network
<1>2. TypesOK'
  BY <1>1 DEF RoutingInv, TypesOK, NetworkOK
<1>3. Settled' = Settled
  BY <1>1 DEF Settled, NodeForDiscovery
<1>4. \A p \in calm' : CalmOK(p)'
  BY <1>1, <1>3 DEF RoutingInv, CalmOK
<1> QED
  BY <1>1, <1>2, <1>4 DEF RoutingInv

-----------------------------------------------------------------------------
(* The theorems *)

\* At first no pull is open, and every node is registered as it is set up.
LEMMA InitOK ==
    Init => RoutingInv
<1> SUFFICES ASSUME Init PROVE RoutingInv
  OBVIOUS
<1>1. /\ ends \in [Pull -> Route] /\ cooling = {} /\ calm = {} /\ registered = conf
      /\ conf = [n \in Node |-> SetUp(n)]
  BY DEF Init
<1>2. NetworkOK
  <2>1. \A n \in Node : SetUp(n) \in Placement(n)
    <3> TAKE n \in Node
    <3>1. SegmentOf[n] \in Segment
      BY DEF Segment
    <3>2. RoleOf[n] = "subnode" => Upstream[n] \in Relay
      BY RoutingAssumption, RelayFacts
    <3> QED
      BY <3>1, <3>2 DEF SetUp, Placement
  <2>2. \A n \in Node : conf[n] \in Placement(n) /\ registered[n] \in Placement(n)
    BY <1>1, <2>1
  <2>3. \A pair \in Unsure : NodeForDiscovery(pair[1], pair[2]) \in Entry
    <3> TAKE pair \in Unsure
    <3>1. pair[2] \in Node
      BY RoutingAssumption
    <3>2. registered[pair[2]].seg \in Segment /\ registered[pair[2]].up \in Relay \cup {NoNode}
      BY <2>2, <3>1 DEF Placement
    <3> QED
      BY <3>2 DEF NodeForDiscovery, Entry
  <2>4. DOMAIN knows = Unsure /\ \A pair \in Unsure : knows[pair] \in Entry
    BY <2>3 DEF Init
  <2> QED
    BY <1>1, <2>2, <2>4 DEF NetworkOK
<1>3. PICK x : x = [pc |-> "idle", todo |-> {}, at |-> NoNode]
  OBVIOUS
<1>4. PICK h : h = NoHandler
  OBVIOUS
<1>5. x \in PullState /\ x.pc = "idle"
  BY <1>3 DEF PullState
<1>6. h \in HandlerState /\ h.pc = "none" /\ h.at = NoNode
  BY <1>4 DEF NoHandler, HandlerState
<1>7. pull = [p \in Pull |-> x] /\ handler = [p \in Pull |-> [r \in Relay |-> h]]
  BY <1>3, <1>4 DEF Init
<1>8. TypesOK
  BY <1>1, <1>2, <1>5, <1>6, <1>7 DEF TypesOK
<1>9. \A p \in Pull : HopsOK(ends[p], pull[p], handler[p])
  BY <1>5, <1>6, <1>7, RelayFacts DEF HopsOK, HopOK, OneEntry, Undialled
<1> QED
  BY <1>1, <1>8, <1>9 DEF RoutingInv

\* Every step preserves the inductive invariant.
LEMMA NextOK ==
    RoutingInv /\ [Next]_vars => RoutingInv'
<1> SUFFICES ASSUME RoutingInv, [Next]_vars PROVE RoutingInv'
  OBVIOUS
<1>1. CASE UNCHANGED vars
  <2>1. /\ ends' = ends /\ conf' = conf /\ registered' = registered /\ knows' = knows
        /\ pull' = pull /\ handler' = handler /\ cooling' = cooling /\ calm' = calm
    BY <1>1 DEF vars, network
  <2> QED
    BY <2>1 DEF RoutingInv, TypesOK, NetworkOK, CalmOK, Settled, NodeForDiscovery
<1>2. ASSUME NEW move \in Move, Configure(move[1], move[2]) PROVE RoutingInv'
  BY <1>2, ConfigureStep
<1>3. ASSUME NEW n \in Node, Heartbeat(n) PROVE RoutingInv'
  BY <1>3, HeartbeatStep
<1>4. ASSUME NEW pair \in Unsure, Sync(pair[1], pair[2]) PROVE RoutingInv'
  BY <1>4, SyncStep
<1>5. ASSUME NEW mapping \in Route, NEW r \in Relay, Cooled(mapping, r) PROVE RoutingInv'
  BY <1>5, CooledStep
<1>6. ASSUME NEW p \in Pull, AtSource(p) \/ Accept(p) \/ Close(p) PROVE RoutingInv'
  <2>1. CASE DialGivesUp(p)
    <3>1. /\ pull[p].pc = "dialing" /\ DialFailed(p) /\ calm' = {}
          /\ UNCHANGED <<ends, network, handler>>
      BY <2>1 DEF DialGivesUp
    <3> QED
      BY <3>1, DialFailedStep
  <2> QED
    BY <1>6, <2>1, OpenStep, DialDirectStep, SkipCoolingStep, DialRelayStep, RelayAnswersOKStep,
       RelayRefusesStep, TryReverseStep, AcceptStep, CloseStep
    DEF AtSource
<1>7. ASSUME NEW p \in Pull, NEW r \in Relay, AtRelay(p, r) \/ FallsSilent(p, r)
      PROVE  RoutingInv'
  <2>1. CASE FallsSilent(p, r)
    <3>1. /\ SetHandler(p, r, "silent", {}) /\ handler[p][r].pc # "none" /\ calm' = {}
          /\ UNCHANGED <<ends, network, pull, cooling>>
      BY <2>1 DEF FallsSilent, Finished
    <3> QED
      BY <3>1, SetHandlerStep
  <2> QED
    BY <1>7, <2>1, AdmitStep, RouteAtRelayStep, AuthorizeStep, ForwardStep, ForwardAnswersOKStep,
       ForwardFailsStep, ExhaustedStep, ServeStep, DialReverseServiceStep, BridgeEndsStep
    DEF AtRelay
<1> QED
  BY <1>1, <1>2, <1>3, <1>4, <1>5, <1>6, <1>7 DEF Next

\* What every reachable state satisfies, whatever the caches hold, however the nodes
\* are moved and whichever dials fail.
THEOREM RoutingInvariant ==
    Spec => []RoutingInv
<1> QED
  BY InitOK, NextOK, PTL DEF Spec

\* No pull passes more than two relays or one relay twice, however old the entries
\* are that its source and the relays go by: a relay that handles a pull was dialled
\* by the source or by the one relay a subnode dialled (resolveRoute,
\* isAuthorizedSubnodeRelay).
THEOREM RoutingTypeCorrect ==
    Spec => []RoutingTypeOK
<1>1. RoutingInv => RoutingTypeOK
  <2> SUFFICES ASSUME RoutingInv PROVE RoutingTypeOK
    OBVIOUS
  <2>1. ASSUME NEW p \in Pull, NEW r \in Relay, handler[p][r].pc # "none"
        PROVE  LET h == handler[p][r] IN
               \/ h.from = SourceOf(p)
               \/ /\ RoleOf[SourceOf(p)] = "subnode"
                  /\ h.from \in Relay \ {r}
                  /\ handler[p][h.from].pc # "none"
                  /\ handler[p][h.from].from = SourceOf(p)
    BY <2>1, HandlerFacts DEF HopOK, SourceOf, FromSubnode
  <2> QED
    BY <2>1 DEF RoutingInv, TypesOK, NetworkOK, RoutingTypeOK
<1> QED
  BY <1>1, RoutingInvariant, PTL

\* In every layout, a pull that has a path, was opened when the network was up to date
\* and has met neither a change nor a failure since is not turned away: the route the
\* source resolves and what each relay decides for itself agree (smartPull.handle,
\* relayServer.handle).
THEOREM UndisturbedPullsGetThrough ==
    Spec => []UndisturbedPullsSucceed
<1>1. RoutingInv => UndisturbedPullsSucceed
  <2> SUFFICES ASSUME RoutingInv, NEW p \in calm, pull[p].pc = "failed", HasPath(p) PROVE FALSE
    BY DEF UndisturbedPullsSucceed
  <2>1. p \in Pull /\ CalmOK(p)
    BY DEF RoutingInv, TypesOK
  <2> QED
    BY <2>1, PathFacts DEF CalmOK, CalmPull
<1> QED
  BY <1>1, RoutingInvariant, PTL

=============================================================================
