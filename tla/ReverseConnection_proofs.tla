---------------------- MODULE ReverseConnection_proofs ----------------------
(* Proofs about ReverseConnection, for every set of attempts, in every     *)
(* environment: stale events, an operator who accepts, rejects and cancels,  *)
(* deletion of requests at the coordinator, and crashes of the publisher.  *)
EXTENDS ReverseConnection, TLAPS

-----------------------------------------------------------------------------
(* The calls to the coordinator *)

\* A request moves along the lifecycle: it becomes q from a phase that allows
\* it, and no other request moves.
LEMMA BecomeFacts ==
    ASSUME NEW r \in Attempt, NEW q,
           request \in [Attempt -> Coordinator!Phase],
           Coordinator!Become(r, q)
    PROVE  /\ request' = [request EXCEPT ![r] = q]
           /\ request' \in [Attempt -> Coordinator!Phase]
           /\ request[r] = "accepted" => q = "gone"
           /\ request[r] # "gone"
           /\ q # "new"
<1>1. Coordinator!Moves(request[r], q) /\ request' = [request EXCEPT ![r] = q]
  BY DEF Coordinator!Become
<1>2. q \in Coordinator!Phase
  BY <1>1 DEF Coordinator!Moves, Coordinator!Phase
<1>3. QED
  BY <1>1, <1>2 DEF Coordinator!Moves, Coordinator!Outcome

\* A decision of the publisher or the source moves only its request, and moves
\* none that is accepted.
LEMMA DecideFacts ==
    ASSUME NEW r \in Attempt, NEW q, q # "gone",
           request \in [Attempt -> Coordinator!Phase],
           Coordinator!Become(r, q) \/ UNCHANGED request
    PROVE  /\ request' \in [Attempt -> Coordinator!Phase]
           /\ \A a \in Attempt : request[a] = "accepted" => request'[a] = "accepted"
           /\ \A a \in Attempt : request[a] = "gone" => request'[a] = "gone"
           /\ \A a \in Attempt : request'[a] # request[a] => a = r /\ request'[a] = q
<1>1. CASE Coordinator!Become(r, q)
  BY <1>1, BecomeFacts
<1>2. CASE UNCHANGED request
  BY <1>2
<1>3. QED
  BY <1>1, <1>2

\* After an accept call nobody else's request and nobody else's history changed;
\* the caller is recorded only if the call made the request accepted.
LEMMA AcceptFacts ==
    ASSUME NEW r \in Attempt, NEW q \in {"accepted", "rejected"}, NEW who \in {"worker", "operator"},
           request \in [Attempt -> Coordinator!Phase],
           acceptor \in [Attempt -> {"nobody", "worker", "operator"}],
           Coordinator!Become(r, q) \/ UNCHANGED request,
           Accepts(r, who)
    PROVE  /\ acceptor' \in [Attempt -> {"nobody", "worker", "operator"}]
           /\ \A a \in Attempt : acceptor'[a] # acceptor[a] =>
                 a = r /\ acceptor'[a] = who /\ request'[a] = "accepted"
           /\ \A a \in Attempt : request'[a] # request[a] /\ request'[a] = "accepted" =>
                 acceptor'[a] = who
           /\ \A a \in Attempt : acceptor[a] # "nobody" => acceptor'[a] # "nobody"
<1>1. \A a \in Attempt : request'[a] # request[a] => a = r
  BY DecideFacts
<1>2. \/ /\ request'[r] # request[r] /\ request'[r] = "accepted"
         /\ acceptor' = [acceptor EXCEPT ![r] = who]
      \/ /\ ~(request'[r] # request[r] /\ request'[r] = "accepted")
         /\ acceptor' = acceptor
  BY DEF Accepts
<1>3. QED
  BY <1>1, <1>2

-----------------------------------------------------------------------------
(* The inductive invariant *)

\* What the parties know of one another about attempt r.  A handler that took
\* the expectation keeps it out of the broker, and its source has begun; the
\* answer OK, the accept call and the bridge all descend from a hand-over; and
\* the publisher's end stays open from the handshake to the end of the bridge.
RendezvousOK(r) ==
    /\ handler[r] = "select" => r \notin waiting /\ source[r] # "idle"
    /\ handler[r] \in {"handed", "confirmed"} => r \in handed
    /\ reply[r] = "OK" => r \in handed
    /\ serve[r] \in {"accept", "bridging"} => r \in handed
    /\ acceptor[r] = "worker" => r \in handed
    /\ serve[r] \in {"handshake", "accept", "bridging"} => far[r] = "open"
    /\ request[r] = "accepted" => acceptor[r] # "nobody"
    /\ acceptor[r] # "nobody" => request[r] \in {"accepted", "gone"}
    /\ serve[r] = "bridging" => acceptor[r] # "nobody"

RendezvousInv == ReverseTypeOK /\ \A r \in Attempt : RendezvousOK(r)

\* The invariant holds in the initial states: nothing is in progress, and what
\* is in connection-inbox.json are requests that were rejected.
LEMMA RendezvousInit == Init => RendezvousInv
<1> SUFFICES ASSUME Init PROVE RendezvousInv
  OBVIOUS
<1> USE DEF Init
<1>1. request \in [Attempt -> Coordinator!Phase]
  BY DEF Coordinator!Phase, Coordinator!Outcome
<1>2. ReverseTypeOK
  BY <1>1, ReverseAssumption DEF ReverseTypeOK, IdleInbox, IdleCli
<1>3. \A r \in Attempt : RendezvousOK(r)
  BY DEF RendezvousOK
<1>4. QED
  BY <1>2, <1>3 DEF RendezvousInv

\* Steps at the source and at the coordinator preserve the invariant.
LEMMA SourceSteps ==
    ASSUME RendezvousInv, NEW r \in Attempt,
           \/ Expire(r) \/ Retire(r) \/ Expect(r) \/ Requested(r) \/ Source(r)
           \/ SourceWrites(r) \/ SourceBridgeEnds(r)
    PROVE  RendezvousInv'
<1> USE DEF RendezvousInv, ReverseTypeOK, RendezvousOK, relayVars, wireVars, nodeVars, ghosts
<1>1. CASE Expire(r)
  BY <1>1, BecomeFacts DEF Expire
<1>2. CASE Expect(r)
  BY <1>2 DEF Expect
<1>3. CASE Requested(r)
  BY <1>3, BecomeFacts DEF Requested
<1>4. CASE CreateAnswered(r)
  BY <1>4 DEF CreateAnswered
<1>5. CASE CreateFails(r)
  BY <1>5 DEF CreateFails, StopWaiting
<1>6. CASE SourceTimeout(r)
  BY <1>6 DEF SourceTimeout
<1>7. CASE CancelReturns(r)
  <2>1. Coordinator!Become(r, "canceled") \/ UNCHANGED request
    BY <1>7 DEF CancelReturns, DecideCall
  <2>2. /\ request' \in [Attempt -> Coordinator!Phase]
        /\ \A a \in Attempt : request[a] = "accepted" <=> request'[a] = "accepted"
        /\ \A a \in Attempt : request[a] = "gone" => request'[a] = "gone"
    BY <2>1, DecideFacts
  <2>3. /\ source' = [source EXCEPT ![r] = "ended"]
        /\ done' = done \cup {r}
        /\ waiting' = waiting \ {r}
        /\ UNCHANGED <<handler, wireVars, nodeVars, ghosts>>
    BY <1>7 DEF CancelReturns, StopWaiting
  <2>4. ReverseTypeOK'
    BY <2>2, <2>3
  <2>5. ASSUME NEW a \in Attempt PROVE RendezvousOK(a)'
    BY <2>2, <2>3
  <2>6. QED
    BY <2>4, <2>5
<1>8. CASE SourceWrites(r)
  BY <1>8 DEF SourceWrites
<1>9. CASE SourceBridgeEnds(r)
  <2>1. ReverseTypeOK'
    <3>1. /\ \E h \in {handler[r], "closed"} : handler' = [handler EXCEPT ![r] = h]
          /\ \E p \in {reply[r], "closed"} : reply' = [reply EXCEPT ![r] = p]
      BY <1>9 DEF SourceBridgeEnds
    <3>2. /\ source' = [source EXCEPT ![r] = "ended"]
          /\ done' = done \cup {r}
          /\ waiting' = waiting \ {r}
          /\ UNCHANGED <<request, far, nodeVars, ghosts>>
      BY <1>9 DEF SourceBridgeEnds, StopWaiting
    <3>3. QED
      BY <3>1, <3>2
  <2>2. ASSUME NEW a \in Attempt PROVE RendezvousOK(a)'
    BY <1>9 DEF SourceBridgeEnds, StopWaiting
  <2>3. QED
    BY <2>1, <2>2
<1>10. CASE Retire(r)
  BY <1>10, BecomeFacts DEF Retire
<1>11. QED
  BY <1>1, <1>2, <1>3, <1>4, <1>5, <1>6, <1>7, <1>8, <1>9, <1>10 DEF Source

\* Steps of the relay's handler preserve it: it takes an expectation out of the
\* broker, and answers OK only after the source has received.
LEMMA HandlerSteps ==
    ASSUME RendezvousInv, NEW r \in Attempt, Handler(r)
    PROVE  RendezvousInv'
<1> USE DEF RendezvousInv, ReverseTypeOK, RendezvousOK, nodeVars, wireVars, ghosts
<1>1. CASE Take(r)
  <2>1. \E h \in {"select", "closed"} : handler' = [handler EXCEPT ![r] = h]
    BY <1>1 DEF Take
  <2>2. \E p \in {reply[r], "ERR"} : reply' = [reply EXCEPT ![r] = p]
    BY <1>1 DEF Take
  <2>3. waiting' \subseteq waiting
    BY <1>1 DEF Take
  <2>4. ReverseTypeOK'
    <3>1. UNCHANGED <<request, source, done, far, nodeVars, ghosts>>
      BY <1>1 DEF Take
    <3>2. QED
      BY <2>1, <2>2, <2>3, <3>1
  <2>5. ASSUME NEW a \in Attempt PROVE RendezvousOK(a)'
    BY <1>1 DEF Take
  <2>6. QED
    BY <2>4, <2>5
<1>2. CASE HandOver(r)
  BY <1>2 DEF HandOver
<1>3. CASE Confirm(r)
  <2>1. \E h \in {"confirmed", "closed"} : handler' = [handler EXCEPT ![r] = h]
    BY <1>3 DEF Confirm
  <2>2. \E p \in {reply[r], "OK"} : reply' = [reply EXCEPT ![r] = p]
    BY <1>3 DEF Confirm
  <2>3. ReverseTypeOK'
    <3>1. UNCHANGED <<request, source, waiting, done, far, nodeVars, ghosts>>
      BY <1>3 DEF Confirm
    <3>2. handler' \in [Attempt -> {"none", "arrived", "select", "handed", "confirmed", "closed"}]
      BY <2>1
    <3>3. reply' \in [Attempt -> {"none", "OK", "ERR", "data", "closed"}]
      BY <2>2
    <3>4. QED
      BY <3>1, <3>2, <3>3
  <2>4. ASSUME NEW a \in Attempt PROVE RendezvousOK(a)'
    BY <1>3 DEF Confirm
  <2>5. QED
    BY <2>3, <2>4
<1>4. CASE Abandon(r)
  BY <1>4 DEF Abandon
<1>5. QED
  BY <1>1, <1>2, <1>3, <1>4 DEF Handler

\* Steps of the goroutine that serves an offer preserve it.
LEMMA ServeSteps ==
    ASSUME RendezvousInv, NEW r \in Attempt, Serve(r) \/ ServeBridgeEnds(r)
    PROVE  RendezvousInv'
<1> USE DEF RendezvousInv, ReverseTypeOK, RendezvousOK, relayVars, wireVars, ghosts
<1>1. CASE ServeLocal(r)
  BY <1>1 DEF ServeLocal
<1>2. CASE ServeDial(r)
  <2>1. CASE /\ handler' = [handler EXCEPT ![r] = "arrived"]
             /\ reply' = [reply EXCEPT ![r] = "none"]
             /\ far' = [far EXCEPT ![r] = "open"]
             /\ serve' = [serve EXCEPT ![r] = "handshake"]
    <3>1. ReverseTypeOK'
      BY <1>2, <2>1 DEF ServeDial
    <3>2. ASSUME NEW a \in Attempt PROVE RendezvousOK(a)'
      BY <1>2, <2>1 DEF ServeDial
    <3>3. QED
      BY <3>1, <3>2
  <2>2. CASE serve' = [serve EXCEPT ![r] = "reject"] /\ UNCHANGED <<handler, wireVars>>
    BY <1>2, <2>2 DEF ServeDial
  <2>3. QED
    BY <1>2, <2>1, <2>2 DEF ServeDial
<1>3. CASE ServeAnswered(r)
  <2>1. \E c \in {"accept", "reject"} : serve' = [serve EXCEPT ![r] = c]
    BY <1>3 DEF ServeAnswered
  <2>2. \E f \in {far[r], "closed"} : far' = [far EXCEPT ![r] = f]
    BY <1>3 DEF ServeAnswered
  <2>3. ReverseTypeOK'
    BY <1>3, <2>1, <2>2 DEF ServeAnswered
  <2>4. ASSUME NEW a \in Attempt PROVE RendezvousOK(a)'
    BY <1>3 DEF ServeAnswered
  <2>5. QED
    BY <2>3, <2>4
<1>4. CASE ServeTimeout(r)
  BY <1>4 DEF ServeTimeout
<1>5. CASE ServeReject(r)
  <2>1. Coordinator!Become(r, "rejected") \/ UNCHANGED request
    BY <1>5 DEF ServeReject, DecideCall
  <2>2. /\ request' \in [Attempt -> Coordinator!Phase]
        /\ \A a \in Attempt : request[a] = "accepted" <=> request'[a] = "accepted"
        /\ \A a \in Attempt : request[a] = "gone" => request'[a] = "gone"
    BY <2>1, DecideFacts
  <2>3. /\ serve' = [serve EXCEPT ![r] = "none"]
        /\ UNCHANGED <<relayVars, wireVars, inbox, file, cli, ghosts>>
    BY <1>5 DEF ServeReject
  <2>4. ReverseTypeOK'
    BY <2>2, <2>3
  <2>5. ASSUME NEW a \in Attempt PROVE RendezvousOK(a)'
    BY <2>2, <2>3
  <2>6. QED
    BY <2>4, <2>5
<1>6. CASE ServeAccept(r)
  <2>1. Coordinator!Become(r, "accepted") \/ UNCHANGED request
    BY <1>6 DEF ServeAccept, DecideCall
  <2>2. /\ request' \in [Attempt -> Coordinator!Phase]
        /\ \A a \in Attempt : request[a] = "accepted" => request'[a] = "accepted"
        /\ \A a \in Attempt : request'[a] # request[a] => a = r /\ request'[a] = "accepted"
    BY <2>1, DecideFacts
  <2>3. /\ serve[r] = "accept"
        /\ file' \subseteq file
        /\ UNCHANGED <<relayVars, reply, inbox, cli, handed>>
        /\ Accepts(r, "worker")
    BY <1>6 DEF ServeAccept
  <2>a. /\ acceptor' \in [Attempt -> {"nobody", "worker", "operator"}]
        /\ \A a \in Attempt : acceptor'[a] # acceptor[a] =>
              a = r /\ acceptor'[a] = "worker" /\ request'[a] = "accepted"
        /\ \A a \in Attempt : request'[a] # request[a] /\ request'[a] = "accepted" =>
              acceptor'[a] = "worker"
        /\ \A a \in Attempt : acceptor[a] # "nobody" => acceptor'[a] # "nobody"
    BY <2>1, <2>3, AcceptFacts
  <2>4. CASE /\ DecideCall(r, "accepted", TRUE)
             /\ serve' = [serve EXCEPT ![r] = "bridging"]
             /\ UNCHANGED far
    <3>1. request'[r] = "accepted"
      BY <2>4, BecomeFacts DEF DecideCall
    <3>2. ReverseTypeOK'
      BY <2>2, <2>3, <2>a, <2>4
    <3>3. ASSUME NEW a \in Attempt PROVE RendezvousOK(a)'
      BY <2>2, <2>3, <2>a, <2>4, <3>1
    <3>4. QED
      BY <3>2, <3>3
  <2>5. CASE /\ serve' = [serve EXCEPT ![r] = "none"]
             /\ far' = [far EXCEPT ![r] = "closed"]
    <3>1. ReverseTypeOK'
      BY <2>2, <2>3, <2>a, <2>5
    <3>2. ASSUME NEW a \in Attempt PROVE RendezvousOK(a)'
      BY <2>2, <2>3, <2>a, <2>5
    <3>3. QED
      BY <3>1, <3>2
  <2>6. QED
    BY <1>6, <2>4, <2>5 DEF ServeAccept
<1>7. CASE ServeBridgeEnds(r)
  BY <1>7 DEF ServeBridgeEnds
<1>8. QED
  BY <1>1, <1>2, <1>3, <1>4, <1>5, <1>6, <1>7 DEF Serve

\* Steps of the command line preserve it: the operator may decide a request
\* that is live, and no other decision moves one.
LEMMA CliSteps ==
    ASSUME RendezvousInv, NEW r \in Attempt,
           CliDecide(r) \/ CliCancel(r) \/ CliRead(r) \/ CliWrite(r)
    PROVE  RendezvousInv'
<1> USE DEF RendezvousInv, ReverseTypeOK, RendezvousOK, relayVars, wireVars, nodeVars, ghosts
<1>1. CASE CliDecide(r)
  <2>1. PICK q \in {"accepted", "rejected"} :
          /\ Coordinator!Become(r, q) \/ UNCHANGED request
          /\ \/ cli' = [cli EXCEPT ![r] = [pc |-> "read", copy |-> {}]]
             \/ UNCHANGED cli
    BY <1>1 DEF CliDecide, DecideCall
  <2>2. /\ request' \in [Attempt -> Coordinator!Phase]
        /\ \A a \in Attempt : request[a] = "accepted" => request'[a] = "accepted"
        /\ \A a \in Attempt : request'[a] # request[a] => a = r /\ request'[a] = q
        /\ \A a \in Attempt : request[a] = "gone" => request'[a] = "gone"
    BY <2>1, DecideFacts
  <2>3. /\ UNCHANGED <<relayVars, wireVars, inbox, file, serve, handed>>
        /\ Accepts(r, "operator")
    BY <1>1 DEF CliDecide
  <2>4. /\ acceptor' \in [Attempt -> {"nobody", "worker", "operator"}]
        /\ \A a \in Attempt : acceptor'[a] # acceptor[a] =>
              a = r /\ acceptor'[a] = "operator" /\ request'[a] = "accepted"
        /\ \A a \in Attempt : request'[a] # request[a] /\ request'[a] = "accepted" =>
              acceptor'[a] = "operator"
        /\ \A a \in Attempt : acceptor[a] # "nobody" => acceptor'[a] # "nobody"
    BY <2>1, <2>3, AcceptFacts
  <2>5. ReverseTypeOK'
    <3>1. cli' \in [Attempt -> [pc : {"idle", "read", "write"}, copy : SUBSET Attempt]]
      <4>1. CASE cli' = [cli EXCEPT ![r] = [pc |-> "read", copy |-> {}]]
        BY <4>1
      <4>2. CASE UNCHANGED cli
        BY <4>2
      <4>3. QED
        BY <2>1, <4>1, <4>2
    <3>2. QED
      BY <2>2, <2>3, <2>4, <3>1
  <2>6. ASSUME NEW a \in Attempt PROVE RendezvousOK(a)'
    BY <2>2, <2>3, <2>4
  <2>7. QED
    BY <2>5, <2>6
<1>2. CASE CliRead(r)
  BY <1>2 DEF CliRead
<1>3. CASE CliWrite(r)
  BY <1>3 DEF CliWrite, IdleCli
<1>4. CASE CliCancel(r)
  <2>1. Coordinator!Become(r, "canceled") \/ UNCHANGED request
    BY <1>4 DEF CliCancel, DecideCall
  <2>2. /\ request' \in [Attempt -> Coordinator!Phase]
        /\ \A a \in Attempt : request[a] = "gone" => request'[a] = "gone"
        /\ \A a \in Attempt : request[a] = "accepted" <=> request'[a] = "accepted"
    BY <2>1, DecideFacts
  <2>3. UNCHANGED <<relayVars, wireVars, nodeVars, ghosts>>
    BY <1>4 DEF CliCancel
  <2>4. ReverseTypeOK'
    BY <2>2, <2>3
  <2>5. ASSUME NEW a \in Attempt PROVE RendezvousOK(a)'
    BY <2>2, <2>3
  <2>6. QED
    BY <2>4, <2>5
<1>5. QED
  BY <1>1, <1>2, <1>3, <1>4

\* Steps of the inbox worker and a stop of the publisher's process preserve it.
LEMMA InboxSteps ==
    ASSUME RendezvousInv,
           Poll \/ SaveInbox \/ PollFails \/ Acknowledge \/ Dispatch \/ Crash
    PROVE  RendezvousInv'
<1> USE DEF RendezvousInv, ReverseTypeOK, RendezvousOK, relayVars, wireVars, ghosts, IdleInbox
<1>1. CASE Poll
  BY <1>1 DEF Poll
<1>2. CASE SaveInbox
  <2>1. ReverseTypeOK'
    <3>1. PICK events \in SUBSET (file \cup inbox.offered) :
            inbox' = [inbox EXCEPT !.pc = "saved", !.events = events]
      BY <1>2 DEF SaveInbox
    <3>2. inbox' \in [pc : {"idle", "answered", "saved", "dispatch"},
                      offered : SUBSET Attempt, events : SUBSET Attempt]
      BY <3>1
    <3>3. /\ file' = file \cup inbox.offered
          /\ UNCHANGED <<request, relayVars, wireVars, serve, cli, ghosts>>
      BY <1>2 DEF SaveInbox
    <3>4. QED
      BY <3>2, <3>3
  <2>2. ASSUME NEW a \in Attempt PROVE RendezvousOK(a)'
    BY <1>2 DEF SaveInbox
  <2>3. QED
    BY <2>1, <2>2
<1>3. CASE PollFails
  BY <1>3 DEF PollFails
<1>4. CASE Acknowledge
  BY <1>4 DEF Acknowledge
<1>5. CASE Dispatch
  BY <1>5 DEF Dispatch
<1>6. CASE Crash
  BY <1>6 DEF Crash
<1>7. QED
  BY <1>1, <1>2, <1>3, <1>4, <1>5, <1>6

-----------------------------------------------------------------------------
(* Theorems *)

\* The four parties keep the inductive invariant in every interleaving.
THEOREM RendezvousInvariant == Spec => []RendezvousInv
<1>1. ASSUME RendezvousInv, [Next]_vars PROVE RendezvousInv'
  <2>1. CASE UNCHANGED vars
    BY <1>1, <2>1 DEF vars, RendezvousInv, ReverseTypeOK, RendezvousOK
  <2>2. CASE Next
    BY <1>1, <2>2, SourceSteps, HandlerSteps, ServeSteps, CliSteps, InboxSteps DEF Next
  <2>3. QED
    BY <1>1, <2>1, <2>2
<1>2. QED
  BY <1>1, RendezvousInit, PTL DEF Spec

\* The broker, the handlers, the file and the goroutines hold what they may:
\* an expectation is registered only while its source waits.
THEOREM ReverseTypeCorrect == Spec => []ReverseTypeOK
<1>1. RendezvousInv => ReverseTypeOK
  BY DEF RendezvousInv
<1>2. QED
  BY <1>1, RendezvousInvariant, PTL

\* The publisher's goroutine makes no request accepted whose connection no
\* source received, whatever times out, is lost, is canceled or is decided by
\* the operator meanwhile.
THEOREM AcceptedWasHandedOver == Spec => []AcceptedWasHanded
<1>1. RendezvousInv => AcceptedWasHanded
  BY DEF RendezvousInv, RendezvousOK, AcceptedWasHanded
<1>2. QED
  BY <1>1, RendezvousInvariant, PTL

\* A publisher bridges its service only over an open connection that was handed
\* to the source, under a request that was accepted and never gets another
\* outcome, although the coordinator may delete it while the bridge runs.
THEOREM BridgeIsAccepted == Spec => []BridgedIsAccepted
<1>1. RendezvousInv => BridgedIsAccepted
  BY DEF RendezvousInv, RendezvousOK, BridgedIsAccepted
<1>2. QED
  BY <1>1, RendezvousInvariant, PTL

=============================================================================
