-------------------------- MODULE ReverseConnection --------------------------
(***************************************************************************)
(* The on-demand reverse connection: a relay that cannot reach a publisher *)
(* asks it, through the coordinator's queue, to connect back.              *)
(*                                                                         *)
(* Four parties meet: the waiting source (tryReverse, dialReverseService), *)
(* the reverse handler of the same relay process and the broker between    *)
(* the two (relay_types.go), the publisher's inbox worker with its file    *)
(* connection-inbox.json, and the goroutine that serves one offer.  The    *)
(* coordinator is ConnectionLifecycle: a live request may be offered, and  *)
(* offered again after its lease, at any time.                             *)
(*                                                                         *)
(*   request  the phase of each request at the coordinator                 *)
(*   source   where the source of each request is                          *)
(*   waiting  reverseBroker.waiting: the registered expectations           *)
(*   done     the expectations whose done channel is closed                *)
(*   handler  the relay's handler of the request's reverse connection      *)
(*   reply    the first line the publisher can read on that connection     *)
(*   far      the publisher's end of that connection                       *)
(*   inbox    the inbox worker: its place and the events it works on       *)
(*   file     the events in connection-inbox.json                          *)
(*   serve    the goroutine of each offer (automaticConnectionOffers)      *)
(*   cli      a command-line decision at the publisher, another process    *)
(*   handed   ghost: the requests whose source received its connection     *)
(*   acceptor ghost: who accepted each request, the goroutine or a person  *)
(*                                                                         *)
(* An attempt stands for its random token: the idempotency key is the key  *)
(* of the broker and names one request.                                    *)
(***************************************************************************)
EXTENDS FiniteSets, Naturals

CONSTANTS
    Attempt,       \* reverse attempts of the source relay, one token each
    Stale,         \* attempts of the past: rejected, since deleted, still in the file
    Manual,        \* the attempts an operator decides or cancels
    MayCrash       \* whether the publisher's process may stop and start again

ASSUME ReverseAssumption ==
    /\ IsFiniteSet(Attempt)
    /\ Stale \subseteq Attempt
    /\ Manual \subseteq Attempt
    /\ MayCrash \in BOOLEAN

VARIABLES request, source, waiting, done, handler, reply, far, inbox, file, serve, cli, handed, acceptor

vars == <<request, source, waiting, done, handler, reply, far, inbox, file, serve, cli, handed, acceptor>>

\* Nobody in this module asks for the state of a request, so nothing is heard.
Coordinator == INSTANCE ConnectionLifecycle WITH
    Request <- Attempt, phase <- request, heard <- [r \in Attempt |-> {}]

relayVars == <<source, waiting, done, handler>>
wireVars == <<reply, far>>
nodeVars == <<inbox, file, serve, cli>>
ghosts == <<handed, acceptor>>

IdleInbox == [pc |-> "idle", offered |-> {}, events |-> {}]

IdleCli == [pc |-> "idle", copy |-> {}]

\* A rejected offer stays in connection-inbox.json: only accepting and the
\* command line remove one.
Init ==
    /\ request = [r \in Attempt |-> IF r \in Stale THEN "gone" ELSE "new"]
    /\ source = [r \in Attempt |-> IF r \in Stale THEN "ended" ELSE "idle"]
    /\ waiting = {}
    /\ done = Stale
    /\ handler = [r \in Attempt |-> "none"]
    /\ reply = [r \in Attempt |-> "none"]
    /\ far = [r \in Attempt |-> "none"]
    /\ inbox = IdleInbox
    /\ file = Stale
    /\ serve = [r \in Attempt |-> "none"]
    /\ cli = [r \in Attempt |-> IdleCli]
    /\ handed = {}
    /\ acceptor = [r \in Attempt |-> "nobody"]

-----------------------------------------------------------------------------
(* The coordinator *)

\* The call of decideConnectionRequest: the request or its answer may be lost,
\* and a decision that is already stored is confirmed.  ok: the caller sees 200.
DecideCall(r, outcome, ok) ==
    \/ /\ Coordinator!Become(r, outcome)
    \/ /\ request[r] = outcome \/ ~ok
       /\ UNCHANGED request

\* History: who decided first, when a call of who has made r accepted.
Accepts(r, who) ==
    acceptor' = IF request'[r] # request[r] /\ request'[r] = "accepted"
                THEN [acceptor EXCEPT ![r] = who] ELSE acceptor

Expire(r) ==
    /\ Coordinator!Become(r, "expired")
    /\ UNCHANGED <<relayVars, wireVars, nodeVars, ghosts>>

\* A request that has its outcome is deleted after a day, whoever still bridges
\* or serves its offer; no source waits that long.
Retire(r) ==
    /\ source[r] \in {"bridging", "ended"}
    /\ Coordinator!Become(r, "gone")
    /\ UNCHANGED <<relayVars, wireVars, nodeVars, ghosts>>

-----------------------------------------------------------------------------
(* The source: tryReverse, dialReverseService *)

\* Mutant: stopWaiting closes done only while the entry is still registered.
StopWaitingIfRegistered(r) ==
    /\ done' = IF r \in waiting THEN done \cup {r} ELSE done
    /\ waiting' = waiting \ {r}

\* The function expect returns, run when the source returns.
StopWaiting(r) ==
    /\ done' = done \cup {r}
    /\ waiting' = waiting \ {r}

\* The expectation is registered before the request is made.
Expect(r) ==
    /\ source[r] = "idle"
    /\ source' = [source EXCEPT ![r] = "creating"]
    /\ waiting' = waiting \cup {r}
    /\ UNCHANGED <<request, done, handler, wireVars, nodeVars, ghosts>>

\* The request reaches the coordinator before its answer reaches the source.
Requested(r) ==
    /\ source[r] = "creating"
    /\ Coordinator!Become(r, "live")
    /\ UNCHANGED <<relayVars, wireVars, nodeVars, ghosts>>

CreateAnswered(r) ==
    /\ source[r] = "creating"
    /\ request[r] # "new"
    /\ source' = [source EXCEPT ![r] = "waiting"]
    /\ UNCHANGED <<request, waiting, done, handler, wireVars, nodeVars, ghosts>>

\* Mutant: the expectation outlives a source whose request failed.
CreateFailsExpecting(r) ==
    /\ source[r] = "creating"
    /\ source' = [source EXCEPT ![r] = "ended"]
    /\ UNCHANGED <<request, waiting, done, handler, wireVars, nodeVars, ghosts>>

\* The request is refused, or it or its answer is lost.
CreateFails(r) ==
    /\ source[r] = "creating"
    /\ source' = [source EXCEPT ![r] = "ended"]
    /\ StopWaiting(r)
    /\ UNCHANGED <<request, handler, wireVars, nodeVars, ghosts>>

\* Mutant: the source relies on the expiry of its request.
SourceTimeoutExpired(r) ==
    /\ source[r] = "waiting"
    /\ request[r] = "expired"
    /\ source' = [source EXCEPT ![r] = "canceling"]
    /\ UNCHANGED <<request, waiting, done, handler, wireVars, nodeVars, ghosts>>

\* The timer fires; the expectation stays until the cancel call has returned.
SourceTimeout(r) ==
    /\ source[r] = "waiting"
    /\ source' = [source EXCEPT ![r] = "canceling"]
    /\ UNCHANGED <<request, waiting, done, handler, wireVars, nodeVars, ghosts>>

CancelReturns(r) ==
    /\ source[r] = "canceling"
    /\ DecideCall(r, "canceled", FALSE)
    /\ source' = [source EXCEPT ![r] = "ended"]
    /\ StopWaiting(r)
    /\ UNCHANGED <<handler, wireVars, nodeVars, ghosts>>

\* The application's bytes may reach the publisher before the handler's OK.
SourceWrites(r) ==
    /\ source[r] = "bridging"
    /\ handler[r] \in {"handed", "confirmed"}
    /\ reply[r] = "none"
    /\ reply' = [reply EXCEPT ![r] = "data"]
    /\ UNCHANGED <<request, relayVars, far, nodeVars, ghosts>>

\* The bridge ends and closes the relay's end, unless the handler has closed it
\* already (and may be working on a later handshake of the same offer).
SourceBridgeEnds(r) ==
    /\ source[r] = "bridging"
    /\ source' = [source EXCEPT ![r] = "ended"]
    /\ StopWaiting(r)
    /\ IF handler[r] \in {"handed", "confirmed"}
       THEN /\ handler' = [handler EXCEPT ![r] = "closed"]
            /\ reply' = [reply EXCEPT ![r] = IF @ = "none" THEN "closed" ELSE @]
       ELSE UNCHANGED <<handler, reply>>
    /\ UNCHANGED <<request, far, nodeVars, ghosts>>

-----------------------------------------------------------------------------
(* The relay's handler of a reverse handshake *)

\* reverseBroker.take after verify and acceptsSourceRoute; either of them may
\* refuse, depending on the relay's peers.json.
Take(r) ==
    /\ handler[r] = "arrived"
    /\ \/ /\ r \in waiting
          /\ waiting' = waiting \ {r}
          /\ handler' = [handler EXCEPT ![r] = "select"]
          /\ UNCHANGED reply
       \/ /\ waiting' = waiting
          /\ handler' = [handler EXCEPT ![r] = "closed"]
          /\ reply' = [reply EXCEPT ![r] = "ERR"]
    /\ UNCHANGED <<request, source, done, far, nodeVars, ghosts>>

\* Mutant: the handler confirms before a source has taken the connection.
HandOverConfirmed(r) ==
    /\ handler[r] = "select"
    /\ handler' = [handler EXCEPT ![r] = "confirmed"]
    /\ reply' = [reply EXCEPT ![r] = "OK"]
    /\ UNCHANGED <<request, source, waiting, done, far, nodeVars, ghosts>>

\* The select of the handler meets the select of the source.
HandOver(r) ==
    /\ handler[r] = "select"
    /\ source[r] = "waiting"
    /\ source' = [source EXCEPT ![r] = "bridging"]
    /\ handler' = [handler EXCEPT ![r] = "handed"]
    /\ handed' = handed \cup {r}
    /\ UNCHANGED <<request, waiting, done, wireVars, nodeVars, acceptor>>

\* Writing OK; the write may succeed although the publisher has hung up.
Confirm(r) ==
    /\ handler[r] = "handed"
    /\ \/ /\ handler' = [handler EXCEPT ![r] = "confirmed"]
          /\ reply' = [reply EXCEPT ![r] = IF @ = "none" THEN "OK" ELSE @]
       \/ /\ far[r] # "open"
          /\ handler' = [handler EXCEPT ![r] = "closed"]
          /\ UNCHANGED reply
    /\ UNCHANGED <<request, source, waiting, done, far, nodeVars, ghosts>>

Abandon(r) ==
    /\ handler[r] = "select"
    /\ r \in done
    /\ handler' = [handler EXCEPT ![r] = "closed"]
    /\ reply' = [reply EXCEPT ![r] = "closed"]
    /\ UNCHANGED <<request, source, waiting, done, far, nodeVars, ghosts>>

-----------------------------------------------------------------------------
(* The publisher's inbox worker: waitInbox, saveInbox, dispatch *)

\* A batch of live requests is offered.
Poll ==
    /\ inbox.pc = "idle"
    /\ \E batch \in SUBSET {r \in Attempt : request[r] = "live"} \ {{}} :
          inbox' = [pc |-> "answered", offered |-> batch, events |-> batch]
    /\ UNCHANGED <<request, relayVars, wireVars, file, serve, cli, ghosts>>

\* saveInbox merges the batch into the file.  It builds the merged list in the
\* array of the batch: afterwards the batch's places hold that many of the
\* merged events, in map order if the array grew and the oldest ones if not.
SaveInbox ==
    /\ inbox.pc = "answered"
    /\ file' = file \cup inbox.offered
    /\ \E events \in SUBSET (file \cup inbox.offered) :
          /\ Cardinality(events) = Cardinality(inbox.offered)
          /\ inbox' = [inbox EXCEPT !.pc = "saved", !.events = events]
    /\ UNCHANGED <<request, relayVars, wireVars, serve, cli, ghosts>>

\* A failed write or acknowledgement is an error: the events are not dispatched.
PollFails ==
    /\ inbox.pc \in {"answered", "saved"}
    /\ inbox' = IdleInbox
    /\ UNCHANGED <<request, relayVars, wireVars, file, serve, cli, ghosts>>

Acknowledge ==
    /\ inbox.pc = "saved"
    /\ inbox' = [inbox EXCEPT !.pc = "dispatch"]
    /\ UNCHANGED <<request, relayVars, wireVars, file, serve, cli, ghosts>>

\* dispatchAutomaticConnectionOffers: one goroutine per event, unless it runs.
\* (An offer that is bridged could only be refused and rejected in vain.)
Dispatch ==
    /\ inbox.pc = "dispatch"
    /\ serve' = [r \in Attempt |->
          IF r \in inbox.events /\ serve[r] = "none" THEN "start" ELSE serve[r]]
    /\ inbox' = IdleInbox
    /\ UNCHANGED <<request, relayVars, wireVars, file, cli, ghosts>>

-----------------------------------------------------------------------------
(* serveAutomaticConnectionOffer *)

\* The service is not local or its target cannot be dialled: reject.  The
\* return relay is not in peers.json: give up without a decision.
ServeLocal(r) ==
    /\ serve[r] = "start"
    /\ \E next \in {"dial", "reject", "none"} : serve' = [serve EXCEPT ![r] = next]
    /\ UNCHANGED <<request, relayVars, wireVars, inbox, file, cli, ghosts>>

\* dialReverseRelay sends the handshake, or fails: the relay is unreachable, or
\* answers ERR because an earlier handshake of the offer took the expectation.
\* That earlier one is not unread: the relay drops it after ten seconds.
ServeDial(r) ==
    /\ serve[r] = "dial"
    /\ \/ /\ handler[r] \in {"none", "closed"}
          /\ handler' = [handler EXCEPT ![r] = "arrived"]
          /\ reply' = [reply EXCEPT ![r] = "none"]
          /\ far' = [far EXCEPT ![r] = "open"]
          /\ serve' = [serve EXCEPT ![r] = "handshake"]
       \/ /\ handler[r] # "arrived"
          /\ serve' = [serve EXCEPT ![r] = "reject"]
          /\ UNCHANGED <<handler, wireVars>>
    /\ UNCHANGED <<request, source, waiting, done, inbox, file, cli, ghosts>>

ServeAnswered(r) ==
    /\ serve[r] = "handshake"
    /\ reply[r] # "none"
    /\ IF reply[r] = "OK"
       THEN /\ serve' = [serve EXCEPT ![r] = "accept"]
            /\ UNCHANGED far
       ELSE /\ serve' = [serve EXCEPT ![r] = "reject"]
            /\ far' = [far EXCEPT ![r] = "closed"]
    /\ UNCHANGED <<request, relayVars, reply, inbox, file, cli, ghosts>>

ServeTimeout(r) ==
    /\ serve[r] = "handshake"
    /\ serve' = [serve EXCEPT ![r] = "reject"]
    /\ far' = [far EXCEPT ![r] = "closed"]
    /\ UNCHANGED <<request, relayVars, reply, inbox, file, cli, ghosts>>

ServeReject(r) ==
    /\ serve[r] = "reject"
    /\ DecideCall(r, "rejected", FALSE)
    /\ serve' = [serve EXCEPT ![r] = "none"]
    /\ UNCHANGED <<relayVars, wireVars, inbox, file, cli, ghosts>>

\* Mutant: an accept call that fails is ignored.
ServeAcceptUnchecked(r) ==
    /\ serve[r] = "accept"
    /\ DecideCall(r, "accepted", FALSE)
    /\ Accepts(r, "worker")
    /\ serve' = [serve EXCEPT ![r] = "bridging"]
    /\ file' \in {file, file \ {r}}
    /\ UNCHANGED <<relayVars, wireVars, inbox, cli, handed>>

\* Accepted: the event leaves the file (an error is ignored) and the bridge
\* runs.  Not accepted as far as the publisher knows: both ends are closed.
ServeAccept(r) ==
    /\ serve[r] = "accept"
    /\ \/ /\ DecideCall(r, "accepted", TRUE)
          /\ serve' = [serve EXCEPT ![r] = "bridging"]
          /\ file' \in {file, file \ {r}}
          /\ UNCHANGED far
       \/ /\ DecideCall(r, "accepted", FALSE)
          /\ serve' = [serve EXCEPT ![r] = "none"]
          /\ far' = [far EXCEPT ![r] = "closed"]
          /\ UNCHANGED file
    /\ Accepts(r, "worker")
    /\ UNCHANGED <<relayVars, reply, inbox, cli, handed>>

\* bridge closes its right side only: the reverse connection is half closed.
ServeBridgeEnds(r) ==
    /\ serve[r] = "bridging"
    /\ serve' = [serve EXCEPT ![r] = "none"]
    /\ far' = [far EXCEPT ![r] = "half"]
    /\ UNCHANGED <<request, relayVars, reply, inbox, file, cli, ghosts>>

-----------------------------------------------------------------------------
(* decideConnectionCLI, another process.  At the publisher it accepts or      *)
(* rejects, and removeInboxRequest then reads and rewrites the file without   *)
(* the mutex of the running node; at the source it cancels.                   *)

\* The command accepts without any reverse connection.  A call whose answer is
\* lost may have decided all the same, and the command ends with an error.  The
\* operator knows the requests that connection-inbox prints from the file.
CliDecide(r) ==
    /\ r \in Manual \cap file
    /\ cli[r].pc = "idle"
    /\ \E outcome \in {"accepted", "rejected"} :
          \/ /\ DecideCall(r, outcome, TRUE)
             /\ cli' = [cli EXCEPT ![r] = [pc |-> "read", copy |-> {}]]
          \/ /\ DecideCall(r, outcome, FALSE)
             /\ UNCHANGED cli
    /\ Accepts(r, "operator")
    /\ UNCHANGED <<relayVars, wireVars, inbox, file, serve, handed>>

CliCancel(r) ==
    /\ r \in Manual
    /\ DecideCall(r, "canceled", FALSE)
    /\ UNCHANGED <<relayVars, wireVars, nodeVars, ghosts>>

CliRead(r) ==
    /\ cli[r].pc = "read"
    /\ cli' = [cli EXCEPT ![r] = [pc |-> "write", copy |-> file]]
    /\ UNCHANGED <<request, relayVars, wireVars, inbox, file, serve, ghosts>>

CliWrite(r) ==
    /\ cli[r].pc = "write"
    /\ file' = cli[r].copy \ {r}
    /\ cli' = [cli EXCEPT ![r] = IdleCli]
    /\ UNCHANGED <<request, relayVars, wireVars, inbox, serve, ghosts>>

-----------------------------------------------------------------------------
(* The publisher's process stops: its worker, its goroutines and its ends of *)
(* the connections are gone, the file stays.                                 *)

Crash ==
    /\ MayCrash
    /\ inbox' = IdleInbox
    /\ serve' = [r \in Attempt |-> "none"]
    /\ far' = [r \in Attempt |-> IF far[r] = "open" THEN "closed" ELSE far[r]]
    /\ UNCHANGED <<request, relayVars, reply, file, cli, ghosts>>

-----------------------------------------------------------------------------

Source(r) ==
    CreateAnswered(r) \/ CreateFails(r) \/ SourceTimeout(r) \/ CancelReturns(r)

Handler(r) == Take(r) \/ HandOver(r) \/ Confirm(r) \/ Abandon(r)

Serve(r) ==
    \/ ServeLocal(r) \/ ServeDial(r) \/ ServeAnswered(r) \/ ServeTimeout(r)
    \/ ServeReject(r) \/ ServeAccept(r)

Next ==
    \/ \E r \in Attempt :
          \/ Expire(r) \/ Retire(r) \/ Expect(r) \/ Requested(r)
          \/ Source(r) \/ SourceWrites(r) \/ SourceBridgeEnds(r)
          \/ Handler(r)
          \/ Serve(r) \/ ServeBridgeEnds(r)
          \/ CliDecide(r) \/ CliCancel(r) \/ CliRead(r) \/ CliWrite(r)
    \/ Poll \/ SaveInbox \/ PollFails \/ Acknowledge \/ Dispatch
    \/ Crash

Spec == Init /\ [][Next]_vars

\* Every call of the source to the coordinator has a time-out and its wait has
\* a timer, so the source goes on; a goroutine that can run does.
RunningSpec ==
    /\ Spec
    /\ \A r \in Attempt : WF_vars(Source(r)) /\ WF_vars(Handler(r)) /\ WF_vars(Serve(r))

-----------------------------------------------------------------------------
(* Properties *)

\* What the broker, the handlers, connection-inbox.json and the goroutines of
\* the two processes can hold.
ReverseTypeOK ==
    /\ request \in [Attempt -> Coordinator!Phase]
    /\ source \in [Attempt -> {"idle", "creating", "waiting", "canceling", "bridging", "ended"}]
    /\ waiting \subseteq {r \in Attempt : source[r] \in {"creating", "waiting", "canceling"}}
    /\ done \subseteq {r \in Attempt : source[r] = "ended"}
    /\ handler \in [Attempt -> {"none", "arrived", "select", "handed", "confirmed", "closed"}]
    /\ reply \in [Attempt -> {"none", "OK", "ERR", "data", "closed"}]
    /\ far \in [Attempt -> {"none", "open", "half", "closed"}]
    /\ inbox \in [pc : {"idle", "answered", "saved", "dispatch"},
                  offered : SUBSET Attempt, events : SUBSET Attempt]
    /\ file \subseteq Attempt
    /\ serve \in [Attempt -> {"none", "start", "dial", "handshake", "reject", "accept", "bridging"}]
    /\ cli \in [Attempt -> [pc : {"idle", "read", "write"}, copy : SUBSET Attempt]]
    /\ handed \subseteq Attempt
    /\ acceptor \in [Attempt -> {"nobody", "worker", "operator"}]

\* The goroutine of an offer makes a request accepted only if a live source
\* received its connection: neither the source's timer, a lost create answer nor
\* a cancel call in flight lets it accept a connection that nobody waits for.
\* (The operator's accept-connection needs no connection at all.)
AcceptedWasHanded == \A r \in Attempt : acceptor[r] = "worker" => r \in handed

\* A publisher that bridges its service holds an open connection that was
\* handed to the source, under a request that was accepted and has no other
\* outcome: the coordinator has it as accepted, or has deleted it since.  No
\* rejection by the operator, cancellation or expiry comes in between.
BridgedIsAccepted ==
    \A r \in Attempt : serve[r] = "bridging" =>
        /\ acceptor[r] # "nobody"
        /\ request[r] \in {"accepted", "gone"}
        /\ r \in handed
        /\ far[r] = "open"

\* A handler that took an expectation waits without a deadline; it always gets
\* away, because the source either receives or closes done on every return.
HandlerReleased == \A r \in Attempt : handler[r] = "select" ~> handler[r] # "select"

\* A waiting source always ends with a connection or without one.
SourceReleased ==
    \A r \in Attempt : source[r] = "creating" ~> source[r] \in {"bridging", "ended"}

\* The worker serves every offer of a batch it has stored and acknowledged.
OffersDispatched == inbox.pc = "dispatch" => inbox.offered \subseteq inbox.events

=============================================================================
