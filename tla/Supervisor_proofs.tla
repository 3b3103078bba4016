-------------------------- MODULE Supervisor_proofs --------------------------
(* Proofs about Supervisor, for every set of instances and any number of    *)
(* edits.                                                                   *)
EXTENDS Supervisor, FiniteSetTheorems, TLAPS

-----------------------------------------------------------------------------
(* The inductive invariant *)

\* Whoever the manager is about to stop, or waits for, has an entry in its
\* table, and an instance is visited once in the loop over the removed ones.
StopsItsOwn ==
    /\ pc = "remove" => \A i \in todo : Exists(i)
    /\ pc = "stop" => Exists(stop.at)
    /\ pc = "stop" /\ stop.why = "remove" => stop.at \notin todo /\ \A i \in todo : Exists(i)

ManagerInv == SupervisorTypeOK /\ StopsItsOwn

-----------------------------------------------------------------------------
(* The contents, the table and the workers *)

\* What a profile says and what is hashed of it have their types.
LEMMA ContentFacts ==
    ASSUME NEW c \in Content
    PROVE  Signature(c) \in Signatures /\ Verdict(c) \in {"error", "disabled", "run"}
BY DEF Content, Signature, Signatures, Verdict

\* A missing profile and a directory without one are contents too.
LEMMA NoProfileFacts ==
    Absent \in Content /\ Bare \in Content /\ Signature(Absent) \in Signatures
<1>1. Absent \in Content
  BY SupervisorAssumption DEF Absent, Content, NoProfile
<1>2. Bare \in Content
  BY <1>1 DEF Bare, Content
<1>3. QED
  BY <1>1, <1>2, ContentFacts

\* A profile that is written has the type of the contents.
LEMMA ProfileFacts ==
    ASSUME NEW v \in 0..(MaxEdits + 1), NEW d \in {"none", "parse", "instance", "static"},
           NEW b \in BOOLEAN
    PROVE  Profile(v, d, b) \in Content
BY DEF Content, Profile

\* Cancelling the context of a worker, if it is alive, changes nothing else of
\* it, and a worker that has returned stays as it is.
LEMMA CancelFacts ==
    ASSUME NEW x \in [alive : BOOLEAN, cancelled : BOOLEAN, child : NoChild..(MaxEdits + 1)],
           NEW w, w = [x EXCEPT !.cancelled = @ \/ x.alive]
    PROVE  /\ w \in [alive : BOOLEAN, cancelled : BOOLEAN, child : NoChild..(MaxEdits + 1)]
           /\ w.alive = x.alive
           /\ w.child = x.child
           /\ x.alive => w.cancelled = TRUE
           /\ ~x.alive => w = x
<1>1. CASE x.alive
  <2>1. w = [x EXCEPT !.cancelled = TRUE]
    BY <1>1
  <2>2. QED
    BY <1>1, <2>1
<1>2. CASE ~x.alive
  <2>1. w = [x EXCEPT !.cancelled = x.cancelled]
    BY <1>2
  <2>2. w = x
    BY <2>1
  <2>3. QED
    BY <1>2, <2>2
<1>3. QED
  BY <1>1, <1>2

\* stopManagedWorker cancels at most the worker it waits for, and no worker
\* ends, begins or changes its process by it.
LEMMA StoppingFacts ==
    ASSUME ManagerInv, NEW i \in Instance, NEW why \in {"remove", "disable", "replace"},
           Exists(i), Stopping(i, why), UNCHANGED <<table, down>>
    PROVE  /\ worker' \in [Instance -> [Slot ->
                  [alive : BOOLEAN, cancelled : BOOLEAN, child : NoChild..(MaxEdits + 1)]]]
           /\ \A j \in Instance, s \in Slot : Accounted(j, s)'
           /\ pc' = "stop" /\ stop' = [at |-> i, why |-> why]
<1> DEFINE t == table[i].slot
           w == [worker[i][t] EXCEPT !.cancelled = @ \/ worker[i][t].alive]
<1>1. t \in Slot
  BY DEF ManagerInv, SupervisorTypeOK, Exists
<1>2. worker' = [worker EXCEPT ![i] = [worker[i] EXCEPT ![t] = w]]
  BY <1>1 DEF Stopping, ManagerInv, SupervisorTypeOK
<1>3. worker[i][t] \in [alive : BOOLEAN, cancelled : BOOLEAN, child : NoChild..(MaxEdits + 1)]
  BY <1>1 DEF ManagerInv, SupervisorTypeOK
<1> HIDE DEF w
<1>4. /\ w \in [alive : BOOLEAN, cancelled : BOOLEAN, child : NoChild..(MaxEdits + 1)]
      /\ w.alive = worker[i][t].alive
      /\ w.alive => w.cancelled = TRUE
      /\ ~w.alive => w = worker[i][t]
  BY <1>3, CancelFacts DEF w
<1>5. pc' = "stop" /\ stop' = [at |-> i, why |-> why]
  BY DEF Stopping
<1>6. ASSUME NEW j \in Instance, NEW s \in Slot PROVE Accounted(j, s)'
  <2>1. CASE j = i /\ s = t
    <3>1. worker'[j][s] = w
      BY <1>1, <1>2, <2>1 DEF ManagerInv, SupervisorTypeOK
    <3>2. QED
      BY <1>1, <1>4, <1>5, <2>1, <3>1 DEF ManagerInv, SupervisorTypeOK, Accounted
  <2>2. CASE j # i \/ s # t
    <3>1. worker'[j][s] = worker[j][s]
      BY <1>1, <1>2, <2>2 DEF ManagerInv, SupervisorTypeOK
    <3>2. QED
      BY <1>5, <3>1 DEF ManagerInv, SupervisorTypeOK, Accounted
  <2>3. QED
    BY <2>1, <2>2
<1>7. QED
  BY <1>1, <1>2, <1>4, <1>5, <1>6 DEF ManagerInv, SupervisorTypeOK

\* startManagedWorker is called when the instance has no worker that is alive;
\* the new one is the only one, and is the one in the table.
LEMMA StartedFacts ==
    ASSUME ManagerInv, NEW i \in Instance, Started(i), UNCHANGED down,
           \A s \in Slot : ~worker[i][s].alive, pc # "ended", pc' # "ended"
    PROVE  /\ worker' \in [Instance -> [Slot ->
                  [alive : BOOLEAN, cancelled : BOOLEAN, child : NoChild..(MaxEdits + 1)]]]
           /\ table' \in [Instance -> [slot : Slot \cup {NoSlot}, sig : Signatures]]
           /\ \A j \in Instance, s \in Slot : Accounted(j, s)'
<1> DEFINE t == CHOOSE s \in Slot : ~worker[i][s].alive
           w == [alive |-> TRUE, cancelled |-> down, child |-> NoChild]
<1>1. t \in Slot
  BY DEF Slot
<1>2. worker' = [worker EXCEPT ![i] = [worker[i] EXCEPT ![t] = w]]
  BY <1>1 DEF Started, ManagerInv, SupervisorTypeOK
<1>3. table' = [table EXCEPT ![i] = [slot |-> t, sig |-> seen[i].sig]]
  BY DEF Started
<1>4. w \in [alive : BOOLEAN, cancelled : BOOLEAN, child : NoChild..(MaxEdits + 1)]
  BY SupervisorAssumption DEF ManagerInv, SupervisorTypeOK, NoChild
<1>5. ASSUME NEW j \in Instance, NEW s \in Slot PROVE Accounted(j, s)'
  <2>1. CASE j = i /\ s = t
    <3>1. worker'[j][s] = w /\ table'[j].slot = t
      BY <1>1, <1>2, <1>3, <2>1 DEF ManagerInv, SupervisorTypeOK
    <3>2. w.alive = TRUE /\ w.cancelled = down /\ (down => down = TRUE)
      BY DEF ManagerInv, SupervisorTypeOK
    <3>3. QED
      BY <2>1, <3>1, <3>2 DEF Accounted
  <2>2. CASE j = i /\ s # t
    <3>1. worker'[j][s] = worker[j][s]
      BY <1>1, <1>2, <2>2 DEF ManagerInv, SupervisorTypeOK
    <3>2. QED
      BY <2>2, <3>1 DEF ManagerInv, SupervisorTypeOK, Accounted
  <2>3. CASE j # i
    <3>1. worker'[j][s] = worker[j][s] /\ table'[j] = table[j]
      BY <1>1, <1>2, <1>3, <2>3 DEF ManagerInv, SupervisorTypeOK
    <3>2. QED
      BY <3>1 DEF ManagerInv, SupervisorTypeOK, Accounted
  <2>4. QED
    BY <2>1, <2>2, <2>3
<1>6. QED
  BY <1>1, <1>2, <1>3, <1>4, <1>5 DEF ManagerInv, SupervisorTypeOK

-----------------------------------------------------------------------------
(* The invariant is inductive *)

\* It holds when the manager starts, with an empty table.
LEMMA ManagerInit == Init => ManagerInv
<1> SUFFICES ASSUME Init PROVE ManagerInv
  OBVIOUS
<1> USE SupervisorAssumption DEF Init
<1>1. file \in [Instance -> Content]
  <2>1. 1 \in 0..(MaxEdits + 1)
    OBVIOUS
  <2>2. Profile(1, "none", FALSE) \in Content
    BY <2>1, ProfileFacts
  <2>3. QED
    BY <2>2, NoProfileFacts
<1>2. Signature(Absent) \in Signatures
  BY NoProfileFacts
<1>3. seen \in [Instance -> [step : {"unseen", "signed", "seen"},
           sig : Signatures, verdict : {"none", "error", "disabled", "run"}]]
  BY <1>2 DEF Unseen
<1>4. table \in [Instance -> [slot : Slot \cup {NoSlot}, sig : Signatures]]
  BY <1>2 DEF NoWorker
<1>5. stop \in [at : IF pc = "stop" THEN Instance ELSE {Idle.at},
                why : {"none", "remove", "disable", "replace"}]
  BY DEF Idle
<1>6. worker \in [Instance -> [Slot ->
           [alive : BOOLEAN, cancelled : BOOLEAN, child : NoChild..(MaxEdits + 1)]]]
  BY DEF Resting, NoChild
<1>7. \A i \in Instance, s \in Slot : Accounted(i, s)
  BY DEF Accounted, Resting
<1>8. edits \in 1..(MaxEdits + 1) /\ restored \subseteq Instance /\ todo \subseteq Instance
  OBVIOUS
<1>9. SupervisorTypeOK
  BY <1>1, <1>3, <1>4, <1>5, <1>6, <1>7, <1>8, Zenon DEF SupervisorTypeOK
<1>10. QED
  BY <1>9 DEF ManagerInv, StopsItsOwn

\* Writing, restoring, disabling and deleting a profile, and a coordinator's state file.
LEMMA FileSteps ==
    ASSUME ManagerInv, NEW i \in Instance, Files(i)
    PROVE  ManagerInv'
<1>1. file' \in [Instance -> Content] /\ edits' \in 1..(MaxEdits + 1)
  <2> USE SupervisorAssumption DEF ManagerInv, SupervisorTypeOK
  <2>1. ASSUME NEW d \in Defect, Edit(i, d)
        PROVE  file' \in [Instance -> Content] /\ edits' \in 1..(MaxEdits + 1)
    <3>1. file[i].disabled \in BOOLEAN
      BY DEF Content
    <3>2. edits + 1 \in 0..(MaxEdits + 1) /\ edits + 1 \in 1..(MaxEdits + 1)
      BY <2>1 DEF Edit
    <3>3. Profile(edits + 1, d, file[i].disabled) \in Content
      BY <3>1, <3>2, ProfileFacts
    <3>4. QED
      BY <2>1, <3>2, <3>3 DEF Edit
  <2>2. CASE SetDisabled(i)
    <3>1. [file[i] EXCEPT !.disabled = ~@] \in Content
      <4> HIDE SupervisorAssumption DEF ManagerInv
      <4>1. file[i] \in Content
        BY DEF ManagerInv
      <4> HIDE DEF SupervisorTypeOK
      <4>2. QED
        BY <4>1 DEF Content
    <3>2. QED
      BY <2>2, <3>1 DEF SetDisabled
  <2>3. CASE Uninstall(i)
    BY <2>3, NoProfileFacts DEF Uninstall
  <2>4. CASE StateWritten(i)
    BY <2>4, NoProfileFacts DEF StateWritten
  <2>5. CASE Restore(i)
    <3>1. 1 \in 0..(MaxEdits + 1) /\ edits + 1 \in 1..(MaxEdits + 1)
      BY <2>5 DEF Restore
    <3>2. Profile(1, "none", FALSE) \in Content
      BY <3>1, ProfileFacts
    <3>3. QED
      BY <2>5, <3>1, <3>2 DEF Restore
  <2>6. QED
    BY <2>1, <2>2, <2>3, <2>4, <2>5 DEF Files
<1>2. UNCHANGED <<managerVars, worker>> /\ restored' \subseteq Instance
  BY DEF ManagerInv, SupervisorTypeOK, Files, Edit, Restore, SetDisabled, Uninstall, StateWritten
<1>3. QED
  BY <1>1, <1>2
  DEF ManagerInv, SupervisorTypeOK, StopsItsOwn, Accounted, Exists, managerVars

\* A process starts and exits, and a worker that is cancelled returns.
LEMMA WorkerSteps ==
    ASSUME ManagerInv, NEW i \in Instance, NEW t \in Slot, Worker(i, t)
    PROVE  ManagerInv'
<1>1. PICK w \in [alive : BOOLEAN, cancelled : BOOLEAN, child : NoChild..(MaxEdits + 1)] :
          /\ worker' = [worker EXCEPT ![i] = [worker[i] EXCEPT ![t] = w]]
          /\ w.alive => worker[i][t].alive /\ w.cancelled = worker[i][t].cancelled
          /\ ~w.alive => w = Resting
  <2> USE DEF ManagerInv, SupervisorTypeOK
  <2>1. ASSUME NEW c \in NoChild..(MaxEdits + 1), worker[i][t].alive,
               worker' = [worker EXCEPT ![i][t].child = c]
        PROVE  \E w \in [alive : BOOLEAN, cancelled : BOOLEAN, child : NoChild..(MaxEdits + 1)] :
                   /\ worker' = [worker EXCEPT ![i] = [worker[i] EXCEPT ![t] = w]]
                   /\ w.alive => worker[i][t].alive /\ w.cancelled = worker[i][t].cancelled
                   /\ ~w.alive => w = Resting
    <3> DEFINE w == [worker[i][t] EXCEPT !.child = c]
    <3>1. worker' = [worker EXCEPT ![i] = [worker[i] EXCEPT ![t] = w]]
      BY <2>1
    <3>2. w \in [alive : BOOLEAN, cancelled : BOOLEAN, child : NoChild..(MaxEdits + 1)]
      <4>1. worker[i][t] \in [alive : BOOLEAN, cancelled : BOOLEAN, child : NoChild..(MaxEdits + 1)]
        OBVIOUS
      <4> HIDE DEF ManagerInv, SupervisorTypeOK
      <4>2. QED
        BY <2>1, <4>1
    <3>3. w.alive /\ w.cancelled = worker[i][t].cancelled
      BY <2>1
    <3>4. QED
      BY <2>1, <3>1, <3>2, <3>3
  <2>2. CASE Launch(i, t)
    <3>1. file[i].v \in NoChild..(MaxEdits + 1)
      BY SupervisorAssumption DEF Content, NoChild
    <3>2. QED
      BY <2>1, <2>2, <3>1 DEF Launch
  <2>3. CASE ChildExits(i, t)
    <3>1. NoChild \in NoChild..(MaxEdits + 1)
      BY SupervisorAssumption DEF NoChild
    <3>2. worker[i][t].alive
      BY <2>3 DEF ChildExits, Accounted, Resting
    <3>3. QED
      BY <2>1, <2>3, <3>1, <3>2 DEF ChildExits
  <2>4. CASE WorkerEnds(i, t)
    <3>1. Resting \in [alive : BOOLEAN, cancelled : BOOLEAN, child : NoChild..(MaxEdits + 1)]
      BY SupervisorAssumption DEF Resting, NoChild
    <3>2. ~Resting.alive
      BY DEF Resting
    <3>3. worker' = [worker EXCEPT ![i] = [worker[i] EXCEPT ![t] = Resting]]
      BY <2>4 DEF WorkerEnds
    <3>4. QED
      BY <3>1, <3>2, <3>3
  <2>5. QED
    BY <2>2, <2>3, <2>4 DEF Worker
<1>2. UNCHANGED <<fileVars, managerVars>>
  BY DEF Worker, Launch, ChildExits, WorkerEnds
<1>3. ASSUME NEW j \in Instance, NEW s \in Slot PROVE Accounted(j, s)'
  <2>1. CASE j = i /\ s = t
    <3>1. worker'[j][s] = w
      BY <1>1, <2>1 DEF ManagerInv, SupervisorTypeOK
    <3>2. w.alive => Accounted(j, s)'
      BY <1>1, <1>2, <2>1, <3>1 DEF ManagerInv, SupervisorTypeOK, Accounted, managerVars
    <3>3. ~w.alive => Accounted(j, s)'
      <4>1. Resting.alive = FALSE /\ Resting.cancelled = FALSE
        BY DEF Resting
      <4>2. QED
        BY <1>1, <3>1, <4>1 DEF Accounted
    <3>4. QED
      BY <3>2, <3>3
  <2>2. CASE j # i \/ s # t
    <3>1. worker'[j][s] = worker[j][s]
      BY <1>1, <2>2 DEF ManagerInv, SupervisorTypeOK
    <3>2. QED
      BY <1>2, <3>1 DEF ManagerInv, SupervisorTypeOK, Accounted, managerVars
  <2>3. QED
    BY <2>1, <2>2
<1>4. worker' \in [Instance -> [Slot ->
          [alive : BOOLEAN, cancelled : BOOLEAN, child : NoChild..(MaxEdits + 1)]]]
  BY <1>1 DEF ManagerInv, SupervisorTypeOK
<1>5. SupervisorTypeOK'
  BY <1>2, <1>3, <1>4 DEF ManagerInv, SupervisorTypeOK, fileVars, managerVars
<1>6. QED
  BY <1>2, <1>5 DEF ManagerInv, StopsItsOwn, Exists, managerVars

\* The scan and the steps of reconcile that leave the workers alone.
LEMMA ScanSteps ==
    ASSUME ManagerInv,
           \/ \E i \in Instance : Sign(i) \/ Load(i) \/ Keep(i)
           \/ Tick \/ Scanned \/ Removed
           \/ Settled \/ SettleCut \/ Applied \/ ShutDown \/ Ended \/ StopGivesUp
    PROVE  ManagerInv'
<1> DEFINE Seen == [step : {"unseen", "signed", "seen"}, sig : Signatures,
                    verdict : {"none", "error", "disabled", "run"}]
<1>1. seen' \in [Instance -> Seen]
  <2>1. seen \in [Instance -> Seen] /\ file \in [Instance -> Content]
    BY DEF ManagerInv, SupervisorTypeOK
  <2>2. CASE Tick
    BY <2>2, NoProfileFacts DEF Tick, Unseen
  <2>3. ASSUME NEW i \in Instance, Sign(i) PROVE seen' \in [Instance -> Seen]
    <3>1. CASE file[i].kind = "profile"
      <4>1. Signature(file[i]) \in Signatures
        BY <2>1, ContentFacts
      <4>2. seen' = [seen EXCEPT ![i] =
                       [step |-> "signed", sig |-> Signature(file[i]), verdict |-> "none"]]
        BY <2>3, <3>1 DEF Sign
      <4>3. QED
        BY <2>1, <4>1, <4>2
    <3>2. CASE file[i].kind # "profile"
      BY <2>1, <2>3, <3>2 DEF Sign
    <3>3. QED
      BY <3>1, <3>2
  <2>4. ASSUME NEW i \in Instance, Load(i) PROVE seen' \in [Instance -> Seen]
    BY <2>1, <2>4, ContentFacts DEF Load
  <2>5. CASE UNCHANGED seen
    BY <2>1, <2>5
  <2>6. QED
    BY <2>2, <2>3, <2>4, <2>5
    DEF Scanned, Removed, Keep, NextUp, Settled, SettleCut, Applied, ShutDown, Ended, StopGivesUp
<1>2. /\ todo' \subseteq Instance
      /\ pc' \in {"idle", "scan", "remove", "apply", "waiting", "ended"}
      /\ stop' = IF pc = "stop" THEN Idle ELSE stop
      /\ pc # "ended"
      /\ UNCHANGED <<fileVars, table, worker, down>>
  BY DEF ManagerInv, SupervisorTypeOK, Tick, Sign, Load, Scanned, Removed, Keep, NextUp,
         Settled, SettleCut, Applied, ShutDown, Ended, StopGivesUp
<1>3. pc' = "ended" => \A j \in Instance, s \in Slot : ~worker[j][s].alive
  BY DEF Tick, Sign, Load, Scanned, Removed, Keep, NextUp,
         Settled, SettleCut, Applied, ShutDown, Ended, StopGivesUp
<1>4. \A j \in Instance, s \in Slot : Accounted(j, s)'
  BY <1>2, <1>3 DEF ManagerInv, SupervisorTypeOK, Accounted
<1>5. stop' \in [at : IF pc' = "stop" THEN Instance ELSE {Idle.at},
                 why : {"none", "remove", "disable", "replace"}]
  BY <1>2 DEF ManagerInv, SupervisorTypeOK, Idle
<1>6. SupervisorTypeOK'
  BY <1>1, <1>2, <1>4, <1>5 DEF ManagerInv, SupervisorTypeOK, fileVars
<1>7. pc' = "remove" => \A j \in todo' : Exists(j)
  BY DEF ManagerInv, StopsItsOwn, Tick, Sign, Load, Scanned, Removed, Keep, NextUp,
         Settled, SettleCut, Applied, ShutDown, Ended, StopGivesUp
<1>8. QED
  BY <1>2, <1>6, <1>7 DEF ManagerInv, StopsItsOwn, Exists

\* stopManagedWorker begins: the instance that is gone, disabled or changed has
\* an entry in the table.
LEMMA StopSteps ==
    ASSUME ManagerInv, NEW i \in Instance,
           RemoveNext(i) \/ StopDisabled(i) \/ StopReplaced(i)
    PROVE  ManagerInv'
<1>1. PICK why \in {"remove", "disable", "replace"} :
          /\ Stopping(i, why)
          /\ why = "remove" => \A j \in todo : Exists(j)
  BY DEF RemoveNext, StopDisabled, StopReplaced, ManagerInv, StopsItsOwn
<1>2. Exists(i) /\ todo' = todo \ {i} /\ UNCHANGED <<fileVars, seen, table, down>>
  BY DEF RemoveNext, StopDisabled, StopReplaced, NextUp, Kept, ManagerInv, StopsItsOwn
<1>3. /\ worker' \in [Instance -> [Slot ->
             [alive : BOOLEAN, cancelled : BOOLEAN, child : NoChild..(MaxEdits + 1)]]]
      /\ \A j \in Instance, s \in Slot : Accounted(j, s)'
      /\ pc' = "stop" /\ stop' = [at |-> i, why |-> why]
  BY <1>1, <1>2, StoppingFacts
<1>4. SupervisorTypeOK'
  BY <1>2, <1>3 DEF ManagerInv, SupervisorTypeOK, fileVars
<1>5. QED
  BY <1>1, <1>2, <1>3, <1>4 DEF ManagerInv, StopsItsOwn, Exists

\* A worker starts: for an instance that has none, or after the worker of the
\* instance has returned.
LEMMA StartSteps ==
    ASSUME ManagerInv, (\E i \in Instance : StartNew(i)) \/ StopSucceeds
    PROVE  ManagerInv'
<1>1. ASSUME NEW i \in Instance, Started(i), UNCHANGED <<fileVars, seen, down>>,
             \A s \in Slot : ~worker[i][s].alive, pc # "ended", pc' = Settling(i),
             stop' \in [at : {Idle.at}, why : {"none", "remove", "disable", "replace"}],
             todo' \subseteq Instance
      PROVE  ManagerInv'
  <2>1. pc' \in {"settle", "apply"}
    BY <1>1 DEF Settling
  <2>2. /\ worker' \in [Instance -> [Slot ->
               [alive : BOOLEAN, cancelled : BOOLEAN, child : NoChild..(MaxEdits + 1)]]]
        /\ table' \in [Instance -> [slot : Slot \cup {NoSlot}, sig : Signatures]]
        /\ \A j \in Instance, s \in Slot : Accounted(j, s)'
    BY <1>1, <2>1, StartedFacts
  <2>3. stop' \in [at : IF pc' = "stop" THEN Instance ELSE {Idle.at},
                   why : {"none", "remove", "disable", "replace"}]
    BY <1>1, <2>1
  <2>4. SupervisorTypeOK'
    BY <1>1, <2>1, <2>2, <2>3 DEF ManagerInv, SupervisorTypeOK, fileVars
  <2>5. QED
    BY <2>1, <2>4 DEF ManagerInv, StopsItsOwn
<1>2. ASSUME NEW i \in Instance, StartNew(i) PROVE ManagerInv'
  <2>1. \A s \in Slot : ~worker[i][s].alive
    BY <1>2 DEF StartNew, ManagerInv, SupervisorTypeOK, Accounted, Exists, Slot, NoSlot
  <2>2. stop \in [at : {Idle.at}, why : {"none", "remove", "disable", "replace"}]
    BY <1>2 DEF StartNew, NextUp, ManagerInv, SupervisorTypeOK, Idle
  <2>3. QED
    BY <1>1, <1>2, <2>1, <2>2 DEF StartNew, NextUp, ManagerInv, SupervisorTypeOK
<1>3. CASE StopSucceeds
  <2> DEFINE i == stop.at
  <2>1. i \in Instance /\ Exists(i)
    BY <1>3 DEF StopSucceeds, ManagerInv, SupervisorTypeOK, StopsItsOwn
  <2>2. \A s \in Slot : ~worker[i][s].alive
    BY <1>3, <2>1 DEF StopSucceeds, Done, ManagerInv, SupervisorTypeOK, Accounted
  <2>3. CASE stop.why = "replace"
    BY <1>1, <1>3, <2>1, <2>2, <2>3 DEF StopSucceeds, ManagerInv, SupervisorTypeOK, Idle
  <2>4. CASE stop.why # "replace"
    <3>1. /\ table' = [table EXCEPT ![i] = NoWorker]
          /\ pc' = IF stop.why = "remove" THEN "remove" ELSE "apply"
          /\ stop' = Idle
          /\ UNCHANGED <<fileVars, todo, seen, worker, down>>
      BY <1>3, <2>4 DEF StopSucceeds
    <3>2. NoWorker \in [slot : Slot \cup {NoSlot}, sig : Signatures]
      BY NoProfileFacts DEF NoWorker
    <3>3. ASSUME NEW j \in Instance, NEW s \in Slot PROVE Accounted(j, s)'
      <4>1. CASE j = i
        BY <2>2, <3>1, <4>1 DEF ManagerInv, SupervisorTypeOK, Accounted
      <4>2. CASE j # i
        BY <3>1, <4>2 DEF ManagerInv, SupervisorTypeOK, Accounted
      <4>3. QED
        BY <4>1, <4>2
    <3>4. stop' \in [at : IF pc' = "stop" THEN Instance ELSE {Idle.at},
                     why : {"none", "remove", "disable", "replace"}]
      BY <3>1 DEF Idle
    <3>5. SupervisorTypeOK'
      BY <2>1, <3>1, <3>2, <3>3, <3>4 DEF ManagerInv, SupervisorTypeOK, fileVars
    <3>6. pc' = "remove" => \A j \in todo' : Exists(j)'
      BY <1>3, <2>1, <3>1 DEF StopSucceeds, ManagerInv, StopsItsOwn, SupervisorTypeOK, Exists
    <3>7. QED
      BY <3>1, <3>5, <3>6 DEF ManagerInv, StopsItsOwn
  <2>5. QED
    BY <2>3, <2>4
<1>4. QED
  BY <1>2, <1>3

\* The signal cancels the context of every worker that is alive.
LEMMA SignalStep ==
    ASSUME ManagerInv, Signal
    PROVE  ManagerInv'
<1> DEFINE W == [alive : BOOLEAN, cancelled : BOOLEAN, child : NoChild..(MaxEdits + 1)]
<1>1. ASSUME NEW j \in Instance, NEW s \in Slot
      PROVE  /\ worker'[j][s] \in W
             /\ worker'[j][s].alive = worker[j][s].alive
             /\ worker'[j][s].cancelled = worker[j][s].alive
             /\ ~worker[j][s].alive => worker'[j][s] = Resting
  <2>1. worker'[j][s] = [worker[j][s] EXCEPT !.cancelled = worker[j][s].alive]
    BY DEF Signal
  <2>2. worker[j][s] \in W /\ (~worker[j][s].alive => worker[j][s] = Resting)
    BY DEF ManagerInv, SupervisorTypeOK, Accounted
  <2>3. QED
    BY <2>1, <2>2 DEF Resting
<1>2. worker' \in [Instance -> [Slot -> W]]
  BY <1>1 DEF Signal
<1>3. ASSUME NEW j \in Instance, NEW s \in Slot PROVE Accounted(j, s)'
  <2>1. pc' = pc /\ table' = table
    BY DEF Signal
  <2>2. worker'[j][s].cancelled = worker'[j][s].alive
    BY <1>1
  <2>3. worker'[j][s].alive => table'[j].slot = s /\ pc' # "ended"
    BY <1>1, <2>1 DEF ManagerInv, SupervisorTypeOK, Accounted
  <2>4. ~worker'[j][s].alive => worker'[j][s] = Resting
    BY <1>1
  <2>5. QED
    BY <2>2, <2>3, <2>4 DEF Accounted
<1>4. SupervisorTypeOK'
  BY <1>2, <1>3 DEF Signal, ManagerInv, SupervisorTypeOK, fileVars
<1>5. QED
  BY <1>4 DEF Signal, ManagerInv, StopsItsOwn, Exists

-----------------------------------------------------------------------------
(* Theorems *)

\* The manager, its workers and the writers of the profiles keep the inductive
\* invariant in every interleaving.
THEOREM ManagerInvariant == Spec => []ManagerInv
<1>1. ASSUME ManagerInv, [Next]_vars PROVE ManagerInv'
  <2>1. CASE UNCHANGED vars
    BY <1>1, <2>1 DEF vars, ManagerInv, SupervisorTypeOK, StopsItsOwn, Accounted, Exists
  <2>2. CASE Manager
    <3>1. ASSUME NEW i \in Instance, Reconcile(i) PROVE ManagerInv'
      BY <1>1, <3>1, ScanSteps, StopSteps, StartSteps DEF Reconcile
    <3>2. CASE StopSucceeds
      BY <1>1, <3>2, StartSteps
    <3>3. CASE Tick \/ Scanned \/ Removed \/ Settled \/ SettleCut \/ Applied \/ ShutDown
               \/ Ended \/ StopGivesUp
      BY <1>1, <3>3, ScanSteps
    <3>4. QED
      BY <2>2, <3>1, <3>2, <3>3 DEF Manager, Stop
  <2>3. CASE Signal
    BY <1>1, <2>3, SignalStep
  <2>4. CASE \E i \in Instance, s \in Slot : Worker(i, s)
    BY <1>1, <2>4, WorkerSteps
  <2>5. CASE \E i \in Instance : Files(i)
    BY <1>1, <2>5, FileSteps
  <2>6. QED
    BY <1>1, <2>1, <2>2, <2>3, <2>4, <2>5 DEF Next
<1>2. QED
  BY <1>1, ManagerInit, PTL DEF Spec

\* The table is accurate: a worker that is alive is the one its instance has in
\* the table, and the manager ends only when none is left.
THEOREM SupervisorTypeCorrect == Spec => []SupervisorTypeOK
<1>1. ManagerInv => SupervisorTypeOK
  BY DEF ManagerInv
<1>2. QED
  BY <1>1, ManagerInvariant, PTL

\* Two processes of one node never run at a time.
THEOREM OneProcessAtATime == Spec => []OneProcess
<1>1. ASSUME ManagerInv, NEW i \in Instance
      PROVE  Cardinality({s \in Slot : worker[i][s].child # NoChild}) <= 1
  <2>1. {s \in Slot : worker[i][s].child # NoChild} \subseteq {table[i].slot}
    BY <1>1 DEF ManagerInv, SupervisorTypeOK, Accounted, Resting
  <2>2. IsFiniteSet({table[i].slot}) /\ Cardinality({table[i].slot}) = 1
    BY FS_Singleton
  <2>3. QED
    BY <2>1, <2>2, FS_Subset
<1>2. ManagerInv => OneProcess
  BY <1>1 DEF OneProcess
<1>3. QED
  BY <1>2, ManagerInvariant, PTL

=============================================================================
