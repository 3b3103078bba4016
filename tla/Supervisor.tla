----------------------------- MODULE Supervisor -----------------------------
(***************************************************************************)
(* The node manager (superviseProfiles): every five seconds it reads the   *)
(* profiles under nodes/, compares them with its table of workers and      *)
(* stops, starts or replaces them.  Each worker is a goroutine             *)
(* (superviseProfile) that keeps one process of a node running and starts  *)
(* it again when it exits.  The command line edits, disables and deletes   *)
(* profiles meanwhile, and a node's process writes beside its profile.     *)
(*                                                                         *)
(*   file    what nodes/<instance>/ holds                                  *)
(*   edits   the writes so far; a new profile has a version of its own     *)
(*   restored  ghost: the instances whose first profile was put back       *)
(*   pc      where the manager is in reconcile or in its select            *)
(*   todo    the instances its present loop still has to visit             *)
(*   seen    the candidate managedProfiles built for each instance         *)
(*   stop    the worker stopManagedWorker waits for, and what for          *)
(*   table   workers: the slot and the signature of each instance's worker *)
(*   worker  the goroutines: alive until done is closed, cancelled when    *)
(*           their context is, child the version their process has read    *)
(*   down    whether the manager's own context is cancelled                *)
(***************************************************************************)
EXTENDS Integers, FiniteSets

CONSTANTS
    Instance,      \* the node instances
    Coordinators,  \* those that run a coordinator
    Defect,        \* what may be wrong with a profile somebody saves
    MaxEdits       \* bound on the writes of the command line

ASSUME SupervisorAssumption ==
    /\ Coordinators \subseteq Instance
    /\ "none" \in Defect
    /\ Defect \subseteq {"none", "parse", "instance", "static"}
    /\ MaxEdits \in Nat

VARIABLES file, edits, restored, pc, todo, seen, stop, table, worker, down

vars == <<file, edits, restored, pc, todo, seen, stop, table, worker, down>>

fileVars == <<file, edits, restored>>
managerVars == <<pc, todo, seen, stop, table, down>>

\* A second slot is needed only if a worker is started beside a running one.
Slot == {1, 2}

NoSlot == 0

\* The version a process has read: none is running, or it found no profile and
\* runs the empty client loadProfile returns.
NoChild == -1

NoProfile == 0

Absent == [kind |-> "absent", v |-> NoProfile, defect |-> "none", disabled |-> FALSE]

\* A directory without profile.json.
Bare == [Absent EXCEPT !.kind = "bare"]

Profile(v, defect, disabled) ==
    [kind |-> "profile", v |-> v, defect |-> defect, disabled |-> disabled]

\* The hash of the bytes: a version and its disabled flag.
Signature(content) == <<content.v, content.disabled>>

Unseen == [step |-> "unseen", sig |-> Signature(Absent), verdict |-> "none"]

NoWorker == [slot |-> NoSlot, sig |-> Signature(Absent)]

Resting == [alive |-> FALSE, cancelled |-> FALSE, child |-> NoChild]

Idle == [at |-> "nobody", why |-> "none"]

Init ==
    /\ file \in [Instance -> {Absent, Profile(1, "none", FALSE)}]
    /\ edits = 1
    /\ restored = {}
    /\ pc = "idle"
    /\ todo = {}
    /\ seen = [i \in Instance |-> Unseen]
    /\ stop = Idle
    /\ table = [i \in Instance |-> NoWorker]
    /\ worker = [i \in Instance |-> [s \in Slot |-> Resting]]
    /\ down = FALSE

-----------------------------------------------------------------------------
(* The profiles and who writes them *)

\* loadProfile: a missing file is a default profile, not an error.
Loads(content) == content.defect # "parse"

\* managedProfiles and validateManagedProfile on a profile that was read: a
\* disabled one is not checked any further than its name.
Verdict(content) ==
    IF content.kind # "profile" \/ content.defect \in {"parse", "instance"} THEN "error"
    ELSE IF content.disabled THEN "disabled"
    ELSE IF content.defect = "static" THEN "error"
    ELSE "run"

\* saveProfile, by any command that adds or changes a node, or an editor.
Edit(i, defect) ==
    /\ edits <= MaxEdits
    /\ edits' = edits + 1
    /\ file' = [file EXCEPT ![i] = Profile(edits + 1, defect, @.disabled)]
    /\ UNCHANGED <<restored, managerVars, worker>>

\* The same write puts the profile back as it first was: its hash is the old one.
Restore(i) ==
    /\ edits <= MaxEdits
    /\ edits' = edits + 1
    /\ file' = [file EXCEPT ![i] = Profile(1, "none", FALSE)]
    /\ restored' = restored \cup {i}
    /\ UNCHANGED <<managerVars, worker>>

\* setNodeDisabled, to the other value: the actions start and stop.
SetDisabled(i) ==
    /\ edits <= MaxEdits
    /\ file[i].kind = "profile"
    /\ Loads(file[i])
    /\ edits' = edits + 1
    /\ file' = [file EXCEPT ![i].disabled = ~@]
    /\ UNCHANGED <<restored, managerVars, worker>>

Uninstall(i) ==
    /\ edits <= MaxEdits
    /\ file[i].kind # "absent"
    /\ edits' = edits + 1
    /\ file' = [file EXCEPT ![i] = Absent]
    /\ UNCHANGED <<restored, managerVars, worker>>

\* persistLocked of a coordinator that runs: it makes the directory of its state
\* file when that is gone.
StateWritten(i) ==
    /\ i \in Coordinators
    /\ file[i].kind = "absent"
    /\ \E s \in Slot : worker[i][s].child > NoProfile
    /\ file' = [file EXCEPT ![i] = Bare]
    /\ UNCHANGED <<edits, restored, managerVars, worker>>

-----------------------------------------------------------------------------
(* The workers: superviseProfile *)

\* The process is started and reads the profile itself.
Launch(i, s) ==
    /\ worker[i][s].alive
    /\ ~worker[i][s].cancelled
    /\ worker[i][s].child = NoChild
    /\ Loads(file[i])
    /\ worker' = [worker EXCEPT ![i][s].child = file[i].v]
    /\ UNCHANGED <<fileVars, managerVars>>

\* The process exits by itself; the worker waits and starts it again.
ChildExits(i, s) ==
    /\ worker[i][s].child # NoChild
    /\ ~worker[i][s].cancelled
    /\ worker' = [worker EXCEPT ![i][s].child = NoChild]
    /\ UNCHANGED <<fileVars, managerVars>>

\* Mutant: the wait before the next start does not watch the context, and the
\* loop does not look at it again.
WorkerEndsRunning(i, s) ==
    /\ worker[i][s].child # NoChild
    /\ worker[i][s].cancelled
    /\ worker' = [worker EXCEPT ![i][s] = Resting]
    /\ UNCHANGED <<fileVars, managerVars>>

\* A cancelled context interrupts the process, kills it in the end, and closes
\* done once it has exited.
WorkerEnds(i, s) ==
    /\ worker[i][s].alive
    /\ worker[i][s].cancelled
    /\ worker' = [worker EXCEPT ![i][s] = Resting]
    /\ UNCHANGED <<fileVars, managerVars>>

Done(i) == ~worker[i][table[i].slot].alive

Exists(i) == table[i].slot # NoSlot

\* Mutant: the context is derived from the background context.
StartedDetached(i) ==
    LET s == CHOOSE s \in Slot : ~worker[i][s].alive
    IN  /\ table' = [table EXCEPT ![i] = [slot |-> s, sig |-> seen[i].sig]]
        /\ worker' = [worker EXCEPT ![i][s] =
               [alive |-> TRUE, cancelled |-> FALSE, child |-> NoChild]]

\* startManagedWorker: the context is a child of the manager's.
Started(i) ==
    LET s == CHOOSE s \in Slot : ~worker[i][s].alive
    IN  /\ table' = [table EXCEPT ![i] = [slot |-> s, sig |-> seen[i].sig]]
        /\ worker' = [worker EXCEPT ![i][s] =
               [alive |-> TRUE, cancelled |-> down, child |-> NoChild]]

-----------------------------------------------------------------------------
(* managedProfiles: the directory, then two reads of every profile *)

Tick ==
    /\ pc = "idle"
    /\ pc' = "scan"
    /\ todo' = {i \in Instance : file[i].kind # "absent"}
    /\ seen' = [i \in Instance |-> Unseen]
    /\ UNCHANGED <<fileVars, stop, table, worker, down>>

\* The first read: the bytes that are hashed.
Sign(i) ==
    /\ pc = "scan"
    /\ i \in todo
    /\ seen[i].step = "unseen"
    /\ IF file[i].kind = "profile"
         THEN /\ seen' = [seen EXCEPT ![i] =
                     [step |-> "signed", sig |-> Signature(file[i]), verdict |-> "none"]]
              /\ UNCHANGED todo
         ELSE /\ seen' = [seen EXCEPT ![i] = [@ EXCEPT !.step = "seen", !.verdict = "error"]]
              /\ todo' = todo \ {i}
    /\ UNCHANGED <<fileVars, pc, stop, table, worker, down>>

\* The second read: the profile that is checked.
Load(i) ==
    /\ pc = "scan"
    /\ i \in todo
    /\ seen[i].step = "signed"
    /\ seen' = [seen EXCEPT ![i] = [@ EXCEPT !.step = "seen", !.verdict = Verdict(file[i])]]
    /\ todo' = todo \ {i}
    /\ UNCHANGED <<fileVars, pc, stop, table, worker, down>>

Scanned ==
    /\ pc = "scan"
    /\ todo = {}
    /\ pc' = "remove"
    /\ todo' = {i \in Instance : Exists(i) /\ seen[i].step = "unseen"}
    /\ UNCHANGED <<fileVars, seen, stop, table, worker, down>>

-----------------------------------------------------------------------------
(* reconcile *)

\* stopManagedWorker cancels the worker's context and waits.
Stopping(i, why) ==
    /\ worker' = [worker EXCEPT ![i][table[i].slot].cancelled = @ \/ worker[i][table[i].slot].alive]
    /\ stop' = [at |-> i, why |-> why]
    /\ pc' = "stop"

RemoveNext(i) ==
    /\ pc = "remove"
    /\ i \in todo
    /\ todo' = todo \ {i}
    /\ Stopping(i, "remove")
    /\ UNCHANGED <<fileVars, seen, table, down>>

Removed ==
    /\ pc = "remove"
    /\ todo = {}
    /\ pc' = "apply"
    /\ todo' = {i \in Instance : seen[i].step = "seen"}
    /\ UNCHANGED <<fileVars, seen, stop, table, worker, down>>

\* serviceRoleOrder: the coordinators come first.
NextUp(i) ==
    /\ pc = "apply"
    /\ i \in todo
    /\ i \in Coordinators \/ todo \cap Coordinators = {}
    /\ todo' = todo \ {i}

\* Mutant: a worker with the right signature is kept, also when it has ended.
KeptIfSame(i) ==
    \/ seen[i].verdict = "error"
    \/ seen[i].verdict = "disabled" /\ ~Exists(i)
    \/ seen[i].verdict = "run" /\ Exists(i) /\ table[i].sig = seen[i].sig

\* Nothing to do: an invalid profile leaves its worker as it is.
Kept(i) ==
    \/ seen[i].verdict = "error"
    \/ seen[i].verdict = "disabled" /\ ~Exists(i)
    \/ seen[i].verdict = "run" /\ Exists(i) /\ table[i].sig = seen[i].sig /\ ~Done(i)

Keep(i) ==
    /\ NextUp(i)
    /\ Kept(i)
    /\ UNCHANGED <<fileVars, pc, seen, stop, table, worker, down>>

StopDisabled(i) ==
    /\ NextUp(i)
    /\ ~Kept(i)
    /\ seen[i].verdict = "disabled"
    /\ Stopping(i, "disable")
    /\ UNCHANGED <<fileVars, seen, table, down>>

StopReplaced(i) ==
    /\ NextUp(i)
    /\ ~Kept(i)
    /\ seen[i].verdict = "run"
    /\ Exists(i)
    /\ Stopping(i, "replace")
    /\ UNCHANGED <<fileVars, seen, table, down>>

\* After a coordinator the manager waits half a second.
Settling(i) == IF i \in Coordinators THEN "settle" ELSE "apply"

StartNew(i) ==
    /\ NextUp(i)
    /\ ~Kept(i)
    /\ seen[i].verdict = "run"
    /\ ~Exists(i)
    /\ Started(i)
    /\ pc' = Settling(i)
    /\ UNCHANGED <<fileVars, seen, stop, down>>

\* done is closed in time.
StopSucceeds ==
    /\ pc = "stop"
    /\ Done(stop.at)
    /\ IF stop.why = "replace"
         THEN /\ Started(stop.at)
              /\ pc' = Settling(stop.at)
         ELSE /\ table' = [table EXCEPT ![stop.at] = NoWorker]
              /\ pc' = IF stop.why = "remove" THEN "remove" ELSE "apply"
              /\ UNCHANGED worker
    /\ stop' = Idle
    /\ UNCHANGED <<fileVars, todo, seen, down>>

\* Mutant: the answer of stopManagedWorker is ignored.
StopGivesUpAndStarts ==
    /\ pc = "stop"
    /\ ~Done(stop.at) \/ down
    /\ IF stop.why = "replace"
         THEN /\ Started(stop.at)
              /\ pc' = Settling(stop.at)
         ELSE /\ pc' = IF stop.why = "remove" THEN "remove" ELSE "apply"
              /\ UNCHANGED <<table, worker>>
    /\ stop' = Idle
    /\ UNCHANGED <<fileVars, todo, seen, down>>

\* Fifteen seconds pass, or the manager is told to stop: the worker stays in the
\* table, cancelled.
StopGivesUp ==
    /\ pc = "stop"
    /\ ~Done(stop.at) \/ down
    /\ pc' = IF stop.why = "remove" THEN "remove" ELSE "apply"
    /\ stop' = Idle
    /\ UNCHANGED <<fileVars, todo, seen, table, worker, down>>

Settled ==
    /\ pc = "settle"
    /\ pc' = "apply"
    /\ UNCHANGED <<fileVars, todo, seen, stop, table, worker, down>>

\* waitContext is cut short: reconcile returns and leaves the rest.
SettleCut ==
    /\ pc = "settle"
    /\ down
    /\ pc' = "idle"
    /\ todo' = {}
    /\ UNCHANGED <<fileVars, seen, stop, table, worker, down>>

Applied ==
    /\ pc = "apply"
    /\ todo = {}
    /\ pc' = "idle"
    /\ UNCHANGED <<fileVars, todo, seen, stop, table, worker, down>>

-----------------------------------------------------------------------------
(* The end of the manager *)

\* The signal cancels the manager's context and with it every worker's.
Signal ==
    /\ ~down
    /\ down' = TRUE
    /\ worker' = [i \in Instance |-> [s \in Slot |->
           [worker[i][s] EXCEPT !.cancelled = worker[i][s].alive]]]
    /\ UNCHANGED <<fileVars, pc, todo, seen, stop, table>>

\* The select takes ctx.Done, although the ticker may be ready as well.
ShutDown ==
    /\ pc = "idle"
    /\ down
    /\ pc' = "waiting"
    /\ UNCHANGED <<fileVars, todo, seen, stop, table, worker, down>>

\* wait.Wait: every worker that was ever started has returned.
Ended ==
    /\ pc = "waiting"
    /\ \A i \in Instance, s \in Slot : ~worker[i][s].alive
    /\ pc' = "ended"
    /\ UNCHANGED <<fileVars, todo, seen, stop, table, worker, down>>

-----------------------------------------------------------------------------
Reconcile(i) ==
    \/ Sign(i)
    \/ Load(i)
    \/ RemoveNext(i)
    \/ Keep(i)
    \/ StopDisabled(i)
    \/ StopReplaced(i)
    \/ StartNew(i)

Stop == StopSucceeds \/ StopGivesUp

Manager ==
    \/ Tick
    \/ \E i \in Instance : Reconcile(i)
    \/ Stop
    \/ Scanned
    \/ Removed
    \/ Settled
    \/ SettleCut
    \/ Applied
    \/ ShutDown
    \/ Ended

Worker(i, s) ==
    \/ Launch(i, s)
    \/ ChildExits(i, s)
    \/ WorkerEnds(i, s)

Files(i) ==
    \/ \E defect \in Defect : Edit(i, defect)
    \/ Restore(i)
    \/ SetDisabled(i)
    \/ Uninstall(i)
    \/ StateWritten(i)

Next ==
    \/ Manager
    \/ Signal
    \/ \E i \in Instance, s \in Slot : Worker(i, s)
    \/ \E i \in Instance : Files(i)

Spec == Init /\ [][Next]_vars

\* The manager keeps stepping, and a select that may always take ctx.Done takes
\* it in the end; a worker starts its process again after its wait and returns
\* once the kill of its process has succeeded.  Nothing makes anyone edit, delete
\* or signal, nor a process exit by itself.
Fairness ==
    /\ WF_vars(Manager)
    /\ SF_vars(ShutDown)
    /\ \A i \in Instance, s \in Slot :
           WF_vars(Launch(i, s)) /\ WF_vars(WorkerEnds(i, s))

SupervisingSpec == Spec /\ Fairness

-----------------------------------------------------------------------------
(* Properties *)

\* What nodes/<instance>/ can hold.
Content ==
    [kind : {"absent", "bare", "profile"}, v : 0..(MaxEdits + 1),
     defect : {"none", "parse", "instance", "static"}, disabled : BOOLEAN]

Signatures == (0..(MaxEdits + 1)) \X BOOLEAN

\* What the manager's table says of slot s of an instance.
Accounted(i, s) ==
    /\ worker[i][s].alive => table[i].slot = s
    /\ ~worker[i][s].alive => worker[i][s] = Resting
    /\ down => worker[i][s].cancelled = worker[i][s].alive
    /\ pc = "ended" => ~worker[i][s].alive

\* The types of the variables, and that the manager's table is accurate: a worker
\* that is alive is the one its instance has in the table, a signal has reached
\* the context of every worker, also of one started after it, and the manager
\* ends only when no worker is left (superviseProfiles).
SupervisorTypeOK ==
    /\ file \in [Instance -> Content]
    /\ edits \in 1..(MaxEdits + 1)
    /\ restored \subseteq Instance
    /\ pc \in {"idle", "scan", "remove", "apply", "stop", "settle", "waiting", "ended"}
    /\ todo \subseteq Instance
    /\ seen \in [Instance -> [step : {"unseen", "signed", "seen"},
           sig : Signatures, verdict : {"none", "error", "disabled", "run"}]]
    /\ stop \in [at : IF pc = "stop" THEN Instance ELSE {Idle.at},
                 why : {"none", "remove", "disable", "replace"}]
    /\ table \in [Instance -> [slot : Slot \cup {NoSlot}, sig : Signatures]]
    /\ worker \in [Instance -> [Slot ->
           [alive : BOOLEAN, cancelled : BOOLEAN, child : NoChild..(MaxEdits + 1)]]]
    /\ down \in BOOLEAN
    /\ \A i \in Instance, s \in Slot : Accounted(i, s)

\* At no time do two processes of one node run, whatever is edited while the
\* manager stops one and starts another: a replacement waits for the exit of the
\* process it replaces, and is given up when that takes too long
\* (stopManagedWorker; "fully restarts a changed profile only after its old
\* process exits").
OneProcess ==
    \A i \in Instance :
        Cardinality({s \in Slot : worker[i][s].child # NoChild}) <= 1

Running(i) == {s \in Slot : worker[i][s].alive}

\* What the manager owes the present file of an instance.  A valid profile has a
\* worker that was started for its very bytes; the process of that worker has
\* read them too, unless the file was changed and put back under it.  An invalid
\* profile, or a directory without one, leaves what was there.
Matches(i) ==
    CASE file[i].kind = "absent" \/ Verdict(file[i]) = "disabled" -> Running(i) = {}
      [] Verdict(file[i]) = "run" ->
             \E s \in Running(i) :
                 /\ table[i] = [slot |-> s, sig |-> Signature(file[i])]
                 /\ ~worker[i][s].cancelled
                 /\ worker[i][s].child \in {NoChild, file[i].v} \/ i \in restored
      [] OTHER -> TRUE

\* Once nobody edits any more, a manager that is not told to stop comes to run
\* what the files say, although a scan reads each file twice, acts on what it read
\* long after, gives up on slow workers and is overtaken by edits (reconcile).  A
\* disabled node and one whose directory is gone have no worker; a deleted
\* coordinator that has made its directory again keeps its process.  A process
\* started while a file was changed, and kept because the file was put back with
\* its old hash before the next scan, keeps the version in between.
FilesApplied ==
    <>[](down \/ \A i \in Instance : Matches(i))

\* A manager that is told to stop ends with no process left, in whatever step of
\* a scan, of a wait or of a restart the signal found it (superviseProfiles,
\* superviseProfile).
ShutdownEnds ==
    down ~> (pc = "ended" /\ \A i \in Instance : Running(i) = {})

=============================================================================
