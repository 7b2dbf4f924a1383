------------------------------ MODULE SelfUpdate ------------------------------
(***************************************************************************)
(* The self-update supervisor (self_update_supervisor.py) and the stable   *)
(* PowerShell wrappers around it.  A scheduled updater polls the approved  *)
(* manifest, stages the release, saves and swaps the active pointer, stops *)
(* and starts the managed tasks, waits for their witnesses, and restores   *)
(* the previous release when they do not become healthy.  An operator's    *)
(* rollback does the same without the update lock.  Each managed task      *)
(* reads the pointer when it is launched.  One updater runs at a time (the *)
(* task ignores new instances, and a lock whose owner died is reclaimed).  *)
(***************************************************************************)
EXTENDS Naturals, FiniteSets

CONSTANTS
    Release,           \* exact commits
    First,             \* the release the installer started
    Broken,            \* releases whose services do not stay up
    Service,           \* managed tasks
    Optional,          \* those only some releases support (refill)
    WithOptional,      \* the releases that support them
    NoRelease,
    Overlap,           \* whether an operator's rollback may meet an update
    CrashAt,           \* <<process, step>> at which it may die
    FaultAt,           \* <<process, step>> whose command or write may raise
    Bounds             \* what a behaviour may contain, each a bound on the
                       \* manifests published, the rollbacks an operator
                       \* calls for, the deaths of a supervisor and restarts
                       \* of the machine, and the commands and writes that raise

ASSUME SelfUpdateAssumption ==
    /\ First \in Release \ Broken
    /\ {Broken, WithOptional} \subseteq SUBSET Release
    /\ Optional \subseteq Service
    /\ NoRelease \notin Release
    /\ Overlap \in BOOLEAN
    /\ Bounds \subseteq [{"approvals", "rollbacks", "crashes", "faults"} -> Nat]

VARIABLES
    active, previous,  \* active-release.json, previous-release.json
    marked, partial,   \* version directories with and without release.json
    ledger,            \* update-ledger.json: outcome of each release
    requested, seen,   \* the approved manifest, the last one that succeeded
    task,              \* what Task Scheduler runs for each service
    witness,           \* service-witnesses/<service>.json
    pc, from, to,      \* step, previous and new release of each supervisor
    fresh,             \* services with a witness since its cutover_started
    stable,            \* whether its last look at them found them healthy
    outcome,           \* outcome of the update in hand
    proven,            \* releases ever verified healthy (history)
    stranded,          \* ... and ever left active without that, by a death or
                       \* a pointer that could not be restored (history)
    undone,            \* releases ever rolled back to another one (history)
    cutovers,          \* cutovers to each release by the updater (history)
    budget             \* faults so far

pointers == <<active, previous>>
versions == <<marked, partial>>
manifest == <<requested, seen>>
services == <<task, witness>>
history == <<proven, stranded, undone, cutovers>>
vars == <<pointers, versions, ledger, manifest, services, pc, from, to, fresh, stable,
          outcome, history, budget>>

Proc == {"updater", "operator"}

Steps == {"idle", "begin", "stage", "staging", "save", "stop", "swap", "start", "verify",
          "undoStop", "undoSwap", "undoStart", "undoVerify",
          "report", "ledger", "exit", "record"}

Task == [at: {"stopped", "launched", "probing", "running", "failed"},
         release: Release \cup {NoRelease}, enabled: BOOLEAN]

Witness == [state: {"running", "failed", "stopped"}, release: Release]

TypeOK ==
    /\ active \in Release
    /\ previous \in Release \cup {NoRelease}
    /\ marked \subseteq Release /\ partial \subseteq Release
    /\ ledger \in [Release -> {"none", "success", "rolled_back", "rollback_failed"}]
    /\ {requested, seen} \subseteq Release \cup {NoRelease}
    /\ task \in [Service -> Task]
    /\ witness \in [Service -> Witness]
    /\ pc \in [Proc -> Steps]
    /\ {from, to} \subseteq [Proc -> Release \cup {NoRelease}]
    /\ fresh \in [Proc -> SUBSET Service]
    /\ stable \in [Proc -> BOOLEAN]
    /\ outcome \in {"started", "success", "rolled_back", "rollback_failed"}
    /\ {proven, stranded, undone} \subseteq SUBSET Release
    /\ cutovers \in [Release -> Nat]
    /\ budget \in [{"approvals", "rollbacks", "crashes", "faults"} -> Nat]

\* _release_managed_tasks
Supported(r) == IF r \in WithOptional THEN Service ELSE Service \ Optional

\* The managed release the stable bootstrap was updated on: the tasks it does
\* not support are registered and disabled.
Init ==
    /\ active = First /\ previous = NoRelease
    /\ marked = {First} /\ partial = {}
    /\ ledger = [r \in Release |-> "none"]
    /\ requested = NoRelease /\ seen = NoRelease
    /\ task = [s \in Service |->
                  IF s \in Supported(First)
                  THEN [at |-> "running", release |-> First, enabled |-> TRUE]
                  ELSE [at |-> "stopped", release |-> NoRelease, enabled |-> FALSE]]
    /\ witness = [s \in Service |-> [state |-> "running", release |-> First]]
    /\ pc = [p \in Proc |-> "idle"]
    /\ from = [p \in Proc |-> NoRelease] /\ to = [p \in Proc |-> NoRelease]
    /\ fresh = [p \in Proc |-> {}]
    /\ stable = [p \in Proc |-> FALSE]
    /\ outcome = "started"
    /\ proven = {First} /\ stranded = {} /\ undone = {}
    /\ cutovers = [r \in Release |-> 0]
    /\ budget = [kind \in {"approvals", "rollbacks", "crashes", "faults"} |-> 0]

-----------------------------------------------------------------------------
Spend(kind) ==
    /\ budget' = [budget EXCEPT ![kind] = @ + 1]
    /\ \E bound \in Bounds : \A event \in DOMAIN bound : budget'[event] <= bound[event]

Goto(p, step) == pc' = [pc EXCEPT ![p] = step]

\* Between two updates the supervisor keeps nothing but its files.
Quit(p) ==
    /\ Goto(p, "idle")
    /\ from' = [from EXCEPT ![p] = NoRelease] /\ to' = [to EXCEPT ![p] = NoRelease]
    /\ fresh' = [fresh EXCEPT ![p] = {}] /\ stable' = [stable EXCEPT ![p] = FALSE]
    /\ IF p = "updater" THEN outcome' = "started" ELSE UNCHANGED outcome

files == <<pointers, versions, ledger>>
hands == <<from, to, fresh, stable, outcome>>

-----------------------------------------------------------------------------
(* The managed tasks (run_windows_managed_service.ps1) and the task        *)
(* controller (windows_self_update_task_control.ps1).                      *)

IsRunning(s) == task[s].at \in {"launched", "probing", "running"}

Stopped(S) == [s \in Service |-> IF s \in S THEN [task[s] EXCEPT !.at = "stopped"] ELSE task[s]]

\* Start enables; an instance that runs is left alone.
Started(S) ==
    [s \in Service |->
        IF s \notin S THEN task[s]
        ELSE [at |-> IF IsRunning(s) THEN task[s].at ELSE "launched",
              release |-> task[s].release, enabled |-> TRUE]]

\* ... and the services the release does not support are stopped and disabled.
StartedAndDisabled(S) ==
    [s \in Service |->
        IF s \in S THEN Started(S)[s]
        ELSE [at |-> "stopped", release |-> task[s].release, enabled |-> FALSE]]

\* A stop or start that raises has reached some of the tasks.
PartlyDone(step, S) ==
    CASE step \in {"stop", "undoStop"} -> {Stopped(some) : some \in SUBSET S}
      [] step \in {"start", "undoStart"} -> {Started(some) : some \in SUBSET S}
      [] OTHER -> {task}

SetWitness(s, state) ==
    witness' = [witness EXCEPT ![s] = [state |-> state, release |-> task[s].release]]

\* The wrapper resolves the active pointer ...
Load(s) ==
    /\ task[s].at = "launched"
    /\ task' = [task EXCEPT ![s] = [at |-> "probing", release |-> active, enabled |-> @.enabled]]
    /\ UNCHANGED <<files, manifest, witness, pc, hands, history, budget>>

\* ... probes the release, writes the running witness and runs the service ...
ProbePasses(s) ==
    /\ task[s].at = "probing"
    /\ s \in Supported(task[s].release)
    /\ task' = [task EXCEPT ![s].at = "running"]
    /\ SetWitness(s, "running")
    /\ fresh' = [p \in Proc |-> IF pc[p] = "idle" THEN {} ELSE fresh[p] \cup {s}]
    /\ UNCHANGED <<files, manifest, pc, from, to, stable, outcome, history, budget>>

\* ... or fails, at once or later.  Task Scheduler runs a failed task again.
ServiceFails(s) ==
    /\ \/ task[s].at = "probing" /\ SetWitness(s, "failed")
       \/ task[s].at = "running" /\ SetWitness(s, "stopped")
    /\ task[s].release \in Broken \/ s \notin Supported(task[s].release)
    /\ task' = [task EXCEPT ![s].at = "failed"]
    /\ UNCHANGED <<files, manifest, pc, hands, history, budget>>

Restart(s) ==
    /\ task[s].at = "failed" /\ task[s].enabled
    /\ task' = [task EXCEPT ![s].at = "launched"]
    /\ UNCHANGED <<files, manifest, witness, pc, hands, history, budget>>

-----------------------------------------------------------------------------
(* FileHealthVerifier.wait_for: the tasks run (or are disabled) and their  *)
(* witnesses name the release and are fresh, for as long as the stability  *)
(* window: two looks in a row here.                                        *)

\* Mutant: the witness may name any release.
HealthyWhatever(p, r) ==
    /\ \A s \in Supported(r) :
          IsRunning(s) /\ witness[s].state = "running" /\ s \in fresh[p]
    /\ \A s \in Service \ Supported(r) : ~task[s].enabled

Healthy(p, r) ==
    /\ \A s \in Supported(r) :
          /\ IsRunning(s)
          /\ witness[s] = [state |-> "running", release |-> r]
          /\ s \in fresh[p]
    /\ \A s \in Service \ Supported(r) : ~task[s].enabled

\* One look; what is verified goes on to next.
Look(p, r, next) ==
    /\ IF Healthy(p, r)
       THEN /\ stable' = [stable EXCEPT ![p] = TRUE]
            /\ IF stable[p] THEN Goto(p, next) /\ proven' = proven \cup {r}
                            ELSE UNCHANGED <<pc, proven>>
       ELSE /\ stable' = [stable EXCEPT ![p] = FALSE]
            /\ UNCHANGED <<pc, proven>>

\* What is active now stays so, verified or not (history).
Strand == stranded' = stranded \cup ({active} \ proven)

NotBefore(p) ==
    /\ fresh' = [fresh EXCEPT ![p] = {}]
    /\ stable' = [stable EXCEPT ![p] = FALSE]

-----------------------------------------------------------------------------
(* The updater: invoke_windows_self_update.ps1 and UpdateSupervisor.apply. *)

U == "updater"
O == "operator"

\* A manifest is published for a release.
Approve(r) ==
    /\ requested # r
    /\ Spend("approvals")
    /\ requested' = r
    /\ UNCHANGED <<files, seen, services, pc, hands, history>>

\* Mutant: the manifest is marked before it is applied.
PollMarks ==
    /\ pc[U] = "idle" /\ (Overlap \/ pc[O] = "idle")
    /\ requested \notin {NoRelease, seen}
    /\ to' = [to EXCEPT ![U] = requested]
    /\ seen' = requested
    /\ Goto(U, "begin")
    /\ UNCHANGED <<files, requested, services, from, fresh, stable, outcome, history, budget>>

\* The poll skips the manifest that last succeeded.
Poll ==
    /\ pc[U] = "idle" /\ (Overlap \/ pc[O] = "idle")
    /\ requested \notin {NoRelease, seen}
    /\ to' = [to EXCEPT ![U] = requested]
    /\ Goto(U, "begin")
    /\ UNCHANGED <<files, manifest, services, from, fresh, stable, outcome, history, budget>>

\* A release in the ledger is answered already_applied or
\* blocked_after_rollback, both of them exit 0; a new one needs an active
\* release whose marker matches.
Begin ==
    /\ pc[U] = "begin"
    /\ \/ /\ ledger[to[U]] # "none"
          /\ Goto(U, "exit")
          /\ UNCHANGED from
       \/ /\ ledger[to[U]] = "none" /\ active \in marked
          /\ from' = [from EXCEPT ![U] = active]
          /\ Goto(U, "stage")
    /\ UNCHANGED <<files, manifest, services, to, fresh, stable, outcome, history, budget>>

\* failed_before_cutover: the attempt ends with a report, the manifest stays.
Abandon == Quit(U) /\ UNCHANGED <<files, manifest, services, history, budget>>

\* ReleaseBuilder.stage: a complete version directory is verified and used
\* again, an incomplete one is removed and made anew.
Reuse ==
    /\ pc[U] = "stage" /\ to[U] \in marked
    /\ Goto(U, "save")
    /\ UNCHANGED <<files, manifest, services, hands, history, budget>>

\* Mutant: the marker is there while the checks run.
BeginStagingMarked ==
    /\ pc[U] = "stage" /\ to[U] \notin marked
    /\ marked' = marked \cup {to[U]}
    /\ partial' = partial \cup {to[U]}
    /\ Goto(U, "staging")
    /\ UNCHANGED <<pointers, ledger, manifest, services, hands, history, budget>>

BeginStaging ==
    /\ pc[U] = "stage" /\ to[U] \notin marked
    /\ active # to[U]
    /\ partial' = partial \cup {to[U]}
    /\ Goto(U, "staging")
    /\ UNCHANGED <<pointers, marked, ledger, manifest, services, hands, history, budget>>

\* Fetch, install, Ruff, pytest and the probe have passed: release.json.
Staged ==
    /\ pc[U] = "staging"
    /\ marked' = marked \cup {to[U]} /\ partial' = partial \ {to[U]}
    /\ Goto(U, "save")
    /\ UNCHANGED <<pointers, ledger, manifest, services, hands, history, budget>>

StagingFails ==
    /\ pc[U] = "staging"
    /\ partial' = partial \ {to[U]}
    /\ marked' = marked \ {to[U]}
    /\ Quit(U)
    /\ UNCHANGED <<pointers, ledger, manifest, services, history, budget>>

\* The commit's checks, or its files, no longer hold.
ReuseFails == pc[U] = "stage" /\ to[U] \in marked /\ Abandon

\* Mutant: the new release is recorded in the place of the old one.
SavePreviousStaged ==
    /\ pc[U] = "save"
    /\ previous' = to[U]
    /\ NotBefore(U)
    /\ Goto(U, "stop")
    /\ UNCHANGED <<active, versions, ledger, manifest, services, from, to, outcome, history,
                   budget>>

\* cutover_started, previous-release.json.
SavePrevious ==
    /\ pc[U] = "save"
    /\ previous' = from[U]
    /\ NotBefore(U)
    /\ Goto(U, "stop")
    /\ UNCHANGED <<active, versions, ledger, manifest, services, from, to, outcome, history,
                   budget>>

\* The write raises: failed_before_cutover.
SaveFails ==
    /\ pc[U] = "save" /\ <<U, "save">> \in FaultAt
    /\ Spend("faults")
    /\ Quit(U)
    /\ UNCHANGED <<files, manifest, services, history>>

\* The operator's rollback stops the services of the active release, swaps
\* the pointer and starts those of the previous one in the same way.
StopTasks(p) ==
    /\ pc[p] = "stop"
    /\ task' = Stopped(Supported(from[p]))
    /\ Goto(p, "swap")
    /\ UNCHANGED <<files, manifest, witness, hands, history, budget>>

Swap(p) ==
    /\ pc[p] = "swap"
    /\ to[p] \in marked
    /\ active' = to[p]
    /\ cutovers' = IF p = U THEN [cutovers EXCEPT ![to[p]] = @ + 1] ELSE cutovers
    /\ Goto(p, "start")
    /\ UNCHANGED <<previous, versions, ledger, manifest, services, hands,
                   proven, stranded, undone, budget>>

StartTasks(p) ==
    /\ pc[p] = "start"
    /\ task' = StartedAndDisabled(Supported(to[p]))
    /\ Goto(p, "verify")
    /\ UNCHANGED <<files, manifest, witness, hands, history, budget>>

Verify ==
    /\ pc[U] = "verify"
    /\ Look(U, to[U], "report")
    /\ outcome' = IF pc'[U] = "report" THEN "success" ELSE outcome
    /\ UNCHANGED <<files, manifest, services, from, to, fresh, stranded, undone, cutovers, budget>>

\* The deadline passes, however healthy the release is.
VerifyTimesOut ==
    /\ pc[U] = "verify"
    /\ Goto(U, "undoStop")
    /\ UNCHANGED <<files, manifest, services, hands, history, budget>>

\* A command raises.
CutoverRaises ==
    /\ pc[U] \in {"stop", "swap", "start"}
    /\ <<U, pc[U]>> \in FaultAt
    /\ Spend("faults")
    /\ task' \in PartlyDone(pc[U], Supported(IF pc[U] = "stop" THEN from[U] ELSE to[U]))
    /\ Goto(U, "undoStop")
    /\ UNCHANGED <<files, manifest, witness, hands, history>>

\* _restore_previous_release: every step is tried, whatever failed before.
UndoStop ==
    /\ pc[U] = "undoStop"
    /\ task' = Stopped(Supported(to[U]))
    /\ NotBefore(U)
    /\ outcome' = "rolled_back"
    /\ Goto(U, "undoSwap")
    /\ UNCHANGED <<files, manifest, witness, from, to, history, budget>>

UndoSwap ==
    /\ pc[U] = "undoSwap"
    /\ from[U] \in marked
    /\ active' = from[U]
    /\ undone' = undone \cup ({to[U]} \ {from[U]})
    /\ Goto(U, "undoStart")
    /\ UNCHANGED <<previous, versions, ledger, manifest, services, hands,
                   proven, stranded, cutovers, budget>>

UndoStart ==
    /\ pc[U] = "undoStart"
    /\ task' = StartedAndDisabled(Supported(from[U]))
    /\ Goto(U, "undoVerify")
    /\ UNCHANGED <<files, manifest, witness, hands, history, budget>>

AfterUndo == [undoStop |-> "undoSwap", undoSwap |-> "undoStart", undoStart |-> "undoVerify"]

UndoRaises ==
    /\ pc[U] \in DOMAIN AfterUndo
    /\ <<U, pc[U]>> \in FaultAt
    /\ Spend("faults")
    /\ outcome' = "rollback_failed"
    /\ task' \in PartlyDone(pc[U], Supported(IF pc[U] = "undoStop" THEN to[U] ELSE from[U]))
    /\ IF pc[U] = "undoStop" THEN NotBefore(U) ELSE UNCHANGED <<fresh, stable>>
    /\ IF pc[U] = "undoSwap" THEN Strand ELSE UNCHANGED stranded
    /\ Goto(U, AfterUndo[pc[U]])
    /\ UNCHANGED <<files, manifest, witness, from, to, proven, undone, cutovers>>

UndoVerify ==
    /\ pc[U] = "undoVerify"
    /\ Look(U, from[U], "report")
    /\ UNCHANGED <<files, manifest, services, from, to, fresh, outcome,
                   stranded, undone, cutovers, budget>>

UndoTimesOut ==
    /\ pc[U] = "undoVerify"
    /\ outcome' = "rollback_failed"
    /\ Goto(U, "report")
    /\ UNCHANGED <<files, manifest, services, from, to, fresh, stable, history, budget>>

\* The immutable report and the notification, then the ledger.
Report ==
    /\ pc[U] = "report"
    /\ Goto(U, "ledger")
    /\ UNCHANGED <<files, manifest, services, hands, history, budget>>

\* Mutant: only a success is recorded.
SaveLedgerSuccess ==
    /\ pc[U] = "ledger"
    /\ ledger' = IF outcome = "success" THEN [ledger EXCEPT ![to[U]] = outcome] ELSE ledger
    /\ Goto(U, "exit")
    /\ UNCHANGED <<pointers, versions, manifest, services, hands, history, budget>>

SaveLedger ==
    /\ pc[U] = "ledger"
    /\ ledger' = [ledger EXCEPT ![to[U]] = outcome]
    /\ Goto(U, "exit")
    /\ UNCHANGED <<pointers, versions, manifest, services, hands, history, budget>>

\* The report, the notification or the ledger cannot be written: the outcome
\* stands, and the exit code with it, and the ledger has no entry.
ReportRaises ==
    /\ pc[U] \in {"report", "ledger"} /\ <<U, pc[U]>> \in FaultAt
    /\ Spend("faults")
    /\ Goto(U, "exit")
    /\ UNCHANGED <<files, manifest, services, hands, history>>

\* The attempt fails, or the evidence relay does: the manifest is tried again.
ExitAgain ==
    /\ pc[U] = "exit"
    /\ Quit(U)
    /\ UNCHANGED <<files, manifest, services, history, budget>>

\* Exit 0 and a relay that succeeded: the manifest is not looked at again.
ExitSeen ==
    /\ pc[U] = "exit"
    /\ outcome \in {"started", "success"}
    /\ seen' = to[U]
    /\ Quit(U)
    /\ UNCHANGED <<files, requested, services, history, budget>>

-----------------------------------------------------------------------------
(* main rollback: the operator's, which takes no lock.                     *)

Rollback ==
    /\ pc[O] = "idle" /\ (Overlap \/ pc[U] = "idle")
    /\ active \in marked /\ previous # NoRelease
    /\ Spend("rollbacks")
    /\ from' = [from EXCEPT ![O] = active] /\ to' = [to EXCEPT ![O] = previous]
    /\ NotBefore(O)
    /\ Goto(O, "stop")
    /\ UNCHANGED <<files, manifest, services, outcome, history>>

RollbackVerify ==
    /\ pc[O] = "verify"
    /\ Look(O, to[O], "record")
    /\ UNCHANGED <<files, manifest, services, from, to, fresh, outcome,
                   stranded, undone, cutovers, budget>>

\* What raises ends the command where it is.
RollbackRaises ==
    /\ \/ pc[O] = "verify" /\ UNCHANGED <<task, budget>>
       \/ /\ pc[O] \in {"stop", "swap", "start", "record"}
          /\ <<O, pc[O]>> \in FaultAt
          /\ Spend("faults")
          /\ task' \in PartlyDone(pc[O], Supported(IF pc[O] = "stop" THEN from[O] ELSE to[O]))
    /\ Quit(O)
    /\ UNCHANGED <<files, manifest, witness, history>>

RollbackRecords ==
    /\ pc[O] = "record"
    /\ previous' = from[O]
    /\ Quit(O)
    /\ UNCHANGED <<active, versions, ledger, manifest, services, history, budget>>

-----------------------------------------------------------------------------
(* Crashes.                                                                *)

\* A supervisor process dies; the lock it leaves names a dead process.
Crash(p) ==
    /\ <<p, pc[p]>> \in CrashAt
    /\ Spend("crashes")
    /\ Strand
    /\ Quit(p)
    /\ UNCHANGED <<files, manifest, services, proven, undone, cutovers>>

\* The machine restarts: at logon the enabled tasks are launched.
Reboot ==
    /\ \A p \in Proc : pc[p] = "idle" \/ <<p, pc[p]>> \in CrashAt
    /\ Spend("crashes")
    /\ Strand
    /\ pc' = [p \in Proc |-> "idle"]
    /\ from' = [p \in Proc |-> NoRelease] /\ to' = [p \in Proc |-> NoRelease]
    /\ fresh' = [p \in Proc |-> {}] /\ stable' = [p \in Proc |-> FALSE]
    /\ outcome' = "started"
    /\ task' = [s \in Service |->
                   [task[s] EXCEPT !.at = IF task[s].enabled THEN "launched" ELSE "stopped"]]
    /\ UNCHANGED <<files, manifest, witness, proven, undone, cutovers>>

-----------------------------------------------------------------------------
ServiceStep(s) == Load(s) \/ ProbePasses(s) \/ ServiceFails(s) \/ Restart(s)

Cutover(p) == StopTasks(p) \/ Swap(p) \/ StartTasks(p)

UpdaterStep ==
    \/ Poll \/ Begin \/ Reuse \/ ReuseFails \/ BeginStaging \/ Staged \/ StagingFails
    \/ SavePrevious \/ SaveFails \/ Cutover(U) \/ Verify \/ VerifyTimesOut \/ CutoverRaises
    \/ UndoStop \/ UndoSwap \/ UndoStart \/ UndoRaises \/ UndoVerify \/ UndoTimesOut
    \/ Report \/ SaveLedger \/ ReportRaises \/ ExitAgain \/ ExitSeen

OperatorStep ==
    \/ Rollback \/ Cutover(O) \/ RollbackVerify \/ RollbackRaises \/ RollbackRecords

Next ==
    \/ \E r \in Release : Approve(r)
    \/ \E s \in Service : ServiceStep(s)
    \/ UpdaterStep \/ OperatorStep
    \/ \E p \in Proc : Crash(p)
    \/ Reboot

Spec == Init /\ [][Next]_vars

\* Scheduled tasks run, the updater's polls return, and a manifest that is
\* tried again and again is staged in the end.
FairSpec ==
    /\ Spec
    /\ WF_vars(UpdaterStep)
    /\ WF_vars(OperatorStep)
    /\ SF_vars(Reuse) /\ SF_vars(Staged)
    /\ \A s \in Service : WF_vars(ServiceStep(s))

-----------------------------------------------------------------------------
(* Properties.                                                             *)

\* "atomic routing pointer", "the directory is incomplete and cannot be
\* activated" (FAIL_SAFE_SELF_UPDATE_SUPERVISOR_V1.md): both pointers name
\* complete release directories, however often staging is cut short.
PointersMarked == {active, previous} \subseteq (marked \ partial) \cup {NoRelease}

SelfUpdateInv == TypeOK /\ PointersMarked

\* "restores the previous release automatically when the new release does not
\* become healthy": a release that was verified healthy is always at hand, as
\* the active release or as the one to fall back on.  Not so once a supervisor
\* died after the swap of the pointer: the next attempt takes the release that
\* it finds active for the one to fall back on, healthy or not.
FallbackIsProven == {active, previous} \cap proven # {}

\* What is at hand was verified, or it is a release that a death, or a pointer
\* that could not be restored, left active: nothing else, no failed update, no
\* retry and no failed write, costs the release to fall back on.
FallbackUnlessStranded == {active, previous} \cap (proven \cup stranded) # {}

\* "A release that required rollback is ledger-blocked from repeated automatic
\* cutovers".  Not so when the report, the notification or the ledger of the
\* rollback is not written.
NoSecondCutover == [][\A r \in undone : Swap(U) => active' # r]_vars

\* The updater cuts over to a release once, and once more for a death or an
\* error at most: no poll repeats a cutover by itself.
RepeatedCutoversCost ==
    \A r \in Release : cutovers[r] <= 1 + budget["crashes"] + budget["faults"]

\* When an update ends, the tasks are what its outcome says: enabled are
\* those, and only those, the release in force supports, and each runs it.
OutcomeMatchesTasks ==
    pc[U] = "report" /\ pc[O] = "idle" =>
        LET r == IF outcome = "success" THEN to[U] ELSE from[U]
        IN  outcome # "rollback_failed" =>
               /\ active = r
               /\ \A s \in Service : task[s].enabled <=> s \in Supported(r)
               /\ \A s \in Supported(r) : task[s].at = "stopped" \/ task[s].release = r

\* Services that an update stopped run again, at the latest after the update
\* was tried again.  Only a rollback that failed waits for the founder, or a
\* release that breaks when no manifest is left to be applied.
ServicesComeBack ==
    []<>(\/ \A s \in Supported(active) : task[s].at = "running"
         \/ \E r \in Release : ledger[r] = "rollback_failed"
         \/ active \in Broken /\ (requested = seen \/ ledger[requested] # "none"))
=============================================================================
