---------------------------- MODULE PersistentHost ----------------------------
(***************************************************************************)
(* The persistent host (persistent_host.py): one process that imports      *)
(* approved jobs from the Git feed into a local queue, claims them one at  *)
(* a time by renaming pending/<id>.yaml to running/<id>.yaml, runs them,   *)
(* and archives each as completed or failed through a staging directory.   *)
(* Operator commands (enqueue, approve, host-init) touch the same files    *)
(* from another process.  The host may die between any two file            *)
(* operations; the next start recovers.  One host runs at a time           *)
(* (ProcessLock); lifecycle evidence never changes the outcome of a job    *)
(* and is left out, as are status and heartbeat.                           *)
(***************************************************************************)
EXTENDS Naturals, Sequences

CONSTANTS
    Job,               \* job ids
    Bounds             \* what a behaviour may contain, each a bound on the
                       \* faults, the commands and the rewritten feed files

Faults == {"crashes", "syncs", "io"}
Events == Faults \cup {"approve", "enqueue", "init", "rewrites"}

ASSUME PersistentHostAssumption == Bounds \subseteq [Events -> Nat]

VARIABLES
    feed,              \* approved content of every job in the remote feed
    ledger,            \* state/feed-seen.json: content recorded per job
    pending, running,  \* queue files
    staging,           \* archive-staging directories
    archive,           \* completed and failed directories
    claim,             \* the writer claim a feed job carries
    pc, job, return,   \* the host's step, the job in hand, where archiving ends
    loaded,            \* content of the job in hand as it was parsed
    files, memory,     \* feed files still to look at, ledger being built
    target, hand,      \* the place of the failure archive, its content once there
    command,           \* the enqueue or approve in progress
    installer,         \* the host-init in progress
    imports, runs,     \* contents imported and run for every job (history)
    budget             \* events so far, and those still to come

queue == <<pending, running, staging, archive>>
sync == <<files, memory>>
failure == <<target, hand>>
host == <<pc, job, return, loaded, sync, failure>>
commands == <<command, installer>>
vars == <<feed, ledger, queue, claim, host, commands, imports, runs, budget>>

Nothing == "nothing"
NoJob == "no job"

\* v1, v2: a job build_next put into the feed, naming a writer claim, and a
\* replacement.  local: an enqueued manifest.  malformed: an enqueued job that
\* parse_host_job refuses (enqueue_manifest does not check the source head).
Content == {"v1", "v2", "local", "malformed"}
Empty == [j \in Job |-> Nothing]

\* A job file in pending/.
File == [content: Content, approved: BOOLEAN]
NoFile == [content |-> Nothing, approved |-> FALSE]

\* open: the running host is still filling the directory.
StagedDir == [job: Job, content: Content \cup {Nothing}, open: BOOLEAN]

\* completed/<id>, failed/<id>, failed/<id>-<hex> (repeated),
\* failed/archive-recovery-<staging>-<hex> (recovered) and
\* failed/<id>-feed-conflict-<hex> (conflict); content is that of job.yaml.
Archive == [job: Job, content: Content \cup {Nothing},
            place: {"completed", "failed", "repeated", "recovered", "conflict"}]

FailurePlaces == {"failed", "repeated"}

NoCommand == [kind |-> "none", job |-> NoJob, file |-> NoFile]

\* A host-init archives one running job; content is that of its directory.
NoInstaller == [step |-> "none", job |-> NoJob, target |-> "failed", content |-> Nothing]

Steps == {"down", "recover", "idle", "sync", "claim", "rename", "prepare", "stage",
          "collect", "unlink", "complete",
          "fail", "failMove", "failPublish", "failRelease"}

TypeOK ==
    /\ feed \in [Job -> {Nothing, "v1", "v2"}]
    /\ ledger \in [Job -> Content \cup {Nothing}]
    /\ running \in [Job -> Content \cup {Nothing}]
    /\ files \in [Job -> {Nothing, "v1", "v2"}]
    /\ memory \in [Job -> Content \cup {Nothing}]
    /\ pending \in [Job -> File \cup {NoFile}]
    /\ staging \subseteq StagedDir
    /\ archive \subseteq Archive
    /\ claim \in [Job -> {"active", "failed", "refused"}]
    /\ pc \in Steps
    /\ job \in Job \cup {NoJob}
    /\ return \in {"recover", "claim", "idle"}
    /\ loaded \in Content \cup {Nothing} /\ hand \in Content \cup {Nothing}
    /\ target \in FailurePlaces
    /\ installer \in {NoInstaller} \cup
           [step: {"move", "publish", "release"}, job: Job, target: FailurePlaces,
            content: Content \cup {Nothing}]
    /\ command \in {NoCommand} \cup
           [kind: {"approve", "enqueue"}, job: Job, file: File]
    /\ imports \in [Job -> Seq(Content)] /\ runs \in [Job -> Seq(Content)]
    /\ budget \in [Events -> [spent: Nat, left: Nat]]

Init ==
    /\ feed = Empty /\ ledger = Empty
    /\ pending = [j \in Job |-> NoFile]
    /\ running = Empty
    /\ staging = {} /\ archive = {}
    /\ claim = [j \in Job |-> "active"]
    /\ pc = "down" /\ job = NoJob /\ return = "idle" /\ loaded = Nothing
    /\ files = Empty /\ memory = Empty
    /\ target = "failed" /\ hand = Nothing
    /\ command = NoCommand /\ installer = NoInstaller
    /\ imports = [j \in Job |-> <<>>]
    /\ runs = [j \in Job |-> <<>>]
    /\ \E bound \in Bounds :
          budget = [event \in Events |-> [spent |-> 0, left |-> bound[event]]]

-----------------------------------------------------------------------------
Spend(event) ==
    /\ budget[event].left > 0
    /\ budget' = [budget EXCEPT ![event] = [spent |-> @.spent + 1, left |-> @.left - 1]]

Never(events) == \A event \in events : budget[event].spent = 0

Goto(step) == pc' = step

Archived(j, places) == \E a \in archive : a.job = j /\ a.place \in places

\* Mutant: a job that failed is not taken for an existing one.
JobExistsForgetsFailed(j) ==
    \/ pending[j] # NoFile
    \/ running[j] # Nothing
    \/ Archived(j, {"completed"})

\* _job_exists: pending/<id>.yaml, running/<id>.yaml, completed/<id> and
\* failed/<id>, under no other name.
JobExists(j) ==
    \/ pending[j] # NoFile
    \/ running[j] # Nothing
    \/ Archived(j, {"completed", "failed"})

\* _archive_failure looks for failed/<id> before it creates its directory ...
FailurePlace(j) == IF Archived(j, {"failed"}) THEN "repeated" ELSE "failed"

\* ... and the rename onto one that has come since is refused.
PlaceTaken(j, place) == place = "failed" /\ Archived(j, {"failed"})

Approvable(j) == pending[j].content = "malformed" \/ pending[j].approved

Open == {d \in staging : d.open}

\* Nobody fills a directory whose work was broken off.
LeftBehind ==
    {[job |-> d.job, content |-> d.content, open |-> FALSE] : d \in staging}

\* Whether the file of the job in hand and its staging directory are there
\* for the operation at hand: a host-init may have taken them away.
HasRunning == running[job] # Nothing
HasStaging == Open # {}

-----------------------------------------------------------------------------
(* The remote feed.                                                        *)

\* build_next pushes an approved job file that names its writer claim.
Submit(j) ==
    /\ feed[j] = Nothing
    /\ feed' = [feed EXCEPT ![j] = "v1"]
    /\ UNCHANGED <<ledger, queue, claim, host, commands, imports, runs, budget>>

\* Somebody reuses the job id with other content.
Rewrite(j) ==
    /\ Spend("rewrites")
    /\ feed[j] = "v1"
    /\ feed' = [feed EXCEPT ![j] = "v2"]
    /\ UNCHANGED <<ledger, queue, claim, host, commands, imports, runs>>

-----------------------------------------------------------------------------
(* The operator.                                                           *)

Enqueued == {[content |-> "local", approved |-> FALSE],
             [content |-> "malformed", approved |-> TRUE]}

\* enqueue_manifest: the id is new.
BeginEnqueue(j, file) ==
    /\ Spend("enqueue")
    /\ ~JobExists(j)
    /\ command' = [kind |-> "enqueue", job |-> j, file |-> file]

\* approve_pending_job reads a pending file; a malformed one is refused.
BeginApprove(j) ==
    /\ Spend("approve")
    /\ pending[j].content \in {"v1", "v2", "local"}
    /\ command' = [kind |-> "approve", job |-> j,
                   file |-> [content |-> pending[j].content, approved |-> TRUE]]

BeginCommand(j) ==
    /\ command = NoCommand
    /\ BeginApprove(j) \/ \E file \in Enqueued : BeginEnqueue(j, file)
    /\ UNCHANGED <<feed, ledger, queue, claim, host, installer, imports, runs>>

\* Both commands end by writing pending/<id>.yaml, whatever became of the job
\* since they looked.
FinishCommand ==
    /\ command # NoCommand
    /\ pending' = [pending EXCEPT ![command.job] = command.file]
    /\ command' = NoCommand
    /\ UNCHANGED <<feed, ledger, running, staging, archive, claim, host, installer,
                   imports, runs, budget>>

\* What is left in archive-staging moves to failed/ under a name of its own;
\* its claim is not looked at.
RecoverDirectory(d) ==
    /\ staging' = staging \ {d}
    /\ archive' = archive \cup {[job |-> d.job, place |-> "recovered",
                                 content |-> d.content]}

NamesClaim(content) == content \in {"v1", "v2"}

\* host-init runs the recovery without the host lock, the installer while the
\* host it replaces is still running.  A running job is archived as interrupted
\* and its claim released, in the steps of _archive_failure; the command may
\* die, or raise, between any two of them, and then goes no further.
InitDirectory(j, content) == [job |-> j, content |-> content, open |-> FALSE]

InitStage(j) ==
    /\ installer = NoInstaller
    /\ Spend("init")
    /\ running[j] # Nothing
    /\ staging' = staging \cup {InitDirectory(j, Nothing)}
    /\ installer' = [step |-> "move", job |-> j, target |-> FailurePlace(j),
                     content |-> Nothing]
    /\ UNCHANGED <<running, archive, claim>>

InitMove(j) ==
    /\ installer.step = "move" /\ installer.job = j
    /\ InitDirectory(j, Nothing) \in staging
    /\ staging' = (staging \ {InitDirectory(j, Nothing)}) \cup
                  {InitDirectory(j, running[j])}
    /\ running' = [running EXCEPT ![j] = Nothing]
    /\ installer' = [installer EXCEPT !.step = "publish", !.content = running[j]]
    /\ UNCHANGED <<archive, claim, budget>>

InitPublish(j) ==
    /\ installer.step = "publish" /\ installer.job = j
    /\ InitDirectory(j, installer.content) \in staging
    /\ ~PlaceTaken(j, installer.target)
    /\ staging' = staging \ {InitDirectory(j, installer.content)}
    /\ archive' = archive \cup {[job |-> j, place |-> installer.target,
                                 content |-> installer.content]}
    /\ installer' = [installer EXCEPT !.step = "release"]
    /\ UNCHANGED <<running, claim, budget>>

InitRelease(j) ==
    /\ installer.step = "release" /\ installer.job = j
    /\ claim' = [claim EXCEPT ![j] = IF NamesClaim(installer.content) THEN "failed"
                                     ELSE @]
    /\ installer' = NoInstaller
    /\ UNCHANGED <<running, staging, archive, budget>>

\* A directory that is in archive-staging, the one the host is filling included.
InitStaging(d) ==
    /\ installer = NoInstaller
    /\ Spend("init")
    /\ RecoverDirectory(d)
    /\ UNCHANGED <<running, claim, installer>>

HostInit ==
    /\ \/ \E j \in Job : InitStage(j) \/ InitMove(j) \/ InitPublish(j) \/ InitRelease(j)
       \/ \E d \in staging : InitStaging(d)
    /\ UNCHANGED <<feed, ledger, pending, host, command, imports, runs>>

-----------------------------------------------------------------------------
(* Start, stop and recovery.                                               *)

NoWork ==
    /\ job' = NoJob /\ return' = "idle" /\ loaded' = Nothing
    /\ target' = "failed" /\ hand' = Nothing
    /\ files' = Empty /\ memory' = Empty

Start ==
    /\ pc = "down"
    /\ Goto("recover")
    /\ UNCHANGED <<feed, ledger, queue, claim, job, return, loaded, sync, failure,
                   commands, imports, runs, budget>>

\* The stop file ends the loop between two jobs.
Stop ==
    /\ pc = "idle"
    /\ Goto("down")
    /\ UNCHANGED <<feed, ledger, queue, claim, job, return, loaded, sync, failure,
                   commands, imports, runs, budget>>

Die ==
    /\ Goto("down")
    /\ NoWork
    /\ staging' = LeftBehind
    /\ UNCHANGED <<feed, ledger, pending, running, archive, claim, commands, imports,
                   runs>>

\* The process dies, or an exception nobody catches ends it: a status file
\* that cannot be written, a failure that cannot be archived.
Crash ==
    /\ pc # "down"
    /\ Spend("crashes")
    /\ Die

\* The failure cannot be archived: its directory was taken away, or a host-init
\* has archived the job meanwhile.
ArchivingFails ==
    /\ \/ pc \in {"failMove", "failPublish"} /\ ~HasStaging
       \/ pc = "failPublish" /\ PlaceTaken(job, target)
    /\ Die
    /\ UNCHANGED budget

\* _recover_interrupted_jobs: every running job is archived as interrupted,
\* then every staging directory is moved away.
RecoverRunning(j) ==
    /\ pc = "recover"
    /\ running[j] # Nothing
    /\ job' = j /\ return' = "recover"
    /\ Goto("fail")
    /\ UNCHANGED <<feed, ledger, queue, claim, loaded, sync, failure, commands, imports,
                   runs, budget>>

RecoverStaging(d) ==
    /\ pc = "recover"
    /\ running = Empty
    /\ RecoverDirectory(d)
    /\ UNCHANGED <<feed, ledger, pending, running, claim, host, commands, imports, runs,
                   budget>>

\* Mutant: the recovery does not wait for the running files.
RecoveredEarly ==
    /\ pc = "recover"
    /\ staging = {}
    /\ Goto("idle")
    /\ UNCHANGED <<feed, ledger, queue, claim, job, return, loaded, sync, failure,
                   commands, imports, runs, budget>>

Recovered ==
    /\ pc = "recover"
    /\ running = Empty /\ staging = {}
    /\ Goto("idle")
    /\ UNCHANGED <<feed, ledger, queue, claim, job, return, loaded, sync, failure,
                   commands, imports, runs, budget>>

-----------------------------------------------------------------------------
(* sync_git_job_feed.                                                      *)

\* Fetch and reset the checkout, load the ledger.  Malformed or unapproved
\* feed files are passed over and stay out of the model.
BeginSync ==
    /\ pc = "idle"
    /\ Goto("sync")
    /\ files' = feed
    /\ memory' = ledger
    /\ UNCHANGED <<feed, ledger, queue, claim, job, return, loaded, failure, commands,
                   imports, runs, budget>>

\* A round in which the feed is not due or cannot be fetched.
SkipSync ==
    /\ pc = "idle"
    /\ Goto("claim")
    /\ UNCHANGED <<feed, ledger, queue, claim, job, return, loaded, sync, failure,
                   commands, imports, runs, budget>>

Record(j) == memory' = [memory EXCEPT ![j] = files[j]]

ImportNew(j) ==
    /\ memory[j] = Nothing /\ ~JobExists(j)
    /\ pending' = [pending EXCEPT ![j] = [content |-> files[j], approved |-> TRUE]]
    /\ Record(j)
    /\ imports' = [imports EXCEPT ![j] = Append(@, files[j])]
    /\ UNCHANGED archive

RecordExisting(j) ==
    /\ memory[j] = Nothing /\ JobExists(j)
    /\ Record(j)
    /\ UNCHANGED <<pending, archive, imports>>

\* Mutant: the replacement takes the place of the recorded content.
RecordConflictSilently(j) ==
    /\ memory[j] \notin {Nothing, files[j]}
    /\ Record(j)
    /\ UNCHANGED <<pending, archive, imports>>

\* A failed/<id>-feed-conflict directory; the ledger keeps the first content.
RecordConflict(j) ==
    /\ memory[j] \notin {Nothing, files[j]}
    /\ archive' = archive \cup {[job |-> j, place |-> "conflict", content |-> Nothing]}
    /\ UNCHANGED <<pending, memory, imports>>

AlreadySeen(j) ==
    /\ memory[j] = files[j]
    /\ UNCHANGED <<pending, archive, memory, imports>>

SyncFile(j) ==
    /\ pc = "sync"
    /\ files[j] # Nothing
    /\ files' = [files EXCEPT ![j] = Nothing]
    /\ ImportNew(j) \/ RecordExisting(j) \/ RecordConflict(j) \/ AlreadySeen(j)
    /\ UNCHANGED <<feed, ledger, running, staging, claim, pc, job, return, loaded,
                   failure, commands, runs, budget>>

\* The ledger is written once, after every file was looked at.
SaveLedger ==
    /\ pc = "sync" /\ files = Empty
    /\ ledger' = memory
    /\ memory' = Empty
    /\ Goto("claim")
    /\ UNCHANGED <<feed, queue, claim, job, return, loaded, files, failure, commands,
                   imports, runs, budget>>

\* A feed file that cannot be read or a conflict that cannot be recorded
\* raises out of the loop: the ledger is not saved, the round goes on.
SyncRaises ==
    /\ pc = "sync"
    /\ Spend("syncs")
    /\ files' = Empty /\ memory' = Empty
    /\ Goto("claim")
    /\ UNCHANGED <<feed, ledger, queue, claim, job, return, loaded, failure, commands,
                   imports, runs>>

-----------------------------------------------------------------------------
(* process_one.                                                            *)

\* _claim_next_job parses a pending file ...
Load(j) ==
    /\ pc = "claim"
    /\ Approvable(j)
    /\ job' = j /\ loaded' = pending[j].content
    /\ Goto("rename")
    /\ UNCHANGED <<feed, ledger, queue, claim, return, sync, failure, commands, imports,
                   runs, budget>>

\* ... and renames it to running/.  One that does not parse is archived as
\* failed and the scan goes on.
ClaimFile ==
    /\ pc = "rename"
    /\ running' = [running EXCEPT ![job] = pending[job].content]
    /\ pending' = [pending EXCEPT ![job] = NoFile]
    /\ IF loaded = "malformed"
       THEN Goto("fail") /\ return' = "claim"
       ELSE Goto("prepare") /\ return' = "idle"
    /\ UNCHANGED <<feed, ledger, staging, archive, claim, job, loaded, sync, failure,
                   commands, imports, runs, budget>>

NothingToClaim ==
    /\ pc = "claim"
    /\ \A j \in Job : ~Approvable(j)
    /\ Goto("idle")
    /\ UNCHANGED <<feed, ledger, queue, claim, job, return, loaded, sync, failure,
                   commands, imports, runs, budget>>

\* The source does not match, the manifest does not load: no run.
PrepareFails ==
    /\ pc = "prepare"
    /\ Goto("fail")
    /\ UNCHANGED <<feed, ledger, queue, claim, job, return, loaded, sync, failure,
                   commands, imports, runs, budget>>

Run ==
    /\ pc = "prepare"
    /\ runs' = [runs EXCEPT ![job] = Append(@, loaded)]
    /\ Goto("stage") \/ Goto("fail")
    /\ UNCHANGED <<feed, ledger, queue, claim, job, return, loaded, sync, failure,
                   commands, imports, budget>>

-----------------------------------------------------------------------------
(* _archive_success.                                                       *)

Staged(content, open) == [job |-> job, content |-> content, open |-> open]

\* Mutant: the directory is created and the job file is not copied.
StageSuccessUncopied ==
    /\ pc = "stage"
    /\ ~Archived(job, {"completed"})
    /\ staging' = staging \cup {Staged(Nothing, TRUE)}
    /\ Goto("collect")
    /\ UNCHANGED <<feed, ledger, pending, running, archive, claim, job, return, loaded,
                   sync, failure, commands, imports, runs, budget>>

\* Copy the job file into a new directory; an archive of that name or a
\* missing file raises.
StageSuccess ==
    /\ pc = "stage"
    /\ \/ /\ Archived(job, {"completed"})
          /\ Goto("fail")
          /\ UNCHANGED staging
       \/ /\ ~Archived(job, {"completed"})
          /\ staging' = staging \cup {Staged(running[job], HasRunning)}
          /\ Goto(IF HasRunning THEN "collect" ELSE "fail")
    /\ UNCHANGED <<feed, ledger, pending, running, archive, claim, job, return, loaded,
                   sync, failure, commands, imports, runs, budget>>

\* Collect the patches and write the report ...
Collect ==
    /\ pc = "collect"
    /\ HasStaging
    /\ Goto("unlink")
    /\ UNCHANGED <<feed, ledger, queue, claim, job, return, loaded, sync, failure,
                   commands, imports, runs, budget>>

\* ... unlink running/<id>.yaml ...
UnlinkRunning ==
    /\ pc = "unlink"
    /\ HasRunning
    /\ running' = [running EXCEPT ![job] = Nothing]
    /\ Goto("complete")
    /\ UNCHANGED <<feed, ledger, pending, staging, archive, claim, job, return, loaded,
                   sync, failure, commands, imports, runs, budget>>

EndJob(step) ==
    /\ Goto(step)
    /\ job' = NoJob /\ return' = "idle" /\ loaded' = Nothing
    /\ target' = "failed" /\ hand' = Nothing

\* ... and rename the directory to completed/<id>.
PublishSuccess(d) ==
    /\ pc = "complete"
    /\ d.open
    /\ staging' = staging \ {d}
    /\ archive' = archive \cup {[job |-> job, place |-> "completed",
                                 content |-> d.content]}
    /\ EndJob("idle")
    /\ UNCHANGED <<feed, ledger, pending, running, claim, sync, commands, imports, runs,
                   budget>>

\* Any of these operations raises: the attempt is archived as failed and the
\* directory stays until the next start.
SuccessRaises ==
    /\ pc \in {"collect", "unlink", "complete"}
    /\ \/ Spend("io")
       \/ /\ IF pc = "unlink" THEN ~HasRunning ELSE ~HasStaging
          /\ UNCHANGED budget
    /\ staging' = LeftBehind
    /\ Goto("fail")
    /\ UNCHANGED <<feed, ledger, pending, running, archive, claim, job, return, loaded,
                   sync, failure, commands, imports, runs>>

-----------------------------------------------------------------------------
(* _archive_failure.                                                       *)

StageFailure ==
    /\ pc = "fail"
    /\ target' = FailurePlace(job)
    /\ staging' = staging \cup {Staged(Nothing, TRUE)}
    /\ Goto("failMove")
    /\ UNCHANGED <<feed, ledger, pending, running, archive, claim, job, return, loaded,
                   sync, hand, commands, imports, runs, budget>>

\* The running file, if it is still there, moves into the directory.
MoveToFailure(d) ==
    /\ pc = "failMove"
    /\ d.open
    /\ staging' = (staging \ {d}) \cup {Staged(running[job], TRUE)}
    /\ running' = [running EXCEPT ![job] = Nothing]
    /\ Goto("failPublish")
    /\ UNCHANGED <<feed, ledger, pending, archive, claim, job, return, loaded, sync,
                   failure, commands, imports, runs, budget>>

PublishFailure(d) ==
    /\ pc = "failPublish"
    /\ d.open
    /\ ~PlaceTaken(job, target)
    /\ staging' = staging \ {d}
    /\ archive' = archive \cup {[job |-> job, place |-> target, content |-> d.content]}
    /\ hand' = d.content
    /\ Goto("failRelease")
    /\ UNCHANGED <<feed, ledger, pending, running, claim, job, return, loaded, sync,
                   target, commands, imports, runs, budget>>

\* Mutant: the claim of a failed job is left alone.
ReleaseClaimNever ==
    /\ pc = "failRelease"
    /\ EndJob(return)
    /\ UNCHANGED <<feed, ledger, queue, claim, sync, commands, imports, runs, budget>>

\* _release_claim_for_failure: the archived job.yaml names the claim.  A
\* release that is refused or fails is recorded in claim-release-error.json.
ReleaseClaim ==
    /\ pc = "failRelease"
    /\ \/ /\ claim' = [claim EXCEPT ![job] = IF NamesClaim(hand) THEN "failed" ELSE @]
          /\ UNCHANGED budget
       \/ /\ NamesClaim(hand)
          /\ Spend("io")
          /\ claim' = [claim EXCEPT ![job] = IF @ = "failed" THEN @ ELSE "refused"]
    /\ EndJob(return)
    /\ UNCHANGED <<feed, ledger, queue, sync, commands, imports, runs>>

-----------------------------------------------------------------------------
HostStep ==
    \/ \E j \in Job : RecoverRunning(j) \/ SyncFile(j) \/ Load(j)
    \/ \E d \in staging :
          RecoverStaging(d) \/ PublishSuccess(d) \/ MoveToFailure(d) \/ PublishFailure(d)
    \/ Recovered
    \/ BeginSync \/ SkipSync \/ SaveLedger \/ SyncRaises
    \/ ClaimFile \/ NothingToClaim \/ PrepareFails \/ Run
    \/ StageSuccess \/ Collect \/ UnlinkRunning \/ SuccessRaises
    \/ StageFailure \/ ReleaseClaim \/ ArchivingFails

Next ==
    \/ \E j \in Job : Submit(j) \/ Rewrite(j) \/ BeginCommand(j)
    \/ FinishCommand \/ HostInit
    \/ HostStep
    \/ Start \/ Stop \/ Crash

Spec == Init /\ [][Next]_vars

\* Task Scheduler starts a host that is down, a run ends (the backend kills it
\* at its timeout), the feed falls due again and again, and the scan in name
\* order comes to every pending file because those before it leave the queue.
FairSpec ==
    /\ Spec
    /\ WF_vars(Start) /\ WF_vars(HostStep)
    /\ SF_vars(BeginSync)
    /\ \A j \in Job : SF_vars(Load(j))

-----------------------------------------------------------------------------
(* Properties.                                                             *)

\* The content of an imported job is always somewhere: in the queue, in a
\* staging directory or in an archive ("rather than losing it",
\* _archive_success), wherever the host dies and whatever fails.  (An operator's
\* enqueue that looked before the import writes over the imported file, and so
\* does an approve that read the first content when the replacement came in.)
NoJobLost ==
    Never({"enqueue"}) /\ (Never({"approve"}) \/ Never({"rewrites"})) =>
        \A j \in Job : \A n \in DOMAIN imports[j] :
            \/ imports[j][n] \in {pending[j].content, running[j]}
            \/ \E d \in staging \cup archive : d.job = j /\ d.content = imports[j][n]

\* "recovers interrupted jobs into a failed archive instead of silently
\* rerunning them" (PERSISTENT_WINDOWS_HOST_V1.md), and how far that goes: as
\* long as no command puts a job back, one runs twice only if the archive of its
\* first run was recovered under a name _job_exists does not know and the ledger
\* lost its import, and that takes two crashes, or a crash and a broken-off
\* synchronization.
RerunNeedsTwoFaults ==
    Never({"approve", "enqueue", "init"}) =>
        \A j \in Job : Len(runs[j]) > 1 =>
            /\ Archived(j, {"recovered"})
            /\ budget["crashes"].spent + budget["syncs"].spent >= 2

\* A job waits or runs, never both: a claim is one rename, and a job that has
\* left pending/ is put back by a late command only.
OnePlaceInQueue ==
    Never({"approve", "enqueue"}) => \A j \in Job : pending[j] # NoFile => running[j] = Nothing

\* While the host works on a job its file stays in running/ until every
\* archive artifact is ready (_archive_success), so that what interrupts the
\* host, or a recovery that does not wait for it, and nothing else, turns the
\* job into an interrupted one.
RunningWhileExecuted ==
    Never({"init"}) => (pc \in {"prepare", "stage", "collect", "unlink"} => HasRunning)

\* The ledger remembers what was imported: without a fault a job is imported
\* once, whatever becomes of its file in the feed and in the queue.
ImportedOnce ==
    Never(Faults) =>
        \A j \in Job : imports[j] # <<>> =>
            /\ Len(imports[j]) = 1
            /\ pc # "sync" => ledger[j] = imports[j][1]

QueueInv ==
    TypeOK /\ NoJobLost /\ OnePlaceInQueue /\ RunningWhileExecuted /\ ImportedOnce

\* A failed attempt does not keep its writer claim (the docstring of
\* _release_claim_for_failure): between two jobs, the claim named by an
\* archived attempt that did not complete is released, or the refusal is on
\* record, as long as nothing was recovered from staging.
FailedAttemptsFreeTheirClaim ==
    Never(Faults \cup {"init"}) /\ pc = "idle" =>
        \A a \in archive : a.place # "completed" /\ NamesClaim(a.content)
            => claim[a.job] # "active"

\* "Reusing the same ID with different content creates a feed-conflict record
\* rather than executing the replacement" (PERSISTENT_WINDOWS_HOST_V1.md): the
\* record comes, through crashes and broken-off synchronizations.
ReplacementIsRecorded ==
    \A j \in Job : ledger[j] = "v1" /\ feed[j] = "v2" ~> Archived(j, {"conflict"})

\* Every submitted job ends in an archive, crashes, failures and a host-init
\* that breaks off between two of its steps included, or somebody enqueues (his
\* job may take the file's place, and wait for approval).
EveryJobArchived ==
    \A j \in Job : feed[j] # Nothing
        ~> \/ Archived(j, {"completed", "failed", "repeated", "recovered"})
           \/ ~Never({"enqueue"})
=============================================================================
