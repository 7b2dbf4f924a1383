--------------------------- MODULE ResultsPipeline ---------------------------
(***************************************************************************)
(* What happens to a job the host has completed.  The results relay        *)
(* (results_relay.py) reconstructs its patch from the live workspace and   *)
(* pushes it to the results branch; the candidate gate (candidate_gate.py) *)
(* adds a verdict to what it finds there; the revision loop                *)
(* (revision_loop.py) queues a correction job for a failed verdict on the  *)
(* jobs branch, which the host runs in its turn.  The three are processes  *)
(* of their own.  Each has its clone of the branch, pushes to it beside    *)
(* the others, and keeps a ledger that it saves after the push.            *)
(*                                                                         *)
(* Jobs are numbers, in the order of their names.  A report or a verdict   *)
(* carries the time it was made, so that no two are equal: a version       *)
(* number, and a verdict's number for its version, stand for their hashes. *)
(***************************************************************************)
EXTENDS Naturals, FiniteSets

CONSTANTS
    Job,               \* job ids, in the order of their names
    Item,              \* work item of each job
    Depth,             \* 0, or the number of a correction job
    Lane,              \* workspace of each job
    Changes,           \* paths each job's work changes
    NoJob,
    MaxDepth,          \* max_revision_depth
    MaxFaults,         \* bound: crashes of the services and pushes that fail
    MaxOthers          \* bound: pushes of other writers to the two branches

ASSUME ResultsPipelineAssumption ==
    /\ Job \subseteq Nat \ {0}
    /\ DOMAIN Item = Job /\ Depth \in [Job -> Nat]
    /\ DOMAIN Lane = Job /\ DOMAIN Changes = Job
    /\ NoJob \notin Job
    /\ {MaxDepth, MaxFaults, MaxOthers} \subseteq Nat
    \* every failed job that may still be corrected has a correction id
    /\ \A j \in Job : Depth[j] < MaxDepth =>
           \E r \in Job : Item[r] = Item[j] /\ Depth[r] = Depth[j] + 1

VARIABLES
    feed,              \* the verdict each queued correction job was made from
    completed,         \* queue/completed
    workspace,         \* job that last ran in each lane
    results,           \* results/<machine> on the results branch
    relay,             \* the relay: step, jobs of this cycle, staged work
    commit,            \* the relay clone's commit that is not pushed
    gate,              \* the gate: step, jobs of this cycle, verdict
    base,              \* the gate's clone
    loop,              \* the revision loop: step, jobs of this cycle
    seen,              \* verdicts in the revision loop's clone
    behind,            \* clones in use that the branch has moved on from
    ledgers,           \* the three ledgers
    rebasing,          \* the gate's clone is left inside a rebase
    faults, others

clones == <<relay, commit, gate, base, loop, seen>>
vars == <<feed, completed, workspace, results, clones, behind, ledgers,
          rebasing, faults, others>>

NoVerdict == [version |-> 0, number |-> 0, status |-> "none"]
\* An unvalidated result, or a failure of the host and not of the product,
\* concerns the revision loop no more than a pass and counts as one.
Status == {"passed", "failed"}
Verdict == [version: Nat, number: Nat, status: Status]
NoResult == [version |-> 0, work |-> NoJob, verdict |-> NoVerdict]
Result == [version: Nat \ {0}, work: Job, verdict: Verdict \cup {NoVerdict}]
NoCommit == [job |-> NoJob, result |-> NoResult]
NotQueued == [source |-> NoJob, verdict |-> NoVerdict]

Nothing == [j \in Job |-> NoResult]
NoVerdicts == [j \in Job |-> NoVerdict]

TypeOK ==
    /\ feed \in [Job -> [source: Job, verdict: Verdict] \cup {NotQueued}]
    /\ completed \subseteq Job
    /\ workspace \in [{Lane[j] : j \in Job} -> Job \cup {NoJob}]
    /\ {results, base} \subseteq [Job -> Result \cup {NoResult}]
    /\ relay \in [at: {"idle", "stage", "publish", "push", "record"},
                  todo: SUBSET Job, work: Job \cup {NoJob}]
    /\ commit \in [job: Job, result: Result] \cup {NoCommit}
    /\ gate \in [at: {"idle", "check", "push", "rebase", "again", "record"},
                 todo: SUBSET Job, verdict: Verdict \cup {NoVerdict}]
    /\ loop \in [at: {"idle", "scan", "push", "record"}, todo: SUBSET Job]
    /\ seen \in [Job -> Verdict \cup {NoVerdict}]
    /\ behind \subseteq {"relay", "gate", "loop"}
    /\ ledgers \in [relay: SUBSET Job, gate: [Job -> Nat],
                    loop: [Job -> Verdict \cup {NoVerdict}]]
    /\ rebasing \in BOOLEAN
    /\ faults \in [{"relay", "gate", "loop"} -> 0..MaxFaults]
    /\ others \in 0..MaxOthers

IdleRelay == [at |-> "idle", todo |-> {}, work |-> NoJob]
IdleGate == [at |-> "idle", todo |-> {}, verdict |-> NoVerdict]
IdleLoop == [at |-> "idle", todo |-> {}]

Init ==
    /\ feed = [j \in Job |-> NotQueued]
    /\ completed = {}
    /\ workspace = [l \in {Lane[j] : j \in Job} |-> NoJob]
    /\ results = Nothing
    /\ relay = IdleRelay /\ commit = NoCommit
    /\ gate = IdleGate /\ base = Nothing
    /\ loop = IdleLoop /\ seen = NoVerdicts
    /\ behind = {}
    /\ ledgers = [relay |-> {}, gate |-> [j \in Job |-> 0], loop |-> NoVerdicts]
    /\ rebasing = FALSE
    /\ faults = [s \in {"relay", "gate", "loop"} |-> 0]
    /\ others = 0

First(jobs) == CHOOSE j \in jobs : \A k \in jobs : j <= k
Later(jobs) == jobs \ {First(jobs)}

-----------------------------------------------------------------------------
(* Around the pipeline.                                                    *)

\* The host runs a job of the feed in its lane and archives it completed.
Complete(j) ==
    /\ j \notin completed
    /\ Depth[j] = 0 \/ feed[j] # NotQueued
    /\ completed' = completed \cup {j}
    /\ workspace' = [workspace EXCEPT ![Lane[j]] = j]
    /\ UNCHANGED <<feed, results, clones, behind, ledgers, rebasing, faults, others>>

\* A push leaves other clones behind.  It matters to the relay when it has a
\* commit to push, and to the others, who reset theirs, until their cycle ends.
Overtake(them) ==
    behind' = behind \cup {c \in them : \/ c = "relay" /\ commit # NoCommit
                                        \/ c = "gate" /\ gate.at # "idle"
                                        \/ c = "loop" /\ loop.at # "idle"}

\* The publisher, the completion controller or the self-update relay pushes to
\* the results branch, or build next to the jobs branch: other files.
OtherPush ==
    /\ others < MaxOthers
    /\ others' = others + 1
    /\ Overtake({"relay", "gate"}) \/ Overtake({"loop"})
    /\ UNCHANGED <<feed, completed, workspace, results, clones, ledgers, rebasing, faults>>

\* A service dies, or one of its pushes does not get through.
Fault(service) ==
    /\ faults["relay"] + faults["gate"] + faults["loop"] < MaxFaults
    /\ faults' = [faults EXCEPT ![service] = @ + 1]

-----------------------------------------------------------------------------
(* The results relay.                                                      *)

relayFrame == <<feed, completed, workspace, gate, base, loop, seen, rebasing, others>>

\* run_once: the completed jobs that are not in the ledger, by name.
RelayBegin ==
    /\ relay.at = "idle"
    /\ completed \ ledgers.relay # {}
    /\ relay' = [relay EXCEPT !.at = "stage", !.todo = completed \ ledgers.relay]
    /\ UNCHANGED <<relayFrame, results, commit, behind, ledgers, faults>>

\* Mutant: the workspace's paths are not compared with the job's evidence.
ReconstructUnchecked ==
    /\ relay.at = "stage"
    /\ LET j == First(relay.todo) IN
       relay' = [relay EXCEPT !.at = "publish", !.work = workspace[Lane[j]]]
    /\ UNCHANGED <<relayFrame, results, commit, behind, ledgers, faults>>

\* Mutant: the patch is published as the host left it.
ReconstructNothing ==
    /\ relay.at = "stage"
    /\ relay' = [relay EXCEPT !.at = "publish"]
    /\ UNCHANGED <<relayFrame, results, commit, behind, ledgers, faults>>

\* reconstruct_job reads the lane's workspace as it is now, and refuses it
\* when the changed paths are not the job's.
Reconstruct ==
    /\ relay.at = "stage"
    /\ LET j == First(relay.todo) IN
       relay' = IF Changes[workspace[Lane[j]]] = Changes[j]
                THEN [relay EXCEPT !.at = "publish", !.work = workspace[Lane[j]]]
                ELSE IdleRelay
    /\ UNCHANGED <<relayFrame, results, commit, behind, ledgers, faults>>

\* GitResultsSink._prepare with a commit an earlier cycle left: it is pushed
\* before anything else, and never rebased.
PushLeftover ==
    /\ relay.at = "publish"
    /\ commit # NoCommit
    /\ IF "relay" \in behind
       THEN relay' = IdleRelay /\ UNCHANGED <<results, commit, behind>>
       ELSE /\ results' = [results EXCEPT ![commit.job] = commit.result]
            /\ commit' = NoCommit
            /\ Overtake({"gate"})
            /\ UNCHANGED relay
    /\ UNCHANGED <<relayFrame, ledgers, faults>>

\* _prepare resets the clone; publish replaces the job's directory, verdict
\* included, and commits.
CommitResult ==
    /\ relay.at = "publish"
    /\ commit = NoCommit
    /\ LET j == First(relay.todo) IN
       commit' = [job |-> j,
                  result |-> [version |-> results[j].version + 1,
                              work |-> relay.work, verdict |-> NoVerdict]]
    /\ behind' = behind \ {"relay"}
    /\ relay' = [relay EXCEPT !.at = "push", !.work = NoJob]
    /\ UNCHANGED <<relayFrame, results, ledgers, faults>>

\* Accepted, or rejected because another writer was first.
PushResult ==
    /\ relay.at = "push"
    /\ IF "relay" \in behind
       THEN relay' = IdleRelay /\ UNCHANGED <<results, commit, behind>>
       ELSE /\ results' = [results EXCEPT ![commit.job] = commit.result]
            /\ commit' = NoCommit
            /\ Overtake({"gate"})
            /\ relay' = [relay EXCEPT !.at = "record"]
    /\ UNCHANGED <<relayFrame, ledgers, faults>>

\* Mutant: the ledger is not saved.
RecordResultUnsaved ==
    /\ relay.at = "record"
    /\ relay' = IF Later(relay.todo) = {} THEN IdleRelay
                ELSE [relay EXCEPT !.at = "stage", !.todo = Later(@)]
    /\ UNCHANGED <<relayFrame, results, commit, behind, ledgers, faults>>

\* The ledger is saved, and the next job of the cycle taken.
RecordResult ==
    /\ relay.at = "record"
    /\ ledgers' = [ledgers EXCEPT !.relay = @ \cup {First(relay.todo)}]
    /\ relay' = IF Later(relay.todo) = {} THEN IdleRelay
                ELSE [relay EXCEPT !.at = "stage", !.todo = Later(@)]
    /\ UNCHANGED <<relayFrame, results, commit, behind, faults>>

\* The process dies, or a push does not reach the remote; its files stay.
RelayFault ==
    /\ relay.at # "idle"
    /\ Fault("relay")
    /\ relay' = IdleRelay
    /\ UNCHANGED <<relayFrame, results, commit, behind, ledgers>>

-----------------------------------------------------------------------------
(* The candidate gate.                                                     *)

gateFrame == <<feed, completed, workspace, relay, commit, loop, seen, others>>

Resulted(tree) == {j \in Job : tree[j] # NoResult}

\* Mutant: the clone is not reset to what was fetched.
GateBeginUnfetched ==
    /\ gate.at = "idle"
    /\ ~rebasing
    /\ gate' = [gate EXCEPT !.at = "check", !.todo = Resulted(base)]
    /\ UNCHANGED <<gateFrame, results, base, behind, ledgers, rebasing, faults>>

\* ResultsBranch.prepare resets the clone to the branch; a clone left inside a
\* rebase cannot be checked out and the cycle ends.
GateBegin ==
    /\ gate.at = "idle"
    /\ ~rebasing
    /\ base' = results
    /\ gate' = [gate EXCEPT !.at = "check", !.todo = Resulted(results)]
    /\ UNCHANGED <<gateFrame, results, behind, ledgers, rebasing, faults>>

\* Jobs the ledger binds to the version in the clone are passed over.
Unsettled(jobs) == {j \in jobs : ledgers.gate[j] # base[j].version}
EndGate == gate' = IdleGate /\ base' = Nothing /\ behind' = behind \ {"gate"}

GateCycleEnds ==
    /\ gate.at = "check"
    /\ Unsettled(gate.todo) = {}
    /\ EndGate
    /\ UNCHANGED <<gateFrame, results, ledgers, rebasing, faults>>

\* A ledger entry for another version ends the cycle: "relayed result changed
\* after gate processing".
GateRefuses ==
    /\ gate.at = "check"
    /\ Unsettled(gate.todo) # {}
    /\ ledgers.gate[First(Unsettled(gate.todo))] # 0
    /\ EndGate
    /\ UNCHANGED <<gateFrame, results, ledgers, rebasing, faults>>

\* A new verdict on j, to be pushed.
Judged(j) ==
    LET last == base[j].verdict
        number == IF last.version = base[j].version THEN last.number + 1 ELSE 1
    IN  {[at |-> "push", todo |-> {k \in gate.todo : k >= j},
          verdict |-> [version |-> base[j].version, number |-> number, status |-> s]] :
            s \in Status}

\* Mutant: the ledger is saved before the verdict is pushed.
CheckRecords ==
    /\ gate.at = "check"
    /\ Unsettled(gate.todo) # {}
    /\ LET j == First(Unsettled(gate.todo)) IN
       /\ ledgers.gate[j] = 0
       /\ ledgers' = [ledgers EXCEPT !.gate[j] = base[j].version]
       /\ gate' \in Judged(j)
    /\ UNCHANGED <<gateFrame, results, base, behind, rebasing, faults>>

\* process_job: the candidate is cloned, patched and checked.
Check ==
    /\ gate.at = "check"
    /\ Unsettled(gate.todo) # {}
    /\ LET j == First(Unsettled(gate.todo)) IN
       /\ ledgers.gate[j] = 0
       /\ gate' \in Judged(j)
    /\ UNCHANGED <<gateFrame, results, base, behind, ledgers, rebasing, faults>>

\* The gate's commit arrives on the branch.
Deliver(next) ==
    /\ results' = [results EXCEPT ![First(gate.todo)].verdict = gate.verdict]
    /\ base' = results'
    /\ Overtake({"relay"})
    /\ gate' = [gate EXCEPT !.at = next]

PushVerdict ==
    /\ gate.at = "push"
    /\ IF "gate" \in behind
       THEN gate' = [gate EXCEPT !.at = "rebase"] /\ UNCHANGED <<results, base, behind>>
       ELSE Deliver("record")
    /\ UNCHANGED <<gateFrame, ledgers, rebasing, faults>>

\* pull --rebase puts the verdict on top of what the branch holds now; it
\* stops where the branch has deleted the verdict this one replaces.
Rebase ==
    /\ gate.at = "rebase"
    /\ LET j == First(gate.todo) IN
       IF results[j].verdict # base[j].verdict
       THEN EndGate /\ rebasing' = TRUE
       ELSE /\ base' = results
            /\ behind' = behind \ {"gate"}
            /\ gate' = [gate EXCEPT !.at = "again"]
            /\ UNCHANGED rebasing
    /\ UNCHANGED <<gateFrame, results, ledgers, faults>>

PushAgain ==
    /\ gate.at = "again"
    /\ IF "gate" \in behind
       THEN EndGate /\ UNCHANGED results
       ELSE Deliver("record")
    /\ UNCHANGED <<gateFrame, ledgers, rebasing, faults>>

\* The ledger binds the job to the version that was checked.
RecordVerdict ==
    /\ gate.at = "record"
    /\ ledgers' = [ledgers EXCEPT !.gate[First(gate.todo)] = gate.verdict.version]
    /\ gate' = [at |-> "check", todo |-> Later(gate.todo), verdict |-> NoVerdict]
    /\ UNCHANGED <<gateFrame, results, base, behind, rebasing, faults>>

\* The next cycle resets the clone: an unpushed verdict is lost.
GateFault ==
    /\ gate.at # "idle"
    /\ Fault("gate")
    /\ EndGate
    /\ UNCHANGED <<gateFrame, results, ledgers, rebasing>>

-----------------------------------------------------------------------------
(* The revision loop.                                                      *)

loopFrame == <<completed, workspace, results, relay, commit, gate, base, rebasing, others>>

EndLoop == loop' = IdleLoop /\ seen' = NoVerdicts /\ behind' = behind \ {"loop"}

\* Both clones are reset; the failed verdicts are taken by name.
LoopBegin ==
    /\ loop.at = "idle"
    /\ seen' = [j \in Job |-> results[j].verdict]
    /\ loop' = [at |-> "scan", todo |-> {j \in Job : results[j].verdict.status = "failed"}]
    /\ UNCHANGED <<loopFrame, feed, behind, ledgers, faults>>

\* The correction job of j: the prefix names the work item, not the attempt.
Corrections(j) == {r \in Job : Item[r] = Item[j] /\ Depth[r] = Depth[j] + 1}
Correction(j) == CHOOSE r \in Corrections(j) : TRUE
Manifest(j) == [source |-> j, verdict |-> seen[j]]
Pending(jobs) == {j \in jobs : ledgers.loop[j] # seen[j]}

LoopCycleEnds ==
    /\ loop.at = "scan"
    /\ Pending(loop.todo) = {}
    /\ EndLoop
    /\ UNCHANGED <<loopFrame, feed, ledgers, faults>>

\* Mutant: an existing manifest is overwritten.
RefusedBlindly(j) == ledgers.loop[j] # NoVerdict \/ Depth[j] >= MaxDepth

\* What makes the loop raise on a job: its verdict has changed, it is as deep
\* as allowed, or its correction's id is taken by another manifest.
Refused(j) ==
    \/ ledgers.loop[j] # NoVerdict
    \/ Depth[j] >= MaxDepth
    \/ \E r \in Corrections(j) : feed[r] \notin {NotQueued, Manifest(j)}

LoopRefuses ==
    /\ loop.at = "scan"
    /\ Pending(loop.todo) # {}
    /\ Refused(First(Pending(loop.todo)))
    /\ EndLoop
    /\ UNCHANGED <<loopFrame, feed, ledgers, faults>>

\* build_revision_manifest; _publish finds the file or commits it.
Revise ==
    /\ loop.at = "scan"
    /\ Pending(loop.todo) # {}
    /\ LET j == First(Pending(loop.todo)) IN
       /\ ~Refused(j)
       /\ loop' = [at |-> IF feed[Correction(j)] = Manifest(j) THEN "record" ELSE "push",
                   todo |-> {k \in loop.todo : k >= j}]
    /\ UNCHANGED <<loopFrame, feed, seen, behind, ledgers, faults>>

\* A rejected push ends the cycle; the next one resets the clone.
PushCorrection ==
    /\ loop.at = "push"
    /\ LET j == First(loop.todo) IN
       IF "loop" \in behind
       THEN EndLoop /\ UNCHANGED feed
       ELSE /\ feed' = [feed EXCEPT ![Correction(j)] = Manifest(j)]
            /\ loop' = [loop EXCEPT !.at = "record"]
            /\ UNCHANGED <<seen, behind>>
    /\ UNCHANGED <<loopFrame, ledgers, faults>>

RecordCorrection ==
    /\ loop.at = "record"
    /\ LET j == First(loop.todo) IN
       ledgers' = [ledgers EXCEPT !.loop[j] = seen[j]]
    /\ loop' = [at |-> "scan", todo |-> Later(loop.todo)]
    /\ UNCHANGED <<loopFrame, feed, seen, behind, faults>>

LoopFault ==
    /\ loop.at # "idle"
    /\ Fault("loop")
    /\ EndLoop
    /\ UNCHANGED <<loopFrame, feed, ledgers>>

-----------------------------------------------------------------------------
RelayStep == RelayBegin \/ Reconstruct \/ PushLeftover \/ CommitResult \/ PushResult
             \/ RecordResult
GateStep == GateBegin \/ GateCycleEnds \/ GateRefuses \/ Check \/ PushVerdict \/ Rebase
            \/ PushAgain \/ RecordVerdict
LoopStep == LoopBegin \/ LoopCycleEnds \/ LoopRefuses \/ Revise \/ PushCorrection
            \/ RecordCorrection

Next == \/ \E j \in Job : Complete(j)
        \/ OtherPush
        \/ RelayStep \/ GateStep \/ LoopStep
        \/ RelayFault \/ GateFault \/ LoopFault

Spec == Init /\ [][Next]_vars

\* Each service polls for ever and is started again when it dies.
FairSpec == Spec /\ WF_vars(RelayStep) /\ WF_vars(GateStep) /\ WF_vars(LoopStep)

-----------------------------------------------------------------------------
(* What the pipeline promises.                                             *)

\* What is on the results branch as a job's work is that job's work
\* (reconstruct_job, "workspace drift").  Not so when a later job of the lane
\* changed the same paths.
RelayedWorkIsOwn == \A j \in Resulted(results) : results[j].work = j

\* Work w may be taken for that of job j: it is of the same lane and changes
\* the same paths, and, unless it is j's own, w has replaced it in the lane.
Fits(j, w) ==
    /\ {j, w} \subseteq completed
    /\ Lane[w] = Lane[j] /\ Changes[w] = Changes[j]
    /\ w # j => workspace[Lane[j]] # j

\* What is on the results branch as a job's work is that job's, or it is that of
\* another job that completed in the lane after it and changes the same paths:
\* never that of an earlier job, of a job that changes other paths, or of
\* another lane, whatever commit an earlier cycle left and whoever died.
RelayedWorkFits == \A j \in Resulted(results) : Fits(j, results[j].work)

\* A job the gate passes over has its verdict, on the result it has now, on
\* the branch: no push that was lost, rebased or beaten is taken for one that
\* arrived (publish_report and the ledger in run_once).
PassedOverMeansJudged ==
    \A j \in Resulted(results) :
        ledgers.gate[j] = results[j].version => results[j].verdict.version = results[j].version

\* Evidence on the branch is replaced only after a fault of its own service:
\* races between the services and with other writers never rewrite a result
\* or a verdict (the ledgers, "immutable review evidence").
RewritesNeedFaults ==
    \A j \in Resulted(results) :
        /\ results[j].version <= 1 + faults["relay"]
        /\ results[j].verdict.number <= 1 + faults["gate"]

\* A failed verdict in the revision loop's ledger has its correction on the
\* jobs branch, made from that verdict, and no other verdict's correction has
\* replaced it (_publish, "already exists with different content").
RevisedMeansQueued ==
    \A j \in Job : ledgers.loop[j] # NoVerdict =>
        feed[Correction(j)] = [source |-> j, verdict |-> ledgers.loop[j]]

Unrelayed == completed \ ledgers.relay
RelayBlocked ==
    \/ commit # NoCommit /\ "relay" \in behind
    \/ Unrelayed # {} /\ LET j == First(Unrelayed)
                         IN  Changes[workspace[Lane[j]]] # Changes[j]
Judgeable == {j \in Resulted(results) : ledgers.gate[j] # results[j].version}
GateBlocked == rebasing \/ \E j \in Judgeable : ledgers.gate[j] # 0
Failed == {j \in Job : results[j].verdict.status = "failed"
                       /\ ledgers.loop[j] # results[j].verdict}
LoopBlocked ==
    \E j \in Failed :
        \/ ledgers.loop[j] # NoVerdict
        \/ Depth[j] >= MaxDepth
        \/ \E r \in Corrections(j) :
               feed[r] \notin {NotQueued, [source |-> j, verdict |-> results[j].verdict]}

\* When the faults and the pushes of others have ended, each service finishes
\* what there is for it to do, or stands still for one of the reasons above:
\* races between the three cannot keep one of them from its work.
Settles == <>[](/\ Unrelayed = {} \/ RelayBlocked
                /\ Judgeable = {} \/ GateBlocked
                /\ Failed = {} \/ LoopBlocked)
=============================================================================
