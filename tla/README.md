# Verification of MSOS Autobuilder

TLA+ models of the parts of MSOS Autobuilder whose correctness depends on the
order in which things happen, TLC runs that check them on small instances, and
TLAPS proofs of the properties that matter most for every size. Paths below are
relative to the repository (`src/` stands for its root).

1. [The system](#1-the-system)
2. [Modules](#2-modules)
3. [Runs](#3-runs): what each checks, its bounds, its fairness
4. [What is proved](#4-what-is-proved)
5. [Where the code and its documents disagree](#5-where-the-code-and-its-documents-disagree)
6. [What the models show beyond the runs](#6-what-the-models-show-beyond-the-runs)
7. [What is not modelled](#7-what-is-not-modelled)
8. [Plan](#8-plan)

## 1. The system

MSOS Autobuilder keeps a coding agent busy on one Windows machine. Services,
each a Python process started by Task Scheduler, pass work to one another
through files and through two Git branches. There is no database and no
message queue: every hand-over is a rename, an exclusive create or a push, and
every service keeps a JSON ledger of what it has done, saved after the fact.

```
 refill controller ──build next──▶ jobs branch ──sync──▶ persistent host ──runs──▶ lanes
    │ admit / prepare      ▲            ▲                     │ completed/<job>
    ▼                      │            └── correction ──┐    ▼
 writer claims        lifecycle evidence            revision loop ◀── verdict ── candidate gate
    ▲                                                     │                          ▲
    └── released by host, completion controller           ▼                          │
                                              results branch ◀── results relay ──────┘
                                                     │
                                   publisher ──draft PR──▶ completion controller ──merge

 self-update supervisor: replaces the release all of these services run
```

| component | state it keeps | operations | what makes it correct |
|---|---|---|---|
| **Work admission** `work_admission.py` | one claim file per objective, an index of active claims, an OS lock | `admit_work`, `release_claim`, called by build next, the host, the publisher and the completion controller, each a process of its own | no two writers own overlapping paths; a generation fences out the writer it superseded; a claim that ended stays ended; the index can lag behind a crash but heals |
| **Host process lock** `HostProcessLock` in `persistent_host.py` | `host.lock` with a pid and a token | acquire (exists, read, alive?, rename away, exclusive create, write), release | one host at a time; a dead host's file keeps nobody out |
| **Persistent host** `persistent_host.py` | `queue/pending`, `running`, `completed`, `failed`, `archive-staging`, `state/feed-seen.json` | synchronize the feed, claim by rename, run, archive through a staging directory, recover at start; operator commands enqueue, approve, host-init in another process | no job is lost, none runs twice, failed attempts free their writer claim, a replaced feed file is never executed unrecorded, every job is archived in the end |
| **Lane leases, scheduler, shadow runner** `leases.py`, `scheduler.py`, `codex_shadow.py` | `<lane>.json` leases, `<lane>.lock` files, workspaces, a heartbeat thread per run | acquire all leases, execute one task per lane, renew, release in reverse | a run executes only with unexpired leases on all its lanes, in workspaces of its own; every lease is released |
| **Lane ownership** `lanes.py`, `models.py` | none | `lanes_conflict`, `PathContract` | lanes that run side by side own no path in common |
| **Results pipeline** `results_relay.py`, `candidate_gate.py`, `revision_loop.py` | three clones, three ledgers, the results and jobs branches | relay a completed job's patch, judge it, queue a correction for a failed verdict | what is published as a job's work is that job's; verdicts and corrections stay matched to what they are about; nothing judged or corrected is lost to a rejected push |
| **Self-update supervisor** `self_update_supervisor.py` | `active-release.json`, `previous-release.json`, version directories, ledger, witnesses, the managed tasks | stage, save, stop, swap, start, verify, restore; rollback | pointers name complete releases, a proven one is at hand, no poll repeats a cutover by itself, services come back |
| **Refill controller, build next** `refill_controller.py`, `build_next.py` | the refill policy, generation, archived generations, receipts; a clone of the jobs branch | reconcile: count, recover, replay, decide, author, prepare, submit; the founder's pause, resume, keep-one, supersede, build-next | capacity one; a job on the branch is one the generation knows, whatever died; a prepared dispatch is resolved |
| **Catalog materializer** `catalog_materializer.py` | the same clone, under another lock | author and publish the next packet | a packet appears after the merge of what it depends on |
| **Attempt lifecycle evidence** `lifecycle_evidence.py` | immutable envelopes, stream heads, a journal, four materialized files per attempt, `evidence-heads.lock` | emit, reduce, materialize, restore, classify, commit on a basis | a closed stream stays closed; the files follow the journal; refill goes past published work only |
| **Controlled publisher** `controlled_publisher.py` | ledger, product branches, draft pull requests, reports and sidecars on the results branch | admit, prepare, push, open a draft, report, verify again, free the claim | the claim covers the draft; the ledger never says more than has happened |
| **Completion controller** `completion_controller.py` | ledger | undraft, review, intent, merge under guard, verify, clean up, state, free, close; resume from each | it merges only what was validated, at that commit; the claim is freed after the merge |

The hard behaviour is the same everywhere: a service dies between two file
operations and must make sense of what it finds when Task Scheduler starts it
again; two processes meet over one file or one branch; something read is stale
when it is used. `PROJECT.json` lists these hazards line by line with the
properties that watch them. A few further hazards were met while reading and
are not in that list, because others carry the same question or because the
models cannot answer them: Windows reuses process ids, so a dead host's pid may
belong to another process (`persistent_host.py:819`); conflict records for a
replaced feed file grow without bound; a release of several leases that fails
half way leaves the rest to expire; the self-update lock is taken over by
unlinking it; its reports may be torn; a revision is made from the verdict read at
the head of the cycle.

## 2. Modules

| module | models | notes |
|---|---|---|
| `Claims` | data and decisions of `work_admission.py`: path overlap, classification of related pull requests, the outcome of admission and release | no state |
| `ClaimRegistry` | **abstract specification**: an admission or a release is one atomic step on the registry of claims | |
| `WorkAdmission` | `admit_work` and `release_claim` as the code runs them: screening, lock file, the claim file, the index file, unlock, with a death or a failed write at each step | implements `ClaimRegistry` |
| `ProcessLock` | `HostProcessLock.acquire`/`release`, one action per file operation, pids that live and die | its names (`LockSpec`, `lockPc`, …) keep clear of `PersistentHost`'s, and the theorems of both are in one module |
| `PersistentHost` | the host's loop, one action per file operation, and the operator's commands beside it | assumes one host (`ProcessLock`) |
| `LaneOwnership` | `lanes_conflict` and `PathContract` over patterns as sequences of characters | no state |
| `LaneScheduler` | `run_codex_shadow`: reset, acquire, execute, heartbeat, release, for several runs | uses `LaneOwnership` |
| `ResultsPipeline` | relay, gate and revision loop with their clones, pushes and ledgers; the host enters as `Complete` | composes three services |
| `SelfUpdate` | the updater, the operator's rollback, and the tasks they stop and start | |
| `JobsFeed` | refill controller, build next and materializer in one clone of the jobs branch; the founder's commands; the host and what becomes of a candidate as they are seen from here | |
| `LifecycleReduction` | the pure part of `lifecycle_evidence.py`: what a stream accepts, what the heads of an attempt amount to | no state |
| `EvidenceLog` | **abstract specification**: streams that are extended, a log that is appended to, decisions taken on its last entry | |
| `LifecycleEvidence` | the services that state evidence, the recorder and refill, over one lock and the files; a death between any two writes | implements `EvidenceLog` |
| `Publication` | publisher and completion controller side by side, at the grain of one GitHub, git or ledger operation, with the founder, main and other writers | |
| `MC…` | the instances TLC checks | |
| `WorkAdmissionProofs`, `PersistentHostProofs`, `LaneSchedulerProofs`, `ResultsPipelineProofs`, `SelfUpdateProofs`, `JobsFeedProofs`, `LifecycleProofs`, `PublicationProofs` | theorems, section 4 | |

The modules meet where the components do: `JobsFeed` takes the host and the
publication of a candidate as two actions (`Works`, `Disposes`), whose inside is
`PersistentHost` and `Publication`; the claim each of them frees is one of
`WorkAdmission`; `LifecycleEvidence` takes all services as the outcomes they make
durable. What one module assumes of another (that a failed attempt frees its
claim, that one host runs) is a property of the other.

How state and actions correspond to the code is in `PROJECT.json` under `map`,
definition by definition. Conventions:

* An action is what the code does between two points at which another process
  could see the difference or the process could die. A program counter (`pc`,
  `lockPc`, or `.at` of a record) names the step that comes next. Variables
  that the program does not have are marked *(history)* where they are
  declared; they appear in properties only, never in a guard.
* Definitions introduced by the comment `Mutant:` are deliberate errors, each of
  which makes the run named with it in `PROJECT.json` fail. They are not part of
  any specification.
* Hashes are modelled by the identity of what they hash: contents, versions and
  verdicts are values, and a comparison of hashes is a comparison of values.
* Text is abstracted to what the code compares: paths in `Claims` are sequences
  of segments, and in `LaneOwnership`, where `a*`, `a/**` and `a` differ by
  characters, sequences of characters.

### Work admission

`claims` is the directory of claim files, `index` the file `active-claims.v1.json`,
`lock` the holder of the operating-system lock on `active-claims.v1.lock`. A call goes
through `Begin` (screening against pull requests found on GitHub, which may be
stale by the time the lock is held), `Acquire` or `LockTimeout`, `Load` (all claims are
read and the decision made), `WriteClaim`, `WriteIndex` and `Unlock`. Writes are
atomic (a temporary file and `os.replace`); a death or a failed write between the
two leaves the index behind the claims.

### Host

`pending`, `running`, `staging` and `archive` are the directories; a claim of a
job is the rename from `pending` to `running`. Archiving goes through
`StageSuccess`, `Collect`, `UnlinkRunning`, `PublishSuccess`, or through the
failure branch, and recovery at start through `RecoverRunning` and
`RecoverStaging`. Where a failure goes (`target`) is chosen before its directory is
made, and the rename is refused when the place was taken since. The `host-init` command
is a second process (`installer`) that makes the directories, runs the same recovery
operation by operation under a live host, and may break off between any two. Contents
are `v1`, `v2` (a replaced feed file), `local` (an enqueued manifest) and `malformed`
(refused when parsed).

### Lanes

Two threads per run: `pc[r]` is the main thread, `beat[r]` the heartbeat. A lease
carries the `owner_id` of the configuration (`OwnerId`; a plan says which runs share it)
and, as history, the run that took it. `lock` is
the `.lock` file around every lease operation. Time is a counter, and `MayTick`
states the one assumption about it: heartbeats come every 30 s at most, a lease
lasts at least 300 s (`codex_shadow.py`), so that a lease which a live thread is
renewing does not expire under it. A heartbeat that has failed renews nothing,
and then leases do expire.

### Results pipeline

`results` is `results/<machine>` on the results branch, `feed` the correction jobs on
the jobs branch. `behind` says which clones the branch has moved on from: the
reason a push is rejected. `relay`, `gate` and `loop` are the services, `commit` the
relay's commit that is not pushed yet (its clone survives a crash and is not
reset while it is ahead), `base` and `seen` the clones of the other two, `rebasing`
a gate clone left inside a rebase. A report carries the time it was made, so a
rewritten result is a new version and a repeated verdict a new number. What the
checks of a candidate conclude is one outcome, `passed` or `failed`; an unvalidated
result and a failure of the infrastructure count as `passed`, because the revision
loop passes them over in the same way. A workspace that a job is still changing
is taken for the completed one: the relay compares it with the evidence of the
job either way.

### Self-update

`active` and `previous` are the pointers, `marked` and `partial` the version directories
with and without `release.json`, `task` what Task Scheduler runs. The updater and
the operator's rollback share `Cutover`. `FaultAt` and `CrashAt` say at which steps
a command or write may raise or the process may die: any of them, the report and the
ledger included (`SaveFails`, `CutoverRaises`, `UndoRaises`, `ReportRaises`). `stranded`
and `cutovers` are history: the releases left active unverified by a death or by a
pointer that could not be restored, and how often each was cut over to.

### Refill, build next, materializer

`remote` is the jobs branch, `clone` the one checkout all three share: what it was
reset to and its HEAD. `proc` is the refill service (with the founder's refill
commands, which hold the same reconcile lock) and the founder's build-next, each at
one step `at`. A reconcile goes `Count`, `CountFeed`, `Recover`, then `Replay` or
`Decide`, then `Probe`, `Author`, `Publish`, `Prepare`; `Load`, `Admit`, `Prove`, `Submit`,
`Push`, `Hash`, `Record` are `build_next()` for either caller; `Hash` reads the job file in
the clone after the push, and raises if another process has reset the clone in between.
`BasisFails` is a prepared dispatch whose decision basis does not hold when it is
looked at. Reading the branch is a step,
writing a ledger file is a step. States of a generation that no decision tells
apart are one, `OPEN`.

### Lifecycle evidence

`fact` is what a service has made durable, `owed` the evidence it still has to state,
which dies with it; `envelopes` and `head` the two files of an emission, written under
`lock`; a job whose workspace the relay cannot reconstruct is `"jammed"` (`Jam`), and
raises in every cycle before the jobs behind it and before the reduction, which the relay
runs last; `journal` the transitions and `file` the journal entry each of the four files was
written from; `basis` what refill has relied on in giving up an item. Digests of
envelopes are equality of envelopes; `copy` tells apart two that state the same
with other bytes (a new `completed_at`).

### Publication

`branch`, `pull` and `main` are GitHub; `report`, `ready` (the sidecars) and `revision` the results
branch; `pledger` and `cledger` the ledgers. A controller is a record of the job it
is at, the step, what it has read (`base`, `found`) and the jobs its cycle has still to
come to. A commit is the main it was made on, since the candidate commit is
deterministic; `Foreign` is anything else that is pushed. A candidate that is
refused raises, which ends the cycle (`PubRaises`, `ComRaises`), as in the code.

## 3. Runs

All runs finish within the limits of a laptop: the largest take about three
minutes with two workers. "States" are distinct states.

| run | states | shows |
|---|---:|---|
| `work_admission` | 234 118 | two processes, two objectives, nested paths, one death or failed write anywhere: no overlap of writers, generations fence, the index heals, the lock is never stuck, and the files implement the atomic registry |
| `host_lock_serial` | 119 415 | three slots started twice, deaths at any file operation: one host, and nobody is kept out by the dead, as long as starts do not overlap |
| `host_lock_race` | violated | two simultaneous starts both hold the lock |
| `host` | 550 486 | four kinds of history (`MCBounds`): no job is lost and none imported twice without a fault, only two faults together run a job twice, claims of failed attempts are freed, a replaced feed file ends in a conflict record, every submitted job in an archive |
| `lanes` | 401 516 | two runs on lanes of their own, on the same two lanes in opposite orders, on one lane, with one owner name and with two (`MCPlans`): overlapping lanes are refused, who executes on a lane that no failed heartbeat uses holds its lease, undisturbed runs keep their workspaces, release every lease and fail only through their own tasks, every run ends |
| `self_update` | 1 442 667 | updates, one perhaps to a broken release, and a rollback, with deaths, reboots and failing commands or writes at any step (`MCBounds`): the pointers name complete releases, what is at hand was verified or left active by a death or a failed restoration, an outcome tells the truth about the tasks, a cutover is repeated only after a death or an error, the services come back |
| `fallback_lost` | violated | a death after the swap of the pointer and one more poll leave no release at hand that was ever healthy |
| `results_pipeline` | 1 234 650 | two attempts at one work item that change the same paths and their correction, a fault of any service at any step, a push of another writer |
| `jobs_feed` | 597 444 | three items, two generations of two attempts, two events: one refill job at a time, none the generation does not know, what a build answers `QUEUED` for is on the branch, packets only after what they depend on, supersessions recorded, no prepared dispatch stuck but for named reasons |
| `lifecycle` | 155 050 | two attempts and a correction, a death of relay, refill or publisher anywhere, the completion controller started again: the store is never torn, implements the log, lets refill go past published work only, and does let it go on unless a job jams the relay |
| `publication` | 649 356 | two candidates, one merged automatically, any two events (deaths, lost requests, what others do): section 1's promises, and a merged draft has its claim freed |
| `completion_scan` | violated | a merged job the publisher's statement has closed stops every later merge |

### Bounds, and why they suffice

* `work_admission`: two objectives and two writers are what an overlap needs; two
  processes make every race of the lock. `MCCalls` holds calls for every branch of
  the decision: the same writer again, another writer on the same objective,
  nested and disjoint paths, an expected generation that is right, stale or
  absent, related work that is equivalent, settled or unique, and releases with and
  without a generation. Generation 2 is reached by a second grant. One fault: a
  crash between the two writes and the next call are enough for an index that
  lags.
* `host_lock_*`: the race needs two slots; a third and two lives each let a dead
  host's pid meet a live start. For all sizes see section 4.
* `host`: `Bounds` is a set of histories, each a number for every kind of event, and a
  behaviour takes one. The claim of `RerunNeedsTwoFaults` is about pairs of faults, so one
  history has two deaths and one a death, a broken synchronization and a failed
  operation; the commands race the loop in a third, and the installer's `host-init`,
  operation by operation and broken off anywhere, meets a running host and a death in the fourth. Two jobs show that one job's faults
  do not touch another's. Some of what faults and commands do together is worse
  (section 6), which is why no history has both; the safety properties are proved for every
  history (section 4).
* `lanes`: a plan gives the runs their lanes, patterns and disturbances. Runs apart
  meet a directory beside each text (`PlainPairs`: the directory's own name, a sibling
  that begins like it, a file inside it) and once the other way round; runs on crossed
  lanes and on one lane have one pair and a death. The runs share one owner name, as runs
  of one configuration do; on one lane the plan with two names is there too. Paths of up to four characters over
  `a` and `/` separate every pattern in the instance from every other; the clock runs
  past one and two lease times.
* `self_update`: two approvals are an update and the update that follows it or
  returns to a release; the broken release may be first or second. A history has two
  approvals, a rollback and one death or error, or one approval, a rollback and three of them
  (`MCBounds`); the safety properties are proved for any number (section 4). Deaths and errors
  can be at every step of the updater, and at the operator's last one. Two approvals exclude a
  manifest that returns to the last successful release after a death with the tasks
  stopped: the poll takes it for done, and they stay stopped (with three approvals
  `ServicesComeBack` is false). No rollback meets an update (`Overlap = FALSE`), since
  that is a hypothesis of two properties; the theorems of the other two do without it.
* `results_pipeline`: two attempts at one item share their lane, their correction
  id and the paths they change, and the correction itself is a third job at the maximal
  depth, which changes one path more. One fault and one push of another writer can each hit any
  step.

* `jobs_feed`: item 2 is listed, item 1 may be added before it by hand (a higher rank than
  the prepared dispatch), item 3 is the backlog's and waits for item 2. Two attempts
  are an attempt and its retry or the next item; the second generation comes from
  keep-one or supersession. Two events make every pair of a death, a lost push, a
  failed fetch, a basis that does not hold, a pause, a build by hand and a new packet.
* `lifecycle`: two attempts are one that is given up and the one prepared on its basis
  (`Followed`: only the first is taken further, the second is what follows). Attempt 1 has a
  correction. One death of one of the three services whose memory matters, two restarts
  of the completion controller (two other copies of the merged statement), and one
  transition that does not settle the attempt before the one that does.
* `publication`: two jobs show that one candidate's refusal keeps the other from its turn;
  one may be merged automatically, the other by the founder only. Two events of any
  kind can each hit any step of either controller. `completion_scan` needs no event: the
  publisher's drafted statement, made before the completion controller's own, closes the
  stream as well as an interrupted run does.

### Fairness

* `WorkAdmission`: a process that is inside a call takes its next step, unless it dies.
  Waiting for the lock ends by itself, in the lock or in the error `msvcrt.locking`
  raises on a lock that stays busy. Nobody is assumed to begin a call.
* `PersistentHost`: Task Scheduler starts a host that is down
  (`install_windows_persistent_host.ps1:93-100`: a trigger at logon, three restarts a
  minute apart; the run has one death; a host that the stop file ended is taken to be
  started again at some time), a step that can be
  taken is taken (the backend kills a run at its timeout), the feed falls due again
  and again, so that a synchronization that can begin infinitely often does, and
  the scan of `pending/` in name order comes to every file, because the ones before
  it leave the queue.
* `LaneScheduler`: threads that can run do, and a worker ends at its timeout.
* `SelfUpdate`: the updater is a task that repeats, scheduled tasks run, and a
  manifest tried again and again is staged in the end (strong fairness of `Reuse`
  and `Staged`: staging is a clone and a build that may fail any number of times, not
  for ever).
* `JobsFeed`: the refill service reconciles every half minute
  (`refill_controller.py:3406`), a founder's command runs to its end, the host takes and
  finishes its jobs. Nobody has to dispose of a candidate, to resume a paused
  generation, or to call build-next.
* `LifecycleEvidence`: relay and refill poll for ever; the relay reaches its reduction in
  every cycle in which nothing before it raised (`results_relay.py:412-425` before `:503-504`), so
  the reduction is not enabled while a job is jammed, and `SettledIsFollowed` names that
  (`Jammed`); whoever holds the evidence lock
  releases it; `flock` queues its waiters, so a service that wants a lock which comes
  free again and again gets it (strong fairness of taking it). The other services
  need not do anything.
* `Publication`: both controllers poll for ever. Nobody else has to do anything.
* `ResultsPipeline`: each service polls for ever and is started again when it dies
  (`install_windows_self_update_supervisor.ps1:404-407` and `:757-763`: a trigger at
  logon, three restarts a minute apart, new instances ignored). Faults and other
  writers' pushes are finite, and no fairness forces them.

## 4. What is proved

TLAPS checks all of this to the last leaf, for every value of the constants that
satisfies the modules' named assumptions. Every safety invariant and every action
property that a run checks is the conclusion of a theorem. Where one holds only under
a condition, the theorem names it as a hypothesis, the instance of the run satisfies it,
and the table says what TLC finds without it.

| hypothesis | of | without it |
|---|---|---|
| `SerialStarts`: no start begins while another acquires | `SingleHost` | two hosts hold the lock (run `host_lock_race`) |
| plain patterns: `a` or `a/**`, no wildcard inside a name | `OwnershipKept` | `a*` and `aa/**` both own `aa/x` (section 5) |
| `~Overlap`: no rollback meets an update | `TasksFollowOutcome`, `FallbackKept` | tasks and pointers are of two minds (section 6) |

**`WorkAdmissionProofs`** (`TypeCorrect`, `SingleWriter`, `Fencing`, `TerminalIsFinal`,
`IndexHeals`, `GrantsAreScreened`, `RegistryImplemented`). Any number of processes, writers, objectives
and path sets, deaths and failed writes included. `OwnershipExclusive` is not
inductive: a writer decides on what it reads under the lock and writes in a later
step. The invariant says that only the holder of the lock is between decision and
writes, that what the holder has decided is what the claims still say, and that
claims of an objective only move to higher generations. The refinement maps the
write of the claim file to the registry's step and all else to stuttering. That a claim
about to be written keeps clear of the pull requests found at the start of the call
(`GrantsAreScreened`) needs `ScreenedInv`: whoever is inside a call has come through the
screening with the answer to go on.

**`LaneSchedulerProofs`** (`PlainLanesDisjoint`, `OwnershipKept`, `LanesKept`, `LanesLeased`).
Lanes of files and directories that `lanes_conflict` lets pass share no path, for
patterns of any length; and tasks given to a backend together come from lanes that
passed, for any number of runs and lanes. The leases take an invariant in four layers
(`LeaseInv`). `RunsInv`: a run has got the first lanes of its manifest, its heartbeat beats only
between its first task and its `join`, and ends early only on an error. `Held`: what a run has
taken it keeps until it releases it, and its leases last beyond the clock, since a
heartbeat that has not failed has renewed each of them in time. `LockMeansOperation`: a `.lock`
file that is there belongs to an operation under way, or to a run that died in one. `Apart`, of
undisturbed runs only: no lease is anybody's but one its taker has still to release, and a task
runs in the workspace its run prepared. `renew` and `release` ask for the owner's name and nothing
else, and the runs of one configuration share it; `LanesLeased` needs no hypothesis about names,
because a lease is taken only when there is none or it has expired, and as long as no heartbeat of
the runs that use a lane has failed (`BeatsWork`) none expires under a run that executes; a second run
never gets so far as to renew or release what it has not taken. A manifest without lanes is
refused before it is run, and one that names a lane twice by the preflight (`Compatible`).

**`PersistentHostProofs`** (`SingleHost`, `NoFalseRefusal`; `QueueKept`, `RerunsNeedTwoFaults`,
`ClaimsAreFreed`). The lock file, for any number of slots and lives: at most one start is in
progress, the file names its holder, and a start that meets a holder has not got past the
check of its pid (`LockInv`). That only the living keep anyone out needs no such condition:
a start that finds another's pid, its open file or a file it has seen gone has noticed that
other when either of them began (`RefusalInv`). The host that holds the lock, for any jobs and any
set of histories: none of the properties is inductive; the invariant `Inv` says that outside
of recovery the only file in `running/` is that of the job in hand (`RunningIsInHand`) and
the only directory being filled its own (`OpenIsInHand`), which is why a rename or an
unlink drops nothing, and that a synchronization starts from the ledger and only adds to it
(`MemoryGrows`, `LedgerRemembers`). For the second run of a job it counts: every run had an import of
its own (`RunsAreImported`); a job the ledger has forgotten cost a fault, a job that is
nowhere `_job_exists` looks was in hand at a fault, and the two faults are not the same one,
because the job is only in hand after the synchronization that imported it (`Remembered`).
The proof found what the bounds of the run had left out: `NoJobLost` fails when an approve,
a replaced feed file and two faults come together (section 6), and now says so.

**`ResultsPipelineProofs`** (`PipelineTypes`, `FittingWorkRelayed`, `NothingUnjudgedPassed`,
`RevisionsQueued`, `RewritesCounted`). Any jobs, items, lanes, any number of faults and other writers'
pushes. `PipelineInv` relates the three services: a lane's workspace holds a job of
that lane and the relay publishes the one in hand; an unpushed result is exactly one
version ahead of the branch; nothing in the gate's clone is newer than the branch; the job in the
gate's hands has no ledger entry, and no ledger entry or verdict is of a version to
come. The last two are why a verdict that is rebased onto a rewritten result is
not mistaken for a verdict on it. `FittingWorkRelayed` says whose work can be published as a
job's: its own, or that of a job of the same lane that changes the same paths and has replaced it
in the workspace since. The relay can do no better: its only evidence is the set of paths
(section 5). `RevisionsQueued` adds that the place of the
correction in hand is free until it is pushed, from which it follows that two attempts
which share a correction id cannot overwrite one another. `RewritesCounted` counts: a version that
is not in the relay's ledger yet, but for the one it is about to enter, has cost a fault each
(`VersionsCounted`), and the same of the gate's verdicts (`VerdictsCounted`); so no interleaving of the
services, and no push of another writer, makes evidence twice.

**`SelfUpdateProofs`** (`PointersKept`, `CutoversCost`, `TasksFollowOutcome`, `FallbackKept`). Any
releases, services, numbers of deaths and errors, and any points at which they happen. That both
pointers name complete releases needs no hypothesis: what a supervisor has in hand is
complete from the moment it records the previous release (`Complete`). Nor does it need one that
a cutover is repeated only for a death or an error: a release that was cut over to is in the ledger,
or in the hands of the updater that did it, or a death or an error has been paid for it, the failing
writes of report and ledger included. The other two need that no rollback meets an update.
`OutcomeInv`: step by step, what the tasks have been told and which of the
witnesses are of the release that is being verified, so that a verification that
passes means tasks that run it. `ProvenInv`: an unproven release is active only while
the update that made it so can still undo it, and then the one it came from is proven
and the previous one; or a death or a failed restoration has left it so, and then it is
`stranded`.

**`JobsFeedProofs`** (`FeedKept`, `JobsAreKnown`, `QueuedJobsArrive`, `NothingIsLost`). Any packets, dependencies,
attempts and generations, any number of deaths, lost pushes, hand-made builds and commands.
`OneAtATime` quantifies over all jobs ever submitted and follows from a chain: a job
reaches the branch only by the hand of a build; what the controller's build has in hand is
the prepared dispatch, which was written before (`HandOfGeneration`); a dispatch is prepared only
when the current attempt is spent (`Sound`); so every job known to nobody else is one the
generation knows (`JobsKnown`), and one that still occupies the capacity is prepared or
current (`CapacityInHand`), not both. A command replaces only a generation that has
been archived (`ReplacedIsArchived`) and occupies nothing (`NothingLeft`). What is answered
`QUEUED` is on the branch or already with the host (`QueuedJobsArrive`): nothing but a submission brings a job file into the
clone, one submission holds the feed lock from its commit to the hash of the file, and so a file that
is there after the push is the one that was pushed. As a consequence
`Recover` never finds an attempt its generation does not name (`NothingIsLost`): the code that reconstructs
one from job files (`_recover_unrecorded_generation_attempt`) guards against damage from elsewhere,
not against any death or lost push modelled here.

**`LifecycleProofs`** (`EvidenceKept`, `GivenUpPublished`, `LogImplemented`). Any attempts and
corrections, any number of deaths of any service. That only published work is
given up is not inductive: it is decided from files that were written from a journal
that was appended from heads that state what a service did earlier and may have
forgotten. `Inv` ties the chain together: everything owed or stated of a publication is
backed by the durable outcome of its job, which never goes back; a transition is
terminal only for such a job; a holder of the lock between an envelope and its
head, or at a commit, still has what it took the lock with. The refinement
maps `ReplaceHead` to `Emit`, a merge to `ProveMerged`, `AppendTransition` to `Record`,
`Classify` to `Decide`, `Commit` to `Follow`, and all else to stuttering. For `Decide` and
`Follow` it needs that the journal's last entry covers the evidence as it stands, which
`Fresh` reads from two files and `FilesFollowJournal` relates to the journal. A lemma on
the way, `CorrectionStatesNothing`, is the surprise of section 6.

**`PublicationProofs`** (`PublicationKept`, `OnlyTheValidatedMerged`). Any candidates, any number of
events. The argument: only the publisher opens pull requests, one per candidate, and
it writes the report of a candidate only between opening its pull request and
writing its sidecars (`PublisherWorks`); so what the sidecars speak of never changes
(`ReadyIsReal`), and a ledger entry, an intent and a merge that name it stay true in every
order of the controllers' steps (`EntriesNameTheReport`, `CompletionWorks`). The steps fall into
kinds by what they can disturb (nothing that is stated, open pull requests, one claim,
one ledger entry, one stream), with one lemma each.

**Only model-checked**: the liveness properties (`LockIsFreed`, `EveryJobArchived`,
`ReplacementIsRecorded`, `EveryRunEnds`, `ServicesComeBack`, `Settles`, `SettledIsFollowed`, `MergedIsFreed`,
`PreparedIsResolved`), since TLAPS has no rules for fairness and `ENABLED` that its
provers can use here.
Induction over data and `RECURSIVE` operators are out of the prover's reach; the models
use neither, and minima of sets of numbers come from the library's well-foundedness of
`<` instead.

## 5. Where the code and its documents disagree

Three runs refute a sentence of the documents:

* **Two hosts** (`host_lock_race`). `acquire` reads the lock file, finds it empty or
  naming a dead process, and then renames away whatever is there. A start that read
  before another wrote takes the other's live lock away.
  `docs/PERSISTENT_WINDOWS_HOST_V1.md:8` promises one host process.
* **The release to fall back on is lost** (`fallback_lost`). The pointer is swapped before the ledger
  is written. When the supervisor dies in between, the next poll finds the release on trial active
  and the ledger without an entry: it reuses its directory, saves it as the previous release, finds it
  unhealthy and restores it to itself. No release that was ever healthy is left in the two pointers.
  `docs/FAIL_SAFE_SELF_UPDATE_SUPERVISOR_V1.md:5` says that the supervisor restores the previous
  release when the new one does not become healthy. `FallbackUnlessStranded` is what remains.
* **One cleaned-up job stops the scan** (`completion_scan`). The publisher states the
  draft as final evidence (`controlled_publisher.py:2282`), which closes the publication
  stream. When the completion controller has merged the candidate and cleaned up, its own
  `merged` statement on that stream is refused, and its ledger stays at `cleanup_recorded`
  with no claim release. Every later cycle resumes the job, is refused again, and raises
  before any other job's turn. A death between the statement and the last ledger entry ends
  the same way, because the terminal file is written anew with another `completed_at`. The
  comment at `completion_controller.py:1455` says the skip is there because otherwise one
  such job "aborts the whole AUTO_MERGE_WHEN_GREEN scan"; it skips jobs whose claim release
  is recorded, and this one's is not.

Four more are shown by checking, in the instance of a run, a property that the run leaves out:

* **Leases expire under a run** (`lanes` with `Plans <- SharedLanePlans` and `LeasedWhileExecuting`).
  When another run tries to take a lane while the heartbeat renews it, the heartbeat finds the `.lock`
  file, raises and ends. The failure is looked at after the last task; until then the tasks run on,
  the leases expire, and a second run may take the lanes. `docs/PARALLEL_RUNTIME_V1.md:11` says
  leases are acquired before execution and released after completion or failure.
* **Two lanes own one path** (`lanes` with `Plans <- PartialPlans`). With a wildcard inside a name, `a*`
  beside `aa/**`, `lanes_conflict` sees no conflict, and both lanes, which may write `aa/x`, are
  executed together: `OwnershipDisjoint` is violated. `docs/PARALLEL_RUNTIME_V1.md:10` says overlapping
  ownership fails before any backend executes, `docs/ARCHITECTURE.md:15` that ambiguous wildcard
  ownership fails closed.
* **A second cutover to a release that was rolled back** (`fallback_lost` with `FairSpec`, errors at
  `report` and `ledger` instead of the death, and `NoSecondCutover`). The ledger is written after the report and
  the notification. When one of the three raises, the rollback has no entry, and the next poll of the
  same manifest stops the services and cuts over again. `docs/FAIL_SAFE_SELF_UPDATE_SUPERVISOR_V1.md:90`
  says such a release is blocked by the ledger. `RepeatedCutoversCost` is what remains.
* **One job's work under another's name** (`results_pipeline` with `RelayedWorkIsOwn`). The relay rebuilds
  a patch from the lane's workspace and compares the changed paths with the evidence of the job
  (`results_relay.py:257`). When the next attempt of the lane has changed the same paths before
  the relay comes round, its patch is published as the earlier job's.
  `tests/test_results_relay.py:613` asserts that workspace drift fails closed.
  `RelayedWorkFits` is what remains.

## 6. What the models show beyond the runs

Each of these was seen with TLC by changing the constants of a run, or is visible
as a blocked state in one. They are not runs, because they need an environment the
documents exclude, or contradict no sentence of theirs.

*Host.* A job can run twice: the archive of a run that was cut short between the unlink
of the running file and the rename of the archive is recovered under
`failed/archive-recovery-…`, a name `_job_exists` does not look for; if the feed ledger was not
saved either, the next synchronization imports the job again. `RerunNeedsTwoFaults` says
that it takes two faults; `docs/PERSISTENT_WINDOWS_HOST_V1.md:13` says interrupted jobs are
not rerun. `host-init` during archiving and one death can do the same. An enqueue
that races an import of the same name overwrites the imported file. With faults and
commands together: a death between the publication of a failed
archive and the release leaves the writer claim active; an `approve` that read a
pending job before it was claimed writes it back, so it is executed again, and if in the
meantime the job was archived by a recovery, the ledger lost it and its feed file was
replaced and imported, the replacement is overwritten and lost; `host-init` takes no lock and
may recover a running job's file under a live host; a replacement that arrives
while a synchronization breaks off may be recorded late.

*Lanes.* Workspaces are reset before any lease is taken, so a second run on the same
lanes deletes the first one's clone (the plan with `CrossedLanes`, which
is why `LanesKeptApart` speaks of undisturbed runs). A death inside a lease operation
leaves `<lane>.lock` behind, and every later operation on that lane fails. Runs that read
one configuration share `owner_id`, and once a lease has expired under one of them and
another has taken the lane, either releases what is the other's.

*Self-update.* The operator's rollback takes no update lock: with `Overlap = TRUE` it
meets an update and `OutcomeMatchesTasks` fails. The poll compares the manifest with the one
that last succeeded and looks at nothing else: when a supervisor dies with the tasks stopped and
the founder then returns to that manifest, no poll starts them again (three approvals and a
death violate `ServicesComeBack`).

*Results pipeline.* `Settles` lets each service stand still for a named reason. These
are states nothing in the code leads out of:

* A relay that dies between its commit and its push, while another writer pushes, is
  ahead of and behind the branch at once. It pushes before it resets, the push is rejected,
  and so at every later cycle.
* A relay that dies between its push and its ledger relays the job again, with a new
  time: the directory is replaced, the verdict in it deleted, and the gate refuses the
  job for ever ("relayed result changed after gate processing"), although both files are called immutable
  review evidence (`results_relay.py:5`, `README.md:101`).
* A gate that dies between its push and its ledger judges again; the new verdict has
  another time, and the revision loop, which has the first in its ledger, refuses.
* Two attempts at one work item that both fail have one correction id: the second is
  refused for ever.
* A verdict on a job as deep as allowed raises, and so blocks every job after it in name order, which
  a comment beside that code warns of for another error ("Raising is worse, since it
  would stop every other job", `revision_loop.py:800`).
* A later job of a lane changes the workspace before the relay has read it: the paths
  differ, the cycle ends, and the jobs behind it wait (for paths that do not differ, see section 5).
* A gate whose rebase meets a deleted verdict stays inside the rebase (two faults).

*Refill and build next.* `PreparedIsResolved` names what keeps a prepared dispatch for
ever: a packet of a higher rank is added after it was prepared (build-next selects again and
refuses), or its objective is another writer's or merged already (`CONTINUE` and conflict
leave the generation alone). A decision basis that does not hold (`BasisFails`) holds a prepared
dispatch up as an event only, and so a bounded number of times: the streams of an attempt that was
given up are closed, and what the decision was based on holds again as soon as it can be read. A basis
that never held again would block the dispatch for good. A backlog item declared terminal satisfies a dependency without a
merge; `DependsOn` leaves such items out. A job that is on the branch already is refused when its
content differs, as it does in the claim generation after a second grant, and the model lets
`Submit` refuse or accept it. The reconcile resets the clone without the feed lock: a build-next whose
commit is reset away before its push finds the file gone when it hashes it, releases its claim and
raises (`QueuedIsOnTheBranch` says that it never answers `QUEUED` for it). A failed fetch of the declared
commit leaves the claim active; the retry of the same dispatch takes it up again. Supersession cannot
always be finished by a retry: after a death between the new generation and the
policy, a reconcile, which is still paused, marks the new generation `PAUSED`
(`refill_controller.py:2966`), which is then no longer the one of the receipt, so `SupersedeAgain`
is refused (`tests/test_refill_controller.py:5302` retries without a reconcile in between). A
keep-one that dies between archive and new generation, followed by a reconcile that
touches the generation, meets its own archive as a conflict in every later
replacement.

*Lifecycle evidence.* A correction states nothing: the revision loop removes
`refill_attempt` from its manifest (`revision_loop.py:580`) and every emission starts from that
identity. So `CorrectionDrafted` is never true, an attempt whose correction was
published stays in flight, and refill waits; `tests/test_lifecycle_evidence.py:1464` writes the
correction's evidence by hand. The lemma `CorrectionStatesNothing` proves it of the model.

*Publication.* `docs/CONTROLLED_DRAFT_PUBLISHER_V1.md:63` lets an interrupted run continue when
the branch is at the expected commit, but the draft that run left is found by
`find_related_work` as other work on the same paths, and the founder is asked
(`RelatedWork` in `PubAdmit`). A candidate whose paths have moved on main is blocked for good and
its claim is never freed (`PubBase`; hence `"drifted"` in `ClaimCoversDraft`). A death after the
sidecars and before the ledger, followed by a merge, makes the publisher claim the
objective once more. A merge stated before the publisher's own statement closes the
stream, and the publisher raises for that job in every cycle, before the jobs after it
(`Blocks`).

## 7. What is not modelled

* Service-error lifecycle: a comparison of an error marker's time and generation with
  those of later successes; no state of its own.
* Managed source checkout, self-update evidence relay and notifier: one loop each over
  steps like those of `ProcessLock` and `ResultsPipeline`, of less consequence.
* Manifest publisher, check waiter, repairs, checks, installation scripts, inventory,
  command line, routing, witnesses: one pass, no state another process depends on, or
  pure functions. What the installation scripts register is where the fairness
  comes from.
* Inside the modelled parts: parsing and validation of manifests, packets, contracts and
  reports; the checks a candidate is put to, the agent's work, how the text of a packet
  is authored from the backlog; error markers and status files; of refill, the
  service's stop requests, its health snapshots, the times of a provider's backoff (a
  retry is allowed or not, once) and the caps on reviews; of completion, the reasons a
  review or a check is found wanting. The self-update lock's own file protocol is left
  out; one updater runs because its task ignores new instances.
* GitHub outside `Publication` is an input (`candidates` of `Claims`), stale as the code's answers may
  be; inside, a request takes effect at once or not at all, and a lost answer is a
  `Stop` after it.

## 8. Plan

1. Proofs: an abstract specification of the publication of a candidate (opened,
   reported, merged, freed) and the refinement of `Publication`; the exact conditions
   under which `NoJobLost` needs its exception.
2. `ServiceErrors`: the comparison of markers and successes as operators, checked
   against a reference over bounded inputs.
3. The stop requests of the refill service, in `JobsFeed`.
4. The evidence relay and notifier of the self-update, as a second instance of the
   pushes of `ResultsPipeline`.
