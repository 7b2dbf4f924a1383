---------------------------- MODULE LaneScheduler ----------------------------
(***************************************************************************)
(* Runs of the Codex shadow runner (codex_shadow.py, scheduler.py) over    *)
(* lanes, each lane guarded by a lease file and an exclusive .lock file    *)
(* around every operation on it (leases.py).  A run resets the workspaces, *)
(* takes every lease, executes one task per lane while a heartbeat thread  *)
(* renews, and releases in reverse order.  Two runs meet when an operator  *)
(* starts one beside the host.  Time is a counter; a lease lasts Ttl.      *)
(* The lanes of one run must not own the same paths (LaneOwnership).       *)
(***************************************************************************)
EXTENDS LaneOwnership, FiniteSets

CONSTANTS
    Run,               \* runs of run_codex_shadow
    Lane,
    OwnerId,           \* values of owner_id in a host configuration
    NoRun,
    Plans,             \* choices of what the runs are given, see Plan
    Paths,             \* the paths workers may change
    Ttl,               \* lease_ttl_seconds, in ticks
    MaxConcurrency,    \* tasks the backend runs at once, per run
    MaxClock           \* bound: time

\* The patterns allowed to each lane, the lanes of each run in manifest order,
\* the owner_id of its configuration, which runs on one machine normally share,
\* a bound on the runs that die, and whether a heartbeat may outlive its 5
\* second join.  A manifest without lanes is refused before it is run.
Plan == [allows: [Lane -> SUBSET Pattern], lanes: [Run -> Seq(Lane) \ {<<>>}],
         owner: [Run -> OwnerId], crashes: Nat, late: BOOLEAN]

ASSUME LaneSchedulerAssumption ==
    /\ NoRun \notin Run
    /\ Plans \subseteq Plan
    /\ "nobody" \notin OwnerId
    /\ Ttl \in Nat \ {0}
    /\ {MaxConcurrency, MaxClock} \subseteq Nat

VARIABLES
    plan,              \* what the runs are given
    clock,
    lock,              \* <lane>.lock exists
    lease,             \* <lane>.json
    workspace,         \* run whose clone the lane's workspace holds
    pc,                \* step of each run's main thread
    got,               \* acquired_lane_ids of each run
    left,              \* how many of them it has still to release
    work,              \* state of each run's task on each lane
    beat,              \* heartbeat thread of each run
    error,             \* heartbeat_errors is not empty
    failed,            \* the run raises
    crashes

main == <<pc, got, left, work, failed>>
heart == <<beat, error>>
vars == <<plan, clock, lock, lease, workspace, main, heart, crashes>>

NoLease == [owner |-> "nobody", taker |-> NoRun, expires |-> 0]
\* taker, the run that acquired the lease, is not in the file (history).
Lease == [owner: OwnerId, taker: Run, expires: Nat]

Steps == {"idle", "reset", "acquire", "acquiring", "execute", "join",
          "release", "releasing", "ended", "dead"}
Beats == [at: {"off", "wait", "renew", "renewing"}, lane: Nat]

TypeOK ==
    /\ plan \in Plans
    /\ clock \in 0..MaxClock
    /\ lock \in [Lane -> BOOLEAN]
    /\ lease \in [Lane -> Lease \cup {NoLease}]
    /\ workspace \in [Lane -> Run \cup {NoRun}]
    /\ pc \in [Run -> Steps]
    /\ got \in [Run -> Seq(Lane)]
    /\ left \in [Run -> Nat]
    /\ work \in [Run -> [Lane -> {"none", "queued", "running", "done", "raised"}]]
    /\ beat \in [Run -> Beats]
    /\ {error, failed} \subseteq [Run -> BOOLEAN]
    /\ crashes \in 0..plan.crashes

Init ==
    /\ plan \in Plans
    /\ clock = 0
    /\ lock = [l \in Lane |-> FALSE]
    /\ lease = [l \in Lane |-> NoLease]
    /\ workspace = [l \in Lane |-> NoRun]
    /\ pc = [r \in Run |-> "idle"]
    /\ got = [r \in Run |-> <<>>]
    /\ left = [r \in Run |-> 0]
    /\ work = [r \in Run |-> [l \in Lane |-> "none"]]
    /\ beat = [r \in Run |-> [at |-> "off", lane |-> 0]]
    /\ error = [r \in Run |-> FALSE]
    /\ failed = [r \in Run |-> FALSE]
    /\ crashes = 0

-----------------------------------------------------------------------------
Goto(r, step) == pc' = [pc EXCEPT ![r] = step]
LanesIn(s) == {s[i] : i \in DOMAIN s}
LanesOf(r) == plan.lanes[r]
Owner(r) == plan.owner[r]
Tasks(r) == LanesIn(LanesOf(r))
Active(l) == lease[l].expires > clock
NextLane(r) == LanesOf(r)[Len(got[r]) + 1]
LastLane(r) == got[r][left[r]]
BeatLane(r) == got[r][beat[r].lane]
SetLock(l, held) == lock' = [lock EXCEPT ![l] = held]

\* The run's next step once it raises: finally, release what it acquired.
Unwind(r) == IF got[r] = <<>> THEN "ended" ELSE "release"

-----------------------------------------------------------------------------
(* run_codex_shadow and ParallelScheduler.run.                             *)

\* codex_host_preflight has passed.
Begin(r) ==
    /\ pc[r] = "idle"
    /\ Goto(r, "reset")
    /\ UNCHANGED <<clock, lock, lease, workspace, got, left, work, failed, heart, crashes>>

\* assert_lanes_compatible: the lanes of the run are different ones, and no two
\* own a path in common.
Compatible(r) ==
    \A i, j \in DOMAIN LanesOf(r) : i < j =>
        /\ LanesOf(r)[i] # LanesOf(r)[j]
        /\ ~LanesConflict(plan.allows[LanesOf(r)[i]], plan.allows[LanesOf(r)[j]])

\* _reset_owned_workspace removes every lane's workspace, whoever uses it, in
\* one step here; no lease is held yet.  Only then _plan compares the lanes.
ResetWorkspaces(r) ==
    /\ pc[r] = "reset"
    /\ workspace' = [l \in Lane |-> IF l \in Tasks(r) THEN NoRun ELSE workspace[l]]
    /\ IF Compatible(r)
       THEN Goto(r, "acquire") /\ UNCHANGED failed
       ELSE Goto(r, "ended") /\ failed' = [failed EXCEPT ![r] = TRUE]
    /\ UNCHANGED <<clock, lock, lease, got, left, work, heart, crashes>>

\* FileLeaseStore.acquire: create the lane's .lock exclusively ...
LockToAcquire(r) ==
    /\ pc[r] = "acquire"
    /\ \/ /\ lock[NextLane(r)]
          /\ failed' = [failed EXCEPT ![r] = TRUE]
          /\ Goto(r, Unwind(r))
          /\ UNCHANGED lock
       \/ /\ ~lock[NextLane(r)]
          /\ SetLock(NextLane(r), TRUE)
          /\ Goto(r, "acquiring")
          /\ UNCHANGED failed
    /\ UNCHANGED <<clock, lease, workspace, got, left, work, heart, crashes>>

TakeLease(r, l) ==
    lease' = [lease EXCEPT ![l] =
                 [owner |-> Owner(r), taker |-> r, expires |-> clock + Ttl]]

\* The heartbeat thread starts and every task is submitted.
StartTasks(r) ==
    /\ beat' = [beat EXCEPT ![r].at = "wait"]
    /\ work' = [work EXCEPT ![r] =
                   [l \in Lane |-> IF l \in Tasks(r) THEN "queued" ELSE "none"]]

\* Mutant: an unexpired lease is overwritten.
AcquireReentrant(r) ==
    /\ pc[r] = "acquiring"
    /\ SetLock(NextLane(r), FALSE)
    /\ TakeLease(r, NextLane(r))
    /\ got' = [got EXCEPT ![r] = Append(@, NextLane(r))]
    /\ left' = [left EXCEPT ![r] = @ + 1]
    /\ IF Len(got[r]) + 1 = Len(LanesOf(r))
       THEN Goto(r, "execute") /\ StartTasks(r)
       ELSE Goto(r, "acquire") /\ UNCHANGED <<beat, work>>
    /\ UNCHANGED <<clock, workspace, error, failed, crashes>>

\* ... refuse an unexpired lease, or write the lease; drop the lock.
Acquire(r) ==
    /\ pc[r] = "acquiring"
    /\ SetLock(NextLane(r), FALSE)
    /\ \/ /\ Active(NextLane(r))
          /\ failed' = [failed EXCEPT ![r] = TRUE]
          /\ Goto(r, Unwind(r))
          /\ UNCHANGED <<lease, got, left, work, beat>>
       \/ /\ ~Active(NextLane(r))
          /\ TakeLease(r, NextLane(r))
          /\ got' = [got EXCEPT ![r] = Append(@, NextLane(r))]
          /\ left' = [left EXCEPT ![r] = @ + 1]
          /\ IF Len(got[r]) + 1 = Len(LanesOf(r))
             THEN Goto(r, "execute") /\ StartTasks(r)
             ELSE Goto(r, "acquire") /\ UNCHANGED <<beat, work>>
          /\ UNCHANGED failed
    /\ UNCHANGED <<clock, workspace, error, crashes>>

Executing(r) == {l \in Lane : work[r][l] = "running"}

SetWork(r, l, s) == work' = [work EXCEPT ![r][l] = s]

\* A pool thread takes a permit of the backend and prepares the workspace,
\* which must be empty.
StartTask(r, l) ==
    /\ pc[r] = "execute"
    /\ work[r][l] = "queued"
    /\ Cardinality(Executing(r)) < MaxConcurrency
    /\ IF workspace[l] = NoRun
       THEN workspace' = [workspace EXCEPT ![l] = r] /\ SetWork(r, l, "running")
       ELSE SetWork(r, l, "raised") /\ UNCHANGED workspace
    /\ UNCHANGED <<clock, lock, lease, pc, got, left, failed, heart, crashes>>

\* The worker ends, fails, leaves its scope or is killed at its timeout.
EndTask(r, l) ==
    /\ work[r][l] = "running"
    /\ \E s \in {"done", "raised"} : SetWork(r, l, s)
    /\ UNCHANGED <<clock, lock, lease, workspace, pc, got, left, failed, heart, crashes>>

\* The pool has drained; a task's exception, else the heartbeat's, is raised.
Collect(r) ==
    /\ pc[r] = "execute"
    /\ \A l \in Tasks(r) : work[r][l] \in {"done", "raised"}
    /\ failed' = [failed EXCEPT ![r] =
                     error[r] \/ \E l \in Tasks(r) : work[r][l] = "raised"]
    /\ Goto(r, "join")
    /\ UNCHANGED <<clock, lock, lease, workspace, got, left, work, heart, crashes>>

\* heartbeat_stop is set; join waits for the thread, five seconds at most.
Join(r) ==
    /\ pc[r] = "join"
    /\ beat[r].at = "off" \/ plan.late
    /\ Goto(r, "release")
    /\ UNCHANGED <<clock, lock, lease, workspace, got, left, work, failed, heart, crashes>>

\* FileLeaseStore.release, lanes in reverse order.  What it raises ends the
\* loop: the lanes before it keep their leases.
LockToRelease(r) ==
    /\ pc[r] = "release"
    /\ \/ /\ lock[LastLane(r)]
          /\ failed' = [failed EXCEPT ![r] = TRUE]
          /\ Goto(r, "ended")
          /\ UNCHANGED lock
       \/ /\ ~lock[LastLane(r)]
          /\ SetLock(LastLane(r), TRUE)
          /\ Goto(r, "releasing")
          /\ UNCHANGED failed
    /\ UNCHANGED <<clock, lease, workspace, got, left, work, heart, crashes>>

Released(r) ==
    /\ left' = [left EXCEPT ![r] = @ - 1]
    /\ Goto(r, IF left[r] = 1 THEN "ended" ELSE "release")
    /\ UNCHANGED failed

\* Mutant: the lease file is left in place.
ReleaseKeepsFile(r) ==
    /\ pc[r] = "releasing"
    /\ SetLock(LastLane(r), FALSE)
    /\ Released(r)
    /\ UNCHANGED <<clock, lease, workspace, got, work, heart, crashes>>

Release(r) ==
    /\ pc[r] = "releasing"
    /\ SetLock(LastLane(r), FALSE)
    /\ \/ /\ lease[LastLane(r)] # NoLease
          /\ lease[LastLane(r)].owner # Owner(r)
          /\ failed' = [failed EXCEPT ![r] = TRUE]
          /\ Goto(r, "ended")
          /\ UNCHANGED <<lease, left>>
       \/ /\ lease[LastLane(r)].owner \in {NoLease.owner, Owner(r)}
          /\ lease' = [lease EXCEPT ![LastLane(r)] = NoLease]
          /\ Released(r)
    /\ UNCHANGED <<clock, workspace, got, work, heart, crashes>>

-----------------------------------------------------------------------------
(* The heartbeat thread.                                                   *)

SetBeat(r, at, lane) == beat' = [beat EXCEPT ![r] = [at |-> at, lane |-> lane]]

Stopped(r) == pc[r] # "execute"

\* Mutant: the thread never looks at heartbeat_stop.
BeatNeverStops(r) ==
    /\ beat[r].at = "wait"
    /\ SetBeat(r, "renew", 1)
    /\ UNCHANGED <<clock, lock, lease, workspace, main, error, crashes>>

BeatWakes(r) ==
    /\ beat[r].at = "wait"
    /\ IF Stopped(r) THEN SetBeat(r, "off", 0) ELSE SetBeat(r, "renew", 1)
    /\ UNCHANGED <<clock, lock, lease, workspace, main, error, crashes>>

\* What renew raises ends the thread and is reported after the tasks.
BeatFails(r) ==
    /\ SetBeat(r, "off", 0)
    /\ error' = [error EXCEPT ![r] = TRUE]

LockToRenew(r) ==
    /\ beat[r].at = "renew"
    /\ \/ lock[BeatLane(r)] /\ BeatFails(r) /\ UNCHANGED lock
       \/ /\ ~lock[BeatLane(r)]
          /\ SetLock(BeatLane(r), TRUE)
          /\ SetBeat(r, "renewing", beat[r].lane)
          /\ UNCHANGED error
    /\ UNCHANGED <<clock, lease, workspace, main, crashes>>

Renew(r) ==
    /\ beat[r].at = "renewing"
    /\ SetLock(BeatLane(r), FALSE)
    /\ \/ /\ lease[BeatLane(r)].owner # Owner(r) \/ ~Active(BeatLane(r))
          /\ BeatFails(r)
          /\ UNCHANGED lease
       \/ /\ lease[BeatLane(r)].owner = Owner(r) /\ Active(BeatLane(r))
          /\ lease' = [lease EXCEPT ![BeatLane(r)].expires = clock + Ttl]
          /\ IF beat[r].lane < Len(got[r])
             THEN SetBeat(r, "renew", beat[r].lane + 1) ELSE SetBeat(r, "wait", 0)
          /\ UNCHANGED error
    /\ UNCHANGED <<clock, workspace, main, crashes>>

-----------------------------------------------------------------------------
(* Time and faults.                                                        *)

\* Acquiring and releasing take a few file operations, a heartbeat that lives
\* renews every 30 s at the most, and the TTL is 300 s at the least: time does
\* not pass a lease that is being kept.
Keeping(r) ==
    \/ pc[r] \in {"acquire", "acquiring", "join", "release", "releasing"}
    \/ beat[r].at # "off"
MayTick ==
    \A r \in Run : Keeping(r) =>
        \A l \in LanesIn(got[r]) :
            lease[l].taker = r /\ Active(l) => lease[l].expires > clock + 1

Tick ==
    /\ clock < MaxClock
    /\ MayTick
    /\ clock' = clock + 1
    /\ UNCHANGED <<lock, lease, workspace, main, heart, crashes>>

\* The process dies with both threads and its workers; files stay.
Crash(r) ==
    /\ pc[r] \notin {"idle", "ended", "dead"}
    /\ crashes < plan.crashes
    /\ crashes' = crashes + 1
    /\ Goto(r, "dead")
    /\ work' = [work EXCEPT ![r] = [l \in Lane |-> "none"]]
    /\ SetBeat(r, "off", 0)
    /\ UNCHANGED <<clock, lock, lease, workspace, got, left, failed, error>>

-----------------------------------------------------------------------------
MainStep(r) ==
    /\ \/ ResetWorkspaces(r)
       \/ LockToAcquire(r) \/ Acquire(r)
       \/ \E l \in Lane : StartTask(r, l) \/ EndTask(r, l)
       \/ Collect(r) \/ Join(r)
       \/ LockToRelease(r) \/ Release(r)
    /\ UNCHANGED plan

BeatStep(r) == (BeatWakes(r) \/ LockToRenew(r) \/ Renew(r)) /\ UNCHANGED plan

Next ==
    \/ \E r \in Run : MainStep(r) \/ BeatStep(r)
    \/ (\E r \in Run : Begin(r) \/ Crash(r)) /\ UNCHANGED plan
    \/ Tick /\ UNCHANGED plan

Spec == Init /\ [][Next]_vars

\* Threads that can run do; a worker ends, at its timeout if not before.
FairSpec == Spec /\ \A r \in Run : WF_vars(MainStep(r)) /\ WF_vars(BeatStep(r))

-----------------------------------------------------------------------------
(* Properties.                                                             *)

\* Whose turn it is on the lane's lock file.
InOperation(l) ==
    {r \in Run : \/ pc[r] = "acquiring" /\ NextLane(r) = l
                 \/ pc[r] = "releasing" /\ LastLane(r) = l
                 \/ beat[r].at = "renewing" /\ BeatLane(r) = l}

\* The heartbeats of all the runs that use a lane have worked so far.
BeatsWork(l) == \A s \in Run : l \in Tasks(s) => ~error[s]

\* As long as no heartbeat of the runs that use a lane has failed, a run that
\* executes holds the lane's lease, unexpired, though release and renew look
\* only at the owner name that all of them may share.
LeasedWhileBeating ==
    \A r \in Run : Executing(r) # {} =>
        \A l \in Tasks(r) : BeatsWork(l) => lease[l].taker = r /\ Active(l)

\* "All lane leases are acquired before execution and released after completion
\* or failure" (PARALLEL_RUNTIME_V1.md): in between the run holds them.  False:
\* a refused run's .lock file makes the heartbeat of the one it met raise, the
\* tasks run on, and the leases expire under them.
LeasedWhileExecuting ==
    \A r \in Run : Executing(r) # {} =>
        \A l \in Tasks(r) : lease[l].taker = r /\ Active(l)

\* "Overlapping path ownership fails before any backend executes"
\* (PARALLEL_RUNTIME_V1.md): no path is allowed in two lanes whose tasks one
\* run has given to its backend.  Of files and directories it is true; where a
\* wildcard stands inside a name it is not, though "ambiguous wildcard ownership
\* fails closed" (ARCHITECTURE.md).
OwnershipDisjoint ==
    \A r \in Run, p \in Paths, l, m \in Lane :
        l # m /\ work[r][l] # "none" /\ work[r][m] # "none"
            => ~(Allowed(plan.allows[l], p) /\ Allowed(plan.allows[m], p))

\* No run has a lane of another's, none dies, and none is left by its heartbeat.
Undisturbed ==
    /\ \A r, s \in Run : r # s => Tasks(r) \cap Tasks(s) = {}
    /\ crashes = 0 /\ ~plan.late

\* Undisturbed, the workspace a task runs in is the one prepared for it, and
\* "released after completion or failure" (PARALLEL_RUNTIME_V1.md) are the
\* leases of every run that has ended.
LanesKeptApart ==
    Undisturbed =>
        /\ \A r \in Run : \A l \in Executing(r) : workspace[l] = r
        /\ \A r \in Run : pc[r] = "ended" => \A l \in Lane : lease[l].taker # r

\* A run fails because a task of its own did, because its lanes overlap, or
\* because of what came from outside: its two threads do not disturb each other.
FailsForAReason ==
    \A r \in Run : failed[r] =>
        \/ \E l \in Lane : work[r][l] = "raised"
        \/ ~Compatible(r)
        \/ ~Undisturbed

\* A lane's .lock file exists only while a thread is inside an operation,
\* unless a run has died in one.
LockMeansOperation == crashes = 0 => \A l \in Lane : lock[l] => InOperation(l) # {}

LaneInv == TypeOK /\ LanesKeptApart /\ FailsForAReason /\ LockMeansOperation

\* A run that has begun ends.
EveryRunEnds == \A r \in Run : pc[r] = "reset" ~> pc[r] \in {"ended", "dead"}
=============================================================================
