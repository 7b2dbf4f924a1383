----------------------------- MODULE ProcessLock -----------------------------
(***************************************************************************)
(* HostProcessLock (persistent_host.py), the lock file that keeps one host *)
(* and one refill service alive at a time, at the grain of its file        *)
(* operations on Windows: an open file cannot be renamed away.  A process  *)
(* id is one life of a process; no id is used twice.  What the host does   *)
(* once it holds the lock is PersistentHost's.                             *)
(***************************************************************************)
EXTENDS Naturals, FiniteSets

CONSTANTS
    Proc,              \* process slots a host may be started in
    MaxLives,          \* bound: starts per slot
    SerialStarts       \* no start begins while another is still acquiring

ASSUME ProcessLockAssumption == MaxLives \in Nat /\ SerialStarts \in BOOLEAN

VARIABLES
    lockFile,          \* host.lock: NoLockFile, Unwritten or the pid it names
    opened,            \* pids with the lock file open for writing
    lockPc,            \* step of each slot
    life,              \* starts of each slot so far
    saw,               \* the pid each slot read from the file
    contended          \* slots whose start met another live process (history)

lockVars == <<lockFile, opened, lockPc, life, saw, contended>>

LockSteps == {"down", "exists", "read", "check", "steal", "create", "write",
              "held", "token", "unlink", "refused"}
Attempting == {"exists", "read", "check", "steal", "create", "write"}

Pid(p) == <<p, life[p]>>
Pids == Proc \X (1..MaxLives)
NoPid == <<"unreadable", 0>>
NoLockFile == <<"none", 0>>
Unwritten == <<"empty", 0>>

Live(p) == lockPc[p] \notin {"down", "refused"}
PidAlive(pid) == pid # NoPid /\ Live(pid[1]) /\ life[pid[1]] = pid[2]

Holds(p) == lockPc[p] \in {"held", "token", "unlink"}

LockTypeOK ==
    /\ lockFile \in {NoLockFile, Unwritten} \cup Pids
    /\ opened \subseteq Pids
    /\ lockPc \in [Proc -> LockSteps]
    /\ life \in [Proc -> 0..MaxLives]
    /\ saw \in [Proc -> Pids \cup {NoPid}]
    /\ contended \subseteq Proc

LockInit ==
    /\ lockFile = NoLockFile
    /\ opened = {}
    /\ lockPc = [p \in Proc |-> "down"]
    /\ life = [p \in Proc |-> 0]
    /\ saw = [p \in Proc |-> NoPid]
    /\ contended = {}

StepTo(p, step) == lockPc' = [lockPc EXCEPT ![p] = step]

\* A new host process begins acquire().
StartHost(p) ==
    /\ lockPc[p] \in {"down", "refused"}
    /\ life[p] < MaxLives
    /\ SerialStarts => \A q \in Proc : lockPc[q] \notin Attempting
    /\ life' = [life EXCEPT ![p] = @ + 1]
    /\ saw' = [saw EXCEPT ![p] = NoPid]
    /\ contended' =
          LET others == {q \in Proc \ {p} : Live(q)}
          IN  IF others = {} THEN contended \ {p}
              ELSE contended \cup {p} \cup {q \in others : lockPc[q] \in Attempting}
    /\ StepTo(p, "exists")
    /\ UNCHANGED <<lockFile, opened>>

CheckExists(p) ==
    /\ lockPc[p] = "exists"
    /\ StepTo(p, IF lockFile = NoLockFile THEN "create" ELSE "read")
    /\ UNCHANGED <<lockFile, opened, life, saw, contended>>

\* _existing_pid: a file that is gone or still empty has no readable pid.
ReadOwner(p) ==
    /\ lockPc[p] = "read"
    /\ saw' = [saw EXCEPT ![p] =
                  IF lockFile \in {NoLockFile, Unwritten} THEN NoPid ELSE lockFile]
    /\ StepTo(p, "check")
    /\ UNCHANGED <<lockFile, opened, life, contended>>

\* Mutant: a start does not ask whether the owner it read is alive.
CheckAliveSkipped(p) ==
    /\ lockPc[p] = "check"
    /\ StepTo(p, "steal")
    /\ UNCHANGED <<lockFile, opened, life, saw, contended>>

\* Mutant: an owner is presumed alive.
CheckAliveAlways(p) ==
    /\ lockPc[p] = "check"
    /\ StepTo(p, IF saw[p] # NoPid THEN "refused" ELSE "steal")
    /\ UNCHANGED <<lockFile, opened, life, saw, contended>>

CheckAlive(p) ==
    /\ lockPc[p] = "check"
    /\ StepTo(p, IF PidAlive(saw[p]) THEN "refused" ELSE "steal")
    /\ UNCHANGED <<lockFile, opened, life, saw, contended>>

\* os.replace of the lock file to a .stale name: whatever file is there now,
\* unless its creator still has it open (PermissionError).
MoveStale(p) ==
    /\ lockPc[p] = "steal"
    /\ IF lockFile = Unwritten /\ opened # {}
       THEN StepTo(p, "refused") /\ UNCHANGED lockFile
       ELSE StepTo(p, "create") /\ lockFile' = NoLockFile
    /\ UNCHANGED <<opened, life, saw, contended>>

\* O_CREAT | O_EXCL.
CreateExclusive(p) ==
    /\ lockPc[p] = "create"
    /\ IF lockFile = NoLockFile
       THEN lockFile' = Unwritten /\ opened' = opened \cup {Pid(p)} /\ StepTo(p, "write")
       ELSE UNCHANGED <<lockFile, opened>> /\ StepTo(p, "refused")
    /\ UNCHANGED <<life, saw, contended>>

WritePayload(p) ==
    /\ lockPc[p] = "write"
    /\ lockFile' = Pid(p)
    /\ opened' = opened \ {Pid(p)}
    /\ StepTo(p, "held")
    /\ UNCHANGED <<life, saw, contended>>

\* release(): the token is compared before the file is unlinked.
ReadToken(p) ==
    /\ lockPc[p] = "held"
    /\ StepTo(p, IF lockFile = Pid(p) THEN "unlink" ELSE "down")
    /\ UNCHANGED <<lockFile, opened, life, saw, contended>>

Unlink(p) ==
    /\ lockPc[p] = "unlink"
    /\ lockFile' = NoLockFile
    /\ StepTo(p, "down")
    /\ UNCHANGED <<opened, life, saw, contended>>

\* The process dies; its lock file stays, closed by the OS.
HostDies(p) ==
    /\ Live(p)
    /\ opened' = opened \ {Pid(p)}
    /\ StepTo(p, "down")
    /\ UNCHANGED <<lockFile, life, saw, contended>>

Acquiring(p) ==
    \/ CheckExists(p)
    \/ ReadOwner(p)
    \/ CheckAlive(p)
    \/ MoveStale(p)
    \/ CreateExclusive(p)
    \/ WritePayload(p)

LockNext ==
    \E p \in Proc : StartHost(p) \/ Acquiring(p) \/ ReadToken(p) \/ Unlink(p) \/ HostDies(p)

LockSpec == LockInit /\ [][LockNext]_lockVars

-----------------------------------------------------------------------------
(* Properties.                                                             *)

\* docs/PERSISTENT_WINDOWS_HOST_V1.md: "keeps one host process alive at a
\* time", also when earlier hosts died with the lock file in place.
OneHost == \A p, q \in Proc : Holds(p) /\ Holds(q) => p = q

\* A dead host's lock file never keeps the next one out: a start is refused
\* only when some other process was live while it was acquiring.
RefusedOnlyByTheLiving == \A p \in Proc : lockPc[p] = "refused" => p \in contended
=============================================================================
