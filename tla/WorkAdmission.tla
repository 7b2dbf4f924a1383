---------------------------- MODULE WorkAdmission ----------------------------
(***************************************************************************)
(* admit_work and release_claim as several processes run them at once (the *)
(* refill service, the host, the publisher, the completion controller):    *)
(* screen the related work, take the OS lock of ClaimFileLock, load every  *)
(* claim, write the objective's claim file, rewrite the active-claims      *)
(* index, unlock.  A write may fail, a process may die between any two     *)
(* steps, and the OS drops the lock of a process that dies.                *)
(***************************************************************************)
EXTENDS Claims

CONSTANTS
    Proc,              \* processes that call work admission
    Calls,             \* the calls they make
    NoProc,            \* nobody holds the lock
    NoCall,            \* the call of an idle process
    MaxGeneration,     \* bound: no admission starts at or past this generation
    MaxFaults          \* bound: crashes and failed writes

ASSUME WorkAdmissionAssumption ==
    /\ NoProc \notin Proc
    /\ Calls \subseteq AdmitCall \cup ReleaseCall
    /\ MaxGeneration \in Nat
    /\ MaxFaults \in Nat

VARIABLES
    claims,            \* work-admission/claims/<objective>.json
    index,             \* work-admission/active-claims.v1.json
    lock,              \* holder of active-claims.v1.lock
    pc, call,          \* step and arguments of each process
    seen,              \* the claims a process loaded under the lock
    result,            \* what its last call answered
    issued,            \* every <<objective, claim>> ever granted (history)
    faults             \* crashes and failed writes so far

vars == <<claims, index, lock, pc, call, seen, result, issued, faults>>

Steps == {"idle", "acquire", "load", "write", "index", "unlock"}
Results == {"none", "CONTINUE_EXISTING_WORK", "FOUNDER_RECONCILIATION_REQUIRED",
            "REVIEW_EXISTING_WORK", "unclaimed", "reused", "error", "blocked",
            "granted", "released", "crashed"}

NoClaims == [o \in Objective |-> Absent]

TypeOK ==
    /\ claims \in [Objective -> Claim]
    /\ index \in [Objective -> Claim]
    /\ lock \in Proc \cup {NoProc}
    /\ pc \in [Proc -> Steps]
    /\ call \in [Proc -> Calls \cup {NoCall}]
    /\ \A p \in Proc : pc[p] # "idle" => call[p] \in Calls
    /\ seen \in [Proc -> [Objective -> Claim]]
    /\ result \in [Proc -> Results]
    /\ issued \subseteq Objective \X Claim
    /\ faults \in Nat

Init ==
    /\ claims = NoClaims
    /\ index = NoClaims
    /\ lock = NoProc
    /\ pc = [p \in Proc |-> "idle"]
    /\ call = [p \in Proc |-> NoCall]
    /\ seen = [p \in Proc |-> NoClaims]
    /\ result = [p \in Proc |-> "none"]
    /\ issued = {}
    /\ faults = 0

-----------------------------------------------------------------------------
\* A call answers r and p is idle again.
Return(p, r) ==
    /\ pc' = [pc EXCEPT ![p] = "idle"]
    /\ call' = [call EXCEPT ![p] = NoCall]
    /\ seen' = [seen EXCEPT ![p] = NoClaims]
    /\ result' = [result EXCEPT ![p] = r]

\* What admit_work answers before the lock: the screening of related work,
\* and a read-only admission when no claim root is configured.
Prelude(c) ==
    IF c.kind = "release" THEN "claim"
    ELSE IF Screen(c.paths, c.candidates) # "clear"
         THEN Screen(c.paths, c.candidates)
         ELSE IF c.durable THEN "claim" ELSE "unclaimed"

Begin(p, c) ==
    /\ pc[p] = "idle"
    /\ c.kind = "admit" => claims[c.objective].generation < MaxGeneration
    /\ IF Prelude(c) = "claim"
       THEN /\ pc' = [pc EXCEPT ![p] = "acquire"]
            /\ call' = [call EXCEPT ![p] = c]
            /\ result' = [result EXCEPT ![p] = "none"]
            /\ UNCHANGED seen
       ELSE Return(p, Prelude(c))
    /\ UNCHANGED <<claims, index, lock, issued, faults>>

\* Mutant: the lock does not exclude.
AcquireShared(p) ==
    /\ pc[p] = "acquire"
    /\ lock' = p
    /\ pc' = [pc EXCEPT ![p] = "load"]
    /\ UNCHANGED <<claims, index, call, seen, result, issued, faults>>

Acquire(p) ==
    /\ pc[p] = "acquire"
    /\ lock = NoProc
    /\ lock' = p
    /\ pc' = [pc EXCEPT ![p] = "load"]
    /\ UNCHANGED <<claims, index, call, seen, result, issued, faults>>

\* msvcrt.locking gives up on a lock that stays busy: AdmissionError.
LockTimeout(p) ==
    /\ pc[p] = "acquire"
    /\ lock # NoProc
    /\ Return(p, "error")
    /\ UNCHANGED <<claims, index, lock, issued, faults>>

Outcome(cs, c) ==
    IF c.kind = "admit" THEN AdmitOutcome(cs, c) ELSE ReleaseOutcome(cs, c)

\* Load every claim and decide from what was loaded.
Load(p) ==
    /\ pc[p] = "load"
    /\ seen' = [seen EXCEPT ![p] = claims]
    /\ result' = [result EXCEPT ![p] = Outcome(claims, call[p])]
    /\ pc' = [pc EXCEPT ![p] =
                 IF Outcome(claims, call[p]) \in {"granted", "released"}
                 THEN "write" ELSE "unlock"]
    /\ UNCHANGED <<claims, index, lock, call, issued, faults>>

\* The claim the call writes, from the claims it loaded.
PlannedClaim(p) ==
    IF call[p].kind = "admit" THEN NewClaim(seen[p], call[p])
                              ELSE ReleasedClaim(seen[p], call[p])

\* os.replace of the objective's claim file.
WriteClaim(p) ==
    /\ pc[p] = "write"
    /\ claims' = [claims EXCEPT ![call[p].objective] = PlannedClaim(p)]
    /\ issued' = IF call[p].kind = "admit"
                 THEN issued \cup {<<call[p].objective, PlannedClaim(p)>>}
                 ELSE issued
    /\ pc' = [pc EXCEPT ![p] = "index"]
    /\ UNCHANGED <<index, lock, call, seen, result, faults>>

\* Mutant: an admission rebuilds the index without the claim it just wrote.
IndexSourceLoaded(p) == IF call[p].kind = "admit" THEN seen[p] ELSE claims

\* What the index is rebuilt from: an admission adds its claim to the active
\* claims it loaded, a release loads every claim again.
IndexSource(p) ==
    IF call[p].kind = "admit"
    THEN [seen[p] EXCEPT ![call[p].objective] = PlannedClaim(p)]
    ELSE claims

WriteIndex(p) ==
    /\ pc[p] = "index"
    /\ index' = ActiveOnly(IndexSource(p))
    /\ pc' = [pc EXCEPT ![p] = "unlock"]
    /\ UNCHANGED <<claims, lock, call, seen, result, issued, faults>>

\* Writing the claim or the index raises OSError: the file keeps its former
\* content, the lock is released and the caller sees an error.
WriteFails(p) ==
    /\ pc[p] \in {"write", "index"}
    /\ faults < MaxFaults
    /\ faults' = faults + 1
    /\ result' = [result EXCEPT ![p] = "error"]
    /\ pc' = [pc EXCEPT ![p] = "unlock"]
    /\ UNCHANGED <<claims, index, lock, call, seen, issued>>

Unlock(p) ==
    /\ pc[p] = "unlock"
    /\ lock' = NoProc
    /\ Return(p, result[p])
    /\ UNCHANGED <<claims, index, issued, faults>>

\* Mutant: a lock that outlives its process.
CrashKeepsLock(p) ==
    /\ pc[p] # "idle"
    /\ faults < MaxFaults
    /\ faults' = faults + 1
    /\ Return(p, "crashed")
    /\ UNCHANGED <<claims, index, lock, issued>>

\* The process dies; the OS closes its file and with it drops the lock.
Crash(p) ==
    /\ pc[p] # "idle"
    /\ faults < MaxFaults
    /\ faults' = faults + 1
    /\ lock' = IF lock = p THEN NoProc ELSE lock
    /\ Return(p, "crashed")
    /\ UNCHANGED <<claims, index, issued>>

Proceed(p) ==
    \/ Acquire(p)
    \/ LockTimeout(p)
    \/ Load(p)
    \/ WriteClaim(p)
    \/ WriteIndex(p)
    \/ Unlock(p)

Next ==
    \E p \in Proc :
        \/ \E c \in Calls : Begin(p, c)
        \/ Proceed(p)
        \/ WriteFails(p)
        \/ Crash(p)

Spec == Init /\ [][Next]_vars

\* A process that runs keeps taking steps: nothing in the call waits for an
\* event other than the lock, and that wait ends by itself.
FairSpec == Spec /\ \A p \in Proc : WF_vars(Proceed(p))

-----------------------------------------------------------------------------
(* Properties.                                                             *)

\* Single writer (work_admission.py _conflicting_active_claim): two active
\* claims of different writers never cover overlapping paths, however their
\* admissions interleave and wherever a process dies.
OwnershipExclusive ==
    \A o, x \in Objective :
        /\ IsActive(claims[o])
        /\ IsActive(claims[x])
        /\ claims[o].writer # claims[x].writer
        => ~PathsOverlap(claims[o].paths, claims[x].paths)

\* A (objective, generation) pair is granted once: the generation recorded in
\* the immutable job names one writer and one path set for ever, so a later
\* release that carries it can be told from a successor's.
GenerationNamesOneGrant ==
    \A a, b \in issued :
        a[1] = b[1] /\ a[2].generation = b[2].generation => a = b

\* No writer is ever revived or replaced within a generation: a claim file
\* changes owner, or returns to active, only by a higher generation.
NoResurrection ==
    [][\A o \in Objective :
          \/ claims'[o] = claims[o]
          \/ claims'[o].generation > claims[o].generation
          \/ /\ claims'[o].generation = claims[o].generation
             /\ claims'[o].writer = claims[o].writer
             /\ claims'[o].paths = claims[o].paths
             /\ claims'[o].state \in TerminalStates]_vars

\* The index may be stale after a crash between the two writes, but whoever
\* rewrites it makes it equal to the active claims again.
IndexRewriteIsExact ==
    [][index' # index => index' = ActiveOnly(claims')]_vars

\* A claim is written only by a caller none of whose related pull requests
\* overlapped its paths, save those flagged as unique required work.
GrantedClearOfCandidates ==
    \A p \in Proc :
        pc[p] = "write" /\ call[p].kind = "admit" =>
            \A c \in call[p].candidates :
                c.unique \/ ~PathsOverlap(call[p].paths, c.paths)

\* The claim lock is never held for ever, whoever dies while holding it.
LockIsFreed == \A p \in Proc : lock = p ~> lock # p

Registry == INSTANCE ClaimRegistry
\* Lock, two writes, faults and all: the claim files change as the atomic
\* registry says.
ImplementsRegistry == Registry!Spec
=============================================================================
