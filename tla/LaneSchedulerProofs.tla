------------------------- MODULE LaneSchedulerProofs -------------------------
(***************************************************************************)
(* Four results for any lanes and any runs.  Tasks that run side by side   *)
(* own disjoint paths, for plain patterns of any length: a run is past its *)
(* preflight, or has tasks, only if its lanes are compatible (IInv).       *)
(* A run executes on unexpired leases of its own, and runs that are left   *)
(* undisturbed keep to their lanes and fail for reasons of their own: in   *)
(* layers, what a run has got and when its heartbeat beats (RunsInv), what *)
(* it keeps (Held), who is behind a lock file (LockMeansOperation), and    *)
(* what holds of undisturbed runs (Apart).                                 *)
(***************************************************************************)
EXTENDS LaneScheduler, TLAPS

-----------------------------------------------------------------------------
(* Path ownership, for patterns without a partial-name wildcard.           *)

\* Two prefixes of one text that each end at a separator, or are the whole
\* text, are equal or one is below the other.
LEMMA PrefixesNest ==
    ASSUME NEW a \in Text, NEW b \in Text, NEW t \in Text,
           t = a \/ Below(t, a), t = b \/ Below(t, b)
    PROVE  a = b \/ Below(a, b) \/ Below(b, a)
<1>1. Len(a) \in Nat /\ Len(b) \in Nat /\ Len(t) \in Nat
    BY DEF Text
<1>2. StartsWith(t, a) /\ StartsWith(t, b)
    BY <1>1 DEF Below, StartsWith, Text
<1>3. CASE Len(a) = Len(b)
    <2>1. \A i \in 1..Len(a) : a[i] = b[i]
        BY <1>1, <1>2, <1>3 DEF StartsWith
    <2> QED
        BY <1>3, <2>1 DEF Text
<1>4. CASE Len(a) < Len(b)
    <2>1. Below(t, a)
        BY <1>1, <1>2, <1>4 DEF StartsWith
    <2>2. \A i \in 1..Len(a) : b[i] = a[i]
        BY <1>1, <1>2, <1>4 DEF StartsWith
    <2>3. b[Len(a) + 1] = Separator
        BY <1>1, <1>2, <1>4, <2>1 DEF StartsWith, Below
    <2> QED
        BY <1>1, <1>4, <2>2, <2>3 DEF Below, StartsWith
<1>5. CASE Len(b) < Len(a)
    <2>1. Below(t, b)
        BY <1>1, <1>2, <1>5 DEF StartsWith
    <2>2. \A i \in 1..Len(b) : a[i] = b[i]
        BY <1>1, <1>2, <1>5 DEF StartsWith
    <2>3. a[Len(b) + 1] = Separator
        BY <1>1, <1>2, <1>5, <2>1 DEF StartsWith, Below
    <2> QED
        BY <1>1, <1>5, <2>2, <2>3 DEF Below, StartsWith
<1> QED
    BY <1>1, <1>3, <1>4, <1>5

\* A pattern that names a file or a whole directory, written without a
\* trailing separator.
Plain(pattern) ==
    /\ pattern \in Pattern
    /\ pattern.kind \in {"literal", "tree"}
    /\ Stripped(pattern.base) = pattern.base

\* lanes_conflict is sound for plain patterns of any length: lanes it lets run
\* side by side share no path.
THEOREM PlainLanesDisjoint ==
    ASSUME NEW lanes1, NEW lanes2, NEW p \in Text,
           \A a \in lanes1 \cup lanes2 : Plain(a),
           ~LanesConflict(lanes1, lanes2)
    PROVE  ~(Allowed(lanes1, p) /\ Allowed(lanes2, p))
<1> SUFFICES ASSUME Allowed(lanes1, p), Allowed(lanes2, p)
             PROVE  FALSE
    OBVIOUS
<1>1. PICK a \in lanes1 : PathMatches(a, p)
    BY DEF Allowed
<1>2. PICK b \in lanes2 : PathMatches(b, p)
    BY DEF Allowed
<1>3. a.base \in Text /\ b.base \in Text
    BY DEF Plain, Pattern
<1>4. (p = a.base \/ Below(p, a.base)) /\ (p = b.base \/ Below(p, b.base))
    BY <1>1, <1>2 DEF PathMatches, Plain
<1>5. RootsOverlap(a.base, b.base)
    BY <1>3, <1>4, PrefixesNest DEF RootsOverlap
<1>6. Root(a) = a.base /\ Root(b) = b.base
    BY DEF Plain, Root
<1> QED
    BY <1>5, <1>6 DEF LanesConflict

-----------------------------------------------------------------------------
(* The tasks of a run.                                                     *)

WorkStates == {"none", "queued", "running", "done", "raised"}

Shape ==
    /\ plan \in Plans
    /\ pc \in [Run -> Steps]
    /\ work \in [Run -> [Lane -> WorkStates]]

\* A run takes leases only for compatible lanes.
TakesCompatible == \A r \in Run : pc[r] \in {"acquire", "acquiring"} => Compatible(r)

\* A task is one of the run's lanes, which are compatible.
TasksCompatible ==
    \A r \in Run, l \in Lane :
        work[r][l] # "none" => l \in Tasks(r) /\ Compatible(r)

IInv == Shape /\ TakesCompatible /\ TasksCompatible

-----------------------------------------------------------------------------
\* At the start no run takes a lease or has a task.
LEMMA InitIInv == Init => IInv
BY DEF Init, IInv, Shape, TakesCompatible, TasksCompatible, Steps, WorkStates

\* Steps that neither plan a run nor start tasks.
LEMMA QuietStep ==
    ASSUME IInv, NEW r \in Run, NEW step \in Steps, plan' = plan, work' = work,
           pc' = [pc EXCEPT ![r] = step],
           step \in {"acquire", "acquiring"} => Compatible(r)
    PROVE  IInv'
<1>1. Shape'
    BY DEF IInv, Shape
<1>2. \A s \in Run : Compatible(s)' <=> Compatible(s)
    BY DEF Compatible, LanesOf
<1>3. TakesCompatible'
    BY <1>2 DEF IInv, Shape, TakesCompatible
<1>4. TasksCompatible'
    BY <1>2 DEF IInv, TasksCompatible, Tasks, LanesIn, LanesOf
<1> QED
    BY <1>1, <1>3, <1>4 DEF IInv

\* A task that exists changes its state.
LEMMA WorkStep ==
    ASSUME IInv, NEW r \in Run, NEW l \in Lane, NEW s \in WorkStates,
           plan' = plan, pc' = pc, work[r][l] # "none",
           work' = [work EXCEPT ![r][l] = s]
    PROVE  IInv'
<1>1. Shape'
    BY DEF IInv, Shape
<1>2. \A q \in Run : Compatible(q)' <=> Compatible(q)
    BY DEF Compatible, LanesOf
<1>3. TakesCompatible'
    BY <1>2 DEF IInv, TakesCompatible
<1>4. ASSUME NEW q \in Run, NEW m \in Lane, work'[q][m] # "none"
      PROVE  m \in Tasks(q) /\ Compatible(q)
    <2>1. work[q][m] # "none"
        BY <1>4 DEF IInv, Shape
    <2> QED
        BY <2>1 DEF IInv, TasksCompatible
<1>5. TasksCompatible'
    BY <1>2, <1>4 DEF TasksCompatible, Tasks, LanesIn, LanesOf
<1> QED
    BY <1>1, <1>3, <1>5 DEF IInv

\* Nothing the invariant reads changes.
LEMMA OtherStep ==
    ASSUME IInv, plan' = plan, pc' = pc, work' = work
    PROVE  IInv'
BY DEF IInv, Shape, TakesCompatible, TasksCompatible, Compatible, Tasks, LanesIn, LanesOf

\* Only a run whose lanes are compatible gets tasks.
LEMMA AcquireIInv ==
    ASSUME IInv, NEW r \in Run, Acquire(r), UNCHANGED plan
    PROVE  IInv'
<1>1. Compatible(r)
    BY DEF Acquire, IInv, TakesCompatible
<1>2. CASE work' = work /\ \E step \in Steps : Goto(r, step)
    BY <1>1, <1>2, QuietStep DEF Goto
<1>3. CASE Goto(r, "execute") /\ StartTasks(r)
    <2>1. Shape'
        BY <1>3 DEF IInv, Shape, Goto, StartTasks, Steps, WorkStates
    <2>2. \A s \in Run : Compatible(s)' <=> Compatible(s)
        BY DEF Compatible, LanesOf
    <2>3. TakesCompatible'
        BY <1>3, <2>2 DEF IInv, Shape, TakesCompatible, Goto
    <2>4. ASSUME NEW s \in Run, NEW l \in Lane, work'[s][l] # "none"
          PROVE  l \in Tasks(s) /\ Compatible(s)
        <3>1. CASE s = r
            BY <1>1, <1>3, <2>4, <3>1 DEF StartTasks, IInv, Shape
        <3>2. CASE s # r
            BY <1>3, <2>4, <3>2 DEF StartTasks, IInv, Shape, TasksCompatible
        <3> QED
            BY <3>1, <3>2
    <2>5. TasksCompatible'
        BY <2>2, <2>4 DEF TasksCompatible, Tasks, LanesIn, LanesOf
    <2> QED
        BY <2>1, <2>3, <2>5 DEF IInv
<1> QED
    BY <1>2, <1>3 DEF Acquire, Unwind, Steps

\* A step of a run leaves the tasks compatible.
LEMMA MainIInv ==
    ASSUME IInv, NEW r \in Run, MainStep(r)
    PROVE  IInv'
<1> USE DEF Steps
<1>1. CASE ResetWorkspaces(r)
    BY <1>1, QuietStep DEF MainStep, ResetWorkspaces, Goto
<1>2. CASE LockToAcquire(r)
    <2>1. Compatible(r)
        BY <1>2 DEF LockToAcquire, IInv, TakesCompatible
    <2>2. \E step \in Steps : Goto(r, step)
        BY <1>2 DEF LockToAcquire, Unwind
    <2> QED
        BY <1>2, <2>1, <2>2, QuietStep DEF MainStep, LockToAcquire, Goto
<1>3. CASE Acquire(r)
    BY <1>3, AcquireIInv DEF MainStep
<1>4. ASSUME NEW l \in Lane, StartTask(r, l) \/ EndTask(r, l)
      PROVE  IInv'
    <2>1. work[r][l] # "none" /\ pc' = pc
        BY <1>4 DEF StartTask, EndTask
    <2>2. \E s \in WorkStates : work' = [work EXCEPT ![r][l] = s]
        BY <1>4 DEF StartTask, EndTask, SetWork, WorkStates
    <2> QED
        BY <2>1, <2>2, WorkStep DEF MainStep
<1>5. CASE Collect(r) \/ Join(r)
    BY <1>5, QuietStep DEF MainStep, Collect, Join, Goto
<1>6. CASE LockToRelease(r)
    BY <1>6, QuietStep DEF MainStep, LockToRelease, Goto
<1>7. CASE Release(r)
    <2>1. \E step \in {"ended", "release"} : Goto(r, step)
        BY <1>7 DEF Release, Released
    <2> QED
        BY <1>7, <2>1, QuietStep DEF MainStep, Release, Goto
<1> QED
    BY <1>1, <1>2, <1>3, <1>4, <1>5, <1>6, <1>7 DEF MainStep

\* A death takes tasks away.
LEMMA CrashIInv ==
    ASSUME IInv, NEW r \in Run, Crash(r), UNCHANGED plan
    PROVE  IInv'
<1>1. Shape'
    BY DEF Crash, Goto, IInv, Shape, Steps, WorkStates
<1>2. \A s \in Run : Compatible(s)' <=> Compatible(s)
    BY DEF Compatible, LanesOf
<1>3. TakesCompatible'
    BY <1>2 DEF Crash, Goto, IInv, Shape, TakesCompatible
<1>4. \A s \in Run, l \in Lane : work'[s][l] # "none" => work[s][l] # "none"
    BY DEF Crash, IInv, Shape
<1>5. TasksCompatible'
    BY <1>2, <1>4 DEF IInv, TasksCompatible, Tasks, LanesIn, LanesOf
<1> QED
    BY <1>1, <1>3, <1>5 DEF IInv

\* Every step keeps the tasks compatible.
LEMMA NextIInv == IInv /\ [Next]_vars => IInv'
<1> SUFFICES ASSUME IInv, [Next]_vars
             PROVE  IInv'
    OBVIOUS
<1>1. ASSUME NEW r \in Run, MainStep(r)
      PROVE  IInv'
    BY <1>1, MainIInv
<1>2. ASSUME NEW r \in Run, BeatStep(r)
      PROVE  IInv'
    BY <1>2, OtherStep DEF BeatStep, BeatWakes, LockToRenew, Renew, main
<1>3. ASSUME NEW r \in Run, Begin(r), UNCHANGED plan
      PROVE  IInv'
    BY <1>3, QuietStep DEF Begin, Goto, Steps
<1>4. ASSUME NEW r \in Run, Crash(r), UNCHANGED plan
      PROVE  IInv'
    BY <1>4, CrashIInv
<1>5. CASE Tick /\ UNCHANGED plan
    BY <1>5, OtherStep DEF Tick, main
<1>6. CASE UNCHANGED vars
    BY <1>6, OtherStep DEF vars, main
<1> QED
    BY <1>1, <1>2, <1>3, <1>4, <1>5, <1>6 DEF Next

\* Two tasks of a run are two different places of its manifest, and
\* _plan compared those.
LEMMA IInvImpliesDisjoint ==
    ASSUME \A c \in Plans, l \in Lane : \A a \in c.allows[l] : Plain(a),
           Paths \subseteq Text, IInv
    PROVE  OwnershipDisjoint
<1> SUFFICES ASSUME NEW r \in Run, NEW p \in Paths, NEW l \in Lane, NEW m \in Lane,
                    l # m, work[r][l] # "none", work[r][m] # "none"
             PROVE  ~(Allowed(plan.allows[l], p) /\ Allowed(plan.allows[m], p))
    BY DEF OwnershipDisjoint
<1>1. Compatible(r) /\ l \in Tasks(r) /\ m \in Tasks(r)
    BY DEF IInv, TasksCompatible
<1>2. PICK i \in DOMAIN LanesOf(r) : LanesOf(r)[i] = l
    BY <1>1 DEF Tasks, LanesIn, LanesOf
<1>3. PICK j \in DOMAIN LanesOf(r) : LanesOf(r)[j] = m
    BY <1>1 DEF Tasks, LanesIn, LanesOf
<1>4. DOMAIN LanesOf(r) \subseteq Nat
    BY LaneSchedulerAssumption DEF IInv, Shape, LanesOf, Plan
<1>5. i < j \/ j < i
    BY <1>2, <1>3, <1>4
<1>6. ~LanesConflict(plan.allows[l], plan.allows[m]) \/ ~LanesConflict(plan.allows[m], plan.allows[l])
    BY <1>1, <1>2, <1>3, <1>5 DEF Compatible, LanesOf
<1>7. \A a \in plan.allows[l] \cup plan.allows[m] : Plain(a)
    BY DEF IInv, Shape
<1> QED
    BY <1>6, <1>7, PlainLanesDisjoint

\* Overlapping path ownership never reaches a backend, provided the lanes name
\* whole files or whole directories.
THEOREM OwnershipKept ==
    ASSUME \A c \in Plans, l \in Lane : \A a \in c.allows[l] : Plain(a),
           Paths \subseteq Text
    PROVE  Spec => []OwnershipDisjoint
<1>1. IInv => OwnershipDisjoint
    BY IInvImpliesDisjoint
<1> QED
    BY InitIInv, NextIInv, <1>1, PTL DEF Spec

-----------------------------------------------------------------------------
(* The leases.  What each run has got, and when its heartbeat beats.       *)

\* The lanes a run has taken are the first of its manifest, and it releases
\* from the last one.
ManifestOrder ==
    \A r \in Run :
        /\ Len(got[r]) <= Len(LanesOf(r))
        /\ \A i \in 1..Len(got[r]) : got[r][i] = LanesOf(r)[i]
        /\ left[r] <= Len(got[r])
        /\ pc[r] \in {"idle", "reset", "acquire", "acquiring", "execute", "join"}
              => left[r] = Len(got[r])
        /\ pc[r] \in {"idle", "reset"} => got[r] = <<>>
        /\ pc[r] \in {"acquire", "acquiring"} => Len(got[r]) < Len(LanesOf(r))
        /\ pc[r] \in {"execute", "join"} => Len(got[r]) = Len(LanesOf(r))
        /\ pc[r] \in {"release", "releasing"} => left[r] >= 1

\* A heartbeat begins with the tasks, renews a lane of its run, and ends while
\* they run only on an error.  Only then do tasks run, and a run that raises
\* has left them.
HeartBeats ==
    \A r \in Run :
        /\ pc[r] \in {"idle", "reset", "acquire", "acquiring"} => beat[r].at = "off" /\ ~error[r]
        /\ beat[r].at \in {"renew", "renewing"} => beat[r].lane \in 1..Len(got[r])
        /\ pc[r] = "execute" /\ beat[r].at = "off" => error[r]
        /\ pc[r] # "execute" => Executing(r) = {}
        /\ pc[r] \in {"idle", "reset", "acquire", "acquiring", "execute"} => ~failed[r]

OwnedByTaker ==
    \A l \in Lane : lease[l] # NoLease => lease[l].owner = Owner(lease[l].taker)

RunsInv == TypeOK /\ ManifestOrder /\ HeartBeats /\ OwnedByTaker

\* At the start no run has got anything.
LEMMA RunsStart == Init => RunsInv
<1> SUFFICES ASSUME Init
             PROVE  RunsInv
  OBVIOUS
<1>1. \A r \in Run : LanesOf(r) \in Seq(Lane) /\ LanesOf(r) # <<>>
  BY LaneSchedulerAssumption DEF Init, LanesOf, Plan
<1>2. plan.crashes \in Nat
  BY LaneSchedulerAssumption DEF Init, Plan
<1>3. TypeOK
  BY <1>2, LaneSchedulerAssumption DEF Init, TypeOK, Steps, Beats
<1>4. ManifestOrder
  BY <1>1 DEF Init, ManifestOrder
<1>5. HeartBeats /\ OwnedByTaker
  BY DEF Init, HeartBeats, OwnedByTaker, Executing
<1> QED
  BY <1>3, <1>4, <1>5 DEF RunsInv

\* The lanes the steps of a run are about.
LEMMA LanesAtHand ==
    ASSUME RunsInv, NEW r \in Run
    PROVE  /\ LanesOf(r) \in Seq(Lane) /\ LanesOf(r) # <<>>
           /\ got[r] \in Seq(Lane) /\ Len(got[r]) \in Nat /\ left[r] \in Nat
           /\ Owner(r) \in OwnerId
           /\ \A i \in 1..Len(got[r]) : got[r][i] \in Tasks(r)
           /\ Tasks(r) \subseteq Lane
           /\ pc[r] \in {"acquire", "acquiring"} => NextLane(r) \in Tasks(r)
           /\ pc[r] \in {"release", "releasing"} =>
                 LastLane(r) \in Tasks(r) /\ left[r] \in 1..Len(got[r])
           /\ beat[r].at \in {"renew", "renewing"} => BeatLane(r) \in Tasks(r)
<1>1. LanesOf(r) \in Seq(Lane) /\ LanesOf(r) # <<>> /\ Owner(r) \in OwnerId
  BY LaneSchedulerAssumption DEF RunsInv, TypeOK, LanesOf, Owner, Plan
<1>2. got[r] \in Seq(Lane) /\ left[r] \in Nat
  BY DEF RunsInv, TypeOK
<1>3. \A i \in 1..Len(LanesOf(r)) : LanesOf(r)[i] \in Tasks(r)
  BY <1>1 DEF Tasks, LanesIn
<1>4. Tasks(r) \subseteq Lane
  BY <1>1 DEF Tasks, LanesIn
<1>5. \A i \in 1..Len(got[r]) : got[r][i] \in Tasks(r)
  BY <1>1, <1>2, <1>3 DEF RunsInv, ManifestOrder
<1>6. pc[r] \in {"acquire", "acquiring"} => NextLane(r) \in Tasks(r)
  BY <1>1, <1>2, <1>3 DEF RunsInv, ManifestOrder, NextLane
<1>7. pc[r] \in {"release", "releasing"} => left[r] \in 1..Len(got[r])
  BY <1>2 DEF RunsInv, ManifestOrder
<1>8. beat[r].at \in {"renew", "renewing"} => BeatLane(r) \in Tasks(r)
  BY <1>5 DEF RunsInv, HeartBeats, BeatLane
<1> QED
  BY <1>1, <1>2, <1>4, <1>5, <1>6, <1>7, <1>8 DEF LastLane

\* A lease that a run takes or renews.
LEMMA LeaseTaken ==
    ASSUME RunsInv, NEW r \in Run, NEW l \in Lane, plan' = plan,
           lease' = [lease EXCEPT ![l] = [owner |-> Owner(r), taker |-> r, expires |-> clock + Ttl]]
    PROVE  lease' \in [Lane -> Lease \cup {NoLease}] /\ OwnedByTaker'
<1>1. [owner |-> Owner(r), taker |-> r, expires |-> clock + Ttl] \in Lease
  BY LaneSchedulerAssumption, LanesAtHand DEF RunsInv, TypeOK, Lease
<1> QED
  BY <1>1 DEF RunsInv, TypeOK, OwnedByTaker, Owner

\* A renewed lease is a lease, and its owner's.
LEMMA LeaseRenewed ==
    ASSUME RunsInv, NEW l \in Lane, Active(l), plan' = plan,
           lease' = [lease EXCEPT ![l].expires = clock + Ttl]
    PROVE  lease' \in [Lane -> Lease \cup {NoLease}] /\ OwnedByTaker'
<1>1. lease[l] \in Lease
  BY DEF RunsInv, TypeOK, Active, NoLease
<1>2. lease'[l] = [owner |-> lease[l].owner, taker |-> lease[l].taker, expires |-> clock + Ttl]
  BY <1>1 DEF RunsInv, TypeOK, Lease
<1>3. lease[l] # NoLease
  BY DEF Active, NoLease, RunsInv, TypeOK
<1>4. lease'[l] \in Lease /\ lease'[l].owner = Owner(lease'[l].taker)
  BY <1>1, <1>2, <1>3, LaneSchedulerAssumption DEF RunsInv, TypeOK, Lease, OwnedByTaker
<1> QED
  BY <1>4 DEF RunsInv, TypeOK, OwnedByTaker, Owner

\* So is every other when one is dropped.
LEMMA LeaseDropped ==
    ASSUME RunsInv, NEW l \in Lane, plan' = plan, lease' = [lease EXCEPT ![l] = NoLease]
    PROVE  lease' \in [Lane -> Lease \cup {NoLease}] /\ OwnedByTaker'
BY DEF RunsInv, TypeOK, OwnedByTaker, Owner

\* Steps that leave leases, lanes taken, tasks and heartbeats alone.
LEMMA RunSteps ==
    ASSUME RunsInv, NEW r \in Run, NEW step \in Steps,
           Goto(r, step), UNCHANGED <<plan, clock, lease, got, left, work, heart, crashes>>,
           lock' \in [Lane -> BOOLEAN], workspace' \in [Lane -> Run \cup {NoRun}],
           failed' \in [Run -> BOOLEAN],
           \A s \in Run : s # r => failed'[s] = failed[s],
           step \in {"acquire", "acquiring"} =>
              pc[r] \in {"reset", "acquire"} /\ failed'[r] = failed[r],
           step \in {"reset"} => pc[r] = "idle" /\ failed'[r] = failed[r],
           step = "join" => pc[r] = "execute",
           step \in {"release", "releasing"} =>
              \/ pc[r] \in {"join", "release", "releasing"}
              \/ pc[r] \in {"acquire", "acquiring"} /\ got[r] # <<>>,
           step \notin {"idle", "execute"},
           pc[r] = "execute" => Executing(r) = {}
    PROVE  RunsInv'
<1> USE LanesAtHand DEF RunsInv, TypeOK, heart
<1>1. TypeOK'
  BY DEF Goto
<1>2. ManifestOrder'
  BY DEF Goto, ManifestOrder, LanesOf
<1>3. HeartBeats'
  BY DEF Goto, HeartBeats, Executing
<1>4. OwnedByTaker'
  BY DEF OwnedByTaker, Owner
<1> QED
  BY <1>1, <1>2, <1>3, <1>4

\* A run acquires its lanes in the order of the manifest.
LEMMA AcquireRuns ==
    ASSUME RunsInv, NEW r \in Run, Acquire(r), UNCHANGED plan
    PROVE  RunsInv'
<1> DEFINE l == NextLane(r)
<1>1. l \in Lane /\ pc[r] = "acquiring" /\ got[r] \in Seq(Lane)
  BY LanesAtHand DEF Acquire
<1>2. CASE Active(l)
  <2>1. \E step \in {"ended", "release"} : Goto(r, step) /\ (step = "release" => got[r] # <<>>)
    BY <1>2 DEF Acquire, Unwind
  <2>2. /\ UNCHANGED <<plan, clock, lease, got, left, work, heart, crashes, workspace>>
        /\ failed' = [failed EXCEPT ![r] = TRUE]
        /\ lock' = [lock EXCEPT ![l] = FALSE]
    BY <1>2 DEF Acquire, SetLock, heart
  <2>3. lock' \in [Lane -> BOOLEAN] /\ failed' \in [Run -> BOOLEAN]
    BY <1>1, <2>2 DEF RunsInv, TypeOK
  <2>4. \A s \in Run : s # r => failed'[s] = failed[s]
    BY <2>2 DEF RunsInv, TypeOK
  <2> QED
    BY <1>1, <2>1, <2>2, <2>3, <2>4, RunSteps DEF RunsInv, TypeOK, Steps
<1>3. CASE ~Active(l)
  <2>1. lease' \in [Lane -> Lease \cup {NoLease}] /\ OwnedByTaker'
    BY <1>1, <1>3, LeaseTaken DEF Acquire, TakeLease
  <2>2. /\ got' = [got EXCEPT ![r] = Append(@, l)]
        /\ left' = [left EXCEPT ![r] = @ + 1]
        /\ UNCHANGED <<clock, workspace, error, failed, crashes>>
        /\ SetLock(l, FALSE)
    BY <1>3 DEF Acquire
  <2>3. /\ got'[r] = Append(got[r], l)
        /\ Len(got'[r]) = Len(got[r]) + 1
        /\ \A i \in 1..Len(got[r]) : got'[r][i] = got[r][i]
        /\ got'[r][Len(got[r]) + 1] = l
        /\ got' \in [Run -> Seq(Lane)]
        /\ left'[r] = left[r] + 1
    BY <1>1, <2>2 DEF RunsInv, TypeOK
  <2>4. CASE Len(got[r]) + 1 = Len(LanesOf(r))
    <3>1. Goto(r, "execute") /\ StartTasks(r)
      BY <1>3, <2>4 DEF Acquire
    <3>2. TypeOK'
      <4>1. \A s \in Run : beat'[s] \in Beats
        BY <3>1 DEF RunsInv, TypeOK, StartTasks, Beats
      <4>2. beat' \in [Run -> Beats]
        BY <3>1, <4>1 DEF RunsInv, TypeOK, StartTasks
      <4>3. work' \in [Run -> [Lane -> {"none", "queued", "running", "done", "raised"}]]
        BY <3>1 DEF RunsInv, TypeOK, StartTasks
      <4>4. pc' \in [Run -> Steps] /\ lock' \in [Lane -> BOOLEAN]
        BY <1>1, <2>2, <3>1 DEF RunsInv, TypeOK, Goto, SetLock, Steps
      <4>5. left' \in [Run -> Nat]
        BY <1>1, <2>2 DEF RunsInv, TypeOK
      <4> QED
        BY <2>1, <2>2, <2>3, <4>2, <4>3, <4>4, <4>5 DEF RunsInv, TypeOK
    <3>3. ManifestOrder'
      BY <1>1, <2>2, <2>3, <2>4, <3>1
         DEF RunsInv, TypeOK, ManifestOrder, Goto, LanesOf, NextLane
    <3>4. HeartBeats'
      BY <1>1, <2>2, <2>3, <3>1
         DEF RunsInv, TypeOK, HeartBeats, Goto, StartTasks, Executing, Beats
    <3> QED
      BY <2>1, <3>2, <3>3, <3>4 DEF RunsInv
  <2>5. CASE Len(got[r]) + 1 # Len(LanesOf(r))
    <3>1. Goto(r, "acquire") /\ UNCHANGED <<beat, work>>
      BY <1>3, <2>5 DEF Acquire
    <3>2. TypeOK'
      BY <1>1, <2>1, <2>2, <2>3, <3>1 DEF RunsInv, TypeOK, Goto, SetLock, Steps
    <3>3. ManifestOrder'
      BY <1>1, <2>2, <2>3, <2>5, <3>1, LanesAtHand
         DEF RunsInv, TypeOK, ManifestOrder, Goto, LanesOf, NextLane
    <3>4. HeartBeats'
      BY <1>1, <2>2, <2>3, <3>1
         DEF RunsInv, TypeOK, HeartBeats, Goto, Executing
    <3> QED
      BY <2>1, <3>2, <3>3, <3>4 DEF RunsInv
  <2> QED
    BY <2>4, <2>5
<1> QED
  BY <1>2, <1>3

\* It releases them from the last.
LEMMA ReleaseRuns ==
    ASSUME RunsInv, NEW r \in Run, Release(r), UNCHANGED plan
    PROVE  RunsInv'
<1> DEFINE l == LastLane(r)
<1>1. l \in Lane /\ pc[r] = "releasing" /\ left[r] \in 1..Len(got[r]) /\ got[r] \in Seq(Lane)
  BY LanesAtHand DEF Release
<1>2. lock' \in [Lane -> BOOLEAN]
  BY <1>1 DEF Release, SetLock, RunsInv, TypeOK
<1>3. CASE UNCHANGED <<lease, left>>
  <2>1. CASE /\ Goto(r, "ended")
             /\ failed' = [failed EXCEPT ![r] = TRUE]
    BY <1>1, <1>2, <1>3, <2>1, RunSteps DEF Release, RunsInv, TypeOK, Steps
  <2>2. CASE Released(r)
    BY <1>1, <1>3, <2>2 DEF Released, RunsInv, TypeOK
  <2> QED
    BY <1>1, <1>3, <2>1, <2>2 DEF Release
<1>4. CASE lease' = [lease EXCEPT ![l] = NoLease] /\ Released(r)
  <2>1. lease' \in [Lane -> Lease \cup {NoLease}] /\ OwnedByTaker'
    BY <1>1, <1>4, LeaseDropped
  <2>2. PICK step \in {"ended", "release"} : Goto(r, step) /\ (step = "release" => left[r] # 1)
    BY <1>4 DEF Released
  <2>3. UNCHANGED <<clock, workspace, got, work, heart, crashes>>
    BY DEF Release
  <2>4. left' = [left EXCEPT ![r] = @ - 1] /\ left'[r] \in Nat /\ left' \in [Run -> Nat]
    BY <1>1, <1>4 DEF Released, RunsInv, TypeOK
  <2>5. TypeOK'
    BY <1>2, <1>4, <2>1, <2>2, <2>3, <2>4 DEF RunsInv, TypeOK, Goto, Steps, Released, heart
  <2>6. ManifestOrder'
    BY <1>1, <2>2, <2>3, <2>4 DEF RunsInv, TypeOK, ManifestOrder, Goto, LanesOf
  <2>7. HeartBeats'
    BY <1>1, <1>4, <2>2, <2>3 DEF RunsInv, TypeOK, HeartBeats, Goto, Executing, Released, heart
  <2> QED
    BY <2>1, <2>5, <2>6, <2>7 DEF RunsInv
<1> QED
  BY <1>3, <1>4 DEF Release

\* Every step of a run keeps the order, and the heartbeat with its tasks.
LEMMA MainRuns ==
    ASSUME IInv, RunsInv, NEW r \in Run, MainStep(r)
    PROVE  RunsInv'
<1>0. UNCHANGED plan
  BY DEF MainStep
<1>1. CASE ResetWorkspaces(r)
  <2>1. \E step \in {"acquire", "ended"} :
           Goto(r, step) /\ (step = "acquire" => failed'[r] = failed[r])
    BY <1>1 DEF ResetWorkspaces
  <2>2. /\ workspace' \in [Lane -> Run \cup {NoRun}]
        /\ failed' \in [Run -> BOOLEAN]
        /\ \A s \in Run : s # r => failed'[s] = failed[s]
    BY <1>1 DEF ResetWorkspaces, RunsInv, TypeOK
  <2> QED
    BY <1>0, <1>1, <2>1, <2>2, RunSteps DEF ResetWorkspaces, RunsInv, TypeOK, Steps
<1>2. CASE LockToAcquire(r)
  <2>1. \E step \in {"acquiring", "ended", "release"} :
           /\ Goto(r, step)
           /\ step = "acquiring" => failed'[r] = failed[r]
           /\ step = "release" => got[r] # <<>>
    BY <1>2 DEF LockToAcquire, Unwind
  <2>2. /\ lock' \in [Lane -> BOOLEAN]
        /\ failed' \in [Run -> BOOLEAN]
        /\ \A s \in Run : s # r => failed'[s] = failed[s]
    BY <1>2 DEF LockToAcquire, SetLock, RunsInv, TypeOK
  <2> QED
    BY <1>0, <1>2, <2>1, <2>2, RunSteps DEF LockToAcquire, RunsInv, TypeOK, Steps
<1>3. CASE Acquire(r)
  BY <1>0, <1>3, AcquireRuns
<1>4. ASSUME NEW l \in Lane, StartTask(r, l) \/ EndTask(r, l)
      PROVE  RunsInv'
  <2>1. /\ UNCHANGED <<plan, clock, lock, lease, pc, got, left, failed, heart, crashes>>
        /\ workspace' = workspace \/ workspace' = [workspace EXCEPT ![l] = r]
    BY <1>0, <1>4 DEF StartTask, EndTask
  <2>2. \E s \in {"running", "done", "raised"} : work' = [work EXCEPT ![r][l] = s]
    BY <1>4 DEF StartTask, EndTask, SetWork
  <2>3. TypeOK'
    <3>1. work' \in [Run -> [Lane -> {"none", "queued", "running", "done", "raised"}]]
      BY <2>2 DEF RunsInv, TypeOK
    <3>2. workspace' \in [Lane -> Run \cup {NoRun}]
      BY <2>1 DEF RunsInv, TypeOK
    <3> QED
      BY <2>1, <3>1, <3>2 DEF RunsInv, TypeOK, heart
  <2>4. pc[r] = "execute"
    BY <1>4 DEF StartTask, EndTask, RunsInv, HeartBeats, Executing
  <2>5. \A s \in Run : s # r => Executing(s)' = Executing(s)
    BY <2>2 DEF Executing, RunsInv, TypeOK
  <2>6. HeartBeats'
    BY <2>1, <2>4, <2>5 DEF HeartBeats, RunsInv, heart
  <2> QED
    BY <2>1, <2>3, <2>6 DEF RunsInv, ManifestOrder, OwnedByTaker, Owner, LanesOf
<1>5. CASE Collect(r)
  <2>1. Executing(r) = {}
    BY <1>5 DEF Collect, Executing, IInv, TasksCompatible
  <2> QED
    BY <1>0, <1>5, <2>1, RunSteps DEF Collect, RunsInv, TypeOK, Steps
<1>6. CASE Join(r)
  BY <1>0, <1>6, RunSteps, LanesAtHand DEF Join, RunsInv, TypeOK, Steps
<1>7. CASE LockToRelease(r)
  <2>1. \E step \in {"ended", "releasing"} : Goto(r, step)
    BY <1>7 DEF LockToRelease
  <2>2. /\ lock' \in [Lane -> BOOLEAN]
        /\ failed' \in [Run -> BOOLEAN]
        /\ \A s \in Run : s # r => failed'[s] = failed[s]
    BY <1>7 DEF LockToRelease, SetLock, RunsInv, TypeOK
  <2> QED
    BY <1>0, <1>7, <2>1, <2>2, RunSteps DEF LockToRelease, RunsInv, TypeOK, Steps
<1>8. CASE Release(r)
  BY <1>0, <1>8, ReleaseRuns
<1> QED
  BY <1>1, <1>2, <1>3, <1>4, <1>5, <1>6, <1>7, <1>8 DEF MainStep

\* So does every step of a heartbeat.
LEMMA BeatRuns ==
    ASSUME RunsInv, NEW r \in Run, BeatStep(r)
    PROVE  RunsInv'
<1>1. /\ UNCHANGED <<plan, clock, workspace, main, crashes>>
      /\ pc[r] \notin {"idle", "reset", "acquire", "acquiring"} /\ beat[r].at # "off"
  BY DEF BeatStep, BeatWakes, LockToRenew, Renew, RunsInv, HeartBeats
<1>2. \A at, lane : SetBeat(r, at, lane) /\ [at |-> at, lane |-> lane] \in Beats
         => beat' \in [Run -> Beats]
  BY DEF SetBeat, RunsInv, TypeOK
\* What the thread may come to, whatever it does.
<1>3. ASSUME NEW at, NEW lane, SetBeat(r, at, lane),
             at = "off" => error'[r] \/ pc[r] # "execute",
             at \in {"off", "wait", "renew", "renewing"}, lane \in Nat,
             at \in {"renew", "renewing"} => lane \in 1..Len(got[r]),
             error' \in [Run -> BOOLEAN], \A s \in Run : s # r => error'[s] = error[s],
             error[r] => error'[r],
             lock' \in [Lane -> BOOLEAN],
             lease' \in [Lane -> Lease \cup {NoLease}], OwnedByTaker'
      PROVE  RunsInv'
  <2>1. TypeOK'
    BY <1>1, <1>2, <1>3 DEF RunsInv, TypeOK, Beats, main
  <2>2. HeartBeats'
    BY <1>1, <1>3 DEF RunsInv, TypeOK, HeartBeats, SetBeat, Executing, main
  <2> QED
    BY <1>1, <1>3, <2>1, <2>2 DEF RunsInv, ManifestOrder, LanesOf, main
<1>4. error \in [Run -> BOOLEAN] /\ error' \in [Run -> BOOLEAN] /\ lock' \in [Lane -> BOOLEAN]
  BY LanesAtHand
     DEF BeatStep, BeatWakes, LockToRenew, Renew, BeatFails, SetLock, RunsInv, TypeOK
<1>5. \A s \in Run : s # r => error'[s] = error[s]
  BY DEF BeatStep, BeatWakes, LockToRenew, Renew, BeatFails, RunsInv, TypeOK
<1>6. Len(got[r]) \in Nat /\ beat[r].lane \in Nat
  BY LanesAtHand DEF RunsInv, TypeOK, Beats
<1>7. CASE BeatWakes(r)
  <2>1. Len(got[r]) >= 1 \/ pc[r] # "execute"
    BY LanesAtHand DEF RunsInv, ManifestOrder
  <2>2. /\ lease' \in [Lane -> Lease \cup {NoLease}] /\ OwnedByTaker'
        /\ error' = error
    BY <1>1, <1>7 DEF BeatWakes, RunsInv, TypeOK, OwnedByTaker, Owner
  <2>3. CASE Stopped(r)
    BY <1>3, <1>4, <1>5, <1>7, <2>2, <2>3 DEF BeatWakes, Stopped
  <2>4. CASE ~Stopped(r)
    <3>1. SetBeat(r, "renew", 1) /\ 1 \in 1..Len(got[r])
      BY <1>6, <1>7, <2>1, <2>4 DEF BeatWakes, Stopped
    <3> QED
      BY <1>3, <1>4, <1>5, <2>2, <3>1
  <2> QED
    BY <2>3, <2>4
<1>8. CASE LockToRenew(r)
  BY <1>1, <1>3, <1>4, <1>5, <1>6, <1>8
     DEF LockToRenew, BeatFails, RunsInv, TypeOK, HeartBeats, OwnedByTaker, Owner
<1>9. CASE Renew(r)
  <2>1. BeatLane(r) \in Lane
    BY <1>9, LanesAtHand DEF Renew
  <2>2. lease' \in [Lane -> Lease \cup {NoLease}] /\ OwnedByTaker'
    BY <1>1, <1>9, <2>1, LeaseRenewed DEF Renew, RunsInv, TypeOK, OwnedByTaker, Owner
  <2>3. CASE BeatFails(r)
    <3>1. SetBeat(r, "off", 0) /\ error'[r]
      BY <2>3 DEF BeatFails, RunsInv, TypeOK
    <3> QED
      BY <1>3, <1>4, <1>5, <2>2, <3>1
  <2>4. CASE error' = error /\ SetBeat(r, "wait", 0)
    BY <1>3, <1>4, <1>5, <2>2, <2>4
  <2>5. CASE error' = error /\ beat[r].lane < Len(got[r]) /\ SetBeat(r, "renew", beat[r].lane + 1)
    <3>1. beat[r].lane + 1 \in Nat /\ beat[r].lane + 1 \in 1..Len(got[r])
      BY <1>6, <2>5
    <3> QED
      BY <1>3, <1>4, <1>5, <2>2, <2>5, <3>1
  <2> QED
    BY <1>9, <2>3, <2>4, <2>5 DEF Renew
<1> QED
  BY <1>7, <1>8, <1>9 DEF BeatStep

\* A death leaves neither tasks nor heartbeat.
LEMMA CrashRuns ==
    ASSUME RunsInv, NEW r \in Run, Crash(r), UNCHANGED plan
    PROVE  RunsInv'
<1>1. TypeOK'
  <2>1. beat' \in [Run -> Beats]
    BY DEF Crash, SetBeat, RunsInv, TypeOK, Beats
  <2>2. crashes' \in 0..plan.crashes
    BY LaneSchedulerAssumption DEF Crash, RunsInv, TypeOK, Plan
  <2>3. work' \in [Run -> [Lane -> {"none", "queued", "running", "done", "raised"}]]
    BY DEF Crash, RunsInv, TypeOK
  <2> QED
    BY <2>1, <2>2, <2>3 DEF Crash, Goto, Steps, RunsInv, TypeOK
<1>2. ManifestOrder'
  BY DEF Crash, Goto, RunsInv, TypeOK, ManifestOrder, LanesOf
<1>3. HeartBeats'
  BY DEF Crash, Goto, SetBeat, RunsInv, TypeOK, HeartBeats, Executing
<1> QED
  BY <1>1, <1>2, <1>3 DEF Crash, RunsInv, OwnedByTaker, Owner

\* Every step keeps them.
LEMMA NextRuns == IInv /\ RunsInv /\ [Next]_vars => RunsInv'
<1> SUFFICES ASSUME IInv, RunsInv, [Next]_vars
             PROVE  RunsInv'
  OBVIOUS
<1>1. ASSUME NEW r \in Run, MainStep(r)
      PROVE  RunsInv'
  BY <1>1, MainRuns
<1>2. ASSUME NEW r \in Run, BeatStep(r)
      PROVE  RunsInv'
  BY <1>2, BeatRuns
<1>3. ASSUME NEW r \in Run, Begin(r), UNCHANGED plan
      PROVE  RunsInv'
  BY <1>3, RunSteps DEF Begin, RunsInv, TypeOK, Steps
<1>4. ASSUME NEW r \in Run, Crash(r), UNCHANGED plan
      PROVE  RunsInv'
  BY <1>4, CrashRuns
<1>5. CASE Tick /\ UNCHANGED plan
  <2>1. clock' \in 0..MaxClock
    BY <1>5, LaneSchedulerAssumption DEF Tick, RunsInv, TypeOK
  <2> QED
    BY <1>5, <2>1
       DEF Tick, RunsInv, TypeOK, ManifestOrder, HeartBeats, OwnedByTaker, Owner, LanesOf, Executing,
           main, heart
<1>6. CASE UNCHANGED vars
  BY <1>6 DEF vars, RunsInv, TypeOK, ManifestOrder, HeartBeats, OwnedByTaker, Owner, LanesOf, Executing,
              main, heart
<1> QED
  BY <1>1, <1>2, <1>3, <1>4, <1>5, <1>6 DEF Next

-----------------------------------------------------------------------------
(* What a run has taken it keeps.                                          *)

Holding == {"acquire", "acquiring", "execute", "join", "release", "releasing"}

\* A lane that a run has taken, and has still to release, it keeps unless the
\* heartbeat of a run that uses the lane fails.
Held ==
    \A r \in Run : pc[r] \in Holding =>
        \A i \in 1..left[r] :
            BeatsWork(got[r][i]) => lease[got[r][i]].taker = r /\ Active(got[r][i])

\* Only a run whose lanes are compatible, hence different ones, gets any.
Picked == \A r \in Run : got[r] # <<>> => Compatible(r)

\* Deaths are counted up to the bound and never forgotten.
LEMMA DeathsCount ==
    ASSUME RunsInv, [Next]_vars
    PROVE  crashes' \in {crashes, crashes + 1} /\ (crashes' = 0 => crashes = 0)
<1>1. crashes \in Nat
  BY DEF RunsInv, TypeOK
<1>2. crashes' \in {crashes, crashes + 1}
  BY DEF Next, vars, MainStep, BeatStep, ResetWorkspaces, LockToAcquire, Acquire, StartTask,
         EndTask, Collect, Join, LockToRelease, Release, BeatWakes, LockToRenew, Renew, Begin,
         Crash, Tick
<1> QED
  BY <1>1, <1>2

\* A disturbance is never over.
LEMMA DisturbanceStays ==
    ASSUME RunsInv, [Next]_vars, Undisturbed'
    PROVE  Undisturbed
<1>1. plan' = plan
  BY DEF Next, MainStep, BeatStep, vars
<1> QED
  BY <1>1, DeathsCount DEF Undisturbed, Tasks, LanesIn, LanesOf

\* Nothing is held at the start.
LEMMA HeldStart == Init => Held /\ Picked
BY DEF Init, Held, Picked

\* Lanes are taken only by runs that have passed the comparison.
LEMMA PickedKept ==
    ASSUME IInv, RunsInv, Picked, [Next]_vars
    PROVE  Picked'
<1>1. \A s \in Run : Compatible(s)' <=> Compatible(s)
  BY DEF Next, MainStep, BeatStep, vars, Compatible, LanesOf
<1>2. ASSUME NEW r \in Run, Acquire(r)
      PROVE  Picked'
  <2>1. Compatible(r) /\ \A s \in Run : s # r => got'[s] = got[s]
    BY <1>2 DEF Acquire, IInv, TakesCompatible, RunsInv, TypeOK
  <2> QED
    BY <1>1, <2>1 DEF Picked
<1>3. CASE got' = got
  BY <1>1, <1>3 DEF Picked
<1> QED
  BY <1>2, <1>3
     DEF Next, MainStep, BeatStep, vars, main, ResetWorkspaces, LockToAcquire, StartTask, EndTask,
         Collect, Join, LockToRelease, Release, BeatWakes, LockToRenew, Renew, Begin, Crash, Tick

\* A heartbeat that has failed stays so.
LEMMA FailureStays ==
    ASSUME RunsInv, [Next]_vars, NEW l \in Lane, BeatsWork(l)'
    PROVE  BeatsWork(l)
<1>1. plan' = plan
  BY DEF Next, MainStep, BeatStep, vars
<1>2. ASSUME NEW s \in Run, error[s]
      PROVE  error'[s]
  BY <1>2 DEF Next, MainStep, BeatStep, vars, heart, ResetWorkspaces, LockToAcquire, Acquire,
              StartTask, EndTask, Collect, Join, LockToRelease, Release, BeatWakes, LockToRenew,
              Renew, BeatFails, Begin, Crash, Tick, RunsInv, TypeOK
<1> QED
  BY <1>1, <1>2 DEF BeatsWork, Tasks, LanesIn, LanesOf

\* No step takes a lane from a run while the heartbeats of its users work.
LEMMA HeldKept ==
    ASSUME RunsInv, RunsInv', Held, Picked, [Next]_vars
    PROVE  Held'
<1>0. ASSUME NEW s \in Run, NEW j \in 1..left'[s]
      PROVE  j \in 1..Len(got'[s]) /\ got'[s][j] \in Lane
  <2>1. got'[s] \in Seq(Lane) /\ left'[s] \in Nat /\ left'[s] <= Len(got'[s])
    BY DEF RunsInv, TypeOK, ManifestOrder
  <2> QED
    BY <2>1
<1> SUFFICES ASSUME NEW r \in Run, pc'[r] \in Holding, NEW i \in 1..left'[r],
                    NEW kept \in Lane, got'[r][i] = kept, BeatsWork(kept)'
             PROVE  lease'[got'[r][i]].taker = r /\ lease'[got'[r][i]].expires > clock'
  BY <1>0 DEF Held, Active, BeatsWork
<1> USE LanesAtHand
<1>a. /\ lease \in [Lane -> Lease \cup {NoLease}] /\ lease' \in [Lane -> Lease \cup {NoLease}]
      /\ clock \in Nat /\ clock' \in Nat /\ Ttl \in Nat \ {0}
      /\ got \in [Run -> Seq(Lane)] /\ got' \in [Run -> Seq(Lane)]
      /\ left \in [Run -> Nat] /\ left' \in [Run -> Nat]
  BY LaneSchedulerAssumption DEF RunsInv, TypeOK
<1>b. /\ left[r] <= Len(got[r]) /\ left'[r] <= Len(got'[r])
      /\ i \in 1..Len(got'[r]) /\ got'[r][i] \in Lane
  BY <1>0, <1>a DEF RunsInv, ManifestOrder
<1>c. BeatsWork(kept)
  BY FailureStays
\* What the run had before.
<1>1. ASSUME pc[r] \in Holding, i \in 1..left[r], got'[r][i] = got[r][i]
      PROVE  /\ i \in 1..Len(got[r]) /\ got[r][i] \in Tasks(r) /\ got[r][i] \in Lane
             /\ lease[got[r][i]].taker = r /\ lease[got[r][i]].expires > clock
  BY <1>1, <1>a, <1>b, <1>c DEF Held, Active
\* Leases and lanes stay.
<1>2. CASE /\ UNCHANGED <<clock, lease, got, left>>
           /\ pc[r] \in Holding \/ left[r] = 0
  BY <1>1, <1>2, <1>a
<1>3. ASSUME NEW s \in Run, Acquire(s)
      PROVE  lease'[got'[r][i]].taker = r /\ lease'[got'[r][i]].expires > clock'
  <2> DEFINE l == NextLane(s)
  <2>1. /\ l \in Lane /\ clock' = clock /\ pc[s] = "acquiring" /\ got[s] \in Seq(Lane)
        /\ left[s] = Len(got[s])
    BY <1>3, <1>a DEF Acquire, RunsInv, ManifestOrder
  <2>2. CASE Active(l)
    <3>1. UNCHANGED <<lease, got, left>> /\ \E step \in {"ended", "release"} : Goto(s, step)
      BY <1>3, <2>2 DEF Acquire, Unwind
    <3>2. pc[r] \in Holding
      BY <2>1, <3>1 DEF Goto, Holding, RunsInv, TypeOK
    <3> QED
      BY <1>2, <2>1, <3>1, <3>2
  <2>3. CASE ~Active(l)
    <3>1. /\ lease' = [lease EXCEPT ![l] = [owner |-> Owner(s), taker |-> s, expires |-> clock + Ttl]]
          /\ got' = [got EXCEPT ![s] = Append(@, l)]
          /\ left' = [left EXCEPT ![s] = @ + 1]
          /\ \E step \in Steps : Goto(s, step)
      BY <1>3, <2>3 DEF Acquire, TakeLease, Steps
    <3>2. lease'[l].taker = s /\ lease'[l].expires > clock
      BY <1>a, <2>1, <3>1
    <3>3. CASE s = r
      <4>1. CASE i = Len(got[r]) + 1
        BY <1>a, <2>1, <3>1, <3>2, <3>3, <4>1
      <4>2. CASE i # Len(got[r]) + 1
        <5>1. i \in 1..left[r] /\ got'[r][i] = got[r][i]
          BY <1>a, <2>1, <3>1, <3>3, <4>2
        <5>2. lease[got[r][i]].taker = r /\ lease[got[r][i]].expires > clock /\ got[r][i] \in Lane
          BY <1>1, <2>1, <3>3, <5>1 DEF Holding
        <5> QED
          BY <1>a, <2>1, <3>1, <3>2, <3>3, <5>1, <5>2
      <4> QED
        BY <4>1, <4>2
    <3>4. CASE s # r
      <4>1. got'[r] = got[r] /\ left'[r] = left[r] /\ pc'[r] = pc[r]
        BY <1>a, <3>1, <3>4 DEF Goto, RunsInv, TypeOK
      <4>2. lease[got[r][i]].taker = r /\ lease[got[r][i]].expires > clock
        BY <1>1, <4>1
      <4>3. got[r][i] # l
        BY <2>3, <4>2 DEF Active
      <4> QED
        BY <1>a, <2>1, <3>1, <4>1, <4>2, <4>3
    <3> QED
      BY <3>3, <3>4
  <2> QED
    BY <2>2, <2>3
<1>4. ASSUME NEW s \in Run, Release(s)
      PROVE  lease'[got'[r][i]].taker = r /\ lease'[got'[r][i]].expires > clock'
  <2> DEFINE l == LastLane(s)
  <2>1. /\ UNCHANGED <<clock, got>> /\ pc[s] = "releasing"
        /\ l \in Lane /\ left[s] \in 1..Len(got[s]) /\ l = got[s][left[s]]
        /\ \E step \in {"ended", "release"} : Goto(s, step)
    BY <1>4 DEF Release, Released, LastLane
  <2>2. pc[r] \in Holding
    BY <2>1 DEF Goto, Holding, RunsInv, TypeOK
  <2>3. CASE lease' = lease /\ left' = left
    BY <1>1, <2>1, <2>2, <2>3
  <2>4. CASE lease' = [lease EXCEPT ![l] = NoLease] /\ left' = [left EXCEPT ![s] = @ - 1]
    <3>1. i \in 1..left[r] /\ got'[r][i] = got[r][i]
      BY <1>a, <2>1, <2>4
    <3>2. lease[got[r][i]].taker = r /\ lease[got[r][i]].expires > clock
      BY <1>1, <2>2, <3>1
    <3>3. got[r][i] # l
      <4>1. CASE s = r
        <5>1. i < left[r]
          BY <1>a, <2>1, <2>4, <4>1
        <5>2. Compatible(r)
          BY <2>1, <4>1 DEF Picked
        <5>3. i \in DOMAIN LanesOf(r) /\ left[r] \in DOMAIN LanesOf(r)
          BY <1>a, <1>b, <2>1, <3>1, <4>1 DEF RunsInv, ManifestOrder
        <5>4. LanesOf(r)[i] # LanesOf(r)[left[r]]
          BY <5>1, <5>2, <5>3 DEF Compatible
        <5>5. got[r][i] = LanesOf(r)[i] /\ got[r][left[r]] = LanesOf(r)[left[r]]
          BY <1>a, <1>b, <2>1, <3>1, <4>1 DEF RunsInv, ManifestOrder
        <5> QED
          BY <2>1, <4>1, <5>4, <5>5
      <4>2. CASE s # r
        <5> SUFFICES ASSUME got[r][i] = l
                     PROVE  FALSE
          OBVIOUS
        <5>1. BeatsWork(l)
          BY <1>c, <3>1
        <5>2. lease[l].taker = s
          BY <1>a, <2>1, <5>1 DEF Held, Holding
        <5> QED
          BY <3>2, <4>2, <5>2
      <4> QED
        BY <4>1, <4>2
    <3> QED
      BY <1>a, <1>b, <2>1, <2>4, <3>1, <3>2, <3>3
  <2> QED
    BY <1>4, <2>3, <2>4 DEF Release, Released
<1>5. ASSUME NEW s \in Run, MainStep(s)
      PROVE  lease'[got'[r][i]].taker = r /\ lease'[got'[r][i]].expires > clock'
  <2>1. CASE Acquire(s)
    BY <1>3, <2>1
  <2>2. CASE Release(s)
    BY <1>4, <2>2
  <2>3. CASE ResetWorkspaces(s)
    <3>1. got[s] = <<>> /\ left[s] = 0
      BY <1>a, <2>3 DEF ResetWorkspaces, RunsInv, ManifestOrder
    <3>2. UNCHANGED <<clock, lease, got, left>> /\ (s # r => pc'[r] = pc[r])
      BY <2>3 DEF ResetWorkspaces, Goto, RunsInv, TypeOK
    <3> QED
      BY <1>2, <3>1, <3>2
  <2>4. CASE LockToAcquire(s) \/ Collect(s) \/ Join(s) \/ LockToRelease(s)
    <3>1. UNCHANGED <<clock, lease, got, left>>
      BY <2>4 DEF LockToAcquire, Collect, Join, LockToRelease
    <3>2. pc[r] \in Holding
      BY <2>4 DEF LockToAcquire, Unwind, Collect, Join, LockToRelease, Goto, Holding, RunsInv, TypeOK
    <3> QED
      BY <1>2, <3>1, <3>2
  <2>5. ASSUME NEW l \in Lane, StartTask(s, l) \/ EndTask(s, l)
        PROVE  lease'[got'[r][i]].taker = r /\ lease'[got'[r][i]].expires > clock'
    BY <1>2, <2>5 DEF StartTask, EndTask
  <2> QED
    BY <1>5, <2>1, <2>2, <2>3, <2>4, <2>5 DEF MainStep
<1>6. ASSUME NEW s \in Run, BeatStep(s)
      PROVE  lease'[got'[r][i]].taker = r /\ lease'[got'[r][i]].expires > clock'
  <2>1. UNCHANGED <<clock, pc, got, left>>
    BY <1>6 DEF BeatStep, BeatWakes, LockToRenew, Renew, main
  <2>3. /\ got[r][i] \in Lane
        /\ lease[got[r][i]].taker = r /\ lease[got[r][i]].expires > clock
    BY <1>1, <2>1
  <2>4. CASE lease' = lease
    BY <2>1, <2>3, <2>4
  <2>5. CASE lease' = [lease EXCEPT ![BeatLane(s)].expires = clock + Ttl]
    <3>1. CASE got[r][i] = BeatLane(s)
      <4>1. lease[BeatLane(s)] \in Lease
        BY <1>a, <2>3, <3>1 DEF NoLease
      <4>2. lease'[BeatLane(s)].taker = lease[BeatLane(s)].taker
            /\ lease'[BeatLane(s)].expires = clock + Ttl
        BY <1>a, <2>3, <2>5, <3>1, <4>1 DEF Lease
      <4> QED
        BY <1>a, <2>1, <2>3, <3>1, <4>2
    <3>2. CASE got[r][i] # BeatLane(s)
      BY <1>a, <2>1, <2>3, <2>5, <3>2
    <3> QED
      BY <3>1, <3>2
  <2> QED
    BY <1>6, <2>4, <2>5 DEF BeatStep, BeatWakes, LockToRenew, Renew
<1>7. CASE \E s \in Run : Begin(s) \/ Crash(s)
  <2>1. UNCHANGED <<clock, lease, got, left>> /\ pc[r] \in Holding
    BY <1>7 DEF Begin, Crash, Goto, Holding, RunsInv, TypeOK
  <2> QED
    BY <1>2, <2>1
<1>8. CASE Tick
  <2>1. UNCHANGED <<lease, got, left, pc, error, beat>> /\ clock' = clock + 1 /\ MayTick
    BY <1>8 DEF Tick, main, heart
  <2>2. /\ got[r][i] \in LanesIn(got[r]) /\ got[r][i] \in Lane
        /\ lease[got[r][i]].taker = r /\ lease[got[r][i]].expires > clock
    BY <1>a, <1>1, <2>1 DEF LanesIn
  <2>3. ~error[r]
    BY <1>c, <1>1, <2>1 DEF BeatsWork
  <2>4. Keeping(r)
    BY <2>1, <2>3 DEF Keeping, Holding, RunsInv, HeartBeats
  <2> QED
    BY <1>a, <2>1, <2>2, <2>4 DEF MayTick, Active
<1>9. CASE UNCHANGED vars
  BY <1>2, <1>9 DEF vars, main
<1> QED
  BY <1>5, <1>6, <1>7, <1>8, <1>9 DEF Next

-----------------------------------------------------------------------------
(* The lock files.                                                         *)

\* No lock file is there at the start.
LEMMA LockStart == Init => LockMeansOperation
BY DEF Init, LockMeansOperation

\* A thread that is inside an operation is found there.
LEMMA OperationFound ==
    ASSUME NEW r \in Run, NEW l \in Lane,
           \/ pc[r] = "acquiring" /\ NextLane(r) = l
           \/ pc[r] = "releasing" /\ LastLane(r) = l
           \/ beat[r].at = "renewing" /\ BeatLane(r) = l
    PROVE  InOperation(l) # {}
BY DEF InOperation

\* Who makes a lock file is in an operation, and removes it or dies.
LEMMA LockKept ==
    ASSUME RunsInv, RunsInv', LockMeansOperation, [Next]_vars
    PROVE  LockMeansOperation'
<1> SUFFICES ASSUME crashes' = 0, NEW l \in Lane, lock'[l]
             PROVE  InOperation(l)' # {}
  BY DEF LockMeansOperation
<1> USE LanesAtHand
<1>a. plan' = plan /\ lock \in [Lane -> BOOLEAN]
  BY DEF Next, MainStep, BeatStep, vars, RunsInv, TypeOK
<1>b. crashes = 0
  BY DeathsCount
<1>1. ASSUME lock[l]
      PROVE  \E r \in Run : \/ pc[r] = "acquiring" /\ NextLane(r) = l
                            \/ pc[r] = "releasing" /\ LastLane(r) = l
                            \/ beat[r].at = "renewing" /\ BeatLane(r) = l
  BY <1>1, <1>b DEF LockMeansOperation, InOperation
\* A thread enters its operation, or the others are where they were.
<1>2. ASSUME NEW r \in Run,
             \/ pc'[r] = "acquiring" /\ NextLane(r)' = l
             \/ pc'[r] = "releasing" /\ LastLane(r)' = l
             \/ beat'[r].at = "renewing" /\ BeatLane(r)' = l
      PROVE  InOperation(l)' # {}
  BY <1>2 DEF InOperation
<1>3. CASE lock'[l] = lock[l] /\ UNCHANGED <<pc, got, left, beat>>
  BY <1>1, <1>2, <1>3, <1>a DEF NextLane, LastLane, BeatLane, LanesOf
\* One run's main thread moves, and was not in an operation on this lane.
<1>4. ASSUME NEW r \in Run, lock'[l] = lock[l], UNCHANGED <<got, left, beat>>,
             \E step \in Steps : Goto(r, step),
             pc[r] = "acquiring" => NextLane(r) # l,
             pc[r] = "releasing" => LastLane(r) # l
      PROVE  InOperation(l)' # {}
  BY <1>1, <1>2, <1>4, <1>a DEF NextLane, LastLane, BeatLane, LanesOf, Goto, RunsInv, TypeOK
\* One run's heartbeat moves, and was not in an operation on this lane.
<1>5. ASSUME NEW r \in Run, lock'[l] = lock[l], UNCHANGED <<pc, got, left>>,
             \A s \in Run : s # r => beat'[s] = beat[s],
             beat[r].at = "renewing" => BeatLane(r) # l
      PROVE  InOperation(l)' # {}
  BY <1>1, <1>2, <1>5, <1>a DEF NextLane, LastLane, BeatLane, LanesOf
<1>6. ASSUME NEW r \in Run, MainStep(r)
      PROVE  InOperation(l)' # {}
  <2>1. CASE ResetWorkspaces(r) \/ Collect(r) \/ Join(r)
    BY <1>4, <2>1 DEF ResetWorkspaces, Collect, Join, Steps, heart, Goto
  <2>2. CASE LockToAcquire(r)
    <3>1. CASE lock' = lock
      BY <1>4, <2>2, <3>1 DEF LockToAcquire, Unwind, Steps, heart
    <3>2. CASE SetLock(NextLane(r), TRUE) /\ Goto(r, "acquiring")
      <4>1. CASE NextLane(r) = l
        BY <1>2, <1>a, <2>2, <3>2, <4>1 DEF LockToAcquire, NextLane, LanesOf, Goto, RunsInv, TypeOK
      <4>2. CASE NextLane(r) # l
        BY <1>4, <1>a, <2>2, <3>2, <4>2 DEF LockToAcquire, SetLock, Steps, heart
      <4> QED
        BY <4>1, <4>2
    <3> QED
      BY <2>2, <3>1, <3>2 DEF LockToAcquire
  <2>3. CASE Acquire(r)
    <3>1. NextLane(r) # l /\ lock'[l] = lock[l]
      BY <1>a, <2>3 DEF Acquire, SetLock
    <3>2. CASE UNCHANGED <<got, left, beat>>
      BY <1>4, <2>3, <3>1, <3>2 DEF Acquire, Unwind, Steps
    <3>3. CASE /\ got' = [got EXCEPT ![r] = Append(@, NextLane(r))]
               /\ left' = [left EXCEPT ![r] = @ + 1]
               /\ \A s \in Run : s # r => beat'[s] = beat[s]
               /\ \E step \in Steps : Goto(r, step)
      <4>1. PICK s \in Run : \/ pc[s] = "acquiring" /\ NextLane(s) = l
                             \/ pc[s] = "releasing" /\ LastLane(s) = l
                             \/ beat[s].at = "renewing" /\ BeatLane(s) = l
        BY <1>1, <3>1
      <4>2. s # r
        BY <2>3, <3>1, <4>1 DEF Acquire, RunsInv, HeartBeats
      <4>3. pc'[s] = pc[s] /\ got'[s] = got[s] /\ left'[s] = left[s] /\ beat'[s] = beat[s]
        BY <3>3, <4>2 DEF Goto, RunsInv, TypeOK
      <4> QED
        BY <1>2, <1>a, <4>1, <4>3 DEF NextLane, LastLane, BeatLane, LanesOf
    <3>4. StartTasks(r) => \A s \in Run : s # r => beat'[s] = beat[s]
      BY DEF StartTasks, RunsInv, TypeOK
    <3> QED
      BY <2>3, <3>2, <3>3, <3>4 DEF Acquire, Steps
  <2>4. CASE LockToRelease(r)
    <3>1. CASE lock' = lock
      BY <1>4, <2>4, <3>1 DEF LockToRelease, Steps, heart
    <3>2. CASE SetLock(LastLane(r), TRUE) /\ Goto(r, "releasing")
      <4>1. CASE LastLane(r) = l
        BY <1>2, <2>4, <3>2, <4>1 DEF LockToRelease, LastLane, Goto, RunsInv, TypeOK
      <4>2. CASE LastLane(r) # l
        BY <1>4, <1>a, <2>4, <3>2, <4>2 DEF LockToRelease, SetLock, Steps, heart
      <4> QED
        BY <4>1, <4>2
    <3> QED
      BY <2>4, <3>1, <3>2 DEF LockToRelease
  <2>5. CASE Release(r)
    <3>1. LastLane(r) # l /\ lock'[l] = lock[l] /\ pc[r] = "releasing"
      BY <1>a, <2>5 DEF Release, SetLock
    <3>2. /\ UNCHANGED <<got, beat>> /\ \A s \in Run : s # r => left'[s] = left[s]
          /\ \E step \in {"ended", "release"} : Goto(r, step)
      BY <2>5 DEF Release, Released, heart, RunsInv, TypeOK
    <3>3. PICK s \in Run : \/ pc[s] = "acquiring" /\ NextLane(s) = l
                           \/ pc[s] = "releasing" /\ LastLane(s) = l
                           \/ beat[s].at = "renewing" /\ BeatLane(s) = l
      BY <1>1, <3>1
    <3>4. CASE s = r
      BY <1>2, <3>1, <3>2, <3>3, <3>4 DEF BeatLane
    <3>5. CASE s # r
      <4>1. pc'[s] = pc[s] /\ got'[s] = got[s] /\ left'[s] = left[s] /\ beat'[s] = beat[s]
        BY <3>2, <3>5 DEF Goto, RunsInv, TypeOK
      <4> QED
        BY <1>2, <1>a, <3>3, <4>1 DEF NextLane, LastLane, BeatLane, LanesOf
    <3> QED
      BY <3>4, <3>5
  <2>6. ASSUME NEW m \in Lane, StartTask(r, m) \/ EndTask(r, m)
        PROVE  InOperation(l)' # {}
    BY <1>3, <2>6 DEF StartTask, EndTask, heart
  <2> QED
    BY <1>6, <2>1, <2>2, <2>3, <2>4, <2>5, <2>6 DEF MainStep
<1>7. ASSUME NEW r \in Run, BeatStep(r)
      PROVE  InOperation(l)' # {}
  <2>1. UNCHANGED <<pc, got, left>>
    BY <1>7 DEF BeatStep, BeatWakes, LockToRenew, Renew, main
  <2>2. \A s \in Run : s # r => beat'[s] = beat[s]
    BY <1>7 DEF BeatStep, BeatWakes, LockToRenew, Renew, BeatFails, SetBeat, RunsInv, TypeOK
  <2>3. CASE BeatWakes(r)
    BY <1>5, <2>1, <2>2, <2>3 DEF BeatWakes
  <2>4. CASE LockToRenew(r)
    <3>1. CASE lock' = lock
      BY <1>5, <2>1, <2>2, <2>4, <3>1 DEF LockToRenew
    <3>2. CASE SetLock(BeatLane(r), TRUE) /\ SetBeat(r, "renewing", beat[r].lane)
      <4>1. CASE BeatLane(r) = l
        BY <1>2, <2>1, <3>2, <4>1 DEF SetBeat, BeatLane, RunsInv, TypeOK
      <4>2. CASE BeatLane(r) # l
        BY <1>5, <1>a, <2>1, <2>2, <2>4, <3>2, <4>2 DEF LockToRenew, SetLock
      <4> QED
        BY <4>1, <4>2
    <3> QED
      BY <2>4, <3>1, <3>2 DEF LockToRenew
  <2>5. CASE Renew(r)
    <3>1. BeatLane(r) # l /\ lock'[l] = lock[l]
      BY <1>a, <2>5 DEF Renew, SetLock
    <3> QED
      BY <1>5, <2>1, <2>2, <3>1
  <2> QED
    BY <1>7, <2>3, <2>4, <2>5 DEF BeatStep
<1>8. ASSUME NEW r \in Run, Begin(r)
      PROVE  InOperation(l)' # {}
  BY <1>4, <1>8 DEF Begin, Steps, heart
<1>9. CASE \E r \in Run : Crash(r)
  <2>1. crashes' = crashes + 1
    BY <1>9 DEF Crash
  <2> QED
    BY <1>b, <2>1
<1>10. CASE Tick \/ UNCHANGED vars
  BY <1>3, <1>10 DEF Tick, vars, main, heart
<1> QED
  BY <1>6, <1>7, <1>8, <1>9, <1>10 DEF Next

-----------------------------------------------------------------------------
(* Runs that are left undisturbed.                                         *)

\* Undisturbed, no heartbeat fails or outlives its run's tasks, a lease is one
\* its taker has still to release, a run that has ended has none, a task runs
\* in the workspace prepared for it, and only tasks and overlaps make runs fail.
Apart ==
    Undisturbed =>
        \A r \in Run :
            /\ ~error[r]
            /\ beat[r].at # "off" => pc[r] \in {"execute", "join"}
            /\ \A l \in Lane : lease[l].taker = r => \E i \in 1..left[r] : got[r][i] = l
            /\ pc[r] = "ended" => left[r] = 0
            /\ \A l \in Executing(r) : workspace[l] = r
            /\ failed[r] => ~Compatible(r) \/ \E l \in Lane : work[r][l] = "raised"

\* Undisturbed runs start with nothing.
LEMMA ApartStart == Init => Apart
<1> SUFFICES ASSUME Init
             PROVE  Apart
  OBVIOUS
<1>1. \A r \in Run, l \in Lane : lease[l].taker # r
  BY LaneSchedulerAssumption DEF Init, NoLease
<1> QED
  BY <1>1 DEF Init, Apart, Executing

\* The lock file of a run's lane is there for an operation of its own.
LEMMA OwnLock ==
    ASSUME RunsInv, LockMeansOperation, Undisturbed, NEW r \in Run, NEW l \in Tasks(r), lock[l]
    PROVE  \/ pc[r] = "acquiring" \/ pc[r] = "releasing" \/ beat[r].at = "renewing"
<1>1. l \in Lane /\ InOperation(l) # {}
  BY LanesAtHand DEF LockMeansOperation, Undisturbed
<1>2. PICK s \in Run : \/ pc[s] = "acquiring" /\ NextLane(s) = l
                       \/ pc[s] = "releasing" /\ LastLane(s) = l
                       \/ beat[s].at = "renewing" /\ BeatLane(s) = l
  BY <1>1 DEF InOperation
<1>3. l \in Tasks(s)
  BY <1>2, LanesAtHand
<1> QED
  BY <1>2, <1>3 DEF Undisturbed

\* The lease of a run's lane is its own, and still to be released.
LEMMA OwnLease ==
    ASSUME RunsInv, Apart, Undisturbed, NEW r \in Run, NEW l \in Tasks(r), lease[l] # NoLease
    PROVE  /\ lease[l].taker = r /\ lease[l].owner = Owner(r)
           /\ \E i \in 1..left[r] : got[r][i] = l
<1>1. l \in Lane /\ lease[l] \in Lease
  BY LanesAtHand DEF RunsInv, TypeOK
<1>2. PICK s \in Run : lease[l].taker = s
  BY <1>1 DEF Lease
<1>3. PICK i \in 1..left[s] : got[s][i] = l
  BY <1>1, <1>2 DEF Apart
<1>4. l \in Tasks(s)
  BY <1>3, LanesAtHand DEF RunsInv, ManifestOrder
<1>5. s = r
  BY <1>4 DEF Undisturbed
<1> QED
  BY <1>1, <1>2, <1>3, <1>5 DEF RunsInv, OwnedByTaker, Owner

\* So no operation of theirs is refused.
LEMMA NothingRefused ==
    ASSUME IInv, RunsInv, Held, LockMeansOperation, Apart, Undisturbed, NEW r \in Run
    PROVE  /\ pc[r] = "acquire" => ~lock[NextLane(r)]
           /\ pc[r] = "acquiring" => ~Active(NextLane(r))
           /\ pc[r] = "release" => ~lock[LastLane(r)]
           /\ pc[r] = "releasing" => lease[LastLane(r)].owner \in {NoLease.owner, Owner(r)}
           /\ beat[r].at = "renew" => ~lock[BeatLane(r)]
           /\ beat[r].at = "renewing" =>
                 lease[BeatLane(r)].owner = Owner(r) /\ Active(BeatLane(r))
<1> USE LanesAtHand
<1>1. ASSUME pc[r] = "acquire"
      PROVE  ~lock[NextLane(r)]
  BY <1>1, OwnLock DEF RunsInv, HeartBeats
<1>2. ASSUME pc[r] = "acquiring", Active(NextLane(r))
      PROVE  FALSE
  <2>1. lease[NextLane(r)] # NoLease
    BY <1>2 DEF Active, NoLease, RunsInv, TypeOK
  <2>2. PICK i \in 1..left[r] : got[r][i] = NextLane(r)
    BY <1>2, <2>1, OwnLease
  <2>3. i \in 1..Len(got[r]) /\ Len(got[r]) < Len(LanesOf(r)) /\ LanesOf(r)[i] = NextLane(r)
    BY <1>2, <2>2 DEF RunsInv, ManifestOrder
  <2>4. Compatible(r)
    BY <1>2 DEF IInv, TakesCompatible
  <2> QED
    BY <2>3, <2>4 DEF Compatible, NextLane
<1>3. ASSUME pc[r] = "release"
      PROVE  ~lock[LastLane(r)]
  BY <1>3, OwnLock DEF Apart
<1>4. ASSUME pc[r] = "releasing"
      PROVE  lease[LastLane(r)].owner \in {NoLease.owner, Owner(r)}
  BY <1>4, OwnLease
<1>5. ASSUME beat[r].at = "renew"
      PROVE  ~lock[BeatLane(r)]
  BY <1>5, OwnLock DEF Apart
<1>6. ASSUME beat[r].at = "renewing"
      PROVE  lease[BeatLane(r)].owner = Owner(r) /\ Active(BeatLane(r))
  <2>1. /\ pc[r] \in Holding /\ beat[r].lane \in 1..Len(got[r]) /\ left[r] = Len(got[r])
        /\ \A s \in Run : ~error[s]
    BY <1>6 DEF Apart, Holding, RunsInv, HeartBeats, ManifestOrder
  <2>2. Active(BeatLane(r))
    BY <2>1 DEF Held, BeatLane, BeatsWork
  <2>3. lease[BeatLane(r)] # NoLease
    BY <2>2 DEF Active, NoLease, RunsInv, TypeOK
  <2> QED
    BY <1>6, <2>2, <2>3, OwnLease
<1> QED
  BY <1>1, <1>2, <1>3, <1>4, <1>5, <1>6

\* No step of an undisturbed run touches what another has.
LEMMA ApartKept ==
    ASSUME IInv, RunsInv, RunsInv', Held, LockMeansOperation, Apart, [Next]_vars
    PROVE  Apart'
<1> SUFFICES ASSUME Undisturbed'
             PROVE  Apart'
  BY DEF Apart
<1>a. Undisturbed
  BY DisturbanceStays
<1>b. /\ plan' = plan
      /\ lease \in [Lane -> Lease \cup {NoLease}] /\ workspace \in [Lane -> Run \cup {NoRun}]
      /\ \A s \in Run : \A l \in Executing(s) : l \in Lane /\ l \in Tasks(s)
  BY DEF Next, MainStep, BeatStep, vars, RunsInv, TypeOK, IInv, TasksCompatible, Executing
<1>c. \A s \in Run : Compatible(s)' <=> Compatible(s)
  BY <1>b DEF Compatible, LanesOf
\* Steps that change no lease, no task and no workspace.
<1>1. ASSUME UNCHANGED <<lease, got, left, work, workspace, error>>,
             \A s \in Run :
                /\ beat'[s].at # "off" => pc'[s] \in {"execute", "join"}
                /\ pc'[s] = "ended" => left[s] = 0
                /\ failed'[s] => failed[s] \/ ~Compatible(s) \/ \E l \in Lane : work[s][l] = "raised"
      PROVE  Apart'
  BY <1>1, <1>a, <1>b, <1>c DEF Apart, Executing
<1>2. ASSUME NEW r \in Run, MainStep(r)
      PROVE  Apart'
  <2> USE LanesAtHand
  <2>1. CASE ResetWorkspaces(r)
    <3>1. /\ UNCHANGED <<lease, got, left, work, error, beat>>
          /\ \E step \in Steps : Goto(r, step)
          /\ pc[r] = "reset" /\ left[r] = 0 /\ beat[r].at = "off" /\ Executing(r) = {}
      BY <2>1 DEF ResetWorkspaces, Steps, heart, RunsInv, ManifestOrder, HeartBeats
    <3>2. \A s \in Run : failed'[s] => failed[s] \/ ~Compatible(s)
      BY <2>1 DEF ResetWorkspaces, RunsInv, TypeOK
    <3>3. \A s \in Run, l \in Lane : l \in Executing(s) => l \notin Tasks(r)
      BY <1>a, <1>b, <1>c, <3>1 DEF Undisturbed
    <3>4. \A s \in Run : \A l \in Executing(s) : workspace'[l] = workspace[l]
      BY <1>b, <2>1, <3>3 DEF ResetWorkspaces
    <3> QED
      BY <1>a, <1>b, <1>c, <3>1, <3>2, <3>4 DEF Apart, Executing, Goto, RunsInv, TypeOK
  <2>2. CASE LockToAcquire(r)
    <3>1. Goto(r, "acquiring") /\ UNCHANGED <<lease, got, left, work, workspace, error, beat, failed>>
      BY <1>a, <2>2, NothingRefused DEF LockToAcquire, heart
    <3>2. beat[r].at = "off"
      BY <2>2 DEF LockToAcquire, RunsInv, HeartBeats
    <3> QED
      BY <1>1, <1>a, <3>1, <3>2 DEF Apart, Goto, RunsInv, TypeOK
  <2>3. CASE Acquire(r)
    <3> DEFINE l == NextLane(r)
    <3>1. /\ pc[r] = "acquiring" /\ l \in Lane /\ got[r] \in Seq(Lane)
          /\ left[r] = Len(got[r]) /\ Executing(r) = {} /\ beat[r].at = "off" /\ ~failed[r]
      BY <2>3 DEF Acquire, RunsInv, TypeOK, ManifestOrder, HeartBeats
    <3>2. /\ TakeLease(r, l)
          /\ got' = [got EXCEPT ![r] = Append(@, l)]
          /\ left' = [left EXCEPT ![r] = @ + 1]
          /\ UNCHANGED <<workspace, error, failed>>
          /\ \/ Goto(r, "execute") /\ StartTasks(r)
             \/ Goto(r, "acquire") /\ UNCHANGED <<beat, work>>
      BY <1>a, <2>3, NothingRefused DEF Acquire
    <3>3. /\ left'[r] = Len(got[r]) + 1 /\ got'[r] = Append(got[r], l)
          /\ \A s \in Run : s # r => left'[s] = left[s] /\ got'[s] = got[s] /\ pc'[s] = pc[s]
      BY <3>1, <3>2 DEF RunsInv, TypeOK, Goto
    <3>4. ASSUME NEW s \in Run, NEW m \in Lane, lease'[m].taker = s
          PROVE  \E i \in 1..left'[s] : got'[s][i] = m
      <4>1. CASE m = l
        <5>1. s = r
          BY <1>b, <3>1, <3>2, <3>4, <4>1 DEF TakeLease
        <5> QED
          BY <3>1, <3>3, <4>1, <5>1
      <4>2. CASE m # l
        <5>1. lease[m].taker = s
          BY <1>b, <3>1, <3>2, <3>4, <4>2 DEF TakeLease
        <5>2. PICK i \in 1..left[s] : got[s][i] = m
          BY <1>a, <5>1 DEF Apart
        <5>3. CASE s = r
          <6>1. i \in 1..Len(got[r]) /\ i \in 1..left'[r]
            BY <3>1, <3>3, <5>2, <5>3
          <6> QED
            BY <3>1, <3>3, <5>2, <5>3, <6>1
        <5>4. CASE s # r
          BY <3>3, <5>2, <5>4
        <5> QED
          BY <5>3, <5>4
      <4> QED
        BY <4>1, <4>2
    <3>5. \A s \in Run : Executing(s)' = Executing(s)
      <4>1. StartTasks(r) => \A s \in Run, m \in Lane :
               work'[s][m] = "running" <=> work[s][m] = "running" /\ s # r
        BY DEF StartTasks, RunsInv, TypeOK
      <4> QED
        BY <3>1, <3>2, <4>1 DEF Executing
    <3>6. \A s \in Run : beat'[s].at # "off" => pc'[s] \in {"execute", "join"}
      <4>1. StartTasks(r) => \A s \in Run : s # r => beat'[s] = beat[s]
        BY DEF StartTasks, RunsInv, TypeOK
      <4>2. beat' = beat \/ pc'[r] = "execute"
        BY <3>2 DEF Goto, RunsInv, TypeOK
      <4> QED
        BY <1>a, <3>1, <3>2, <3>3, <4>1, <4>2 DEF Apart
    <3>7. \A s \in Run : failed'[s] => s # r /\ work'[s] = work[s]
      BY <3>1, <3>2 DEF StartTasks, RunsInv, TypeOK
    <3>8. \A s \in Run : pc'[s] = "ended" => left'[s] = 0
      BY <1>a, <3>1, <3>2, <3>3 DEF Apart, Goto, RunsInv, TypeOK
    <3>9. ASSUME NEW s \in Run
          PROVE  /\ ~error'[s]
                 /\ \A m \in Executing(s)' : workspace'[m] = s
                 /\ failed'[s] => ~Compatible(s)' \/ \E m \in Lane : work'[s][m] = "raised"
      BY <1>a, <1>c, <3>2, <3>5, <3>7 DEF Apart
    <3> QED
      BY <3>4, <3>6, <3>8, <3>9 DEF Apart
  <2>4. ASSUME NEW l \in Lane, StartTask(r, l)
        PROVE  Apart'
    <3>1. UNCHANGED <<lease, pc, got, left, failed, error, beat>> /\ work[r][l] = "queued"
      BY <2>4 DEF StartTask, heart
    <3>2. /\ l \in Tasks(r)
          /\ \A s \in Run : s # r => l \notin Executing(s)
      BY <1>a, <1>b, <1>c, <3>1 DEF IInv, TasksCompatible, Undisturbed
    <3>3. CASE /\ workspace' = [workspace EXCEPT ![l] = r]
               /\ work' = [work EXCEPT ![r][l] = "running"]
      <4>1. \A s \in Run : \A m \in Executing(s)' : workspace'[m] = s
        BY <1>a, <1>b, <3>2, <3>3 DEF Apart, Executing, RunsInv, TypeOK
      <4>2. \A s \in Run, m \in Lane : work[s][m] = "raised" => work'[s][m] = "raised"
        BY <3>1, <3>3 DEF RunsInv, TypeOK
      <4> QED
        BY <1>a, <1>b, <1>c, <3>1, <4>1, <4>2 DEF Apart
    <3>4. CASE workspace' = workspace /\ work' = [work EXCEPT ![r][l] = "raised"]
      <4>1. \A s \in Run : \A m \in Executing(s)' : workspace'[m] = s
        BY <1>a, <1>b, <3>2, <3>4 DEF Apart, Executing, RunsInv, TypeOK
      <4>2. \A s \in Run, m \in Lane : work[s][m] = "raised" => work'[s][m] = "raised"
        BY <3>1, <3>4 DEF RunsInv, TypeOK
      <4> QED
        BY <1>a, <1>b, <1>c, <3>1, <4>1, <4>2 DEF Apart
    <3> QED
      BY <2>4, <3>3, <3>4 DEF StartTask, SetWork
  <2>5. ASSUME NEW l \in Lane, EndTask(r, l)
        PROVE  Apart'
    <3>1. /\ UNCHANGED <<lease, workspace, pc, got, left, failed, error, beat>>
          /\ work[r][l] = "running"
          /\ \E s \in {"done", "raised"} : work' = [work EXCEPT ![r][l] = s]
      BY <2>5 DEF EndTask, SetWork, heart
    <3>2. \A s \in Run, m \in Lane : work[s][m] = "raised" => work'[s][m] = "raised"
      BY <3>1 DEF RunsInv, TypeOK
    <3>3. \A s \in Run : Executing(s)' \subseteq Executing(s)
      BY <3>1 DEF Executing, RunsInv, TypeOK
    <3> QED
      BY <1>a, <1>b, <1>c, <3>1, <3>2, <3>3 DEF Apart
  <2>6. CASE Collect(r)
    <3>1. /\ UNCHANGED <<lease, got, left, work, workspace, error, beat>> /\ Goto(r, "join")
          /\ failed' = [failed EXCEPT ![r] =
                           error[r] \/ \E l \in Tasks(r) : work[r][l] = "raised"]
      BY <2>6 DEF Collect, heart
    <3>2. \A s \in Run : failed'[s] => failed[s] \/ \E l \in Lane : work[s][l] = "raised"
      BY <1>a, <3>1 DEF Apart, RunsInv, TypeOK
    <3>3. \A s \in Run : /\ beat'[s].at # "off" => pc'[s] \in {"execute", "join"}
                         /\ pc'[s] = "ended" => left[s] = 0
      BY <1>a, <3>1 DEF Apart, Goto, RunsInv, TypeOK
    <3> QED
      BY <1>1, <3>1, <3>2, <3>3
  <2>7. CASE Join(r)
    <3>1. /\ UNCHANGED <<lease, got, left, work, workspace, error, beat, failed>>
          /\ Goto(r, "release") /\ beat[r].at = "off"
      BY <1>a, <2>7 DEF Join, heart, Undisturbed
    <3> QED
      BY <1>1, <1>a, <3>1 DEF Apart, Goto, RunsInv, TypeOK
  <2>8. CASE LockToRelease(r)
    <3>1. /\ UNCHANGED <<lease, got, left, work, workspace, error, beat, failed>>
          /\ Goto(r, "releasing") /\ pc[r] = "release"
      BY <1>a, <2>8, NothingRefused DEF LockToRelease, heart
    <3> QED
      BY <1>1, <1>a, <3>1 DEF Apart, Goto, RunsInv, TypeOK
  <2>9. CASE Release(r)
    <3> DEFINE l == LastLane(r)
    <3>1. /\ pc[r] = "releasing" /\ l \in Lane /\ left[r] \in 1..Len(got[r])
          /\ lease' = [lease EXCEPT ![l] = NoLease]
          /\ Released(r)
          /\ UNCHANGED <<workspace, got, work, error, beat>>
      <4>1. lease[l].owner \in {NoLease.owner, Owner(r)}
        BY <1>a, <2>9, NothingRefused DEF Release
      <4>2. ~(lease[l] # NoLease /\ lease[l].owner # Owner(r))
        BY <1>b, <2>9, <4>1, LaneSchedulerAssumption DEF Release, NoLease, Lease
      <4> QED
        BY <2>9, <4>2 DEF Release, heart
    <3>2. /\ left'[r] = left[r] - 1 /\ \A s \in Run : s # r => left'[s] = left[s]
          /\ pc'[r] = "ended" => left[r] = 1
          /\ \A s \in Run : s # r => pc'[s] = pc[s]
          /\ pc'[r] \in {"ended", "release"}
          /\ failed' = failed
      BY <3>1 DEF Released, Goto, RunsInv, TypeOK
    <3>3. ASSUME NEW s \in Run, NEW m \in Lane, lease'[m].taker = s
          PROVE  \E i \in 1..left'[s] : got[s][i] = m
      <4>1. m # l /\ lease[m].taker = s
        BY <1>b, <3>1, <3>3, LaneSchedulerAssumption DEF NoLease
      <4>2. PICK i \in 1..left[s] : got[s][i] = m
        BY <1>a, <4>1 DEF Apart
      <4>3. s = r => i # left[s]
        BY <4>1, <4>2 DEF LastLane
      <4> QED
        BY <3>1, <3>2, <4>2, <4>3
    <3>4. ASSUME NEW s \in Run
          PROVE  /\ beat[s].at # "off" => pc'[s] \in {"execute", "join"}
                 /\ pc'[s] = "ended" => left'[s] = 0
      <4>1. /\ beat[s].at # "off" => pc[s] \in {"execute", "join"}
            /\ pc[s] = "ended" => left[s] = 0
        BY <1>a DEF Apart
      <4>2. left[r] = 1 => left'[r] = 0
        BY <3>2
      <4> QED
        BY <3>1, <3>2, <4>1, <4>2
    <3>5. ASSUME NEW s \in Run
          PROVE  /\ ~error'[s]
                 /\ \A m \in Executing(s)' : workspace'[m] = s
                 /\ failed'[s] => ~Compatible(s)' \/ \E m \in Lane : work'[s][m] = "raised"
      BY <1>a, <1>c, <3>1, <3>2 DEF Apart, Executing
    <3> QED
      BY <3>1, <3>3, <3>4, <3>5 DEF Apart
  <2> QED
    BY <1>2, <2>1, <2>2, <2>3, <2>4, <2>5, <2>6, <2>7, <2>8, <2>9 DEF MainStep
<1>3. ASSUME NEW r \in Run, BeatStep(r)
      PROVE  Apart'
  <2>1. UNCHANGED <<pc, got, left, work, failed, workspace>>
    BY <1>3 DEF BeatStep, BeatWakes, LockToRenew, Renew, main
  <2>2. error' = error
    BY <1>3, <1>a, NothingRefused DEF BeatStep, BeatWakes, LockToRenew, Renew
  <2>3. \A s \in Run : beat'[s].at # "off" => beat[s].at # "off"
    BY <1>3 DEF BeatStep, BeatWakes, LockToRenew, Renew, BeatFails, SetBeat, RunsInv, TypeOK
  <2>4. \A l \in Lane : lease'[l].taker = lease[l].taker
    <3>1. CASE lease' = lease
      BY <3>1
    <3>2. CASE /\ lease' = [lease EXCEPT ![BeatLane(r)].expires = clock + Ttl]
               /\ beat[r].at = "renewing" /\ Active(BeatLane(r))
      <4>1. BeatLane(r) \in Lane /\ lease[BeatLane(r)] \in Lease
        BY <3>2, LanesAtHand DEF Active, NoLease, RunsInv, TypeOK
      <4>2. lease'[BeatLane(r)].taker = lease[BeatLane(r)].taker
        BY <1>b, <3>2, <4>1 DEF Lease
      <4> QED
        BY <1>b, <3>2, <4>2
    <3> QED
      BY <1>3, <3>1, <3>2 DEF BeatStep, BeatWakes, LockToRenew, Renew
  <2> QED
    BY <1>a, <1>b, <1>c, <2>1, <2>2, <2>3, <2>4 DEF Apart, Executing
<1>4. ASSUME NEW r \in Run, Begin(r)
      PROVE  Apart'
  <2>1. beat[r].at = "off"
    BY <1>4 DEF Begin, RunsInv, HeartBeats
  <2> QED
    BY <1>1, <1>4, <1>a, <2>1 DEF Begin, Goto, Apart, RunsInv, TypeOK, heart
<1>5. CASE \E r \in Run : Crash(r)
  <2>1. crashes' = crashes + 1
    BY <1>5 DEF Crash
  <2> QED
    BY <1>a, <2>1 DEF Undisturbed
<1>6. CASE Tick \/ UNCHANGED vars
  BY <1>1, <1>6, <1>a DEF Tick, vars, main, heart, Apart
<1> QED
  BY <1>2, <1>3, <1>4, <1>5, <1>6 DEF Next

-----------------------------------------------------------------------------
(* The theorems.                                                           *)

LeaseInv == RunsInv /\ Held /\ Picked /\ LockMeansOperation /\ Apart

\* The whole invariant holds in every reachable state.
LEMMA LeasesHold == Spec => [](IInv /\ LeaseInv)
<1>1. Init => LeaseInv
  BY RunsStart, HeldStart, LockStart, ApartStart DEF LeaseInv
<1>2. IInv /\ LeaseInv /\ [Next]_vars => LeaseInv'
  BY NextRuns, HeldKept, PickedKept, LockKept, ApartKept DEF LeaseInv
<1> QED
  BY InitIInv, NextIInv, <1>1, <1>2, PTL DEF Spec

\* Runs that do not meet keep to their workspaces, give every lease back and
\* fail for reasons of their own; and a .lock file exists only during an
\* operation until a run dies in one.
THEOREM LanesKept == Spec => []LaneInv
<1>1. LeaseInv => LaneInv
  <2> SUFFICES ASSUME LeaseInv
               PROVE  LaneInv
    OBVIOUS
  <2>1. FailsForAReason
    BY DEF LeaseInv, Apart, FailsForAReason
  <2>2. LanesKeptApart
    BY DEF LeaseInv, Apart, LanesKeptApart
  <2> QED
    BY <2>1, <2>2 DEF LeaseInv, RunsInv, LaneInv
<1> QED
  BY LeasesHold, <1>1, PTL

\* A run executes on unexpired leases of its own on every lane whose users'
\* heartbeats have not failed, however the lanes are shared and whatever owner
\* names the runs go by.
THEOREM LanesLeased == Spec => []LeasedWhileBeating
<1>1. LeaseInv => LeasedWhileBeating
  <2> SUFFICES ASSUME LeaseInv, NEW r \in Run, Executing(r) # {}, NEW l \in Tasks(r), BeatsWork(l)
               PROVE  lease[l].taker = r /\ Active(l)
    BY DEF LeasedWhileBeating
  <2>1. pc[r] = "execute" /\ Len(got[r]) = Len(LanesOf(r)) /\ left[r] = Len(got[r])
    BY DEF LeaseInv, RunsInv, HeartBeats, ManifestOrder
  <2>2. PICK i \in 1..Len(LanesOf(r)) : l = LanesOf(r)[i]
    BY LanesAtHand DEF LeaseInv, Tasks, LanesIn
  <2>3. i \in 1..left[r] /\ got[r][i] = l
    BY <2>1, <2>2 DEF LeaseInv, RunsInv, ManifestOrder
  <2> QED
    BY <2>1, <2>3 DEF LeaseInv, Held, Holding
<1> QED
  BY LeasesHold, <1>1, PTL
=============================================================================
