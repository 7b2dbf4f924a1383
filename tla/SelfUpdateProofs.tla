--------------------------- MODULE SelfUpdateProofs ---------------------------
(***************************************************************************)
(* For any releases, services, faults and deaths: both pointers name       *)
(* complete releases (PointersKept), and every cutover to a release but    *)
(* the first was paid for by a death or an error (CutoversCost).  If no    *)
(* rollback meets an update, the tasks are what the outcome says           *)
(* (TasksFollowOutcome), and at hand is a release that was verified, or    *)
(* one that a death or a failed restoration of the pointer left active     *)
(* (FallbackKept).                                                         *)
(***************************************************************************)
EXTENDS SelfUpdate, TLAPS

\* From the active release it found to its entry in the ledger.
Updating == {"stage", "staging", "save", "stop", "swap", "start", "verify",
             "undoStop", "undoSwap", "undoStart", "undoVerify", "report", "ledger"}

\* From the record of the previous release on, the new one is complete.
CuttingOver == Updating \ {"stage", "staging"}

Undoing == {"undoSwap", "undoStart", "undoVerify"}

\* A release is marked when it is complete, and what a supervisor has in hand
\* is marked, but for the release it is staging.
Complete ==
    /\ marked \cap partial = {}
    /\ active \in marked
    /\ previous \in marked \cup {NoRelease}
    /\ pc[U] # "idle" => to[U] \in Release
    /\ pc[U] \in Updating => from[U] \in marked
    /\ pc[U] = "staging" => to[U] \notin marked
    /\ pc[U] \in CuttingOver => to[U] \in marked
    /\ pc[O] # "idle" => {from[O], to[O]} \subseteq marked

\* An update that is reported has an outcome.
OutcomeKnown ==
    /\ pc[U] \in Undoing => outcome \in {"rolled_back", "rollback_failed"}
    /\ pc[U] \in {"report", "ledger"} => outcome # "started"

\* A task that got as far as its release knows it.
Loaded == \A s \in Service : task[s].at \in {"probing", "running"} => task[s].release \in Release

WholeInv == TypeOK /\ Complete /\ OutcomeKnown /\ Loaded

Paid == budget["crashes"] + budget["faults"]

\* The updater has swapped the pointer to r, or tried to, and r is not in the
\* ledger yet.
Owed(r) ==
    /\ pc[U] \in {"start", "verify", "undoStop", "undoSwap", "undoStart", "undoVerify",
                  "report", "ledger"}
    /\ to[U] = r

\* A release the updater works on is not in the ledger; its cutovers were paid
\* for, but for one that is in the ledger, or is about to be.
CutoverInv ==
    /\ pc[U] \in Updating => ledger[to[U]] = "none"
    /\ \A r \in Release :
          /\ cutovers[r] <= Paid + 1
          /\ cutovers[r] > Paid => ledger[r] # "none" \/ Owed(r)

\* No rollback meets an update.
Alone == pc[U] = "idle" \/ pc[O] = "idle"

Witnessed(s) == s \in fresh[U] /\ witness[s].state = "running"

\* A fresh running witness is of the release of the task that wrote it, which
\* has not been started again since ...
WitnessOfTask ==
    \A s \in Service : Witnessed(s) =>
        task[s].at \in {"running", "stopped"} /\ witness[s].release = task[s].release

\* ... or has been, and loads the active release.
WitnessOrLoaded ==
    \A s \in Service : Witnessed(s) =>
        \/ task[s].at \in {"launched", "running", "stopped"} /\ witness[s].release = task[s].release
        \/ task[s].at = "probing" /\ task[s].release = active

EnabledFor(r) == \A s \in Service : task[s].enabled <=> s \in Supported(r)

\* Release r is active, its tasks have been started, and no others are enabled.
StartedFor(r) == active = r /\ EnabledFor(r) /\ WitnessOrLoaded

\* Release r has been verified.
InForce(r) == active = r /\ EnabledFor(r) /\ \A s \in Supported(r) : task[s].release = r

\* What the tasks have been told, as long as nothing of the rollback failed.
OutcomeInv ==
    /\ Alone
    /\ pc[U] \in {"stop", "swap", "start"} => WitnessOfTask
    /\ pc[U] = "start" => active = to[U]
    /\ pc[U] = "verify" => StartedFor(to[U])
    /\ outcome = "rolled_back" =>
          /\ pc[U] \in {"undoSwap", "undoStart"} => WitnessOfTask
          /\ pc[U] = "undoStart" => active = from[U]
          /\ pc[U] = "undoVerify" => StartedFor(from[U])
          /\ pc[U] = "report" => InForce(from[U])
    /\ pc[U] = "report" /\ outcome = "success" => InForce(to[U])

Known == proven \cup stranded

\* Only an update that may still be undone has an unknown release active, and
\* then the one it came from is known and is the previous one.
ProvenInv ==
    /\ previous \in Known \cup {NoRelease}
    /\ active \notin Known => pc[U] \in {"start", "verify", "undoStop", "undoSwap"}
    /\ pc[U] \in Updating => from[U] \in Known
    /\ pc[U] \in {"stop", "swap", "start", "verify", "undoStop", "undoSwap"} => previous = from[U]
    /\ pc[O] # "idle" => {from[O], to[O]} \subseteq Known

-----------------------------------------------------------------------------
\* What a command makes of the tasks: it starts, stops or enables some, and
\* none has another release for it.
Handled(t) ==
    /\ t \in [Service -> Task]
    /\ \A s \in Service :
          /\ t[s].release = task[s].release
          /\ t[s].at \in {"probing", "running"} => t[s].at = task[s].at

\* What a release supports are services.
LEMMA SupportedServices == \A r : Supported(r) \subseteq Service
  BY SelfUpdateAssumption DEF Supported

\* Stopping tasks is handling them,
LEMMA StopHandles ==
    ASSUME task \in [Service -> Task], NEW S
    PROVE  Handled(Stopped(S))
  BY DEF Handled, Stopped, Task

\* starting some and disabling others is,
LEMMA StartHandles ==
    ASSUME task \in [Service -> Task], NEW S
    PROVE  Handled(Started(S)) /\ Handled(StartedAndDisabled(S))
  BY DEF Handled, Started, StartedAndDisabled, Task, IsRunning

\* and so is a command that fails half way.
LEMMA PartHandles ==
    ASSUME task \in [Service -> Task], NEW S, NEW step, NEW t \in PartlyDone(step, S)
    PROVE  Handled(t)
<1>1. t = task => Handled(t)
  BY DEF Handled
<1> QED
  BY <1>1, StopHandles, StartHandles DEF PartlyDone

\* Handled tasks know their release.
LEMMA LoadedStays ==
    ASSUME Loaded, Handled(task')
    PROVE  Loaded'
  BY DEF Loaded, Handled

\* A look goes on, and proves the release, only when it finds it healthy.
LEMMA LookSteps ==
    ASSUME NEW p \in Proc, NEW r, NEW next, Look(p, r, next), stable \in [Proc -> BOOLEAN]
    PROVE  /\ stable' \in [Proc -> BOOLEAN]
           /\ \/ pc' = pc /\ proven' = proven
              \/ Healthy(p, r) /\ pc' = [pc EXCEPT ![p] = next] /\ proven' = proven \cup {r}
<1>1. CASE Healthy(p, r)
  <2>1. stable' = [stable EXCEPT ![p] = TRUE]
    BY <1>1 DEF Look
  <2>2. stable' \in [Proc -> BOOLEAN]
    BY <2>1, Zenon
  <2> QED
    BY <1>1, <2>2 DEF Look, Goto
<1>2. CASE ~Healthy(p, r)
  <2>1. stable' = [stable EXCEPT ![p] = FALSE] /\ UNCHANGED <<pc, proven>>
    BY <1>2 DEF Look
  <2>2. stable' \in [Proc -> BOOLEAN]
    BY <2>1, Zenon
  <2> QED
    BY <2>1, <2>2
<1> QED
  BY <1>1, <1>2

\* A step of the rollback that raises is followed by the next one.
LEMMA UndoGoesOn ==
    /\ DOMAIN AfterUndo = {"undoStop", "undoSwap", "undoStart"}
    /\ AfterUndo["undoStop"] = "undoSwap"
    /\ AfterUndo["undoSwap"] = "undoStart"
    /\ AfterUndo["undoStart"] = "undoVerify"
  BY DEF AfterUndo

-----------------------------------------------------------------------------
(* Both pointers are complete.                                             *)

\* At the start one release is complete, and active.
LEMMA WholeStarts == Init => WholeInv
  BY SelfUpdateAssumption
     DEF Init, WholeInv, TypeOK, Complete, OutcomeKnown, Loaded, Task, Witness, Steps, Proc, U, O,
         Updating, CuttingOver, Undoing, Supported

\* The updater records and activates complete releases only.
LEMMA UpdaterKeepsWhole ==
    ASSUME WholeInv, UpdaterStep
    PROVE  WholeInv'
<1> USE SelfUpdateAssumption, SupportedServices
    DEF WholeInv, TypeOK, Complete, OutcomeKnown, Updating, CuttingOver, Undoing, Proc, Steps,
        U, O, Goto, Quit, NotBefore, files, pointers, versions, manifest, services, hands, history
<1>1. CASE Poll
  BY <1>1 DEF Poll, Loaded
<1>2. CASE Begin
  BY <1>2 DEF Begin, Loaded
<1>3. CASE Reuse
  BY <1>3 DEF Reuse, Loaded
<1>4. CASE ReuseFails
  BY <1>4 DEF ReuseFails, Abandon, Loaded
<1>5. CASE BeginStaging
  BY <1>5 DEF BeginStaging, Loaded
<1>6. CASE Staged
  BY <1>6 DEF Staged, Loaded
<1>7. CASE StagingFails
  BY <1>7 DEF StagingFails, Loaded
<1>8. CASE SavePrevious
  BY <1>8 DEF SavePrevious, Loaded
<1>9. CASE VerifyTimesOut
  BY <1>9 DEF VerifyTimesOut, Loaded
<1>23. CASE SaveFails
  BY <1>23 DEF SaveFails, Loaded, Spend
<1>24. CASE ReportRaises
  BY <1>24 DEF ReportRaises, Loaded, Spend
<1>10. CASE UndoSwap
  BY <1>10 DEF UndoSwap, Loaded
<1>11. CASE UndoTimesOut
  BY <1>11 DEF UndoTimesOut, Loaded
<1>12. CASE Report
  BY <1>12 DEF Report, Loaded
<1>13. CASE SaveLedger
  BY <1>13 DEF SaveLedger, Loaded
<1>14. CASE ExitAgain
  BY <1>14 DEF ExitAgain, Loaded
<1>15. CASE ExitSeen
  BY <1>15 DEF ExitSeen, Loaded
<1>16. CASE Verify
  <2>1. stable' \in [Proc -> BOOLEAN]
    BY <1>16, LookSteps DEF Verify
  <2>2. /\ pc' \in {pc, [pc EXCEPT ![U] = "report"]}
        /\ proven' \subseteq Release
    BY <1>16, LookSteps DEF Verify
  <2> QED
    BY <1>16, <2>1, <2>2 DEF Verify, Loaded
<1>17. CASE UndoVerify
  <2>1. stable' \in [Proc -> BOOLEAN]
    BY <1>17, LookSteps DEF UndoVerify
  <2>2. /\ pc' \in {pc, [pc EXCEPT ![U] = "report"]}
        /\ proven' \subseteq Release
    BY <1>17, LookSteps DEF UndoVerify
  <2> QED
    BY <1>17, <2>1, <2>2 DEF UndoVerify, Loaded
<1>18. CASE UndoStop
  <2>1. Handled(task')
    BY <1>18, StopHandles DEF UndoStop
  <2>2. task' \in [Service -> Task] /\ Loaded'
    BY <2>1, LoadedStays DEF Handled
  <2> QED
    BY <1>18, <2>2 DEF UndoStop
<1>19. CASE UndoStart
  <2>1. Handled(task')
    BY <1>19, StartHandles DEF UndoStart
  <2>2. task' \in [Service -> Task] /\ Loaded'
    BY <2>1, LoadedStays DEF Handled
  <2> QED
    BY <1>19, <2>2 DEF UndoStart
<1>20. CASE UndoRaises
  <2>1. Handled(task')
    BY <1>20, PartHandles DEF UndoRaises
  <2>2. task' \in [Service -> Task] /\ Loaded'
    BY <2>1, LoadedStays DEF Handled
  <2> QED
    <3>1. pc[U] \in {"undoStop", "undoSwap", "undoStart"} /\ AfterUndo[pc[U]] \in Undoing
      BY <1>20, UndoGoesOn DEF UndoRaises
    <3>2. pc' = [pc EXCEPT ![U] = AfterUndo[pc[U]]] /\ outcome' = "rollback_failed"
      BY <1>20 DEF UndoRaises
    <3>3. fresh' \in [Proc -> SUBSET Service] /\ stable' \in [Proc -> BOOLEAN]
      <4>1. CASE pc[U] = "undoStop"
        <5>1. NotBefore(U)
          BY <1>20, <4>1 DEF UndoRaises
        <5>2. fresh' \in [Proc -> SUBSET Service]
          BY <5>1
        <5>3. stable' = [stable EXCEPT ![U] = FALSE] /\ stable \in [Proc -> BOOLEAN]
          BY <5>1
        <5> QED
          BY <5>2, <5>3, Zenon
      <4>2. CASE pc[U] # "undoStop"
        BY <1>20, <4>2 DEF UndoRaises
      <4> QED
        BY <4>1, <4>2
    <3>4. budget' \in [{"approvals", "rollbacks", "crashes", "faults"} -> Nat]
      BY <1>20 DEF UndoRaises, Spend
    <3>5. UNCHANGED <<files, manifest, witness, from, to, proven, undone, cutovers>>
      BY <1>20 DEF UndoRaises
    <3>6. stranded' \in SUBSET Release
      BY <1>20 DEF UndoRaises, Strand
    <3> QED
      BY <2>2, <3>1, <3>2, <3>3, <3>4, <3>5, <3>6
<1>21. CASE CutoverRaises
  <2>1. Handled(task')
    BY <1>21, PartHandles DEF CutoverRaises
  <2>2. task' \in [Service -> Task] /\ Loaded'
    BY <2>1, LoadedStays DEF Handled
  <2> QED
    BY <1>21, <2>2 DEF CutoverRaises, Spend, AfterUndo
<1>22. ASSUME Cutover(U)
      PROVE  WholeInv'
  <2>1. CASE StopTasks(U)
    <3>1. task' \in [Service -> Task] /\ Loaded'
      BY <2>1, StopHandles, LoadedStays DEF StopTasks, Handled
    <3> QED
      BY <2>1, <3>1 DEF StopTasks
  <2>2. CASE Swap(U)
    BY <2>2 DEF Swap, Loaded
  <2>3. CASE StartTasks(U)
    <3>1. task' \in [Service -> Task] /\ Loaded'
      BY <2>3, StartHandles, LoadedStays DEF StartTasks, Handled
    <3> QED
      BY <2>3, <3>1 DEF StartTasks
  <2> QED
    BY <1>22, <2>1, <2>2, <2>3 DEF Cutover
<1> QED
  BY <1>1, <1>2, <1>3, <1>4, <1>5, <1>6, <1>7, <1>8, <1>9, <1>10, <1>11, <1>12, <1>13, <1>14,
     <1>15, <1>16, <1>17, <1>18, <1>19, <1>20, <1>21, <1>22, <1>23, <1>24 DEF UpdaterStep

\* The operator's rollback turns to what was there.
LEMMA OperatorKeepsWhole ==
    ASSUME WholeInv, OperatorStep
    PROVE  WholeInv'
<1> USE SelfUpdateAssumption, SupportedServices
    DEF WholeInv, TypeOK, Complete, OutcomeKnown, Updating, CuttingOver, Undoing, Proc, Steps,
        U, O, Goto, Quit, NotBefore, files, pointers, versions, manifest, services, hands, history
<1>1. CASE Rollback
  BY <1>1 DEF Rollback, Loaded, Spend
<1>2. CASE StopTasks(O)
  <2>1. task' \in [Service -> Task] /\ Loaded'
    BY <1>2, StopHandles, LoadedStays DEF StopTasks, Handled
  <2> QED
    BY <1>2, <2>1 DEF StopTasks
<1>3. CASE Swap(O)
  BY <1>3 DEF Swap, Loaded
<1>4. CASE StartTasks(O)
  <2>1. task' \in [Service -> Task] /\ Loaded'
    BY <1>4, StartHandles, LoadedStays DEF StartTasks, Handled
  <2> QED
    BY <1>4, <2>1 DEF StartTasks
<1>5. CASE RollbackVerify
  <2>1. stable' \in [Proc -> BOOLEAN]
    BY <1>5, LookSteps DEF RollbackVerify
  <2>2. pc' \in {pc, [pc EXCEPT ![O] = "record"]} /\ proven' \subseteq Release
    BY <1>5, LookSteps DEF RollbackVerify
  <2> QED
    BY <1>5, <2>1, <2>2 DEF RollbackVerify, Loaded
<1>6. CASE RollbackRaises
  <2>1. Handled(task')
    BY <1>6, PartHandles DEF RollbackRaises, Handled
  <2>2. task' \in [Service -> Task] /\ Loaded'
    BY <2>1, LoadedStays DEF Handled
  <2> QED
    BY <1>6, <2>2 DEF RollbackRaises, Spend
<1>7. CASE RollbackRecords
  BY <1>7 DEF RollbackRecords, Loaded
<1> QED
  BY <1>1, <1>2, <1>3, <1>4, <1>5, <1>6, <1>7 DEF OperatorStep, Cutover

\* Approvals, services and deaths touch no pointer.
LEMMA OthersKeepWhole ==
    ASSUME WholeInv,
           \/ \E r \in Release : Approve(r)
           \/ \E s \in Service : ServiceStep(s)
           \/ \E p \in Proc : Crash(p)
           \/ Reboot
           \/ UNCHANGED vars
    PROVE  WholeInv'
<1> USE SelfUpdateAssumption, SupportedServices
    DEF WholeInv, TypeOK, Complete, OutcomeKnown, Updating, CuttingOver, Undoing, Proc, Steps,
        U, O, Goto, Quit, NotBefore, files, pointers, versions, manifest, services, hands, history
<1>1. ASSUME NEW r \in Release, Approve(r)
      PROVE  WholeInv'
  BY <1>1 DEF Approve, Loaded, Spend
<1>2. ASSUME NEW s \in Service, ServiceStep(s)
      PROVE  WholeInv'
  <2>1. CASE Load(s)
    <3>1. task' \in [Service -> Task] /\ Loaded'
      BY <2>1 DEF Load, Task, Loaded
    <3> QED
      BY <2>1, <3>1 DEF Load
  <2>2. CASE ProbePasses(s)
    BY <2>2 DEF ProbePasses, SetWitness, Task, Witness, Loaded
  <2>3. CASE ServiceFails(s)
    <3>1. task' \in [Service -> Task] /\ Loaded'
      BY <2>3 DEF ServiceFails, Task, Loaded
    <3>2. witness' \in [Service -> Witness]
      BY <2>3 DEF ServiceFails, SetWitness, Witness, Loaded
    <3> QED
      BY <2>3, <3>1, <3>2 DEF ServiceFails
  <2>4. CASE Restart(s)
    BY <2>4 DEF Restart, Task, Loaded
  <2> QED
    BY <1>2, <2>1, <2>2, <2>3, <2>4 DEF ServiceStep
<1>3. ASSUME NEW p \in Proc, Crash(p)
      PROVE  WholeInv'
  BY <1>3 DEF Crash, Spend, Strand, Loaded
<1>4. CASE Reboot
  <2>1. \A s \in Service :
           /\ task'[s] \in Task
           /\ task'[s].at \in {"launched", "stopped"}
    <3>1. ASSUME NEW s \in Service, NEW at \in {"launched", "stopped"},
                 task'[s] = [task[s] EXCEPT !.at = at]
          PROVE  task'[s] \in Task /\ task'[s].at \in {"launched", "stopped"}
      BY <3>1 DEF Task
    <3>2. ASSUME NEW s \in Service
          PROVE  \E at \in {"launched", "stopped"} : task'[s] = [task[s] EXCEPT !.at = at]
      BY <1>4, <3>2 DEF Reboot
    <3> QED
      BY <3>1, <3>2
  <2>2. task' \in [Service -> Task] /\ Loaded'
    BY <1>4, <2>1 DEF Reboot, Loaded
  <2> QED
    BY <1>4, <2>2 DEF Reboot, Spend, Strand
<1>5. CASE UNCHANGED vars
  BY <1>5 DEF vars, Loaded
<1> QED
  BY <1>1, <1>2, <1>3, <1>4, <1>5

\* Every step keeps what is whole.
LEMMA WholeKept == WholeInv /\ [Next]_vars => WholeInv'
  BY UpdaterKeepsWhole, OperatorKeepsWhole, OthersKeepWhole DEF Next

\* So it holds in every reachable state.
LEMMA WholeHolds == Spec => []WholeInv
  BY WholeStarts, WholeKept, PTL DEF Spec

\* Both pointers name complete releases, whoever dies, whatever raises and
\* whether or not a rollback meets an update.
THEOREM PointersKept == Spec => []SelfUpdateInv
<1>1. WholeInv => SelfUpdateInv
  BY SelfUpdateAssumption DEF WholeInv, Complete, SelfUpdateInv, TypeOK, PointersMarked
<1> QED
  BY <1>1, WholeHolds, PTL

-----------------------------------------------------------------------------
(* A cutover is not repeated without a death or an error.                  *)

\* Nothing has been cut over to at the start.
LEMMA CutoverStarts == Init => CutoverInv
  BY DEF Init, CutoverInv, Owed, Paid, Updating, Proc, U

\* What was paid is a number,
LEMMA PaidNat == ASSUME TypeOK PROVE Paid \in Nat
  BY DEF TypeOK, Paid

\* and a death or an error adds to it.
LEMMA SpendPays ==
    ASSUME TypeOK, NEW kind \in {"crashes", "faults"}, Spend(kind)
    PROVE  Paid' = Paid + 1
  BY DEF TypeOK, Spend, Paid

\* Every step leaves the cutovers paid for.
LEMMA CutoverKept ==
    ASSUME WholeInv, CutoverInv, [Next]_vars
    PROVE  CutoverInv'
<1> Paid \in Nat /\ \A r \in Release : cutovers[r] \in Nat
  BY PaidNat DEF WholeInv, TypeOK
\* The updater goes on, or ends before the swap of the pointer.
<1>1. ASSUME UNCHANGED <<ledger, cutovers, Paid>>,
             \/ pc'[U] = pc[U] /\ to'[U] = to[U]
             \/ pc'[U] \in Updating /\ pc[U] \in Updating /\ to'[U] = to[U]
                /\ \A r \in Release : Owed(r) => Owed(r)'
             \/ pc'[U] \notin Updating /\ \A r \in Release : ~Owed(r)
      PROVE  CutoverInv'
  BY <1>1 DEF CutoverInv, Owed
\* It pays.
<1>2. ASSUME UNCHANGED <<ledger, cutovers>>, Paid' = Paid + 1,
             pc'[U] \in Updating => pc[U] \in Updating /\ to'[U] = to[U]
      PROVE  CutoverInv'
  BY <1>2 DEF CutoverInv
<1> USE DEF WholeInv, TypeOK, Proc, U, O, Goto, files, pointers, versions, hands, history
<1>3. ASSUME UpdaterStep
      PROVE  CutoverInv'
  <2>1. CASE \/ Reuse \/ BeginStaging \/ Staged \/ SavePrevious \/ StopTasks(U)
             \/ StartTasks(U) \/ VerifyTimesOut \/ UndoStop \/ UndoSwap \/ UndoStart
             \/ UndoTimesOut \/ Report
    <3>1. UNCHANGED <<ledger, cutovers, Paid>>
      BY <2>1
         DEF Reuse, BeginStaging, Staged, SavePrevious, StopTasks, StartTasks, VerifyTimesOut,
             UndoStop, UndoSwap, UndoStart, UndoTimesOut, Report, Paid
    <3>2. /\ pc'[U] \in Updating /\ pc[U] \in Updating /\ to'[U] = to[U]
          /\ \A r \in Release : Owed(r) => Owed(r)'
      BY <2>1
         DEF Reuse, BeginStaging, Staged, SavePrevious, StopTasks, StartTasks, VerifyTimesOut,
             UndoStop, UndoSwap, UndoStart, UndoTimesOut, Report, Updating, Owed
    <3> QED
      BY <1>1, <3>1, <3>2
  <2>2. CASE Poll \/ ReuseFails \/ StagingFails \/ ExitAgain \/ ExitSeen
    <3>1. UNCHANGED <<ledger, cutovers, Paid>>
      BY <2>2 DEF Poll, ReuseFails, Abandon, StagingFails, ExitAgain, ExitSeen, Paid
    <3>2. pc'[U] \notin Updating /\ \A r \in Release : ~Owed(r)
      BY <2>2
         DEF Poll, ReuseFails, Abandon, StagingFails, ExitAgain, ExitSeen, Quit, Updating, Owed
    <3> QED
      BY <1>1, <3>1, <3>2
  <2>3. CASE Begin
    BY <2>3 DEF Begin, CutoverInv, Owed, Paid, Updating
  <2>4. CASE Verify \/ UndoVerify
    <3>1. UNCHANGED <<ledger, cutovers, Paid>>
      BY <2>4 DEF Verify, UndoVerify, Paid
    <3>2. /\ pc[U] \in {"verify", "undoVerify"} /\ to'[U] = to[U]
          /\ pc'[U] \in {pc[U], "report"}
      BY <2>4, LookSteps DEF Verify, UndoVerify
    <3> QED
      BY <1>1, <3>1, <3>2 DEF Updating, Owed
  <2>5. CASE Swap(U)
    <3>1. /\ pc[U] = "swap" /\ pc'[U] = "start" /\ to' = to /\ to[U] \in Release
          /\ cutovers' = [cutovers EXCEPT ![to[U]] = @ + 1]
          /\ UNCHANGED <<ledger, Paid>>
      BY <2>5 DEF Swap, Paid, Complete
    <3>2. cutovers[to[U]] <= Paid
      BY <3>1 DEF CutoverInv, Owed, Updating
    <3>3. \A r \in Release : Owed(r)' <=> r = to[U]
      BY <3>1 DEF Owed
    <3> QED
      BY <3>1, <3>2, <3>3 DEF CutoverInv, Owed, Updating
  <2>6. CASE CutoverRaises \/ UndoRaises
    <3>1. UNCHANGED <<ledger, cutovers, to>> /\ Paid' = Paid + 1
      BY <2>6, SpendPays DEF CutoverRaises, UndoRaises
    <3>2. pc[U] \in Updating
      BY <2>6, UndoGoesOn DEF CutoverRaises, UndoRaises, Updating
    <3> QED
      BY <1>2, <3>1, <3>2
  <2>7. CASE SaveFails \/ ReportRaises
    <3>1. UNCHANGED <<ledger, cutovers>> /\ Paid' = Paid + 1
      BY <2>7, SpendPays DEF SaveFails, ReportRaises
    <3>2. pc'[U] \notin Updating
      BY <2>7 DEF SaveFails, ReportRaises, Quit, Updating
    <3> QED
      BY <1>2, <3>1, <3>2
  <2>8. CASE SaveLedger
    <3>1. /\ pc[U] = "ledger" /\ pc'[U] = "exit" /\ to[U] \in Release
          /\ ledger' = [ledger EXCEPT ![to[U]] = outcome] /\ outcome # "none"
          /\ UNCHANGED <<cutovers, Paid>>
      BY <2>8 DEF SaveLedger, Paid, Complete
    <3>2. \A r \in Release : ledger[r] # "none" \/ Owed(r) => ledger'[r] # "none"
      BY <3>1 DEF Owed
    <3> QED
      BY <3>1, <3>2 DEF CutoverInv, Updating
  <2> QED
    BY <1>3, <2>1, <2>2, <2>3, <2>4, <2>5, <2>6, <2>7, <2>8 DEF UpdaterStep, Cutover
<1>4. ASSUME OperatorStep
      PROVE  CutoverInv'
  <2>1. UNCHANGED <<ledger, cutovers>>
    BY <1>4
       DEF OperatorStep, Rollback, Cutover, StopTasks, Swap, StartTasks, RollbackVerify,
           RollbackRaises, RollbackRecords
  <2>2. pc'[U] = pc[U] /\ to'[U] = to[U]
    BY <1>4, LookSteps
       DEF OperatorStep, Rollback, Cutover, StopTasks, Swap, StartTasks, RollbackVerify,
           RollbackRaises, RollbackRecords, Quit
  <2>3. CASE Paid' = Paid
    BY <1>1, <2>1, <2>2, <2>3
  <2>4. CASE Paid' = Paid + 1
    BY <1>2, <2>1, <2>2, <2>4
  <2>5. Paid' \in {Paid, Paid + 1}
    <3>1. CASE Rollback
      BY <3>1 DEF Rollback, Spend, Paid
    <3>2. CASE RollbackRaises
      BY <3>2, SpendPays DEF RollbackRaises, Paid
    <3>3. CASE Cutover(O) \/ RollbackVerify \/ RollbackRecords
      BY <3>3 DEF Cutover, StopTasks, Swap, StartTasks, RollbackVerify, RollbackRecords, Paid
    <3> QED
      BY <1>4, <3>1, <3>2, <3>3 DEF OperatorStep
  <2> QED
    BY <2>3, <2>4, <2>5
<1>5. ASSUME NEW s \in Service, ServiceStep(s)
      PROVE  CutoverInv'
  BY <1>1, <1>5 DEF ServiceStep, Load, ProbePasses, ServiceFails, Restart, Paid
<1>6. ASSUME NEW r \in Release, Approve(r)
      PROVE  CutoverInv'
  <2>1. UNCHANGED <<ledger, cutovers, pc, to, Paid>>
    BY <1>6 DEF Approve, Spend, Paid
  <2> QED
    BY <1>1, <2>1
<1>7. ASSUME NEW p \in Proc, Crash(p)
      PROVE  CutoverInv'
  <2>1. UNCHANGED <<ledger, cutovers>> /\ Paid' = Paid + 1
    BY <1>7, SpendPays DEF Crash
  <2>2. \/ pc'[U] = "idle"
        \/ pc'[U] = pc[U] /\ to'[U] = to[U]
    BY <1>7 DEF Crash, Quit
  <2> QED
    BY <1>2, <2>1, <2>2 DEF Updating
<1>8. CASE Reboot
  <2>1. UNCHANGED <<ledger, cutovers>> /\ Paid' = Paid + 1 /\ pc'[U] = "idle"
    BY <1>8, SpendPays DEF Reboot
  <2> QED
    BY <1>2, <2>1 DEF Updating
<1>9. CASE UNCHANGED vars
  BY <1>1, <1>9 DEF vars, Paid
<1> QED
  BY <1>3, <1>4, <1>5, <1>6, <1>7, <1>8, <1>9 DEF Next

\* The updater repeats a cutover only after a death or an error, whatever dies
\* and raises where, and whether or not a rollback meets an update.
THEOREM CutoversCost == Spec => []RepeatedCutoversCost
<1>1. WholeInv /\ CutoverInv /\ [Next]_vars => CutoverInv'
  BY CutoverKept
<1>2. WholeInv /\ CutoverInv => RepeatedCutoversCost
  BY DEF WholeInv, TypeOK, CutoverInv, Paid, RepeatedCutoversCost
<1> QED
  BY CutoverStarts, WholeHolds, <1>1, <1>2, PTL DEF Spec

-----------------------------------------------------------------------------
(* The tasks are what the outcome says.                                    *)

\* At the start the tasks run the active release.
LEMMA OutcomeStarts == Init => OutcomeInv
  BY DEF Init, OutcomeInv, Alone, Proc, U, O

\* A service keeps what the updater knows of its task.
LEMMA ServiceKeepsTasks ==
    ASSUME WholeInv, NEW s \in Service, ServiceStep(s), pc[U] # "idle"
    PROVE  /\ WitnessOfTask => WitnessOfTask'
           /\ WitnessOrLoaded => WitnessOrLoaded'
           /\ \A r \in Release : EnabledFor(r) => EnabledFor(r)'
           /\ \A r \in Release : InForce(r) => InForce(r)'
<1> USE SupportedServices
    DEF WholeInv, TypeOK, Proc, U, Witnessed, WitnessOfTask, WitnessOrLoaded, EnabledFor, InForce
<1>1. CASE Load(s)
  <2>1. /\ task' = [task EXCEPT ![s] = [at |-> "probing", release |-> active,
                                        enabled |-> task[s].enabled]]
        /\ task[s].at = "launched"
        /\ UNCHANGED <<active, witness, fresh>>
    BY <1>1 DEF Load, files, pointers, hands
  <2> QED
    BY <2>1
<1>2. CASE ProbePasses(s)
  <2>1. /\ task[s].at = "probing" /\ task[s] \in Task
        /\ task' = [task EXCEPT ![s].at = "running"]
        /\ witness' = [witness EXCEPT ![s] = [state |-> "running", release |-> task[s].release]]
        /\ fresh'[U] = fresh[U] \cup {s}
        /\ active' = active
    BY <1>2 DEF ProbePasses, SetWitness, files, pointers
  <2>2. /\ task'[s].at = "running" /\ task'[s].release = task[s].release
        /\ task'[s].enabled = task[s].enabled
        /\ witness'[s].release = task[s].release
        /\ \A t \in Service \ {s} : task'[t] = task[t] /\ witness'[t] = witness[t]
    BY <2>1 DEF Task
  <2> QED
    BY <2>1, <2>2
<1>3. CASE ServiceFails(s)
  <2>1. /\ task'[s].at = "failed" /\ task'[s].release = task[s].release
        /\ task'[s].enabled = task[s].enabled
        /\ witness'[s].state \in {"failed", "stopped"}
        /\ \A t \in Service \ {s} : task'[t] = task[t] /\ witness'[t] = witness[t]
    BY <1>3 DEF ServiceFails, SetWitness, Task
  <2>2. UNCHANGED <<active, fresh>>
    BY <1>3 DEF ServiceFails, files, pointers, hands
  <2> QED
    BY <2>1, <2>2
<1>4. CASE Restart(s)
  <2>1. /\ task[s].at = "failed"
        /\ task'[s].release = task[s].release /\ task'[s].enabled = task[s].enabled
        /\ \A t \in Service \ {s} : task'[t] = task[t]
    BY <1>4 DEF Restart, Task
  <2>2. UNCHANGED <<active, witness, fresh>>
    BY <1>4 DEF Restart, files, pointers, hands
  <2> QED
    BY <2>1, <2>2
<1> QED
  BY <1>1, <1>2, <1>3, <1>4 DEF ServiceStep

\* Starting the tasks of r from stopped or running ones.
LEMMA StartedTasks ==
    ASSUME WholeInv, NEW r, active = r, WitnessOfTask,
           task' = StartedAndDisabled(Supported(r)), UNCHANGED <<active, witness, fresh>>
    PROVE  StartedFor(r)'
<1>1. ASSUME NEW s \in Service
      PROVE  /\ task'[s].release = task[s].release
             /\ task'[s].enabled <=> s \in Supported(r)
             /\ task[s].at = "running" => task'[s].at \in {"running", "stopped"}
             /\ task[s].at = "stopped" => task'[s].at \in {"launched", "stopped"}
  BY SupportedServices DEF StartedAndDisabled, Started, IsRunning
<1>2. EnabledFor(r)'
  BY <1>1 DEF EnabledFor
<1>3. WitnessOrLoaded'
  BY <1>1 DEF WitnessOrLoaded, WitnessOfTask, Witnessed
<1> QED
  BY <1>2, <1>3 DEF StartedFor

\* What is found healthy runs the release that was started.
LEMMA HealthyInForce ==
    ASSUME WholeInv, NEW r, StartedFor(r), Healthy(U, r)
    PROVE  InForce(r)
<1>1. ASSUME NEW s \in Supported(r)
      PROVE  task[s].release = r
  <2>1. Witnessed(s) /\ witness[s].release = r /\ s \in Service
    BY SupportedServices DEF Healthy, Witnessed
  <2> QED
    BY <2>1 DEF StartedFor, WitnessOrLoaded
<1> QED
  BY <1>1 DEF StartedFor, InForce

\* What the invariant reads, but for the step.
state == <<active, task, witness, fresh>>

\* What is said of the tasks depends on four variables.
LEMMA SameTasks ==
    ASSUME UNCHANGED state
    PROVE  /\ WitnessOfTask' <=> WitnessOfTask
           /\ \A r : StartedFor(r)' <=> StartedFor(r)
           /\ \A r : InForce(r)' <=> InForce(r)
  BY DEF state, WitnessOfTask, WitnessOrLoaded, Witnessed, StartedFor, EnabledFor, InForce

\* The updater is where the invariant asks for nothing.
LEMMA QuietSteps ==
    ASSUME pc'[U] \in {"idle", "begin", "stage", "staging", "save", "undoStop", "ledger", "exit"},
           Alone'
    PROVE  OutcomeInv'
  BY DEF OutcomeInv

\* Every step of the updater leaves the tasks as its step has it.
LEMMA UpdaterKeepsOutcome ==
    ASSUME ~Overlap, WholeInv, OutcomeInv, UpdaterStep
    PROVE  OutcomeInv'
<1> USE DEF WholeInv, TypeOK, Proc, U, O, Goto, files, pointers, versions, services, hands
<1>1. Alone'
  <2>1. pc'[O] = pc[O]
    BY LookSteps
       DEF UpdaterStep, Poll, Begin, Reuse, ReuseFails, Abandon, BeginStaging, Staged,
           StagingFails, SavePrevious, SaveFails, Cutover, StopTasks, Swap, StartTasks, Verify,
           VerifyTimesOut, CutoverRaises, UndoStop, UndoSwap, UndoStart, UndoRaises, UndoVerify,
           UndoTimesOut, Report, SaveLedger, ReportRaises, ExitAgain, ExitSeen, Quit
  <2>2. pc[U] # "idle" => pc[O] = "idle"
    BY DEF OutcomeInv, Alone
  <2>3. pc[U] = "idle" => Poll
    BY DEF UpdaterStep, Begin, Reuse, ReuseFails, BeginStaging, Staged,
           StagingFails, SavePrevious, SaveFails, Cutover, StopTasks, Swap, StartTasks, Verify,
           VerifyTimesOut, CutoverRaises, UndoStop, UndoSwap, UndoStart, UndoRaises, UndoVerify,
           UndoTimesOut, Report, SaveLedger, ReportRaises, ExitAgain, ExitSeen, AfterUndo
  <2> QED
    BY <2>1, <2>2, <2>3 DEF Poll, Alone
<1>2. CASE \/ Poll \/ Begin \/ Reuse \/ ReuseFails \/ BeginStaging \/ Staged \/ StagingFails
           \/ SaveFails \/ VerifyTimesOut \/ CutoverRaises \/ Report \/ SaveLedger \/ ReportRaises
           \/ ExitAgain \/ ExitSeen
  BY <1>1, <1>2, QuietSteps
     DEF Poll, Begin, Reuse, ReuseFails, Abandon, BeginStaging, Staged, StagingFails,
         SaveFails, VerifyTimesOut, CutoverRaises, Report, SaveLedger, ReportRaises, ExitAgain,
         ExitSeen, Quit
<1>3. CASE SavePrevious
  <2>1. pc'[U] = "stop" /\ fresh'[U] = {}
    BY <1>3 DEF SavePrevious, NotBefore
  <2> QED
    BY <1>1, <2>1 DEF OutcomeInv, WitnessOfTask, Witnessed
<1>4. CASE StopTasks(U)
  <2>1. pc'[U] = "swap" /\ WitnessOfTask /\ UNCHANGED <<witness, fresh>>
    BY <1>4 DEF StopTasks, OutcomeInv
  <2>2. \A s \in Service : /\ task'[s].release = task[s].release
                           /\ task'[s].at \in {task[s].at, "stopped"}
    BY <1>4 DEF StopTasks, Stopped, Task
  <2>3. WitnessOfTask'
    BY <2>1, <2>2 DEF WitnessOfTask, Witnessed
  <2> QED
    BY <1>1, <2>1, <2>3 DEF OutcomeInv
<1>5. CASE Swap(U)
  <2>1. pc'[U] = "start" /\ WitnessOfTask /\ active' = to'[U]
    BY <1>5 DEF Swap, OutcomeInv
  <2>2. WitnessOfTask'
    BY <1>5, <2>1 DEF Swap, WitnessOfTask, Witnessed
  <2> QED
    BY <1>1, <2>1, <2>2 DEF OutcomeInv
<1>6. CASE StartTasks(U)
  <2>1. pc'[U] = "verify" /\ to' = to
    BY <1>6 DEF StartTasks
  <2>2. active = to[U] /\ WitnessOfTask
    BY <1>6 DEF StartTasks, OutcomeInv
  <2>3. task' = StartedAndDisabled(Supported(to[U])) /\ UNCHANGED <<active, witness, fresh>>
    BY <1>6 DEF StartTasks
  <2>4. \A r : r = to[U] => StartedFor(r)'
    BY <2>2, <2>3, StartedTasks
  <2>5. StartedFor(to[U])'
    BY <2>1, <2>4 DEF StartedFor, EnabledFor
  <2> QED
    BY <1>1, <2>1, <2>5 DEF OutcomeInv
<1>7. CASE Verify
  <2>1. StartedFor(to[U]) /\ UNCHANGED state /\ UNCHANGED <<from, to>>
    BY <1>7 DEF Verify, OutcomeInv, state
  <2>2. CASE pc' = pc
    BY <1>1, <1>7, <2>1, <2>2, SameTasks DEF Verify, OutcomeInv
  <2>3. CASE Healthy(U, to[U]) /\ pc' = [pc EXCEPT ![U] = "report"]
    <3>1. InForce(to[U])'
      BY <2>1, <2>3, HealthyInForce, SameTasks
    <3>2. outcome' = "success" /\ pc'[U] = "report"
      BY <1>7, <2>3 DEF Verify
    <3> QED
      BY <1>1, <2>1, <3>1, <3>2 DEF OutcomeInv, InForce, EnabledFor
  <2> QED
    BY <1>7, <2>2, <2>3, LookSteps DEF Verify
<1>8. CASE UndoStop
  <2>1. pc'[U] = "undoSwap" /\ fresh'[U] = {}
    BY <1>8 DEF UndoStop, NotBefore
  <2> QED
    BY <1>1, <2>1 DEF OutcomeInv, WitnessOfTask, Witnessed
<1>9. CASE UndoSwap
  <2>1. pc'[U] = "undoStart" /\ active' = from'[U] /\ outcome' = outcome
    BY <1>9 DEF UndoSwap
  <2>2. outcome = "rolled_back" => WitnessOfTask
    BY <1>9 DEF UndoSwap, OutcomeInv
  <2>3. outcome = "rolled_back" => WitnessOfTask'
    BY <1>9, <2>2 DEF UndoSwap, WitnessOfTask, Witnessed
  <2> QED
    BY <1>1, <2>1, <2>3 DEF OutcomeInv
<1>10. CASE UndoStart
  <2>1. pc'[U] = "undoVerify" /\ UNCHANGED <<from, outcome>>
    BY <1>10 DEF UndoStart
  <2>2. outcome = "rolled_back" => active = from[U] /\ WitnessOfTask
    BY <1>10 DEF UndoStart, OutcomeInv
  <2>3. task' = StartedAndDisabled(Supported(from[U])) /\ UNCHANGED <<active, witness, fresh>>
    BY <1>10 DEF UndoStart
  <2>4. \A r : r = from[U] /\ outcome = "rolled_back" => StartedFor(r)'
    BY <2>2, <2>3, StartedTasks
  <2>5. outcome = "rolled_back" => StartedFor(from[U])'
    BY <2>1, <2>4 DEF StartedFor, EnabledFor
  <2> QED
    BY <1>1, <2>1, <2>5 DEF OutcomeInv
<1>11. CASE UndoRaises
  <2>1. outcome' = "rollback_failed" /\ pc'[U] \in Undoing
    BY <1>11, UndoGoesOn DEF UndoRaises, Undoing
  <2> QED
    BY <1>1, <2>1 DEF OutcomeInv, Undoing
<1>12. CASE UndoVerify
  <2>1. UNCHANGED state /\ UNCHANGED <<from, to, outcome>> /\ outcome # "success"
    BY <1>12 DEF UndoVerify, OutcomeKnown, Undoing, state
  <2>2. outcome = "rolled_back" => StartedFor(from[U])
    BY <1>12 DEF UndoVerify, OutcomeInv
  <2>3. CASE pc' = pc
    BY <1>1, <1>12, <2>1, <2>2, <2>3, SameTasks DEF UndoVerify, OutcomeInv
  <2>4. CASE Healthy(U, from[U]) /\ pc' = [pc EXCEPT ![U] = "report"]
    <3>1. outcome = "rolled_back" => InForce(from[U])'
      BY <2>1, <2>2, <2>4, HealthyInForce, SameTasks
    <3> QED
      BY <1>1, <2>1, <2>4, <3>1 DEF OutcomeInv, InForce, EnabledFor
  <2> QED
    BY <1>12, <2>3, <2>4, LookSteps DEF UndoVerify
<1>13. CASE UndoTimesOut
  BY <1>1, <1>13 DEF UndoTimesOut, OutcomeInv
<1> QED
  BY <1>2, <1>3, <1>4, <1>5, <1>6, <1>7, <1>8, <1>9, <1>10, <1>11, <1>12, <1>13
     DEF UpdaterStep, Cutover

\* No other step does them harm while it is alone.
LEMMA OthersKeepOutcome ==
    ASSUME ~Overlap, WholeInv, OutcomeInv, [Next]_vars, ~UpdaterStep
    PROVE  OutcomeInv'
<1> USE DEF WholeInv, TypeOK, Proc, U, O, Goto, files, pointers, versions, services, hands
<1>1. ASSUME OperatorStep
      PROVE  OutcomeInv'
  <2>1. pc[U] = "idle"
    BY <1>1
       DEF OperatorStep, Rollback, Cutover, StopTasks, Swap, StartTasks, RollbackVerify,
           RollbackRaises, RollbackRecords, OutcomeInv, Alone
  <2>2. pc'[U] = "idle"
    BY <1>1, <2>1, LookSteps
       DEF OperatorStep, Rollback, Cutover, StopTasks, Swap, StartTasks, RollbackVerify,
           RollbackRaises, RollbackRecords, Quit
  <2> QED
    BY <2>2, QuietSteps DEF Alone
<1>2. ASSUME NEW s \in Service, ServiceStep(s)
      PROVE  OutcomeInv'
  <2>1. UNCHANGED <<active, pc, from, to, outcome>>
    BY <1>2 DEF ServiceStep, Load, ProbePasses, ServiceFails, Restart
  <2>2. CASE pc[U] = "idle"
    BY <2>1, <2>2, QuietSteps DEF Alone
  <2>3. CASE pc[U] # "idle"
    <3>1. \A r \in Release : StartedFor(r) => StartedFor(r)'
      BY <1>2, <2>1, <2>3, ServiceKeepsTasks DEF StartedFor
    <3>2. pc[U] \in {"verify", "undoVerify", "report"} => {from[U], to[U]} \subseteq Release
      BY DEF Complete, Updating, CuttingOver
    <3>3. pc[U] = "verify" => StartedFor(to[U])'
      BY <2>1, <3>1, <3>2 DEF OutcomeInv, StartedFor, EnabledFor
    <3>4. pc[U] = "undoVerify" /\ outcome = "rolled_back" => StartedFor(from[U])'
      BY <2>1, <3>1, <3>2 DEF OutcomeInv, StartedFor, EnabledFor
    <3>5. \A r \in Release : InForce(r) => InForce(r)'
      BY <1>2, <2>3, ServiceKeepsTasks
    <3>6. pc[U] = "report" /\ outcome = "rolled_back" => InForce(from[U])'
      BY <2>1, <3>2, <3>5 DEF OutcomeInv, InForce, EnabledFor
    <3>7. pc[U] = "report" /\ outcome = "success" => InForce(to[U])'
      BY <2>1, <3>2, <3>5 DEF OutcomeInv, InForce, EnabledFor
    <3>8. WitnessOfTask => WitnessOfTask'
      BY <1>2, <2>3, ServiceKeepsTasks
    <3> QED
      BY <2>1, <3>3, <3>4, <3>6, <3>7, <3>8 DEF OutcomeInv, Alone
  <2> QED
    BY <2>2, <2>3
<1>3. ASSUME NEW r \in Release, Approve(r)
      PROVE  OutcomeInv'
  <2>1. UNCHANGED <<state, pc, from, to, outcome>>
    BY <1>3 DEF Approve, state
  <2> QED
    BY <2>1
       DEF state, OutcomeInv, Alone, WitnessOfTask, WitnessOrLoaded, Witnessed, StartedFor,
           EnabledFor, InForce
<1>4. ASSUME NEW p \in Proc, Crash(p)
      PROVE  OutcomeInv'
  <2>1. CASE p = U
    BY <1>4, <2>1, QuietSteps DEF Crash, Quit, Alone
  <2>2. CASE p = O
    <3>1. /\ UNCHANGED <<active, task, witness, outcome>>
          /\ pc'[U] = pc[U] /\ from'[U] = from[U] /\ to'[U] = to[U] /\ fresh'[U] = fresh[U]
          /\ pc'[O] = "idle"
      BY <1>4, <2>2 DEF Crash, Quit
    <3> QED
      BY <3>1 DEF OutcomeInv, Alone, WitnessOfTask, WitnessOrLoaded, Witnessed, StartedFor,
         EnabledFor, InForce
  <2> QED
    BY <2>1, <2>2
<1>5. CASE Reboot
  BY <1>5, QuietSteps DEF Reboot, Alone
<1>6. CASE UNCHANGED vars
  <2>1. UNCHANGED <<state, pc, from, to, outcome>>
    BY <1>6 DEF vars, state
  <2> QED
    BY <2>1
       DEF state, OutcomeInv, Alone, WitnessOfTask, WitnessOrLoaded, Witnessed, StartedFor,
           EnabledFor, InForce
<1> QED
  BY <1>1, <1>2, <1>3, <1>4, <1>5, <1>6 DEF Next

\* So it holds in every reachable state.
LEMMA OutcomeHolds ==
    ASSUME ~Overlap
    PROVE  Spec => []OutcomeInv
<1>1. WholeInv /\ OutcomeInv /\ [Next]_vars => OutcomeInv'
  BY UpdaterKeepsOutcome, OthersKeepOutcome
<1> QED
  BY OutcomeStarts, WholeHolds, <1>1, PTL DEF Spec

\* When an update ends, the tasks are what its outcome says, whoever dies and
\* whatever raises, if no rollback meets it.
THEOREM TasksFollowOutcome ==
    ASSUME ~Overlap
    PROVE  Spec => []OutcomeMatchesTasks
<1>1. WholeInv /\ OutcomeInv => OutcomeMatchesTasks
  BY DEF WholeInv, TypeOK, OutcomeKnown, OutcomeInv, OutcomeMatchesTasks, InForce, EnabledFor
<1> QED
  BY <1>1, WholeHolds, OutcomeHolds, PTL

-----------------------------------------------------------------------------
(* A release that is known stays at hand.                                  *)

\* The first release counts as proven.
LEMMA ProvenStarts == Init => ProvenInv
  BY DEF Init, ProvenInv, Known, Updating, Proc, U, O

\* From the swap of the pointer to its restoration.
Exposed == {"start", "verify", "undoStop", "undoSwap"}

\* Every step keeps a release at hand that was verified or left active.
LEMMA ProvenKept ==
    ASSUME ~Overlap, WholeInv, OutcomeInv, OutcomeInv', ProvenInv, [Next]_vars
    PROVE  ProvenInv'
<1> USE DEF WholeInv, TypeOK, Complete, ProvenInv, Known, Updating, CuttingOver, Proc, U, O, Goto, files,
        pointers, versions, hands, history
\* Steps of the updater that leave the pointers alone.
<1>1. CASE /\ UNCHANGED <<active, previous, proven, stranded>>
           /\ UNCHANGED <<from, to>>
           /\ pc'[O] = pc[O]
           /\ pc[U] \in Exposed => pc'[U] \in Exposed
           /\ pc'[U] \in Updating => pc[U] \in Updating
           /\ pc'[U] \in Exposed \cup {"stop", "swap"} => pc[U] \in Exposed \cup {"stop", "swap"}
  BY <1>1 DEF Exposed
\* Either process ends.
<1>2. ASSUME NEW p \in Proc, UNCHANGED <<active, previous, proven, stranded>>, Quit(p),
             p = U => pc[U] \notin Exposed
      PROVE  ProvenInv'
  BY <1>2 DEF Quit, Exposed
<1>3. ASSUME UpdaterStep
      PROVE  ProvenInv'
  <2>1. CASE ReuseFails \/ StagingFails \/ SaveFails \/ ExitAgain \/ ExitSeen
    BY <2>1, <1>2 DEF ReuseFails, Abandon, StagingFails, SaveFails, ExitAgain, ExitSeen, Exposed
  <2>2. CASE Poll \/ Begin
    BY <2>2 DEF Poll, Begin
  <2>3. CASE \/ Reuse \/ BeginStaging \/ Staged \/ StopTasks(U) \/ StartTasks(U) \/ VerifyTimesOut
             \/ CutoverRaises \/ UndoStop \/ UndoStart \/ UndoTimesOut \/ Report \/ SaveLedger
             \/ ReportRaises
    BY <2>3, <1>1
       DEF Reuse, BeginStaging, Staged, StopTasks, StartTasks, VerifyTimesOut, CutoverRaises,
           UndoStop, UndoStart, UndoTimesOut, Report, SaveLedger, ReportRaises, Exposed
  <2>4. CASE SavePrevious
    BY <2>4 DEF SavePrevious
  <2>5. CASE Swap(U)
    BY <2>5 DEF Swap
  <2>6. CASE Verify
    <3>1. active = to[U]
      BY <2>6 DEF Verify, OutcomeInv, StartedFor
    <3> QED
      BY <2>6, <3>1, LookSteps DEF Verify
  <2>7. CASE UndoSwap
    BY <2>7 DEF UndoSwap
  <2>8. CASE UndoRaises
    <3>1. /\ pc[U] \in {"undoStop", "undoSwap", "undoStart"}
          /\ pc' = [pc EXCEPT ![U] = AfterUndo[pc[U]]]
      BY <2>8, UndoGoesOn DEF UndoRaises
    <3>2. UNCHANGED <<active, previous, proven, from, to>>
      BY <2>8 DEF UndoRaises
    <3>3. CASE pc[U] = "undoSwap"
      <4>1. Known' = Known \cup {active} /\ pc'[U] = "undoStart" /\ pc'[O] = pc[O]
        BY <2>8, <3>1, <3>2, <3>3, UndoGoesOn DEF UndoRaises, Strand
      <4> QED
        BY <3>2, <3>3, <4>1
    <3>4. CASE pc[U] # "undoSwap"
      <4>1. stranded' = stranded
        BY <2>8, <3>4 DEF UndoRaises
      <4> QED
        BY <1>1, <3>1, <3>2, <3>4, <4>1, UndoGoesOn DEF Exposed
    <3> QED
      BY <3>3, <3>4
  <2>9. CASE UndoVerify
    BY <2>9, LookSteps DEF UndoVerify
  <2> QED
    BY <1>3, <2>1, <2>2, <2>3, <2>4, <2>5, <2>6, <2>7, <2>8, <2>9 DEF UpdaterStep, Cutover
<1>4. ASSUME OperatorStep
      PROVE  ProvenInv'
  <2>1. pc[U] = "idle"
    BY <1>4
       DEF OperatorStep, Rollback, Cutover, StopTasks, Swap, StartTasks, RollbackVerify,
           RollbackRaises, RollbackRecords, OutcomeInv, Alone
  <2>2. CASE Rollback
    BY <2>1, <2>2 DEF Rollback
  <2>3. CASE StopTasks(O) \/ StartTasks(O) \/ Swap(O)
    BY <2>1, <2>3 DEF StopTasks, StartTasks, Swap
  <2>4. CASE RollbackVerify
    BY <2>1, <2>4, LookSteps DEF RollbackVerify
  <2>5. CASE RollbackRaises
    BY <1>2, <2>1, <2>5 DEF RollbackRaises
  <2>6. CASE RollbackRecords
    BY <2>1, <2>6 DEF RollbackRecords, Quit
  <2> QED
    BY <1>4, <2>2, <2>3, <2>4, <2>5, <2>6 DEF OperatorStep, Cutover
<1>5. ASSUME NEW s \in Service, ServiceStep(s)
      PROVE  ProvenInv'
  BY <1>1, <1>5 DEF ServiceStep, Load, ProbePasses, ServiceFails, Restart
<1>6. ASSUME NEW r \in Release, Approve(r)
      PROVE  ProvenInv'
  BY <1>1, <1>6 DEF Approve
<1>7. ASSUME NEW p \in Proc, Crash(p)
      PROVE  ProvenInv'
  <2>1. Known' = Known \cup {active} /\ UNCHANGED <<active, previous>>
    BY <1>7 DEF Crash, Strand
  <2>2. /\ pc'[p] = "idle"
        /\ \A q \in Proc \ {p} : pc'[q] = pc[q] /\ from'[q] = from[q] /\ to'[q] = to[q]
    BY <1>7 DEF Crash, Quit
  <2> QED
    BY <2>1, <2>2
<1>8. CASE Reboot
  <2>1. Known' = Known \cup {active} /\ UNCHANGED <<active, previous>>
    BY <1>8 DEF Reboot, Strand
  <2> QED
    BY <1>8, <2>1 DEF Reboot
<1>9. CASE UNCHANGED vars
  BY <1>1, <1>9 DEF vars
<1> QED
  BY <1>3, <1>4, <1>5, <1>6, <1>7, <1>8, <1>9 DEF Next

\* What is active, or the one to fall back on, was verified, or was left active
\* by a death or by a pointer that could not be restored, whatever dies and
\* raises where, if no rollback meets an update.
THEOREM FallbackKept ==
    ASSUME ~Overlap
    PROVE  Spec => []FallbackUnlessStranded
<1>1. WholeInv /\ OutcomeInv /\ OutcomeInv' /\ ProvenInv /\ [Next]_vars => ProvenInv'
  BY ProvenKept
<1>2. WholeInv /\ ProvenInv => FallbackUnlessStranded
  BY DEF WholeInv, Complete, ProvenInv, Known, FallbackUnlessStranded, Updating
<1> QED
  BY ProvenStarts, WholeHolds, OutcomeHolds, <1>1, <1>2, PTL DEF Spec
=============================================================================
