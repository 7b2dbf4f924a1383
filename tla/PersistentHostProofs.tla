------------------------- MODULE PersistentHostProofs -------------------------
(***************************************************************************)
(* For any jobs and any number of faults, commands and rewritten files: no  *)
(* imported job is lost, no job waits and runs at once, the ledger imports  *)
(* a job once unless a fault made it forget, one runs twice after two       *)
(* faults only, and failed attempts free their claim.                       *)
(*                                                                         *)
(* The argument: outside of recovery the only file in running/ is that of   *)
(* the job in hand, and the only directory being filled is its own.  So a   *)
(* rename loses nothing, and a job that is nowhere _job_exists looks was    *)
(* in hand at a fault.  That fault came after the synchronization that      *)
(* imported the job, so a ledger that does not know it takes another.       *)
(*                                                                         *)
(* That there is one host at a time is the lock file's (ProcessLock, at the *)
(* end): a start is refused only by a live process (NoFalseRefusal), and,   *)
(* as long as no start begins while another is acquiring, one host holds    *)
(* it (SingleHost).  Without that condition the second is false (run        *)
(* host_lock_race).                                                         *)
(***************************************************************************)
EXTENDS PersistentHost, ProcessLock, TLAPS

\* The job in hand.
HandIsKnown ==
    /\ pc \notin {"down", "recover", "idle", "sync", "claim"} => job \in Job
    /\ pc \in {"rename", "prepare"} => loaded # Nothing
    /\ pc = "rename" => pending[job] # NoFile

\* A file in running/ is that of the job in hand, or waits for recovery.
RunningIsInHand ==
    \A k \in Job : running[k] # Nothing =>
        \/ pc \in {"down", "recover"}
        \/ return = "recover" /\ pc \in {"fail", "failMove", "failPublish", "failRelease"}
        \/ k = job /\ pc \in {"prepare", "stage", "collect", "unlink", "fail", "failMove"}

\* At most one directory is being filled, for the job in hand; a failure's is
\* empty until the job file moves into it.
OpenIsInHand ==
    /\ \A d, e \in Open : d = e
    /\ \A d \in Open :
          /\ pc \in {"collect", "unlink", "complete", "failMove", "failPublish"}
          /\ d.job = job
          /\ pc = "failMove" => d.content = Nothing

Kept(j, content) ==
    \E d \in staging \cup archive : d.job = j /\ d.content = content

\* A success is copied before its file is unlinked.
CopiedFirst ==
    pc \in {"collect", "unlink"} /\ HasRunning => Kept(job, running[job])

\* What an operator's command can write.
CommandIsKnown ==
    /\ Never({"approve", "enqueue"}) => command = NoCommand
    /\ Never({"rewrites"}) => \A j \in Job :
          /\ feed[j] # "v2" /\ files[j] # "v2"
          /\ \A n \in DOMAIN imports[j] : imports[j][n] = "v1"
    /\ Never({"rewrites", "enqueue"}) =>
          /\ \A j \in Job : pending[j].content \in {Nothing, "v1"}
          /\ command # NoCommand => command.file.content = "v1"

\* Without faults the ledger, or what it is about to be, has every import.
LedgerRemembers ==
    Never(Faults) => \A j \in Job : imports[j] # <<>> =>
        /\ Len(imports[j]) = 1
        /\ pc = "sync" => memory[j] = imports[j][1]
        /\ pc # "sync" => ledger[j] = imports[j][1]

\* A synchronization starts from the ledger.
MemoryGrows ==
    pc = "sync" => \A j \in Job : ledger[j] # Nothing => memory[j] = ledger[j]

\* Nobody takes the directory that is being filled but a host-init.
StillStaged ==
    /\ Never({"init"}) /\ pc \in {"collect", "unlink", "complete", "failMove", "failPublish"}
          => HasStaging
    /\ Never(Faults \cup {"init"}) => staging = Open

\* A host-init in progress has been counted.
InstallerIsCounted == Never({"init"}) => installer = NoInstaller

\* Where a failure goes: failed/<id> as long as no other archive has the name,
\* and only a host-init brings one while the failure is being archived.
TargetIsKnown ==
    pc \in {"failMove", "failPublish"} =>
        /\ target = "repeated" => Archived(job, {"failed"})
        /\ Never({"init"}) /\ target = "failed" => ~Archived(job, {"failed"})

\* The claim an archived failure names is free, or about to be.
ClaimsFollow ==
    Never(Faults \cup {"init"}) =>
        \A a \in archive : a.place # "completed" /\ NamesClaim(a.content) =>
            \/ claim[a.job] # "active"
            \/ pc = "failRelease" /\ a.job = job /\ a.content = hand

-----------------------------------------------------------------------------
(* How often a job runs, when no command puts one back.                     *)

Undisturbed == Never({"approve", "enqueue", "init"})

Faulted == budget["crashes"].spent + budget["syncs"].spent

Waits(j) == IF pending[j] # NoFile THEN 1 ELSE 0
Fresh(j) == IF pc = "prepare" /\ job = j THEN 1 ELSE 0

\* Every run had an import of its own.
Supplied(j) == Len(runs[j]) + Waits(j) + Fresh(j) <= Len(imports[j])

RunsAreImported == Undisturbed => \A j \in Job : Supplied(j)

\* Imported, and the ledger does not know it.
Forgotten(j) ==
    /\ imports[j] # <<>> /\ ledger[j] = Nothing
    /\ pc = "sync" => memory[j] = Nothing

InFlight(j) == job = j /\ pc \in {"complete", "fail", "failMove", "failPublish"}

InStaging(j) == \E d \in staging : d.job = j

\* Imported, and in no place _job_exists looks.
Missing(j) == imports[j] # <<>> /\ ~JobExists(j)

Recovering ==
    \/ pc \in {"down", "recover"}
    \/ return = "recover" /\ pc \in {"fail", "failMove", "failPublish", "failRelease"}

Remembered(j) ==
    /\ Forgotten(j) => Faulted >= 1
    /\ Missing(j) => InFlight(j) \/ Faulted >= 1
    /\ Forgotten(j) /\ Missing(j) => InFlight(j) \/ Faulted >= 2
    /\ Missing(j) =>
          \/ Archived(j, {"recovered"})
          \/ InStaging(j) /\ (Recovering \/ InFlight(j))
    /\ pc = "sync" /\ ledger[j] = Nothing /\ memory[j] # Nothing => JobExists(j)
    /\ Len(imports[j]) > 1 => Archived(j, {"recovered"}) /\ Faulted >= 2

Reimported == Undisturbed => \A j \in Job : Remembered(j)

Inv ==
    /\ TypeOK /\ HandIsKnown /\ RunningIsInHand /\ OpenIsInHand /\ CopiedFirst
    /\ CommandIsKnown /\ LedgerRemembers /\ MemoryGrows /\ StillStaged /\ ClaimsFollow
    /\ InstallerIsCounted /\ TargetIsKnown /\ RunsAreImported /\ Reimported
    /\ NoJobLost /\ OnePlaceInQueue /\ RunningWhileExecuted
-----------------------------------------------------------------------------
USE DEF Goto, Empty, failure, commands

\* The contents, files, directories and archives, by what is used of them.
LEMMA Contents ==
    /\ {"v1", "v2", "local", "malformed"} = Content /\ Nothing \notin Content
  BY DEF Content, Nothing

\* The parts of a job file.
LEMMA Files ==
    /\ \A c \in Content, b \in BOOLEAN : [content |-> c, approved |-> b] \in File
    /\ \A f \in File : f.content \in Content /\ f.approved \in BOOLEAN /\ f # NoFile
    /\ NoFile.content = Nothing /\ ~NoFile.approved
<1>1. \A f \in File : f.content \in Content /\ f.approved \in BOOLEAN
  BY DEF File
<1>2. NoFile.content = Nothing /\ ~NoFile.approved
  BY DEF NoFile
<1>3. \A c \in Content, b \in BOOLEAN : [content |-> c, approved |-> b] \in File
  BY DEF File
<1> QED
  BY <1>1, <1>2, <1>3, Contents

\* The parts of a staging directory.
LEMMA Directories ==
    /\ \A j \in Job, c \in Content \cup {Nothing}, b \in BOOLEAN :
          [job |-> j, content |-> c, open |-> b] \in StagedDir
    /\ \A d \in StagedDir :
          d.job \in Job /\ d.content \in Content \cup {Nothing} /\ d.open \in BOOLEAN
  BY DEF StagedDir

\* The parts of an archive.
LEMMA Archives ==
    /\ \A j \in Job, c \in Content \cup {Nothing},
          p \in {"completed", "failed", "repeated", "recovered", "conflict"} :
          [job |-> j, place |-> p, content |-> c] \in Archive
    /\ \A a \in Archive : a.job \in Job /\ a.content \in Content \cup {Nothing}
  BY DEF Archive

\* An event is counted, and no other.
LEMMA SpendAdds ==
    ASSUME TypeOK, NEW e \in Events, Spend(e)
    PROVE  /\ budget' \in [Events -> [spent : Nat, left : Nat]]
           /\ budget'[e].spent = budget[e].spent + 1
           /\ \A f \in Events \ {e} : budget'[f] = budget[f]
<1>1. budget[e] \in [spent : Nat, left : Nat] /\ budget[e].left > 0
  BY DEF TypeOK, Spend
<1>2. [spent |-> budget[e].spent + 1, left |-> budget[e].left - 1]
         \in [spent : Nat, left : Nat]
  BY <1>1
<1> QED
  BY <1>2 DEF TypeOK, Spend

\* What has happened stays counted.
LEMMA BudgetGrows ==
    ASSUME TypeOK, [Next]_vars
    PROVE  /\ budget' \in [Events -> [spent : Nat, left : Nat]]
           /\ \A e \in Events : budget'[e].spent >= budget[e].spent
<1>1. ASSUME NEW e \in Events, Spend(e)
      PROVE  /\ budget' \in [Events -> [spent : Nat, left : Nat]]
             /\ \A f \in Events : budget'[f].spent >= budget[f].spent
  <2>1. \A f \in Events : budget[f].spent \in Nat
    BY DEF TypeOK
  <2> QED
    BY <1>1, <2>1, SpendAdds
<1>2. CASE UNCHANGED budget
  BY <1>2 DEF TypeOK
<1>3. \/ UNCHANGED budget
      \/ \E e \in Events : Spend(e)
  BY DEF Next, HostStep, vars, Submit, Events, Faults, Rewrite, BeginCommand,
     BeginApprove, BeginEnqueue,
         FinishCommand, HostInit, InitStage, InitMove, InitPublish, InitRelease,
         InitStaging, Start, Stop, Crash, ArchivingFails, RecoverRunning,
         RecoverStaging, Recovered, BeginSync, SkipSync, SyncFile, SaveLedger, SyncRaises,
         Load, ClaimFile, NothingToClaim, PrepareFails, Run, StageSuccess, Collect,
         UnlinkRunning, PublishSuccess, SuccessRaises, StageFailure, MoveToFailure,
         PublishFailure, ReleaseClaim
<1> QED
  BY <1>1, <1>2, <1>3

\* What has never happened had never happened before.
LEMMA NeverBefore ==
    ASSUME TypeOK, [Next]_vars, NEW S \in SUBSET Events, Never(S)'
    PROVE  Never(S)
<1>1. \A e \in Events : budget[e].spent \in Nat /\ budget'[e].spent \in Nat
                         /\ budget'[e].spent >= budget[e].spent
  BY BudgetGrows DEF TypeOK
<1>2. \A e \in S : budget'[e].spent = 0
  BY DEF Never
<1>3. \A e \in S : budget[e].spent = 0
  BY <1>1, <1>2
<1> QED
  BY <1>3 DEF Never

\* Work that is broken off leaves every directory where it is.
LEMMA NothingOpen ==
    ASSUME TypeOK
    PROVE  /\ LeftBehind \subseteq StagedDir
           /\ \A d \in LeftBehind : ~d.open
           /\ \A d \in staging : \E e \in LeftBehind : e.job = d.job /\ e.content = d.content
           /\ \A e \in LeftBehind : \E d \in staging : e.job = d.job /\ e.content = d.content
<1> DEFINE Left(d) == [job |-> d.job, content |-> d.content, open |-> FALSE]
<1>1. \A d \in staging : /\ Left(d) \in StagedDir /\ ~Left(d).open
                         /\ Left(d).job = d.job /\ Left(d).content = d.content
  BY DEF TypeOK, StagedDir
<1>2. LeftBehind = {Left(d) : d \in staging}
  BY DEF LeftBehind
<1> HIDE DEF Left
<1> QED
  BY <1>1, <1>2

\* Type correctness.
LEMMA TypesKept == TypeOK /\ HandIsKnown /\ [Next]_vars => TypeOK'
<1> SUFFICES ASSUME TypeOK /\ HandIsKnown, [Next]_vars PROVE TypeOK'
  OBVIOUS
<1> USE DEF vars, queue, sync, host, TypeOK, HandIsKnown, Steps
<1>b. budget' \in [Events -> [spent : Nat, left : Nat]]
  BY BudgetGrows
<1>1. CASE UNCHANGED vars \/ Start \/ Stop \/ Recovered \/ SkipSync \/
           NothingToClaim \/ PrepareFails \/ Collect
  BY <1>1, <1>b DEF Start, Stop, Recovered, SkipSync, NothingToClaim, PrepareFails,
     Collect
<1>2. CASE FinishCommand
  BY <1>2, <1>b, Files DEF FinishCommand
<1>3. CASE HostInit
  <2>1. ASSUME NEW j \in Job, InitStage(j) PROVE TypeOK'
    <3>1. InitDirectory(j, Nothing) \in StagedDir
      BY Directories DEF InitDirectory
    <3>2. staging' \subseteq StagedDir
      BY <2>1, <3>1 DEF InitStage
    <3> QED
      BY <2>1, <3>2, <1>b, <1>3 DEF HostInit, InitStage, FailurePlace, FailurePlaces
  <2>2. ASSUME NEW j \in Job, InitMove(j) PROVE TypeOK'
    <3>1. InitDirectory(j, running[j]) \in StagedDir
      BY Directories DEF InitDirectory
    <3>2. staging' \subseteq StagedDir
      BY <2>2, <3>1 DEF InitMove
    <3>3. installer \in [step: {"move", "publish", "release"}, job: Job,
                         target: FailurePlaces, content: Content \cup {Nothing}]
      BY <2>2 DEF InitMove, NoInstaller
    <3>4. running[j] \in Content \cup {Nothing} /\ running' \in [Job -> Content \cup {Nothing}]
      BY <2>2 DEF InitMove
    <3>5. installer' \in [step: {"move", "publish", "release"}, job: Job,
                          target: FailurePlaces, content: Content \cup {Nothing}]
      BY <2>2, <3>3, <3>4 DEF InitMove
    <3> QED
      BY <2>2, <3>2, <3>4, <3>5, <1>b, <1>3 DEF HostInit, InitMove
  <2>3. ASSUME NEW j \in Job, InitPublish(j) PROVE TypeOK'
    <3>1. installer \in [step: {"move", "publish", "release"}, job: Job,
                         target: FailurePlaces, content: Content \cup {Nothing}]
      BY <2>3 DEF InitPublish, NoInstaller
    <3>2. [job |-> j, place |-> installer.target, content |-> installer.content] \in Archive
      BY <3>1, Archives DEF FailurePlaces
    <3>3. staging' \subseteq StagedDir /\ archive' \subseteq Archive
      BY <2>3, <3>2 DEF InitPublish
    <3> QED
      BY <2>3, <3>1, <3>3, <1>b, <1>3 DEF HostInit, InitPublish
  <2>4. ASSUME NEW j \in Job, InitRelease(j) PROVE TypeOK'
    BY <2>4, <1>b, <1>3 DEF HostInit, InitRelease
  <2>5. ASSUME NEW d \in staging, InitStaging(d) PROVE TypeOK'
    <3>1. d \in StagedDir
      OBVIOUS
    <3>2. [job |-> d.job, place |-> "recovered", content |-> d.content] \in Archive
      BY <3>1, Directories, Archives
    <3>3. staging' \subseteq StagedDir /\ archive' \subseteq Archive
      BY <2>5, <3>2 DEF InitStaging, RecoverDirectory
    <3> QED
      BY <2>5, <3>3, <1>b, <1>3 DEF HostInit, InitStaging
  <2> QED
    BY <2>1, <2>2, <2>3, <2>4, <2>5, <1>3 DEF HostInit
<1>4. CASE Crash
  BY <1>4, <1>b, NothingOpen DEF Crash, Die, NoWork, Spend, FailurePlaces
<1>5. CASE ArchivingFails
  BY <1>5, <1>b, NothingOpen DEF ArchivingFails, Die, NoWork, FailurePlaces
<1>6. CASE BeginSync
  BY <1>6, <1>b DEF BeginSync
<1>7. CASE SaveLedger
  BY <1>7, <1>b DEF SaveLedger
<1>8. CASE SyncRaises
  BY <1>8, <1>b DEF SyncRaises, Spend
<1>9. CASE ClaimFile
  BY <1>9, <1>b, Files DEF ClaimFile
<1>10. CASE Run
  BY <1>10, <1>b, Contents DEF Run
<1>11. CASE StageSuccess
  <2>1. job \in Job /\ HasRunning \in BOOLEAN
    BY <1>11 DEF StageSuccess, HasRunning
  <2>2. Staged(running[job], HasRunning) \in StagedDir
    BY <2>1, Directories DEF Staged
  <2>3. staging' \subseteq StagedDir
    BY <2>2, <1>11 DEF StageSuccess
  <2> QED
    BY <2>3, <1>11, <1>b DEF StageSuccess
<1>12. CASE UnlinkRunning
  BY <1>12, <1>b DEF UnlinkRunning
<1>13. CASE SuccessRaises
  BY <1>13, <1>b, NothingOpen DEF SuccessRaises, Spend
<1>14. CASE StageFailure
  <2>1. job \in Job
    BY <1>14 DEF StageFailure
  <2>2. Staged(Nothing, TRUE) \in StagedDir
    BY <2>1, Directories DEF Staged
  <2>3. staging' \subseteq StagedDir
    BY <2>2, <1>14 DEF StageFailure
  <2>4. target' \in FailurePlaces
    BY <1>14 DEF StageFailure, FailurePlace, FailurePlaces
  <2>5. /\ UNCHANGED <<feed, ledger, pending, running, archive, claim, job, return, loaded,
                       sync, hand, commands, imports, runs>>
        /\ pc' \in Steps
    BY <1>14 DEF StageFailure
  <2> QED
    BY <2>3, <2>4, <2>5, <1>b
<1>15. CASE ReleaseClaim
  <2>1. \E c \in {"active", "failed", "refused"} : claim' = [claim EXCEPT ![job] = c]
    <3>1. claim[job] \in {"active", "failed", "refused"}
      BY <1>15 DEF ReleaseClaim
    <3> QED
      BY <3>1, <1>15 DEF ReleaseClaim
  <2>2. target' \in FailurePlaces /\ pc' \in Steps
    BY <1>15 DEF ReleaseClaim, EndJob, FailurePlaces
  <2> QED
    BY <2>1, <2>2, <1>15, <1>b DEF ReleaseClaim, EndJob
<1>16. ASSUME NEW j \in Job, Submit(j) PROVE TypeOK'
  BY <1>16, <1>b DEF Submit
<1>17. ASSUME NEW j \in Job, Rewrite(j) PROVE TypeOK'
  BY <1>17, <1>b DEF Rewrite, Spend
<1>18. ASSUME NEW j \in Job, BeginCommand(j) PROVE TypeOK'
  <2>1. CASE BeginApprove(j)
    <3>1. pending[j].content \in Content
      BY <2>1, Contents DEF BeginApprove
    <3>2. [content |-> pending[j].content, approved |-> TRUE] \in File
      BY <3>1, Files
    <3> QED
      BY <2>1, <3>2, <1>18, <1>b DEF BeginCommand, BeginApprove
  <2>2. CASE \E file \in Enqueued : BeginEnqueue(j, file)
    <3>1. PICK file \in Enqueued : BeginEnqueue(j, file)
      BY <2>2
    <3>2. file \in File
      BY Contents, Files DEF Enqueued
    <3> QED
      BY <3>1, <3>2, <1>18, <1>b DEF BeginCommand, BeginEnqueue
  <2> QED
    BY <2>1, <2>2, <1>18 DEF BeginCommand
<1>19. ASSUME NEW j \in Job, RecoverRunning(j) PROVE TypeOK'
  BY <1>19, <1>b DEF RecoverRunning
<1>20. ASSUME NEW j \in Job, SyncFile(j) PROVE TypeOK'
  <2>1. files[j] \in Content
    BY <1>20, Contents DEF SyncFile
  <2>2. CASE ImportNew(j)
    <3>1. [content |-> files[j], approved |-> TRUE] \in File
      BY <2>1, Files
    <3>2. Append(imports[j], files[j]) \in Seq(Content)
      BY <2>1
    <3> QED
      BY <2>1, <2>2, <3>1, <3>2, <1>20, <1>b DEF SyncFile, ImportNew, Record
  <2>3. CASE RecordConflict(j)
    <3>1. [job |-> j, place |-> "conflict", content |-> Nothing] \in Archive
      BY Archives
    <3> QED
      BY <2>1, <2>3, <3>1, <1>20, <1>b DEF SyncFile, RecordConflict
  <2>4. CASE RecordExisting(j) \/ AlreadySeen(j)
    BY <2>1, <2>4, <1>20, <1>b DEF SyncFile, RecordExisting, AlreadySeen, Record
  <2> QED
    BY <2>2, <2>3, <2>4, <1>20 DEF SyncFile
<1>21. ASSUME NEW j \in Job, Load(j) PROVE TypeOK'
  BY <1>21, <1>b, Files DEF Load
<1>22. ASSUME NEW d \in staging, RecoverStaging(d) PROVE TypeOK'
  <2>1. d \in StagedDir
    BY DEF TypeOK
  <2>2. [job |-> d.job, place |-> "recovered", content |-> d.content] \in Archive
    BY <2>1, <1>22, Directories, Archives DEF RecoverStaging
  <2>3. staging' \subseteq StagedDir /\ archive' \subseteq Archive
    BY <2>2, <1>22 DEF RecoverStaging, RecoverDirectory
  <2> QED
    BY <2>3, <1>22, <1>b DEF RecoverStaging, EndJob, RecoverDirectory
<1>23. ASSUME NEW d \in staging, PublishSuccess(d) PROVE TypeOK'
  <2>1. d \in StagedDir
    BY DEF TypeOK
  <2>2. [job |-> job, place |-> "completed", content |-> d.content] \in Archive
    BY <2>1, <1>23, Directories, Archives DEF PublishSuccess
  <2>3. staging' \subseteq StagedDir /\ archive' \subseteq Archive
    BY <2>2, <1>23 DEF PublishSuccess, RecoverDirectory
  <2> QED
    BY <2>3, <1>23, <1>b DEF PublishSuccess, EndJob, RecoverDirectory, FailurePlaces
<1>24. ASSUME NEW d \in staging, MoveToFailure(d) PROVE TypeOK'
  <2>1. job \in Job
    BY <1>24 DEF MoveToFailure
  <2>2. Staged(running[job], TRUE) \in StagedDir
    BY <2>1, Directories DEF Staged
  <2>3. staging' \subseteq StagedDir
    BY <2>2, <1>24 DEF MoveToFailure
  <2> QED
    BY <2>3, <1>24, <1>b DEF MoveToFailure
<1>25. ASSUME NEW d \in staging, PublishFailure(d) PROVE TypeOK'
  <2>1. d \in StagedDir
    BY DEF TypeOK
  <2>2. [job |-> job, place |-> target, content |-> d.content] \in Archive
    BY <2>1, <1>25, Directories, Archives DEF PublishFailure, FailurePlaces
  <2>3. staging' \subseteq StagedDir /\ archive' \subseteq Archive
    BY <2>2, <1>25 DEF PublishFailure, FailurePlace, RecoverDirectory
  <2> QED
    BY <2>3, <1>25, <1>b, Directories DEF PublishFailure, EndJob, RecoverDirectory
<1> QED
  BY <1>1, <1>2, <1>3, <1>4, <1>5, <1>6, <1>7, <1>8, <1>9, <1>10, <1>11, <1>12,
     <1>13, <1>14, <1>15, <1>16, <1>17, <1>18, <1>19, <1>20, <1>21, <1>22, <1>23,
     <1>24, <1>25 DEF Next, HostStep

\* Whoever handles a job has one, with a file that could be parsed.
LEMMA HandKept == Inv /\ [Next]_vars => HandIsKnown'
<1> SUFFICES ASSUME Inv, [Next]_vars PROVE HandIsKnown'
  OBVIOUS
<1> USE DEF vars, queue, sync, host, Inv, HandIsKnown
<1>t. pending \in [Job -> File \cup {NoFile}] /\ return \in {"recover", "claim", "idle"}
  BY DEF TypeOK
<1>1. CASE UNCHANGED vars \/ HostInit \/ Start \/ Stop \/ Crash \/ ArchivingFails
           \/ Recovered \/ BeginSync \/ SkipSync \/ SaveLedger \/ SyncRaises \/
           NothingToClaim \/ PrepareFails \/ \E j \in Job : Submit(j) \/ Rewrite(j)
           \/ BeginCommand(j) \/ SyncFile(j)
  BY <1>1, <1>t DEF HostInit, InitStage, InitMove, InitPublish, InitRelease,
     InitStaging, RecoverDirectory, Spend, FailurePlace, Start, Stop, Crash, Die, NoWork,
     ArchivingFails, Recovered,
     BeginSync, SkipSync, SaveLedger, SyncRaises, NothingToClaim, PrepareFails,
     Submit, Rewrite, BeginCommand, BeginApprove, BeginEnqueue, Enqueued, SyncFile,
     Record, ImportNew, RecordExisting, RecordConflict, AlreadySeen, RecoverStaging
<1>2. CASE \E d \in staging : RecoverStaging(d)
  BY <1>2, <1>t DEF RecoverStaging, RecoverDirectory
<1>3. CASE FinishCommand
  <2>1. command.job \in Job /\ command.file \in File /\ command.file # NoFile
    BY <1>3, Files DEF FinishCommand, TypeOK
  <2> QED
    BY <1>3, <1>t, <2>1 DEF FinishCommand
<1>4. CASE ClaimFile
  BY <1>4, <1>t DEF ClaimFile
<1>5. CASE Run
  BY <1>5, <1>t DEF Run
<1>6. CASE StageSuccess
  BY <1>6, <1>t DEF StageSuccess, Staged
<1>7. CASE Collect
  BY <1>7, <1>t DEF Collect
<1>8. CASE UnlinkRunning
  BY <1>8, <1>t DEF UnlinkRunning
<1>9. CASE SuccessRaises
  BY <1>9, <1>t DEF SuccessRaises, Spend
<1>10. CASE StageFailure
  BY <1>10, <1>t DEF StageFailure, Staged
<1>11. CASE ReleaseClaim
  BY <1>11, <1>t DEF ReleaseClaim, EndJob, Spend
<1>12. ASSUME NEW j \in Job, RecoverRunning(j) PROVE HandIsKnown'
  BY <1>12, <1>t DEF RecoverRunning
<1>13. ASSUME NEW j \in Job, Load(j) PROVE HandIsKnown'
  <2>1. pending[j] \in File
    BY <1>13, <1>t, Files, Contents DEF Load, Approvable
  <2> QED
    BY <1>13, <2>1, Files, Contents DEF Load
<1>14. ASSUME NEW d \in staging, PublishSuccess(d) PROVE HandIsKnown'
  BY <1>14, <1>t DEF PublishSuccess, EndJob
<1>15. ASSUME NEW d \in staging, MoveToFailure(d) PROVE HandIsKnown'
  BY <1>15, <1>t DEF MoveToFailure, Staged
<1>16. ASSUME NEW d \in staging, PublishFailure(d) PROVE HandIsKnown'
  BY <1>16, <1>t DEF PublishFailure, FailurePlace
<1> QED
  BY <1>1, <1>2, <1>3, <1>4, <1>5, <1>6, <1>7, <1>8, <1>9, <1>10, <1>11, <1>12,
     <1>13, <1>14, <1>15, <1>16 DEF Next, HostStep

\* A host-init takes files out of running/, and fills no directory of the host's.
LEMMA InitTakes ==
    ASSUME running \in [Job -> Content \cup {Nothing}], HostInit
    PROVE  /\ \A k \in Job : running'[k] = running[k] \/ running'[k] = Nothing
           /\ \A d \in staging' : d.open => d \in staging
<1>1. \A j, c : ~InitDirectory(j, c).open
  BY DEF InitDirectory
<1>2. ASSUME NEW j \in Job, InitMove(j)
      PROVE  /\ \A k \in Job : running'[k] = running[k] \/ running'[k] = Nothing
             /\ \A d \in staging' : d.open => d \in staging
  BY <1>1, <1>2 DEF InitMove
<1>3. ASSUME NEW j \in Job, InitStage(j) \/ InitPublish(j) \/ InitRelease(j)
      PROVE  UNCHANGED running /\ \A d \in staging' : d.open => d \in staging
  BY <1>1, <1>3 DEF InitStage, InitPublish, InitRelease
<1>4. ASSUME NEW d \in staging, InitStaging(d)
      PROVE  UNCHANGED running /\ \A e \in staging' : e.open => e \in staging
  BY <1>4 DEF InitStaging, RecoverDirectory
<1> QED
  BY <1>2, <1>3, <1>4 DEF HostInit

\* Outside of recovery no other file is in running/.
LEMMA RunningKept == Inv /\ [Next]_vars => RunningIsInHand'
<1> SUFFICES ASSUME Inv, [Next]_vars PROVE RunningIsInHand'
  OBVIOUS
<1> USE DEF vars, queue, sync, host, Inv, RunningIsInHand
<1>t. running \in [Job -> Content \cup {Nothing}] /\ return \in {"recover", "claim", "idle"}
  BY DEF TypeOK
<1>1. CASE UNCHANGED vars \/ FinishCommand \/ Start \/ Stop \/ Recovered \/
           BeginSync \/ SkipSync \/ SaveLedger \/ SyncRaises \/ NothingToClaim \/
           PrepareFails \/ StageFailure \/ \E j \in Job : Submit(j) \/ Rewrite(j)
           \/ BeginCommand(j) \/ SyncFile(j) \/ Load(j)
  BY <1>1, <1>t DEF FinishCommand, Start, Stop, Recovered, BeginSync, SkipSync,
     SaveLedger, SyncRaises, Spend, NothingToClaim, PrepareFails, StageFailure,
     Staged, Submit, Rewrite, BeginCommand, BeginApprove, BeginEnqueue, Enqueued,
     SyncFile, Record, ImportNew, RecordExisting, RecordConflict, AlreadySeen, Load
<1>2. CASE HostInit
  BY <1>2, InitTakes DEF HostInit, TypeOK
<1>3. CASE Crash
  BY <1>3, <1>t DEF Crash, Die, NoWork, Spend
<1>4. CASE ArchivingFails
  BY <1>4, <1>t DEF ArchivingFails, Die, NoWork
<1>5. CASE ClaimFile
  BY <1>5, <1>t DEF ClaimFile
<1>6. CASE Run
  BY <1>6, <1>t DEF Run
<1>7. CASE StageSuccess
  BY <1>7, <1>t DEF StageSuccess, Staged
<1>8. CASE Collect
  BY <1>8, <1>t DEF Collect
<1>9. CASE UnlinkRunning
  BY <1>9, <1>t DEF UnlinkRunning
<1>10. CASE SuccessRaises
  BY <1>10, <1>t DEF SuccessRaises, Spend
<1>11. CASE ReleaseClaim
  BY <1>11, <1>t DEF ReleaseClaim, EndJob, Spend
<1>12. ASSUME NEW j \in Job, RecoverRunning(j) PROVE RunningIsInHand'
  BY <1>12, <1>t DEF RecoverRunning
<1>13. ASSUME NEW d \in staging, RecoverStaging(d) PROVE RunningIsInHand'
  BY <1>13, <1>t DEF RecoverStaging, RecoverDirectory
<1>14. ASSUME NEW d \in staging, PublishSuccess(d) PROVE RunningIsInHand'
  BY <1>14, <1>t DEF PublishSuccess, EndJob
<1>15. ASSUME NEW d \in staging, MoveToFailure(d) PROVE RunningIsInHand'
  BY <1>15, <1>t DEF MoveToFailure, Staged
<1>16. ASSUME NEW d \in staging, PublishFailure(d) PROVE RunningIsInHand'
  BY <1>16, <1>t DEF PublishFailure, FailurePlace
<1> QED
  BY <1>1, <1>2, <1>3, <1>4, <1>5, <1>6, <1>7, <1>8, <1>9, <1>10, <1>11, <1>12,
     <1>13, <1>14, <1>15, <1>16 DEF Next, HostStep

\* Only the directory of the job in hand is being filled.
LEMMA OpenKept == Inv /\ [Next]_vars => OpenIsInHand'
<1> SUFFICES ASSUME Inv, [Next]_vars PROVE OpenIsInHand'
  OBVIOUS
<1> USE DEF vars, queue, sync, host, Inv, OpenIsInHand, Open
<1>t. \A d \in staging : d.open \in BOOLEAN
  BY Directories DEF TypeOK
<1>1. CASE UNCHANGED vars \/ FinishCommand \/ Start \/ Stop \/ Recovered \/
           BeginSync \/ SkipSync \/ SaveLedger \/ SyncRaises \/ ClaimFile \/
           NothingToClaim \/ PrepareFails \/ Run \/ \E j \in Job : Submit(j) \/
           Rewrite(j) \/ BeginCommand(j) \/ RecoverRunning(j) \/ SyncFile(j) \/
           Load(j)
  BY <1>1, <1>t DEF FinishCommand, Start, Stop, Recovered, BeginSync, SkipSync,
     SaveLedger, SyncRaises, Spend, ClaimFile, NothingToClaim, PrepareFails, Run,
     Submit, Rewrite, BeginCommand, BeginApprove, BeginEnqueue, Enqueued,
     RecoverRunning, SyncFile, Record, ImportNew, RecordExisting, RecordConflict,
     AlreadySeen, Load
<1>2. CASE HostInit
  BY <1>2, InitTakes DEF HostInit, TypeOK
<1>3. CASE Crash
  BY <1>3, <1>t, NothingOpen DEF Crash, Die, NoWork, Spend
<1>4. CASE ArchivingFails
  BY <1>4, <1>t, NothingOpen DEF ArchivingFails, Die, NoWork
<1>5. CASE StageSuccess
  BY <1>5, <1>t DEF StageSuccess, Staged
<1>6. CASE Collect
  BY <1>6, <1>t DEF Collect
<1>7. CASE UnlinkRunning
  BY <1>7, <1>t DEF UnlinkRunning
<1>8. CASE SuccessRaises
  BY <1>8, <1>t, NothingOpen DEF SuccessRaises, Spend
<1>9. CASE StageFailure
  <2>1. \A d \in staging : ~d.open
    BY <1>9 DEF StageFailure
  <2>2. \A d \in staging' : d.open => d = Staged(Nothing, TRUE)
    BY <2>1, <1>9 DEF StageFailure
  <2>3. /\ Staged(Nothing, TRUE).job = job /\ Staged(Nothing, TRUE).content = Nothing
    BY DEF Staged
  <2> QED
    BY <2>2, <2>3, <1>9 DEF StageFailure
<1>10. CASE ReleaseClaim
  BY <1>10, <1>t DEF ReleaseClaim, EndJob, Spend
<1>11. ASSUME NEW d \in staging, RecoverStaging(d) PROVE OpenIsInHand'
  BY <1>11, <1>t DEF RecoverStaging, RecoverDirectory
<1>12. ASSUME NEW d \in staging, PublishSuccess(d) PROVE OpenIsInHand'
  BY <1>12, <1>t DEF PublishSuccess, EndJob
<1>13. ASSUME NEW d \in staging, MoveToFailure(d) PROVE OpenIsInHand'
  <2>1. \A e \in staging : e.open => e = d
    BY <1>13 DEF MoveToFailure
  <2>2. \A e \in staging' : e.open => e = Staged(running[job], TRUE)
    BY <2>1, <1>13 DEF MoveToFailure
  <2>3. Staged(running[job], TRUE).job = job
    BY DEF Staged
  <2> QED
    BY <2>2, <2>3, <1>13 DEF MoveToFailure
<1>14. ASSUME NEW d \in staging, PublishFailure(d) PROVE OpenIsInHand'
  BY <1>14, <1>t DEF PublishFailure, FailurePlace
<1> QED
  BY <1>1, <1>2, <1>3, <1>4, <1>5, <1>6, <1>7, <1>8, <1>9, <1>10, <1>11, <1>12,
     <1>13, <1>14 DEF Next, HostStep

\* What lies in staging or in an archive does so after a step of a host-init.
LEMMA InitKeeps ==
    ASSUME HostInit
    PROVE  \A j, c : c # Nothing /\ Kept(j, c) => Kept(j, c)'
<1> USE DEF Kept
<1>1. ASSUME NEW k \in Job, InitMove(k)
      PROVE  \A j, c : c # Nothing /\ Kept(j, c) => Kept(j, c)'
  <2>1. InitDirectory(k, Nothing).content = Nothing
    BY DEF InitDirectory
  <2> QED
    BY <2>1, <1>1 DEF InitMove
<1>2. ASSUME NEW k \in Job, InitPublish(k)
      PROVE  \A j, c : c # Nothing /\ Kept(j, c) => Kept(j, c)'
  <2> DEFINE dir == InitDirectory(k, installer.content)
             arc == [job |-> k, place |-> installer.target, content |-> installer.content]
  <2>1. dir.job = arc.job /\ dir.content = arc.content
    BY DEF InitDirectory
  <2>2. staging' = staging \ {dir} /\ archive' = archive \cup {arc}
    BY <1>2 DEF InitPublish
  <2> HIDE DEF dir, arc
  <2> QED
    BY <2>1, <2>2
<1>3. ASSUME NEW d \in staging, InitStaging(d)
      PROVE  \A j, c : c # Nothing /\ Kept(j, c) => Kept(j, c)'
  <2> DEFINE arc == [job |-> d.job, place |-> "recovered", content |-> d.content]
  <2>1. d.job = arc.job /\ d.content = arc.content
    OBVIOUS
  <2>2. staging' = staging \ {d} /\ archive' = archive \cup {arc}
    BY <1>3 DEF InitStaging, RecoverDirectory
  <2> HIDE DEF arc
  <2> QED
    BY <2>1, <2>2
<1>4. ASSUME NEW k \in Job, InitStage(k) \/ InitRelease(k)
      PROVE  \A j, c : c # Nothing /\ Kept(j, c) => Kept(j, c)'
  BY <1>4 DEF InitStage, InitRelease
<1> QED
  BY <1>1, <1>2, <1>3, <1>4 DEF HostInit

\* What is in running/ while a success is archived has been copied.
LEMMA CopyKept == Inv /\ [Next]_vars => CopiedFirst'
<1> SUFFICES ASSUME Inv, [Next]_vars PROVE CopiedFirst'
  OBVIOUS
<1> USE DEF vars, queue, sync, host, Inv, CopiedFirst, Kept, HasRunning
<1>t. /\ running \in [Job -> Content \cup {Nothing}]
      /\ (pc \in {"stage", "collect", "unlink"} => job \in Job)
      /\ return \in {"recover", "claim", "idle"}
  BY DEF TypeOK, HandIsKnown
<1>1. CASE UNCHANGED vars \/ FinishCommand \/ Start \/ Stop \/ Recovered \/
           BeginSync \/ SkipSync \/ SaveLedger \/ SyncRaises \/ NothingToClaim \/
           PrepareFails \/ Run \/ \E j \in Job : Submit(j) \/ Rewrite(j) \/
           BeginCommand(j) \/ RecoverRunning(j) \/ Load(j)
  BY <1>1, <1>t DEF FinishCommand, Start, Stop, Recovered, BeginSync, SkipSync,
     SaveLedger, SyncRaises, Spend, NothingToClaim, PrepareFails, Run, Submit,
     Rewrite, BeginCommand, BeginApprove, BeginEnqueue, Enqueued, RecoverRunning,
     Load
<1>2. CASE HostInit
  <2>1. \A j, c : c # Nothing /\ Kept(j, c) => Kept(j, c)'
    BY <1>2, InitKeeps DEF Kept
  <2>2. UNCHANGED <<pc, job>>
    BY <1>2 DEF HostInit
  <2> SUFFICES ASSUME pc \in {"collect", "unlink"}, running'[job] # Nothing
               PROVE  Kept(job, running[job])'
    BY <2>2
  <2>3. running'[job] = running[job] /\ running[job] # Nothing
    BY <1>2, <1>t, InitTakes
  <2> QED
    BY <2>1, <2>2, <2>3
<1>3. CASE Crash
  BY <1>3, <1>t DEF Crash, Die, NoWork, Spend
<1>4. CASE ArchivingFails
  BY <1>4, <1>t DEF ArchivingFails, Die, NoWork
<1>5. CASE ClaimFile
  BY <1>5, <1>t DEF ClaimFile
<1>6. CASE StageSuccess
  <2>1. CASE pc' = "collect"
    <3>1. Staged(running[job], HasRunning) \in staging'
      BY <2>1, <1>6 DEF StageSuccess
    <3>2. /\ Staged(running[job], HasRunning).job = job
          /\ Staged(running[job], HasRunning).content = running[job]
      BY DEF Staged
    <3> QED
      BY <3>1, <3>2, <1>6 DEF StageSuccess
  <2>2. CASE pc' # "collect"
    BY <2>2, <1>6 DEF StageSuccess
  <2> QED
    BY <2>1, <2>2
<1>7. CASE Collect
  BY <1>7, <1>t DEF Collect
<1>8. CASE UnlinkRunning
  BY <1>8, <1>t DEF UnlinkRunning
<1>9. CASE SuccessRaises
  BY <1>9, <1>t DEF SuccessRaises, Spend
<1>10. CASE StageFailure
  BY <1>10, <1>t DEF StageFailure, Staged
<1>11. CASE ReleaseClaim
  BY <1>11, <1>t DEF ReleaseClaim, EndJob, Spend
<1>12. ASSUME NEW j \in Job, SyncFile(j) PROVE CopiedFirst'
  BY <1>12, <1>t DEF SyncFile, Record, ImportNew, RecordExisting, RecordConflict,
     AlreadySeen
<1>13. ASSUME NEW d \in staging, RecoverStaging(d) PROVE CopiedFirst'
  BY <1>13, <1>t DEF RecoverStaging, RecoverDirectory
<1>14. ASSUME NEW d \in staging, PublishSuccess(d) PROVE CopiedFirst'
  BY <1>14, <1>t DEF PublishSuccess, EndJob
<1>15. ASSUME NEW d \in staging, MoveToFailure(d) PROVE CopiedFirst'
  BY <1>15, <1>t DEF MoveToFailure, Staged
<1>16. ASSUME NEW d \in staging, PublishFailure(d) PROVE CopiedFirst'
  BY <1>16, <1>t DEF PublishFailure, FailurePlace
<1> QED
  BY <1>1, <1>2, <1>3, <1>4, <1>5, <1>6, <1>7, <1>8, <1>9, <1>10, <1>11, <1>12,
     <1>13, <1>14, <1>15, <1>16 DEF Next, HostStep

\* What a set of events has to do with an event.
LEMMA Counted ==
    ASSUME TypeOK, NEW e \in Events, Spend(e), NEW S \in SUBSET Events, e \in S
    PROVE  ~Never(S)'
<1>1. budget'[e].spent = budget[e].spent + 1 /\ budget[e].spent \in Nat
  BY SpendAdds DEF TypeOK
<1> QED
  BY <1>1 DEF Never

\* Whatever a host-init does, it has been counted.
LEMMA InitIsCounted ==
    ASSUME TypeOK, InstallerIsCounted, [Next]_vars, HostInit
    PROVE  ~Never({"init"})'
<1>1. "init" \in Events
  BY DEF Events
<1>2. CASE Spend("init")
  BY <1>1, <1>2, Counted
<1>3. CASE installer # NoInstaller
  BY <1>1, <1>3, NeverBefore DEF InstallerIsCounted
<1>4. NoInstaller.step = "none"
  BY DEF NoInstaller
<1>5. ASSUME NEW j \in Job, InitMove(j) \/ InitPublish(j) \/ InitRelease(j)
      PROVE  installer # NoInstaller
  BY <1>4, <1>5 DEF InitMove, InitPublish, InitRelease
<1> QED
  BY <1>2, <1>3, <1>5 DEF HostInit, InitStage, InitStaging

\* A host-init is counted when it begins.
LEMMA InstallerKept == Inv /\ [Next]_vars => InstallerIsCounted'
<1> SUFFICES ASSUME Inv, [Next]_vars, Never({"init"})' PROVE installer' = NoInstaller
  BY DEF InstallerIsCounted
<1>1. installer = NoInstaller
  BY NeverBefore DEF Inv, InstallerIsCounted, Events
<1>2. ~HostInit
  BY InitIsCounted DEF Inv
<1>3. UNCHANGED installer
  BY <1>2 DEF Next, HostStep, vars, Submit, Rewrite, BeginCommand, FinishCommand, Start,
     Stop, Crash, Die, ArchivingFails, RecoverRunning, RecoverStaging, Recovered,
     BeginSync, SkipSync, SyncFile, SaveLedger, SyncRaises, Load, ClaimFile,
     NothingToClaim, PrepareFails, Run, StageSuccess, Collect, UnlinkRunning,
     PublishSuccess, SuccessRaises, StageFailure, MoveToFailure, PublishFailure,
     ReleaseClaim
<1> QED
  BY <1>1, <1>3

\* The place of a failure stays what it was when its directory was created.
LEMMA TargetKept == Inv /\ [Next]_vars => TargetIsKnown'
<1> SUFFICES ASSUME Inv, [Next]_vars, pc' \in {"failMove", "failPublish"}
             PROVE  /\ target' = "repeated" => Archived(job, {"failed"})'
                    /\ Never({"init"})' /\ target' = "failed" => ~Archived(job, {"failed"})'
  BY DEF TargetIsKnown
<1> USE DEF vars, queue, sync, host, Inv, TargetIsKnown
<1>n. Never({"init"})' => Never({"init"})
  BY NeverBefore DEF Events
<1>t. return \in {"recover", "claim", "idle"}
  BY DEF TypeOK
<1>1. CASE StageFailure
  BY <1>1 DEF StageFailure, FailurePlace, Archived
<1>2. CASE HostInit
  <2>1. UNCHANGED <<pc, job, target>>
    BY <1>2 DEF HostInit
  <2>2. archive \subseteq archive'
    BY <1>2 DEF HostInit, InitStage, InitMove, InitPublish, InitRelease, InitStaging,
       RecoverDirectory
  <2> QED
    BY <2>1, <2>2, <1>2, InitIsCounted DEF Archived
<1>3. CASE \E j \in Job : SyncFile(j)
  <2>1. \A a : a.place = "failed" => (a \in archive' <=> a \in archive)
    BY <1>3 DEF SyncFile, ImportNew, RecordExisting, RecordConflict, AlreadySeen
  <2> QED
    BY <2>1, <1>3, <1>n DEF SyncFile, Archived
<1>4. CASE UNCHANGED <<pc, job, target, archive>>
  BY <1>4, <1>n DEF Archived
<1>5. CASE \E d \in staging : MoveToFailure(d)
  BY <1>5, <1>n DEF MoveToFailure, Archived
<1>6. CASE \E d \in staging :
              RecoverStaging(d) \/ PublishSuccess(d) \/ PublishFailure(d)
  BY <1>6, <1>t DEF RecoverStaging, PublishSuccess, PublishFailure, EndJob
<1> QED
  BY <1>1, <1>2, <1>3, <1>4, <1>5, <1>6, <1>t DEF Next, HostStep, Submit, Rewrite,
     BeginCommand, FinishCommand, Start, Stop, Crash, Die, ArchivingFails,
     RecoverRunning, Recovered, BeginSync, SkipSync, SaveLedger, SyncRaises, Load,
     ClaimFile, NothingToClaim, PrepareFails, Run, StageSuccess, Collect,
     UnlinkRunning, SuccessRaises, ReleaseClaim, EndJob

\* What a command writes was there to be read.
LEMMA CommandKept == Inv /\ [Next]_vars => CommandIsKnown'
<1> SUFFICES ASSUME Inv, [Next]_vars PROVE CommandIsKnown'
  OBVIOUS
<1> USE DEF vars, queue, sync, host, Inv, CommandIsKnown
<1>n. /\ Never({"approve", "enqueue"})' => Never({"approve", "enqueue"})
      /\ Never({"rewrites"})' => Never({"rewrites"})
      /\ Never({"rewrites", "enqueue"})' => Never({"rewrites", "enqueue"})
  BY NeverBefore DEF Events, Faults
<1>t. /\ feed \in [Job -> {Nothing, "v1", "v2"}] /\ files \in [Job -> {Nothing, "v1", "v2"}]
      /\ imports \in [Job -> Seq(Content)] /\ pending \in [Job -> File \cup {NoFile}]
  BY DEF TypeOK
<1>w. Nothing # "v2"
  BY Contents
<1>1. CASE UNCHANGED vars \/ HostInit \/ Start \/ Stop \/ Crash \/ ArchivingFails
           \/ Recovered \/ SkipSync \/ SaveLedger \/ NothingToClaim \/ PrepareFails
           \/ Run \/ StageSuccess \/ Collect \/ UnlinkRunning \/ SuccessRaises \/
           StageFailure \/ ReleaseClaim \/ \E j \in Job : RecoverRunning(j) \/
           Load(j)
  BY <1>1, <1>n, <1>t, <1>w DEF HostInit, InitStage, InitMove, InitPublish, InitRelease,
     InitStaging,
     RecoverDirectory, Spend, FailurePlace, Start, Stop, Crash, Die, NoWork,
     ArchivingFails, Recovered, SkipSync, SaveLedger, NothingToClaim, PrepareFails,
     Run, StageSuccess, Staged, Collect, UnlinkRunning, SuccessRaises, StageFailure,
     ReleaseClaim, EndJob, RecoverRunning, Load, RecoverStaging, PublishSuccess,
     MoveToFailure, PublishFailure
<1>2. CASE \E d \in staging : RecoverStaging(d) \/ PublishSuccess(d)
                              \/ MoveToFailure(d) \/ PublishFailure(d)
  BY <1>2, <1>n, <1>t, <1>w DEF RecoverStaging, PublishSuccess, MoveToFailure,
     PublishFailure, RecoverDirectory, EndJob, Staged, FailurePlace
<1>3. CASE FinishCommand
  BY <1>3, <1>n, <1>t, <1>w DEF FinishCommand
<1>4. CASE BeginSync
  BY <1>4, <1>n, <1>t, <1>w DEF BeginSync
<1>5. CASE SyncRaises
  BY <1>5, <1>n, <1>t, <1>w DEF SyncRaises, Spend
<1>6. CASE ClaimFile
  BY <1>6, <1>n, <1>t, <1>w, Files DEF ClaimFile
<1>7. ASSUME NEW j \in Job, Submit(j) PROVE CommandIsKnown'
  BY <1>7, <1>n, <1>t, <1>w DEF Submit
<1>8. ASSUME NEW j \in Job, Rewrite(j) PROVE CommandIsKnown'
  <2>1. ~Never({"rewrites"})' /\ ~Never({"rewrites", "enqueue"})'
    <3>1. Events = {"crashes", "syncs", "io", "approve", "enqueue", "init", "rewrites"}
      BY DEF Events, Faults
    <3> QED
      BY <1>8, <3>1, Counted DEF Rewrite
  <2>2. Never({"approve", "enqueue"})' => command' = NoCommand
    BY <1>8, <1>n DEF Rewrite
  <2> QED
    BY <2>1, <2>2
<1>9. ASSUME NEW j \in Job, BeginCommand(j) PROVE CommandIsKnown'
  <2>e. Events = {"crashes", "syncs", "io", "approve", "enqueue", "init", "rewrites"}
    BY DEF Events, Faults
  <2>1. CASE BeginApprove(j)
    <3>1. ~Never({"approve", "enqueue"})'
      BY <2>1, <2>e, Counted DEF BeginApprove
    <3>2. command'.file.content = pending[j].content
      BY <2>1 DEF BeginApprove
    <3>3. pending[j].content # Nothing
      BY <2>1, Contents DEF BeginApprove
    <3> QED
      BY <3>1, <3>2, <3>3, <1>9, <1>n, <1>t DEF BeginCommand
  <2>2. CASE \E file \in Enqueued : BeginEnqueue(j, file)
    <3>1. ~Never({"approve", "enqueue"})' /\ ~Never({"rewrites", "enqueue"})'
      BY <2>2, <2>e, Counted DEF BeginEnqueue
    <3> QED
      BY <3>1, <1>9, <1>n, <1>t DEF BeginCommand
  <2> QED
    BY <2>1, <2>2, <1>9 DEF BeginCommand
<1>10. ASSUME NEW j \in Job, SyncFile(j) PROVE CommandIsKnown'
  <2>1. files[j] \in {"v1", "v2"} /\ files' = [files EXCEPT ![j] = Nothing]
    BY <1>10, <1>t DEF SyncFile
  <2>2. CASE ImportNew(j)
    <3>1. imports' = [imports EXCEPT ![j] = Append(imports[j], files[j])]
      BY <2>2 DEF ImportNew
    <3>2. pending' = [pending EXCEPT ![j] = [content |-> files[j], approved |-> TRUE]]
      BY <2>2 DEF ImportNew
    <3>3. ASSUME Never({"rewrites"})'
          PROVE  \A k \in Job : \A n \in DOMAIN imports'[k] : imports'[k][n] = "v1"
      <4>1. files[j] = "v1"
        BY <2>1, <3>3, <1>n
      <4>2. Append(imports[j], files[j]) \in Seq(Content) /\ imports[j] \in Seq(Content)
        BY <2>1, <1>t, Contents
      <4>3. \A n \in DOMAIN Append(imports[j], files[j]) :
               Append(imports[j], files[j])[n] = "v1"
        BY <4>1, <4>2, <3>3, <1>n
      <4>4. \A k \in Job : imports'[k] = IF k = j THEN Append(imports[j], files[j])
                                         ELSE imports[k]
        BY <3>1, <1>t
      <4> QED
        BY <4>3, <4>4, <3>3, <1>n
    <3>4. ASSUME Never({"rewrites", "enqueue"})'
          PROVE  \A k \in Job : pending'[k].content \in {Nothing, "v1"}
      <4>1. Never({"rewrites"})
        BY <3>4, <1>n DEF Never
      <4>2. files[j] = "v1"
        BY <4>1, <2>1
      <4> QED
        BY <4>2, <3>2, <3>4, <1>n, <1>t
    <3> QED
      BY <2>1, <3>3, <3>4, <1>10, <1>n, <1>t, <1>w DEF SyncFile
  <2>3. CASE ~ImportNew(j)
    BY <2>3, <2>1, <1>10, <1>n, <1>t, <1>w DEF SyncFile, RecordExisting, RecordConflict,
       AlreadySeen
  <2> QED
    BY <2>2, <2>3
<1> QED
  BY <1>1, <1>2, <1>3, <1>4, <1>5, <1>6, <1>7, <1>8, <1>9, <1>10 DEF Next, HostStep

\* A synchronization forgets nothing.
LEMMA MemoryKept == Inv /\ [Next]_vars => MemoryGrows'
<1> SUFFICES ASSUME Inv, [Next]_vars PROVE MemoryGrows'
  OBVIOUS
<1> USE DEF vars, queue, sync, host, Inv, MemoryGrows
<1>t. memory \in [Job -> Content \cup {Nothing}] /\ return \in {"recover", "claim", "idle"}
  BY DEF TypeOK
<1>1. CASE UNCHANGED vars \/ FinishCommand \/ HostInit \/ Start \/ Stop \/ Crash \/
           ArchivingFails \/ Recovered \/ SkipSync \/ SaveLedger \/ SyncRaises \/
           ClaimFile \/ NothingToClaim \/ PrepareFails \/ Run \/ StageSuccess \/
           Collect \/ UnlinkRunning \/ SuccessRaises \/ StageFailure \/ \E j \in
           Job : Submit(j) \/ Rewrite(j) \/ BeginCommand(j) \/ RecoverRunning(j) \/
           Load(j)
  BY <1>1, <1>t DEF FinishCommand, HostInit, InitStage, InitMove, InitPublish,
     InitRelease, InitStaging,
     RecoverDirectory, Spend, FailurePlace, Start, Stop, Crash, Die, NoWork,
     ArchivingFails, Recovered, SkipSync, SaveLedger, SyncRaises, ClaimFile,
     NothingToClaim, PrepareFails, Run, StageSuccess, Staged, Collect,
     UnlinkRunning, SuccessRaises, StageFailure, Submit, Rewrite, BeginCommand,
     BeginApprove, BeginEnqueue, Enqueued, RecoverRunning, Load, RecoverStaging,
     PublishSuccess, EndJob, MoveToFailure, PublishFailure
<1>2. CASE \E d \in staging : RecoverStaging(d) \/ PublishSuccess(d)
                              \/ MoveToFailure(d) \/ PublishFailure(d)
  BY <1>2, <1>t DEF RecoverStaging, PublishSuccess, MoveToFailure, PublishFailure,
     RecoverDirectory, EndJob, Staged, FailurePlace
<1>3. CASE BeginSync
  BY <1>3, <1>t DEF BeginSync
<1>4. CASE ReleaseClaim
  BY <1>4, <1>t DEF ReleaseClaim, EndJob, Spend
<1>5. ASSUME NEW j \in Job, SyncFile(j) PROVE MemoryGrows'
  BY <1>5, <1>t DEF SyncFile, Record, ImportNew, RecordExisting, RecordConflict,
     AlreadySeen
<1> QED
  BY <1>1, <1>2, <1>3, <1>4, <1>5 DEF Next, HostStep

\* Without faults every import is in the ledger, or in the one being built.
LEMMA LedgerKept == Inv /\ [Next]_vars => LedgerRemembers'
<1> SUFFICES ASSUME Inv, [Next]_vars PROVE LedgerRemembers'
  OBVIOUS
<1> USE DEF vars, queue, sync, host, Inv, LedgerRemembers
<1>n. Never(Faults)' => Never(Faults)
  BY NeverBefore DEF Events
<1>t. /\ memory \in [Job -> Content \cup {Nothing}] /\ return \in {"recover", "claim", "idle"}
      /\ imports \in [Job -> Seq(Content)]
  BY DEF TypeOK
<1>1. CASE UNCHANGED vars \/ FinishCommand \/ HostInit \/ Start \/ Stop \/
           Recovered \/ SkipSync \/ ClaimFile \/ NothingToClaim \/ PrepareFails \/
           Run \/ StageSuccess \/ Collect \/ UnlinkRunning \/ SuccessRaises \/
           StageFailure \/ \E j \in Job : Submit(j) \/ Rewrite(j) \/
           BeginCommand(j) \/ RecoverRunning(j) \/ Load(j)
  BY <1>1, <1>n, <1>t DEF FinishCommand, HostInit, InitStage, InitMove, InitPublish,
     InitRelease, InitStaging,
     RecoverDirectory, Spend, FailurePlace, Start, Stop, Recovered, SkipSync,
     ClaimFile, NothingToClaim, PrepareFails, Run, StageSuccess, Staged, Collect,
     UnlinkRunning, SuccessRaises, StageFailure, Submit, Rewrite, BeginCommand,
     BeginApprove, BeginEnqueue, Enqueued, RecoverRunning, Load, RecoverStaging,
     PublishSuccess, EndJob, MoveToFailure, PublishFailure
<1>2. CASE \E d \in staging : RecoverStaging(d) \/ PublishSuccess(d)
                              \/ MoveToFailure(d) \/ PublishFailure(d)
  BY <1>2, <1>n, <1>t DEF RecoverStaging, PublishSuccess, MoveToFailure,
     PublishFailure, RecoverDirectory, EndJob, Staged, FailurePlace
<1>3. CASE Crash
  BY <1>3, Counted DEF Crash, Events, Faults
<1>4. CASE ArchivingFails
  BY <1>4, <1>n, <1>t DEF ArchivingFails, Die, NoWork
<1>5. CASE BeginSync
  BY <1>5, <1>n, <1>t DEF BeginSync
<1>6. CASE SaveLedger
  BY <1>6, <1>n, <1>t DEF SaveLedger
<1>7. CASE SyncRaises
  BY <1>7, Counted DEF SyncRaises, Events, Faults
<1>8. CASE ReleaseClaim
  BY <1>8, <1>n, <1>t DEF ReleaseClaim, EndJob, Spend
<1>9. ASSUME NEW j \in Job, SyncFile(j) PROVE LedgerRemembers'
  <2> SUFFICES ASSUME Never(Faults)', NEW k \in Job, imports'[k] # <<>>
               PROVE  Len(imports'[k]) = 1 /\ memory'[k] = imports'[k][1]
    BY <1>9 DEF SyncFile
  <2>1. imports[k] # <<>> => Len(imports[k]) = 1 /\ memory[k] = imports[k][1]
    BY <1>9, <1>n DEF SyncFile
  <2>2. imports[k] # <<>> => memory[k] # Nothing
    BY <2>1, <1>t, Contents
  <2>3. CASE ImportNew(j)
    <3>1. CASE k = j
      <4>1. imports[j] = <<>>
        BY <2>2, <2>3, <3>1 DEF ImportNew
      <4> QED
        BY <4>1, <2>3, <3>1, <1>t DEF ImportNew, Record
    <3>2. CASE k # j
      BY <2>1, <2>3, <3>2, <1>t DEF ImportNew, Record
    <3> QED
      BY <3>1, <3>2
  <2>4. CASE ~ImportNew(j)
    BY <2>1, <2>2, <2>4, <1>9, <1>t DEF SyncFile, RecordExisting, RecordConflict,
       AlreadySeen,
       Record
  <2> QED
    BY <2>3, <2>4
<1> QED
  BY <1>1, <1>2, <1>3, <1>4, <1>5, <1>6, <1>7, <1>8, <1>9 DEF Next, HostStep

\* The directory in hand stays, and without faults is the only one.
LEMMA StagedKept == Inv /\ [Next]_vars => StillStaged'
<1> SUFFICES ASSUME Inv, [Next]_vars PROVE StillStaged'
  OBVIOUS
<1> USE DEF vars, queue, sync, host, Inv, StillStaged, Open, HasStaging
<1>n. /\ Never({"init"})' => Never({"init"})
      /\ Never(Faults \cup {"init"})' => Never(Faults \cup {"init"}) /\ Never({"init"})
  BY NeverBefore DEF Events, Faults, Never
<1>t. return \in {"recover", "claim", "idle"} /\ \A d \in staging : d.open \in BOOLEAN
  BY Directories DEF TypeOK
<1>1. CASE UNCHANGED vars \/ FinishCommand \/ Start \/ Stop \/ Recovered \/
           BeginSync \/ SkipSync \/ SaveLedger \/ SyncRaises \/ ClaimFile \/
           NothingToClaim \/ PrepareFails \/ Run \/ \E j \in Job : Submit(j) \/
           Rewrite(j) \/ BeginCommand(j) \/ RecoverRunning(j) \/ SyncFile(j) \/
           Load(j)
  BY <1>1, <1>n, <1>t DEF FinishCommand, Start, Stop, Recovered, BeginSync,
     SkipSync, SaveLedger, SyncRaises, Spend, ClaimFile, NothingToClaim,
     PrepareFails, Run, Submit, Rewrite, BeginCommand, BeginApprove, BeginEnqueue,
     Enqueued, RecoverRunning, SyncFile, Record, ImportNew, RecordExisting,
     RecordConflict, AlreadySeen, Load
<1>2. CASE HostInit
  BY <1>2, InitIsCounted DEF Never
<1>3. CASE Crash
  BY <1>3, Counted DEF Crash, Die, Events, Faults
<1>4. CASE ArchivingFails
  BY <1>4, <1>n DEF ArchivingFails, Die, TargetIsKnown, PlaceTaken
<1>5. CASE StageSuccess
  <2>1. Staged(running[job], HasRunning).open = HasRunning
    BY DEF Staged
  <2>2. CASE Never({"init"}) /\ ~Archived(job, {"completed"})
    <3>1. HasRunning
      BY <2>2, <1>5 DEF StageSuccess, RunningWhileExecuted
    <3>2. Staged(running[job], HasRunning) \in Open'
      BY <2>1, <2>2, <3>1, <1>5 DEF StageSuccess, Open
    <3>3. Open \subseteq Open' /\ staging' = staging \cup {Staged(running[job], HasRunning)}
      BY <2>2, <1>5 DEF StageSuccess, Open
    <3> QED
      BY <3>2, <3>3, <1>5, <1>n DEF StageSuccess, HasStaging, Open
  <2>3. CASE ~Never({"init"})
    BY <2>3, <1>n
  <2>4. CASE Archived(job, {"completed"})
    BY <2>4, <1>5, <1>n DEF StageSuccess, Open
  <2> QED
    BY <2>2, <2>3, <2>4
<1>6. CASE Collect
  BY <1>6, <1>n, <1>t DEF Collect
<1>7. CASE UnlinkRunning
  BY <1>7, <1>n, <1>t DEF UnlinkRunning
<1>8. CASE SuccessRaises
  <2>1. CASE Spend("io")
    BY <2>1, <1>8, Counted DEF SuccessRaises, Events, Faults
  <2>2. CASE IF pc = "unlink" THEN ~HasRunning ELSE ~HasStaging
    <3>1. ~Never({"init"})
      BY <2>2, <1>8 DEF SuccessRaises, RunningWhileExecuted
    <3> QED
      BY <3>1, <1>n
  <2> QED
    BY <2>1, <2>2, <1>8 DEF SuccessRaises
<1>9. CASE StageFailure
  <2>1. Staged(Nothing, TRUE).open /\ Open \subseteq Open'
    BY <1>9 DEF Staged, StageFailure, Open
  <2>2. Staged(Nothing, TRUE) \in Open'
    BY <2>1, <1>9 DEF StageFailure, Open
  <2> QED
    BY <2>1, <2>2, <1>9, <1>n DEF StageFailure, HasStaging, Open
<1>10. CASE ReleaseClaim
  BY <1>10, <1>n, <1>t DEF ReleaseClaim, EndJob, Spend
<1>11. ASSUME NEW d \in staging, RecoverStaging(d) PROVE StillStaged'
  BY <1>11, <1>n, <1>t DEF RecoverStaging, RecoverDirectory
<1>12. ASSUME NEW d \in staging, PublishSuccess(d) PROVE StillStaged'
  BY <1>12, <1>n, <1>t DEF PublishSuccess, EndJob
<1>13. ASSUME NEW d \in staging, MoveToFailure(d) PROVE StillStaged'
  <2>1. Staged(running[job], TRUE).open
    BY DEF Staged
  <2>2. Staged(running[job], TRUE) \in Open'
    BY <2>1, <1>13 DEF MoveToFailure, Open
  <2> QED
    BY <2>1, <2>2, <1>13, <1>n DEF MoveToFailure, HasStaging, Open
<1>14. ASSUME NEW d \in staging, PublishFailure(d) PROVE StillStaged'
  BY <1>14, <1>n, <1>t DEF PublishFailure, FailurePlace
<1> QED
  BY <1>1, <1>2, <1>3, <1>4, <1>5, <1>6, <1>7, <1>8, <1>9, <1>10, <1>11, <1>12,
     <1>13, <1>14 DEF Next, HostStep

\* A claim named by an archived failure is freed before the next job.
LEMMA ClaimsKept == Inv /\ [Next]_vars => ClaimsFollow'
<1> SUFFICES ASSUME Inv, [Next]_vars PROVE ClaimsFollow'
  OBVIOUS
<1> USE DEF vars, queue, sync, host, Inv, ClaimsFollow
<1>n. Never(Faults \cup {"init"})' => Never(Faults \cup {"init"})
  BY NeverBefore DEF Events
<1>t. /\ claim \in [Job -> {"active", "failed", "refused"}]
      /\ return \in {"recover", "claim", "idle"} /\ \A a \in archive : a.job \in Job
  BY Archives DEF TypeOK
<1>1. CASE UNCHANGED vars \/ FinishCommand \/ Start \/ Stop \/ Recovered \/
           BeginSync \/ SkipSync \/ SaveLedger \/ SyncRaises \/ ClaimFile \/
           NothingToClaim \/ PrepareFails \/ Run \/ StageSuccess \/ Collect \/
           UnlinkRunning \/ SuccessRaises \/ StageFailure \/ \E j \in Job :
           Submit(j) \/ Rewrite(j) \/ BeginCommand(j) \/ RecoverRunning(j) \/
           Load(j)
  BY <1>1, <1>n, <1>t DEF FinishCommand, Start, Stop, Recovered, BeginSync,
     SkipSync, SaveLedger, SyncRaises, Spend, ClaimFile, NothingToClaim,
     PrepareFails, Run, StageSuccess, Staged, Collect, UnlinkRunning, SuccessRaises,
     StageFailure, Submit, Rewrite, BeginCommand, BeginApprove, BeginEnqueue,
     Enqueued, RecoverRunning, Load, MoveToFailure
<1>2. CASE \E d \in staging : MoveToFailure(d)
  BY <1>2, <1>n, <1>t DEF MoveToFailure, Staged
<1>3. CASE HostInit
  BY <1>3, InitIsCounted DEF Never
<1>4. CASE Crash
  BY <1>4, Counted DEF Crash, Events, Faults
<1>5. CASE ArchivingFails
  BY <1>5, <1>n, <1>t DEF ArchivingFails, Die, NoWork
<1>6. CASE ReleaseClaim
  BY <1>6, <1>n, <1>t DEF ReleaseClaim, EndJob, Spend
<1>7. ASSUME NEW j \in Job, SyncFile(j) PROVE ClaimsFollow'
  <2>1. \A a \in archive' : a \in archive \/ a.content = Nothing
    BY <1>7 DEF SyncFile, ImportNew, RecordExisting, RecordConflict, AlreadySeen
  <2>2. ~NamesClaim(Nothing)
    BY Contents DEF NamesClaim
  <2> QED
    BY <2>1, <2>2, <1>7, <1>n, <1>t DEF SyncFile
<1>8. ASSUME NEW d \in staging, RecoverStaging(d) PROVE ClaimsFollow'
  BY <1>8, <1>n DEF RecoverStaging, StillStaged, OpenIsInHand, Open
<1>9. ASSUME NEW d \in staging, PublishSuccess(d) PROVE ClaimsFollow'
  BY <1>9, <1>n, <1>t DEF PublishSuccess, EndJob
<1>10. ASSUME NEW d \in staging, PublishFailure(d) PROVE ClaimsFollow'
  BY <1>10, <1>n, <1>t DEF PublishFailure, FailurePlace
<1> QED
  BY <1>1, <1>2, <1>3, <1>4, <1>5, <1>6, <1>7, <1>8, <1>9, <1>10 DEF Next, HostStep

\* The host works on a job whose file is in running/.
LEMMA WorkKept == Inv /\ [Next]_vars => RunningWhileExecuted'
<1> SUFFICES ASSUME Inv, [Next]_vars PROVE RunningWhileExecuted'
  OBVIOUS
<1> USE DEF vars, queue, sync, host, Inv, RunningWhileExecuted, HasRunning
<1>n. Never({"init"})' => Never({"init"})
  BY NeverBefore DEF Events, Faults
<1>t. /\ running \in [Job -> Content \cup {Nothing}] /\ return \in {"recover", "claim", "idle"}
      /\ \A j \in Job : pending[j] # NoFile => pending[j].content # Nothing
      /\ pc = "rename" => job \in Job /\ pending[job] # NoFile
  BY Files, Contents DEF TypeOK, HandIsKnown
<1>1. CASE UNCHANGED vars \/ FinishCommand \/ Start \/ Stop \/ Crash \/
           ArchivingFails \/ Recovered \/ BeginSync \/ SkipSync \/ SaveLedger \/
           SyncRaises \/ NothingToClaim \/ PrepareFails \/ Run \/ StageSuccess \/
           Collect \/ UnlinkRunning \/ SuccessRaises \/ StageFailure \/ \E j \in
           Job : Submit(j) \/ Rewrite(j) \/ BeginCommand(j) \/ RecoverRunning(j) \/
           Load(j)
  BY <1>1, <1>n, <1>t DEF FinishCommand, Start, Stop, Crash, Die, NoWork, Spend,
     ArchivingFails, Recovered, BeginSync, SkipSync, SaveLedger, SyncRaises,
     NothingToClaim, PrepareFails, Run, StageSuccess, Staged, Collect,
     UnlinkRunning, SuccessRaises, StageFailure, Submit, Rewrite, BeginCommand,
     BeginApprove, BeginEnqueue, Enqueued, RecoverRunning, Load, MoveToFailure
<1>2. CASE \E d \in staging : MoveToFailure(d)
  BY <1>2, <1>n, <1>t DEF MoveToFailure, Staged
<1>3. CASE HostInit
  BY <1>3, InitIsCounted DEF Never
<1>4. CASE ClaimFile
  BY <1>4, <1>n, <1>t DEF ClaimFile
<1>5. CASE ReleaseClaim
  BY <1>5, <1>n, <1>t DEF ReleaseClaim, EndJob, Spend
<1>6. ASSUME NEW j \in Job, SyncFile(j) PROVE RunningWhileExecuted'
  BY <1>6, <1>n, <1>t DEF SyncFile, Record, ImportNew, RecordExisting,
     RecordConflict, AlreadySeen
<1>7. ASSUME NEW d \in staging, RecoverStaging(d) PROVE RunningWhileExecuted'
  BY <1>7, <1>n, <1>t DEF RecoverStaging, RecoverDirectory
<1>8. ASSUME NEW d \in staging, PublishSuccess(d) PROVE RunningWhileExecuted'
  BY <1>8, <1>n, <1>t DEF PublishSuccess, EndJob
<1>9. ASSUME NEW d \in staging, PublishFailure(d) PROVE RunningWhileExecuted'
  BY <1>9, <1>n, <1>t DEF PublishFailure, FailurePlace
<1> QED
  BY <1>1, <1>2, <1>3, <1>4, <1>5, <1>6, <1>7, <1>8, <1>9 DEF Next, HostStep

\* No job waits and runs at once.
LEMMA PlaceKept == Inv /\ [Next]_vars => OnePlaceInQueue'
<1> SUFFICES ASSUME Inv, [Next]_vars PROVE OnePlaceInQueue'
  OBVIOUS
<1> USE DEF vars, queue, sync, host, Inv, OnePlaceInQueue
<1>n. Never({"approve", "enqueue"})' => Never({"approve", "enqueue"})
  BY NeverBefore DEF Events, Faults
<1>t. /\ running \in [Job -> Content \cup {Nothing}] /\ pending \in [Job -> File \cup {NoFile}]
      /\ pc = "rename" => job \in Job
  BY DEF TypeOK, HandIsKnown
<1>1. CASE UNCHANGED vars \/ Start \/ Stop \/ Crash \/ ArchivingFails \/ Recovered
           \/ BeginSync \/ SkipSync \/ SaveLedger \/ SyncRaises \/ NothingToClaim
           \/ PrepareFails \/ Run \/ StageSuccess \/ Collect \/ SuccessRaises \/
           StageFailure \/ \E j \in Job : Submit(j) \/ Rewrite(j) \/
           BeginCommand(j) \/ RecoverRunning(j) \/ Load(j)
  BY <1>1, <1>n, <1>t DEF Start, Stop, Crash, Die, NoWork, Spend, ArchivingFails,
     Recovered, BeginSync, SkipSync, SaveLedger, SyncRaises, NothingToClaim,
     PrepareFails, Run, StageSuccess, Staged, Collect, SuccessRaises, StageFailure,
     Submit, Rewrite, BeginCommand, BeginApprove, BeginEnqueue, Enqueued,
     RecoverRunning, Load
<1>2. CASE FinishCommand
  BY <1>2, <1>n DEF FinishCommand, CommandIsKnown
<1>3. CASE HostInit
  BY <1>3, <1>n, <1>t DEF HostInit, InitStage, InitMove, InitPublish, InitRelease,
     InitStaging, RecoverDirectory,
     Spend, FailurePlace
<1>4. CASE ClaimFile
  BY <1>4, <1>n, <1>t DEF ClaimFile
<1>5. CASE UnlinkRunning
  BY <1>5, <1>n, <1>t DEF UnlinkRunning
<1>6. CASE ReleaseClaim
  BY <1>6, <1>n, <1>t DEF ReleaseClaim, EndJob, Spend
<1>7. ASSUME NEW j \in Job, SyncFile(j) PROVE OnePlaceInQueue'
  BY <1>7, <1>n, <1>t DEF SyncFile, Record, ImportNew, RecordExisting, RecordConflict,
     AlreadySeen, JobExists
<1>8. ASSUME NEW d \in staging, RecoverStaging(d) PROVE OnePlaceInQueue'
  BY <1>8, <1>n, <1>t DEF RecoverStaging, RecoverDirectory
<1>9. ASSUME NEW d \in staging, PublishSuccess(d) PROVE OnePlaceInQueue'
  BY <1>9, <1>n, <1>t DEF PublishSuccess, EndJob
<1>10. ASSUME NEW d \in staging, MoveToFailure(d) PROVE OnePlaceInQueue'
  BY <1>10, <1>n, <1>t DEF MoveToFailure, Staged
<1>11. ASSUME NEW d \in staging, PublishFailure(d) PROVE OnePlaceInQueue'
  BY <1>11, <1>n, <1>t DEF PublishFailure, FailurePlace
<1> QED
  BY <1>1, <1>2, <1>3, <1>4, <1>5, <1>6, <1>7, <1>8, <1>9, <1>10, <1>11 DEF Next,
     HostStep

\* An element of a sequence with one appended.
LEMMA Appended ==
    ASSUME NEW S, NEW s \in Seq(S), NEW e \in S, NEW n \in DOMAIN Append(s, e)
    PROVE  (n \in DOMAIN s /\ Append(s, e)[n] = s[n]) \/ Append(s, e)[n] = e
  OBVIOUS

\* Nobody writes over a file whose content he has not seen.
Harmless == Never({"enqueue"}) /\ (Never({"approve"}) \/ Never({"rewrites"}))

Somewhere(j, c) == c \in {pending[j].content, running[j]} \/ Kept(j, c)

\* What is nowhere overwritten is where it was, or was moved.
Undropped ==
    \A j \in Job, c \in Content : Somewhere(j, c) => Somewhere(j, c)'

\* No step loses the content of an imported job.
LEMMA JobsKept == Inv /\ [Next]_vars => NoJobLost'
<1> SUFFICES ASSUME Inv, [Next]_vars PROVE NoJobLost'
  OBVIOUS
<1> USE DEF vars, queue, sync, host, Inv
<1>n. /\ Never({"enqueue"})' => Never({"enqueue"})
      /\ Never({"approve"})' => Never({"approve"})
      /\ Never({"rewrites"})' => Never({"rewrites"})
  BY NeverBefore DEF Events, Faults
<1>t. /\ running \in [Job -> Content \cup {Nothing}] /\ pending \in [Job -> File \cup {NoFile}]
      /\ imports \in [Job -> Seq(Content)]
      /\ pc \in {"rename", "unlink", "complete", "failMove", "failPublish"} => job \in Job
  BY DEF TypeOK, HandIsKnown
<1>y. TypeOK
  OBVIOUS
<1>s. Undropped /\ UNCHANGED imports => NoJobLost'
  <2> SUFFICES ASSUME Undropped, UNCHANGED imports, NoJobLost PROVE NoJobLost'
    OBVIOUS
  <2>1. \A j \in Job : \A m \in DOMAIN imports[j] : imports[j][m] \in Content
    BY <1>t
  <2> QED
    BY <2>1, <1>n DEF NoJobLost, Undropped, Somewhere, Kept
<1>1. CASE UNCHANGED vars \/ Start \/ Stop \/ Recovered \/ BeginSync \/ SkipSync \/
           SaveLedger \/ SyncRaises \/ NothingToClaim \/ PrepareFails \/ Run \/
           Collect \/ \E j \in Job : Submit(j) \/ Rewrite(j) \/ BeginCommand(j) \/
           RecoverRunning(j) \/ Load(j)
  BY <1>1, <1>s DEF Undropped, Somewhere, Kept, Start, Stop, Recovered, BeginSync,
     SkipSync,
     SaveLedger, SyncRaises, Spend, NothingToClaim, PrepareFails, Run, Collect,
     Submit, Rewrite, BeginCommand, BeginApprove, BeginEnqueue, Enqueued,
     RecoverRunning, Load
<1>2. CASE FinishCommand
  <2> SUFFICES ASSUME Never({"enqueue"}), Never({"approve"}) \/ Never({"rewrites"}),
                      NEW j \in Job, NEW m \in DOMAIN imports[j]
               PROVE  Somewhere(j, imports[j][m])'
    BY <1>n, <1>2 DEF FinishCommand, NoJobLost, Somewhere, Kept
  <2>1. Somewhere(j, imports[j][m])
    BY DEF NoJobLost, Somewhere, Kept
  <2>2. \A c : Kept(j, c) => Kept(j, c)'
    BY <1>2 DEF FinishCommand, Kept
  <2>3. ~Never({"approve"})
    BY <1>2 DEF FinishCommand, CommandIsKnown, Never
  <2>4. Never({"rewrites", "enqueue"}) /\ Never({"rewrites"})
    BY <2>3 DEF Never
  <2>5. imports[j][m] = "v1" /\ command.file.content = "v1"
    BY <2>4, <1>2 DEF FinishCommand, CommandIsKnown
  <2>6. command.job \in Job
    BY <1>2 DEF FinishCommand, TypeOK
  <2>7. pending'[j].content = IF j = command.job THEN "v1" ELSE pending[j].content
    BY <2>5, <2>6, <1>2, <1>t DEF FinishCommand
  <2> QED
    BY <2>1, <2>2, <2>5, <2>7, <1>2 DEF FinishCommand, Somewhere
<1>3. CASE HostInit
  <2>1. \A j, c : c # Nothing /\ Kept(j, c) => Kept(j, c)'
    BY <1>3, InitKeeps
  <2>2. ASSUME NEW k \in Job, InitMove(k) PROVE Undropped
    <3>1. /\ InitDirectory(k, running[k]).job = k
          /\ InitDirectory(k, running[k]).content = running[k]
      BY DEF InitDirectory
    <3>2. \A c : c = running[k] => Kept(k, c)'
      BY <3>1, <2>2 DEF Kept, InitMove
    <3>3. \A j \in Job \ {k} : running'[j] = running[j]
      BY <2>2, <1>t DEF InitMove
    <3> QED
      BY <2>1, <3>2, <3>3, <1>3, Contents DEF HostInit, Undropped, Somewhere
  <2>3. ASSUME UNCHANGED running PROVE Undropped
    BY <2>1, <2>3, <1>3, Contents DEF HostInit, Undropped, Somewhere
  <2>u. Undropped
    BY <2>2, <2>3, <1>3 DEF HostInit, InitStage, InitPublish, InitRelease, InitStaging
  <2> QED
    BY <2>u, <1>s, <1>3 DEF HostInit
<1>4. CASE Crash
  <2>1. \A j, c : Kept(j, c) => Kept(j, c)'
    BY <1>4, <1>y, NothingOpen DEF Crash, Die, Kept
  <2>u. Undropped
    BY <2>1, <1>4 DEF Crash, Die, Undropped, Somewhere
  <2> QED
    BY <2>u, <1>s, <1>4 DEF Crash, Die
<1>5. CASE ArchivingFails
  <2>1. \A j, c : Kept(j, c) => Kept(j, c)'
    BY <1>5, <1>y, NothingOpen DEF ArchivingFails, Die, Kept
  <2>u. Undropped
    BY <2>1, <1>5 DEF ArchivingFails, Die, Undropped, Somewhere
  <2> QED
    BY <2>u, <1>s, <1>5 DEF ArchivingFails, Die
<1>6. CASE ClaimFile
  <2>1. running[job] = Nothing
    BY <1>6, <1>t DEF ClaimFile, RunningIsInHand
  <2>2. \A j, c : Kept(j, c) => Kept(j, c)'
    BY <1>6 DEF ClaimFile, Kept
  <2>3. running'[job] = pending[job].content
    BY <1>6, <1>t DEF ClaimFile
  <2>4. \A j \in Job \ {job} : pending'[j] = pending[j] /\ running'[j] = running[j]
    BY <1>6, <1>t DEF ClaimFile
  <2>u. Undropped
    BY <2>1, <2>2, <2>3, <2>4, Contents DEF Undropped, Somewhere
  <2> QED
    BY <2>u, <1>s, <1>6 DEF ClaimFile
<1>7. CASE StageSuccess
  <2>1. \A j, c : Kept(j, c) => Kept(j, c)'
    BY <1>7 DEF StageSuccess, Kept
  <2>u. Undropped
    BY <2>1, <1>7 DEF StageSuccess, Undropped, Somewhere
  <2> QED
    BY <2>u, <1>s, <1>7 DEF StageSuccess
<1>8. CASE UnlinkRunning
  <2>1. Kept(job, running[job]) /\ \A j, c : Kept(j, c) => Kept(j, c)'
    BY <1>8 DEF UnlinkRunning, CopiedFirst, Kept
  <2>2. \A j \in Job \ {job} : running'[j] = running[j]
    BY <1>8, <1>t DEF UnlinkRunning
  <2>u. Undropped
    BY <2>1, <2>2, <1>8 DEF UnlinkRunning, Undropped, Somewhere
  <2> QED
    BY <2>u, <1>s, <1>8 DEF UnlinkRunning
<1>9. CASE SuccessRaises
  <2>1. \A j, c : Kept(j, c) => Kept(j, c)'
    BY <1>9, <1>y, NothingOpen DEF SuccessRaises, Kept
  <2>u. Undropped
    BY <2>1, <1>9 DEF SuccessRaises, Undropped, Somewhere
  <2> QED
    BY <2>u, <1>s, <1>9 DEF SuccessRaises
<1>10. CASE StageFailure
  <2>1. \A j, c : Kept(j, c) => Kept(j, c)'
    BY <1>10 DEF StageFailure, Kept
  <2>u. Undropped
    BY <2>1, <1>10 DEF StageFailure, Undropped, Somewhere
  <2> QED
    BY <2>u, <1>s, <1>10 DEF StageFailure
<1>11. CASE ReleaseClaim
  <2>u. Undropped
    BY <1>11, <1>t DEF ReleaseClaim, EndJob, Undropped, Somewhere, Kept
  <2> QED
    BY <2>u, <1>s, <1>11 DEF ReleaseClaim
<1>12. ASSUME NEW j \in Job, SyncFile(j) PROVE NoJobLost'
  <2>1. \A k, c : Kept(k, c) => Kept(k, c)'
    BY <1>12 DEF SyncFile, ImportNew, RecordExisting, RecordConflict, AlreadySeen, Kept
  <2>2. CASE ImportNew(j)
    <3>1. pending[j] = NoFile
      BY <2>2 DEF ImportNew, JobExists
    <3>2. \A k \in Job \ {j} : pending'[k] = pending[k]
      BY <2>2, <1>t DEF ImportNew
    <3>3. pending'[j].content = files[j]
      BY <2>2, <1>t DEF ImportNew
    <3>4. Undropped
      BY <2>1, <3>1, <3>2, <1>12, Contents, Files DEF SyncFile, Undropped, Somewhere
    <3>5. /\ imports[j] \in Seq(Content) /\ files[j] \in Content
          /\ \A k \in Job : imports'[k] = IF k = j THEN Append(imports[j], files[j])
                                           ELSE imports[k]
      BY <2>2, <1>12, <1>t, Contents DEF ImportNew, SyncFile, TypeOK
    <3>6. ASSUME NEW k \in Job, NEW m \in DOMAIN imports'[k], NoJobLost, Harmless,
                 NEW c, c = imports'[k][m]
          PROVE  Somewhere(k, c)'
      <4>1. ASSUME NEW n \in DOMAIN imports[k], c = imports[k][n]
            PROVE  Somewhere(k, c)'
        <5>1. Somewhere(k, c) /\ c \in Content
          BY <3>6, <4>1, <1>t DEF NoJobLost, Harmless, Somewhere, Kept
        <5> QED
          BY <5>1, <3>4 DEF Undropped
      <4>2. CASE k = j
        <5>1. \/ m \in DOMAIN imports[j] /\ c = imports[j][m]
              \/ c = files[j]
          <6>1. imports'[j] = Append(imports[j], files[j])
            BY <3>5
          <6>2. m \in DOMAIN Append(imports[j], files[j]) /\ c = Append(imports[j], files[j])[m]
            BY <6>1, <3>6, <4>2
          <6> QED
            BY <6>2, <3>5, Appended
        <5> QED
          BY <5>1, <4>1, <3>3, <4>2 DEF Somewhere
      <4>3. CASE k # j
        BY <4>1, <4>3, <3>5, <3>6
      <4> QED
        BY <4>2, <4>3
    <3> QED
      BY <3>6, <1>n DEF NoJobLost, Harmless, Somewhere, Kept
  <2>3. CASE ~ImportNew(j)
    <3>1. UNCHANGED <<pending, running, imports>>
      BY <2>3, <1>12 DEF SyncFile, RecordExisting, RecordConflict, AlreadySeen
    <3> QED
      BY <2>1, <3>1, <1>s DEF Undropped, Somewhere
  <2> QED
    BY <2>2, <2>3
<1>13. ASSUME NEW d \in staging, RecoverStaging(d) PROVE NoJobLost'
  <2>1. /\ [job |-> d.job, place |-> "recovered", content |-> d.content] \in archive'
        /\ archive \subseteq archive'
    BY <1>13 DEF RecoverStaging, RecoverDirectory
  <2>2. staging' = staging \ {d}
    BY <1>13 DEF RecoverStaging, RecoverDirectory
  <2>3. \A j, c : Kept(j, c) => Kept(j, c)'
    BY <2>1, <2>2 DEF Kept
  <2>u. Undropped
    BY <2>3, <1>13 DEF RecoverStaging, RecoverDirectory, Undropped, Somewhere
  <2> QED
    BY <2>u, <1>s, <1>13 DEF RecoverStaging, RecoverDirectory
<1>14. ASSUME NEW d \in staging, PublishSuccess(d) PROVE NoJobLost'
  <2>1. /\ [job |-> job, place |-> "completed", content |-> d.content] \in archive'
        /\ archive \subseteq archive'
    BY <1>14 DEF PublishSuccess
  <2>2. staging' = staging \ {d} /\ d.job = job
    BY <1>14 DEF PublishSuccess, OpenIsInHand, Open
  <2>3. \A j, c : Kept(j, c) => Kept(j, c)'
    BY <2>1, <2>2 DEF Kept
  <2>u. Undropped
    BY <2>3, <1>14 DEF PublishSuccess, Undropped, Somewhere
  <2> QED
    BY <2>u, <1>s, <1>14 DEF PublishSuccess
<1>15. ASSUME NEW d \in staging, MoveToFailure(d) PROVE NoJobLost'
  <2>1. d.job = job /\ d.content = Nothing
    BY <1>15 DEF MoveToFailure, OpenIsInHand, Open
  <2>2. Staged(running[job], TRUE) \in staging'
    BY <1>15 DEF MoveToFailure
  <2>3. Staged(running[job], TRUE).job = job /\ Staged(running[job], TRUE).content = running[job]
    BY DEF Staged
  <2>5. \A j, c : c # Nothing /\ Kept(j, c) => Kept(j, c)'
    BY <2>1, <1>15 DEF MoveToFailure, Kept
  <2>6. \A j \in Job \ {job} : running'[j] = running[j]
    BY <1>15, <1>t DEF MoveToFailure
  <2>u. Undropped
    <3> SUFFICES ASSUME NEW j \in Job, NEW c \in Content, Somewhere(j, c)
                 PROVE  Somewhere(j, c)'
      BY DEF Undropped
    <3>1. CASE c = pending[j].content
      BY <3>1, <1>15 DEF MoveToFailure, Somewhere
    <3>2. CASE Kept(j, c)
      BY <3>2, <2>5, Contents DEF Somewhere
    <3>3. CASE c = running[j]
      <4>1. CASE j = job
        BY <3>3, <4>1, <2>2, <2>3, <1>15 DEF MoveToFailure, Somewhere, Kept
      <4>2. CASE j # job
        BY <3>3, <4>2, <2>6 DEF Somewhere
      <4> QED
        BY <4>1, <4>2
    <3> QED
      BY <3>1, <3>2, <3>3 DEF Somewhere
  <2> QED
    BY <2>u, <1>s, <1>15 DEF MoveToFailure
<1>16. ASSUME NEW d \in staging, PublishFailure(d) PROVE NoJobLost'
  <2>1. /\ [job |-> job, place |-> target, content |-> d.content] \in archive'
        /\ archive \subseteq archive'
    BY <1>16 DEF PublishFailure
  <2>2. staging' = staging \ {d} /\ d.job = job
    BY <1>16 DEF PublishFailure, OpenIsInHand, Open
  <2>3. \A j, c : Kept(j, c) => Kept(j, c)'
    BY <2>1, <2>2 DEF Kept
  <2>u. Undropped
    BY <2>3, <1>16 DEF PublishFailure, Undropped, Somewhere
  <2> QED
    BY <2>u, <1>s, <1>16 DEF PublishFailure
<1> QED
  BY <1>1, <1>2, <1>3, <1>4, <1>5, <1>6, <1>7, <1>8, <1>9, <1>10, <1>11, <1>12,
     <1>13, <1>14, <1>15, <1>16 DEF Next, HostStep

\* Every run takes an import of its own.
LEMMA RunsKept ==
    ASSUME Inv, [Next]_vars, NEW k \in Job, Undisturbed'
    PROVE  Supplied(k)'
<1> USE DEF vars, queue, sync, host, Inv
<1>n. Supplied(k) /\ command = NoCommand
  BY NeverBefore DEF Events, Faults, Undisturbed, CommandIsKnown, Never, RunsAreImported
<1>t. /\ imports \in [Job -> Seq(Content)] /\ runs \in [Job -> Seq(Content)]
      /\ pending \in [Job -> File \cup {NoFile}] /\ return \in {"recover", "claim", "idle"}
      /\ pc \in {"rename", "prepare"} => job \in Job /\ loaded \in Content
      /\ pc = "rename" => pending[job] # NoFile
  BY Contents DEF TypeOK, HandIsKnown
<1>l. Len(imports[k]) \in Nat /\ Len(runs[k]) \in Nat
  BY <1>t
<1>q. /\ UNCHANGED <<pending, imports, runs>>
      /\ pc' # "prepare" \/ UNCHANGED <<pc, job>>
      => Supplied(k)'
  <2> SUFFICES ASSUME UNCHANGED <<pending, imports, runs>>,
                      pc' # "prepare" \/ UNCHANGED <<pc, job>>
               PROVE  Supplied(k)'
    OBVIOUS
  <2>1. Waits(k)' = Waits(k) /\ Waits(k) \in {0, 1}
    BY DEF Waits
  <2>2. Fresh(k)' <= Fresh(k) /\ Fresh(k) \in {0, 1} /\ Fresh(k)' \in {0, 1}
    BY DEF Fresh
  <2>3. Len(runs'[k]) = Len(runs[k]) /\ Len(imports'[k]) = Len(imports[k])
    OBVIOUS
  <2> QED
    BY <2>1, <2>2, <2>3, <1>n, <1>l DEF Supplied
<1>1. CASE UNCHANGED vars \/ HostInit \/ Start \/ Stop \/ Crash \/ ArchivingFails
           \/ Recovered \/ BeginSync \/ SkipSync \/ SaveLedger \/ SyncRaises \/
           NothingToClaim \/ PrepareFails \/ StageSuccess \/ Collect \/
           UnlinkRunning \/ SuccessRaises \/ StageFailure \/ \E j \in Job :
           Submit(j) \/ Rewrite(j) \/ BeginCommand(j) \/ RecoverRunning(j) \/
           Load(j)
  BY <1>1, <1>n, <1>t, <1>q DEF HostInit, InitStage, InitMove, InitPublish, InitRelease,
     InitStaging,
     RecoverDirectory, Spend, FailurePlace, Start, Stop, Crash, Die, NoWork,
     ArchivingFails, Recovered, BeginSync, SkipSync, SaveLedger, SyncRaises,
     NothingToClaim, PrepareFails, StageSuccess, Staged, Collect, UnlinkRunning,
     SuccessRaises, StageFailure, Submit, Rewrite, BeginCommand, BeginApprove,
     BeginEnqueue, Enqueued, RecoverRunning, Load, RecoverStaging, PublishSuccess,
     EndJob, MoveToFailure, PublishFailure
<1>2. CASE \E d \in staging : RecoverStaging(d) \/ PublishSuccess(d)
                              \/ MoveToFailure(d) \/ PublishFailure(d)
  BY <1>2, <1>n, <1>t, <1>q DEF RecoverStaging, PublishSuccess, MoveToFailure,
     PublishFailure, RecoverDirectory, EndJob, Staged, FailurePlace
<1>3. CASE FinishCommand
  BY <1>3, <1>n DEF FinishCommand
<1>4. CASE ClaimFile
  <2>1. pending' = [pending EXCEPT ![job] = NoFile] /\ job \in Job /\ UNCHANGED <<job, runs, imports>>
    BY <1>4, <1>t DEF ClaimFile
  <2>2. CASE k = job
    BY <2>1, <2>2, <1>4, <1>n, <1>t, <1>l DEF ClaimFile, Supplied, Waits, Fresh
  <2>3. CASE k # job
    BY <2>1, <2>3, <1>4, <1>n, <1>t, <1>l DEF ClaimFile, Supplied, Waits, Fresh
  <2> QED
    BY <2>2, <2>3
<1>5. CASE Run
  <2>1. CASE k = job
    <3>1. Len(runs'[k]) = Len(runs[k]) + 1
      BY <2>1, <1>5, <1>t DEF Run
    <3> QED
      BY <2>1, <3>1, <1>5, <1>n, <1>t, <1>l DEF Run, Supplied, Waits, Fresh
  <2>2. CASE k # job
    BY <2>2, <1>5, <1>n, <1>t, <1>l DEF Run, Supplied, Waits, Fresh
  <2> QED
    BY <2>1, <2>2
<1>6. CASE ReleaseClaim
  BY <1>6, <1>n, <1>t, <1>q DEF ReleaseClaim, EndJob, Spend
<1>7. ASSUME NEW j \in Job, SyncFile(j) PROVE Supplied(k)'
  <2>1. CASE ImportNew(j) /\ k = j
    <3>1. Len(imports'[k]) = Len(imports[k]) + 1
      BY <2>1, <1>7, <1>t, Contents DEF SyncFile, ImportNew, TypeOK
    <3>2. Waits(k) = 0 /\ Waits(k)' \in {0, 1}
      BY <2>1 DEF ImportNew, JobExists, Waits
    <3> QED
      BY <3>1, <3>2, <1>7, <1>n, <1>l DEF SyncFile, Supplied, Fresh
  <2>2. CASE ImportNew(j) /\ k # j
    BY <2>2, <1>7, <1>n, <1>t, <1>l DEF SyncFile, ImportNew, Supplied, Waits, Fresh
  <2>3. CASE ~ImportNew(j)
    BY <2>3, <1>7, <1>q DEF SyncFile, RecordExisting, RecordConflict, AlreadySeen
  <2> QED
    BY <2>1, <2>2, <2>3
<1> QED
  BY <1>1, <1>2, <1>3, <1>4, <1>5, <1>6, <1>7 DEF Next, HostStep

\* A job is forgotten by one fault and missing by another.
LEMMA MemoryOfJobs ==
    ASSUME Inv, [Next]_vars, NEW k \in Job, Undisturbed'
    PROVE  Remembered(k)'
<1> USE DEF vars, queue, sync, host, Inv
<1>n. Remembered(k) /\ command = NoCommand /\ Never({"init"})
  BY NeverBefore DEF Events, Faults, Undisturbed, CommandIsKnown, Never, Reimported
<1>f. Faulted \in Nat /\ Faulted' \in Nat /\ Faulted' >= Faulted
  <2>1. \A e \in {"crashes", "syncs"} : budget[e].spent \in Nat /\ budget'[e].spent \in Nat
                                      /\ budget'[e].spent >= budget[e].spent
    BY BudgetGrows DEF TypeOK, Events, Faults
  <2> QED
    BY <2>1 DEF Faulted
<1>e. Spend("crashes") \/ Spend("syncs") => Faulted' = Faulted + 1
  <2>1. /\ "crashes" \in Events /\ "syncs" \in Events
        /\ budget["crashes"].spent \in Nat /\ budget["syncs"].spent \in Nat
    BY DEF TypeOK, Events, Faults
  <2>2. ASSUME NEW e \in {"crashes", "syncs"}, Spend(e)
        PROVE  /\ budget'[e].spent = budget[e].spent + 1
               /\ \A f \in {"crashes", "syncs"} \ {e} : budget'[f].spent = budget[f].spent
    BY <2>1, <2>2, SpendAdds
  <2> QED
    BY <2>1, <2>2 DEF Faulted
<1>t. /\ imports \in [Job -> Seq(Content)] /\ return \in {"recover", "claim", "idle"}
      /\ pending \in [Job -> File \cup {NoFile}] /\ running \in [Job -> Content \cup {Nothing}]
      /\ ledger \in [Job -> Content \cup {Nothing}] /\ memory \in [Job -> Content \cup {Nothing}]
      /\ pc \notin {"down", "recover", "idle", "sync", "claim"} => job \in Job
  BY DEF TypeOK, HandIsKnown
<1>1. CASE UNCHANGED vars
  BY <1>1, <1>n DEF Remembered, Forgotten, Missing, InFlight, Recovering, JobExists,
     Archived,
     InStaging, Faulted
<1>2. CASE FinishCommand
  BY <1>2, <1>n DEF FinishCommand
<1>3. CASE HostInit
  BY <1>3, InitIsCounted DEF Undisturbed, Never
<1>4. CASE Start
  <2>1. JobExists(k)' = JobExists(k)
    BY <1>4 DEF Start, JobExists, Archived
  <2>2. Archived(k, {"recovered"})' = Archived(k, {"recovered"}) /\ InStaging(k)' = InStaging(k)
    BY <1>4 DEF Start, Archived, InStaging
  <2> QED
    BY <2>1, <2>2, <1>4, <1>n, <1>f, <1>t DEF Start, Remembered, Forgotten, Missing,
       InFlight, Recovering
<1>5. CASE Stop
  <2>1. JobExists(k)' = JobExists(k)
    BY <1>5 DEF Stop, JobExists, Archived
  <2>2. Archived(k, {"recovered"})' = Archived(k, {"recovered"}) /\ InStaging(k)' = InStaging(k)
    BY <1>5 DEF Stop, Archived, InStaging
  <2> QED
    BY <2>1, <2>2, <1>5, <1>n, <1>f, <1>t DEF Stop, Remembered, Forgotten, Missing,
       InFlight, Recovering
<1>6. CASE Crash
  <2>1. JobExists(k)' = JobExists(k)
    BY <1>6 DEF Crash, Die, JobExists, Archived
  <2>2. Archived(k, {"recovered"})' = Archived(k, {"recovered"})
    BY <1>6 DEF Crash, Die, Archived
  <2>3. InStaging(k) => InStaging(k)'
    BY <1>6, NothingOpen DEF Crash, Die, InStaging
  <2>4. Faulted' = Faulted + 1
    BY <1>6, <1>e DEF Crash
  <2> QED
    BY <2>1, <2>2, <2>3, <2>4, <1>6, <1>n, <1>f, <1>t DEF Crash, Die, Remembered,
       Forgotten, Missing,
       InFlight, Recovering
<1>7. CASE ArchivingFails
  BY <1>7, <1>n DEF ArchivingFails, StillStaged, TargetIsKnown, PlaceTaken
<1>8. CASE Recovered
  <2>1. JobExists(k)' = JobExists(k)
    BY <1>8 DEF Recovered, JobExists, Archived
  <2>2. Archived(k, {"recovered"})' = Archived(k, {"recovered"}) /\ InStaging(k)' = InStaging(k)
    BY <1>8 DEF Recovered, Archived, InStaging
  <2>3. ~InStaging(k)
    BY <1>8 DEF Recovered, InStaging
  <2> QED
    BY <2>1, <2>2, <2>3, <1>8, <1>n, <1>f, <1>t DEF Recovered, Remembered, Forgotten,
       Missing, InFlight, Recovering
<1>9. CASE BeginSync
  <2>1. JobExists(k)' = JobExists(k)
    BY <1>9 DEF BeginSync, JobExists, Archived
  <2>2. Archived(k, {"recovered"})' = Archived(k, {"recovered"}) /\ InStaging(k)' = InStaging(k)
    BY <1>9 DEF BeginSync, Archived, InStaging
  <2> QED
    BY <2>1, <2>2, <1>9, <1>n, <1>f, <1>t DEF BeginSync, Remembered, Forgotten,
       Missing, InFlight, Recovering
<1>10. CASE SkipSync
  <2>1. JobExists(k)' = JobExists(k)
    BY <1>10 DEF SkipSync, JobExists, Archived
  <2>2. Archived(k, {"recovered"})' = Archived(k, {"recovered"}) /\ InStaging(k)' = InStaging(k)
    BY <1>10 DEF SkipSync, Archived, InStaging
  <2> QED
    BY <2>1, <2>2, <1>10, <1>n, <1>f, <1>t DEF SkipSync, Remembered, Forgotten,
       Missing, InFlight, Recovering
<1>11. CASE SaveLedger
  <2>1. JobExists(k)' = JobExists(k)
    BY <1>11 DEF SaveLedger, JobExists, Archived
  <2>2. Archived(k, {"recovered"})' = Archived(k, {"recovered"}) /\ InStaging(k)' = InStaging(k)
    BY <1>11 DEF SaveLedger, Archived, InStaging
  <2> QED
    BY <2>1, <2>2, <1>11, <1>n, <1>f, <1>t DEF SaveLedger, MemoryGrows, Remembered,
       Forgotten, Missing, InFlight, Recovering
<1>12. CASE SyncRaises
  <2>1. JobExists(k)' = JobExists(k)
    BY <1>12 DEF SyncRaises, JobExists, Archived
  <2>2. Archived(k, {"recovered"})' = Archived(k, {"recovered"}) /\ InStaging(k)' = InStaging(k)
    BY <1>12 DEF SyncRaises, Archived, InStaging
  <2>3. Faulted' = Faulted + 1
    BY <1>12, <1>e DEF SyncRaises
  <2> QED
    BY <2>1, <2>2, <2>3, <1>12, <1>n, <1>f, <1>t DEF SyncRaises, Remembered, Forgotten,
       Missing, InFlight, Recovering
<1>13. CASE ClaimFile
  <2>1. job \in Job /\ pending[job].content # Nothing
    BY <1>13, <1>t, Files, Contents DEF ClaimFile, HandIsKnown
  <2>2. running'[job] # Nothing /\ pending[job] # NoFile
    BY <2>1, <1>13, <1>t, Files DEF ClaimFile
  <2>3. JobExists(k)' = JobExists(k)
    <3>1. CASE k = job
      BY <2>2, <3>1 DEF JobExists
    <3>2. CASE k # job
      BY <2>1, <3>2, <1>13, <1>t DEF ClaimFile, JobExists, Archived
    <3> QED
      BY <3>1, <3>2
  <2>4. Archived(k, {"recovered"})' = Archived(k, {"recovered"}) /\ InStaging(k)' = InStaging(k)
    BY <1>13 DEF ClaimFile, Archived, InStaging
  <2> QED
    BY <2>3, <2>4, <1>13, <1>n, <1>f, <1>t DEF ClaimFile, Remembered, Forgotten,
       Missing, InFlight, Recovering
<1>14. CASE NothingToClaim
  <2>1. JobExists(k)' = JobExists(k)
    BY <1>14 DEF NothingToClaim, JobExists, Archived
  <2>2. Archived(k, {"recovered"})' = Archived(k, {"recovered"}) /\ InStaging(k)' = InStaging(k)
    BY <1>14 DEF NothingToClaim, Archived, InStaging
  <2> QED
    BY <2>1, <2>2, <1>14, <1>n, <1>f, <1>t DEF NothingToClaim, Remembered, Forgotten,
       Missing, InFlight, Recovering
<1>15. CASE PrepareFails
  <2>1. JobExists(k)' = JobExists(k)
    BY <1>15 DEF PrepareFails, JobExists, Archived
  <2>2. Archived(k, {"recovered"})' = Archived(k, {"recovered"}) /\ InStaging(k)' = InStaging(k)
    BY <1>15 DEF PrepareFails, Archived, InStaging
  <2> QED
    BY <2>1, <2>2, <1>15, <1>n, <1>f, <1>t DEF PrepareFails, Remembered, Forgotten,
       Missing, InFlight, Recovering
<1>16. CASE Run
  <2>1. JobExists(k)' = JobExists(k)
    BY <1>16 DEF Run, JobExists, Archived
  <2>2. Archived(k, {"recovered"})' = Archived(k, {"recovered"}) /\ InStaging(k)' = InStaging(k)
    BY <1>16 DEF Run, Archived, InStaging
  <2> QED
    BY <2>1, <2>2, <1>16, <1>n, <1>f, <1>t DEF Run, Remembered, Forgotten, Missing,
       InFlight, Recovering
<1>17. CASE StageSuccess
  <2>1. JobExists(k)' = JobExists(k)
    BY <1>17 DEF StageSuccess, JobExists, Archived
  <2>2. Archived(k, {"recovered"})' = Archived(k, {"recovered"})
    BY <1>17 DEF StageSuccess, Archived
  <2>3. InStaging(k) => InStaging(k)'
    BY <1>17 DEF StageSuccess, InStaging
  <2> QED
    BY <2>1, <2>2, <2>3, <1>17, <1>n, <1>f, <1>t DEF StageSuccess, Remembered,
       Forgotten, Missing, InFlight, Recovering
<1>18. CASE Collect
  <2>1. JobExists(k)' = JobExists(k)
    BY <1>18 DEF Collect, JobExists, Archived
  <2>2. Archived(k, {"recovered"})' = Archived(k, {"recovered"}) /\ InStaging(k)' = InStaging(k)
    BY <1>18 DEF Collect, Archived, InStaging
  <2> QED
    BY <2>1, <2>2, <1>18, <1>n, <1>f, <1>t DEF Collect, Remembered, Forgotten, Missing,
       InFlight, Recovering
<1>19. CASE UnlinkRunning
  <2>1. k # job => JobExists(k)' = JobExists(k)
    BY <1>19, <1>t DEF UnlinkRunning, JobExists, Archived
  <2>2. Archived(k, {"recovered"})' = Archived(k, {"recovered"}) /\ InStaging(k)' = InStaging(k)
    BY <1>19 DEF UnlinkRunning, Archived, InStaging
  <2>3. k = job => InStaging(k)
    BY <1>19, <1>n DEF UnlinkRunning, StillStaged, HasStaging, OpenIsInHand, Open,
       InStaging
  <2> QED
    BY <2>1, <2>2, <2>3, <1>19, <1>n, <1>f, <1>t DEF UnlinkRunning, Remembered,
       Forgotten, Missing,
       InFlight, Recovering
<1>20. CASE SuccessRaises
  <2>1. JobExists(k)' = JobExists(k)
    BY <1>20 DEF SuccessRaises, JobExists, Archived
  <2>2. Archived(k, {"recovered"})' = Archived(k, {"recovered"})
    BY <1>20 DEF SuccessRaises, Archived
  <2>3. InStaging(k) => InStaging(k)'
    BY <1>20, NothingOpen DEF SuccessRaises, InStaging
  <2> QED
    BY <2>1, <2>2, <2>3, <1>20, <1>n, <1>f, <1>t DEF SuccessRaises, Remembered,
       Forgotten, Missing,
       InFlight, Recovering
<1>21. CASE StageFailure
  <2>1. JobExists(k)' = JobExists(k)
    BY <1>21 DEF StageFailure, JobExists, Archived
  <2>2. Archived(k, {"recovered"})' = Archived(k, {"recovered"})
    BY <1>21 DEF StageFailure, Archived
  <2>3. InStaging(k) => InStaging(k)'
    BY <1>21 DEF StageFailure, InStaging
  <2> QED
    BY <2>1, <2>2, <2>3, <1>21, <1>n, <1>f, <1>t DEF StageFailure, Remembered,
       Forgotten, Missing, InFlight, Recovering
<1>22. CASE ReleaseClaim
  <2>1. JobExists(k)' = JobExists(k)
    BY <1>22 DEF ReleaseClaim, EndJob, JobExists, Archived
  <2>2. Archived(k, {"recovered"})' = Archived(k, {"recovered"}) /\ InStaging(k)' = InStaging(k)
    BY <1>22 DEF ReleaseClaim, EndJob, Archived, InStaging
  <2> QED
    BY <2>1, <2>2, <1>22, <1>n, <1>f, <1>t DEF ReleaseClaim, EndJob, Remembered,
       Forgotten, Missing, InFlight, Recovering
<1>23. ASSUME NEW j \in Job, Submit(j) PROVE Remembered(k)'
  <2>1. JobExists(k)' = JobExists(k)
    BY <1>23 DEF Submit, JobExists, Archived
  <2>2. Archived(k, {"recovered"})' = Archived(k, {"recovered"}) /\ InStaging(k)' = InStaging(k)
    BY <1>23 DEF Submit, Archived, InStaging
  <2> QED
    BY <2>1, <2>2, <1>23, <1>n, <1>f, <1>t DEF Submit, Remembered, Forgotten, Missing,
       InFlight, Recovering
<1>24. ASSUME NEW j \in Job, Rewrite(j) PROVE Remembered(k)'
  <2>1. JobExists(k)' = JobExists(k)
    BY <1>24 DEF Rewrite, JobExists, Archived
  <2>2. Archived(k, {"recovered"})' = Archived(k, {"recovered"}) /\ InStaging(k)' = InStaging(k)
    BY <1>24 DEF Rewrite, Archived, InStaging
  <2> QED
    BY <2>1, <2>2, <1>24, <1>n, <1>f, <1>t DEF Rewrite, Remembered, Forgotten, Missing,
       InFlight, Recovering
<1>25. ASSUME NEW j \in Job, BeginCommand(j) PROVE Remembered(k)'
  <2>1. JobExists(k)' = JobExists(k)
    BY <1>25 DEF BeginCommand, JobExists, Archived
  <2>2. Archived(k, {"recovered"})' = Archived(k, {"recovered"}) /\ InStaging(k)' = InStaging(k)
    BY <1>25 DEF BeginCommand, Archived, InStaging
  <2> QED
    BY <2>1, <2>2, <1>25, <1>n, <1>f, <1>t DEF BeginCommand, Remembered, Forgotten,
       Missing, InFlight, Recovering
<1>26. ASSUME NEW j \in Job, RecoverRunning(j) PROVE Remembered(k)'
  <2>1. JobExists(k)' = JobExists(k)
    BY <1>26 DEF RecoverRunning, JobExists, Archived
  <2>2. Archived(k, {"recovered"})' = Archived(k, {"recovered"}) /\ InStaging(k)' = InStaging(k)
    BY <1>26 DEF RecoverRunning, Archived, InStaging
  <2> QED
    BY <2>1, <2>2, <1>26, <1>n, <1>f, <1>t DEF RecoverRunning, Remembered, Forgotten,
       Missing, InFlight, Recovering
<1>27. ASSUME NEW j \in Job, SyncFile(j) PROVE Remembered(k)'
  <2>1. Archived(k, {"recovered"})' = Archived(k, {"recovered"}) /\ InStaging(k)' = InStaging(k)
    BY <1>27 DEF SyncFile, ImportNew, RecordExisting, RecordConflict, AlreadySeen,
       Archived,
       InStaging
  <2>2. CASE ImportNew(j) /\ k = j
    <3>1. JobExists(k)' /\ ~JobExists(k)
      BY <2>2, <1>27, <1>t, Files, Contents DEF SyncFile, ImportNew, JobExists, TypeOK
    <3>2. memory[k] = Nothing /\ ledger[k] = Nothing /\ memory'[k] # Nothing
      BY <2>2, <1>27, <1>t, Contents DEF SyncFile, ImportNew, Record, MemoryGrows
    <3>3. imports[k] # <<>> => Archived(k, {"recovered"}) /\ Faulted >= 2
      BY <3>1, <3>2, <1>27, <1>n, <1>f DEF SyncFile, Remembered, Forgotten, Missing,
         InFlight, Recovering
    <3>4. imports[k] = <<>> => ~(Len(imports'[k]) > 1)
      <4>1. files[k] \in Content /\ imports'[k] = Append(imports[k], files[k])
        BY <2>2, <1>27, <1>t, Contents DEF SyncFile, ImportNew, TypeOK
      <4> QED
        BY <4>1, <1>t
    <3>5. ~Missing(k)' /\ ~Forgotten(k)'
      BY <3>1, <3>2, <1>27 DEF SyncFile, Missing, Forgotten
    <3>6. Len(imports'[k]) > 1 => Archived(k, {"recovered"})' /\ Faulted' >= 2
      <4>1. CASE imports[k] = <<>>
        BY <4>1, <3>4
      <4>2. CASE imports[k] # <<>>
        <5>1. Archived(k, {"recovered"})'
          BY <4>2, <2>1, <3>3
        <5>2. Faulted' >= 2
          BY <4>2, <3>3, <1>f
        <5> QED
          BY <5>1, <5>2
      <4> QED
        BY <4>1, <4>2
    <3> QED
      BY <3>1, <3>5, <3>6 DEF Remembered
  <2>3. CASE RecordExisting(j) /\ k = j
    <3>1. JobExists(k)' = JobExists(k) /\ JobExists(k)
      BY <2>3, <1>27 DEF SyncFile, RecordExisting, JobExists, Archived
    <3>2. memory'[k] # Nothing
      BY <2>3, <1>27, <1>t DEF SyncFile, RecordExisting, Record
    <3> QED
      BY <2>1, <2>3, <3>1, <3>2, <1>27, <1>n, <1>f DEF SyncFile, RecordExisting,
         Remembered, Forgotten, Missing
  <2>4. CASE RecordConflict(j) \/ AlreadySeen(j) \/ k # j
    <3>1. JobExists(k)' = JobExists(k)
      BY <2>4, <1>27, <1>t DEF SyncFile, ImportNew, RecordExisting, RecordConflict,
         AlreadySeen,
         JobExists, Archived
    <3>2. memory'[k] = memory[k] /\ imports'[k] = imports[k]
      BY <2>4, <1>27, <1>t DEF SyncFile, ImportNew, RecordExisting, RecordConflict,
         AlreadySeen, Record
    <3> QED
      BY <2>1, <3>1, <3>2, <1>27, <1>n, <1>f DEF SyncFile, Remembered, Forgotten,
         Missing, InFlight, Recovering
  <2> QED
    BY <2>2, <2>3, <2>4, <1>27 DEF SyncFile
<1>28. ASSUME NEW j \in Job, Load(j) PROVE Remembered(k)'
  <2>1. JobExists(k)' = JobExists(k)
    BY <1>28 DEF Load, JobExists, Archived
  <2>2. Archived(k, {"recovered"})' = Archived(k, {"recovered"}) /\ InStaging(k)' = InStaging(k)
    BY <1>28 DEF Load, Archived, InStaging
  <2> QED
    BY <2>1, <2>2, <1>28, <1>n, <1>f, <1>t DEF Load, Remembered, Forgotten, Missing,
       InFlight, Recovering
<1>29. ASSUME NEW d \in staging, RecoverStaging(d) PROVE Remembered(k)'
  <2>1. [job |-> d.job, place |-> "recovered", content |-> d.content] \in archive'
    BY <1>29 DEF RecoverStaging, RecoverDirectory
  <2>2. JobExists(k)' = JobExists(k)
    BY <1>29 DEF RecoverStaging, RecoverDirectory, JobExists, Archived
  <2>3. Archived(k, {"recovered"}) \/ k = d.job => Archived(k, {"recovered"})'
    BY <2>1, <1>29 DEF RecoverStaging, RecoverDirectory, Archived
  <2>4. k # d.job /\ InStaging(k) => InStaging(k)'
    BY <1>29 DEF RecoverStaging, RecoverDirectory, InStaging
  <2> QED
    BY <2>2, <2>3, <2>4, <1>29, <1>n, <1>f, <1>t DEF RecoverStaging, Remembered,
       Forgotten, Missing,
       InFlight, Recovering
<1>30. ASSUME NEW d \in staging, PublishSuccess(d) PROVE Remembered(k)'
  <2>1. d.job = job
    BY <1>30 DEF PublishSuccess, OpenIsInHand, Open
  <2>2. [job |-> job, place |-> "completed", content |-> d.content] \in archive'
    BY <1>30 DEF PublishSuccess
  <2>3. k = job => JobExists(k)'
    BY <2>2, <1>30 DEF PublishSuccess, JobExists, Archived
  <2>4. k # job => JobExists(k)' = JobExists(k)
    BY <1>30 DEF PublishSuccess, JobExists, Archived
  <2>5. Archived(k, {"recovered"}) => Archived(k, {"recovered"})'
    BY <1>30 DEF PublishSuccess, Archived
  <2>6. k # job /\ InStaging(k) => InStaging(k)'
    BY <2>1, <1>30 DEF PublishSuccess, InStaging
  <2> QED
    BY <2>3, <2>4, <2>5, <2>6, <1>30, <1>n, <1>f, <1>t DEF PublishSuccess, EndJob,
       Remembered, Forgotten, Missing, InFlight, Recovering
<1>31. ASSUME NEW d \in staging, MoveToFailure(d) PROVE Remembered(k)'
  <2>1. d.job = job
    BY <1>31 DEF MoveToFailure, OpenIsInHand, Open
  <2>2. Staged(running[job], TRUE) \in staging' /\ Staged(running[job], TRUE).job = job
    BY <1>31 DEF MoveToFailure, Staged
  <2>3. k = job => InStaging(k)'
    BY <2>2 DEF InStaging
  <2>4. k # job => JobExists(k)' = JobExists(k)
    BY <1>31, <1>t DEF MoveToFailure, JobExists, Archived
  <2>5. Archived(k, {"recovered"}) = Archived(k, {"recovered"})'
    BY <1>31 DEF MoveToFailure, Archived
  <2>6. k # job /\ InStaging(k) => InStaging(k)'
    BY <2>1, <1>31 DEF MoveToFailure, InStaging
  <2> QED
    BY <2>3, <2>4, <2>5, <2>6, <1>31, <1>n, <1>f, <1>t DEF MoveToFailure, Remembered,
       Forgotten, Missing,
       InFlight, Recovering
<1>32. ASSUME NEW d \in staging, PublishFailure(d) PROVE Remembered(k)'
  <2>1. d.job = job
    BY <1>32 DEF PublishFailure, OpenIsInHand, Open
  <2>2. [job |-> job, place |-> target, content |-> d.content] \in archive'
    BY <1>32 DEF PublishFailure
  <2>3. k = job => JobExists(k)'
    BY <2>2, <1>32 DEF PublishFailure, JobExists, Archived, FailurePlaces, TargetIsKnown,
       TypeOK
  <2>4. k # job => JobExists(k)' = JobExists(k)
    BY <1>32 DEF PublishFailure, JobExists, Archived
  <2>5. Archived(k, {"recovered"}) => Archived(k, {"recovered"})'
    BY <1>32 DEF PublishFailure, Archived
  <2>6. k # job /\ InStaging(k) => InStaging(k)'
    BY <2>1, <1>32 DEF PublishFailure, InStaging
  <2> QED
    BY <2>3, <2>4, <2>5, <2>6, <1>32, <1>n, <1>f, <1>t DEF PublishFailure, EndJob,
       Remembered, Forgotten, Missing, InFlight, Recovering
<1> QED
  BY <1>1, <1>2, <1>3, <1>4, <1>5, <1>6, <1>7, <1>8, <1>9, <1>10, <1>11, <1>12,
     <1>13, <1>14, <1>15, <1>16, <1>17, <1>18, <1>19, <1>20, <1>21, <1>22, <1>23,
     <1>24, <1>25, <1>26, <1>27, <1>28, <1>29, <1>30, <1>31, <1>32 DEF Next,
     HostStep

-----------------------------------------------------------------------------
(* The invariant, and what it says.                                        *)

\* The invariant holds at first,
LEMMA InitHolds == Init => Inv
<1> SUFFICES ASSUME Init PROVE Inv
  OBVIOUS
<1> USE DEF Init
<1>1. TypeOK
  <2>1. PICK bound \in Bounds :
           budget = [event \in Events |-> [spent |-> 0, left |-> bound[event]]]
    OBVIOUS
  <2>2. bound \in [Events -> Nat]
    BY PersistentHostAssumption
  <2>3. budget \in [Events -> [spent : Nat, left : Nat]]
    BY <2>1, <2>2
  <2> QED
    BY <2>3, Contents DEF TypeOK, Steps, FailurePlaces
<1>2. \A j \in Job : imports[j] = <<>> /\ runs[j] = <<>> /\ ~(imports[j] # <<>>)
  OBVIOUS
<1>z. \A s : s = <<>> => Len(s) = 0 /\ ~(Len(s) > 1) /\ DOMAIN s = {}
  <2>1. Len(<<>>) = 0 /\ ~(Len(<<>>) > 1) /\ DOMAIN <<>> = {}
    OBVIOUS
  <2> QED
    BY <2>1
<1>3. HandIsKnown /\ RunningIsInHand /\ OpenIsInHand /\ CopiedFirst /\ MemoryGrows
  BY Contents DEF HandIsKnown, RunningIsInHand, OpenIsInHand, Open, CopiedFirst,
     MemoryGrows
<1>4. /\ CommandIsKnown /\ LedgerRemembers /\ StillStaged /\ ClaimsFollow
      /\ InstallerIsCounted /\ TargetIsKnown
  BY <1>2, <1>z, Contents, Files DEF CommandIsKnown, LedgerRemembers, StillStaged,
     ClaimsFollow, Open, InstallerIsCounted, TargetIsKnown
<1>5. RunsAreImported
  <2>1. \A j \in Job : Waits(j) = 0 /\ Fresh(j) = 0
    BY DEF Waits, Fresh
  <2>2. ASSUME NEW j \in Job PROVE Supplied(j)
    <3>1. Len(runs[j]) = 0 /\ Len(imports[j]) = 0 /\ Waits(j) = 0 /\ Fresh(j) = 0
      BY <1>2, <1>z, <2>1
    <3> QED
      BY <3>1 DEF Supplied
  <2> QED
    BY <2>2 DEF RunsAreImported
<1>6. Reimported
  <2>1. ASSUME NEW j \in Job PROVE Remembered(j)
    <3>1. ~(Len(imports[j]) > 1) /\ ~(imports[j] # <<>>)
      BY <1>2, <1>z
    <3> QED
      BY <3>1 DEF Remembered, Forgotten, Missing
  <2> QED
    BY <2>1 DEF Reimported
<1>7. NoJobLost /\ OnePlaceInQueue /\ RunningWhileExecuted
  BY <1>2, <1>z DEF NoJobLost, OnePlaceInQueue, RunningWhileExecuted
<1> QED
  BY <1>1, <1>3, <1>4, <1>5, <1>6, <1>7 DEF Inv

\* and every step keeps it.
LEMMA StepHolds == Inv /\ [Next]_vars => Inv'
<1> SUFFICES ASSUME Inv, [Next]_vars PROVE Inv'
  OBVIOUS
<1>1. TypeOK' /\ TypeOK /\ HandIsKnown
  BY TypesKept DEF Inv
<1>2. Undisturbed' => Undisturbed
  BY <1>1, NeverBefore DEF Undisturbed, Events, Faults
<1>3. RunsAreImported'
  BY <1>2, RunsKept DEF RunsAreImported
<1>4. Reimported'
  BY <1>2, MemoryOfJobs DEF Reimported
<1> QED
  BY <1>1, <1>3, <1>4, HandKept, RunningKept, OpenKept, CopyKept, CommandKept, MemoryKept,
     LedgerKept, StagedKept, InstallerKept, TargetKept, ClaimsKept, WorkKept, PlaceKept,
     JobsKept DEF Inv

\* So it always holds.
LEMMA InvHolds == Spec => []Inv
  BY InitHolds, StepHolds, PTL DEF Spec

\* For any jobs, faults, commands and rewritten files: no imported job is lost
\* in a crash or a failed archive, none waits and runs at once, a job is worked
\* on while its file is in running/, and a ledger that nothing went wrong with
\* remembers every import (persistent_host.py, process_one and
\* sync_git_job_feed).
THEOREM QueueKept == Spec => []QueueInv
<1>1. Inv => QueueInv
  <2> SUFFICES ASSUME Inv PROVE ImportedOnce
    BY DEF Inv, QueueInv
  <2> QED
    BY DEF Inv, LedgerRemembers, ImportedOnce
<1> QED
  BY <1>1, InvHolds, PTL

\* A job that no command puts back runs a second time only if the archive of
\* its first run was recovered under a name _job_exists does not know and the
\* ledger lost its import, however many crashes there are.
THEOREM RerunsNeedTwoFaults == Spec => []RerunNeedsTwoFaults
<1>1. Inv => RerunNeedsTwoFaults
  <2> SUFFICES ASSUME Inv, Undisturbed, NEW j \in Job, Len(runs[j]) > 1
               PROVE  Archived(j, {"recovered"}) /\ Faulted >= 2
    BY DEF RerunNeedsTwoFaults, Undisturbed, Faulted
  <2>1. Supplied(j) /\ Remembered(j)
    BY DEF Inv, RunsAreImported, Reimported
  <2>2. Len(runs[j]) \in Nat /\ Len(imports[j]) \in Nat
    BY DEF Inv, TypeOK
  <2>3. Waits(j) \in {0, 1} /\ Fresh(j) \in {0, 1}
    BY DEF Waits, Fresh
  <2>4. Len(imports[j]) > 1
    BY <2>1, <2>2, <2>3 DEF Supplied
  <2> QED
    BY <2>1, <2>4 DEF Remembered
<1> QED
  BY <1>1, InvHolds, PTL

\* Between two jobs no archived attempt that failed holds its writer claim
\* (_release_claim_for_failure), unless a fault or a host-init came between.
THEOREM ClaimsAreFreed == Spec => []FailedAttemptsFreeTheirClaim
<1>1. Inv => FailedAttemptsFreeTheirClaim
  BY DEF Inv, ClaimsFollow, FailedAttemptsFreeTheirClaim
<1> QED
  BY <1>1, InvHolds, PTL

-----------------------------------------------------------------------------
(* The lock file, for any number of process slots and lives.                  *)

\* The starts in progress: one at a time.
OneStarting == \A p, q \in Proc : lockPc[p] \in Attempting /\ lockPc[q] \in Attempting => p = q

\* Whoever lives has been started; the file names a life that has begun, and
\* no start has met its own.
LivesBegun ==
    /\ \A p \in Proc : Live(p) => life[p] >= 1
    /\ lockFile \in Pids => lockFile[2] <= life[lockFile[1]]
    /\ \A p \in Proc : lockPc[p] \in Attempting => lockFile # Pid(p) /\ saw[p] # Pid(p)

\* The lock file names its holder.
HeldNamed == \A p \in Proc : Holds(p) => lockFile = Pid(p)

\* A start that meets a holder has not got past the check of its pid.
HolderMet ==
    \A p, q \in Proc : Holds(p) =>
        /\ lockPc[q] \notin {"steal", "create", "write"}
        /\ lockPc[q] = "check" => saw[q] = Pid(p)

LockInv == LockTypeOK /\ OneStarting /\ LivesBegun /\ HeldNamed /\ HolderMet

\* A start that has another live process beside it knows.
Noticed ==
    \A p, q \in Proc : lockPc[p] \in Attempting /\ Live(q) /\ q # p => p \in contended

\* Only who is writing the file has it open.
OpenedByWriter ==
    \A pid \in opened : lockPc[pid[1]] = "write" /\ pid = Pid(pid[1])

\* Whoever creates the file under a start that has seen it gone, lives.
CreatedByTheLiving ==
    \A p \in Proc : lockPc[p] = "create" /\ lockFile # NoLockFile => p \in contended

RefusalInv ==
    /\ LockTypeOK /\ LivesBegun
    /\ Noticed /\ OpenedByWriter /\ CreatedByTheLiving /\ RefusedOnlyByTheLiving

\* A life of a process is none of the values that stand for no readable pid.
LEMMA PidsAreNotMarks ==
    \A p : \A n \in Nat : n >= 1 =>
        <<p, n>> # NoLockFile /\ <<p, n>> # Unwritten /\ <<p, n>> # NoPid
  BY DEF NoLockFile, Unwritten, NoPid

\* When nothing has started there is no host and no lock.
LEMMA LockStarts == LockInit => LockInv
  BY ProcessLockAssumption
     DEF LockInit, LockInv, LockTypeOK, OneStarting, LivesBegun, HeldNamed, HolderMet, Live, Holds,
         LockSteps, Attempting, Pids, NoLockFile, NoPid, Unwritten

\* Every step keeps the invariant when starts are serial.
LEMMA LockKept ==
    ASSUME SerialStarts, LockInv, [LockNext]_lockVars
    PROVE  LockInv'
<1> USE ProcessLockAssumption, PidsAreNotMarks
        DEF LockInv, LockTypeOK, OneStarting, LivesBegun, HeldNamed, HolderMet, Live, Holds, Pid,
            Pids, StepTo, LockSteps, Attempting
<1>1. ASSUME NEW p \in Proc, StartHost(p) PROVE LockInv'
  BY <1>1 DEF StartHost, NoPid, NoLockFile, Unwritten
<1>2. ASSUME NEW p \in Proc, CheckExists(p) PROVE LockInv'
  <2>1. LockTypeOK' /\ OneStarting' /\ LivesBegun' /\ HeldNamed'
    BY <1>2 DEF CheckExists
  <2>2. ASSUME NEW q \in Proc, Holds(q) PROVE lockFile # NoLockFile
    BY <2>2
  <2>3. HolderMet'
    BY <1>2, <2>2 DEF CheckExists
  <2>4. QED
    BY <2>1, <2>3
<1>3. ASSUME NEW p \in Proc, ReadOwner(p) PROVE LockInv'
  <2>1. LockTypeOK' /\ OneStarting' /\ HeldNamed'
    BY <1>3 DEF ReadOwner
  <2>2. LivesBegun'
    BY <1>3 DEF ReadOwner
  <2>3. ASSUME NEW q \in Proc, Holds(q) PROVE saw'[p] = Pid(q)
    <3>1. lockFile = <<q, life[q]>> /\ life[q] \in Nat /\ life[q] >= 1
      BY <2>3
    <3>2. lockFile \notin {NoLockFile, Unwritten}
      BY <3>1
    <3>3. QED
      BY <1>3, <3>1, <3>2 DEF ReadOwner
  <2>4. HolderMet'
    BY <1>3, <2>3 DEF ReadOwner
  <2>5. QED
    BY <2>1, <2>2, <2>4
<1>4. ASSUME NEW p \in Proc, CheckAlive(p) PROVE LockInv'
  <2>1. LockTypeOK' /\ OneStarting' /\ LivesBegun' /\ HeldNamed'
    BY <1>4 DEF CheckAlive
  <2>2. ASSUME NEW q \in Proc, Holds(q) PROVE PidAlive(saw[p])
    <3>1. saw[p] = <<q, life[q]>> /\ life[q] \in Nat /\ life[q] >= 1
      BY <1>4, <2>2 DEF CheckAlive
    <3>2. saw[p] # NoPid
      BY <3>1
    <3>3. saw[p][1] = q /\ saw[p][2] = life[q]
      BY <3>1
    <3>4. QED
      BY <2>2, <3>2, <3>3 DEF PidAlive
  <2>3. HolderMet'
    BY <1>4, <2>2 DEF CheckAlive
  <2>4. QED
    BY <2>1, <2>3
<1>5. ASSUME NEW p \in Proc, MoveStale(p) PROVE LockInv'
  BY <1>5 DEF MoveStale
<1>6. ASSUME NEW p \in Proc, CreateExclusive(p) PROVE LockInv'
  BY <1>6 DEF CreateExclusive
<1>7. ASSUME NEW p \in Proc, WritePayload(p) PROVE LockInv'
  BY <1>7 DEF WritePayload
<1>8. ASSUME NEW p \in Proc, ReadToken(p) PROVE LockInv'
  BY <1>8 DEF ReadToken
<1>9. ASSUME NEW p \in Proc, Unlink(p) PROVE LockInv'
  BY <1>9 DEF Unlink
<1>10. ASSUME NEW p \in Proc, HostDies(p) PROVE LockInv'
  BY <1>10 DEF HostDies
<1>11. CASE UNCHANGED lockVars
  BY <1>11 DEF lockVars
<1>12. QED
  BY <1>1, <1>2, <1>3, <1>4, <1>5, <1>6, <1>7, <1>8, <1>9, <1>10, <1>11 DEF LockNext,
     Acquiring

\* The lock file is held by one host at a time (property OneHost), also when
\* hosts die with the file in place, provided that no start begins while
\* another is still inside acquire().
THEOREM SingleHost ==
    ASSUME SerialStarts
    PROVE  LockSpec => []OneHost
<1>1. LockInv => OneHost
  BY DEF LockInv, HeldNamed, OneHost, Pid
<1>2. LockInv /\ [LockNext]_lockVars => LockInv'
  BY LockKept
<1>3. QED
  BY LockStarts, <1>1, <1>2, PTL DEF LockSpec

-----------------------------------------------------------------------------
\* Nobody has been refused when nothing has started.
LEMMA RefusalStarts == LockInit => RefusalInv
  BY LockStarts
     DEF LockInv, LockInit, RefusalInv, Noticed, OpenedByWriter, CreatedByTheLiving,
         RefusedOnlyByTheLiving, Attempting

\* A process that creates, writes or has the file open lives beside the others.
LEMMA OthersNotice ==
    ASSUME RefusalInv, NEW p \in Proc, lockPc[p] \in Attempting,
           NEW q \in Proc, q # p, lockPc[q] \in Attempting
    PROVE  p \in contended
  BY DEF RefusalInv, Noticed, Live, Attempting

\* Lives go on from start to start, whether or not others are starting.
LEMMA LivesKept ==
    ASSUME LockTypeOK, LivesBegun, [LockNext]_lockVars
    PROVE  LockTypeOK' /\ LivesBegun'
<1> USE ProcessLockAssumption, PidsAreNotMarks
        DEF LockTypeOK, LivesBegun, Live, Pid, Pids, StepTo, LockSteps, Attempting
<1>1. ASSUME NEW p \in Proc, StartHost(p) PROVE LockTypeOK' /\ LivesBegun'
  BY <1>1 DEF StartHost, NoPid, NoLockFile, Unwritten
<1>2. ASSUME NEW p \in Proc, CheckExists(p) PROVE LockTypeOK' /\ LivesBegun'
  BY <1>2 DEF CheckExists
<1>3. ASSUME NEW p \in Proc, ReadOwner(p) PROVE LockTypeOK' /\ LivesBegun'
  BY <1>3 DEF ReadOwner
<1>4. ASSUME NEW p \in Proc, CheckAlive(p) PROVE LockTypeOK' /\ LivesBegun'
  BY <1>4 DEF CheckAlive
<1>5. ASSUME NEW p \in Proc, MoveStale(p) PROVE LockTypeOK' /\ LivesBegun'
  BY <1>5 DEF MoveStale
<1>6. ASSUME NEW p \in Proc, CreateExclusive(p) PROVE LockTypeOK' /\ LivesBegun'
  <2>1. LockTypeOK'
    BY <1>6 DEF CreateExclusive
  <2>2. Unwritten \notin Pids /\ \A q \in Proc : lockPc[q] \in Attempting => Pid(q) # Unwritten
    BY DEF Unwritten
  <2>3. LivesBegun'
    BY <1>6, <2>2 DEF CreateExclusive
  <2>4. QED
    BY <2>1, <2>3
<1>7. ASSUME NEW p \in Proc, WritePayload(p) PROVE LockTypeOK' /\ LivesBegun'
  BY <1>7 DEF WritePayload
<1>8. ASSUME NEW p \in Proc, ReadToken(p) PROVE LockTypeOK' /\ LivesBegun'
  BY <1>8 DEF ReadToken
<1>9. ASSUME NEW p \in Proc, Unlink(p) PROVE LockTypeOK' /\ LivesBegun'
  BY <1>9 DEF Unlink
<1>10. ASSUME NEW p \in Proc, HostDies(p) PROVE LockTypeOK' /\ LivesBegun'
  BY <1>10 DEF HostDies
<1>11. CASE UNCHANGED lockVars
  BY <1>11 DEF lockVars
<1>12. QED
  BY <1>1, <1>2, <1>3, <1>4, <1>5, <1>6, <1>7, <1>8, <1>9, <1>10, <1>11 DEF LockNext,
     Acquiring

\* Every step keeps what the refusals rest on.
LEMMA RefusalKept ==
    ASSUME RefusalInv, [LockNext]_lockVars
    PROVE  RefusalInv'
<1> DEFINE Notes == Noticed /\ OpenedByWriter /\ CreatedByTheLiving /\ RefusedOnlyByTheLiving
<1>1. LockTypeOK /\ LivesBegun /\ LockTypeOK' /\ LivesBegun' /\ Notes
  BY LivesKept DEF RefusalInv
<1> USE ProcessLockAssumption
        DEF LockTypeOK, Live, StepTo, Attempting, Noticed, OpenedByWriter, CreatedByTheLiving,
            RefusedOnlyByTheLiving, Pid, Pids
<1>2. ASSUME NEW p \in Proc, StartHost(p) PROVE Notes'
  BY <1>1, <1>2 DEF StartHost
<1>3. ASSUME NEW p \in Proc, CheckExists(p) PROVE Notes'
  BY <1>1, <1>3 DEF CheckExists
<1>4. ASSUME NEW p \in Proc, ReadOwner(p) PROVE Notes'
  BY <1>1, <1>4 DEF ReadOwner
<1>5. ASSUME NEW p \in Proc, CheckAlive(p) PROVE Notes'
  <2>1. ASSUME PidAlive(saw[p]) PROVE p \in contended
    BY <1>1, <1>5, <2>1 DEF CheckAlive, PidAlive, LivesBegun
  <2>2. QED
    BY <1>1, <1>5, <2>1 DEF CheckAlive
<1>6. ASSUME NEW p \in Proc, MoveStale(p) PROVE Notes'
  <2>1. ASSUME opened # {} PROVE p \in contended
    BY <1>1, <1>6, <2>1 DEF MoveStale
  <2>2. QED
    BY <1>1, <1>6, <2>1 DEF MoveStale
<1>7. ASSUME NEW p \in Proc, CreateExclusive(p) PROVE Notes'
  <2>1. CASE lockFile = NoLockFile
    <3>1. /\ lockPc' = [lockPc EXCEPT ![p] = "write"] /\ opened' = opened \cup {Pid(p)}
          /\ UNCHANGED <<life, contended>>
      BY <1>7, <2>1 DEF CreateExclusive
    <3>2. Noticed' /\ RefusedOnlyByTheLiving'
      BY <1>1, <1>7, <3>1 DEF CreateExclusive
    <3>3. OpenedByWriter'
      BY <1>1, <3>1
    <3>4. CreatedByTheLiving'
      BY <1>1, <1>7, <3>1, OthersNotice DEF CreateExclusive
    <3>5. QED
      BY <3>2, <3>3, <3>4
  <2>2. CASE lockFile # NoLockFile
    BY <1>1, <1>7, <2>2 DEF CreateExclusive
  <2>3. QED
    BY <2>1, <2>2
<1>8. ASSUME NEW p \in Proc, WritePayload(p) PROVE Notes'
  <2>1. \A q \in Proc : lockPc[q] = "create" => q \in contended
    BY <1>8, OthersNotice DEF WritePayload
  <2>2. QED
    BY <1>1, <1>8, <2>1 DEF WritePayload
<1>9. ASSUME NEW p \in Proc, ReadToken(p) PROVE Notes'
  BY <1>1, <1>9 DEF ReadToken
<1>10. ASSUME NEW p \in Proc, Unlink(p) PROVE Notes'
  BY <1>1, <1>10 DEF Unlink
<1>11. ASSUME NEW p \in Proc, HostDies(p) PROVE Notes'
  BY <1>1, <1>11 DEF HostDies
<1>12. ASSUME UNCHANGED lockVars PROVE Notes'
  BY <1>1, <1>12 DEF lockVars
<1>13. QED
  BY <1>1, <1>2, <1>3, <1>4, <1>5, <1>6, <1>7, <1>8, <1>9, <1>10, <1>11, <1>12
     DEF RefusalInv, LockNext, Acquiring

\* A dead host's lock file keeps nobody out (property RefusedOnlyByTheLiving):
\* whoever is refused had another live process beside it, even if both start at
\* the same moment.
THEOREM NoFalseRefusal == LockSpec => []RefusedOnlyByTheLiving
<1>1. RefusalInv => RefusedOnlyByTheLiving
  BY DEF RefusalInv
<1>2. RefusalInv /\ [LockNext]_lockVars => RefusalInv'
  BY RefusalKept
<1>3. QED
  BY RefusalStarts, <1>1, <1>2, PTL DEF LockSpec
=============================================================================
