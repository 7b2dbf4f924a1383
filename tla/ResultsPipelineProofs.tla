------------------------ MODULE ResultsPipelineProofs ------------------------
(***************************************************************************)
(* For any jobs, items, lanes and paths, any number of faults and of       *)
(* pushes of others: the types, that the work on the results branch is the *)
(* job's own or a later one's that fits it (FittingWorkRelayed), that the  *)
(* gate passes over no result without its verdict (NothingUnjudgedPassed), *)
(* that every failed verdict the revision loop has settled has its         *)
(* correction (RevisionsQueued), and that what is made twice took a fault  *)
(* of its maker (RewritesCounted).                                         *)
(***************************************************************************)
EXTENDS ResultsPipeline, WellFoundedInduction, TLAPS

\* The order of the job ids.
Below == {p \in Nat \X Nat : p[1] < p[2]}

\* The first of a set of jobs is one of them, and no other comes before it.
LEMMA FirstIsLeast ==
    ASSUME NEW S \in SUBSET Nat, S # {}
    PROVE  First(S) \in S /\ \A k \in S : First(S) <= k
<1>1. OpToRel(<, Nat) = Below
  BY Zenon DEF OpToRel, Below
<1>2. \E j \in S : \A k \in S : ~(<<k, j>> \in Below)
  BY <1>1, WFMin, NatLessThanWellFounded, Zenon
<1>3. PICK j \in S : \A k \in S : ~(<<k, j>> \in Below)
  BY <1>2
<1>4. \A k \in S : j <= k
  <2>1. SUFFICES ASSUME NEW k \in S PROVE j <= k
    OBVIOUS
  <2>2. j \in Nat /\ k \in Nat
    OBVIOUS
  <2>3. <<k, j>> \in Below <=> k < j
    BY <2>2 DEF Below
  <2>4. QED
    BY <1>3, <2>2, <2>3
<1>5. QED
  BY <1>4, Zenon DEF First

\* What is left of a set from j on begins with j.
LEMMA FirstFrom ==
    ASSUME NEW S \in SUBSET Nat, NEW j \in S
    PROVE  First({k \in S : k >= j}) = j
<1>1. j \in Nat /\ S \subseteq Nat
  OBVIOUS
<1>2. PICK T : T = {k \in S : k >= j}
  OBVIOUS
<1>3. \A k \in Nat : k \in T <=> k \in S /\ k >= j
  BY <1>2
<1>4. T \in SUBSET Nat
  BY <1>1, <1>2
<1>5. j \in T
  BY <1>1, <1>3
<1>6. First(T) \in T /\ First(T) <= j
  BY <1>4, <1>5, FirstIsLeast
<1>7. First(T) \in Nat /\ First(T) >= j
  BY <1>3, <1>4, <1>6
<1>8. First(T) = j
  BY <1>1, <1>6, <1>7
<1>9. QED
  BY <1>2, <1>8

-----------------------------------------------------------------------------
\* A lane's workspace holds a job of that lane, once one has completed there;
\* the relay works on completed jobs and publishes work that fits the one in
\* hand.
RelayOwn ==
    /\ \A j \in Job : LET w == workspace[Lane[j]] IN
           w # NoJob => w \in completed /\ Lane[w] = Lane[j]
    /\ \A j \in completed : workspace[Lane[j]] # NoJob
    /\ relay.todo \subseteq completed
    /\ relay.at # "idle" => relay.todo # {}
    /\ relay.at = "publish" =>
           relay.work \in Job /\ Fits(First(relay.todo), relay.work)
    /\ relay.at = "push" => commit # NoCommit

\* An unpushed result is the next version of its job's, with work that fits it.
CommitOwn ==
    commit # NoCommit =>
        /\ Fits(commit.job, commit.result.work)
        /\ commit.result.version = results[commit.job].version + 1
        /\ commit.result.verdict = NoVerdict

\* The gate's clone holds nothing the branch has lost, and its list nothing the
\* clone does not hold.
GateOwn ==
    /\ \A j \in Job : base[j].version <= results[j].version
    /\ gate.todo \subseteq Resulted(base)
    /\ gate.at \in {"push", "rebase", "again", "record"} =>
           gate.todo # {} /\ gate.verdict \in Verdict

\* The job in the gate's hands is not in its ledger, no ledger entry or verdict
\* is of a version to come, and a delivered verdict of the version on the
\* branch is on the branch.
LedgerOwn ==
    /\ \A j \in Job : ledgers.gate[j] <= results[j].version
    /\ gate.at \in {"push", "rebase", "again", "record"} =>
           LET j == First(gate.todo) IN
           /\ ledgers.gate[j] = 0
           /\ gate.verdict.version <= results[j].version
           /\ gate.at = "record" /\ gate.verdict.version = results[j].version
                  => results[j].verdict.version = results[j].version

\* The revision loop takes failed verdicts of its clone.
LoopOwn ==
    /\ \A j \in loop.todo : seen[j] \in Verdict
    /\ loop.at \in {"push", "record"} => loop.todo # {}

Shape == TypeOK /\ RelayOwn /\ CommitOwn /\ GateOwn /\ LoopOwn
PipelineInv == Shape /\ RelayedWorkFits /\ LedgerOwn /\ PassedOverMeansJudged

\* The values the model is made of.
LEMMA Values ==
    /\ NoVerdict \notin Verdict /\ NoVerdict.version = 0
    /\ NoResult \notin Result /\ NoResult.version = 0 /\ NoResult.verdict = NoVerdict
    /\ \A r \in Result : r.version \in Nat \ {0} /\ r.work \in Job
                        /\ r.verdict \in Verdict \cup {NoVerdict}
    /\ \A v \in Verdict \cup {NoVerdict} : v.version \in Nat /\ v.number \in Nat
    /\ \A v \in Verdict \cup {NoVerdict} : v.status = "failed" => v \in Verdict
    /\ \A r \in Result \cup {NoResult} : r.version \in Nat
                        /\ (r.version # 0 <=> r \in Result) /\ (r # NoResult <=> r \in Result)
                        /\ r.verdict \in Verdict \cup {NoVerdict}
    /\ NoCommit.job = NoJob /\ NoJob \notin Job
  BY ResultsPipelineAssumption DEF NoVerdict, Verdict, Status, NoResult, Result, NoCommit

\* The relay has a completed job in its hands whenever it is at work.
LEMMA RelayHand ==
    ASSUME Shape, relay.at # "idle"
    PROVE  First(relay.todo) \in relay.todo \cap completed \cap Job
<1>1. relay.todo \subseteq completed /\ completed \subseteq Job /\ relay.todo # {}
  BY DEF Shape, TypeOK, RelayOwn
<1>2. relay.todo \in SUBSET Nat
  BY <1>1, ResultsPipelineAssumption
<1>3. QED
  BY <1>1, <1>2, FirstIsLeast

\* And the gate one that has a result, on the branch as in its clone.
LEMMA GateHand ==
    ASSUME Shape, gate.at \in {"push", "rebase", "again", "record"}
    PROVE  /\ First(gate.todo) \in gate.todo \cap Job
           /\ results[First(gate.todo)] \in Result
<1>1. gate.todo \subseteq Job /\ gate.todo # {} /\ gate.todo \subseteq Resulted(base)
  BY DEF Shape, TypeOK, GateOwn
<1>2. gate.todo \in SUBSET Nat
  BY <1>1, ResultsPipelineAssumption
<1>3. First(gate.todo) \in gate.todo \cap Job
  BY <1>1, <1>2, FirstIsLeast
<1>4. base[First(gate.todo)] \in Result
  BY <1>1, <1>3, Values DEF Shape, TypeOK, Resulted
<1>5. results[First(gate.todo)].version # 0
  BY <1>3, <1>4, Values DEF Shape, TypeOK, GateOwn
<1>6. QED
  BY <1>3, <1>5, Values DEF Shape, TypeOK

\* The job the gate takes next is on its list.
LEMMA GateNext ==
    ASSUME Shape, Unsettled(gate.todo) # {}
    PROVE  /\ First(Unsettled(gate.todo)) \in gate.todo \cap Job
           /\ base[First(Unsettled(gate.todo))] \in Result
           /\ results[First(Unsettled(gate.todo))] \in Result
<1> DEFINE U == Unsettled(gate.todo)
<1>1. gate.todo \subseteq Job /\ U \subseteq gate.todo /\ gate.todo \subseteq Resulted(base)
  BY DEF Shape, TypeOK, GateOwn, Unsettled
<1>2. U \in SUBSET Nat
  BY <1>1, ResultsPipelineAssumption
<1>3. First(U) \in gate.todo \cap Job
  BY <1>1, <1>2, FirstIsLeast
<1>4. base[First(U)] \in Result
  BY <1>1, <1>3, Values DEF Shape, TypeOK, Resulted
<1>5. results[First(U)].version # 0
  BY <1>3, <1>4, Values DEF Shape, TypeOK, GateOwn
<1>6. QED
  BY <1>3, <1>4, <1>5, Values DEF Shape, TypeOK

\* And so with the revision loop.
LEMMA LoopNext ==
    ASSUME Shape, Pending(loop.todo) # {}
    PROVE  First(Pending(loop.todo)) \in loop.todo \cap Job
<1>1. loop.todo \subseteq Job /\ Pending(loop.todo) \subseteq loop.todo
  BY DEF Shape, TypeOK, Pending
<1>2. Pending(loop.todo) \in SUBSET Nat
  BY <1>1, ResultsPipelineAssumption
<1>3. QED
  BY <1>1, <1>2, FirstIsLeast

\* ... also when it has one in hand.
LEMMA LoopHand ==
    ASSUME Shape, loop.at \in {"push", "record"}
    PROVE  First(loop.todo) \in loop.todo \cap Job
<1>1. loop.todo \subseteq Job /\ loop.todo # {}
  BY DEF Shape, TypeOK, LoopOwn
<1>2. loop.todo \in SUBSET Nat
  BY <1>1, ResultsPipelineAssumption
<1>3. QED
  BY <1>1, <1>2, FirstIsLeast

-----------------------------------------------------------------------------
\* What fits a job fits it still when another one completes.
LEMMA FitsStays ==
    ASSUME TypeOK, NEW k \in Job, Complete(k), NEW j \in Job, NEW w \in Job, Fits(j, w)
    PROVE  Fits(j, w)'
<1>1. /\ completed' = completed \cup {k} /\ k \notin completed
      /\ workspace' = [workspace EXCEPT ![Lane[k]] = k]
  BY DEF Complete
<1>2. {j, w} \subseteq completed' /\ k # j
  BY <1>1 DEF Fits
<1>3. workspace[Lane[j]] # j => workspace'[Lane[j]] # j
  <2>1. Lane[j] \in {Lane[i] : i \in Job}
    OBVIOUS
  <2>2. workspace'[Lane[j]] \in {workspace[Lane[j]], k}
    BY <1>1, <2>1 DEF TypeOK
  <2> QED
    BY <1>2, <2>2
<1> QED
  BY <1>2, <1>3 DEF Fits

\* What the host and the other writers do keeps the invariant.
LEMMA AroundKeeps ==
    ASSUME PipelineInv, (\E j \in Job : Complete(j)) \/ OtherPush
    PROVE  PipelineInv'
<1> USE DEF PipelineInv, Shape
<1>1. ASSUME NEW j \in Job, Complete(j) PROVE PipelineInv'
  <2>1. UNCHANGED <<feed, results, clones, behind, ledgers, rebasing, faults, others>>
        /\ completed' = completed \cup {j} /\ workspace' = [workspace EXCEPT ![Lane[j]] = j]
    BY <1>1 DEF Complete
  <2>2. TypeOK'
    BY <2>1 DEF TypeOK, clones
  <2>3. RelayOwn'
    <3>1. ASSUME relay'.at = "publish"
          PROVE  relay'.work \in Job /\ Fits(First(relay.todo), relay.work)'
      <4>1. relay' = relay /\ relay.at = "publish"
        BY <2>1, <3>1 DEF clones
      <4>2. First(relay.todo) \in Job /\ relay.work \in Job /\ Fits(First(relay.todo), relay.work)
        BY <4>1, RelayHand DEF RelayOwn
      <4>3. \A i, w \in Job : Fits(i, w) => Fits(i, w)'
        BY <1>1, FitsStays
      <4> QED
        BY <4>1, <4>2, <4>3 DEF Fits
    <3>2. /\ \A i \in Job : LET w == workspace'[Lane[i]] IN
                w # NoJob => w \in completed' /\ Lane[w] = Lane[i]
          /\ \A i \in completed' : workspace'[Lane[i]] # NoJob
      BY <2>1, ResultsPipelineAssumption DEF TypeOK, RelayOwn
    <3> QED
      BY <2>1, <3>1, <3>2 DEF RelayOwn, clones, Fits
  <2>4. CommitOwn'
    <3>1. commit' = commit /\ results' = results
      BY <2>1 DEF clones
    <3>2. commit # NoCommit => commit.job \in Job /\ commit.result.work \in Job
      BY Values DEF TypeOK
    <3>3. commit # NoCommit => Fits(commit.job, commit.result.work)'
      BY <1>1, <3>1, <3>2, FitsStays DEF CommitOwn, Fits
    <3> QED
      BY <3>1, <3>3 DEF CommitOwn, Fits
  <2>5. (GateOwn /\ LoopOwn /\ LedgerOwn /\ PassedOverMeansJudged)'
    BY <2>1 DEF GateOwn, LoopOwn, LedgerOwn, PassedOverMeansJudged, Resulted, clones
  <2>7. RelayedWorkFits'
    <3>1. ASSUME NEW i \in Job, results[i] # NoResult
          PROVE  Fits(i, results[i].work)'
      <4>1. results[i].work \in Job /\ Fits(i, results[i].work)
        BY <3>1, Values DEF TypeOK, RelayedWorkFits, Resulted
      <4>2. \A w \in Job : Fits(i, w) => Fits(i, w)'
        BY <1>1, <3>1, FitsStays
      <4> QED
        BY <2>1, <4>1, <4>2 DEF Fits
    <3> QED
      BY <2>1, <3>1 DEF RelayedWorkFits, Resulted, Fits
  <2>6. QED
    BY <2>2, <2>3, <2>4, <2>5, <2>7
<1>2. CASE OtherPush
  <2>1. UNCHANGED <<feed, completed, workspace, results, clones, ledgers, rebasing, faults>>
        /\ others' = others + 1 /\ others < MaxOthers
    BY <1>2 DEF OtherPush
  <2>2. behind' \subseteq {"relay", "gate", "loop"}
    BY <1>2 DEF OtherPush, Overtake, TypeOK
  <2>3. TypeOK'
    BY <2>1, <2>2, ResultsPipelineAssumption DEF TypeOK, clones
  <2>4. (RelayOwn /\ CommitOwn /\ GateOwn /\ LoopOwn /\ LedgerOwn)'
    BY <2>1 DEF RelayOwn, CommitOwn, GateOwn, LoopOwn, LedgerOwn, Resulted, Fits, clones
  <2>5. (RelayedWorkFits /\ PassedOverMeansJudged)'
    BY <2>1 DEF RelayedWorkFits, Fits, PassedOverMeansJudged, Resulted
  <2>6. QED
    BY <2>3, <2>4, <2>5
<1>3. QED
  BY <1>1, <1>2

-----------------------------------------------------------------------------
(* The relay.                                                              *)

\* A push that arrives puts the next version of one result on the branch.
LEMMA RelayDelivers ==
    ASSUME PipelineInv, commit # NoCommit,
           results' = [results EXCEPT ![commit.job] = commit.result],
           commit' = NoCommit, UNCHANGED <<completed, workspace, base, gate, ledgers>>
    PROVE  /\ results' \in [Job -> Result \cup {NoResult}]
           /\ (CommitOwn /\ GateOwn /\ LedgerOwn)'
           /\ (RelayedWorkFits /\ PassedOverMeansJudged)'
<1> USE DEF PipelineInv, Shape
<1>1. commit.job \in Job /\ commit.result \in Result /\ results \in [Job -> Result \cup {NoResult}]
  BY DEF TypeOK
<1>2. /\ commit.result.version = results[commit.job].version + 1
      /\ Fits(commit.job, commit.result.work)
      /\ commit.result.verdict = NoVerdict
  BY DEF CommitOwn
<1>3. results' \in [Job -> Result \cup {NoResult}]
  BY <1>1
<1>4. \A j \in Job : j # commit.job => results'[j] = results[j]
  BY <1>1
<1>5. results'[commit.job] = commit.result
  BY <1>1
<1>6. \A j \in Job : results[j].version \in Nat /\ results'[j].version \in Nat
  BY <1>1, <1>3, Values
<1>7. \A j \in Job : results[j].version <= results'[j].version
  BY <1>1, <1>2, <1>4, <1>5, <1>6
<1>8. CommitOwn'
  BY DEF CommitOwn
<1>9. GateOwn'
  <2>1. \A j \in Job : base[j].version \in Nat
    BY Values DEF TypeOK
  <2>2. \A j \in Job : base'[j].version <= results'[j].version
    BY <1>6, <1>7, <2>1 DEF GateOwn
  <2>3. QED
    BY <2>2 DEF GateOwn, Resulted
<1>10. LedgerOwn'
  <2>1. \A j \in Job : ledgers'.gate[j] <= results'[j].version
    BY <1>6, <1>7 DEF LedgerOwn, TypeOK
  <2>2. ASSUME gate'.at \in {"push", "rebase", "again", "record"}
        PROVE  LET j == First(gate'.todo) IN
               /\ ledgers'.gate[j] = 0
               /\ gate'.verdict.version <= results'[j].version
               /\ gate'.at = "record" /\ gate'.verdict.version = results'[j].version
                      => results'[j].verdict.version = results'[j].version
    <3> DEFINE j == First(gate.todo)
    <3>1. j \in Job
      BY <2>2, GateHand
    <3>2. gate.verdict.version \in Nat /\ gate.verdict.version <= results[j].version
      BY <2>2, Values DEF LedgerOwn, GateOwn
    <3>3. CASE j = commit.job
      BY <1>2, <1>5, <1>6, <2>2, <3>1, <3>2, <3>3 DEF LedgerOwn
    <3>4. CASE j # commit.job
      BY <1>4, <2>2, <3>1, <3>4 DEF LedgerOwn
    <3>5. QED
      BY <3>3, <3>4
  <2>3. QED
    BY <2>1, <2>2 DEF LedgerOwn
<1>11. RelayedWorkFits'
  BY <1>2, <1>4, <1>5 DEF RelayedWorkFits, Resulted, Fits
<1>12. PassedOverMeansJudged'
  <2>1. SUFFICES ASSUME NEW j \in Job, results'[j] # NoResult,
                        ledgers.gate[j] = results'[j].version
                 PROVE  results'[j].verdict.version = results'[j].version
    BY DEF PassedOverMeansJudged, Resulted
  <2>2. j # commit.job
    BY <1>2, <1>5, <1>6, <2>1 DEF LedgerOwn, TypeOK
  <2>3. QED
    BY <1>4, <2>1, <2>2 DEF PassedOverMeansJudged, Resulted
<1>13. QED
  BY <1>3, <1>8, <1>9, <1>10, <1>11, <1>12

\* Every step of the relay keeps the invariant.
LEMMA RelayKeeps ==
    ASSUME PipelineInv, RelayStep \/ RelayFault
    PROVE  PipelineInv'
<1> USE DEF PipelineInv, Shape
<1> DEFINE hand == First(relay.todo)
<1>1. /\ UNCHANGED <<feed, completed, workspace, gate, base, loop, seen, rebasing, others>>
      /\ LoopOwn'
  BY DEF RelayStep, RelayFault, RelayBegin, Reconstruct, PushLeftover, CommitResult, PushResult,
         RecordResult, relayFrame, LoopOwn
<1>2. ASSUME UNCHANGED <<results, commit, ledgers.gate>>
      PROVE  (CommitOwn /\ GateOwn /\ LedgerOwn /\ RelayedWorkFits /\ PassedOverMeansJudged)'
  BY <1>1, <1>2 DEF CommitOwn, GateOwn, LedgerOwn, RelayedWorkFits, Fits, PassedOverMeansJudged, Resulted
<1>3. CASE RelayBegin
  <2>1. /\ UNCHANGED <<results, commit, behind, ledgers, faults>>
        /\ relay' = [relay EXCEPT !.at = "stage", !.todo = completed \ ledgers.relay]
        /\ completed \ ledgers.relay # {}
    BY <1>3 DEF RelayBegin
  <2>2. TypeOK'
    BY <1>1, <2>1 DEF TypeOK
  <2>3. RelayOwn'
    BY <1>1, <2>1 DEF RelayOwn, TypeOK
  <2>4. QED
    BY <1>1, <1>2, <2>1, <2>2, <2>3
<1>4. CASE Reconstruct
  <2> DEFINE w == workspace[Lane[hand]]
  <2>1. hand \in relay.todo /\ hand \in completed /\ hand \in Job
    BY <1>4, RelayHand DEF Reconstruct
  <2>2. w \in Job /\ w \in completed /\ Lane[w] = Lane[hand]
    <3>1. w \in Job \cup {NoJob}
      <4>1. Lane[hand] \in {Lane[j] : j \in Job}
        BY <2>1
      <4>2. QED
        BY <4>1 DEF TypeOK
    <3>2. w # NoJob
      BY <2>1 DEF RelayOwn
    <3>3. w \in completed /\ Lane[w] = Lane[hand]
      BY <2>1, <3>2 DEF RelayOwn
    <3>4. QED
      BY <3>1, <3>2, <3>3
  <2>3. Changes[w] = Changes[hand] => Fits(hand, w)
    BY <2>1, <2>2 DEF Fits
  <2>4. /\ UNCHANGED <<results, commit, behind, ledgers, faults>>
        /\ \/ /\ relay' = [relay EXCEPT !.at = "publish", !.work = w]
              /\ Fits(hand, w)
           \/ relay' = IdleRelay
    BY <1>4, <2>3 DEF Reconstruct
  <2>5. /\ relay'.todo \subseteq relay.todo /\ relay'.at \in {"idle", "publish"}
        /\ relay'.at = "publish" =>
               /\ relay'.todo = relay.todo
               /\ relay'.work \in Job /\ Fits(hand, relay'.work)
        /\ relay' \in [at: {"idle", "publish"}, todo: SUBSET Job, work: Job \cup {NoJob}]
    <3>1. CASE /\ relay' = [relay EXCEPT !.at = "publish", !.work = w]
               /\ Fits(hand, w)
      BY <2>1, <2>2, <3>1 DEF TypeOK
    <3>2. CASE relay' = IdleRelay
      BY <3>2 DEF IdleRelay
    <3>3. QED
      BY <2>4, <3>1, <3>2
  <2>6. TypeOK'
    BY <1>1, <2>4, <2>5 DEF TypeOK
  <2>7. RelayOwn'
    BY <1>1, <2>1, <2>4, <2>5 DEF RelayOwn, Fits
  <2>8. QED
    BY <1>1, <1>2, <2>4, <2>6, <2>7
<1>5. CASE PushLeftover \/ PushResult
  <2>1. UNCHANGED <<ledgers, faults>> /\ behind' \subseteq {"relay", "gate", "loop"}
    BY <1>5 DEF PushLeftover, PushResult, Overtake, TypeOK
  <2>2. CASE relay' = IdleRelay /\ UNCHANGED <<results, commit>>
    <3>1. TypeOK'
      BY <1>1, <2>1, <2>2 DEF TypeOK, IdleRelay
    <3>2. RelayOwn'
      BY <1>1, <2>2 DEF RelayOwn, IdleRelay
    <3>3. QED
      BY <1>1, <1>2, <2>1, <2>2, <3>1, <3>2
  <2>3. CASE /\ commit # NoCommit /\ commit' = NoCommit
             /\ results' = [results EXCEPT ![commit.job] = commit.result]
             /\ \/ relay.at = "publish" /\ relay' = relay
                \/ relay.at = "push" /\ relay' = [relay EXCEPT !.at = "record"]
    <3>1. results' \in [Job -> Result \cup {NoResult}]
          /\ (CommitOwn /\ GateOwn /\ LedgerOwn /\ RelayedWorkFits /\ PassedOverMeansJudged)'
      BY <1>1, <2>1, <2>3, RelayDelivers
    <3>2. /\ relay' \in [at: {"publish", "record"}, todo: SUBSET Job, work: Job \cup {NoJob}]
          /\ relay'.todo = relay.todo /\ relay'.work = relay.work
          /\ relay'.at = "publish" => relay.at = "publish"
      BY <2>3 DEF TypeOK
    <3>3. TypeOK'
      BY <1>1, <2>1, <2>3, <3>1, <3>2 DEF TypeOK
    <3>4. RelayOwn'
      BY <1>1, <2>3, <3>2 DEF RelayOwn, Fits
    <3>5. QED
      BY <1>1, <3>1, <3>3, <3>4
  <2>4. QED
    BY <1>5, <2>2, <2>3 DEF PushLeftover, PushResult, RelayOwn
<1>6. CASE CommitResult
  <2> DEFINE result == [version |-> results[hand].version + 1, work |-> relay.work,
                        verdict |-> NoVerdict]
  <2>1. hand \in Job /\ hand \in completed /\ relay.work \in Job
        /\ Fits(hand, relay.work)
    BY <1>6, RelayHand DEF CommitResult, RelayOwn
  <2>2. result \in Result /\ Fits(hand, result.work) /\ result.verdict = NoVerdict
        /\ result.version = results[hand].version + 1
    BY <2>1, Values DEF TypeOK, Result
  <2>3. /\ commit' = [job |-> hand, result |-> result]
        /\ relay' = [relay EXCEPT !.at = "push", !.work = NoJob]
        /\ behind' \subseteq behind
        /\ UNCHANGED <<results, ledgers, faults>>
    BY <1>6 DEF CommitResult
  <2> HIDE DEF result
  <2>4. commit' \in [job: Job, result: Result] /\ commit'.job = hand /\ commit'.result = result
        /\ commit' # NoCommit
    BY <2>1, <2>2, <2>3, Values
  <2>5. /\ relay' \in [at: {"push"}, todo: SUBSET Job, work: Job \cup {NoJob}]
        /\ relay'.todo = relay.todo
    BY <2>3 DEF TypeOK
  <2>6. TypeOK'
    BY <1>1, <2>3, <2>4, <2>5 DEF TypeOK
  <2>7. RelayOwn'
    BY <1>1, <1>6, <2>4, <2>5 DEF RelayOwn, CommitResult
  <2>8. CommitOwn'
    BY <1>1, <2>2, <2>3, <2>4 DEF CommitOwn, Fits
  <2>9. (GateOwn /\ LedgerOwn /\ RelayedWorkFits /\ PassedOverMeansJudged)'
    BY <1>1, <2>3 DEF GateOwn, LedgerOwn, RelayedWorkFits, Fits, PassedOverMeansJudged, Resulted
  <2>10. QED
    BY <1>1, <2>6, <2>7, <2>8, <2>9
<1>7. CASE RecordResult
  <2>1. hand \in Job
    BY <1>7, RelayHand DEF RecordResult
  <2>2. /\ UNCHANGED <<results, commit, behind, faults>>
        /\ ledgers' = [ledgers EXCEPT !.relay = @ \cup {hand}]
        /\ relay' = IF Later(relay.todo) = {} THEN IdleRelay
                    ELSE [relay EXCEPT !.at = "stage", !.todo = Later(@)]
    BY <1>7 DEF RecordResult
  <2>3. ledgers' \in [relay: SUBSET Job, gate: [Job -> Nat],
                      loop: [Job -> Verdict \cup {NoVerdict}]]
        /\ ledgers'.gate = ledgers.gate
    BY <2>1, <2>2 DEF TypeOK
  <2>4. Later(relay.todo) \subseteq relay.todo
    BY DEF Later
  <2>5. /\ relay' \in [at: {"idle", "stage"}, todo: SUBSET Job, work: Job \cup {NoJob}]
        /\ relay'.todo \subseteq relay.todo
        /\ relay'.at # "idle" => relay'.todo # {}
    BY <2>2, <2>4 DEF TypeOK, IdleRelay
  <2>6. TypeOK'
    BY <1>1, <2>2, <2>3, <2>5 DEF TypeOK
  <2>7. RelayOwn'
    BY <1>1, <2>2, <2>5 DEF RelayOwn
  <2>8. QED
    BY <1>1, <1>2, <2>2, <2>3, <2>6, <2>7
<1>8. CASE RelayFault
  <2>1. UNCHANGED <<results, commit, behind, ledgers>> /\ relay' = IdleRelay
        /\ faults' \in [{"relay", "gate", "loop"} -> 0..MaxFaults]
    BY <1>8, ResultsPipelineAssumption DEF RelayFault, Fault, TypeOK
  <2>2. TypeOK'
    BY <1>1, <2>1 DEF TypeOK, IdleRelay
  <2>3. RelayOwn'
    BY <1>1, <2>1 DEF RelayOwn, IdleRelay
  <2>4. QED
    BY <1>1, <1>2, <2>1, <2>2, <2>3
<1>9. QED
  BY <1>3, <1>4, <1>5, <1>6, <1>7, <1>8 DEF RelayStep

-----------------------------------------------------------------------------
(* The candidate gate.                                                     *)

\* A verdict that arrives is for a result the gate has no ledger entry for.
LEMMA GateDelivers ==
    ASSUME PipelineInv, gate.at \in {"push", "again"}, Deliver("record"),
           UNCHANGED <<completed, workspace, ledgers, commit>>
    PROVE  /\ results' \in [Job -> Result \cup {NoResult}]
           /\ (CommitOwn /\ GateOwn /\ LedgerOwn)'
           /\ (RelayedWorkFits /\ PassedOverMeansJudged)'
<1> USE DEF PipelineInv, Shape
<1> DEFINE hand == First(gate.todo)
<1>1. hand \in gate.todo /\ hand \in Job /\ results[hand] \in Result
  BY GateHand
<1>2. /\ results' = [results EXCEPT ![hand].verdict = gate.verdict]
      /\ base' = results' /\ gate' = [gate EXCEPT !.at = "record"]
  BY DEF Deliver
<1>3. results \in [Job -> Result \cup {NoResult}] /\ gate.verdict \in Verdict
  BY DEF TypeOK, GateOwn
<1>4. /\ results'[hand] = [results[hand] EXCEPT !.verdict = gate.verdict]
      /\ \A j \in Job : j # hand => results'[j] = results[j]
  BY <1>1, <1>2, <1>3
<1>5. /\ results'[hand] \in Result /\ results'[hand].version = results[hand].version
      /\ results'[hand].work = results[hand].work /\ results'[hand].verdict = gate.verdict
  BY <1>1, <1>3, <1>4 DEF Result
<1>6. results' \in [Job -> Result \cup {NoResult}]
  BY <1>1, <1>2, <1>3, <1>4, <1>5
<1>7. \A j \in Job :
          /\ results'[j].version = results[j].version
          /\ results'[j] # NoResult <=> results[j] # NoResult
          /\ results'[j].version \in Nat
  BY <1>1, <1>3, <1>4, <1>5, <1>6, Values
<1>8. CommitOwn'
  BY <1>7 DEF CommitOwn, TypeOK, Fits
<1>9. /\ gate'.todo = gate.todo /\ gate'.verdict = gate.verdict /\ gate'.at = "record"
  BY <1>2 DEF TypeOK
<1>10. GateOwn'
  <2>1. gate.todo \subseteq Resulted(results)
    <3>1. SUFFICES ASSUME NEW j \in gate.todo PROVE j \in Resulted(results)
      OBVIOUS
    <3>2. j \in Job /\ base[j] \in Result
      BY Values DEF TypeOK, GateOwn, Resulted
    <3>3. results[j].version # 0
      BY <1>3, <3>2, Values DEF GateOwn
    <3>4. QED
      BY <3>2, <3>3, Values DEF Resulted
  <2>2. gate'.todo \subseteq Resulted(base')
    BY <1>2, <1>7, <1>9, <2>1 DEF Resulted
  <2>3. \A j \in Job : base'[j].version <= results'[j].version
    BY <1>2, <1>7
  <2>4. QED
    BY <1>1, <1>3, <1>9, <2>2, <2>3 DEF GateOwn
<1>11. LedgerOwn'
  <2>1. /\ \A j \in Job : ledgers'.gate[j] <= results'[j].version
        /\ ledgers'.gate[hand] = 0 /\ gate'.verdict.version <= results'[hand].version
    BY <1>1, <1>7, <1>9 DEF LedgerOwn
  <2>2. First(gate'.todo) = hand
    BY <1>9
  <2>3. gate'.verdict.version = results'[hand].version
            => results'[hand].verdict.version = results'[hand].version
    BY <1>5, <1>9
  <2>4. QED
    BY <2>1, <2>2, <2>3 DEF LedgerOwn
<1>12. RelayedWorkFits'
  <2>1. \A j \in Job : results[j] # NoResult => Fits(j, results[j].work)
    BY DEF RelayedWorkFits, Resulted
  <2>2. \A j \in Job : results'[j] # NoResult => Fits(j, results'[j].work)
    BY <1>4, <1>5, <1>7, <2>1
  <2>3. \A j, w : Fits(j, w)' <=> Fits(j, w)
    BY DEF Fits
  <2> QED
    BY <2>2, <2>3 DEF RelayedWorkFits, Resulted, Fits
<1>13. PassedOverMeansJudged'
  <2>1. SUFFICES ASSUME NEW j \in Job, results'[j] # NoResult,
                        ledgers.gate[j] = results'[j].version
                 PROVE  results'[j].verdict.version = results'[j].version
    BY DEF PassedOverMeansJudged, Resulted
  <2>2. j # hand
    BY <1>1, <1>7, <2>1, Values DEF LedgerOwn
  <2>3. QED
    BY <1>4, <2>1, <2>2 DEF PassedOverMeansJudged, Resulted
<1>14. QED
  BY <1>6, <1>8, <1>10, <1>11, <1>12, <1>13

\* Every step of the gate keeps the invariant.
LEMMA GateKeeps ==
    ASSUME PipelineInv, GateStep \/ GateFault
    PROVE  PipelineInv'
<1> USE DEF PipelineInv, Shape
<1> DEFINE hand == First(gate.todo)
           next == First(Unsettled(gate.todo))
<1>1. /\ UNCHANGED <<feed, completed, workspace, relay, commit, loop, seen, others>>
      /\ RelayOwn' /\ LoopOwn'
  BY DEF GateStep, GateFault, GateBegin, GateCycleEnds, GateRefuses, Check, PushVerdict, Rebase,
         PushAgain, RecordVerdict, gateFrame, RelayOwn, LoopOwn, Fits
<1>2. ASSUME UNCHANGED results
      PROVE  (CommitOwn /\ RelayedWorkFits)' /\ results' \in [Job -> Result \cup {NoResult}]
             /\ (UNCHANGED ledgers.gate => PassedOverMeansJudged')
  BY <1>1, <1>2 DEF CommitOwn, RelayedWorkFits, Fits, PassedOverMeansJudged, Resulted, TypeOK
<1>3. ASSUME UNCHANGED <<results, ledgers>>, EndGate, rebasing' \in BOOLEAN,
             faults' \in [{"relay", "gate", "loop"} -> 0..MaxFaults]
      PROVE  PipelineInv'
  <2>1. gate' = IdleGate /\ base' = Nothing /\ behind' = behind \ {"gate"}
    BY <1>3 DEF EndGate
  <2>2. gate'.at = "idle" /\ gate'.todo = {} /\ gate'.verdict = NoVerdict
    BY <2>1 DEF IdleGate
  <2>3. TypeOK'
    BY <1>1, <1>3, <2>1 DEF TypeOK, IdleGate, Nothing
  <2>4. GateOwn'
    BY <1>3, <2>1, <2>2, Values DEF GateOwn, Nothing, TypeOK
  <2>5. LedgerOwn'
    BY <1>3, <2>2 DEF LedgerOwn
  <2>6. QED
    BY <1>1, <1>2, <1>3, <2>3, <2>4, <2>5
<1>4. CASE GateCycleEnds \/ GateRefuses
  BY <1>3, <1>4 DEF GateCycleEnds, GateRefuses, TypeOK
<1>5. CASE GateFault
  <2>1. faults' \in [{"relay", "gate", "loop"} -> 0..MaxFaults]
    BY <1>5, ResultsPipelineAssumption DEF GateFault, Fault, TypeOK
  <2>2. QED
    BY <1>3, <1>5, <2>1 DEF GateFault, TypeOK
<1>6. CASE GateBegin
  <2>1. /\ UNCHANGED <<results, behind, ledgers, rebasing, faults>> /\ base' = results
        /\ gate' = [gate EXCEPT !.at = "check", !.todo = Resulted(results)]
    BY <1>6 DEF GateBegin
  <2>2. /\ gate' \in [at: {"check"}, todo: SUBSET Job, verdict: Verdict \cup {NoVerdict}]
        /\ gate'.todo = Resulted(results)
    BY <2>1 DEF TypeOK, Resulted
  <2>3. TypeOK'
    BY <1>1, <2>1, <2>2 DEF TypeOK
  <2>4. \A j \in Job : results[j].version \in Nat
    BY Values DEF TypeOK
  <2>5. GateOwn'
    BY <2>1, <2>2, <2>4 DEF GateOwn
  <2>6. LedgerOwn'
    BY <2>1, <2>2 DEF LedgerOwn
  <2>7. QED
    BY <1>1, <1>2, <2>1, <2>3, <2>5, <2>6
<1>7. CASE Check
  <2>1. /\ next \in gate.todo /\ next \in Job
        /\ base[next] \in Result /\ results[next] \in Result
    BY <1>7, GateNext DEF Check
  <2>2. /\ UNCHANGED <<results, base, behind, ledgers, rebasing, faults>>
        /\ ledgers.gate[next] = 0
    BY <1>7 DEF Check
  <2>3. PICK verdict \in Verdict :
            /\ verdict.version = base[next].version
            /\ gate' = [at |-> "push", todo |-> {k \in gate.todo : k >= next},
                        verdict |-> verdict]
    <3>1. gate' \in Judged(next)
      BY <1>7 DEF Check
    <3>2. base[next].version \in Nat /\ base[next].verdict.number \in Nat
      BY <2>1, Values
    <3>3. PICK n \in Nat, s \in Status :
              gate' = [at |-> "push", todo |-> {k \in gate.todo : k >= next},
                       verdict |-> [version |-> base[next].version, number |-> n, status |-> s]]
      BY <3>1, <3>2 DEF Judged
    <3>4. QED
      BY <3>2, <3>3 DEF Verdict
  <2>4. /\ gate'.at = "push" /\ gate'.todo \subseteq gate.todo /\ next \in gate'.todo
        /\ gate'.verdict \in Verdict /\ gate'.verdict.version = base[next].version
    <3>1. next \in Nat
      BY <2>1, ResultsPipelineAssumption
    <3>2. QED
      BY <2>1, <2>3, <3>1
  <2>5. First(gate'.todo) = next
    <3>1. gate.todo \in SUBSET Nat
      BY ResultsPipelineAssumption DEF TypeOK
    <3>2. QED
      BY <2>1, <2>3, <3>1, FirstFrom
  <2>6. TypeOK'
    BY <1>1, <2>2, <2>3, <2>4 DEF TypeOK
  <2>7. GateOwn'
    BY <2>2, <2>4 DEF GateOwn, Resulted
  <2>8. base[next].version <= results[next].version
    BY <2>1 DEF GateOwn
  <2>9. LedgerOwn'
    BY <2>2, <2>4, <2>5, <2>8 DEF LedgerOwn
  <2>10. QED
    BY <1>1, <1>2, <2>2, <2>6, <2>7, <2>9
<1>8. ASSUME gate.at \in {"push", "again"}, Deliver("record"), UNCHANGED <<ledgers, rebasing, faults>>
      PROVE  PipelineInv'
  <2>1. /\ results' \in [Job -> Result \cup {NoResult}]
        /\ (CommitOwn /\ GateOwn /\ LedgerOwn /\ RelayedWorkFits /\ PassedOverMeansJudged)'
    BY <1>1, <1>8, GateDelivers
  <2>2. gate' = [gate EXCEPT !.at = "record"] /\ base' = results'
        /\ behind' \subseteq {"relay", "gate", "loop"}
    BY <1>8 DEF Deliver, Overtake, TypeOK
  <2>3. TypeOK'
    BY <1>1, <1>8, <2>1, <2>2 DEF TypeOK
  <2>4. QED
    BY <1>1, <2>1, <2>3
<1>9. CASE PushVerdict
  <2>1. CASE "gate" \notin behind
    BY <1>8, <1>9, <2>1 DEF PushVerdict
  <2>2. CASE "gate" \in behind
    <3>1. /\ UNCHANGED <<results, base, behind, ledgers, rebasing, faults>>
          /\ gate.at = "push" /\ gate' = [gate EXCEPT !.at = "rebase"]
      BY <1>9, <2>2 DEF PushVerdict
    <3>2. gate'.at = "rebase" /\ gate'.todo = gate.todo /\ gate'.verdict = gate.verdict
      BY <3>1 DEF TypeOK
    <3>3. TypeOK'
      BY <1>1, <3>1 DEF TypeOK
    <3>4. GateOwn' /\ LedgerOwn'
      BY <3>1, <3>2 DEF GateOwn, LedgerOwn, Resulted
    <3>5. QED
      BY <1>1, <1>2, <3>1, <3>3, <3>4
  <2>3. QED
    BY <2>1, <2>2
<1>10. CASE Rebase
  <2>1. CASE results[hand].verdict # base[hand].verdict
    BY <1>3, <1>10, <2>1 DEF Rebase, TypeOK
  <2>2. CASE results[hand].verdict = base[hand].verdict
    <3>1. /\ UNCHANGED <<results, ledgers, rebasing, faults>> /\ base' = results
          /\ behind' = behind \ {"gate"}
          /\ gate.at = "rebase" /\ gate' = [gate EXCEPT !.at = "again"]
      BY <1>10, <2>2 DEF Rebase
    <3>2. gate'.at = "again" /\ gate'.todo = gate.todo /\ gate'.verdict = gate.verdict
      BY <3>1 DEF TypeOK
    <3>3. TypeOK'
      BY <1>1, <3>1 DEF TypeOK
    <3>4. gate.todo \subseteq Resulted(results)
      <4>1. SUFFICES ASSUME NEW j \in gate.todo PROVE j \in Resulted(results)
        OBVIOUS
      <4>2. j \in Job /\ base[j] \in Result /\ results[j] \in Result \cup {NoResult}
        BY Values DEF TypeOK, GateOwn, Resulted
      <4>3. results[j].version # 0
        BY <4>2, Values DEF GateOwn
      <4>4. QED
        BY <4>2, <4>3, Values DEF Resulted
    <3>5. \A j \in Job : results[j].version \in Nat
      BY Values DEF TypeOK
    <3>6. GateOwn'
      BY <3>1, <3>2, <3>4, <3>5 DEF GateOwn, Resulted
    <3>7. LedgerOwn'
      BY <3>1, <3>2 DEF LedgerOwn
    <3>8. QED
      BY <1>1, <1>2, <3>1, <3>3, <3>6, <3>7
  <2>3. QED
    BY <2>1, <2>2
<1>11. CASE PushAgain
  <2>1. CASE "gate" \notin behind
    BY <1>8, <1>11, <2>1 DEF PushAgain
  <2>2. CASE "gate" \in behind
    BY <1>3, <1>11, <2>2 DEF PushAgain, TypeOK
  <2>3. QED
    BY <2>1, <2>2
<1>12. CASE RecordVerdict
  <2>1. hand \in gate.todo /\ hand \in Job /\ gate.verdict \in Verdict
    BY <1>12, GateHand DEF RecordVerdict, GateOwn
  <2>2. /\ UNCHANGED <<results, base, behind, rebasing, faults>>
        /\ ledgers' = [ledgers EXCEPT !.gate[hand] = gate.verdict.version]
        /\ gate' = [at |-> "check", todo |-> Later(gate.todo), verdict |-> NoVerdict]
        /\ gate.at = "record"
    BY <1>12 DEF RecordVerdict
  <2>3. /\ ledgers' \in [relay: SUBSET Job, gate: [Job -> Nat],
                         loop: [Job -> Verdict \cup {NoVerdict}]]
        /\ ledgers'.gate[hand] = gate.verdict.version
        /\ \A j \in Job : j # hand => ledgers'.gate[j] = ledgers.gate[j]
    BY <2>1, <2>2, Values DEF TypeOK
  <2>4. gate'.at = "check" /\ gate'.todo \subseteq gate.todo
    BY <2>2 DEF Later
  <2>5. TypeOK'
    BY <1>1, <2>2, <2>3, <2>4 DEF TypeOK
  <2>6. GateOwn'
    BY <2>2, <2>4 DEF GateOwn, Resulted
  <2>7. LedgerOwn'
    BY <2>2, <2>3, <2>4 DEF LedgerOwn
  <2>8. PassedOverMeansJudged'
    BY <2>2, <2>3 DEF LedgerOwn, PassedOverMeansJudged, Resulted
  <2>9. QED
    BY <1>1, <1>2, <2>2, <2>5, <2>6, <2>7, <2>8
<1>13. QED
  BY <1>4, <1>5, <1>6, <1>7, <1>9, <1>10, <1>11, <1>12 DEF GateStep

-----------------------------------------------------------------------------
(* The revision loop, and all steps together.                              *)

\* Every step of the revision loop keeps the invariant.
LEMMA LoopKeeps ==
    ASSUME PipelineInv, LoopStep \/ LoopFault
    PROVE  PipelineInv'
<1> USE DEF PipelineInv, Shape
<1> DEFINE hand == First(loop.todo)
           next == First(Pending(loop.todo))
<1>1. UNCHANGED <<completed, workspace, results, relay, commit, gate, base, rebasing, others>>
  BY DEF LoopStep, LoopFault, LoopBegin, LoopCycleEnds, LoopRefuses, Revise, PushCorrection,
         RecordCorrection, loopFrame
<1>2. (RelayOwn /\ CommitOwn /\ GateOwn /\ RelayedWorkFits)'
  BY <1>1 DEF RelayOwn, CommitOwn, GateOwn, RelayedWorkFits, Fits, Resulted
<1>3. ASSUME UNCHANGED ledgers.gate PROVE (LedgerOwn /\ PassedOverMeansJudged)'
  BY <1>1, <1>3 DEF LedgerOwn, PassedOverMeansJudged, Resulted
<1>4. ASSUME UNCHANGED <<feed, ledgers>>, EndLoop,
             faults' \in [{"relay", "gate", "loop"} -> 0..MaxFaults]
      PROVE  PipelineInv'
  <2>1. loop' = IdleLoop /\ seen' = NoVerdicts /\ behind' = behind \ {"loop"}
    BY <1>4 DEF EndLoop
  <2>2. TypeOK'
    BY <1>1, <1>4, <2>1 DEF TypeOK, IdleLoop, NoVerdicts
  <2>3. LoopOwn'
    BY <2>1 DEF LoopOwn, IdleLoop
  <2>4. QED
    BY <1>2, <1>3, <1>4, <2>2, <2>3
<1>5. CASE LoopCycleEnds \/ LoopRefuses
  BY <1>4, <1>5 DEF LoopCycleEnds, LoopRefuses, TypeOK
<1>6. CASE LoopFault
  <2>1. faults' \in [{"relay", "gate", "loop"} -> 0..MaxFaults]
    BY <1>6, ResultsPipelineAssumption DEF LoopFault, Fault, TypeOK
  <2>2. QED
    BY <1>4, <1>6, <2>1 DEF LoopFault
<1>7. CASE LoopBegin
  <2>1. /\ UNCHANGED <<feed, behind, ledgers, faults>>
        /\ seen' = [j \in Job |-> results[j].verdict]
        /\ loop' = [at |-> "scan", todo |-> {j \in Job : results[j].verdict.status = "failed"}]
    BY <1>7 DEF LoopBegin
  <2>2. \A j \in Job : results[j].verdict \in Verdict \cup {NoVerdict}
    BY Values DEF TypeOK
  <2>3. TypeOK'
    BY <1>1, <2>1, <2>2 DEF TypeOK
  <2>4. LoopOwn'
    BY <2>1, <2>2, Values DEF LoopOwn
  <2>5. QED
    BY <1>2, <1>3, <2>1, <2>3, <2>4
<1>8. CASE Revise
  <2>1. next \in loop.todo /\ next \in Job /\ next \in Nat
    BY <1>8, LoopNext, ResultsPipelineAssumption DEF Revise
  <2>2. /\ UNCHANGED <<feed, seen, behind, ledgers, faults>>
        /\ loop' = [at |-> IF feed[Correction(next)] = Manifest(next) THEN "record" ELSE "push",
                    todo |-> {k \in loop.todo : k >= next}]
    BY <1>8 DEF Revise
  <2>3. /\ loop' \in [at: {"record", "push"}, todo: SUBSET Job]
        /\ loop'.todo \subseteq loop.todo /\ next \in loop'.todo
    BY <2>1, <2>2 DEF TypeOK
  <2>4. TypeOK'
    BY <1>1, <2>2, <2>3 DEF TypeOK
  <2>5. LoopOwn'
    BY <2>2, <2>3 DEF LoopOwn
  <2>6. QED
    BY <1>2, <1>3, <2>2, <2>4, <2>5
<1>9. CASE PushCorrection
  <2>1. CASE "loop" \in behind
    BY <1>4, <1>9, <2>1 DEF PushCorrection, TypeOK
  <2>2. CASE "loop" \notin behind
    <3>1. hand \in loop.todo /\ hand \in Job
      BY <1>9, LoopHand DEF PushCorrection
    <3>2. /\ UNCHANGED <<seen, behind, ledgers, faults>>
          /\ feed' = [feed EXCEPT ![Correction(hand)] = Manifest(hand)]
          /\ loop' = [loop EXCEPT !.at = "record"] /\ loop.at = "push"
      BY <1>9, <2>2 DEF PushCorrection
    <3>3. Manifest(hand) \in [source: Job, verdict: Verdict]
      BY <3>1 DEF Manifest, LoopOwn
    <3>4. feed' \in [Job -> [source: Job, verdict: Verdict] \cup {NotQueued}]
      BY <3>2, <3>3 DEF TypeOK
    <3>5. loop' \in [at: {"record"}, todo: SUBSET Job] /\ loop'.todo = loop.todo
      BY <3>2 DEF TypeOK
    <3>6. TypeOK'
      BY <1>1, <3>2, <3>4, <3>5 DEF TypeOK
    <3>7. LoopOwn'
      BY <3>2, <3>5 DEF LoopOwn
    <3>8. QED
      BY <1>2, <1>3, <3>2, <3>6, <3>7
  <2>3. QED
    BY <2>1, <2>2
<1>10. CASE RecordCorrection
  <2>1. hand \in loop.todo /\ hand \in Job
    BY <1>10, LoopHand DEF RecordCorrection
  <2>2. /\ UNCHANGED <<feed, seen, behind, faults>>
        /\ ledgers' = [ledgers EXCEPT !.loop[hand] = seen[hand]]
        /\ loop' = [at |-> "scan", todo |-> Later(loop.todo)]
    BY <1>10 DEF RecordCorrection
  <2>3. /\ ledgers' \in [relay: SUBSET Job, gate: [Job -> Nat],
                         loop: [Job -> Verdict \cup {NoVerdict}]]
        /\ ledgers'.gate = ledgers.gate
    BY <2>1, <2>2 DEF TypeOK
  <2>4. loop' \in [at: {"scan"}, todo: SUBSET Job] /\ loop'.todo \subseteq loop.todo
    BY <2>2 DEF TypeOK, Later
  <2>5. TypeOK'
    BY <1>1, <2>2, <2>3, <2>4 DEF TypeOK
  <2>6. LoopOwn'
    BY <2>2, <2>4 DEF LoopOwn
  <2>7. QED
    BY <1>2, <1>3, <2>3, <2>5, <2>6
<1>11. QED
  BY <1>5, <1>6, <1>7, <1>8, <1>9, <1>10 DEF LoopStep

\* At the start nothing has been relayed.
LEMMA PipelineStarts == Init => PipelineInv
<1> SUFFICES ASSUME Init PROVE PipelineInv
  OBVIOUS
<1> USE DEF Init
<1>1. TypeOK
  <2>1. /\ relay \in [at: {"idle"}, todo: SUBSET Job, work: Job \cup {NoJob}]
        /\ gate \in [at: {"idle"}, todo: SUBSET Job, verdict: Verdict \cup {NoVerdict}]
        /\ loop \in [at: {"idle"}, todo: SUBSET Job]
    BY DEF IdleRelay, IdleGate, IdleLoop
  <2>2. ledgers \in [relay: SUBSET Job, gate: [Job -> Nat], loop: [Job -> Verdict \cup {NoVerdict}]]
    BY DEF NoVerdicts
  <2>3. faults \in [{"relay", "gate", "loop"} -> 0..MaxFaults] /\ others \in 0..MaxOthers
    BY ResultsPipelineAssumption
  <2>4. QED
    BY <2>1, <2>2, <2>3 DEF TypeOK, Nothing, NoVerdicts
<1>2. RelayOwn /\ CommitOwn /\ LoopOwn
  BY DEF RelayOwn, CommitOwn, LoopOwn, IdleRelay, IdleLoop
<1>3. GateOwn /\ LedgerOwn
  BY Values DEF GateOwn, LedgerOwn, IdleGate, Nothing
<1>4. RelayedWorkFits /\ PassedOverMeansJudged
  BY DEF RelayedWorkFits, Fits, PassedOverMeansJudged, Resulted, Nothing
<1>5. QED
  BY <1>1, <1>2, <1>3, <1>4 DEF PipelineInv, Shape

\* Every step keeps the invariant.
LEMMA PipelineKept ==
    ASSUME PipelineInv, [Next]_vars
    PROVE  PipelineInv'
<1>1. CASE Next
  BY <1>1, AroundKeeps, RelayKeeps, GateKeeps, LoopKeeps DEF Next
<1>2. CASE UNCHANGED vars
  BY <1>2 DEF vars, clones, PipelineInv, Shape, TypeOK, RelayOwn, CommitOwn, GateOwn, LoopOwn,
              LedgerOwn, RelayedWorkFits, Fits, PassedOverMeansJudged, Resulted
<1>3. QED
  BY <1>1, <1>2

\* Results, verdicts, corrections, clones and ledgers keep their types
\* (property TypeOK).
THEOREM PipelineTypes == Spec => []TypeOK
<1>1. PipelineInv => TypeOK
  BY DEF PipelineInv, Shape
<1>2. PipelineInv /\ [Next]_vars => PipelineInv'
  BY PipelineKept
<1>3. QED
  BY PipelineStarts, <1>1, <1>2, PTL DEF Spec

\* The relay publishes a job's own work, or that of a later job of its lane that
\* changes the same paths, although it reads it from a workspace that other jobs
\* use, wherever the services die and whoever pushes in between (property
\* RelayedWorkFits; reconstruct_job's comparison of paths).
THEOREM FittingWorkRelayed == Spec => []RelayedWorkFits
<1>1. PipelineInv => RelayedWorkFits
  BY DEF PipelineInv
<1>2. PipelineInv /\ [Next]_vars => PipelineInv'
  BY PipelineKept
<1>3. QED
  BY PipelineStarts, <1>1, <1>2, PTL DEF Spec

\* A result the gate's ledger lets it pass over has its verdict on the branch
\* (property PassedOverMeansJudged; publish_report before the ledger is saved).
THEOREM NothingUnjudgedPassed == Spec => []PassedOverMeansJudged
<1>1. PipelineInv => PassedOverMeansJudged
  BY DEF PipelineInv
<1>2. PipelineInv /\ [Next]_vars => PipelineInv'
  BY PipelineKept
<1>3. QED
  BY PipelineStarts, <1>1, <1>2, PTL DEF Spec

-----------------------------------------------------------------------------
(* Corrections.                                                            *)

\* The correction in the revision loop's hands is one of this job's; its place
\* on the jobs branch is free until it is pushed and holds it thereafter.
CorrectionOwn ==
    /\ loop.at \in {"push", "record"} => Correction(First(loop.todo)) \in Job
    /\ loop.at = "push" => feed[Correction(First(loop.todo))] = NotQueued
    /\ loop.at = "record" =>
           feed[Correction(First(loop.todo))] = Manifest(First(loop.todo))
    /\ \A j \in Job : ledgers.loop[j] # NoVerdict => Correction(j) \in Job

RevisedInv == CorrectionOwn /\ RevisedMeansQueued

\* A job that may still be corrected has a correction id.
LEMMA CorrectionExists ==
    ASSUME NEW j \in Job, Depth[j] < MaxDepth
    PROVE  Correction(j) \in Corrections(j) /\ Correction(j) \in Job
<1>1. Corrections(j) # {}
  BY ResultsPipelineAssumption DEF Corrections
<1>2. Correction(j) \in Corrections(j)
  BY <1>1 DEF Correction
<1>3. QED
  BY <1>2 DEF Corrections

\* Every step keeps corrections and ledger together.
LEMMA RevisedKept ==
    ASSUME PipelineInv, RevisedInv, [Next]_vars
    PROVE  RevisedInv'
<1> USE DEF PipelineInv, Shape, RevisedInv
<1> DEFINE hand == First(loop.todo)
           next == First(Pending(loop.todo))
<1>1. ASSUME UNCHANGED <<feed, loop, seen, ledgers.loop>> PROVE RevisedInv'
  BY <1>1 DEF CorrectionOwn, RevisedMeansQueued, Manifest, Correction, Corrections
<1>2. ASSUME UNCHANGED <<feed, ledgers>>, loop'.at \notin {"push", "record"} PROVE RevisedInv'
  BY <1>2 DEF CorrectionOwn, RevisedMeansQueued, Correction, Corrections
<1>3. CASE UNCHANGED vars
  BY <1>1, <1>3 DEF vars, clones
<1>4. CASE (\E j \in Job : Complete(j)) \/ OtherPush
  BY <1>1, <1>4 DEF Complete, OtherPush, clones
<1>5. CASE RelayStep \/ RelayFault
  <2>1. UNCHANGED <<feed, loop, seen>>
    BY <1>5 DEF RelayStep, RelayFault, RelayBegin, Reconstruct, PushLeftover, CommitResult,
                PushResult, RecordResult, relayFrame
  <2>2. ledgers'.loop = ledgers.loop
    BY <1>5 DEF RelayStep, RelayFault, RelayBegin, Reconstruct, PushLeftover, CommitResult,
                PushResult, RecordResult, TypeOK
  <2>3. QED
    BY <1>1, <2>1, <2>2
<1>6. CASE GateStep \/ GateFault
  <2>1. UNCHANGED <<feed, loop, seen>>
    BY <1>6 DEF GateStep, GateFault, GateBegin, GateCycleEnds, GateRefuses, Check, PushVerdict,
                Rebase, PushAgain, RecordVerdict, gateFrame
  <2>2. ledgers'.loop = ledgers.loop
    BY <1>6 DEF GateStep, GateFault, GateBegin, GateCycleEnds, GateRefuses, Check, PushVerdict,
                Rebase, PushAgain, RecordVerdict, TypeOK
  <2>3. QED
    BY <1>1, <2>1, <2>2
<1>7. CASE LoopBegin \/ LoopCycleEnds \/ LoopRefuses \/ LoopFault
  BY <1>2, <1>7 DEF LoopBegin, LoopCycleEnds, LoopRefuses, LoopFault, EndLoop, IdleLoop
<1>8. CASE Revise
  <2>1. PICK j \in loop.todo : j \in Job /\ j = next
    BY <1>8, LoopNext DEF Revise
  <2>2. /\ UNCHANGED <<feed, seen, ledgers>>
        /\ loop' = [at |-> IF feed[Correction(j)] = Manifest(j) THEN "record" ELSE "push",
                    todo |-> {k \in loop.todo : k >= j}]
        /\ ~Refused(j)
    BY <1>8, <2>1 DEF Revise
  <2>3. First(loop'.todo) = j
    <3>1. loop.todo \in SUBSET Nat
      BY ResultsPipelineAssumption DEF TypeOK
    <3>2. QED
      BY <2>1, <2>2, <3>1, FirstFrom
  <2>4. Depth[j] < MaxDepth
    <3>1. ~(Depth[j] >= MaxDepth)
      BY <2>2 DEF Refused
    <3>2. Depth[j] \in Nat /\ MaxDepth \in Nat
      BY <2>1, ResultsPipelineAssumption
    <3>3. QED
      BY <3>1, <3>2
  <2>5. Correction(j) \in Corrections(j) /\ Correction(j) \in Job
    BY <2>1, <2>4, CorrectionExists
  <2>6. feed[Correction(j)] \in {NotQueued, Manifest(j)}
    BY <2>2, <2>5 DEF Refused
  <2>7. Manifest(j)' = Manifest(j)
    BY <2>2 DEF Manifest
  <2>8. /\ loop'.at = "push" => feed[Correction(j)] = NotQueued
        /\ loop'.at = "record" => feed[Correction(j)] = Manifest(j)
    BY <2>2, <2>6
  <2>9. CorrectionOwn'
    BY <2>2, <2>3, <2>5, <2>7, <2>8 DEF CorrectionOwn
  <2>10. RevisedMeansQueued'
    BY <2>2 DEF RevisedMeansQueued
  <2>11. QED
    BY <2>9, <2>10
<1>9. CASE PushCorrection
  <2>1. CASE "loop" \in behind
    BY <1>2, <1>9, <2>1 DEF PushCorrection, EndLoop, IdleLoop
  <2>2. CASE "loop" \notin behind
    <3>1. PICK i \in Job : i = hand
      BY <1>9, LoopHand DEF PushCorrection
    <3>2. Correction(i) \in Job /\ feed[Correction(i)] = NotQueued
      BY <1>9, <3>1 DEF PushCorrection, CorrectionOwn
    <3>3. /\ UNCHANGED <<seen, ledgers>>
          /\ feed' = [feed EXCEPT ![Correction(i)] = Manifest(i)]
          /\ loop'.at = "record" /\ First(loop'.todo) = i
      BY <1>9, <2>2, <3>1 DEF PushCorrection, TypeOK
    <3>4. feed'[Correction(i)] = Manifest(i) /\ Manifest(i)' = Manifest(i)
      BY <3>2, <3>3 DEF TypeOK, Manifest
    <3>5. CorrectionOwn'
      BY <3>2, <3>3, <3>4 DEF CorrectionOwn
    <3>6. ASSUME NEW j \in Job, ledgers.loop[j] # NoVerdict
          PROVE  feed'[Correction(j)] = feed[Correction(j)]
      <4>1. feed[Correction(j)] = [source |-> j, verdict |-> ledgers.loop[j]]
        BY <3>6 DEF RevisedMeansQueued
      <4>2. [source |-> j, verdict |-> ledgers.loop[j]].source = j /\ NotQueued.source = NoJob
            /\ j # NoJob
        BY ResultsPipelineAssumption DEF NotQueued
      <4>3. Correction(j) # Correction(i)
        BY <3>2, <4>1, <4>2
      <4>4. QED
        BY <3>3, <3>6, <4>3 DEF CorrectionOwn, TypeOK
    <3>7. RevisedMeansQueued'
      BY <3>3, <3>6 DEF RevisedMeansQueued
    <3>8. QED
      BY <3>5, <3>7
  <2>3. QED
    BY <2>1, <2>2
<1>10. CASE RecordCorrection
  <2>1. PICK i \in Job : i = hand
    BY <1>10, LoopHand DEF RecordCorrection
  <2>2. Correction(i) \in Job /\ feed[Correction(i)] = Manifest(i)
    BY <1>10, <2>1 DEF RecordCorrection, CorrectionOwn
  <2>3. /\ UNCHANGED <<feed, seen>> /\ loop'.at = "scan"
        /\ ledgers' = [ledgers EXCEPT !.loop[i] = seen[i]]
    BY <1>10, <2>1 DEF RecordCorrection
  <2>4. /\ ledgers'.loop[i] = seen[i]
        /\ \A j \in Job : j # i => ledgers'.loop[j] = ledgers.loop[j]
    BY <2>1, <2>3 DEF TypeOK
  <2>5. CorrectionOwn'
    BY <2>2, <2>3, <2>4 DEF CorrectionOwn
  <2>6. feed'[Correction(i)] = [source |-> i, verdict |-> ledgers'.loop[i]]
    BY <2>2, <2>3, <2>4 DEF Manifest
  <2>7. RevisedMeansQueued'
    BY <2>3, <2>4, <2>6 DEF RevisedMeansQueued
  <2>8. QED
    BY <2>5, <2>7
<1>11. QED
  BY <1>3, <1>4, <1>5, <1>6, <1>7, <1>8, <1>9, <1>10 DEF Next, LoopStep

\* Every failed verdict the revision loop has settled has its correction on
\* the jobs branch, made from that verdict, and nothing replaces it (property
\* RevisedMeansQueued; _publish before the ledger is saved).
THEOREM RevisionsQueued == Spec => []RevisedMeansQueued
<1>1. Init => RevisedInv
  BY DEF Init, RevisedInv, CorrectionOwn, RevisedMeansQueued, IdleLoop, NoVerdicts
<1>2. PipelineInv /\ [Next]_vars => PipelineInv'
  BY PipelineKept
<1>3. PipelineInv /\ RevisedInv /\ [Next]_vars => RevisedInv'
  BY RevisedKept
<1>4. RevisedInv => RevisedMeansQueued
  BY DEF RevisedInv
<1>5. QED
  BY PipelineStarts, <1>1, <1>2, <1>3, <1>4, PTL DEF Spec

-----------------------------------------------------------------------------
(* Rewriting.                                                              *)

\* A result that is not in the relay's ledger, but for the one about to be put
\* there, and one left to be pushed, took a fault of the relay each; and nothing
\* is made again once it is in the ledger.
VersionsCounted ==
    /\ \A j \in Job : results[j].version <= 1 + faults["relay"]
    /\ \A j \in Job \ ledgers.relay :
           \/ relay.at = "record" /\ j = First(relay.todo)
           \/ results[j].version <= faults["relay"]
    /\ relay.todo \cap ledgers.relay = {}
    /\ relay.at = "record" => commit = NoCommit
    /\ commit # NoCommit =>
           /\ commit.job \notin ledgers.relay
           /\ relay.at = "push" => commit.job = First(relay.todo)
           /\ relay.at = "push" \/ "relay" \in behind
                 \/ results[commit.job].version < faults["relay"]

\* A verdict on a job that is not in the gate's ledger, but for the one about to
\* be put there, took as many faults of the gate as its number says.
VerdictsCounted ==
    /\ \A j \in Job : results[j].verdict.number <= 1 + faults["gate"]
    /\ \A j \in Job : ledgers.gate[j] = 0 =>
           \/ gate.at = "record" /\ j = First(gate.todo)
           \/ /\ results[j].verdict.number <= faults["gate"]
              /\ base[j].verdict.number <= faults["gate"]
    /\ gate.at \in {"push", "rebase", "again", "record"} =>
           /\ gate.verdict.version # 0
           /\ gate.verdict.number <= 1 + faults["gate"]

\* The numbers that are counted.
LEMMA Counts ==
    ASSUME TypeOK
    PROVE  /\ faults["relay"] \in Nat /\ faults["gate"] \in Nat
           /\ \A j \in Job : /\ results[j].version \in Nat /\ results[j].verdict.number \in Nat
                             /\ base[j].verdict.number \in Nat
           /\ \A j \in Job : ledgers.gate[j] \in Nat
<1>1. faults["relay"] \in 0..MaxFaults /\ faults["gate"] \in 0..MaxFaults
  BY DEF TypeOK
<1>2. \A r \in Result \cup {NoResult} : r.version \in Nat /\ r.verdict.number \in Nat
  BY Values
<1>3. \A j \in Job : results[j] \in Result \cup {NoResult} /\ base[j] \in Result \cup {NoResult}
  BY DEF TypeOK
<1> QED
  BY <1>1, <1>2, <1>3, ResultsPipelineAssumption DEF TypeOK

\* A fault is counted against its service.
LEMMA FaultCounted ==
    ASSUME TypeOK, NEW s \in {"relay", "gate", "loop"}, Fault(s)
    PROVE  \A t \in {"relay", "gate", "loop"} :
              faults'[t] = IF t = s THEN faults[t] + 1 ELSE faults[t]
BY DEF Fault, TypeOK

\* What neither service does to the other's count.
LEMMA VersionsStay ==
    ASSUME TypeOK, VersionsCounted, UNCHANGED <<relay, commit, ledgers.relay>>,
           faults'["relay"] = faults["relay"],
           "relay" \in behind => "relay" \in behind',
           \A j \in Job : results'[j].version = results[j].version
    PROVE  VersionsCounted'
BY DEF VersionsCounted, TypeOK, NoCommit

\* The same of the verdicts, which may be deleted with their result.
LEMMA VerdictsStay ==
    ASSUME VerdictsCounted, UNCHANGED <<gate, base, ledgers.gate>>,
           faults'["gate"] = faults["gate"],
           \A j \in Job : results'[j].verdict \in {results[j].verdict, NoVerdict}, TypeOK
    PROVE  VerdictsCounted'
<1>1. NoVerdict.number = 0
  BY DEF NoVerdict
<1>2. \A j \in Job : results'[j].verdict.number = results[j].verdict.number
                     \/ results'[j].verdict.number = 0
  BY <1>1
<1> QED
  BY <1>2, Counts DEF VerdictsCounted

\* Every step of the relay counts.
LEMMA RelayCounts ==
    ASSUME PipelineInv, VersionsCounted, VerdictsCounted, RelayStep \/ RelayFault
    PROVE  VersionsCounted' /\ VerdictsCounted'
<1> USE DEF PipelineInv, Shape
<1> DEFINE hand == First(relay.todo)
<1>a. TypeOK /\ ledgers.gate \in [Job -> Nat]
  BY DEF TypeOK
<1>b. faults["relay"] \in Nat /\ \A j \in Job : results[j].version \in Nat
  BY Counts
<1>1. UNCHANGED <<gate, base, ledgers.gate>> /\ faults'["gate"] = faults["gate"]
  <2>1. UNCHANGED <<gate, base>>
    BY DEF RelayStep, RelayFault, RelayBegin, Reconstruct, PushLeftover, CommitResult, PushResult,
           RecordResult, relayFrame
  <2>2. ledgers'.gate = ledgers.gate
    BY DEF RelayStep, RelayFault, RelayBegin, Reconstruct, PushLeftover, CommitResult, PushResult,
           RecordResult, TypeOK
  <2>3. faults' = faults \/ Fault("relay")
    BY DEF RelayStep, RelayFault, RelayBegin, Reconstruct, PushLeftover, CommitResult, PushResult,
           RecordResult
  <2> QED
    BY <2>1, <2>2, <2>3, FaultCounted
\* A result arrives.
<1>2. ASSUME commit # NoCommit, results' = [results EXCEPT ![commit.job] = commit.result]
      PROVE  /\ commit.job \in Job
             /\ \A j \in Job : j # commit.job => results'[j] = results[j]
             /\ results'[commit.job].version = results[commit.job].version + 1
             /\ \A j \in Job : results'[j].verdict \in {results[j].verdict, NoVerdict}
  <2>1. commit.job \in Job
    BY <1>2 DEF TypeOK
  <2> QED
    BY <1>2, <2>1 DEF TypeOK, CommitOwn
<1>3. VerdictsCounted'
  <2>1. \A j \in Job : results'[j].verdict \in {results[j].verdict, NoVerdict}
    BY <1>2 DEF RelayStep, RelayFault, RelayBegin, Reconstruct, PushLeftover, CommitResult,
                PushResult, RecordResult, RelayOwn
  <2> QED
    BY <1>1, <2>1, VerdictsStay
<1> SUFFICES VersionsCounted'
  BY <1>3
<1>4. CASE RelayBegin
  <2>1. /\ UNCHANGED <<results, commit, behind, ledgers, faults>>
        /\ relay.at = "idle" /\ relay'.at = "stage" /\ relay'.todo = completed \ ledgers.relay
    BY <1>4 DEF RelayBegin, TypeOK
  <2> QED
    BY <2>1 DEF VersionsCounted
<1>5. CASE Reconstruct
  <2>1. /\ UNCHANGED <<results, commit, behind, ledgers, faults>>
        /\ relay.at = "stage" /\ relay'.at \in {"idle", "publish"}
        /\ relay'.todo \in {relay.todo, {}}
    BY <1>5 DEF Reconstruct, TypeOK, IdleRelay
  <2> QED
    BY <2>1 DEF VersionsCounted
<1>6. CASE PushLeftover
  <2>1. CASE "relay" \in behind
    <3>1. UNCHANGED <<results, commit, behind, ledgers, faults>> /\ relay' = IdleRelay
          /\ relay.at = "publish"
      BY <1>6, <2>1 DEF PushLeftover
    <3> QED
      BY <2>1, <3>1 DEF VersionsCounted, IdleRelay
  <2>2. CASE "relay" \notin behind
    <3>1. /\ commit # NoCommit /\ results' = [results EXCEPT ![commit.job] = commit.result]
          /\ commit' = NoCommit /\ UNCHANGED <<relay, ledgers, faults>> /\ relay.at = "publish"
      BY <1>6, <2>2 DEF PushLeftover
    <3>2. results[commit.job].version < faults["relay"]
      BY <2>2, <3>1 DEF VersionsCounted
    <3> QED
      BY <1>2, <1>b, <3>1, <3>2 DEF VersionsCounted
  <2> QED
    BY <2>1, <2>2
<1>7. CASE CommitResult
  <2>1. hand \in Job /\ hand \in relay.todo
    BY <1>7, RelayHand DEF CommitResult
  <2>2. /\ UNCHANGED <<results, ledgers, faults>>
        /\ relay.at = "publish" /\ relay'.at = "push" /\ relay'.todo = relay.todo
        /\ commit'.job = hand
    BY <1>7 DEF CommitResult, TypeOK
  <2> QED
    BY <2>1, <2>2 DEF VersionsCounted
<1>8. CASE PushResult
  <2>1. hand \in Job /\ hand \in relay.todo /\ commit # NoCommit
    BY <1>8, RelayHand DEF PushResult, RelayOwn
  <2>2. CASE "relay" \in behind
    <3>1. UNCHANGED <<results, commit, behind, ledgers, faults>> /\ relay' = IdleRelay
          /\ relay.at = "push"
      BY <1>8, <2>2 DEF PushResult
    <3> QED
      BY <2>2, <3>1 DEF VersionsCounted, IdleRelay
  <2>3. CASE "relay" \notin behind
    <3>1. /\ results' = [results EXCEPT ![commit.job] = commit.result]
          /\ commit' = NoCommit /\ UNCHANGED <<ledgers, faults>>
          /\ relay.at = "push" /\ relay'.at = "record" /\ relay'.todo = relay.todo
      BY <1>8, <2>3 DEF PushResult, TypeOK
    <3>2. commit.job = hand /\ results[hand].version <= faults["relay"]
      BY <2>1, <3>1 DEF VersionsCounted
    <3> QED
      BY <1>2, <1>b, <2>1, <3>1, <3>2 DEF VersionsCounted
  <2> QED
    BY <2>2, <2>3
<1>9. CASE RecordResult
  <2>1. hand \in Job /\ hand \in relay.todo
    BY <1>9, RelayHand DEF RecordResult
  <2>2. /\ UNCHANGED <<results, commit, behind, faults>> /\ relay.at = "record"
        /\ ledgers'.relay = ledgers.relay \cup {hand}
        /\ relay'.at \in {"idle", "stage"} /\ relay'.todo \subseteq relay.todo \ {hand}
    BY <1>9 DEF RecordResult, TypeOK, IdleRelay, Later
  <2> QED
    BY <2>1, <2>2 DEF VersionsCounted
<1>10. CASE RelayFault
  <2>1. /\ UNCHANGED <<results, commit, behind, ledgers>> /\ relay' = IdleRelay
        /\ faults'["relay"] = faults["relay"] + 1
    BY <1>10, FaultCounted DEF RelayFault
  <2>2. relay'.at = "idle" /\ relay'.todo = {}
    BY <2>1 DEF IdleRelay
  <2>3. \A j \in Job : results'[j].version <= faults'["relay"]
    BY <1>b, <2>1 DEF VersionsCounted
  <2>4. commit # NoCommit => \/ "relay" \in behind
                             \/ results[commit.job].version < faults'["relay"]
    <3>1. ASSUME commit # NoCommit
          PROVE  commit.job \in Job /\ commit.job \notin ledgers.relay /\ relay.at # "record"
      BY <3>1 DEF VersionsCounted, TypeOK
    <3>2. ASSUME commit # NoCommit
          PROVE  results[commit.job].version <= faults["relay"]
      BY <3>1, <3>2 DEF VersionsCounted
    <3> QED
      BY <1>b, <2>1, <3>1, <3>2
  <2> QED
    BY <1>b, <2>1, <2>2, <2>3, <2>4 DEF VersionsCounted
<1> QED
  BY <1>4, <1>5, <1>6, <1>7, <1>8, <1>9, <1>10 DEF RelayStep

\* Every step of the gate counts.
LEMMA GateCounts ==
    ASSUME PipelineInv, VersionsCounted, VerdictsCounted, GateStep \/ GateFault
    PROVE  VersionsCounted' /\ VerdictsCounted'
<1> USE DEF PipelineInv, Shape
<1> DEFINE hand == First(gate.todo)
           next == First(Unsettled(gate.todo))
<1>a. TypeOK /\ results \in [Job -> Result \cup {NoResult}]
  BY DEF TypeOK
<1>b. /\ faults["gate"] \in Nat
      /\ \A j \in Job : results[j].verdict.number \in Nat /\ base[j].verdict.number \in Nat
  BY Counts
\* A verdict arrives.
<1>1. ASSUME gate.at \in {"push", "again"}, Deliver("record")
      PROVE  /\ hand \in Job
             /\ results'[hand].version = results[hand].version
             /\ results'[hand].verdict = gate.verdict
             /\ \A j \in Job : j # hand => results'[j] = results[j]
             /\ base' = results' /\ gate'.at = "record"
             /\ gate'.todo = gate.todo /\ gate'.verdict = gate.verdict
  <2>1. hand \in Job /\ results[hand] \in Result
    BY <1>1, GateHand
  <2>2. results' = [results EXCEPT ![hand].verdict = gate.verdict]
    BY <1>1 DEF Deliver
  <2>3. results'[hand] = [results[hand] EXCEPT !.verdict = gate.verdict]
    BY <1>a, <2>1, <2>2
  <2> QED
    BY <1>1, <1>a, <2>1, <2>2, <2>3 DEF Deliver, Result, TypeOK
<1>2. VersionsCounted'
  <2>1. UNCHANGED <<relay, commit>>
    BY DEF GateStep, GateFault, GateBegin, GateCycleEnds, GateRefuses, Check, PushVerdict, Rebase,
           PushAgain, RecordVerdict, gateFrame
  <2>2. ledgers'.relay = ledgers.relay
    BY DEF GateStep, GateFault, GateBegin, GateCycleEnds, GateRefuses, Check, PushVerdict, Rebase,
           PushAgain, RecordVerdict, TypeOK
  <2>3. faults' = faults \/ Fault("gate")
    BY DEF GateStep, GateFault, GateBegin, GateCycleEnds, GateRefuses, Check, PushVerdict, Rebase,
           PushAgain, RecordVerdict
  <2>4. \A j \in Job : results'[j].version = results[j].version
    <3>1. results' = results \/ (gate.at \in {"push", "again"} /\ Deliver("record"))
      BY DEF GateStep, GateFault, GateBegin, GateCycleEnds, GateRefuses, Check, PushVerdict,
             Rebase, PushAgain, RecordVerdict
    <3> QED
      BY <1>1, <3>1
  <2>5. "relay" \in behind => "relay" \in behind'
    BY DEF GateStep, GateFault, GateBegin, GateCycleEnds, GateRefuses, Check, PushVerdict, Rebase,
           PushAgain, RecordVerdict, Deliver, Overtake, EndGate
  <2> QED
    BY <2>1, <2>2, <2>3, <2>4, <2>5, FaultCounted, VersionsStay
<1> SUFFICES VerdictsCounted'
  BY <1>2
\* The cycle ends, at a fault if it was about to settle a job.
<1>3. ASSUME UNCHANGED <<results, ledgers>>, EndGate,
             \/ gate.at # "record" /\ faults' = faults
             \/ faults'["gate"] = faults["gate"] + 1
      PROVE  VerdictsCounted'
  <2>1. gate'.at = "idle" /\ \A j \in Job : base'[j].verdict.number = 0
    BY <1>3 DEF EndGate, IdleGate, Nothing, NoResult, NoVerdict
  <2> QED
    BY <1>3, <1>b, <2>1 DEF VerdictsCounted
<1>4. CASE GateCycleEnds \/ GateRefuses
  BY <1>3, <1>4 DEF GateCycleEnds, GateRefuses
<1>5. CASE GateFault
  BY <1>3, <1>5, FaultCounted DEF GateFault
<1>6. CASE GateBegin
  <2>1. /\ UNCHANGED <<results, ledgers, faults>> /\ base' = results
        /\ gate.at = "idle" /\ gate'.at = "check"
    BY <1>6 DEF GateBegin, TypeOK
  <2> QED
    BY <2>1 DEF VerdictsCounted
<1>7. CASE Check
  <2>1. next \in Job /\ base[next] \in Result
    BY <1>7, GateNext DEF Check
  <2>2. /\ UNCHANGED <<results, base, ledgers, faults>>
        /\ ledgers.gate[next] = 0 /\ gate.at = "check" /\ gate' \in Judged(next)
    BY <1>7 DEF Check
  <2>3. base[next].version \in Nat \ {0} /\ base[next].verdict.number <= faults["gate"]
    BY <2>1, <2>2, Values DEF VerdictsCounted
  <2>4. /\ gate'.at = "push" /\ gate'.verdict.version = base[next].version
        /\ gate'.verdict.number \in {base[next].verdict.number + 1, 1}
    BY <2>2 DEF Judged
  <2>5. gate'.verdict.number <= 1 + faults["gate"]
    BY <1>b, <2>1, <2>3, <2>4
  <2> QED
    BY <2>2, <2>3, <2>4, <2>5 DEF VerdictsCounted
<1>8. ASSUME gate.at \in {"push", "again"}, Deliver("record"), UNCHANGED <<ledgers, faults>>
      PROVE  VerdictsCounted'
  BY <1>1, <1>8, <1>b DEF VerdictsCounted
<1>9. CASE PushVerdict
  <2>1. CASE "gate" \in behind
    <3>1. /\ UNCHANGED <<results, base, ledgers, faults>> /\ gate.at = "push"
          /\ gate'.at = "rebase" /\ gate'.verdict = gate.verdict
      BY <1>9, <2>1 DEF PushVerdict, TypeOK
    <3> QED
      BY <3>1 DEF VerdictsCounted
  <2> QED
    BY <1>8, <1>9, <2>1 DEF PushVerdict
<1>10. CASE Rebase
  <2>1. CASE EndGate
    BY <1>3, <1>10, <2>1 DEF Rebase
  <2>2. CASE ~EndGate
    <3>1. /\ UNCHANGED <<results, ledgers, faults>> /\ gate.at = "rebase" /\ base' = results
          /\ gate'.at = "again" /\ gate'.verdict = gate.verdict
      BY <1>10, <2>2 DEF Rebase, TypeOK
    <3> QED
      BY <3>1 DEF VerdictsCounted
  <2> QED
    BY <2>1, <2>2
<1>11. CASE PushAgain
  BY <1>3, <1>8, <1>11 DEF PushAgain
<1>12. CASE RecordVerdict
  <2>1. hand \in Job
    BY <1>12, GateHand DEF RecordVerdict
  <2>2. /\ UNCHANGED <<results, base, faults>> /\ gate.at = "record" /\ gate'.at = "check"
        /\ ledgers'.gate[hand] = gate.verdict.version
        /\ \A j \in Job : j # hand => ledgers'.gate[j] = ledgers.gate[j]
    BY <1>12, <2>1 DEF RecordVerdict, TypeOK
  <2> QED
    BY <2>1, <2>2 DEF VerdictsCounted
<1> QED
  BY <1>4, <1>5, <1>6, <1>7, <1>9, <1>10, <1>11, <1>12 DEF GateStep

\* Every step counts.
LEMMA RewritesKept ==
    ASSUME PipelineInv, VersionsCounted, VerdictsCounted, [Next]_vars
    PROVE  VersionsCounted' /\ VerdictsCounted'
<1> USE DEF PipelineInv, Shape
<1>1. ASSUME UNCHANGED <<results, relay, commit, gate, base, ledgers.gate, ledgers.relay>>,
             faults'["relay"] = faults["relay"], faults'["gate"] = faults["gate"],
             "relay" \in behind => "relay" \in behind'
      PROVE  VersionsCounted' /\ VerdictsCounted'
  BY <1>1, VersionsStay, VerdictsStay
<1>2. CASE (\E j \in Job : Complete(j)) \/ OtherPush \/ UNCHANGED vars
  BY <1>1, <1>2 DEF Complete, OtherPush, Overtake, vars, clones
<1>3. CASE LoopStep \/ LoopFault
  <2>1. UNCHANGED <<results, relay, commit, gate, base>>
    BY <1>3 DEF LoopStep, LoopFault, LoopBegin, LoopCycleEnds, LoopRefuses, Revise, PushCorrection,
                RecordCorrection, loopFrame
  <2>2. ledgers'.gate = ledgers.gate /\ ledgers'.relay = ledgers.relay
    BY <1>3 DEF LoopStep, LoopFault, LoopBegin, LoopCycleEnds, LoopRefuses, Revise, PushCorrection,
                RecordCorrection, TypeOK
  <2>3. faults' = faults \/ Fault("loop")
    BY <1>3 DEF LoopStep, LoopFault, LoopBegin, LoopCycleEnds, LoopRefuses, Revise, PushCorrection,
                RecordCorrection
  <2>4. "relay" \in behind => "relay" \in behind'
    BY <1>3 DEF LoopStep, LoopFault, LoopBegin, LoopCycleEnds, LoopRefuses, Revise, PushCorrection,
                RecordCorrection, EndLoop
  <2> QED
    BY <1>1, <2>1, <2>2, <2>3, <2>4, FaultCounted
<1> QED
  BY <1>2, <1>3, RelayCounts, GateCounts DEF Next

\* Whatever the services and the other writers do between one another's steps,
\* a result and its verdict are made a second time only after a fault of the
\* service that makes them.
THEOREM RewritesCounted == Spec => []RewritesNeedFaults
<1>1. Init => VersionsCounted /\ VerdictsCounted
  <2>1. \A j \in Job : NoResult.version = 0 /\ NoResult.verdict.number = 0
    BY DEF NoResult, NoVerdict
  <2> QED
    BY <2>1 DEF Init, VersionsCounted, VerdictsCounted, Nothing, IdleRelay, IdleGate
<1>2. PipelineInv /\ [Next]_vars => PipelineInv'
  BY PipelineKept
<1>3. PipelineInv /\ VersionsCounted /\ VerdictsCounted /\ [Next]_vars
          => VersionsCounted' /\ VerdictsCounted'
  BY RewritesKept
<1>4. VersionsCounted /\ VerdictsCounted => RewritesNeedFaults
  BY DEF VersionsCounted, VerdictsCounted, RewritesNeedFaults, Resulted
<1> QED
  BY PipelineStarts, <1>1, <1>2, <1>3, <1>4, PTL DEF Spec
=============================================================================
