------------------------------ MODULE Publication ------------------------------
(* From a passed candidate to a freed claim: the controlled publisher, which
   turns it into a draft pull request (controlled_publisher.py), the completion
   controller, which merges the drafts it may (completion_controller.py), and
   the founder and everybody else who writes to the product repository.

   The two controllers have a lock file each, so they run side by side, at the
   grain of one GitHub, git or ledger operation.  A controller that raises ends
   its cycle: what it had learned is lost, as when it dies, and the next cycle
   starts from its ledger, the results branch and GitHub.                     *)
EXTENDS Integers

CONSTANTS Jobs,        \* the candidates the gate has passed, in path order
          AutoMerge,   \* those whose job says AUTO_MERGE_WHEN_GREEN
          MaxEvents    \* bound: deaths, lost requests, and what others do to
                       \* main, the branches and the pull requests

ASSUME PublicationAssumption ==
    /\ Jobs \subseteq Nat /\ AutoMerge \subseteq Jobs
    /\ MaxEvents \in Nat

VARIABLES
    main,       \* product main: the number of commits on it
    touched,    \* candidates whose paths others have changed there
    branch,     \* the commit at the head of a candidate's branch
    pull,       \* its pull request
    green,      \* pull requests whose checks pass
    revision,   \* candidates the revision loop has stated it will not revise
    report,     \* publication-report.json on the results branch
    ready,      \* candidates with the completion sidecars there
    claim,      \* the writer claim of a candidate's objective
    stream,     \* what the publication evidence of a candidate says
    pledger,    \* the publisher's ledger
    cledger,    \* the completion controller's ledger
    pub, com,   \* what the controllers are doing: in their memory
    events

github == <<main, touched, branch, pull, green>>
evidence == <<revision, report, ready, claim, stream>>
vars == <<github, evidence, pledger, cledger, pub, com, events>>

(* The commit of a candidate is deterministic for a given main.               *)
NoCommit == 0
CommitOn(base) == base + 1
Foreign == -1
Commits == Nat \union {Foreign}

NoPull == [state |-> "none", head |-> NoCommit, by |-> "none"]
Open(j) == pull[j].state \in {"draft", "ready"}
Merged(j) == pull[j].state = "merged"

NoReport == [commit |-> NoCommit, generation |-> 0]
NoEntry == [status |-> "none", head |-> NoCommit]

(* A controller: the job it is at, what it has read of it, and the jobs its
   cycle has still to come to, in two batches.                                *)
Rest == [at |-> "rest", job |-> 0, base |-> 0, found |-> "none", new |-> {}, old |-> {}]
Job(p) == p.job

PubPhases == {"admit", "base", "push", "pull", "report", "sidecars", "ledger", "state",
              "verify", "branch", "merged", "superseded", "free", "record", "yield"}
ComPhases == {"escalate", "undraft", "review", "checks", "reread", "intent", "merge",
              "accept", "verify", "cleanup", "clean", "report", "free", "close"}
Phases == {"rest"} \union PubPhases \union ComPhases

ComStatus == {"none", "escalated", "intent", "accepted", "verified", "cleaned",
              "merged"}

Controllers ==
    [at : Phases, job : Jobs \union {0}, base : Nat, found : ComStatus,
     new : SUBSET Jobs, old : SUBSET Jobs]

On(p, at) == [p EXCEPT !.at = at]

TypeOK ==
    /\ main \in Nat /\ touched \subseteq Jobs
    /\ branch \in [Jobs -> Commits]
    /\ pull \in [Jobs -> [state : {"none", "draft", "ready", "merged", "closed",
                                   "superseded"},
                          head : Commits, by : {"none", "founder", "completion"}]]
    /\ green \subseteq Jobs /\ revision \subseteq Jobs /\ ready \subseteq Jobs
    /\ report \in [Jobs -> [commit : Commits, generation : Nat]]
    /\ claim \in [Jobs -> [generation : Nat,
                           state : {"active", "merged", "superseded"}]]
    /\ stream \in [Jobs -> {"none", "drafted", "merged"}]
    /\ pledger \in [Jobs -> [status : {"none", "published", "drifted",
                                       "superseded"}, head : Commits]]
    /\ cledger \in [Jobs -> [status : ComStatus, head : Commits]]
    /\ pub \in Controllers /\ com \in Controllers
    /\ events \in 0 .. MaxEvents

(* build_next has claimed the objective of every job (generation 1).          *)
Init ==
    /\ main = 0 /\ touched = {}
    /\ branch = [j \in Jobs |-> NoCommit]
    /\ pull = [j \in Jobs |-> NoPull]
    /\ green = {} /\ revision = {} /\ ready = {}
    /\ report = [j \in Jobs |-> NoReport]
    /\ claim = [j \in Jobs |-> [generation |-> 1, state |-> "active"]]
    /\ stream = [j \in Jobs |-> "none"]
    /\ pledger = [j \in Jobs |-> NoEntry]
    /\ cledger = [j \in Jobs |-> NoEntry]
    /\ pub = Rest /\ com = Rest
    /\ events = 0

(* Candidates are taken in the order of their paths.                          *)
First(js) == CHOOSE j \in js : \A i \in js : j <= i

(* release_claim: the writer is the same; only the generation can refuse.     *)
Releasable(j) == claim[j].generation = report[j].generation
Released(j, state) == [claim EXCEPT ![j].state = state]

-----------------------------------------------------------------------------
(* The publisher.  Each action is one step with the job at the front.         *)

PubAt(at) == pub.at = at
PubRaises == pub' = Rest
PubKeeps == UNCHANGED <<cledger, com, events>>

(* The first job is published or, if in the ledger, verified again.           *)
PubTurn(new, old) ==
    IF new \union old = {} THEN Rest
    ELSE LET j == First(IF new # {} THEN new ELSE old)
         IN  [Rest EXCEPT !.job = j, !.new = new \ {j}, !.old = old \ {j},
                          !.at = IF pledger[j].status = "none" THEN "admit"
                                 ELSE "verify"]

PubDone == pub' = PubTurn(pub.new, pub.old)

(* Jobs that are not in the ledger yet come first; blocked ones are skipped.  *)
PubStart ==
    /\ PubAt("rest")
    /\ LET new == {j \in Jobs : pledger[j].status = "none"}
           old == {j \in Jobs : pledger[j].status \in {"published", "superseded"}}
       IN  new \union old # {} /\ pub' = PubTurn(new, old)
    /\ UNCHANGED <<github, evidence, pledger>> /\ PubKeeps

(* find_related_work and classify_candidate: an open pull request that touches
   the candidate's paths asks for the founder.  The candidate's own is one of
   them: its body names no objective.                                         *)
RelatedWork(j) == Open(j)

(* _load_revision_evidence: the loop has stated that the job is not revised.  *)
RevisionStated(j) == j \in revision

(* _work_admission: an active claim must have the job's generation, an ended
   one is taken once more.  Then the revision evidence is read.               *)
PubAdmit ==
    /\ PubAt("admit")
    /\ LET j == Job(pub)
           refused == RelatedWork(j) \/ (claim[j].state = "active" /\ claim[j].generation # 1)
       IN  /\ claim' = IF refused \/ claim[j].state = "active" THEN claim
                       ELSE [claim EXCEPT ![j] =
                               [generation |-> @.generation + 1, state |-> "active"]]
           /\ IF refused \/ ~RevisionStated(j) THEN PubRaises
              ELSE pub' = On(pub, "base")
    /\ UNCHANGED <<github, revision, report, ready, stream, pledger>> /\ PubKeeps

(* The candidate's paths have changed on main since its source.               *)
MainDrift(j) == j \in touched \/ Merged(j)

(* The product clone is brought to main; a drift blocks the job for good, and
   leaves its claim as it is.                                                 *)
PubBase ==
    /\ PubAt("base")
    /\ LET j == Job(pub)
       IN  IF MainDrift(j)
           THEN /\ pledger' = [pledger EXCEPT ![j].status = "drifted"]
                /\ PubDone
           ELSE /\ pub' = [On(pub, "push") EXCEPT !.base = main]
                /\ UNCHANGED pledger
    /\ UNCHANGED <<github, evidence>> /\ PubKeeps

PubPush ==
    /\ PubAt("push")
    /\ LET j == Job(pub)
           commit == CommitOn(pub.base)
       IN  IF main = pub.base /\ branch[j] \in {NoCommit, commit}
           THEN branch' = [branch EXCEPT ![j] = commit] /\ pub' = On(pub, "pull")
           ELSE PubRaises /\ UNCHANGED branch
    /\ UNCHANGED <<main, touched, pull, green, evidence, pledger>>
    /\ PubKeeps

(* A draft of the branch as it is; it must then be at the commit pushed.      *)
PubPull ==
    /\ PubAt("pull")
    /\ LET j == Job(pub)
           created == pull[j] = NoPull /\ branch[j] # NoCommit
       IN  /\ pull' = IF created
                      THEN [pull EXCEPT ![j].state = "draft", ![j].head = branch[j]]
                      ELSE pull
           /\ IF pull'[j].state = "draft" /\ pull'[j].head = CommitOn(pub.base)
              THEN pub' = On(pub, "report") ELSE PubRaises
    /\ UNCHANGED <<main, touched, branch, green, evidence, pledger>>
    /\ PubKeeps

\* Mutant: the ledger is saved without the sidecars.
PubReportNoSidecars ==
    /\ PubAt("report")
    /\ report' = [report EXCEPT ![Job(pub)] =
                    [commit |-> CommitOn(pub.base),
                     generation |-> claim[Job(pub)].generation]]
    /\ pub' = On(pub, "ledger")
    /\ UNCHANGED <<github, revision, ready, claim, stream, pledger>> /\ PubKeeps

PubReport ==
    /\ PubAt("report")
    /\ report' = [report EXCEPT ![Job(pub)] =
                    [commit |-> CommitOn(pub.base),
                     generation |-> claim[Job(pub)].generation]]
    /\ pub' = On(pub, "sidecars")
    /\ UNCHANGED <<github, revision, ready, claim, stream, pledger>> /\ PubKeeps

PubSidecars ==
    /\ PubAt("sidecars")
    /\ ready' = ready \union {Job(pub)}
    /\ pub' = On(pub, "ledger")
    /\ UNCHANGED <<github, revision, report, claim, stream, pledger>> /\ PubKeeps

PubLedger ==
    /\ PubAt("ledger")
    /\ pledger' = [pledger EXCEPT ![Job(pub)] =
                     [status |-> "published", head |-> CommitOn(pub.base)]]
    /\ pub' = On(pub, "state")
    /\ UNCHANGED <<github, evidence>> /\ PubKeeps

(* _record_drafted_publication_review: a stream closed by other evidence
   refuses it, and the refusal ends the cycle.                                *)
PubState ==
    /\ PubAt("state")
    /\ LET j == Job(pub)
       IN  IF stream[j] = "merged"
           THEN PubRaises /\ UNCHANGED stream
           ELSE stream' = [stream EXCEPT ![j] = "drafted"] /\ PubDone
    /\ UNCHANGED <<github, revision, report, ready, claim, pledger>> /\ PubKeeps

(* _prove_merged_candidate_content: every candidate path is in the merge as it
   was published.  A foreign head stands for one that changed it.             *)
ContentSurvived(j) == Merged(j) /\ pull[j].head = pledger[j].head

(* _founder_superseded_closed_draft.                                          *)
SupersededByFounder(j) ==
    pull[j].state = "superseded" /\ pull[j].head = pledger[j].head

(* _verify_published_pr.                                                      *)
PullVerified(j) ==
    \/ Open(j) /\ pull[j].head = pledger[j].head
    \/ ContentSurvived(j)
    \/ SupersededByFounder(j)

PubVerify ==
    /\ PubAt("verify")
    /\ LET j == Job(pub)
       IN  IF PullVerified(j)
           THEN pub' = On(pub, IF Open(j) THEN "branch" ELSE pull[j].state)
           ELSE PubRaises
    /\ UNCHANGED <<github, evidence, pledger>> /\ PubKeeps

\* Mutant: the branch must still be there once the draft is merged.
PubBranchMustExist ==
    /\ pub.at \in {"branch", "merged", "superseded"}
    /\ LET j == Job(pub)
           next == [branch |-> "state", merged |-> "free", superseded |-> "record"]
       IN  IF branch[j] = pledger[j].head
           THEN pub' = On(pub, next[pub.at]) ELSE PubRaises
    /\ UNCHANGED <<github, evidence, pledger>> /\ PubKeeps

(* The branch, read after the pull request: it may be gone once that is done. *)
PubBranch ==
    /\ pub.at \in {"branch", "merged", "superseded"}
    /\ LET j == Job(pub)
           next == [branch |-> "state", merged |-> "free", superseded |-> "record"]
       IN  IF \/ branch[j] = pledger[j].head
              \/ branch[j] = NoCommit /\ pub.at # "branch"
           THEN pub' = On(pub, next[pub.at]) ELSE PubRaises
    /\ UNCHANGED <<github, evidence, pledger>> /\ PubKeeps

(* _release_claim_if_product_merged: a refusal is passed over.                *)
PubFree ==
    /\ PubAt("free")
    /\ claim' = IF Releasable(Job(pub)) THEN Released(Job(pub), "merged") ELSE claim
    /\ pub' = On(pub, "state")
    /\ UNCHANGED <<github, revision, report, ready, stream, pledger>> /\ PubKeeps

(* _record_superseded_closed_draft, then _release_claim_if_founder_superseded. *)
PubRecord ==
    /\ PubAt("record")
    /\ pledger' = [pledger EXCEPT ![Job(pub)].status = "superseded"]
    /\ pub' = On(pub, "yield")
    /\ UNCHANGED <<github, evidence>> /\ PubKeeps

PubYield ==
    /\ PubAt("yield")
    /\ claim' = IF Releasable(Job(pub)) THEN Released(Job(pub), "superseded") ELSE claim
    /\ PubDone
    /\ UNCHANGED <<github, revision, report, ready, stream, pledger>> /\ PubKeeps

PubStep ==
    \/ PubStart \/ PubAdmit \/ PubBase \/ PubPush \/ PubPull \/ PubReport
    \/ PubSidecars \/ PubLedger \/ PubState \/ PubVerify \/ PubBranch \/ PubFree
    \/ PubRecord \/ PubYield

-----------------------------------------------------------------------------
(* The completion controller.                                                 *)

ComAt(at) == com.at = at
ComRaises == com' = Rest
ComKeeps == UNCHANGED <<pledger, pub, events>>
Entered(j, status) == [cledger EXCEPT ![j] = [status |-> status, head |-> report[j].commit]]

(* Closed and escalated jobs are only looked at.  What is left to do of another,
   from the ledger (_recover_existing) or, for a job that is not in it, from
   the beginning.                                                             *)
Resume == [none |-> "undraft", intent |-> "intent", accepted |-> "verify",
           verified |-> "cleanup", cleaned |-> "report"]

Stage(j) == IF j \notin AutoMerge THEN "escalate" ELSE Resume[cledger[j].status]

ComTurn(todo) ==
    IF todo = {} THEN Rest
    ELSE LET j == First(todo)
         IN  [Rest EXCEPT !.job = j, !.new = todo \ {j},
                          !.found = cledger[j].status, !.at = Stage(j)]

ComDone == com' = ComTurn(com.new)

(* _load_job_evidence: gate, report, publication and sidecars of one candidate. *)
Evidenced(j) == j \in ready /\ report[j].commit # NoCommit

ComStart ==
    /\ ComAt("rest")
    /\ LET todo == {j \in Jobs : /\ Evidenced(j)
                                  /\ cledger[j].status \notin {"merged", "escalated"}}
       IN  todo # {} /\ com' = ComTurn(todo)
    /\ UNCHANGED <<github, evidence, cledger>> /\ ComKeeps

(* complete_job: the other authorities end here.                              *)
ComEscalate ==
    /\ ComAt("escalate")
    /\ cledger' = Entered(Job(com), "escalated")
    /\ ComDone
    /\ UNCHANGED <<github, evidence>> /\ ComKeeps

ComUndraft ==
    /\ ComAt("undraft")
    /\ pull' = IF pull[Job(com)].state = "draft"
               THEN [pull EXCEPT ![Job(com)].state = "ready"] ELSE pull
    /\ com' = On(com, "review")
    /\ UNCHANGED <<main, touched, branch, green, evidence, cledger>>
    /\ ComKeeps

(* _assert_pr_eligible, on a fresh read of the pull request.                  *)
Eligible(j) == Open(j) /\ pull[j].head = report[j].commit

ComReview ==
    /\ ComAt("review")
    /\ com' = IF Eligible(Job(com)) THEN On(com, "checks") ELSE Rest
    /\ UNCHANGED <<github, evidence, cledger>> /\ ComKeeps

ComChecks ==
    /\ ComAt("checks")
    /\ com' = IF Job(com) \in green THEN On(com, "reread") ELSE Rest
    /\ UNCHANGED <<github, evidence, cledger>> /\ ComKeeps

(* Read again, then the intent is saved.                                      *)
ComIntend ==
    /\ ComAt("reread")
    /\ IF Eligible(Job(com))
       THEN cledger' = Entered(Job(com), "intent") /\ com' = On(com, "merge")
       ELSE ComRaises /\ UNCHANGED cledger
    /\ UNCHANGED <<github, evidence>> /\ ComKeeps

(* A saved intent: the merge has happened, or is tried again as at first.     *)
ComResumeIntent ==
    /\ ComAt("intent")
    /\ LET j == Job(com)
       IN  com' = IF Merged(j) THEN On(com, "verify")
                  ELSE IF Eligible(j) /\ j \in green THEN On(com, "merge") ELSE Rest
    /\ UNCHANGED <<github, evidence, cledger>> /\ ComKeeps

MergedBy(j, who) == [pull EXCEPT ![j].state = "merged", ![j].by = who]

\* Mutant: the merge request does not name the expected head.
ComMergeAnyHead ==
    /\ ComAt("merge")
    /\ LET j == Job(com)
       IN  IF pull[j].state = "ready"
           THEN /\ pull' = MergedBy(j, "completion") /\ main' = main + 1
                /\ com' = On(com, "accept")
           ELSE ComRaises /\ UNCHANGED <<pull, main>>
    /\ UNCHANGED <<touched, branch, green, evidence, cledger>>
    /\ ComKeeps

(* GitHub merges an undrafted open pull request still at the expected head.   *)
ComMerge ==
    /\ ComAt("merge")
    /\ LET j == Job(com)
       IN  IF pull[j].state = "ready" /\ pull[j].head = cledger[j].head
           THEN /\ pull' = MergedBy(j, "completion") /\ main' = main + 1
                /\ com' = On(com, "accept")
           ELSE ComRaises /\ UNCHANGED <<pull, main>>
    /\ UNCHANGED <<touched, branch, green, evidence, cledger>>
    /\ ComKeeps

ComAccept ==
    /\ ComAt("accept")
    /\ cledger' = Entered(Job(com), "accepted")
    /\ com' = On(com, "verify")
    /\ UNCHANGED <<github, evidence>> /\ ComKeeps

(* _verify_after_merge.  Only a first run saves what it has done at once.      *)
Saved(status) == IF com.found = "none" THEN Entered(Job(com), status) ELSE cledger

ComVerify ==
    /\ ComAt("verify")
    /\ IF Merged(Job(com))
       THEN cledger' = Saved("verified") /\ com' = On(com, "cleanup")
       ELSE ComRaises /\ UNCHANGED cledger
    /\ UNCHANGED <<github, evidence>> /\ ComKeeps

ComCleanup ==
    /\ ComAt("cleanup")
    /\ branch' = [branch EXCEPT ![Job(com)] = NoCommit]
    /\ com' = On(com, "clean")
    /\ UNCHANGED <<main, touched, pull, green, evidence, cledger>>
    /\ ComKeeps

ComClean ==
    /\ ComAt("clean")
    /\ cledger' = Saved("cleaned")
    /\ com' = On(com, "report")
    /\ UNCHANGED <<github, evidence>> /\ ComKeeps

(* The terminal file and completion report, then the evidence: a stream that is
   closed refuses it (a repetition has other bytes), and the process ends.    *)
ComState ==
    /\ ComAt("report")
    /\ LET j == Job(com)
       IN  IF stream[j] = "none"
           THEN stream' = [stream EXCEPT ![j] = "merged"] /\ com' = On(com, "free")
           ELSE ComRaises /\ UNCHANGED stream
    /\ UNCHANGED <<github, revision, report, ready, claim, cledger>> /\ ComKeeps

ComFree ==
    /\ ComAt("free")
    /\ IF Releasable(Job(com))
       THEN claim' = Released(Job(com), "merged") /\ com' = On(com, "close")
       ELSE ComRaises /\ UNCHANGED claim
    /\ UNCHANGED <<github, revision, report, ready, stream, cledger>> /\ ComKeeps

ComClose ==
    /\ ComAt("close")
    /\ cledger' = Entered(Job(com), "merged")
    /\ ComDone
    /\ UNCHANGED <<github, evidence>> /\ ComKeeps

ComStep ==
    \/ ComStart \/ ComEscalate \/ ComUndraft \/ ComReview \/ ComChecks \/ ComIntend
    \/ ComResumeIntent \/ ComMerge \/ ComAccept \/ ComVerify \/ ComCleanup \/ ComClean
    \/ ComState \/ ComFree \/ ComClose

-----------------------------------------------------------------------------
Event == events < MaxEvents /\ events' = events + 1

(* A controller dies, or a request fails: the cycle is lost.                  *)
Stop ==
    /\ Event
    /\ \/ pub # Rest /\ pub' = Rest /\ UNCHANGED com
       \/ com # Rest /\ com' = Rest /\ UNCHANGED pub
    /\ UNCHANGED <<github, evidence, pledger, cledger>>

(* The other services and writers.                                            *)

StateRevision(j) ==
    /\ revision' = revision \union {j}
    /\ UNCHANGED <<github, report, ready, claim, stream, pledger, cledger, pub, com,
                   events>>

Others == UNCHANGED <<evidence, pledger, cledger, pub, com>>

ChecksChange(j) ==
    /\ Open(j)
    /\ \E g \in {green \union {j}, green \ {j}} : g # green /\ green' = g
    /\ UNCHANGED <<main, touched, branch, pull, events>> /\ Others

MainMoves(j) ==
    /\ Event /\ main' = main + 1
    /\ \E t \in {touched, touched \union {j}} : touched' = t
    /\ UNCHANGED <<branch, pull, green>> /\ Others

ForeignPush(j) ==
    /\ Event /\ branch[j] # NoCommit
    /\ branch' = [branch EXCEPT ![j] = Foreign]
    /\ pull' = IF Open(j) THEN [pull EXCEPT ![j].head = Foreign] ELSE pull
    /\ green' = green \ {j}
    /\ UNCHANGED <<main, touched>> /\ Others

FounderMerges(j) ==
    /\ Event /\ Open(j)
    /\ pull' = MergedBy(j, "founder") /\ main' = main + 1
    /\ UNCHANGED <<touched, branch, green>> /\ Others

(* A draft is superseded when it is closed with the owner's comment naming a
   merged successor; a pull request is closed for any other reason otherwise.  *)
FounderCloses(j) ==
    /\ Event /\ Open(j)
    /\ \E s \in {"closed"} \union (IF pull[j].state = "draft" THEN {"superseded"} ELSE {}) :
         pull' = [pull EXCEPT ![j].state = s]
    /\ UNCHANGED <<main, touched, branch, green>> /\ Others

Environment ==
    \E j \in Jobs : \/ StateRevision(j) \/ ChecksChange(j) \/ MainMoves(j)
                    \/ ForeignPush(j) \/ FounderMerges(j) \/ FounderCloses(j)

Next == PubStep \/ ComStep \/ Stop \/ Environment

(* Both controllers run for ever; nothing is assumed of anybody else.         *)
Fairness == WF_vars(PubStep) /\ WF_vars(ComStep)

Spec == Init /\ [][Next]_vars /\ Fairness

-----------------------------------------------------------------------------
(* Nobody else may write a candidate's paths while it is on its way: its claim
   is active as long as its pull request is open or the publisher may still
   open one, and it ends only for what has happened to the pull request.      *)
ClaimCoversDraft ==
    \A j \in Jobs :
        /\ Open(j) \/ (pull[j] = NoPull /\ pledger[j].status # "drifted")
             => claim[j].state = "active"
        /\ claim[j].state # "active" => pull[j].state = claim[j].state

(* What a ledger says has been done is there, whoever died between the two:
   the draft, its report and its sidecars; the merge of what was validated;
   the claim and the evidence of a closed job.  The founder may have merged
   another head, and a publisher that lost its ledger entry claims once more.  *)
LedgersFollow ==
    \A j \in Jobs :
        /\ j \in ready => report[j].commit # NoCommit
        /\ pledger[j].status \in {"published", "superseded"}
             => j \in ready /\ report[j].commit = pledger[j].head
        /\ pledger[j].status = "superseded" => pull[j].state = "superseded"
        /\ cledger[j].status \in {"accepted", "verified", "cleaned", "merged"}
             => /\ Merged(j)
                /\ pull[j].by = "completion" => pull[j].head = cledger[j].head
        /\ cledger[j].status = "merged"
             => /\ stream[j] = "merged"
                /\ claim[j].generation = report[j].generation
                     => claim[j].state = "merged"

PublicationInv == TypeOK /\ ClaimCoversDraft /\ LedgersFollow

(* The controller merges only what the job allowed it to merge, at the commit
   the publisher reported and the sidecars speak of, once the revision loop has
   let go of it and with the intent on disk.                                  *)
MergesOnlyTheValidated ==
    [][\A j \in Jobs :
         pull'[j].by = "completion" /\ pull[j].by # "completion"
           => /\ j \in AutoMerge /\ j \in ready /\ j \in revision
              /\ pull[j].head = report[j].commit
              /\ cledger[j] = [status |-> "intent", head |-> report[j].commit]]_vars

(* A job whose turn ends the publisher's cycle, whatever it does.             *)
Blocks(j) ==
    \/ /\ pledger[j].status = "none"
       /\ \/ j \notin revision \/ Open(j)
          \/ ~Merged(j) /\ (pull[j] # NoPull \/ branch[j] # NoCommit)
          \/ claim[j].generation # 1
    \/ /\ pledger[j].status # "none"
       /\ \/ pull[j].state = "closed" \/ pull[j].head # pledger[j].head
          \/ branch[j] \notin {pledger[j].head, NoCommit}
          \/ stream[j] = "merged"

(* A published draft that is merged has its claim freed in the end, whatever
   became of the completion controller and of the evidence, unless somebody has
   pushed to its branch or another job keeps ending the publisher's cycles.   *)
MergedIsFreed ==
    \A j \in Jobs :
        /\ pledger[j].status = "published" /\ Merged(j)
        /\ pull[j].head = pledger[j].head
        ~> \/ claim[j].state = "merged" \/ branch[j] = Foreign
           \/ \E k \in Jobs \ {j} : Blocks(k)

(* What completion_controller.py (line 1457) says of the scan: a job that has
   been cleaned up does not keep the others from being merged.                *)
GreenAndReady(j) ==
    j \in AutoMerge /\ j \in ready /\ j \in green /\ Eligible(j)

GreenIsMerged == \A j \in Jobs : []<>~GreenAndReady(j)
=============================================================================
