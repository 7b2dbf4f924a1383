------------------------------- MODULE JobsFeed -------------------------------
(* How work reaches the host: the catalog of approved packets and the job files
   of the jobs branch, `build-next`, which turns the first packet into a job
   (build_next.py, job_packet.py), the capacity-one refill controller, which
   calls it (refill_controller.py), and the materializer, which adds the next
   packet when the last is done (catalog_materializer.py).

   The refill service, and the founder's refill commands, hold the reconcile
   lock: they are one process here, "refill".  The founder's own build-next is
   another.  Both work in one clone of the jobs branch, and only a submission
   takes the feed lock: everything else that reads the branch fetches and resets
   the clone without it.  A process that dies, or whose call raises, keeps
   nothing but its files.                                                     *)
EXTENDS Integers, Sequences, FiniteSets

CONSTANTS Items,       \* work items; their number is the order of the packet
          Listed,      \* those whose packet is on the jobs branch at the start
          Backlog,     \* those the backlog leaves to just-in-time packets
          DependsOn,   \* what a backlog item depends on
          MaxAttempts, \* bound: attempts of a generation
          MaxGenerations, \* bound: generations
          MaxEvents    \* bound: deaths, failed pushes, fetches and decision bases, and
                       \* what the founder does by hand: pauses, builds, new packets

ASSUME JobsFeedAssumption ==
    /\ Items \subseteq Nat /\ IsFiniteSet(Items)
    /\ Listed \subseteq Items /\ Backlog \subseteq Items
    /\ DependsOn \in [Backlog -> SUBSET Items]
    /\ {MaxAttempts, MaxGenerations, MaxEvents} \subseteq Nat

VARIABLES
    remote,     \* the jobs branch on GitHub: packets and jobs
    clone,      \* the shared clone: the branch it was reset to, and its HEAD
    feedLock,   \* who holds the lock of the feed
    stage,      \* the jobs the host knows, and what became of them
    claim,      \* the writer claim of an item's objective
    policy,     \* refill-policy.json
    gen,        \* refill-generation.json
    history,    \* the archived generations
    receipts,   \* supersession receipts: the generation before and after
    proc,       \* what the two processes are doing: in their memory
    events

branch == <<remote, clone, feedLock>>
ledger == <<policy, gen, history, receipts>>
vars == <<branch, stage, claim, ledger, proc, events>>

(* A job id is made of the item and of the refill attempt, if there is one.    *)
Job == [item : Items, gen : 0 .. MaxGenerations, ord : 0 .. MaxAttempts]
NoJob == [item |-> 0, gen |-> 0, ord |-> 0]
Manual(i) == [item |-> i, gen |-> 0, ord |-> 0]

InQueue == {"pending", "running"}
Stages == InQueue \union {"completed", "merged", "closed", "provider", "failed"}
Known(j) == j \in DOMAIN stage
StageOf(j) == IF Known(j) THEN stage[j] ELSE "absent"
MergedItem(i) == \E j \in DOMAIN stage : j.item = i /\ stage[j] = "merged"

NoGeneration == [id |-> 0, state |-> "none", attempts |-> << >>, current |-> NoJob,
                 prepared |-> NoJob, excluded |-> {}, retried |-> FALSE]
NewGeneration(id) == [NoGeneration EXCEPT !.id = id, !.state = "READY"]

(* "OPEN" stands for the states nothing tells apart: DISPATCHING, QUEUED,
   OCCUPIED, RECOVERED, BACKPRESSURE and BLOCKED.                              *)
States == {"none", "READY", "OPEN", "UNFILLED", "PAUSED"}
Generation == [id : 0 .. MaxGenerations, state : States, attempts : Seq(Job),
               current : Job \union {NoJob}, prepared : Job \union {NoJob},
               excluded : SUBSET Items, retried : BOOLEAN]

Rest == [at |-> "rest", job |-> NoJob, again |-> FALSE, busy |-> FALSE]
Processes == {"refill", "founder"}
At(p, at) == proc[p].at = at
Go(p, at) == proc' = [proc EXCEPT ![p].at = at]
Stop(p) == proc' = [proc EXCEPT ![p] = Rest]

Branch == [packets : SUBSET Items, jobs : SUBSET Job]
TypeOK ==
    /\ remote \in Branch /\ clone \in [base : Branch, tip : Branch]
    /\ feedLock \in Processes \union {"free"}
    /\ DOMAIN stage \subseteq Job /\ \A j \in DOMAIN stage : stage[j] \in Stages
    /\ claim \in [Items -> [writer : Job \union {NoJob}, active : BOOLEAN]]
    /\ policy \in [on : BOOLEAN, founded : BOOLEAN, superseded : 0 .. MaxGenerations]
    /\ gen \in Generation /\ history \subseteq Generation
    /\ receipts \subseteq [old : Generation, new : Generation]
    /\ \A p \in Processes : proc[p].job \in Job \union {NoJob}

Init ==
    /\ remote = [packets |-> Listed, jobs |-> {}]
    /\ clone = [base |-> remote, tip |-> remote] /\ feedLock = "free"
    /\ stage = [j \in {} |-> "pending"]
    /\ claim = [i \in Items |-> [writer |-> NoJob, active |-> FALSE]]
    /\ policy = [on |-> FALSE, founded |-> FALSE, superseded |-> 0]
    /\ gen = NoGeneration /\ history = {} /\ receipts = {}
    /\ proc = [p \in Processes |-> Rest]
    /\ events = 0

-----------------------------------------------------------------------------
(* The shared clone.                                                          *)

(* _prepare_feed_checkout: fetch, checkout -B, reset --hard, clean.  What is
   committed in the clone and not pushed is gone.                             *)
Reset == clone' = [base |-> remote, tip |-> remote]

Selectable(excluded) == remote.packets \ excluded
First(S) == CHOOSE i \in S : \A k \in S : i <= k

(* git push origin HEAD:jobs: a HEAD that is the branch pushes nothing and says
   so with success; a branch that moved on from what it was reset to rejects it. *)
Accepted == clone.tip = remote \/ clone.base = remote
Event == events < MaxEvents /\ events' = events + 1

-----------------------------------------------------------------------------
(* build_next(), by either process, with proc[p].job as the job it is to be.
   How the refill controller takes an answer that is not QUEUED: BLOCKED and
   UNFILLED are written to the generation, which keeps its prepared dispatch;
   RUNNING and what admission answers leave it alone.                         *)
Answer(p, state) ==
    /\ gen' = IF p = "refill" /\ state # "" THEN [gen EXCEPT !.state = state] ELSE gen
    /\ Stop(p)
    /\ UNCHANGED <<policy, history, receipts>>

(* The packet is selected again at every call: a refill job whose item is not
   the first any more, or a job the host has archived, is refused.            *)
Load(p) ==
    LET choice == Selectable(IF p = "refill" THEN gen.excluded ELSE {})
        job == IF p = "refill" THEN proc[p].job ELSE Manual(First(choice))
    IN  /\ At(p, "load")
        /\ Reset
        /\ \/ choice = {} /\ Answer(p, "UNFILLED")
           \/ /\ choice # {} /\ First(choice) # job.item
              /\ Answer(p, "OPEN")
           \/ /\ choice # {} /\ First(choice) = job.item
              /\ \/ ~Known(job) /\ proc' = [proc EXCEPT ![p].at = "admit", ![p].job = job]
                    /\ UNCHANGED ledger
                 \/ StageOf(job) = "pending" /\ p = "refill" /\ Go(p, "record")
                    /\ UNCHANGED ledger
                 \/ StageOf(job) \in (IF p = "founder" THEN InQueue ELSE {"running"})
                    /\ Answer(p, "")
                 \/ Known(job) /\ stage[job] \notin InQueue /\ Answer(p, "OPEN")
        /\ UNCHANGED <<remote, feedLock, stage, claim, events>>

\* Mutant: a claim that is active already is a conflict, whoever holds it.
AdmittedFresh(job) == ~MergedItem(job.item) /\ ~claim[job.item].active

(* admit_work: the pull request of a merged item is found on GitHub and ends
   it; the same writer's active claim is reused; another's is a conflict.     *)
Admitted(job) ==
    /\ ~MergedItem(job.item)
    /\ ~claim[job.item].active \/ claim[job.item].writer = job

Admit(p) ==
    LET job == proc[p].job
    IN  /\ At(p, "admit")
        /\ \/ Admitted(job) /\ Go(p, "prove")
              /\ claim' = [claim EXCEPT ![job.item] = [writer |-> job, active |-> TRUE]]
              /\ UNCHANGED ledger
           \/ ~Admitted(job) /\ Answer(p, "") /\ UNCHANGED claim
        /\ UNCHANGED <<branch, stage, events>>

(* The declared commit is proved fetchable and fetched after the claim is
   taken: when that fails the answer is BLOCKED and the claim stays.          *)
Prove(p) ==
    /\ At(p, "prove")
    /\ \/ Go(p, "submit") /\ UNCHANGED <<ledger, events>>
       \/ Event /\ Answer(p, "OPEN")
    /\ UNCHANGED <<branch, stage, claim>>

(* A submission that raises releases the claim; BLOCKED is all refill knows.    *)
SubmissionFails(p) ==
    /\ claim' = [claim EXCEPT ![proc[p].job.item].active =
                     @ /\ claim[proc[p].job.item].writer # proc[p].job]
    /\ Answer(p, "OPEN")

(* _submit_feed_job, all under the feed lock: reset, look for the job, commit.
   A job that is there already is the same, or, prepared under a claim of
   another generation, refused.                                               *)
Submit(p) ==
    LET job == proc[p].job
    IN  /\ At(p, "submit") /\ feedLock = "free"
        /\ \/ /\ job \in remote.jobs /\ Reset /\ UNCHANGED feedLock
              /\ \/ Go(p, "record") /\ UNCHANGED <<claim, ledger>>
                 \/ SubmissionFails(p)
           \/ /\ job \notin remote.jobs
              /\ clone' = [base |-> remote, tip |-> [remote EXCEPT !.jobs = @ \union {job}]]
              /\ Go(p, "push") /\ feedLock' = p /\ UNCHANGED <<claim, ledger>>
        /\ UNCHANGED <<remote, stage, events>>

(* A push that fails may have reached the branch.                             *)
Push(p) ==
    /\ At(p, "push")
    /\ \/ Accepted /\ remote' = clone.tip /\ Go(p, "hash")
          /\ UNCHANGED <<feedLock, claim, ledger, events>>
       \/ /\ SubmissionFails(p) /\ feedLock' = "free"
          /\ \/ ~Accepted /\ UNCHANGED <<remote, events>>
             \/ Event /\ (UNCHANGED remote \/ (Accepted /\ remote' = clone.tip))
    /\ UNCHANGED <<clone, stage>>

\* Mutant: the receipt is written without the hash of the pushed file.
HashSkipped(p) ==
    /\ At(p, "hash") /\ feedLock' = "free" /\ Go(p, "record")
    /\ UNCHANGED <<remote, clone, stage, claim, ledger, events>>

(* The receipt holds the hash of the file that was pushed: a reset by another
   process since the commit has deleted it, unless it had been pushed before.  *)
Hash(p) ==
    /\ At(p, "hash") /\ feedLock' = "free"
    /\ \/ proc[p].job \in clone.tip.jobs /\ Go(p, "record") /\ UNCHANGED <<claim, ledger>>
       \/ proc[p].job \notin clone.tip.jobs /\ SubmissionFails(p)
    /\ UNCHANGED <<remote, clone, stage, events>>

(* The founder's build-next prints its receipt; what the refill controller is
   told is QUEUED it records as an attempt, in place of the prepared dispatch. *)
Attempted(g) == {g.attempts[k] : k \in DOMAIN g.attempts}
Recorded(g, job) ==
    [g EXCEPT !.attempts = IF job \in Attempted(g) THEN @ ELSE Append(@, job),
              !.current = job, !.prepared = NoJob, !.state = "OPEN"]

Record(p) ==
    /\ At(p, "record")
    /\ gen' = IF p = "refill" THEN Recorded(gen, proc[p].job) ELSE gen
    /\ Stop(p)
    /\ UNCHANGED <<branch, stage, claim, policy, history, receipts, events>>

FounderBuilds ==
    /\ At("founder", "rest") /\ Event
    /\ Go("founder", "load")
    /\ UNCHANGED <<branch, stage, claim, ledger>>

-----------------------------------------------------------------------------
(* One reconcile.  First what occupies the capacity: the running and pending
   jobs, then, after the clone is reset, the jobs the host does not know yet.  *)
Halt == Stop("refill")

Count ==
    /\ At("refill", "rest") /\ policy.founded
    /\ proc' = [proc EXCEPT !["refill"].at = "feed",
                     !["refill"].busy = \E j \in DOMAIN stage : stage[j] \in InQueue]
    /\ UNCHANGED <<branch, stage, claim, ledger, events>>

CountFeed ==
    /\ At("refill", "feed") /\ Reset
    /\ \/ /\ ~policy.on /\ Halt
          /\ gen' = IF gen.id = 0 THEN gen ELSE [gen EXCEPT !.state = "PAUSED"]
       \/ /\ policy.on /\ UNCHANGED gen
          /\ proc' = [proc EXCEPT !["refill"].at = "recover",
                           !["refill"].busy = @ \/ \E j \in remote.jobs : ~Known(j)]
    /\ UNCHANGED <<remote, feedLock, stage, claim, policy, history, receipts, events>>

(* Every job file the controller can see: the clone's as they are now, unpushed
   ones too, and the host's.                                                  *)
Seen(g) == {j \in clone.tip.jobs \union DOMAIN stage : j.gen = g.id /\ g.id # 0}

Matched(g) == IF g.prepared \in Seen(g) THEN Recorded(g, g.prepared) ELSE g

(* _recover_unrecorded_generation_attempt: one job of the generation that is no
   attempt yet, and the next in order, becomes the current one.               *)
Recovered(g) ==
    LET lost == Seen(g) \ Attempted(g)
        one == CHOOSE j \in lost : TRUE
    IN  IF lost = {} THEN g
        ELSE IF lost = {one} /\ one.ord = Len(g.attempts) + 1
             THEN [g EXCEPT !.attempts = Append(@, one), !.current = one, !.state = "OPEN"]
             ELSE [g EXCEPT !.state = "OPEN"]

Recover ==
    LET g == Recovered(Matched(gen))
    IN  /\ At("refill", "recover") /\ gen' = g
        /\ IF \/ proc["refill"].busy \/ g.id = 0
              \/ ~(Seen(g) \subseteq Attempted(g))
           THEN Halt ELSE Go("refill", "decide")
        /\ UNCHANGED <<branch, stage, claim, policy, history, receipts, events>>

\* Mutant: a job that has run is done, whatever is to become of its candidate.
CategoryArchived(job) ==
    CASE StageOf(job) \in {"completed", "merged", "closed"} -> "item_terminal"
      [] StageOf(job) \in InQueue -> "in_flight"
      [] StageOf(job) = "provider" -> "provider_systemic"
      [] StageOf(job) = "failed" -> "unknown"
      [] OTHER -> IF job \in clone.tip.jobs THEN "in_flight" ELSE "unknown"

(* _classify_attempt, of what its producers have said.                        *)
Category(job) ==
    CASE StageOf(job) \in {"merged", "closed"} -> "item_terminal"
      [] StageOf(job) \in InQueue \union {"completed"} -> "in_flight"
      [] StageOf(job) = "provider" -> "provider_systemic"
      [] StageOf(job) = "failed" -> "unknown"
      [] OTHER -> IF job \in clone.tip.jobs THEN "in_flight" ELSE "unknown"

(* A prepared dispatch that was decided on an attempt's evidence is held up, in
   recovery and in replay, while that evidence does not say so any more.  It
   does again: the streams of an attempt given up are closed (LifecycleEvidence),
   so only an unreadable or unrestored snapshot can fail the check.           *)
BasisFails ==
    /\ At("refill", "recover") \/ At("refill", "decide")
    /\ gen.prepared # NoJob /\ gen.excluded # {} /\ Event
    /\ gen' = [gen EXCEPT !.state = "OPEN"] /\ Halt
    /\ UNCHANGED <<branch, stage, claim, policy, history, receipts>>

(* A prepared dispatch is replayed before anything is decided; otherwise the
   current attempt says what comes next: wait, retry the item once when the
   provider's time has come, exclude it and go on, or stop.                   *)
Replay ==
    /\ At("refill", "decide") /\ Matched(gen).prepared # NoJob
    /\ proc' = [proc EXCEPT !["refill"] = [Rest EXCEPT !.at = "load", !.job = gen.prepared]]
    /\ UNCHANGED <<branch, stage, claim, ledger, events>>

Decide ==
    LET g == Matched(gen)
        what == Category(g.current)
        wait == [g EXCEPT !.state = "OPEN"]
    IN  /\ At("refill", "decide") /\ g.prepared = NoJob
        /\ \/ g.current = NoJob /\ gen' = g /\ Go("refill", "probe")
           \/ g.current # NoJob /\ what \in {"in_flight", "unknown"}
              /\ gen' = wait /\ Halt
           \/ g.current # NoJob /\ what = "provider_systemic"
              /\ \/ gen' = wait /\ Halt
                 \/ ~g.retried /\ gen' = g
                    /\ proc' = [proc EXCEPT !["refill"].at = "probe", !["refill"].again = TRUE]
           \/ g.current # NoJob /\ what = "item_terminal"
              /\ gen' = [g EXCEPT !.excluded = @ \union {g.current.item},
                                  !.current = NoJob, !.state = "READY"]
              /\ Go("refill", "probe")
        /\ UNCHANGED <<branch, stage, claim, policy, history, receipts, events>>

(* evaluate_jit_eligibility: the first backlog item that is neither merged nor
   excluded, and whose dependencies are merged: an exclusion is no success.
   DependsOn leaves out what the backlog itself declares terminal.            *)
Eligible(i) ==
    /\ i \in Backlog /\ ~MergedItem(i) /\ i \notin gen.excluded
    /\ \A d \in DependsOn[i] : MergedItem(d)

(* ensure_jit_catalog_for_refill: only when nothing is left to select.        *)
Probe ==
    LET ready == {i \in Items : Eligible(i)}
    IN  /\ At("refill", "probe") /\ Reset
        /\ IF Selectable(gen.excluded) # {} \/ ready = {} THEN Go("refill", "prepare")
           ELSE proc' = [proc EXCEPT !["refill"].at = "author",
                             !["refill"].job = Manual(First(ready))]
        /\ UNCHANGED <<remote, feedLock, stage, claim, ledger, events>>

(* _publish_packet_to_jobs holds another lock than the feed's, on the same
   clone.  A packet that is there already is the same, or, authored from
   another commit of the product, a conflict.                                 *)
Author ==
    LET i == proc["refill"].job.item
    IN  /\ At("refill", "author")
        /\ \/ i \in remote.packets /\ Reset
              /\ \/ Go("refill", "prepare") /\ UNCHANGED gen
                 \/ gen' = [gen EXCEPT !.state = "OPEN"] /\ Halt
           \/ i \notin remote.packets /\ UNCHANGED gen
              /\ clone' = [base |-> remote, tip |-> [remote EXCEPT !.packets = @ \union {i}]]
              /\ Go("refill", "publish")
        /\ UNCHANGED <<remote, feedLock, stage, claim, policy, history, receipts, events>>

Publish ==
    /\ At("refill", "publish")
    /\ \/ Accepted /\ remote' = clone.tip /\ Go("refill", "prepare")
          /\ UNCHANGED <<gen, events>>
       \/ /\ gen' = [gen EXCEPT !.state = "OPEN"] /\ Halt
          /\ \/ ~Accepted /\ UNCHANGED <<remote, events>>
             \/ Event /\ (UNCHANGED remote \/ (Accepted /\ remote' = clone.tip))
    /\ UNCHANGED <<clone, feedLock, stage, claim, policy, history, receipts>>

\* Mutant: the prepared dispatch is kept in memory until it is submitted.
PreparedUnsaved(g, job, again) == [g EXCEPT !.state = "OPEN", !.retried = @ \/ again]

(* _prepare_dispatch writes what it is about to submit, and that the one retry
   is used up, before anything leaves the machine.  (MaxAttempts is a bound.) *)
Prepared(g, job, again) ==
    [g EXCEPT !.prepared = job, !.state = "OPEN", !.retried = @ \/ again]

Prepare ==
    LET choice == Selectable(gen.excluded)
        again == proc["refill"].again
        job == [item |-> First(choice), gen |-> gen.id, ord |-> Len(gen.attempts) + 1]
        blocked == [gen EXCEPT !.state = "OPEN"]
    IN  /\ At("refill", "prepare") /\ Reset
        /\ \/ choice = {} /\ gen' = [gen EXCEPT !.state = "UNFILLED"] /\ Halt
              /\ UNCHANGED events
           \/ choice # {} /\ again /\ First(choice) # gen.current.item
              /\ gen' = blocked /\ Halt /\ UNCHANGED events
           \/ choice # {} /\ Event /\ gen' = blocked /\ Halt
           \/ Len(gen.attempts) = MaxAttempts /\ Halt /\ UNCHANGED <<gen, events>>
           \/ /\ choice # {} /\ Len(gen.attempts) < MaxAttempts
              /\ again => First(choice) = gen.current.item
              /\ gen' = Prepared(gen, job, again)
              /\ proc' = [proc EXCEPT !["refill"] = [Rest EXCEPT !.at = "load", !.job = job]]
              /\ UNCHANGED events
        /\ UNCHANGED <<remote, feedLock, stage, claim, policy, history, receipts>>

Reconcile ==
    \/ Count \/ CountFeed \/ Recover \/ BasisFails \/ Replay \/ Decide
    \/ Probe \/ Author \/ Publish \/ Prepare
Build(p) == Load(p) \/ Admit(p) \/ Prove(p) \/ Submit(p) \/ Push(p) \/ Hash(p)
            \/ Record(p)

-----------------------------------------------------------------------------
(* The founder's refill commands, one file at a time.                         *)
Quiet == UNCHANGED <<branch, stage, claim, events>>
Files(p, g, h, r) == policy' = p /\ gen' = g /\ history' = h /\ receipts' = r

PauseBuilds ==
    /\ At("refill", "rest") /\ policy.on /\ Event
    /\ Files([policy EXCEPT !.on = FALSE], gen, history, receipts)
    /\ Go("refill", "pause") /\ UNCHANGED <<branch, stage, claim>>

ResumeBuilds ==
    /\ At("refill", "rest") /\ policy.founded /\ ~policy.on
    /\ Files([policy EXCEPT !.on = TRUE], gen, history, receipts)
    /\ Go("refill", "resume") /\ Quiet

MarkGeneration ==
    /\ \E at \in {"pause", "resume"} :
          /\ At("refill", at)
          /\ Files(policy, IF gen.id = 0 THEN gen
                           ELSE [gen EXCEPT !.state = IF at = "pause" THEN "PAUSED" ELSE "READY"],
                   history, receipts)
    /\ Halt /\ Quiet

Archived(g) == \E h \in history : h.id = g.id
FreshId == 1 + (CHOOSE n \in 0 .. MaxGenerations :
                   /\ (n = gen.id \/ \E r \in receipts : r.new.id = n)
                   /\ gen.id <= n /\ \A r \in receipts : r.new.id <= n)

(* refill-keep-one replaces only a generation that found nothing to do and has
   nothing under way; it archives it, then enables the policy, then replaces. *)
KeepOne ==
    /\ At("refill", "rest") /\ FreshId <= MaxGenerations
    /\ \/ gen.id = 0 /\ Files(policy, gen, history, receipts)
       \/ /\ gen.state = "UNFILLED" /\ gen.current = NoJob /\ gen.prepared = NoJob
          /\ Archived(gen) => gen \in history
          /\ Files(policy, gen, history \union {gen}, receipts)
    /\ Go("refill", "enable") /\ Quiet

Enable ==
    /\ At("refill", "enable")
    /\ Files([policy EXCEPT !.on = TRUE, !.founded = TRUE], gen, history, receipts)
    /\ Go("refill", "renew") /\ Quiet

Renew ==
    /\ At("refill", "renew")
    /\ Files(policy, NewGeneration(FreshId), history, receipts)
    /\ Halt /\ Quiet

(* Supersession of a paused generation whose attempt nobody can classify: the
   archive, the receipt, the new generation, and last the policy.  A retry
   finds the receipt, and goes on from the generation it finds.               *)
Supersedable(g) ==
    /\ policy.founded /\ ~policy.on
    /\ \A j \in DOMAIN stage : stage[j] \notin InQueue
    /\ \A j \in remote.jobs : Known(j)
    /\ g.id # 0 /\ g.prepared = NoJob
    /\ g.current # NoJob /\ Category(g.current) = "unknown"

Supersede ==
    /\ At("refill", "rest") /\ Supersedable(gen)
    /\ \/ /\ \A r \in receipts : r.old # gen
          /\ FreshId <= MaxGenerations
          /\ Archived(gen) => gen \in history
          /\ Files(policy, gen, history \union {gen}, receipts)
          /\ Go("refill", "receipt")
       \/ /\ \E r \in receipts : r.old = gen /\ policy.superseded \in {0, gen.id}
          /\ gen \in history
          /\ Files(policy, gen, history, receipts)
          /\ Go("refill", "replace")
    /\ Quiet

WriteReceipt ==
    /\ At("refill", "receipt")
    /\ Files(policy, gen, history,
             receipts \union {[old |-> gen, new |-> NewGeneration(FreshId)]})
    /\ Go("refill", "replace") /\ Quiet

Replace ==
    /\ At("refill", "replace")
    /\ \E r \in receipts : r.old = gen /\ Files(policy, r.new, history, receipts)
    /\ Go("refill", "complete") /\ Quiet

SupersedeAgain ==
    /\ At("refill", "rest")
    /\ \E r \in receipts : /\ r.new = gen /\ policy.superseded = 0
                           /\ r.old \in history
                           /\ Supersedable(r.old)
    /\ Files(policy, gen, history, receipts)
    /\ Go("refill", "complete") /\ Quiet

CompletePolicy ==
    /\ At("refill", "complete")
    /\ \E r \in receipts :
          /\ r.new = gen
          /\ Files([on |-> TRUE, founded |-> TRUE, superseded |-> r.old.id],
                   gen, history, receipts)
    /\ Halt /\ Quiet

Command ==
    \/ PauseBuilds \/ ResumeBuilds \/ MarkGeneration \/ KeepOne \/ Enable \/ Renew
    \/ Supersede \/ WriteReceipt \/ Replace \/ SupersedeAgain \/ CompletePolicy

-----------------------------------------------------------------------------
(* A process dies: the operating system frees its lock.                       *)
Die(p) ==
    /\ proc[p] # Rest /\ Event /\ Stop(p)
    /\ feedLock' = IF feedLock = p THEN "free" ELSE feedLock
    /\ UNCHANGED <<remote, clone, stage, claim, ledger>>

(* The host imports, runs and archives; a failure frees the claim.  What becomes
   of a candidate is said later, by the publisher or the completion controller. *)
Becomes(j, what) == stage' = [k \in DOMAIN stage \union {j} |->
                                 IF k = j THEN what ELSE stage[k]]
Freed(j) == [claim EXCEPT ![j.item].active = @ /\ claim[j.item].writer # j]

Import(j) == j \in remote.jobs /\ ~Known(j) /\ Becomes(j, "pending") /\ UNCHANGED claim
Start(j) == StageOf(j) = "pending" /\ Becomes(j, "running") /\ UNCHANGED claim
Finish(j) ==
    /\ StageOf(j) = "running"
    /\ \/ Becomes(j, "completed") /\ UNCHANGED claim
       \/ \E what \in {"provider", "failed"} : Becomes(j, what) /\ claim' = Freed(j)
Dispose(j) ==
    /\ StageOf(j) = "completed"
    /\ \E what \in {"merged", "closed"} : Becomes(j, what) /\ claim' = Freed(j)

Works(j) == (Import(j) \/ Start(j) \/ Finish(j)) /\ UNCHANGED <<branch, ledger, proc, events>>
Disposes(j) == Dispose(j) /\ UNCHANGED <<branch, ledger, proc, events>>

(* The founder adds a packet to the catalog by hand, from elsewhere.          *)
PacketAdded ==
    /\ Event
    /\ \E i \in Items \ (Backlog \union remote.packets) :
          remote' = [remote EXCEPT !.packets = @ \union {i}]
    /\ UNCHANGED <<clone, feedLock, stage, claim, ledger, proc>>

OnTheWay == remote.jobs \union DOMAIN stage

Next ==
    \/ Reconcile \/ Command \/ FounderBuilds \/ PacketAdded
    \/ \E p \in Processes : Build(p) \/ Die(p)
    \/ \E j \in OnTheWay : Works(j) \/ Disposes(j)

(* The refill service reconciles every half minute, a founder's command runs to
   its end, and the host takes and finishes its jobs.  Nobody has to dispose of
   a candidate, to resume, or to call anything.                               *)
Fairness ==
    /\ WF_vars(Reconcile \/ Build("refill")) /\ WF_vars(Build("founder"))
    /\ WF_vars(MarkGeneration \/ Enable \/ Renew \/ WriteReceipt \/ Replace \/ CompletePolicy)
    /\ WF_vars(\E j \in OnTheWay : Works(j))

Spec == Init /\ [][Next]_vars /\ Fairness

-----------------------------------------------------------------------------
(* A job of the refill controller that is on the branch or on the host is an
   attempt of its generation, or the one it has prepared: whichever write a
   death or a lost push falls after, the next reconcile knows what it did.    *)
EveryJobIsKnown ==
    \A j \in OnTheWay : j.gen # 0 =>
        \E g \in {gen} \union history : g.id = j.gen /\ j \in Attempted(g) \union {g.prepared}

(* Capacity one: of all the jobs the refill controller has ever submitted, one
   at most still waits, runs or has a candidate nobody has disposed of.       *)
OneAtATime ==
    Cardinality({j \in OnTheWay : /\ j.gen # 0
                                  /\ StageOf(j) \in InQueue \union {"absent", "completed"}}) <= 1

(* A just-in-time packet is on the branch only when all it depends on is merged. *)
PacketsFollowProof ==
    \A i \in (Backlog \ Listed) \cap remote.packets :
        \A d \in DependsOn[i] : MergedItem(d)

(* What a supersession replaces is never lost, wherever it dies: the receipt is
   of an archived generation, and the policy names one that has a receipt.    *)
SupersessionsRecorded ==
    /\ \A r \in receipts : r.old \in history /\ r.old.id # r.new.id
    /\ policy.superseded # 0 => \E r \in receipts : r.old.id = policy.superseded

JobsFeedInv == TypeOK /\ OneAtATime /\ SupersessionsRecorded /\ PacketsFollowProof

(* A prepared dispatch becomes an attempt, unless the founder pauses, a packet
   of a higher rank turns up, or its item is another writer's or merged.      *)
Contended(j) == \/ \E i \in Selectable(gen.excluded) : i < j.item
                \/ claim[j.item].active /\ claim[j.item].writer # j
                \/ MergedItem(j.item)
PreparedIsResolved ==
    gen.prepared # NoJob ~> \/ gen.prepared = NoJob \/ ~policy.on
                            \/ Contended(gen.prepared)

(* A submission that is answered QUEUED is on the jobs branch or with the host,
   though every reconcile and every author resets the clone without its lock:
   after the commit, so that the push has nothing to push, or after the push.  *)
QueuedIsOnTheBranch ==
    \A p \in Processes : At(p, "record") => proc[p].job \in OnTheWay
=============================================================================
