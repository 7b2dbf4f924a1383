-------------------------- MODULE LifecycleEvidence --------------------------
(* The evidence an attempt leaves behind, from the services that produce it to
   the refill controller that acts on it (lifecycle_evidence.py).

   A service first makes its outcome durable (fact), then states it as
   evidence: it takes evidence-heads.lock, writes an immutable envelope, then
   replaces the head of the stream.  What it still has to state is only in its
   memory (owed) and dies with it.  The recorder, which the relay runs at the
   end of its cycle, takes the same lock, restores the materialized files from
   the journal, and appends a transition for every attempt that has evidence.
   Refill gives up its current attempt on a classification made under the lock,
   and commits the next dispatch under the lock again, after verifying that what
   it relied on still holds.

   A correction queued by the revision loop goes through the same services,
   but carries no attempt identity: it states nothing.                        *)
EXTENDS LifecycleReduction, Sequences, FiniteSets

CONSTANTS Attempts,     \* the attempts of a generation: 1 .. n
          Corrections,  \* the jobs the loop may queue
          Correction,   \* the correction of each attempt (itself: no plan)
          Followed,     \* bound: the jobs taken further than prepared or queued
          Mortal,       \* bound: the services that may die
          MaxCrashes,   \* bound: services that die
          MaxRetries,   \* bound: restarts of the completion controller
          MaxTransitions, \* bound: transitions of an attempt that do not settle it
          RecordFrom    \* bound: the evidence they begin with

Jobs == Attempts \union Corrections

ASSUME LifecycleAssumption ==
    /\ Attempts \subseteq Nat /\ Corrections \subseteq Nat
    /\ Attempts \intersect Corrections = {}
    /\ Correction \in [Jobs -> Jobs]
    /\ \A j \in Jobs : Correction[j] # j => Correction[j] \in Corrections
    /\ RecordFrom \in Kinds
    /\ MaxCrashes \in Nat /\ MaxRetries \in Nat /\ MaxTransitions \in Nat

Services == {"refill", "host", "relay", "gate", "loop", "publisher",
             "completion"}

\* Mutant: the watermark is written first.
FilesWatermarkFirst == <<"reduced_through", "attempts", "work_items", "generations">>

(* The materialized files of an attempt, in the order they are written.       *)
Files == <<"attempts", "work_items", "generations", "reduced_through">>
FileSet == {Files[n] : n \in DOMAIN Files}

VARIABLES
    fact,       \* the durable outcome of every stage of every job
    owed,       \* evidence each service has still to state: in its memory
    envelopes,  \* the envelopes on disk
    head,       \* the current head of every stream
    journal,    \* the transitions of every job, never rewritten
    file,       \* the journal entry each materialized file was written from
    lock,       \* evidence-heads.lock: its holder and how far it has come
    excluded,   \* the items of a generation that refill has given up
    basis,      \* the journal entry the last one was given up on: durable
    crashes

vars == <<fact, owed, envelopes, head, journal, file, lock, basis, excluded,
          crashes>>

Free == [by |-> "none", at |-> "free", todo |-> {}]
NoBasis == [job |-> 0, entry |-> 0]

Transitions == [heads : [Kinds -> Envelopes], verdict : Dispositions]
Statements == [job : Jobs, kind : Kinds, envelope : Envelopes]
Statement(j, k, e) == [job |-> j, kind |-> k, envelope |-> e]

TypeOK ==
    /\ fact \in [Jobs -> [Kinds -> Said \union {"closed", "jammed"}]]
    /\ owed \in [Services -> Seq(Statements)]
    /\ envelopes \subseteq Statements
    /\ head \in [Jobs -> [Kinds -> Envelopes]]
    /\ \A j \in Jobs, k \in Kinds : head[j][k] = NoHead \/ Stateable(k, head[j][k])
    /\ journal \in [Jobs -> Seq(Transitions)]
    /\ file \in [Jobs -> [FileSet -> Nat]]
    /\ lock \in [by : Services \union {"none"}, todo : SUBSET Attempts,
                 at : {"free", "head", "reduce", "classify", "commit"}]
    /\ basis \in [job : Attempts \union {0}, entry : Nat]
    /\ excluded \subseteq Attempts
    /\ crashes \in 0 .. MaxCrashes

Init ==
    /\ fact = [j \in Jobs |-> [k \in Kinds |-> "none"]]
    /\ owed = [s \in Services |-> << >>]
    /\ envelopes = {}
    /\ head = [j \in Jobs |-> [k \in Kinds |-> NoHead]]
    /\ journal = [j \in Jobs |-> << >>]
    /\ file = [j \in Jobs |-> [f \in FileSet |-> 0]]
    /\ lock = Free
    /\ basis = NoBasis
    /\ excluded = {}
    /\ crashes = 0

store == <<envelopes, head, journal, file, lock, basis, excluded, crashes>>

-----------------------------------------------------------------------------
(* Primary outcomes.  A service states what it has done before it goes on.    *)

Idle(s) == owed[s] = << >> /\ lock.by # s

(* attempt_identity_from_job: only a job refill dispatched has an identity;
   the revision loop removes refill_attempt from the manifest of a correction. *)
Identified(j) == j \in Attempts

(* Service s makes j's stage k durable as outcome, then owes the statements.  *)
Outcome(s, j, k, outcome, statements) ==
    /\ Idle(s)
    /\ fact' = [fact EXCEPT ![j][k] = outcome]
    /\ owed' = [owed EXCEPT ![s] = IF Identified(j) THEN statements ELSE << >>]
    /\ UNCHANGED store

Closes(j, k, outcome) == <<Statement(j, k, Closing(outcome, 0))>>

(* build_next puts the prepared job on the jobs branch.                       *)
Submit(j) ==
    /\ j \in Followed
    /\ fact[j]["prepared"] = "prepared" /\ fact[j]["submitted"] = "none"
    /\ Outcome("refill", j, "submitted", "submitted",
               Closes(j, "submitted", "submitted"))

HostStates(j, seq, outcome) ==
    Statement(j, "host", Envelope(seq, outcome, Ends(outcome), 0))

Import(j) ==
    /\ j \in Followed
    /\ fact[j]["submitted"] = "submitted" /\ fact[j]["host"] = "none"
    /\ Outcome("host", j, "host", "pending",
               <<HostStates(j, 1, "imported"), HostStates(j, 2, "pending")>>)

Claim(j) ==
    /\ fact[j]["host"] = "pending"
    /\ Outcome("host", j, "host", "running", <<HostStates(j, 3, "running")>>)

(* failed stands for interrupted too (the recovery of a host that died with
   the job running): every reader of the evidence treats the two alike.       *)
Archive(j) ==
    /\ fact[j]["host"] = "running"
    /\ \E o \in {"completed", "failed"} :
         Outcome("host", j, "host", o, <<HostStates(j, 4, o)>>)

(* A cycle of the relay takes the completed jobs in the order of their names,
   then the failed ones, then reduces.  A completed job whose patch it cannot
   reconstruct or publish (the workspace has drifted) raises in every cycle:
   nothing after it is reached again.                                         *)
Jammed == {j \in Jobs : fact[j]["relay"] = "jammed"}

ReachedBeforeJam(j) == \A i \in Jammed : j < i

Jam(j) ==
    /\ fact[j]["relay"] = "none" /\ fact[j]["host"] = "completed"
    /\ ReachedBeforeJam(j)
    /\ Outcome("relay", j, "relay", "jammed", << >>)

(* The relay's ledger entry is saved before either statement.                 *)
RelayResult(j) ==
    /\ fact[j]["relay"] = "none"
    /\ \/ /\ fact[j]["host"] = "completed" /\ ReachedBeforeJam(j)
          /\ Outcome("relay", j, "relay", "relayed", Closes(j, "relay", "relayed"))
       \/ /\ fact[j]["host"] = "failed" /\ Identified(j) /\ Jammed = {}
          /\ Outcome("relay", j, "relay", "not_applicable",
                     Closes(j, "relay", "not_applicable"))

Validate(j) ==
    /\ fact[j]["relay"] = "relayed" /\ fact[j]["gate"] = "none"
    /\ \E o \in {"passed", "failed"} :
         Outcome("gate", j, "gate", o, Closes(j, "gate", o))

(* A failed candidate with a matching plan: its correction is submitted.      *)
Revise(j) ==
    /\ fact[j]["gate"] = "failed" /\ fact[j]["revision"] = "none"
    /\ Correction[j] # j
    /\ Idle("loop")
    /\ fact' = [fact EXCEPT ![j]["revision"] = "queued",
                            ![Correction[j]]["submitted"] = "submitted"]
    /\ owed' = [owed EXCEPT !["loop"] =
                  IF Identified(j) THEN Closes(j, "revision", "queued") ELSE << >>]
    /\ UNCHANGED store

(* Publisher and completion have a lock file each: they run side by side.      *)
Publish(j) ==
    /\ fact[j]["gate"] = "passed" /\ fact[j]["publication"] = "none"
    /\ Outcome("publisher", j, "publication", "drafted",
               Closes(j, "publication", "drafted"))

MergeStatement(j, copy) ==
    <<Statement(j, "publication", Closing("merged", copy))>>

Merge(j) ==
    /\ fact[j]["publication"] = "drafted"
    /\ Outcome("completion", j, "publication", "merged", MergeStatement(j, 1))

(* Statements a service makes again, cycle after cycle, of a job it is done
   with: restating what the head already says changes nothing and is left out. *)
Restated(s, j) ==
    IF s = "loop" /\ fact[j]["gate"] = "passed"
    THEN Closes(j, "revision", "not_applicable")
    ELSE IF s = "publisher" /\ fact[j]["publication"] \in {"drafted", "merged"}
    THEN Closes(j, "publication", "drafted")
    ELSE IF s = "publisher" /\ fact[j]["gate"] = "failed"
    THEN Closes(j, "publication", "not_applicable")
    ELSE << >>

Restate(s, j) ==
    /\ Identified(j) /\ Idle(s)
    /\ Restated(s, j) # << >>
    /\ Restated(s, j)[1].envelope # head[j][Restated(s, j)[1].kind]
    /\ owed' = [owed EXCEPT ![s] = Restated(s, j)]
    /\ UNCHANGED <<fact, store>>

(* The completion controller starts again with a job it has cleaned up but not
   closed in its ledger: the report it writes has a new completed_at, so the
   envelope has other bytes than any before.                                  *)
CopiesOf(j) == {s.envelope.copy : s \in {t \in envelopes :
                  t.job = j /\ t.kind = "publication"}}

RetryMerged(j) ==
    /\ Identified(j) /\ Idle("completion")
    /\ fact[j]["publication"] = "merged"
    /\ \E n \in 1 .. MaxRetries :
         /\ \A c \in CopiesOf(j) : c < n
         /\ n > 1 => n - 1 \in CopiesOf(j)
         /\ owed' = [owed EXCEPT !["completion"] = MergeStatement(j, n)]
    /\ UNCHANGED <<fact, store>>

(* The ledger entry "merged" ends the job: only once the evidence is in.      *)
Stated(s) ==
    /\ owed[s] # << >>
    /\ head[owed[s][1].job][owed[s][1].kind] = owed[s][1].envelope

CloseCompletion ==
    /\ lock.by # "completion" /\ Stated("completion")
    /\ fact' = [fact EXCEPT ![owed["completion"][1].job]["publication"] = "closed"]
    /\ owed' = [owed EXCEPT !["completion"] = << >>]
    /\ UNCHANGED store

-----------------------------------------------------------------------------
(* emit_lifecycle_evidence: the envelope, then the head, under the lock.      *)

Take(s, at, todo) ==
    /\ lock = Free
    /\ lock' = [by |-> s, at |-> at, todo |-> todo]

WriteEnvelope(s) ==
    /\ owed[s] # << >>
    /\ s = "completion" => ~Stated(s)
    /\ Take(s, "head", {})
    /\ envelopes' = envelopes \union {owed[s][1]}
    /\ UNCHANGED <<fact, owed, head, journal, file, basis, excluded, crashes>>

\* Mutant: the new head is not compared with the current one.
ReplaceHeadUnchecked(s) ==
    /\ lock.by = s /\ lock.at = "head"
    /\ LET st == owed[s][1]
           accepted == TRUE
       IN  /\ head' = IF accepted
                      THEN [head EXCEPT ![st.job][st.kind] = st.envelope]
                      ELSE head
           /\ owed' = IF accepted /\ s = "completion" THEN owed
                      ELSE [owed EXCEPT ![s] = Tail(@)]
    /\ lock' = Free
    /\ UNCHANGED <<fact, envelopes, journal, file, basis, excluded, crashes>>

(* A refusal is recorded and the service goes on; the completion controller
   ends with it.  Either way the statement is not made again by itself.       *)
ReplaceHead(s) ==
    /\ lock.by = s /\ lock.at = "head"
    /\ LET st == owed[s][1]
           accepted == StreamAccepts(head[st.job][st.kind], st.envelope)
       IN  /\ head' = IF accepted
                      THEN [head EXCEPT ![st.job][st.kind] = st.envelope]
                      ELSE head
           /\ owed' = IF accepted /\ s = "completion" THEN owed
                      ELSE [owed EXCEPT ![s] = Tail(@)]
    /\ lock' = Free
    /\ UNCHANGED <<fact, envelopes, journal, file, basis, excluded, crashes>>

-----------------------------------------------------------------------------
(* The recorder (reduce_attempt_lifecycle), in the relay's process.           *)

CorrectionDrafted(j) ==
    /\ Correction[j] # j
    /\ head[Correction[j]]["publication"].outcome = "drafted"

(* A completion report names the job once it is merged.                       *)
Proven == {j \in Jobs : fact[j]["publication"] \in {"merged", "closed"}}

Verdict(j) == Disposition(head[j], j \in Proven, CorrectionDrafted(j))

Current(j) == [heads |-> head[j], verdict |-> Verdict(j)]

Latest(j) == journal[j][Len(journal[j])]

HasEvidence(j) == \E k \in Kinds : head[j][k] # NoHead

\* Mutant: an attempt whose snapshot is current is taken for complete.
StaleSnapshotOnly(j) ==
    IF file[j]["attempts"] = Len(journal[j]) THEN {} ELSE DOMAIN Files

(* The files that are not as the journal's last entry has them.  Rewriting one
   that is changes nothing and is left out.                                   *)
Stale(j) == {n \in DOMAIN Files : file[j][Files[n]] # Len(journal[j])}
Behind == {j \in Attempts : Stale(j) # {}}

(* Attempts in the order of their paths, files in the order they are written.  *)
First(n, S) == n \in S /\ \A m \in S : n <= m

BeginReduce ==
    /\ Idle("relay") /\ Jammed = {}
    /\ \A j \in {i \in Attempts : HasEvidence(i)} :
         \/ Verdict(j) = "terminal"
         \/ Len(journal[j]) < MaxTransitions /\ head[j][RecordFrom] # NoHead
    /\ Take("relay", "reduce", {j \in Attempts : HasEvidence(j)})
    /\ UNCHANGED <<fact, owed, envelopes, head, journal, file, basis, excluded,
                   crashes>>

(* What a death has left, when the lock is taken, and after a new transition:
   one of the four files, from the last transition of its job.                *)
WriteFile ==
    /\ lock.at \in {"reduce", "classify", "commit"}
    /\ \E j \in Attempts : \E n \in DOMAIN Files :
         /\ First(j, Behind) /\ First(n, Stale(j))
         /\ file' = [file EXCEPT ![j][Files[n]] = Len(journal[j])]
    /\ UNCHANGED <<fact, owed, envelopes, head, journal, lock, basis, excluded,
                   crashes>>

(* _publish_lifecycle_snapshot: a new transition, unless the last one already
   says the same; then the files are written.                                 *)
AppendTransition ==
    /\ Behind = {}
    /\ \E j \in lock.todo :
         /\ First(j, lock.todo)
         /\ journal' = IF journal[j] # << >> /\ Latest(j) = Current(j) THEN journal
                       ELSE [journal EXCEPT ![j] = Append(@, Current(j))]
         /\ lock' = [lock EXCEPT !.todo = @ \ {j}]
    /\ UNCHANGED <<fact, owed, envelopes, head, file, basis, excluded, crashes>>

EndReduce ==
    /\ lock.at = "reduce" /\ lock.todo = {} /\ Behind = {}
    /\ lock' = Free
    /\ UNCHANGED <<fact, owed, envelopes, head, journal, file, basis, excluded,
                   crashes>>

-----------------------------------------------------------------------------
(* Refill: it gives an attempt up on a canonical classification, saves what
   it has relied on (basis), and prepares the next dispatch on that basis.     *)

CurrentAttempt ==
    {j \in Attempts : fact[j]["prepared"] = "prepared" /\ j \notin excluded}

Following(j) == j + 1

(* canonical_refill_classification restores the files first, as the recorder. *)
BeginClassify(j) ==
    /\ Idle("refill") /\ j \in CurrentAttempt
    /\ fact[j]["submitted"] = "submitted"
    /\ Take("refill", "classify", {})
    /\ UNCHANGED <<fact, owed, envelopes, head, journal, file, basis, excluded,
                   crashes>>

(* _verify_snapshot_freshness: the snapshot and the watermark are of the
   evidence as it is, and of each other.                                      *)
Fresh(j) ==
    /\ file[j]["attempts"] > 0 /\ file[j]["reduced_through"] > 0
    /\ journal[j][file[j]["attempts"]].heads = head[j]
    /\ journal[j][file[j]["reduced_through"]] = journal[j][file[j]["attempts"]]

CanonicalTerminal(j) ==
    Fresh(j) /\ journal[j][file[j]["attempts"]].verdict = "terminal"

(* A terminal item is excluded and the generation saved; else refill waits.   *)
Classify(j) ==
    /\ lock.at = "classify" /\ Behind = {} /\ j \in CurrentAttempt
    /\ lock' = Free
    /\ IF CanonicalTerminal(j)
       THEN /\ basis' = [job |-> j, entry |-> file[j]["attempts"]]
            /\ excluded' = excluded \union {j}
       ELSE UNCHANGED <<basis, excluded>>
    /\ UNCHANGED <<fact, owed, envelopes, head, journal, file, crashes>>

(* The next dispatch, in this cycle or, after a refusal or a death, in another. *)
BeginCommit ==
    /\ Idle("refill") /\ Following(basis.job) \in Attempts /\ basis # NoBasis
    /\ Take("refill", "commit", {})
    /\ UNCHANGED <<fact, owed, envelopes, head, journal, file, basis, excluded,
                   crashes>>

(* _prepared_decision_basis_error: the snapshot is still fresh, terminal, and
   the one the item was given up on.                                          *)
BasisHolds ==
    /\ CanonicalTerminal(basis.job)
    /\ journal[basis.job][file[basis.job]["attempts"]]
         = journal[basis.job][basis.entry]

(* _commit_prepared_dispatch_under_evidence_lock.                             *)
Commit ==
    /\ lock.at = "commit" /\ Behind = {}
    /\ lock' = Free
    /\ LET next == Following(basis.job)
       IN  IF BasisHolds
           THEN /\ fact' = [fact EXCEPT ![next]["prepared"] = "prepared"]
                /\ owed' = [owed EXCEPT !["refill"] =
                              Closes(next, "prepared", "prepared")]
                /\ basis' = NoBasis
           ELSE UNCHANGED <<fact, owed, basis>>
    /\ UNCHANGED <<envelopes, head, journal, file, excluded, crashes>>

(* The first attempt of a generation has no prior one to settle.              *)
StartGeneration(j) ==
    /\ j \in Attempts /\ \A i \in Attempts : j <= i
    /\ fact[j]["prepared"] = "none" /\ lock = Free
    /\ Outcome("refill", j, "prepared", "prepared",
               Closes(j, "prepared", "prepared"))

-----------------------------------------------------------------------------
(* A process dies: what it had to state, its lock and its memory are gone.    *)
Crash(s) ==
    /\ s \in Mortal /\ crashes < MaxCrashes
    /\ owed[s] # << >> \/ lock.by = s
    /\ crashes' = crashes + 1
    /\ owed' = [owed EXCEPT ![s] = << >>]
    /\ lock' = IF lock.by = s THEN Free ELSE lock
    /\ UNCHANGED <<fact, envelopes, head, journal, file, basis, excluded>>

Step(j) == Submit(j) \/ Import(j) \/ Claim(j) \/ Archive(j) \/ Jam(j)
           \/ RelayResult(j) \/ Validate(j) \/ Revise(j) \/ Publish(j) \/ StartGeneration(j)

Emission(s) == WriteEnvelope(s) \/ ReplaceHead(s)

Next ==
    \/ \E j \in Jobs : Step(j) \/ Merge(j) \/ RetryMerged(j)
                       \/ \E s \in {"loop", "publisher"} : Restate(s, j)
    \/ \E s \in Services : Emission(s) \/ Crash(s)
    \/ CloseCompletion
    \/ BeginReduce \/ WriteFile \/ AppendTransition \/ EndReduce
    \/ \E j \in Attempts : BeginClassify(j) \/ Classify(j)
    \/ BeginCommit \/ Commit

(* The relay's and refill's loops come round again and again, whoever holds
   the lock releases it, and a lock that keeps coming free is got in the end
   (flock queues its waiters).  A cycle of the relay reaches the reduction
   unless a job has jammed, which disables BeginReduce for good.  Nothing is
   assumed of the other services.                                             *)
Fairness ==
    /\ \A s \in {"refill", "relay"} : SF_vars(WriteEnvelope(s))
    /\ WF_vars(\E s \in Services : ReplaceHead(s))
    /\ SF_vars(BeginReduce)
    /\ WF_vars(WriteFile \/ AppendTransition \/ EndReduce)
    /\ SF_vars(\E j \in Attempts : BeginClassify(j)) /\ SF_vars(BeginCommit)
    /\ WF_vars(\E j \in Attempts : Classify(j)) /\ WF_vars(Commit)

Spec == Init /\ [][Next]_vars /\ Fairness

-----------------------------------------------------------------------------
(* Every head has its envelope on disk, whoever died between the two; a
   stream never skips a state of the host; a refused statement leaves an
   envelope no head names.                                                    *)
HeadsAreEnveloped ==
    \A j \in Jobs, k \in Kinds :
        head[j][k] # NoHead => Statement(j, k, head[j][k]) \in envelopes

(* What the files say is in the journal, and only the lock's holder can have
   left them apart: an earlier file is never older than a later one, so the
   watermark is the last to know.                                             *)
FilesFollowJournal ==
    \A j \in Attempts :
        /\ file[j]["reduced_through"] <= file[j]["generations"]
        /\ file[j]["generations"] <= file[j]["work_items"]
        /\ file[j]["work_items"] <= file[j]["attempts"]
        /\ file[j]["attempts"] <= Len(journal[j])

(* Refill goes past an attempt only when its work has really been drafted or
   merged: no evidence lost, refused or stale makes it dispatch the next item
   on top of an unfinished one.                                               *)
GivenUpWorkIsPublished ==
    \A j \in excluded : fact[j]["publication"] \in {"drafted", "merged", "closed"}

LifecycleInv == TypeOK /\ HeadsAreEnveloped /\ FilesFollowJournal

(* The abstract log: streams, transitions and decisions are what they promise,
   through every crash between an envelope and its head, a transition and its
   files, a classification and its commit.                                    *)
GoneOn == {j \in Attempts : Following(j) \in Attempts
                              /\ fact[Following(j)]["prepared"] = "prepared"}

Log == INSTANCE EvidenceLog
         WITH heads <- head, proven <- Proven, log <- journal,
              decided <- excluded, followed <- GoneOn

ImplementsEvidenceLog == Log!Spec

(* An attempt whose evidence is all in and says it is settled is given up in
   the end and the next one prepared, through whatever deaths of the recorder,
   of refill and of the producers, unless a job, of whatever attempt, jams the
   relay: its cycle then raises before it reduces, for every attempt.         *)
SettledIsFollowed ==
    \A j \in Attempts :
        (Terminal(head[j], FALSE, FALSE) /\ j \in CurrentAttempt)
          ~> \/ Jammed # {}
             \/ /\ j \in excluded
                /\ Following(j) \in Attempts
                     => fact[Following(j)]["prepared"] = "prepared"
=============================================================================
