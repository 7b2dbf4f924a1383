---------------------------- MODULE LifecycleProofs ----------------------------
(***************************************************************************)
(* For any attempts and corrections, whatever services die and however      *)
(* often: the evidence store is never torn, refill gives up only published *)
(* work, and the store implements the abstract log.                         *)
(*                                                                         *)
(* The argument: whatever is owed or stated of a publication is backed by   *)
(* the durable outcome of its job, which never goes back, so a transition   *)
(* is terminal only of a published job; and between an envelope and its head,*)
(* or a decision and its commit, the lock keeps what the holder relies on.  *)
(***************************************************************************)
EXTENDS LifecycleEvidence, TLAPS

\* The job has a draft at least: nothing takes that back.
Published(j) == fact[j]["publication"] \in {"drafted", "merged", "closed"}

\* A statement is well-formed, of an attempt, and speaks of a publication only
\* as far as the job has really come.
Sound(st) ==
    /\ st \in Statements /\ st.job \in Attempts
    /\ Stateable(st.kind, st.envelope)
    /\ st.kind = "revision" => st.envelope.outcome # "exhausted"
    /\ st.kind = "publication" =>
         \/ st.envelope.outcome = "not_applicable"
         \/ st.envelope.outcome \in {"drafted", "merged"} /\ Published(st.job)

OwedSound == \A s \in Services : \A n \in DOMAIN owed[s] : Sound(owed[s][n])

HeadsSound ==
    \A j \in Jobs, k \in Kinds :
        head[j][k] # NoHead => Sound(Statement(j, k, head[j][k]))

VerdictsSound ==
    \A j \in Jobs : \A n \in DOMAIN journal[j] :
        journal[j][n].verdict = "terminal" => Published(j)

HolderStates ==
    lock.at = "head" => /\ lock.by \in Services /\ owed[lock.by] # << >>
                        /\ owed[lock.by][1] \in envelopes

HolderCommits ==
    lock.at = "commit" => basis # NoBasis /\ Following(basis.job) \in Attempts

BasisGivenUp == basis # NoBasis => basis.job \in excluded

Inv == /\ TypeOK /\ OwedSound /\ HeadsSound /\ VerdictsSound
       /\ HolderStates /\ HolderCommits /\ BasisGivenUp
       /\ HeadsAreEnveloped /\ FilesFollowJournal /\ GivenUpWorkIsPublished

-----------------------------------------------------------------------------
\* Statements.

\* What a service of any kind may say is something that is said.
LEMMA OutcomesAreSaid ==
    ASSUME NEW k \in Kinds PROVE Outcomes[k] \subseteq Said
  BY DEF Said, AllOutcomes

\* An outcome in an envelope is evidence of its kind.
LEMMA StateableIsEvidence ==
    ASSUME NEW k \in Kinds, NEW q \in Nat \ {0}, NEW o \in Outcomes[k], NEW c \in Nat
    PROVE  /\ Envelope(q, o, Ends(o), c) \in Envelopes
           /\ Envelope(q, o, Ends(o), c).outcome = o
           /\ Stateable(k, Envelope(q, o, Ends(o), c))
<1>1. o \in Said /\ Ends(o) \in BOOLEAN
  BY OutcomesAreSaid DEF Ends
<1>2. QED
  BY <1>1 DEF Envelope, Envelopes, Stateable

\* A closing statement is the first of its stream.
LEMMA ClosingIsEvidence ==
    ASSUME NEW o, NEW c, Ends(o)
    PROVE  Closing(o, c) = Envelope(1, o, Ends(o), c)
<1>1. Ends(o) = TRUE
  BY Zenon DEF Ends
<1>2. QED
  BY <1>1, Zenon DEF Closing

\* A statement that is not about a publication is sound in every state.
LEMMA SoundStatement ==
    ASSUME NEW j \in Attempts, NEW k \in Kinds, NEW e \in Envelopes,
           Stateable(k, e), k = "revision" => e.outcome # "exhausted",
           k = "publication" =>
             \/ e.outcome = "not_applicable"
             \/ e.outcome \in {"drafted", "merged"} /\ Published(j)
    PROVE  Sound(Statement(j, k, e))
<1>1. Statement(j, k, e) \in Statements
  BY DEF Statement, Statements, Jobs
<1>2. /\ Statement(j, k, e).job = j /\ Statement(j, k, e).kind = k
      /\ Statement(j, k, e).envelope = e
  BY DEF Statement
<1>3. QED
  BY <1>1, <1>2 DEF Sound

\* A sound statement is one of an attempt.
LEMMA SoundParts ==
    ASSUME NEW st, Sound(st)
    PROVE  /\ st.job \in Attempts /\ st.job \in Jobs /\ st.kind \in Kinds
           /\ st.envelope \in Envelopes
           /\ st = Statement(st.job, st.kind, st.envelope)
  BY DEF Sound, Statements, Statement, Jobs

\* A stream without a head says nothing.
LEMMA NoHeadSaysNothing == NoHead.outcome = "none" /\ NoHead \in Envelopes
<1>1. "none" \in Said
  BY DEF Said
<1>2. QED
  BY <1>1 DEF NoHead, Envelope, Envelopes

\* What was sound stays so while publications only go forward.
LEMMA SoundStays ==
    ASSUME NEW st, Sound(st), \A j \in Jobs : Published(j) => Published(j)'
    PROVE  Sound(st)'
<1>1. st.job \in Jobs
  BY SoundParts
<1>2. Published(st.job) => Published(st.job)'
  BY <1>1
<1>3. QED
  BY <1>2, Zenon DEF Sound

-----------------------------------------------------------------------------
\* Steps of the services: outcomes and what is owed.

\* A service that is not at the lock gets a new outcome or new statements.
LEMMA ServiceStep ==
    ASSUME Inv, UNCHANGED store, NEW s \in Services, lock.by # s,
           NEW sts \in Seq(Statements), owed' = [owed EXCEPT ![s] = sts],
           fact' \in [Jobs -> [Kinds -> Said \union {"closed", "jammed"}]],
           \A j \in Jobs : Published(j) => Published(j)',
           \A n \in DOMAIN sts : Sound(sts[n])'
    PROVE  Inv'
<1>. USE DEF store
<1>1. TypeOK
  BY DEF Inv
<1>2. owed' \in [Services -> Seq(Statements)]
  BY <1>1 DEF TypeOK
<1>3. TypeOK'
  BY <1>1, <1>2 DEF TypeOK
<1>4. OwedSound'
  <2>1. SUFFICES ASSUME NEW t \in Services, NEW n \in DOMAIN (owed[t])'
                 PROVE  Sound(owed[t][n])'
    BY DEF OwedSound
  <2>2. CASE t = s
    BY <1>1, <2>2 DEF TypeOK
  <2>3. CASE t # s
    <3>1. owed'[t] = owed[t]
      BY <1>1, <2>3 DEF TypeOK
    <3>2. Sound(owed[t][n])
      BY <3>1 DEF Inv, OwedSound
    <3>3. QED
      BY <3>1, <3>2, SoundStays
  <2>4. QED
    BY <2>2, <2>3
<1>5. HeadsSound'
  <2>1. SUFFICES ASSUME NEW j \in Jobs, NEW k \in Kinds, head[j][k] # NoHead
                 PROVE  Sound(Statement(j, k, head[j][k]))'
    BY DEF HeadsSound
  <2>2. Sound(Statement(j, k, head[j][k]))
    BY <2>1 DEF Inv, HeadsSound
  <2>3. QED
    BY <2>2, SoundStays
<1>6. VerdictsSound' /\ GivenUpWorkIsPublished'
  <2>1. \A j \in excluded : Published(j)
    BY DEF Inv, GivenUpWorkIsPublished, Published
  <2>2. \A j \in excluded : Published(j)'
    BY <2>1, <1>1 DEF TypeOK, Jobs
  <2>3. GivenUpWorkIsPublished'
    BY <2>2 DEF GivenUpWorkIsPublished, Published
  <2>4. VerdictsSound'
    BY DEF Inv, VerdictsSound
  <2>5. QED
    BY <2>3, <2>4
<1>7. HolderStates'
  BY <1>1 DEF Inv, HolderStates, TypeOK
<1>8. HolderCommits' /\ BasisGivenUp'
  BY DEF Inv, HolderCommits, BasisGivenUp
<1>9. HeadsAreEnveloped' /\ FilesFollowJournal'
  BY DEF Inv, HeadsAreEnveloped, FilesFollowJournal
<1>10. QED
  BY <1>3, <1>4, <1>5, <1>6, <1>7, <1>8, <1>9 DEF Inv

\* An outcome and the statements about it.
LEMMA OutcomeKeeps ==
    ASSUME Inv, NEW s \in Services, NEW j \in Jobs, NEW k \in Kinds,
           NEW o \in Outcomes[k], NEW sts \in Seq(Statements),
           Outcome(s, j, k, o, sts),
           k = "publication" => o \in {"drafted", "merged"},
           j \in Attempts => \A n \in DOMAIN sts : Sound(sts[n])'
    PROVE  Inv'
<1>1. /\ owed[s] = << >> /\ lock.by # s
      /\ fact' = [fact EXCEPT ![j][k] = o]
      /\ owed' = [owed EXCEPT ![s] = IF Identified(j) THEN sts ELSE << >>]
      /\ UNCHANGED store
  BY DEF Outcome, Idle
<1>2. fact \in [Jobs -> [Kinds -> Said \union {"closed", "jammed"}]]
  BY DEF Inv, TypeOK
<1>3. o \in Said
  BY OutcomesAreSaid
<1>4. fact' \in [Jobs -> [Kinds -> Said \union {"closed", "jammed"}]]
  BY <1>1, <1>2, <1>3
<1>5. \A i \in Jobs : Published(i) => Published(i)'
  <2>1. SUFFICES ASSUME NEW i \in Jobs, Published(i) PROVE Published(i)'
    OBVIOUS
  <2>2. CASE i = j /\ k = "publication"
    BY <1>1, <1>2, <2>2 DEF Published, Kinds
  <2>3. CASE ~(i = j /\ k = "publication")
    BY <1>1, <1>2, <2>1, <2>3 DEF Published, Kinds
  <2>4. QED
    BY <2>2, <2>3
<1>6. CASE j \in Attempts
  <2>1. owed' = [owed EXCEPT ![s] = sts]
    BY <1>1, <1>6 DEF Identified
  <2>2. QED
    BY <1>1, <1>4, <1>5, <1>6, <2>1, ServiceStep
<1>7. CASE j \notin Attempts
  <2>1. owed' = [owed EXCEPT ![s] = << >>] /\ << >> \in Seq(Statements)
    BY <1>1, <1>7 DEF Identified
  <2>2. \A n \in DOMAIN << >> : Sound(<< >>[n])'
    OBVIOUS
  <2>3. QED
    BY <1>1, <1>4, <1>5, <2>1, <2>2, ServiceStep
<1>8. QED
  BY <1>6, <1>7

\* One statement that closes its stream.
LEMMA ClosesKeep ==
    ASSUME Inv, NEW s \in Services, NEW j \in Jobs, NEW k \in Kinds,
           NEW o \in Outcomes[k], NEW c \in Nat, Ends(o),
           Outcome(s, j, k, o, <<Statement(j, k, Closing(o, c))>>),
           k = "publication" => o \in {"drafted", "merged"},
           k = "revision" => o # "exhausted"
    PROVE  Inv'
<1>1. /\ Closing(o, c) \in Envelopes /\ Closing(o, c).outcome = o
      /\ Stateable(k, Closing(o, c))
  BY ClosingIsEvidence, StateableIsEvidence
<1>2. <<Statement(j, k, Closing(o, c))>> \in Seq(Statements)
  BY <1>1 DEF Statement, Statements
<1>3. k = "publication" => Published(j)'
  BY DEF Outcome, Published, Inv, TypeOK, Kinds
<1>4. ASSUME j \in Attempts PROVE Sound(Statement(j, k, Closing(o, c)))'
  <2>1. Statement(j, k, Closing(o, c)) \in Statements
    BY <1>1 DEF Statement, Statements
  <2>2. /\ Statement(j, k, Closing(o, c)).job = j
        /\ Statement(j, k, Closing(o, c)).kind = k
        /\ Statement(j, k, Closing(o, c)).envelope = Closing(o, c)
    BY DEF Statement
  <2>3. QED
    BY <1>1, <1>3, <1>4, <2>1, <2>2 DEF Sound
<1>5. j \in Attempts =>
        \A n \in DOMAIN <<Statement(j, k, Closing(o, c))>> :
            Sound(<<Statement(j, k, Closing(o, c))>>[n])'
  BY <1>4
<1>6. QED
  BY <1>2, <1>5, OutcomeKeeps

\* Every stage of an attempt keeps the invariant.
LEMMA StepKeeps == ASSUME Inv, NEW j \in Jobs, Step(j) PROVE Inv'
<1>. USE DEF Closes
<1>1. \A o \in {"prepared", "submitted", "completed", "failed", "relayed", "passed",
                 "not_applicable", "drafted", "merged", "queued"} : Ends(o)
  BY DEF Ends
<1>2. \A o \in {"prepared", "submitted", "relayed", "not_applicable", "passed",
                 "failed", "drafted", "queued"} :
          \A k \in Kinds : o \in Outcomes[k] /\ k # "publication" =>
             \A s \in Services : Outcome(s, j, k, o, Closes(j, k, o)) /\ k # "revision"
               => Inv'
  BY <1>1, ClosesKeep
<1>3. CASE Submit(j)
  <2>1. "submitted" \in Outcomes["submitted"] /\ "refill" \in Services
    BY DEF Outcomes, Services
  <2>2. QED
    BY <1>2, <1>3, <2>1 DEF Submit, Kinds
<1>4. CASE StartGeneration(j)
  <2>1. "prepared" \in Outcomes["prepared"] /\ "refill" \in Services
    BY DEF Outcomes, Services
  <2>2. QED
    BY <1>2, <1>4, <2>1 DEF StartGeneration, Kinds
<1>5. CASE RelayResult(j)
  <2>1. {"relayed", "not_applicable"} \subseteq Outcomes["relay"] /\ "relay" \in Services
    BY DEF Outcomes, Services
  <2>2. QED
    BY <1>2, <1>5, <2>1 DEF RelayResult, Kinds
<1>6. CASE Validate(j)
  <2>1. {"passed", "failed"} \subseteq Outcomes["gate"] /\ "gate" \in Services
    BY DEF Outcomes, Services
  <2>2. QED
    BY <1>2, <1>6, <2>1 DEF Validate, Kinds
<1>7. CASE Publish(j)
  <2>1. "drafted" \in Outcomes["publication"] /\ "publisher" \in Services
    BY DEF Outcomes, Services
  <2>2. QED
    BY <1>1, <1>7, <2>1, ClosesKeep DEF Publish, Kinds
<1>8. ASSUME NEW n \in Nat \ {0}, NEW o \in Outcomes["host"]
      PROVE  LET st == HostStates(j, n, o)
             IN  st \in Statements /\ (j \in Attempts => Sound(st)')
  <2>1. "host" \in Kinds
    BY DEF Kinds
  <2>2. /\ Envelope(n, o, Ends(o), 0) \in Envelopes
        /\ Stateable("host", Envelope(n, o, Ends(o), 0))
    BY <2>1, StateableIsEvidence
  <2>3. HostStates(j, n, o) \in Statements
    BY <2>1, <2>2 DEF HostStates, Statement, Statements
  <2>4. /\ HostStates(j, n, o).job = j /\ HostStates(j, n, o).kind = "host"
        /\ HostStates(j, n, o).envelope = Envelope(n, o, Ends(o), 0)
    BY DEF HostStates, Statement
  <2>5. QED
    BY <2>2, <2>3, <2>4 DEF Sound
<1>9. {"imported", "pending", "running", "completed", "failed"} = Outcomes["host"]
      /\ "host" \in Services /\ "host" \in Kinds
  BY DEF Outcomes, Services, Kinds
<1>10. CASE Import(j)
  <2>. DEFINE sts == <<HostStates(j, 1, "imported"), HostStates(j, 2, "pending")>>
  <2>1. sts \in Seq(Statements)
    BY <1>8, <1>9
  <2>2. j \in Attempts => \A n \in DOMAIN sts : Sound(sts[n])'
    BY <1>8, <1>9
  <2>3. QED
    BY <1>9, <1>10, <2>1, <2>2, OutcomeKeeps DEF Import
<1>11. ASSUME NEW n \in Nat \ {0}, NEW o \in Outcomes["host"],
              Outcome("host", j, "host", o, <<HostStates(j, n, o)>>)
       PROVE  Inv'
  <2>. DEFINE sts == <<HostStates(j, n, o)>>
  <2>1. sts \in Seq(Statements)
    BY <1>8
  <2>2. j \in Attempts => \A m \in DOMAIN sts : Sound(sts[m])'
    BY <1>8
  <2>3. QED
    BY <1>9, <1>11, <2>1, <2>2, OutcomeKeeps
<1>12. CASE Claim(j)
  BY <1>9, <1>11, <1>12 DEF Claim
<1>13. CASE Archive(j)
  BY <1>9, <1>11, <1>13 DEF Archive
<1>14. CASE Revise(j)
  <2>. DEFINE sts == IF Identified(j) THEN Closes(j, "revision", "queued") ELSE << >>
  <2>1. /\ Correction[j] \in Jobs /\ "revision" \in Kinds /\ "submitted" \in Kinds
        /\ "publication" \in Kinds /\ "loop" \in Services
    BY LifecycleAssumption DEF Kinds, Services
  <2>2. "queued" \in Said /\ "submitted" \in Said
    <3>1. "queued" \in Outcomes["revision"] /\ "submitted" \in Outcomes["submitted"]
      BY DEF Outcomes
    <3>2. QED
      BY <2>1, <3>1, OutcomesAreSaid
  <2>3. fact \in [Jobs -> [Kinds -> Said \union {"closed", "jammed"}]]
    BY DEF Inv, TypeOK
  <2>4. fact' = [fact EXCEPT ![j]["revision"] = "queued",
                             ![Correction[j]]["submitted"] = "submitted"]
    BY <1>14 DEF Revise
  <2>5. fact' \in [Jobs -> [Kinds -> Said \union {"closed", "jammed"}]]
    BY <2>1, <2>2, <2>3, <2>4
  <2>6. \A i \in Jobs : fact'[i]["publication"] = fact[i]["publication"]
    BY <2>1, <2>3, <2>4
  <2>7. \A i \in Jobs : Published(i) => Published(i)'
    BY <2>6 DEF Published
  <2>8. "queued" \in Outcomes["revision"] /\ Ends("queued")
    BY DEF Outcomes, Ends
  <2>9. /\ Closing("queued", 0) \in Envelopes
        /\ Closing("queued", 0).outcome = "queued"
        /\ Stateable("revision", Closing("queued", 0))
    BY <2>1, <2>8, ClosingIsEvidence, StateableIsEvidence
  <2>10. sts \in Seq(Statements)
    <3>1. Statement(j, "revision", Closing("queued", 0)) \in Statements
      BY <2>1, <2>9 DEF Statement, Statements
    <3>2. QED
      BY <3>1
  <2>11. ASSUME j \in Attempts PROVE Sound(Statement(j, "revision", Closing("queued", 0)))
    BY <2>1, <2>9, <2>11, SoundStatement
  <2>12. ASSUME j \in Attempts PROVE Sound(Statement(j, "revision", Closing("queued", 0)))'
    BY <2>7, <2>11, <2>12, SoundStays
  <2>13. \A n \in DOMAIN sts : Sound(sts[n])'
    BY <2>12 DEF Identified
  <2>14. QED
    <3>1. owed' = [owed EXCEPT !["loop"] = sts]
      BY <1>14, Zenon DEF Revise
    <3>2. lock.by # "loop" /\ UNCHANGED store
      BY <1>14, Zenon DEF Revise, Idle
    <3>. HIDE DEF sts
    <3>3. QED
      BY <2>1, <2>5, <2>7, <2>10, <2>13, <3>1, <3>2, ServiceStep
<1>15. CASE Jam(j)
  <2>1. /\ fact' = [fact EXCEPT ![j]["relay"] = "jammed"] /\ lock.by # "relay"
        /\ owed' = [owed EXCEPT !["relay"] = << >>] /\ UNCHANGED store
    BY <1>15 DEF Jam, Outcome, Idle
  <2>2. fact \in [Jobs -> [Kinds -> Said \union {"closed", "jammed"}]]
    BY DEF Inv, TypeOK
  <2>3. fact' \in [Jobs -> [Kinds -> Said \union {"closed", "jammed"}]]
    BY <2>1, <2>2
  <2>4. \A i \in Jobs : Published(i) => Published(i)'
    BY <2>1, <2>2 DEF Published, Kinds
  <2>5. /\ "relay" \in Services /\ << >> \in Seq(Statements)
        /\ \A n \in DOMAIN << >> : Sound(<< >>[n])'
    BY DEF Services
  <2>6. QED
    BY <2>1, <2>3, <2>4, <2>5, ServiceStep
<1>16. QED
  BY <1>3, <1>4, <1>5, <1>6, <1>7, <1>10, <1>12, <1>13, <1>14, <1>15 DEF Step

\* A service states again what it has long done.
LEMMA RestateKeeps ==
    ASSUME Inv, NEW s \in Services, NEW j \in Attempts, NEW k \in Kinds,
           NEW o \in Outcomes[k], NEW c \in Nat, Ends(o),
           k = "publication" => \/ o = "not_applicable"
                                \/ o \in {"drafted", "merged"} /\ Published(j),
           k = "revision" => o # "exhausted",
           lock.by # s, UNCHANGED <<fact, store>>,
           owed' = [owed EXCEPT ![s] = <<Statement(j, k, Closing(o, c))>>]
    PROVE  Inv'
<1>1. /\ Closing(o, c) \in Envelopes /\ Closing(o, c).outcome = o
      /\ Stateable(k, Closing(o, c))
  BY ClosingIsEvidence, StateableIsEvidence
<1>2. \A i \in Jobs : Published(i) => Published(i)'
  BY DEF Published
<1>3. Sound(Statement(j, k, Closing(o, c)))
  BY <1>1, SoundStatement
<1>4. Sound(Statement(j, k, Closing(o, c)))'
  BY <1>2, <1>3, SoundStays
<1>5. <<Statement(j, k, Closing(o, c))>> \in Seq(Statements)
  BY <1>1 DEF Statement, Statements, Jobs
<1>6. fact' \in [Jobs -> [Kinds -> Said \union {"closed", "jammed"}]]
  BY DEF Inv, TypeOK
<1>7. \A n \in DOMAIN <<Statement(j, k, Closing(o, c))>> :
          Sound(<<Statement(j, k, Closing(o, c))>>[n])'
  BY <1>4
<1>8. QED
  BY <1>2, <1>5, <1>6, <1>7, ServiceStep

\* What completion and the services that restate do.
LEMMA RepeatKeeps ==
    ASSUME Inv, NEW j \in Jobs,
           Merge(j) \/ RetryMerged(j) \/ \E s \in {"loop", "publisher"} : Restate(s, j)
    PROVE  Inv'
<1>1. /\ Ends("merged") /\ "merged" \in Outcomes["publication"]
      /\ Ends("drafted") /\ "drafted" \in Outcomes["publication"]
      /\ Ends("not_applicable") /\ "not_applicable" \in Outcomes["publication"]
      /\ "not_applicable" \in Outcomes["revision"]
  BY DEF Ends, Outcomes
<1>2. "publication" \in Kinds /\ "revision" \in Kinds /\ "completion" \in Services
      /\ "loop" \in Services /\ "publisher" \in Services
  BY DEF Kinds, Services
<1>3. CASE Merge(j)
  BY <1>1, <1>2, <1>3, ClosesKeep DEF Merge, MergeStatement
<1>4. CASE RetryMerged(j)
  <2>1. PICK c \in 1 .. MaxRetries :
          owed' = [owed EXCEPT !["completion"] = MergeStatement(j, c)]
    BY <1>4 DEF RetryMerged
  <2>2. c \in Nat /\ j \in Attempts /\ Published(j) /\ lock.by # "completion"
        /\ UNCHANGED <<fact, store>>
    BY <1>4, LifecycleAssumption DEF RetryMerged, Identified, Published, Idle
  <2>3. QED
    BY <1>1, <1>2, <2>1, <2>2, RestateKeeps DEF MergeStatement
<1>5. ASSUME NEW s \in {"loop", "publisher"}, Restate(s, j) PROVE Inv'
  <2>1. j \in Attempts /\ lock.by # s /\ UNCHANGED <<fact, store>>
        /\ Restated(s, j) # << >> /\ owed' = [owed EXCEPT ![s] = Restated(s, j)]
    BY <1>5 DEF Restate, Identified, Idle
  <2>2. CASE s = "loop" /\ fact[j]["gate"] = "passed"
    <3>1. Restated(s, j) = <<Statement(j, "revision", Closing("not_applicable", 0))>>
      BY <2>2 DEF Restated, Closes
    <3>2. owed' = [owed EXCEPT !["loop"] =
                     <<Statement(j, "revision", Closing("not_applicable", 0))>>]
      BY <2>1, <2>2, <3>1
    <3>3. lock.by # "loop" /\ UNCHANGED <<fact, store>> /\ j \in Attempts
      BY <2>1, <2>2
    <3>4. QED
      BY <1>1, <1>2, <3>2, <3>3, RestateKeeps
  <2>3. CASE s = "publisher" /\ fact[j]["publication"] \in {"drafted", "merged"}
    <3>1. Restated(s, j) = <<Statement(j, "publication", Closing("drafted", 0))>>
      BY <2>3 DEF Restated, Closes
    <3>2. Published(j)
      BY <2>3 DEF Published
    <3>3. owed' = [owed EXCEPT !["publisher"] =
                     <<Statement(j, "publication", Closing("drafted", 0))>>]
      BY <2>1, <2>3, <3>1
    <3>4. lock.by # "publisher" /\ UNCHANGED <<fact, store>> /\ j \in Attempts
      BY <2>1, <2>3
    <3>5. QED
      BY <1>1, <1>2, <3>2, <3>3, <3>4, RestateKeeps
  <2>4. CASE s = "publisher" /\ fact[j]["publication"] \notin {"drafted", "merged"}
                             /\ fact[j]["gate"] = "failed"
    <3>1. Restated(s, j) = <<Statement(j, "publication", Closing("not_applicable", 0))>>
      BY <2>4 DEF Restated, Closes
    <3>2. owed' = [owed EXCEPT !["publisher"] =
                     <<Statement(j, "publication", Closing("not_applicable", 0))>>]
      BY <2>1, <2>4, <3>1
    <3>3. lock.by # "publisher" /\ UNCHANGED <<fact, store>> /\ j \in Attempts
      BY <2>1, <2>4
    <3>4. QED
      BY <1>1, <1>2, <3>2, <3>3, RestateKeeps
  <2>5. QED
    BY <2>1, <2>2, <2>3, <2>4 DEF Restated
<1>6. QED
  BY <1>3, <1>4, <1>5

\* The completion controller closes the job it has stated.
LEMMA CloseKeeps == ASSUME Inv, CloseCompletion PROVE Inv'
<1>. DEFINE done == owed["completion"][1].job
<1>1. /\ "completion" \in Services /\ "publication" \in Kinds
      /\ lock.by # "completion" /\ owed["completion"] # << >> /\ UNCHANGED store
      /\ fact' = [fact EXCEPT ![done]["publication"] = "closed"]
      /\ owed' = [owed EXCEPT !["completion"] = << >>]
  BY DEF CloseCompletion, Stated, Services, Kinds
<1>2. owed["completion"] \in Seq(Statements)
      /\ fact \in [Jobs -> [Kinds -> Said \union {"closed", "jammed"}]]
  BY <1>1 DEF Inv, TypeOK
<1>3. 1 \in DOMAIN owed["completion"]
  BY <1>1, <1>2
<1>4. Sound(owed["completion"][1])
  BY <1>1, <1>3 DEF Inv, OwedSound
<1>5. done \in Jobs
  BY <1>4, SoundParts
<1>. HIDE DEF done
<1>6. fact' \in [Jobs -> [Kinds -> Said \union {"closed", "jammed"}]]
  BY <1>1, <1>2, <1>5
<1>7. \A i \in Jobs : Published(i) => Published(i)'
  BY <1>1, <1>2, <1>5 DEF Published
<1>8. << >> \in Seq(Statements) /\ \A n \in DOMAIN << >> : Sound(<< >>[n])'
  OBVIOUS
<1>9. QED
  BY <1>1, <1>6, <1>7, <1>8, ServiceStep

-----------------------------------------------------------------------------
\* Steps under the lock.

\* Writing the envelope keeps the invariant.
LEMMA WriteEnvelopeKeeps ==
    ASSUME Inv, NEW s \in Services, WriteEnvelope(s) PROVE Inv'
<1>1. /\ lock' = [by |-> s, at |-> "head", todo |-> {}] /\ owed[s] # << >>
      /\ envelopes' = envelopes \union {owed[s][1]}
      /\ UNCHANGED <<fact, owed, head, journal, file, basis, excluded, crashes>>
  BY DEF WriteEnvelope, Take
<1>2. owed[s] \in Seq(Statements)
  BY DEF Inv, TypeOK
<1>3. owed[s][1] \in Statements
  BY <1>1, <1>2
<1>4. TypeOK'
  BY <1>1, <1>3 DEF Inv, TypeOK
<1>5. OwedSound' /\ HeadsSound' /\ VerdictsSound' /\ GivenUpWorkIsPublished'
  BY <1>1 DEF Inv, OwedSound, HeadsSound, VerdictsSound, GivenUpWorkIsPublished,
              Sound, Published
<1>6. HolderStates' /\ HolderCommits' /\ BasisGivenUp'
  BY <1>1 DEF Inv, HolderStates, HolderCommits, BasisGivenUp
<1>7. HeadsAreEnveloped' /\ FilesFollowJournal'
  BY <1>1 DEF Inv, HeadsAreEnveloped, FilesFollowJournal
<1>8. QED
  BY <1>4, <1>5, <1>6, <1>7 DEF Inv

\* So does replacing the head by it, or refusing.
LEMMA ReplaceHeadKeeps ==
    ASSUME Inv, NEW s \in Services, ReplaceHead(s) PROVE Inv'
<1>. DEFINE st == owed[s][1]
<1>1. /\ lock.by = s /\ lock.at = "head" /\ lock' = Free
      /\ \/ head' = [head EXCEPT ![st.job][st.kind] = st.envelope]
         \/ head' = head
      /\ owed' = owed \/ owed' = [owed EXCEPT ![s] = Tail(@)]
      /\ UNCHANGED <<fact, envelopes, journal, file, basis, excluded, crashes>>
  BY DEF ReplaceHead
<1>2. owed[s] # << >> /\ st \in envelopes
  BY <1>1 DEF Inv, HolderStates
<1>3. owed[s] \in Seq(Statements) /\ owed \in [Services -> Seq(Statements)]
      /\ head \in [Jobs -> [Kinds -> Envelopes]]
  BY DEF Inv, TypeOK
<1>4. 1 \in DOMAIN owed[s]
  BY <1>2, <1>3
<1>5. Sound(st)
  BY <1>4 DEF Inv, OwedSound
<1>6. /\ st.job \in Jobs /\ st.kind \in Kinds /\ st.envelope \in Envelopes
      /\ st = Statement(st.job, st.kind, st.envelope)
      /\ Stateable(st.kind, st.envelope)
  BY <1>5, SoundParts DEF Sound
<1>7. owed' \in [Services -> Seq(Statements)]
  BY <1>1, <1>2, <1>3
<1>8. \A t \in Services : \A n \in DOMAIN owed'[t] : Sound(owed'[t][n])
  <2>1. SUFFICES ASSUME NEW t \in Services, NEW n \in DOMAIN owed'[t],
                        owed' = [owed EXCEPT ![s] = Tail(@)], t = s
                 PROVE  Sound(owed'[t][n])
    BY <1>1, <1>3 DEF Inv, OwedSound
  <2>2. owed'[t] = Tail(owed[s])
    BY <1>3, <2>1
  <2>3. n + 1 \in DOMAIN owed[s] /\ owed'[t][n] = owed[s][n + 1]
    BY <1>2, <1>3, <2>2
  <2>4. QED
    BY <2>3 DEF Inv, OwedSound
<1>. HIDE DEF st
<1>9. head' \in [Jobs -> [Kinds -> Envelopes]]
  <2>1. CASE head' = head
    BY <1>3, <2>1
  <2>2. CASE head' = [head EXCEPT ![st.job][st.kind] = st.envelope]
    <3>1. [head[st.job] EXCEPT ![st.kind] = st.envelope] \in [Kinds -> Envelopes]
      BY <1>3, <1>6
    <3>2. QED
      BY <1>3, <1>6, <2>2, <3>1
  <2>3. QED
    BY <1>1, <2>1, <2>2
<1>10. \A j \in Jobs, k \in Kinds :
          head'[j][k] = head[j][k] \/ Statement(j, k, head'[j][k]) = st
  <2>1. SUFFICES ASSUME NEW j \in Jobs, NEW k \in Kinds,
                        head' = [head EXCEPT ![st.job][st.kind] = st.envelope],
                        j = st.job /\ k = st.kind
                 PROVE  Statement(j, k, head'[j][k]) = st
    BY <1>1, <1>3
  <2>2. head'[j][k] = st.envelope
    BY <1>3, <2>1
  <2>3. QED
    BY <1>6, <2>1, <2>2
<1>11. \A j \in Jobs, k \in Kinds :
          head'[j][k] # NoHead => Sound(Statement(j, k, head'[j][k]))
  BY <1>5, <1>10 DEF Inv, HeadsSound
<1>12. \A j \in Jobs, k \in Kinds :
          head'[j][k] = NoHead \/ Stateable(k, head'[j][k])
  <2>1. SUFFICES ASSUME NEW j \in Jobs, NEW k \in Kinds, head'[j][k] # NoHead
                 PROVE  Stateable(k, head'[j][k])
    OBVIOUS
  <2>2. Sound(Statement(j, k, head'[j][k]))
    BY <1>11, <2>1
  <2>3. QED
    BY <2>2 DEF Sound, Statement
<1>13. TypeOK'
  BY <1>1, <1>7, <1>9, <1>12 DEF Inv, TypeOK, Free
<1>14. OwedSound' /\ HeadsSound' /\ VerdictsSound' /\ GivenUpWorkIsPublished'
  BY <1>1, <1>8, <1>11 DEF Inv, OwedSound, HeadsSound, VerdictsSound,
              GivenUpWorkIsPublished, Sound, Published
<1>15. HolderStates' /\ HolderCommits' /\ BasisGivenUp'
  BY <1>1 DEF Inv, HolderStates, HolderCommits, BasisGivenUp, Free
<1>16. HeadsAreEnveloped'
  BY <1>1, <1>2, <1>10 DEF Inv, HeadsAreEnveloped
<1>17. FilesFollowJournal'
  BY <1>1 DEF Inv, FilesFollowJournal
<1>18. QED
  BY <1>13, <1>14, <1>15, <1>16, <1>17 DEF Inv

\* A correction states nothing, so no attempt is settled through its own.
LEMMA CorrectionStatesNothing ==
    ASSUME Inv, NEW j \in Jobs PROVE ~CorrectionDrafted(j)
<1>1. SUFFICES ASSUME CorrectionDrafted(j) PROVE FALSE
  OBVIOUS
<1>2. Correction[j] \in Corrections /\ Correction[j] \in Jobs
      /\ "publication" \in Kinds
  BY <1>1, LifecycleAssumption DEF CorrectionDrafted, Kinds
<1>3. head[Correction[j]]["publication"] # NoHead
  BY <1>1, NoHeadSaysNothing DEF CorrectionDrafted
<1>4. Sound(Statement(Correction[j], "publication", head[Correction[j]]["publication"]))
  BY <1>2, <1>3 DEF Inv, HeadsSound
<1>5. Correction[j] \in Attempts
  BY <1>4 DEF Sound, Statement
<1>6. QED
  BY <1>2, <1>5, LifecycleAssumption

\* What a head says of a publication has happened.
LEMMA HeadIsSound ==
    ASSUME Inv, NEW j \in Jobs, NEW k \in Kinds, head[j][k].outcome # "none"
    PROVE  /\ k = "revision" => head[j][k].outcome # "exhausted"
           /\ k = "publication" => \/ head[j][k].outcome = "not_applicable"
                                  \/ Published(j)
<1>1. Sound(Statement(j, k, head[j][k]))
  BY NoHeadSaysNothing DEF Inv, HeadsSound
<1>2. QED
  BY <1>1 DEF Sound, Statement

\* An attempt the heads call terminal is published.
LEMMA TerminalIsPublished ==
    ASSUME Inv, NEW j \in Jobs, Verdict(j) = "terminal" PROVE Published(j)
<1>1. ~CorrectionDrafted(j) /\ "revision" \in Kinds /\ "publication" \in Kinds
  BY CorrectionStatesNothing DEF Kinds
<1>2. Terminal(head[j], j \in Proven, CorrectionDrafted(j))
  BY DEF Verdict, Disposition
<1>3. \/ j \in Proven
      \/ head[j]["revision"].outcome = "exhausted"
      \/ head[j]["publication"].outcome \in SettledPublication
  BY <1>1, <1>2 DEF Terminal
<1>4. head[j]["revision"].outcome # "exhausted"
  BY <1>1, HeadIsSound
<1>5. CASE j \in Proven
  BY <1>5 DEF Proven, Published
<1>6. CASE head[j]["publication"].outcome \in SettledPublication
  BY <1>1, <1>6, HeadIsSound DEF SettledPublication
<1>7. QED
  BY <1>3, <1>4, <1>5, <1>6

\* What is appended to a sequence is in it.
LEMMA AppendsToSeq ==
    ASSUME NEW S, NEW q \in Seq(S), NEW e \in S PROVE Append(q, e) \in Seq(S)
  OBVIOUS

\* Every verdict is one of three.
LEMMA VerdictIsDisposition == ASSUME NEW j PROVE Verdict(j) \in Dispositions
  BY DEF Verdict, Disposition, Dispositions

\* Appending a transition keeps the invariant.
LEMMA AppendKeeps == ASSUME Inv, AppendTransition PROVE Inv'
<1>1. PICK j \in lock.todo :
        /\ journal' = IF journal[j] # << >> /\ Latest(j) = Current(j) THEN journal
                      ELSE [journal EXCEPT ![j] = Append(@, Current(j))]
        /\ lock' = [lock EXCEPT !.todo = @ \ {j}]
  BY DEF AppendTransition
<1>2. UNCHANGED <<fact, owed, envelopes, head, file, basis, excluded, crashes>>
  BY DEF AppendTransition
<1>3. /\ journal \in [Jobs -> Seq(Transitions)]
      /\ head \in [Jobs -> [Kinds -> Envelopes]]
      /\ lock \in [by : Services \union {"none"}, todo : SUBSET Attempts,
                   at : {"free", "head", "reduce", "classify", "commit"}]
      /\ file \in [Jobs -> [FileSet -> Nat]]
  BY DEF Inv, TypeOK
<1>4. j \in Attempts /\ j \in Jobs
  BY <1>1, <1>3 DEF Jobs
<1>5. /\ Current(j) \in Transitions
      /\ Current(j).verdict = Verdict(j)
  BY <1>3, <1>4, VerdictIsDisposition DEF Current, Transitions
<1>6. journal' \in [Jobs -> Seq(Transitions)]
  <2>1. Append(journal[j], Current(j))
          \in Seq(Transitions)
    BY <1>3, <1>4, <1>5, AppendsToSeq
  <2>2. QED
    BY <1>1, <1>3, <1>4, <2>1
<1>7. /\ lock'.at = lock.at /\ lock'.by = lock.by
      /\ lock' \in [by : Services \union {"none"}, todo : SUBSET Attempts,
                    at : {"free", "head", "reduce", "classify", "commit"}]
  BY <1>1, <1>3
<1>8. TypeOK'
  BY <1>2, <1>6, <1>7 DEF Inv, TypeOK
<1>9. VerdictsSound'
  <2>1. SUFFICES ASSUME NEW i \in Jobs, NEW n \in DOMAIN journal'[i],
                        journal'[i][n].verdict = "terminal"
                 PROVE  Published(i)
    BY <1>2 DEF VerdictsSound, Published
  <2>2. CASE n \in DOMAIN journal[i] /\ journal'[i][n] = journal[i][n]
    BY <2>1, <2>2 DEF Inv, VerdictsSound
  <2>3. CASE ~(n \in DOMAIN journal[i] /\ journal'[i][n] = journal[i][n])
    <3>1. i = j /\ journal'[i][n] = Current(j)
      BY <1>1, <1>3, <1>4, <1>5, <2>3
    <3>2. Verdict(j) = "terminal"
      BY <1>5, <2>1, <3>1
    <3>3. QED
      BY <1>4, <3>1, <3>2, TerminalIsPublished
  <2>4. QED
    BY <2>2, <2>3
<1>10. FilesFollowJournal'
  <2>1. \A i \in Jobs : Len(journal'[i]) >= Len(journal[i]) /\ Len(journal[i]) \in Nat
                         /\ Len(journal'[i]) \in Nat
    BY <1>1, <1>3, <1>4, <1>5, <1>6
  <2>2. \A i \in Attempts : i \in Jobs /\ file[i]["attempts"] \in Nat
    <3>1. "attempts" \in FileSet
      BY DEF FileSet, Files
    <3>2. QED
      BY <1>3, <3>1 DEF Jobs
  <2>3. \A i \in Attempts : file[i]["attempts"] <= Len(journal'[i])
    BY <2>1, <2>2 DEF Inv, FilesFollowJournal
  <2>4. QED
    BY <1>2, <2>3 DEF Inv, FilesFollowJournal
<1>11. OwedSound' /\ HeadsSound' /\ GivenUpWorkIsPublished'
  BY <1>2 DEF Inv, OwedSound, HeadsSound, GivenUpWorkIsPublished, Sound, Published
<1>12. HolderStates' /\ HolderCommits' /\ BasisGivenUp' /\ HeadsAreEnveloped'
  BY <1>2, <1>7 DEF Inv, HolderStates, HolderCommits, BasisGivenUp, HeadsAreEnveloped
<1>13. QED
  BY <1>8, <1>9, <1>10, <1>11, <1>12 DEF Inv

\* So does writing one of the files.
LEMMA WriteFileKeeps == ASSUME Inv, WriteFile PROVE Inv'
<1>1. PICK j \in Attempts, n \in DOMAIN Files :
        /\ First(n, Stale(j))
        /\ file' = [file EXCEPT ![j][Files[n]] = Len(journal[j])]
  BY DEF WriteFile
<1>2. UNCHANGED <<fact, owed, envelopes, head, journal, lock, basis, excluded, crashes>>
  BY DEF WriteFile
<1>3. /\ file \in [Jobs -> [FileSet -> Nat]] /\ Len(journal[j]) \in Nat /\ j \in Jobs
      /\ \A i \in Attempts : i \in Jobs
  BY DEF Inv, TypeOK, Jobs
<1>4. /\ DOMAIN Files = 1 .. 4 /\ Files[1] = "attempts" /\ Files[2] = "work_items"
      /\ Files[3] = "generations" /\ Files[4] = "reduced_through"
  BY DEF Files
<1>5. \A m \in 1 .. 4 : Files[m] \in FileSet
  BY <1>4 DEF FileSet
<1>6. file' \in [Jobs -> [FileSet -> Nat]]
  <2>1. [file[j] EXCEPT ![Files[n]] = Len(journal[j])] \in [FileSet -> Nat]
    BY <1>3, <1>4, <1>5
  <2>2. QED
    BY <1>1, <1>3, <2>1
<1>7. TypeOK'
  BY <1>2, <1>6 DEF Inv, TypeOK
<1>8. \A m \in 1 .. 4 : m < n => file[j][Files[m]] = Len(journal[j])
  BY <1>1, <1>4 DEF First, Stale
<1>9. FilesFollowJournal'
  <2>1. SUFFICES ASSUME NEW i \in Attempts
                 PROVE  /\ file'[i][Files[4]] <= file'[i][Files[3]]
                        /\ file'[i][Files[3]] <= file'[i][Files[2]]
                        /\ file'[i][Files[2]] <= file'[i][Files[1]]
                        /\ file'[i][Files[1]] <= Len(journal[i])
    BY <1>2, <1>4 DEF FilesFollowJournal
  <2>2. /\ file[i][Files[4]] <= file[i][Files[3]]
        /\ file[i][Files[3]] <= file[i][Files[2]]
        /\ file[i][Files[2]] <= file[i][Files[1]]
        /\ file[i][Files[1]] <= Len(journal[i])
    BY <1>4 DEF Inv, FilesFollowJournal
  <2>3. CASE i # j
    BY <1>1, <1>3, <2>2, <2>3
  <2>4. CASE i = j
    <3>1. \A m \in 1 .. 4 : file'[j][Files[m]] =
                           IF m = n THEN Len(journal[j]) ELSE file[j][Files[m]]
      BY <1>1, <1>3, <1>4, <1>5
    <3>2. \A m \in 1 .. 4 : file[j][Files[m]] \in Nat
      BY <1>3, <1>5
    <3>3. n \in 1 .. 4
      BY <1>4
    <3>4. QED
      BY <1>3, <1>8, <2>2, <2>4, <3>1, <3>2, <3>3
  <2>5. QED
    BY <2>3, <2>4
<1>10. OwedSound' /\ HeadsSound' /\ VerdictsSound' /\ GivenUpWorkIsPublished'
  BY <1>2 DEF Inv, OwedSound, HeadsSound, VerdictsSound, GivenUpWorkIsPublished,
              Sound, Published
<1>11. HolderStates' /\ HolderCommits' /\ BasisGivenUp' /\ HeadsAreEnveloped'
  BY <1>2 DEF Inv, HolderStates, HolderCommits, BasisGivenUp, HeadsAreEnveloped
<1>12. QED
  BY <1>7, <1>9, <1>10, <1>11 DEF Inv

\* The lock changes hands or phase, and nothing else changes.
LEMMA HandOverKeeps ==
    ASSUME Inv, BeginReduce \/ EndReduce \/ BeginCommit
                \/ \E j \in Attempts : BeginClassify(j)
    PROVE  Inv'
<1>1. UNCHANGED <<fact, owed, envelopes, head, journal, file, basis, excluded, crashes>>
  BY DEF BeginReduce, EndReduce, BeginCommit, BeginClassify
<1>2. /\ lock' \in [by : Services \union {"none"}, todo : SUBSET Attempts,
                    at : {"free", "head", "reduce", "classify", "commit"}]
      /\ lock'.at # "head"
      /\ lock'.at = "commit" => basis # NoBasis /\ Following(basis.job) \in Attempts
  BY DEF BeginReduce, EndReduce, BeginCommit, BeginClassify, Take, Free, Services
<1>3. TypeOK'
  BY <1>1, <1>2 DEF Inv, TypeOK
<1>4. OwedSound' /\ HeadsSound' /\ VerdictsSound' /\ GivenUpWorkIsPublished'
  BY <1>1 DEF Inv, OwedSound, HeadsSound, VerdictsSound, GivenUpWorkIsPublished,
              Sound, Published
<1>5. HolderStates' /\ HolderCommits' /\ BasisGivenUp' /\ HeadsAreEnveloped'
      /\ FilesFollowJournal'
  BY <1>1, <1>2 DEF Inv, HolderStates, HolderCommits, BasisGivenUp, HeadsAreEnveloped,
                    FilesFollowJournal, Following
<1>6. QED
  BY <1>3, <1>4, <1>5 DEF Inv

\* A canonical terminal classification is of a published job.
LEMMA CanonicalIsPublished ==
    ASSUME Inv, NEW j \in Attempts, CanonicalTerminal(j)
    PROVE  /\ Published(j) /\ file[j]["attempts"] \in DOMAIN journal[j]
           /\ file[j]["attempts"] \in Nat
<1>1. /\ j \in Jobs /\ "attempts" \in FileSet
  BY DEF Jobs, FileSet, Files
<1>2. /\ file[j]["attempts"] \in Nat /\ file[j]["attempts"] > 0
      /\ file[j]["attempts"] <= Len(journal[j])
      /\ journal[j] \in Seq(Transitions)
  BY <1>1 DEF Inv, TypeOK, FilesFollowJournal, CanonicalTerminal, Fresh
<1>3. file[j]["attempts"] \in DOMAIN journal[j]
  BY <1>2
<1>4. journal[j][file[j]["attempts"]].verdict = "terminal"
  BY DEF CanonicalTerminal
<1>5. Published(j)
  BY <1>1, <1>3, <1>4 DEF Inv, VerdictsSound
<1>6. QED
  BY <1>2, <1>3, <1>5

\* An attempt refill classifies as settled is published.
LEMMA ClassifyKeeps == ASSUME Inv, NEW j \in Attempts, Classify(j) PROVE Inv'
<1>1. /\ lock' = Free
      /\ UNCHANGED <<fact, owed, envelopes, head, journal, file, crashes>>
      /\ \/ UNCHANGED <<basis, excluded>>
         \/ /\ CanonicalTerminal(j) /\ excluded' = excluded \union {j}
            /\ basis' = [job |-> j, entry |-> file[j]["attempts"]]
  BY DEF Classify
<1>2. /\ basis' \in [job : Attempts \union {0}, entry : Nat]
      /\ excluded' \subseteq Attempts
      /\ \A i \in excluded' : Published(i)
      /\ basis' # NoBasis => basis'.job \in excluded'
  <2>1. CASE UNCHANGED <<basis, excluded>>
    BY <2>1 DEF Inv, TypeOK, BasisGivenUp, GivenUpWorkIsPublished, Published
  <2>2. CASE /\ CanonicalTerminal(j) /\ excluded' = excluded \union {j}
             /\ basis' = [job |-> j, entry |-> file[j]["attempts"]]
    <3>1. Published(j) /\ file[j]["attempts"] \in Nat
      BY <2>2, CanonicalIsPublished
    <3>2. QED
      BY <2>2, <3>1 DEF Inv, TypeOK, GivenUpWorkIsPublished, Published
  <2>3. QED
    BY <1>1, <2>1, <2>2
<1>3. TypeOK'
  BY <1>1, <1>2 DEF Inv, TypeOK, Free
<1>4. OwedSound' /\ HeadsSound' /\ VerdictsSound' /\ HeadsAreEnveloped'
      /\ FilesFollowJournal'
  BY <1>1 DEF Inv, OwedSound, HeadsSound, VerdictsSound, HeadsAreEnveloped,
              FilesFollowJournal, Sound, Published
<1>5. HolderStates' /\ HolderCommits' /\ BasisGivenUp' /\ GivenUpWorkIsPublished'
  BY <1>1, <1>2 DEF HolderStates, HolderCommits, BasisGivenUp, GivenUpWorkIsPublished,
                    Free, Published
<1>6. QED
  BY <1>3, <1>4, <1>5 DEF Inv

\* A commit prepares what follows on that basis.
LEMMA CommitKeeps == ASSUME Inv, Commit PROVE Inv'
<1>. DEFINE next == Following(basis.job)
            sts == <<Statement(next, "prepared", Closing("prepared", 0))>>
<1>1. /\ lock.at = "commit" /\ lock' = Free
      /\ UNCHANGED <<envelopes, head, journal, file, excluded, crashes>>
      /\ \/ UNCHANGED <<fact, owed, basis>>
         \/ /\ fact' = [fact EXCEPT ![next]["prepared"] = "prepared"]
            /\ owed' = [owed EXCEPT !["refill"] = sts]
            /\ basis' = NoBasis
  BY DEF Commit, Closes
<1>2. /\ next \in Attempts /\ next \in Jobs /\ "prepared" \in Kinds /\ "refill" \in Services
      /\ fact \in [Jobs -> [Kinds -> Said \union {"closed", "jammed"}]]
      /\ owed \in [Services -> Seq(Statements)]
      /\ basis \in [job : Attempts \union {0}, entry : Nat]
  BY <1>1 DEF Inv, HolderCommits, TypeOK, Jobs, Kinds, Services
<1>3. "prepared" \in Outcomes["prepared"] /\ Ends("prepared")
  BY DEF Outcomes, Ends
<1>4. Sound(Statement(next, "prepared", Closing("prepared", 0)))
  <2>1. /\ Closing("prepared", 0) \in Envelopes
        /\ Closing("prepared", 0).outcome = "prepared"
        /\ Stateable("prepared", Closing("prepared", 0))
    <3>. HIDE DEF next, sts
    <3>1. "prepared" \in Kinds /\ 1 \in Nat \ {0} /\ 0 \in Nat
      BY <1>2
    <3>2. Closing("prepared", 0) = Envelope(1, "prepared", Ends("prepared"), 0)
      BY <1>3, ClosingIsEvidence
    <3>3. QED
      BY <1>3, <3>1, <3>2, StateableIsEvidence
  <2>2. QED
    BY <1>2, <2>1, SoundStatement
<1>. HIDE DEF next
<1>5. sts \in Seq(Statements) /\ \A n \in DOMAIN sts : Sound(sts[n])
  BY <1>4 DEF Sound
<1>6. "prepared" \in Said
  BY <1>2, <1>3, OutcomesAreSaid
<1>. HIDE DEF sts
<1>7. /\ fact' \in [Jobs -> [Kinds -> Said \union {"closed", "jammed"}]]
      /\ owed' \in [Services -> Seq(Statements)]
      /\ basis' \in [job : Attempts \union {0}, entry : Nat]
      /\ \A i \in Jobs : Published(i) <=> Published(i)'
  <2>1. CASE UNCHANGED <<fact, owed, basis>>
    BY <1>2, <2>1 DEF Published
  <2>2. CASE /\ fact' = [fact EXCEPT ![next]["prepared"] = "prepared"]
             /\ owed' = [owed EXCEPT !["refill"] = sts] /\ basis' = NoBasis
    <3>1. fact' \in [Jobs -> [Kinds -> Said \union {"closed", "jammed"}]]
      BY <1>2, <1>6, <2>2
    <3>2. \A i \in Jobs : fact'[i]["publication"] = fact[i]["publication"]
      BY <1>2, <2>2 DEF Kinds
    <3>3. QED
      BY <1>2, <1>5, <2>2, <3>1, <3>2 DEF Published, NoBasis
  <2>3. QED
    BY <1>1, <2>1, <2>2
<1>8. \A t \in Services : \A n \in DOMAIN owed'[t] : Sound(owed'[t][n])
  BY <1>1, <1>2, <1>5 DEF Inv, OwedSound
<1>9. OwedSound'
  <2>1. SUFFICES ASSUME NEW t \in Services, NEW n \in DOMAIN (owed[t])'
                 PROVE  Sound(owed[t][n])'
    BY DEF OwedSound
  <2>2. QED
    BY <1>7, <1>8, SoundStays
<1>10. HeadsSound'
  <2>1. SUFFICES ASSUME NEW j \in Jobs, NEW k \in Kinds, head[j][k] # NoHead
                 PROVE  Sound(Statement(j, k, head[j][k]))'
    BY <1>1 DEF HeadsSound
  <2>2. Sound(Statement(j, k, head[j][k]))
    BY <2>1 DEF Inv, HeadsSound
  <2>3. QED
    BY <1>1, <1>7, <2>2, SoundStays
<1>11. TypeOK'
  BY <1>1, <1>7 DEF Inv, TypeOK, Free
<1>12. VerdictsSound' /\ GivenUpWorkIsPublished'
  <2>1. \A i \in excluded : Published(i) /\ i \in Jobs
    BY DEF Inv, GivenUpWorkIsPublished, Published, TypeOK, Jobs
  <2>2. GivenUpWorkIsPublished'
    BY <1>1, <1>7, <2>1 DEF GivenUpWorkIsPublished, Published
  <2>3. VerdictsSound'
    BY <1>1, <1>7 DEF Inv, VerdictsSound
  <2>4. QED
    BY <2>2, <2>3
<1>13. HolderStates' /\ HolderCommits' /\ BasisGivenUp' /\ HeadsAreEnveloped'
       /\ FilesFollowJournal'
  BY <1>1 DEF Inv, HolderStates, HolderCommits, BasisGivenUp, HeadsAreEnveloped,
              FilesFollowJournal, Free
<1>14. QED
  BY <1>9, <1>10, <1>11, <1>12, <1>13 DEF Inv

\* A death loses what its service owed, and frees the lock.
LEMMA CrashKeeps == ASSUME Inv, NEW s \in Services, Crash(s) PROVE Inv'
<1>1. /\ owed' = [owed EXCEPT ![s] = << >>] /\ crashes' = crashes + 1
      /\ crashes < MaxCrashes
      /\ lock' = IF lock.by = s THEN Free ELSE lock
      /\ UNCHANGED <<fact, envelopes, head, journal, file, basis, excluded>>
  BY DEF Crash
<1>2. owed \in [Services -> Seq(Statements)]
  BY DEF Inv, TypeOK
<1>3. crashes' \in 0 .. MaxCrashes
  BY <1>1, LifecycleAssumption DEF Inv, TypeOK
<1>4. TypeOK'
  BY <1>1, <1>2, <1>3 DEF Inv, TypeOK, Free
<1>5. OwedSound'
  BY <1>1, <1>2 DEF Inv, OwedSound, Sound, Published
<1>6. HeadsSound' /\ VerdictsSound' /\ GivenUpWorkIsPublished'
  BY <1>1 DEF Inv, HeadsSound, VerdictsSound, GivenUpWorkIsPublished, Sound, Published
<1>7. HolderStates' /\ HolderCommits' /\ BasisGivenUp'
  BY <1>1, <1>2 DEF Inv, HolderStates, HolderCommits, BasisGivenUp, Free
<1>8. HeadsAreEnveloped' /\ FilesFollowJournal'
  BY <1>1 DEF Inv, HeadsAreEnveloped, FilesFollowJournal
<1>9. QED
  BY <1>4, <1>5, <1>6, <1>7, <1>8 DEF Inv

-----------------------------------------------------------------------------
\* The initial states satisfy the invariant.
LEMMA InitHolds == Init => Inv
<1>1. SUFFICES ASSUME Init PROVE Inv
  OBVIOUS
<1>2. "none" \in Said /\ << >> \in Seq(Statements) /\ << >> \in Seq(Transitions)
  BY DEF Said
<1>3. TypeOK
  <2>1. /\ fact \in [Jobs -> [Kinds -> Said \union {"closed", "jammed"}]]
        /\ owed \in [Services -> Seq(Statements)] /\ envelopes \subseteq Statements
    BY <1>1, <1>2 DEF Init
  <2>2. /\ head \in [Jobs -> [Kinds -> Envelopes]]
        /\ \A j \in Jobs, k \in Kinds : head[j][k] = NoHead
    BY <1>1, NoHeadSaysNothing DEF Init
  <2>3. journal \in [Jobs -> Seq(Transitions)] /\ file \in [Jobs -> [FileSet -> Nat]]
    BY <1>1, <1>2 DEF Init
  <2>4. lock \in [by : Services \union {"none"}, todo : SUBSET Attempts,
                 at : {"free", "head", "reduce", "classify", "commit"}]
    BY <1>1 DEF Init, Free
  <2>5. /\ basis \in [job : Attempts \union {0}, entry : Nat]
        /\ excluded \subseteq Attempts /\ crashes \in 0 .. MaxCrashes
    BY <1>1, LifecycleAssumption DEF Init, NoBasis
  <2>6. QED
    BY <2>1, <2>2, <2>3, <2>4, <2>5 DEF TypeOK
<1>4. OwedSound /\ HeadsSound /\ VerdictsSound
  BY <1>1 DEF Init, OwedSound, HeadsSound, VerdictsSound
<1>5. HolderStates /\ HolderCommits /\ BasisGivenUp /\ HeadsAreEnveloped
  BY <1>1 DEF Init, HolderStates, HolderCommits, BasisGivenUp, HeadsAreEnveloped, Free
<1>6. GivenUpWorkIsPublished
  BY <1>1 DEF Init, GivenUpWorkIsPublished
<1>7. FilesFollowJournal
  <2>1. {"attempts", "work_items", "generations", "reduced_through"} \subseteq FileSet
    BY DEF FileSet, Files
  <2>2. \A j \in Attempts : j \in Jobs
    BY DEF Jobs
  <2>3. QED
    BY <1>1, <2>1, <2>2 DEF Init, FilesFollowJournal
<1>8. QED
  BY <1>3, <1>4, <1>5, <1>6, <1>7 DEF Inv

\* Every step keeps it.
LEMMA NextKeeps == Inv /\ [Next]_vars => Inv'
<1>1. SUFFICES ASSUME Inv, [Next]_vars PROVE Inv'
  OBVIOUS
<1>2. CASE \E j \in Jobs : Step(j) \/ Merge(j) \/ RetryMerged(j)
                        \/ \E s \in {"loop", "publisher"} : Restate(s, j)
  BY <1>1, <1>2, StepKeeps, RepeatKeeps
<1>3. CASE \E s \in Services : Emission(s) \/ Crash(s)
  BY <1>1, <1>3, WriteEnvelopeKeeps, ReplaceHeadKeeps, CrashKeeps DEF Emission
<1>4. CASE CloseCompletion
  BY <1>1, <1>4, CloseKeeps
<1>5. CASE BeginReduce \/ EndReduce \/ BeginCommit
           \/ \E j \in Attempts : BeginClassify(j)
  BY <1>1, <1>5, HandOverKeeps
<1>6. CASE WriteFile \/ AppendTransition
  BY <1>1, <1>6, WriteFileKeeps, AppendKeeps
<1>7. CASE Commit \/ \E j \in Attempts : Classify(j)
  BY <1>1, <1>7, CommitKeeps, ClassifyKeeps
<1>8. CASE UNCHANGED vars
  <2>1. UNCHANGED <<fact, owed, envelopes, head, journal, file, lock, basis, excluded,
                    crashes>>
    BY <1>8 DEF vars
  <2>2. TypeOK'
    BY <1>1, <2>1 DEF Inv, TypeOK
  <2>3. OwedSound' /\ HeadsSound' /\ VerdictsSound' /\ GivenUpWorkIsPublished'
    BY <1>1, <2>1 DEF Inv, OwedSound, HeadsSound, VerdictsSound, GivenUpWorkIsPublished,
                      Sound, Published
  <2>4. HolderStates' /\ HolderCommits' /\ BasisGivenUp' /\ HeadsAreEnveloped'
        /\ FilesFollowJournal'
    BY <1>1, <2>1 DEF Inv, HolderStates, HolderCommits, BasisGivenUp, HeadsAreEnveloped,
                      FilesFollowJournal
  <2>5. QED
    BY <2>2, <2>3, <2>4 DEF Inv
<1>9. QED
  BY <1>1, <1>2, <1>3, <1>4, <1>5, <1>6, <1>7, <1>8 DEF Next

\* The invariant holds in every state of every behaviour.
THEOREM InvHolds == Spec => []Inv
<1>1. QED
  BY InitHolds, NextKeeps, PTL DEF Spec

\* The store is never torn: every head has its envelope, every materialized
\* file follows the journal with the watermark last, whoever dies in between.
THEOREM EvidenceKept == Spec => []LifecycleInv
<1>1. Inv => LifecycleInv
  BY DEF Inv, LifecycleInv
<1>2. QED
  BY <1>1, InvHolds, PTL

\* Refill gives up no attempt whose work is not drafted or merged.
THEOREM GivenUpPublished == Spec => []GivenUpWorkIsPublished
<1>1. Inv => GivenUpWorkIsPublished
  BY DEF Inv
<1>2. QED
  BY <1>1, InvHolds, PTL

-----------------------------------------------------------------------------
\* Refinement: what the abstract log sees of every step.

\* The log judges streams and evidence by the same rules.
LEMMA SameRules ==
    /\ Log!Kinds = Kinds /\ Log!Envelopes = Envelopes /\ Log!NoHead = NoHead
    /\ \A a, b : Log!StreamAccepts(a, b) <=> StreamAccepts(a, b)
    /\ \A h, m, d : Log!Disposition(h, m, d) = Disposition(h, m, d)
<1>1. Log!NoHead = NoHead
  BY DEF Log!NoHead, NoHead, Log!Envelope, Envelope
<1>2. \A a, b : Log!StreamAccepts(a, b) <=> StreamAccepts(a, b)
  BY <1>1, Zenon DEF Log!StreamAccepts, StreamAccepts
<1>3. Log!Kinds = Kinds /\ Log!Outcomes = Outcomes
  BY Zenon DEF Log!Kinds, Kinds, Log!Outcomes, Outcomes
<1>4. Log!Envelopes = Envelopes
  BY <1>3, Zenon DEF Log!Envelopes, Envelopes, Log!Said, Said,
                     Log!AllOutcomes, AllOutcomes
<1>5. \A h : Log!Dispatched(h) <=> Dispatched(h)
  BY <1>1, Zenon DEF Log!Dispatched, Dispatched
<1>6. \A h : Log!Validated(h) <=> Validated(h)
  BY <1>1, <1>5, Zenon DEF Log!Validated, Validated
<1>7. Log!SettledPublication = SettledPublication
  BY Zenon DEF Log!SettledPublication, SettledPublication
<1>8. \A h, m, d : Log!Terminal(h, m, d) <=> Terminal(h, m, d)
  BY <1>5, <1>6, <1>7, Zenon DEF Log!Terminal, Terminal
<1>9. \A h, d : Log!InFlight(h, d) <=> InFlight(h, d)
  BY <1>1, <1>5, <1>6, Zenon DEF Log!InFlight, InFlight
<1>10. \A h, m, d : Log!Disposition(h, m, d) = Disposition(h, m, d)
  BY <1>8, <1>9, Zenon DEF Log!Disposition, Disposition
<1>11. QED
  BY <1>1, <1>2, <1>3, <1>4, <1>10

\* A step that touches no fact, head, journal or decision is none of the log's.
LEMMA QuietSteps ==
    ASSUME UNCHANGED <<fact, head, journal, excluded>> PROVE UNCHANGED Log!vars
  BY DEF Log!vars, Proven, GoneOn

\* An outcome that merges nothing and prepares no later attempt is not seen.
LEMMA OutcomeIsQuiet ==
    ASSUME Inv, NEW s, NEW j \in Jobs, NEW k \in Kinds, NEW o, NEW sts,
           Outcome(s, j, k, o, sts),
           k = "publication" => o = "drafted" /\ j \notin Proven,
           k = "prepared" => \A i \in Attempts : Following(i) # j
    PROVE  UNCHANGED Log!vars
<1>1. /\ fact' = [fact EXCEPT ![j][k] = o] /\ UNCHANGED <<head, journal, excluded>>
      /\ fact \in [Jobs -> [Kinds -> Said \union {"closed", "jammed"}]]
      /\ "publication" \in Kinds /\ "prepared" \in Kinds
  BY DEF Outcome, store, Inv, TypeOK, Kinds
<1>2. \A i \in Jobs :
        /\ fact'[i]["publication"] =
             IF i = j /\ k = "publication" THEN o ELSE fact[i]["publication"]
        /\ fact'[i]["prepared"] =
             IF i = j /\ k = "prepared" THEN o ELSE fact[i]["prepared"]
  BY <1>1
<1>3. Proven' = Proven
  BY <1>2 DEF Proven
<1>4. \A i \in Attempts : Following(i) \in Attempts => Following(i) \in Jobs
  BY DEF Jobs
<1>5. \A i \in Attempts : Following(i) \in Attempts =>
         fact'[Following(i)]["prepared"] = fact[Following(i)]["prepared"]
  BY <1>2, <1>4
<1>6. GoneOn' = GoneOn
  BY <1>5 DEF GoneOn, Following
<1>7. QED
  BY <1>1, <1>3, <1>6 DEF Log!vars

\* The services' own steps are none.
LEMMA StepIsQuiet == ASSUME Inv, NEW j \in Jobs, Step(j) PROVE UNCHANGED Log!vars
<1>1. {"prepared", "submitted", "host", "relay", "gate", "revision", "publication"} = Kinds
  BY DEF Kinds
<1>2. CASE Submit(j)
  BY <1>1, <1>2, OutcomeIsQuiet DEF Submit
<1>3. CASE Import(j)
  BY <1>1, <1>3, OutcomeIsQuiet DEF Import
<1>4. CASE Claim(j)
  BY <1>1, <1>4, OutcomeIsQuiet DEF Claim
<1>5. CASE Archive(j)
  BY <1>1, <1>5, OutcomeIsQuiet DEF Archive
<1>6. CASE RelayResult(j)
  BY <1>1, <1>6, OutcomeIsQuiet DEF RelayResult
<1>7. CASE Validate(j)
  BY <1>1, <1>7, OutcomeIsQuiet DEF Validate
<1>8. CASE Revise(j)
  <2>1. /\ fact' = [fact EXCEPT ![j]["revision"] = "queued",
                                ![Correction[j]]["submitted"] = "submitted"]
        /\ UNCHANGED <<head, journal, excluded>>
        /\ fact \in [Jobs -> [Kinds -> Said \union {"closed", "jammed"}]]
        /\ Correction[j] \in Jobs
    BY <1>8, LifecycleAssumption DEF Revise, store, Inv, TypeOK
  <2>2. \A i \in Jobs : /\ fact'[i]["publication"] = fact[i]["publication"]
                       /\ fact'[i]["prepared"] = fact[i]["prepared"]
    BY <1>1, <2>1
  <2>3. Proven' = Proven /\ GoneOn' = GoneOn
    BY <2>2 DEF Proven, GoneOn, Jobs
  <2>4. QED
    BY <2>1, <2>3 DEF Log!vars
<1>9. CASE Publish(j)
  <2>1. j \notin Proven
    BY <1>9 DEF Publish, Proven
  <2>2. QED
    BY <1>1, <1>9, <2>1, OutcomeIsQuiet DEF Publish
<1>10. CASE StartGeneration(j)
  <2>1. \A i \in Attempts : Following(i) # j
    BY <1>10, LifecycleAssumption DEF StartGeneration, Following
  <2>2. QED
    BY <1>1, <1>10, <2>1, OutcomeIsQuiet DEF StartGeneration
<1>11. CASE Jam(j)
  BY <1>1, <1>11, OutcomeIsQuiet DEF Jam
<1>12. QED
  BY <1>2, <1>3, <1>4, <1>5, <1>6, <1>7, <1>8, <1>9, <1>10, <1>11 DEF Step

\* A job's report says it is merged.
LEMMA MergeIsProof ==
    ASSUME Inv, NEW j \in Jobs, NEW o \in {"merged", "closed"},
           fact' = [fact EXCEPT ![j]["publication"] = o],
           UNCHANGED <<head, journal, excluded>>
    PROVE  Log!ProveMerged(j)
<1>1. /\ fact \in [Jobs -> [Kinds -> Said \union {"closed", "jammed"}]]
      /\ "publication" \in Kinds /\ "prepared" \in Kinds
  BY DEF Inv, TypeOK, Kinds
<1>2. \A i \in Jobs :
        /\ fact'[i]["publication"] = IF i = j THEN o ELSE fact[i]["publication"]
        /\ fact'[i]["prepared"] = fact[i]["prepared"]
  BY <1>1
<1>3. Proven' = Proven \union {j}
  BY <1>2 DEF Proven
<1>4. GoneOn' = GoneOn
  BY <1>2 DEF GoneOn, Jobs
<1>5. QED
  BY <1>3, <1>4 DEF Log!ProveMerged

\* A replaced head is an emission of the log.
LEMMA HeadIsEmission ==
    ASSUME Inv, NEW s \in Services, ReplaceHead(s)
    PROVE  Log!Next \/ UNCHANGED Log!vars
<1>. DEFINE st == owed[s][1]
            taken == StreamAccepts(head[st.job][st.kind], st.envelope)
<1>1. /\ head' = IF taken THEN [head EXCEPT ![st.job][st.kind] = st.envelope] ELSE head
      /\ UNCHANGED <<fact, journal, excluded>>
      /\ lock.by = s /\ lock.at = "head"
  BY DEF ReplaceHead
<1>2. owed[s] # << >> /\ owed[s] \in Seq(Statements)
      /\ head \in [Jobs -> [Kinds -> Envelopes]]
  BY <1>1 DEF Inv, HolderStates, TypeOK
<1>3. Sound(st)
  BY <1>2 DEF Inv, OwedSound
<1>4. st.job \in Jobs /\ st.kind \in Kinds /\ st.envelope \in Envelopes
  BY <1>3, SoundParts
<1>. HIDE DEF st
<1>5. CASE ~taken
  BY <1>1, <1>5, QuietSteps
<1>6. CASE taken
  <2>1. head' = [head EXCEPT ![st.job][st.kind] = st.envelope]
    BY <1>1, <1>6
  <2>2. head'[st.job][st.kind] = st.envelope
    BY <1>2, <1>4, <2>1
  <2>3. UNCHANGED <<Proven, journal, excluded, GoneOn>>
    BY <1>1 DEF Proven, GoneOn
  <2>4. Log!Emit(st.job, st.kind)
    <3>1. StreamAccepts(head[st.job][st.kind], head'[st.job][st.kind])
      BY <1>6, <2>2
    <3>2. Log!StreamAccepts(head[st.job][st.kind], head'[st.job][st.kind])
      BY <3>1, SameRules, Zenon
    <3>3. head'[st.job][st.kind] \in Log!Envelopes
      BY <1>4, <2>2, SameRules, Zenon
    <3>4. QED
      BY <2>1, <2>2, <2>3, <3>2, <3>3 DEF Log!Emit
  <2>5. QED
    BY <1>4, <2>4, SameRules DEF Log!Next
<1>7. QED
  BY <1>5, <1>6

\* An appended transition is a record of it.
LEMMA AppendIsRecord ==
    ASSUME Inv, AppendTransition PROVE Log!Next \/ UNCHANGED Log!vars
<1>1. PICK j \in lock.todo :
        journal' = IF journal[j] # << >> /\ Latest(j) = Current(j) THEN journal
                   ELSE [journal EXCEPT ![j] = Append(@, Current(j))]
  BY DEF AppendTransition
<1>2. UNCHANGED <<fact, head, excluded>> /\ j \in Jobs
  BY <1>1 DEF AppendTransition, Inv, TypeOK, Jobs
<1>3. CASE journal' = journal
  BY <1>2, <1>3, QuietSteps
<1>4. CASE journal' = [journal EXCEPT ![j] = Append(@, Current(j))]
  <2>1. Current(j) = [heads |-> head[j], verdict |-> Log!Verdict(j)]
    <3>1. Log!CorrectionDrafted(j) = CorrectionDrafted(j)
      BY Zenon DEF CorrectionDrafted, Log!CorrectionDrafted
    <3>2. Log!Verdict(j) = Verdict(j)
      BY <3>1, SameRules, Zenon DEF Verdict, Log!Verdict
    <3>3. QED
      BY <3>2 DEF Current
  <2>2. UNCHANGED <<head, Proven, excluded, GoneOn>>
    BY <1>2 DEF Proven, GoneOn
  <2>3. Log!Record(j)
    BY <1>4, <2>1, <2>2 DEF Log!Record
  <2>4. QED
    BY <1>2, <2>3 DEF Log!Next
<1>5. QED
  BY <1>1, <1>3, <1>4

\* A canonical classification made while no file is behind is the log's.
LEMMA CanonicalIsSettled ==
    ASSUME Inv, NEW j \in Attempts, Behind = {}, CanonicalTerminal(j)
    PROVE  Log!Settled(j)
<1>1. file[j]["attempts"] = Len(journal[j])
  <2>1. DOMAIN Files = 1 .. 4 /\ Files[1] = "attempts"
    BY DEF Files
  <2>2. Stale(j) = {}
    BY DEF Behind
  <2>3. QED
    BY <2>1, <2>2 DEF Stale
<1>2. /\ file[j]["attempts"] \in DOMAIN journal[j] /\ j \in Jobs
      /\ journal[j] \in Seq(Transitions)
  BY CanonicalIsPublished DEF Inv, TypeOK, Jobs
<1>3. /\ journal[j][Len(journal[j])] \in Transitions
      /\ journal[j][Len(journal[j])].heads = head[j]
      /\ journal[j][Len(journal[j])].verdict = "terminal" /\ journal[j] # << >>
  BY <1>1, <1>2 DEF CanonicalTerminal, Fresh
<1>4. journal[j][Len(journal[j])] = [heads |-> head[j], verdict |-> "terminal"]
  BY <1>3 DEF Transitions
<1>5. QED
  BY <1>3, <1>4 DEF Log!Settled

\* A classification is a decision on its last entry.
LEMMA ClassifyIsDecision ==
    ASSUME Inv, NEW j \in Attempts, Classify(j)
    PROVE  Log!Next \/ UNCHANGED Log!vars
<1>1. UNCHANGED <<fact, head, journal>> /\ Behind = {}
      /\ \/ excluded' = excluded
         \/ CanonicalTerminal(j) /\ excluded' = excluded \union {j}
  BY DEF Classify
<1>2. CASE excluded' = excluded
  BY <1>1, <1>2, QuietSteps
<1>3. CASE CanonicalTerminal(j) /\ excluded' = excluded \union {j}
  <2>1. UNCHANGED <<head, Proven, journal, GoneOn>>
    BY <1>1 DEF Proven, GoneOn
  <2>2. Log!Decide(j)
    BY <1>1, <1>3, <2>1, CanonicalIsSettled DEF Log!Decide
  <2>3. QED
    BY <2>2 DEF Log!Next, Jobs
<1>4. QED
  BY <1>1, <1>2, <1>3

\* A commit follows a decision.
LEMMA CommitIsFollowing ==
    ASSUME Inv, Commit PROVE Log!Next \/ UNCHANGED Log!vars
<1>. DEFINE next == Following(basis.job)
<1>1. /\ UNCHANGED <<head, journal, excluded>> /\ Behind = {} /\ lock.at = "commit"
      /\ \/ fact' = fact
         \/ BasisHolds /\ fact' = [fact EXCEPT ![next]["prepared"] = "prepared"]
  BY DEF Commit
<1>2. /\ next \in Attempts /\ basis.job \in excluded /\ basis.job \in Attempts
      /\ fact \in [Jobs -> [Kinds -> Said \union {"closed", "jammed"}]]
      /\ "publication" \in Kinds /\ "prepared" \in Kinds
  BY <1>1 DEF Inv, HolderCommits, BasisGivenUp, TypeOK, Kinds
<1>3. CASE fact' = fact
  BY <1>1, <1>3, QuietSteps
<1>4. CASE BasisHolds /\ fact' = [fact EXCEPT ![next]["prepared"] = "prepared"]
  <2>1. \A i \in Jobs :
          /\ fact'[i]["publication"] = fact[i]["publication"]
          /\ fact'[i]["prepared"] =
               IF i = next THEN "prepared" ELSE fact[i]["prepared"]
    BY <1>2, <1>4 DEF Jobs
  <2>2. Proven' = Proven
    BY <2>1 DEF Proven
  <2>3. \A i \in Attempts : i \in Jobs /\ i \in Nat
    BY LifecycleAssumption DEF Jobs
  <2>4. \A i \in Attempts : Following(i) = next <=> i = basis.job
    BY <1>2, <2>3 DEF Following
  <2>5. GoneOn' = GoneOn \union {basis.job}
    <3>1. \A i \in Attempts : i \in GoneOn' <=> i \in GoneOn \/ i = basis.job
      BY <1>2, <2>1, <2>3, <2>4 DEF GoneOn, Following
    <3>2. GoneOn' \subseteq Attempts /\ GoneOn \subseteq Attempts
      BY DEF GoneOn
    <3>3. QED
      BY <1>2, <3>1, <3>2
  <2>6. Log!Settled(basis.job)
    BY <1>1, <1>2, <1>4, CanonicalIsSettled DEF BasisHolds
  <2>7. Log!Follow(basis.job)
    BY <1>1, <1>2, <2>2, <2>5, <2>6 DEF Log!Follow
  <2>8. QED
    BY <1>2, <2>7 DEF Log!Next, Jobs
<1>5. QED
  BY <1>1, <1>3, <1>4

\* The initial states of the store are initial states of the log.
LEMMA InitIsLogInit == Init => Log!Init
<1>1. SUFFICES ASSUME Init PROVE Log!Init
  OBVIOUS
<1>2. {"publication", "prepared"} \subseteq Kinds
  BY DEF Kinds
<1>3. Proven = {} /\ GoneOn = {}
  BY <1>1, <1>2 DEF Init, Proven, GoneOn, Jobs
<1>4. QED
  BY <1>1, <1>3, SameRules DEF Init, Log!Init

\* Every step is one of the log's, or a stutter.
LEMMA NextIsLogNext ==
    Inv /\ [Next]_vars => [Log!Next]_(Log!vars)
<1>1. SUFFICES ASSUME Inv, [Next]_vars PROVE Log!Next \/ UNCHANGED Log!vars
  OBVIOUS
<1>2. CASE \E j \in Jobs : Step(j)
  BY <1>1, <1>2, StepIsQuiet
<1>3. ASSUME NEW j \in Jobs, Merge(j) PROVE Log!Next
  <2>1. Log!ProveMerged(j)
    BY <1>1, <1>3, MergeIsProof DEF Merge, Outcome, store
  <2>2. QED
    BY <2>1 DEF Log!Next
<1>4. CASE CloseCompletion
  <2>. DEFINE done == owed["completion"][1].job
  <2>1. /\ owed["completion"] # << >> /\ owed["completion"] \in Seq(Statements)
        /\ "completion" \in Services
        /\ fact' = [fact EXCEPT ![done]["publication"] = "closed"]
        /\ UNCHANGED <<head, journal, excluded>>
    BY <1>1, <1>4 DEF CloseCompletion, Stated, store, Inv, TypeOK, Services
  <2>2. Sound(owed["completion"][1])
    BY <1>1, <2>1 DEF Inv, OwedSound
  <2>3. done \in Jobs
    BY <2>2, SoundParts
  <2>4. Log!ProveMerged(done)
    BY <1>1, <2>1, <2>3, MergeIsProof
  <2>5. QED
    BY <2>3, <2>4 DEF Log!Next
<1>5. ASSUME \/ \E j \in Jobs : \/ RetryMerged(j)
                              \/ \E s \in {"loop", "publisher"} : Restate(s, j)
             \/ \E s \in Services : WriteEnvelope(s) \/ Crash(s)
             \/ BeginReduce \/ WriteFile \/ EndReduce \/ BeginCommit
             \/ \E j \in Attempts : BeginClassify(j)
             \/ UNCHANGED vars
      PROVE  UNCHANGED Log!vars
  <2>1. UNCHANGED <<fact, head, journal, excluded>>
    BY <1>5 DEF RetryMerged, Restate, store, WriteEnvelope, Crash, BeginReduce,
                WriteFile, EndReduce, BeginCommit, BeginClassify, vars
  <2>2. QED
    BY <2>1, QuietSteps
<1>6. ASSUME NEW s \in Services, ReplaceHead(s) PROVE Log!Next \/ UNCHANGED Log!vars
  BY <1>1, <1>6, HeadIsEmission
<1>7. CASE AppendTransition
  BY <1>1, <1>7, AppendIsRecord
<1>8. ASSUME NEW j \in Attempts, Classify(j) PROVE Log!Next \/ UNCHANGED Log!vars
  BY <1>1, <1>8, ClassifyIsDecision
<1>9. CASE Commit
  BY <1>1, <1>9, CommitIsFollowing
<1>10. QED
  BY <1>1, <1>2, <1>3, <1>4, <1>5, <1>6, <1>7, <1>8, <1>9 DEF Next, Emission

\* The store implements the abstract log: streams only grow as they accept, the
\* journal is only appended to with what the streams amount to, and an attempt
\* is given up and gone on from only on a last entry that is terminal and of
\* the evidence as it stands.
THEOREM LogImplemented == Spec => ImplementsEvidenceLog
<1>1. QED
  BY InitIsLogInit, NextIsLogNext, InvHolds, PTL DEF Spec, ImplementsEvidenceLog, Log!Spec
================================================================================
