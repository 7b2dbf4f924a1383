--------------------------- MODULE PublicationProofs ---------------------------
(***************************************************************************)
(* For any candidates and any number of deaths, lost requests and deeds of  *)
(* others: the claim covers the draft, the ledgers say what has happened,   *)
(* and the completion controller merges only what it was allowed to merge,  *)
(* at the commit that was published.                                        *)
(*                                                                         *)
(* The argument: only the publisher opens pull requests, one per candidate, *)
(* and it writes the report of a candidate only between opening its pull    *)
(* request and writing its sidecars.  So what the sidecars speak of never   *)
(* changes found, and a ledger entry, an intent and a merge that name it    *)
(* stay true in every order of the controllers' steps.                      *)
(***************************************************************************)
EXTENDS Publication, WellFoundedInduction, TLAPS

\* The job the publisher is at, and what it has done for it.
PublisherWorks ==
    /\ pub.at \in PubPhases \union {"rest"}
    /\ pub.at # "rest" => pub.job \in Jobs
    /\ pub.job \notin pub.new \union pub.old \/ pub.at = "rest"
    /\ \A j \in pub.new \union pub.old : pledger[j].status # "drifted"
    /\ pub.at \in {"admit", "base", "push", "pull", "report", "sidecars", "ledger"}
         => pledger[pub.job].status = "none"
    /\ pub.at \in {"verify", "branch", "merged", "superseded", "free", "record", "yield"}
         => pledger[pub.job].status \in {"published", "superseded"}
    /\ pub.at \in {"base", "push", "pull", "report", "sidecars", "ledger"}
         => pub.job \in revision
    /\ pub.at \in {"base", "push", "pull"} => ~Open(pub.job)
    /\ pub.at \in {"report", "sidecars"}
         => pub.job \notin ready /\ pull[pub.job].state # "none"
    /\ pub.at \in {"sidecars", "ledger"} => report[pub.job].commit = CommitOn(pub.base)
    /\ pub.at = "ledger" => pub.job \in ready
    /\ pub.at \in {"merged", "free"} => Merged(pub.job)
    /\ pub.at \in {"superseded", "record", "yield"} => pull[pub.job].state = "superseded"

\* The job the completion controller is at.
CompletionWorks ==
    /\ com.at \in ComPhases \union {"rest"}
    /\ com.at # "rest" => com.job \in ready
    /\ com.job \notin com.new \/ com.at = "rest"
    /\ com.new \subseteq ready
    /\ \A j \in com.new : cledger[j].status \notin {"merged", "escalated"}
    /\ com.at \notin {"rest", "escalate"} => com.job \in AutoMerge
    /\ com.at \in {"intent", "merge", "accept"} => cledger[com.job].status = "intent"
    /\ com.at \in {"accept", "cleanup", "clean", "report", "free", "close"}
         => Merged(com.job)
    /\ com.at \in {"free", "close"} => stream[com.job] = "merged"
    /\ com.at = "close" => \/ claim[com.job].generation # report[com.job].generation
                           \/ claim[com.job].state = "merged"

\* What the sidecars of a candidate speak of is there.
ReadyIsReal ==
    \A j \in Jobs :
        /\ j \in ready => report[j].commit # NoCommit /\ pull[j].state # "none"
                          /\ j \in revision
        /\ report[j].generation <= claim[j].generation
        /\ pull[j].state = "none" <=> pull[j] = NoPull

\* The completion ledger and its merges are of the reported commit.
EntriesNameTheReport ==
    \A j \in Jobs :
        /\ cledger[j].status \notin {"none", "escalated"}
             => j \in ready /\ cledger[j].head = report[j].commit
        /\ pull[j].by = "completion"
             => j \in ready /\ Merged(j) /\ pull[j].head = report[j].commit

Inv == /\ TypeOK /\ PublisherWorks /\ CompletionWorks /\ ReadyIsReal
       /\ EntriesNameTheReport /\ ClaimCoversDraft /\ LedgersFollow

-----------------------------------------------------------------------------
\* The order of the paths.
Below == {p \in Nat \X Nat : p[1] < p[2]}

\* The first of a set of jobs is one of them.
LEMMA FirstIsOne ==
    ASSUME NEW S \in SUBSET Jobs, S # {}
    PROVE  First(S) \in S
<1>1. S \subseteq Nat
  BY PublicationAssumption
<1>2. OpToRel(<, Nat) = Below
  BY Zenon DEF OpToRel, Below
<1>3. PICK j \in S : \A k \in S : ~(<<k, j>> \in Below)
  BY <1>1, <1>2, WFMin, NatLessThanWellFounded, Zenon
<1>4. \A k \in S : j <= k
  <2>1. SUFFICES ASSUME NEW k \in S PROVE j <= k
    OBVIOUS
  <2>2. j \in Nat /\ k \in Nat
    BY <1>1
  <2>3. <<k, j>> \in Below <=> k < j
    BY <2>2 DEF Below
  <2>4. QED
    BY <1>3, <2>2, <2>3
<1>5. QED
  BY <1>4, Zenon DEF First

\* A turn is of a job of the given sets, not of one in the wrong place.
LEMMA PubTurnFits ==
    ASSUME Inv, NEW new \in SUBSET Jobs, NEW old \in SUBSET Jobs,
           \A j \in new \union old : pledger[j].status # "drifted"
    PROVE  LET p == PubTurn(new, old)
           IN  /\ p \in Controllers /\ p.at \in {"rest", "admit", "verify"}
               /\ p.new \subseteq new /\ p.old \subseteq old
               /\ p.at # "rest" => /\ p.job \in new \union old
                                   /\ p.job \notin p.new \union p.old
               /\ p.at = "admit" => pledger[p.job].status = "none"
               /\ p.at = "verify" => pledger[p.job].status \in {"published", "superseded"}
<1>1. Rest \in Controllers /\ Rest.at = "rest" /\ Rest.new = {} /\ Rest.old = {}
  BY DEF Rest, Controllers, Phases, ComStatus
<1>2. CASE new \union old = {}
  BY <1>1, <1>2 DEF PubTurn
<1>3. CASE new \union old # {}
  <2>. DEFINE j == First(IF new # {} THEN new ELSE old)
              at == IF pledger[j].status = "none" THEN "admit" ELSE "verify"
  <2>1. j \in new \union old
    BY <1>3, FirstIsOne
  <2>2. PubTurn(new, old) = [Rest EXCEPT !.job = j, !.new = new \ {j},
                                         !.old = old \ {j}, !.at = at]
    BY <1>3 DEF PubTurn
  <2>3. at \in {"admit", "verify"} /\ at \in Phases
    BY DEF Phases, PubPhases
  <2>4. pledger[j].status \in {"none", "published", "drifted", "superseded"}
    BY <2>1 DEF Inv, TypeOK
  <2>. HIDE DEF j
  <2>5. /\ at = "admit" => pledger[j].status = "none"
        /\ at = "verify" => pledger[j].status \in {"published", "superseded"}
    BY <2>1, <2>4
  <2>. HIDE DEF at
  <2>6. PubTurn(new, old) = [at |-> at, job |-> j, base |-> 0, found |-> "none",
                             new |-> new \ {j}, old |-> old \ {j}]
    BY <2>2 DEF Rest
  <2>7. PubTurn(new, old) \in Controllers
    BY <2>1, <2>3, <2>6 DEF Controllers, ComStatus
  <2>8. QED
    BY <2>1, <2>3, <2>5, <2>6, <2>7
<1>4. QED
  BY <1>2, <1>3

\* The job a completion cycle turns to is at the step its ledger names.
LEMMA ComTurnFits ==
    ASSUME Inv, NEW todo \in SUBSET ready,
           \A j \in todo : cledger[j].status \notin {"merged", "escalated"}
    PROVE  LET p == ComTurn(todo)
           IN  /\ p \in Controllers
               /\ p.at \in {"rest", "escalate", "undraft", "intent", "verify",
                            "cleanup", "report"}
               /\ p.new \subseteq todo
               /\ p.at # "rest" => p.job \in todo /\ p.job \notin p.new
               /\ p.at \notin {"rest", "escalate"} => p.job \in AutoMerge
               /\ p.at = "intent" => cledger[p.job].status = "intent"
               /\ p.at \in {"cleanup", "report"} => Merged(p.job)
<1>1. Rest \in Controllers /\ Rest.at = "rest" /\ Rest.new = {}
  BY DEF Rest, Controllers, Phases, ComStatus
<1>2. CASE todo = {}
  BY <1>1, <1>2 DEF ComTurn
<1>3. CASE todo # {}
  <2>. DEFINE j == First(todo)
              at == Stage(j)
              found == cledger[j].status
  <2>1. j \in todo /\ j \in Jobs /\ todo \subseteq Jobs
    BY <1>3, FirstIsOne DEF Inv, TypeOK
  <2>2. ComTurn(todo) = [Rest EXCEPT !.job = j, !.new = todo \ {j}, !.found = found,
                                     !.at = at]
    BY <1>3 DEF ComTurn
  <2>3. \/ cledger[j].status = "none" \/ cledger[j].status = "intent"
        \/ cledger[j].status = "accepted" \/ cledger[j].status = "verified"
        \/ cledger[j].status = "cleaned"
    BY <2>1 DEF Inv, TypeOK, ComStatus
  <2>4. cledger[j].status \in {"accepted", "verified", "cleaned"} => Merged(j)
    BY <2>1 DEF Inv, LedgersFollow
  <2>. HIDE DEF j
  <2>5. /\ at \in {"escalate", "undraft", "intent", "verify", "cleanup", "report"}
        /\ at # "escalate" => j \in AutoMerge
        /\ at = "intent" => cledger[j].status = "intent"
        /\ at \in {"cleanup", "report"} => Merged(j)
    <3>1. /\ Resume["none"] = "undraft" /\ Resume["intent"] = "intent"
          /\ Resume["accepted"] = "verify" /\ Resume["verified"] = "cleanup"
          /\ Resume["cleaned"] = "report"
      BY DEF Resume
    <3>2. CASE j \notin AutoMerge
      <4>1. at = "escalate"
        BY <3>2, Zenon DEF Stage
      <4>2. QED
        BY <3>2, <4>1
    <3>3. CASE j \in AutoMerge
      <4>1. at = Resume[cledger[j].status]
        BY <3>3, Zenon DEF Stage
      <4>2. QED
        BY <2>3, <2>4, <3>1, <3>3, <4>1
    <3>4. QED
      BY <3>2, <3>3
  <2>6. at \in Phases /\ found \in ComStatus
    BY <2>1, <2>5 DEF Phases, ComPhases, Inv, TypeOK
  <2>. HIDE DEF at, found
  <2>7. ComTurn(todo) = [at |-> at, job |-> j, base |-> 0, found |-> found,
                         new |-> todo \ {j}, old |-> {}]
    BY <2>2 DEF Rest
  <2>8. ComTurn(todo) \in Controllers
    BY <2>1, <2>6, <2>7 DEF Controllers
  <2>9. /\ ComTurn(todo).at = at /\ ComTurn(todo).job = j
        /\ ComTurn(todo).new = todo \ {j}
    BY <2>7
  <2>10. QED
    BY <2>1, <2>5, <2>8, <2>9
<1>4. QED
  BY <1>2, <1>3

-----------------------------------------------------------------------------
\* What a controller becomes.

\* A controller that goes on is a controller.
LEMMA OnFits ==
    ASSUME NEW p \in Controllers, NEW at \in Phases
    PROVE  /\ On(p, at) \in Controllers /\ On(p, at).at = at
           /\ On(p, at).job = p.job /\ On(p, at).base = p.base
           /\ On(p, at).new = p.new /\ On(p, at).old = p.old
           /\ On(p, at).found = p.found
  BY DEF On, Controllers

\* So is one at rest.
LEMMA RestFits ==
    /\ Rest \in Controllers /\ Rest.at = "rest" /\ Rest.new = {} /\ Rest.old = {}
  BY DEF Rest, Controllers, Phases, ComStatus

\* A publisher at rest claims nothing,
LEMMA PublisherRests == ASSUME pub' = Rest PROVE PublisherWorks' /\ pub' \in Controllers
  BY RestFits DEF PublisherWorks, PubPhases

\* nor does a completion controller.
LEMMA CompletionRests == ASSUME com' = Rest PROVE CompletionWorks' /\ com' \in Controllers
<1>1. com'.at = "rest" /\ com'.new = {} /\ com' \in Controllers
  BY RestFits
<1>2. QED
  BY <1>1 DEF CompletionWorks, ComPhases

-----------------------------------------------------------------------------
\* What of the invariant each kind of change can disturb.

\* Nothing but the controllers, main, the branches and the checks.
LEMMA NothingStated ==
    ASSUME Inv, UNCHANGED <<pull, evidence, pledger, cledger>>,
           main' \in Nat, touched' \subseteq Jobs, branch' \in [Jobs -> Commits],
           green' \subseteq Jobs, events' \in 0 .. MaxEvents,
           pub' \in Controllers, com' \in Controllers, PublisherWorks', CompletionWorks'
    PROVE  Inv'
<1>. USE DEF evidence
<1>1. TypeOK'
  BY DEF Inv, TypeOK
<1>2. ReadyIsReal' /\ EntriesNameTheReport'
  BY DEF Inv, ReadyIsReal, EntriesNameTheReport, Merged
<1>3. ClaimCoversDraft' /\ LedgersFollow'
  BY DEF Inv, ClaimCoversDraft, LedgersFollow, Merged, Open
<1>4. QED
  BY <1>1, <1>2, <1>3 DEF Inv

\* Pull requests that are open change, and stay requests.
LEMMA PullsMove ==
    ASSUME Inv, UNCHANGED <<report, ready, claim, stream, pledger, cledger>>,
           main' \in Nat, touched' \subseteq Jobs, branch' \in [Jobs -> Commits],
           green' \subseteq Jobs, events' \in 0 .. MaxEvents,
           revision \subseteq revision', revision' \subseteq Jobs,
           pull' \in [Jobs -> [state : {"none", "draft", "ready", "merged", "closed",
                                        "superseded"},
                               head : Commits, by : {"none", "founder", "completion"}]],
           \A j \in Jobs : \/ pull'[j] = pull[j]
                           \/ Open(j) /\ pull'[j].state # "none"
                              /\ pull'[j].by \in {pull[j].by, "founder"},
           pub' = pub \/ pub' = Rest, com' \in Controllers,
           com' = com \/ CompletionWorks'
    PROVE  Inv'
<1>1. \A j \in Jobs :
        /\ pull[j].state \in {"merged", "superseded", "closed"} => pull'[j] = pull[j]
        /\ pull[j].state = "none" => pull'[j] = pull[j]
        /\ pull[j].state # "none" => pull'[j].state # "none"
        /\ Open(j)' => Open(j)
        /\ pull'[j].by = "completion" => pull'[j] = pull[j]
  BY DEF Open, Inv, EntriesNameTheReport, Merged
<1>2. TypeOK'
  BY RestFits DEF Inv, TypeOK
<1>3. PublisherWorks'
  <2>1. CASE pub' = Rest
    BY <2>1, PublisherRests
  <2>2. CASE pub' = pub
    BY <1>1, <2>2 DEF Inv, PublisherWorks, Merged
  <2>3. QED
    BY <2>1, <2>2
<1>4. CompletionWorks'
  <2>1. SUFFICES ASSUME com' = com PROVE CompletionWorks'
    OBVIOUS
  <2>2. ready \subseteq Jobs
    BY DEF Inv, TypeOK
  <2>3. QED
    BY <1>1, <2>1, <2>2 DEF Inv, CompletionWorks, Merged
<1>5. ReadyIsReal'
  BY <1>1 DEF Inv, ReadyIsReal, NoPull
<1>6. EntriesNameTheReport'
  BY <1>1 DEF Inv, EntriesNameTheReport, Merged
<1>7. ClaimCoversDraft'
  <2>1. SUFFICES ASSUME NEW j \in Jobs
                 PROVE  /\ (Open(j) \/ (pull[j] = NoPull /\ pledger[j].status # "drifted"))'
                             => claim[j].state = "active"
                        /\ claim[j].state # "active" => pull'[j].state = claim[j].state
    BY DEF ClaimCoversDraft
  <2>2. pull'[j] = NoPull => pull[j] = NoPull
    BY <1>1 DEF NoPull
  <2>3. claim[j].state \in {"active", "merged", "superseded"}
    BY DEF Inv, TypeOK
  <2>4. QED
    BY <1>1, <2>2, <2>3 DEF Inv, ClaimCoversDraft
<1>8. LedgersFollow'
  BY <1>1 DEF Inv, LedgersFollow, Merged
<1>9. QED
  BY <1>2, <1>3, <1>4, <1>5, <1>6, <1>7, <1>8 DEF Inv

\* A claim is released for what has happened to the pull request, or taken again.
LEMMA ClaimMoves ==
    ASSUME Inv, NEW j \in Jobs, NEW g \in Nat,
           NEW s \in {"active", "merged", "superseded"},
           claim' = [claim EXCEPT ![j] = [generation |-> g, state |-> s]],
           \/ g > claim[j].generation /\ s = "active"
           \/ g = claim[j].generation /\ s = pull[j].state,
           UNCHANGED <<github, revision, report, ready, stream, pledger, cledger, events>>,
           pub' \in Controllers, com' \in Controllers, PublisherWorks',
           com' = com \/ CompletionWorks'
    PROVE  Inv'
<1>. USE DEF github
<1>1. /\ claim \in [Jobs -> [generation : Nat, state : {"active", "merged", "superseded"}]]
      /\ report \in [Jobs -> [commit : Commits, generation : Nat]] /\ ready \subseteq Jobs
  BY DEF Inv, TypeOK
<1>2. \A i \in Jobs : /\ i = j => claim'[i].generation = g /\ claim'[i].state = s
                      /\ i # j => claim'[i] = claim[i]
  BY <1>1
<1>3. claim' \in [Jobs -> [generation : Nat, state : {"active", "merged", "superseded"}]]
  BY <1>1
<1>4. TypeOK'
  BY <1>3 DEF Inv, TypeOK
<1>5. ReadyIsReal'
  BY <1>1, <1>2 DEF Inv, ReadyIsReal
<1>6. EntriesNameTheReport'
  BY DEF Inv, EntriesNameTheReport, Merged
<1>7. ClaimCoversDraft'
  BY <1>2 DEF Inv, ClaimCoversDraft, Open, NoPull
<1>8. report[j].generation <= claim[j].generation
  BY DEF Inv, ReadyIsReal
<1>9. claim'[j].generation = report[j].generation /\ Merged(j) => claim'[j].state = "merged"
  BY <1>1, <1>2, <1>8 DEF Merged
<1>10. LedgersFollow'
  <2>1. \A i \in Jobs : cledger[i].status = "merged" => Merged(i)
    BY DEF Inv, LedgersFollow
  <2>2. QED
    BY <1>2, <1>9, <2>1 DEF Inv, LedgersFollow, Merged
<1>11. CompletionWorks'
  <2>1. SUFFICES ASSUME com' = com PROVE CompletionWorks'
    OBVIOUS
  <2>2. com.at = "close" => com.job \in Jobs /\ Merged(com.job)
    BY <1>1 DEF Inv, CompletionWorks
  <2>3. com.at = "close" => \/ claim'[com.job].generation # report[com.job].generation
                            \/ claim'[com.job].state = "merged"
    BY <1>2, <1>9, <2>2 DEF Inv, CompletionWorks
  <2>4. QED
    BY <2>1, <2>3 DEF Inv, CompletionWorks, Merged
<1>12. QED
  BY <1>4, <1>5, <1>6, <1>7, <1>10, <1>11 DEF Inv

\* The completion controller enters what has happened to its job.
LEMMA EntryMoves ==
    ASSUME Inv, NEW s \in ComStatus \ {"none"}, com.job \in ready,
           cledger' = [cledger EXCEPT ![com.job] =
                         [status |-> s, head |-> report[com.job].commit]],
           s \in {"accepted", "verified", "cleaned", "merged"} => Merged(com.job),
           s = "merged" => /\ stream[com.job] = "merged"
                           /\ \/ claim[com.job].generation # report[com.job].generation
                              \/ claim[com.job].state = "merged",
           UNCHANGED <<github, evidence, pledger, pub, events>>,
           com' \in Controllers, CompletionWorks'
    PROVE  Inv'
<1>. USE DEF github, evidence
<1>1. /\ cledger \in [Jobs -> [status : ComStatus, head : Commits]]
      /\ report \in [Jobs -> [commit : Commits, generation : Nat]]
      /\ com.job \in Jobs
  BY DEF Inv, TypeOK
<1>2. \A i \in Jobs :
        /\ i = com.job => /\ cledger'[i].status = s
                          /\ cledger'[i].head = report[i].commit
        /\ i # com.job => cledger'[i] = cledger[i]
  BY <1>1
<1>3. cledger' \in [Jobs -> [status : ComStatus, head : Commits]]
  BY <1>1
<1>4. TypeOK'
  BY <1>3 DEF Inv, TypeOK
<1>5. PublisherWorks'
  BY DEF Inv, PublisherWorks, Open, Merged
<1>6. ReadyIsReal' /\ ClaimCoversDraft'
  BY DEF Inv, ReadyIsReal, ClaimCoversDraft, Open
<1>7. EntriesNameTheReport'
  BY <1>1, <1>2 DEF Inv, EntriesNameTheReport, Merged
<1>8. LedgersFollow'
  BY <1>1, <1>2 DEF Inv, LedgersFollow, EntriesNameTheReport, Merged
<1>9. QED
  BY <1>4, <1>5, <1>6, <1>7, <1>8 DEF Inv

\* The publisher's ledger names what the sidecars speak of.
LEMMA LedgerMoves ==
    ASSUME Inv, NEW j \in Jobs,
           NEW e \in [status : {"published", "drifted", "superseded"}, head : Commits],
           pledger' = [pledger EXCEPT ![j] = e],
           e.status # "drifted" => /\ j \in ready /\ report[j].commit = e.head
                                   /\ pledger[j].status # "drifted",
           e.status = "superseded" => pull[j].state = "superseded",
           UNCHANGED <<github, evidence, cledger, com, events>>,
           pub' \in Controllers, PublisherWorks'
    PROVE  Inv'
<1>. USE DEF github, evidence
<1>1. pledger \in [Jobs -> [status : {"none", "published", "drifted", "superseded"},
                            head : Commits]]
  BY DEF Inv, TypeOK
<1>2. pledger'[j] = e /\ \A i \in Jobs \ {j} : pledger'[i] = pledger[i]
  BY <1>1
<1>3. pledger' \in [Jobs -> [status : {"none", "published", "drifted", "superseded"},
                             head : Commits]]
  BY <1>1
<1>4. TypeOK'
  BY <1>3 DEF Inv, TypeOK
<1>5. CompletionWorks' /\ ReadyIsReal' /\ EntriesNameTheReport'
  BY DEF Inv, CompletionWorks, ReadyIsReal, EntriesNameTheReport, Merged
<1>6. ClaimCoversDraft'
  <2>1. \A i \in Jobs : pledger[i].status = "drifted" => pledger'[i].status = "drifted"
    <3>1. e.status \in {"published", "drifted", "superseded"}
      OBVIOUS
    <3>2. QED
      BY <1>2, <3>1
  <2>2. QED
    BY <2>1 DEF Inv, ClaimCoversDraft, Open
<1>7. LedgersFollow'
  <2>1. \A i \in Jobs :
          /\ pledger'[i].status \in {"published", "superseded"}
               => i \in ready /\ report[i].commit = pledger'[i].head
          /\ pledger'[i].status = "superseded" => pull[i].state = "superseded"
    BY <1>2 DEF Inv, LedgersFollow
  <2>2. QED
    BY <2>1 DEF Inv, LedgersFollow, Merged
<1>8. QED
  BY <1>4, <1>5, <1>6, <1>7 DEF Inv

\* Evidence of the publication is added where it is not closed yet.
LEMMA StreamMoves ==
    ASSUME Inv, NEW j \in Jobs, NEW s \in {"drafted", "merged"},
           stream' = [stream EXCEPT ![j] = s], stream[j] # "merged",
           UNCHANGED <<github, revision, report, ready, claim, pledger, cledger, events>>,
           pub' \in Controllers, PublisherWorks', com' \in Controllers,
           com' = com \/ CompletionWorks'
    PROVE  Inv'
<1>. USE DEF github
<1>1. /\ stream \in [Jobs -> {"none", "drafted", "merged"}] /\ ready \subseteq Jobs
  BY DEF Inv, TypeOK
<1>2. /\ stream' \in [Jobs -> {"none", "drafted", "merged"}]
      /\ \A i \in Jobs : stream[i] = "merged" => stream'[i] = "merged"
  BY <1>1
<1>3. TypeOK'
  BY <1>2 DEF Inv, TypeOK
<1>4. ReadyIsReal' /\ EntriesNameTheReport' /\ ClaimCoversDraft'
  BY DEF Inv, ReadyIsReal, EntriesNameTheReport, ClaimCoversDraft, Merged, Open
<1>5. LedgersFollow'
  BY <1>2 DEF Inv, LedgersFollow, Merged
<1>6. CompletionWorks'
  <2>1. SUFFICES ASSUME com' = com PROVE CompletionWorks'
    OBVIOUS
  <2>2. QED
    BY <1>1, <1>2, <2>1 DEF Inv, CompletionWorks, Merged
<1>7. QED
  BY <1>3, <1>4, <1>5, <1>6 DEF Inv

\* The publisher takes its next job.
LEMMA PublisherTurns ==
    ASSUME Inv, NEW new \in SUBSET Jobs, NEW old \in SUBSET Jobs,
           \A j \in new \union old : /\ pledger[j].status # "drifted"
                                     /\ pledger'[j] = pledger[j],
           pub' = PubTurn(new, old)
    PROVE  PublisherWorks' /\ pub' \in Controllers
<1>1. /\ pub' \in Controllers /\ pub'.at \in {"rest", "admit", "verify"}
      /\ pub'.new \subseteq new /\ pub'.old \subseteq old
      /\ pub'.at # "rest" => /\ pub'.job \in new \union old
                             /\ pub'.job \notin pub'.new \union pub'.old
      /\ pub'.at = "admit" => pledger[pub'.job].status = "none"
      /\ pub'.at = "verify" => pledger[pub'.job].status \in {"published", "superseded"}
  BY PubTurnFits
<1>2. QED
  BY <1>1 DEF PublisherWorks, PubPhases

\* Its job is done: the others of the cycle are left.
LEMMA PublisherGoesOn ==
    ASSUME Inv, pub.at # "rest", PubDone,
           \A j \in Jobs \ {pub.job} : pledger'[j] = pledger[j]
    PROVE  PublisherWorks' /\ pub' \in Controllers
<1>1. pub.new \in SUBSET Jobs /\ pub.old \in SUBSET Jobs
  BY DEF Inv, TypeOK, Controllers
<1>2. \A j \in pub.new \union pub.old : /\ pledger[j].status # "drifted"
                                        /\ pledger'[j] = pledger[j]
  BY <1>1 DEF Inv, PublisherWorks
<1>3. QED
  BY <1>1, <1>2, PublisherTurns DEF PubDone

\* A completion controller that turns to a job can work on it.
LEMMA CompletionTurns ==
    ASSUME Inv, NEW todo \in SUBSET ready,
           \A j \in todo : /\ cledger[j].status \notin {"merged", "escalated"}
                           /\ cledger'[j] = cledger[j],
           com' = ComTurn(todo), UNCHANGED <<pull, ready>>
    PROVE  CompletionWorks' /\ com' \in Controllers
<1>1. /\ com' \in Controllers
      /\ com'.at \in {"rest", "escalate", "undraft", "intent", "verify", "cleanup",
                      "report"}
      /\ com'.new \subseteq todo
      /\ com'.at # "rest" => com'.job \in todo /\ com'.job \notin com'.new
      /\ com'.at \notin {"rest", "escalate"} => com'.job \in AutoMerge
      /\ com'.at = "intent" => cledger[com'.job].status = "intent"
      /\ com'.at \in {"cleanup", "report"} => Merged(com'.job)
  BY ComTurnFits
<1>2. QED
  BY <1>1 DEF CompletionWorks, ComPhases, Merged

\* So can one that goes on to its next.
LEMMA CompletionGoesOn ==
    ASSUME Inv, com.at # "rest", ComDone, UNCHANGED <<pull, ready>>,
           \A j \in Jobs \ {com.job} : cledger'[j] = cledger[j]
    PROVE  CompletionWorks' /\ com' \in Controllers
<1>1. com.new \in SUBSET ready /\ ready \subseteq Jobs
  BY DEF Inv, TypeOK, CompletionWorks
<1>2. \A j \in com.new : /\ cledger[j].status \notin {"merged", "escalated"}
                         /\ cledger'[j] = cledger[j]
  BY <1>1 DEF Inv, CompletionWorks
<1>3. QED
  BY <1>1, <1>2, CompletionTurns DEF ComDone

\* What the completion controller is at stays true when nothing it read changes,
LEMMA CompletionStays ==
    ASSUME Inv, UNCHANGED <<com, pull, ready, report, stream, claim, cledger>>
    PROVE  CompletionWorks' /\ com' \in Controllers
  BY DEF Inv, TypeOK, CompletionWorks, Merged

\* and so does what the publisher is at.
LEMMA PublisherStays ==
    ASSUME Inv, UNCHANGED <<pub, pull, ready, report, revision, pledger>>
    PROVE  PublisherWorks' /\ pub' \in Controllers
  BY DEF Inv, TypeOK, PublisherWorks, Merged, Open

\* What is known of a phase's job.
LEMMA AtWork ==
    ASSUME Inv
    PROVE  /\ pub \in Controllers /\ com \in Controllers
           /\ pub.at # "rest" => pub.job \in Jobs
           /\ com.at # "rest" => com.job \in ready /\ com.job \in Jobs
  BY DEF Inv, TypeOK, PublisherWorks, CompletionWorks

-----------------------------------------------------------------------------
\* The publisher.

\* PubStart keeps the invariant.
LEMMA PubStartKeeps == ASSUME Inv, PubStart PROVE Inv'
<1>. DEFINE new == {j \in Jobs : pledger[j].status = "none"}
            old == {j \in Jobs : pledger[j].status \in {"published", "superseded"}}
<1>1. /\ pub' = PubTurn(new, old)
      /\ UNCHANGED <<main, touched, branch, pull, green, revision, report, ready, claim,
                     stream, pledger, cledger, com, events>>
  BY DEF PubStart, PubKeeps, github, evidence
<1>2. new \in SUBSET Jobs /\ old \in SUBSET Jobs
  OBVIOUS
<1>3. \A j \in new \union old : /\ pledger[j].status # "drifted"
                                /\ pledger'[j] = pledger[j]
  BY <1>1
<1>. HIDE DEF new, old
<1>4. PublisherWorks' /\ pub' \in Controllers
  BY <1>1, <1>2, <1>3, PublisherTurns
<1>5. CompletionWorks' /\ com' \in Controllers
  BY <1>1, CompletionStays
<1>6. QED
  BY <1>1, <1>4, <1>5, NothingStated DEF Inv, TypeOK, evidence

\* PubAdmit keeps the invariant.
LEMMA PubAdmitKeeps == ASSUME Inv, PubAdmit PROVE Inv'
<1>. DEFINE j == pub.job
            active == claim[j].state = "active"
<1>1. /\ pub.at = "admit"
      /\ UNCHANGED <<main, touched, branch, pull, green, revision, report, ready,
                     stream, pledger, cledger, com, events>>
      /\ \/ pub' = Rest
         \/ pub' = On(pub, "base") /\ ~Open(j) /\ j \in revision
      /\ \/ claim' = claim
         \/ /\ claim[j].state # "active" /\ ~Open(j)
            /\ claim' = [claim EXCEPT ![j] = [generation |-> claim[j].generation + 1,
                                              state |-> "active"]]
  BY DEF PubAdmit, PubAt, PubKeeps, PubRaises, RelatedWork, RevisionStated, Job, github
<1>2. j \in Jobs /\ pub \in Controllers /\ pledger[j].status = "none"
  BY <1>1, AtWork DEF Inv, PublisherWorks
<1>3. PublisherWorks' /\ pub' \in Controllers
  <2>1. CASE pub' = Rest
    BY <2>1, PublisherRests
  <2>2. CASE pub' = On(pub, "base") /\ ~Open(j) /\ j \in revision
    <3>1. "base" \in Phases
      BY DEF Phases, PubPhases
    <3>2. /\ pub' \in Controllers /\ pub'.at = "base" /\ pub'.job = j
          /\ pub'.new = pub.new /\ pub'.old = pub.old
      BY <1>2, <2>2, <3>1, OnFits
    <3>3. QED
      BY <1>1, <1>2, <2>2, <3>2 DEF Inv, PublisherWorks, PubPhases, Open
  <2>3. QED
    BY <1>1, <2>1, <2>2
<1>4. com' \in Controllers
  BY <1>1, AtWork
<1>5. CASE claim' = claim
  <2>1. CompletionWorks'
    BY <1>1, <1>5, CompletionStays
  <2>2. QED
    BY <1>1, <1>3, <1>4, <1>5, <2>1, NothingStated DEF Inv, TypeOK, evidence
<1>6. CASE claim' = [claim EXCEPT ![j] = [generation |-> claim[j].generation + 1,
                                          state |-> "active"]]
  <2>1. claim[j].generation \in Nat
    BY <1>2 DEF Inv, TypeOK
  <2>2. claim[j].generation + 1 \in Nat /\ claim[j].generation + 1 > claim[j].generation
    BY <2>1
  <2>. HIDE DEF j
  <2>3. QED
    BY <1>1, <1>2, <1>3, <1>4, <1>6, <2>2, ClaimMoves DEF github
<1>7. QED
  BY <1>1, <1>5, <1>6

\* PubBase keeps the invariant.
LEMMA PubBaseKeeps == ASSUME Inv, PubBase PROVE Inv'
<1>. DEFINE j == pub.job
<1>1. /\ pub.at = "base"
      /\ UNCHANGED <<main, touched, branch, pull, green, revision, report, ready, claim,
                     stream, cledger, com, events>>
      /\ \/ /\ pledger' = [pledger EXCEPT ![j].status = "drifted"] /\ PubDone
         \/ /\ pub' = [On(pub, "push") EXCEPT !.base = main] /\ pledger' = pledger
  BY DEF PubBase, PubAt, PubKeeps, Job, github, evidence
<1>2. j \in Jobs /\ pub \in Controllers /\ pledger[j].status = "none"
  BY <1>1, AtWork DEF Inv, PublisherWorks
<1>3. CASE pledger' = [pledger EXCEPT ![j].status = "drifted"] /\ PubDone
  <2>. DEFINE e == [status |-> "drifted", head |-> pledger[j].head]
  <2>1. /\ pledger \in [Jobs -> [status : {"none", "published", "drifted", "superseded"},
                                 head : Commits]]
    BY DEF Inv, TypeOK
  <2>2. pledger' = [pledger EXCEPT ![j] = e]
    <3>1. pledger[j] \in [status : {"none", "published", "drifted", "superseded"},
                          head : Commits]
      BY <1>2, <2>1
    <3>2. [pledger[j] EXCEPT !.status = "drifted"] = e
      BY <3>1
    <3>3. pledger' = [pledger EXCEPT ![j] = [pledger[j] EXCEPT !.status = "drifted"]]
      BY <1>3
    <3>4. QED
      BY <3>2, <3>3
  <2>3. e \in [status : {"published", "drifted", "superseded"}, head : Commits]
    BY <1>2, <2>1
  <2>4. \A i \in Jobs \ {j} : pledger'[i] = pledger[i]
    BY <2>1, <2>2
  <2>5. PublisherWorks' /\ pub' \in Controllers
    BY <1>1, <1>3, <2>4, PublisherGoesOn
  <2>6. e.status = "drifted"
    OBVIOUS
  <2>. HIDE DEF e, j
  <2>7. QED
    BY <1>1, <1>2, <2>2, <2>3, <2>5, <2>6, LedgerMoves DEF github, evidence
<1>4. CASE pub' = [On(pub, "push") EXCEPT !.base = main] /\ pledger' = pledger
  <2>1. /\ pub' \in Controllers /\ pub'.at = "push" /\ pub'.job = j
        /\ pub'.new = pub.new /\ pub'.old = pub.old
    <3>1. main \in Nat
      BY DEF Inv, TypeOK
    <3>2. QED
      BY <1>2, <1>4, <3>1 DEF On, Controllers, Phases, PubPhases
  <2>2. PublisherWorks'
    BY <1>1, <1>4, <2>1 DEF Inv, PublisherWorks, PubPhases, Open
  <2>3. CompletionWorks' /\ com' \in Controllers
    BY <1>1, CompletionStays
  <2>4. QED
    BY <1>1, <1>4, <2>1, <2>2, <2>3, NothingStated DEF Inv, TypeOK, evidence
<1>5. QED
  BY <1>1, <1>3, <1>4

\* PubPush keeps the invariant.
LEMMA PubPushKeeps == ASSUME Inv, PubPush PROVE Inv'
<1>1. /\ pub.at = "push"
      /\ UNCHANGED <<main, touched, pull, green, revision, report, ready, claim,
                     stream, pledger, cledger, com, events>>
      /\ \/ pub' = Rest /\ branch' = branch
         \/ /\ pub' = On(pub, "pull")
            /\ branch' = [branch EXCEPT ![pub.job] = CommitOn(pub.base)]
  BY DEF PubPush, PubAt, PubKeeps, PubRaises, Job, evidence
<1>2. pub.job \in Jobs /\ pub \in Controllers /\ branch \in [Jobs -> Commits]
  BY <1>1, AtWork DEF Inv, TypeOK
<1>3. branch' \in [Jobs -> Commits]
  BY <1>1, <1>2 DEF Commits, CommitOn, Controllers
<1>4. PublisherWorks' /\ pub' \in Controllers
  <2>1. CASE pub' = Rest
    BY <2>1, PublisherRests
  <2>2. CASE pub' = On(pub, "pull")
    <3>1. "pull" \in Phases
      BY DEF Phases, PubPhases
    <3>2. /\ pub' \in Controllers /\ pub'.at = "pull" /\ pub'.job = pub.job
          /\ pub'.new = pub.new /\ pub'.old = pub.old
      BY <1>2, <2>2, <3>1, OnFits
    <3>3. QED
      BY <1>1, <3>2 DEF Inv, PublisherWorks, PubPhases, Open
  <2>3. QED
    BY <1>1, <2>1, <2>2
<1>5. CompletionWorks' /\ com' \in Controllers
  BY <1>1, CompletionStays
<1>6. QED
  BY <1>1, <1>3, <1>4, <1>5, NothingStated DEF Inv, TypeOK, evidence

\* The only step that opens a pull request; nothing names the job yet.
LEMMA PubPullKeeps == ASSUME Inv, PubPull PROVE Inv'
<1>. DEFINE j == pub.job
<1>1. /\ pub.at = "pull"
      /\ UNCHANGED <<main, touched, branch, green, revision, report, ready, claim,
                     stream, pledger, cledger, com, events>>
      /\ \/ pull' = pull
         \/ /\ pull[j] = NoPull
            /\ pull' = [pull EXCEPT ![j].state = "draft", ![j].head = branch[j]]
      /\ \/ pub' = Rest
         \/ pub' = On(pub, "report") /\ pull'[j].state = "draft"
  BY DEF PubPull, PubAt, PubKeeps, PubRaises, Job, evidence
<1>2. /\ j \in Jobs /\ pub \in Controllers /\ pledger[j].status = "none" /\ ~Open(j)
      /\ j \in revision
  BY <1>1, AtWork DEF Inv, PublisherWorks
<1>3. /\ pull \in [Jobs -> [state : {"none", "draft", "ready", "merged", "closed",
                                     "superseded"},
                            head : Commits, by : {"none", "founder", "completion"}]]
      /\ branch \in [Jobs -> Commits] /\ ready \subseteq Jobs
  BY DEF Inv, TypeOK
<1>4. CASE pull' = pull
  <2>1. pub' = Rest
    BY <1>1, <1>2, <1>4 DEF Open
  <2>2. PublisherWorks' /\ pub' \in Controllers /\ CompletionWorks' /\ com' \in Controllers
    BY <1>1, <1>4, <2>1, PublisherRests, CompletionStays
  <2>3. QED
    BY <1>1, <1>4, <2>2, NothingStated DEF Inv, TypeOK, evidence
<1>5. CASE /\ pull[j] = NoPull
           /\ pull' = [pull EXCEPT ![j].state = "draft", ![j].head = branch[j]]
  <2>1. j \notin ready /\ claim[j].state = "active"
    <3>1. pull[j].state = "none"
      BY <1>5 DEF NoPull
    <3>2. QED
      BY <1>2, <1>5, <3>1 DEF Inv, ReadyIsReal, ClaimCoversDraft
  <2>2. /\ pull'[j].state = "draft" /\ pull'[j].by = "none"
        /\ \A i \in Jobs \ {j} : pull'[i] = pull[i]
    BY <1>2, <1>3, <1>5 DEF NoPull
  <2>3. pull' \in [Jobs -> [state : {"none", "draft", "ready", "merged", "closed",
                                     "superseded"},
                            head : Commits, by : {"none", "founder", "completion"}]]
    BY <1>2, <1>3, <1>5
  <2>. HIDE DEF j
  <2>4. PublisherWorks' /\ pub' \in Controllers
    <3>1. CASE pub' = Rest
      BY <3>1, PublisherRests
    <3>2. CASE pub' = On(pub, "report")
      <4>1. "report" \in Phases
        BY DEF Phases, PubPhases
      <4>2. /\ pub' \in Controllers /\ pub'.at = "report" /\ pub'.job = j
            /\ pub'.new = pub.new /\ pub'.old = pub.old
        BY <1>2, <3>2, <4>1, OnFits DEF j
      <4>3. j \notin pub'.new \union pub'.old
        BY <1>1, <4>2 DEF Inv, PublisherWorks, j
      <4>4. QED
        BY <1>1, <1>2, <2>1, <2>2, <4>2, <4>3 DEF Inv, PublisherWorks, PubPhases
    <3>3. QED
      BY <1>1, <3>1, <3>2
  <2>5. CompletionWorks' /\ com' \in Controllers
    BY <1>1, <1>3, <2>1, <2>2, AtWork DEF Inv, CompletionWorks, Merged
  <2>6. TypeOK'
    BY <1>1, <2>3, <2>4, <2>5 DEF Inv, TypeOK
  <2>7. ReadyIsReal'
    BY <1>1, <2>1, <2>2 DEF Inv, ReadyIsReal, NoPull
  <2>8. EntriesNameTheReport'
    BY <1>1, <2>1, <2>2 DEF Inv, EntriesNameTheReport, Merged
  <2>9. ClaimCoversDraft'
    BY <1>1, <2>1, <2>2 DEF Inv, ClaimCoversDraft, Open
  <2>10. LedgersFollow'
    <3>1. cledger[j].status \in {"none", "escalated"} /\ pledger[j].status = "none"
      BY <1>2, <2>1 DEF Inv, EntriesNameTheReport
    <3>2. QED
      BY <1>1, <2>1, <2>2, <3>1 DEF Inv, LedgersFollow, Merged
  <2>11. QED
    BY <2>4, <2>5, <2>6, <2>7, <2>8, <2>9, <2>10 DEF Inv
<1>6. QED
  BY <1>1, <1>4, <1>5

\* PubReport keeps the invariant.
LEMMA PubReportKeeps == ASSUME Inv, PubReport PROVE Inv'
<1>. DEFINE j == pub.job
            r == [commit |-> CommitOn(pub.base), generation |-> claim[j].generation]
<1>1. /\ pub.at = "report"
      /\ UNCHANGED <<main, touched, branch, pull, green, revision, ready, claim,
                     stream, pledger, cledger, com, events>>
      /\ report' = [report EXCEPT ![j] = r]
      /\ pub' = On(pub, "sidecars")
  BY DEF PubReport, PubAt, PubKeeps, Job, github
<1>2. /\ j \in Jobs /\ pub \in Controllers /\ pledger[j].status = "none"
      /\ j \in revision /\ j \notin ready /\ pull[j].state # "none"
  BY <1>1, AtWork DEF Inv, PublisherWorks
<1>3. /\ report \in [Jobs -> [commit : Commits, generation : Nat]]
      /\ claim[j].generation \in Nat /\ ready \subseteq Jobs
  BY <1>2 DEF Inv, TypeOK
<1>4. r \in [commit : Commits, generation : Nat]
  BY <1>2, <1>3 DEF Commits, CommitOn, Controllers
<1>5. report' \in [Jobs -> [commit : Commits, generation : Nat]]
  BY <1>1, <1>3, <1>4
<1>6. /\ report'[j].commit = CommitOn(pub.base)
      /\ report'[j].generation = claim[j].generation
      /\ \A i \in Jobs \ {j} : report'[i] = report[i]
  BY <1>1, <1>2, <1>3
<1>. HIDE DEF j, r
<1>7. PublisherWorks' /\ pub' \in Controllers
  <2>1. "sidecars" \in Phases
    BY DEF Phases, PubPhases
  <2>2. /\ pub' \in Controllers /\ pub'.at = "sidecars" /\ pub'.job = j
        /\ pub'.base = pub.base /\ pub'.new = pub.new /\ pub'.old = pub.old
    BY <1>1, <1>2, <2>1, OnFits DEF j
  <2>3. j \notin pub'.new \union pub'.old
    BY <1>1, <2>2 DEF Inv, PublisherWorks, j
  <2>4. QED
    BY <1>1, <1>2, <1>6, <2>2, <2>3 DEF Inv, PublisherWorks, PubPhases, CommitOn
<1>8. CompletionWorks' /\ com' \in Controllers
  BY <1>1, <1>2, <1>3, <1>6, AtWork DEF Inv, CompletionWorks, Merged
<1>9. TypeOK'
  BY <1>1, <1>5, <1>7, <1>8 DEF Inv, TypeOK
<1>10. ReadyIsReal'
  BY <1>1, <1>2, <1>3, <1>6 DEF Inv, ReadyIsReal, NoPull
<1>11. EntriesNameTheReport'
  BY <1>1, <1>2, <1>6 DEF Inv, EntriesNameTheReport, Merged
<1>12. ClaimCoversDraft'
  BY <1>1 DEF Inv, ClaimCoversDraft, Open
<1>13. LedgersFollow'
  <2>1. cledger[j].status \in {"none", "escalated"}
    BY <1>2 DEF Inv, EntriesNameTheReport
  <2>2. QED
    BY <1>1, <1>2, <1>6, <2>1 DEF Inv, LedgersFollow, Merged
<1>14. QED
  BY <1>7, <1>8, <1>9, <1>10, <1>11, <1>12, <1>13 DEF Inv

\* PubSidecars keeps the invariant.
LEMMA PubSidecarsKeeps == ASSUME Inv, PubSidecars PROVE Inv'
<1>. DEFINE j == pub.job
<1>1. /\ pub.at = "sidecars"
      /\ UNCHANGED <<main, touched, branch, pull, green, revision, report, claim,
                     stream, pledger, cledger, com, events>>
      /\ ready' = ready \union {j} /\ pub' = On(pub, "ledger")
  BY DEF PubSidecars, PubAt, PubKeeps, Job, github
<1>2. /\ j \in Jobs /\ pub \in Controllers /\ pledger[j].status = "none"
      /\ j \in revision /\ pull[j].state # "none" /\ pub.base \in Nat
      /\ report[j].commit = CommitOn(pub.base)
  BY <1>1, AtWork DEF Inv, PublisherWorks, Controllers
<1>3. report[j].commit # NoCommit
  BY <1>2 DEF CommitOn, NoCommit
<1>. HIDE DEF j
<1>4. PublisherWorks' /\ pub' \in Controllers
  <2>1. "ledger" \in Phases
    BY DEF Phases, PubPhases
  <2>2. /\ pub' \in Controllers /\ pub'.at = "ledger" /\ pub'.job = j
        /\ pub'.base = pub.base /\ pub'.new = pub.new /\ pub'.old = pub.old
    BY <1>1, <1>2, <2>1, OnFits DEF j
  <2>3. j \notin pub'.new \union pub'.old
    BY <1>1, <2>2 DEF Inv, PublisherWorks, j
  <2>4. QED
    BY <1>1, <1>2, <2>2, <2>3 DEF Inv, PublisherWorks, PubPhases, CommitOn
<1>5. CompletionWorks' /\ com' \in Controllers
  BY <1>1, AtWork DEF Inv, CompletionWorks, Merged
<1>6. TypeOK'
  BY <1>1, <1>2, <1>4, <1>5 DEF Inv, TypeOK
<1>7. ReadyIsReal'
  BY <1>1, <1>2, <1>3 DEF Inv, ReadyIsReal, NoPull
<1>8. EntriesNameTheReport' /\ ClaimCoversDraft'
  BY <1>1 DEF Inv, EntriesNameTheReport, ClaimCoversDraft, Merged, Open
<1>9. LedgersFollow'
  BY <1>1, <1>2, <1>3 DEF Inv, LedgersFollow, Merged
<1>10. QED
  BY <1>4, <1>5, <1>6, <1>7, <1>8, <1>9 DEF Inv

\* PubLedger keeps the invariant.
LEMMA PubLedgerKeeps == ASSUME Inv, PubLedger PROVE Inv'
<1>. DEFINE j == pub.job
            e == [status |-> "published", head |-> CommitOn(pub.base)]
<1>1. /\ pub.at = "ledger"
      /\ UNCHANGED <<main, touched, branch, pull, green, revision, report, ready, claim,
                     stream, cledger, com, events>>
      /\ pledger' = [pledger EXCEPT ![j] = e] /\ pub' = On(pub, "state")
  BY DEF PubLedger, PubAt, PubKeeps, Job, github, evidence
<1>2. /\ j \in Jobs /\ pub \in Controllers /\ pledger[j].status = "none"
      /\ j \in ready /\ report[j].commit = CommitOn(pub.base)
      /\ pledger \in [Jobs -> [status : {"none", "published", "drifted", "superseded"},
                               head : Commits]]
      /\ \A i \in pub.new \union pub.old : pledger[i].status # "drifted"
      /\ j \notin pub.new \union pub.old
  BY <1>1, AtWork DEF Inv, TypeOK, PublisherWorks
<1>3. /\ e \in [status : {"published", "drifted", "superseded"}, head : Commits]
      /\ e.status = "published" /\ e.head = report[j].commit
  BY <1>2 DEF Commits, CommitOn, Controllers
<1>4. PublisherWorks' /\ pub' \in Controllers
  <2>1. "state" \in Phases
    BY DEF Phases, PubPhases
  <2>2. /\ pub' \in Controllers /\ pub'.at = "state" /\ pub'.job = j
        /\ pub'.new = pub.new /\ pub'.old = pub.old
    BY <1>1, <1>2, <2>1, OnFits
  <2>3. \A i \in pub.new \union pub.old : pledger'[i] = pledger[i]
    <3>1. pub.new \subseteq Jobs /\ pub.old \subseteq Jobs
      BY <1>2 DEF Controllers
    <3>2. QED
      BY <1>1, <1>2, <3>1
  <2>. HIDE DEF j, e
  <2>4. QED
    BY <1>2, <2>2, <2>3 DEF PublisherWorks, PubPhases
<1>. HIDE DEF j, e
<1>5. QED
  BY <1>1, <1>2, <1>3, <1>4, LedgerMoves DEF github, evidence

\* PubState keeps the invariant.
LEMMA PubStateKeeps == ASSUME Inv, PubState PROVE Inv'
<1>. DEFINE j == pub.job
<1>1. /\ pub.at = "state"
      /\ UNCHANGED <<main, touched, branch, pull, green, revision, report, ready, claim,
                     pledger, cledger, com, events>>
      /\ \/ pub' = Rest /\ stream' = stream
         \/ /\ stream[j] # "merged" /\ stream' = [stream EXCEPT ![j] = "drafted"]
            /\ PubDone
  BY DEF PubState, PubAt, PubKeeps, PubRaises, Job, github
<1>2. j \in Jobs
  BY <1>1, AtWork
<1>3. PublisherWorks' /\ pub' \in Controllers
  BY <1>1, PublisherRests, PublisherGoesOn
<1>4. com' \in Controllers /\ com' = com
  BY <1>1, AtWork
<1>5. CASE stream' = stream
  <2>1. CompletionWorks'
    BY <1>1, <1>5, CompletionStays
  <2>2. QED
    BY <1>1, <1>3, <1>4, <1>5, <2>1, NothingStated DEF Inv, TypeOK, evidence
<1>6. CASE stream[j] # "merged" /\ stream' = [stream EXCEPT ![j] = "drafted"]
  <2>. HIDE DEF j
  <2>1. QED
    BY <1>1, <1>2, <1>3, <1>4, <1>6, StreamMoves DEF github
<1>7. QED
  BY <1>1, <1>5, <1>6

\* PubVerify keeps the invariant.
LEMMA PubVerifyKeeps == ASSUME Inv, PubVerify PROVE Inv'
<1>1. /\ pub.at = "verify"
      /\ UNCHANGED <<main, touched, branch, pull, green, revision, report, ready, claim,
                     stream, pledger, cledger, com, events>>
      /\ \/ pub' = Rest
         \/ pub' = On(pub, "branch")
         \/ pub' = On(pub, "merged") /\ Merged(pub.job)
         \/ pub' = On(pub, "superseded") /\ pull[pub.job].state = "superseded"
  <2>1. /\ pub.at = "verify"
        /\ UNCHANGED <<main, touched, branch, pull, green, revision, report, ready, claim,
                       stream, pledger, cledger, com, events>>
    BY DEF PubVerify, PubAt, PubKeeps, github, evidence
  <2>2. CASE ~PullVerified(pub.job)
    BY <2>1, <2>2 DEF PubVerify, PubRaises, Job
  <2>3. CASE PullVerified(pub.job)
    <3>1. pub' = On(pub, IF Open(pub.job) THEN "branch" ELSE pull[pub.job].state)
      BY <2>3 DEF PubVerify, Job
    <3>2. CASE Open(pub.job)
      BY <2>1, <3>1, <3>2
    <3>3. CASE ~Open(pub.job)
      <4>1. \/ pull[pub.job].state = "merged" \/ pull[pub.job].state = "superseded"
        BY <2>3, <3>3 DEF PullVerified, ContentSurvived, SupersededByFounder, Merged
      <4>2. pub' = On(pub, pull[pub.job].state)
        BY <3>1, <3>3, Zenon
      <4>3. QED
        BY <2>1, <4>1, <4>2 DEF Merged
    <3>4. QED
      BY <3>2, <3>3
  <2>4. QED
    BY <2>2, <2>3
<1>2. /\ pub.job \in Jobs /\ pub \in Controllers
      /\ pledger[pub.job].status \in {"published", "superseded"}
  BY <1>1, AtWork DEF Inv, PublisherWorks
<1>3. PublisherWorks' /\ pub' \in Controllers
  <2>1. ASSUME NEW at \in {"branch", "merged", "superseded"}, pub' = On(pub, at),
               at = "merged" => Merged(pub.job),
               at = "superseded" => pull[pub.job].state = "superseded"
        PROVE  PublisherWorks' /\ pub' \in Controllers
    <3>1. at \in Phases
      BY DEF Phases, PubPhases
    <3>2. /\ pub' \in Controllers /\ pub'.at = at /\ pub'.job = pub.job
          /\ pub'.new = pub.new /\ pub'.old = pub.old
      BY <1>2, <2>1, <3>1, OnFits
    <3>3. QED
      BY <1>1, <1>2, <2>1, <3>2 DEF Inv, PublisherWorks, PubPhases, Merged
  <2>2. QED
    BY <1>1, <2>1, PublisherRests
<1>4. CompletionWorks' /\ com' \in Controllers
  BY <1>1, CompletionStays
<1>5. QED
  BY <1>1, <1>3, <1>4, NothingStated DEF Inv, TypeOK, evidence

\* PubBranch keeps the invariant.
LEMMA PubBranchKeeps == ASSUME Inv, PubBranch PROVE Inv'
<1>1. /\ pub.at \in {"branch", "merged", "superseded"}
      /\ UNCHANGED <<main, touched, branch, pull, green, revision, report, ready, claim,
                     stream, pledger, cledger, com, events>>
      /\ \/ pub' = Rest
         \/ pub.at = "branch" /\ pub' = On(pub, "state")
         \/ pub.at = "merged" /\ pub' = On(pub, "free")
         \/ pub.at = "superseded" /\ pub' = On(pub, "record")
  <2>. DEFINE next == [branch |-> "state", merged |-> "free", superseded |-> "record"]
  <2>1. /\ pub.at \in {"branch", "merged", "superseded"}
        /\ UNCHANGED <<main, touched, branch, pull, green, revision, report, ready, claim,
                       stream, pledger, cledger, com, events>>
    BY DEF PubBranch, PubKeeps, github, evidence
  <2>2. pub' = Rest \/ pub' = On(pub, next[pub.at])
    BY Zenon DEF PubBranch, PubRaises
  <2>3. /\ next["branch"] = "state" /\ next["merged"] = "free"
        /\ next["superseded"] = "record"
    OBVIOUS
  <2>. HIDE DEF next
  <2>4. QED
    BY <2>1, <2>2, <2>3
<1>2. /\ pub.job \in Jobs /\ pub \in Controllers
      /\ pledger[pub.job].status \in {"published", "superseded"}
  BY <1>1, AtWork DEF Inv, PublisherWorks
<1>3. PublisherWorks' /\ pub' \in Controllers
  <2>1. ASSUME NEW at \in {"state", "free", "record"}, pub' = On(pub, at),
               at = "free" => Merged(pub.job),
               at = "record" => pull[pub.job].state = "superseded"
        PROVE  PublisherWorks' /\ pub' \in Controllers
    <3>1. at \in Phases
      BY DEF Phases, PubPhases
    <3>2. /\ pub' \in Controllers /\ pub'.at = at /\ pub'.job = pub.job
          /\ pub'.new = pub.new /\ pub'.old = pub.old
      BY <1>2, <2>1, <3>1, OnFits
    <3>3. QED
      BY <1>1, <1>2, <2>1, <3>2 DEF Inv, PublisherWorks, PubPhases, Merged
  <2>2. /\ pub.at = "merged" => Merged(pub.job)
        /\ pub.at = "superseded" => pull[pub.job].state = "superseded"
    BY DEF Inv, PublisherWorks
  <2>3. QED
    BY <1>1, <2>1, <2>2, PublisherRests
<1>4. CompletionWorks' /\ com' \in Controllers
  BY <1>1, CompletionStays
<1>5. QED
  BY <1>1, <1>3, <1>4, NothingStated DEF Inv, TypeOK, evidence

\* A release keeps the generation.
LEMMA ReleaseKeepsGeneration ==
    ASSUME Inv, NEW j \in Jobs, NEW s \in {"merged", "superseded"}
    PROVE  /\ claim[j].generation \in Nat
           /\ Released(j, s) = [claim EXCEPT ![j] = [generation |-> claim[j].generation,
                                                     state |-> s]]
<1>1. claim[j] \in [generation : Nat, state : {"active", "merged", "superseded"}]
  BY DEF Inv, TypeOK
<1>2. [claim[j] EXCEPT !.state = s] = [generation |-> claim[j].generation, state |-> s]
  BY <1>1
<1>3. Released(j, s) = [claim EXCEPT ![j] = [claim[j] EXCEPT !.state = s]]
  BY DEF Released
<1>4. QED
  BY <1>1, <1>2, <1>3

\* The publisher frees a claim, or finds it is not its own, and goes on.
LEMMA PublisherFrees ==
    ASSUME Inv, NEW s \in {"merged", "superseded"}, pub.at # "rest",
           pull[pub.job].state = s,
           claim' = IF Releasable(pub.job) THEN Released(pub.job, s) ELSE claim,
           UNCHANGED <<github, revision, report, ready, stream, pledger, cledger, com,
                       events>>,
           PublisherWorks', pub' \in Controllers
    PROVE  Inv'
<1>. DEFINE j == pub.job
<1>1. j \in Jobs /\ com' = com /\ com' \in Controllers
  BY AtWork
<1>2. CASE Releasable(j)
  <2>1. /\ claim[j].generation \in Nat
        /\ claim' = [claim EXCEPT ![j] = [generation |-> claim[j].generation, state |-> s]]
    BY <1>1, <1>2, ReleaseKeepsGeneration
  <2>2. pull[j].state = s
    OBVIOUS
  <2>. HIDE DEF j
  <2>3. QED
    BY <1>1, <2>1, <2>2, ClaimMoves
<1>3. CASE ~Releasable(j)
  <2>1. claim' = claim
    BY <1>3
  <2>2. CompletionWorks'
    BY <2>1, CompletionStays DEF github
  <2>3. QED
    BY <1>1, <2>1, <2>2, NothingStated DEF Inv, TypeOK, github, evidence
<1>4. QED
  BY <1>2, <1>3

\* PubFree keeps the invariant.
LEMMA PubFreeKeeps == ASSUME Inv, PubFree PROVE Inv'
<1>1. /\ pub.at = "free"
      /\ UNCHANGED <<github, revision, report, ready, stream, pledger, cledger, com,
                     events>>
      /\ UNCHANGED pull
      /\ claim' = IF Releasable(pub.job) THEN Released(pub.job, "merged") ELSE claim
      /\ pub' = On(pub, "state")
  BY DEF PubFree, PubAt, PubKeeps, Job, github
<1>2. /\ pub.job \in Jobs /\ pub \in Controllers /\ Merged(pub.job)
  BY <1>1, AtWork DEF Inv, PublisherWorks
<1>3. PublisherWorks' /\ pub' \in Controllers
  <2>1. "state" \in Phases
    BY DEF Phases, PubPhases
  <2>2. /\ pub' \in Controllers /\ pub'.at = "state" /\ pub'.job = pub.job
        /\ pub'.new = pub.new /\ pub'.old = pub.old
    BY <1>1, <1>2, <2>1, OnFits
  <2>3. QED
    BY <1>1, <2>2 DEF Inv, PublisherWorks, PubPhases
<1>4. QED
  BY <1>1, <1>2, <1>3, PublisherFrees DEF Merged

\* PubRecord keeps the invariant.
LEMMA PubRecordKeeps == ASSUME Inv, PubRecord PROVE Inv'
<1>. DEFINE j == pub.job
            e == [status |-> "superseded", head |-> pledger[j].head]
<1>1. /\ pub.at = "record"
      /\ UNCHANGED <<main, touched, branch, pull, green, revision, report, ready, claim,
                     stream, cledger, com, events>>
      /\ pledger' = [pledger EXCEPT ![j] = [pledger[j] EXCEPT !.status = "superseded"]]
      /\ pub' = On(pub, "yield")
  BY DEF PubRecord, PubAt, PubKeeps, Job, github, evidence
<1>2. /\ j \in Jobs /\ pub \in Controllers
      /\ pledger[j].status \in {"published", "superseded"}
      /\ pull[j].state = "superseded"
      /\ pledger \in [Jobs -> [status : {"none", "published", "drifted", "superseded"},
                               head : Commits]]
      /\ \A i \in pub.new \union pub.old : pledger[i].status # "drifted"
      /\ j \notin pub.new \union pub.old
  BY <1>1, AtWork DEF Inv, TypeOK, PublisherWorks
<1>3. /\ e \in [status : {"published", "drifted", "superseded"}, head : Commits]
      /\ e.status = "superseded" /\ e.head = pledger[j].head
  BY <1>2
<1>4. pledger' = [pledger EXCEPT ![j] = e]
  <2>1. pledger[j] \in [status : {"none", "published", "drifted", "superseded"},
                        head : Commits]
    BY <1>2
  <2>2. [pledger[j] EXCEPT !.status = "superseded"] = e
    BY <2>1
  <2>3. QED
    BY <1>1, <2>2
<1>5. j \in ready /\ report[j].commit = e.head
  BY <1>2, <1>3 DEF Inv, LedgersFollow
<1>6. PublisherWorks' /\ pub' \in Controllers
  <2>1. "yield" \in Phases
    BY DEF Phases, PubPhases
  <2>2. /\ pub' \in Controllers /\ pub'.at = "yield" /\ pub'.job = j
        /\ pub'.new = pub.new /\ pub'.old = pub.old
    BY <1>1, <1>2, <2>1, OnFits
  <2>3. \A i \in pub.new \union pub.old : pledger'[i] = pledger[i]
    <3>1. pub.new \subseteq Jobs /\ pub.old \subseteq Jobs
      BY <1>2 DEF Controllers
    <3>2. QED
      BY <1>2, <1>4, <3>1
  <2>4. pledger'[j].status = "superseded"
    BY <1>2, <1>4
  <2>. HIDE DEF j, e
  <2>5. QED
    BY <1>1, <1>2, <2>2, <2>3, <2>4 DEF PublisherWorks, PubPhases
<1>. HIDE DEF j, e
<1>7. QED
  BY <1>1, <1>2, <1>3, <1>4, <1>5, <1>6, LedgerMoves DEF github, evidence

\* PubYield keeps the invariant.
LEMMA PubYieldKeeps == ASSUME Inv, PubYield PROVE Inv'
<1>1. /\ pub.at = "yield"
      /\ UNCHANGED <<github, revision, report, ready, stream, pledger, cledger, com,
                     events>>
      /\ claim' = IF Releasable(pub.job) THEN Released(pub.job, "superseded") ELSE claim
      /\ PubDone
  BY DEF PubYield, PubAt, PubKeeps, Job
<1>2. pull[pub.job].state = "superseded"
  BY <1>1 DEF Inv, PublisherWorks
<1>3. PublisherWorks' /\ pub' \in Controllers
  BY <1>1, PublisherGoesOn
<1>4. QED
  BY <1>1, <1>2, <1>3, PublisherFrees

-----------------------------------------------------------------------------
\* The completion controller.

\* The next step with the same job.
LEMMA CompletionAdvances ==
    ASSUME Inv, NEW at \in ComPhases \ {"escalate"}, com' = On(com, at),
           com.at \notin {"rest", "escalate"}, ready' = ready,
           \A j \in com.new : cledger'[j] = cledger[j],
           at \in {"intent", "merge", "accept"} => cledger'[com.job].status = "intent",
           at \in {"accept", "cleanup", "clean", "report", "free", "close"}
             => pull'[com.job].state = "merged",
           at \in {"free", "close"} => stream'[com.job] = "merged",
           at = "close" => \/ claim'[com.job].generation # report'[com.job].generation
                           \/ claim'[com.job].state = "merged"
    PROVE  CompletionWorks' /\ com' \in Controllers
<1>1. at \in Phases /\ at \in ComPhases /\ at # "escalate" /\ at # "rest"
  BY DEF Phases, ComPhases
<1>2. /\ com' \in Controllers /\ com'.at = at /\ com'.job = com.job
      /\ com'.new = com.new
  BY <1>1, AtWork, OnFits
<1>3. com.job \in ready /\ com.job \in AutoMerge /\ com.job \notin com.new
      /\ com.new \subseteq ready
      /\ \A j \in com.new : cledger[j].status \notin {"merged", "escalated"}
  BY DEF Inv, CompletionWorks
<1>4. QED
  BY <1>1, <1>2, <1>3 DEF CompletionWorks, Merged

\* ComStart keeps the invariant.
LEMMA ComStartKeeps == ASSUME Inv, ComStart PROVE Inv'
<1>. DEFINE todo == {j \in Jobs : /\ Evidenced(j)
                                  /\ cledger[j].status \notin {"merged", "escalated"}}
<1>1. /\ com' = ComTurn(todo)
      /\ UNCHANGED <<main, touched, branch, pull, green, revision, report, ready, claim,
                     stream, pledger, cledger, pub, events>>
  BY DEF ComStart, ComKeeps, github, evidence
<1>2. /\ todo \in SUBSET ready
      /\ \A j \in todo : /\ cledger[j].status \notin {"merged", "escalated"}
                         /\ cledger'[j] = cledger[j]
  BY <1>1 DEF Evidenced
<1>. HIDE DEF todo
<1>3. CompletionWorks' /\ com' \in Controllers
  BY <1>1, <1>2, CompletionTurns
<1>4. PublisherWorks' /\ pub' \in Controllers
  BY <1>1, PublisherStays
<1>5. QED
  BY <1>1, <1>3, <1>4, NothingStated DEF Inv, TypeOK, evidence

\* ComEscalate keeps the invariant.
LEMMA ComEscalateKeeps == ASSUME Inv, ComEscalate PROVE Inv'
<1>1. /\ com.at = "escalate" /\ ComDone
      /\ cledger' = [cledger EXCEPT ![com.job] =
                       [status |-> "escalated", head |-> report[com.job].commit]]
      /\ UNCHANGED <<github, evidence, pledger, pub, events>>
      /\ UNCHANGED <<pull, ready>>
  BY DEF ComEscalate, ComAt, ComKeeps, Entered, Job, github, evidence
<1>2. com.job \in ready /\ cledger \in [Jobs -> [status : ComStatus, head : Commits]]
  BY <1>1, AtWork DEF Inv, TypeOK
<1>3. \A j \in Jobs \ {com.job} : cledger'[j] = cledger[j]
  BY <1>1, <1>2
<1>4. CompletionWorks' /\ com' \in Controllers
  BY <1>1, <1>3, CompletionGoesOn
<1>5. "escalated" \in ComStatus \ {"none"}
  BY DEF ComStatus
<1>6. QED
  BY <1>1, <1>2, <1>4, <1>5, EntryMoves

\* ComUndraft keeps the invariant.
LEMMA ComUndraftKeeps == ASSUME Inv, ComUndraft PROVE Inv'
<1>. DEFINE j == com.job
<1>1. /\ com.at = "undraft" /\ com' = On(com, "review")
      /\ UNCHANGED <<main, touched, branch, green, revision, report, ready, claim, stream,
                     pledger, cledger, pub, events>>
      /\ pull' = IF pull[j].state = "draft"
                 THEN [pull EXCEPT ![j].state = "ready"] ELSE pull
  BY DEF ComUndraft, ComAt, ComKeeps, Job, evidence
<1>2. /\ j \in Jobs /\ "review" \in ComPhases \ {"escalate"}
      /\ pull \in [Jobs -> [state : {"none", "draft", "ready", "merged", "closed",
                                     "superseded"},
                            head : Commits, by : {"none", "founder", "completion"}]]
  BY <1>1, AtWork DEF Inv, TypeOK, ComPhases
<1>3. CompletionWorks' /\ com' \in Controllers
  BY <1>1, <1>2, CompletionAdvances
<1>4. pull' \in [Jobs -> [state : {"none", "draft", "ready", "merged", "closed",
                                   "superseded"},
                          head : Commits, by : {"none", "founder", "completion"}]]
  BY <1>1, <1>2
<1>5. \A i \in Jobs : \/ pull'[i] = pull[i]
                      \/ Open(i) /\ pull'[i].state # "none" /\ pull'[i].by = pull[i].by
  BY <1>1, <1>2 DEF Open
<1>6. QED
  BY <1>1, <1>3, <1>4, <1>5, PullsMove DEF Inv, TypeOK

\* The steps that only look, or do not touch what is stated.
LEMMA CompletionLooks ==
    ASSUME Inv, UNCHANGED <<main, touched, pull, green, revision, report, ready, claim,
                            stream, pledger, cledger, pub, events>>,
           branch' \in [Jobs -> Commits],
           \/ com' = Rest
           \/ /\ com.at \notin {"rest", "escalate"}
              /\ \E at \in ComPhases \ {"escalate"} :
                   /\ com' = On(com, at) /\ at \notin {"accept", "report", "free", "close"}
                   /\ at \in {"intent", "merge"} => cledger[com.job].status = "intent"
                   /\ at \in {"cleanup", "clean"} => Merged(com.job)
    PROVE  Inv'
<1>1. CompletionWorks' /\ com' \in Controllers
  <2>1. CASE com' = Rest
    BY <2>1, CompletionRests
  <2>2. ASSUME NEW at \in ComPhases \ {"escalate"}, com' = On(com, at),
               com.at \notin {"rest", "escalate"},
               at \notin {"accept", "report", "free", "close"},
               at \in {"intent", "merge"} => cledger[com.job].status = "intent",
               at \in {"cleanup", "clean"} => Merged(com.job)
        PROVE  CompletionWorks' /\ com' \in Controllers
    BY <2>2, CompletionAdvances DEF Merged
  <2>3. QED
    BY <2>1, <2>2
<1>2. PublisherWorks' /\ pub' \in Controllers
  BY PublisherStays
<1>3. QED
  BY <1>1, <1>2, NothingStated DEF Inv, TypeOK, evidence

\* ComReview keeps the invariant.
LEMMA ComReviewKeeps == ASSUME Inv, ComReview PROVE Inv'
<1>1. /\ com.at = "review"
      /\ com' = Rest \/ com' = On(com, "checks")
      /\ UNCHANGED <<main, touched, branch, pull, green, revision, report, ready, claim,
                     stream, pledger, cledger, pub, events>>
  BY DEF ComReview, ComAt, ComKeeps, github, evidence
<1>2. "checks" \in ComPhases \ {"escalate"}
  BY DEF ComPhases
<1>3. QED
  BY <1>1, <1>2, CompletionLooks DEF Inv, TypeOK

\* ComChecks keeps the invariant.
LEMMA ComChecksKeeps == ASSUME Inv, ComChecks PROVE Inv'
<1>1. /\ com.at = "checks"
      /\ com' = Rest \/ com' = On(com, "reread")
      /\ UNCHANGED <<main, touched, branch, pull, green, revision, report, ready, claim,
                     stream, pledger, cledger, pub, events>>
  BY DEF ComChecks, ComAt, ComKeeps, github, evidence
<1>2. "reread" \in ComPhases \ {"escalate"}
  BY DEF ComPhases
<1>3. QED
  BY <1>1, <1>2, CompletionLooks DEF Inv, TypeOK

\* ComResumeIntent keeps the invariant.
LEMMA ComResumeIntentKeeps == ASSUME Inv, ComResumeIntent PROVE Inv'
<1>1. /\ com.at = "intent"
      /\ com' = Rest \/ com' = On(com, "verify") \/ com' = On(com, "merge")
      /\ UNCHANGED <<main, touched, branch, pull, green, revision, report, ready, claim,
                     stream, pledger, cledger, pub, events>>
  BY DEF ComResumeIntent, ComAt, ComKeeps, Job, github, evidence
<1>2. "verify" \in ComPhases \ {"escalate"} /\ "merge" \in ComPhases \ {"escalate"}
  BY DEF ComPhases
<1>3. cledger[com.job].status = "intent" /\ branch \in [Jobs -> Commits]
  BY <1>1 DEF Inv, TypeOK, CompletionWorks
<1>4. QED
  BY <1>1, <1>2, <1>3, CompletionLooks

\* ComCleanup keeps the invariant.
LEMMA ComCleanupKeeps == ASSUME Inv, ComCleanup PROVE Inv'
<1>1. /\ com.at = "cleanup" /\ com' = On(com, "clean")
      /\ UNCHANGED <<main, touched, pull, green, revision, report, ready, claim,
                     stream, pledger, cledger, pub, events>>
      /\ branch' = [branch EXCEPT ![com.job] = NoCommit]
  BY DEF ComCleanup, ComAt, ComKeeps, Job, evidence
<1>2. "clean" \in ComPhases \ {"escalate"}
  BY DEF ComPhases
<1>3. Merged(com.job) /\ branch' \in [Jobs -> Commits]
  BY <1>1, AtWork DEF Inv, TypeOK, CompletionWorks, Commits, NoCommit
<1>4. QED
  BY <1>1, <1>2, <1>3, CompletionLooks

\* A saved entry is one of EntryMoves.
LEMMA ComIntendKeeps == ASSUME Inv, ComIntend PROVE Inv'
<1>1. /\ com.at = "reread"
      /\ UNCHANGED <<main, touched, branch, pull, green, revision, report, ready, claim,
                     stream, pledger, pub, events>>
      /\ \/ com' = Rest /\ cledger' = cledger
         \/ /\ com' = On(com, "merge")
            /\ cledger' = [cledger EXCEPT ![com.job] =
                             [status |-> "intent", head |-> report[com.job].commit]]
  BY DEF ComIntend, ComAt, ComKeeps, ComRaises, Entered, Job, github, evidence
<1>2. CASE com' = Rest /\ cledger' = cledger
  BY <1>1, <1>2, CompletionLooks DEF Inv, TypeOK
<1>3. CASE /\ com' = On(com, "merge")
           /\ cledger' = [cledger EXCEPT ![com.job] =
                            [status |-> "intent", head |-> report[com.job].commit]]
  <2>1. /\ com.job \in ready /\ com.job \in Jobs /\ com.job \notin com.new
        /\ com.new \subseteq Jobs
      /\ cledger \in [Jobs -> [status : ComStatus, head : Commits]]
    BY <1>1, AtWork DEF Inv, TypeOK, CompletionWorks
  <2>2. /\ \A j \in com.new : cledger'[j] = cledger[j]
        /\ cledger'[com.job].status = "intent"
    BY <1>3, <2>1
  <2>3. "merge" \in ComPhases \ {"escalate"} /\ "intent" \in ComStatus \ {"none"}
    BY DEF ComPhases, ComStatus
  <2>4. CompletionWorks' /\ com' \in Controllers
    BY <1>1, <1>3, <2>2, <2>3, CompletionAdvances
  <2>5. QED
    BY <1>1, <1>3, <2>1, <2>3, <2>4, EntryMoves DEF github, evidence
<1>4. QED
  BY <1>1, <1>2, <1>3

\* ComAccept keeps the invariant.
LEMMA ComAcceptKeeps == ASSUME Inv, ComAccept PROVE Inv'
<1>1. /\ com.at = "accept" /\ com' = On(com, "verify")
      /\ UNCHANGED <<main, touched, branch, pull, green, revision, report, ready, claim,
                     stream, pledger, pub, events>>
      /\ cledger' = [cledger EXCEPT ![com.job] =
                       [status |-> "accepted", head |-> report[com.job].commit]]
  BY DEF ComAccept, ComAt, ComKeeps, Entered, Job, github, evidence
<1>2. /\ com.job \in ready /\ com.job \in Jobs /\ com.job \notin com.new
      /\ com.new \subseteq Jobs
      /\ cledger \in [Jobs -> [status : ComStatus, head : Commits]]
      /\ Merged(com.job)
  BY <1>1, AtWork DEF Inv, TypeOK, CompletionWorks
<1>3. \A j \in com.new : cledger'[j] = cledger[j]
  BY <1>1, <1>2
<1>4. "verify" \in ComPhases \ {"escalate"} /\ "accepted" \in ComStatus \ {"none"}
  BY DEF ComPhases, ComStatus
<1>5. CompletionWorks' /\ com' \in Controllers
  BY <1>1, <1>3, <1>4, CompletionAdvances
<1>6. QED
  BY <1>1, <1>2, <1>4, <1>5, EntryMoves DEF github, evidence

\* A first run saves what it has done; a later one goes on with what is saved.
LEMMA CompletionSaves ==
    ASSUME Inv, com.at \notin {"rest", "escalate"}, Merged(com.job),
           NEW s \in {"verified", "cleaned"}, cledger' = Saved(s),
           NEW at \in {"cleanup", "report"}, com' = On(com, at),
           UNCHANGED <<main, touched, branch, pull, green, revision, report, ready, claim,
                       stream, pledger, pub, events>>
    PROVE  Inv'
<1>1. /\ com.job \in ready /\ com.job \in Jobs /\ com.job \notin com.new
      /\ com.new \subseteq Jobs
      /\ cledger \in [Jobs -> [status : ComStatus, head : Commits]]
  BY AtWork DEF Inv, TypeOK, CompletionWorks
<1>2. \/ cledger' = cledger
      \/ cledger' = [cledger EXCEPT ![com.job] =
                       [status |-> s, head |-> report[com.job].commit]]
  BY DEF Saved, Entered, Job
<1>3. \A j \in com.new : cledger'[j] = cledger[j]
  BY <1>1, <1>2
<1>4. at \in ComPhases \ {"escalate"} /\ s \in ComStatus \ {"none"} /\ s # "merged"
  BY DEF ComPhases, ComStatus
<1>5. CompletionWorks' /\ com' \in Controllers
  BY <1>3, <1>4, CompletionAdvances DEF Merged
<1>6. CASE cledger' = cledger
  <2>1. PublisherWorks' /\ pub' \in Controllers
    BY PublisherStays
  <2>2. QED
    BY <1>5, <1>6, <2>1, NothingStated DEF Inv, TypeOK, evidence
<1>7. CASE cledger' = [cledger EXCEPT ![com.job] =
                         [status |-> s, head |-> report[com.job].commit]]
  BY <1>1, <1>4, <1>5, <1>7, EntryMoves DEF github, evidence
<1>8. QED
  BY <1>2, <1>6, <1>7

\* ComVerify keeps the invariant.
LEMMA ComVerifyKeeps == ASSUME Inv, ComVerify PROVE Inv'
<1>1. /\ com.at = "verify"
      /\ UNCHANGED <<main, touched, branch, pull, green, revision, report, ready, claim,
                     stream, pledger, pub, events>>
      /\ \/ com' = Rest /\ cledger' = cledger
         \/ Merged(com.job) /\ com' = On(com, "cleanup") /\ cledger' = Saved("verified")
  BY DEF ComVerify, ComAt, ComKeeps, ComRaises, Job, github, evidence
<1>2. CASE com' = Rest /\ cledger' = cledger
  BY <1>1, <1>2, CompletionLooks DEF Inv, TypeOK
<1>3. CASE Merged(com.job) /\ com' = On(com, "cleanup") /\ cledger' = Saved("verified")
  BY <1>1, <1>3, CompletionSaves
<1>4. QED
  BY <1>1, <1>2, <1>3

\* ComClean keeps the invariant.
LEMMA ComCleanKeeps == ASSUME Inv, ComClean PROVE Inv'
<1>1. /\ com.at = "clean" /\ com' = On(com, "report") /\ cledger' = Saved("cleaned")
      /\ UNCHANGED <<main, touched, branch, pull, green, revision, report, ready, claim,
                     stream, pledger, pub, events>>
  BY DEF ComClean, ComAt, ComKeeps, github, evidence
<1>2. Merged(com.job)
  BY <1>1 DEF Inv, CompletionWorks
<1>3. QED
  BY <1>1, <1>2, CompletionSaves

\* GitHub merges what is still at the head the intent names.
LEMMA ComMergeKeeps == ASSUME Inv, ComMerge PROVE Inv'
<1>. DEFINE j == com.job
<1>1. /\ com.at = "merge"
      /\ UNCHANGED <<touched, branch, green, revision, report, ready, claim, stream,
                     pledger, cledger, pub, events>>
      /\ \/ com' = Rest /\ UNCHANGED <<pull, main>>
         \/ /\ pull[j].state = "ready" /\ pull[j].head = cledger[j].head
            /\ pull' = [pull EXCEPT ![j].state = "merged", ![j].by = "completion"]
            /\ main' = main + 1 /\ com' = On(com, "accept")
  BY DEF ComMerge, ComAt, ComKeeps, ComRaises, MergedBy, Job, evidence
<1>2. CASE com' = Rest /\ UNCHANGED <<pull, main>>
  BY <1>1, <1>2, CompletionLooks DEF Inv, TypeOK
<1>3. CASE /\ pull[j].state = "ready" /\ pull[j].head = cledger[j].head
           /\ pull' = [pull EXCEPT ![j].state = "merged", ![j].by = "completion"]
           /\ main' = main + 1 /\ com' = On(com, "accept")
  <2>1. /\ j \in ready /\ j \in Jobs /\ cledger[j].status = "intent"
        /\ pull \in [Jobs -> [state : {"none", "draft", "ready", "merged", "closed",
                                       "superseded"},
                              head : Commits, by : {"none", "founder", "completion"}]]
        /\ com.new \subseteq Jobs
    BY <1>1, AtWork DEF Inv, TypeOK, CompletionWorks
  <2>2. /\ pull'[j].state = "merged" /\ pull'[j].by = "completion"
        /\ pull'[j].head = pull[j].head
        /\ \A i \in Jobs \ {j} : pull'[i] = pull[i]
    BY <1>3, <2>1
  <2>3. pull' \in [Jobs -> [state : {"none", "draft", "ready", "merged", "closed",
                                     "superseded"},
                            head : Commits, by : {"none", "founder", "completion"}]]
    BY <1>3, <2>1
  <2>4. "accept" \in ComPhases \ {"escalate"}
    BY DEF ComPhases
  <2>5. CompletionWorks' /\ com' \in Controllers
    BY <1>1, <1>3, <2>1, <2>2, <2>4, CompletionAdvances
  <2>6. pull[j].head = report[j].commit
    BY <1>3, <2>1 DEF Inv, EntriesNameTheReport
  <2>. HIDE DEF j
  <2>7. PublisherWorks' /\ pub' \in Controllers
    BY <1>1, <1>3, <2>1, <2>2, AtWork DEF Inv, PublisherWorks, Merged, Open
  <2>8. TypeOK'
    <3>1. main' \in Nat
      BY <1>3 DEF Inv, TypeOK
    <3>2. UNCHANGED <<touched, branch, green, revision, report, ready, claim, stream,
                      pledger, cledger, events>>
      BY <1>1
    <3>3. QED
      BY <2>3, <2>5, <2>7, <3>1, <3>2 DEF Inv, TypeOK
  <2>9. ReadyIsReal'
    <3>1. NoPull.state = "none"
      BY DEF NoPull
    <3>2. UNCHANGED <<revision, report, ready, claim>>
      BY <1>1
    <3>3. SUFFICES ASSUME NEW i \in Jobs
                   PROVE  /\ i \in ready => /\ report[i].commit # NoCommit
                                            /\ pull'[i].state # "none" /\ i \in revision
                          /\ report[i].generation <= claim[i].generation
                          /\ pull'[i].state = "none" <=> pull'[i] = NoPull
      BY <3>2 DEF ReadyIsReal
    <3>4. /\ i \in ready => /\ report[i].commit # NoCommit
                            /\ pull[i].state # "none" /\ i \in revision
          /\ report[i].generation <= claim[i].generation
          /\ pull[i].state = "none" <=> pull[i] = NoPull
      BY DEF Inv, ReadyIsReal
    <3>5. /\ pull[j].state # "none" /\ pull'[j].state # "none" /\ pull'[j] # NoPull
          /\ i # j => pull'[i] = pull[i]
      BY <1>3, <2>2, <3>1
    <3>6. CASE i = j
      BY <3>4, <3>5, <3>6
    <3>7. CASE i # j
      BY <3>4, <3>5, <3>7
    <3>8. QED
      BY <3>6, <3>7
  <2>10. EntriesNameTheReport'
    BY <1>1, <2>1, <2>2, <2>6 DEF Inv, EntriesNameTheReport, Merged
  <2>11. ClaimCoversDraft'
    BY <1>1, <1>3, <2>1, <2>2 DEF Inv, ClaimCoversDraft, Open, NoPull
  <2>12. LedgersFollow'
    BY <1>1, <1>3, <2>1, <2>2 DEF Inv, LedgersFollow, Merged
  <2>13. QED
    BY <2>5, <2>7, <2>8, <2>9, <2>10, <2>11, <2>12 DEF Inv
<1>4. QED
  BY <1>1, <1>2, <1>3

\* ComState keeps the invariant.
LEMMA ComStateKeeps == ASSUME Inv, ComState PROVE Inv'
<1>. DEFINE j == com.job
<1>1. /\ com.at = "report"
      /\ UNCHANGED <<main, touched, branch, pull, green, revision, report, ready, claim,
                     pledger, cledger, pub, events>>
      /\ \/ com' = Rest /\ stream' = stream
         \/ /\ com' = On(com, "free") /\ stream[j] # "merged"
            /\ stream' = [stream EXCEPT ![j] = "merged"]
  BY DEF ComState, ComAt, ComKeeps, ComRaises, Job, github
<1>2. j \in Jobs /\ Merged(j) /\ stream \in [Jobs -> {"none", "drafted", "merged"}]
  BY <1>1, AtWork DEF Inv, TypeOK, CompletionWorks
<1>3. PublisherWorks' /\ pub' \in Controllers
  BY <1>1, PublisherStays
<1>4. CASE com' = Rest /\ stream' = stream
  BY <1>1, <1>4, CompletionLooks DEF Inv, TypeOK
<1>5. CASE /\ com' = On(com, "free") /\ stream[j] # "merged"
           /\ stream' = [stream EXCEPT ![j] = "merged"]
  <2>1. "free" \in ComPhases \ {"escalate"} /\ stream'[j] = "merged"
    BY <1>2, <1>5 DEF ComPhases
  <2>2. CompletionWorks' /\ com' \in Controllers
    BY <1>1, <1>2, <1>5, <2>1, CompletionAdvances DEF Merged
  <2>. HIDE DEF j
  <2>3. QED
    BY <1>1, <1>2, <1>3, <1>5, <2>2, StreamMoves DEF github
<1>6. QED
  BY <1>1, <1>4, <1>5

\* ComFree keeps the invariant.
LEMMA ComFreeKeeps == ASSUME Inv, ComFree PROVE Inv'
<1>. DEFINE j == com.job
<1>1. /\ com.at = "free"
      /\ UNCHANGED <<main, touched, branch, pull, green, revision, report, ready, stream,
                     pledger, cledger, pub, events>>
      /\ \/ com' = Rest /\ claim' = claim
         \/ com' = On(com, "close") /\ claim' = Released(j, "merged")
  BY DEF ComFree, ComAt, ComKeeps, ComRaises, Job, github
<1>2. j \in Jobs /\ Merged(j) /\ stream[j] = "merged"
  BY <1>1, AtWork DEF Inv, CompletionWorks
<1>3. PublisherWorks' /\ pub' \in Controllers
  BY <1>1, PublisherStays
<1>4. CASE com' = Rest /\ claim' = claim
  BY <1>1, <1>4, CompletionLooks DEF Inv, TypeOK
<1>5. CASE com' = On(com, "close") /\ claim' = Released(j, "merged")
  <2>1. /\ claim[j].generation \in Nat
        /\ claim' = [claim EXCEPT ![j] = [generation |-> claim[j].generation,
                                          state |-> "merged"]]
    BY <1>2, <1>5, ReleaseKeepsGeneration
  <2>2. claim'[j].state = "merged"
    BY <1>2, <2>1 DEF Inv, TypeOK
  <2>3. "close" \in ComPhases \ {"escalate"}
    BY DEF ComPhases
  <2>4. CompletionWorks' /\ com' \in Controllers
    BY <1>1, <1>2, <1>5, <2>2, <2>3, CompletionAdvances DEF Merged
  <2>5. pull[j].state = "merged"
    BY <1>2 DEF Merged
  <2>. HIDE DEF j
  <2>6. QED
    BY <1>1, <1>2, <1>3, <2>1, <2>4, <2>5, ClaimMoves DEF github
<1>6. QED
  BY <1>1, <1>4, <1>5

\* ComClose keeps the invariant.
LEMMA ComCloseKeeps == ASSUME Inv, ComClose PROVE Inv'
<1>1. /\ com.at = "close" /\ ComDone
      /\ cledger' = [cledger EXCEPT ![com.job] =
                       [status |-> "merged", head |-> report[com.job].commit]]
      /\ UNCHANGED <<github, evidence, pledger, pub, events>>
      /\ UNCHANGED <<pull, ready>>
  BY DEF ComClose, ComAt, ComKeeps, Entered, Job, github, evidence
<1>2. /\ com.job \in ready /\ cledger \in [Jobs -> [status : ComStatus, head : Commits]]
      /\ Merged(com.job) /\ stream[com.job] = "merged"
      /\ \/ claim[com.job].generation # report[com.job].generation
         \/ claim[com.job].state = "merged"
  BY <1>1, AtWork DEF Inv, TypeOK, CompletionWorks
<1>3. \A j \in Jobs \ {com.job} : cledger'[j] = cledger[j]
  BY <1>1, <1>2
<1>4. CompletionWorks' /\ com' \in Controllers
  BY <1>1, <1>3, CompletionGoesOn
<1>5. "merged" \in ComStatus \ {"none"}
  BY DEF ComStatus
<1>6. QED
  BY <1>1, <1>2, <1>4, <1>5, EntryMoves

-----------------------------------------------------------------------------
\* A controller dies, and what the others do.

\* A death or a lost request keeps the invariant.
LEMMA StopKeeps == ASSUME Inv, Stop PROVE Inv'
<1>1. /\ UNCHANGED <<main, touched, branch, pull, green, revision, report, ready, claim,
                     stream, pledger, cledger>>
      /\ pub' = pub \/ pub' = Rest
      /\ com' = com \/ com' = Rest
      /\ events' \in 0 .. MaxEvents
  BY PublicationAssumption DEF Stop, Event, Inv, TypeOK, github, evidence
<1>2. PublisherWorks' /\ pub' \in Controllers
  BY <1>1, PublisherRests, PublisherStays
<1>3. CompletionWorks' /\ com' \in Controllers
  BY <1>1, CompletionRests, CompletionStays
<1>4. QED
  BY <1>1, <1>2, <1>3, NothingStated DEF Inv, TypeOK, evidence

\* Whatever they do to a pull request is done to an open one, and merged by nobody
\* but the founder.
LEMMA EnvironmentChanges ==
    ASSUME Inv, NEW j \in Jobs,
           \/ StateRevision(j) \/ ChecksChange(j) \/ MainMoves(j)
           \/ ForeignPush(j) \/ FounderMerges(j) \/ FounderCloses(j)
    PROVE  /\ UNCHANGED <<report, ready, claim, stream, pledger, cledger, pub, com>>
           /\ main' \in Nat /\ touched' \subseteq Jobs /\ branch' \in [Jobs -> Commits]
           /\ green' \subseteq Jobs /\ events' \in 0 .. MaxEvents
           /\ revision \subseteq revision' /\ revision' \subseteq Jobs
           /\ pull' \in [Jobs -> [state : {"none", "draft", "ready", "merged", "closed",
                                           "superseded"},
                                  head : Commits, by : {"none", "founder", "completion"}]]
           /\ \A i \in Jobs : \/ pull'[i] = pull[i]
                              \/ Open(i) /\ pull'[i].state # "none"
                                 /\ pull'[i].by \in {pull[i].by, "founder"}
<1>. USE DEF Others, evidence
<1>1. /\ main \in Nat /\ touched \subseteq Jobs /\ branch \in [Jobs -> Commits]
      /\ green \subseteq Jobs /\ events \in 0 .. MaxEvents /\ revision \subseteq Jobs
      /\ pull \in [Jobs -> [state : {"none", "draft", "ready", "merged", "closed",
                                     "superseded"},
                            head : Commits, by : {"none", "founder", "completion"}]]
  BY DEF Inv, TypeOK
<1>2. Event => events' \in 0 .. MaxEvents
  BY <1>1, PublicationAssumption DEF Event
<1>3. CASE StateRevision(j)
  BY <1>1, <1>3 DEF StateRevision, github
<1>4. CASE ChecksChange(j)
  BY <1>1, <1>4 DEF ChecksChange
<1>5. CASE MainMoves(j)
  BY <1>1, <1>2, <1>5 DEF MainMoves
<1>6. CASE ForeignPush(j)
  <2>1. Foreign \in Commits
    BY DEF Commits
  <2>2. /\ branch' = [branch EXCEPT ![j] = Foreign]
        /\ pull' = IF Open(j) THEN [pull EXCEPT ![j].head = Foreign] ELSE pull
    BY <1>6 DEF ForeignPush
  <2>3. /\ pull' \in [Jobs -> [state : {"none", "draft", "ready", "merged", "closed",
                                        "superseded"},
                               head : Commits, by : {"none", "founder", "completion"}]]
        /\ \A i \in Jobs : \/ pull'[i] = pull[i]
                           \/ Open(i) /\ pull'[i].state # "none"
                              /\ pull'[i].by = pull[i].by
    BY <1>1, <2>1, <2>2 DEF Open
  <2>4. branch' \in [Jobs -> Commits]
    BY <1>1, <2>1, <2>2
  <2>5. QED
    BY <1>1, <1>2, <1>6, <2>3, <2>4 DEF ForeignPush
<1>7. CASE FounderMerges(j)
  <2>1. /\ Open(j) /\ main' = main + 1
        /\ pull' = [pull EXCEPT ![j].state = "merged", ![j].by = "founder"]
    BY <1>7 DEF FounderMerges, MergedBy
  <2>2. /\ pull' \in [Jobs -> [state : {"none", "draft", "ready", "merged", "closed",
                                        "superseded"},
                               head : Commits, by : {"none", "founder", "completion"}]]
        /\ \A i \in Jobs : \/ pull'[i] = pull[i]
                           \/ i = j /\ pull'[i].state = "merged"
                              /\ pull'[i].by = "founder"
    BY <1>1, <2>1
  <2>3. QED
    BY <1>1, <1>2, <1>7, <2>1, <2>2 DEF FounderMerges
<1>8. CASE FounderCloses(j)
  <2>1. /\ Open(j)
        /\ \E s \in {"closed", "superseded"} : pull' = [pull EXCEPT ![j].state = s]
    BY <1>8 DEF FounderCloses
  <2>2. /\ pull' \in [Jobs -> [state : {"none", "draft", "ready", "merged", "closed",
                                        "superseded"},
                               head : Commits, by : {"none", "founder", "completion"}]]
        /\ \A i \in Jobs : \/ pull'[i] = pull[i]
                           \/ i = j /\ pull'[i].state # "none"
                              /\ pull'[i].by = pull[i].by
    BY <1>1, <2>1
  <2>3. QED
    BY <1>1, <1>2, <1>8, <2>1, <2>2 DEF FounderCloses
<1>9. QED
  BY <1>3, <1>4, <1>5, <1>6, <1>7, <1>8

\* What others do keeps the invariant.
LEMMA EnvironmentKeeps == ASSUME Inv, Environment PROVE Inv'
<1>1. PICK j \in Jobs : \/ StateRevision(j) \/ ChecksChange(j) \/ MainMoves(j)
                        \/ ForeignPush(j) \/ FounderMerges(j) \/ FounderCloses(j)
  BY DEF Environment
<1>2. /\ UNCHANGED <<report, ready, claim, stream, pledger, cledger, pub, com>>
      /\ com' \in Controllers
  BY <1>1, EnvironmentChanges, AtWork
<1>3. QED
  BY <1>1, <1>2, EnvironmentChanges, PullsMove

-----------------------------------------------------------------------------
\* The invariant holds at the start.
LEMMA InitKeeps == ASSUME Init PROVE Inv
<1>. USE DEF Init
<1>1. /\ pub = Rest /\ com = Rest /\ Rest \in Controllers /\ Rest.at = "rest"
      /\ Rest.new = {} /\ Rest.old = {}
  BY RestFits
<1>2. PublisherWorks
  BY <1>1 DEF PublisherWorks
<1>3. CompletionWorks
  BY <1>1 DEF CompletionWorks
<1>4. TypeOK
  <2>1. NoCommit \in Commits
    BY DEF Commits, NoCommit
  <2>2. /\ branch \in [Jobs -> Commits]
        /\ report \in [Jobs -> [commit : Commits, generation : Nat]]
        /\ claim \in [Jobs -> [generation : Nat,
                               state : {"active", "merged", "superseded"}]]
        /\ stream \in [Jobs -> {"none", "drafted", "merged"}]
    BY <2>1 DEF NoReport
  <2>3. pull \in [Jobs -> [state : {"none", "draft", "ready", "merged", "closed",
                                    "superseded"},
                           head : Commits, by : {"none", "founder", "completion"}]]
    BY <2>1 DEF NoPull
  <2>4. /\ pledger \in [Jobs -> [status : {"none", "published", "drifted", "superseded"},
                                 head : Commits]]
        /\ cledger \in [Jobs -> [status : ComStatus, head : Commits]]
    BY <2>1 DEF NoEntry, ComStatus
  <2>5. events \in 0 .. MaxEvents
    BY PublicationAssumption
  <2>6. /\ main \in Nat /\ touched \subseteq Jobs /\ green \subseteq Jobs
        /\ revision \subseteq Jobs /\ ready \subseteq Jobs
        /\ pub \in Controllers /\ com \in Controllers
    BY <1>1
  <2>. HIDE DEF Init
  <2>7. QED
    BY <2>2, <2>3, <2>4, <2>5, <2>6 DEF TypeOK
<1>5. ReadyIsReal
  <2>1. \A j \in Jobs : /\ report[j].generation = 0 /\ claim[j].generation = 1
                       /\ pull[j] = NoPull /\ pull[j].state = "none"
    BY DEF NoReport, NoPull
  <2>2. ready = {}
    OBVIOUS
  <2>. HIDE DEF Init
  <2>3. 0 <= 1
    OBVIOUS
  <2>4. QED
    BY <2>1, <2>2, <2>3, Zenon DEF ReadyIsReal
<1>6. EntriesNameTheReport
  BY DEF EntriesNameTheReport, NoEntry, NoPull
<1>7. ClaimCoversDraft
  BY DEF ClaimCoversDraft
<1>8. LedgersFollow
  BY DEF LedgersFollow, NoEntry
<1>9. QED
  BY <1>2, <1>3, <1>4, <1>5, <1>6, <1>7, <1>8 DEF Inv

\* Every step keeps it.
LEMMA NextKeeps == ASSUME Inv, [Next]_vars PROVE Inv'
<1>1. CASE PubStep
  BY <1>1, PubStartKeeps, PubAdmitKeeps, PubBaseKeeps, PubPushKeeps, PubPullKeeps,
     PubReportKeeps, PubSidecarsKeeps, PubLedgerKeeps, PubStateKeeps, PubVerifyKeeps,
     PubBranchKeeps, PubFreeKeeps, PubRecordKeeps, PubYieldKeeps DEF PubStep
<1>2. CASE ComStep
  BY <1>2, ComStartKeeps, ComEscalateKeeps, ComUndraftKeeps, ComReviewKeeps,
     ComChecksKeeps, ComIntendKeeps, ComResumeIntentKeeps, ComMergeKeeps, ComAcceptKeeps,
     ComVerifyKeeps, ComCleanupKeeps, ComCleanKeeps, ComStateKeeps, ComFreeKeeps,
     ComCloseKeeps DEF ComStep
<1>3. CASE UNCHANGED vars
  <2>1. /\ UNCHANGED <<main, touched, branch, pull, green, revision, report, ready, claim,
                       stream, pledger, cledger, pub, com, events>>
    BY <1>3 DEF vars, github, evidence
  <2>2. /\ PublisherWorks' /\ pub' \in Controllers
        /\ CompletionWorks' /\ com' \in Controllers
    BY <2>1, PublisherStays, CompletionStays
  <2>3. QED
    BY <2>1, <2>2, NothingStated DEF Inv, TypeOK, evidence
<1>4. QED
  BY <1>1, <1>2, <1>3, StopKeeps, EnvironmentKeeps DEF Next

\* The inductive invariant holds.
THEOREM InvHolds == Spec => []Inv
<1>1. Init => Inv
  BY InitKeeps
<1>2. Inv /\ [Next]_vars => Inv'
  BY NextKeeps
<1>3. QED
  BY <1>1, <1>2, PTL DEF Spec

\* The claim covers the draft and the ledgers follow what has happened, for any
\* candidates and any number of deaths, lost requests and deeds of others.
THEOREM PublicationKept == Spec => []PublicationInv
<1>1. Inv => PublicationInv
  BY DEF Inv, PublicationInv
<1>2. QED
  BY <1>1, InvHolds, PTL

\* What a merge by the completion controller needs.
MergesValid ==
    \A j \in Jobs :
      pull'[j].by = "completion" /\ pull[j].by # "completion"
        => /\ j \in AutoMerge /\ j \in ready /\ j \in revision
           /\ pull[j].head = report[j].commit
           /\ cledger[j] = [status |-> "intent", head |-> report[j].commit]

\* Every step that merges, merges what was validated.
LEMMA StepMergesValid == ASSUME Inv, [Next]_vars PROVE MergesValid
<1>1. SUFFICES ASSUME NEW j \in Jobs, pull'[j].by = "completion", pull[j].by # "completion"
               PROVE  /\ j \in AutoMerge /\ j \in ready /\ j \in revision
                      /\ pull[j].head = report[j].commit
                      /\ cledger[j] = [status |-> "intent", head |-> report[j].commit]
  BY DEF MergesValid
<1>2. /\ pull \in [Jobs -> [state : {"none", "draft", "ready", "merged", "closed",
                                     "superseded"},
                            head : Commits, by : {"none", "founder", "completion"}]]
      /\ cledger \in [Jobs -> [status : ComStatus, head : Commits]]
  BY DEF Inv, TypeOK
<1>3. ~UNCHANGED pull
  BY <1>1
<1>4. CASE ComMerge
  <2>1. /\ com.at = "merge" /\ pull[com.job].head = cledger[com.job].head
        /\ pull' = [pull EXCEPT ![com.job].state = "merged", ![com.job].by = "completion"]
    BY <1>3, <1>4 DEF ComMerge, ComAt, Job, MergedBy
  <2>2. j = com.job
    BY <1>1, <1>2, <2>1
  <2>3. j \in AutoMerge /\ j \in ready /\ cledger[j].status = "intent"
    BY <2>1, <2>2 DEF Inv, CompletionWorks
  <2>4. j \in revision /\ cledger[j].head = report[j].commit
    BY <2>3 DEF Inv, ReadyIsReal, EntriesNameTheReport
  <2>5. cledger[j] = [status |-> "intent", head |-> report[j].commit]
    BY <1>2, <2>3, <2>4
  <2>6. QED
    BY <2>1, <2>2, <2>3, <2>4, <2>5
<1>5. CASE ComUndraft
  BY <1>1, <1>2, <1>5 DEF ComUndraft
<1>6. CASE PubPull
  BY <1>1, <1>2, <1>6 DEF PubPull
<1>7. CASE Environment
  <2>1. PICK i \in Jobs : \/ StateRevision(i) \/ ChecksChange(i) \/ MainMoves(i)
                          \/ ForeignPush(i) \/ FounderMerges(i) \/ FounderCloses(i)
    BY <1>7 DEF Environment
  <2>2. pull'[j] = pull[j] \/ pull'[j].by \in {pull[j].by, "founder"}
    BY <2>1, EnvironmentChanges
  <2>3. QED
    BY <1>1, <2>2
<1>8. UNCHANGED vars \/ Stop => UNCHANGED pull
  BY DEF vars, Stop, github
<1>9. PubStep => UNCHANGED pull \/ PubPull
  BY DEF PubStep, PubStart, PubAdmit, PubBase, PubPush, PubReport, PubSidecars, PubLedger,
     PubState, PubVerify, PubBranch, PubFree, PubRecord, PubYield, github
<1>10. ComStep => UNCHANGED pull \/ ComUndraft \/ ComMerge
  BY DEF ComStep, ComStart, ComEscalate, ComReview, ComChecks, ComIntend,
     ComResumeIntent, ComAccept, ComVerify, ComCleanup, ComClean, ComState, ComFree,
     ComClose, github
<1>11. QED
  BY <1>3, <1>4, <1>5, <1>6, <1>7, <1>8, <1>9, <1>10 DEF Next

\* The completion controller merges only what the job allowed, at the commit that
\* was published, once the revision loop has let go and the intent is saved.
THEOREM OnlyTheValidatedMerged == Spec => MergesOnlyTheValidated
<1>1. Inv /\ [Next]_vars => [MergesValid]_vars
  BY StepMergesValid
<1>2. Spec => [][MergesValid]_vars
  BY <1>1, InvHolds, PTL DEF Spec
<1>3. QED
  BY <1>2, Zenon DEF MergesOnlyTheValidated, MergesValid
================================================================================
