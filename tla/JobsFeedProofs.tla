---------------------------- MODULE JobsFeedProofs ----------------------------
(***************************************************************************)
(* For any packets, dependencies, deaths, lost pushes and commands of the  *)
(* founder: every job of the refill controller is one its generation knows *)
(* (JobsAreKnown), so there is nothing a recovery has to guess             *)
(* (NothingIsLost), and one of them at most is under way (FeedKept, with   *)
(* the order of the packets and the record of the supersessions).          *)
(*                                                                         *)
(* The argument: a job comes onto the branch only by the hand of a build,  *)
(* and what is in the hand of the refill controller's build is the         *)
(* prepared dispatch (HandOfGeneration), which is written first.  It is    *)
(* prepared only when the current attempt is spent (Sound), so whatever    *)
(* occupies the capacity is prepared or current (CapacityInHand), and one  *)
(* of the two at most does.  A generation is replaced only when neither    *)
(* does (NothingLeft), and is archived before (ReplacedIsArchived).        *)
(*                                                                         *)
(* What is answered QUEUED is on the way (QueuedJobsArrive): nothing but a *)
(* submission brings a job into the clone, and it holds the feed lock from *)
(* its commit until it has found the file again after the push (Submits).  *)
(***************************************************************************)
EXTENDS JobsFeed, FiniteSetTheorems, WellFoundedInduction, TLAPS

\* From the choice of a job to its record.
Building == {"load", "admit", "prove", "submit", "push", "hash", "record"}
\* From the decision that another is due to the choice.
Choosing == {"probe", "author", "publish", "prepare"}
\* What a founder's command leaves for its later files.
Commanding == {"enable", "renew", "receipt", "replace"}
Steps == Building \union Choosing \union Commanding
             \union {"rest", "feed", "recover", "decide", "pause", "resume", "complete"}

\* Where the refill process is.
Step == proc["refill"].at

\* What the two processes have in memory; a build past its first step has a job.
InMemory ==
    /\ proc \in [Processes -> [at : Steps, job : Job \union {NoJob},
                               again : BOOLEAN, busy : BOOLEAN]]
    /\ proc["founder"].at \in Building \union {"rest"}
    /\ proc["founder"].job.gen = 0
    /\ \A p \in Processes : proc[p].at \in Building \ {"load"} => proc[p].job \in Job

\* A job that is none, or that a provider refused, is nobody's any more.
Spent(j) == j = NoJob \/ StageOf(j) = "provider"

\* A prepared dispatch is of its generation, and follows work that is spent;
\* generation 0 has none.
Sound(g) ==
    /\ g.prepared # NoJob => g.prepared.gen = g.id /\ Spent(g.current)
    /\ g.id = 0 => g.prepared = NoJob /\ g.current = NoJob

\* The job in the hands of a reconcile is the prepared one, and it chooses
\* another only when nothing is prepared and the last is spent.
HandOfGeneration ==
    /\ Step \in Building => gen.prepared = proc["refill"].job /\ gen.prepared # NoJob
    /\ Step \in Choosing => gen.prepared = NoJob /\ Spent(gen.current)
    /\ Step \in Building \union Choosing \union {"decide"} => gen.id # 0

\* What is archived is over, and no younger than the generation.
HistoryIsPast ==
    \A g \in history :
        /\ g.id <= gen.id /\ g.prepared = NoJob
        /\ g.id = gen.id => Attempted(g) \subseteq Attempted(gen)

\* What comes after a receipt is a generation without work.
ReceiptsGoOn ==
    /\ \A r \in receipts : /\ r.old \in history /\ r.old.id < r.new.id
                           /\ r.new.prepared = NoJob /\ r.new.current = NoJob
    /\ policy.superseded # 0 => \E r \in receipts : r.old.id = policy.superseded

\* A generation that is about to be replaced has been archived.
ReplacedIsArchived ==
    /\ Step \in Commanding => gen.id = 0 \/ gen \in history
    /\ Step \in {"receipt", "replace"} => gen \in history
    /\ Step \in Commanding => gen.prepared = NoJob
    /\ Step \in {"enable", "renew"} => gen.current = NoJob
    /\ Step \in Commanding \ {"replace"} => FreshId <= MaxGenerations

\* A job of a generation that waits, runs, or whose candidate is open.
Occupies(j) == j.gen # 0 /\ StageOf(j) \in InQueue \union {"absent", "completed"}

\* The jobs and packets on the branch, in the clone's HEAD or on the host.
Jobs == remote.jobs \union clone.tip.jobs \union DOMAIN stage
Packets == remote.packets \union clone.tip.packets

\* Every job of a generation is one the generation, or its archive, knows.
KnownJob(j) ==
    j.gen # 0 => \E g \in {gen} \union history :
                    g.id = j.gen /\ j \in Attempted(g) \union {g.prepared}
JobsKnown == \A j \in Jobs : KnownJob(j)

\* Whatever occupies the capacity is prepared or current.
CapacityInHand == \A j \in Jobs : Occupies(j) => j \in {gen.prepared, gen.current}

\* Nothing occupies it when a generation is about to be replaced.
NothingLeft == Step \in Commanding => ~(gen.current \in Jobs /\ Occupies(gen.current))

\* The packet a reconcile authors is one of the backlog whose time has come.
AuthorOfBacklog ==
    Step \in {"author", "publish"} =>
        LET i == proc["refill"].job.item
        IN  i \in Backlog /\ \A d \in DependsOn[i] : MergedItem(d)

\* So the packets on the branch, or about to be pushed, are of the backlog's past.
PacketsProven ==
    \A i \in (Backlog \ Listed) \cap Packets : \A d \in DependsOn[i] : MergedItem(d)

Inv ==
    /\ TypeOK /\ InMemory /\ Sound(gen) /\ HandOfGeneration
    /\ HistoryIsPast /\ ReceiptsGoOn /\ ReplacedIsArchived
    /\ JobsKnown /\ CapacityInHand /\ NothingLeft
    /\ AuthorOfBacklog /\ PacketsProven

-----------------------------------------------------------------------------
(* The operators.                                                            *)

\* The order of the numbers, as a relation.
Below == {p \in Nat \X Nat : p[1] < p[2]}

\* Every set of numbers has a least one.
LEMMA LeastExists ==
    ASSUME NEW S \in SUBSET Nat, S # {}
    PROVE  \E n \in S : \A k \in S : n <= k
<1>1. OpToRel(<, Nat) = Below
  BY Zenon DEF OpToRel, Below
<1>2. PICK n \in S : \A k \in S : ~(<<k, n>> \in Below)
  BY <1>1, WFMin, NatLessThanWellFounded, Zenon
<1>3. \A k \in S : n <= k
  <2>1. SUFFICES ASSUME NEW k \in S PROVE n <= k
    OBVIOUS
  <2>2. n \in Nat /\ k \in Nat
    OBVIOUS
  <2>3. <<k, n>> \in Below <=> k < n
    BY <2>2 DEF Below
  <2>4. QED
    BY <1>2, <2>2, <2>3
<1>4. QED
  BY <1>3

\* The first of a set of items is one of them.
LEMMA FirstIsOne ==
    ASSUME NEW S \in SUBSET Items, S # {}
    PROVE  First(S) \in S
<1>1. \E i \in S : \A k \in S : i <= k
  BY LeastExists, JobsFeedAssumption DEF JobsFeedAssumption
<1>2. QED
  BY <1>1, Zenon DEF First

\* A fresh id is higher than that of the generation and of every receipt.
LEMMA FreshIsHigher ==
    ASSUME TypeOK
    PROVE  /\ FreshId \in Nat /\ gen.id < FreshId
           /\ \A r \in receipts : r.new.id < FreshId
<1> DEFINE Taken(n) == n = gen.id \/ \E r \in receipts : r.new.id = n
           Top(n) == Taken(n) /\ gen.id <= n /\ \A r \in receipts : r.new.id <= n
           Gaps == {m \in 0 .. MaxGenerations : Taken(MaxGenerations - m)}
<1>1. MaxGenerations \in Nat
  BY JobsFeedAssumption DEF JobsFeedAssumption
<1>2. gen.id \in 0 .. MaxGenerations /\ \A r \in receipts : r.new.id \in 0 .. MaxGenerations
  BY DEF TypeOK, Generation
<1>3. \A n \in 0 .. MaxGenerations :
         MaxGenerations - n \in 0 .. MaxGenerations /\ MaxGenerations - (MaxGenerations - n) = n
  BY <1>1
<1>4. \A n \in 0 .. MaxGenerations : Taken(n) => MaxGenerations - n \in Gaps
  BY <1>1, <1>3
<1>5. Gaps \in SUBSET Nat /\ Gaps # {}
  <2>1. Taken(gen.id)
    OBVIOUS
  <2>2. MaxGenerations - gen.id \in Gaps
    BY <1>2, <1>4, <2>1
  <2>3. Gaps \subseteq 0 .. MaxGenerations
    OBVIOUS
  <2> HIDE DEF Gaps
  <2>4. QED
    BY <2>2, <2>3
<1>6. PICK m \in Gaps : \A k \in Gaps : m <= k
  BY <1>5, LeastExists
<1>7. MaxGenerations - m \in 0 .. MaxGenerations /\ Taken(MaxGenerations - m)
  BY <1>1, <1>6
<1> HIDE DEF Gaps, Taken
<1>8. \A n \in 0 .. MaxGenerations : Taken(n) => n <= MaxGenerations - m
  BY <1>1, <1>4, <1>5, <1>6
<1> USE DEF Taken
<1>9. Top(MaxGenerations - m)
  BY <1>2, <1>7, <1>8
<1>10. \E n \in 0 .. MaxGenerations : Top(n)
  BY <1>7, <1>9
<1> DEFINE top == CHOOSE n \in 0 .. MaxGenerations : Top(n)
<1>11. top \in 0 .. MaxGenerations /\ Top(top)
  BY <1>10, Zenon
<1>12. FreshId = 1 + top
  BY Zenon DEF FreshId
<1> HIDE DEF top
<1>13. QED
  BY <1>1, <1>2, <1>11, <1>12

\* What a generation has of work.
SameWork(g, h) ==
    /\ h.id = g.id /\ h.attempts = g.attempts
    /\ h.current = g.current /\ h.prepared = g.prepared

\* Another state leaves a generation its work.
LEMMA StateOnly ==
    ASSUME NEW g \in Generation, NEW s \in States
    PROVE  [g EXCEPT !.state = s] \in Generation /\ SameWork(g, [g EXCEPT !.state = s])
  BY DEF Generation, SameWork

\* A new generation has none.
LEMMA NewHasNone ==
    ASSUME NEW n \in 0 .. MaxGenerations
    PROVE  /\ NewGeneration(n) \in Generation /\ NewGeneration(n).id = n
           /\ NewGeneration(n).prepared = NoJob /\ NewGeneration(n).current = NoJob
<1>1. NoGeneration \in [id : {0}, state : States, attempts : Seq(Job),
                        current : Job \union {NoJob}, prepared : Job \union {NoJob},
                        excluded : SUBSET Items, retried : BOOLEAN]
  <2>1. << >> \in Seq(Job)
    OBVIOUS
  <2>2. "none" \in States /\ {} \in SUBSET Items
    BY DEF States
  <2>3. QED
    BY <2>1, <2>2 DEF NoGeneration
<1>2. NoGeneration.prepared = NoJob /\ NoGeneration.current = NoJob
  BY DEF NoGeneration
<1>3. QED
  BY <1>1, <1>2 DEF NewGeneration, Generation, States

\* A recorded job is the current one, and an attempt beside those there were.
LEMMA RecordedIsCurrent ==
    ASSUME NEW g \in Generation, NEW j \in Job
    PROVE  LET h == Recorded(g, j)
           IN  /\ h \in Generation /\ h.id = g.id
               /\ h.current = j /\ h.prepared = NoJob
               /\ Attempted(h) = Attempted(g) \union {j}
<1> DEFINE seq == IF j \in Attempted(g) THEN g.attempts ELSE Append(g.attempts, j)
           h == Recorded(g, j)
<1>1. g.attempts \in Seq(Job)
  BY DEF Generation
<1>2. seq \in Seq(Job)
  BY <1>1
<1>3. {seq[k] : k \in DOMAIN seq} = Attempted(g) \union {j}
  <2>1. CASE j \in Attempted(g)
    BY <2>1 DEF Attempted
  <2>2. CASE j \notin Attempted(g)
    <3>1. DOMAIN g.attempts = 1 .. Len(g.attempts) /\ Len(g.attempts) \in Nat
      BY <1>1
    <3>2. /\ DOMAIN seq = 1 .. Len(g.attempts) + 1
          /\ \A k \in 1 .. Len(g.attempts) : seq[k] = g.attempts[k]
          /\ seq[Len(g.attempts) + 1] = j
      BY <1>1, <2>2
    <3> HIDE DEF seq
    <3>3. QED
      BY <3>1, <3>2 DEF Attempted
  <2>3. QED
    BY <2>1, <2>2
<1>4. /\ h.attempts = seq /\ h.id = g.id /\ h.current = j /\ h.prepared = NoJob
      /\ h \in Generation
  <2> HIDE DEF seq
  <2>1. h = [g EXCEPT !.attempts = seq, !.current = j, !.prepared = NoJob, !.state = "OPEN"]
    BY DEF Recorded, seq
  <2>2. QED
    BY <1>2, <2>1 DEF Generation, States
<1>5. QED
  BY <1>3, <1>4 DEF Attempted

\* The chosen packet, numbered as the next attempt, is a job.
LEMMA ChosenIsJob ==
    ASSUME TypeOK, Selectable(gen.excluded) # {}, Len(gen.attempts) < MaxAttempts
    PROVE  [item |-> First(Selectable(gen.excluded)), gen |-> gen.id,
            ord |-> Len(gen.attempts) + 1] \in Job
<1>1. First(Selectable(gen.excluded)) \in Items
  <2>1. Selectable(gen.excluded) \in SUBSET Items
    BY DEF Selectable, TypeOK, Branch
  <2>2. QED
    BY <2>1, FirstIsOne
<1>2. gen.id \in 0 .. MaxGenerations /\ Len(gen.attempts) \in Nat
  BY DEF TypeOK, Generation
<1>3. Len(gen.attempts) + 1 \in 0 .. MaxAttempts
  BY <1>2, JobsFeedAssumption DEF JobsFeedAssumption
<1>4. QED
  BY <1>1, <1>2, <1>3 DEF Job

-----------------------------------------------------------------------------
(* The processes' memory.                                                     *)

\* What a process has in memory.
Memory == [at : Steps, job : Job \union {NoJob}, again : BOOLEAN, busy : BOOLEAN]

\* A process goes on with what it has in hand.
LEMMA Goes ==
    ASSUME InMemory, NEW p \in Processes, NEW at \in Steps, Go(p, at)
    PROVE  /\ proc' \in [Processes -> Memory]
           /\ proc'[p].at = at /\ proc'[p].job = proc[p].job
           /\ \A q \in Processes \ {p} : proc'[q] = proc[q]
  BY DEF InMemory, Go, Memory

\* It takes something new in hand.
LEMMA Takes ==
    ASSUME InMemory, NEW p \in Processes, NEW m \in Memory, proc' = [proc EXCEPT ![p] = m]
    PROVE  /\ proc' \in [Processes -> Memory] /\ proc'[p] = m
           /\ \A q \in Processes \ {p} : proc'[q] = proc[q]
  BY DEF InMemory, Memory

\* It drops everything.
LEMMA Stops ==
    ASSUME InMemory, NEW p \in Processes, Stop(p)
    PROVE  /\ proc' \in [Processes -> Memory]
           /\ proc'[p].at = "rest" /\ proc'[p].job = NoJob
           /\ \A q \in Processes \ {p} : proc'[q] = proc[q]
<1>1. Rest \in Memory
  BY DEF Rest, Memory, Steps
<1>2. QED
  BY <1>1, Takes DEF Stop, Rest

\* What is in memory where the refill process is.
LEMMA RefillKeepsMemory ==
    ASSUME InMemory, proc' \in [Processes -> Memory], proc'["founder"] = proc["founder"],
           Step' \in Building \ {"load"} => proc'["refill"].job \in Job
    PROVE  InMemory'
  BY DEF InMemory, Memory, Processes, Step

\* One is the refill process, the other the founder's.
LEMMA TwoProcesses ==
    ASSUME NEW p \in Processes
    PROVE  p = "refill" \/ p = "founder"
  BY DEF Processes

\* A reconcile goes from step to step, and leaves the founder's build alone; it
\* comes to a packet by Probe or by Author only.
LEMMA ReconcileMoves ==
    ASSUME TypeOK, InMemory, Reconcile
    PROVE  /\ InMemory' /\ proc'["founder"] = proc["founder"]
           /\ Step' \in {"rest", "feed", "recover", "decide", "load"} \union Choosing
           /\ Step' \in {"author", "publish"} => Probe \/ Author
<1> DEFINE r == proc["refill"]
<1>1. "refill" \in Processes /\ "founder" \in Processes /\ r \in Memory
  BY DEF Processes, InMemory, Memory
<1>2. SUFFICES /\ proc' \in [Processes -> Memory] /\ proc'["founder"] = proc["founder"]
               /\ Step' \in {"rest", "feed", "recover", "decide", "load"} \union Choosing
               /\ Step' \in {"author", "publish"} => Probe \/ Author
  BY <1>1, RefillKeepsMemory DEF Building, Choosing
<1>3. {"rest", "feed", "recover", "decide", "load"} \union Choosing \subseteq Steps
  BY DEF Steps, Choosing, Building
<1>4. ASSUME NEW at \in {"rest", "feed", "recover", "decide", "load"} \union Choosing,
             Go("refill", at)
      PROVE  /\ proc' \in [Processes -> Memory] /\ proc'["founder"] = proc["founder"]
             /\ Step' = at
  BY <1>1, <1>3, <1>4, Goes DEF Step
<1>5. ASSUME Halt
      PROVE  /\ proc' \in [Processes -> Memory] /\ proc'["founder"] = proc["founder"]
             /\ Step' = "rest"
  BY <1>1, <1>5, Stops DEF Step, Halt
<1>6. ASSUME NEW at \in {"rest", "feed", "recover", "decide", "load"} \union Choosing,
             NEW m \in Memory, m.at = at, proc' = [proc EXCEPT !["refill"] = m]
      PROVE  /\ proc' \in [Processes -> Memory] /\ proc'["founder"] = proc["founder"]
             /\ Step' = at
  BY <1>1, <1>6, Takes DEF Step
<1>7. CASE Count
  <2> DEFINE m == [r EXCEPT !.at = "feed", !.busy = \E j \in DOMAIN stage : stage[j] \in InQueue]
  <2>1. m \in Memory /\ m.at = "feed"
    BY <1>1, <1>3 DEF Memory
  <2>2. proc' = [proc EXCEPT !["refill"] = m]
    BY <1>7 DEF Count
  <2>3. QED
    BY <2>1, <2>2, <1>6
<1>8. CASE CountFeed
  <2> DEFINE m == [r EXCEPT !.at = "recover", !.busy = @ \/ \E j \in remote.jobs : ~Known(j)]
  <2>1. m \in Memory /\ m.at = "recover"
    BY <1>1, <1>3 DEF Memory
  <2>2. Halt \/ proc' = [proc EXCEPT !["refill"] = m]
    BY <1>8 DEF CountFeed
  <2>3. QED
    BY <2>1, <2>2, <1>5, <1>6
<1>9. CASE Recover
  <2>1. Halt \/ Go("refill", "decide")
    BY <1>9, Zenon DEF Recover
  <2>2. QED
    BY <2>1, <1>4, <1>5
<1>16. CASE BasisFails
  BY <1>5, <1>16 DEF BasisFails
<1>10. CASE Replay
  <2> DEFINE m == [Rest EXCEPT !.at = "load", !.job = gen.prepared]
  <2>1. gen.prepared \in Job \union {NoJob}
    BY DEF TypeOK, Generation
  <2>2. m \in Memory /\ m.at = "load"
    BY <2>1, <1>3 DEF Memory, Rest
  <2>3. proc' = [proc EXCEPT !["refill"] = m]
    BY <1>10 DEF Replay
  <2>4. QED
    BY <2>2, <2>3, <1>6
<1>11. CASE Decide
  <2> DEFINE m == [r EXCEPT !.at = "probe", !.again = TRUE]
  <2>1. m \in Memory /\ m.at = "probe"
    BY <1>1, <1>3 DEF Memory, Choosing
  <2>2. Halt \/ Go("refill", "probe") \/ proc' = [proc EXCEPT !["refill"] = m]
    BY <1>11 DEF Decide
  <2>3. "probe" \in Choosing
    BY DEF Choosing
  <2>4. QED
    BY <2>1, <2>2, <2>3, <1>4, <1>5, <1>6
<1>12. CASE Probe
  <2> DEFINE ready == {i \in Items : Eligible(i)}
             m == [r EXCEPT !.at = "author", !.job = Manual(First(ready))]
  <2>1. CASE ready # {} /\ proc' = [proc EXCEPT !["refill"] = m]
    <3>1. First(ready) \in Items
      BY <2>1, FirstIsOne
    <3>2. Manual(First(ready)) \in Job
      BY <3>1, JobsFeedAssumption DEF Manual, Job, JobsFeedAssumption
    <3>3. m \in Memory /\ m.at = "author"
      BY <1>1, <1>3, <3>2 DEF Memory, Choosing
    <3>4. QED
      BY <2>1, <3>3, <1>6, <1>12 DEF Choosing
  <2>2. Go("refill", "prepare") \/ (ready # {} /\ proc' = [proc EXCEPT !["refill"] = m])
    BY <1>12 DEF Probe
  <2>3. QED
    BY <2>1, <2>2, <1>4 DEF Choosing
<1>13. CASE Author
  BY <1>13, <1>4, <1>5 DEF Author, Choosing
<1>14. CASE Publish
  BY <1>14, <1>4, <1>5 DEF Publish, Choosing
<1>15. CASE Prepare
  <2> DEFINE choice == Selectable(gen.excluded)
             job == [item |-> First(choice), gen |-> gen.id, ord |-> Len(gen.attempts) + 1]
             m == [Rest EXCEPT !.at = "load", !.job = job]
  <2>1. CASE /\ choice # {} /\ Len(gen.attempts) < MaxAttempts
             /\ proc' = [proc EXCEPT !["refill"] = m]
    <3>1. job \in Job
      BY <2>1, ChosenIsJob
    <3>2. m \in Memory /\ m.at = "load"
      BY <3>1, <1>3 DEF Memory, Rest
    <3>3. QED
      BY <2>1, <3>2, <1>6
  <2>2. \/ Halt
        \/ /\ choice # {} /\ Len(gen.attempts) < MaxAttempts
           /\ proc' = [proc EXCEPT !["refill"] = m]
    BY <1>15 DEF Prepare
  <2>3. QED
    BY <2>1, <2>2, <1>5
<1>17. QED
  BY <1>7, <1>8, <1>9, <1>10, <1>11, <1>12, <1>13, <1>14, <1>15, <1>16 DEF Reconcile

\* Where a process and its job are after a step of a build.
BuildsOn(p) ==
    /\ InMemory' /\ \A q \in Processes \ {p} : proc'[q] = proc[q]
    /\ \/ proc'[p].at = "rest"
       \/ proc'[p].at \in Building /\ (p = "refill" => proc'[p].job = proc[p].job)

\* A build goes on with the job it has.
LEMMA BuildMoves ==
    ASSUME TypeOK, InMemory, HandOfGeneration, NEW p \in Processes, Build(p)
    PROVE  BuildsOn(p)
<1> DEFINE r == proc[p]
<1>1. r \in Memory /\ Building \subseteq Steps /\ NoJob.gen = 0
  BY DEF InMemory, Memory, Steps, NoJob
<1>2. ASSUME NEW at \in Building \ {"load"}, Go(p, at), r.job \in Job
      PROVE  BuildsOn(p)
  <2>1. /\ proc' \in [Processes -> Memory]
        /\ proc'[p].at = at /\ proc'[p].job = proc[p].job
        /\ \A q \in Processes \ {p} : proc'[q] = proc[q]
    BY <1>1, <1>2, Goes
  <2>2. InMemory'
    BY <1>2, <2>1 DEF InMemory, Memory, Processes
  <2>3. QED
    BY <2>1, <2>2 DEF BuildsOn
<1>3. ASSUME Stop(p)
      PROVE  BuildsOn(p)
  <2>1. /\ proc' \in [Processes -> Memory]
        /\ proc'[p].at = "rest" /\ proc'[p].job = NoJob
        /\ \A q \in Processes \ {p} : proc'[q] = proc[q]
    BY <1>3, Stops
  <2>2. InMemory'
    BY <1>1, <2>1 DEF InMemory, Memory, Processes, Building
  <2>3. QED
    BY <2>1, <2>2 DEF BuildsOn
<1>4. ASSUME NEW state, Answer(p, state)
      PROVE  BuildsOn(p)
  BY <1>3, <1>4 DEF Answer
<1>5. r.at \in Building \ {"load"} => r.job \in Job
  BY DEF InMemory
<1>6. CASE Load(p)
  <2> DEFINE choice == Selectable(IF p = "refill" THEN gen.excluded ELSE {})
             job == IF p = "refill" THEN r.job ELSE Manual(First(choice))
             m == [r EXCEPT !.at = "admit", !.job = job]
  <2>1. ASSUME choice # {}
        PROVE  job \in Job /\ (p = "founder" => job.gen = 0)
    <3>1. CASE p = "refill"
      <4>1. r.job = gen.prepared /\ gen.prepared # NoJob
        BY <1>6, <3>1 DEF Load, At, HandOfGeneration, Step, Building
      <4>2. QED
        BY <3>1, <4>1 DEF TypeOK, Generation, Processes
    <3>2. CASE p # "refill"
      <4>1. choice \in SUBSET Items
        BY DEF Selectable, TypeOK, Branch
      <4>2. First(choice) \in Items
        BY <2>1, <4>1, FirstIsOne
      <4>3. QED
        BY <3>2, <4>2, JobsFeedAssumption DEF Manual, Job, JobsFeedAssumption
    <3>3. QED
      BY <3>1, <3>2
  <2>2. CASE choice # {} /\ proc' = [proc EXCEPT ![p] = m]
    <3>1. job \in Job /\ (p = "founder" => job.gen = 0)
      BY <2>1, <2>2
    <3> HIDE DEF job
    <3>2. m \in Memory /\ m.at = "admit" /\ m.job = job
      BY <1>1, <3>1 DEF Memory, Building
    <3>3. /\ proc' \in [Processes -> Memory] /\ proc'[p] = m
          /\ \A q \in Processes \ {p} : proc'[q] = proc[q]
      BY <2>2, <3>2, Takes
    <3> HIDE DEF m
    <3>4. InMemory'
      BY <3>1, <3>2, <3>3 DEF InMemory, Memory, Processes, Building
    <3>5. p = "refill" => job = r.job
      BY DEF job
    <3>6. QED
      BY <3>2, <3>3, <3>4, <3>5 DEF BuildsOn, Building
  <2>3. CASE choice # {} /\ p = "refill" /\ Go(p, "record")
    <3>1. r.job \in Job
      BY <2>1, <2>3
    <3>2. QED
      BY <1>2, <2>3, <3>1 DEF Building
  <2>4. \/ Stop(p)
        \/ choice # {} /\ proc' = [proc EXCEPT ![p] = m]
        \/ choice # {} /\ p = "refill" /\ Go(p, "record")
    BY <1>6 DEF Load, Answer
  <2>5. QED
    BY <1>3, <2>2, <2>3, <2>4
<1>7. CASE Admit(p)
  BY <1>2, <1>4, <1>5, <1>7 DEF Admit, At, Building
<1>8. CASE Prove(p)
  BY <1>2, <1>4, <1>5, <1>8 DEF Prove, At, Building
<1>9. CASE Submit(p)
  BY <1>2, <1>4, <1>5, <1>9 DEF Submit, SubmissionFails, At, Building
<1>10. CASE Push(p) \/ Hash(p)
  BY <1>2, <1>4, <1>5, <1>10 DEF Push, Hash, SubmissionFails, At, Building
<1>11. CASE Record(p)
  BY <1>3, <1>11 DEF Record
<1>12. QED
  BY <1>6, <1>7, <1>8, <1>9, <1>10, <1>11 DEF Build

\* A command goes from file to file.
LEMMA CommandMoves ==
    ASSUME InMemory, Command
    PROVE  /\ InMemory' /\ proc'["founder"] = proc["founder"]
           /\ Step' \in Commanding \union {"rest", "pause", "resume", "complete"}
<1>1. "refill" \in Processes /\ "founder" \in Processes
      /\ Commanding \union {"rest", "pause", "resume", "complete"} \subseteq Steps
  BY DEF Processes, Steps
<1>2. \/ Halt
      \/ \E at \in Commanding \union {"rest", "pause", "resume", "complete"} : Go("refill", at)
  BY DEF Command, PauseBuilds, ResumeBuilds, MarkGeneration, KeepOne, Enable, Renew,
         Supersede, WriteReceipt, Replace, SupersedeAgain, CompletePolicy, Commanding
<1>3. /\ proc' \in [Processes -> Memory] /\ proc'["founder"] = proc["founder"]
      /\ Step' \in Commanding \union {"rest", "pause", "resume", "complete"}
  BY <1>1, <1>2, Goes, Stops DEF Step, Halt
<1>4. QED
  BY <1>3, RefillKeepsMemory DEF Building, Commanding

\* The founder begins a build.
LEMMA FounderMoves ==
    ASSUME InMemory, FounderBuilds
    PROVE  InMemory' /\ proc'["refill"] = proc["refill"]
<1>1. "refill" \in Processes /\ "founder" \in Processes /\ "load" \in Steps
  BY DEF Processes, Steps, Building
<1>2. /\ proc' \in [Processes -> Memory]
      /\ proc'["founder"].at = "load" /\ proc'["founder"].job = proc["founder"].job
      /\ proc'["refill"] = proc["refill"]
  BY <1>1, Goes DEF FounderBuilds
<1>3. QED
  BY <1>2 DEF InMemory, Memory, Processes, Building

\* A process dies.
LEMMA DeathMoves ==
    ASSUME InMemory, NEW p \in Processes, Die(p)
    PROVE  /\ InMemory' /\ \A q \in Processes \ {p} : proc'[q] = proc[q]
           /\ proc'[p].at = "rest"
<1>1. /\ proc' \in [Processes -> Memory]
      /\ proc'[p].at = "rest" /\ proc'[p].job = NoJob
      /\ \A q \in Processes \ {p} : proc'[q] = proc[q]
  BY Stops DEF Die
<1>2. NoJob.gen = 0
  BY DEF NoJob
<1>3. InMemory'
  BY <1>1, <1>2 DEF InMemory, Memory, Processes, Building
<1>4. QED
  BY <1>1, <1>3

-----------------------------------------------------------------------------
(* Types.                                                                     *)

\* The types of the branch, the clone and its lock.
BranchTypes ==
    /\ remote \in Branch /\ clone \in [base : Branch, tip : Branch]
    /\ feedLock \in Processes \union {"free"}

\* A packet or a job is added to a branch.
LEMMA AddedToBranch ==
    ASSUME NEW b \in Branch
    PROVE  /\ \A j \in Job : LET c == [b EXCEPT !.jobs = @ \union {j}]
                             IN  c \in Branch /\ c.jobs = b.jobs \union {j} /\ c.packets = b.packets
           /\ \A i \in Items : LET c == [b EXCEPT !.packets = @ \union {i}]
                               IN  c \in Branch /\ c.packets = b.packets \union {i} /\ c.jobs = b.jobs
  BY DEF Branch

\* What a step does to the branch and the clone: nothing; the clone is reset, and
\* something may be added in it; it is pushed; the founder adds a packet.
BranchStep ==
    \/ UNCHANGED <<remote, clone>>
    \/ UNCHANGED remote /\ clone' = [base |-> remote, tip |-> remote]
    \/ /\ UNCHANGED remote
       /\ \E p \in Processes :
             /\ proc[p].at = "submit" /\ proc[p].job \in Job
             /\ clone' = [base |-> remote, tip |-> [remote EXCEPT !.jobs = @ \union {proc[p].job}]]
    \/ /\ UNCHANGED remote /\ Step = "author" /\ proc["refill"].job.item \in Items
       /\ clone' = [base |-> remote,
                    tip |-> [remote EXCEPT !.packets = @ \union {proc["refill"].job.item}]]
    \/ remote' = clone.tip /\ UNCHANGED clone
    \/ /\ UNCHANGED clone
       /\ \E i \in Items \ Backlog : remote' = [remote EXCEPT !.packets = @ \union {i}]

\* A step of any process does no more to them than that.
LEMMA BranchSteps ==
    ASSUME InMemory, AuthorOfBacklog, [Next]_vars
    PROVE  BranchStep
<1> USE DEF BranchStep
<1>1. CASE Reconcile
  <2>1. CASE Count \/ Recover \/ BasisFails \/ Replay \/ Decide
    BY <2>1 DEF Count, Recover, BasisFails, Replay, Decide, branch
  <2>2. CASE CountFeed \/ Probe \/ Prepare
    BY <2>2 DEF CountFeed, Probe, Prepare, Reset
  <2>3. CASE Author
    <3>1. Step = "author" /\ proc["refill"].job.item \in Items
      BY <2>3, JobsFeedAssumption DEF Author, At, Step, AuthorOfBacklog, JobsFeedAssumption
    <3>2. QED
      BY <2>3, <3>1 DEF Author, Reset
  <2>4. CASE Publish
    BY <2>4 DEF Publish
  <2>5. QED
    BY <1>1, <2>1, <2>2, <2>3, <2>4 DEF Reconcile
<1>2. ASSUME NEW p \in Processes, Build(p) PROVE BranchStep
  <2>1. CASE Load(p)
    BY <2>1 DEF Load, Reset
  <2>2. CASE Submit(p)
    <3>1. proc[p].at = "submit" /\ proc[p].job \in Job
      BY <2>2 DEF Submit, At, InMemory, Building
    <3>2. QED
      BY <2>2, <3>1 DEF Submit, Reset
  <2>3. CASE Push(p)
    BY <2>3 DEF Push
  <2>4. CASE Admit(p) \/ Prove(p) \/ Hash(p) \/ Record(p)
    BY <2>4 DEF Admit, Prove, Hash, Record, branch
  <2>5. QED
    BY <1>2, <2>1, <2>2, <2>3, <2>4 DEF Build
<1>3. CASE Command
  BY <1>3 DEF Command, PauseBuilds, ResumeBuilds, MarkGeneration, KeepOne, Enable, Renew,
         Supersede, WriteReceipt, Replace, SupersedeAgain, CompletePolicy, Quiet, branch
<1>4. CASE FounderBuilds
  BY <1>4 DEF FounderBuilds, branch
<1>5. CASE PacketAdded
  BY <1>5 DEF PacketAdded
<1>6. ASSUME NEW p \in Processes, Die(p) PROVE BranchStep
  BY <1>6 DEF Die
<1>7. ASSUME NEW j \in OnTheWay, Works(j) \/ Disposes(j) PROVE BranchStep
  BY <1>7 DEF Works, Disposes, branch
<1>8. CASE UNCHANGED vars
  BY <1>8 DEF vars, branch
<1>9. QED
  BY <1>1, <1>2, <1>3, <1>4, <1>5, <1>6, <1>7, <1>8 DEF Next

\* The jobs on the branch or in the clone's HEAD.
BranchJobs == remote.jobs \union clone.tip.jobs

\* Of jobs and packets only those in hand, and packets from elsewhere, come in.
LEMMA WhatComesIn ==
    ASSUME BranchTypes, InMemory, BranchStep
    PROVE  /\ remote' \in Branch /\ clone' \in [base : Branch, tip : Branch]
           /\ \A j \in BranchJobs' : \/ j \in BranchJobs
                                     \/ \E p \in Processes : proc[p].at = "submit" /\ j = proc[p].job
           /\ \A i \in Packets' : \/ i \in Packets \/ i \in Items \ Backlog
                                  \/ Step = "author" /\ i = proc["refill"].job.item
<1> USE DEF BranchTypes, BranchJobs, Packets
<1>1. CASE UNCHANGED <<remote, clone>>
  BY <1>1
<1>2. CASE UNCHANGED remote /\ clone' = [base |-> remote, tip |-> remote]
  BY <1>2
<1>3. ASSUME NEW p \in Processes, UNCHANGED remote, proc[p].at = "submit", proc[p].job \in Job,
             clone' = [base |-> remote, tip |-> [remote EXCEPT !.jobs = @ \union {proc[p].job}]]
      PROVE  /\ clone' \in [base : Branch, tip : Branch]
             /\ BranchJobs' \subseteq BranchJobs \union {proc[p].job} /\ Packets' \subseteq Packets
  <2> DEFINE tip == [remote EXCEPT !.jobs = @ \union {proc[p].job}]
  <2>1. tip \in Branch /\ tip.jobs = remote.jobs \union {proc[p].job}
        /\ tip.packets = remote.packets
    BY <1>3, AddedToBranch
  <2> HIDE DEF tip
  <2>2. clone' = [base |-> remote, tip |-> tip]
    BY <1>3 DEF tip
  <2>3. QED
    BY <1>3, <2>1, <2>2
<1>4. ASSUME UNCHANGED remote, Step = "author", proc["refill"].job.item \in Items,
             clone' = [base |-> remote,
                       tip |-> [remote EXCEPT !.packets = @ \union {proc["refill"].job.item}]]
      PROVE  /\ clone' \in [base : Branch, tip : Branch]
             /\ BranchJobs' \subseteq BranchJobs /\ Packets' \subseteq Packets \union {proc["refill"].job.item}
  <2> DEFINE tip == [remote EXCEPT !.packets = @ \union {proc["refill"].job.item}]
  <2>1. tip \in Branch /\ tip.packets = remote.packets \union {proc["refill"].job.item}
        /\ tip.jobs = remote.jobs
    BY <1>4, AddedToBranch
  <2> HIDE DEF tip
  <2>2. clone' = [base |-> remote, tip |-> tip]
    BY <1>4 DEF tip
  <2>3. QED
    BY <1>4, <2>1, <2>2
<1>5. CASE remote' = clone.tip /\ UNCHANGED clone
  BY <1>5
<1>6. ASSUME NEW i \in Items \ Backlog, UNCHANGED clone,
             remote' = [remote EXCEPT !.packets = @ \union {i}]
      PROVE  /\ remote' \in Branch
             /\ BranchJobs' \subseteq BranchJobs /\ Packets' \subseteq Packets \union {i}
  BY <1>6, AddedToBranch
<1>7. QED
  BY <1>1, <1>2, <1>3, <1>4, <1>5, <1>6, Zenon DEF BranchStep

\* The types of the stages.
StageTypes == DOMAIN stage \subseteq Job /\ \A j \in DOMAIN stage : stage[j] \in Stages

\* Jobs only get on: who is known stays known, nothing that is over occupies
\* again, and what a provider has refused, or is merged, stays so.
GetsOn ==
    /\ DOMAIN stage \subseteq DOMAIN stage'
    /\ DOMAIN stage' \subseteq DOMAIN stage \union remote.jobs
    /\ \A j \in Job : /\ Occupies(j)' => Occupies(j)
                      /\ StageOf(j) = "provider" => StageOf(j)' = "provider"
    /\ \A i \in Items : MergedItem(i) => MergedItem(i)'

\* What the host, the publisher or the completion controller makes of a job.
LEMMA BecomesOnward ==
    ASSUME StageTypes, NEW j \in Job, NEW what \in Stages, Becomes(j, what),
           j \in DOMAIN stage \union remote.jobs,
           \/ StageOf(j) = "absent"
           \/ StageOf(j) \in InQueue \union {"completed"} /\ Known(j)
    PROVE  StageTypes' /\ GetsOn
<1>1. /\ DOMAIN stage' = DOMAIN stage \union {j} /\ stage'[j] = what
      /\ \A k \in DOMAIN stage \ {j} : stage'[k] = stage[k]
  BY DEF Becomes
<1>2. StageTypes'
  BY <1>1 DEF StageTypes
<1>3. StageOf(j) # "provider" /\ (j.gen # 0 => Occupies(j))
  BY DEF InQueue, Occupies
<1>4. \A k \in Job \ {j} : StageOf(k)' = StageOf(k)
  BY <1>1 DEF StageOf, Known
<1>5. \A k \in Job : /\ Occupies(k)' => Occupies(k)
                     /\ StageOf(k) = "provider" => StageOf(k)' = "provider"
  BY <1>3, <1>4 DEF Occupies
<1>6. \A i \in Items : MergedItem(i) => MergedItem(i)'
  <2>1. SUFFICES ASSUME NEW i \in Items, MergedItem(i) PROVE MergedItem(i)'
    OBVIOUS
  <2>2. PICK k \in DOMAIN stage : k.item = i /\ stage[k] = "merged"
    BY <2>1 DEF MergedItem
  <2>3. k # j
    BY <2>2 DEF StageOf, Known, InQueue
  <2>4. QED
    BY <1>1, <2>2, <2>3 DEF MergedItem
<1>7. QED
  BY <1>1, <1>2, <1>5, <1>6 DEF GetsOn

\* They stay where they are when no step of the host is taken.
LEMMA StageStays ==
    ASSUME StageTypes, UNCHANGED stage
    PROVE  StageTypes' /\ GetsOn
  BY DEF StageTypes, GetsOn, Occupies, StageOf, Known, MergedItem

\* Every step lets the jobs stay where they are or get on.
LEMMA JobsGetOn ==
    ASSUME StageTypes, BranchTypes, [Next]_vars
    PROVE  StageTypes' /\ GetsOn
<1>1. CASE Reconcile
  BY <1>1, StageStays DEF Reconcile, Count, CountFeed, Recover, BasisFails, Replay, Decide, Probe,
         Author, Publish, Prepare
<1>2. ASSUME NEW p \in Processes, Build(p) PROVE UNCHANGED stage
  BY <1>2 DEF Build, Load, Admit, Prove, Submit, Push, Hash, Record
<1>3. CASE Command
  BY <1>3, StageStays DEF Command, PauseBuilds, ResumeBuilds, MarkGeneration, KeepOne, Enable,
         Renew, Supersede, WriteReceipt, Replace, SupersedeAgain, CompletePolicy, Quiet
<1>4. ASSUME FounderBuilds \/ PacketAdded \/ (\E p \in Processes : Die(p)) \/ UNCHANGED vars
      PROVE  UNCHANGED stage
  BY <1>4 DEF FounderBuilds, PacketAdded, Die, vars
<1>5. ASSUME NEW j \in OnTheWay, Works(j) \/ Disposes(j) PROVE StageTypes' /\ GetsOn
  <2>1. j \in Job /\ j \in DOMAIN stage \union remote.jobs
    BY DEF OnTheWay, StageTypes, BranchTypes, Branch
  <2>2. ASSUME Import(j) PROVE StageTypes' /\ GetsOn
    BY <2>1, <2>2, BecomesOnward DEF Import, StageOf, Stages, InQueue
  <2>3. \A at \in InQueue \union {"completed"} : StageOf(j) = at => Known(j)
    BY DEF StageOf, InQueue
  <2>4. ASSUME Start(j) PROVE StageTypes' /\ GetsOn
    BY <2>1, <2>3, <2>4, BecomesOnward DEF Start, Stages, InQueue
  <2>5. ASSUME Finish(j) \/ Dispose(j) PROVE StageTypes' /\ GetsOn
    <3>1. \/ StageOf(j) \in {"running", "completed"}
             /\ \E what \in {"completed", "provider", "failed", "merged", "closed"} : Becomes(j, what)
      BY <2>5 DEF Finish, Dispose
    <3>2. QED
      BY <2>1, <2>3, <3>1, BecomesOnward DEF Stages, InQueue
  <2>6. QED
    BY <1>5, <2>2, <2>4, <2>5 DEF Works, Disposes
<1>6. QED
  BY <1>1, <1>2, <1>3, <1>4, <1>5, StageStays DEF Next

-----------------------------------------------------------------------------
\* The type of the claims.
ClaimTypes == claim \in [Items -> [writer : Job \union {NoJob}, active : BOOLEAN]]

\* A claim that is only freed keeps its type.
LEMMA FreedKeepsTypes ==
    ASSUME ClaimTypes, NEW j, NEW w, claim' = [claim EXCEPT ![j.item].active = @ /\ w]
    PROVE  ClaimTypes'
<1>1. CASE j.item \in Items
  <2> DEFINE c == claim[j.item]
             d == [c EXCEPT !.active = @ /\ w]
  <2>1. c \in [writer : Job \union {NoJob}, active : BOOLEAN]
    BY <1>1 DEF ClaimTypes
  <2>2. (c.active /\ w) \in BOOLEAN
    OBVIOUS
  <2>3. d \in [writer : Job \union {NoJob}, active : BOOLEAN]
    BY <2>1, <2>2
  <2>4. claim' = [claim EXCEPT ![j.item] = d]
    OBVIOUS
  <2> HIDE DEF d, c
  <2>5. QED
    BY <2>3, <2>4 DEF ClaimTypes
<1>2. CASE j.item \notin Items
  BY <1>2 DEF ClaimTypes
<1>3. QED
  BY <1>1, <1>2

\* Every step leaves the claims well formed.
LEMMA ClaimsKeepTypes ==
    ASSUME ClaimTypes, InMemory, [Next]_vars
    PROVE  ClaimTypes'
<1>1. ASSUME UNCHANGED claim PROVE ClaimTypes'
  BY <1>1 DEF ClaimTypes
<1>2. CASE Reconcile
  BY <1>1, <1>2 DEF Reconcile, Count, CountFeed, Recover, BasisFails, Replay, Decide, Probe,
         Author, Publish, Prepare
<1>3. ASSUME NEW p \in Processes, Build(p) PROVE ClaimTypes'
  <2>1. CASE Admit(p)
    <3>1. proc[p].job \in Job
      BY <2>1 DEF Admit, At, InMemory, Building
    <3> DEFINE c == [writer |-> proc[p].job, active |-> TRUE]
    <3>2. UNCHANGED claim \/ claim' = [claim EXCEPT ![proc[p].job.item] = c]
      BY <2>1 DEF Admit
    <3>3. c \in [writer : Job \union {NoJob}, active : BOOLEAN]
      BY <3>1
    <3> HIDE DEF c
    <3>4. QED
      BY <3>2, <3>3 DEF ClaimTypes
  <2>2. CASE Submit(p) \/ Push(p) \/ Hash(p)
    <3>1. UNCHANGED claim \/ SubmissionFails(p)
      BY <2>2 DEF Submit, Push, Hash
    <3>2. QED
      BY <1>1, <3>1, FreedKeepsTypes DEF SubmissionFails
  <2>3. CASE Load(p) \/ Prove(p) \/ Record(p)
    BY <1>1, <2>3 DEF Load, Prove, Record
  <2>4. QED
    BY <1>3, <2>1, <2>2, <2>3 DEF Build
<1>4. CASE Command
  BY <1>1, <1>4 DEF Command, PauseBuilds, ResumeBuilds, MarkGeneration, KeepOne, Enable,
         Renew, Supersede, WriteReceipt, Replace, SupersedeAgain, CompletePolicy, Quiet
<1>5. CASE FounderBuilds \/ PacketAdded \/ (\E p \in Processes : Die(p)) \/ UNCHANGED vars
  BY <1>1, <1>5 DEF FounderBuilds, PacketAdded, Die, vars
<1>6. ASSUME NEW j \in OnTheWay, Works(j) \/ Disposes(j) PROVE ClaimTypes'
  <2>1. UNCHANGED claim \/ claim' = Freed(j)
    BY <1>6 DEF Works, Disposes, Import, Start, Finish, Dispose
  <2>2. QED
    BY <1>1, <2>1, FreedKeepsTypes DEF Freed
<1>7. QED
  BY <1>2, <1>3, <1>4, <1>5, <1>6 DEF Next

\* The feed lock is held by a process or by nobody.
LEMMA LockKeepsType ==
    ASSUME BranchTypes, [Next]_vars
    PROVE  feedLock' \in Processes \union {"free"}
<1>1. ASSUME UNCHANGED feedLock PROVE feedLock' \in Processes \union {"free"}
  BY <1>1 DEF BranchTypes
<1>2. CASE Reconcile
  BY <1>1, <1>2 DEF Reconcile, Count, CountFeed, Recover, BasisFails, Replay, Decide, Probe,
         Author, Publish, Prepare, branch
<1>3. ASSUME NEW p \in Processes, Build(p) PROVE feedLock' \in Processes \union {"free"}
  BY <1>1, <1>3 DEF Build, Load, Admit, Prove, Submit, Push, Hash, Record, branch
<1>4. CASE Command
  BY <1>1, <1>4 DEF Command, PauseBuilds, ResumeBuilds, MarkGeneration, KeepOne, Enable,
         Renew, Supersede, WriteReceipt, Replace, SupersedeAgain, CompletePolicy, Quiet, branch
<1>5. ASSUME NEW p \in Processes, Die(p) PROVE feedLock' \in Processes \union {"free"}
  BY <1>5 DEF Die, BranchTypes
<1>6. CASE FounderBuilds \/ PacketAdded \/ UNCHANGED vars
  BY <1>1, <1>6 DEF FounderBuilds, PacketAdded, vars, branch
<1>7. ASSUME NEW j \in OnTheWay, Works(j) \/ Disposes(j)
      PROVE  feedLock' \in Processes \union {"free"}
  BY <1>1, <1>7 DEF Works, Disposes, branch
<1>8. QED
  BY <1>2, <1>3, <1>4, <1>5, <1>6, <1>7 DEF Next

-----------------------------------------------------------------------------
(* What a generation becomes.                                                 *)

\* It goes on with what it knows and with what occupies the capacity.
Follows(g, h) ==
    /\ h \in Generation /\ h.id = g.id
    /\ Attempted(g) \subseteq Attempted(h)
    /\ g.prepared \in Attempted(h) \union {h.prepared, NoJob}
    /\ \A j \in {g.prepared, g.current} : j \in {h.prepared, h.current} \/ ~Occupies(j)

\* What follows what follows a generation follows it.
LEMMA FollowsOn ==
    ASSUME NEW g \in Generation, NEW h \in Generation, NEW k \in Generation,
           Follows(g, h), Follows(h, k)
    PROVE  Follows(g, k)
  BY DEF Follows

\* What is spent, or nothing, occupies nothing.
LEMMA SpentIsFree ==
    ASSUME NEW j, Spent(j)
    PROVE  ~Occupies(j)
  BY DEF Spent, Occupies, NoJob, InQueue

\* A change of state changes no work.
LEMMA SameWorkFollows ==
    ASSUME NEW g, NEW h \in Generation, SameWork(g, h), Sound(g)
    PROVE  Follows(g, h) /\ Sound(h)
  BY DEF SameWork, Follows, Sound, Attempted

\* A generation in another state follows the one it was.
LEMMA StateFollows ==
    ASSUME NEW g \in Generation, NEW s \in States, Sound(g)
    PROVE  LET h == [g EXCEPT !.state = s]
           IN  Follows(g, h) /\ Sound(h) /\ SameWork(g, h)
  BY StateOnly, SameWorkFollows

\* The prepared dispatch is recorded.
LEMMA RecordFollows ==
    ASSUME NEW g \in Generation, Sound(g), g.prepared # NoJob
    PROVE  LET h == Recorded(g, g.prepared)
           IN  Follows(g, h) /\ Sound(h) /\ h.prepared = NoJob /\ h.current = g.prepared
<1> DEFINE h == Recorded(g, g.prepared)
<1>1. g.prepared \in Job
  BY DEF Generation
<1>2. /\ h \in Generation /\ h.id = g.id
      /\ h.current = g.prepared /\ h.prepared = NoJob
      /\ Attempted(h) = Attempted(g) \union {g.prepared}
  BY <1>1, RecordedIsCurrent
<1> HIDE DEF h
<1>3. ~Occupies(g.current) /\ g.id # 0
  BY SpentIsFree DEF Sound
<1>4. QED
  BY <1>2, <1>3 DEF Follows, Sound, h

\* A prepared dispatch that is seen is recorded.
LEMMA MatchedFollows ==
    ASSUME NEW g \in Generation, Sound(g)
    PROVE  /\ Follows(g, Matched(g)) /\ Sound(Matched(g)) /\ Matched(g).id = g.id
           /\ Matched(g) \in Generation /\ Matched(g).prepared \in {g.prepared, NoJob}
           /\ g.prepared \in Seen(g) => g.prepared \in Attempted(Matched(g))
<1>1. NoJob \notin Seen(g)
  BY DEF Seen, NoJob
<1>2. CASE g.prepared \in Seen(g)
  <2>1. g.prepared # NoJob
    BY <1>1, <1>2
  <2>2. Matched(g) = Recorded(g, g.prepared)
    BY <1>2 DEF Matched
  <2>3. g.prepared \in Job
    BY <2>1 DEF Generation
  <2>4. g.prepared \in Attempted(Matched(g))
    BY <2>2, <2>3, RecordedIsCurrent
  <2>5. QED
    BY <1>2, <2>1, <2>2, <2>4, RecordFollows DEF Follows
<1>3. CASE g.prepared \notin Seen(g)
  BY <1>3, SameWorkFollows DEF Matched, SameWork
<1>4. QED
  BY <1>2, <1>3

\* So a job is never lost to its generation: there is nothing to recover.
LEMMA NothingToRecover ==
    ASSUME TypeOK, Sound(gen), HistoryIsPast, JobsKnown
    PROVE  Recovered(Matched(gen)) = Matched(gen)
<1> DEFINE g == Matched(gen)
<1>1. /\ Follows(gen, g) /\ g.id = gen.id
      /\ gen.prepared \in Seen(gen) => gen.prepared \in Attempted(g)
  BY MatchedFollows DEF TypeOK
<1>2. Seen(g) = Seen(gen)
  BY <1>1 DEF Seen
<1>3. ASSUME NEW j \in Seen(gen) PROVE j \in Attempted(g)
  <2>1. j \in Jobs /\ j.gen = gen.id /\ gen.id # 0
    BY DEF Seen, Jobs
  <2>2. PICK k \in {gen} \union history : k.id = j.gen /\ j \in Attempted(k) \union {k.prepared}
    BY <2>1 DEF JobsKnown, KnownJob
  <2>3. j # NoJob
    BY <2>1 DEF NoJob
  <2>4. j \in Attempted(gen) \/ j = gen.prepared
    BY <2>1, <2>2, <2>3 DEF HistoryIsPast
  <2>5. QED
    BY <1>1, <2>4 DEF Follows
<1> HIDE DEF g
<1>4. Seen(g) \ Attempted(g) = {}
  BY <1>2, <1>3
<1>5. Recovered(g) = g
  BY <1>4 DEF Recovered
<1>6. QED
  BY <1>5 DEF g

-----------------------------------------------------------------------------
(* What a step does to the generation.                                        *)

\* What a step leaves to the one that continues.
Hands ==
    /\ Step' \in Building => gen'.prepared = proc'["refill"].job /\ gen'.prepared # NoJob
    /\ Step' \in Choosing => gen'.prepared = NoJob /\ Spent(gen'.current)
    /\ Step' \in Building \union Choosing \union {"decide"} => gen'.id # 0

\* Where the refill process goes on to, and with which job.
LEMMA RefillGoes ==
    ASSUME InMemory, NEW at \in Steps, Go("refill", at)
    PROVE  Step' = at /\ proc'["refill"].job = proc["refill"].job
  BY Goes DEF Processes, Step

\* Once it has halted, nothing is in its hands.
LEMMA RefillHalts ==
    ASSUME InMemory, Halt
    PROVE  Step' = "rest" /\ Hands
  BY Stops DEF Processes, Step, Halt, Building, Choosing, Hands

\* What it takes in hand is in its hands.
LEMMA RefillTakes ==
    ASSUME InMemory, NEW m \in Memory, proc' = [proc EXCEPT !["refill"] = m]
    PROVE  Step' = m.at /\ proc'["refill"].job = m.job
  BY Takes DEF Processes, Step

\* A reconcile's generation follows the one it found, and it goes on only with
\* what it may.
ReconcileDoes == Follows(gen, gen') /\ Sound(gen') /\ Hands

\* It goes on as it is, or halts in another state.
LEMMA ReconcileIdles ==
    ASSUME TypeOK, InMemory, Sound(gen), HandOfGeneration
    PROVE  /\ gen' = gen => Follows(gen, gen') /\ Sound(gen')
           /\ \A s \in States : gen' = [gen EXCEPT !.state = s] => Follows(gen, gen') /\ Sound(gen')
           /\ Halt => Hands
           /\ \A at \in Choosing : gen' = gen /\ Step \in Choosing /\ Go("refill", at) => Hands
<1>1. gen \in Generation /\ Choosing \subseteq Steps
  BY DEF TypeOK, Steps
<1>2. gen' = gen => Follows(gen, gen') /\ Sound(gen')
  BY <1>1, SameWorkFollows DEF SameWork
<1>3. \A s \in States : gen' = [gen EXCEPT !.state = s] => Follows(gen, gen') /\ Sound(gen')
  BY <1>1, StateFollows
<1>4. \A at \in Choosing : gen' = gen /\ Step \in Choosing /\ Go("refill", at) => Hands
  <2>1. SUFFICES ASSUME NEW at \in Choosing, gen' = gen, Step \in Choosing, Go("refill", at)
                 PROVE  Hands
    OBVIOUS
  <2>2. Step' = at
    BY <1>1, <2>1, RefillGoes
  <2>3. QED
    BY <2>1, <2>2 DEF Hands, HandOfGeneration, Choosing, Building
<1>5. QED
  BY <1>2, <1>3, <1>4, RefillHalts

\* Recover records what has been prepared and is seen, and goes on to a decision.
LEMMA RecoverDoes ==
    ASSUME Inv, Recover
    PROVE  ReconcileDoes
<1>1. Recovered(Matched(gen)) = Matched(gen)
  BY NothingToRecover DEF Inv
<1>2. /\ gen' = Matched(gen)
      /\ Halt \/ (Go("refill", "decide") /\ gen'.id # 0)
  BY <1>1 DEF Recover
<1>3. gen \in Generation
  BY DEF Inv, TypeOK
<1>4. Follows(gen, gen') /\ Sound(gen')
  BY <1>2, <1>3, MatchedFollows DEF Inv
<1>5. InMemory /\ "decide" \in Steps
  BY DEF Inv, Steps
<1>6. Hands
  BY <1>2, <1>5, RefillHalts, RefillGoes DEF Hands, Building, Choosing
<1>7. QED
  BY <1>4, <1>6 DEF ReconcileDoes

\* Replay takes in hand what is prepared.
LEMMA ReplayDoes ==
    ASSUME Inv, Replay
    PROVE  ReconcileDoes
<1> DEFINE m == [Rest EXCEPT !.at = "load", !.job = gen.prepared]
<1>1. /\ TypeOK /\ InMemory /\ Sound(gen) /\ HandOfGeneration
      /\ gen \in Generation /\ Step = "decide" /\ gen' = gen
  BY DEF Inv, TypeOK, Replay, At, Step, ledger
<1>2. gen.prepared # NoJob
  BY <1>1, MatchedFollows DEF Replay
<1>3. gen.id # 0
  BY <1>1 DEF HandOfGeneration
<1>4. m \in Memory /\ m.at = "load" /\ m.job = gen.prepared
  BY <1>1 DEF Memory, Rest, Generation, Steps, Building
<1>5. proc' = [proc EXCEPT !["refill"] = m]
  BY DEF Replay
<1> HIDE DEF m
<1>6. Step' = "load" /\ proc'["refill"].job = gen.prepared
  BY <1>1, <1>4, <1>5, RefillTakes
<1>7. Hands
  BY <1>1, <1>2, <1>3, <1>6 DEF Hands, Building, Choosing
<1>8. QED
  BY <1>1, <1>7, ReconcileIdles DEF ReconcileDoes

\* An attempt that is over is dropped.
LEMMA DropFollows ==
    ASSUME NEW g \in Generation, Sound(g), g.prepared = NoJob,
           NEW items, Category(g.current) = "item_terminal", g.current # NoJob
    PROVE  LET h == [g EXCEPT !.excluded = @ \union {g.current.item},
                              !.current = NoJob, !.state = "READY"]
           IN  Follows(g, h) /\ Sound(h) /\ h.prepared = NoJob /\ h.current = NoJob /\ h.id = g.id
<1> DEFINE h == [g EXCEPT !.excluded = @ \union {g.current.item},
                          !.current = NoJob, !.state = "READY"]
<1>1. g.current.item \in Items /\ g.current \in Job
  BY DEF Generation, Job
<1>2. /\ h \in Generation /\ h.id = g.id /\ h.attempts = g.attempts
      /\ h.prepared = NoJob /\ h.current = NoJob
  BY <1>1 DEF Generation, States
<1>3. StageOf(g.current) \in {"merged", "closed"}
  BY DEF Category, InQueue
<1>4. ~Occupies(g.current) /\ ~Occupies(NoJob)
  BY <1>3 DEF Occupies, InQueue, NoJob
<1> HIDE DEF h
<1>5. QED
  BY <1>2, <1>4 DEF Follows, Sound, Attempted, h

\* Decide chooses another job only when the last is spent or dropped.
LEMMA DecideDoes ==
    ASSUME Inv, Decide
    PROVE  ReconcileDoes
<1> DEFINE g == Matched(gen)
           wait == [g EXCEPT !.state = "OPEN"]
           drop == [g EXCEPT !.excluded = @ \union {g.current.item},
                             !.current = NoJob, !.state = "READY"]
           again == [proc["refill"] EXCEPT !.at = "probe", !.again = TRUE]
<1>1. /\ TypeOK /\ InMemory /\ Sound(gen) /\ HandOfGeneration
      /\ gen \in Generation /\ Step = "decide" /\ proc["refill"] \in Memory
      /\ Choosing \subseteq Steps /\ "probe" \in Choosing
  BY DEF Inv, TypeOK, Decide, At, Step, Memory, InMemory, Processes, Steps, Choosing
<1>2. /\ g \in Generation /\ Follows(gen, g) /\ Sound(g)
      /\ g.id # 0 /\ g.prepared = NoJob
  BY <1>1, MatchedFollows DEF HandOfGeneration, Decide
<1>3. again \in Memory /\ again.at = "probe"
  BY <1>1 DEF Memory
<1>4. /\ Go("refill", "probe") => Step' = "probe"
      /\ Halt => Hands
      /\ proc' = [proc EXCEPT !["refill"] = again] => Step' = "probe"
  BY <1>1, <1>3, RefillGoes, RefillHalts, RefillTakes
<1>5. \/ g.current = NoJob /\ gen' = g /\ Go("refill", "probe")
      \/ gen' = wait /\ Halt
      \/ /\ Category(g.current) = "provider_systemic" /\ gen' = g
         /\ proc' = [proc EXCEPT !["refill"] = again]
      \/ /\ g.current # NoJob /\ Category(g.current) = "item_terminal"
         /\ gen' = drop /\ Go("refill", "probe")
  BY DEF Decide
<1> HIDE DEF g, again
<1>6. ASSUME gen' = g, Spent(g.current), Step' = "probe" PROVE ReconcileDoes
  BY <1>2, <1>6 DEF ReconcileDoes, Hands, Choosing, Building
<1>7. CASE g.current = NoJob /\ gen' = g /\ Go("refill", "probe")
  BY <1>4, <1>6, <1>7 DEF Spent
<1>8. CASE gen' = wait /\ Halt
  <2>1. wait \in Generation /\ Follows(g, wait) /\ Sound(wait)
    BY <1>2, StateFollows DEF States, Follows
  <2>2. QED
    BY <1>1, <1>2, <1>4, <1>8, <2>1, FollowsOn DEF ReconcileDoes
<1>9. CASE /\ Category(g.current) = "provider_systemic" /\ gen' = g
           /\ proc' = [proc EXCEPT !["refill"] = again]
  <2>1. Spent(g.current)
    BY <1>9 DEF Category, Spent, InQueue
  <2>2. QED
    BY <1>4, <1>6, <1>9, <2>1
<1>10. CASE /\ g.current # NoJob /\ Category(g.current) = "item_terminal"
            /\ gen' = drop /\ Go("refill", "probe")
  <2>1. Follows(g, drop) /\ Sound(drop) /\ drop.prepared = NoJob /\ drop.current = NoJob
        /\ drop.id = g.id
    BY <1>2, <1>10, DropFollows
  <2> HIDE DEF drop
  <2>2. Follows(gen, drop)
    BY <1>1, <1>2, <2>1, FollowsOn DEF Follows
  <2>3. Step' = "probe"
    BY <1>4, <1>10
  <2>4. QED
    BY <1>2, <1>10, <2>1, <2>2, <2>3 DEF ReconcileDoes, Hands, Choosing, Building, Spent
<1>11. QED
  BY <1>5, <1>7, <1>8, <1>9, <1>10

\* What is prepared comes after work that is spent.
LEMMA PrepareDoes ==
    ASSUME Inv, Prepare
    PROVE  ReconcileDoes
<1> DEFINE choice == Selectable(gen.excluded)
           job == [item |-> First(choice), gen |-> gen.id, ord |-> Len(gen.attempts) + 1]
           m == [Rest EXCEPT !.at = "load", !.job = job]
           h(again) == Prepared(gen, job, again)
<1>1. /\ TypeOK /\ InMemory /\ Sound(gen) /\ HandOfGeneration
      /\ gen \in Generation /\ Step = "prepare" /\ "prepare" \in Choosing
      /\ {"OPEN", "UNFILLED"} \subseteq States
      /\ proc["refill"].again \in BOOLEAN
  BY DEF Inv, TypeOK, Prepare, At, Step, InMemory, Processes, Choosing, States
<1>2. gen.prepared = NoJob /\ Spent(gen.current) /\ gen.id # 0
  BY <1>1 DEF HandOfGeneration
<1>3. CASE /\ choice # {} /\ Len(gen.attempts) < MaxAttempts
           /\ gen' = h(proc["refill"].again) /\ proc' = [proc EXCEPT !["refill"] = m]
  <2>1. job \in Job /\ job.gen = gen.id /\ job # NoJob
    BY <1>1, <1>2, <1>3, ChosenIsJob DEF NoJob
  <2> HIDE DEF job
  <2>2. m \in Memory /\ m.at = "load" /\ m.job = job
    BY <2>1 DEF Memory, Rest, Steps, Building
  <2> HIDE DEF m
  <2>3. Step' = "load" /\ proc'["refill"].job = job
    BY <1>1, <1>3, <2>2, RefillTakes
  <2>4. /\ gen' \in Generation /\ gen'.id = gen.id /\ gen'.attempts = gen.attempts
        /\ gen'.current = gen.current /\ gen'.prepared = job
    BY <1>1, <1>3, <2>1 DEF Prepared, Generation, States
  <2>5. Follows(gen, gen') /\ Sound(gen')
    <3>1. ~Occupies(gen.current) /\ ~Occupies(NoJob)
      BY <1>2, SpentIsFree DEF Spent
    <3>2. QED
      BY <1>2, <2>1, <2>4, <3>1 DEF Follows, Sound, Attempted
  <2>6. Hands
    BY <1>2, <2>1, <2>3, <2>4 DEF Hands, Building, Choosing
  <2>7. QED
    BY <2>5, <2>6 DEF ReconcileDoes
<1>4. CASE /\ Halt
           /\ gen' = gen \/ \E s \in {"OPEN", "UNFILLED"} : gen' = [gen EXCEPT !.state = s]
  BY <1>1, <1>4, ReconcileIdles DEF ReconcileDoes
<1>5. QED
  BY <1>3, <1>4 DEF Prepare

\* A reconcile touches neither the policy nor what is archived.
LEMMA ReconcileFollows ==
    ASSUME Inv, Reconcile
    PROVE  ReconcileDoes /\ UNCHANGED <<stage, policy, history, receipts>>
<1>1. UNCHANGED <<stage, policy, history, receipts>>
  BY DEF Reconcile, Count, CountFeed, Recover, BasisFails, Replay, Decide, Probe, Author, Publish,
         Prepare, ledger
<1> SUFFICES ReconcileDoes
  BY <1>1
<1>2. /\ TypeOK /\ InMemory /\ Sound(gen) /\ HandOfGeneration
      /\ {"PAUSED", "OPEN"} \subseteq States
      /\ "prepare" \in Choosing /\ "publish" \in Choosing
  BY DEF Inv, States, Choosing
<1>3. ASSUME NEW m \in Memory, m.at \in {"feed", "recover", "author"},
             proc' = [proc EXCEPT !["refill"] = m],
             m.at = "author" => Step \in Choosing, gen' = gen
      PROVE  ReconcileDoes
  <2>1. Step' = m.at
    BY <1>2, <1>3, RefillTakes
  <2>2. Hands
    BY <1>2, <1>3, <2>1 DEF Hands, HandOfGeneration, Building, Choosing
  <2>3. QED
    BY <1>2, <1>3, <2>2, ReconcileIdles DEF ReconcileDoes
<1>4. proc["refill"] \in Memory
  BY <1>2 DEF InMemory, Memory, Processes
<1>5. CASE Count
  <2> DEFINE m == [proc["refill"] EXCEPT !.at = "feed",
                        !.busy = \E j \in DOMAIN stage : stage[j] \in InQueue]
  <2>1. m \in Memory /\ m.at = "feed"
    BY <1>4 DEF Memory, Steps
  <2>2. proc' = [proc EXCEPT !["refill"] = m] /\ gen' = gen
    BY <1>5 DEF Count, ledger
  <2>3. QED
    BY <1>3, <2>1, <2>2
<1>6. CASE CountFeed
  <2> DEFINE m == [proc["refill"] EXCEPT !.at = "recover",
                        !.busy = @ \/ \E j \in remote.jobs : ~Known(j)]
  <2>1. m \in Memory /\ m.at = "recover"
    BY <1>4 DEF Memory, Steps
  <2>2. \/ Halt /\ (gen' = gen \/ gen' = [gen EXCEPT !.state = "PAUSED"])
        \/ proc' = [proc EXCEPT !["refill"] = m] /\ gen' = gen
    BY <1>6 DEF CountFeed
  <2>3. QED
    BY <1>2, <1>3, <2>1, <2>2, ReconcileIdles DEF ReconcileDoes
<1>7. CASE Probe
  <2> DEFINE ready == {i \in Items : Eligible(i)}
             m == [proc["refill"] EXCEPT !.at = "author", !.job = Manual(First(ready))]
  <2>1. Step \in Choosing /\ gen' = gen
    BY <1>7 DEF Probe, At, Step, Choosing, ledger
  <2>2. CASE ready # {} /\ proc' = [proc EXCEPT !["refill"] = m]
    <3>1. First(ready) \in Items
      BY <2>2, FirstIsOne
    <3>2. Manual(First(ready)) \in Job
      BY <3>1, JobsFeedAssumption DEF Manual, Job, JobsFeedAssumption
    <3>3. m \in Memory /\ m.at = "author"
      BY <1>4, <3>2 DEF Memory, Choosing, Steps
    <3>4. QED
      BY <1>3, <2>1, <2>2, <3>3
  <2>3. Go("refill", "prepare") \/ (ready # {} /\ proc' = [proc EXCEPT !["refill"] = m])
    BY <1>7 DEF Probe
  <2>4. QED
    BY <1>2, <2>1, <2>2, <2>3, ReconcileIdles DEF ReconcileDoes
<1>8. CASE Author \/ Publish
  <2>1. Step \in Choosing
    BY <1>8 DEF Author, Publish, At, Step, Choosing
  <2>2. \/ gen' = gen /\ (Go("refill", "prepare") \/ Go("refill", "publish"))
        \/ gen' = [gen EXCEPT !.state = "OPEN"] /\ Halt
    BY <1>8 DEF Author, Publish
  <2>3. QED
    BY <1>2, <2>1, <2>2, ReconcileIdles DEF ReconcileDoes
<1>9. CASE BasisFails
  BY <1>2, <1>9, ReconcileIdles DEF BasisFails, ReconcileDoes
<1>10. QED
  BY <1>1, <1>5, <1>6, <1>7, <1>8, <1>9, RecoverDoes, ReplayDoes, DecideDoes, PrepareDoes
     DEF Reconcile

-----------------------------------------------------------------------------
(* Steps that replace no generation.                                          *)

\* Nothing is archived, and the generation follows the one there was.
Keeps ==
    /\ ReconcileDoes /\ UNCHANGED <<policy, history, receipts>>
    /\ Step' \in Commanding => Step' = Step /\ gen' = gen

\* Whatever leaves the generation and the refill process alone, or ends it.
LEMMA IdleKeeps ==
    ASSUME Inv, UNCHANGED ledger, proc'["refill"] = proc["refill"] \/ Step' = "rest"
    PROVE  Keeps
<1>1. /\ TypeOK /\ InMemory /\ Sound(gen) /\ HandOfGeneration
      /\ gen' = gen /\ UNCHANGED <<policy, history, receipts>>
  BY DEF Inv, ledger
<1>2. Follows(gen, gen') /\ Sound(gen')
  BY <1>1, ReconcileIdles
<1>3. Hands /\ (Step' \in Commanding => Step' = Step)
  BY <1>1 DEF Hands, HandOfGeneration, Step, Building, Choosing, Commanding
<1>4. QED
  BY <1>1, <1>2, <1>3 DEF Keeps, ReconcileDoes

\* A reconcile is such a step.
LEMMA ReconcileKeeps ==
    ASSUME Inv, Reconcile
    PROVE  Keeps
<1>1. Step' \notin Commanding
  BY ReconcileMoves DEF Inv, Choosing, Commanding
<1>2. QED
  BY <1>1, ReconcileFollows DEF Keeps

\* A step of the refill controller's build.
LEMMA RefillBuildKeeps ==
    ASSUME Inv, Build("refill")
    PROVE  Keeps
<1>1. /\ TypeOK /\ InMemory /\ Sound(gen) /\ HandOfGeneration
      /\ gen \in Generation /\ "refill" \in Processes /\ {"UNFILLED", "OPEN"} \subseteq States
  BY DEF Inv, TypeOK, Processes, States
<1>2. BuildsOn("refill") /\ Step \in Building
  BY <1>1, BuildMoves DEF Build, Load, Admit, Prove, Submit, Push, Hash, Record, At, Step, Building
<1>3. Step' = "rest" \/ (Step' \in Building /\ proc'["refill"].job = proc["refill"].job)
  BY <1>2 DEF BuildsOn, Step
<1>4. Step' \notin Commanding /\ Step' \notin Choosing \union {"decide"}
  BY <1>3 DEF Building, Commanding, Choosing
<1>5. gen.prepared = proc["refill"].job /\ gen.prepared # NoJob /\ gen.id # 0
  BY <1>1, <1>2 DEF HandOfGeneration
<1>6. ASSUME SameWork(gen, gen'), gen' \in Generation, UNCHANGED <<policy, history, receipts>>
      PROVE  Keeps
  <2>1. Follows(gen, gen') /\ Sound(gen')
    BY <1>1, <1>6, SameWorkFollows
  <2>2. Hands
    BY <1>3, <1>4, <1>5, <1>6 DEF Hands, SameWork, Building
  <2>3. QED
    BY <1>4, <1>6, <2>1, <2>2 DEF Keeps, ReconcileDoes
<1>7. ASSUME NEW state \in {"", "UNFILLED", "OPEN"}, Answer("refill", state) PROVE Keeps
  <2>1. gen' = gen \/ \E s \in States : gen' = [gen EXCEPT !.state = s]
    BY <1>1, <1>7 DEF Answer
  <2>2. SameWork(gen, gen') /\ gen' \in Generation
    BY <1>1, <2>1, StateOnly DEF SameWork
  <2>3. QED
    BY <1>6, <1>7, <2>2 DEF Answer
<1>8. ASSUME UNCHANGED ledger PROVE Keeps
  BY <1>1, <1>6, <1>8 DEF ledger, SameWork
<1>9. CASE Load("refill")
  BY <1>7, <1>8, <1>9 DEF Load
<1>10. CASE Admit("refill") \/ Prove("refill")
  BY <1>7, <1>8, <1>10 DEF Admit, Prove
<1>11. CASE Submit("refill") \/ Push("refill") \/ Hash("refill")
  BY <1>7, <1>8, <1>11 DEF Submit, Push, Hash, SubmissionFails
<1>12. CASE Record("refill")
  <2>1. gen' = Recorded(gen, gen.prepared) /\ Halt /\ UNCHANGED <<policy, history, receipts>>
    BY <1>5, <1>12 DEF Record, Halt
  <2>2. Follows(gen, gen') /\ Sound(gen')
    BY <1>1, <1>5, <2>1, RecordFollows
  <2>3. QED
    BY <1>1, <1>4, <2>1, <2>2, RefillHalts DEF Keeps, ReconcileDoes
<1>13. QED
  BY <1>9, <1>10, <1>11, <1>12 DEF Build

\* The founder's build tells the generation nothing.
LEMMA FounderBuildKeeps ==
    ASSUME Inv, Build("founder")
    PROVE  Keeps
<1>1. UNCHANGED ledger
  BY DEF Build, Load, Admit, Prove, Submit, Push, Hash, SubmissionFails, Record, Answer, ledger
<1>2. BuildsOn("founder")
  BY BuildMoves DEF Inv, Processes
<1>3. proc'["refill"] = proc["refill"]
  BY <1>2 DEF BuildsOn, Processes
<1>4. QED
  BY <1>1, <1>3, IdleKeeps

\* So is every other step, but for the commands.
LEMMA OthersKeep ==
    ASSUME Inv, [Next]_vars
    PROVE  Keeps \/ Command
<1>1. InMemory
  BY DEF Inv
<1>2. ASSUME NEW p \in Processes, Build(p) PROVE Keeps
  BY <1>2, TwoProcesses, RefillBuildKeeps, FounderBuildKeeps
<1>3. ASSUME NEW p \in Processes, Die(p) PROVE Keeps
  <2>1. UNCHANGED ledger
    BY <1>3 DEF Die
  <2>2. proc'["refill"] = proc["refill"] \/ Step' = "rest"
    BY <1>1, <1>3, DeathMoves DEF Step, Processes
  <2>3. QED
    BY <2>1, <2>2, IdleKeeps
<1>4. CASE FounderBuilds
  BY <1>1, <1>4, IdleKeeps, FounderMoves DEF FounderBuilds
<1>5. CASE PacketAdded \/ UNCHANGED vars
  <2>1. UNCHANGED <<ledger, proc>>
    BY <1>5 DEF PacketAdded, vars
  <2>2. QED
    BY <2>1, IdleKeeps
<1>6. ASSUME NEW j \in OnTheWay, Works(j) \/ Disposes(j) PROVE Keeps
  BY <1>6, IdleKeeps DEF Works, Disposes
<1>7. QED
  BY <1>2, <1>3, <1>4, <1>5, <1>6, ReconcileKeeps DEF Next

-----------------------------------------------------------------------------
(* What they keep.                                                            *)

\* The jobs that come in are in hand, or of no generation.
LEMMA JobsComeIn ==
    ASSUME TypeOK, InMemory, HandOfGeneration, AuthorOfBacklog, [Next]_vars
    PROVE  /\ Jobs' \subseteq Job
           /\ \A j \in Jobs' : j \in Jobs \/ j.gen = 0 \/ (Step \in Building /\ j = gen.prepared)
<1>1. BranchTypes /\ StageTypes
  BY DEF TypeOK, BranchTypes, StageTypes
<1>2. BranchStep /\ StageTypes' /\ GetsOn
  BY <1>1, BranchSteps, JobsGetOn
<1>3. /\ remote' \in Branch /\ clone' \in [base : Branch, tip : Branch]
      /\ \A j \in BranchJobs' : \/ j \in BranchJobs
                                \/ \E p \in Processes : proc[p].at = "submit" /\ j = proc[p].job
  BY <1>1, <1>2, WhatComesIn
<1>4. Jobs' = BranchJobs' \union DOMAIN stage' /\ Jobs = BranchJobs \union DOMAIN stage
  BY DEF Jobs, BranchJobs
<1>5. Jobs' \subseteq Job
  BY <1>2, <1>3 DEF Jobs, Branch, StageTypes
<1>6. \A j \in Jobs' : j \in Jobs \/ j \in BranchJobs'
  BY <1>2, <1>4 DEF GetsOn, BranchJobs
<1>7. ASSUME NEW j \in BranchJobs'
      PROVE  j \in Jobs \/ j.gen = 0 \/ (Step \in Building /\ j = gen.prepared)
  <2>1. CASE j \in BranchJobs
    BY <1>4, <2>1
  <2>2. CASE proc["refill"].at = "submit" /\ j = proc["refill"].job
    BY <2>2 DEF HandOfGeneration, Step, Building
  <2>3. CASE proc["founder"].at = "submit" /\ j = proc["founder"].job
    BY <2>3 DEF InMemory
  <2>4. QED
    BY <1>3, <2>1, <2>2, <2>3, TwoProcesses
<1>8. QED
  BY <1>5, <1>6, <1>7

\* Such a step leaves what is archived, and the receipts, in order.
LEMMA LedgerKept ==
    ASSUME Inv, Keeps, GetsOn
    PROVE  /\ gen' \in Generation /\ Sound(gen)' /\ HandOfGeneration'
           /\ HistoryIsPast' /\ ReceiptsGoOn' /\ ReplacedIsArchived'
<1>1. /\ Follows(gen, gen') /\ Sound(gen') /\ Hands
      /\ policy' = policy /\ history' = history /\ receipts' = receipts
      /\ Step' \in Commanding => Step' = Step /\ gen' = gen
  BY DEF Keeps, ReconcileDoes
<1>2. gen' \in Generation /\ gen'.id = gen.id /\ Attempted(gen) \subseteq Attempted(gen')
  BY <1>1 DEF Follows
<1>3. gen'.current \in Job \union {NoJob} /\ (Spent(gen'.current) => Spent(gen.current)')
  <2>1. gen'.current \in Job \union {NoJob}
    BY <1>2 DEF Generation
  <2>2. \A j \in Job \union {NoJob} : StageOf(j) = "provider" => j = NoJob \/ StageOf(j)' = "provider"
    BY DEF GetsOn
  <2>3. QED
    BY <2>1, <2>2 DEF Spent, StageOf, Known
<1>4. Sound(gen)' /\ HandOfGeneration'
  BY <1>1, <1>3 DEF Sound, Hands, HandOfGeneration, Spent, Step, StageOf, Known
<1>5. HistoryIsPast'
  BY <1>1, <1>2 DEF Inv, HistoryIsPast, Attempted
<1>6. ReceiptsGoOn'
  BY <1>1 DEF Inv, ReceiptsGoOn
<1>7. ReplacedIsArchived'
  <2>1. CASE Step' \in Commanding
    <3>1. gen' = gen /\ receipts' = receipts /\ history' = history /\ Step' = Step
      BY <1>1, <2>1
    <3>2. FreshId' = FreshId
      BY <3>1 DEF FreshId
    <3>3. QED
      BY <3>1, <3>2 DEF Inv, ReplacedIsArchived
  <2>2. CASE Step' \notin Commanding
    BY <2>2 DEF ReplacedIsArchived, Commanding
  <2>3. QED
    BY <2>1, <2>2
<1>8. QED
  BY <1>2, <1>4, <1>5, <1>6, <1>7

\* A job that is known stays known.
LEMMA KnownStays ==
    ASSUME NEW j \in Job, KnownJob(j), Follows(gen, gen'), history' = history
    PROVE  KnownJob(j)'
<1>1. SUFFICES ASSUME j.gen # 0
               PROVE  \E g \in {gen'} \union history' :
                          g.id = j.gen /\ j \in Attempted(g) \union {g.prepared}
  BY DEF KnownJob, Attempted
<1>2. PICK g \in {gen} \union history : g.id = j.gen /\ j \in Attempted(g) \union {g.prepared}
  BY <1>1 DEF KnownJob
<1>3. j # NoJob
  BY <1>1 DEF NoJob
<1>4. QED
  BY <1>2, <1>3 DEF Follows

\* Every job is still known, and what occupies the capacity still in hand.
LEMMA WorkKept ==
    ASSUME Inv, Keeps, GetsOn, [Next]_vars
    PROVE  JobsKnown' /\ CapacityInHand' /\ NothingLeft'
<1>1. /\ Follows(gen, gen') /\ history' = history
      /\ Step' \in Commanding => Step' = Step /\ gen' = gen
  BY DEF Keeps, ReconcileDoes
<1>2. /\ Jobs' \subseteq Job
      /\ \A j \in Jobs' : j \in Jobs \/ j.gen = 0 \/ (Step \in Building /\ j = gen.prepared)
  BY JobsComeIn DEF Inv
<1>3. JobsKnown'
  <2>1. SUFFICES ASSUME NEW j \in Jobs', j.gen # 0 PROVE KnownJob(j)'
    BY DEF JobsKnown, KnownJob
  <2>2. KnownJob(j)
    <3>1. CASE j \in Jobs
      BY <3>1 DEF Inv, JobsKnown
    <3>2. CASE j = gen.prepared
      BY <2>1, <3>2 DEF Inv, Sound, KnownJob, NoJob
    <3>3. QED
      BY <1>2, <2>1, <3>1, <3>2
  <2>3. QED
    BY <1>1, <1>2, <2>2, KnownStays
<1>4. CapacityInHand'
  <2>1. SUFFICES ASSUME NEW j \in Jobs', Occupies(j)' PROVE j \in {gen'.prepared, gen'.current}
    BY DEF CapacityInHand
  <2>2. Occupies(j) /\ j.gen # 0
    BY <1>2, <2>1 DEF GetsOn, Occupies
  <2>3. j \in {gen.prepared, gen.current}
    BY <1>2, <2>2 DEF Inv, CapacityInHand
  <2>4. QED
    BY <1>1, <2>2, <2>3 DEF Follows
<1>5. NothingLeft'
  <2>1. SUFFICES ASSUME Step' \in Commanding, gen'.current \in Jobs', Occupies(gen.current)'
                 PROVE  FALSE
    BY DEF NothingLeft
  <2>2. gen' = gen /\ Step \in Commanding
    BY <1>1, <2>1
  <2>3. gen.current \in Job /\ Occupies(gen.current)
    BY <1>2, <2>1, <2>2 DEF GetsOn, Occupies, StageOf, Known
  <2>4. gen.current \in Jobs
    BY <1>2, <2>1, <2>2, <2>3 DEF Occupies, Commanding, Building
  <2>5. QED
    BY <2>2, <2>3, <2>4 DEF Inv, NothingLeft
<1>6. QED
  BY <1>3, <1>4, <1>5

-----------------------------------------------------------------------------
(* The founder's commands.                                                    *)

\* What they leave alone.
LEMMA CommandQuiet ==
    ASSUME Command
    PROVE  /\ UNCHANGED <<remote, clone, feedLock, stage>>
           /\ Jobs' = Jobs /\ Packets' = Packets
           /\ \A j : (Occupies(j)' <=> Occupies(j)) /\ StageOf(j)' = StageOf(j)
           /\ \A i : MergedItem(i)' <=> MergedItem(i)
<1>1. UNCHANGED <<remote, clone, feedLock, stage>>
  BY DEF Command, PauseBuilds, ResumeBuilds, MarkGeneration, KeepOne, Enable, Renew,
         Supersede, WriteReceipt, Replace, SupersedeAgain, CompletePolicy, Quiet, branch
<1>2. QED
  BY <1>1 DEF Jobs, Packets, Occupies, StageOf, Known, MergedItem

\* What a command must see to: all that depends on the generation.
GenerationKept == Sound(gen)' /\ HistoryIsPast' /\ JobsKnown' /\ CapacityInHand'

\* It marks the generation or archives it as it is.
LEMMA MarkedKept ==
    ASSUME Inv, Command, SameWork(gen, gen'), gen' \in Generation,
           \/ history' = history
           \/ history' = history \union {gen} /\ gen.prepared = NoJob
    PROVE  GenerationKept
<1>1. /\ Jobs' = Jobs /\ \A j : (Occupies(j)' <=> Occupies(j)) /\ StageOf(j)' = StageOf(j)
  BY CommandQuiet
<1>2. Sound(gen)'
  BY <1>1 DEF Inv, Sound, Spent, SameWork
<1>3. HistoryIsPast'
  <2>1. Attempted(gen') = Attempted(gen) /\ gen'.id = gen.id /\ gen.id \in Nat
    BY DEF Attempted, SameWork, Inv, TypeOK, Generation
  <2>2. QED
    BY <2>1 DEF Inv, HistoryIsPast, Attempted
<1>4. JobsKnown'
  BY <1>1 DEF Inv, JobsKnown, KnownJob, SameWork, Attempted
<1>5. CapacityInHand'
  BY <1>1 DEF Inv, CapacityInHand, SameWork
<1>6. QED
  BY <1>2, <1>3, <1>4, <1>5 DEF GenerationKept

\* It puts another in its place.
LEMMA ReplacedKept ==
    ASSUME Inv, Command, Step \in {"renew", "replace"}, history' = history,
           gen' \in Generation, gen.id < gen'.id,
           gen'.prepared = NoJob, gen'.current = NoJob
    PROVE  GenerationKept
<1>1. /\ Jobs' = Jobs /\ \A j : (Occupies(j)' <=> Occupies(j))
  BY CommandQuiet
<1>2. /\ gen.id \in Nat /\ gen'.id \in Nat /\ \A g \in history : g.id \in Nat /\ g.id <= gen.id
  BY DEF Inv, TypeOK, Generation, HistoryIsPast
<1>3. /\ gen.id = 0 \/ gen \in history
      /\ gen.prepared = NoJob /\ ~(gen.current \in Jobs /\ Occupies(gen.current))
  BY DEF Inv, ReplacedIsArchived, NothingLeft, Commanding
<1>4. Sound(gen)'
  BY DEF Sound
<1>5. HistoryIsPast'
  BY <1>2 DEF Inv, HistoryIsPast, Attempted
<1>6. JobsKnown'
  <2>1. SUFFICES ASSUME NEW j \in Jobs', j.gen # 0
                 PROVE  \E g \in {gen'} \union history' :
                            g.id = j.gen /\ j \in Attempted(g) \union {g.prepared}
    BY DEF JobsKnown, KnownJob, Attempted
  <2>2. PICK g \in {gen} \union history : g.id = j.gen /\ j \in Attempted(g) \union {g.prepared}
    BY <1>1, <2>1 DEF Inv, JobsKnown, KnownJob
  <2>3. QED
    BY <1>3, <2>1, <2>2
<1>7. CapacityInHand'
  <2>1. SUFFICES ASSUME NEW j \in Jobs', Occupies(j)' PROVE FALSE
    BY DEF CapacityInHand
  <2>2. j \in Jobs /\ Occupies(j) /\ j # NoJob
    BY <1>1, <2>1 DEF Occupies, NoJob
  <2>3. QED
    BY <1>3, <2>2 DEF Inv, CapacityInHand
<1>8. QED
  BY <1>4, <1>5, <1>6, <1>7 DEF GenerationKept

\* The attempt of a generation that may be superseded occupies nothing.
LEMMA SupersededIsFree ==
    ASSUME Inv, Supersedable(gen)
    PROVE  gen.prepared = NoJob /\ ~(gen.current \in Jobs /\ Occupies(gen.current))
<1>1. /\ gen.prepared = NoJob /\ Category(gen.current) = "unknown"
      /\ \A j \in remote.jobs : Known(j)
  BY DEF Supersedable
<1>2. CASE StageOf(gen.current) = "failed"
  BY <1>1, <1>2 DEF Occupies, InQueue
<1>3. CASE StageOf(gen.current) # "failed"
  <2>1. /\ StageOf(gen.current) \notin {"merged", "closed", "completed", "provider"} \union InQueue
        /\ gen.current \notin clone.tip.jobs
    BY <1>1, <1>3 DEF Category
  <2>2. ~Known(gen.current)
    <3>1. Known(gen.current) => stage[gen.current] \in Stages
      BY DEF Inv, TypeOK, Known
    <3>2. QED
      BY <1>3, <2>1, <3>1 DEF StageOf, Stages
  <2>3. QED
    BY <1>1, <2>1, <2>2 DEF Jobs, Known
<1>4. QED
  BY <1>2, <1>3

\* The type of the policy.
PolicyTypes == policy \in [on : BOOLEAN, founded : BOOLEAN, superseded : 0 .. MaxGenerations]

\* What else a command must see to.
FilesKept ==
    /\ PolicyTypes' /\ gen' \in Generation /\ history' \subseteq Generation
    /\ receipts' \subseteq [old : Generation, new : Generation]
    /\ ReceiptsGoOn' /\ ReplacedIsArchived' /\ NothingLeft'

\* It only enables or disables: nothing is about to be replaced.
LEMMA PolicyKept ==
    ASSUME Inv, PolicyTypes', policy'.superseded = policy.superseded,
           gen' \in Generation, history' = history, receipts' = receipts,
           Step' \notin Commanding
    PROVE  FilesKept
<1>1. history' \subseteq Generation /\ receipts' \subseteq [old : Generation, new : Generation]
  BY DEF Inv, TypeOK
<1>2. ReceiptsGoOn'
  BY DEF Inv, ReceiptsGoOn
<1>3. ReplacedIsArchived' /\ NothingLeft'
  BY DEF ReplacedIsArchived, NothingLeft, Commanding
<1>4. QED
  BY <1>1, <1>2, <1>3 DEF FilesKept

\* Every command keeps the work and its files in order.
LEMMA CommandKept ==
    ASSUME Inv, Command
    PROVE  GenerationKept /\ FilesKept /\ HandOfGeneration'
<1>1. /\ TypeOK /\ InMemory /\ gen \in Generation /\ PolicyTypes
      /\ history \subseteq Generation /\ receipts \subseteq [old : Generation, new : Generation]
      /\ gen.id \in 0 .. MaxGenerations /\ MaxGenerations \in Nat
  BY JobsFeedAssumption DEF Inv, TypeOK, Generation, PolicyTypes, JobsFeedAssumption
<1>2. HandOfGeneration'
  BY <1>1, CommandMoves DEF HandOfGeneration, Commanding, Building, Choosing
<1>3. /\ \A at \in Steps : Go("refill", at) => Step' = at
      /\ Halt => Step' = "rest"
      /\ Commanding \union {"rest", "pause", "resume", "complete"} \subseteq Steps
  BY <1>1, RefillGoes, RefillHalts DEF Steps
<1>4. gen' = gen => SameWork(gen, gen')
  BY DEF SameWork
<1>5. gen' = gen /\ receipts' = receipts => FreshId' = FreshId
  BY DEF FreshId
<1>6. Jobs' = Jobs /\ \A j : (Occupies(j)' <=> Occupies(j))
  BY CommandQuiet
<1>7. /\ FreshId \in Nat /\ gen.id < FreshId /\ \A r \in receipts : r.new.id < FreshId
  BY <1>1, FreshIsHigher
<1>8. CASE PauseBuilds \/ ResumeBuilds
  <2>1. /\ gen' = gen /\ history' = history /\ receipts' = receipts
        /\ \E b \in BOOLEAN : policy' = [policy EXCEPT !.on = b]
        /\ Go("refill", "pause") \/ Go("refill", "resume")
    BY <1>8 DEF PauseBuilds, ResumeBuilds, Files
  <2>2. PolicyTypes' /\ policy'.superseded = policy.superseded
    BY <1>1, <2>1 DEF PolicyTypes
  <2>3. Step' \notin Commanding
    BY <1>3, <2>1 DEF Commanding
  <2>4. QED
    BY <1>1, <1>2, <1>4, <2>1, <2>2, <2>3, PolicyKept, MarkedKept
<1>9. CASE MarkGeneration
  <2>1. /\ gen' = gen \/ \E s \in {"PAUSED", "READY"} : gen' = [gen EXCEPT !.state = s]
        /\ history' = history /\ receipts' = receipts /\ policy' = policy /\ Halt
    BY <1>9 DEF MarkGeneration, Files
  <2>2. SameWork(gen, gen') /\ gen' \in Generation
    BY <1>1, <1>4, <2>1, StateOnly DEF States
  <2>3. PolicyTypes'
    BY <1>1, <2>1 DEF PolicyTypes
  <2>4. Step' \notin Commanding
    BY <1>3, <2>1 DEF Commanding
  <2>5. QED
    BY <1>2, <2>1, <2>2, <2>3, <2>4, PolicyKept, MarkedKept
<1>10. CASE KeepOne
  <2>1. /\ policy' = policy /\ gen' = gen /\ receipts' = receipts /\ Step' = "enable"
        /\ FreshId <= MaxGenerations
        /\ \/ gen.id = 0 /\ history' = history
           \/ /\ gen.current = NoJob /\ gen.prepared = NoJob
              /\ history' = history \union {gen}
    BY <1>3, <1>10 DEF KeepOne, Files, Commanding
  <2>2. gen.current = NoJob /\ gen.prepared = NoJob
    BY <2>1 DEF Inv, Sound
  <2>3. GenerationKept
    BY <1>1, <1>4, <2>1, <2>2, MarkedKept
  <2>4. PolicyTypes' /\ history' \subseteq Generation /\ ReceiptsGoOn'
    BY <1>1, <2>1 DEF PolicyTypes, Inv, ReceiptsGoOn
  <2>5. NothingLeft' /\ ReplacedIsArchived'
    BY <1>5, <2>1, <2>2 DEF NothingLeft, ReplacedIsArchived, Commanding, Occupies, NoJob
  <2>6. QED
    BY <1>1, <1>2, <2>1, <2>3, <2>4, <2>5 DEF FilesKept
<1>11. CASE Enable
  <2>1. /\ policy' = [policy EXCEPT !.on = TRUE, !.founded = TRUE]
        /\ gen' = gen /\ history' = history /\ receipts' = receipts
        /\ Step = "enable" /\ Step' = "renew"
    BY <1>3, <1>11 DEF Enable, Files, Commanding, At, Step
  <2>2. PolicyTypes' /\ policy'.superseded = policy.superseded
    BY <1>1, <2>1 DEF PolicyTypes
  <2>3. ReceiptsGoOn'
    BY <2>1, <2>2 DEF Inv, ReceiptsGoOn
  <2>4. NothingLeft' /\ ReplacedIsArchived'
    BY <1>5, <1>6, <2>1 DEF Inv, NothingLeft, ReplacedIsArchived, Commanding, Occupies
  <2>5. QED
    BY <1>1, <1>2, <1>4, <2>1, <2>2, <2>3, <2>4, MarkedKept DEF FilesKept
<1>12. CASE Renew
  <2>1. /\ policy' = policy /\ gen' = NewGeneration(FreshId)
        /\ history' = history /\ receipts' = receipts
        /\ Step = "renew" /\ Step' = "rest"
    BY <1>3, <1>12 DEF Renew, Files, At, Step
  <2>2. FreshId \in 0 .. MaxGenerations
    BY <1>1, <1>7, <2>1 DEF Inv, ReplacedIsArchived, Commanding
  <2>3. /\ gen' \in Generation /\ gen'.id = FreshId
        /\ gen'.prepared = NoJob /\ gen'.current = NoJob
    BY <2>1, <2>2, NewHasNone
  <2>4. GenerationKept
    BY <1>7, <2>1, <2>3, ReplacedKept
  <2>5. PolicyTypes' /\ Step' \notin Commanding
    BY <1>1, <2>1 DEF PolicyTypes, Commanding
  <2>6. QED
    BY <1>2, <2>1, <2>3, <2>4, <2>5, PolicyKept
<1>13. CASE Supersede
  <2>1. /\ policy' = policy /\ gen' = gen /\ receipts' = receipts
        /\ Supersedable(gen)
        /\ \/ history' = history \union {gen} /\ Step' = "receipt" /\ FreshId <= MaxGenerations
           \/ history' = history /\ gen \in history /\ Step' = "replace"
    BY <1>3, <1>13 DEF Supersede, Files, Commanding
  <2>2. gen.prepared = NoJob /\ ~(gen.current \in Jobs /\ Occupies(gen.current))
    BY <2>1, SupersededIsFree
  <2>3. GenerationKept
    BY <1>1, <1>4, <2>1, <2>2, MarkedKept
  <2>4. PolicyTypes' /\ history' \subseteq Generation /\ ReceiptsGoOn'
    BY <1>1, <2>1 DEF PolicyTypes, Inv, ReceiptsGoOn
  <2>5. NothingLeft'
    BY <1>6, <2>1, <2>2 DEF NothingLeft, Occupies
  <2>6. ReplacedIsArchived'
    BY <1>5, <2>1, <2>2 DEF ReplacedIsArchived, Commanding
  <2>7. QED
    BY <1>1, <1>2, <2>1, <2>3, <2>4, <2>5, <2>6 DEF FilesKept
<1>14. CASE WriteReceipt
  <2> DEFINE new == [old |-> gen, new |-> NewGeneration(FreshId)]
  <2>1. /\ policy' = policy /\ gen' = gen /\ history' = history
        /\ receipts' = receipts \union {new}
        /\ Step = "receipt" /\ Step' = "replace"
    BY <1>3, <1>14 DEF WriteReceipt, Files, At, Step, Commanding
  <2>2. FreshId \in 0 .. MaxGenerations /\ gen \in history
    BY <1>1, <1>7, <2>1 DEF Inv, ReplacedIsArchived, Commanding
  <2>3. /\ new \in [old : Generation, new : Generation] /\ new.old = gen
        /\ new.new.id = FreshId /\ new.new.prepared = NoJob /\ new.new.current = NoJob
    BY <1>1, <2>2, NewHasNone
  <2> HIDE DEF new
  <2>4. PolicyTypes' /\ ReceiptsGoOn'
    BY <1>1, <1>7, <2>1, <2>2, <2>3 DEF PolicyTypes, Inv, ReceiptsGoOn
  <2>5. NothingLeft' /\ ReplacedIsArchived'
    BY <1>6, <2>1, <2>2 DEF Inv, NothingLeft, ReplacedIsArchived, Commanding, Occupies
  <2>6. QED
    BY <1>1, <1>2, <1>4, <2>1, <2>3, <2>4, <2>5, MarkedKept DEF FilesKept
<1>15. CASE Replace
  <2>1. PICK r \in receipts : r.old = gen /\ Files(policy, r.new, history, receipts)
    BY <1>15 DEF Replace
  <2>2. /\ policy' = policy /\ gen' = r.new /\ history' = history /\ receipts' = receipts
        /\ Step = "replace" /\ Step' = "complete"
    BY <1>3, <1>15, <2>1 DEF Replace, Files, At, Step
  <2>3. /\ gen' \in Generation /\ gen.id < gen'.id
        /\ gen'.prepared = NoJob /\ gen'.current = NoJob
    BY <1>1, <2>1, <2>2 DEF Inv, ReceiptsGoOn
  <2>4. GenerationKept
    BY <2>2, <2>3, ReplacedKept
  <2>5. PolicyTypes' /\ Step' \notin Commanding
    BY <1>1, <2>2 DEF PolicyTypes, Commanding
  <2>6. QED
    BY <1>2, <2>2, <2>3, <2>4, <2>5, PolicyKept
<1>16. CASE SupersedeAgain
  <2>1. /\ policy' = policy /\ gen' = gen /\ history' = history /\ receipts' = receipts
        /\ Step' = "complete"
    BY <1>3, <1>16 DEF SupersedeAgain, Files
  <2>2. PolicyTypes' /\ Step' \notin Commanding
    BY <1>1, <2>1 DEF PolicyTypes, Commanding
  <2>3. QED
    BY <1>1, <1>2, <1>4, <2>1, <2>2, PolicyKept, MarkedKept
<1>17. CASE CompletePolicy
  <2>1. PICK r \in receipts :
            Files([on |-> TRUE, founded |-> TRUE, superseded |-> r.old.id], gen, history, receipts)
    BY <1>17 DEF CompletePolicy
  <2>2. /\ policy' = [on |-> TRUE, founded |-> TRUE, superseded |-> r.old.id]
        /\ gen' = gen /\ history' = history /\ receipts' = receipts /\ Step' = "rest"
    BY <1>3, <1>17, <2>1 DEF CompletePolicy, Files
  <2>3. r.old.id \in 0 .. MaxGenerations
    BY <1>1 DEF Generation
  <2>4. PolicyTypes' /\ ReceiptsGoOn'
    BY <2>2, <2>3 DEF PolicyTypes, Inv, ReceiptsGoOn
  <2>5. NothingLeft' /\ ReplacedIsArchived'
    BY <2>2 DEF NothingLeft, ReplacedIsArchived, Commanding
  <2>6. QED
    BY <1>1, <1>2, <1>4, <2>2, <2>4, <2>5, MarkedKept DEF FilesKept
<1>18. QED
  BY <1>8, <1>9, <1>10, <1>11, <1>12, <1>13, <1>14, <1>15, <1>16, <1>17 DEF Command

-----------------------------------------------------------------------------
(* Packets.                                                                   *)

\* The packet a reconcile goes on with is the one it has found to be due.
LEMMA AuthorKept ==
    ASSUME Inv, GetsOn, [Next]_vars
    PROVE  AuthorOfBacklog'
<1> DEFINE Due(i) == i \in Backlog /\ \A d \in DependsOn[i] : MergedItem(d)
<1>1. InMemory /\ AuthorOfBacklog /\ proc["refill"] \in Memory
  BY DEF Inv, InMemory, Memory, Processes
<1>2. \A i \in Backlog : (\A d \in DependsOn[i] : MergedItem(d))
                            => \A d \in DependsOn[i] : MergedItem(d)'
  BY JobsFeedAssumption DEF GetsOn, JobsFeedAssumption
<1>3. SUFFICES ASSUME Step' \in {"author", "publish"}
               PROVE  Due(proc'["refill"].job.item)
  BY <1>2 DEF AuthorOfBacklog
<1>4. ASSUME proc'["refill"] = proc["refill"] PROVE Due(proc'["refill"].job.item)
  BY <1>1, <1>3, <1>4 DEF AuthorOfBacklog, Step
<1>5. CASE Probe
  <2> DEFINE ready == {i \in Items : Eligible(i)}
             m == [proc["refill"] EXCEPT !.at = "author", !.job = Manual(First(ready))]
  <2>1. "prepare" \in Steps
    BY DEF Steps, Choosing
  <2>2. ready # {} /\ proc' = [proc EXCEPT !["refill"] = m]
    BY <1>1, <1>3, <1>5, <2>1, RefillGoes DEF Probe
  <2>3. First(ready) \in ready
    BY <2>2, FirstIsOne
  <2>4. Manual(First(ready)) \in Job /\ Manual(First(ready)).item = First(ready)
    BY <2>3, JobsFeedAssumption DEF Manual, Job, JobsFeedAssumption
  <2>5. m \in Memory /\ m.job = Manual(First(ready))
    BY <1>1, <2>4 DEF Memory, Steps, Choosing
  <2> HIDE DEF m
  <2>6. proc'["refill"].job = Manual(First(ready))
    BY <1>1, <2>2, <2>5, RefillTakes
  <2>7. Due(First(ready))
    BY <2>3 DEF Eligible
  <2>8. QED
    BY <2>4, <2>6, <2>7
<1>6. CASE Author
  <2>1. Step = "author" /\ {"prepare", "publish"} \subseteq Steps
    BY <1>6 DEF Author, At, Step, Steps, Choosing
  <2>2. Go("refill", "prepare") \/ Go("refill", "publish") \/ Halt
    BY <1>6 DEF Author
  <2>3. proc'["refill"].job = proc["refill"].job
    BY <1>1, <1>3, <2>1, <2>2, RefillGoes, RefillHalts
  <2>4. QED
    BY <1>1, <2>1, <2>3 DEF AuthorOfBacklog
<1>7. CASE Reconcile
  BY <1>1, <1>3, <1>5, <1>6, <1>7, ReconcileMoves DEF Inv
<1>8. ASSUME NEW p \in Processes, Build(p) PROVE Due(proc'["refill"].job.item)
  <2>1. BuildsOn(p)
    BY <1>8, BuildMoves DEF Inv
  <2>2. CASE p = "refill"
    BY <1>3, <2>1, <2>2 DEF BuildsOn, Step, Building
  <2>3. CASE p = "founder"
    BY <1>4, <2>1, <2>3 DEF BuildsOn, Processes
  <2>4. QED
    BY <2>2, <2>3, TwoProcesses
<1>9. CASE Command
  BY <1>1, <1>3, <1>9, CommandMoves DEF Commanding
<1>10. CASE FounderBuilds
  BY <1>1, <1>4, <1>10, FounderMoves
<1>11. ASSUME NEW p \in Processes, Die(p) PROVE Due(proc'["refill"].job.item)
  BY <1>1, <1>3, <1>4, <1>11, DeathMoves, TwoProcesses DEF Step, Processes
<1>12. CASE PacketAdded \/ UNCHANGED vars
  BY <1>4, <1>12 DEF PacketAdded, vars
<1>13. ASSUME NEW j \in OnTheWay, Works(j) \/ Disposes(j) PROVE Due(proc'["refill"].job.item)
  BY <1>4, <1>13 DEF Works, Disposes
<1>14. QED
  BY <1>7, <1>8, <1>9, <1>10, <1>11, <1>12, <1>13 DEF Next

\* A packet comes in by the hand of a reconcile, or is none of the backlog's.
LEMMA PacketsKept ==
    ASSUME Inv, GetsOn, [Next]_vars
    PROVE  PacketsProven'
<1>1. BranchTypes /\ InMemory /\ BranchStep /\ AuthorOfBacklog
  BY BranchSteps DEF Inv, TypeOK, BranchTypes
<1>2. \A i \in Packets' : \/ i \in Packets \/ i \in Items \ Backlog
                          \/ Step = "author" /\ i = proc["refill"].job.item
  BY <1>1, WhatComesIn
<1>3. \A i \in Backlog \ Listed : i \in Packets' => \A d \in DependsOn[i] : MergedItem(d)
  BY <1>1, <1>2 DEF Inv, PacketsProven, AuthorOfBacklog
<1>4. \A i \in Backlog : \A d \in DependsOn[i] : MergedItem(d) => MergedItem(d)'
  BY JobsFeedAssumption DEF GetsOn, JobsFeedAssumption
<1>5. QED
  BY <1>3, <1>4 DEF PacketsProven

-----------------------------------------------------------------------------
(* The invariant.                                                             *)

\* The invariant holds when nothing has been submitted,
LEMMA InvStarts == Init => Inv
<1> SUFFICES ASSUME Init PROVE Inv
  OBVIOUS
<1>1. /\ remote = [packets |-> Listed, jobs |-> {}] /\ clone = [base |-> remote, tip |-> remote]
      /\ DOMAIN stage = {} /\ gen = NoGeneration /\ history = {} /\ receipts = {}
      /\ proc = [p \in Processes |-> Rest]
      /\ policy = [on |-> FALSE, founded |-> FALSE, superseded |-> 0]
  BY DEF Init
<1>2. MaxGenerations \in Nat /\ Listed \subseteq Items
  BY JobsFeedAssumption DEF JobsFeedAssumption
<1>3. NoGeneration \in Generation /\ NoGeneration.prepared = NoJob /\ NoGeneration.current = NoJob
  <2>1. 0 \in 0 .. MaxGenerations
    BY <1>2
  <2>2. /\ << >> \in Seq(Job) /\ "none" \in States /\ {} \in SUBSET Items
    BY DEF States
  <2>3. QED
    BY <2>1, <2>2 DEF NoGeneration, Generation
<1>4. \A p \in Processes : proc[p].at = "rest" /\ proc[p].job = NoJob
  BY <1>1 DEF Rest
<1>5. InMemory
  <2>1. Rest \in Memory
    BY DEF Rest, Memory, Steps
  <2>2. proc \in [Processes -> Memory] /\ NoJob.gen = 0
    BY <1>1, <2>1 DEF NoJob
  <2>3. QED
    BY <1>4, <2>2 DEF InMemory, Memory, Processes, Building
<1>6. remote \in Branch /\ clone \in [base : Branch, tip : Branch]
  BY <1>1, <1>2 DEF Branch
<1>7. TypeOK
  BY <1>1, <1>2, <1>3, <1>4, <1>6 DEF Init, TypeOK
<1>8. Step = "rest"
  BY <1>4 DEF Step, Processes
<1>9. Sound(gen) /\ HandOfGeneration /\ HistoryIsPast /\ ReceiptsGoOn /\ ReplacedIsArchived
      /\ NothingLeft /\ AuthorOfBacklog
  BY <1>1, <1>3, <1>8 DEF Sound, HandOfGeneration, HistoryIsPast, ReceiptsGoOn,
     ReplacedIsArchived, NothingLeft, AuthorOfBacklog, Building, Choosing, Commanding
<1>10. JobsKnown /\ CapacityInHand /\ PacketsProven
  <2>1. Jobs = {} /\ Packets = Listed
    BY <1>1 DEF Jobs, Packets
  <2>2. QED
    BY <2>1 DEF JobsKnown, CapacityInHand, PacketsProven
<1>11. QED
  BY <1>5, <1>7, <1>9, <1>10 DEF Inv

\* Every step keeps the memory of the processes.
LEMMA MemoryKept ==
    ASSUME Inv, [Next]_vars
    PROVE  InMemory'
<1>1. TypeOK /\ InMemory /\ HandOfGeneration
  BY DEF Inv
<1>2. ASSUME proc' = proc PROVE InMemory'
  BY <1>1, <1>2 DEF InMemory
<1>3. ASSUME NEW p \in Processes, Build(p) PROVE InMemory'
  BY <1>1, <1>3, BuildMoves DEF BuildsOn
<1>4. CASE PacketAdded \/ UNCHANGED vars
  BY <1>2, <1>4 DEF PacketAdded, vars
<1>5. ASSUME NEW j \in OnTheWay, Works(j) \/ Disposes(j) PROVE InMemory'
  BY <1>2, <1>5 DEF Works, Disposes
<1>6. QED
  BY <1>1, <1>3, <1>4, <1>5, ReconcileMoves, CommandMoves, FounderMoves, DeathMoves DEF Next

\* and every step keeps it.
LEMMA InvKept ==
    ASSUME Inv, [Next]_vars
    PROVE  Inv'
<1>1. /\ BranchTypes /\ StageTypes /\ ClaimTypes /\ InMemory /\ AuthorOfBacklog
      /\ PolicyTypes /\ history \subseteq Generation
      /\ receipts \subseteq [old : Generation, new : Generation]
  BY DEF Inv, TypeOK, BranchTypes, StageTypes, ClaimTypes, PolicyTypes
<1>2. StageTypes' /\ GetsOn /\ ClaimTypes' /\ InMemory'
  BY <1>1, JobsGetOn, ClaimsKeepTypes, MemoryKept
<1>3. BranchTypes'
  <2>1. BranchStep
    BY <1>1, BranchSteps
  <2>2. QED
    BY <1>1, <2>1, WhatComesIn, LockKeepsType DEF BranchTypes
<1>4. AuthorOfBacklog' /\ PacketsProven'
  BY <1>2, AuthorKept, PacketsKept
<1>5. /\ PolicyTypes' /\ gen' \in Generation /\ history' \subseteq Generation
      /\ receipts' \subseteq [old : Generation, new : Generation]
      /\ Sound(gen)' /\ HandOfGeneration' /\ HistoryIsPast' /\ ReceiptsGoOn'
      /\ ReplacedIsArchived' /\ JobsKnown' /\ CapacityInHand' /\ NothingLeft'
  <2>1. CASE Keeps
    <3>1. PolicyTypes' /\ history' \subseteq Generation
          /\ receipts' \subseteq [old : Generation, new : Generation]
      BY <1>1, <2>1 DEF Keeps, PolicyTypes
    <3>2. QED
      BY <1>2, <2>1, <3>1, LedgerKept, WorkKept
  <2>2. CASE Command
    BY <2>2, CommandKept DEF GenerationKept, FilesKept
  <2>3. QED
    BY <2>1, <2>2, OthersKeep
<1>6. \A p \in Processes : proc'[p].job \in Job \union {NoJob}
  BY <1>2 DEF InMemory
<1>7. TypeOK'
  BY <1>2, <1>3, <1>5, <1>6 DEF TypeOK, BranchTypes, StageTypes, ClaimTypes, PolicyTypes
<1>8. QED
  BY <1>2, <1>4, <1>5, <1>7 DEF Inv

\* At most one job occupies the capacity: of a prepared dispatch and a current
\* attempt the second is spent.
LEMMA CapacityOne == Inv => OneAtATime
<1> SUFFICES ASSUME Inv PROVE OneAtATime
  OBVIOUS
<1> DEFINE open == {j \in OnTheWay : /\ j.gen # 0
                                     /\ StageOf(j) \in InQueue \union {"absent", "completed"}}
<1>1. \A j \in open : j \in Jobs /\ Occupies(j) /\ j # NoJob
  BY DEF OnTheWay, Jobs, Occupies, NoJob
<1>2. \A j \in open : j \in {gen.prepared, gen.current}
  BY <1>1 DEF Inv, CapacityInHand
<1>3. gen.prepared \in open => gen.current \notin open
  BY <1>1, SpentIsFree DEF Inv, Sound
<1> HIDE DEF open
<1>4. open = {} \/ \E j : open = {j}
  BY <1>2, <1>3
<1>5. Cardinality(open) = 0 \/ Cardinality(open) = 1
  BY <1>4, FS_EmptySet, FS_Singleton
<1>6. Cardinality(open) <= 1
  BY <1>5
<1>7. QED
  BY <1>6 DEF OneAtATime, open

\* Of all jobs of the refill controller one at most is under way, supersessions
\* are recorded and packets follow what they depend on (property JobsFeedInv),
\* for any items, attempts, generations, deaths, lost pushes and commands.
THEOREM FeedKept == Spec => []JobsFeedInv
<1>1. Inv => JobsFeedInv
  <2>1. Inv => SupersessionsRecorded
    <3>1. ASSUME Inv, NEW r \in receipts PROVE r.old \in history /\ r.old.id # r.new.id
      <4>1. r.old.id \in Nat /\ r.new.id \in Nat /\ r.old.id < r.new.id /\ r.old \in history
        BY <3>1 DEF Inv, TypeOK, Generation, ReceiptsGoOn
      <4>2. QED
        BY <4>1
    <3>2. QED
      BY <3>1 DEF Inv, ReceiptsGoOn, SupersessionsRecorded
  <2>2. Inv => PacketsFollowProof
    BY DEF Inv, PacketsProven, Packets, PacketsFollowProof
  <2>3. QED
    BY <2>1, <2>2, CapacityOne DEF Inv, JobsFeedInv
<1>2. Inv /\ [Next]_vars => Inv'
  BY InvKept
<1>3. QED
  BY InvStarts, <1>1, <1>2, PTL DEF Spec

\* Whatever a death, a lost push or a command comes between, every job of the
\* refill controller that is on the branch or the host is an attempt of its
\* generation or the one it has prepared (property EveryJobIsKnown).
THEOREM JobsAreKnown == Spec => []EveryJobIsKnown
<1>1. Inv => EveryJobIsKnown
  BY DEF Inv, JobsKnown, KnownJob, Jobs, OnTheWay, EveryJobIsKnown
<1>2. Inv /\ [Next]_vars => Inv'
  BY InvKept
<1>3. QED
  BY InvStarts, <1>1, <1>2, PTL DEF Spec

\* Recover never finds an attempt that neither the generation nor its prepared
\* dispatch names: it has nothing to reconstruct from the job files.
THEOREM NothingIsLost ==
    Spec => [](At("refill", "recover") => Recovered(Matched(gen)) = Matched(gen))
<1>1. Inv => Recovered(Matched(gen)) = Matched(gen)
  BY NothingToRecover DEF Inv
<1>2. Inv /\ [Next]_vars => Inv'
  BY InvKept
<1>3. QED
  BY InvStarts, <1>1, <1>2, PTL DEF Spec

-----------------------------------------------------------------------------
(* What a submission is told.                                                 *)

\* A submission holds the feed lock from its commit to the hash, so no other job
\* gets into the clone meanwhile: one that is found there after the push has
\* been pushed, and what is answered QUEUED is on the way.
Submits(p) ==
    /\ proc[p].at \in {"push", "hash"} => feedLock = p
    /\ At(p, "hash") /\ proc[p].job \in clone.tip.jobs => proc[p].job \in remote.jobs
    /\ At(p, "record") => proc[p].job \in OnTheWay

\* A clone has all the branch had when it was reset.
CloneGrows == clone.base.jobs \subseteq clone.tip.jobs

Submissions == CloneGrows /\ \A p \in Processes : Submits(p)

\* A process that is elsewhere has submitted nothing.
LEMMA Elsewhere ==
    ASSUME NEW p \in Processes, proc'[p].at \notin {"push", "hash", "record"}
    PROVE  Submits(p)'
  BY DEF Submits, At

\* A process that stands by while another takes a step.
LEMMA StandsBy ==
    ASSUME NEW p \in Processes, Submits(p), proc'[p] = proc[p],
           remote.jobs \subseteq remote'.jobs, DOMAIN stage \subseteq DOMAIN stage',
           proc[p].at \in {"push", "hash"} =>
               feedLock' = feedLock /\ clone'.tip.jobs \subseteq clone.tip.jobs \union remote'.jobs
    PROVE  Submits(p)'
  BY DEF Submits, At, OnTheWay

\* A clone is reset to the branch before anything is added to it.
LEMMA CloneKeepsGrowing ==
    ASSUME Inv, CloneGrows, [Next]_vars
    PROVE  CloneGrows'
<1>1. BranchTypes /\ BranchStep
  BY BranchSteps DEF Inv, TypeOK, BranchTypes
<1>2. ASSUME NEW p \in Processes,
             clone' = [base |-> remote, tip |-> [remote EXCEPT !.jobs = @ \union {proc[p].job}]]
      PROVE  CloneGrows'
  BY <1>1, <1>2 DEF CloneGrows, BranchTypes, Branch
<1>3. ASSUME NEW i, clone' = [base |-> remote, tip |-> [remote EXCEPT !.packets = @ \union {i}]]
      PROVE  CloneGrows'
  BY <1>1, <1>3 DEF CloneGrows, BranchTypes, Branch
<1>4. CASE clone' = [base |-> remote, tip |-> remote]
  BY <1>4 DEF CloneGrows
<1>5. CASE UNCHANGED clone
  BY <1>5 DEF CloneGrows
<1>6. QED
  BY <1>1, <1>2, <1>3, <1>4, <1>5 DEF BranchStep

\* No job is ever taken off the branch or from the host.
LEMMA JobsStay ==
    ASSUME Inv, CloneGrows, [Next]_vars
    PROVE  remote.jobs \subseteq remote'.jobs /\ DOMAIN stage \subseteq DOMAIN stage'
<1>1. BranchTypes /\ StageTypes /\ InMemory
  BY DEF Inv, TypeOK, BranchTypes, StageTypes
<1>2. DOMAIN stage \subseteq DOMAIN stage'
  BY <1>1, JobsGetOn DEF GetsOn
<1> SUFFICES remote.jobs \subseteq remote'.jobs
  BY <1>2
<1>3. ASSUME Accepted, remote' = clone.tip PROVE remote.jobs \subseteq remote'.jobs
  BY <1>3 DEF Accepted, CloneGrows
<1>4. CASE Reconcile
  <2>1. UNCHANGED remote \/ Publish
    BY <1>4 DEF Reconcile, Count, CountFeed, Recover, BasisFails, Replay, Decide, Probe,
         Author, Prepare, branch
  <2>2. QED
    <3>1. Publish => (Accepted /\ remote' = clone.tip) \/ remote' = remote
      BY Zenon DEF Publish
    <3>2. QED
      BY <1>3, <2>1, <3>1
<1>5. ASSUME NEW p \in Processes, Build(p) PROVE remote.jobs \subseteq remote'.jobs
  <2>1. UNCHANGED remote \/ Push(p)
    BY <1>5 DEF Build, Load, Admit, Prove, Submit, Hash, Record, branch
  <2>2. QED
    <3>1. Push(p) => (Accepted /\ remote' = clone.tip) \/ remote' = remote
      BY Zenon DEF Push
    <3>2. QED
      BY <1>3, <2>1, <3>1
<1>6. CASE Command
  BY <1>6 DEF Command, PauseBuilds, ResumeBuilds, MarkGeneration, KeepOne, Enable, Renew,
         Supersede, WriteReceipt, Replace, SupersedeAgain, CompletePolicy, Quiet, branch
<1>7. CASE PacketAdded
  <2>1. PICK i : remote' = [remote EXCEPT !.packets = @ \union {i}]
    BY <1>7 DEF PacketAdded
  <2>2. QED
    BY <1>1, <2>1 DEF BranchTypes, Branch
<1>8. CASE FounderBuilds \/ (\E p \in Processes : Die(p)) \/ UNCHANGED vars
  BY <1>8 DEF FounderBuilds, Die, vars, branch
<1>9. ASSUME NEW j \in OnTheWay, Works(j) \/ Disposes(j) PROVE UNCHANGED remote
  BY <1>9 DEF Works, Disposes, branch
<1>10. QED
  BY <1>4, <1>5, <1>6, <1>7, <1>8, <1>9 DEF Next

\* A reconcile resets the clone or adds a packet to it, but no job.
LEMMA ReconcileAddsNoJob ==
    ASSUME Inv, Reconcile
    PROVE  /\ UNCHANGED feedLock
           /\ clone'.tip.jobs \subseteq clone.tip.jobs \union remote'.jobs
<1>1. UNCHANGED feedLock
  BY DEF Reconcile, Count, CountFeed, Recover, BasisFails, Replay, Decide, Probe,
         Author, Publish, Prepare, branch
<1>2. CASE Author
  <2>1. remote \in Branch /\ UNCHANGED remote
    BY <1>2 DEF Inv, TypeOK, Author
  <2>2. \/ clone' = [base |-> remote, tip |-> remote]
        \/ \E i : clone' = [base |-> remote, tip |-> [remote EXCEPT !.packets = @ \union {i}]]
    BY <1>2 DEF Author, Reset
  <2>3. QED
    BY <1>1, <2>1, <2>2 DEF Branch
<1>3. CASE CountFeed \/ Probe \/ Prepare
  BY <1>1, <1>3 DEF CountFeed, Probe, Prepare, Reset
<1>4. CASE Count \/ Recover \/ BasisFails \/ Replay \/ Decide \/ Publish
  BY <1>1, <1>4 DEF Count, Recover, BasisFails, Replay, Decide, Publish, branch
<1>5. QED
  BY <1>2, <1>3, <1>4 DEF Reconcile

\* A build brings a job into the clone only when the feed lock is free; whoever
\* stands by in a submission holds it.
LEMMA OthersBuild ==
    ASSUME Inv, NEW p \in Processes, NEW q \in Processes, p # q, Build(p),
           Submits(p), Submits(q), proc[q].at \in {"push", "hash"}
    PROVE  UNCHANGED feedLock /\ clone'.tip.jobs \subseteq clone.tip.jobs \union remote'.jobs
<1>1. feedLock = q /\ q # "free" /\ proc[p].at \notin {"push", "hash"}
  BY DEF Submits, Processes
<1>2. ~Submit(p) /\ ~Push(p) /\ ~Hash(p)
  BY <1>1 DEF Submit, Push, Hash, At
<1>3. CASE Load(p)
  BY <1>3 DEF Load, Reset
<1>4. CASE Admit(p) \/ Prove(p) \/ Record(p)
  BY <1>4 DEF Admit, Prove, Record, branch
<1>5. QED
  BY <1>2, <1>3, <1>4 DEF Build

\* The process that builds.
LEMMA BuilderSubmits ==
    ASSUME Inv, NEW p \in Processes, Build(p), Submits(p),
           remote.jobs \subseteq remote'.jobs, DOMAIN stage \subseteq DOMAIN stage'
    PROVE  Submits(p)'
<1>1. InMemory /\ proc[p] \in Memory /\ {"prove", "submit", "push", "hash", "record"} \subseteq Steps
  BY DEF Inv, InMemory, Memory, Steps, Building
<1>2. ASSUME NEW at \in {"prove", "submit", "push", "hash", "record"}, Go(p, at)
      PROVE  proc'[p].at = at /\ proc'[p].job = proc[p].job
  BY <1>1, <1>2, Goes
<1>3. ASSUME Stop(p) PROVE Submits(p)'
  BY <1>1, <1>3, Stops, Elsewhere
<1>4. ASSUME NEW s, Answer(p, s) PROVE Submits(p)'
  BY <1>3, <1>4 DEF Answer
<1>5. ASSUME Go(p, "record"), proc[p].job \in remote.jobs \union DOMAIN stage
      PROVE  Submits(p)'
  BY <1>2, <1>5 DEF Submits, At, OnTheWay
<1>6. CASE Load(p)
  <2> DEFINE choice == Selectable(IF p = "refill" THEN gen.excluded ELSE {})
             job == IF p = "refill" THEN proc[p].job ELSE Manual(First(choice))
             m == [proc[p] EXCEPT !.at = "admit", !.job = job]
  <2>1. \/ Stop(p)
        \/ proc' = [proc EXCEPT ![p] = m]
        \/ StageOf(job) = "pending" /\ p = "refill" /\ Go(p, "record")
    BY <1>6 DEF Load, Answer
  <2>2. CASE proc' = [proc EXCEPT ![p] = m]
    <3>1. m.at = "admit" /\ p \in DOMAIN proc
      BY <1>1 DEF InMemory, Memory
    <3> HIDE DEF m
    <3>2. proc'[p].at = "admit"
      BY <2>2, <3>1
    <3>3. QED
      BY <3>2, Elsewhere
  <2>3. CASE StageOf(job) = "pending" /\ p = "refill" /\ Go(p, "record")
    <3>1. proc[p].job \in DOMAIN stage
      BY <2>3 DEF StageOf, Known
    <3>2. QED
      BY <1>5, <2>3, <3>1
  <2>4. QED
    BY <1>3, <2>1, <2>2, <2>3
<1>7. CASE Admit(p) \/ Prove(p)
  <2>1. Go(p, "prove") \/ Go(p, "submit") \/ \E s : Answer(p, s)
    BY <1>7 DEF Admit, Prove
  <2>2. QED
    BY <1>2, <1>4, <2>1, Elsewhere
<1>8. CASE Submit(p)
  <2>1. \/ proc[p].job \in remote.jobs /\ Go(p, "record")
        \/ Answer(p, "OPEN")
        \/ Go(p, "push") /\ feedLock' = p
    BY <1>8 DEF Submit, SubmissionFails
  <2>2. CASE Go(p, "push") /\ feedLock' = p
    BY <1>2, <2>2 DEF Submits, At
  <2>3. QED
    BY <1>4, <1>5, <2>1, <2>2
<1>9. CASE Push(p)
  <2>1. \/ /\ remote' = clone.tip /\ Go(p, "hash") /\ UNCHANGED <<feedLock, clone>>
           /\ At(p, "push")
        \/ Answer(p, "OPEN")
    BY <1>9 DEF Push, SubmissionFails
  <2>2. CASE /\ remote' = clone.tip /\ Go(p, "hash") /\ UNCHANGED <<feedLock, clone>>
             /\ At(p, "push")
    BY <1>2, <2>2 DEF Submits, At
  <2>3. QED
    BY <1>4, <2>1, <2>2
<1>10. CASE Hash(p)
  <2>1. \/ At(p, "hash") /\ proc[p].job \in clone.tip.jobs /\ Go(p, "record")
        \/ Answer(p, "OPEN")
    BY <1>10 DEF Hash, SubmissionFails
  <2>2. QED
    BY <1>4, <1>5, <2>1 DEF Submits
<1>11. CASE Record(p)
  BY <1>3, <1>11 DEF Record
<1>12. QED
  BY <1>6, <1>7, <1>8, <1>9, <1>10, <1>11 DEF Build

\* Every step leaves the submissions as they should be.
LEMMA SubmissionsKept ==
    ASSUME Inv, Submissions, [Next]_vars
    PROVE  Submissions'
<1>1. InMemory /\ TypeOK /\ HandOfGeneration /\ CloneGrows /\ \A p \in Processes : Submits(p)
  BY DEF Inv, Submissions
<1>2. CloneGrows' /\ remote.jobs \subseteq remote'.jobs /\ DOMAIN stage \subseteq DOMAIN stage'
  BY <1>1, CloneKeepsGrowing, JobsStay
<1>3. ASSUME NEW p \in Processes, proc'[p] = proc[p], UNCHANGED <<feedLock, clone>>
      PROVE  Submits(p)'
  BY <1>1, <1>2, <1>3, StandsBy
<1>4. CASE Reconcile
  <2>1. proc'["founder"] = proc["founder"] /\ proc'["refill"].at \notin {"push", "hash", "record"}
    BY <1>1, <1>4, ReconcileMoves DEF Step, Choosing
  <2>2. Submits("refill")' /\ Submits("founder")'
    BY <1>1, <1>2, <1>4, <2>1, ReconcileAddsNoJob, StandsBy, Elsewhere DEF Processes
  <2>3. QED
    BY <1>2, <2>2, TwoProcesses DEF Submissions
<1>5. ASSUME NEW p \in Processes, Build(p) PROVE Submissions'
  <2>1. Submits(p)'
    BY <1>1, <1>2, <1>5, BuilderSubmits
  <2>2. ASSUME NEW q \in Processes \ {p} PROVE Submits(q)'
    <3>1. proc'[q] = proc[q]
      BY <1>1, <1>5, BuildMoves DEF BuildsOn
    <3>2. QED
      BY <1>1, <1>2, <1>5, <3>1, OthersBuild, StandsBy
  <2>3. QED
    BY <1>2, <2>1, <2>2 DEF Submissions
<1>6. CASE Command
  <2>1. proc'["founder"] = proc["founder"] /\ proc'["refill"].at \notin {"push", "hash", "record"}
    BY <1>1, <1>6, CommandMoves DEF Step, Commanding
  <2>2. UNCHANGED <<feedLock, clone>>
    BY <1>6 DEF Command, PauseBuilds, ResumeBuilds, MarkGeneration, KeepOne, Enable, Renew,
         Supersede, WriteReceipt, Replace, SupersedeAgain, CompletePolicy, Quiet, branch
  <2>3. QED
    BY <1>2, <1>3, <2>1, <2>2, TwoProcesses, Elsewhere DEF Submissions
<1>7. CASE FounderBuilds
  <2>1. proc'["refill"] = proc["refill"] /\ proc'["founder"].at = "load"
        /\ UNCHANGED <<feedLock, clone>>
    BY <1>1, <1>7, Goes DEF FounderBuilds, branch, Processes, Steps, Building
  <2>2. QED
    BY <1>2, <1>3, <2>1, TwoProcesses, Elsewhere DEF Submissions
<1>8. ASSUME NEW p \in Processes, Die(p) PROVE Submissions'
  <2>1. /\ proc'[p].at = "rest" /\ \A q \in Processes \ {p} : proc'[q] = proc[q]
        /\ UNCHANGED clone /\ (feedLock # p => UNCHANGED feedLock)
    BY <1>1, <1>8, DeathMoves DEF Die
  <2>2. ASSUME NEW q \in Processes \ {p} PROVE Submits(q)'
    <3>1. proc[q].at \in {"push", "hash"} => feedLock' = feedLock
      BY <1>1, <2>1 DEF Submits
    <3>2. QED
      BY <1>1, <1>2, <2>1, <3>1, StandsBy
  <2>3. QED
    BY <1>2, <2>1, <2>2, Elsewhere DEF Submissions
<1>9. CASE PacketAdded \/ UNCHANGED vars
  BY <1>2, <1>3, <1>9 DEF PacketAdded, vars, branch, Submissions
<1>10. ASSUME NEW j \in OnTheWay, Works(j) \/ Disposes(j) PROVE Submissions'
  BY <1>2, <1>3, <1>10 DEF Works, Disposes, branch, Submissions
<1>11. QED
  BY <1>4, <1>5, <1>6, <1>7, <1>8, <1>9, <1>10 DEF Next

\* A submission that is answered QUEUED is on the jobs branch or with the host
\* (property QueuedIsOnTheBranch), whatever resets the shared clone between its
\* commit, its push and its hash.
THEOREM QueuedJobsArrive == Spec => []QueuedIsOnTheBranch
<1>1. Init => Submissions
  <2>1. SUFFICES ASSUME Init PROVE Submissions
    OBVIOUS
  <2>2. /\ clone = [base |-> remote, tip |-> remote]
        /\ \A p \in Processes : proc[p].at = "rest"
    BY <2>1 DEF Init, Rest
  <2>3. QED
    BY <2>2 DEF Submissions, CloneGrows, Submits, At
<1>2. Submissions => QueuedIsOnTheBranch
  BY DEF Submissions, Submits, QueuedIsOnTheBranch
<1>3. Inv /\ Submissions /\ [Next]_vars => Inv' /\ Submissions'
  BY InvKept, SubmissionsKept
<1>4. QED
  BY InvStarts, <1>1, <1>2, <1>3, PTL DEF Spec

=============================================================================
