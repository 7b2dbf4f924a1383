----------------------------- MODULE EvidenceLog -----------------------------
(* What the evidence of an attempt promises, without locks, files or
   processes: producers extend streams, a recorder appends what it makes of
   the streams to a log that nothing ever rewrites, and a dispatcher gives up
   an attempt, and later goes on to the next, only on the log's last entry, and
   only while that entry speaks of the evidence as it stands.
   LifecycleEvidence implements it.                                           *)
EXTENDS LifecycleReduction, Sequences

CONSTANTS Jobs,        \* the attempts that have evidence, and their corrections
          Correction   \* the job a failed attempt's revision loop queues

VARIABLES heads,       \* the last envelope of every stream of every job
          proven,      \* jobs a durable merge report names
          log,         \* the transitions recorded for every job
          decided,     \* attempts the dispatcher has given up
          followed     \* those whose next attempt has been prepared

vars == <<heads, proven, log, decided, followed>>

(* An attempt that is its own correction has none.                            *)
CorrectionDrafted(j) ==
    /\ Correction[j] # j
    /\ heads[Correction[j]]["publication"].outcome = "drafted"

Verdict(j) == Disposition(heads[j], j \in proven, CorrectionDrafted(j))

Init ==
    /\ heads = [j \in Jobs |-> [k \in Kinds |-> NoHead]]
    /\ proven = {}
    /\ log = [j \in Jobs |-> << >>]
    /\ decided = {} /\ followed = {}

(* A producer states one more thing on a stream of its own.                   *)
Emit(j, k) ==
    /\ heads' = [heads EXCEPT ![j][k] = heads'[j][k]]
    /\ heads'[j][k] \in Envelopes
    /\ StreamAccepts(heads[j][k], heads'[j][k])
    /\ UNCHANGED <<proven, log, decided, followed>>

(* A merge report is written for a job.                                       *)
ProveMerged(j) ==
    /\ proven' = proven \union {j}
    /\ UNCHANGED <<heads, log, decided, followed>>

(* The recorder appends what the streams amount to.                           *)
Record(j) ==
    /\ log' = [log EXCEPT ![j] =
                 Append(@, [heads |-> heads[j], verdict |-> Verdict(j)])]
    /\ UNCHANGED <<heads, proven, decided, followed>>

(* The last entry covers the evidence as it is, and is terminal.              *)
Settled(j) ==
    /\ log[j] # << >>
    /\ log[j][Len(log[j])] = [heads |-> heads[j], verdict |-> "terminal"]

Decide(j) ==
    /\ Settled(j)
    /\ decided' = decided \union {j}
    /\ UNCHANGED <<heads, proven, log, followed>>

Follow(j) ==
    /\ Settled(j) /\ j \in decided
    /\ followed' = followed \union {j}
    /\ UNCHANGED <<heads, proven, log, decided>>

Next == \E j \in Jobs : \/ \E k \in Kinds : Emit(j, k)
                        \/ ProveMerged(j) \/ Record(j) \/ Decide(j) \/ Follow(j)

Spec == Init /\ [][Next]_vars
=============================================================================
