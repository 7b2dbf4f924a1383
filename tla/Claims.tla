------------------------------- MODULE Claims -------------------------------
(***************************************************************************)
(* The data of src/msos_autobuilder/work_admission.py: ownership paths,    *)
(* related work found on GitHub, durable writer claims, and what           *)
(* admit_work and release_claim decide from them.  No state of its own:    *)
(* ClaimRegistry and WorkAdmission are built on it.           *)
(***************************************************************************)
EXTENDS Naturals, Sequences, FiniteSets

CONSTANTS
    Objective,     \* objective_sha256 values
    Writer,        \* writer_id values ("build-next:<job_id>")
    Path,          \* normalized ownership paths: sequences of segments
    NoWriter       \* writer of an objective that has no claim file yet

ASSUME ClaimsAssumption == NoWriter \notin Writer

\* Expected generation of a caller that does not pass one (None in the code).
AnyGeneration == 0

TerminalStates == {"merged", "superseded", "abandoned", "failed", "released"}

Claim == [writer: Writer \cup {NoWriter}, paths: SUBSET Path, generation: Nat,
          state: {"absent", "active"} \cup TerminalStates]

\* _load_claim returned None: there is no claim file for the objective.
Absent == [writer |-> NoWriter, paths |-> {}, generation |-> 0,
           state |-> "absent"]

-----------------------------------------------------------------------------
(* Path ownership.                                                         *)

Under(p, q) == Len(q) <= Len(p) /\ SubSeq(p, 1, Len(q)) = q

\* The deeper path of every overlapping pair, as paths_overlap returns them.
OverlapPaths(P, Q) ==
    {p \in P : \E q \in Q : Under(p, q)} \cup {q \in Q : \E p \in P : Under(q, p)}

PathsOverlap(P, Q) == \E p \in P, q \in Q : Under(p, q) \/ Under(q, p)

-----------------------------------------------------------------------------
(* Related pull requests and issues.  equivalent: same issue, objective or *)
(* acceptance contract; settled: canonical or merged.                      *)

Candidate == [equivalent: BOOLEAN, settled: BOOLEAN, unique: BOOLEAN,
              paths: SUBSET Path]

\* Mutant: work of another objective never needs a founder.
ClassifyOwnOnly(paths, c) ==
    LET overlap == OverlapPaths(paths, c.paths)
    IN  IF c.unique \/ ~c.equivalent \/ overlap = {} THEN "preserve_unique_work"
        ELSE IF c.settled /\ paths \subseteq overlap THEN "continue"
        ELSE "review_and_merge"

Classify(paths, c) ==
    LET overlap == OverlapPaths(paths, c.paths)
    IN  IF c.unique \/ overlap = {} THEN "preserve_unique_work"
        ELSE IF ~c.equivalent THEN "founder_decision_required"
        ELSE IF c.settled /\ paths \subseteq overlap THEN "continue"
        ELSE "review_and_merge"

\* What admit_work answers before it looks at any claim.
Screen(paths, candidates) ==
    LET classes == {Classify(paths, c) : c \in candidates}
    IN  IF "continue" \in classes THEN "CONTINUE_EXISTING_WORK"
        ELSE IF "founder_decision_required" \in classes
             THEN "FOUNDER_RECONCILIATION_REQUIRED"
        ELSE IF "review_and_merge" \in classes THEN "REVIEW_EXISTING_WORK"
        ELSE "clear"

-----------------------------------------------------------------------------
(* Calls and what they decide from the claims they load.                   *)

AdmitCall == [kind: {"admit"}, objective: Objective, writer: Writer,
              paths: SUBSET Path, expected: Nat, candidates: SUBSET Candidate,
              durable: BOOLEAN]
ReleaseCall == [kind: {"release"}, objective: Objective, writer: Writer,
                terminal: TerminalStates, expected: Nat]

IsActive(c) == c.state = "active"

ActiveOnly(cs) == [o \in Objective |-> IF IsActive(cs[o]) THEN cs[o] ELSE Absent]

\* Mutant: only the very same path conflicts.
ConflictingSamePath(cs, o, w, paths) ==
    \E x \in Objective :
        /\ IsActive(cs[x])
        /\ cs[x].writer # w
        /\ x = o \/ cs[x].paths \cap paths # {}

\* _conflicting_active_claim: an active claim of another writer on the same
\* objective or on overlapping paths.
Conflicting(cs, o, w, paths) ==
    \E x \in Objective :
        /\ IsActive(cs[x])
        /\ cs[x].writer # w
        /\ x = o \/ PathsOverlap(cs[x].paths, paths)

FenceHolds(c, expected) == expected = AnyGeneration \/ c.generation = expected

\* The outcome of admit_work under the claim lock.
AdmitOutcome(cs, call) ==
    LET existing == cs[call.objective]
    IN  IF IsActive(existing) /\ existing.writer = call.writer
        THEN IF FenceHolds(existing, call.expected) THEN "reused" ELSE "error"
        ELSE IF \/ IsActive(existing)
                \/ Conflicting(cs, call.objective, call.writer, call.paths)
             THEN "blocked"
             ELSE "granted"

\* Mutant: a terminal claim is taken over at its own generation.
NewClaimSameGeneration(cs, call) ==
    [writer |-> call.writer, paths |-> call.paths,
     generation |-> IF cs[call.objective].state = "absent" THEN 1
                    ELSE cs[call.objective].generation,
     state |-> "active"]

\* The claim a granted admission writes.
NewClaim(cs, call) ==
    [writer |-> call.writer, paths |-> call.paths,
     generation |-> cs[call.objective].generation + 1, state |-> "active"]

\* The outcome of release_claim under the claim lock.
ReleaseOutcome(cs, call) ==
    LET c == cs[call.objective]
    IN  IF /\ c.state # "absent"
           /\ c.writer = call.writer
           /\ FenceHolds(c, call.expected)
        THEN "released" ELSE "error"

\* Mutant: the terminal state is not validated.
ReleasedClaimUnchecked(cs, call) ==
    [cs[call.objective] EXCEPT !.state = "done"]

\* The claim a release writes.  The code does not ask whether the claim is
\* still active: a terminal claim may be terminalized again.
ReleasedClaim(cs, call) ==
    [cs[call.objective] EXCEPT !.state = call.terminal]
=============================================================================
