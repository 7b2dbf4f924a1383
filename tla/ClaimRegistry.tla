---------------------------- MODULE ClaimRegistry ----------------------------
(***************************************************************************)
(* What work admission promises its callers: a registry of single-writer   *)
(* claims in which an admission or a release is one indivisible step.      *)
(* WorkAdmission implements it with a file lock and two file writes.       *)
(***************************************************************************)
EXTENDS Claims

CONSTANTS Calls        \* the admit_work and release_claim calls made

VARIABLES
    claims,            \* the claim of every objective
    issued             \* every <<objective, claim>> ever granted

registryVars == <<claims, issued>>

Init ==
    /\ claims = [o \in Objective |-> Absent]
    /\ issued = {}

\* An admission that grants a new claim.  Every other answer of admit_work
\* leaves the registry alone.
Admit(call) ==
    /\ call.kind = "admit"
    /\ AdmitOutcome(claims, call) = "granted"
    /\ claims' = [claims EXCEPT ![call.objective] = NewClaim(claims, call)]
    /\ issued' = issued \cup {<<call.objective, NewClaim(claims, call)>>}

Release(call) ==
    /\ call.kind = "release"
    /\ ReleaseOutcome(claims, call) = "released"
    /\ claims' = [claims EXCEPT ![call.objective] = ReleasedClaim(claims, call)]
    /\ UNCHANGED issued

Next == \E call \in Calls : Admit(call) \/ Release(call)

Spec == Init /\ [][Next]_registryVars
=============================================================================
