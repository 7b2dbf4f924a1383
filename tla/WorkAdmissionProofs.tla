------------------------- MODULE WorkAdmissionProofs -------------------------
(***************************************************************************)
(* Type correctness, single ownership, fencing, screening and the refining *)
(* of the atomic registry by WorkAdmission, for every set of processes,    *)
(* objectives, writers, paths and calls.  The argument: whoever is past    *)
(* the lock holds it (LockInv), so what it loaded is still what the files  *)
(* say when it writes (SeenInv).                                           *)
(***************************************************************************)
EXTENDS WorkAdmission, TLAPS

Locked == {"load", "write", "index", "unlock"}

\* Exactly the lock's holder is past the lock.
LockInv == \A p \in Proc : pc[p] \in Locked <=> lock = p

\* What the writer loaded and decided still stands.
SeenInv ==
    \A p \in Proc :
        /\ pc[p] = "write" =>
              /\ seen[p] = claims
              /\ Outcome(claims, call[p]) \in {"granted", "released"}
        /\ pc[p] = "index" /\ call[p].kind = "admit" =>
              claims = [seen[p] EXCEPT ![call[p].objective] = PlannedClaim(p)]

\* No grant is ahead of the claim file.
IssuedInv ==
    \A a \in issued : a[2].generation <= claims[a[1]].generation

IInv == TypeOK /\ LockInv /\ SeenInv /\ IssuedInv /\ OwnershipExclusive
        /\ GenerationNamesOneGrant

-----------------------------------------------------------------------------
\* Overlap does not depend on the order of the two path sets.
LEMMA OverlapSymmetric ==
    ASSUME NEW P, NEW Q
    PROVE  PathsOverlap(P, Q) <=> PathsOverlap(Q, P)
BY DEF PathsOverlap

\* No claim is a claim.
LEMMA AbsentIsClaim == Absent \in Claim
BY DEF Absent, Claim

\* The parts of a call.
LEMMA CallTypes ==
    ASSUME NEW c \in Calls
    PROVE  /\ c.objective \in Objective
           /\ c.kind \in {"admit", "release"}
           /\ c.kind = "admit" => c \in AdmitCall
           /\ c.kind = "release" => c \in ReleaseCall
BY WorkAdmissionAssumption DEF AdmitCall, ReleaseCall

\* A decision under the lock is one of five.
LEMMA OutcomeTypes ==
    ASSUME NEW cs, NEW c
    PROVE  Outcome(cs, c) \in {"granted", "released", "reused", "error", "blocked"}
BY DEF Outcome, AdmitOutcome, ReleaseOutcome

\* A screening has one of five answers.
LEMMA PreludeTypes ==
    ASSUME NEW c
    PROVE  Prelude(c) \in {"claim", "unclaimed", "CONTINUE_EXISTING_WORK",
             "FOUNDER_RECONCILIATION_REQUIRED", "REVIEW_EXISTING_WORK"}
BY DEF Prelude, Screen

\* A granted claim is of the next generation.
LEMMA NewClaimType ==
    ASSUME NEW cs \in [Objective -> Claim], NEW c \in AdmitCall
    PROVE  /\ NewClaim(cs, c) \in Claim
           /\ NewClaim(cs, c).generation = cs[c.objective].generation + 1
BY DEF NewClaim, Claim, AdmitCall

\* A released claim keeps its writer, paths and generation.
LEMMA ReleasedClaimType ==
    ASSUME NEW cs \in [Objective -> Claim], NEW c \in ReleaseCall
    PROVE  /\ ReleasedClaim(cs, c) \in Claim
           /\ ReleasedClaim(cs, c).writer = cs[c.objective].writer
           /\ ReleasedClaim(cs, c).paths = cs[c.objective].paths
           /\ ReleasedClaim(cs, c).generation = cs[c.objective].generation
           /\ ReleasedClaim(cs, c).state \in TerminalStates
BY DEF ReleasedClaim, Claim, ReleaseCall

\* What the index holds are claims.
LEMMA ActiveOnlyType ==
    ASSUME NEW cs \in [Objective -> Claim]
    PROVE  ActiveOnly(cs) \in [Objective -> Claim]
BY AbsentIsClaim DEF ActiveOnly

\* What a call is about to write is a claim.
LEMMA PlannedClaimType ==
    ASSUME TypeOK, NEW p \in Proc, pc[p] # "idle"
    PROVE  PlannedClaim(p) \in Claim
<1>1. call[p] \in Calls /\ seen[p] \in [Objective -> Claim]
  BY DEF TypeOK
<1>2. CASE call[p].kind = "admit"
  BY <1>1, <1>2, CallTypes, NewClaimType DEF PlannedClaim
<1>3. CASE call[p].kind = "release"
  BY <1>1, <1>3, CallTypes, ReleasedClaimType DEF PlannedClaim
<1>4. QED  BY <1>1, <1>2, <1>3, CallTypes

-----------------------------------------------------------------------------
\* The invariant holds before the first call.
LEMMA InitInv == Init => IInv
<1> SUFFICES ASSUME Init PROVE IInv
  OBVIOUS
<1>1. NoClaims \in [Objective -> Claim]
  BY AbsentIsClaim DEF NoClaims
<1>2. TypeOK
  BY <1>1 DEF Init, TypeOK, Steps, Results
<1>3. LockInv
  BY WorkAdmissionAssumption DEF Init, LockInv, Locked
<1>4. SeenInv
  BY DEF Init, SeenInv
<1>5. IssuedInv /\ GenerationNamesOneGrant
  BY DEF Init, IssuedInv, GenerationNamesOneGrant
<1>6. OwnershipExclusive
  BY DEF Init, NoClaims, Absent, OwnershipExclusive, IsActive
<1>7. QED  BY <1>2, <1>3, <1>4, <1>5, <1>6 DEF IInv

\* Every step keeps the types.
LEMMA TypeStep == TypeOK /\ [Next]_vars => TypeOK'
<1> SUFFICES ASSUME TypeOK, [Next]_vars PROVE TypeOK'
  OBVIOUS
<1> USE DEF TypeOK, Steps, Results
<1>0. NoClaims \in [Objective -> Claim]
  BY AbsentIsClaim DEF NoClaims
<1>1. ASSUME NEW p \in Proc, NEW c \in Calls, Begin(p, c) PROVE TypeOK'
  BY <1>0, <1>1, PreludeTypes DEF Begin, Return
<1>2. ASSUME NEW p \in Proc, Acquire(p) PROVE TypeOK'
  BY <1>2 DEF Acquire
<1>3. ASSUME NEW p \in Proc, LockTimeout(p) PROVE TypeOK'
  BY <1>0, <1>3 DEF LockTimeout, Return
<1>4. ASSUME NEW p \in Proc, Load(p) PROVE TypeOK'
  BY <1>4, OutcomeTypes DEF Load
<1>5. ASSUME NEW p \in Proc, WriteClaim(p) PROVE TypeOK'
  <2>1. PlannedClaim(p) \in Claim /\ call[p].objective \in Objective
    BY <1>5, PlannedClaimType, CallTypes DEF WriteClaim
  <2>2. QED  BY <1>5, <2>1 DEF WriteClaim
<1>6. ASSUME NEW p \in Proc, WriteIndex(p) PROVE TypeOK'
  <2>1. PlannedClaim(p) \in Claim
    BY <1>6, PlannedClaimType DEF WriteIndex
  <2>2. IndexSource(p) \in [Objective -> Claim]
    BY <2>1 DEF IndexSource
  <2>3. index' \in [Objective -> Claim]
    BY <1>6, <2>2, ActiveOnlyType DEF WriteIndex
  <2>4. QED  BY <1>6, <2>3 DEF WriteIndex
<1>7. ASSUME NEW p \in Proc, Unlock(p) PROVE TypeOK'
  BY <1>0, <1>7 DEF Unlock, Return
<1>8. ASSUME NEW p \in Proc, WriteFails(p) PROVE TypeOK'
  BY <1>8 DEF WriteFails
<1>9. ASSUME NEW p \in Proc, Crash(p) PROVE TypeOK'
  BY <1>0, <1>9 DEF Crash, Return
<1>10. CASE UNCHANGED vars
  BY <1>10 DEF vars
<1>11. QED
  BY <1>1, <1>2, <1>3, <1>4, <1>5, <1>6, <1>7, <1>8, <1>9, <1>10
     DEF Next, Proceed

\* The lock excludes: no step brings a second process past it.
LEMMA LockStep == TypeOK /\ LockInv /\ [Next]_vars => LockInv'
<1> SUFFICES ASSUME TypeOK, LockInv, [Next]_vars PROVE LockInv'
  OBVIOUS
<1> USE WorkAdmissionAssumption DEF TypeOK, Steps, LockInv, Locked
<1>1. ASSUME NEW p \in Proc, NEW c \in Calls, Begin(p, c) PROVE LockInv'
  BY <1>1 DEF Begin, Return
<1>2. ASSUME NEW p \in Proc, Acquire(p) PROVE LockInv'
  BY <1>2 DEF Acquire
<1>3. ASSUME NEW p \in Proc, LockTimeout(p) PROVE LockInv'
  BY <1>3 DEF LockTimeout, Return
<1>4. ASSUME NEW p \in Proc, Load(p) PROVE LockInv'
  BY <1>4 DEF Load
<1>5. ASSUME NEW p \in Proc, WriteClaim(p) PROVE LockInv'
  BY <1>5 DEF WriteClaim
<1>6. ASSUME NEW p \in Proc, WriteIndex(p) PROVE LockInv'
  BY <1>6 DEF WriteIndex
<1>7. ASSUME NEW p \in Proc, Unlock(p) PROVE LockInv'
  BY <1>7 DEF Unlock, Return
<1>8. ASSUME NEW p \in Proc, WriteFails(p) PROVE LockInv'
  BY <1>8 DEF WriteFails
<1>9. ASSUME NEW p \in Proc, Crash(p) PROVE LockInv'
  BY <1>9 DEF Crash, Return
<1>10. CASE UNCHANGED vars
  BY <1>10 DEF vars
<1>11. QED
  BY <1>1, <1>2, <1>3, <1>4, <1>5, <1>6, <1>7, <1>8, <1>9, <1>10
     DEF Next, Proceed

\* Only WriteClaim touches claims and issued.
LEMMA OthersKeepClaims ==
    ASSUME [Next]_vars, ~\E p \in Proc : WriteClaim(p)
    PROVE  UNCHANGED <<claims, issued>>
BY DEF Next, vars, Proceed, Begin, Acquire, LockTimeout, Load, WriteIndex,
       Unlock, WriteFails, Crash, Return

\* While a process is between its load and its last write it holds the lock,
\* so nobody else writes a claim file.
LEMMA SeenStep ==
    TypeOK /\ LockInv /\ SeenInv /\ [Next]_vars => SeenInv'
<1> SUFFICES ASSUME TypeOK, LockInv, SeenInv, [Next]_vars,
                    NEW q \in Proc
             PROVE  /\ (pc[q] = "write" =>
                          /\ seen[q] = claims
                          /\ Outcome(claims, call[q]) \in {"granted", "released"})'
                    /\ (pc[q] = "index" /\ call[q].kind = "admit" =>
                          claims = [seen[q] EXCEPT ![call[q].objective] = PlannedClaim(q)])'
  BY DEF SeenInv
<1> USE DEF TypeOK, Steps, PlannedClaim
<1>1. ASSUME NEW p \in Proc, WriteClaim(p)
      PROVE  /\ pc'[q] # "write"
             /\ pc'[q] = "index" => q = p /\ claims' = [claims EXCEPT
                                       ![call[p].objective] = PlannedClaim(p)]
  BY <1>1 DEF WriteClaim, LockInv, Locked
<1>2. CASE \E p \in Proc : WriteClaim(p)
  <2>1. PICK p \in Proc : WriteClaim(p)
    BY <1>2
  <2>2. seen[p] = claims
    BY <2>1 DEF WriteClaim, SeenInv
  <2>3. QED  BY <1>1, <2>1, <2>2 DEF WriteClaim
<1>3. CASE ~\E p \in Proc : WriteClaim(p)
  <2>0. claims' = claims
    BY <1>3, OthersKeepClaims
  <2>1. ASSUME NEW p \in Proc, Load(p) PROVE SeenInv'
    <3>1. claims' = claims /\ call' = call
      BY <2>1 DEF Load
    <3>2. /\ seen' = [seen EXCEPT ![p] = claims]
          /\ pc' = [pc EXCEPT ![p] =
                IF Outcome(claims, call[p]) \in {"granted", "released"}
                THEN "write" ELSE "unlock"]
      BY <2>1 DEF Load
    <3>3. QED  BY <3>1, <3>2 DEF SeenInv
  <2>2. ASSUME NEW p \in Proc, Acquire(p) \/ WriteIndex(p) \/ WriteFails(p)
        PROVE  SeenInv'
    BY <2>0, <2>2 DEF SeenInv, Acquire, WriteIndex, WriteFails
  <2>3. ASSUME NEW p \in Proc, LockTimeout(p) \/ Unlock(p) \/ Crash(p)
        PROVE  SeenInv'
    BY <2>0, <2>3 DEF SeenInv, LockTimeout, Unlock, Crash, Return
  <2>4. ASSUME NEW p \in Proc, NEW c \in Calls, Begin(p, c) PROVE SeenInv'
    BY <2>0, <2>4 DEF SeenInv, Begin, Return
  <2>5. SeenInv'
    <3>1. CASE UNCHANGED vars
      BY <3>1 DEF SeenInv, vars
    <3>2. CASE Next
      <4>1. PICK p \in Proc : (\E c \in Calls : Begin(p, c)) \/ Proceed(p)
                               \/ WriteFails(p) \/ Crash(p)
        BY <3>2 DEF Next
      <4>2. CASE \E c \in Calls : Begin(p, c)
        BY <2>4, <4>2
      <4>3. CASE Proceed(p)
        BY <1>3, <2>1, <2>2, <2>3, <4>3 DEF Proceed
      <4>4. CASE WriteFails(p) \/ Crash(p)
        BY <2>2, <2>3, <4>4
      <4>5. QED  BY <4>1, <4>2, <4>3, <4>4
    <3>3. QED  BY <3>1, <3>2
  <2>6. QED  BY <2>5 DEF SeenInv
<1>4. QED  BY <1>2, <1>3

-----------------------------------------------------------------------------
\* What a write puts into the claim files: an admission that met no
\* conflict and moves to the next generation, or a release that keeps it.
LEMMA WriteCases ==
    ASSUME TypeOK, SeenInv, NEW p \in Proc, WriteClaim(p)
    PROVE  LET o == call[p].objective IN
           /\ o \in Objective
           /\ call[p] \in Calls
           /\ seen[p] = claims
           /\ PlannedClaim(p) \in Claim
           /\ claims' = [claims EXCEPT ![o] = PlannedClaim(p)]
           /\ \/ /\ call[p].kind = "admit"
                 /\ call[p] \in AdmitCall
                 /\ AdmitOutcome(claims, call[p]) = "granted"
                 /\ PlannedClaim(p) = NewClaim(claims, call[p])
                 /\ issued' = issued \cup {<<o, PlannedClaim(p)>>}
              \/ /\ call[p].kind = "release"
                 /\ call[p] \in ReleaseCall
                 /\ ReleaseOutcome(claims, call[p]) = "released"
                 /\ PlannedClaim(p) = ReleasedClaim(claims, call[p])
                 /\ issued' = issued
<1>1. pc[p] = "write" /\ call[p] \in Calls /\ call[p].objective \in Objective
  BY CallTypes DEF WriteClaim, TypeOK
<1>2. seen[p] = claims /\ Outcome(claims, call[p]) \in {"granted", "released"}
  BY <1>1 DEF SeenInv
<1>3. PlannedClaim(p) \in Claim
  BY <1>1, PlannedClaimType
<1>4. CASE call[p].kind = "admit"
  <2>1. AdmitOutcome(claims, call[p]) = "granted"
    BY <1>2, <1>4 DEF Outcome, AdmitOutcome
  <2>2. PlannedClaim(p) = NewClaim(claims, call[p])
    BY <1>2, <1>4 DEF PlannedClaim
  <2>3. QED  BY <1>1, <1>2, <1>3, <1>4, <2>1, <2>2, CallTypes DEF WriteClaim
<1>5. CASE call[p].kind = "release"
  <2>1. ReleaseOutcome(claims, call[p]) = "released"
    BY <1>2, <1>5 DEF Outcome, ReleaseOutcome
  <2>2. PlannedClaim(p) = ReleasedClaim(claims, call[p])
    BY <1>2, <1>5 DEF PlannedClaim
  <2>3. QED  BY <1>1, <1>2, <1>3, <1>5, <2>1, <2>2, CallTypes DEF WriteClaim
<1>6. QED  BY <1>1, <1>4, <1>5, CallTypes

\* A granted admission met no active claim of another writer on its paths.
LEMMA GrantMeetsNoConflict ==
    ASSUME NEW cs, NEW c, AdmitOutcome(cs, c) = "granted"
    PROVE  ~Conflicting(cs, c.objective, c.writer, c.paths)
BY DEF AdmitOutcome

\* Every step keeps the writers' paths apart.
LEMMA OwnershipStep ==
    TypeOK /\ SeenInv /\ OwnershipExclusive /\ [Next]_vars => OwnershipExclusive'
<1> SUFFICES ASSUME TypeOK, SeenInv, OwnershipExclusive, [Next]_vars
             PROVE  OwnershipExclusive'
  OBVIOUS
<1>1. CASE ~\E p \in Proc : WriteClaim(p)
  BY <1>1, OthersKeepClaims DEF OwnershipExclusive
<1>2. CASE \E p \in Proc : WriteClaim(p)
  <2>1. PICK p \in Proc : WriteClaim(p)
    BY <1>2
  <2> DEFINE o == call[p].objective
  <2>2. /\ o \in Objective
        /\ claims' = [claims EXCEPT ![o] = PlannedClaim(p)]
        /\ claims \in [Objective -> Claim]
    BY <2>1, WriteCases DEF TypeOK
  <2>3. CASE call[p].kind = "release"
    <3>1. ~IsActive(PlannedClaim(p))
      BY <2>1, <2>3, WriteCases, ReleasedClaimType
         DEF IsActive, TerminalStates, TypeOK
    <3>2. QED  BY <2>2, <3>1 DEF OwnershipExclusive
  <2>4. CASE call[p].kind = "admit"
    <3>1. ~Conflicting(claims, o, call[p].writer, call[p].paths)
      BY <2>1, <2>4, WriteCases, GrantMeetsNoConflict
    <3>2. /\ PlannedClaim(p).writer = call[p].writer
          /\ PlannedClaim(p).paths = call[p].paths
      BY <2>1, <2>4, WriteCases DEF NewClaim
    <3>3. ASSUME NEW x \in Objective, IsActive(claims[x]),
                 claims[x].writer # PlannedClaim(p).writer
          PROVE  ~PathsOverlap(claims[x].paths, PlannedClaim(p).paths)
      BY <3>1, <3>2, <3>3 DEF Conflicting
    <3>4. ASSUME NEW x \in Objective, NEW y \in Objective,
                 IsActive(claims'[x]), IsActive(claims'[y]),
                 claims'[x].writer # claims'[y].writer
          PROVE  ~PathsOverlap(claims'[x].paths, claims'[y].paths)
      <4>1. CASE x # o /\ y # o
        BY <2>2, <3>4, <4>1 DEF OwnershipExclusive
      <4>2. CASE x = o /\ y # o
        BY <2>2, <3>3, <3>4, <4>2, OverlapSymmetric
      <4>3. CASE x # o /\ y = o
        BY <2>2, <3>3, <3>4, <4>3
      <4>4. QED  BY <3>4, <4>1, <4>2, <4>3
    <3>5. QED  BY <3>4 DEF OwnershipExclusive
  <2>5. QED  BY <2>1, <2>3, <2>4, WriteCases
<1>3. QED  BY <1>1, <1>2

\* Every step keeps the generations of an objective growing.
LEMMA IssuedStep ==
    /\ TypeOK /\ SeenInv /\ IssuedInv /\ GenerationNamesOneGrant /\ [Next]_vars
    => IssuedInv' /\ GenerationNamesOneGrant'
<1> SUFFICES ASSUME TypeOK, SeenInv, IssuedInv, GenerationNamesOneGrant, [Next]_vars
             PROVE  IssuedInv' /\ GenerationNamesOneGrant'
  OBVIOUS
<1>1. CASE ~\E p \in Proc : WriteClaim(p)
  BY <1>1, OthersKeepClaims DEF IssuedInv, GenerationNamesOneGrant
<1>2. CASE \E p \in Proc : WriteClaim(p)
  <2>1. PICK p \in Proc : WriteClaim(p)
    BY <1>2
  <2> DEFINE o == call[p].objective
             new == PlannedClaim(p)
  <2>2. /\ o \in Objective
        /\ claims' = [claims EXCEPT ![o] = new]
        /\ claims \in [Objective -> Claim]
        /\ new \in Claim
        /\ issued \subseteq Objective \X Claim
    BY <2>1, WriteCases DEF TypeOK
  <2>3. /\ claims[o].generation \in Nat
        /\ \A a \in issued : a[1] \in Objective /\ a[2].generation \in Nat
        /\ \A x \in Objective : claims[x].generation \in Nat
    BY <2>2 DEF Claim
  <2>4. CASE call[p].kind = "release"
    <3>1. new.generation = claims[o].generation /\ issued' = issued
      BY <2>1, <2>2, <2>4, WriteCases, ReleasedClaimType
    <3>2. QED
      BY <2>2, <2>3, <3>1 DEF IssuedInv, GenerationNamesOneGrant
  <2>5. CASE call[p].kind = "admit"
    <3>1. /\ new.generation = claims[o].generation + 1
          /\ issued' = issued \cup {<<o, new>>}
      BY <2>1, <2>2, <2>5, WriteCases, NewClaimType
    <3>2. \A a \in issued : a[1] = o => a[2].generation < new.generation
      BY <2>3, <3>1 DEF IssuedInv
    <3>3. IssuedInv'
      BY <2>2, <2>3, <3>1, <3>2 DEF IssuedInv
    <3>4. GenerationNamesOneGrant'
      BY <2>3, <3>1, <3>2 DEF GenerationNamesOneGrant
    <3>5. QED  BY <3>3, <3>4
  <2>6. QED  BY <2>1, <2>4, <2>5, WriteCases
<1>3. QED  BY <1>1, <1>2

\* Every step keeps the invariant.
LEMMA InvStep == IInv /\ [Next]_vars => IInv'
BY TypeStep, LockStep, SeenStep, OwnershipStep, IssuedStep DEF IInv

\* The inductive invariant holds in every reachable state.
LEMMA Invariance == Spec => []IInv
BY InitInv, InvStep, PTL DEF Spec

\* The claim files, the lock and every call in progress keep their types.
THEOREM TypeCorrect == Spec => []TypeOK
<1>1. IInv => TypeOK
  BY DEF IInv
<1>2. QED  BY <1>1, Invariance, PTL

\* Single writer: whatever the interleaving of the callers, the crashes and
\* the failed writes, active claims of different writers never overlap.
THEOREM SingleWriter == Spec => []OwnershipExclusive
<1>1. IInv => OwnershipExclusive
  BY DEF IInv
<1>2. QED  BY <1>1, Invariance, PTL

\* Fencing: an (objective, generation) pair names one grant for ever.
THEOREM Fencing == Spec => []GenerationNamesOneGrant
<1>1. IInv => GenerationNamesOneGrant
  BY DEF IInv
<1>2. QED  BY <1>1, Invariance, PTL

\* How one claim may change in one step (the body of NoResurrection).
ClaimMoves(o) ==
    \/ claims'[o] = claims[o]
    \/ claims'[o].generation > claims[o].generation
    \/ /\ claims'[o].generation = claims[o].generation
       /\ claims'[o].writer = claims[o].writer
       /\ claims'[o].paths = claims[o].paths
       /\ claims'[o].state \in TerminalStates

\* Every step that changes a claim moves it on.
LEMMA ClaimMovesStep ==
    IInv /\ [Next]_vars => \A x \in Objective : ClaimMoves(x)
<1> SUFFICES ASSUME IInv, [Next]_vars, NEW x \in Objective
             PROVE  ClaimMoves(x)
  OBVIOUS
<1>1. CASE ~\E p \in Proc : WriteClaim(p)
  BY <1>1, OthersKeepClaims DEF ClaimMoves
<1>2. CASE \E p \in Proc : WriteClaim(p)
  <2>1. PICK p \in Proc : WriteClaim(p)
    BY <1>2
  <2> DEFINE o == call[p].objective
             new == PlannedClaim(p)
  <2>2. /\ o \in Objective
        /\ claims' = [claims EXCEPT ![o] = new]
        /\ claims \in [Objective -> Claim]
        /\ claims[o].generation \in Nat
    BY <2>1, WriteCases DEF IInv, TypeOK, Claim
  <2>3. CASE x # o
    BY <2>2, <2>3 DEF ClaimMoves
  <2>4. CASE x = o /\ call[p].kind = "release"
    <3>1. /\ new.writer = claims[o].writer
          /\ new.paths = claims[o].paths
          /\ new.generation = claims[o].generation
          /\ new.state \in TerminalStates
      BY <2>1, <2>2, <2>4, WriteCases, ReleasedClaimType DEF IInv
    <3>2. claims'[o] = new
      BY <2>2
    <3>3. QED  BY <2>4, <3>1, <3>2 DEF ClaimMoves
  <2>5. CASE x = o /\ call[p].kind = "admit"
    <3>1. new.generation = claims[o].generation + 1
      BY <2>1, <2>2, <2>5, WriteCases, NewClaimType DEF IInv
    <3>2. claims'[o] = new
      BY <2>2
    <3>3. QED  BY <2>2, <2>5, <3>1, <3>2 DEF ClaimMoves
  <2>6. QED  BY <2>1, <2>3, <2>4, <2>5, WriteCases DEF IInv
<1>3. QED  BY <1>1, <1>2

\* A claim comes back to life, or changes hands, only at a higher generation.
THEOREM TerminalIsFinal == Spec => NoResurrection
<1>1. IInv /\ [Next]_vars =>
        [\A o \in Objective :
          \/ claims'[o] = claims[o]
          \/ claims'[o].generation > claims[o].generation
          \/ /\ claims'[o].generation = claims[o].generation
             /\ claims'[o].writer = claims[o].writer
             /\ claims'[o].paths = claims[o].paths
             /\ claims'[o].state \in TerminalStates]_vars
  BY ClaimMovesStep DEF ClaimMoves
<1>2. QED  BY <1>1, Invariance, PTL DEF Spec, NoResurrection

-----------------------------------------------------------------------------
\* Every rewrite of the index equals the active claims.
LEMMA IndexStep ==
    IInv /\ [Next]_vars => [index' # index => index' = ActiveOnly(claims')]_vars
<1> SUFFICES ASSUME IInv, [Next]_vars, index' # index
             PROVE  index' = ActiveOnly(claims')
  OBVIOUS
<1>1. PICK p \in Proc : WriteIndex(p)
  BY DEF Next, vars, Proceed, Begin, Acquire, LockTimeout, Load, WriteClaim,
         Unlock, WriteFails, Crash, Return
<1>2. pc[p] = "index" /\ index' = ActiveOnly(IndexSource(p)) /\ claims' = claims
  BY <1>1 DEF WriteIndex
<1>3. IndexSource(p) = claims
  BY <1>2 DEF IndexSource, IInv, SeenInv
<1>4. QED  BY <1>2, <1>3

\* A crash between the two writes leaves a stale index only until the next
\* completed write, whoever makes it.
THEOREM IndexHeals == Spec => IndexRewriteIsExact
BY IndexStep, Invariance, PTL DEF Spec, IndexRewriteIsExact

\* The registry's copies of the operators of Claims are those operators.
LEMMA RegistryOperators ==
    ASSUME NEW cs, NEW c
    PROVE  /\ Registry!Absent = Absent
           /\ Registry!AdmitOutcome(cs, c) = AdmitOutcome(cs, c)
           /\ Registry!ReleaseOutcome(cs, c) = ReleaseOutcome(cs, c)
           /\ Registry!NewClaim(cs, c) = NewClaim(cs, c)
           /\ Registry!ReleasedClaim(cs, c) = ReleasedClaim(cs, c)
<1>1. Registry!Absent = Absent
  BY DEF Registry!Absent, Absent
<1>2. \A x : Registry!IsActive(x) = IsActive(x)
  BY DEF Registry!IsActive, IsActive
<1>3. \A x, e : Registry!FenceHolds(x, e) = FenceHolds(x, e)
  BY DEF Registry!FenceHolds, FenceHolds, Registry!AnyGeneration, AnyGeneration
<1>4. \A P, Q : Registry!PathsOverlap(P, Q) = PathsOverlap(P, Q)
  BY DEF Registry!PathsOverlap, PathsOverlap, Registry!Under, Under
<1>5. Registry!Conflicting(cs, c.objective, c.writer, c.paths)
        = Conflicting(cs, c.objective, c.writer, c.paths)
  BY <1>2, <1>4 DEF Registry!Conflicting, Conflicting
<1>6. Registry!AdmitOutcome(cs, c) = AdmitOutcome(cs, c)
  BY <1>2, <1>3, <1>5 DEF Registry!AdmitOutcome, AdmitOutcome
<1>7. Registry!ReleaseOutcome(cs, c) = ReleaseOutcome(cs, c)
  BY <1>3 DEF Registry!ReleaseOutcome, ReleaseOutcome
<1>8. Registry!NewClaim(cs, c) = NewClaim(cs, c)
  BY DEF Registry!NewClaim, NewClaim
<1>9. Registry!ReleasedClaim(cs, c) = ReleasedClaim(cs, c)
  BY DEF Registry!ReleasedClaim, ReleasedClaim
<1>10. QED  BY <1>1, <1>6, <1>7, <1>8, <1>9

\* The lock and the two writes implement the atomic registry: the claim-file
\* write is the step at which an admission or a release takes effect.
THEOREM RegistryImplemented == Spec => ImplementsRegistry
<1>1. Init => Registry!Init
  BY RegistryOperators DEF Init, Registry!Init, NoClaims
<1>2. IInv /\ [Next]_vars => [Registry!Next]_(Registry!registryVars)
  <2> SUFFICES ASSUME IInv, [Next]_vars
               PROVE  Registry!Next \/ UNCHANGED Registry!registryVars
    OBVIOUS
  <2>1. CASE ~\E p \in Proc : WriteClaim(p)
    BY <2>1, OthersKeepClaims DEF Registry!registryVars
  <2>2. CASE \E p \in Proc : WriteClaim(p)
    <3>1. PICK p \in Proc : WriteClaim(p)
      BY <2>2
    <3>2. call[p] \in Calls
      BY <3>1, WriteCases DEF IInv
    <3>3. CASE call[p].kind = "admit"
      <4>1. Registry!Admit(call[p])
        BY <3>1, <3>3, WriteCases, RegistryOperators DEF IInv, Registry!Admit
      <4>2. QED  BY <3>2, <4>1 DEF Registry!Next
    <3>4. CASE call[p].kind = "release"
      <4>1. Registry!Release(call[p])
        BY <3>1, <3>4, WriteCases, RegistryOperators DEF IInv, Registry!Release
      <4>2. QED  BY <3>2, <4>1 DEF Registry!Next
    <3>5. QED  BY <3>1, <3>3, <3>4, WriteCases DEF IInv
  <2>3. QED  BY <2>1, <2>2
<1>3. QED
  BY <1>1, <1>2, Invariance, PTL
     DEF Spec, ImplementsRegistry, Registry!Spec

-----------------------------------------------------------------------------
(* The screening of related work.                                          *)

\* A call that goes on to the lock has been screened.
ScreenedInv == \A p \in Proc : pc[p] # "idle" => Prelude(call[p]) = "claim"

\* At the start nobody is inside a call.
LEMMA ScreenedStart == Init => ScreenedInv
BY DEF Init, ScreenedInv

\* Only a call that the screening lets through gets inside.
LEMMA ScreenedStep == TypeOK /\ ScreenedInv /\ [Next]_vars => ScreenedInv'
<1> SUFFICES ASSUME TypeOK, ScreenedInv, [Next]_vars
             PROVE  ScreenedInv'
  OBVIOUS
<1> USE DEF TypeOK, ScreenedInv
<1>1. ASSUME NEW p \in Proc, NEW c \in Calls, Begin(p, c)
      PROVE  ScreenedInv'
  BY <1>1 DEF Begin, Return
<1>2. ASSUME NEW p \in Proc, Proceed(p) \/ WriteFails(p) \/ Crash(p)
      PROVE  ScreenedInv'
  <2>1. CASE LockTimeout(p) \/ Unlock(p) \/ Crash(p)
    BY <2>1 DEF LockTimeout, Unlock, Crash, Return
  <2>2. CASE Acquire(p) \/ Load(p) \/ WriteClaim(p) \/ WriteIndex(p) \/ WriteFails(p)
    BY <2>2 DEF Acquire, Load, WriteClaim, WriteIndex, WriteFails
  <2> QED
    BY <1>2, <2>1, <2>2 DEF Proceed
<1>3. CASE UNCHANGED vars
  BY <1>3 DEF vars
<1> QED
  BY <1>1, <1>2, <1>3 DEF Next

\* No related work that was screened covers a path, unless it is flagged as
\* unique required work.
LEMMA ScreenIsClear ==
    ASSUME NEW paths, NEW candidates, Screen(paths, candidates) = "clear", NEW c \in candidates
    PROVE  c.unique \/ ~PathsOverlap(paths, c.paths)
<1>1. Classify(paths, c) \notin {"continue", "founder_decision_required", "review_and_merge"}
  BY DEF Screen
<1>2. c.unique \/ OverlapPaths(paths, c.paths) = {}
  BY <1>1 DEF Classify
<1> QED
  BY <1>2 DEF OverlapPaths, PathsOverlap

\* A claim is written only by a caller whose related pull requests, but those
\* flagged as unique required work, left its paths alone.
THEOREM GrantsAreScreened == Spec => []GrantedClearOfCandidates
<1>1. TypeOK /\ ScreenedInv => GrantedClearOfCandidates
  <2> SUFFICES ASSUME ScreenedInv, NEW p \in Proc, pc[p] = "write", call[p].kind = "admit",
                      NEW c \in call[p].candidates
               PROVE  c.unique \/ ~PathsOverlap(call[p].paths, c.paths)
    BY DEF GrantedClearOfCandidates
  <2>1. Prelude(call[p]) = "claim"
    BY DEF ScreenedInv
  <2>2. Screen(call[p].paths, call[p].candidates) = "clear"
    BY <2>1 DEF Prelude, Screen
  <2> QED
    BY <2>2, ScreenIsClear
<1> QED
  BY ScreenedStart, ScreenedStep, TypeCorrect, <1>1, PTL DEF Spec
=============================================================================
