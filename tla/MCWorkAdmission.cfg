SPECIFICATION FairSpec
CONSTANTS
    Objective = {"o1", "o2"}
    Writer = {"w1", "w2"}
    NoWriter = "none"
    Path <- MCPath
    Proc = {"p1", "p2"}
    Calls <- MCCalls
    NoProc = NoProc
    NoCall = NoCall
    MaxGeneration = 2
    MaxFaults = 1
INVARIANTS
    TypeOK
    OwnershipExclusive
    GenerationNamesOneGrant
    GrantedClearOfCandidates
PROPERTIES
    IndexRewriteIsExact
    LockIsFreed
    ImplementsRegistry
