SPECIFICATION FairSpec
CONSTANTS
    Release = {"v1", "v2", "bad"}
    First = "v1"
    Broken = {"bad"}
    Service = {"host", "refill"}
    Optional = {"refill"}
    WithOptional = {"v2"}
    NoRelease = "none"
    Overlap = FALSE
    CrashAt <- Anywhere
    FaultAt <- Anything
    Bounds <- MCBounds
INVARIANTS
    SelfUpdateInv
    FallbackUnlessStranded
    OutcomeMatchesTasks
    RepeatedCutoversCost
PROPERTIES
    ServicesComeBack
CHECK_DEADLOCK FALSE
