SPECIFICATION Spec
CONSTANTS
    Release = {"v1", "bad"}
    First = "v1"
    Broken = {"bad"}
    Service = {"host"}
    Optional = {}
    WithOptional = {}
    NoRelease = "none"
    Overlap = FALSE
    CrashAt <- Anywhere
    FaultAt = {}
    Bounds <- MCBounds
INVARIANTS
    FallbackIsProven
CHECK_DEADLOCK FALSE
