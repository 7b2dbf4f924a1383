SPECIFICATION FairSpec
CONSTANTS
    Run = {"host", "operator"}
    Lane = {"web", "core", "docs"}
    OwnerId = {"codex-host", "codex-operator"}
    NoRun = "none"
    Char = {"a", "/"}
    Separator = "/"
    Plans <- MCPlans
    Paths <- ShortPaths
    Ttl = 2
    MaxConcurrency = 1
    MaxClock = 3
INVARIANTS
    LaneInv
    OwnershipDisjoint
    LeasedWhileBeating
PROPERTIES
    EveryRunEnds
CHECK_DEADLOCK FALSE
