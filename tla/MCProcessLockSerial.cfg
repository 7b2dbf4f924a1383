SPECIFICATION LockSpec
CONSTANTS
    Proc = {"a", "b", "c"}
    MaxLives = 2
    SerialStarts = TRUE
INVARIANTS
    OneHost
    RefusedOnlyByTheLiving
CHECK_DEADLOCK FALSE
