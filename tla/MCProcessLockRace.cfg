SPECIFICATION LockSpec
CONSTANTS
    Proc = {"a", "b"}
    MaxLives = 2
    SerialStarts = FALSE
INVARIANTS
    OneHost
CHECK_DEADLOCK FALSE
