CONSTANTS
    Attempts = {1, 2}
    Followed = {1}
    Corrections = {11}
    Correction <- PlanForFirst
    Mortal = {"relay", "refill", "publisher"}
    MaxCrashes = 1
    MaxRetries = 2
    MaxTransitions = 1
    RecordFrom = "relay"
SPECIFICATION Spec
CHECK_DEADLOCK FALSE
INVARIANTS
    LifecycleInv
    GivenUpWorkIsPublished
PROPERTIES
    ImplementsEvidenceLog
    SettledIsFollowed
