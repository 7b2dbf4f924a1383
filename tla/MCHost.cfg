SPECIFICATION FairSpec
CONSTANTS
    Job = {"j1","j2"}
    Bounds <- MCBounds
INVARIANTS
    QueueInv
    RerunNeedsTwoFaults
    FailedAttemptsFreeTheirClaim
PROPERTIES
    ReplacementIsRecorded
    EveryJobArchived
