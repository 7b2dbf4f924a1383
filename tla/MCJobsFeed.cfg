\* Two generations of at most two attempts, and two events.
SPECIFICATION Spec
CONSTANTS
    Items = {1, 2, 3}
    Listed = {2}
    Backlog = {3}
    DependsOn <- MCDependsOn
    MaxAttempts = 2
    MaxGenerations = 2
    MaxEvents = 2
INVARIANTS JobsFeedInv EveryJobIsKnown QueuedIsOnTheBranch
PROPERTY PreparedIsResolved
