SPECIFICATION FairSpec
CONSTANTS
    Job <- Jobs
    Item <- Items
    Depth <- Depths
    Lane <- Lanes
    Changes <- PathsOf
    NoJob = 0
    MaxDepth = 1
    MaxFaults = 1
    MaxOthers = 1
INVARIANTS
    TypeOK
    
    PassedOverMeansJudged
    RewritesNeedFaults
    RevisedMeansQueued
PROPERTY Settles
