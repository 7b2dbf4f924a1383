CONSTANTS
    Jobs = {1, 2}
    AutoMerge = {1}
    MaxEvents = 2
SPECIFICATION Spec
INVARIANTS
    PublicationInv
PROPERTIES
    MergesOnlyTheValidated
    MergedIsFreed
