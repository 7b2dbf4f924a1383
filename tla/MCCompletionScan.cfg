CONSTANTS
    Jobs = {1, 2}
    AutoMerge = {1, 2}
    MaxEvents = 0
SPECIFICATION Spec
PROPERTIES
    GreenIsMerged
