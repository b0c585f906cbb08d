SPECIFICATION Spec
CONSTANTS
    NewCodec = {}
    PrimaryCrashes = {"kill"}
    Faults = {}
    MaxWrites = 3
    MaxCompactions = 1
    MaxCheckpoints = 0
    MaxDrops = 1
    MaxFaults = 1
    MaxCrashes = 1
INVARIANTS
    FollowedMatches
CHECK_DEADLOCK FALSE
