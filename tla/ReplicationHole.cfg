SPECIFICATION FairSpec
CONSTANTS
    NewCodec = {}
    PrimaryCrashes = {"hole"}
    Faults = {}
    MaxWrites = 3
    MaxCompactions = 0
    MaxCheckpoints = 0
    MaxDrops = 1
    MaxFaults = 1
    MaxCrashes = 1
PROPERTIES
    CatchesUp
CHECK_DEADLOCK FALSE
