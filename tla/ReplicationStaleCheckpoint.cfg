SPECIFICATION Spec
CONSTANTS
    NewCodec = {}
    PrimaryCrashes = {}
    Faults = {}
    MaxWrites = 3
    MaxCompactions = 1
    MaxCheckpoints = 1
    MaxDrops = 1
    MaxFaults = 1
    MaxCrashes = 1
INVARIANTS
    IndexMatchesLog
CHECK_DEADLOCK FALSE
