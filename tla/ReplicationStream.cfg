SPECIFICATION FairSpec
CONSTANTS
    NewCodec = {3}
    PrimaryCrashes = {"kill", "power", "hole"}
    Faults = {"truncate", "alloc", "apply", "install"}
    MaxWrites = 3
    MaxCompactions = 1
    MaxCheckpoints = 1
    MaxDrops = 1
    MaxFaults = 1
    MaxCrashes = 2
INVARIANTS
    TypeOK
    PrefixOfRunningPrimary
    IndexIsLogUnlessStale
    AppliedAtOffset
PROPERTIES
    CatchesUpWithRunningPrimary
CHECK_DEADLOCK FALSE
