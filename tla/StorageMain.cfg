SPECIFICATION Spec
CONSTANTS
    MaxId = 2
    MaxWrites = 3
    MaxCrashes = 2
    CrashKinds = {"kill", "power"}
    Holes = TRUE
    AllocMayFail = TRUE
    MaxOld = 1
    Compaction = TRUE
CONSTRAINT NotStale
INVARIANTS
    TypeOK
    IndexIsFullScan
    ReadsLastWrite
    NextIdFresh
CHECK_DEADLOCK FALSE
