SPECIFICATION Spec
CONSTANTS
    MaxId = 2
    MaxWrites = 4
    MaxCrashes = 1
    CrashKinds = {"kill"}
    Holes = TRUE
    AllocMayFail = FALSE
    MaxOld = 0
    Compaction = TRUE
INVARIANTS
    StaleCheckpointHarmless
CHECK_DEADLOCK FALSE
