SPECIFICATION Spec
CONSTANTS
    MaxId = 2
    MaxWrites = 4
    MaxCrashes = 2
    CrashKinds = {"kill", "power"}
    Holes = FALSE
    AllocMayFail = FALSE
    MaxOld = 0
    Compaction = FALSE
INVARIANTS
    StaleCheckpointHarmless
CHECK_DEADLOCK FALSE
