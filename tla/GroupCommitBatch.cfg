SPECIFICATION FairSpec
CONSTANTS
    w1 = w1
    w2 = w2
    Writers <- MCWriters2
    Modes = {"sync", "batch", "interval"}
    BatchSize = 2
    FsyncMayFail = TRUE
    RenameMayFail = TRUE
    CrashKinds = {"kill", "power"}
    MaxFrames = 5
    MaxCrashes = 2
INVARIANTS
    TypeOK
    SyncAckedIsDurable
    AckedLossBound
    PendingIsReal
PROPERTIES
    AckedIsFlushed
