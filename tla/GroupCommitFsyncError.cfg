SPECIFICATION Spec
CONSTANTS
    w1 = w1
    w2 = w2
    Writers <- MCWriters2
    Modes = {"sync"}
    BatchSize = 1
    FsyncMayFail = TRUE
    RenameMayFail = FALSE
    CrashKinds = {"power"}
    MaxFrames = 4
    MaxCrashes = 1
INVARIANTS
    SyncNeverLoses
