SPECIFICATION FairSpec
CONSTANTS
    w1 = w1
    w2 = w2
    Writers <- MCWriters2
    Modes = {"interval"}
    BatchSize = 2
    FsyncMayFail = FALSE
    RenameMayFail = TRUE
    CrashKinds = {"kill"}
    MaxFrames = 4
    MaxCrashes = 1
PROPERTIES
    AckedEventuallyDurable
