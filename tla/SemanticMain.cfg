CONSTANTS
    Recs = {1, 2}
    Inputs <- MCInputs
    AnnThreshold = 2
    ShardTarget = 2
    ShardMax = 2
    Mix <- MCMix
    CommitMax = 1
    MaxRounds = 2
    Limits <- MainLimits
SPECIFICATION Spec
CHECK_DEADLOCK FALSE
INVARIANTS
    HeldIsWanted
PROPERTY
    GraphComes
