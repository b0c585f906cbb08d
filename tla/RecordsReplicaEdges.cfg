CONSTANTS
    MaxId = 3
    MaxKinds = 1
    MaxPreds = 1
    Namespaces = {"n1", "n2"}
    Kinds = {"a", "b"}
    Tokens <- MCTokens
    Inputs <- MCInputs
    Patches <- MCPatches
    Buckets <- MCBuckets
    MaxRecords = 2
    MaxBytes = 6
    AnnMin = 1
    MaxNodes = 2
    WalkDepth = 1
    Filters <- MCFilters
    FirstLogs <- PlainLogs
    Plans <- EdgePlans
SPECIFICATION Spec
CHECK_DEADLOCK FALSE
INVARIANT
    ReplicaEdgesMatchRecovery
