SPECIFICATION FairSpec
CONSTANTS
    Entities = {1, 2}
    Literals = {}
    Registry <- MirrorRegistry
    PredicateRank <- OneRank
    MaxRoutes = 2
    ConflictCap = 2
    MaxPerSubject = 3
    Ns = {1, 2}
    Assertable <- MirrorTriples
    Mergers = {m1}
    MaxId = 4
    MaxDepth = 2
    MaxDerived = 1
    MaxCandidates = 9
    MaxHops = 8
    MaxSup = 9
    CursorMod = 12
    Limits <- MainLimits
CHECK_DEADLOCK FALSE
INVARIANTS
    NoStrandedConclusion
    NoCircularSupport
    AssertionSurvives
PROPERTIES
    MergedPremiseCounts
    RetractionHappens
