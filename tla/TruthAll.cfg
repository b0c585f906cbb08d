SPECIFICATION Spec
CONSTANTS
    Entities = {1, 2}
    Literals = {}
    Registry <- MirrorRegistry
    PredicateRank <- OneRank
    MaxRoutes = 2
    ConflictCap = 2
    MaxPerSubject = 3
    Ns = {1}
    Assertable <- OneTriple
    Mergers = {m1}
    MaxId = 5
    MaxDepth = 2
    MaxDerived = 1
    MaxCandidates = 9
    MaxHops = 8
    MaxSup = 9
    CursorMod = 12
    Limits <- TwoMergesLimits
CHECK_DEADLOCK FALSE
INVARIANTS TypeOK NoStrandedConclusion NoCircularSupport NoDuplicateConclusion AssertionSurvives
PROPERTIES MergedPremiseCounts ConflictsAgree
