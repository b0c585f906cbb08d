SPECIFICATION RetrievalSpec
CONSTANTS
  SIds = {1, 2, 3, 4, 5, 6}
  Plans <- MCSearchPlans
  FetchMul = 1
  FetchBase = 0
  Widening = 2
  FetchCap = 7
  ScanCap = 3
  MaxSubsume = 2
  HIds = {1, 2, 3, 4, 5, 6}
  HPlans <- MCHnswPlans
  MaxLevel = 1
  M = 2
  EfBuild = 6
  RebuildMin = 4
  TKeys = {1, 2, 3, 4}
  TVals = {1, 2}
  Hash <- MCHash
  FirstCap = 4
  MaxCap = 8
  Tables = {"usage", "docs", "targets", "facts", "rc", "hash"}
CHECK_DEADLOCK FALSE
INVARIANTS
  SearchTypeOK
  AnswerSound
  NotStarved
  PagesPartition
  PageOfRanking
  AgreementRanksFirst
  CountExactUnlessCapped
  PurgeComplete
  UsageCountsHits
  GraphWellFormed
  MapMatchesNodes
  SearchExactWhereReached
  EveryAdditionFound
  TombstonesBounded
  ProbesEnd
  SlotsCounted
PROPERTY
  IsKeyMap
