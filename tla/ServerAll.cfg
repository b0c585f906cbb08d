SPECIFICATION FairServerSpec
CONSTANTS
  c1 = c1
  c2 = c2
  c3 = c3
  l1 = l1
  l2 = l2
  Clients = {c1, c2, c3}
  Loops = {l1, l2}
  Plans <- MCPlans
  MaxConn = 1
  Limit = 3
  RespLen = 2
  SndBuf = 3
  MaxReaps = 1
  Peers = {p1, p2, p3}
  MaxReplicas = 1
  MaxPending = 2
  Names = {"acme", "admin"}
  Secrets = {"k0", "k1"}
  Files <- MCFiles
  Rates = {1, 4}
  Unit = 2
  Delay = 1
  MaxClock = 3
  Asked = {"search", "insert", "snapshot"}
  MaxChanges = 1
CHECK_DEADLOCK FALSE
INVARIANTS
  ConnsCounted
  CapNearlyHolds
  AnswersInOrder
  NoRequestStranded
  AnsweredBeforeEof
  CountersCountThreads
  RegistryExact
  StreamsBounded
  FreedAfterStreams
  FileIsTokens
  RateBound
  NeverLockedOut
PROPERTIES
  EveryRequestAnswered
  StopEnds
