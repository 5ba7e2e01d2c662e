SPECIFICATION ServicesSpec
CONSTANTS
  Requests = {r1, r2, r3}
  Workers = {w1, w2}
  QueueCapacity = 1
  None = None
  Threads = {t1, t2, t3}
  MinConnections = 1
  MaxConnections = 2
  MaxStops = 2
  Handlers = {h1, h2, h3}
  AuditCapacity = 1
  NoRecord = NoRecord
  Recorders = {a1, a2}
  MaxRecords = 3
  Writers = {v1, v2}
  Readers = {d1}
  MaxWrites = 2
  MaxRedisErrors = 1
  NoEntry = NoEntry
  Reporters = {j1, j2}
  TestResults = {x1, x2}
  MaxClaims = 2
  MaxTaskErrors = 1
  NoState = NoState
  Managers = {g1, g2}
  Publishes = {k1, k2, k3}
  MaxLinkFaults = 2
INVARIANTS
  RetryableNotRun DrainRunsAll PoolInv AuditedBeforeExit HitsWithinRequests
  ListsAreCurrent StaleOnlyFromReaders AcksAgree FinalStaysVisible GuestIsKnown
  LogoutSticks ConfirmedWasRouted
PROPERTIES EveryRequestAnswered AdminExits EventuallyFresh ReceiptBecomesVisible
CHECK_DEADLOCK FALSE
