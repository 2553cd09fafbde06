SPECIFICATION FairSpec
CONSTANTS
  w1 = w1 w2 = w2 b1 = b1 b2 = b2 o1 = o1 o2 = o2 c1 = c1 c2 = c2
  NoWorker = NoWorker NoBoot = NoBoot NoConn = NoConn
  Workers <- TwoWorkers
  Boots <- OneBoot
  Objects <- OneObject
  Conns <- TwoConns
  ObservedStates = {}
  ObservedEph = {}
  ReconnectSameBoot = FALSE
  WorkersMayLeave = TRUE
  MaxAttempts = 2
  MaxEpoch = 0
  MaxBumps = 1
  MaxReports = 0
CHECK_DEADLOCK FALSE
INVARIANTS
  ReadyIsBackedByLiveBoot
PROPERTIES
  AttemptsSettle
