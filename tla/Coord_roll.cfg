SPECIFICATION Spec
CONSTANTS
  w1 = w1 w2 = w2 b1 = b1 b2 = b2 o1 = o1 o2 = o2 c1 = c1 c2 = c2
  NoWorker = NoWorker NoBoot = NoBoot NoConn = NoConn
  Workers <- OneWorker
  Boots <- OneBoot
  Objects <- OneObject
  Conns <- TwoConns
  ObservedStates = {"WARM"}
  ObservedEph = {"VALID"}
  ReconnectSameBoot = TRUE
  WorkersMayLeave = TRUE
  MaxAttempts = 2
  MaxEpoch = 1
  MaxBumps = 0
  MaxReports = 1
CHECK_DEADLOCK FALSE
SYMMETRY ConnSymmetry
INVARIANTS
  BudgetAccounting
  ReadyIsCurrent
PROPERTIES
  ReadyOnlyBySettling
  ImplementsAuthority
