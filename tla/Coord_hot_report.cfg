SPECIFICATION Spec
CONSTANTS
  w1 = w1 w2 = w2 b1 = b1 b2 = b2 o1 = o1 o2 = o2 c1 = c1 c2 = c2
  NoWorker = NoWorker NoBoot = NoBoot NoConn = NoConn
  Workers <- OneWorker
  Boots <- OneBoot
  Objects <- OneObject
  Conns <- OneConn
  ObservedStates = {"HOT"}
  ObservedEph = {"VALID"}
  ReconnectSameBoot = FALSE
  WorkersMayLeave = FALSE
  MaxAttempts = 1
  MaxEpoch = 0
  MaxBumps = 0
  MaxReports = 1
CHECK_DEADLOCK FALSE
PROPERTIES
  ReadyOnlyBySettling
