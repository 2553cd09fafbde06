SPECIFICATION FairSpec
CONSTANTS
    c1 = c1
    c2 = c2
    w1 = w1
    w2 = w2
    NoConn = NoConn
    NoWorker = NoWorker
    Conns <- MCConns
    Workers <- MCWorkers
INVARIANTS
    TypeOK
    CrashedOnlyIfLate
    StoppedIsQuiet
PROPERTIES
    StopReturns
    AcceptLoopEnds
    SweptWorkersReturn
CHECK_DEADLOCK FALSE
