SPECIFICATION FairSpec
CONSTANTS
  t1 = t1 t2 = t2 NoWaiter = NoWaiter
  Waiters <- OneWaiter
  MaxAttempts = 1
CHECK_DEADLOCK FALSE
PROPERTIES
  WaitReturns
