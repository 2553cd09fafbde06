SPECIFICATION FairSpec
CONSTANTS
  t1 = t1 t2 = t2 NoWaiter = NoWaiter
  Waiters <- TwoWaiters
  MaxAttempts = 3
CHECK_DEADLOCK FALSE
INVARIANTS
  AsleepOnlyIfOvertaken
PROPERTIES
  ReturnsUnlessOvertaken
