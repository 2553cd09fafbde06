SPECIFICATION FairSpec
CONSTANTS
  o1 = o1 t1 = t1 t2 = t2 NoObject = NoObject
  Objects <- OneObject
  Threads <- TwoThreads
  LimitChoices <- MCLimitChoices
  IdleTimes = {1200}
  RawStates = {"HOT"}
  RawResidencies = {"NONE"}
  MaxReservationId = 4
  MaxRecovers = 1
CHECK_DEADLOCK FALSE
INVARIANTS
  TypeOK
  BudgetAccounting
  MemoryNeverOvercommitted
  ReadyHasNoReason
  PreparingHasOwner
  ReadyIsResident
  ValidatingImproves
  AdvicePays
  FurtherRanksFirst
PROPERTIES
  PreparationEnds
  RecoveredReadyWasHot
