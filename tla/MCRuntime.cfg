CONSTANTS
  TickSeconds = 10
  LockSeconds = 70
  RetryAfters = {1, 300}
SPECIFICATION Spec
CHECK_DEADLOCK FALSE
INVARIANTS
  TypeOK
  NoRenewerLeft
  LockKept
  BudgetOutlastsProvider
PROPERTIES
  CutShortUnsettled
  DeliveryEnds
  StopEnds
