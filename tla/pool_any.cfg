SPECIFICATION Spec
CONSTANTS
  Cap = 2
  Targets <- AnyTarget
  MaxBacklog = 2
  MaxResizes = 3
INVARIANTS
  TypeOK
  PoolAccounting
  StopClosedOnce
  ConcurrencyLimit
PROPERTY IsSemaphore
\* The consumer is stopped for good in the end.
CHECK_DEADLOCK FALSE
