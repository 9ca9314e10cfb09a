SPECIFICATION FairSpec
CONSTANTS
  Cap = 2
  Targets <- WithinCapacity
  MaxBacklog = 2
  MaxResizes = 3
INVARIANT NeverBelowCount
PROPERTIES
  EveryDeliveryHandled
  StopEndsLoop
  AllWorkersReturn
\* The consumer is stopped for good in the end.
CHECK_DEADLOCK FALSE
