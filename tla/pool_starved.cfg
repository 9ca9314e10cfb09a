SPECIFICATION FairSpec
CONSTANTS
  Cap = 2
  Targets <- BeyondCapacity
  MaxBacklog = 2
  MaxResizes = 2
PROPERTY EveryDeliveryHandled
\* The consumer is stopped for good in the end.
CHECK_DEADLOCK FALSE
