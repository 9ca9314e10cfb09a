SPECIFICATION Spec
CONSTANTS
  Cap = 2
  Targets <- WithinCapacity
  MaxBacklog = 2
  MaxResizes = 1
PROPERTY CountIsRespected
\* The consumer is stopped for good in the end.
CHECK_DEADLOCK FALSE
