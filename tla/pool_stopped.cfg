SPECIFICATION Spec
CONSTANTS
  Cap = 2
  Targets <- NoTarget
  MaxBacklog = 1
  MaxResizes = 0
PROPERTY StoppedStartsNothing
\* The consumer is stopped for good in the end.
CHECK_DEADLOCK FALSE
