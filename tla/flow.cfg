SPECIFICATION FairSpec
CONSTANTS
  Msg <- OneMessage
  Copy <- FourCopies
  Proc <- ApiAndWorker
  m1 = m1
  Api = api
  worker = worker
  NoProc = NoProc
  MaxRunning = 1
  HeaderTypes <- BothHeaderTypes
  MaxTroubles = 5
  MaxDisruptions = 2
INVARIANTS
  TypeOK
  NothingVanishes
  OneOutcome
  DeadAfterRetries
PROPERTIES
  CompletedStays
  EventuallySettled
  IsDelivery
\* When every message is settled nothing is left to do.
CHECK_DEADLOCK FALSE
