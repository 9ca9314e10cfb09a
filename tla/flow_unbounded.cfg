SPECIFICATION Spec
CONSTANTS
  Msg <- OneMessage
  Copy <- FourCopies
  Proc <- ApiAndWorker
  m1 = m1
  Api = api
  worker = worker
  NoProc = NoProc
  MaxRunning = 1
  HeaderTypes <- PinnedHeaderType
  MaxTroubles = 5
  MaxDisruptions = 0
INVARIANT RetryBound
\* When every message is settled nothing is left to do.
CHECK_DEADLOCK FALSE
