SPECIFICATION Spec
CONSTANTS
  Tenant <- OneTenant
  Api = api
  Worker <- OneWorker
  Request <- TwoRequests
  Nobody = Nobody
  Count <- MinusOneAndOne
  NoCount = NoCount
  DefaultCount = 1
  MaxRequests = 3
  MaxFaults = 1
  MaxBoots = 2
  t1 = t1
  w1 = w1
  r1 = r1
  r2 = r2
INVARIANTS
  TypeOK
  NothingWithoutRow
  CreatedIsComplete
  DeletedStaysStopped
  ConfigAgrees
  AcceptedIsRouted
  MutexOwner
PROPERTY IsRegistry
\* Requests, failures and starts are bounded, so the system comes to a rest.
SYMMETRY Symmetry
CHECK_DEADLOCK FALSE
