SPECIFICATION Spec
CONSTANTS
  Goroutine <- Goroutines
  Id <- Ids
  Given <- OneId
  Asked <- Choices
  Upserts <- UpsertChoices
  Varied <- OneColumn
  MaxCalls = 2
  TenantObject <- ThreeTenants
  ChildObject <- ThreeChildren
  TenantId <- TwoTenantIds
  ChildId <- TwoChildIds
  MaxOperations = 4
  MaxMessages = 21
  LimitParam <- Limits
  CursorParam <- Cursors
  MaxRequests = 2
  g1 = g1
  g2 = g2
  i1 = i1
  i2 = i2
  Zero = Zero
  Default = Default
  o1 = o1
  o2 = o2
  o3 = o3
  c1 = c1
  c2 = c2
  c3 = c3
  t1 = t1
  t2 = t2
  k1 = k1
  k2 = k2
  Nil = Nil
  NotANumber = NotANumber
  Absent = Absent
INVARIANTS
  RightStatement
  Mirror
  KeyAgreesWithPointer
  ListedWherePointed
  InOneList
  EnvironmentWins
PROPERTIES
  OwnColumns
  PagesAreHonest
SYMMETRY Symmetry
\* Calls, operations and requests are bounded, and a program starts once.
CHECK_DEADLOCK FALSE
