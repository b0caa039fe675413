SPECIFICATION Spec
CONSTANTS
  Loaded <- MCLoaded
  Changes <- MCChanges
  NotMade = NotMade
  MaxEarly = 2
  MaxTests = 2
  MaxDepth = 2
  MaxClears = 2
  MaxFailures = 1
  MaxClients = 2
  MaxChanges = 2
INVARIANTS
  RecordsOnce
  TestsIsolated
  TestsLeaveNoTrace
PROPERTY ErrorsReported
CHECK_DEADLOCK FALSE
