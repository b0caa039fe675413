SPECIFICATION Spec
CONSTANTS
  Requests <- MCRequests
  Headers <- MCHeaders
  None = None
  MaxStarts = 3
INVARIANTS
  CheckTruthful
  ReportsAnnounced
  PagesAgree
CHECK_DEADLOCK FALSE
