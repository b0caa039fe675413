SPECIFICATION Spec
CONSTANTS
  NumServices = 2
  PerMs = 2
  PerSecond = 3
  Timeouts = {0, 2}
  None = None
  Zones = {0, 1}
  MaxTime = 5
INVARIANTS
  DeadlineTravels
  StatementsInTime
CHECK_DEADLOCK FALSE
