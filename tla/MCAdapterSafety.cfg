SPECIFICATION FairSpec
CONSTANTS
  ConnectTimeout = 1
  ReadTimeout = 3
  Timeouts = {2}
  Totals = {1, 2}
  Deadlines = {0, 2, 5}
  NoDeadline = NoDeadline
  MaxPause = 2
  MaxHops = 2
INVARIANTS
  TriesInTime
  HangBounded
  RetriesUsed
  AllRecorded
PROPERTIES
  CallEnds
CHECK_DEADLOCK FALSE
