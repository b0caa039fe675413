SPECIFICATION LogSpec
CONSTANTS
  Tasks = {t1, t2}
  Keys = {"task_id", "request_id", "user", "unfit"}
  Unfit = {"unfit"}
  Values = {"v"}
  NotCached = NotCached
  MaxDepth = 3
  MaxGlobals = 1
INVARIANTS
  FlatIsCurrent
  JobStays
  CollisionsKept
