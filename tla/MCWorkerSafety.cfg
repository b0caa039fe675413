SPECIFICATION Spec
CONSTANTS
  NoOne = NoOne
  r1 = r1
  r2 = r2
  r3 = r3
  t1 = t1
  t2 = t2
  x = x
  y = y
  Requests = {r1, r2, r3}
  Tasks = {t1, t2}
  RequestIds = {x, y}
SYMMETRY WorkerSymmetry
INVARIANTS
  OwnContext
  OnlyAbandonedLeak
  LogsOwnContext
  TrackedUntilLogged
CHECK_DEADLOCK FALSE
