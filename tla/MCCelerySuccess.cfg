SPECIFICATION Spec
CONSTANTS
  Tasks = {t1, t2}
  Messages = {m1, m2}
  Ids = {id1}
  None = None
  MaxStarts = 2
  MaxDepth = 1
INVARIANT SuccessesCounted
CHECK_DEADLOCK FALSE
