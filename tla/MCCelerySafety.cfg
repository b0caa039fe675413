SPECIFICATION Spec
CONSTANTS
  Tasks = {t1, t2}
  Messages = {m1, m2, m3}
  Ids = {id1, id2}
  None = None
  MaxStarts = 3
  MaxDepth = 3
SYMMETRY Symmetry
INVARIANTS
  MeasuredOnce
  IdIsOwn
  IdHandedOn
CHECK_DEADLOCK FALSE
