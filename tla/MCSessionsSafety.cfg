SPECIFICATION SessionsSpec
CONSTANTS
  Threads = {t1, t2}
  Contexts = {c1}
  Names = {n1}
  NoName = NoName
  Absent = Absent
  Nobody = Nobody
  MaxForks = 2
  MaxMade = 3
SYMMETRY Symmetric
CHECK_DEADLOCK FALSE
INVARIANTS
  OwnSession
  SessionsStay
  NamesOwn
