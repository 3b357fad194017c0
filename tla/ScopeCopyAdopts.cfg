SPECIFICATION FairSpec
CONSTANTS
  Scripts = {s1, v}
  Home = s1
  Serving = v
  Requests = {m1, m2}
  Recarries = {r1}
  Sweepers = {k}
  Writes = {}
  Person = p
  None = none
  ExportAttempts = 2
  MaxExtras = 1
  MaxEvents = 2
CHECK_DEADLOCK FALSE
INVARIANTS MovesInOrder
PROPERTIES PendingSettles
