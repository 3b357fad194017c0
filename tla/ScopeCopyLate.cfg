SPECIFICATION Spec
CONSTANTS
  Scripts = {s1, s2}
  Home = s1
  Serving = none
  Requests = {m1}
  Recarries = {}
  Sweepers = {k}
  Writes = {}
  Person = p
  None = none
  ExportAttempts = 2
  MaxExtras = 1
  MaxEvents = 2
CHECK_DEADLOCK FALSE
INVARIANTS NothingComesBack
