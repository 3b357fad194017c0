SPECIFICATION Spec
CONSTANTS
  Scripts = {s1, s2}
  Home = s1
  Serving = none
  Requests = {m1, m2}
  Recarries = {r1}
  Sweepers = {k}
  Writes = {w1}
  Person = p
  None = none
  ExportAttempts = 2
  MaxExtras = 1
  MaxEvents = 2
CHECK_DEADLOCK FALSE
SYMMETRY Interchangeable
INVARIANTS OneActs EveryCopyNamedInOrder RoutedIsLiveInOrder ErasedInOrder ReapedInOrder
PROPERTIES NothingLostInTurn
