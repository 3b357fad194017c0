SPECIFICATION Spec
CONSTANTS
  Nonce = {n1, n2, n3}
  Time = {0, 1, 2, 3}
  Cap = 2
  Batch = 1
INVARIANTS TypeOK AcceptedOnce CountIsRows
PROPERTIES FullMeansNeeded
