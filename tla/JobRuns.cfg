SPECIFICATION Spec
CONSTANTS
  RunId = {r1}
  KeyOf <- OneKey
  Subjects = {r1}
  Step = {s1}
  Owner = {o1, o2, o3}
  Cursor = {c1}
  MissMax = 2
  Null = Null
  Tombstone = Tombstone
  Drive = {d1, d2}
  JobMax = 2
  StepMax <- TwoTries
  MaxPasses = 2
  MaxHiccups = 1
  MaxLate = 1
SYMMETRY Interchangeable
INVARIANTS HolderIsCurrent LedgerIsCurrent NoStepRepeated StepsBounded AttemptsWereBegun ErasedStaysErased
PROPERTIES ImplementsWalk
CHECK_DEADLOCK FALSE
