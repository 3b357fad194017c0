SPECIFICATION FairSpec
CONSTANTS
  RunId = {r1, r2}
  KeyOf <- OneKey
  Subjects = {r1}
  Step = {}
  Owner = {o1, o2, o3}
  Cursor = {c1}
  MissMax = 2
  Null = Null
  Tombstone = Tombstone
  Drive = {d1, d2}
  JobMax = 2
  StepMax <- TwoTries
  MaxPasses = 1
  MaxHiccups = 0
  MaxLate = 1
INVARIANTS OneLiveRun
PROPERTIES RunsEnd
CHECK_DEADLOCK FALSE
