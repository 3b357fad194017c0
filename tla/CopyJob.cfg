SPECIFICATION FairSpec
CONSTANTS
  Token = {t1, t2}
  Caller = {c1, c2}
  MaxResets = 2
  None = None
INVARIANTS StepIsCurrent CopyingIsDriven
PROPERTIES NoRevival HeldIsKept FinishedGoes
CHECK_DEADLOCK FALSE
