SPECIFICATION FairSpec
CONSTANTS
  Token = {t1, t2}
  Caller = {c1, c2}
  MaxResets = 0
  None = None
INVARIANTS ForgottenStaysGone
CHECK_DEADLOCK FALSE
