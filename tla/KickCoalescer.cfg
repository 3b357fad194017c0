SPECIFICATION FairSpec
CONSTANTS
  Window = 3
  MaxKicks = 4
  MaxResets = 2
  MaxEarly = 2
  None = None
INVARIANTS TrailingPassArmed
PROPERTIES PassesApart LosslessUnreset
CHECK_DEADLOCK FALSE
