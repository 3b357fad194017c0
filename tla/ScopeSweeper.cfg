SPECIFICATION FairSpec
CONSTANTS
  Scope = {s1, s2}
  Interval = 2
  Concurrency = 1
  MaxResets = 2
  Never = Never
INVARIANTS TypeOK LoopAliveUncut
PROPERTIES StartsApartRecorded VisitedAgain
