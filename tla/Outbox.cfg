SPECIFICATION FairSpec
CONSTANTS
    a = a
    b = b
    m = m
    x = x
    y = y
    Kinds <- OneEntity
    MoveTypes = {m}
    Exported = {}
    Consumed = {m}
    Executed = {a}
    Filter = {x}
    Sweeps = {w}
    None = None
    RandMax = 0
    Budget = 1
    PruneLimit = 1
    ScanLimit = 1
    RedrainBatch = 1
    PageLimit = 1
    Retention = 0
    MaxNow = 1
    MaxClock = 1
    MaxMints = 3
    MaxRedrains = 1
CHECK_DEADLOCK FALSE
INVARIANTS
    WalkSkipsNothing
PROPERTIES
    IdsAscend
    PrunedIsSpent
    SpentGoes
