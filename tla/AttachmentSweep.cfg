SPECIFICATION FairSpec
CONSTANTS
    Atts = {a, b}
    Passes = {p}
    Slots = {s}
    None = none
    Grace = 1
    FenceFor = 1
    Reach = 0
    Arming = 0
    Slow = 1
    Retention = 1
    Window = 1
    Limit = 1
    Batch = 1
    MaxNow = 1
    MaxReplacements = 1
CHECK_DEADLOCK FALSE
INVARIANTS
    OnlyListed
PROPERTIES
    NeededBytesStay
    OrphansGo
