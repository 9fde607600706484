SPECIFICATION Spec
CONSTANTS
    Feeds = {1, 2}
    Cells = {c1}
    NoFeed = NoFeed
    MaxRequests = 2
    MaxTaps = 1
INVARIANTS
    IInv
    NoDuplicates
    CellsCurrent
PROPERTIES
    CrashCauses
    DeleteHitsTarget
    ModifyHitsTarget
