SPECIFICATION Spec
CONSTANTS
    Forms = {f1}
    Points = {harbour}
    Words = {}
    Photos = {bass}
    Blank = Blank
    NoPhoto = NoPhoto
    Nothing = Nothing
    MaxSaves = 2
    MaxClock = 4
INVARIANTS
    IInv
    SingleFlight
    PhotoBeforeFeed
PROPERTIES
    FeedsKept
