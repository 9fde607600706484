SPECIFICATION Spec
CONSTANTS
    Forms = {f1}
    Points = {harbour}
    Words = {carbon}
    Photos = {bass}
    Blank = Blank
    NoPhoto = NoPhoto
    Nothing = Nothing
    MaxSaves = 1
    MaxClock = 1
INVARIANTS
    NoBlankSaved
