SPECIFICATION FairSpec
CONSTANTS
    Forms = {f1, f2}
    Points = {harbour}
    Words = {}
    Photos = {bass}
    Blank = Blank
    NoPhoto = NoPhoto
    Nothing = Nothing
    MaxSaves = 1
    MaxClock = 1
INVARIANTS
    WrittenAsShown
    NoStaleMail
PROPERTIES
    TimerPopsSaver
    PointReachesAsker
    OverlayGoes
    EverySaveWrites
