SPECIFICATION FairSpec
CONSTANTS
    Cells = {c1, c2}
    Photos = {a, b}
    None = None
    MaxDownloads = 3
CHECK_DEADLOCK FALSE
INVARIANTS
    PhotoInPlace
PROPERTIES
    EveryDownloadEnds
