SPECIFICATION FairSpec
CONSTANTS
    Feeds = {1}
    Cells = {c1}
    NoFeed = NoFeed
    MaxRequests = 2
    MaxTaps = 2
PROPERTIES
    TableCatchesUp
