SPECIFICATION FairSpec
CONSTANTS
    Phones = {p1,p2}
    Ids = {d1}
    MaxSaves = 1
    MaxRepeats = 1
INVARIANTS
    IInv
    SavedOnce
    NoDanglingFeed
PROPERTIES
    DeletedStaysDeleted
    ImplementsCatalogue
    ImplementsQueues
    DeletesReach
