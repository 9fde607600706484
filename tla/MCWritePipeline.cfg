CONSTANTS
    MaxPendingWrites = 2
    MaxWrites = 5
    MaxFailures = 3
SPECIFICATION FairSpec
INVARIANTS IInv NoAssertFails NothingLost
PROPERTIES InOrder EveryWriteSettles ImplementsQueue
CHECK_DEADLOCK FALSE
