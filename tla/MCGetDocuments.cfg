SPECIFICATION FairSpec
CONSTANTS
    MaxCalls = 3
    MaxWrites = 1
    MaxChanges = 1
    MaxFaults = 1
CHECK_DEADLOCK FALSE
INVARIANTS
    IInv
PROPERTIES
    ImplementsReads
    EveryCallAnswered
