SPECIFICATION FairSpec
CONSTANTS
    Places = {harbour, pier, reef}
    Sea = {reef}
    NoAddress = NoAddress
    MaxVisits = 2
    MaxFixes = 2
    MaxMaps = 1
CHECK_DEADLOCK FALSE
INVARIANTS
    IInv
PROPERTIES
    AllowedVisitLocates
