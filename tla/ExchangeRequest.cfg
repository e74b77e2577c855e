SPECIFICATION FairSpec
CONSTANTS
    MaxInterim = 2
INVARIANTS
    ReturnIsClean
PROPERTIES
    ExchangeEnds
CHECK_DEADLOCK FALSE
