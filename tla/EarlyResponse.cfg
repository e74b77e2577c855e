SPECIFICATION FairSpec
CONSTANTS
    MaxInterim = 1
INVARIANTS
    EarlyResponseIsLast
CHECK_DEADLOCK FALSE
