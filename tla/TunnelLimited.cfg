SPECIFICATION FairSpec
CONSTANTS
    Timeout = 1
    CloseWriters = {"peer"}
INVARIANTS
    EndIsPassedOn
CHECK_DEADLOCK FALSE
