SPECIFICATION FairSpec
CONSTANTS
    Timeout = 3
    CloseWriters = {"client", "peer"}
INVARIANTS
    ClockIsExact
    EndIsPassedOn
PROPERTIES
    IdleIsReal
    TunnelEnds
CHECK_DEADLOCK FALSE
