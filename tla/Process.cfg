SPECIFICATION FairProcess
CONSTANTS
    Conns = {k1, k2, k3}
    MaxConns = 2
    Width = 2
    Thresholds <- MCThresholds
INVARIANTS
    SlotsAccountedFor
    NoSessionAfterDrain
    BreakerAsAsked
PROPERTIES
    ShutdownFinishes
CHECK_DEADLOCK FALSE
