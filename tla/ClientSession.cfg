SPECIFICATION FairSpec
CONSTANTS
    Requests <- MCRequests
    Hosts <- MCHosts
    NoProxy <- MCNoProxy
    NoRequest = NoRequest
    NoHost = NoHost
    Restricted = TRUE
    MaxRequests = 4
INVARIANTS
    TypeOK
    ShutdownWakesReader
    PolicyRouting
    ValidatedOnce
    NoReuseAfterFailure
PROPERTIES
    ImplementsSessionLife
    WatcherEnds
    ShutdownEndsIdleSession
CHECK_DEADLOCK FALSE
