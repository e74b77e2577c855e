SPECIFICATION FairSession
CONSTANTS
    BufLen = 9
    Lengths = {0, 1, 3, 10}
    WordSize = 16
    MaxInterim = 1
INVARIANT NothingHeld
INVARIANT WithinBuffer
INVARIANT WholeOutcome
PROPERTY DialEnds
CHECK_DEADLOCK FALSE
