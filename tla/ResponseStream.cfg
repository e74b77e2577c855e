SPECIFICATION StreamSpec
CONSTANTS
    Heads <- MCHeads
    Base = 2
    Width = 2
    Exchanges = 3
INVARIANT ReaderAligned
INVARIANT RelayedIsDelimited
CHECK_DEADLOCK FALSE
