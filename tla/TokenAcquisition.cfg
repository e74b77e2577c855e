SPECIFICATION FairAcquisition
CONSTANTS
    Callers = {c1}
    NoCaller = NoCaller
    Threshold = 2
    Passwords = {p1, p2}
    NoPassword = NoPassword
    MaxEdits = 2
INVARIANTS
    LockoutGuard
    WarningsFollowRejection
    NoGoodTicketWithheld
    ClosedIsQuiet
    NeverWedgedHalfOpen
PROPERTIES
    CorrectionNoticed
    CloseReturns
    Recovers
