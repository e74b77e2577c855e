SPECIFICATION FairSpec
CONSTANTS
    Callers = {c1, c2, c3}
    NoCaller = NoCaller
    Threshold = 2
INVARIANTS
    EveryResultCounts
PROPERTIES
    KeepsLoginBudget
    EveryCallReturns
