SPECIFICATION HeaderSpec
CONSTANTS
    Self = "self"
    Others = {"p", "q"}
    Options = {"Via", "Forwarded", "Cookie"}
    ForwardedEnabled = TRUE
    XForwardedForEnabled = TRUE
    MaxPath = 3
INVARIANT LoopIsBroken
INVARIANT OwnFieldsArrive
CHECK_DEADLOCK FALSE
