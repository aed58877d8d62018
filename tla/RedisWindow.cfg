SPECIFICATION Spec
CONSTANTS
    k1 = k1
    k2 = k2
    Clients = {c1, c2}
    Keys <- TwoKeys
    Limits <- LimitsOfKeys
    Window = 5
    Second = 2
    MaxSkew = 1
    MaxStall = 1
    MaxWait = 1
    FailModes = {TRUE, FALSE}
    Retries = 1
    TimeBound = 6
    CallBound = 3
    None = None
SYMMETRY Alike
INVARIANTS
    WindowInv
    SlotsAccounted
PROPERTIES
    KeepsLimit
CHECK_DEADLOCK FALSE
