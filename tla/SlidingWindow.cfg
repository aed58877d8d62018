SPECIFICATION Spec
CONSTANTS
    t1 = t1
    t2 = t2
    k1 = k1
    k2 = k2
    Threads <- TwoThreads
    Keys <- TwoKeys
    Limits <- LimitsOfKeys
    Window = 3
    MaxStall = 1
    TimeBound = 5
    AdmitBound = 3
SYMMETRY Alike
INVARIANTS
    LimiterInv
    WindowBound
PROPERTIES
    DenialJustified
    KeepsLimit
CHECK_DEADLOCK FALSE
