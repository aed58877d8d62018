SPECIFICATION Spec
CONSTANTS
    Handlers = {h1, h2}
    Tokens = {k1, k2}
    read = read
    Tools <- TwoTools
    Operations = {read}
    None = None
    Foreign = Foreign
    Malformed = Malformed
    Elsewhere = Elsewhere
    InitialRoutes <- OnlyCrm
    AddedRoutes <- ReadOnlyCrm
    TTL = 1
    MaxRedirections = 1
    StallBound = 1
    TimeBound = 2
    UseBound = 3
SYMMETRY Alike
INVARIANTS
    TypeOK
    RememberedWhileValid
    LaterRequestDenied
    OnceForEachThread
    ForwardedInScope
CHECK_DEADLOCK FALSE
