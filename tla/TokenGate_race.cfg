SPECIFICATION Spec
CONSTANTS
    Handlers = {h1, h2}
    Tokens = {k1, k2}
    read = read
    Tools <- OneTool
    Operations = {}
    None = None
    Foreign = Foreign
    Malformed = Malformed
    Elsewhere = Elsewhere
    InitialRoutes <- OpenCrm
    AddedRoutes = {}
    TTL = 1
    MaxRedirections = 1
    StallBound = 0
    TimeBound = 3
    UseBound = 4
SYMMETRY Alike
INVARIANTS
    SingleUse
CHECK_DEADLOCK FALSE
