SPECIFICATION FairSpec
CONSTANTS
    Clients = {c1, c2}
    Tokens = {k1}
    Second = 2
    TTL = 3
    MaxSkew = 1
    FailModes = {TRUE, FALSE}
    Retries = 1
    UseBound = 3
    None = None
INVARIANTS
    StoreInv
    SpendsAccounted
PROPERTIES
    KeepsPermit
    MarksFade
CHECK_DEADLOCK FALSE
