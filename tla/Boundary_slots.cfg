SPECIFICATION Spec
CONSTANTS
    None = None
    Junk = Junk
    Threads = {t1, t2}
    Tools <- TwoTools
    Calls <- OneCallEach
    InitialPermissions <- LimitedPay
    AddedPermissions <- Relimited
    BlockedOperations = {}
    EnvironmentAllowed = TRUE
    KillSwitchEnv = FALSE
    MaxActions = 2
    StrictLimits = FALSE
    FailClosed = TRUE
    Hooks = 1
    InitialAutonomy <- Unsupervised
    AssignedAutonomy <- Unsupervised
    HostMoves = {"permission"}
    CallBound = 4
INVARIANTS
    TypeOK
    SlotAccounting
    AllowedWithinLimit
SYMMETRY Alike
CHECK_DEADLOCK FALSE
