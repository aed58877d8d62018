SPECIFICATION Spec
CONSTANTS
    None = None
    Junk = Junk
    Threads = {t1}
    Tools <- StrictTools
    Calls <- Probes
    InitialPermissions <- Strict
    AddedPermissions <- Replacements
    BlockedOperations = {"purge"}
    EnvironmentAllowed = TRUE
    KillSwitchEnv = TRUE
    MaxActions = 1
    StrictLimits = TRUE
    FailClosed = FALSE
    Hooks = 1
    InitialAutonomy <- Levels
    AssignedAutonomy <- Levels
    HostMoves = {"engage", "disengage", "environ", "autonomy", "period", "permission"}
    CallBound = 1
INVARIANTS
    HaltIsFinal
    SteadySupervisionBinds
    DecidesInDocumentedOrder
CHECK_DEADLOCK FALSE
