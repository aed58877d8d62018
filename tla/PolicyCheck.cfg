SPECIFICATION Spec
CONSTANTS
    None = None
    Junk = Junk
    Operations <- MCOperations
    Permissions <- MCPermissions
    Contexts <- MCContexts
INVARIANTS
    TighteningNeverAllows
    StrictLimitsLeaveNoHole
CHECK_DEADLOCK FALSE
