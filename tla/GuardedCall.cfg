SPECIFICATION Spec
CONSTANTS
    Threads = {t1, t2}
    Auths = {a1, a2}
    Providers = {TRUE, FALSE}
    Modes = {"observe", "enforce"}
    Results <- BothErrors
    ExtraBound = 1
    None = None
SYMMETRY Alike
INVARIANTS
    TypeOK
    DispatchIsAuthorized
    ObserveNeverBlocks
    EvidenceUnlessUnwritable
    OneRecordPerAuthorization
    ClientCallsAccounted
    PendingAccounted
CHECK_DEADLOCK FALSE
