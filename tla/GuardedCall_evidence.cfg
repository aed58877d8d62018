SPECIFICATION Spec
CONSTANTS
    Threads = {t1}
    Auths = {a1, a2, a3}
    Providers = {TRUE}
    Modes = {"observe"}
    Results <- Outcomes
    ExtraBound = 0
    None = None
SYMMETRY Alike
INVARIANTS
    EvidenceOfEachDispatch
CHECK_DEADLOCK FALSE
