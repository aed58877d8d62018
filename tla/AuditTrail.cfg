SPECIFICATION FairSpec
CONSTANTS
    Threads = {t1, t2}
    Events = {e1, e2}
    f1 = f1
    w1 = w1
    o1 = o1
    Files = {f1}
    Webhooks = {w1}
    Others = {o1}
    Configured <- Both
    Lengths = {"short", "long", "unwritable"}
    Faulty = TRUE
    None = None
INVARIANTS
    TypeOK
    DeliveredUnlessFailed
    LinesTornByConcurrentLong
PROPERTIES
    RecordEnds
CHECK_DEADLOCK FALSE
