SPECIFICATION Spec
CONSTANTS
    t1 = t1
    t2 = t2
    m1 = m1
    m2 = m2
    a = a
    b = b
    NoOne = NoOne
    Globals = Globals
    Threads = {t1}
    MainThread = t1
    Greenlets = {m1, a, b}
    MainOf <- OneThread
    StartedIn <- StartedByT1
    MayHold <- Parents
    MayName <- Nothing
    Weak = {}
    Callbacks = {}
    OptionalCleanup = FALSE
    MaxStarts = 1
INVARIANTS
    AcyclicParents
CHECK_DEADLOCK FALSE
