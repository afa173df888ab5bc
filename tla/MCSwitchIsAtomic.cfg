SPECIFICATION Spec
CONSTANTS
    t1 = t1
    t2 = t2
    m1 = m1
    m2 = m2
    a = a
    b = b
    NoOne = NoOne
    Globals = Globals
    Threads = {t1, t2}
    MainThread = t1
    Greenlets = {m1, m2, a, b}
    MainOf <- TwoThreads
    StartedIn <- StartedByT2
    MayHold <- Dropped
    MayName <- Nothing
    Weak = {}
    Callbacks = {}
    OptionalCleanup = FALSE
    MaxStarts = 1
INVARIANTS
    SwitchIsAtomic
CHECK_DEADLOCK FALSE
