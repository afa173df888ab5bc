SPECIFICATION Spec
CONSTANTS
    t1 = t1
    t2 = t2
    m1 = m1
    m2 = m2
    a = a
    b = b
    NoOne = NoOne
    Globals = Globals
    Threads = {t1, t2}
    MainThread = t1
    Greenlets = {m1, m2, a}
    MainOf <- TwoThreads
    StartedIn <- StartedByBoth
    MayHold <- Restarted
    MayName <- Nothing
    Weak = {a}
    Callbacks = {}
    OptionalCleanup = FALSE
    MaxStarts = 2
INVARIANTS
    MurderedElsewhere
CHECK_DEADLOCK FALSE
