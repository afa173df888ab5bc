SPECIFICATION Spec
CONSTANTS
    t1 = t1
    t2 = t2
    m1 = m1
    m2 = m2
    a = a
    b = b
    c = c
    NoOne = NoOne
    Threads = {t1, t2}
    MainOf <- TwoThreads
    Greenlets = {m1, m2, a, b}
    Callbacks = {}
    Tracing = {t2}
    MaxSends = 3
    MaxThrows = 1
    MaxDepth = 0
INVARIANTS
    TracerFollows
CHECK_DEADLOCK FALSE
