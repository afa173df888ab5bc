SPECIFICATION Spec
CONSTANTS
    t1 = t1
    t2 = t2
    m1 = m1
    m2 = m2
    a = a
    b = b
    c = c
    NoOne = NoOne
    Threads = {t1}
    MainOf <- OneThread
    Greenlets = {m1, a, b}
    Callbacks = {a, b}
    Tracing = {}
    MaxSends = 5
    MaxThrows = 0
    MaxDepth = 1
INVARIANTS
    ReceivedOnce
CHECK_DEADLOCK FALSE
