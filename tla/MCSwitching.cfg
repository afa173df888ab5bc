SPECIFICATION FairSpec
CONSTANTS
    t1 = t1
    t2 = t2
    m1 = m1
    m2 = m2
    a = a
    b = b
    c = c
    NoOne = NoOne
    Threads = {t1, t2}
    MainOf <- TwoThreads
    Greenlets = {m1, m2, a, b}
    Callbacks = {a, b}
    Tracing = {t1, t2}
    MaxSends = 2
    MaxThrows = 0
    MaxDepth = 1
INVARIANTS
    TypeOK
    RunsOnce
    CurrentInThread
    DirectInThread
    CurrentArgsClean
    ControlInv
PROPERTIES
    StartedForGood
    SwitchReturns
CHECK_DEADLOCK FALSE
