\* Two greenlets of t2 that both threads may drop.  Of frames, only those of a greenlet
\* of t2 refer to m2, so that a reference to it that is not found is lost.
\* The process stops at a fault.
SPECIFICATION FairSpec
CONSTANTS
    t1 = t1
    t2 = t2
    m1 = m1
    m2 = m2
    a = a
    b = b
    NoOne = NoOne
    Globals = Globals
    Threads = {t1, t2}
    MainThread = t1
    Greenlets = {m1, m2, a, b}
    MainOf <- TwoThreads
    StartedIn <- StartedByT2
    MayHold <- Shared
    MayName <- Itself
    Weak = {m1}
    Callbacks = {m2}
    OptionalCleanup = TRUE
    MaxStarts = 1
INVARIANTS
    TypeOK
    RefcountExact
    LeaksAreLost
    KilledInThread
    OwnParent
    ParkedForThread
    CurrentAlive
PROPERTIES
    SuspendedIntact
    ReturnsToPython
CHECK_DEADLOCK FALSE
