\* A main thread and two that exit; two greenlets of one of them, one of the other.
CONSTANTS
    MainThread = main
    t1 = t1
    t2 = t2
    g1 = g1
    g2 = g2
    g3 = g3
    Threads = {main, t1, t2}
    Greenlets = {g1, g2, g3}
    OwnerOf <- Owners3
    NPendingCalls = 2
    NoOne = NoOne
SPECIFICATION FairSpec
INVARIANTS
    TypeOK
    DestroyedOnce
    NoDanglingState
    NothingStranded
    ParkedHasReaper
    CleanupInv
PROPERTIES
    ExitedIsCleaned
