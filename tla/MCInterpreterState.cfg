SPECIFICATION Spec
CONSTANTS
    t1 = t1
    t2 = t2
    main1 = main1
    main2 = main2
    a = a
    b = b
    Threads = {t1, t2}
    Greenlets = {main1, main2, a, b}
    MainOf <- MCMainOf
    NoThread = NoThread
    StartedIn <- MCStartedIn
    Contexts = {c}
    Empty = Empty
    NChunks = 2
    MaxFrames <- MCFrames
    Limit = 2
VIEW View
INVARIANTS
    TypeOK
    ChunksOwned
    FramesInChunks
    ExposedAreComplete
    SavedIntoEmpty
    InterpreterInv
PROPERTIES
    PrivateInterpreterSpec
