\* Three greenlets beside main on four cells, one frame value: a cell that is not what
\* it should be is Garbage, and the order of the chain and the end of both loops do not
\* depend on what the bytes are.
CONSTANTS
    Main = main
    Greenlets = {main, g1, g2, g3}
    NoOne = NoOne
    Top = 5
    Frames = {f1}
    Garbage = Garbage
SPECIFICATION FairSpec
INVARIANTS
    TypeOK
    ChainOfOwners
    SaveHasOwner
    ChainInv
PROPERTIES
    PrivateStacksSpec
    SwitchCompletes
