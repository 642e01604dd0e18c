SPECIFICATION BothSpec
CONSTANTS
    None = None
    c = c
    d = d
    Windows = {c, d}
    Texts = {"a", "b"}
    SlowFlush = FALSE
    MaxSends = 2
    MaxLocks = 1
    Bounds <- ComposerBounds
INVARIANTS
    NothingTypedIsLost
    OneAtATime
    NothingIsLost
PROPERTIES
    ForeignDraftKept
    WaitingEnds
CHECK_DEADLOCK FALSE
