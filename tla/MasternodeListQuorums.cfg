SPECIFICATION MCSpec
CONSTANTS
    a = a
    b = b
    Blocks = {a, b}
    Main = a
    Base = 18
    VoteLifetime = 3
    Buffer = 2
    ShortHistory = 6
    Interval = 7
    ScanBatch = 3
    MaxReorg = 3
    DeepPops = FALSE
    MeetsStored = FALSE
    MaxHeight = 12
    MaxCuts = 2
    MaxStops = 2
INVARIANT
    QuorumsAtHand
CHECK_DEADLOCK FALSE
