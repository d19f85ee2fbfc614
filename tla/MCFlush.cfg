CONSTANTS
    x = x
    y = y
    f1 = f1
    f2 = f2
    s1 = s1
    s2 = s2
    Null = Null
    N = 2
    Inner = 2
    Tasks <- TwoTasks
    ChildOf <- XSpawnsY
    Flushes <- OneFlush
    Stops <- OneStop
    Forward = TRUE
SPECIFICATION FairSpec
INVARIANTS
    FlushReachesEarlier
PROPERTIES
    FlushEnds
    ShutdownEnds
