CONSTANTS
    w0 = w0
    w1 = w1
    l0 = l0
    l1 = l1
    h0 = h0
    p = p
    q = q
    r = r
    s = s
    Null = Null
    Workers <- MCWorkers
    Lanes <- ThreeLanes
    WorkerOf <- MCWorkerOf
    PrioOf <- MCPrioOf
    Tasks <- ThreeTasks
    ParentOf <- FlatParentOf
    FireAndForget = {}
    LongRunning <- JustR
    WaitAll = TRUE
    Inner = 2
    MaxYields = 1
SPECIFICATION Spec
INVARIANTS
    InOnePlace
    LaneIsActive
    NeverStranded
