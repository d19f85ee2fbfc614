CONSTANTS
    w0 = w0
    w1 = w1
    l0 = l0
    l1 = l1
    h0 = h0
    p = p
    q = q
    r = r
    s = s
    Null = Null
    Workers <- MCWorkers
    Lanes <- TwoLanes
    WorkerOf <- MCWorkerOf
    PrioOf <- MCPrioOf
    Tasks <- FourTasks
    ParentOf <- MCParentOf
    FireAndForget <- JustS
    LongRunning = {}
    WaitAll = TRUE
    Inner = 1
    MaxYields = 0
SPECIFICATION FairSpec
INVARIANTS
    BlockCountExact
    WaitCoversSubtasks
PROPERTIES
    TasksEnd
