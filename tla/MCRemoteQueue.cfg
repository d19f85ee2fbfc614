SPECIFICATION FairSpec
CONSTANTS
    n0 = n0
    n1 = n1
    n2 = n2
    d0 = d0
    d1 = d1
    t = t
    f = f
    Null = Null
    Nodes <- MCNodes
    Tasks <- MCTasks
    NodeOf <- MCNodeOf
    Domains <- MCDomains
    node_ <- MCnode_
    Targets <- MCTargets
    Flushes <- MCFlushes
    MaxCrashes = 1
INVARIANTS
    OneEntry
    ResultsArrived
    PendingExact
PROPERTIES
    RemoteTaskEnds
    ImplementsRemoteCall
