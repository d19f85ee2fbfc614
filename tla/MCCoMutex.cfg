CONSTANTS
    a1 = a1
    a2 = a2
    b1 = b1
    b2 = b2
    c = c
    A = A
    B = B
    C = C
    NoRoot = NoRoot
    Tasks <- MCTasks
    Roots <- MCRoots
    RootOf <- MCRootOf
    MaxLocks = 2
SPECIFICATION FairSpec
INVARIANTS
    MutualExclusion
    RepCountsEntries
    WaitersAreFiled
PROPERTIES
    LockReturns
    ImplementsGroupLock
