CONSTANTS
    a1 = a1
    a2 = a2
    b1 = b1
    b2 = b2
    c = c
    A = A
    B = B
    C = C
    NoRoot = NoRoot
    Tasks <- MCTasks
    Roots <- MCRoots
    RootOf <- MCRootOf
    MaxLocks = 2
    Modes <- MCModes
SPECIFICATION FairSpec
\* HELOG(kFatal) and a task that blocks under its own lock stop the system.
INVARIANTS
    ReadWriteExclusion
    RepCountsEntries
    WaitersAreFiled
PROPERTIES
    LockReturns
    ImplementsGroupLock
CHECK_DEADLOCK FALSE
