SPECIFICATION Spec
CONSTANTS
    CpuLists <- MCCpuLists
    Clients = {c1, c2}
    Sends = 2
    Hashes = {1, 2}
    Depth = 2
INVARIANTS
    SentInOrder
    LanesDealtOnce
PROPERTIES
    AllIngested
CHECK_DEADLOCK FALSE
