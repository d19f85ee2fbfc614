CONSTANTS
    NumSlabs = 2
    SlabSizes <- MCSlabSizes
    MaxHeapSize = 5
    Sizes = {1, 3, 4, 6}
    MaxHeapOff = 6
    Values = {0, 1}
    Zero = 0
    Junk = Junk
    Unknown = Unknown
    MaxCalls = 2
    Scheme = "fs"
SPECIFICATION BdevSpec
INVARIANTS
    BlocksDisjoint
    FreedBlocksApart
    FreeSizeExact
    RequestIsCovered
    ReadsBack
