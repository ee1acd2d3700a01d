SPECIFICATION FairSpec
CONSTANTS
    BUCKET_COUNT = 4
    Pow2 <- MCPow2
    MIN_ALLOC = 16
    WordSize = 4096
    HEADER_SIZE = 8
    Requests <- MCRequests
INVARIANTS
    BlocksDisjoint
    PoolCovered
    SplitBitsExact
    FullyMerged
    ListsServe
    MemoryObtained
PROPERTIES
    ImplementsHeap
    CallReturns
