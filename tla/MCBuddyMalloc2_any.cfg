SPECIFICATION Spec
CONSTANTS
    BUCKET_COUNT = 3
    Pow2 <- MCPow2
    MIN_ALLOC = 16
    WordSize = 4096
    Requests <- MCRequests3
    FreesLast = TRUE
    ForeignMax = 2
INVARIANTS
    TypeOK
    MemoryObtained
CHECK_DEADLOCK FALSE
