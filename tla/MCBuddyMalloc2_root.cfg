SPECIFICATION Spec
CONSTANTS
    BUCKET_COUNT = 4
    Pow2 <- MCPow2
    MIN_ALLOC = 16
    WordSize = 4096
    Requests <- MCRequests
    FreesLast = TRUE
    ForeignMax = 0
INVARIANTS
    UnusedRootIsFree
