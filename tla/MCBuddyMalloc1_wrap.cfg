SPECIFICATION Spec
CONSTANTS
    BUCKET_COUNT = 3
    Pow2 <- MCPow2
    MIN_ALLOC = 16
    WordSize = 4096
    HEADER_SIZE = 8
    Requests <- MCRequestsWrap
INVARIANTS
    OversizeRefused
