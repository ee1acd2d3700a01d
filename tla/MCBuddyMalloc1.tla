--------------------------- MODULE MCBuddyMalloc1 ---------------------------
(* Instances of BuddyMalloc1 for TLC. *)
EXTENDS BuddyMalloc1

\* 1 << k, and requests that just fill a block of each bucket of a tree of four
\* (with the 8 byte header: 16, 32, 64 and 128 bytes) and one too large.
MCPow2     == [k \in 0 .. BUCKET_COUNT |-> 2 ^ k]
MCRequests == {8, 24, 56, 120, 121}
\* A tree of three buckets, and a request that is a wrapped negative number.
MCRequests3    == {8, 24, 56, 57}
MCRequestsWrap == {8, WordSize - 4}
=============================================================================
