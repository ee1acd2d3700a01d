--------------------------- MODULE MCBuddyMalloc2 ---------------------------
(* Instances of BuddyMalloc2 for TLC. *)
EXTENDS BuddyMalloc2

\* 1 << k, and requests at both edges of the buckets of a tree of four: none as
\* large as the heap / the heap as well and one too large / for a tree of three,
\* where the last is the heap.
MCPow2        == [k \in 0 .. BUCKET_COUNT |-> 2 ^ k]
MCRequests    == {16, 17, 64}
MCRequestsAll == {16, 17, 64, 65, 129}
MCRequests3   == {16, 17, 64}
=============================================================================
