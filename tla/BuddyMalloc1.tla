---------------------------- MODULE BuddyMalloc1 ----------------------------
(***************************************************************************)
(* malloc_1 and free_1 of src/buddy_alloc/src/buddy_malloc.c: a buddy      *)
(* allocator whose heap starts as one smallest block and is doubled on     *)
(* demand.  One bit per internal node says that exactly one of its two     *)
(* children is in use.                                                     *)
(*                                                                         *)
(* A call is a sequence of steps, one per iteration of its loops; pc says  *)
(* where the call stands and bucket, orig, node and request are its local  *)
(* variables.  The caller frees only blocks it holds, each once.  sbrk may *)
(* fail at any growth of the break.                                        *)
(*                                                                         *)
(* A definition named Faulty_X is X with a plausible bug; no specification *)
(* uses it, it serves to show that the properties notice the bug.          *)
(***************************************************************************)
EXTENDS BuddyTree, FiniteSets

CONSTANTS
    HEADER_SIZE,    \* bytes in front of a block that store the request
    Requests        \* the sizes, in bytes, callers ask for

ASSUME BuddyMalloc1Assumption ==
    /\ HEADER_SIZE \in Nat
    /\ Requests \subseteq 0 .. WordSize - 1

VARIABLES
    inited,         \* base_ptr # NULL
    max_ptr,        \* one past the highest unit obtained from sbrk
    bucket_limit,   \* the pool is the leftmost block of this bucket
    buckets,        \* the free lists, one per bucket
    split,          \* node_status: the internal nodes whose bit is 1
    header,         \* what the caller holds: address -> request in the header
    pc, bucket, orig, node, request

heap == <<inited, max_ptr, bucket_limit, buckets, split>>
call == <<pc, bucket, orig, node, request>>
vars == <<heap, header, call>>

\* request + HEADER_SIZE, a size_t.
Faulty_Need(n) == n % WordSize          \* the header is forgotten
Need(n) == (n + HEADER_SIZE) % WordSize

root == node_for_ptr(0, bucket_limit)
parent_is_split(i) == Parent(i) \in split
Flip(S, i) == IF i \in S THEN S \ {i} ELSE S \union {i}
flip_parent_is_split(i) == split' = Flip(split, Parent(i))

\* update_max_ptr: the break only moves up, and only when sbrk agrees.
update_max_ptr(new) == max_ptr' = IF new > max_ptr THEN new ELSE max_ptr
MayFail(new) == new > max_ptr

-----------------------------------------------------------------------------
Init ==
    /\ inited = FALSE
    /\ max_ptr = 0
    /\ bucket_limit = 0
    /\ buckets = [b \in Buckets |-> <<>>]
    /\ split = {}
    /\ header = [p \in {} |-> 0]
    /\ pc = "idle" /\ bucket = Smallest /\ orig = Smallest
    /\ node = 0 /\ request = 0

\* The first call makes the heap one smallest block.  Whether sbrk gave the
\* unit its list node needs is not looked at.
Setup ==
    IF inited
    THEN UNCHANGED heap
    ELSE /\ inited' = TRUE
         /\ max_ptr' \in {0, 1}
         /\ bucket_limit' = Smallest
         /\ buckets' = [buckets EXCEPT ![Smallest] = <<0>>]
         /\ UNCHANGED split

\* malloc_1 is called; a request above MAX_ALLOC returns NULL at once.
Malloc(n) ==
    /\ pc = "idle"
    /\ Need(n) <= MAX_ALLOC
    /\ Setup
    /\ request' = n
    /\ \E b \in Buckets : IsBucketFor(b, Need(n)) /\ bucket' = b /\ orig' = b
    /\ pc' = "search"
    /\ UNCHANGED <<header, node>>

\* lower_bucket_limit has an iteration to do: the block sought is larger than
\* the pool, or the pool has nothing left and is not the whole heap.
Growing ==
    /\ pc = "search"
    /\ \/ bucket < bucket_limit
       \/ bucket = bucket_limit /\ bucket # 0 /\ buckets[bucket] = <<>>
\* After the second call site the right half is popped without a check.
AfterGrowth == IF bucket < bucket_limit THEN "search" ELSE "pop"

\* The pool is one free block: replace it by one twice its size.
GrowFree ==
    /\ Growing
    /\ ~parent_is_split(root)
    /\ bucket_limit' = bucket_limit - 1
    /\ buckets' = [buckets EXCEPT
                     ![bucket_limit] = list_remove(@, 0),
                     ![bucket_limit - 1] = <<0>>]
    /\ pc' = AfterGrowth
    /\ UNCHANGED <<inited, max_ptr, split, header, bucket, orig, node, request>>

\* The pool is in use: it becomes the left half of the new pool, the right
\* half is free, and the bit above the new root says that the root is in use.
Faulty_MarkGrandparent == UNCHANGED split
MarkGrandparent ==
    IF Parent(root) # 0 THEN flip_parent_is_split(Parent(root)) ELSE UNCHANGED split
RightHalf == ptr_for_node(root + 1, bucket_limit)
GrowUsed ==
    /\ Growing
    /\ parent_is_split(root)
    /\ update_max_ptr(RightHalf + 1)
    /\ bucket_limit' = bucket_limit - 1
    /\ buckets' = [buckets EXCEPT
                     ![bucket_limit] = list_push(@, RightHalf),
                     ![bucket_limit - 1] = <<>>]
    /\ MarkGrandparent
    /\ pc' = AfterGrowth
    /\ UNCHANGED <<inited, header, bucket, orig, node, request>>

GrowDenied ==
    /\ Growing
    /\ parent_is_split(root)
    /\ MayFail(RightHalf + 1)
    /\ pc' = "null"
    /\ UNCHANGED <<heap, header, bucket, orig, node, request>>

-----------------------------------------------------------------------------
\* A free block is popped from the end of the list of the bucket.
Popping ==
    \/ pc = "search" /\ bucket >= bucket_limit /\ buckets[bucket] # <<>>
    \/ pc = "pop" /\ buckets[bucket] # <<>>
Popped == Last(buckets[bucket])
\* No room for the list node of the right half.
Faulty_BreakNeededNoNode ==
    Popped + (IF bucket < orig THEN Size(bucket) \div 2 ELSE Size(bucket))
\* A block to be split needs memory up to the list node of its right half.
BreakNeeded == Popped + (IF bucket < orig THEN Size(bucket) \div 2 + 1 ELSE Size(bucket))

Pop ==
    /\ Popping
    /\ update_max_ptr(BreakNeeded)
    /\ buckets' = [buckets EXCEPT ![bucket] = Front(@)]
    /\ node' = node_for_ptr(Popped, bucket)
    /\ IF node' # 0 THEN flip_parent_is_split(node') ELSE UNCHANGED split
    /\ pc' = "carve"
    /\ UNCHANGED <<inited, bucket_limit, header, bucket, orig, request>>

\* sbrk failed: the block is pushed back.
PopDenied ==
    /\ Popping
    /\ MayFail(BreakNeeded)
    /\ buckets' = [buckets EXCEPT ![bucket] = list_push(Front(@), Popped)]
    /\ pc' = "null"
    /\ UNCHANGED <<inited, max_ptr, bucket_limit, split, header, bucket, orig, node, request>>

Faulty_NextLarger == bucket
NextLarger == bucket - 1
\* Nothing free in this bucket: try the next larger one.
NextBucket ==
    /\ pc = "search" /\ bucket >= bucket_limit /\ buckets[bucket] = <<>>
    /\ bucket # bucket_limit
    /\ bucket' = NextLarger
    /\ UNCHANGED <<heap, header, pc, orig, node, request>>

\* bucket wraps below 0 and the loop ends: the heap has no block to give.
Exhausted ==
    /\ pc = "search" /\ bucket = 0 /\ bucket_limit = 0 /\ buckets[0] = <<>>
ReturnExhausted ==
    /\ Exhausted
    /\ pc' = "idle"
    /\ UNCHANGED <<heap, header, bucket, orig, node, request>>

ReturnDenied ==
    /\ pc = "null"
    /\ pc' = "idle"
    /\ UNCHANGED <<heap, header, bucket, orig, node, request>>

\* The block is larger than needed: keep its left half, free its right half.
Split ==
    /\ pc = "carve" /\ bucket < orig
    /\ node' = Left(node)
    /\ bucket' = bucket + 1
    /\ flip_parent_is_split(node')
    /\ buckets' = [buckets EXCEPT ![bucket'] = list_push(@, ptr_for_node(node' + 1, bucket'))]
    /\ UNCHANGED <<inited, max_ptr, bucket_limit, header, pc, orig, request>>

\* The header is written and the block handed to the caller.
ReturnBlock ==
    /\ pc = "carve" /\ bucket = orig
    /\ header' = [p \in DOMAIN header \union {ptr_for_node(node, bucket)} |->
                    IF p = ptr_for_node(node, bucket) THEN request ELSE header[p]]
    /\ pc' = "idle"
    /\ UNCHANGED <<heap, bucket, orig, node, request>>

-----------------------------------------------------------------------------
\* free_1 is called for a block the caller holds; the bucket is computed from
\* the request in its header.
Free(p) ==
    /\ pc = "idle"
    /\ \E b \in Buckets : /\ IsBucketFor(b, Need(header[p]))
                          /\ bucket' = b
                          /\ node' = node_for_ptr(p, b)
    /\ header' = [q \in DOMAIN header \ {p} |-> header[q]]
    /\ pc' = "merge"
    /\ UNCHANGED <<heap, orig, request>>

Faulty_PushFreed(i, b) == UNCHANGED buckets     \* the block is lost
PushFreed(i, b) == buckets' = [buckets EXCEPT ![b] = list_push(@, ptr_for_node(i, b))]

\* The buddy is in use or the block is the pool: merging ends.
Faulty_StopsMerging == bucket >= bucket_limit               \* never merges
Faulty_StopsMergingTooLate == Parent(node) \in split'       \* merges the pool
StopsMerging == Parent(node) \in split' \/ bucket = bucket_limit

FreeStop ==
    /\ pc = "merge" /\ node # 0
    /\ flip_parent_is_split(node)
    /\ StopsMerging
    /\ PushFreed(node, bucket)
    /\ pc' = "idle"
    /\ UNCHANGED <<inited, max_ptr, bucket_limit, header, bucket, orig, node, request>>

\* The buddy is free: unlink it and go on with the parent.
BuddyPtr == ptr_for_node(Buddy(node), bucket)
Merge ==
    /\ pc = "merge" /\ node # 0
    /\ flip_parent_is_split(node)
    /\ ~StopsMerging
    /\ buckets' = [buckets EXCEPT ![bucket] = list_remove(@, BuddyPtr)]
    /\ node' = Parent(node)
    /\ bucket' = bucket - 1
    /\ UNCHANGED <<inited, max_ptr, bucket_limit, header, pc, orig, request>>

\* The block is the whole heap.
FreeAll ==
    /\ pc = "merge" /\ node = 0
    /\ PushFreed(node, bucket)
    /\ pc' = "idle"
    /\ UNCHANGED <<inited, max_ptr, bucket_limit, split, header, bucket, orig, node, request>>

-----------------------------------------------------------------------------
Step ==
    \/ GrowFree \/ GrowUsed \/ GrowDenied
    \/ Pop \/ PopDenied \/ NextBucket \/ ReturnExhausted \/ ReturnDenied
    \/ Split \/ ReturnBlock
    \/ FreeStop \/ Merge \/ FreeAll
Next ==
    \/ \E n \in Requests : Malloc(n)
    \/ \E p \in DOMAIN header : Free(p)
    \/ Step

Spec == Init /\ [][Next]_vars
\* A call that was made runs.
FairSpec == Spec /\ WF_vars(Step)
-----------------------------------------------------------------------------
\* Values of the state.
TypeOK ==
    /\ inited \in BOOLEAN
    /\ max_ptr \in 0 .. Units
    /\ bucket_limit \in Buckets
    /\ buckets \in [Buckets -> Seq(0 .. Units - 1)]
    /\ split \subseteq Internal
    /\ DOMAIN header \subseteq 0 .. Units - 1
    /\ \A p \in DOMAIN header : header[p] \in Requests
    /\ pc \in {"idle", "search", "pop", "carve", "null", "merge"}
    /\ bucket \in Buckets /\ orig \in Buckets
    /\ node \in Nodes
    /\ request \in Requests \union {0}

\* The blocks there are: free, held by the caller, and in the hands of the call.
FreeBlocks == UNION {{<<p, b>> : p \in ToSet(buckets[b])} : b \in Buckets}
LiveBlocks == {x \in (DOMAIN header) \X Buckets : IsBucketFor(x[2], Need(header[x[1]]))}
CallBlock  == IF pc \in {"carve", "merge"} THEN {<<ptr_for_node(node, bucket), bucket>>} ELSE {}
Blocks == FreeBlocks \union LiveBlocks \union CallBlock

\* No unit is in two blocks: nothing handed out, listed as free or being split
\* or merged overlaps anything else, and no block is listed twice.  (Every list
\* operation and every pointer computation of malloc_1 and free_1.)
BlocksDisjoint ==
    /\ \A x, y \in Blocks : x # y => Span(x[1], x[2]) \intersect Span(y[1], y[2]) = {}
    /\ FreeBlocks \intersect LiveBlocks = {} /\ CallBlock \intersect (FreeBlocks \union LiveBlocks) = {}
    /\ \A b \in Buckets : IsInjective(buckets[b])

\* Nothing is lost: at every step the blocks cover the pool and only the pool,
\* the bytes below Size(bucket_limit) (lower_bucket_limit, the split loop of
\* malloc_1 and the merge loop of free_1 keep the count).
PoolCovered ==
    inited => UNION {Span(x[1], x[2]) : x \in Blocks} = 0 .. Size(bucket_limit) - 1

\* A node is in use when it is held or lies above a block (it was split).
InUse(i, b) ==
    \E x \in Blocks :
        /\ x[1] \in Span(ptr_for_node(i, b), b)
        /\ x[2] > b \/ (x[2] = b /\ x \in LiveBlocks)

\* Between calls the bit of a node says that exactly one of its children is
\* in use, and the bit above the root that the root is (the comment at
\* buddy_malloc.c:48-49 and the reliance of lower_bucket_limit on it).
SplitBitsExact ==
    pc = "idle" /\ inited =>
        \A b \in 0 .. Smallest - 1 : \A i \in LevelOf(b) :
            (i \in split) <=>
                IF b >= bucket_limit \/ ptr_for_node(i, b) # 0
                THEN InUse(Left(i), b + 1) # InUse(Right(i), b + 1)
                ELSE b = bucket_limit - 1 /\ InUse(root, bucket_limit)

\* Between calls no two buddies are both free: free_1 merged all it could.
FullyMerged ==
    pc = "idle" =>
        \A x \in FreeBlocks : x[2] > bucket_limit =>
            <<ptr_for_node(Buddy(node_for_ptr(x[1], x[2])), x[2]), x[2]>> \notin FreeBlocks

\* The lists hold what the code takes from them without a look.  list_remove is called
\* only on an entry that is linked where the code expects it: the base block when the
\* pool grows, the buddy when it merges.  After the pool was doubled for lack of a free
\* block the second list_pop does find one ("guaranteed", buddy_malloc.c:202).
ListsServe ==
    /\ Growing /\ ~parent_is_split(root) => Contains(buckets[bucket_limit], 0)
    /\ pc = "merge" /\ node # 0 /\ Parent(node) \in split /\ bucket # bucket_limit
          => Contains(buckets[bucket], BuddyPtr)
    /\ pc = "pop" => buckets[bucket] # <<>>

\* The memory behind a block was obtained from sbrk: all of a block the caller
\* holds, the list node of a free one (the two cases marked ??? at
\* buddy_malloc.c:215-219).  The list node at the base is exempt while the only
\* growth that was tried is the first, whose failure malloc_1 ignores.
MemoryObtained ==
    /\ \A x \in LiveBlocks : x[1] + Size(x[2]) <= max_ptr
    /\ max_ptr = 0 \/ \A x \in FreeBlocks : x[1] < max_ptr

\* Every call of malloc_1 and free_1 returns.
CallReturns == pc # "idle" ~> pc = "idle"

\* A request above MAX_ALLOC is refused (buddy_malloc.c:153-156).
OversizeRefused == \A p \in DOMAIN header : header[p] <= MAX_ALLOC

\* malloc_1 and free_1 implement the heap their caller sees.
H_NoRequest == -1
LiveRecords == {[at |-> x[1], size |-> Size(x[2])] : x \in LiveBlocks}
H == INSTANCE Heap WITH
        HeapUnits <- Units, UnitBytes <- MIN_ALLOC,
        BlockSizes <- {Size(b) : b \in Buckets},
        Overhead <- HEADER_SIZE, RequestSizes <- Requests,
        live <- LiveRecords,
        asked <- IF pc \in {"search", "pop", "carve", "null"} THEN request ELSE H_NoRequest,
        denied <- pc = "null"
ImplementsHeap == H!Spec
=============================================================================
