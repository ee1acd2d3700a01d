---------------------------- MODULE BuddyMalloc2 ----------------------------
(***************************************************************************)
(* malloc_2 and free_2 of src/buddy_alloc/src/buddy_malloc_2.c, the        *)
(* allocator main.c drives.  It keeps no header: two bits per node, packed *)
(* four nodes to a byte, say whether the node is UNUSED, SPLIT or USED,    *)
(* and free_2 finds the size of a block in them.  The counts kept in these *)
(* bits are incremented and decremented in place, so that a field that     *)
(* passes 3 or 0 carries into its neighbours.                              *)
(*                                                                         *)
(* Steps as in BuddyMalloc1.  "undefined" is where the code's behaviour    *)
(* is: an index far outside node_status, or an entry unlinked from a list  *)
(* it is not in.  The rest of the process uses the break as well: printf   *)
(* and calloc between two calls (main.c:29) may move it (Foreign).         *)
(*                                                                         *)
(* A definition named Faulty_X is X with a plausible bug; no specification *)
(* uses it, it serves to show that the properties notice the bug.          *)
(***************************************************************************)
EXTENDS BuddyTree, FiniteSets

CONSTANTS
    Requests,       \* the sizes, in bytes, callers ask for
    FreesLast,      \* whether a caller may free the only block it holds
    ForeignMax      \* units the rest of the process may take from the break

ASSUME BuddyMalloc2Assumption ==
    /\ Requests \subseteq 0 .. WordSize - 1
    /\ FreesLast \in BOOLEAN
    /\ ForeignMax \in Nat

VARIABLES
    inited,         \* base_ptr # NULL
    max_ptr,        \* the break as the allocator believes it, in units
    bucket_limit,   \* the pool is the leftmost block of this bucket
    buckets,        \* the free lists, one per bucket
    node_status,    \* the bytes of the status fields
    foreign,        \* units above base_ptr the rest of the process owns
    live,           \* what the caller holds: address -> bucket it was given
    pc, bucket, orig, node, up

heap == <<inited, max_ptr, bucket_limit, buckets, node_status>>
call == <<pc, bucket, orig, node, up>>
vars == <<heap, foreign, live, call>>

UNUSED == 0
SPLIT  == 1
USED   == 2

\* The two bits of node i in the bytes ns: node i has two bits of byte i / 4,
\* the first node of a byte the top ones.
One(i) == 4 ^ (3 - (i % 4))
Field(ns, i) == (ns[i \div 4] \div One(i)) % 4
get_node_status(i) == Field(node_status, i)

\* Adding n to the field of node i is an addition to its byte.
AddTo(ns, i, n) == [ns EXCEPT ![i \div 4] = (@ + n * One(i)) % 256]
parent_inc_status(ns, i) == AddTo(ns, Parent(i), 1)
parent_dec_status(ns, i) == AddTo(ns, Parent(i), -1)
Faulty_node_set_status(ns, i, st) == AddTo(ns, i, st)   \* the field is not cleared
node_set_status(ns, i, st) == AddTo(ns, i, st - Field(ns, i))

root == node_for_ptr(0, bucket_limit)
update_max_ptr(new) == max_ptr' = IF new > max_ptr THEN new ELSE max_ptr
MayFail(new) == new > max_ptr

\* A list node is unlinked from whichever list it is in.
Linked(p) == \E b \in Buckets : Contains(buckets[b], p)
Unlinked(p) == [b \in Buckets |-> list_remove(buckets[b], p)]

-----------------------------------------------------------------------------
Init ==
    /\ inited = FALSE
    /\ max_ptr = 0
    /\ bucket_limit = 0
    /\ buckets = [b \in Buckets |-> <<>>]
    /\ node_status = [k \in 0 .. Pow2[BUCKET_COUNT] \div 4 - 1 |-> 0]
    /\ foreign = {}
    /\ live = [p \in {} |-> 0]
    /\ pc = "idle" /\ bucket = 0 /\ orig = 0 /\ node = 0 /\ up = 0

\* The first call makes the heap one smallest block; the result of sbrk is not
\* looked at.
Setup ==
    IF inited
    THEN UNCHANGED heap
    ELSE /\ inited' = TRUE
         /\ max_ptr' \in {0, 1}
         /\ bucket_limit' = Smallest
         /\ buckets' = [buckets EXCEPT ![Smallest] = <<0>>]
         /\ UNCHANGED node_status

\* malloc_2 is called; a request above MAX_ALLOC returns NULL at once.
Malloc(n) ==
    /\ pc = "idle"
    /\ n <= MAX_ALLOC
    /\ Setup
    /\ \E b \in Buckets : IsBucketFor(b, n) /\ bucket' = b /\ orig' = b
    /\ pc' = "search"
    /\ UNCHANGED <<foreign, live, node, up>>

\* lower_bucket_limit has an iteration to do, for one of its two callers.
Growing ==
    /\ pc = "search"
    /\ \/ bucket < bucket_limit
       \/ bucket = bucket_limit /\ bucket # 0 /\ buckets[bucket] = <<>>
AfterGrowth == IF bucket < bucket_limit THEN "search" ELSE "pop"

\* The root is UNUSED, so the pool is taken to be one free block.
GrowFree ==
    /\ Growing
    /\ get_node_status(root) = UNUSED
    /\ IF Linked(0)
       THEN /\ bucket_limit' = bucket_limit - 1
            /\ buckets' = [Unlinked(0) EXCEPT ![bucket_limit - 1] = <<0>>]
            /\ pc' = AfterGrowth
       ELSE /\ pc' = "undefined"
            /\ UNCHANGED <<bucket_limit, buckets>>
    /\ UNCHANGED <<inited, max_ptr, node_status, foreign, live, bucket, orig, node, up>>

\* The root is in use: the new root is SPLIT and its right half free.  The
\* increment of the grandparent is commented out in the source.
RightHalf == ptr_for_node(root + 1, bucket_limit)
GrownStatus == node_set_status(node_status, Parent(root), SPLIT)
GrowUsed ==
    /\ Growing
    /\ get_node_status(root) # UNUSED
    /\ update_max_ptr(RightHalf + 1)
    /\ node_status' = GrownStatus
    /\ bucket_limit' = bucket_limit - 1
    /\ buckets' = [buckets EXCEPT
                     ![bucket_limit] = list_push(@, RightHalf),
                     ![bucket_limit - 1] = <<>>]
    /\ pc' = AfterGrowth
    /\ UNCHANGED <<inited, foreign, live, bucket, orig, node, up>>

GrowDenied ==
    /\ Growing
    /\ get_node_status(root) # UNUSED
    /\ MayFail(RightHalf + 1)
    /\ pc' = "null"
    /\ UNCHANGED <<heap, foreign, live, bucket, orig, node, up>>

-----------------------------------------------------------------------------
\* A free block is popped from the end of the list of the bucket.
Popping ==
    /\ pc = "pop" \/ (pc = "search" /\ bucket >= bucket_limit)
    /\ buckets[bucket] # <<>>
Popped == Last(buckets[bucket])
\* No room for the list node of the right half; one unit too many.
Faulty_BreakNeededTooMuch == Popped + Size(bucket) + 1
Faulty_BreakNeeded == Popped + (IF bucket < orig THEN Size(bucket) \div 2 ELSE Size(bucket))
BreakNeeded == Popped + (IF bucket < orig THEN Size(bucket) \div 2 + 1 ELSE Size(bucket))

Pop ==
    /\ Popping
    /\ update_max_ptr(BreakNeeded)
    /\ buckets' = [buckets EXCEPT ![bucket] = Front(@)]
    /\ node' = node_for_ptr(Popped, bucket)
    /\ node_status' = IF node' = 0 THEN node_status ELSE parent_inc_status(node_status, node')
    /\ pc' = "carve"
    /\ UNCHANGED <<inited, bucket_limit, foreign, live, bucket, orig, up>>

\* sbrk failed: the block is pushed back.
PopDenied ==
    /\ Popping
    /\ MayFail(BreakNeeded)
    /\ buckets' = [buckets EXCEPT ![bucket] = list_push(Front(@), Popped)]
    /\ pc' = "null"
    /\ UNCHANGED <<inited, max_ptr, bucket_limit, node_status, foreign, live, bucket, orig, node, up>>

Faulty_NextLarger == bucket
NextLarger == bucket - 1
\* Nothing free in this bucket: try the next larger one.
NextBucket ==
    /\ pc = "search" /\ bucket > bucket_limit /\ buckets[bucket] = <<>>
    /\ bucket' = NextLarger
    /\ UNCHANGED <<heap, foreign, live, pc, orig, node, up>>

\* bucket wraps below 0 and the loop ends: the heap has no block to give.
Exhausted == pc = "search" /\ bucket = 0 /\ bucket_limit = 0 /\ buckets[0] = <<>>
ReturnNull ==
    /\ Exhausted \/ pc = "null"
    /\ pc' = "idle"
    /\ UNCHANGED <<heap, foreign, live, bucket, orig, node, up>>

\* The block is larger than needed: keep its left half, free its right half.
Split ==
    /\ pc = "carve" /\ bucket < orig
    /\ node' = Left(node)
    /\ bucket' = bucket + 1
    /\ node_status' = parent_inc_status(node_status, node')
    /\ buckets' = [buckets EXCEPT ![bucket'] = list_push(@, ptr_for_node(node' + 1, bucket'))]
    /\ UNCHANGED <<inited, max_ptr, bucket_limit, foreign, live, pc, orig, up>>

\* The block becomes USED, and the walk that marks its ancestors starts.  From
\* the block that is the whole heap it starts at index (0 - 1) / 2 of size_t.
MarkBlock ==
    /\ pc = "carve" /\ bucket = orig
    /\ node_status' = node_set_status(node_status, node, USED)
    /\ up' = IF node = 0 THEN 0 ELSE Parent(node)
    /\ pc' = IF node = 0 THEN "undefined" ELSE "mark"
    /\ UNCHANGED <<inited, max_ptr, bucket_limit, buckets, foreign, live, bucket, orig, node>>

BothUsed(i) == get_node_status(Left(i)) = USED /\ get_node_status(Right(i)) = USED
MarkAncestor ==
    /\ pc = "mark" /\ up # 0 /\ BothUsed(up)
    /\ node_status' = node_set_status(node_status, up, USED)
    /\ up' = Parent(up)
    /\ UNCHANGED <<inited, max_ptr, bucket_limit, buckets, foreign, live, pc, bucket, orig, node>>

ReturnBlock ==
    /\ pc = "mark" /\ (up = 0 \/ ~BothUsed(up))
    /\ live' = [p \in DOMAIN live \union {ptr_for_node(node, bucket)} |->
                    IF p = ptr_for_node(node, bucket) THEN bucket ELSE live[p]]
    /\ pc' = "idle"
    /\ UNCHANGED <<heap, foreign, bucket, orig, node, up>>

-----------------------------------------------------------------------------
\* The deepest bucket in which the node at p is USED, or -1.
bucket_for_alloced_pointer(p) ==
    LET used == {b \in bucket_limit .. Smallest : get_node_status(node_for_ptr(p, b)) = USED}
    IN  IF used = {} THEN -1 ELSE Max(used)

\* free_2 is called for a block the caller holds.
Free(p) ==
    /\ pc = "idle"
    /\ FreesLast \/ DOMAIN live # {p}
    /\ live' = [q \in DOMAIN live \ {p} |-> live[q]]
    /\ LET b == bucket_for_alloced_pointer(p) IN
       IF b = -1
       THEN pc' = "undefined" /\ UNCHANGED <<bucket, node>>
       ELSE pc' = "merge" /\ bucket' = b /\ node' = node_for_ptr(p, b)
    /\ UNCHANGED <<heap, foreign, orig, up>>

Faulty_PushFreed(i, b) == UNCHANGED buckets     \* the block is lost
PushFreed(i, b) == buckets' = [buckets EXCEPT ![b] = list_push(@, ptr_for_node(i, b))]
Cleared == node_set_status(node_status, node, UNUSED)

\* The buddy is not UNUSED or the block is the pool: merging ends.
StopsMerging == Field(Cleared, Buddy(node)) # UNUSED \/ bucket = bucket_limit
FreeStop ==
    /\ pc = "merge" /\ node # 0
    /\ StopsMerging
    /\ node_status' = parent_dec_status(Cleared, node)
    /\ PushFreed(node, bucket)
    /\ pc' = "idle"
    /\ UNCHANGED <<inited, max_ptr, bucket_limit, foreign, live, bucket, orig, node, up>>

\* The buddy is UNUSED: unlink it and go on with the parent.
BuddyPtr == ptr_for_node(Buddy(node), bucket)
Merge ==
    /\ pc = "merge" /\ node # 0
    /\ ~StopsMerging
    /\ node_status' = Cleared
    /\ IF Linked(BuddyPtr)
       THEN /\ buckets' = Unlinked(BuddyPtr)
            /\ node' = Parent(node)
            /\ bucket' = bucket - 1
            /\ UNCHANGED pc
       ELSE /\ pc' = "undefined"
            /\ UNCHANGED <<buckets, node, bucket>>
    /\ UNCHANGED <<inited, max_ptr, bucket_limit, foreign, live, orig, up>>

\* The block is the whole heap.
FreeAll ==
    /\ pc = "merge" /\ node = 0
    /\ PushFreed(node, bucket)
    /\ pc' = "idle"
    /\ UNCHANGED <<inited, max_ptr, bucket_limit, node_status, foreign, live, bucket, orig, node, up>>

\* The rest of the process takes the unit at the break, which has gone up by
\* what the allocator asked for and by what was taken before.
Foreign ==
    /\ pc = "idle" /\ inited
    /\ Cardinality(foreign) < ForeignMax
    /\ foreign' = foreign \union {max_ptr + Cardinality(foreign)}
    /\ UNCHANGED <<heap, live, call>>

-----------------------------------------------------------------------------
Step ==
    \/ GrowFree \/ GrowUsed \/ GrowDenied
    \/ Pop \/ PopDenied \/ NextBucket \/ ReturnNull
    \/ Split \/ MarkBlock \/ MarkAncestor \/ ReturnBlock
    \/ FreeStop \/ Merge \/ FreeAll
Next ==
    \/ \E n \in Requests : Malloc(n)
    \/ \E p \in DOMAIN live : Free(p)
    \/ Foreign
    \/ Step

Spec == Init /\ [][Next]_vars
\* A call that was made runs.
FairSpec == Spec /\ WF_vars(Step)
-----------------------------------------------------------------------------
\* Values of the state.
TypeOK ==
    /\ inited \in BOOLEAN
    /\ max_ptr \in 0 .. Units
    /\ bucket_limit \in Buckets
    /\ buckets \in [Buckets -> Seq(0 .. Units - 1)]
    /\ node_status \in [0 .. Pow2[BUCKET_COUNT] \div 4 - 1 -> 0 .. 255]
    /\ foreign \subseteq 0 .. Units + ForeignMax - 1
    /\ DOMAIN live \subseteq 0 .. Units - 1
    /\ \A p \in DOMAIN live : live[p] \in Buckets
    /\ pc \in {"idle", "search", "pop", "carve", "mark", "null", "merge", "undefined"}
    /\ bucket \in Buckets /\ orig \in Buckets
    /\ node \in Nodes /\ up \in Nodes

\* The blocks there are: free, held by the caller, and in the hands of the call.
FreeBlocks == UNION {{<<p, b>> : p \in ToSet(buckets[b])} : b \in Buckets}
LiveBlocks == {<<p, live[p]>> : p \in DOMAIN live}
CallBlock ==
    IF pc \in {"carve", "mark", "merge"} THEN {<<ptr_for_node(node, bucket), bucket>>} ELSE {}
Blocks == FreeBlocks \union LiveBlocks \union CallBlock

\* No unit is in two blocks.
BlocksDisjoint ==
    /\ \A x, y \in Blocks : x # y => Span(x[1], x[2]) \intersect Span(y[1], y[2]) = {}
    /\ FreeBlocks \intersect LiveBlocks = {} /\ CallBlock \intersect (FreeBlocks \union LiveBlocks) = {}
    /\ \A b \in Buckets : IsInjective(buckets[b])

\* The blocks cover the pool and only the pool.
PoolCovered ==
    inited => UNION {Span(x[1], x[2]) : x \in Blocks} = 0 .. Size(bucket_limit) - 1

\* Between calls free_2 would find the size malloc_2 gave each block.
StatusTellsSize ==
    pc = "idle" => \A p \in DOMAIN live : bucket_for_alloced_pointer(p) = live[p]

\* "If the root is UNUSED, all the space is free" (buddy_malloc_2.c:153), which
\* lower_bucket_limit relies on.
UnusedRootIsFree ==
    Growing /\ get_node_status(root) = UNUSED => LiveBlocks = {}

\* Blocks of every power of two up to MAX_ALLOC can be allocated
\* (buddy_malloc_2.c:19): no call ends in undefined behaviour.
Defined == pc # "undefined"

\* update_max_ptr leaves the whole range below max_ptr usable
\* (buddy_malloc_2.c:67-69): no block holds memory of the rest of the process.
RangeIsOurs == \A x \in LiveBlocks : Span(x[1], x[2]) \intersect foreign = {}

\* The memory behind a block was obtained from sbrk: all of a block the caller
\* holds, the list node of a free one.  The list node at the base is exempt while
\* the only growth that was tried is the first, whose failure malloc_2 ignores.
MemoryObtained ==
    /\ \A x \in LiveBlocks : x[1] + Size(x[2]) <= max_ptr
    /\ max_ptr = 0 \/ \A x \in FreeBlocks : x[1] < max_ptr

\* Every call of malloc_2 and free_2 returns.
CallReturns == pc # "idle" ~> pc = "idle"

\* malloc_2 and free_2 implement the heap their caller sees (size is kept, the
\* bytes asked for are those of the bucket).
LiveRecords == {[at |-> x[1], size |-> Size(x[2])] : x \in LiveBlocks}
asking == IF pc \in {"search", "pop", "carve", "mark", "null"} THEN Bytes(orig) ELSE -1
H == INSTANCE Heap WITH
        HeapUnits <- Units, UnitBytes <- MIN_ALLOC,
        BlockSizes <- {Size(b) : b \in Buckets},
        Overhead <- 0, RequestSizes <- {Bytes(b) : b \in Buckets},
        live <- LiveRecords,
        asked <- asking,
        denied <- pc = "null"
ImplementsHeap == H!Spec
=============================================================================
