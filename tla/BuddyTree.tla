------------------------------ MODULE BuddyTree ------------------------------
(***************************************************************************)
(* The linearised binary tree both allocators of src/buddy_alloc share:    *)
(* node indexes, buckets, addresses and the intrusive free lists.          *)
(*                                                                         *)
(* Bucket b holds the nodes of depth b; bucket 0 is the whole heap and     *)
(* bucket BUCKET_COUNT - 1 the smallest blocks.  Addresses are offsets     *)
(* from base_ptr counted in MIN_ALLOC units, which loses nothing: every    *)
(* address the allocators compute is a multiple of MIN_ALLOC (the list     *)
(* node they store in a free block, sizeof(struct list_t) = 16 bytes, is   *)
(* one unit).  Requests and block sizes seen by a caller are in bytes.     *)
(***************************************************************************)
EXTENDS Integers, Sequences, SequencesExt

CONSTANTS
    BUCKET_COUNT,   \* depth of the tree, 28 in the source
    Pow2,           \* Pow2[k] is 1 << k
    MIN_ALLOC,      \* bytes of the smallest block, 16 in the source
    WordSize        \* SIZE_MAX + 1: size_t sums are taken modulo WordSize

ASSUME BuddyTreeAssumption ==
    /\ BUCKET_COUNT \in Nat /\ BUCKET_COUNT >= 2
    /\ Pow2 \in [0 .. BUCKET_COUNT -> Nat \ {0}]
    /\ Pow2[0] = 1 /\ Pow2[1] = 2
    /\ \A j, k \in 0 .. BUCKET_COUNT : j + k <= BUCKET_COUNT => Pow2[j + k] = Pow2[j] * Pow2[k]
    /\ MIN_ALLOC \in Nat \ {0}
    /\ WordSize \in Nat /\ WordSize > MIN_ALLOC * Pow2[BUCKET_COUNT - 1]

Buckets  == 0 .. BUCKET_COUNT - 1
Smallest == BUCKET_COUNT - 1

\* Units of a block of bucket b: 1 << (MAX_ALLOC_LOG2 - b).
Size(b) == Pow2[Smallest - b]
Units   == Pow2[Smallest]
Bytes(b) == MIN_ALLOC * Size(b)
MAX_ALLOC == Bytes(0)

\* The nodes of the tree, and those that have children.
Nodes    == 0 .. Pow2[BUCKET_COUNT] - 2
Internal == 0 .. Pow2[Smallest] - 2

Parent(i) == (i - 1) \div 2
Left(i)   == 2 * i + 1
Right(i)  == 2 * i + 2
\* ((i - 1) ^ 1) + 1: left children are odd.
Buddy(i)  == IF i % 2 = 1 THEN i + 1 ELSE i - 1

ptr_for_node(i, b) == (i - Pow2[b] + 1) * Size(b)
node_for_ptr(p, b) == (p \div Size(b)) + Pow2[b] - 1
LevelOf(b) == (Pow2[b] - 1) .. (2 * Pow2[b] - 2)

\* bucket_for_request(n) is b: the blocks of bucket b hold n bytes and those of
\* the next smaller size do not.
IsBucketFor(b, n) == n <= Bytes(b) /\ (b # Smallest => Bytes(b + 1) < n)

\* The units of the block of bucket b at p.
Span(p, b) == p .. (p + Size(b) - 1)

-----------------------------------------------------------------------------
\* list.c: push and pop work at the end of a list; list_remove unlinks an
\* entry from the list that holds it.
list_push(s, p) == Append(s, p)
Faulty_list_remove(s, p) == s   \* the entry stays linked
list_remove(s, p) ==
    IF Contains(s, p) THEN RemoveAt(s, CHOOSE k \in DOMAIN s : s[k] = p) ELSE s
=============================================================================
