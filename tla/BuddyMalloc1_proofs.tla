------------------------- MODULE BuddyMalloc1_proofs -------------------------
(***************************************************************************)
(* Proofs about BuddyMalloc1, for every depth of the tree, header size and *)
(* set of requests.  IInv says where blocks may lie: each list holds only  *)
(* addresses where a block of its bucket begins and whose list node is     *)
(* backed by memory, a held block is backed to its end, and the node the   *)
(* call works on belongs to its bucket.  BInv, the second part, says that  *)
(* the blocks tile the pool and the bits are exact.                        *)
(***************************************************************************)
EXTENDS BuddyMalloc1, BuddyTree_proofs

\* Where a free block of bucket b may begin when the break is at max: the
\* base needs no memory, as the result of the first sbrk is ignored.
Room(b, max) == {p \in Starts(b) : p = 0 \/ p < max}

FreePlaced == \A b \in Buckets : buckets[b] \in Seq(Room(b, max_ptr))

\* A held block p is of bucket b.
Holds(p, b) ==
    /\ IsBucketFor(b, Need(header[p]))
    /\ p \in Starts(b)
    /\ p + Size(b) <= max_ptr
LivePlaced == \A p \in DOMAIN header : \E b \in Buckets : b >= bucket_limit /\ Holds(p, b)

\* What malloc_1 works on: the bucket it seeks fits the request, and the block
\* it splits is backed as far as it needs.
Reach == IF bucket < orig THEN Size(bucket) \div 2 + 1 ELSE Size(bucket)
MallocPlaced ==
    /\ pc \in {"search", "pop", "carve"} =>
          request \in Requests /\ IsBucketFor(orig, Need(request)) /\ bucket <= orig
    /\ pc \in {"pop", "carve"} => bucket >= bucket_limit
    /\ pc = "carve" => node \in LevelOf(bucket) /\ ptr_for_node(node, bucket) + Reach <= max_ptr

\* What free_1 works on.
FreePlacedCall ==
    pc = "merge" =>
        /\ node \in LevelOf(bucket) /\ bucket >= bucket_limit
        /\ ptr_for_node(node, bucket) < max_ptr

Fresh == ~inited => pc = "idle" /\ max_ptr = 0 /\ header = [p \in {} |-> 0]

IInv == TypeOK /\ FreePlaced /\ LivePlaced /\ MallocPlaced /\ FreePlacedCall /\ Fresh

-----------------------------------------------------------------------------
\* Requests and the sizes compared with them are numbers.
LEMMA NeedNat == \A n \in Requests : Need(n) \in Nat
  BY BuddyMalloc1Assumption, BuddyTreeAssumption DEF Need

\* A list that is in place stays in place when the break moves up.
LEMMA RoomGrows ==
  ASSUME NEW b \in Buckets, NEW m \in Nat, NEW n \in Nat, m <= n
  PROVE  /\ Room(b, m) \subseteq Room(b, n)
         /\ Seq(Room(b, m)) \subseteq Seq(Room(b, n))
         /\ 0 \in Room(b, m)
<1>1. \A p \in Starts(b) : p \in Nat
  BY StartInHeap
<1>2. Room(b, m) \subseteq Room(b, n)
  BY <1>1 DEF Room
<1>3. 0 \in Starts(b)
  <2>1. 0 = 0 * Size(b) /\ 0 \in 0 .. Pow2[b] - 1
    BY Positive
  <2> QED
    BY <2>1 DEF Starts
<1>4. Seq(Room(b, m)) \subseteq Seq(Room(b, n))
  BY <1>2, SeqOfMore
<1> QED
  BY <1>2, <1>3, <1>4 DEF Room

\* Lists in place are lists of addresses in the heap.
LEMMA RoomInHeap ==
  ASSUME NEW b \in Buckets, NEW m \in Nat
  PROVE  /\ Room(b, m) \subseteq 0 .. Units - 1
         /\ Seq(Room(b, m)) \subseteq Seq(0 .. Units - 1)
<1>1. \A p \in Starts(b) : p \in Nat /\ p + Size(b) <= Units
  BY StartInHeap
<1>2. Room(b, m) \subseteq 0 .. Units - 1
  BY <1>1, Positive DEF Room
<1>3. Seq(Room(b, m)) \subseteq Seq(0 .. Units - 1)
  BY <1>2, SeqOfMore
<1> QED
  BY <1>2, <1>3

\* The initial state.
LEMMA InitIInv == Init => IInv
<1> SUFFICES ASSUME Init PROVE IInv
  OBVIOUS
<1> USE DEF Init
<1>1. TypeOK
  <2>1. Smallest \in Buckets /\ 0 \in Buckets /\ Units \in Nat \ {0}
    BY Positive DEF Buckets
  <2>2. 0 \in Nodes
    BY <2>1, LevelNodes, Halving DEF LevelOf
  <2> QED
    BY <2>1, <2>2 DEF TypeOK
<1>2. FreePlaced /\ LivePlaced /\ MallocPlaced /\ FreePlacedCall /\ Fresh
  BY DEF FreePlaced, LivePlaced, MallocPlaced, FreePlacedCall, Fresh
<1> QED
  BY <1>1, <1>2 DEF IInv

-----------------------------------------------------------------------------
LEMMA Numbers ==
  ASSUME IInv
  PROVE  /\ max_ptr \in Nat /\ Units \in Nat /\ max_ptr <= Units
         /\ bucket_limit \in Nat /\ bucket \in Nat /\ orig \in Nat /\ Smallest \in Nat
         /\ bucket_limit <= Smallest /\ bucket <= Smallest /\ orig <= Smallest
  BY Positive DEF IInv, TypeOK, Buckets, Smallest

\* The parts of IInv about lists and held blocks survive a step that keeps the
\* held blocks, grows the break or the pool, and replaces lists by lists in place.
LEMMA ListsIInv ==
  ASSUME IInv, header' = header, max_ptr' \in Nat, max_ptr <= max_ptr',
         bucket_limit' \in Buckets, bucket_limit' <= bucket_limit,
         buckets' \in [Buckets -> Seq(0 .. Units - 1)],
         \A b \in Buckets : buckets'[b] \in Seq(Room(b, max_ptr'))
  PROVE  FreePlaced' /\ LivePlaced'
<1>1. FreePlaced'
  BY DEF FreePlaced
<1>2. ASSUME NEW p \in DOMAIN header'
      PROVE  \E b \in Buckets : b >= bucket_limit' /\ Holds(p, b)'
  <2>1. PICK b \in Buckets : b >= bucket_limit /\ Holds(p, b)
    BY <1>2 DEF IInv, LivePlaced
  <2>2. p \in Nat /\ Size(b) \in Nat /\ b \in Nat
    BY <2>1, StartInHeap, Positive DEF Holds
  <2>3. bucket_limit' \in Nat
    BY DEF Buckets
  <2>4. p + Size(b) <= max_ptr' /\ b >= bucket_limit'
    BY <2>1, <2>2, <2>3, Numbers DEF Holds
  <2> QED
    BY <2>1, <2>4 DEF Holds
<1> QED
  BY <1>1, <1>2 DEF LivePlaced

\* A list that replaces that of bucket b, with the others unchanged.
LEMMA OneList ==
  ASSUME IInv, NEW b \in Buckets, max_ptr' \in 0 .. Units, max_ptr <= max_ptr',
         NEW s \in Seq(Room(b, max_ptr')), buckets' = [buckets EXCEPT ![b] = s]
  PROVE  /\ buckets' \in [Buckets -> Seq(0 .. Units - 1)]
         /\ \A c \in Buckets : buckets'[c] \in Seq(Room(c, max_ptr'))
<1>1. max_ptr \in Nat /\ max_ptr' \in Nat /\ Units \in Nat
  BY Positive DEF IInv, TypeOK
<1>2. buckets \in [Buckets -> Seq(0 .. Units - 1)]
  BY DEF IInv, TypeOK
<1>3. \A c \in Buckets : buckets[c] \in Seq(Room(c, max_ptr'))
  BY <1>1, RoomGrows DEF IInv, FreePlaced
<1>4. \A c \in Buckets : buckets'[c] \in Seq(Room(c, max_ptr'))
  BY <1>2, <1>3
<1>5. s \in Seq(0 .. Units - 1)
  BY <1>1, RoomInHeap
<1> QED
  BY <1>2, <1>4, <1>5

-----------------------------------------------------------------------------
\* One lemma per action: it preserves the inductive invariant.
LEMMA MallocIInv == ASSUME IInv, NEW n \in Requests, Malloc(n) PROVE IInv'
<1> USE DEF Malloc
<1>1. Need(n) \in Nat
  BY NeedNat
<1>2. bucket' \in Buckets /\ orig' = bucket' /\ IsBucketFor(orig', Need(n)) /\ request' = n
  OBVIOUS
<1>3. Units \in Nat \ {0} /\ Smallest \in Buckets
  BY Positive
<1>4. /\ inited' \in BOOLEAN /\ max_ptr' \in 0 .. Units /\ max_ptr <= max_ptr'
      /\ split' = split /\ inited' = TRUE /\ bucket_limit' \in Buckets
      /\ buckets' \in [Buckets -> Seq(0 .. Units - 1)]
      /\ \A b \in Buckets : buckets'[b] \in Seq(Room(b, max_ptr'))
  <2>1. CASE inited
    BY <2>1 DEF Setup, heap, IInv, TypeOK, FreePlaced
  <2>2. CASE ~inited
    <3>1. /\ inited' = TRUE /\ max_ptr = 0 /\ max_ptr' \in {0, 1} /\ split' = split
          /\ bucket_limit' = Smallest /\ buckets' = [buckets EXCEPT ![Smallest] = <<0>>]
      BY <2>2 DEF Setup, heap, IInv, Fresh
    <3>2. max_ptr' \in 0 .. Units /\ max_ptr <= max_ptr'
      BY <3>1, <1>3
    <3>3. 0 \in Room(Smallest, max_ptr')
      BY <3>2, <1>3, RoomGrows
    <3>4. <<0>> \in Seq(Room(Smallest, max_ptr'))
      BY <3>3
    <3> QED
      BY <3>1, <3>2, <3>4, <1>3, OneList
  <2> QED
    BY <2>1, <2>2
<1>5. TypeOK'
  BY <1>2, <1>4 DEF IInv, TypeOK
<1>6. FreePlaced' /\ LivePlaced'
  <2>1. CASE inited
    BY <2>1, <1>4 DEF Setup, heap, IInv, FreePlaced, LivePlaced, Holds
  <2>2. CASE ~inited
    BY <2>2, <1>4 DEF IInv, Fresh, FreePlaced, LivePlaced
  <2> QED
    BY <2>1, <2>2
<1>7. MallocPlaced' /\ FreePlacedCall' /\ Fresh'
  BY <1>2, <1>4 DEF MallocPlaced, FreePlacedCall, Fresh, Buckets
<1> QED
  BY <1>5, <1>6, <1>7 DEF IInv

LEMMA FreeIInv == ASSUME IInv, NEW p \in DOMAIN header, Free(p) PROVE IInv'
<1> USE DEF Free
<1>1. PICK b \in Buckets : b >= bucket_limit /\ Holds(p, b)
  BY DEF IInv, LivePlaced
<1>2. Need(header[p]) \in Nat
  BY NeedNat DEF IInv, TypeOK
<1>3. bucket' = b /\ node' = node_for_ptr(p, b)
  BY <1>1, <1>2, OneBucket DEF Holds
<1>4. node' \in LevelOf(b) /\ ptr_for_node(node', b) = p
  BY <1>1, <1>3, NodeOfPtr DEF Holds
<1>5. p \in Nat /\ Size(b) \in Nat \ {0} /\ p < max_ptr
  BY <1>1, StartInHeap, Positive, Numbers DEF Holds
<1>6. \A q \in DOMAIN header' : q \in DOMAIN header /\ header'[q] = header[q]
  OBVIOUS
<1>7. TypeOK'
  <2>1. node' \in Nodes
    BY <1>1, <1>4, LevelNodes
  <2> QED
    BY <2>1, <1>1, <1>3, <1>6 DEF IInv, TypeOK, heap
<1>8. FreePlaced' /\ LivePlaced'
  BY <1>6 DEF IInv, FreePlaced, LivePlaced, Holds, heap
<1>9. MallocPlaced' /\ FreePlacedCall'
  BY <1>1, <1>3, <1>4, <1>5 DEF MallocPlaced, FreePlacedCall, heap
<1>10. Fresh'
  BY DEF IInv, Fresh, heap
<1> QED
  BY <1>7, <1>8, <1>9, <1>10 DEF IInv

LEMMA GrowFreeIInv == ASSUME IInv, GrowFree PROVE IInv'
<1> USE DEF GrowFree
<1>1. bucket_limit # 0 /\ bucket <= bucket_limit /\ bucket_limit' = bucket_limit - 1
      /\ pc = "search"
  BY Numbers DEF Growing
<1>2. bucket_limit' \in Buckets /\ bucket_limit' <= bucket_limit
  BY <1>1, Numbers DEF Buckets, Smallest
<1>3. /\ buckets' \in [Buckets -> Seq(0 .. Units - 1)]
      /\ \A b \in Buckets : buckets'[b] \in Seq(Room(b, max_ptr'))
  <2>1. max_ptr' = max_ptr /\ max_ptr \in Nat
    BY Numbers
  <2>2. buckets \in [Buckets -> Seq(0 .. Units - 1)] /\ bucket_limit \in Buckets
    BY DEF IInv, TypeOK
  <2>3. \A b \in Buckets : buckets[b] \in Seq(Room(b, max_ptr))
    BY DEF IInv, FreePlaced
  <2>4. list_remove(buckets[bucket_limit], 0) \in Seq(Room(bucket_limit, max_ptr))
    BY <2>2, <2>3, Lists
  <2>5. <<0>> \in Seq(Room(bucket_limit - 1, max_ptr))
    BY <1>1, <1>2, <2>1, RoomGrows
  <2>6. \A b \in Buckets : buckets'[b] \in Seq(Room(b, max_ptr))
    BY <2>2, <2>3, <2>4, <2>5
  <2>7. \A b \in Buckets : buckets'[b] \in Seq(0 .. Units - 1)
    BY <2>1, <2>6, RoomInHeap
  <2> QED
    BY <2>1, <2>2, <2>6, <2>7
<1>4. FreePlaced' /\ LivePlaced'
  <2>1. header' = header /\ max_ptr' \in Nat /\ max_ptr <= max_ptr'
    BY Numbers
  <2> QED
    BY <1>2, <1>3, <2>1, ListsIInv
<1>5. TypeOK'
  BY <1>2, <1>3 DEF IInv, TypeOK, AfterGrowth
<1>6. MallocPlaced' /\ FreePlacedCall' /\ Fresh'
  BY <1>1, Numbers DEF IInv, MallocPlaced, FreePlacedCall, Fresh, AfterGrowth
<1> QED
  BY <1>4, <1>5, <1>6 DEF IInv

\* The break never goes down, and not past what it is moved for.
LEMMA BreakMoves ==
  ASSUME IInv, NEW m \in 0 .. Units, update_max_ptr(m)
  PROVE  max_ptr' \in 0 .. Units /\ max_ptr' \in Nat /\ max_ptr <= max_ptr' /\ m <= max_ptr'
  BY Numbers DEF update_max_ptr

\* Flipping the bit above a node that is not the root of the tree.
LEMMA FlipInternal ==
  ASSUME IInv, NEW b \in Buckets, b # 0, NEW i \in LevelOf(b)
  PROVE  Flip(split, Parent(i)) \subseteq Internal
<1>1. Parent(i) \in Internal
  BY ParentOf
<1>2. split \subseteq Internal
  BY DEF IInv, TypeOK
<1> QED
  BY <1>1, <1>2 DEF Flip

LEMMA GrowUsedIInv == ASSUME IInv, GrowUsed PROVE IInv'
<1> USE DEF GrowUsed
<1>1. bucket_limit # 0 /\ bucket <= bucket_limit /\ bucket_limit' = bucket_limit - 1
      /\ pc = "search"
  BY Numbers DEF Growing
<1>2. bucket_limit' \in Buckets /\ bucket_limit' <= bucket_limit /\ bucket_limit \in Buckets
  BY <1>1, Numbers DEF Buckets, Smallest
<1>3. root \in LevelOf(bucket_limit) /\ root + 1 \in LevelOf(bucket_limit)
      /\ RightHalf \in Starts(bucket_limit)
  <2>1. 0 \in Starts(bucket_limit) /\ root \in LevelOf(bucket_limit)
        /\ ptr_for_node(root, bucket_limit) = 0
    BY <1>2, RoomGrows, NodeOfPtr DEF Room, root
  <2>2. 0 \div Size(bucket_limit) = 0
    BY <1>2, Positive, ExactQuotient
  <2>3. root = Pow2[bucket_limit] - 1
    BY <2>2, <1>2, Positive DEF root, node_for_ptr
  <2>4. bucket_limit - 1 \in 0 .. BUCKET_COUNT - 1 /\ (bucket_limit - 1) + 1 = bucket_limit
        /\ bucket_limit - 1 \in Buckets
    BY <1>1, <1>2, Numbers DEF Buckets
  <2>5. Pow2[(bucket_limit - 1) + 1] = 2 * Pow2[bucket_limit - 1] /\ Pow2[bucket_limit - 1] \in Nat \ {0}
    BY <2>4, Halving, Positive
  <2>6. root + 1 \in LevelOf(bucket_limit)
    BY <2>3, <2>4, <2>5 DEF LevelOf
  <2> QED
    BY <2>1, <2>6, <1>2, PtrOfNode DEF RightHalf
<1>4. RightHalf \in Nat /\ RightHalf + 1 \in 0 .. Units
  <2>1. RightHalf \in Nat /\ RightHalf + Size(bucket_limit) <= Units
        /\ Size(bucket_limit) \in Nat \ {0}
    BY <1>2, <1>3, StartInHeap, Positive
  <2> QED
    BY <2>1, Numbers
<1>5. max_ptr' \in 0 .. Units /\ max_ptr' \in Nat /\ max_ptr <= max_ptr' /\ RightHalf < max_ptr'
  <2>1. max_ptr' \in 0 .. Units /\ max_ptr' \in Nat /\ max_ptr <= max_ptr' /\ RightHalf + 1 <= max_ptr'
    BY <1>4, BreakMoves
  <2> QED
    BY <2>1, <1>4
<1>6. /\ buckets' \in [Buckets -> Seq(0 .. Units - 1)]
      /\ \A b \in Buckets : buckets'[b] \in Seq(Room(b, max_ptr'))
  <2>1. buckets \in [Buckets -> Seq(0 .. Units - 1)]
    BY DEF IInv, TypeOK
  <2>2. \A b \in Buckets : buckets[b] \in Seq(Room(b, max_ptr'))
    BY <1>5, RoomGrows, Numbers DEF IInv, FreePlaced
  <2>3. RightHalf \in Room(bucket_limit, max_ptr')
    BY <1>3, <1>5 DEF Room
  <2>4. list_push(buckets[bucket_limit], RightHalf) \in Seq(Room(bucket_limit, max_ptr'))
    BY <1>2, <2>2, <2>3, Lists
  <2>5. \A b \in Buckets : buckets'[b] \in Seq(Room(b, max_ptr'))
    BY <1>1, <1>2, <2>1, <2>2, <2>4
  <2>6. \A b \in Buckets : buckets'[b] \in Seq(0 .. Units - 1)
    BY <1>5, <2>5, RoomInHeap
  <2> QED
    BY <2>1, <2>5, <2>6
<1>7. split' \subseteq Internal
  <2>1. Parent(root) \in LevelOf(bucket_limit - 1) /\ bucket_limit - 1 \in Buckets
    BY <1>1, <1>2, <1>3, ParentOf
  <2>2. CASE Parent(root) = 0
    BY <2>2 DEF MarkGrandparent, IInv, TypeOK
  <2>3. CASE Parent(root) # 0
    <3>1. bucket_limit - 1 # 0
      BY <2>1, <2>3, LevelNodes
    <3>2. split' = Flip(split, Parent(Parent(root)))
      BY <2>3 DEF MarkGrandparent, flip_parent_is_split
    <3> QED
      BY <2>1, <3>1, <3>2, FlipInternal
  <2> QED
    BY <2>2, <2>3
<1>8. FreePlaced' /\ LivePlaced'
  BY <1>2, <1>5, <1>6, ListsIInv
<1>9. TypeOK'
  BY <1>2, <1>5, <1>6, <1>7 DEF IInv, TypeOK, AfterGrowth
<1>10. MallocPlaced' /\ FreePlacedCall' /\ Fresh'
  BY <1>1, Numbers DEF IInv, MallocPlaced, FreePlacedCall, Fresh, AfterGrowth
<1> QED
  BY <1>8, <1>9, <1>10 DEF IInv

LEMMA PopIInv == ASSUME IInv, Pop PROVE IInv'
<1> USE DEF Pop
<1>1. bucket >= bucket_limit /\ buckets[bucket] # <<>> /\ pc \in {"search", "pop"} /\ bucket <= orig
      /\ bucket \in Buckets
  BY DEF Popping, IInv, MallocPlaced, TypeOK
<1>2. Popped \in Starts(bucket) /\ Front(buckets[bucket]) \in Seq(Room(bucket, max_ptr))
  BY <1>1, Lists DEF Popped, IInv, FreePlaced, Room
<1>3. node' \in LevelOf(bucket) /\ ptr_for_node(node', bucket) = Popped
  BY <1>1, <1>2, NodeOfPtr
<1>4. BreakNeeded \in 0 .. Units /\ BreakNeeded = Popped + Reach
  <2>1. Popped \in Nat /\ Popped + Size(bucket) <= Units /\ Size(bucket) \in Nat \ {0}
    BY <1>1, <1>2, StartInHeap, Positive
  <2>2. bucket < orig => Size(bucket) = 2 * Size(bucket + 1) /\ Size(bucket + 1) \in Nat \ {0}
    BY <1>1, Halving, Positive, Numbers
  <2>3. bucket < orig => Size(bucket) \div 2 + 1 \in Nat /\ Size(bucket) \div 2 + 1 <= Size(bucket)
    BY <2>2
  <2>4. Reach \in Nat /\ Reach <= Size(bucket)
    BY <2>1, <2>3 DEF Reach
  <2>5. BreakNeeded = Popped + Reach
    BY DEF BreakNeeded, Reach
  <2> QED
    BY <2>1, <2>4, <2>5, Numbers
<1>5. max_ptr' \in 0 .. Units /\ max_ptr' \in Nat /\ max_ptr <= max_ptr' /\ Popped + Reach <= max_ptr'
  BY <1>4, BreakMoves
<1>6. /\ buckets' \in [Buckets -> Seq(0 .. Units - 1)]
      /\ \A b \in Buckets : buckets'[b] \in Seq(Room(b, max_ptr'))
  <2>1. Front(buckets[bucket]) \in Seq(Room(bucket, max_ptr'))
    BY <1>1, <1>2, <1>5, Numbers, RoomGrows
  <2> QED
    BY <1>1, <1>5, <2>1, OneList
<1>7. split' \subseteq Internal
  <2>1. node' # 0 => bucket # 0
    BY <1>1, <1>3, LevelNodes
  <2> QED
    BY <2>1, <1>1, <1>3, FlipInternal DEF flip_parent_is_split, IInv, TypeOK
<1>8. FreePlaced' /\ LivePlaced'
  <2>1. bucket_limit' \in Buckets /\ bucket_limit' <= bucket_limit /\ header' = header
    BY Numbers DEF IInv, TypeOK
  <2> QED
    BY <2>1, <1>5, <1>6, ListsIInv
<1>9. TypeOK'
  <2>1. node' \in Nodes
    BY <1>1, <1>3, LevelNodes
  <2> QED
    BY <2>1, <1>5, <1>6, <1>7 DEF IInv, TypeOK
<1>10. MallocPlaced' /\ FreePlacedCall' /\ Fresh'
  BY <1>1, <1>3, <1>5 DEF IInv, MallocPlaced, FreePlacedCall, Fresh, Reach
<1> QED
  BY <1>8, <1>9, <1>10 DEF IInv

\* Steps that touch neither lists nor held blocks nor the tree.
LEMMA LocalIInv ==
  ASSUME IInv, GrowDenied \/ NextBucket \/ ReturnExhausted \/ ReturnDenied
  PROVE  IInv'
<1>1. UNCHANGED <<inited, max_ptr, bucket_limit, buckets, split, header, orig, node, request>>
  BY DEF GrowDenied, NextBucket, ReturnExhausted, ReturnDenied, heap
<1>2. inited /\ bucket' \in Buckets /\ bucket' <= bucket
      /\ pc' \in {"search", "null", "idle"} /\ (pc' = "search" => pc = "search")
  <2>1. inited /\ bucket \in Buckets
    BY DEF GrowDenied, NextBucket, ReturnExhausted, ReturnDenied, Growing, Exhausted,
           IInv, Fresh, TypeOK
  <2>2. CASE NextBucket
    <3>1. bucket' = bucket - 1 /\ bucket # bucket_limit /\ bucket >= bucket_limit
          /\ pc = "search" /\ pc' = pc
      BY <2>2 DEF NextBucket, NextLarger
    <3>2. bucket \in 0 .. BUCKET_COUNT - 1 /\ BUCKET_COUNT \in Nat /\ bucket_limit \in Nat
      BY <2>1, Positive, Numbers DEF Buckets
    <3>3. bucket - 1 \in 0 .. BUCKET_COUNT - 1 /\ bucket - 1 <= bucket
      BY <3>1, <3>2
    <3> QED
      BY <2>1, <3>1, <3>3 DEF Buckets
  <2>3. CASE GrowDenied \/ ReturnExhausted \/ ReturnDenied
    BY <2>1, <2>3, Numbers DEF GrowDenied, ReturnExhausted, ReturnDenied
  <2> QED
    BY <2>2, <2>3
<1>3. TypeOK' /\ FreePlaced' /\ LivePlaced'
  BY <1>1, <1>2 DEF IInv, TypeOK, FreePlaced, LivePlaced, Holds
<1>4. MallocPlaced' /\ FreePlacedCall' /\ Fresh'
  <2>1. bucket' \in Nat
    BY <1>2 DEF Buckets
  <2> QED
    BY <1>1, <1>2, <2>1, Numbers DEF IInv, MallocPlaced, FreePlacedCall, Fresh
<1> QED
  BY <1>3, <1>4 DEF IInv

LEMMA PopDeniedIInv == ASSUME IInv, PopDenied PROVE IInv'
<1> USE DEF PopDenied
<1>1. buckets[bucket] # <<>> /\ bucket \in Buckets /\ inited
  BY DEF Popping, IInv, TypeOK, Fresh
<1>2. max_ptr' \in 0 .. Units /\ max_ptr' \in Nat /\ max_ptr <= max_ptr' /\ max_ptr' = max_ptr
  BY Numbers DEF IInv, TypeOK
<1>3. Front(buckets[bucket]) \in Seq(Room(bucket, max_ptr)) /\ Popped \in Room(bucket, max_ptr)
  BY <1>1, Lists DEF IInv, FreePlaced, Popped
<1>4. list_push(Front(buckets[bucket]), Popped) \in Seq(Room(bucket, max_ptr'))
  BY <1>2, <1>3, Lists
<1>5. /\ buckets' \in [Buckets -> Seq(0 .. Units - 1)]
      /\ \A b \in Buckets : buckets'[b] \in Seq(Room(b, max_ptr'))
  BY <1>1, <1>2, <1>4, OneList
<1>6. FreePlaced' /\ LivePlaced'
  <2>1. bucket_limit' \in Buckets /\ bucket_limit' <= bucket_limit /\ header' = header
    BY Numbers DEF IInv, TypeOK
  <2> QED
    BY <2>1, <1>2, <1>5, ListsIInv
<1>7. TypeOK' /\ MallocPlaced' /\ FreePlacedCall' /\ Fresh'
  BY <1>1, <1>5 DEF IInv, TypeOK, MallocPlaced, FreePlacedCall, Fresh
<1> QED
  BY <1>6, <1>7 DEF IInv

LEMMA SplitIInv == ASSUME IInv, Split PROVE IInv'
<1> USE DEF Split
<1>1. /\ bucket < orig /\ bucket >= bucket_limit /\ bucket \in Buckets /\ bucket # Smallest
      /\ node \in LevelOf(bucket)
      /\ ptr_for_node(node, bucket) + (Size(bucket) \div 2 + 1) <= max_ptr
  <2>1. bucket < orig /\ pc = "carve"
    OBVIOUS
  <2> QED
    BY <2>1, Numbers DEF IInv, MallocPlaced, TypeOK, Reach
<1>2. /\ bucket' = bucket + 1 /\ bucket' \in Buckets /\ bucket' <= orig /\ bucket' >= bucket_limit
      /\ bucket' # 0
      /\ Size(bucket) = 2 * Size(bucket') /\ Size(bucket') \in Nat \ {0}
  BY <1>1, Halving, Positive, Numbers
<1>3. /\ node' \in LevelOf(bucket') /\ node' + 1 \in LevelOf(bucket')
      /\ ptr_for_node(node', bucket') = ptr_for_node(node, bucket)
      /\ ptr_for_node(node' + 1, bucket') = ptr_for_node(node, bucket) + Size(bucket')
  <2>1. node \in Nat /\ Right(node) = Left(node) + 1
    BY <1>1, LevelNodes DEF Left, Right
  <2> QED
    BY <1>1, <1>2, <2>1, ChildrenOf
<1>4. ptr_for_node(node, bucket) \in Nat
  BY <1>1, PtrOfNode, StartInHeap
<1>5. ptr_for_node(node, bucket) + Size(bucket') + 1 <= max_ptr
  BY <1>1, <1>2, <1>4, Numbers
<1>6. /\ buckets' \in [Buckets -> Seq(0 .. Units - 1)]
      /\ \A b \in Buckets : buckets'[b] \in Seq(Room(b, max_ptr'))
  <2>1. ptr_for_node(node' + 1, bucket') \in Room(bucket', max_ptr)
    BY <1>2, <1>3, <1>4, <1>5, PtrOfNode, Numbers DEF Room
  <2>2. list_push(buckets[bucket'], ptr_for_node(node' + 1, bucket')) \in Seq(Room(bucket', max_ptr'))
    BY <1>2, <2>1, Lists DEF IInv, FreePlaced
  <2>3. max_ptr' \in 0 .. Units /\ max_ptr <= max_ptr'
    BY Numbers
  <2> QED
    BY <1>2, <2>2, <2>3, OneList
<1>7. FreePlaced' /\ LivePlaced'
  <2>1. /\ bucket_limit' \in Buckets /\ bucket_limit' <= bucket_limit /\ header' = header
        /\ max_ptr' \in Nat /\ max_ptr <= max_ptr'
    BY Numbers DEF IInv, TypeOK
  <2> QED
    BY <2>1, <1>6, ListsIInv
<1>8. TypeOK'
  <2>1. node' \in Nodes
    BY <1>2, <1>3, LevelNodes
  <2>2. split' \subseteq Internal
    BY <1>2, <1>3, FlipInternal DEF flip_parent_is_split
  <2> QED
    BY <1>2, <1>6, <2>1, <2>2 DEF IInv, TypeOK
<1>9. MallocPlaced' /\ FreePlacedCall' /\ Fresh'
  <2>1. Reach' <= Size(bucket') + 1 /\ Reach' \in Nat
    <3>1. Size(bucket') \div 2 + 1 <= Size(bucket') + 1 /\ Size(bucket') \div 2 + 1 \in Nat
      BY <1>2
    <3> QED
      BY <3>1, <1>2 DEF Reach
  <2>2. ptr_for_node(node', bucket') + Reach' <= max_ptr
    BY <1>3, <1>4, <1>5, <1>2, <2>1, Numbers
  <2> QED
    BY <1>2, <1>3, <2>2 DEF IInv, MallocPlaced, FreePlacedCall, Fresh
<1> QED
  BY <1>7, <1>8, <1>9 DEF IInv

LEMMA ReturnBlockIInv == ASSUME IInv, ReturnBlock PROVE IInv'
<1> USE DEF ReturnBlock
<1> DEFINE q == ptr_for_node(node, bucket)
<1>1. /\ bucket \in Buckets /\ bucket >= bucket_limit /\ node \in LevelOf(bucket)
      /\ q + Size(bucket) <= max_ptr
      /\ request \in Requests /\ IsBucketFor(bucket, Need(request)) /\ inited
  <2>1. pc = "carve" /\ bucket = orig
    OBVIOUS
  <2>2. Reach = Size(bucket)
    BY <2>1, Numbers DEF Reach
  <2> QED
    BY <2>1, <2>2 DEF IInv, MallocPlaced, TypeOK, Fresh
<1>2. q \in Starts(bucket) /\ q \in 0 .. Units - 1
  <2>1. q \in Starts(bucket)
    BY <1>1, PtrOfNode
  <2>2. q \in Nat /\ q + Size(bucket) <= Units /\ Size(bucket) \in Nat \ {0}
    BY <1>1, <2>1, StartInHeap, Positive
  <2> QED
    BY <2>1, <2>2, Numbers
<1>3. /\ DOMAIN header' = DOMAIN header \union {q}
      /\ header'[q] = request
      /\ \A p \in DOMAIN header : p # q => header'[p] = header[p]
  OBVIOUS
<1>4. TypeOK'
  BY <1>2, <1>3, <1>1 DEF IInv, TypeOK, heap
<1>5. FreePlaced' /\ MallocPlaced' /\ FreePlacedCall' /\ Fresh'
  BY <1>1 DEF IInv, FreePlaced, MallocPlaced, FreePlacedCall, Fresh, heap
<1>6. ASSUME NEW p \in DOMAIN header'
      PROVE  \E b \in Buckets : b >= bucket_limit' /\ Holds(p, b)'
  <2>1. CASE p = q
    BY <2>1, <1>1, <1>2, <1>3 DEF Holds, heap
  <2>2. CASE p # q
    <3>1. p \in DOMAIN header /\ header'[p] = header[p]
      BY <2>2, <1>3, <1>6
    <3>2. PICK b \in Buckets : b >= bucket_limit /\ Holds(p, b)
      BY <3>1 DEF IInv, LivePlaced
    <3> QED
      BY <3>1, <3>2 DEF Holds, heap
  <2> QED
    BY <2>1, <2>2
<1> QED
  BY <1>4, <1>5, <1>6 DEF IInv, LivePlaced

\* What free_1 works on while it merges: a block backed by memory at its start.
LEMMA MergeNode ==
  ASSUME IInv, pc = "merge"
  PROVE  /\ bucket \in Buckets /\ bucket >= bucket_limit /\ node \in LevelOf(bucket)
         /\ (node = 0 <=> bucket = 0) /\ inited
         /\ ptr_for_node(node, bucket) \in Room(bucket, max_ptr)
<1>1. bucket \in Buckets /\ bucket >= bucket_limit /\ node \in LevelOf(bucket) /\ inited
      /\ ptr_for_node(node, bucket) < max_ptr
  BY DEF IInv, TypeOK, FreePlacedCall, Fresh
<1> QED
  BY <1>1, LevelNodes, PtrOfNode DEF Room

LEMMA PushFreedIInv ==
  ASSUME IInv, pc = "merge", PushFreed(node, bucket), UNCHANGED <<header, max_ptr, bucket_limit>>
  PROVE  /\ FreePlaced' /\ LivePlaced'
         /\ buckets' \in [Buckets -> Seq(0 .. Units - 1)]
<1>1. max_ptr' \in 0 .. Units /\ max_ptr' \in Nat /\ max_ptr <= max_ptr' /\ max_ptr' = max_ptr
  BY Numbers
<1>2. list_push(buckets[bucket], ptr_for_node(node, bucket)) \in Seq(Room(bucket, max_ptr'))
  BY <1>1, MergeNode, Lists DEF IInv, FreePlaced
<1>3. /\ buckets' \in [Buckets -> Seq(0 .. Units - 1)]
      /\ \A b \in Buckets : buckets'[b] \in Seq(Room(b, max_ptr'))
  BY <1>1, <1>2, MergeNode, OneList DEF PushFreed
<1>4. bucket_limit' \in Buckets /\ bucket_limit' <= bucket_limit /\ header' = header
  BY Numbers DEF IInv, TypeOK
<1> QED
  BY <1>1, <1>3, <1>4, ListsIInv

LEMMA FreeStopIInv == ASSUME IInv, FreeStop \/ FreeAll PROVE IInv'
<1>1. pc = "merge" /\ PushFreed(node, bucket) /\ pc' = "idle"
      /\ UNCHANGED <<inited, max_ptr, bucket_limit, header, bucket, orig, node, request>>
  BY DEF FreeStop, FreeAll
<1>2. split' \subseteq Internal
  <2>1. CASE FreeStop
    <3>1. node # 0 /\ split' = Flip(split, Parent(node))
      BY <2>1 DEF FreeStop, flip_parent_is_split
    <3> QED
      BY <1>1, <3>1, MergeNode, FlipInternal
  <2>2. CASE FreeAll
    BY <2>2 DEF FreeAll, IInv, TypeOK
  <2> QED
    BY <2>1, <2>2
<1>3. /\ FreePlaced' /\ LivePlaced'
      /\ buckets' \in [Buckets -> Seq(0 .. Units - 1)]
  BY <1>1, PushFreedIInv
<1>4. TypeOK'
  BY <1>1, <1>2, <1>3 DEF IInv, TypeOK
<1>5. MallocPlaced' /\ FreePlacedCall' /\ Fresh'
  BY <1>1, MergeNode DEF MallocPlaced, FreePlacedCall, Fresh
<1> QED
  BY <1>3, <1>4, <1>5 DEF IInv

LEMMA MergeIInv == ASSUME IInv, Merge PROVE IInv'
<1> USE DEF Merge
<1>1. /\ bucket \in Buckets /\ bucket # 0 /\ bucket > bucket_limit /\ inited
      /\ node \in LevelOf(bucket)
  <2>1. bucket # bucket_limit
    BY DEF StopsMerging
  <2> QED
    BY <2>1, MergeNode, Numbers
<1>2. /\ bucket' \in Buckets /\ bucket' >= bucket_limit
      /\ node' \in LevelOf(bucket') /\ ptr_for_node(node', bucket') < max_ptr
  <2>1. /\ bucket - 1 \in Buckets /\ Parent(node) \in LevelOf(bucket - 1)
        /\ ptr_for_node(Parent(node), bucket - 1) <= ptr_for_node(node, bucket)
    BY <1>1, ParentOf
  <2>2. ptr_for_node(node, bucket) \in Nat /\ ptr_for_node(Parent(node), bucket - 1) \in Nat
    BY <1>1, <2>1, PtrOfNode, StartInHeap
  <2>3. ptr_for_node(node, bucket) < max_ptr
    BY DEF IInv, FreePlacedCall
  <2> QED
    BY <1>1, <2>1, <2>2, <2>3, Numbers
<1>3. max_ptr' \in 0 .. Units /\ max_ptr' \in Nat /\ max_ptr <= max_ptr' /\ max_ptr' = max_ptr
  BY Numbers
<1>4. /\ buckets' \in [Buckets -> Seq(0 .. Units - 1)]
      /\ \A b \in Buckets : buckets'[b] \in Seq(Room(b, max_ptr'))
  <2>1. list_remove(buckets[bucket], BuddyPtr) \in Seq(Room(bucket, max_ptr'))
    BY <1>1, <1>3, Lists DEF IInv, FreePlaced
  <2> QED
    BY <1>1, <1>3, <2>1, OneList
<1>5. FreePlaced' /\ LivePlaced'
  <2>1. bucket_limit' \in Buckets /\ bucket_limit' <= bucket_limit /\ header' = header
    BY Numbers DEF IInv, TypeOK
  <2> QED
    BY <2>1, <1>3, <1>4, ListsIInv
<1>6. TypeOK'
  <2>1. node' \in Nodes
    BY <1>2, LevelNodes
  <2>2. split' \subseteq Internal
    BY <1>1, FlipInternal DEF flip_parent_is_split
  <2> QED
    BY <1>2, <1>4, <2>1, <2>2 DEF IInv, TypeOK
<1>7. MallocPlaced' /\ FreePlacedCall' /\ Fresh'
  BY <1>1, <1>2 DEF MallocPlaced, FreePlacedCall, Fresh
<1> QED
  BY <1>5, <1>6, <1>7 DEF IInv

LEMMA NextIInv == IInv /\ [Next]_vars => IInv'
<1> SUFFICES ASSUME IInv, [Next]_vars PROVE IInv'
  OBVIOUS
<1>1. ASSUME NEW n \in Requests, Malloc(n) PROVE IInv'
  BY <1>1, MallocIInv
<1>2. ASSUME NEW p \in DOMAIN header, Free(p) PROVE IInv'
  BY <1>2, FreeIInv
<1>3. CASE Step
  BY <1>3, GrowFreeIInv, GrowUsedIInv, PopIInv, PopDeniedIInv, LocalIInv, SplitIInv,
     ReturnBlockIInv, FreeStopIInv, MergeIInv DEF Step
<1>4. CASE UNCHANGED vars
  BY <1>4 DEF vars, heap, call, IInv, TypeOK, FreePlaced, LivePlaced, Holds, MallocPlaced, Reach,
              FreePlacedCall, Fresh
<1> QED
  BY <1>1, <1>2, <1>3, <1>4 DEF Next

LEMMA AlwaysIInv == Spec => []IInv
<1> QED
  BY InitIInv, NextIInv, PTL DEF Spec

-----------------------------------------------------------------------------
\* Every variable keeps its type, whatever the tree, the header and the requests:
\* addresses stay in the heap and nodes in the tree (every pointer and index
\* computation of malloc_1 and free_1).
THEOREM TypeCorrect == Spec => []TypeOK
<1>1. IInv => TypeOK
  BY DEF IInv
<1> QED
  BY <1>1, AlwaysIInv, PTL

\* Memory handed out, and the list nodes of free blocks, were obtained from sbrk
\* (update_max_ptr and the amounts malloc_1 and lower_bucket_limit pass to it).
THEOREM Obtained == Spec => []MemoryObtained
<1>1. IInv => MemoryObtained
  <2> SUFFICES ASSUME IInv PROVE MemoryObtained
    OBVIOUS
  <2>1. ASSUME NEW x \in LiveBlocks PROVE x[1] + Size(x[2]) <= max_ptr
    <3>1. x[1] \in DOMAIN header /\ x[2] \in Buckets /\ IsBucketFor(x[2], Need(header[x[1]]))
      BY DEF LiveBlocks
    <3>2. PICK b \in Buckets : Holds(x[1], b)
      BY <3>1 DEF IInv, LivePlaced
    <3>3. Need(header[x[1]]) \in Nat
      BY <3>1, NeedNat DEF IInv, TypeOK
    <3>4. x[2] = b
      BY <3>1, <3>2, <3>3, OneBucket DEF Holds
    <3> QED
      BY <3>2, <3>4 DEF Holds
  <2>2. ASSUME max_ptr # 0, NEW x \in FreeBlocks PROVE x[1] < max_ptr
    <3>1. PICK b \in Buckets : \E p \in ToSet(buckets[b]) : x = <<p, b>>
      BY DEF FreeBlocks
    <3>2. x[1] \in ToSet(buckets[b])
      BY <3>1
    <3>3. buckets[b] \in Seq(Room(b, max_ptr))
      BY DEF IInv, FreePlaced
    <3>4. x[1] \in Room(b, max_ptr)
      BY <3>2, <3>3 DEF ToSet
    <3> QED
      BY <2>2, <3>4, Numbers DEF Room
  <2> QED
    BY <2>1, <2>2 DEF MemoryObtained
<1> QED
  BY <1>1, AlwaysIInv, PTL

-----------------------------------------------------------------------------
(***************************************************************************)
(* malloc_1 and free_1 lose no block and hand out none twice.  The moves   *)
(* of the program are those of BuddyTree_proofs: BInv says that the free   *)
(* blocks, the blocks in somebody's hands and the bits are Sound for the   *)
(* present pool.                                                           *)
(***************************************************************************)
\* What is not free: held by the caller, or by the call that runs.
InHand == LiveBlocks \union CallBlock

Linked == \A b \in Buckets : IsInjective(buckets[b])

BInv ==
    /\ inited => Sound(FreeBlocks, InHand, split, bucket_limit)
    /\ ~inited => split = {} /\ \A b \in Buckets : buckets[b] = <<>>
    /\ LiveBlocks \intersect CallBlock = {}
    /\ Linked
    /\ pc = "pop" => buckets[bucket] # <<>>

-----------------------------------------------------------------------------
\* A block is free when its address is in the list of its bucket.
LEMMA FreeMembers ==
  /\ \A p, b : <<p, b>> \in FreeBlocks <=> b \in Buckets /\ p \in ToSet(buckets[b])
  /\ \A x \in FreeBlocks : x = <<x[1], x[2]>>
<1>1. ASSUME NEW p, NEW b PROVE <<p, b>> \in FreeBlocks <=> b \in Buckets /\ p \in ToSet(buckets[b])
  BY DEF FreeBlocks
<1>2. ASSUME NEW x \in FreeBlocks PROVE x = <<x[1], x[2]>>
  BY DEF FreeBlocks
<1> QED
  BY <1>1, <1>2

\* The members of one list change.
LEMMA MembersChange ==
  ASSUME NEW b \in Buckets, NEW D, NEW A, ToSet(buckets'[b]) = (ToSet(buckets[b]) \ D) \union A,
         \A c \in Buckets : c # b => ToSet(buckets'[c]) = ToSet(buckets[c])
  PROVE  FreeBlocks' = (FreeBlocks \ {<<p, b>> : p \in D}) \union {<<p, b>> : p \in A}
<1>1. \A p, c : <<p, c>> \in FreeBlocks' <=> c \in Buckets /\ p \in ToSet(buckets'[c])
  BY DEF FreeBlocks
<1>2. ASSUME NEW p, NEW c
      PROVE  <<p, c>> \in FreeBlocks' <=> \/ <<p, c>> \in FreeBlocks /\ ~(c = b /\ p \in D)
                                          \/ c = b /\ p \in A
  <2>1. CASE c = b
    BY <2>1, <1>1, FreeMembers
  <2>2. CASE c # b
    BY <2>2, <1>1, FreeMembers
  <2> QED
    BY <2>1, <2>2
<1> DEFINE E == (FreeBlocks \ {<<p, b>> : p \in D}) \union {<<p, b>> : p \in A}
<1>3. \A p, c : <<p, c>> \in FreeBlocks' <=> <<p, c>> \in E
  BY <1>2
<1>4. \A x \in FreeBlocks' : \E p, c : x = <<p, c>>
  BY DEF FreeBlocks
<1>5. \A x \in E : \E p, c : x = <<p, c>>
  BY FreeMembers
<1> HIDE DEF E
<1>6. FreeBlocks' = E
  BY <1>3, <1>4, <1>5
<1> QED
  BY <1>6 DEF E

\* An entry is unlinked,
LEMMA Unlinks ==
  ASSUME IInv, Linked, NEW b \in Buckets, NEW p \in ToSet(buckets[b]), NEW t,
         ToSet(t) = ToSet(buckets[b]) \ {p}, IsInjective(t), buckets' = [buckets EXCEPT ![b] = t]
  PROVE  <<p, b>> \in FreeBlocks /\ FreeBlocks' = FreeBlocks \ {<<p, b>>} /\ Linked'
<1>1. buckets'[b] = t /\ \A c \in Buckets : c # b => buckets'[c] = buckets[c]
  BY DEF IInv, TypeOK
<1>2. FreeBlocks' = (FreeBlocks \ {<<q, b>> : q \in {p}}) \union {<<q, b>> : q \in {}}
  <2>1. ToSet(buckets'[b]) = (ToSet(buckets[b]) \ {p}) \union {}
    BY <1>1
  <2>2. \A c \in Buckets : c # b => ToSet(buckets'[c]) = ToSet(buckets[c])
    BY <1>1
  <2> QED
    BY <2>1, <2>2, MembersChange
<1>3. Linked'
  BY <1>1 DEF Linked
<1> QED
  BY <1>2, <1>3, FreeMembers

\* and an entry is pushed.
LEMMA Links ==
  ASSUME IInv, Linked, NEW b \in Buckets, NEW p \in 0 .. Units - 1, <<p, b>> \notin FreeBlocks,
         buckets' = [buckets EXCEPT ![b] = list_push(buckets[b], p)]
  PROVE  FreeBlocks' = FreeBlocks \union {<<p, b>>} /\ Linked'
<1>1. /\ buckets'[b] = list_push(buckets[b], p)
      /\ \A c \in Buckets : c # b => buckets'[c] = buckets[c]
      /\ buckets[b] \in Seq(0 .. Units - 1)
  BY DEF IInv, TypeOK
<1>2. ToSet(buckets'[b]) = ToSet(buckets[b]) \union {p} /\ IsInjective(buckets'[b])
  <2>1. p \notin ToSet(buckets[b]) /\ IsInjective(buckets[b])
    BY FreeMembers DEF Linked
  <2>2. ToSet(list_push(buckets[b], p)) = ToSet(buckets[b]) \union {p}
        /\ IsInjective(list_push(buckets[b], p))
    <3> DEFINE L == buckets[b]
               S == 0 .. Units - 1
    <3>1. L \in Seq(S) /\ p \in S /\ p \notin ToSet(L) /\ IsInjective(L)
      BY <1>1, <2>1
    <3> HIDE DEF L, S
    <3>2. ToSet(list_push(L, p)) = ToSet(L) \union {p} /\ IsInjective(list_push(L, p))
      BY <3>1, ListPush
    <3> QED
      BY <3>2 DEF L
  <2> QED
    BY <1>1, <2>2
<1>3. FreeBlocks' = (FreeBlocks \ {<<q, b>> : q \in {}}) \union {<<q, b>> : q \in {p}}
  <2>1. ToSet(buckets'[b]) = (ToSet(buckets[b]) \ {}) \union {p}
    BY <1>2
  <2>2. \A c \in Buckets : c # b => ToSet(buckets'[c]) = ToSet(buckets[c])
    BY <1>1
  <2> QED
    BY <2>1, <2>2, MembersChange
<1>4. Linked'
  BY <1>1, <1>2 DEF Linked
<1> QED
  BY <1>3, <1>4

-----------------------------------------------------------------------------
\* The block of the call that runs.
Here == <<ptr_for_node(node, bucket), bucket>>

LEMMA CallHere ==
  ASSUME IInv, pc \in {"carve", "merge"}
  PROVE  /\ CallBlock = {Here} /\ Here \in AllBlocks /\ Here[2] = bucket /\ NodeOf(Here) = node
         /\ Here[1] = ptr_for_node(node, bucket)
         /\ (node = 0 <=> bucket = 0) /\ inited /\ bucket \in Buckets /\ bucket_limit \in Buckets
<1>1. bucket \in Buckets /\ node \in LevelOf(bucket) /\ inited /\ bucket_limit \in Buckets
  BY DEF IInv, TypeOK, MallocPlaced, FreePlacedCall, Fresh
<1>2. Here \in AllBlocks /\ NodeOf(Here) = node
  BY <1>1, BlockOfNode DEF Here
<1>3. node = 0 <=> bucket = 0
  BY <1>1, LevelNodes
<1> QED
  BY <1>1, <1>2, <1>3 DEF Here, CallBlock

LEMMA NoCall == pc \notin {"carve", "merge"} => CallBlock = {} /\ InHand = LiveBlocks
  BY DEF CallBlock, InHand

LEMMA LiveKept == header' = header => LiveBlocks' = LiveBlocks
  BY DEF LiveBlocks

\* The bit that is flipped is the one above the block.
LEMMA FlipsBit ==
  ASSUME NEW x, IF NodeOf(x) # 0 THEN flip_parent_is_split(NodeOf(x)) ELSE UNCHANGED split,
         NodeOf(x) = 0 <=> x[2] = 0
  PROVE  Flipped(split, split', x)
  BY DEF flip_parent_is_split, Flip, Flipped

LEMMA InitBInv == Init => BInv
<1> SUFFICES ASSUME Init PROVE BInv
  OBVIOUS
<1>1. \A b \in Buckets : buckets[b] = <<>>
  BY DEF Init
<1>2. Linked
  BY <1>1 DEF Linked, IsInjective
<1>3. LiveBlocks = {} /\ CallBlock = {} /\ ~inited /\ split = {} /\ pc # "pop"
  BY DEF Init, LiveBlocks, CallBlock
<1> QED
  BY <1>1, <1>2, <1>3 DEF BInv

\* Steps that change no block.
LEMMA LocalBInv ==
  ASSUME IInv, BInv, UNCHANGED <<heap, header>>, pc \notin {"carve", "merge"},
         pc' \notin {"carve", "merge", "pop"}
  PROVE  BInv'
<1>1. CallBlock = {} /\ CallBlock' = {} /\ LiveBlocks' = LiveBlocks /\ FreeBlocks' = FreeBlocks
  BY DEF CallBlock, LiveBlocks, FreeBlocks, heap
<1>2. InHand' = InHand
  BY <1>1 DEF InHand
<1> QED
  BY <1>1, <1>2 DEF BInv, Linked, heap

LEMMA MallocBInv == ASSUME IInv, BInv, NEW n \in Requests, Malloc(n) PROVE BInv'
<1>1. pc = "idle" /\ pc' = "search" /\ header' = header /\ Setup
  BY DEF Malloc
<1>2. CASE inited
  <2>1. UNCHANGED heap
    BY <1>1, <1>2 DEF Setup
  <2> QED
    BY <1>1, <2>1, LocalBInv
<1>3. CASE ~inited
  <2>1. /\ inited' /\ bucket_limit' = Smallest /\ buckets' = [buckets EXCEPT ![Smallest] = <<0>>]
        /\ split' = {}
    BY <1>1, <1>3 DEF Setup, BInv
  <2>2. /\ LiveBlocks' = {} /\ CallBlock' = {}
    <3>1. header' = [p \in {} |-> 0]
      BY <1>1, <1>3 DEF IInv, Fresh
    <3> QED
      BY <3>1, <1>1 DEF LiveBlocks, CallBlock
  <2>3. \A b \in Buckets : buckets'[b] = IF b = Smallest THEN <<0>> ELSE <<>>
    BY <1>3, <2>1 DEF BInv, IInv, TypeOK
  <2>4. Linked'
    BY <2>3 DEF Linked, IsInjective
  <2>5. FreeBlocks' = {Root(Smallest)}
    <3>1. ToSet(<<0>>) = {0} /\ ToSet(<<>>) = {}
      BY DEF ToSet
    <3>2. \A b \in Buckets : ToSet(buckets'[b]) = IF b = Smallest THEN {0} ELSE {}
      BY <2>3, <3>1
    <3> QED
      BY <3>2, Positive DEF FreeBlocks, Root
  <2>6. Sound({Root(Smallest)}, {}, {}, Smallest)
    BY SoundRoot, Positive
  <2>7. InHand' = {}
    BY <2>2 DEF InHand
  <2> QED
    BY <1>1, <2>1, <2>2, <2>4, <2>5, <2>6, <2>7 DEF BInv
<1> QED
  BY <1>2, <1>3

LEMMA PopBInv == ASSUME IInv, BInv, Pop PROVE BInv'
<1>1. /\ buckets[bucket] # <<>> /\ pc \in {"search", "pop"} /\ bucket \in Buckets /\ inited
      /\ bucket_limit \in Buckets
  BY DEF Pop, Popping, IInv, TypeOK, Fresh
<1>2. /\ buckets' = [buckets EXCEPT ![bucket] = Front(buckets[bucket])]
      /\ node' = node_for_ptr(Popped, bucket)
      /\ IF node' # 0 THEN flip_parent_is_split(node') ELSE UNCHANGED split
      /\ pc' = "carve" /\ UNCHANGED <<inited, bucket_limit, header, bucket>>
  BY DEF Pop
<1> DEFINE x == <<Popped, bucket>>
<1>3. /\ Popped \in ToSet(buckets[bucket]) /\ IsInjective(Front(buckets[bucket]))
      /\ ToSet(Front(buckets[bucket])) = ToSet(buckets[bucket]) \ {Popped}
  <2>1. buckets[bucket] \in Seq(0 .. Units - 1) /\ IsInjective(buckets[bucket])
    BY <1>1 DEF IInv, TypeOK, BInv, Linked
  <2> QED
    BY <1>1, <2>1, ListPop DEF Popped
<1>4. x \in FreeBlocks /\ FreeBlocks' = FreeBlocks \ {x} /\ Linked'
  BY <1>1, <1>2, <1>3, Unlinks DEF BInv
<1>5. Sound(FreeBlocks, InHand, split, bucket_limit) /\ InHand = LiveBlocks
  BY <1>1, NoCall DEF BInv
<1>6. x \in AllBlocks /\ x[2] = bucket /\ NodeOf(x) = node'
  BY <1>2, <1>4, <1>5 DEF Sound, Tiling, NodeOf
<1>7. node' \in LevelOf(bucket) /\ ptr_for_node(node', bucket) = Popped
      /\ (node' = 0 <=> bucket = 0)
  BY <1>1, <1>6, NodeOfBlock, LevelNodes
<1>8. CallBlock' = {x} /\ LiveBlocks' = LiveBlocks
  BY <1>2, <1>7, LiveKept DEF CallBlock
<1>9. Flipped(split, split', x)
  BY <1>2, <1>6, <1>7, FlipsBit
<1>10. Sound(FreeBlocks', InHand \union {x}, split', bucket_limit)
  BY <1>1, <1>4, <1>5, <1>9, SoundTake
<1>11. InHand' = InHand \union {x} /\ x \notin LiveBlocks
  BY <1>4, <1>5, <1>8 DEF InHand, Sound
<1> QED
  BY <1>1, <1>2, <1>4, <1>8, <1>10, <1>11 DEF BInv

\* The block that was popped is pushed back: the lists are what they were.
LEMMA PopDeniedBInv == ASSUME IInv, BInv, PopDenied PROVE BInv'
<1>1. /\ buckets[bucket] # <<>> /\ bucket \in Buckets /\ pc \in {"search", "pop"} /\ pc' = "null"
      /\ buckets' = [buckets EXCEPT ![bucket] = list_push(Front(buckets[bucket]), Popped)]
      /\ UNCHANGED <<inited, max_ptr, bucket_limit, split, header>>
  BY DEF PopDenied, Popping, IInv, TypeOK
<1>2. list_push(Front(buckets[bucket]), Popped) = buckets[bucket]
  <2>1. buckets[bucket] \in Seq(0 .. Units - 1) /\ IsInjective(buckets[bucket])
    BY <1>1 DEF IInv, TypeOK, BInv, Linked
  <2> QED
    BY <1>1, <2>1, ListPop DEF Popped
<1>3. buckets' = buckets
  BY <1>1, <1>2 DEF IInv, TypeOK
<1> QED
  BY <1>1, <1>3, LocalBInv DEF heap

LEMMA SplitBInv == ASSUME IInv, BInv, Split PROVE BInv'
<1>1. /\ pc = "carve" /\ bucket < orig /\ node' = Left(node) /\ bucket' = bucket + 1
      /\ flip_parent_is_split(node')
      /\ buckets' = [buckets EXCEPT ![bucket'] = list_push(buckets[bucket'],
                                                           ptr_for_node(node' + 1, bucket'))]
      /\ UNCHANGED <<inited, bucket_limit, header, pc>>
  BY DEF Split
<1> DEFINE z == Here
           x == LeftOf(z)
           y == RightOf(z)
<1>2. /\ CallBlock = {z} /\ z \in AllBlocks /\ z[2] = bucket /\ NodeOf(z) = node /\ inited
      /\ z[1] = ptr_for_node(node, bucket)
      /\ bucket \in Buckets /\ bucket_limit \in Buckets /\ z \notin LiveBlocks
  BY <1>1, CallHere DEF BInv
<1>3. bucket # Smallest /\ bucket + 1 \in Buckets /\ bucket + 1 # 0
  <2>1. bucket # Smallest
    BY <1>1, Numbers
  <2> QED
    BY <2>1, <1>2, Halving, Numbers
<1>4. /\ node \in LevelOf(bucket) /\ node' \in LevelOf(bucket') /\ node' + 1 = Right(node)
      /\ ptr_for_node(node', bucket') = z[1]
      /\ ptr_for_node(node' + 1, bucket') = z[1] + Size(bucket')
  <2>1. node \in LevelOf(bucket)
    BY <1>2, NodeOfBlock
  <2>2. node \in Nat /\ Right(node) = Left(node) + 1
    BY <1>2, <2>1, LevelNodes DEF Left, Right
  <2> QED
    BY <1>1, <1>2, <1>3, <2>1, <2>2, ChildrenOf
<1>5. x = <<ptr_for_node(node', bucket'), bucket'>> /\ y = <<ptr_for_node(node' + 1, bucket'), bucket'>>
  BY <1>1, <1>2, <1>4 DEF LeftOf, RightOf
<1>6. x \in AllBlocks /\ y \in AllBlocks /\ x[2] = bucket' /\ NodeOf(x) = node'
  <2>1. <<ptr_for_node(node', bucket'), bucket'>> \in AllBlocks
        /\ NodeOf(<<ptr_for_node(node', bucket'), bucket'>>) = node'
    BY <1>1, <1>3, <1>4, BlockOfNode
  <2> QED
    BY <2>1, <1>2, <1>3, <1>5, Halves
<1>7. Flipped(split, split', x)
  BY <1>1, <1>3, <1>6 DEF flip_parent_is_split, Flip, Flipped
<1>8. Sound(FreeBlocks, InHand, split, bucket_limit) /\ z \in InHand
  BY <1>2 DEF BInv, InHand
<1>9. /\ Sound(FreeBlocks \union {y}, (InHand \ {z}) \union {x}, split', bucket_limit)
      /\ y \notin FreeBlocks /\ x \notin InHand
  BY <1>2, <1>3, <1>7, <1>8, SoundSplit
<1>10. FreeBlocks' = FreeBlocks \union {y} /\ Linked'
  <2>1. y[1] \in 0 .. Units - 1 /\ y[1] = ptr_for_node(node' + 1, bucket') /\ y = <<y[1], bucket'>>
    BY <1>5, <1>6 DEF AllBlocks
  <2> QED
    BY <2>1, <1>1, <1>3, <1>9, Links DEF BInv
<1>11. CallBlock' = {x} /\ LiveBlocks' = LiveBlocks
  BY <1>1, <1>5, LiveKept DEF CallBlock
<1>12. InHand' = (InHand \ {z}) \union {x} /\ LiveBlocks' \intersect CallBlock' = {}
  BY <1>2, <1>9, <1>11 DEF InHand
<1> QED
  BY <1>1, <1>2, <1>9, <1>10, <1>12 DEF BInv

\* The block in the call's hands passes to the caller.
LEMMA HandsOut ==
  ASSUME IInv, BInv, ReturnBlock
  PROVE  LiveBlocks' = LiveBlocks \union {Here} /\ Here \notin LiveBlocks
<1> DEFINE q == ptr_for_node(node, bucket)
<1>1. /\ pc = "carve" /\ pc' = "idle" /\ bucket = orig
      /\ DOMAIN header' = DOMAIN header \union {q} /\ header'[q] = request
      /\ \A p \in DOMAIN header : p # q => header'[p] = header[p]
      /\ UNCHANGED <<inited, bucket_limit, buckets, split>>
  BY DEF ReturnBlock, heap
<1>2. /\ CallBlock = {Here} /\ Here \in AllBlocks /\ Here = <<q, bucket>> /\ Here[1] = q
      /\ inited /\ bucket \in Buckets
  BY <1>1, CallHere DEF Here
<1>3. IsBucketFor(bucket, Need(request)) /\ request \in Requests
  BY <1>1 DEF IInv, MallocPlaced
<1>4. q \notin DOMAIN header
  <2> SUFFICES ASSUME q \in DOMAIN header PROVE FALSE
    OBVIOUS
  <2>1. PICK b \in Buckets : Holds(q, b)
    BY DEF IInv, LivePlaced
  <2>2. <<q, b>> \in LiveBlocks
    BY <2>1 DEF LiveBlocks, Holds
  <2>3. <<q, b>> \in InHand /\ Here \in InHand
    BY <2>2, <1>2 DEF InHand
  <2>4. Tiling(FreeBlocks \union InHand, Size(bucket_limit))
    BY <1>2 DEF BInv, Sound
  <2>5. q \in At(<<q, b>>) /\ q \in At(Here)
    <3>1. <<q, b>> \in AllBlocks
      BY <2>3, <2>4 DEF Tiling
    <3> QED
      BY <3>1, <1>2, BlockFacts
  <2>6. <<q, b>> = Here
    BY <2>3, <2>4, <2>5 DEF Tiling
  <2> QED
    BY <2>2, <2>6, <1>2 DEF BInv
<1>5. LiveBlocks' = LiveBlocks \union {Here}
  <2>1. ASSUME NEW p, NEW b
        PROVE  <<p, b>> \in LiveBlocks' <=> <<p, b>> \in LiveBlocks \union {Here}
    <3>1. <<p, b>> \in LiveBlocks' <=>
             p \in DOMAIN header' /\ b \in Buckets /\ IsBucketFor(b, Need(header'[p]))
      BY DEF LiveBlocks
    <3>2. <<p, b>> \in LiveBlocks <=>
             p \in DOMAIN header /\ b \in Buckets /\ IsBucketFor(b, Need(header[p]))
      BY DEF LiveBlocks
    <3>3. CASE p = q
      <4>1. b \in Buckets /\ IsBucketFor(b, Need(request)) <=> b = bucket
        BY <1>2, <1>3, OneBucket, NeedNat
      <4>2. <<p, b>> \in LiveBlocks' <=> b = bucket
        BY <3>1, <3>3, <4>1, <1>1
      <4> QED
        BY <3>2, <3>3, <4>2, <1>2, <1>4
    <3>4. CASE p # q
      <4>1. p \in DOMAIN header' <=> p \in DOMAIN header
        BY <3>4, <1>1
      <4>2. p \in DOMAIN header => header'[p] = header[p]
        BY <3>4, <1>1
      <4>3. <<p, b>> # Here
        BY <3>4, <1>2
      <4> QED
        BY <3>1, <3>2, <4>1, <4>2, <4>3
    <3> QED
      BY <3>3, <3>4
  <2>2. \A x \in LiveBlocks' : \E p, b : x = <<p, b>>
    BY DEF LiveBlocks
  <2>3. \A x \in LiveBlocks \union {Here} : \E p, b : x = <<p, b>>
    BY <1>2 DEF LiveBlocks
  <2> QED
    BY <2>1, <2>2, <2>3
<1>6. Here \notin LiveBlocks
  BY <1>2 DEF BInv
<1> QED
  BY <1>5, <1>6

LEMMA ReturnBlockBInv == ASSUME IInv, BInv, ReturnBlock PROVE BInv'
<1>1. pc = "carve" /\ pc' = "idle" /\ UNCHANGED <<inited, bucket_limit, buckets, split>>
  BY DEF ReturnBlock, heap
<1>2. CallBlock = {Here} /\ inited
  BY <1>1, CallHere
<1>5. LiveBlocks' = LiveBlocks \union {Here}
  BY HandsOut
<1>6. CallBlock' = {} /\ FreeBlocks' = FreeBlocks /\ InHand' = InHand
  <2>1. CallBlock' = {} /\ FreeBlocks' = FreeBlocks
    BY <1>1 DEF CallBlock, FreeBlocks
  <2> QED
    BY <2>1, <1>2, <1>5 DEF InHand
<1> QED
  BY <1>1, <1>2, <1>6 DEF BInv, Linked

\* The block passes from the caller to the call.
LEMMA TakesBack ==
  ASSUME IInv, NEW q \in DOMAIN header, Free(q)
  PROVE  \E x : /\ x \in LiveBlocks /\ x \notin LiveBlocks' /\ LiveBlocks = LiveBlocks' \union {x}
               /\ CallBlock = {} /\ CallBlock' = {x} /\ FreeBlocks' = FreeBlocks
<1>1. PICK c \in Buckets : Holds(q, c)
  BY DEF IInv, LivePlaced
<1>2. Need(header[q]) \in Nat
  BY NeedNat DEF IInv, TypeOK
<1>3. /\ bucket' = c /\ node' = node_for_ptr(q, c) /\ pc = "idle" /\ pc' = "merge"
      /\ DOMAIN header' = DOMAIN header \ {q}
      /\ \A p \in DOMAIN header' : header'[p] = header[p]
      /\ UNCHANGED <<inited, bucket_limit, buckets, split>>
  BY <1>1, <1>2, OneBucket DEF Free, Holds, heap
<1>4. ptr_for_node(node', c) = q
  BY <1>1, <1>3, NodeOfPtr DEF Holds
<1> DEFINE x == <<q, c>>
<1>5. CallBlock = {} /\ CallBlock' = {x} /\ FreeBlocks' = FreeBlocks
  BY <1>3, <1>4 DEF CallBlock, FreeBlocks
<1>6. LiveBlocks = LiveBlocks' \union {x} /\ x \notin LiveBlocks'
  <2>1. ASSUME NEW p, NEW b
        PROVE  <<p, b>> \in LiveBlocks <=> <<p, b>> \in LiveBlocks' \union {x}
    <3>1. <<p, b>> \in LiveBlocks' <=>
             p \in DOMAIN header' /\ b \in Buckets /\ IsBucketFor(b, Need(header'[p]))
      BY DEF LiveBlocks
    <3>2. <<p, b>> \in LiveBlocks <=>
             p \in DOMAIN header /\ b \in Buckets /\ IsBucketFor(b, Need(header[p]))
      BY DEF LiveBlocks
    <3>3. CASE p = q
      <4>1. b \in Buckets /\ IsBucketFor(b, Need(header[q])) <=> b = c
        BY <1>1, <1>2, OneBucket DEF Holds
      <4> QED
        BY <3>1, <3>2, <3>3, <4>1, <1>3
    <3>4. CASE p # q
      <4>1. p \in DOMAIN header' <=> p \in DOMAIN header
        BY <3>4, <1>3
      <4>2. p \in DOMAIN header => header'[p] = header[p]
        BY <4>1, <1>3
      <4>3. <<p, b>> # x
        BY <3>4
      <4> QED
        BY <3>1, <3>2, <4>1, <4>2, <4>3
    <3> QED
      BY <3>3, <3>4
  <2>2. \A w \in LiveBlocks : \E p, b : w = <<p, b>>
    BY DEF LiveBlocks
  <2>3. \A w \in LiveBlocks' \union {x} : \E p, b : w = <<p, b>>
    BY DEF LiveBlocks
  <2>4. x \notin LiveBlocks'
    BY <1>3 DEF LiveBlocks
  <2> QED
    BY <2>1, <2>2, <2>3, <2>4
<1> QED
  BY <1>5, <1>6

LEMMA FreeBInv == ASSUME IInv, BInv, NEW q \in DOMAIN header, Free(q) PROVE BInv'
<1>3. pc' = "merge" /\ UNCHANGED <<inited, bucket_limit, buckets, split>>
  BY DEF Free, heap
<1>5. PICK x : /\ LiveBlocks = LiveBlocks' \union {x} /\ x \notin LiveBlocks'
               /\ CallBlock = {} /\ CallBlock' = {x} /\ FreeBlocks' = FreeBlocks
  BY TakesBack
<1>7. InHand' = InHand /\ LiveBlocks' \intersect CallBlock' = {}
  BY <1>5 DEF InHand
<1> QED
  BY <1>3, <1>5, <1>7 DEF BInv, Linked

\* Merging ends: the block goes to its list.
LEMMA FreeStopBInv == ASSUME IInv, BInv, FreeStop \/ FreeAll PROVE BInv'
<1> DEFINE x == Here
<1>1. /\ pc = "merge" /\ pc' = "idle" /\ UNCHANGED <<inited, bucket_limit, header>>
      /\ buckets' = [buckets EXCEPT ![bucket] = list_push(buckets[bucket], ptr_for_node(node, bucket))]
      /\ IF node # 0 THEN flip_parent_is_split(node) ELSE UNCHANGED split
      /\ bucket = bucket_limit \/ (node # 0 /\ Parent(node) \in split') \/ node = 0
  BY DEF FreeStop, FreeAll, PushFreed, StopsMerging
<1>2. /\ CallBlock = {x} /\ x \in AllBlocks /\ x[2] = bucket /\ NodeOf(x) = node /\ inited
      /\ (node = 0 <=> bucket = 0) /\ bucket \in Buckets /\ bucket_limit \in Buckets
      /\ x = <<ptr_for_node(node, bucket), bucket>> /\ x[1] = ptr_for_node(node, bucket)
      /\ x \notin LiveBlocks
  BY <1>1, CallHere DEF BInv, Here
<1>3. Flipped(split, split', x)
  BY <1>1, <1>2, FlipsBit
<1>4. x[2] = bucket_limit \/ (x[2] # 0 /\ Parent(NodeOf(x)) \in split')
  <2>1. CASE node = 0
    <3>1. bucket = bucket_limit
      BY <1>1, <1>2, <2>1, MergeNode, Numbers
    <3> QED
      BY <3>1, <1>2
  <2>2. CASE node # 0
    BY <2>2, <1>1, <1>2
  <2> QED
    BY <2>1, <2>2
<1>5. Sound(FreeBlocks, InHand, split, bucket_limit) /\ x \in InHand
  BY <1>2 DEF BInv, InHand
<1>6. Sound(FreeBlocks \union {x}, InHand \ {x}, split', bucket_limit) /\ x \notin FreeBlocks
  BY <1>2, <1>3, <1>4, <1>5, SoundGive
<1>7. FreeBlocks' = FreeBlocks \union {x} /\ Linked'
  <2>1. ptr_for_node(node, bucket) \in 0 .. Units - 1
    BY <1>2 DEF AllBlocks
  <2>2. <<ptr_for_node(node, bucket), bucket>> \notin FreeBlocks /\ Linked
    BY <1>2, <1>6 DEF BInv
  <2>3. FreeBlocks' = FreeBlocks \union {<<ptr_for_node(node, bucket), bucket>>} /\ Linked'
    BY <2>1, <2>2, <1>1, <1>2, Links
  <2> QED
    BY <2>3, <1>2
<1>8. CallBlock' = {} /\ LiveBlocks' = LiveBlocks
  BY <1>1, LiveKept DEF CallBlock
<1>9. InHand' = InHand \ {x}
  BY <1>2, <1>8 DEF InHand
<1> QED
  BY <1>1, <1>2, <1>6, <1>7, <1>8, <1>9 DEF BInv

\* What merging finds when the bit above the block says that its buddy is free.
LEMMA BuddyListed ==
  ASSUME IInv, BInv, pc = "merge", bucket # bucket_limit, Parent(node) \in split,
         NEW T, Flipped(split, T, Here)
  PROVE  /\ Twin(Here) = <<BuddyPtr, bucket>> /\ BuddyPtr \in ToSet(buckets[bucket])
         /\ \E z \in AllBlocks :
              /\ NodeOf(z) = Parent(node) /\ z[2] = bucket - 1 /\ z \notin FreeBlocks \union InHand
              /\ Sound(FreeBlocks \ {Twin(Here)}, (InHand \ {Here}) \union {z}, T, bucket_limit)
<1>1. /\ CallBlock = {Here} /\ Here[2] = bucket /\ NodeOf(Here) = node /\ inited
      /\ bucket_limit \in Buckets
  BY CallHere
<1>2. Sound(FreeBlocks, InHand, split, bucket_limit) /\ Here \in InHand
  BY <1>1 DEF BInv, InHand
<1>3. /\ Twin(Here) \in FreeBlocks
      /\ \E z \in AllBlocks :
           /\ NodeOf(z) = Parent(NodeOf(Here)) /\ z[2] = Here[2] - 1 /\ z \notin FreeBlocks \union InHand
           /\ Sound(FreeBlocks \ {Twin(Here)}, (InHand \ {Here}) \union {z}, T, bucket_limit)
  <2>1. Here[2] # bucket_limit /\ Parent(NodeOf(Here)) \in split
    BY <1>1
  <2> QED
    BY <1>1, <1>2, <2>1, SoundMerge
<1>4. Twin(Here) = <<BuddyPtr, bucket>>
  BY <1>1 DEF Twin, BuddyPtr
<1>5. BuddyPtr \in ToSet(buckets[bucket])
  BY <1>3, <1>4, FreeMembers
<1> QED
  BY <1>1, <1>3, <1>4, <1>5

LEMMA MergeBInv == ASSUME IInv, BInv, Merge PROVE BInv'
<1> DEFINE x == Here
<1>1. /\ pc = "merge" /\ pc' = "merge" /\ UNCHANGED <<inited, bucket_limit, header>>
      /\ buckets' = [buckets EXCEPT ![bucket] = list_remove(buckets[bucket], BuddyPtr)]
      /\ node # 0 /\ flip_parent_is_split(node) /\ Parent(node) \notin split'
      /\ bucket # bucket_limit /\ node' = Parent(node) /\ bucket' = bucket - 1
  BY DEF Merge, StopsMerging
<1>2. /\ CallBlock = {x} /\ x[2] = bucket /\ NodeOf(x) = node /\ inited
      /\ (node = 0 <=> bucket = 0) /\ bucket \in Buckets /\ x \notin LiveBlocks
  BY <1>1, CallHere DEF BInv
<1>3. Flipped(split, split', x)
  BY <1>1, <1>2, FlipsBit
<1>4. Parent(node) \in split
  BY <1>1 DEF flip_parent_is_split, Flip
<1>5. PICK z \in AllBlocks :
         /\ NodeOf(z) = Parent(node) /\ z[2] = bucket - 1 /\ z \notin FreeBlocks \union InHand
         /\ Sound(FreeBlocks \ {Twin(x)}, (InHand \ {x}) \union {z}, split', bucket_limit)
  BY <1>1, <1>3, <1>4, BuddyListed
<1>6. Twin(x) = <<BuddyPtr, bucket>> /\ BuddyPtr \in ToSet(buckets[bucket])
  BY <1>1, <1>3, <1>4, BuddyListed
<1>7. FreeBlocks' = FreeBlocks \ {Twin(x)} /\ Linked'
  <2> DEFINE L == buckets[bucket]
  <2>1. L \in Seq(0 .. Units - 1) /\ IsInjective(L)
    BY <1>2 DEF IInv, TypeOK, BInv, Linked
  <2> HIDE DEF L
  <2>2. ToSet(list_remove(L, BuddyPtr)) = ToSet(L) \ {BuddyPtr} /\ IsInjective(list_remove(L, BuddyPtr))
    BY <2>1, <1>6, ListRemove DEF L
  <2> QED
    BY <2>2, <1>1, <1>2, <1>6, Unlinks DEF L, BInv
<1>8. CallBlock' = {z} /\ LiveBlocks' = LiveBlocks
  <2>1. z = <<z[1], z[2]>> /\ ptr_for_node(NodeOf(z), z[2]) = z[1]
    BY BlockFacts, NodeOfBlock
  <2>2. <<ptr_for_node(node', bucket'), bucket'>> = z
    BY <2>1, <1>1, <1>5
  <2> QED
    BY <2>2, <1>1, LiveKept DEF CallBlock
<1>9. InHand' = (InHand \ {x}) \union {z} /\ LiveBlocks' \intersect CallBlock' = {}
  BY <1>2, <1>5, <1>8 DEF InHand
<1> QED
  BY <1>1, <1>2, <1>5, <1>7, <1>9 DEF BInv

\* The root of the pool when it has to grow.
LEMMA GrowingPool ==
  ASSUME IInv, BInv, Growing
  PROVE  /\ bucket_limit \in Buckets /\ bucket_limit # 0 /\ bucket <= bucket_limit /\ inited
         /\ bucket_limit - 1 \in Buckets /\ CallBlock = {} /\ InHand = LiveBlocks
         /\ root = NodeOf(Root(bucket_limit)) /\ Sound(FreeBlocks, InHand, split, bucket_limit)
<1>1. bucket_limit \in Buckets /\ bucket_limit # 0 /\ bucket <= bucket_limit /\ inited /\ pc = "search"
  BY Numbers DEF Growing, IInv, TypeOK, Fresh
<1>2. bucket_limit - 1 \in Buckets
  BY <1>1, Doubled
<1>3. root = NodeOf(Root(bucket_limit))
  BY DEF root, NodeOf, Root
<1> QED
  BY <1>1, <1>2, <1>3, NoCall DEF BInv

LEMMA PoolListed ==
  ASSUME IInv, BInv, Growing, ~parent_is_split(root)
  PROVE  /\ FreeBlocks = {Root(bucket_limit)} /\ LiveBlocks = {}
         /\ Sound({Root(bucket_limit - 1)}, {}, split, bucket_limit - 1)
         /\ 0 \in ToSet(buckets[bucket_limit]) /\ bucket < bucket_limit
<1>1. /\ FreeBlocks = {Root(bucket_limit)} /\ InHand = {}
      /\ Sound({Root(bucket_limit - 1)}, {}, split, bucket_limit - 1)
  BY GrowingPool, SoundGrowFree DEF parent_is_split
<1>2. 0 \in ToSet(buckets[bucket_limit])
  BY <1>1, FreeMembers DEF Root
<1>3. buckets[bucket_limit] # <<>>
  BY <1>2 DEF ToSet
<1>4. bucket < bucket_limit
  BY <1>3 DEF Growing
<1> QED
  BY <1>1, <1>2, <1>4, GrowingPool

LEMMA GrowFreeBInv == ASSUME IInv, BInv, GrowFree PROVE BInv'
<1> DEFINE l == bucket_limit
           L == buckets[l]
<1>1. /\ Growing /\ ~parent_is_split(root) /\ bucket_limit' = l - 1
      /\ buckets' = [buckets EXCEPT ![l] = list_remove(L, 0), ![l - 1] = <<0>>]
      /\ UNCHANGED <<inited, split, header>> /\ pc' = AfterGrowth
  BY DEF GrowFree
<1>2. l \in Buckets /\ l - 1 \in Buckets /\ inited /\ l \in Int
  BY <1>1, GrowingPool DEF Buckets
<1>3. /\ FreeBlocks = {Root(l)} /\ LiveBlocks = {} /\ Sound({Root(l - 1)}, {}, split, l - 1)
      /\ 0 \in ToSet(L) /\ bucket < l
  BY <1>1, PoolListed
<1>4. ToSet(list_remove(L, 0)) = ToSet(L) \ {0} /\ IsInjective(list_remove(L, 0))
  <2>1. L \in Seq(0 .. Units - 1) /\ IsInjective(L)
    BY <1>2 DEF IInv, TypeOK, BInv, Linked
  <2> QED
    BY <2>1, <1>3, ListRemove
<1>5. \A b \in Buckets : buckets'[b] = IF b = l - 1 THEN <<0>>
                                       ELSE IF b = l THEN list_remove(L, 0) ELSE buckets[b]
  BY <1>1, <1>2 DEF IInv, TypeOK
<1>6. ToSet(<<0>>) = {0} /\ IsInjective(<<0>>)
  BY DEF ToSet, IsInjective
<1>7. \A b \in Buckets : ToSet(buckets[b]) = IF b = l THEN {0} ELSE {}
  <2>1. \A p, b : <<p, b>> \in FreeBlocks <=> p = 0 /\ b = l
    BY <1>3 DEF Root
  <2>2. \A b \in Buckets : \A p : p \in ToSet(buckets[b]) <=> p = 0 /\ b = l
    BY <2>1, FreeMembers
  <2> QED
    BY <2>2
<1>8. \A b \in Buckets : ToSet(buckets'[b]) = IF b = l - 1 THEN {0} ELSE {}
  BY <1>2, <1>4, <1>5, <1>6, <1>7
<1>9. FreeBlocks' = {Root(l - 1)}
  BY <1>2, <1>8 DEF FreeBlocks, Root
<1>10. Linked'
  BY <1>4, <1>5, <1>6 DEF Linked, BInv
<1>11. pc' = "search" /\ CallBlock' = {} /\ LiveBlocks' = {}
  BY <1>1, <1>3, LiveKept DEF AfterGrowth, CallBlock
<1>12. InHand' = {}
  BY <1>11 DEF InHand
<1> QED
  BY <1>1, <1>2, <1>3, <1>9, <1>10, <1>11, <1>12 DEF BInv

LEMMA GrowUsedBInv == ASSUME IInv, BInv, GrowUsed PROVE BInv'
<1> DEFINE l == bucket_limit
           L == buckets[l]
           h == Half(l)
<1>1. /\ Growing /\ parent_is_split(root) /\ bucket_limit' = l - 1
      /\ buckets' = [buckets EXCEPT ![l] = list_push(L, RightHalf), ![l - 1] = <<>>]
      /\ UNCHANGED <<inited, header, bucket>> /\ pc' = AfterGrowth /\ MarkGrandparent /\ pc = "search"
  BY DEF GrowUsed, Growing
<1>2. /\ l \in Buckets /\ l # 0 /\ l - 1 \in Buckets /\ inited /\ l \in Int /\ bucket <= l
      /\ bucket \in Buckets /\ InHand = LiveBlocks
      /\ root = NodeOf(Root(l)) /\ Sound(FreeBlocks, InHand, split, l)
  BY <1>1, GrowingPool DEF Buckets, IInv, TypeOK
<1>3. Parent(root) \in split /\ Parent(root) = NodeOf(Root(l - 1))
  BY <1>1, <1>2, BitAbove DEF parent_is_split
<1>4. Root(l - 1) \in AllBlocks /\ Root(l - 1)[2] = l - 1 /\ Root(l) \in AllBlocks /\ Root(l)[1] = 0
      /\ Root(l)[2] = l
  BY <1>2, RootBlock
<1>5. NodeOf(Root(l - 1)) = 0 <=> l - 1 = 0
  BY <1>2, <1>4, NodeOfBlock, LevelNodes
<1>6. Flipped(split, split', Root(l - 1))
  <2>1. IF NodeOf(Root(l - 1)) # 0 THEN flip_parent_is_split(NodeOf(Root(l - 1))) ELSE UNCHANGED split
    BY <1>1, <1>3 DEF MarkGrandparent
  <2> QED
    BY <2>1, <1>4, <1>5, FlipsBit
<1>7. /\ h \notin FreeBlocks /\ \A x \in FreeBlocks : x[2] >= l
      /\ Sound(FreeBlocks \union {h}, InHand, split', l - 1)
  BY <1>2, <1>3, <1>6, SoundGrowUsed
<1>8. h = <<RightHalf, l>> /\ RightHalf \in 0 .. Units - 1
  <2>1. h = <<Size(l), l>> /\ h \in AllBlocks
    BY <1>2, Doubled
  <2>2. root \in LevelOf(l) /\ ptr_for_node(root, l) = 0
    BY <1>2, <1>4, NodeOfBlock
  <2>3. root \in Int /\ Pow2[l] \in Int /\ Size(l) \in Nat \ {0}
    BY <2>2, <1>2, Positive DEF LevelOf
  <2>4. root - Pow2[l] + 1 = 0
    <3> DEFINE m == root - Pow2[l] + 1
    <3>1. m \in Int /\ m * Size(l) = 0
      BY <2>2, <2>3 DEF ptr_for_node
    <3> HIDE DEF m
    <3>2. m = 0
      BY <3>1, <2>3
    <3> QED
      BY <3>2 DEF m
  <2>5. (root + 1) - Pow2[l] + 1 = 1
    BY <2>3, <2>4
  <2>6. RightHalf = Size(l)
    BY <2>3, <2>5 DEF RightHalf, ptr_for_node
  <2> QED
    BY <2>1, <2>6 DEF AllBlocks
<1>9. \A b \in Buckets : buckets'[b] = IF b = l - 1 THEN <<>>
                                       ELSE IF b = l THEN list_push(L, RightHalf) ELSE buckets[b]
  BY <1>1, <1>2 DEF IInv, TypeOK
<1>10. ToSet(list_push(L, RightHalf)) = ToSet(L) \union {RightHalf} /\ IsInjective(list_push(L, RightHalf))
  <2> DEFINE S == 0 .. Units - 1
  <2>1. L \in Seq(S) /\ IsInjective(L) /\ RightHalf \in S
    BY <1>2, <1>8 DEF IInv, TypeOK, BInv, Linked
  <2>2. RightHalf \notin ToSet(L)
    BY <1>2, <1>7, <1>8, FreeMembers
  <2> HIDE DEF S, L
  <2> QED
    BY <2>1, <2>2, ListPush
<1>11. ToSet(<<>>) = {} /\ IsInjective(<<>>) /\ ToSet(buckets[l - 1]) = {}
  <2>1. ASSUME NEW p \in ToSet(buckets[l - 1]) PROVE FALSE
    <3>1. <<p, l - 1>> \in FreeBlocks
      BY <2>1, <1>2, FreeMembers
    <3>2. <<p, l - 1>>[2] >= l
      BY <3>1, <1>7
    <3> QED
      BY <3>2, <1>2
  <2> QED
    BY <2>1 DEF ToSet, IsInjective
<1>12. FreeBlocks' = FreeBlocks \union {h}
  <2>1. ToSet(buckets'[l]) = (ToSet(buckets[l]) \ {}) \union {RightHalf}
    BY <1>2, <1>9, <1>10
  <2>2. \A b \in Buckets : b # l => ToSet(buckets'[b]) = ToSet(buckets[b])
    BY <1>9, <1>11
  <2>3. FreeBlocks' = (FreeBlocks \ {<<p, l>> : p \in {}}) \union {<<p, l>> : p \in {RightHalf}}
    BY <2>1, <2>2, <1>2, MembersChange
  <2> QED
    BY <2>3, <1>8
<1>13. Linked'
  BY <1>9, <1>10, <1>11 DEF Linked, BInv
<1>14. pc' \in {"search", "pop"} /\ (pc' = "pop" => bucket = l)
  BY <1>1, <1>2 DEF AfterGrowth, Buckets
<1>15. CallBlock' = {} /\ LiveBlocks' = LiveBlocks /\ InHand' = InHand
  <2>1. CallBlock' = {} /\ LiveBlocks' = LiveBlocks
    BY <1>1, <1>14, LiveKept DEF CallBlock
  <2> QED
    BY <2>1, <1>2 DEF InHand
<1>16. pc' = "pop" => buckets'[bucket'] # <<>>
  <2>1. list_push(L, RightHalf) # <<>>
    BY <1>10 DEF ToSet
  <2>2. l # l - 1 /\ buckets'[l] = list_push(L, RightHalf)
    BY <1>2, <1>9
  <2>3. pc' = "pop" => bucket' = l
    BY <1>1, <1>14
  <2> QED
    BY <2>1, <2>2, <2>3
<1> QED
  BY <1>1, <1>2, <1>7, <1>12, <1>13, <1>15, <1>16 DEF BInv

LEMMA NextBInv == IInv /\ BInv /\ [Next]_vars => BInv'
<1> SUFFICES ASSUME IInv, BInv, [Next]_vars PROVE BInv'
  OBVIOUS
<1>1. ASSUME NEW n \in Requests, Malloc(n) PROVE BInv'
  BY <1>1, MallocBInv
<1>2. ASSUME NEW p \in DOMAIN header, Free(p) PROVE BInv'
  BY <1>2, FreeBInv
<1>3. CASE GrowDenied \/ NextBucket \/ ReturnExhausted \/ ReturnDenied
  <2>1. UNCHANGED <<heap, header>> /\ pc \in {"search", "null"} /\ pc' \in {"search", "null", "idle"}
    BY <1>3 DEF GrowDenied, NextBucket, ReturnExhausted, ReturnDenied, Growing, Exhausted
  <2> QED
    BY <2>1, LocalBInv
<1>4. CASE Step
  BY <1>3, <1>4, GrowFreeBInv, GrowUsedBInv, PopBInv, PopDeniedBInv, SplitBInv, ReturnBlockBInv,
     FreeStopBInv, MergeBInv DEF Step
<1>5. CASE UNCHANGED vars
  <2>1. LiveBlocks' = LiveBlocks /\ CallBlock' = CallBlock /\ FreeBlocks' = FreeBlocks
    BY <1>5 DEF vars, heap, call, LiveBlocks, CallBlock, FreeBlocks
  <2>2. InHand' = InHand
    BY <2>1 DEF InHand
  <2> QED
    BY <1>5, <2>1, <2>2 DEF vars, heap, call, BInv, Linked
<1> QED
  BY <1>1, <1>2, <1>4, <1>5 DEF Next

LEMMA AlwaysBInv == Spec => [](IInv /\ BInv)
<1>1. Init => IInv /\ BInv
  BY InitIInv, InitBInv
<1>2. IInv /\ BInv /\ [Next]_vars => (IInv /\ BInv)'
  BY NextIInv, NextBInv
<1> QED
  BY <1>1, <1>2, PTL DEF Spec

-----------------------------------------------------------------------------
LEMMA NoBlocks ==
  ASSUME IInv, BInv, ~inited PROVE FreeBlocks = {} /\ LiveBlocks = {} /\ CallBlock = {}
<1>1. FreeBlocks = {}
  BY DEF BInv, FreeBlocks, ToSet
<1>2. LiveBlocks = {} /\ CallBlock = {}
  BY DEF IInv, Fresh, LiveBlocks, CallBlock
<1> QED
  BY <1>1, <1>2

LEMMA AllThere == Blocks = FreeBlocks \union InHand
  BY DEF Blocks, InHand

\* No unit is in two blocks: what is handed out, listed as free, split or merged never
\* overlaps anything else, for every heap size and every sequence of calls.
THEOREM NoOverlap == Spec => []BlocksDisjoint
<1>1. IInv /\ BInv => BlocksDisjoint
  <2> SUFFICES ASSUME IInv, BInv PROVE BlocksDisjoint
    OBVIOUS
  <2>1. \A b \in Buckets : IsInjective(buckets[b])
    BY DEF BInv, Linked
  <2>2. CASE ~inited
    BY <2>1, <2>2, NoBlocks DEF BlocksDisjoint, Blocks
  <2>3. CASE inited
    <3>1. Tiling(Blocks, Size(bucket_limit)) /\ FreeBlocks \intersect InHand = {}
      BY <2>3, AllThere DEF BInv, Sound
    <3>2. \A x, y \in Blocks : x # y => Span(x[1], x[2]) \intersect Span(y[1], y[2]) = {}
      BY <3>1 DEF Tiling, At
    <3>3. FreeBlocks \intersect LiveBlocks = {} /\ CallBlock \intersect (FreeBlocks \union LiveBlocks) = {}
      BY <3>1 DEF InHand, BInv
    <3> QED
      BY <2>1, <3>2, <3>3 DEF BlocksDisjoint
  <2> QED
    BY <2>2, <2>3
<1> QED
  BY <1>1, AlwaysBInv, PTL

\* No unit of the pool is lost, and no block reaches past it (lower_bucket_limit, the
\* split loop of malloc_1 and the merge loop of free_1).
THEOREM Covered == Spec => []PoolCovered
<1>1. IInv /\ BInv => PoolCovered
  <2> SUFFICES ASSUME BInv, inited
               PROVE  UNION {Span(x[1], x[2]) : x \in Blocks} = 0 .. Size(bucket_limit) - 1
    BY DEF PoolCovered
  <2>1. Tiling(Blocks, Size(bucket_limit))
    BY AllThere DEF BInv, Sound
  <2>2. \A u : (\E x \in Blocks : u \in Span(x[1], x[2])) <=> u \in 0 .. Size(bucket_limit) - 1
    BY <2>1 DEF Tiling, At
  <2> QED
    BY <2>2
<1> QED
  BY <1>1, AlwaysBInv, PTL

LEMMA InUseIs ==
  ASSUME NEW n, Tiling(Blocks, n), NEW b \in Buckets, NEW i \in LevelOf(b)
  PROVE  InUse(i, b) <=> Used(Blocks, LiveBlocks, <<ptr_for_node(i, b), b>>)
<1> DEFINE w == <<ptr_for_node(i, b), b>>
<1>1. w \in AllBlocks /\ w[2] = b /\ At(w) = Span(ptr_for_node(i, b), b) /\ b \in Nat
  BY BlockOfNode, Positive DEF At
<1>2. ASSUME NEW x \in Blocks, x[1] \in At(w)
      PROVE  (x[2] = b /\ x \in LiveBlocks) <=> (x = w /\ x \in LiveBlocks)
  <2>1. x \in AllBlocks /\ x[1] \in At(x)
    BY BlockFacts DEF Tiling
  <2>2. x[2] = b => x = w
    <3> SUFFICES ASSUME x[2] = b PROVE x = w
      OBVIOUS
    <3>1. x[2] >= w[2] /\ x[2] = w[2]
      BY <1>1
    <3> QED
      BY <3>1, <2>1, <1>1, <1>2, Geometry
  <2> QED
    BY <2>2, <1>1
<1> HIDE DEF w
<1>3. InUse(i, b) <=> \E x \in Blocks : x[1] \in At(w) /\ (x[2] > b \/ (x[2] = b /\ x \in LiveBlocks))
  BY <1>1 DEF InUse
<1>4. Used(Blocks, LiveBlocks, w) <=>
         \E x \in Blocks : x[1] \in At(w) /\ (x[2] > b \/ (x = w /\ x \in LiveBlocks))
  BY <1>1 DEF Used
<1>5. InUse(i, b) <=> Used(Blocks, LiveBlocks, w)
  BY <1>2, <1>3, <1>4
<1> QED
  BY <1>5 DEF w

\* Between calls each bit says that exactly one child of its node is in use, and the bit
\* above the pool that the pool is (the comment at buddy_malloc.c:48-49).
THEOREM BitsAgree == Spec => []SplitBitsExact
<1>1. IInv /\ BInv => SplitBitsExact
  <2> DEFINE l == bucket_limit
  <2> SUFFICES ASSUME IInv, BInv, pc = "idle", inited,
                      NEW b \in 0 .. Smallest - 1, NEW i \in LevelOf(b)
               PROVE  (i \in split) <=>
                         IF b >= l \/ ptr_for_node(i, b) # 0
                         THEN InUse(Left(i), b + 1) # InUse(Right(i), b + 1)
                         ELSE b = l - 1 /\ InUse(root, l)
    BY DEF SplitBitsExact
  <2>1. /\ InHand = LiveBlocks /\ Tiling(Blocks, Size(l)) /\ BitsExact(split, Blocks, LiveBlocks, l)
        /\ l \in Buckets
    BY AllThere, NoCall DEF BInv, Sound, IInv, TypeOK
  <2>2. b \in Buckets /\ b # Smallest /\ b + 1 \in Buckets
    <3>1. b \in Buckets /\ b # Smallest
      BY Positive DEF Buckets, Smallest
    <3> QED
      BY <3>1, Halving
  <2> DEFINE z == <<ptr_for_node(i, b), b>>
  <2>3. z \in AllBlocks /\ NodeOf(z) = i /\ z[1] = ptr_for_node(i, b) /\ z[2] = b
    BY <2>2, BlockOfNode
  <2>4. /\ Left(i) \in LevelOf(b + 1) /\ Right(i) \in LevelOf(b + 1)
        /\ LeftOf(z) = <<ptr_for_node(Left(i), b + 1), b + 1>>
        /\ RightOf(z) = <<ptr_for_node(Right(i), b + 1), b + 1>>
    BY <2>2, <2>3, ChildrenOf DEF LeftOf, RightOf
  <2>5. /\ InUse(Left(i), b + 1) <=> Used(Blocks, LiveBlocks, LeftOf(z))
        /\ InUse(Right(i), b + 1) <=> Used(Blocks, LiveBlocks, RightOf(z))
    BY <2>1, <2>2, <2>4, InUseIs
  <2>6. InUse(root, l) <=> Used(Blocks, LiveBlocks, Root(l))
    <3>1. Root(l) \in AllBlocks /\ Root(l)[2] = l /\ Root(l)[1] = 0 /\ root = NodeOf(Root(l))
      BY <2>1, RootBlock DEF root, NodeOf, Root
    <3>2. root \in LevelOf(l) /\ ptr_for_node(root, l) = 0
      BY <3>1, NodeOfBlock
    <3>3. InUse(root, l) <=> Used(Blocks, LiveBlocks, <<ptr_for_node(root, l), l>>)
      BY <2>1, <3>2, InUseIs
    <3> QED
      BY <3>2, <3>3 DEF Root
  <2> HIDE DEF z
  <2>7. i \in split <=> BitOf(Blocks, LiveBlocks, l, z)
    BY <2>1, <2>2, <2>3 DEF BitsExact
  <2>8. (InUse(Left(i), b + 1) # InUse(Right(i), b + 1)) <=>
           ~(Used(Blocks, LiveBlocks, LeftOf(z)) <=> Used(Blocks, LiveBlocks, RightOf(z)))
    <3>1. InUse(Left(i), b + 1) \in BOOLEAN /\ InUse(Right(i), b + 1) \in BOOLEAN
      BY DEF InUse
    <3> QED
      BY <2>5, <3>1
  <2>9. CASE b >= l \/ ptr_for_node(i, b) # 0
    BY <2>3, <2>7, <2>8, <2>9 DEF BitOf
  <2>10. CASE ~(b >= l \/ ptr_for_node(i, b) # 0)
    BY <2>3, <2>6, <2>7, <2>10 DEF BitOf
  <2> QED
    BY <2>9, <2>10
<1> QED
  BY <1>1, AlwaysBInv, PTL

\* free_1 merges all it can: two free buddies are never left apart between calls.
THEOREM Merged == Spec => []FullyMerged
<1>1. IInv /\ BInv => FullyMerged
  <2> SUFFICES ASSUME IInv, BInv, NEW x \in FreeBlocks, x[2] > bucket_limit
               PROVE  <<ptr_for_node(Buddy(node_for_ptr(x[1], x[2])), x[2]), x[2]>> \notin FreeBlocks
    BY DEF FullyMerged
  <2>1. inited
    BY NoBlocks
  <2>2. Twin(x) \notin FreeBlocks
    BY <2>1 DEF BInv, Sound
  <2> QED
    BY <2>2 DEF Twin, NodeOf
<1> QED
  BY <1>1, AlwaysBInv, PTL

\* What malloc_1 and free_1 unlink or pop without a look is in the list: the base block,
\* the buddy, and a block after the pool was doubled.
THEOREM ListsHold == Spec => []ListsServe
<1>1. IInv /\ BInv => ListsServe
  <2> SUFFICES ASSUME IInv, BInv PROVE ListsServe
    OBVIOUS
  <2>1. \A b \in Buckets : \A p \in ToSet(buckets[b]) : Contains(buckets[b], p)
    <3> SUFFICES ASSUME NEW b \in Buckets, NEW p \in ToSet(buckets[b]) PROVE Contains(buckets[b], p)
      OBVIOUS
    <3>1. buckets[b] \in Seq(0 .. Units - 1)
      BY DEF IInv, TypeOK
    <3> QED
      BY <3>1 DEF ToSet, Contains
  <2>2. Growing /\ ~parent_is_split(root) => Contains(buckets[bucket_limit], 0)
    BY <2>1, PoolListed, GrowingPool
  <2>3. ASSUME pc = "merge", node # 0, Parent(node) \in split, bucket # bucket_limit
        PROVE  Contains(buckets[bucket], BuddyPtr)
    <3>1. \E T : Flipped(split, T, Here)
      <4>1. Here[2] = bucket /\ NodeOf(Here) = node /\ bucket # 0
        BY <2>3, CallHere
      <4>2. Flipped(split, Flip(split, Parent(node)), Here)
        BY <4>1 DEF Flip, Flipped
      <4> QED
        BY <4>2
    <3>2. BuddyPtr \in ToSet(buckets[bucket]) /\ bucket \in Buckets
      BY <2>3, <3>1, BuddyListed, CallHere
    <3> QED
      BY <2>1, <3>2
  <2>4. pc = "pop" => buckets[bucket] # <<>>
    BY DEF BInv
  <2> QED
    BY <2>2, <2>3, <2>4 DEF ListsServe
<1> QED
  BY <1>1, AlwaysBInv, PTL

-----------------------------------------------------------------------------
(***************************************************************************)
(* malloc_1 and free_1 implement Heap, where the sum of a request and the  *)
(* header does not wrap.  What is new is that a refusal is justified: the  *)
(* lists of the buckets the search has passed are empty.                   *)
(***************************************************************************)
NoWrap == \A n \in Requests : n + HEADER_SIZE < WordSize

Searched ==
    pc = "search" =>
        /\ bucket = orig \/ bucket >= bucket_limit
        /\ \A b \in Buckets : bucket < b /\ b <= orig => buckets[b] = <<>>

LEMMA NextSearched == IInv /\ BInv /\ Searched /\ [Next]_vars => Searched'
<1> SUFFICES ASSUME IInv, BInv, Searched, [Next]_vars, pc' = "search" PROVE Searched'
  BY DEF Searched
<1>1. ASSUME NEW n \in Requests, Malloc(n) PROVE Searched'
  <2>1. bucket' = orig' /\ bucket' \in Buckets
    BY <1>1 DEF Malloc
  <2> QED
    BY <2>1 DEF Searched, Buckets
<1>2. ASSUME NEW p \in DOMAIN header, Free(p) PROVE Searched'
  BY <1>2 DEF Free
<1>3. CASE GrowFree \/ GrowUsed
  <2>1. pc = "search" /\ UNCHANGED <<bucket, orig>> /\ pc' = AfterGrowth
    BY <1>3 DEF GrowFree, GrowUsed, Growing
  <2>2. bucket < bucket_limit
    BY <2>1 DEF AfterGrowth
  <2>3. bucket' = orig' /\ bucket' \in Nat
    BY <2>1, <2>2, Numbers DEF Searched
  <2> QED
    BY <2>3 DEF Searched, Buckets
<1>4. CASE NextBucket
  <2>1. /\ pc = "search" /\ bucket >= bucket_limit /\ bucket # bucket_limit /\ bucket' = bucket - 1
        /\ buckets[bucket] = <<>> /\ UNCHANGED <<orig, buckets, bucket_limit>>
    BY <1>4 DEF NextBucket, NextLarger, heap
  <2>2. bucket' >= bucket_limit'
    BY <2>1, Numbers
  <2>3. ASSUME NEW b \in Buckets, bucket' < b, b <= orig PROVE buckets[b] = <<>>
    <3>1. b \in Nat
      BY DEF Buckets
    <3>2. b = bucket \/ bucket < b
      BY <2>1, <2>3, <3>1, Numbers
    <3> QED
      BY <2>1, <2>3, <3>2 DEF Searched
  <2> QED
    BY <2>1, <2>2, <2>3 DEF Searched
<1>5. CASE Step
  BY <1>3, <1>4, <1>5 DEF Step, GrowDenied, Pop, PopDenied, ReturnExhausted, ReturnDenied,
     Split, ReturnBlock, FreeStop, Merge, FreeAll
<1>6. CASE UNCHANGED vars
  BY <1>6 DEF vars, heap, call, Searched
<1> QED
  BY <1>1, <1>2, <1>5, <1>6 DEF Next

HInv == IInv /\ BInv /\ Searched

LEMMA AlwaysHInv == Spec => []HInv
<1>1. Init => HInv
  BY InitIInv, InitBInv DEF HInv, Searched, Init
<1>2. HInv /\ [Next]_vars => HInv'
  BY NextIInv, NextBInv, NextSearched DEF HInv
<1> QED
  BY <1>1, <1>2, PTL DEF Spec

\* The record of a block, as the specification of the caller sees it.
Rec(x) == [at |-> x[1], size |-> Size(x[2])]

LEMMA RecFacts ==
  ASSUME NEW x \in AllBlocks
  PROVE  /\ Rec(x).at = x[1] /\ Rec(x).size = Size(x[2]) /\ Rec(x) \in H!Block
         /\ x[1] % Size(x[2]) = 0 /\ x[1] + Size(x[2]) <= Units
<1>1. x[1] \in 0 .. Units - 1 /\ x[2] \in Buckets /\ x[1] \in Starts(x[2]) /\ x[1] \in Nat
  BY BlockFacts DEF AllBlocks
<1> QED
  BY <1>1, Aligned DEF Rec, H!Block

LEMMA Overlaps ==
  ASSUME NEW x \in AllBlocks, NEW y \in AllBlocks
  PROVE  H!Overlap(Rec(x), Rec(y)) <=> \E u : u \in At(x) /\ u \in At(y)
<1>1. /\ x[1] \in Nat /\ y[1] \in Nat /\ Size(x[2]) \in Nat \ {0} /\ Size(y[2]) \in Nat \ {0}
      /\ \A u : u \in At(x) <=> u \in Int /\ x[1] <= u /\ u < x[1] + Size(x[2])
      /\ \A u : u \in At(y) <=> u \in Int /\ y[1] <= u /\ u < y[1] + Size(y[2])
  BY BlockFacts
<1>2. H!Overlap(Rec(x), Rec(y)) <=> x[1] < y[1] + Size(y[2]) /\ y[1] < x[1] + Size(x[2])
  BY RecFacts DEF H!Overlap
<1>3. ASSUME NEW u, u \in At(x), u \in At(y)
      PROVE  x[1] < y[1] + Size(y[2]) /\ y[1] < x[1] + Size(x[2])
  <2>1. u \in Int /\ x[1] <= u /\ u < x[1] + Size(x[2]) /\ y[1] <= u /\ u < y[1] + Size(y[2])
    BY <1>1, <1>3
  <2> QED
    BY <2>1, <1>1
<1>4. ASSUME x[1] < y[1] + Size(y[2]), y[1] < x[1] + Size(x[2])
      PROVE  \E u : u \in At(x) /\ u \in At(y)
  <2>1. CASE x[1] <= y[1]
    <3>1. y[1] \in At(x) /\ y[1] \in At(y)
      BY <2>1, <1>1, <1>4
    <3> QED
      BY <3>1
  <2>2. CASE ~(x[1] <= y[1])
    <3>1. x[1] \in At(x) /\ x[1] \in At(y)
      BY <2>2, <1>1, <1>4
    <3> QED
      BY <3>1
  <2> QED
    BY <2>1, <2>2
<1> QED
  BY <1>2, <1>3, <1>4

\* What the caller holds are blocks, no two at one address.
LEMMA LiveFacts ==
  ASSUME IInv
  PROVE  /\ LiveRecords = {Rec(x) : x \in LiveBlocks} /\ LiveBlocks \subseteq AllBlocks
         /\ \A x, y \in LiveBlocks : x[1] = y[1] => x = y
<1>1. LiveRecords = {Rec(x) : x \in LiveBlocks}
  BY DEF LiveRecords, Rec
<1>2. ASSUME NEW x \in LiveBlocks PROVE x \in AllBlocks
  <2>1. x = <<x[1], x[2]>> /\ x[1] \in DOMAIN header /\ x[2] \in Buckets
        /\ IsBucketFor(x[2], Need(header[x[1]]))
    BY DEF LiveBlocks
  <2>2. PICK b \in Buckets : Holds(x[1], b)
    BY <2>1 DEF IInv, LivePlaced
  <2>3. Need(header[x[1]]) \in Nat
    BY <2>1, NeedNat DEF IInv, TypeOK
  <2>4. x[2] = b /\ x[1] \in Starts(b)
    BY <2>1, <2>2, <2>3, OneBucket DEF Holds
  <2> QED
    BY <2>1, <2>4, MakeBlock
<1>3. ASSUME NEW x \in LiveBlocks, NEW y \in LiveBlocks, x[1] = y[1] PROVE x = y
  <2>1. /\ x = <<x[1], x[2]>> /\ x[2] \in Buckets /\ IsBucketFor(x[2], Need(header[x[1]]))
        /\ y = <<y[1], y[2]>> /\ y[2] \in Buckets /\ IsBucketFor(y[2], Need(header[y[1]]))
        /\ x[1] \in DOMAIN header
    BY DEF LiveBlocks
  <2>2. Need(header[x[1]]) \in Nat
    BY <2>1, NeedNat DEF IInv, TypeOK
  <2>3. x[2] = y[2]
    BY <2>1, <2>2, <1>3, OneBucket
  <2> QED
    BY <2>1, <2>3, <1>3
<1> QED
  BY <1>1, <1>2, <1>3

LEMMA Asking ==
  ASSUME IInv
  PROVE  /\ \A n \in Requests : n \in Nat /\ n # H_NoRequest
         /\ request \in Nat /\ request # H_NoRequest
<1>1. \A n \in Requests : n \in Nat
  BY BuddyMalloc1Assumption, BuddyTreeAssumption
<1>2. request \in Nat
  BY <1>1 DEF IInv, TypeOK
<1> QED
  BY <1>1, <1>2 DEF H_NoRequest

\* A block that fits the request is at least as large as the bucket sought, and the
\* blocks of that bucket fit.
LEMMA FitsBucket ==
  ASSUME NoWrap, NEW n \in Requests, NEW o \in Buckets, IsBucketFor(o, Need(n))
  PROVE  /\ Bytes(o) >= n + HEADER_SIZE
         /\ \A c \in Buckets : MIN_ALLOC * Size(c) >= n + HEADER_SIZE => c <= o
<1>1. n \in Nat /\ HEADER_SIZE \in Nat /\ Need(n) = n + HEADER_SIZE /\ n + HEADER_SIZE \in Nat
  <2>1. n \in 0 .. WordSize - 1 /\ HEADER_SIZE \in Nat /\ WordSize \in Nat
    BY BuddyMalloc1Assumption, BuddyTreeAssumption
  <2>2. n + HEADER_SIZE < WordSize
    BY DEF NoWrap
  <2>3. n \in Nat /\ n + HEADER_SIZE \in Nat
    BY <2>1
  <2>4. \A w \in Nat : \A k \in Nat : k < w => k % w = k
    BY SMT
  <2> HIDE DEF NoWrap
  <2>5. (n + HEADER_SIZE) % WordSize = n + HEADER_SIZE
    BY <2>1, <2>2, <2>3, <2>4
  <2> QED
    BY <2>1, <2>3, <2>5 DEF Need
<1>2. ASSUME NEW c \in Buckets, MIN_ALLOC * Size(c) >= n + HEADER_SIZE, ~(c <= o) PROVE FALSE
  <2>1. o # Smallest /\ o + 1 \in Buckets /\ o + 1 <= c
    BY <1>2, Positive DEF Buckets, Smallest
  <2>2. Size(c) <= Size(o + 1) /\ Size(c) \in Nat /\ Size(o + 1) \in Nat /\ MIN_ALLOC \in Nat
    BY <2>1, SizeOrder, Positive
  <2>3. MIN_ALLOC * Size(c) <= Bytes(o + 1) /\ MIN_ALLOC * Size(c) \in Nat /\ Bytes(o + 1) \in Nat
    BY <2>2, ProductMonotone DEF Bytes
  <2>4. Bytes(o + 1) < n + HEADER_SIZE
    BY <2>1, <1>1 DEF IsBucketFor
  <2> QED
    BY <2>3, <2>4, <1>1, <1>2
<1>3. Bytes(o) \in Nat
  BY Positive DEF Bytes
<1> QED
  BY <1>1, <1>2, <1>3 DEF IsBucketFor

\* The block handed out fits and is vacant.
LEMMA Grants ==
  ASSUME NoWrap, IInv, BInv, ReturnBlock
  PROVE  H!Grant
<1>1. /\ pc = "carve" /\ pc' = "idle" /\ bucket = orig /\ request \in Requests
      /\ orig \in Buckets /\ IsBucketFor(orig, Need(request))
  BY DEF ReturnBlock, IInv, MallocPlaced, TypeOK
<1>2. Here \in AllBlocks /\ Here[2] = orig /\ Here \in InHand /\ inited
  BY <1>1, CallHere DEF InHand
<1>3. H!Fits(Rec(Here), request)
  <2>1. MIN_ALLOC * Size(orig) >= request + HEADER_SIZE
    BY <1>1, FitsBucket DEF Bytes
  <2> QED
    BY <2>1, <1>2, RecFacts DEF H!Fits
<1>4. H!Vacant(Rec(Here))
  <2>1. ASSUME NEW x \in LiveBlocks, H!Overlap(Rec(Here), Rec(x)) PROVE FALSE
    <3>1. x \in AllBlocks /\ x \in InHand
      BY LiveFacts DEF InHand
    <3>2. \E u : u \in At(Here) /\ u \in At(x)
      BY <2>1, <3>1, <1>2, Overlaps
    <3>3. Tiling(FreeBlocks \union InHand, Size(bucket_limit))
      BY <1>2 DEF BInv, Sound
    <3>4. x = Here
      BY <3>1, <3>2, <3>3, <1>2 DEF Tiling
    <3> QED
      BY <3>4, HandsOut
  <2> QED
    BY <2>1, LiveFacts DEF H!Vacant
<1>5. LiveRecords' = LiveRecords \union {Rec(Here)}
  <2>1. LiveRecords' = {Rec(x) : x \in LiveBlocks'}
    BY DEF LiveRecords, Rec
  <2> QED
    BY <2>1, HandsOut, LiveFacts
<1>6. Rec(Here) \in H!Block
  BY <1>2, RecFacts
<1> QED
  BY <1>1, <1>3, <1>4, <1>5, <1>6, Asking DEF H!Grant, H!NoRequest, H_NoRequest

\* When the search ends with nothing, every block that would fit shares a unit with a
\* block the caller holds.
LEMMA Refuses ==
  ASSUME NoWrap, HInv, ReturnExhausted
  PROVE  H!Refuse
<1>1. /\ pc = "search" /\ bucket = 0 /\ bucket_limit = 0 /\ buckets[0] = <<>> /\ pc' = "idle"
      /\ UNCHANGED <<header, request>> /\ request \in Requests
      /\ orig \in Buckets /\ IsBucketFor(orig, Need(request)) /\ IInv /\ BInv /\ inited
  BY DEF ReturnExhausted, Exhausted, HInv, IInv, MallocPlaced, TypeOK, Fresh
<1>2. InHand = LiveBlocks /\ Sound(FreeBlocks, LiveBlocks, split, 0) /\ 0 \in Buckets
  BY <1>1, NoCall DEF BInv, IInv, TypeOK
<1>3. ASSUME NEW x \in FreeBlocks PROVE x[2] > orig
  <2>1. x = <<x[1], x[2]>> /\ x[2] \in Buckets /\ x[1] \in ToSet(buckets[x[2]])
    BY FreeMembers
  <2>2. buckets[x[2]] # <<>>
    BY <2>1 DEF ToSet
  <2>3. x[2] \in Nat /\ orig \in Nat
    BY <2>1, <1>1 DEF Buckets
  <2> QED
    BY <2>1, <2>2, <2>3, <1>1 DEF HInv, Searched
<1>4. ASSUME NEW b \in H!Block, H!Fits(b, request) PROVE ~H!Vacant(b)
  <2>1. PICK c \in Buckets : b.size = Size(c)
    BY DEF H!Block
  <2>2. /\ b.at \in Nat /\ b = [at |-> b.at, size |-> Size(c)]
        /\ MIN_ALLOC * Size(c) >= request + HEADER_SIZE
        /\ b.at + Size(c) <= Units /\ b.at % Size(c) = 0
    BY <1>4, <2>1 DEF H!Block, H!Fits
  <2>3. c <= orig /\ c \in Nat /\ orig \in Nat
    BY <2>2, <1>1, FitsBucket DEF Buckets
  <2> DEFINE w == <<b.at, c>>
  <2>4. w \in AllBlocks /\ w[2] = c /\ w[1] = b.at /\ Rec(w) = b
    BY <2>2, Aligned, MakeBlock DEF Rec
  <2> HIDE DEF w
  <2>5. w[1] \in At(Root(0))
    <3>1. Root(0)[1] = 0 /\ Root(0)[2] = 0 /\ Size(0) = Units /\ Size(c) \in Nat \ {0} /\ Units \in Nat
      BY Positive DEF Root, Size, Units, Smallest
    <3> QED
      BY <3>1, <2>2, <2>4 DEF At, Span
  <2>6. \A x \in FreeBlocks : x[2] > w[2]
    <3>1. \A x \in FreeBlocks : x[2] \in Nat
      BY FreeMembers DEF Buckets
    <3> QED
      BY <3>1, <1>3, <2>3, <2>4
  <2>7. PICK x \in LiveBlocks : \E u : u \in At(x) /\ u \in At(w)
    BY <1>2, <2>3, <2>4, <2>5, <2>6, FreeRegion
  <2>8. x \in AllBlocks /\ Rec(x) \in LiveRecords
    BY <1>1, LiveFacts
  <2>9. H!Overlap(b, Rec(x))
    BY <2>4, <2>7, <2>8, Overlaps
  <2> QED
    BY <2>8, <2>9 DEF H!Vacant
<1>5. LiveRecords' = LiveRecords
  BY <1>1 DEF LiveRecords, LiveBlocks
<1> QED
  BY <1>1, <1>4, <1>5, Asking DEF H!Refuse, H!NoRequest, H_NoRequest

\* The caller gives back a block it holds.
LEMMA Releases ==
  ASSUME IInv, NEW p \in DOMAIN header, Free(p)
  PROVE  H!Release
<1>1. pc = "idle" /\ pc' = "merge"
  BY DEF Free
<1>2. PICK x : x \in LiveBlocks /\ x \notin LiveBlocks' /\ LiveBlocks = LiveBlocks' \union {x}
  BY TakesBack
<1>3. LiveRecords' = {Rec(y) : y \in LiveBlocks'} /\ LiveRecords = {Rec(y) : y \in LiveBlocks}
  BY DEF LiveRecords, Rec
<1>4. ASSUME NEW y \in LiveBlocks' PROVE Rec(y) # Rec(x)
  <2>1. y \in LiveBlocks /\ y # x
    BY <1>2
  <2>2. y[1] # x[1]
    BY <2>1, <1>2, LiveFacts
  <2>3. Rec(y).at = y[1] /\ Rec(x).at = x[1]
    BY DEF Rec
  <2> QED
    BY <2>2, <2>3
<1>5. LiveRecords' = LiveRecords \ {Rec(x)} /\ Rec(x) \in LiveRecords
  BY <1>2, <1>3, <1>4
<1> QED
  BY <1>1, <1>5 DEF H!Release, H!NoRequest, H_NoRequest

asking == IF pc \in {"search", "pop", "carve", "null"} THEN request ELSE H_NoRequest
callers == <<LiveRecords, asking, pc = "null">>

LEMMA HeapInit == Init => H!Init
<1> SUFFICES ASSUME Init PROVE H!Init
  OBVIOUS
<1>1. pc = "idle" /\ LiveBlocks = {}
  BY DEF Init, LiveBlocks
<1> QED
  BY <1>1 DEF H!Init, H!NoRequest, H_NoRequest, LiveRecords

LEMMA HeapStep == NoWrap /\ HInv /\ [Next]_vars => H!Next \/ UNCHANGED callers
<1> SUFFICES ASSUME NoWrap, HInv, [Next]_vars PROVE H!Next \/ UNCHANGED callers
  OBVIOUS
<1>1. IInv /\ BInv /\ Searched
  BY DEF HInv
<1>2. header' = header => LiveRecords' = LiveRecords
  BY DEF LiveRecords, LiveBlocks
<1>3. ASSUME NEW n \in Requests, Malloc(n) PROVE H!Next
  <2>1. pc = "idle" /\ pc' = "search" /\ request' = n /\ header' = header
    BY <1>3 DEF Malloc
  <2>2. H!Ask(n)
    BY <2>1, <1>2 DEF H!Ask, H!NoRequest, H_NoRequest
  <2> QED
    BY <2>2 DEF H!Next
<1>4. ASSUME NEW p \in DOMAIN header, Free(p) PROVE H!Next
  BY <1>1, <1>4, Releases DEF H!Next
<1>5. CASE GrowDenied \/ PopDenied
  <2>1. pc \in {"search", "pop"} /\ pc' = "null" /\ header' = header /\ request' = request
    BY <1>5 DEF GrowDenied, PopDenied, Growing, Popping
  <2>2. H!Deny
    BY <2>1, <1>1, <1>2, Asking DEF H!Deny, H!NoRequest, H_NoRequest
  <2> QED
    BY <2>2 DEF H!Next
<1>6. CASE ReturnDenied
  <2>1. pc = "null" /\ pc' = "idle" /\ header' = header /\ request' = request
    BY <1>6 DEF ReturnDenied
  <2>2. H!Refuse
    BY <2>1, <1>1, <1>2, Asking DEF H!Refuse, H!NoRequest, H_NoRequest
  <2> QED
    BY <2>2 DEF H!Next
<1>7. CASE ReturnExhausted
  BY <1>7, Refuses DEF H!Next
<1>8. CASE ReturnBlock
  BY <1>1, <1>8, Grants DEF H!Next
<1>9. CASE GrowFree \/ GrowUsed \/ Pop \/ NextBucket \/ Split
  <2>1. /\ pc \in {"search", "pop", "carve"} /\ pc' \in {"search", "pop", "carve"}
        /\ header' = header /\ request' = request
    BY <1>9 DEF GrowFree, GrowUsed, Pop, NextBucket, Split, Growing, Popping, AfterGrowth
  <2> QED
    BY <2>1, <1>2 DEF callers, asking
<1>10. CASE FreeStop \/ Merge \/ FreeAll
  <2>1. pc = "merge" /\ pc' \in {"merge", "idle"} /\ header' = header
    BY <1>10 DEF FreeStop, Merge, FreeAll
  <2> QED
    BY <2>1, <1>2 DEF callers, asking, H_NoRequest
<1>11. CASE UNCHANGED vars
  BY <1>2, <1>11 DEF vars, call, callers, asking, H_NoRequest
<1> QED
  BY <1>3, <1>4, <1>5, <1>6, <1>7, <1>8, <1>9, <1>10, <1>11 DEF Next, Step

\* malloc_1 and free_1 implement the heap their caller sees, when no request wraps: every
\* block handed out fits, is aligned and overlaps nothing the caller holds, and a call
\* is refused only when sbrk failed or no block that fits is vacant.
THEOREM HeapImplemented == NoWrap => (Spec => ImplementsHeap)
<1>1. NoWrap /\ HInv /\ [Next]_vars => [H!Next]_callers
  BY HeapStep
<1>2. ASSUME NoWrap PROVE Spec => [][H!Next]_callers
  <2>1. HInv /\ [Next]_vars => [H!Next]_callers
    BY <1>1, <1>2
  <2> QED
    BY <2>1, AlwaysHInv, PTL DEF Spec
<1>3. Spec => H!Init
  BY HeapInit DEF Spec
<1> QED
  BY <1>2, <1>3 DEF ImplementsHeap, H!Spec, callers, asking
=============================================================================
