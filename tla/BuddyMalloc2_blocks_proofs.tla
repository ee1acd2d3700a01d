-------------------- MODULE BuddyMalloc2_blocks_proofs ---------------------
(***************************************************************************)
(* Proofs that malloc_2 and free_2 lose no block, hand out none twice,     *)
(* find the size of every block in the status bits and end in no undefined *)
(* behaviour, for every depth of the tree and set of requests, provided    *)
(* callers KeepsOne: where they do not, the code is wrong and no such      *)
(* theorem holds.  BInv says that the fields are Kept for the blocks that  *)
(* are free and those in somebody's hands.                                 *)
(***************************************************************************)
EXTENDS BuddyMalloc2_proofs

\* The callers for which the status bits are right: they ask for no block as large as the
\* whole heap, and hold a block whenever they free one.  For others the code is wrong, as
\* the runs buddy2_whole and buddy2_root show.
KeepsOne == ~FreesLast /\ \A n \in Requests : n <= Bytes(1) \/ n > MAX_ALLOC

\* What is not free; the part of it that is marked USED; and the block free_2 works on, whose
\* field still holds what it held.
InHand == LiveBlocks \union CallBlock
Marked == LiveBlocks \union (IF pc = "mark" THEN CallBlock ELSE {})
Unsettled == IF pc = "merge" THEN CallBlock ELSE {}

ListsOnce == \A b \in Buckets : IsInjective(buckets[b])

BInv ==
    /\ inited => Kept(FieldsOf(node_status), FreeBlocks, InHand, Marked, Unsettled, bucket_limit)
    /\ ~inited => /\ \A x \in AllBlocks : FieldsOf(node_status)[x] = 0
                  /\ \A b \in Buckets : buckets[b] = <<>>
    /\ LiveBlocks \intersect CallBlock = {}
    /\ ListsOnce
    /\ pc = "pop" => buckets[bucket] # <<>>
    /\ pc = "merge" => LiveBlocks # {}
    /\ pc \in {"search", "pop", "carve", "mark"} => orig # 0
    /\ pc = "mark" => bucket = orig /\ \E b \in Buckets : b # Smallest /\ up \in LevelOf(b)
    /\ pc # "undefined"

-----------------------------------------------------------------------------
\* A block is free when its address is in the list of its bucket.
LEMMA FreeMembers ==
  /\ \A p, b : <<p, b>> \in FreeBlocks <=> b \in Buckets /\ p \in ToSet(buckets[b])
  /\ \A x \in FreeBlocks : x = <<x[1], x[2]>>
<1>1. ASSUME NEW p, NEW b PROVE <<p, b>> \in FreeBlocks <=> b \in Buckets /\ p \in ToSet(buckets[b])
  BY DEF FreeBlocks
<1>2. ASSUME NEW x \in FreeBlocks PROVE x = <<x[1], x[2]>>
  BY DEF FreeBlocks
<1> QED
  BY <1>1, <1>2

\* The members of one list change.
LEMMA MembersChange ==
  ASSUME NEW b \in Buckets, NEW D, NEW A, ToSet(buckets'[b]) = (ToSet(buckets[b]) \ D) \union A,
         \A c \in Buckets : c # b => ToSet(buckets'[c]) = ToSet(buckets[c])
  PROVE  FreeBlocks' = (FreeBlocks \ {<<p, b>> : p \in D}) \union {<<p, b>> : p \in A}
<1>1. \A p, c : <<p, c>> \in FreeBlocks' <=> c \in Buckets /\ p \in ToSet(buckets'[c])
  BY DEF FreeBlocks
<1>2. ASSUME NEW p, NEW c
      PROVE  <<p, c>> \in FreeBlocks' <=> \/ <<p, c>> \in FreeBlocks /\ ~(c = b /\ p \in D)
                                          \/ c = b /\ p \in A
  <2>1. CASE c = b
    BY <2>1, <1>1, FreeMembers
  <2>2. CASE c # b
    BY <2>2, <1>1, FreeMembers
  <2> QED
    BY <2>1, <2>2
<1> DEFINE E == (FreeBlocks \ {<<p, b>> : p \in D}) \union {<<p, b>> : p \in A}
<1>3. \A p, c : <<p, c>> \in FreeBlocks' <=> <<p, c>> \in E
  BY <1>2
<1>4. \A x \in FreeBlocks' : \E p, c : x = <<p, c>>
  BY DEF FreeBlocks
<1>5. \A x \in E : \E p, c : x = <<p, c>>
  BY FreeMembers
<1> HIDE DEF E
<1>6. FreeBlocks' = E
  BY <1>3, <1>4, <1>5
<1> QED
  BY <1>6 DEF E

\* An entry is unlinked,
LEMMA Unlinks ==
  ASSUME IInv, ListsOnce, NEW b \in Buckets, NEW p \in ToSet(buckets[b]), NEW t,
         ToSet(t) = ToSet(buckets[b]) \ {p}, IsInjective(t), buckets' = [buckets EXCEPT ![b] = t]
  PROVE  <<p, b>> \in FreeBlocks /\ FreeBlocks' = FreeBlocks \ {<<p, b>>} /\ ListsOnce'
<1>1. buckets'[b] = t /\ \A c \in Buckets : c # b => buckets'[c] = buckets[c]
  BY DEF IInv, TypeOK
<1>2. FreeBlocks' = (FreeBlocks \ {<<q, b>> : q \in {p}}) \union {<<q, b>> : q \in {}}
  <2>1. ToSet(buckets'[b]) = (ToSet(buckets[b]) \ {p}) \union {}
    BY <1>1
  <2>2. \A c \in Buckets : c # b => ToSet(buckets'[c]) = ToSet(buckets[c])
    BY <1>1
  <2> QED
    BY <2>1, <2>2, MembersChange
<1>3. ListsOnce'
  BY <1>1 DEF ListsOnce
<1> QED
  BY <1>2, <1>3, FreeMembers

\* and an entry is pushed.
LEMMA Links ==
  ASSUME IInv, ListsOnce, NEW b \in Buckets, NEW p \in 0 .. Units - 1, <<p, b>> \notin FreeBlocks,
         buckets' = [buckets EXCEPT ![b] = list_push(buckets[b], p)]
  PROVE  FreeBlocks' = FreeBlocks \union {<<p, b>>} /\ ListsOnce'
<1>1. /\ buckets'[b] = list_push(buckets[b], p)
      /\ \A c \in Buckets : c # b => buckets'[c] = buckets[c]
      /\ buckets[b] \in Seq(0 .. Units - 1)
  BY DEF IInv, TypeOK
<1>2. ToSet(buckets'[b]) = ToSet(buckets[b]) \union {p} /\ IsInjective(buckets'[b])
  <2>1. p \notin ToSet(buckets[b]) /\ IsInjective(buckets[b])
    BY FreeMembers DEF ListsOnce
  <2>2. ToSet(list_push(buckets[b], p)) = ToSet(buckets[b]) \union {p}
        /\ IsInjective(list_push(buckets[b], p))
    <3> DEFINE L == buckets[b]
               S == 0 .. Units - 1
    <3>1. L \in Seq(S) /\ p \in S /\ p \notin ToSet(L) /\ IsInjective(L)
      BY <1>1, <2>1
    <3> HIDE DEF L, S
    <3>2. ToSet(list_push(L, p)) = ToSet(L) \union {p} /\ IsInjective(list_push(L, p))
      BY <3>1, ListPush
    <3> QED
      BY <3>2 DEF L
  <2> QED
    BY <1>1, <2>2
<1>3. FreeBlocks' = (FreeBlocks \ {<<q, b>> : q \in {}}) \union {<<q, b>> : q \in {p}}
  <2>1. ToSet(buckets'[b]) = (ToSet(buckets[b]) \ {}) \union {p}
    BY <1>2
  <2>2. \A c \in Buckets : c # b => ToSet(buckets'[c]) = ToSet(buckets[c])
    BY <1>1
  <2> QED
    BY <2>1, <2>2, MembersChange
<1>4. ListsOnce'
  BY <1>1, <1>2 DEF ListsOnce
<1> QED
  BY <1>3, <1>4

\* An address is unlinked from whatever list holds it.
LEMMA UnlinkedLists ==
  ASSUME IInv, ListsOnce, NEW p, NEW b \in Buckets
  PROVE  /\ ToSet(Unlinked(p)[b]) = ToSet(buckets[b]) \ {p} /\ IsInjective(Unlinked(p)[b])
         /\ p \in ToSet(buckets[b]) => Linked(p)
<1>1. buckets[b] \in Seq(0 .. Units - 1) /\ IsInjective(buckets[b]) /\ Unlinked(p)[b] = list_remove(buckets[b], p)
  BY DEF IInv, TypeOK, ListsOnce, Unlinked
<1>2. CASE p \in ToSet(buckets[b])
  <2>1. /\ Contains(buckets[b], p) /\ ToSet(list_remove(buckets[b], p)) = ToSet(buckets[b]) \ {p}
        /\ IsInjective(list_remove(buckets[b], p))
    BY <1>1, <1>2, ListRemove
  <2> QED
    BY <2>1, <1>1 DEF Linked
<1>3. CASE p \notin ToSet(buckets[b])
  <2>1. ~Contains(buckets[b], p)
    BY <1>1, <1>3 DEF Contains, ToSet
  <2>2. list_remove(buckets[b], p) = buckets[b]
    BY <2>1 DEF list_remove
  <2> QED
    BY <2>2, <1>1, <1>3
<1> QED
  BY <1>2, <1>3

-----------------------------------------------------------------------------
\* The block of the call that runs.
Here == <<ptr_for_node(node, bucket), bucket>>

LEMMA CallHere ==
  ASSUME IInv, pc \in {"carve", "mark", "merge"}
  PROVE  /\ CallBlock = {Here} /\ Here \in AllBlocks /\ Here[2] = bucket /\ NodeOf(Here) = node
         /\ Here[1] = ptr_for_node(node, bucket)
         /\ (node = 0 <=> bucket = 0) /\ inited /\ bucket \in Buckets /\ bucket_limit \in Buckets
<1>1. bucket \in Buckets /\ node \in LevelOf(bucket) /\ inited /\ bucket_limit \in Buckets
  BY DEF IInv, TypeOK, MallocPlaced, FreePlacedCall, Fresh
<1>2. Here \in AllBlocks /\ NodeOf(Here) = node
  BY <1>1, BlockOfNode DEF Here
<1>3. node = 0 <=> bucket = 0
  BY <1>1, LevelNodes
<1> QED
  BY <1>1, <1>2, <1>3 DEF Here, CallBlock

LEMMA NoCall == pc \notin {"carve", "mark", "merge"} =>
                  CallBlock = {} /\ InHand = LiveBlocks /\ Marked = LiveBlocks /\ Unsettled = {}
  BY DEF CallBlock, InHand, Marked, Unsettled

LEMMA LiveKept == live' = live => LiveBlocks' = LiveBlocks
  BY DEF LiveBlocks

LEMMA StatusBytes == IInv => node_status \in BytesOf
  BY DEF IInv, TypeOK, BytesOf

LEMMA InitBInv == Init => BInv
<1> SUFFICES ASSUME Init PROVE BInv
  OBVIOUS
<1>1. \A b \in Buckets : buckets[b] = <<>>
  BY DEF Init
<1>2. ListsOnce
  BY <1>1 DEF ListsOnce, IsInjective
<1>3. LiveBlocks = {} /\ CallBlock = {} /\ ~inited /\ pc = "idle"
  BY DEF Init, LiveBlocks, CallBlock
<1>4. \A x \in AllBlocks : FieldsOf(node_status)[x] = 0
  <2> SUFFICES ASSUME NEW x \in AllBlocks PROVE Field(node_status, NodeOf(x)) = 0
    BY DEF FieldsOf
  <2>1. node_status \in BytesOf /\ NodeOf(x) \in Nodes
    BY InitIInv, StatusBytes, FieldsAre
  <2>2. node_status[NodeOf(x) \div 4] = 0 /\ One(NodeOf(x)) \in {1, 4, 16, 64}
    BY <2>1, ByteOfNode, Weights DEF Init
  <2>3. 0 \div One(NodeOf(x)) = 0
    BY <2>2
  <2> QED
    BY <2>2, <2>3 DEF Field
<1> QED
  BY <1>1, <1>2, <1>3, <1>4 DEF BInv

\* Steps that change no block.
LEMMA LocalBInv ==
  ASSUME IInv, BInv, UNCHANGED <<heap, live>>, pc \notin {"carve", "mark", "merge"},
         pc' \in {"search", "null", "idle"}, pc' = "search" => orig' # 0
  PROVE  BInv'
<1>1. CallBlock = {} /\ CallBlock' = {} /\ LiveBlocks' = LiveBlocks /\ FreeBlocks' = FreeBlocks
  BY DEF CallBlock, LiveBlocks, FreeBlocks, heap
<1>2. InHand' = InHand /\ Marked' = Marked /\ Unsettled' = {} /\ Unsettled = {}
  BY <1>1 DEF InHand, Marked, Unsettled
<1>3. UNCHANGED <<inited, bucket_limit, buckets, node_status>>
  BY DEF heap
<1>4. ListsOnce'
  BY <1>3 DEF BInv, ListsOnce
<1>5. inited' => Kept(FieldsOf(node_status), FreeBlocks, InHand, Marked, Unsettled, bucket_limit)'
  BY <1>1, <1>2, <1>3 DEF BInv
<1> QED
  BY <1>1, <1>3, <1>4, <1>5 DEF BInv

LEMMA MallocBInv == ASSUME KeepsOne, IInv, BInv, NEW n \in Requests, Malloc(n) PROVE BInv'
<1>1. pc = "idle" /\ pc' = "search" /\ live' = live /\ Setup /\ n <= MAX_ALLOC
  BY DEF Malloc
<1>2. orig' # 0
  <2> SUFFICES ASSUME orig' = 0 PROVE FALSE
    OBVIOUS
  <2>1. IsBucketFor(0, n)
    BY DEF Malloc
  <2>2. 0 # Smallest /\ 1 \in Buckets
    BY Positive DEF Buckets, Smallest
  <2>3. Bytes(1) < n
    BY <2>1, <2>2 DEF IsBucketFor
  <2>4. n \in Int /\ Bytes(1) \in Int /\ MAX_ALLOC \in Int
    <3>1. n \in Int
      BY BuddyMalloc2Assumption, BuddyTreeAssumption
    <3>2. 0 \in Buckets /\ MIN_ALLOC \in Int /\ Size(0) \in Int /\ Size(1) \in Int
      BY <2>2, Positive DEF Buckets
    <3> QED
      BY <3>1, <3>2 DEF Bytes, MAX_ALLOC
  <2> QED
    BY <2>3, <2>4, <1>1 DEF KeepsOne
<1>3. CASE inited
  <2>1. UNCHANGED heap
    BY <1>1, <1>3 DEF Setup
  <2> QED
    BY <1>1, <1>2, <2>1, LocalBInv
<1>4. CASE ~inited
  <2>1. /\ inited' /\ bucket_limit' = Smallest /\ buckets' = [buckets EXCEPT ![Smallest] = <<0>>]
        /\ node_status' = node_status
    BY <1>1, <1>4 DEF Setup
  <2>2. /\ LiveBlocks' = {} /\ CallBlock' = {}
    <3>1. live' = [p \in {} |-> 0]
      BY <1>1, <1>4 DEF IInv, Fresh
    <3> QED
      BY <3>1, <1>1 DEF LiveBlocks, CallBlock
  <2>3. \A b \in Buckets : buckets'[b] = IF b = Smallest THEN <<0>> ELSE <<>>
    BY <1>4, <2>1 DEF BInv, IInv, TypeOK
  <2>4. ListsOnce'
    BY <2>3 DEF ListsOnce, IsInjective
  <2>5. FreeBlocks' = {Root(Smallest)}
    <3>1. ToSet(<<0>>) = {0} /\ ToSet(<<>>) = {}
      BY DEF ToSet
    <3>2. \A b \in Buckets : ToSet(buckets'[b]) = IF b = Smallest THEN {0} ELSE {}
      BY <2>3, <3>1
    <3> QED
      BY <3>2, Positive DEF FreeBlocks, Root
  <2>6. Kept(FieldsOf(node_status), {Root(Smallest)}, {}, {}, {}, Smallest)
    <3>1. FieldsOf(node_status) \in [AllBlocks -> 0 .. 3]
      BY StatusBytes, FieldsAre
    <3> QED
      BY <3>1, <1>4, FreePoolFields, Positive DEF BInv
  <2>7. InHand' = {} /\ Marked' = {} /\ Unsettled' = {}
    BY <2>2 DEF InHand, Marked, Unsettled
  <2>8. inited' => Kept(FieldsOf(node_status), FreeBlocks, InHand, Marked, Unsettled, bucket_limit)'
    BY <2>1, <2>5, <2>6, <2>7
  <2> QED
    BY <1>1, <1>2, <2>1, <2>2, <2>4, <2>8 DEF BInv
<1> QED
  BY <1>3, <1>4

\* What the fields say before and after a step of malloc_2 that holds a block or none.
LEMMA Fields == IInv /\ BInv /\ inited =>
                  Kept(FieldsOf(node_status), FreeBlocks, InHand, Marked, Unsettled, bucket_limit)
  BY DEF BInv

LEMMA PopBInv == ASSUME IInv, BInv, Pop PROVE BInv'
<1>1. /\ buckets[bucket] # <<>> /\ pc \in {"search", "pop"} /\ bucket \in Buckets /\ inited
      /\ bucket_limit \in Buckets
  BY DEF Pop, Popping, IInv, TypeOK, Fresh
<1>2. /\ buckets' = [buckets EXCEPT ![bucket] = Front(buckets[bucket])]
      /\ node' = node_for_ptr(Popped, bucket)
      /\ node_status' = IF node' = 0 THEN node_status ELSE parent_inc_status(node_status, node')
      /\ pc' = "carve" /\ UNCHANGED <<inited, bucket_limit, live, bucket, orig>>
  BY DEF Pop
<1> DEFINE x == <<Popped, bucket>>
           f == FieldsOf(node_status)
<1>3. /\ Popped \in ToSet(buckets[bucket]) /\ IsInjective(Front(buckets[bucket]))
      /\ ToSet(Front(buckets[bucket])) = ToSet(buckets[bucket]) \ {Popped}
  <2>1. buckets[bucket] \in Seq(0 .. Units - 1) /\ IsInjective(buckets[bucket])
    BY <1>1 DEF IInv, TypeOK, BInv, ListsOnce
  <2> QED
    BY <1>1, <2>1, ListPop DEF Popped
<1>4. x \in FreeBlocks /\ FreeBlocks' = FreeBlocks \ {x} /\ ListsOnce'
  BY <1>1, <1>2, <1>3, Unlinks DEF BInv
<1>5. InHand = LiveBlocks /\ Marked = LiveBlocks /\ Unsettled = {}
      /\ Kept(f, FreeBlocks, InHand, LiveBlocks, {}, bucket_limit)
  BY <1>1, NoCall, Fields
<1>6. x \in AllBlocks /\ x[2] = bucket /\ NodeOf(x) = node' /\ x \notin InHand
  <2>1. x \in AllBlocks /\ x \notin InHand
    BY <1>1, <1>4, <1>5, TidyTiles DEF Kept
  <2> QED
    BY <2>1, <1>2 DEF NodeOf
<1>7. node' \in LevelOf(bucket) /\ ptr_for_node(node', bucket) = Popped
      /\ (node' = 0 <=> bucket = 0)
  BY <1>1, <1>6, NodeOfBlock, LevelNodes
<1>8. CallBlock' = {x} /\ LiveBlocks' = LiveBlocks
  BY <1>2, <1>7, LiveKept DEF CallBlock
<1> HIDE DEF x
<1>9. Kept(FieldsOf(node_status'), FreeBlocks \ {x}, InHand \union {x}, LiveBlocks, {}, bucket_limit)
  <2>1. CASE node' = 0
    <3>1. x[2] = 0 /\ node_status' = node_status
      BY <2>1, <1>2, <1>6, <1>7
    <3> QED
      BY <3>1, <1>1, <1>4, <1>5, KeptTakeHeap
  <2>2. CASE node' # 0
    <3>1. PICK z \in AllBlocks : /\ z[2] # Smallest /\ NodeOf(z) = Parent(NodeOf(x))
                                /\ {x, Twin(x)} = {LeftOf(z), RightOf(z)}
      BY <2>2, <1>6, <1>7, UpOf
    <3>2. x \in {LeftOf(z), RightOf(z)}
      BY <3>1
    <3>3. f[z] + 1 \in 0 .. 3
          /\ Kept(Bumped(f, z, 1), FreeBlocks \ {x}, InHand \union {x}, LiveBlocks, {}, bucket_limit)
      <4> HIDE DEF f
      <4> QED
        BY <3>1, <3>2, <1>1, <1>4, <1>5, KeptTake
    <3>4. node_status' = AddTo(node_status, NodeOf(z), 1)
      BY <2>2, <3>1, <1>2, <1>6 DEF parent_inc_status
    <3>5. 1 \in Int
      OBVIOUS
    <3>6. FieldsOf(AddTo(node_status, NodeOf(z), 1)) = Bumped(f, z, 1)
      BY <3>3, <3>5, StatusBytes, FieldsAdd
    <3> QED
      BY <3>3, <3>4, <3>6
  <2> QED
    BY <2>1, <2>2
<1>10. InHand' = InHand \union {x} /\ Marked' = LiveBlocks /\ Unsettled' = {}
       /\ LiveBlocks' \intersect CallBlock' = {}
  BY <1>2, <1>5, <1>6, <1>8 DEF InHand, Marked, Unsettled
<1>11. inited' => Kept(FieldsOf(node_status), FreeBlocks, InHand, Marked, Unsettled, bucket_limit)'
  BY <1>2, <1>4, <1>9, <1>10
<1> QED
  BY <1>1, <1>2, <1>4, <1>10, <1>11 DEF BInv

\* The block that was popped is pushed back: the lists are what they were.
LEMMA PopDeniedBInv == ASSUME IInv, BInv, PopDenied PROVE BInv'
<1>1. /\ buckets[bucket] # <<>> /\ bucket \in Buckets /\ pc \in {"search", "pop"} /\ pc' = "null"
      /\ buckets' = [buckets EXCEPT ![bucket] = list_push(Front(buckets[bucket]), Popped)]
      /\ UNCHANGED <<inited, max_ptr, bucket_limit, node_status, live>>
  BY DEF PopDenied, Popping, IInv, TypeOK
<1>2. list_push(Front(buckets[bucket]), Popped) = buckets[bucket]
  <2>1. buckets[bucket] \in Seq(0 .. Units - 1) /\ IsInjective(buckets[bucket])
    BY <1>1 DEF IInv, TypeOK, BInv, ListsOnce
  <2> QED
    BY <1>1, <2>1, ListPop DEF Popped
<1>3. buckets' = buckets
  BY <1>1, <1>2 DEF IInv, TypeOK
<1> QED
  BY <1>1, <1>3, LocalBInv DEF heap

LEMMA SplitBInv == ASSUME IInv, BInv, Split PROVE BInv'
<1>1. /\ pc = "carve" /\ bucket < orig /\ node' = Left(node) /\ bucket' = bucket + 1
      /\ node_status' = parent_inc_status(node_status, node')
      /\ buckets' = [buckets EXCEPT ![bucket'] = list_push(buckets[bucket'],
                                                           ptr_for_node(node' + 1, bucket'))]
      /\ UNCHANGED <<inited, bucket_limit, live, orig, pc>>
  BY DEF Split
<1> DEFINE z == Here
           x == LeftOf(z)
           y == RightOf(z)
           f == FieldsOf(node_status)
<1>2. /\ CallBlock = {z} /\ z \in AllBlocks /\ z[2] = bucket /\ NodeOf(z) = node /\ inited
      /\ z[1] = ptr_for_node(node, bucket)
      /\ bucket \in Buckets /\ bucket_limit \in Buckets /\ z \notin LiveBlocks
  BY <1>1, CallHere DEF BInv
<1>3. bucket # Smallest /\ bucket + 1 \in Buckets /\ bucket + 1 # 0
  <2>1. bucket # Smallest
    BY <1>1, Numbers
  <2> QED
    BY <2>1, <1>2, Halving, Numbers
<1>4. /\ node \in LevelOf(bucket) /\ node' \in LevelOf(bucket') /\ node' + 1 = Right(node)
      /\ ptr_for_node(node', bucket') = z[1]
      /\ ptr_for_node(node' + 1, bucket') = z[1] + Size(bucket')
  <2>1. node \in LevelOf(bucket)
    BY <1>2, NodeOfBlock
  <2>2. node \in Nat /\ Right(node) = Left(node) + 1
    BY <1>2, <2>1, LevelNodes DEF Left, Right
  <2> QED
    BY <1>1, <1>2, <1>3, <2>1, <2>2, ChildrenOf
<1>5. x = <<ptr_for_node(node', bucket'), bucket'>> /\ y = <<ptr_for_node(node' + 1, bucket'), bucket'>>
  BY <1>1, <1>2, <1>4 DEF LeftOf, RightOf
<1>6. x \in AllBlocks /\ y \in AllBlocks /\ x[2] = bucket' /\ NodeOf(x) = node' /\ Parent(NodeOf(x)) = NodeOf(z)
  <2>1. <<ptr_for_node(node', bucket'), bucket'>> \in AllBlocks
        /\ NodeOf(<<ptr_for_node(node', bucket'), bucket'>>) = node'
    BY <1>1, <1>3, <1>4, BlockOfNode
  <2> QED
    BY <2>1, <1>2, <1>3, <1>5, Halves, TwinHalves
<1> HIDE DEF f
<1>7. /\ z \in InHand /\ Marked = LiveBlocks /\ Unsettled = {}
      /\ Kept(f, FreeBlocks, InHand, LiveBlocks, {}, bucket_limit)
  <2>1. Marked = LiveBlocks /\ Unsettled = {}
    BY <1>1 DEF Marked, Unsettled
  <2> QED
    BY <2>1, <1>2, Fields DEF InHand, f
<1>8. /\ f[z] + 1 \in 0 .. 3 /\ y \notin FreeBlocks /\ x \notin InHand
      /\ Kept(Bumped(f, z, 1), FreeBlocks \union {y}, (InHand \ {z}) \union {x}, LiveBlocks, {}, bucket_limit)
  BY <1>2, <1>3, <1>7, KeptSplit
<1>9. FieldsOf(node_status') = Bumped(f, z, 1)
  <2>1. node_status' = AddTo(node_status, NodeOf(z), 1) /\ 1 \in Int
    BY <1>1, <1>6 DEF parent_inc_status
  <2> QED
    BY <2>1, <1>2, <1>8, StatusBytes, FieldsAdd DEF f
<1>10. FreeBlocks' = FreeBlocks \union {y} /\ ListsOnce'
  <2>1. y[1] \in 0 .. Units - 1 /\ y[1] = ptr_for_node(node' + 1, bucket') /\ y = <<y[1], bucket'>>
    BY <1>5, <1>6 DEF AllBlocks
  <2> QED
    BY <2>1, <1>1, <1>3, <1>8, Links DEF BInv
<1>11. CallBlock' = {x} /\ LiveBlocks' = LiveBlocks
  BY <1>1, <1>5, LiveKept DEF CallBlock
<1> HIDE DEF x, y, z
<1>12. InHand' = (InHand \ {z}) \union {x} /\ LiveBlocks' \intersect CallBlock' = {}
       /\ Marked' = LiveBlocks /\ Unsettled' = {}
  BY <1>1, <1>2, <1>8, <1>11 DEF InHand, Marked, Unsettled
<1>13. inited' => Kept(FieldsOf(node_status), FreeBlocks, InHand, Marked, Unsettled, bucket_limit)'
  BY <1>1, <1>8, <1>9, <1>10, <1>12
<1> QED
  BY <1>1, <1>2, <1>10, <1>12, <1>13 DEF BInv

LEMMA MarkBlockBInv == ASSUME IInv, BInv, MarkBlock PROVE BInv'
<1> DEFINE x == Here
           f == FieldsOf(node_status)
<1>1. /\ pc = "carve" /\ bucket = orig /\ node_status' = node_set_status(node_status, node, USED)
      /\ up' = (IF node = 0 THEN 0 ELSE Parent(node)) /\ pc' = IF node = 0 THEN "undefined" ELSE "mark"
      /\ UNCHANGED <<inited, bucket_limit, buckets, live, bucket, orig, node>>
  BY DEF MarkBlock
<1>2. /\ CallBlock = {x} /\ x \in AllBlocks /\ x[2] = bucket /\ NodeOf(x) = node /\ inited
      /\ (node = 0 <=> bucket = 0) /\ bucket \in Buckets /\ bucket_limit \in Buckets /\ x \notin LiveBlocks
  BY <1>1, CallHere DEF BInv
<1>3. node # 0 /\ pc' = "mark" /\ up' = Parent(node)
  BY <1>1, <1>2 DEF BInv
<1>4. \E b \in Buckets : b # Smallest /\ up' \in LevelOf(b)
  <2>1. bucket \in Nat /\ bucket <= Smallest /\ Smallest \in Nat /\ bucket # 0
    BY <1>2, <1>3, Numbers
  <2>2. bucket - 1 \in Buckets /\ Parent(node) \in LevelOf(bucket - 1)
    BY <1>2, <2>1, NodeOfBlock, ParentOf
  <2>3. bucket - 1 # Smallest
    BY <2>1
  <2> QED
    BY <2>2, <2>3, <1>3
<1> HIDE DEF f, x
<1>5. x \in InHand /\ Kept(f, FreeBlocks, InHand, LiveBlocks, {}, bucket_limit)
  <2>1. Marked = LiveBlocks /\ Unsettled = {}
    BY <1>1 DEF Marked, Unsettled
  <2> QED
    BY <2>1, <1>2, Fields DEF InHand, f
<1>6. Kept(Put(f, x, 2), FreeBlocks, InHand, LiveBlocks \union {x}, {}, bucket_limit)
  BY <1>2, <1>5, KeptMark
<1>7. FieldsOf(node_status') = Put(f, x, 2)
  <2>1. FieldsOf(node_set_status(node_status, NodeOf(x), USED)) = Put(f, x, USED)
    BY <1>2, StatusBytes, FieldsSet DEF f
  <2> QED
    BY <2>1, <1>1, <1>2 DEF USED
<1>8. CallBlock' = {x} /\ LiveBlocks' = LiveBlocks /\ FreeBlocks' = FreeBlocks
  BY <1>1, <1>2, <1>3, LiveKept DEF CallBlock, FreeBlocks, Here, x
<1>9. InHand' = InHand /\ Marked' = LiveBlocks \union {x} /\ Unsettled' = {}
  BY <1>2, <1>3, <1>8 DEF InHand, Marked, Unsettled
<1>10. inited' => Kept(FieldsOf(node_status), FreeBlocks, InHand, Marked, Unsettled, bucket_limit)'
  BY <1>1, <1>6, <1>7, <1>8, <1>9
<1>11. LiveBlocks' \intersect CallBlock' = {} /\ ListsOnce'
  BY <1>1, <1>2, <1>8 DEF BInv, ListsOnce
<1> QED
  BY <1>1, <1>2, <1>3, <1>4, <1>10, <1>11 DEF BInv

\* The walk over the ancestors changes nothing: those it marks USED are already.
LEMMA MarkAncestorBInv == ASSUME IInv, BInv, MarkAncestor PROVE BInv'
<1> DEFINE f == FieldsOf(node_status)
<1>1. /\ pc = "mark" /\ up # 0 /\ BothUsed(up) /\ up' = Parent(up)
      /\ node_status' = node_set_status(node_status, up, USED)
      /\ UNCHANGED <<inited, bucket_limit, buckets, live, pc, bucket, orig, node>>
  BY DEF MarkAncestor
<1>2. PICK b \in Buckets : b # Smallest /\ up \in LevelOf(b)
  BY <1>1 DEF BInv
<1> DEFINE z == <<ptr_for_node(up, b), b>>
<1>3. z \in AllBlocks /\ NodeOf(z) = up /\ z[1] = ptr_for_node(up, b) /\ z[2] = b
  BY <1>2, BlockOfNode
<1>4. NodeOf(LeftOf(z)) = Left(up) /\ NodeOf(RightOf(z)) = Right(up)
      /\ LeftOf(z) \in AllBlocks /\ RightOf(z) \in AllBlocks
  <2>1. /\ Left(up) \in LevelOf(b + 1) /\ Right(up) \in LevelOf(b + 1) /\ b + 1 \in Buckets
        /\ LeftOf(z) = <<ptr_for_node(Left(up), b + 1), b + 1>>
        /\ RightOf(z) = <<ptr_for_node(Right(up), b + 1), b + 1>>
    BY <1>2, <1>3, ChildrenOf, Halving DEF LeftOf, RightOf
  <2> QED
    BY <2>1, BlockOfNode
<1> HIDE DEF z, f
<1>5. f \in [AllBlocks -> 0 .. 3] /\ \A x \in AllBlocks : f[x] = Field(node_status, NodeOf(x))
  BY StatusBytes, FieldsAre DEF f
<1>6. f[LeftOf(z)] = 2 /\ f[RightOf(z)] = 2
  BY <1>1, <1>4, <1>5 DEF BothUsed, get_node_status, USED
<1>7. Kept(f, FreeBlocks, InHand, Marked, {}, bucket_limit) /\ bucket_limit \in Buckets
  BY <1>1, CallHere, Fields DEF Unsettled, f
<1>8. f[z] = 2
  BY <1>2, <1>3, <1>6, <1>7, KeptBothUsed
<1>9. FieldsOf(node_status') = f
  <2>1. FieldsOf(node_set_status(node_status, NodeOf(z), USED)) = Put(f, z, USED)
    BY <1>3, StatusBytes, FieldsSet DEF f
  <2>2. Put(f, z, USED) = f
    BY <1>5, <1>8 DEF Put, USED
  <2> QED
    BY <2>1, <2>2, <1>1, <1>3
<1>10. \E c \in Buckets : c # Smallest /\ up' \in LevelOf(c)
  <2>1. b # 0 /\ b \in Nat /\ b <= Smallest /\ Smallest \in Nat
    BY <1>1, <1>2, LevelNodes, Positive DEF Buckets, Smallest
  <2>2. b - 1 \in Buckets /\ Parent(up) \in LevelOf(b - 1)
    BY <1>2, <2>1, ParentOf
  <2>3. b - 1 # Smallest
    BY <2>1
  <2> QED
    BY <2>2, <2>3, <1>1
<1>11. CallBlock' = CallBlock /\ LiveBlocks' = LiveBlocks /\ FreeBlocks' = FreeBlocks
  BY <1>1, LiveKept DEF CallBlock, FreeBlocks
<1>12. InHand' = InHand /\ Marked' = Marked /\ Unsettled' = {} /\ Unsettled = {}
  BY <1>1, <1>11 DEF InHand, Marked, Unsettled
<1>13. inited' => Kept(FieldsOf(node_status), FreeBlocks, InHand, Marked, Unsettled, bucket_limit)'
  BY <1>1, <1>7, <1>9, <1>11, <1>12
<1>14. inited' /\ ListsOnce'
  BY <1>1, CallHere DEF BInv, ListsOnce
<1> QED
  BY <1>1, <1>10, <1>11, <1>13, <1>14 DEF BInv

\* The block in the call's hands passes to the caller.
LEMMA HandsOut ==
  ASSUME IInv, BInv, ReturnBlock
  PROVE  LiveBlocks' = LiveBlocks \union {Here} /\ Here \notin LiveBlocks
<1> DEFINE q == ptr_for_node(node, bucket)
<1>1. /\ pc = "mark" /\ pc' = "idle"
      /\ DOMAIN live' = DOMAIN live \union {q} /\ live'[q] = bucket
      /\ \A p \in DOMAIN live : p # q => live'[p] = live[p]
  BY DEF ReturnBlock
<1>2. /\ CallBlock = {Here} /\ Here \in AllBlocks /\ Here = <<q, bucket>> /\ Here[1] = q
      /\ inited /\ bucket_limit \in Buckets
  BY <1>1, CallHere DEF Here
<1>3. Here \notin LiveBlocks
  BY <1>2 DEF BInv
<1>4. q \notin DOMAIN live
  <2> SUFFICES ASSUME q \in DOMAIN live PROVE FALSE
    OBVIOUS
  <2>1. <<q, live[q]>> \in LiveBlocks
    BY DEF LiveBlocks
  <2>2. <<q, live[q]>> \in InHand /\ Here \in InHand
    BY <2>1, <1>2 DEF InHand
  <2>3. Tiling(FreeBlocks \union InHand, Size(bucket_limit))
    BY <1>2, TidyTiles DEF BInv, Kept
  <2>4. q \in At(<<q, live[q]>>) /\ q \in At(Here)
    <3>1. <<q, live[q]>> \in AllBlocks
      BY <2>2, <2>3 DEF Tiling
    <3> QED
      BY <3>1, <1>2, BlockFacts
  <2>5. <<q, live[q]>> = Here
    BY <2>2, <2>3, <2>4 DEF Tiling
  <2> QED
    BY <2>1, <2>5, <1>3
<1> HIDE DEF q
<1>5. LiveBlocks' = LiveBlocks \union {Here}
  <2>1. LiveBlocks' = {<<p, live'[p]>> : p \in DOMAIN live'}
    BY DEF LiveBlocks
  <2>2. ASSUME NEW x \in LiveBlocks' PROVE x \in LiveBlocks \union {Here}
    <3>1. PICK p \in DOMAIN live' : x = <<p, live'[p]>>
      BY <2>1
    <3> QED
      BY <3>1, <1>1, <1>2 DEF LiveBlocks
  <2>3. ASSUME NEW x \in LiveBlocks \union {Here} PROVE x \in LiveBlocks'
    <3>1. CASE x = Here
      BY <3>1, <2>1, <1>1, <1>2
    <3>2. CASE x \in LiveBlocks
      <4>1. PICK p \in DOMAIN live : x = <<p, live[p]>>
        BY <3>2 DEF LiveBlocks
      <4>2. p # q
        BY <1>4
      <4> QED
        BY <4>1, <4>2, <2>1, <1>1
    <3> QED
      BY <2>3, <3>1, <3>2
  <2> QED
    BY <2>2, <2>3
<1> QED
  BY <1>3, <1>5

LEMMA ReturnBlockBInv == ASSUME IInv, BInv, ReturnBlock PROVE BInv'
<1>1. pc = "mark" /\ pc' = "idle" /\ UNCHANGED <<inited, bucket_limit, buckets, node_status>>
  BY DEF ReturnBlock, heap
<1>2. CallBlock = {Here} /\ inited
  BY <1>1, CallHere
<1>3. LiveBlocks' = LiveBlocks \union {Here}
  BY HandsOut
<1>4. CallBlock' = {} /\ FreeBlocks' = FreeBlocks
  BY <1>1 DEF CallBlock, FreeBlocks
<1>5. InHand' = InHand /\ Marked' = Marked /\ Unsettled' = {} /\ Unsettled = {}
  BY <1>1, <1>2, <1>3, <1>4 DEF InHand, Marked, Unsettled
<1>6. inited' => Kept(FieldsOf(node_status), FreeBlocks, InHand, Marked, Unsettled, bucket_limit)'
  BY <1>1, <1>4, <1>5 DEF BInv
<1> QED
  BY <1>1, <1>2, <1>4, <1>6 DEF BInv, ListsOnce

\* The search of free_2 finds the size the block was given.
LEMMA FoundSize ==
  ASSUME IInv, BInv, pc = "idle", NEW p \in DOMAIN live
  PROVE  /\ bucket_for_alloced_pointer(p) = live[p] /\ live[p] \in Buckets /\ p \in Starts(live[p])
         /\ <<p, live[p]>> \in LiveBlocks /\ inited
<1> DEFINE c == live[p]
           x == <<p, c>>
           f == FieldsOf(node_status)
           l == bucket_limit
           used == {b \in bucket_limit .. Smallest : get_node_status(node_for_ptr(p, b)) = USED}
<1>1. c \in Buckets /\ p \in Starts(c) /\ x \in LiveBlocks /\ inited /\ l \in Buckets
  BY DEF IInv, LivePlaced, Held, LiveBlocks, Fresh, TypeOK
<1>2. Kept(f, FreeBlocks, InHand, LiveBlocks, {}, l)
  BY <1>1, NoCall, Fields
<1>3. f[x] = 2 /\ x[2] >= l /\ \A w \in AllBlocks : w[1] = x[1] /\ w[2] > x[2] => f[w] = 0
  <2> HIDE DEF f, x
  <2> QED
    BY <1>1, <1>2, KeptFind
<1>4. \A w \in AllBlocks : f[w] = Field(node_status, NodeOf(w))
  BY StatusBytes, FieldsAre
<1>5. \A b \in Buckets : c <= b => <<p, b>> \in AllBlocks /\ NodeOf(<<p, b>>) = node_for_ptr(p, b)
  BY <1>1, StartsWithin, MakeBlock DEF NodeOf
<1> HIDE DEF f
<1>6. c \in Nat /\ l \in Nat /\ c \in l .. Smallest /\ l .. Smallest \subseteq Buckets /\ l .. Smallest \subseteq Nat
  <2>1. c \in Nat /\ l \in Nat /\ c <= Smallest /\ Smallest \in Nat /\ c >= l
    BY <1>1, <1>3, Positive DEF Buckets, Smallest
  <2> QED
    BY <2>1, Positive DEF Buckets, Smallest
<1>7. c \in used
  <2>1. get_node_status(node_for_ptr(p, c)) = f[x]
    BY <1>1, <1>4, <1>5, <1>6 DEF get_node_status
  <2> QED
    BY <2>1, <1>3, <1>6 DEF USED
<1>8. ASSUME NEW b \in used PROVE b <= c
  <2> SUFFICES ASSUME ~(b <= c) PROVE FALSE
    OBVIOUS
  <2>1. b \in Buckets /\ b \in Nat /\ b > c /\ get_node_status(node_for_ptr(p, b)) = 2
    BY <1>6, <1>8 DEF USED
  <2>2. <<p, b>> \in AllBlocks /\ NodeOf(<<p, b>>) = node_for_ptr(p, b)
    BY <2>1, <1>5, <1>6
  <2>3. f[<<p, b>>] = 0
    BY <2>1, <2>2, <1>3
  <2>4. f[<<p, b>>] = get_node_status(node_for_ptr(p, b))
    BY <2>2, <1>4 DEF get_node_status
  <2> QED
    BY <2>1, <2>3, <2>4
<1>9. bucket_for_alloced_pointer(p) = Max(used)
  <2>1. used # {}
    BY <1>7
  <2> QED
    BY <2>1 DEF bucket_for_alloced_pointer
<1>10. Max(used) = c
  <2>1. used \subseteq Nat
    BY <1>6
  <2> DEFINE m == CHOOSE m \in used : \A y \in used : m >= y
  <2>2. Max(used) = m
    BY DEF Max
  <2> HIDE DEF used, c
  <2>3. c \in used /\ \A y \in used : c >= y
    BY <1>6, <1>7, <1>8, <2>1
  <2>4. m \in used /\ \A y \in used : m >= y
    BY <2>3
  <2> HIDE DEF m
  <2>5. m >= c /\ c >= m /\ m \in Nat /\ c \in Nat
    BY <2>1, <2>3, <2>4
  <2> QED
    BY <2>2, <2>5
<1> QED
  BY <1>1, <1>9, <1>10

\* The block passes from the caller to the call.
LEMMA TakesBack ==
  ASSUME IInv, BInv, NEW p \in DOMAIN live, Free(p)
  PROVE  \E x : /\ x \in LiveBlocks /\ x \notin LiveBlocks' /\ LiveBlocks = LiveBlocks' \union {x}
               /\ CallBlock = {} /\ CallBlock' = {x} /\ FreeBlocks' = FreeBlocks /\ pc' = "merge"
               /\ inited
<1> DEFINE c == live[p]
           x == <<p, c>>
<1>1. /\ pc = "idle" /\ bucket_for_alloced_pointer(p) = c /\ c \in Buckets /\ p \in Starts(c)
      /\ x \in LiveBlocks /\ inited /\ c # -1
  <2>1. pc = "idle"
    BY DEF Free
  <2> QED
    BY <2>1, FoundSize, Positive
<1>2. /\ bucket' = c /\ node' = node_for_ptr(p, c) /\ pc' = "merge"
      /\ DOMAIN live' = DOMAIN live \ {p}
      /\ \A q \in DOMAIN live' : live'[q] = live[q]
      /\ UNCHANGED <<inited, bucket_limit, buckets, node_status>>
  BY <1>1 DEF Free, heap
<1>3. ptr_for_node(node', c) = p
  BY <1>1, <1>2, NodeOfPtr
<1>4. CallBlock = {} /\ CallBlock' = {x} /\ FreeBlocks' = FreeBlocks
  BY <1>1, <1>2, <1>3 DEF CallBlock, FreeBlocks
<1>5. LiveBlocks = LiveBlocks' \union {x} /\ x \notin LiveBlocks'
  <2>1. LiveBlocks' = {<<q, live'[q]>> : q \in DOMAIN live'}
    BY DEF LiveBlocks
  <2>2. ASSUME NEW w \in LiveBlocks PROVE w \in LiveBlocks' \union {x}
    <3>1. PICK q \in DOMAIN live : w = <<q, live[q]>>
      BY DEF LiveBlocks
    <3> QED
      BY <3>1, <2>1, <1>2
  <2>3. ASSUME NEW w \in LiveBlocks' PROVE w \in LiveBlocks /\ w # x
    <3>1. PICK q \in DOMAIN live' : w = <<q, live'[q]>>
      BY <2>1
    <3> QED
      BY <3>1, <1>2 DEF LiveBlocks
  <2> QED
    BY <2>2, <2>3, <1>1
<1> QED
  BY <1>1, <1>2, <1>4, <1>5

LEMMA FreeBInv == ASSUME KeepsOne, IInv, BInv, NEW p \in DOMAIN live, Free(p) PROVE BInv'
<1>1. /\ pc = "idle" /\ UNCHANGED <<inited, bucket_limit, buckets, node_status>> /\ DOMAIN live # {p}
      /\ live' = [q \in DOMAIN live \ {p} |-> live[q]]
  BY DEF Free, heap, KeepsOne
<1>2. PICK x : /\ x \in LiveBlocks /\ LiveBlocks = LiveBlocks' \union {x} /\ x \notin LiveBlocks'
               /\ CallBlock = {} /\ CallBlock' = {x} /\ FreeBlocks' = FreeBlocks /\ pc' = "merge"
               /\ inited
  BY TakesBack
<1>3. LiveBlocks' # {}
  <2>1. PICK q \in DOMAIN live : q # p
    BY <1>1
  <2>2. <<q, live'[q]>> \in LiveBlocks'
    BY <2>1, <1>1 DEF LiveBlocks
  <2> QED
    BY <2>2
<1>4. InHand' = InHand /\ LiveBlocks' \intersect CallBlock' = {} /\ Marked' = LiveBlocks \ {x}
      /\ Unsettled' = {x}
  BY <1>2 DEF InHand, Marked, Unsettled
<1>5. Kept(FieldsOf(node_status), FreeBlocks, InHand, LiveBlocks \ {x}, {x}, bucket_limit)
  <2>1. Kept(FieldsOf(node_status), FreeBlocks, InHand, LiveBlocks, {}, bucket_limit)
    BY <1>1, <1>2, NoCall, Fields
  <2>2. bucket_limit \in Buckets
    BY DEF IInv, TypeOK
  <2> QED
    BY <2>1, <2>2, KeptFree
<1>6. inited' => Kept(FieldsOf(node_status), FreeBlocks, InHand, Marked, Unsettled, bucket_limit)'
  BY <1>1, <1>2, <1>4, <1>5
<1> QED
  BY <1>1, <1>2, <1>3, <1>4, <1>6 DEF BInv, ListsOnce

\* What free_2 sees when it has cleared the field of its block.
LEMMA ClearedFields ==
  ASSUME IInv, BInv, pc = "merge"
  PROVE  /\ Kept(FieldsOf(Cleared), FreeBlocks, InHand, LiveBlocks, {}, bucket_limit)
         /\ InHand = LiveBlocks \union {Here} /\ Here \notin LiveBlocks /\ Here \in AllBlocks /\ inited
         /\ LiveBlocks # {} /\ Here[2] # bucket_limit /\ node # 0 /\ bucket_limit \in Buckets
         /\ FieldsOf(Cleared)[Twin(Here)] = Field(Cleared, Buddy(node))
         /\ Cleared \in BytesOf
<1>1. /\ CallBlock = {Here} /\ Here \in AllBlocks /\ Here[2] = bucket /\ NodeOf(Here) = node /\ inited
      /\ (node = 0 <=> bucket = 0) /\ bucket_limit \in Buckets /\ Here \notin LiveBlocks
      /\ LiveBlocks # {}
  BY CallHere DEF BInv
<1>2. InHand = LiveBlocks \union {Here} /\ Marked = LiveBlocks /\ Unsettled = {Here}
  BY <1>1 DEF InHand, Marked, Unsettled
<1>3. Kept(FieldsOf(node_status), FreeBlocks, InHand, LiveBlocks, {Here}, bucket_limit)
  BY <1>1, <1>2, Fields
<1>4. Kept(Put(FieldsOf(node_status), Here, 0), FreeBlocks, InHand, LiveBlocks, {}, bucket_limit)
  <2>1. Here \in InHand
    BY <1>2
  <2> QED
    BY <2>1, <1>1, <1>3, KeptClear
<1>5. FieldsOf(Cleared) = Put(FieldsOf(node_status), Here, 0)
  <2>1. FieldsOf(node_set_status(node_status, NodeOf(Here), UNUSED)) = Put(FieldsOf(node_status), Here, UNUSED)
    BY <1>1, StatusBytes, FieldsSet
  <2> QED
    BY <2>1, <1>1 DEF UNUSED, Cleared
<1>6. Here[2] # bucket_limit
  <2> SUFFICES ASSUME Here[2] = bucket_limit PROVE FALSE
    OBVIOUS
  <2>1. Tidy(FreeBlocks, InHand, bucket_limit) /\ Here \in InHand
    BY <1>2, <1>3 DEF Kept
  <2>2. Here \in FreeBlocks \union InHand /\ Here[2] = bucket_limit
    BY <2>1
  <2>5. bucket_limit \in Buckets /\ Tidy(FreeBlocks, InHand, bucket_limit)
    BY <2>1, <1>1
  <2>3. \A w \in FreeBlocks \union InHand :
           /\ w \in AllBlocks /\ w[2] >= bucket_limit
           /\ w[2] = bucket_limit => w = Root(bucket_limit) /\ FreeBlocks \union InHand = {w}
    BY <2>5, TidyTiles, Zenon
  <2>4. FreeBlocks \union InHand = {Here}
    BY <2>2, <2>3
  <2> QED
    BY <2>4, <1>1, <1>2
<1>7. node # 0
  <2> SUFFICES ASSUME node = 0 PROVE FALSE
    OBVIOUS
  <2>1. bucket = 0 /\ bucket >= bucket_limit /\ bucket_limit \in Nat
    BY <1>1, MergeNode, Numbers
  <2> QED
    BY <2>1, <1>1, <1>6
<1>8. FieldsOf(Cleared)[Twin(Here)] = Field(Cleared, Buddy(node))
  <2>1. Twin(Here) \in AllBlocks /\ NodeOf(Twin(Here)) = Buddy(node)
    BY <1>1, <1>7, TwinTwin, BuddyNode
  <2> QED
    BY <2>1, ClearedBytes, FieldsAre
<1> QED
  BY <1>1, <1>2, <1>4, <1>5, <1>6, <1>7, <1>8, ClearedBytes

\* Merging ends: the block goes to its list.
LEMMA FreeStopBInv == ASSUME IInv, BInv, FreeStop PROVE BInv'
<1> DEFINE x == Here
           g == FieldsOf(Cleared)
<1>1. /\ pc = "merge" /\ pc' = "idle" /\ UNCHANGED <<inited, bucket_limit, live>> /\ StopsMerging
      /\ buckets' = [buckets EXCEPT ![bucket] = list_push(buckets[bucket], ptr_for_node(node, bucket))]
      /\ node_status' = parent_dec_status(Cleared, node)
  BY DEF FreeStop, PushFreed
<1>2. /\ CallBlock = {x} /\ x \in AllBlocks /\ x[2] = bucket /\ NodeOf(x) = node /\ inited
      /\ (node = 0 <=> bucket = 0) /\ bucket \in Buckets /\ bucket_limit \in Buckets
      /\ x = <<ptr_for_node(node, bucket), bucket>> /\ x[1] = ptr_for_node(node, bucket)
      /\ x \notin LiveBlocks
  BY <1>1, CallHere DEF BInv, Here
<1>3. /\ Kept(g, FreeBlocks, InHand, LiveBlocks, {}, bucket_limit) /\ x \in InHand /\ InHand # {x}
      /\ InHand \ {x} = LiveBlocks /\ g[Twin(x)] # 0 /\ node # 0 /\ Cleared \in BytesOf
  <2>1. Field(Cleared, Buddy(node)) # 0
    BY <1>1, <1>2, ClearedFields DEF StopsMerging, UNUSED
  <2> QED
    BY <2>1, <1>1, ClearedFields
<1>4. PICK z \in AllBlocks : /\ z[2] # Smallest /\ NodeOf(z) = Parent(NodeOf(x))
                            /\ {x, Twin(x)} = {LeftOf(z), RightOf(z)}
  BY <1>2, <1>3, UpOf
<1> HIDE DEF x, g
<1>5. /\ g[z] + (-1) \in 0 .. 3 /\ x \notin FreeBlocks
      /\ Kept(Bumped(g, z, -1), FreeBlocks \union {x}, InHand \ {x}, LiveBlocks, {}, bucket_limit)
  <2>1. x \in {LeftOf(z), RightOf(z)} /\ z \in AllBlocks /\ z[2] # Smallest
    BY <1>4
  <2>2. /\ bucket_limit \in Buckets /\ Kept(g, FreeBlocks, InHand, LiveBlocks, {}, bucket_limit)
        /\ x \in InHand /\ x \notin LiveBlocks /\ InHand # {x} /\ g[Twin(x)] # 0
    BY <1>2, <1>3
  <2>3. /\ g[z] + (-1) \in 0 .. 3 /\ x \notin FreeBlocks
        /\ Kept(Bumped(g, z, -1), FreeBlocks \union {x}, InHand \ {x}, LiveBlocks, {}, bucket_limit)
    BY <2>1, <2>2, KeptGive, Zenon
  <2> QED
    BY <2>3
<1>6. FieldsOf(node_status') = Bumped(g, z, -1)
  <2>1. node_status' = AddTo(Cleared, NodeOf(z), -1) /\ -1 \in Int
    BY <1>1, <1>2, <1>4 DEF parent_dec_status
  <2> QED
    BY <2>1, <1>3, <1>5, FieldsAdd DEF g
<1>7. FreeBlocks' = FreeBlocks \union {x} /\ ListsOnce'
  <2>1. ptr_for_node(node, bucket) \in 0 .. Units - 1
    BY <1>2 DEF AllBlocks
  <2>2. <<ptr_for_node(node, bucket), bucket>> \notin FreeBlocks /\ ListsOnce
    BY <1>2, <1>5 DEF BInv
  <2>3. FreeBlocks' = FreeBlocks \union {<<ptr_for_node(node, bucket), bucket>>} /\ ListsOnce'
    BY <2>1, <2>2, <1>1, <1>2, Links
  <2> QED
    BY <2>3, <1>2
<1>8. CallBlock' = {} /\ LiveBlocks' = LiveBlocks
  BY <1>1, LiveKept DEF CallBlock
<1>9. InHand' = InHand \ {x} /\ Marked' = LiveBlocks /\ Unsettled' = {}
  BY <1>1, <1>3, <1>8 DEF InHand, Marked, Unsettled
<1>10. inited' => Kept(FieldsOf(node_status), FreeBlocks, InHand, Marked, Unsettled, bucket_limit)'
  BY <1>1, <1>5, <1>6, <1>7, <1>9
<1> QED
  BY <1>1, <1>2, <1>7, <1>8, <1>10 DEF BInv

\* The buddy is unlinked from the list of its bucket, and only from that one.
LEMMA BuddyListed ==
  ASSUME IInv, BInv, pc = "merge", Field(Cleared, Buddy(node)) = 0
  PROVE  /\ Twin(Here) = <<BuddyPtr, bucket>> /\ Twin(Here) \in FreeBlocks /\ Linked(BuddyPtr)
         /\ \A b \in Buckets : b # bucket => BuddyPtr \notin ToSet(buckets[b])
         /\ \E z \in AllBlocks :
              /\ NodeOf(z) = Parent(node) /\ z[2] = bucket - 1 /\ z \notin FreeBlocks \union InHand
              /\ Kept(FieldsOf(Cleared), FreeBlocks \ {Twin(Here)}, LiveBlocks \union {z}, LiveBlocks, {z},
                      bucket_limit)
<1> DEFINE x == Here
           y == Twin(x)
           g == FieldsOf(Cleared)
<1>1. x[2] = bucket /\ NodeOf(x) = node /\ bucket \in Buckets
  BY CallHere
<1>2. /\ Kept(g, FreeBlocks, InHand, LiveBlocks, {}, bucket_limit) /\ bucket_limit \in Buckets
      /\ x \in InHand /\ InHand \ LiveBlocks = {x} /\ InHand \ {x} = LiveBlocks
      /\ x[2] # bucket_limit /\ g[y] = 0
  BY ClearedFields
<1> HIDE DEF g, x
<1>3. /\ y \in FreeBlocks
      /\ \E z \in AllBlocks :
           /\ NodeOf(z) = Parent(NodeOf(x)) /\ z[2] = x[2] - 1 /\ z \notin FreeBlocks \union InHand
           /\ Kept(g, FreeBlocks \ {y}, (InHand \ {x}) \union {z}, LiveBlocks, {z}, bucket_limit)
  <2>1. /\ bucket_limit \in Buckets /\ Kept(g, FreeBlocks, InHand, LiveBlocks, {}, bucket_limit)
        /\ x \in InHand /\ InHand \ LiveBlocks = {x} /\ x[2] # bucket_limit /\ g[Twin(x)] = 0
    BY <1>2
  <2>2. Joined(g, FreeBlocks, InHand, LiveBlocks, x, bucket_limit)
    BY <2>1, KeptMerge, Zenon
  <2> QED
    BY <2>2 DEF Joined
<1>4. y = <<BuddyPtr, bucket>>
  BY <1>1 DEF Twin, BuddyPtr
<1>5. BuddyPtr \in ToSet(buckets[bucket])
  BY <1>3, <1>4, FreeMembers
<1>6. Linked(BuddyPtr)
  BY <1>1, <1>5, UnlinkedLists DEF BInv
<1>7. ASSUME NEW b \in Buckets, b # bucket, BuddyPtr \in ToSet(buckets[b]) PROVE FALSE
  <2> DEFINE w == <<BuddyPtr, b>>
  <2>1. w \in FreeBlocks
    BY <1>7, FreeMembers
  <2>2. Tiling(FreeBlocks \union InHand, Size(bucket_limit))
    BY <1>2, TidyTiles DEF Kept
  <2>3. BuddyPtr \in At(w) /\ BuddyPtr \in At(y)
    <3>1. w \in AllBlocks /\ y \in AllBlocks
      BY <2>1, <2>2, <1>3 DEF Tiling
    <3>2. w[1] \in At(w) /\ y[1] \in At(y)
      BY <3>1, BlockFacts
    <3> QED
      BY <3>2, <1>4
  <2>4. w = y
    BY <2>1, <2>2, <2>3, <1>3 DEF Tiling
  <2> QED
    BY <2>4, <1>4, <1>7
<1> HIDE DEF x, y
<1>8. \E z \in AllBlocks :
         /\ NodeOf(z) = Parent(node) /\ z[2] = bucket - 1 /\ z \notin FreeBlocks \union InHand
         /\ Kept(g, FreeBlocks \ {y}, LiveBlocks \union {z}, LiveBlocks, {z}, bucket_limit)
  BY <1>1, <1>2, <1>3
<1> QED
  BY <1>3, <1>4, <1>6, <1>7, <1>8 DEF x, y, g

LEMMA MergeBInv == ASSUME IInv, BInv, Merge PROVE BInv'
<1> DEFINE y == Twin(Here)
<1>1. /\ pc = "merge" /\ ~StopsMerging /\ node_status' = Cleared
      /\ UNCHANGED <<inited, bucket_limit, live, orig>>
  BY DEF Merge
<1>2. Field(Cleared, Buddy(node)) = 0
  BY <1>1 DEF StopsMerging, UNUSED
<1>3. /\ y = <<BuddyPtr, bucket>> /\ y \in FreeBlocks /\ Linked(BuddyPtr)
      /\ \A b \in Buckets : b # bucket => BuddyPtr \notin ToSet(buckets[b])
  BY <1>1, <1>2, BuddyListed
<1>4. PICK z \in AllBlocks :
         /\ NodeOf(z) = Parent(node) /\ z[2] = bucket - 1 /\ z \notin FreeBlocks \union InHand
         /\ Kept(FieldsOf(Cleared), FreeBlocks \ {y}, LiveBlocks \union {z}, LiveBlocks, {z}, bucket_limit)
  BY <1>1, <1>2, BuddyListed
<1>5. /\ buckets' = Unlinked(BuddyPtr) /\ node' = Parent(node) /\ bucket' = bucket - 1 /\ pc' = "merge"
  BY <1>3 DEF Merge
<1>6. bucket \in Buckets /\ inited /\ LiveBlocks # {}
  BY <1>1, CallHere, ClearedFields
<1>7. FreeBlocks' = FreeBlocks \ {y} /\ ListsOnce'
  <2>1. \A b \in Buckets : ToSet(buckets'[b]) = ToSet(buckets[b]) \ {BuddyPtr} /\ IsInjective(buckets'[b])
    BY <1>5, UnlinkedLists DEF BInv
  <2>2. ToSet(buckets'[bucket]) = (ToSet(buckets[bucket]) \ {BuddyPtr}) \union {}
    BY <2>1, <1>6
  <2>3. \A b \in Buckets : b # bucket => ToSet(buckets'[b]) = ToSet(buckets[b])
    BY <2>1, <1>3
  <2>4. FreeBlocks' = (FreeBlocks \ {<<p, bucket>> : p \in {BuddyPtr}}) \union {<<p, bucket>> : p \in {}}
    BY <2>2, <2>3, <1>6, MembersChange
  <2>5. FreeBlocks' = FreeBlocks \ {<<BuddyPtr, bucket>>}
    BY <2>4
  <2> QED
    BY <2>1, <2>5, <1>3 DEF ListsOnce
<1>8. CallBlock' = {z} /\ LiveBlocks' = LiveBlocks
  <2>1. z = <<z[1], z[2]>> /\ ptr_for_node(NodeOf(z), z[2]) = z[1]
    BY BlockFacts, NodeOfBlock
  <2>2. <<ptr_for_node(node', bucket'), bucket'>> = z
    BY <2>1, <1>4, <1>5
  <2> QED
    BY <2>2, <1>1, <1>5, LiveKept DEF CallBlock
<1>9. InHand' = LiveBlocks \union {z} /\ Marked' = LiveBlocks /\ Unsettled' = {z}
      /\ LiveBlocks' \intersect CallBlock' = {}
  BY <1>4, <1>5, <1>8 DEF InHand, Marked, Unsettled
<1> HIDE DEF y
<1>10. inited' => Kept(FieldsOf(node_status), FreeBlocks, InHand, Marked, Unsettled, bucket_limit)'
  BY <1>1, <1>4, <1>7, <1>9
<1> QED
  BY <1>1, <1>5, <1>6, <1>7, <1>8, <1>9, <1>10 DEF BInv

-----------------------------------------------------------------------------
\* The root of the pool when it has to grow.
LEMMA GrowingRoot ==
  ASSUME IInv, BInv, Growing
  PROVE  /\ bucket_limit \in Buckets /\ bucket_limit # 0 /\ bucket <= bucket_limit /\ inited
         /\ bucket_limit - 1 \in Buckets /\ CallBlock = {} /\ InHand = LiveBlocks
         /\ orig # 0 /\ pc = "search"
         /\ root = NodeOf(Root(bucket_limit)) /\ Root(bucket_limit) \in AllBlocks
         /\ get_node_status(root) = FieldsOf(node_status)[Root(bucket_limit)]
         /\ Kept(FieldsOf(node_status), FreeBlocks, LiveBlocks, LiveBlocks, {}, bucket_limit)
<1>1. /\ bucket_limit \in Buckets /\ bucket_limit # 0 /\ bucket <= bucket_limit /\ inited /\ pc = "search"
      /\ bucket_limit - 1 \in Buckets
  BY GrowingPool
<1>2. root = NodeOf(Root(bucket_limit)) /\ Root(bucket_limit) \in AllBlocks
  BY <1>1, RootBlock DEF root, NodeOf, Root
<1>3. get_node_status(root) = FieldsOf(node_status)[Root(bucket_limit)]
  BY <1>2 DEF get_node_status, FieldsOf
<1>4. /\ CallBlock = {} /\ InHand = LiveBlocks
      /\ Kept(FieldsOf(node_status), FreeBlocks, LiveBlocks, LiveBlocks, {}, bucket_limit)
  BY <1>1, NoCall, Fields
<1>5. orig # 0
  BY <1>1 DEF BInv
<1> QED
  BY <1>1, <1>2, <1>3, <1>4, <1>5

LEMMA PoolListed ==
  ASSUME IInv, BInv, Growing, get_node_status(root) = UNUSED
  PROVE  /\ FreeBlocks = {Root(bucket_limit)} /\ LiveBlocks = {}
         /\ Kept(FieldsOf(node_status), {Root(bucket_limit - 1)}, {}, {}, {}, bucket_limit - 1)
         /\ 0 \in ToSet(buckets[bucket_limit]) /\ Linked(0) /\ bucket < bucket_limit
<1>1. /\ FreeBlocks = {Root(bucket_limit)} /\ LiveBlocks = {}
      /\ Kept(FieldsOf(node_status), {Root(bucket_limit - 1)}, {}, {}, {}, bucket_limit - 1)
  <2>1. FieldsOf(node_status)[Root(bucket_limit)] = 0
    BY GrowingRoot DEF UNUSED
  <2> QED
    BY <2>1, GrowingRoot, KeptGrowFree
<1>2. 0 \in ToSet(buckets[bucket_limit])
  BY <1>1, FreeMembers DEF Root
<1>3. buckets[bucket_limit] # <<>>
  BY <1>2 DEF ToSet
<1>4. bucket < bucket_limit
  BY <1>3 DEF Growing
<1>5. Linked(0)
  BY <1>2, GrowingRoot, UnlinkedLists DEF BInv
<1> QED
  BY <1>1, <1>2, <1>4, <1>5

LEMMA GrowFreeBInv == ASSUME IInv, BInv, GrowFree PROVE BInv'
<1> DEFINE l == bucket_limit
<1>1. /\ Growing /\ get_node_status(root) = UNUSED /\ UNCHANGED <<inited, node_status, live, bucket, orig>>
  BY DEF GrowFree
<1>2. l \in Buckets /\ l - 1 \in Buckets /\ inited /\ l \in Int /\ orig # 0
  BY <1>1, GrowingRoot DEF Buckets
<1>3. /\ FreeBlocks = {Root(l)} /\ LiveBlocks = {}
      /\ Kept(FieldsOf(node_status), {Root(l - 1)}, {}, {}, {}, l - 1)
      /\ Linked(0) /\ bucket < l
  BY <1>1, PoolListed
<1>4. bucket_limit' = l - 1 /\ buckets' = [Unlinked(0) EXCEPT ![l - 1] = <<0>>] /\ pc' = "search"
  BY <1>3 DEF GrowFree, AfterGrowth
<1>5. \A b \in Buckets : buckets'[b] = IF b = l - 1 THEN <<0>> ELSE Unlinked(0)[b]
  BY <1>2, <1>4 DEF Unlinked
<1>6. ToSet(<<0>>) = {0} /\ IsInjective(<<0>>)
  BY DEF ToSet, IsInjective
<1>7. \A b \in Buckets : ToSet(buckets[b]) \subseteq {0}
  <2>1. \A p, b : <<p, b>> \in FreeBlocks => p = 0
    BY <1>3 DEF Root
  <2> QED
    BY <2>1, FreeMembers
<1>8. \A b \in Buckets : ToSet(Unlinked(0)[b]) = {} /\ IsInjective(Unlinked(0)[b])
  <2> SUFFICES ASSUME NEW b \in Buckets PROVE ToSet(Unlinked(0)[b]) = {} /\ IsInjective(Unlinked(0)[b])
    OBVIOUS
  <2>1. ListsOnce
    BY DEF BInv
  <2>2. ToSet(Unlinked(0)[b]) = ToSet(buckets[b]) \ {0} /\ IsInjective(Unlinked(0)[b])
    BY <2>1, UnlinkedLists
  <2> QED
    BY <2>2, <1>7
<1>9. \A b \in Buckets : ToSet(buckets'[b]) = IF b = l - 1 THEN {0} ELSE {}
  BY <1>5, <1>6, <1>8
<1>10. FreeBlocks' = {Root(l - 1)}
  BY <1>2, <1>9 DEF FreeBlocks, Root
<1>11. ListsOnce'
  BY <1>5, <1>6, <1>8 DEF ListsOnce
<1>12. CallBlock' = {} /\ LiveBlocks' = {}
  BY <1>1, <1>3, <1>4, LiveKept DEF CallBlock
<1>13. InHand' = {} /\ Marked' = {} /\ Unsettled' = {}
  BY <1>12 DEF InHand, Marked, Unsettled
<1>14. inited' => Kept(FieldsOf(node_status), FreeBlocks, InHand, Marked, Unsettled, bucket_limit)'
  BY <1>1, <1>3, <1>4, <1>10, <1>13
<1> QED
  BY <1>1, <1>2, <1>4, <1>11, <1>12, <1>14 DEF BInv

LEMMA GrowUsedBInv == ASSUME IInv, BInv, GrowUsed PROVE BInv'
<1> DEFINE l == bucket_limit
           L == buckets[l]
           h == Half(l)
           r == Root(l - 1)
           f == FieldsOf(node_status)
<1>1. /\ Growing /\ get_node_status(root) # UNUSED /\ bucket_limit' = l - 1
      /\ buckets' = [buckets EXCEPT ![l] = list_push(L, RightHalf), ![l - 1] = <<>>]
      /\ UNCHANGED <<inited, live, bucket, orig>> /\ pc' = AfterGrowth /\ pc = "search"
      /\ node_status' = node_set_status(node_status, Parent(root), SPLIT)
  BY DEF GrowUsed, Growing, GrownStatus
<1>2. /\ l \in Buckets /\ l # 0 /\ l - 1 \in Buckets /\ inited /\ l \in Int /\ bucket <= l
      /\ bucket \in Buckets /\ orig # 0 /\ root = NodeOf(Root(l)) /\ Root(l) \in AllBlocks
      /\ f[Root(l)] # 0 /\ Kept(f, FreeBlocks, LiveBlocks, LiveBlocks, {}, l)
  <2>1. bucket \in Buckets
    BY DEF IInv, TypeOK
  <2> QED
    BY <1>1, <2>1, GrowingRoot DEF Buckets, UNUSED
<1>3. Parent(root) = NodeOf(r) /\ r \in AllBlocks
  <2>1. r \in AllBlocks /\ r[2] = l - 1 /\ l - 1 # Smallest /\ LeftOf(r) = Root(l)
    BY <1>2, RootBlock, Doubled
  <2>2. r[2] # Smallest
    BY <2>1
  <2> HIDE DEF r, l
  <2> QED
    BY <2>1, <2>2, <1>2, TwinHalves
<1>4. FieldsOf(node_status') = Put(f, r, 1)
  <2>1. node_status \in BytesOf /\ SPLIT \in {UNUSED, SPLIT, USED} /\ SPLIT = 1
    BY StatusBytes DEF SPLIT
  <2>2. FieldsOf(node_set_status(node_status, NodeOf(r), SPLIT)) = Put(f, r, SPLIT)
    BY <1>3, <2>1, FieldsSet
  <2> QED
    BY <2>1, <2>2, <1>1, <1>3
<1>5. /\ h \notin FreeBlocks /\ \A x \in FreeBlocks : x[2] >= l
      /\ Kept(Put(f, r, 1), FreeBlocks \union {h}, LiveBlocks, LiveBlocks, {}, l - 1)
  <2> HIDE DEF f
  <2> QED
    BY <1>2, KeptGrowUsed
<1>6. Root(l)[1] = 0 /\ Root(l)[2] = l
  BY <1>2, RootBlock
<1>8. h = <<RightHalf, l>> /\ RightHalf \in 0 .. Units - 1
  <2>1. h = <<Size(l), l>> /\ h \in AllBlocks
    BY <1>2, Doubled
  <2>2. root \in LevelOf(l) /\ ptr_for_node(root, l) = 0
    BY <1>2, <1>6, NodeOfBlock
  <2>3. root \in Int /\ Pow2[l] \in Int /\ Size(l) \in Nat \ {0}
    BY <2>2, <1>2, Positive DEF LevelOf
  <2>4. root - Pow2[l] + 1 = 0
    <3> DEFINE m == root - Pow2[l] + 1
    <3>1. m \in Int /\ m * Size(l) = 0
      BY <2>2, <2>3 DEF ptr_for_node
    <3> HIDE DEF m
    <3>2. m = 0
      BY <3>1, <2>3
    <3> QED
      BY <3>2 DEF m
  <2>5. (root + 1) - Pow2[l] + 1 = 1
    BY <2>3, <2>4
  <2>6. RightHalf = Size(l)
    BY <2>3, <2>5 DEF RightHalf, ptr_for_node
  <2> QED
    BY <2>1, <2>6 DEF AllBlocks
<1>9. \A b \in Buckets : buckets'[b] = IF b = l - 1 THEN <<>>
                                       ELSE IF b = l THEN list_push(L, RightHalf) ELSE buckets[b]
  BY <1>1, <1>2 DEF IInv, TypeOK
<1>10. ToSet(list_push(L, RightHalf)) = ToSet(L) \union {RightHalf} /\ IsInjective(list_push(L, RightHalf))
  <2> DEFINE S == 0 .. Units - 1
  <2>1. L \in Seq(S) /\ IsInjective(L) /\ RightHalf \in S
    BY <1>2, <1>8 DEF IInv, TypeOK, BInv, ListsOnce
  <2>2. RightHalf \notin ToSet(L)
    BY <1>2, <1>5, <1>8, FreeMembers
  <2> HIDE DEF S, L
  <2> QED
    BY <2>1, <2>2, ListPush
<1>11. ToSet(<<>>) = {} /\ IsInjective(<<>>) /\ ToSet(buckets[l - 1]) = {}
  <2>1. ASSUME NEW p \in ToSet(buckets[l - 1]) PROVE FALSE
    <3>1. <<p, l - 1>> \in FreeBlocks
      BY <2>1, <1>2, FreeMembers
    <3>2. <<p, l - 1>>[2] >= l
      BY <3>1, <1>5
    <3> QED
      BY <3>2, <1>2
  <2> QED
    BY <2>1 DEF ToSet, IsInjective
<1>12. FreeBlocks' = FreeBlocks \union {h}
  <2>1. ToSet(buckets'[l]) = (ToSet(buckets[l]) \ {}) \union {RightHalf}
    BY <1>2, <1>9, <1>10
  <2>2. \A b \in Buckets : b # l => ToSet(buckets'[b]) = ToSet(buckets[b])
    BY <1>9, <1>11
  <2>3. FreeBlocks' = (FreeBlocks \ {<<p, l>> : p \in {}}) \union {<<p, l>> : p \in {RightHalf}}
    BY <2>1, <2>2, <1>2, MembersChange
  <2> QED
    BY <2>3, <1>8
<1>13. ListsOnce'
  BY <1>9, <1>10, <1>11 DEF ListsOnce, BInv
<1>14. pc' \in {"search", "pop"} /\ (pc' = "pop" => bucket = l)
  BY <1>1, <1>2 DEF AfterGrowth, Buckets
<1>15. CallBlock' = {} /\ LiveBlocks' = LiveBlocks
  BY <1>1, <1>14, LiveKept DEF CallBlock
<1>16. InHand' = LiveBlocks /\ Marked' = LiveBlocks /\ Unsettled' = {}
  BY <1>14, <1>15 DEF InHand, Marked, Unsettled
<1>17. pc' = "pop" => buckets'[bucket'] # <<>>
  <2>1. list_push(L, RightHalf) # <<>>
    BY <1>10 DEF ToSet
  <2>2. l # l - 1 /\ buckets'[l] = list_push(L, RightHalf)
    BY <1>2, <1>9
  <2>3. pc' = "pop" => bucket' = l
    BY <1>1, <1>14
  <2> QED
    BY <2>1, <2>2, <2>3
<1> HIDE DEF f, r, h, L
<1>18. inited' => Kept(FieldsOf(node_status), FreeBlocks, InHand, Marked, Unsettled, bucket_limit)'
  BY <1>1, <1>4, <1>5, <1>12, <1>16
<1> QED
  BY <1>1, <1>2, <1>13, <1>14, <1>15, <1>17, <1>18 DEF BInv

LEMMA UnchangedBInv ==
  ASSUME BInv, UNCHANGED <<heap, live, pc, bucket, orig, node, up>>
  PROVE  BInv'
<1>1. LiveBlocks' = LiveBlocks /\ CallBlock' = CallBlock /\ FreeBlocks' = FreeBlocks
  BY DEF heap, LiveBlocks, CallBlock, FreeBlocks
<1>2. InHand' = InHand /\ Marked' = Marked /\ Unsettled' = Unsettled
  BY <1>1 DEF InHand, Marked, Unsettled
<1>3. UNCHANGED <<inited, bucket_limit, buckets, node_status, pc, bucket, orig, up>>
  BY DEF heap
<1>4. ListsOnce'
  BY <1>3 DEF ListsOnce, BInv
<1>5. inited' => Kept(FieldsOf(node_status), FreeBlocks, InHand, Marked, Unsettled, bucket_limit)'
  BY <1>1, <1>2, <1>3 DEF BInv
<1> QED
  BY <1>1, <1>3, <1>4, <1>5 DEF BInv

LEMMA NextBInv == KeepsOne /\ IInv /\ BInv /\ [Next]_vars => BInv'
<1> SUFFICES ASSUME KeepsOne, IInv, BInv, [Next]_vars PROVE BInv'
  OBVIOUS
<1>1. ASSUME NEW n \in Requests, Malloc(n) PROVE BInv'
  BY <1>1, MallocBInv
<1>2. ASSUME NEW p \in DOMAIN live, Free(p) PROVE BInv'
  BY <1>2, FreeBInv
<1>3. CASE GrowDenied \/ NextBucket \/ ReturnNull
  <2>1. /\ UNCHANGED <<heap, live, orig>> /\ pc \in {"search", "null"} /\ pc' \in {"search", "null", "idle"}
        /\ pc' = "search" => pc = "search"
    BY <1>3 DEF GrowDenied, NextBucket, ReturnNull, Growing, Exhausted
  <2>2. pc' = "search" => orig' # 0
    BY <2>1 DEF BInv
  <2> QED
    BY <2>1, <2>2, LocalBInv
<1>4. CASE Step
  <2>1. CASE FreeAll
    <3>1. pc = "merge" /\ node = 0
      BY <2>1 DEF FreeAll
    <3> QED
      BY <3>1, ClearedFields
  <2> QED
    BY <1>3, <1>4, <2>1, GrowFreeBInv, GrowUsedBInv, PopBInv, PopDeniedBInv, SplitBInv, MarkBlockBInv,
       MarkAncestorBInv, ReturnBlockBInv, FreeStopBInv, MergeBInv DEF Step
<1>5. CASE Foreign \/ UNCHANGED vars
  <2>1. UNCHANGED <<heap, live, pc, bucket, orig, node, up>>
    BY <1>5 DEF Foreign, vars, call
  <2> QED
    BY <2>1, UnchangedBInv
<1> QED
  BY <1>1, <1>2, <1>4, <1>5 DEF Next

LEMMA AlwaysBInv == KeepsOne => (Spec => [](IInv /\ BInv))
<1> SUFFICES ASSUME KeepsOne PROVE Spec => [](IInv /\ BInv)
  OBVIOUS
<1>1. Init => IInv /\ BInv
  BY InitIInv, InitBInv
<1>2. IInv /\ BInv /\ [Next]_vars => (IInv /\ BInv)'
  BY NextIInv, NextBInv
<1> QED
  BY <1>1, <1>2, PTL DEF Spec

-----------------------------------------------------------------------------
LEMMA NoBlocks ==
  ASSUME IInv, BInv, ~inited PROVE FreeBlocks = {} /\ LiveBlocks = {} /\ CallBlock = {}
<1>1. FreeBlocks = {}
  BY DEF BInv, FreeBlocks, ToSet
<1>2. LiveBlocks = {} /\ CallBlock = {}
  BY DEF IInv, Fresh, LiveBlocks, CallBlock
<1> QED
  BY <1>1, <1>2

LEMMA AllThere == Blocks = FreeBlocks \union InHand
  BY DEF Blocks, InHand

\* The blocks tile the pool.
LEMMA BlocksTile ==
  ASSUME IInv, BInv, inited
  PROVE  Tiling(Blocks, Size(bucket_limit)) /\ FreeBlocks \intersect InHand = {}
<1>1. Tidy(FreeBlocks, InHand, bucket_limit) /\ bucket_limit \in Buckets
  BY DEF BInv, Kept, IInv, TypeOK
<1> QED
  BY <1>1, TidyTiles, AllThere

\* No unit is in two blocks: what is handed out, listed as free, split or merged never
\* overlaps anything else, for callers of which the status bits keep track (malloc_2's
\* pop and split, lower_bucket_limit, the merge loop of free_2).
THEOREM NoOverlap == KeepsOne => (Spec => []BlocksDisjoint)
<1> SUFFICES ASSUME KeepsOne PROVE Spec => []BlocksDisjoint
  OBVIOUS
<1>1. IInv /\ BInv => BlocksDisjoint
  <2> SUFFICES ASSUME IInv, BInv PROVE BlocksDisjoint
    OBVIOUS
  <2>1. \A b \in Buckets : IsInjective(buckets[b])
    BY DEF BInv, ListsOnce
  <2>2. CASE ~inited
    BY <2>1, <2>2, NoBlocks DEF BlocksDisjoint, Blocks
  <2>3. CASE inited
    <3>1. Tiling(Blocks, Size(bucket_limit)) /\ FreeBlocks \intersect InHand = {}
      BY <2>3, BlocksTile
    <3>2. \A x, y \in Blocks : x # y => Span(x[1], x[2]) \intersect Span(y[1], y[2]) = {}
      BY <3>1 DEF Tiling, At
    <3>3. FreeBlocks \intersect LiveBlocks = {} /\ CallBlock \intersect (FreeBlocks \union LiveBlocks) = {}
      BY <3>1 DEF InHand, BInv
    <3> QED
      BY <2>1, <3>2, <3>3 DEF BlocksDisjoint
  <2> QED
    BY <2>2, <2>3
<1> QED
  BY <1>1, AlwaysBInv, PTL

\* No unit of the pool is lost, and no block reaches past it (lower_bucket_limit, the
\* split loop of malloc_2 and the merge loop of free_2).
THEOREM Covered == KeepsOne => (Spec => []PoolCovered)
<1> SUFFICES ASSUME KeepsOne PROVE Spec => []PoolCovered
  OBVIOUS
<1>1. IInv /\ BInv => PoolCovered
  <2> SUFFICES ASSUME IInv, BInv, inited
               PROVE  UNION {Span(x[1], x[2]) : x \in Blocks} = 0 .. Size(bucket_limit) - 1
    BY DEF PoolCovered
  <2>1. \A u : (\E x \in Blocks : u \in Span(x[1], x[2])) <=> u \in 0 .. Size(bucket_limit) - 1
    BY BlocksTile DEF Tiling, At
  <2> QED
    BY <2>1
<1> QED
  BY <1>1, AlwaysBInv, PTL

\* bucket_for_alloced_pointer finds the size malloc_2 gave: the field of a held block is
\* USED and every field below it is UNUSED, so the deepest USED node at an address is the
\* block handed out there.
THEOREM SizeTold == KeepsOne => (Spec => []StatusTellsSize)
<1> SUFFICES ASSUME KeepsOne PROVE Spec => []StatusTellsSize
  OBVIOUS
<1>1. IInv /\ BInv => StatusTellsSize
  BY FoundSize DEF StatusTellsSize
<1> QED
  BY <1>1, AlwaysBInv, PTL

\* The comment at buddy_malloc_2.c:153, which lower_bucket_limit relies on, is right for
\* these callers: a root that is UNUSED means that nothing is held.
THEOREM RootTold == KeepsOne => (Spec => []UnusedRootIsFree)
<1> SUFFICES ASSUME KeepsOne PROVE Spec => []UnusedRootIsFree
  OBVIOUS
<1>1. IInv /\ BInv => UnusedRootIsFree
  BY PoolListed DEF UnusedRootIsFree
<1> QED
  BY <1>1, AlwaysBInv, PTL

\* No call ends in undefined behaviour: the walk of malloc_2 over the ancestors does not
\* start from the root, and what lower_bucket_limit and free_2 unlink is in a list.
THEOREM CallsDefined == KeepsOne => (Spec => []Defined)
<1> SUFFICES ASSUME KeepsOne PROVE Spec => []Defined
  OBVIOUS
<1>1. IInv /\ BInv => Defined
  BY DEF BInv, Defined
<1> QED
  BY <1>1, AlwaysBInv, PTL


-----------------------------------------------------------------------------
(***************************************************************************)
(* malloc_2 and free_2 implement Heap for these callers.  What is new is   *)
(* that a refusal is justified: the lists of the buckets the search has    *)
(* passed are empty.                                                       *)
(***************************************************************************)
Searched ==
    pc = "search" =>
        /\ bucket = orig \/ bucket >= bucket_limit
        /\ \A b \in Buckets : bucket < b /\ b <= orig => buckets[b] = <<>>

LEMMA NextSearched == IInv /\ Searched /\ [Next]_vars => Searched'
<1> SUFFICES ASSUME IInv, Searched, [Next]_vars, pc' = "search" PROVE Searched'
  BY DEF Searched
<1>1. ASSUME NEW n \in Requests, Malloc(n) PROVE Searched'
  <2>1. bucket' = orig' /\ bucket' \in Buckets
    BY <1>1 DEF Malloc
  <2> QED
    BY <2>1 DEF Searched, Buckets
<1>2. ASSUME NEW p \in DOMAIN live, Free(p) PROVE Searched'
  BY <1>2 DEF Free
<1>3. CASE GrowFree \/ GrowUsed
  <2>1. pc = "search" /\ UNCHANGED <<bucket, orig>> /\ pc' = AfterGrowth
    BY <1>3 DEF GrowFree, GrowUsed, Growing
  <2>2. bucket < bucket_limit
    BY <2>1 DEF AfterGrowth
  <2>3. bucket' = orig' /\ bucket' \in Nat
    BY <2>1, <2>2, Numbers DEF Searched
  <2> QED
    BY <2>3 DEF Searched, Buckets
<1>4. CASE NextBucket
  <2>1. /\ pc = "search" /\ bucket > bucket_limit /\ bucket' = bucket - 1
        /\ buckets[bucket] = <<>> /\ UNCHANGED <<orig, buckets, bucket_limit>>
    BY <1>4 DEF NextBucket, NextLarger, heap
  <2>2. bucket' >= bucket_limit'
    BY <2>1, Numbers
  <2>3. ASSUME NEW b \in Buckets, bucket' < b, b <= orig PROVE buckets[b] = <<>>
    <3>1. b \in Nat
      BY DEF Buckets
    <3>2. b = bucket \/ bucket < b
      BY <2>1, <2>3, <3>1, Numbers
    <3> QED
      BY <2>1, <2>3, <3>2 DEF Searched
  <2> QED
    BY <2>1, <2>2, <2>3 DEF Searched
<1>5. CASE Foreign \/ UNCHANGED vars
  <2>1. UNCHANGED <<pc, bucket, orig, bucket_limit, buckets>>
    BY <1>5 DEF Foreign, vars, heap, call
  <2> QED
    BY <2>1 DEF Searched
<1>6. CASE Step
  BY <1>3, <1>4, <1>6 DEF Step, GrowDenied, Pop, PopDenied, ReturnNull, Split, MarkBlock,
     MarkAncestor, ReturnBlock, FreeStop, Merge, FreeAll
<1> QED
  BY <1>1, <1>2, <1>5, <1>6 DEF Next

HInv == IInv /\ BInv /\ Searched

LEMMA AlwaysHInv == KeepsOne => (Spec => []HInv)
<1> SUFFICES ASSUME KeepsOne PROVE Spec => []HInv
  OBVIOUS
<1>1. Init => HInv
  BY InitIInv, InitBInv DEF HInv, Searched, Init
<1>2. HInv /\ [Next]_vars => HInv'
  BY NextIInv, NextBInv, NextSearched DEF HInv
<1> QED
  BY <1>1, <1>2, PTL DEF Spec

\* The record of a block, as the specification of the caller sees it, and all it sees.
Rec(x) == [at |-> x[1], size |-> Size(x[2])]
callers == <<LiveRecords, asking, pc = "null">>

LEMMA RecFacts ==
  ASSUME NEW x \in AllBlocks
  PROVE  /\ Rec(x).at = x[1] /\ Rec(x).size = Size(x[2]) /\ Rec(x) \in H!Block
         /\ x[1] % Size(x[2]) = 0 /\ x[1] + Size(x[2]) <= Units
<1>1. x[1] \in 0 .. Units - 1 /\ x[2] \in Buckets /\ x[1] \in Starts(x[2]) /\ x[1] \in Nat
  BY BlockFacts DEF AllBlocks
<1> QED
  BY <1>1, Aligned DEF Rec, H!Block

LEMMA Overlaps ==
  ASSUME NEW x \in AllBlocks, NEW y \in AllBlocks
  PROVE  H!Overlap(Rec(x), Rec(y)) <=> \E u : u \in At(x) /\ u \in At(y)
<1>1. /\ x[1] \in Nat /\ y[1] \in Nat /\ Size(x[2]) \in Nat \ {0} /\ Size(y[2]) \in Nat \ {0}
      /\ \A u : u \in At(x) <=> u \in Int /\ x[1] <= u /\ u < x[1] + Size(x[2])
      /\ \A u : u \in At(y) <=> u \in Int /\ y[1] <= u /\ u < y[1] + Size(y[2])
  BY BlockFacts
<1>2. H!Overlap(Rec(x), Rec(y)) <=> x[1] < y[1] + Size(y[2]) /\ y[1] < x[1] + Size(x[2])
  BY RecFacts DEF H!Overlap
<1>3. ASSUME NEW u, u \in At(x), u \in At(y)
      PROVE  x[1] < y[1] + Size(y[2]) /\ y[1] < x[1] + Size(x[2])
  <2>1. u \in Int /\ x[1] <= u /\ u < x[1] + Size(x[2]) /\ y[1] <= u /\ u < y[1] + Size(y[2])
    BY <1>1, <1>3
  <2> QED
    BY <2>1, <1>1
<1>4. ASSUME x[1] < y[1] + Size(y[2]), y[1] < x[1] + Size(x[2])
      PROVE  \E u : u \in At(x) /\ u \in At(y)
  <2>1. CASE x[1] <= y[1]
    <3>1. y[1] \in At(x) /\ y[1] \in At(y)
      BY <2>1, <1>1, <1>4
    <3> QED
      BY <3>1
  <2>2. CASE ~(x[1] <= y[1])
    <3>1. x[1] \in At(x) /\ x[1] \in At(y)
      BY <2>2, <1>1, <1>4
    <3> QED
      BY <3>1
  <2> QED
    BY <2>1, <2>2
<1> QED
  BY <1>2, <1>3, <1>4

\* What the caller holds are blocks, no two at one address.
LEMMA LiveFacts ==
  ASSUME IInv
  PROVE  /\ LiveRecords = {Rec(x) : x \in LiveBlocks} /\ LiveBlocks \subseteq AllBlocks
         /\ \A x, y \in LiveBlocks : x[1] = y[1] => x = y
<1>1. LiveRecords = {Rec(x) : x \in LiveBlocks}
  BY DEF LiveRecords, Rec
<1>2. ASSUME NEW x \in LiveBlocks PROVE x \in AllBlocks
  <2>1. PICK p \in DOMAIN live : x = <<p, live[p]>>
    BY DEF LiveBlocks
  <2>2. live[p] \in Buckets /\ p \in Starts(live[p])
    BY DEF IInv, LivePlaced, Held
  <2> QED
    BY <2>1, <2>2, MakeBlock
<1>3. \A x, y \in LiveBlocks : x[1] = y[1] => x = y
  BY DEF LiveBlocks
<1> QED
  BY <1>1, <1>2, <1>3

\* The bytes of a bucket are a request, and fit its blocks and those of larger buckets only.
LEMMA Asking ==
  ASSUME NEW o \in Buckets
  PROVE  /\ Bytes(o) \in Nat /\ Bytes(o) # -1
         /\ \A c \in Buckets : MIN_ALLOC * Size(c) >= Bytes(o) + 0 => c <= o
<1>1. Size(o) \in Nat \ {0} /\ MIN_ALLOC \in Nat \ {0}
  BY Positive
<1>2. Bytes(o) \in Nat
  BY <1>1 DEF Bytes
<1>3. ASSUME NEW c \in Buckets, MIN_ALLOC * Size(c) >= Bytes(o) + 0, ~(c <= o) PROVE FALSE
  <2>1. o # Smallest /\ o + 1 \in Buckets /\ o + 1 <= c
    BY <1>3, Positive DEF Buckets, Smallest
  <2>2. /\ Size(c) <= Size(o + 1) /\ Size(o) = 2 * Size(o + 1) /\ Size(c) \in Nat
        /\ Size(o + 1) \in Nat \ {0}
    BY <2>1, SizeOrder, Halving, Positive
  <2>3. \A m \in Nat \ {0} : \A s \in Nat : \A t \in Nat \ {0} : s <= t => m * s < m * (2 * t)
    <3> SUFFICES ASSUME NEW m \in Nat \ {0}, NEW s \in Nat, NEW t \in Nat \ {0}, s <= t
                 PROVE  m * s < m * (2 * t)
      OBVIOUS
    <3>1. m * s <= m * t /\ m * s \in Nat /\ m * t \in Nat
      BY ProductMonotone
    <3>2. m * t > 0
      BY SMT
    <3>3. m * (2 * t) = m * t + m * t
      BY SMT
    <3> QED
      BY <3>1, <3>2, <3>3
  <2>4. MIN_ALLOC * Size(c) < MIN_ALLOC * Size(o)
    BY <1>1, <2>2, <2>3
  <2>5. MIN_ALLOC * Size(c) \in Nat
    BY <1>1, <2>2
  <2>6. MIN_ALLOC * Size(o) = Bytes(o)
    BY DEF Bytes
  <2> QED
    BY <1>2, <1>3, <2>4, <2>5, <2>6
<1> QED
  BY <1>2, <1>3

\* The block handed out fits and is vacant.
LEMMA Grants ==
  ASSUME IInv, BInv, ReturnBlock
  PROVE  H!Grant
<1>1. pc = "mark" /\ pc' = "idle" /\ bucket = orig /\ orig \in Buckets
  BY DEF ReturnBlock, BInv, IInv, TypeOK
<1>2. Here \in AllBlocks /\ Here[2] = orig /\ Here \in InHand /\ inited
  BY <1>1, CallHere DEF InHand
<1>3. H!Fits(Rec(Here), Bytes(orig))
  <2>1. MIN_ALLOC * Size(orig) >= Bytes(orig) + 0
    BY <1>1, Asking DEF Bytes
  <2> QED
    BY <2>1, <1>2, RecFacts DEF H!Fits
<1>4. \A x \in LiveBlocks : ~H!Overlap(Rec(Here), Rec(x))
  <2>1. ASSUME NEW x \in LiveBlocks, H!Overlap(Rec(Here), Rec(x)) PROVE FALSE
    <3>1. x \in AllBlocks /\ x \in InHand
      BY LiveFacts DEF InHand
    <3>2. \E u : u \in At(Here) /\ u \in At(x)
      BY <2>1, <3>1, <1>2, Overlaps
    <3>3. Tiling(FreeBlocks \union InHand, Size(bucket_limit))
      BY <1>2, BlocksTile, AllThere
    <3>4. x = Here
      BY <3>1, <3>2, <3>3, <1>2 DEF Tiling
    <3> QED
      BY <3>4, HandsOut
  <2> QED
    BY <2>1
<1>5. H!Vacant(Rec(Here))
  BY <1>4, LiveFacts DEF H!Vacant
<1>6. LiveRecords' = LiveRecords \union {Rec(Here)}
  <2>1. LiveRecords' = {Rec(x) : x \in LiveBlocks'}
    BY DEF LiveRecords, Rec
  <2> QED
    BY <2>1, HandsOut, LiveFacts
<1>7. Rec(Here) \in H!Block
  BY <1>2, RecFacts
<1>8. Bytes(orig) # -1
  BY <1>1, Asking
<1> QED
  BY <1>1, <1>3, <1>5, <1>6, <1>7, <1>8 DEF H!Grant, H!NoRequest, asking

\* When the search ends with nothing, every block that would fit shares a unit with a
\* block the caller holds.
LEMMA Refuses ==
  ASSUME HInv, Exhausted, ReturnNull
  PROVE  H!Refuse
<1>1. /\ pc = "search" /\ bucket = 0 /\ bucket_limit = 0 /\ buckets[0] = <<>> /\ pc' = "idle"
      /\ UNCHANGED <<live, orig>> /\ orig \in Buckets /\ IInv /\ BInv /\ Searched /\ inited
  BY DEF ReturnNull, Exhausted, HInv, IInv, TypeOK, Fresh, heap
<1>2. 0 \in Buckets /\ \E S : Sound(FreeBlocks, LiveBlocks, S, 0)
  <2>1. Kept(FieldsOf(node_status), FreeBlocks, LiveBlocks, LiveBlocks, {}, bucket_limit)
    BY <1>1, NoCall, Fields
  <2> QED
    BY <2>1, <1>1 DEF Kept, Tidy, IInv, TypeOK
<1>3. ASSUME NEW x \in FreeBlocks PROVE x[2] > orig
  <2>1. x = <<x[1], x[2]>> /\ x[2] \in Buckets /\ x[1] \in ToSet(buckets[x[2]])
    BY FreeMembers
  <2>2. buckets[x[2]] # <<>>
    BY <2>1 DEF ToSet
  <2>3. x[2] \in Nat /\ orig \in Nat
    BY <2>1, <1>1 DEF Buckets
  <2> QED
    BY <2>1, <2>2, <2>3, <1>1 DEF Searched
<1>4. ASSUME NEW b \in H!Block, H!Fits(b, Bytes(orig)) PROVE ~H!Vacant(b)
  <2>1. PICK c \in Buckets : b.size = Size(c)
    BY DEF H!Block
  <2>2. /\ b.at \in Nat /\ b = [at |-> b.at, size |-> Size(c)]
        /\ MIN_ALLOC * Size(c) >= Bytes(orig) + 0
        /\ b.at + Size(c) <= Units /\ b.at % Size(c) = 0
    BY <1>4, <2>1 DEF H!Block, H!Fits
  <2>3. c <= orig /\ c \in Nat /\ orig \in Nat
    BY <2>2, <1>1, Asking DEF Buckets
  <2> DEFINE w == <<b.at, c>>
  <2>4. w \in AllBlocks /\ w[2] = c /\ w[1] = b.at /\ Rec(w) = b
    BY <2>2, Aligned, MakeBlock DEF Rec
  <2> HIDE DEF w
  <2>5. w[1] \in At(Root(0))
    <3>1. Root(0)[1] = 0 /\ Root(0)[2] = 0 /\ Size(0) = Units /\ Size(c) \in Nat \ {0} /\ Units \in Nat
      BY Positive DEF Root, Size, Units, Smallest
    <3> QED
      BY <3>1, <2>2, <2>4 DEF At, Span
  <2>6. \A x \in FreeBlocks : x[2] > w[2]
    <3>1. \A x \in FreeBlocks : x[2] \in Nat
      BY FreeMembers DEF Buckets
    <3> QED
      BY <3>1, <1>3, <2>3, <2>4
  <2>7. PICK x \in LiveBlocks : \E u : u \in At(x) /\ u \in At(w)
    BY <1>2, <2>3, <2>4, <2>5, <2>6, FreeRegion
  <2>8. x \in AllBlocks /\ Rec(x) \in LiveRecords
    BY <1>1, LiveFacts
  <2>9. H!Overlap(b, Rec(x))
    BY <2>4, <2>7, <2>8, Overlaps
  <2> QED
    BY <2>8, <2>9 DEF H!Vacant
<1>5. LiveRecords' = LiveRecords
  BY <1>1 DEF LiveRecords, LiveBlocks
<1>6. Bytes(orig) # -1
  BY <1>1, Asking
<1> QED
  BY <1>1, <1>4, <1>5, <1>6 DEF H!Refuse, H!NoRequest, asking

\* The caller gives back a block it holds.
LEMMA Releases ==
  ASSUME IInv, BInv, NEW p \in DOMAIN live, Free(p)
  PROVE  H!Release
<1>1. pc = "idle" /\ pc' = "merge"
  BY TakesBack DEF Free
<1>2. PICK x : x \in LiveBlocks /\ x \notin LiveBlocks' /\ LiveBlocks = LiveBlocks' \union {x}
  BY TakesBack
<1>3. LiveRecords' = {Rec(y) : y \in LiveBlocks'} /\ LiveRecords = {Rec(y) : y \in LiveBlocks}
  BY DEF LiveRecords, Rec
<1>4. ASSUME NEW y \in LiveBlocks' PROVE Rec(y) # Rec(x)
  <2>1. y \in LiveBlocks /\ y # x
    BY <1>2
  <2>2. y[1] # x[1]
    BY <2>1, <1>2, LiveFacts
  <2>3. Rec(y).at = y[1] /\ Rec(x).at = x[1]
    BY DEF Rec
  <2> QED
    BY <2>2, <2>3
<1>5. LiveRecords' = LiveRecords \ {Rec(x)} /\ Rec(x) \in LiveRecords
  BY <1>2, <1>3, <1>4
<1> QED
  BY <1>1, <1>5 DEF H!Release, H!NoRequest, asking

LEMMA HeapInit == Init => H!Init
<1> SUFFICES ASSUME Init PROVE H!Init
  OBVIOUS
<1>1. pc = "idle" /\ LiveBlocks = {}
  BY DEF Init, LiveBlocks
<1> QED
  BY <1>1 DEF H!Init, H!NoRequest, LiveRecords, asking

LEMMA HeapStep == KeepsOne /\ HInv /\ [Next]_vars => H!Next \/ UNCHANGED callers
<1> SUFFICES ASSUME KeepsOne, HInv, [Next]_vars PROVE H!Next \/ UNCHANGED callers
  OBVIOUS
<1>1. IInv /\ BInv /\ Searched /\ orig \in Buckets /\ Bytes(orig) # -1
  BY Asking DEF HInv, IInv, TypeOK
<1>2. live' = live => LiveRecords' = LiveRecords
  BY DEF LiveRecords, LiveBlocks
<1>3. ASSUME NEW n \in Requests, Malloc(n) PROVE H!Next
  <2>1. pc = "idle" /\ pc' = "search" /\ live' = live /\ orig' \in Buckets
    BY <1>3 DEF Malloc
  <2>2. H!Ask(Bytes(orig'))
    BY <2>1, <1>2 DEF H!Ask, H!NoRequest, asking
  <2> QED
    BY <2>1, <2>2 DEF H!Next
<1>4. ASSUME NEW p \in DOMAIN live, Free(p) PROVE H!Next
  BY <1>1, <1>4, Releases DEF H!Next
<1>5. CASE GrowDenied \/ PopDenied
  <2>1. pc \in {"search", "pop"} /\ pc' = "null" /\ live' = live /\ orig' = orig
    BY <1>5 DEF GrowDenied, PopDenied, Growing, Popping
  <2>2. H!Deny
    BY <2>1, <1>1, <1>2 DEF H!Deny, H!NoRequest, asking, Bytes
  <2> QED
    BY <2>2 DEF H!Next
<1>6. CASE ReturnNull
  <2>1. CASE Exhausted
    BY <2>1, <1>6, Refuses DEF H!Next
  <2>2. CASE pc = "null"
    <3>1. pc' = "idle" /\ live' = live
      BY <1>6 DEF ReturnNull
    <3>2. H!Refuse
      BY <3>1, <2>2, <1>1, <1>2 DEF H!Refuse, H!NoRequest, asking
    <3> QED
      BY <3>2 DEF H!Next
  <2> QED
    BY <2>1, <2>2, <1>6 DEF ReturnNull
<1>7. CASE ReturnBlock
  BY <1>1, <1>7, Grants DEF H!Next
<1>8. CASE GrowFree \/ GrowUsed \/ Pop \/ NextBucket \/ Split \/ MarkBlock \/ MarkAncestor
  <2>1. pc' # "undefined"
    BY <1>1, NextBInv DEF BInv
  <2>2. /\ pc \in {"search", "pop", "carve", "mark"} /\ pc' \in {"search", "pop", "carve", "mark"}
        /\ live' = live /\ orig' = orig
    BY <1>8, <2>1 DEF GrowFree, GrowUsed, Pop, NextBucket, Split, MarkBlock, MarkAncestor, Growing,
       Popping, AfterGrowth
  <2> QED
    BY <2>2, <1>2 DEF callers, asking, Bytes
<1>9. CASE FreeStop \/ Merge \/ FreeAll
  <2>1. pc = "merge" /\ pc' \in {"merge", "idle", "undefined"} /\ live' = live
    BY <1>9 DEF FreeStop, Merge, FreeAll
  <2> QED
    BY <2>1, <1>2 DEF callers, asking
<1>10. CASE Foreign \/ UNCHANGED vars
  <2>1. UNCHANGED <<live, pc, orig>>
    BY <1>10 DEF Foreign, vars, call
  <2> QED
    BY <2>1, <1>2 DEF callers, asking, Bytes
<1> QED
  BY <1>3, <1>4, <1>5, <1>6, <1>7, <1>8, <1>9, <1>10 DEF Next, Step

\* malloc_2 and free_2 implement the heap their caller sees, for these callers: every block
\* handed out has the size of its bucket, is aligned and overlaps nothing the caller holds,
\* and a call is refused only when sbrk failed or no block that fits is vacant.
THEOREM HeapImplemented == KeepsOne => (Spec => ImplementsHeap)
<1>1. KeepsOne /\ HInv /\ [Next]_vars => [H!Next]_callers
  BY HeapStep
<1>2. ASSUME KeepsOne PROVE Spec => [][H!Next]_callers
  <2>1. HInv /\ [Next]_vars => [H!Next]_callers
    BY <1>1, <1>2
  <2> QED
    BY <1>2, <2>1, AlwaysHInv, PTL DEF Spec
<1>3. Spec => H!Init
  BY HeapInit DEF Spec
<1> QED
  BY <1>2, <1>3 DEF ImplementsHeap, H!Spec, callers
=============================================================================
