------------------------- MODULE BuddyMalloc2_proofs -------------------------
(***************************************************************************)
(* Proofs about BuddyMalloc2, for every depth of the tree and set of       *)
(* requests, whatever the rest of the process takes from the break and     *)
(* whether or not a caller may free its last block.  IInv says where       *)
(* blocks may lie: each list holds only addresses where a block of its     *)
(* bucket begins and whose list node is backed by memory, a held block is  *)
(* backed to its end, and the node the call works on belongs to its        *)
(* bucket.  It asks nothing of the status bits but their range: these      *)
(* facts hold even where the bits are wrong.                               *)
(***************************************************************************)
EXTENDS BuddyMalloc2, BuddyTree_proofs, FiniteSetTheorems

\* Where a free block of bucket b may begin when the break is at max: the
\* base needs no memory, as the result of the first sbrk is ignored.
Room(b, max) == {p \in Starts(b) : p = 0 \/ p < max}

FreePlaced == \A b \in Buckets : buckets[b] \in Seq(Room(b, max_ptr))

\* A held block p of bucket b.
Held(p, b) == b \in Buckets /\ p \in Starts(b) /\ p + Size(b) <= max_ptr
LivePlaced == \A p \in DOMAIN live : Held(p, live[p])

\* What malloc_2 works on: the block it splits is backed as far as it needs,
\* the block it marks to its end.
Reach == IF bucket < orig THEN Size(bucket) \div 2 + 1 ELSE Size(bucket)
MallocPlaced ==
    /\ pc \in {"search", "pop", "carve", "mark"} => bucket <= orig
    /\ pc \in {"pop", "carve", "mark"} => bucket >= bucket_limit
    /\ pc \in {"carve", "mark"} => node \in LevelOf(bucket)
    /\ pc = "carve" => ptr_for_node(node, bucket) + Reach <= max_ptr
    /\ pc = "mark" => ptr_for_node(node, bucket) + Size(bucket) <= max_ptr

\* What free_2 works on.
FreePlacedCall ==
    pc = "merge" =>
        /\ node \in LevelOf(bucket) /\ bucket >= bucket_limit
        /\ ptr_for_node(node, bucket) < max_ptr

Fresh == ~inited => pc = "idle" /\ max_ptr = 0 /\ live = [p \in {} |-> 0]

IInv == TypeOK /\ FreePlaced /\ LivePlaced /\ MallocPlaced /\ FreePlacedCall /\ Fresh

-----------------------------------------------------------------------------
\* The four fields of a byte have weights 64, 16, 4 and 1.
LEMMA Weights ==
  \A i \in Nat : One(i) = IF i % 4 = 0 THEN 64 ELSE IF i % 4 = 1 THEN 16 ELSE IF i % 4 = 2 THEN 4 ELSE 1
<1>0. 4 ^ 3 = 64 /\ 4 ^ 2 = 16 /\ 4 ^ 1 = 4 /\ 4 ^ 0 = 1
  OBVIOUS
<1> TAKE i \in Nat
<1> DEFINE e == 3 - (i % 4)
<1>1. e \in {0, 1, 2, 3} /\ i % 4 = 3 - e
  OBVIOUS
<1>2. One(i) = 4 ^ e
  BY DEF One
<1> HIDE DEF e
<1>3. CASE e = 0
  <2>1. One(i) = 4 ^ 0
    BY <1>2, <1>3, Zenon
  <2> QED
    BY <2>1, <1>0, <1>1, <1>3
<1>4. CASE e = 1
  <2>1. One(i) = 4 ^ 1
    BY <1>2, <1>4, Zenon
  <2> QED
    BY <2>1, <1>0, <1>1, <1>4
<1>5. CASE e = 2
  <2>1. One(i) = 4 ^ 2
    BY <1>2, <1>5, Zenon
  <2> QED
    BY <2>1, <1>0, <1>1, <1>5
<1>6. CASE e = 3
  <2>1. One(i) = 4 ^ 3
    BY <1>2, <1>6, Zenon
  <2> QED
    BY <2>1, <1>0, <1>1, <1>6
<1> QED
  BY <1>1, <1>3, <1>4, <1>5, <1>6

\* The bytes of the status fields, and the byte of a node is one of them.
BytesOf == [0 .. Pow2[BUCKET_COUNT] \div 4 - 1 -> 0 .. 255]
LEMMA ByteOfNode ==
  \A i \in Nodes : i \in Nat /\ i \div 4 \in 0 .. Pow2[BUCKET_COUNT] \div 4 - 1
<1>1. BUCKET_COUNT \in Nat /\ BUCKET_COUNT >= 2
  BY BuddyTreeAssumption
<1>2. /\ BUCKET_COUNT - 2 \in 0 .. BUCKET_COUNT - 1 /\ BUCKET_COUNT - 1 \in 0 .. BUCKET_COUNT - 1
      /\ (BUCKET_COUNT - 2) + 1 = BUCKET_COUNT - 1 /\ (BUCKET_COUNT - 1) + 1 = BUCKET_COUNT
      /\ BUCKET_COUNT - 2 \in Buckets
  BY <1>1 DEF Buckets
<1>3. /\ Pow2[BUCKET_COUNT - 1] = 2 * Pow2[BUCKET_COUNT - 2]
      /\ Pow2[BUCKET_COUNT] = 2 * Pow2[BUCKET_COUNT - 1]
      /\ Pow2[BUCKET_COUNT - 2] \in Nat \ {0}
  BY <1>2, Halving, Positive
<1> TAKE i \in Nodes
<1> DEFINE m == Pow2[BUCKET_COUNT - 2]
           n == Pow2[BUCKET_COUNT]
<1>4. m \in Nat /\ n = 4 * m /\ i \in 0 .. n - 2
  BY <1>3 DEF Nodes
<1> HIDE DEF m, n
<1>5. i \in Nat /\ i \div 4 \in 0 .. n \div 4 - 1
  BY <1>4
<1> QED
  BY <1>5 DEF n

LEMMA ByteValue ==
  \A ns \in BytesOf : /\ DOMAIN ns = 0 .. Pow2[BUCKET_COUNT] \div 4 - 1
                     /\ \A k \in DOMAIN ns : ns[k] \in Int /\ ns[k] \in 0 .. 255
<1> DEFINE D == 0 .. Pow2[BUCKET_COUNT] \div 4 - 1
<1>1. BytesOf = [D -> 0 .. 255]
  BY DEF BytesOf
<1> HIDE DEF D
<1>2. \A ns \in [D -> 0 .. 255] : DOMAIN ns = D /\ \A k \in D : ns[k] \in 0 .. 255
  OBVIOUS
<1>3. \A v \in 0 .. 255 : v \in Int
  OBVIOUS
<1> QED
  BY <1>1, <1>2, <1>3 DEF D

\* Changing a field leaves bytes.
LEMMA AddToBytes ==
  ASSUME NEW ns \in BytesOf, NEW i \in Nodes, NEW n \in Int
  PROVE  AddTo(ns, i, n) \in BytesOf
<1>1. One(i) \in Int
  BY Weights, ByteOfNode
<1>2. n * One(i) \in Int
  BY <1>1
<1>3. \A k \in DOMAIN ns : (ns[k] + n * One(i)) % 256 \in 0 .. 255
  <2> TAKE k \in DOMAIN ns
  <2>1. ns[k] \in Int
    BY ByteValue
  <2> DEFINE m == n * One(i)
  <2>2. m \in Int
    BY <1>2
  <2> HIDE DEF m
  <2>3. (ns[k] + m) % 256 \in 0 .. 255
    BY <2>1, <2>2
  <2> QED
    BY <2>3 DEF m
<1> DEFINE v == (ns[i \div 4] + n * One(i)) % 256
<1>4. i \div 4 \in DOMAIN ns /\ DOMAIN ns = 0 .. Pow2[BUCKET_COUNT] \div 4 - 1
  BY ByteOfNode DEF BytesOf
<1>5. v \in 0 .. 255
  BY <1>3, <1>4
<1>6. AddTo(ns, i, n) = [ns EXCEPT ![i \div 4] = v]
  BY DEF AddTo
<1> HIDE DEF v
<1> QED
  BY <1>5, <1>6 DEF BytesOf
LEMMA SetBytes ==
  ASSUME NEW ns \in BytesOf, NEW i \in Nodes
  PROVE  /\ \A st \in {UNUSED, SPLIT, USED} : node_set_status(ns, i, st) \in BytesOf
         /\ Parent(i) \in Nodes => /\ parent_inc_status(ns, i) \in BytesOf
                                   /\ parent_dec_status(ns, i) \in BytesOf
<1>1. Field(ns, i) \in Int
  <2>1. ns[i \div 4] \in Int
    BY ByteOfNode, ByteValue
  <2>2. One(i) \in {1, 4, 16, 64}
    BY Weights, ByteOfNode
  <2>3. ns[i \div 4] \div One(i) \in Int
    BY <2>1, <2>2
  <2> QED
    BY <2>3 DEF Field
<1>2. \A st \in {UNUSED, SPLIT, USED} : st - Field(ns, i) \in Int
  BY <1>1 DEF UNUSED, SPLIT, USED
<1>3. \A st \in {UNUSED, SPLIT, USED} : node_set_status(ns, i, st) \in BytesOf
  BY <1>2, AddToBytes DEF node_set_status
<1>4. Parent(i) \in Nodes => /\ parent_inc_status(ns, i) \in BytesOf
                             /\ parent_dec_status(ns, i) \in BytesOf
  <2>1. 1 \in Int /\ -1 \in Int
    OBVIOUS
  <2> QED
    BY <2>1, AddToBytes DEF parent_inc_status, parent_dec_status
<1> QED
  BY <1>3, <1>4

\* The parent of a node that is not the root is a node.
LEMMA ParentNode == \A i \in Nodes : i # 0 => Parent(i) \in Nodes
<1> DEFINE n == Pow2[BUCKET_COUNT]
<1>1. n \in Nat
  BY Positive
<1> HIDE DEF n
<1>2. \A i \in 0 .. n - 2 : i # 0 => (i - 1) \div 2 \in 0 .. n - 2
  BY <1>1
<1> QED
  BY <1>2 DEF Nodes, Parent, n

\* The node of a unit of the heap is a node of its bucket, and its block
\* begins no later.
LEMMA NodeOfUnit ==
  ASSUME NEW b \in Buckets, NEW p \in 0 .. Units - 1
  PROVE  node_for_ptr(p, b) \in LevelOf(b) /\ ptr_for_node(node_for_ptr(p, b), b) <= p
<1> DEFINE s == Size(b)
           w == Pow2[b]
           j == p \div s
<1>1. s \in Nat \ {0} /\ w \in Nat \ {0} /\ Units = w * s /\ p \in Nat /\ p < Units
  BY Positive, BlocksFill
<1>2. j \in Nat /\ j * s <= p
  BY <1>1
<1>3. j < w
  <2>1. SUFFICES ASSUME w <= j PROVE FALSE
    BY <1>1, <1>2
  <2>2. s * w <= s * j /\ s * w \in Nat /\ s * j \in Nat
    BY <1>1, <1>2, <2>1, ProductMonotone
  <2>3. s * w = w * s /\ s * j = j * s
    BY <1>1, <1>2
  <2> HIDE DEF j
  <2> QED
    BY <1>1, <1>2, <2>2, <2>3
<1>4. node_for_ptr(p, b) = j + w - 1
  BY DEF node_for_ptr
<1>5. ptr_for_node(j + w - 1, b) = j * s
  <2>1. (j + w - 1) - w + 1 = j
    BY <1>1, <1>2
  <2> QED
    BY <2>1 DEF ptr_for_node
<1>6. j + w - 1 \in (w - 1) .. (2 * w - 2)
  BY <1>1, <1>2, <1>3
<1> QED
  BY <1>2, <1>4, <1>5, <1>6 DEF LevelOf

\* A list that is in place stays in place when the break moves up.
LEMMA RoomGrows ==
  ASSUME NEW b \in Buckets, NEW m \in Nat, NEW n \in Nat, m <= n
  PROVE  /\ Room(b, m) \subseteq Room(b, n)
         /\ Seq(Room(b, m)) \subseteq Seq(Room(b, n))
         /\ 0 \in Room(b, m)
<1>1. \A p \in Starts(b) : p \in Nat
  BY StartInHeap
<1>2. Room(b, m) \subseteq Room(b, n)
  BY <1>1 DEF Room
<1>3. 0 \in Starts(b)
  <2>1. 0 = 0 * Size(b) /\ 0 \in 0 .. Pow2[b] - 1
    BY Positive
  <2> QED
    BY <2>1 DEF Starts
<1>4. Seq(Room(b, m)) \subseteq Seq(Room(b, n))
  BY <1>2, SeqOfMore
<1> QED
  BY <1>2, <1>3, <1>4 DEF Room

\* Lists in place are lists of addresses in the heap.
LEMMA RoomInHeap ==
  ASSUME NEW b \in Buckets, NEW m \in Nat
  PROVE  /\ Room(b, m) \subseteq 0 .. Units - 1
         /\ Seq(Room(b, m)) \subseteq Seq(0 .. Units - 1)
<1>1. \A p \in Starts(b) : p \in Nat /\ p + Size(b) <= Units
  BY StartInHeap
<1>2. Room(b, m) \subseteq 0 .. Units - 1
  BY <1>1, Positive DEF Room
<1>3. Seq(Room(b, m)) \subseteq Seq(0 .. Units - 1)
  BY <1>2, SeqOfMore
<1> QED
  BY <1>2, <1>3

\* The initial state.
LEMMA InitIInv == Init => IInv
<1> SUFFICES ASSUME Init PROVE IInv
  OBVIOUS
<1> USE DEF Init
<1>1. TypeOK
  <2>1. Smallest \in Buckets /\ 0 \in Buckets /\ Units \in Nat \ {0}
    BY Positive DEF Buckets
  <2>2. 0 \in Nodes
    BY <2>1, LevelNodes, Halving DEF LevelOf
  <2>3. node_status \in BytesOf
    BY DEF BytesOf
  <2>4. /\ inited \in BOOLEAN
        /\ max_ptr \in 0 .. Units /\ bucket_limit \in Buckets
        /\ buckets \in [Buckets -> Seq(0 .. Units - 1)]
    <3>1. inited \in BOOLEAN
      OBVIOUS
    <3>2. max_ptr \in 0 .. Units /\ bucket_limit \in Buckets
      BY <2>1
    <3>3. <<>> \in Seq(0 .. Units - 1)
      OBVIOUS
    <3>4. buckets \in [Buckets -> Seq(0 .. Units - 1)]
      BY <3>3
    <3> QED
      BY <3>1, <3>2, <3>4
  <2>5. /\ foreign \subseteq 0 .. Units + ForeignMax - 1
        /\ DOMAIN live \subseteq 0 .. Units - 1
        /\ \A p \in DOMAIN live : live[p] \in Buckets
    OBVIOUS
  <2>6. node_status \in [0 .. Pow2[BUCKET_COUNT] \div 4 - 1 -> 0 .. 255]
    BY <2>3 DEF BytesOf
  <2> HIDE DEF Init
  <2>7. /\ pc = "idle" /\ bucket \in Buckets /\ orig \in Buckets /\ node \in Nodes /\ up \in Nodes
    BY <2>1, <2>2 DEF Init
  <2> QED
    BY <2>4, <2>5, <2>6, <2>7 DEF TypeOK
<1>2. FreePlaced /\ LivePlaced /\ MallocPlaced /\ FreePlacedCall /\ Fresh
  BY DEF FreePlaced, LivePlaced, MallocPlaced, FreePlacedCall, Fresh
<1> QED
  BY <1>1, <1>2 DEF IInv

-----------------------------------------------------------------------------
LEMMA Numbers ==
  ASSUME IInv
  PROVE  /\ max_ptr \in Nat /\ Units \in Nat /\ max_ptr <= Units
         /\ bucket_limit \in Nat /\ bucket \in Nat /\ orig \in Nat /\ Smallest \in Nat
         /\ bucket_limit <= Smallest /\ bucket <= Smallest /\ orig <= Smallest
  BY Positive DEF IInv, TypeOK, Buckets, Smallest

\* The parts of IInv about lists and held blocks survive a step that keeps the
\* held blocks, grows the break and replaces lists by lists in place.
LEMMA ListsIInv ==
  ASSUME IInv, live' = live, max_ptr' \in Nat, max_ptr <= max_ptr',
         \A b \in Buckets : buckets'[b] \in Seq(Room(b, max_ptr'))
  PROVE  FreePlaced' /\ LivePlaced'
<1>1. FreePlaced'
  BY DEF FreePlaced
<1>2. ASSUME NEW p \in DOMAIN live'
      PROVE  Held(p, live[p])'
  <2>1. Held(p, live[p])
    BY <1>2 DEF IInv, LivePlaced
  <2>2. p \in Nat /\ Size(live[p]) \in Nat
    BY <2>1, StartInHeap, Positive DEF Held
  <2>3. p + Size(live[p]) <= max_ptr'
    BY <2>1, <2>2, Numbers DEF Held
  <2> QED
    BY <2>1, <2>3 DEF Held
<1> QED
  BY <1>1, <1>2 DEF LivePlaced

\* A list that replaces that of bucket b, with the others unchanged.
LEMMA OneList ==
  ASSUME IInv, NEW b \in Buckets, max_ptr' \in 0 .. Units, max_ptr <= max_ptr',
         NEW s \in Seq(Room(b, max_ptr')), buckets' = [buckets EXCEPT ![b] = s]
  PROVE  /\ buckets' \in [Buckets -> Seq(0 .. Units - 1)]
         /\ \A c \in Buckets : buckets'[c] \in Seq(Room(c, max_ptr'))
<1>1. max_ptr \in Nat /\ max_ptr' \in Nat /\ Units \in Nat
  BY Positive DEF IInv, TypeOK
<1>2. buckets \in [Buckets -> Seq(0 .. Units - 1)]
  BY DEF IInv, TypeOK
<1>3. \A c \in Buckets : buckets[c] \in Seq(Room(c, max_ptr'))
  BY <1>1, RoomGrows DEF IInv, FreePlaced
<1>4. \A c \in Buckets : buckets'[c] \in Seq(Room(c, max_ptr'))
  BY <1>2, <1>3
<1>5. s \in Seq(0 .. Units - 1)
  BY <1>1, RoomInHeap
<1> QED
  BY <1>2, <1>4, <1>5

\* Unlinking an address leaves every list in place.
LEMMA UnlinkedPlaced ==
  ASSUME IInv, NEW p
  PROVE  /\ Unlinked(p) \in [Buckets -> Seq(0 .. Units - 1)]
         /\ \A b \in Buckets : Unlinked(p)[b] \in Seq(Room(b, max_ptr))
<1>1. ASSUME NEW b \in Buckets
      PROVE  list_remove(buckets[b], p) \in Seq(Room(b, max_ptr))
                /\ list_remove(buckets[b], p) \in Seq(0 .. Units - 1)
  <2>1. buckets[b] \in Seq(Room(b, max_ptr)) /\ buckets[b] \in Seq(0 .. Units - 1)
    BY DEF IInv, FreePlaced, TypeOK
  <2> QED
    BY <2>1, Lists
<1> QED
  BY <1>1 DEF Unlinked

-----------------------------------------------------------------------------
\* One lemma per action: it preserves the inductive invariant.
LEMMA MallocIInv == ASSUME IInv, NEW n \in Requests, Malloc(n) PROVE IInv'
<1> USE DEF Malloc
<1>1. bucket' \in Buckets /\ orig' = bucket' /\ pc' = "search"
      /\ UNCHANGED <<foreign, live, node, up>>
  OBVIOUS
<1>2. Units \in Nat \ {0} /\ Smallest \in Buckets
  BY Positive
<1>3. /\ inited' = TRUE /\ max_ptr' \in 0 .. Units /\ max_ptr' \in Nat /\ max_ptr <= max_ptr'
      /\ node_status' = node_status /\ bucket_limit' \in Buckets
      /\ buckets' \in [Buckets -> Seq(0 .. Units - 1)]
      /\ \A b \in Buckets : buckets'[b] \in Seq(Room(b, max_ptr'))
  <2>1. CASE inited
    <3>1. UNCHANGED heap
      BY <2>1 DEF Setup
    <3> QED
      BY <2>1, <3>1, Numbers DEF heap, IInv, TypeOK, FreePlaced
  <2>2. CASE ~inited
    <3>1. /\ inited' = TRUE /\ max_ptr = 0 /\ max_ptr' \in {0, 1} /\ node_status' = node_status
          /\ bucket_limit' = Smallest /\ buckets' = [buckets EXCEPT ![Smallest] = <<0>>]
      BY <2>2 DEF Setup, IInv, Fresh
    <3>2. max_ptr' \in 0 .. Units /\ max_ptr' \in Nat /\ max_ptr <= max_ptr'
      BY <3>1, <1>2
    <3>3. 0 \in Room(Smallest, max_ptr')
      BY <3>2, <1>2, RoomGrows
    <3>4. <<0>> \in Seq(Room(Smallest, max_ptr'))
      BY <3>3
    <3> QED
      BY <3>1, <3>2, <3>4, <1>2, OneList
  <2> QED
    BY <2>1, <2>2
<1>4. TypeOK'
  BY <1>1, <1>3 DEF IInv, TypeOK
<1>5. FreePlaced' /\ LivePlaced'
  BY <1>1, <1>3, ListsIInv
<1>6. MallocPlaced' /\ FreePlacedCall' /\ Fresh'
  BY <1>1, <1>3 DEF MallocPlaced, FreePlacedCall, Fresh, Buckets
<1> QED
  BY <1>4, <1>5, <1>6 DEF IInv

\* free_2 works on a node whose block begins at or before the freed address,
\* whatever bucket it finds.
LEMMA FreeIInv == ASSUME IInv, NEW p \in DOMAIN live, Free(p) PROVE IInv'
<1> USE DEF Free
<1> DEFINE used == {b \in bucket_limit .. Smallest : get_node_status(node_for_ptr(p, b)) = USED}
           b == bucket_for_alloced_pointer(p)
<1>1. p \in 0 .. Units - 1 /\ p < max_ptr
  <2>1. Held(p, live[p])
    BY DEF IInv, LivePlaced
  <2>2. p \in Nat /\ Size(live[p]) \in Nat \ {0} /\ p + Size(live[p]) <= max_ptr
    BY <2>1, StartInHeap, Positive DEF Held
  <2> QED
    BY <2>2, Numbers
<1>2. b # -1 => b \in Buckets /\ b >= bucket_limit
  <2>1. CASE used = {}
    BY <2>1 DEF bucket_for_alloced_pointer
  <2>2. CASE used # {}
    <3>1. used \subseteq 0 .. Smallest /\ Smallest \in Nat
      BY Numbers
    <3>2. \E x \in used : \A y \in used : y <= x
      BY <2>2, <3>1, HasGreatest
    <3>3. \E x \in used : \A y \in used : x >= y
      BY <3>1, <3>2
    <3>4. Max(used) \in used
      <4> HIDE DEF used
      <4> QED
        BY <3>3, Zenon DEF Max
    <3>5. b = Max(used)
      BY <2>2 DEF bucket_for_alloced_pointer
    <3>6. b \in bucket_limit .. Smallest
      <4>1. Max(used) \in bucket_limit .. Smallest
        BY <3>4
      <4> HIDE DEF used
      <4> QED
        BY <3>5, <4>1
    <3> QED
      BY <3>6, Numbers DEF Buckets, Smallest
  <2> QED
    BY <2>1, <2>2
<1> HIDE DEF b, used
<1>3. /\ live' = [q \in DOMAIN live \ {p} |-> live[q]]
      /\ UNCHANGED <<inited, max_ptr, bucket_limit, buckets, node_status, foreign, orig, up>>
      /\ \/ b = -1 /\ pc' = "undefined" /\ UNCHANGED <<bucket, node>>
         \/ b # -1 /\ pc' = "merge" /\ bucket' = b /\ node' = node_for_ptr(p, b)
  BY DEF b, heap
<1>4. \A q \in DOMAIN live' : q \in DOMAIN live /\ live'[q] = live[q]
  BY <1>3
<1>5. b # -1 => node_for_ptr(p, b) \in LevelOf(b) /\ node_for_ptr(p, b) \in Nodes
                /\ ptr_for_node(node_for_ptr(p, b), b) < max_ptr
  <2> SUFFICES ASSUME b # -1
               PROVE  node_for_ptr(p, b) \in LevelOf(b) /\ node_for_ptr(p, b) \in Nodes
                      /\ ptr_for_node(node_for_ptr(p, b), b) < max_ptr
    OBVIOUS
  <2>1. b \in Buckets
    BY <1>2
  <2>2. node_for_ptr(p, b) \in LevelOf(b) /\ ptr_for_node(node_for_ptr(p, b), b) <= p
    BY <1>1, <2>1, NodeOfUnit
  <2>3. node_for_ptr(p, b) \in Nodes
    BY <2>1, <2>2, LevelNodes
  <2>4. ptr_for_node(node_for_ptr(p, b), b) \in Nat
    BY <2>1, <2>2, PtrOfNode, StartInHeap
  <2> QED
    BY <2>2, <2>3, <2>4, <1>1, Numbers
<1>6. bucket' \in Buckets /\ node' \in Nodes /\ pc' \in {"undefined", "merge"}
  BY <1>2, <1>3, <1>5 DEF IInv, TypeOK
<1>7. TypeOK'
  <2>1. DOMAIN live' \subseteq 0 .. Units - 1 /\ \A q \in DOMAIN live' : live'[q] \in Buckets
    BY <1>4 DEF IInv, TypeOK
  <2> QED
    BY <1>3, <1>6, <2>1 DEF IInv, TypeOK
<1>8. FreePlaced' /\ LivePlaced'
  BY <1>3, <1>4 DEF IInv, FreePlaced, LivePlaced, Held
<1>9. MallocPlaced'
  BY <1>6 DEF MallocPlaced
<1>10. FreePlacedCall'
  <2> SUFFICES ASSUME pc' = "merge"
               PROVE  /\ node' \in LevelOf(bucket') /\ bucket' >= bucket_limit'
                      /\ ptr_for_node(node', bucket') < max_ptr'
    BY DEF FreePlacedCall
  <2>1. b # -1 /\ bucket' = b /\ node' = node_for_ptr(p, b)
    BY <1>3
  <2> QED
    BY <2>1, <1>2, <1>3, <1>5
<1>11. inited
  BY DEF IInv, Fresh
<1>12. Fresh'
  BY <1>3, <1>11 DEF Fresh
<1> QED
  BY <1>7, <1>8, <1>9, <1>10, <1>12 DEF IInv

\* The root of a pool that grows, and the halves of the next one.
LEMMA GrowingPool ==
  ASSUME IInv, Growing
  PROVE  /\ bucket_limit # 0 /\ bucket <= bucket_limit /\ pc = "search" /\ inited
         /\ bucket_limit \in Buckets /\ bucket_limit - 1 \in Buckets
         /\ AfterGrowth \in {"search", "pop"}
         /\ AfterGrowth = "pop" => bucket >= bucket_limit - 1
<1>1. bucket_limit # 0 /\ bucket <= bucket_limit /\ pc = "search"
  BY Numbers DEF Growing
<1>2. inited /\ bucket_limit \in Buckets
  BY <1>1 DEF IInv, Fresh, TypeOK
<1>3. bucket_limit - 1 \in Buckets
  BY <1>1, <1>2, Positive DEF Buckets
<1>4. AfterGrowth \in {"search", "pop"}
  BY DEF AfterGrowth
<1>5. AfterGrowth = "pop" => bucket >= bucket_limit - 1
  BY Numbers DEF AfterGrowth
<1> QED
  BY <1>1, <1>2, <1>3, <1>4, <1>5

LEMMA GrowFreeIInv == ASSUME IInv, GrowFree PROVE IInv'
<1> USE DEF GrowFree
<1>1. /\ Growing /\ pc' \in {AfterGrowth, "undefined"}
      /\ UNCHANGED <<inited, max_ptr, node_status, foreign, live, bucket, orig, node, up>>
      /\ \/ /\ bucket_limit' = bucket_limit - 1 /\ pc' = AfterGrowth
            /\ buckets' = [Unlinked(0) EXCEPT ![bucket_limit - 1] = <<0>>]
         \/ pc' = "undefined" /\ UNCHANGED <<bucket_limit, buckets>>
  OBVIOUS
<1>2. bucket_limit' \in Buckets
  BY <1>1, GrowingPool
<1>3. max_ptr' = max_ptr /\ max_ptr' \in Nat /\ max_ptr <= max_ptr'
  BY <1>1, Numbers
<1>4. /\ buckets' \in [Buckets -> Seq(0 .. Units - 1)]
      /\ \A b \in Buckets : buckets'[b] \in Seq(Room(b, max_ptr'))
  <2>1. CASE UNCHANGED buckets
    BY <2>1, <1>3 DEF IInv, TypeOK, FreePlaced
  <2>2. CASE buckets' = [Unlinked(0) EXCEPT ![bucket_limit - 1] = <<0>>]
    <3>1. /\ Unlinked(0) \in [Buckets -> Seq(0 .. Units - 1)]
          /\ \A b \in Buckets : Unlinked(0)[b] \in Seq(Room(b, max_ptr))
      BY UnlinkedPlaced
    <3>2. bucket_limit - 1 \in Buckets
      BY <1>1, GrowingPool
    <3>3. 0 \in Room(bucket_limit - 1, max_ptr) /\ Room(bucket_limit - 1, max_ptr) \subseteq 0 .. Units - 1
      BY <1>3, <3>2, RoomGrows, RoomInHeap, Numbers
    <3>4. <<0>> \in Seq(Room(bucket_limit - 1, max_ptr)) /\ <<0>> \in Seq(0 .. Units - 1)
      BY <3>3
    <3> QED
      BY <2>2, <3>1, <3>2, <3>4, <1>3
  <2> QED
    BY <1>1, <2>1, <2>2
<1>5. FreePlaced' /\ LivePlaced'
  BY <1>1, <1>3, <1>4, ListsIInv
<1>6. pc' \in {"search", "pop", "undefined"}
  BY <1>1, GrowingPool
<1>7. TypeOK'
  BY <1>1, <1>2, <1>3, <1>4, <1>6 DEF IInv, TypeOK
<1>8. MallocPlaced'
  <2>1. bucket <= orig
    BY <1>1, GrowingPool DEF IInv, MallocPlaced
  <2>2. pc' = "pop" => bucket >= bucket_limit'
    BY <1>1, <1>6, GrowingPool
  <2> QED
    BY <1>1, <1>6, <2>1, <2>2 DEF MallocPlaced
<1>9. FreePlacedCall' /\ Fresh'
  BY <1>1, <1>6, GrowingPool DEF FreePlacedCall, Fresh
<1> QED
  BY <1>5, <1>7, <1>8, <1>9 DEF IInv

\* The break never goes down, and not past what it is moved for.
LEMMA BreakMoves ==
  ASSUME IInv, NEW m \in 0 .. Units, update_max_ptr(m)
  PROVE  max_ptr' \in 0 .. Units /\ max_ptr' \in Nat /\ max_ptr <= max_ptr' /\ m <= max_ptr'
  BY Numbers DEF update_max_ptr

LEMMA GrowUsedIInv == ASSUME IInv, GrowUsed PROVE IInv'
<1> USE DEF GrowUsed
<1>1. /\ Growing /\ pc' = AfterGrowth /\ bucket_limit' = bucket_limit - 1
      /\ UNCHANGED <<inited, foreign, live, bucket, orig, node, up>>
  OBVIOUS
<1>2. /\ bucket_limit \in Buckets /\ bucket_limit - 1 \in Buckets /\ bucket_limit # 0
      /\ bucket_limit \in Nat
  BY <1>1, GrowingPool, Numbers
<1>3. root \in LevelOf(bucket_limit) /\ root + 1 \in LevelOf(bucket_limit)
      /\ RightHalf \in Starts(bucket_limit)
  <2>1. 0 \in Starts(bucket_limit) /\ root \in LevelOf(bucket_limit)
        /\ ptr_for_node(root, bucket_limit) = 0
    BY <1>2, RoomGrows, NodeOfPtr DEF Room, root
  <2>2. 0 \div Size(bucket_limit) = 0
    BY <1>2, Positive, ExactQuotient
  <2>3. root = Pow2[bucket_limit] - 1
    BY <2>2, <1>2, Positive DEF root, node_for_ptr
  <2>4. bucket_limit - 1 \in 0 .. BUCKET_COUNT - 1 /\ (bucket_limit - 1) + 1 = bucket_limit
    BY <1>2 DEF Buckets
  <2>5. Pow2[(bucket_limit - 1) + 1] = 2 * Pow2[bucket_limit - 1] /\ Pow2[bucket_limit - 1] \in Nat \ {0}
    BY <1>2, <2>4, Halving, Positive
  <2>6. root + 1 \in LevelOf(bucket_limit)
    BY <2>3, <2>4, <2>5 DEF LevelOf
  <2> QED
    BY <2>1, <2>6, <1>2, PtrOfNode DEF RightHalf
<1>4. RightHalf \in Nat /\ RightHalf + 1 \in 0 .. Units
  <2>1. RightHalf \in Nat /\ RightHalf + Size(bucket_limit) <= Units
        /\ Size(bucket_limit) \in Nat \ {0}
    BY <1>2, <1>3, StartInHeap, Positive
  <2> QED
    BY <2>1, Numbers
<1>5. max_ptr' \in 0 .. Units /\ max_ptr' \in Nat /\ max_ptr <= max_ptr' /\ RightHalf < max_ptr'
  <2>1. max_ptr' \in 0 .. Units /\ max_ptr' \in Nat /\ max_ptr <= max_ptr' /\ RightHalf + 1 <= max_ptr'
    BY <1>4, BreakMoves
  <2> QED
    BY <2>1, <1>4
<1>6. /\ buckets' \in [Buckets -> Seq(0 .. Units - 1)]
      /\ \A b \in Buckets : buckets'[b] \in Seq(Room(b, max_ptr'))
  <2>1. buckets \in [Buckets -> Seq(0 .. Units - 1)]
    BY DEF IInv, TypeOK
  <2>2. \A b \in Buckets : buckets[b] \in Seq(Room(b, max_ptr'))
    BY <1>5, RoomGrows, Numbers DEF IInv, FreePlaced
  <2>3. RightHalf \in Room(bucket_limit, max_ptr')
    BY <1>3, <1>5 DEF Room
  <2>4. list_push(buckets[bucket_limit], RightHalf) \in Seq(Room(bucket_limit, max_ptr'))
    BY <1>2, <2>2, <2>3, Lists
  <2>5. \A b \in Buckets : buckets'[b] \in Seq(Room(b, max_ptr'))
    BY <1>2, <2>1, <2>2, <2>4
  <2>6. \A b \in Buckets : buckets'[b] \in Seq(0 .. Units - 1)
    BY <1>5, <2>5, RoomInHeap
  <2> QED
    BY <2>1, <2>5, <2>6
<1>7. node_status' \in BytesOf
  <2>1. Parent(root) \in Nodes
    BY <1>2, <1>3, ParentOf, LevelNodes
  <2>2. node_status \in BytesOf
    BY DEF IInv, TypeOK, BytesOf
  <2> QED
    BY <2>1, <2>2, SetBytes DEF GrownStatus
<1>8. FreePlaced' /\ LivePlaced'
  BY <1>1, <1>5, <1>6, ListsIInv
<1>9. TypeOK'
  <2>1. pc' \in {"search", "pop"}
    BY <1>1, GrowingPool
  <2> QED
    BY <1>1, <1>2, <1>5, <1>6, <1>7, <2>1 DEF IInv, TypeOK, BytesOf
<1>10. MallocPlaced'
  <2>1. bucket <= orig
    BY <1>1, GrowingPool DEF IInv, MallocPlaced
  <2> QED
    BY <1>1, <2>1, GrowingPool DEF MallocPlaced
<1>11. FreePlacedCall' /\ Fresh'
  BY <1>1, GrowingPool DEF FreePlacedCall, Fresh
<1> QED
  BY <1>8, <1>9, <1>10, <1>11 DEF IInv

\* Counting a child in the field of its parent.
LEMMA CountChild ==
  ASSUME IInv, NEW i \in Nodes, i # 0
  PROVE  parent_inc_status(node_status, i) \in BytesOf
<1>1. node_status \in BytesOf /\ Parent(i) \in Nodes
  BY ParentNode DEF IInv, TypeOK, BytesOf
<1> QED
  BY <1>1, SetBytes

LEMMA PopIInv == ASSUME IInv, Pop PROVE IInv'
<1> USE DEF Pop
<1>1. bucket >= bucket_limit /\ buckets[bucket] # <<>> /\ pc \in {"search", "pop"} /\ bucket <= orig
      /\ bucket \in Buckets /\ inited
  BY DEF Popping, IInv, MallocPlaced, TypeOK, Fresh
<1>2. Popped \in Starts(bucket) /\ Front(buckets[bucket]) \in Seq(Room(bucket, max_ptr))
  BY <1>1, Lists DEF Popped, IInv, FreePlaced, Room
<1>3. node' \in LevelOf(bucket) /\ ptr_for_node(node', bucket) = Popped /\ node' \in Nodes
  BY <1>1, <1>2, NodeOfPtr, LevelNodes
<1>4. BreakNeeded \in 0 .. Units /\ BreakNeeded = Popped + Reach
  <2>1. Popped \in Nat /\ Popped + Size(bucket) <= Units /\ Size(bucket) \in Nat \ {0}
    BY <1>1, <1>2, StartInHeap, Positive
  <2>2. bucket < orig => Size(bucket) = 2 * Size(bucket + 1) /\ Size(bucket + 1) \in Nat \ {0}
    BY <1>1, Halving, Positive, Numbers
  <2>3. bucket < orig => Size(bucket) \div 2 + 1 \in Nat /\ Size(bucket) \div 2 + 1 <= Size(bucket)
    BY <2>2
  <2>4. Reach \in Nat /\ Reach <= Size(bucket)
    BY <2>1, <2>3 DEF Reach
  <2>5. BreakNeeded = Popped + Reach
    BY DEF BreakNeeded, Reach
  <2> QED
    BY <2>1, <2>4, <2>5, Numbers
<1>5. max_ptr' \in 0 .. Units /\ max_ptr' \in Nat /\ max_ptr <= max_ptr' /\ Popped + Reach <= max_ptr'
  BY <1>4, BreakMoves
<1>6. /\ buckets' \in [Buckets -> Seq(0 .. Units - 1)]
      /\ \A b \in Buckets : buckets'[b] \in Seq(Room(b, max_ptr'))
  <2>1. Front(buckets[bucket]) \in Seq(Room(bucket, max_ptr'))
    BY <1>1, <1>2, <1>5, Numbers, RoomGrows
  <2> QED
    BY <1>1, <1>5, <2>1, OneList
<1>7. node_status' \in BytesOf
  BY <1>3, CountChild DEF IInv, TypeOK, BytesOf
<1>8. FreePlaced' /\ LivePlaced'
  BY <1>5, <1>6, ListsIInv
<1>9. TypeOK'
  BY <1>3, <1>5, <1>6, <1>7 DEF IInv, TypeOK, BytesOf
<1>10. MallocPlaced' /\ FreePlacedCall' /\ Fresh'
  BY <1>1, <1>3, <1>5 DEF MallocPlaced, FreePlacedCall, Fresh, Reach
<1> QED
  BY <1>8, <1>9, <1>10 DEF IInv

\* Steps that touch neither lists nor held blocks nor the status bits.
LEMMA LocalIInv ==
  ASSUME IInv, GrowDenied \/ NextBucket \/ ReturnNull
  PROVE  IInv'
<1>1. UNCHANGED <<inited, max_ptr, bucket_limit, buckets, node_status, foreign, live, orig, node, up>>
  BY DEF GrowDenied, NextBucket, ReturnNull, heap
<1>2. inited /\ bucket' \in Buckets /\ bucket' <= bucket
      /\ pc' \in {"search", "null", "idle"} /\ (pc' = "search" => pc = "search")
  <2>1. inited /\ bucket \in Buckets
    BY DEF GrowDenied, NextBucket, ReturnNull, Growing, Exhausted, IInv, Fresh, TypeOK
  <2>2. CASE NextBucket
    <3>1. bucket' = bucket - 1 /\ bucket > bucket_limit
          /\ pc = "search" /\ pc' = pc
      BY <2>2 DEF NextBucket, NextLarger
    <3>2. bucket \in 0 .. BUCKET_COUNT - 1 /\ BUCKET_COUNT \in Nat /\ bucket_limit \in Nat
      BY <2>1, Positive, Numbers DEF Buckets
    <3>3. bucket - 1 \in 0 .. BUCKET_COUNT - 1 /\ bucket - 1 <= bucket
      BY <3>1, <3>2
    <3> QED
      BY <2>1, <3>1, <3>3 DEF Buckets
  <2>3. CASE GrowDenied \/ ReturnNull
    BY <2>1, <2>3, Numbers DEF GrowDenied, ReturnNull
  <2> QED
    BY <2>2, <2>3
<1>3. TypeOK' /\ FreePlaced' /\ LivePlaced'
  BY <1>1, <1>2 DEF IInv, TypeOK, FreePlaced, LivePlaced, Held
<1>4. MallocPlaced' /\ FreePlacedCall' /\ Fresh'
  <2>1. bucket' \in Nat
    BY <1>2 DEF Buckets
  <2> QED
    BY <1>1, <1>2, <2>1, Numbers DEF IInv, MallocPlaced, FreePlacedCall, Fresh
<1> QED
  BY <1>3, <1>4 DEF IInv

LEMMA PopDeniedIInv == ASSUME IInv, PopDenied PROVE IInv'
<1> USE DEF PopDenied
<1>1. buckets[bucket] # <<>> /\ bucket \in Buckets /\ inited
  BY DEF Popping, IInv, TypeOK, Fresh
<1>2. max_ptr' \in 0 .. Units /\ max_ptr' \in Nat /\ max_ptr <= max_ptr' /\ max_ptr' = max_ptr
  BY Numbers DEF IInv, TypeOK
<1>3. Front(buckets[bucket]) \in Seq(Room(bucket, max_ptr)) /\ Popped \in Room(bucket, max_ptr)
  BY <1>1, Lists DEF IInv, FreePlaced, Popped
<1>4. list_push(Front(buckets[bucket]), Popped) \in Seq(Room(bucket, max_ptr'))
  BY <1>2, <1>3, Lists
<1>5. /\ buckets' \in [Buckets -> Seq(0 .. Units - 1)]
      /\ \A b \in Buckets : buckets'[b] \in Seq(Room(b, max_ptr'))
  BY <1>1, <1>2, <1>4, OneList
<1>6. FreePlaced' /\ LivePlaced'
  BY <1>2, <1>5, ListsIInv
<1>7. TypeOK' /\ MallocPlaced' /\ FreePlacedCall' /\ Fresh'
  BY <1>1, <1>5 DEF IInv, TypeOK, MallocPlaced, FreePlacedCall, Fresh
<1> QED
  BY <1>6, <1>7 DEF IInv

LEMMA SplitIInv == ASSUME IInv, Split PROVE IInv'
<1> USE DEF Split
<1>1. /\ bucket < orig /\ bucket >= bucket_limit /\ bucket \in Buckets /\ bucket # Smallest
      /\ node \in LevelOf(bucket) /\ inited /\ pc' = "carve"
      /\ ptr_for_node(node, bucket) + (Size(bucket) \div 2 + 1) <= max_ptr
  <2>1. bucket < orig /\ pc = "carve" /\ pc' = "carve"
    OBVIOUS
  <2> QED
    BY <2>1, Numbers DEF IInv, MallocPlaced, TypeOK, Reach, Fresh
<1>2. /\ bucket' = bucket + 1 /\ bucket' \in Buckets /\ bucket' <= orig /\ bucket' >= bucket_limit
      /\ bucket' # 0
      /\ Size(bucket) = 2 * Size(bucket') /\ Size(bucket') \in Nat \ {0}
  BY <1>1, Halving, Positive, Numbers
<1>3. /\ node' \in LevelOf(bucket') /\ node' + 1 \in LevelOf(bucket')
      /\ ptr_for_node(node', bucket') = ptr_for_node(node, bucket)
      /\ ptr_for_node(node' + 1, bucket') = ptr_for_node(node, bucket) + Size(bucket')
  <2>1. node \in Nat /\ Right(node) = Left(node) + 1
    BY <1>1, LevelNodes DEF Left, Right
  <2> QED
    BY <1>1, <1>2, <2>1, ChildrenOf
<1>4. ptr_for_node(node, bucket) \in Nat
  BY <1>1, PtrOfNode, StartInHeap
<1>5. ptr_for_node(node, bucket) + Size(bucket') + 1 <= max_ptr
  BY <1>1, <1>2, <1>4, Numbers
<1>6. /\ buckets' \in [Buckets -> Seq(0 .. Units - 1)]
      /\ \A b \in Buckets : buckets'[b] \in Seq(Room(b, max_ptr'))
  <2>1. ptr_for_node(node' + 1, bucket') \in Room(bucket', max_ptr)
    BY <1>2, <1>3, <1>4, <1>5, PtrOfNode, Numbers DEF Room
  <2>2. list_push(buckets[bucket'], ptr_for_node(node' + 1, bucket')) \in Seq(Room(bucket', max_ptr'))
    BY <1>2, <2>1, Lists DEF IInv, FreePlaced
  <2>3. max_ptr' \in 0 .. Units /\ max_ptr <= max_ptr'
    BY Numbers
  <2> QED
    BY <1>2, <2>2, <2>3, OneList
<1>7. FreePlaced' /\ LivePlaced'
  <2>1. live' = live /\ max_ptr' \in Nat /\ max_ptr <= max_ptr'
    BY Numbers
  <2> QED
    BY <2>1, <1>6, ListsIInv
<1>8. TypeOK'
  <2>1. node' \in Nodes /\ node' # 0
    BY <1>2, <1>3, LevelNodes
  <2>2. node_status' \in BytesOf
    BY <2>1, CountChild
  <2> QED
    BY <1>1, <1>2, <1>6, <2>1, <2>2 DEF IInv, TypeOK, BytesOf
<1>9. MallocPlaced' /\ FreePlacedCall' /\ Fresh'
  <2>1. Reach' <= Size(bucket') + 1 /\ Reach' \in Nat
    <3>1. Size(bucket') \div 2 + 1 <= Size(bucket') + 1 /\ Size(bucket') \div 2 + 1 \in Nat
      BY <1>2
    <3> QED
      BY <3>1, <1>2 DEF Reach
  <2>2. ptr_for_node(node', bucket') + Reach' <= max_ptr
    BY <1>3, <1>4, <1>5, <1>2, <2>1, Numbers
  <2> QED
    BY <1>1, <1>2, <1>3, <2>2 DEF MallocPlaced, FreePlacedCall, Fresh
<1> QED
  BY <1>7, <1>8, <1>9 DEF IInv

LEMMA MarkBlockIInv == ASSUME IInv, MarkBlock PROVE IInv'
<1> USE DEF MarkBlock
<1>1. /\ pc = "carve" /\ bucket = orig /\ pc' \in {"mark", "undefined"}
      /\ node_status' = node_set_status(node_status, node, USED)
      /\ UNCHANGED <<inited, max_ptr, bucket_limit, buckets, foreign, live, bucket, orig, node>>
  OBVIOUS
<1>2. /\ node \in LevelOf(bucket) /\ bucket >= bucket_limit /\ inited /\ node \in Nodes
      /\ ptr_for_node(node, bucket) + Size(bucket) <= max_ptr
  <2>1. Reach = Size(bucket)
    BY <1>1, Numbers DEF Reach
  <2> QED
    BY <1>1, <2>1 DEF IInv, MallocPlaced, Fresh, TypeOK
<1>3. node_status' \in BytesOf
  <2>1. node_status \in BytesOf
    BY DEF IInv, TypeOK, BytesOf
  <2> QED
    BY <1>1, <1>2, <2>1, SetBytes
<1>4. up' \in Nodes
  <2>1. CASE node = 0
    BY <2>1, <1>2
  <2>2. CASE node # 0
    BY <2>2, <1>2, ParentNode
  <2> QED
    BY <2>1, <2>2
<1>5. TypeOK'
  BY <1>1, <1>3, <1>4 DEF IInv, TypeOK, BytesOf
<1>6. FreePlaced' /\ LivePlaced' /\ FreePlacedCall' /\ Fresh'
  BY <1>1, <1>2 DEF IInv, FreePlaced, LivePlaced, Held, FreePlacedCall, Fresh
<1>7. MallocPlaced'
  BY <1>1, <1>2, Numbers DEF MallocPlaced
<1> QED
  BY <1>5, <1>6, <1>7 DEF IInv

LEMMA MarkAncestorIInv == ASSUME IInv, MarkAncestor PROVE IInv'
<1> USE DEF MarkAncestor
<1>1. /\ pc = "mark" /\ up # 0 /\ up \in Nodes /\ up' = Parent(up)
      /\ node_status' = node_set_status(node_status, up, USED)
      /\ UNCHANGED <<inited, max_ptr, bucket_limit, buckets, foreign, live, pc, bucket, orig, node>>
  BY DEF IInv, TypeOK
<1>2. node_status' \in BytesOf /\ up' \in Nodes
  <2>1. node_status \in BytesOf
    BY DEF IInv, TypeOK, BytesOf
  <2>2. node_status' \in BytesOf
    BY <1>1, <2>1, SetBytes
  <2> QED
    BY <1>1, <2>2, ParentNode
<1>3. TypeOK'
  BY <1>1, <1>2 DEF IInv, TypeOK, BytesOf
<1>4. FreePlaced' /\ LivePlaced' /\ FreePlacedCall' /\ Fresh' /\ MallocPlaced'
  BY <1>1 DEF IInv, FreePlaced, LivePlaced, Held, FreePlacedCall, Fresh, MallocPlaced, Reach
<1> QED
  BY <1>3, <1>4 DEF IInv

LEMMA ReturnBlockIInv == ASSUME IInv, ReturnBlock PROVE IInv'
<1> USE DEF ReturnBlock
<1> DEFINE q == ptr_for_node(node, bucket)
<1>1. bucket \in Buckets /\ node \in LevelOf(bucket) /\ q + Size(bucket) <= max_ptr /\ inited
  BY DEF IInv, MallocPlaced, TypeOK, Fresh
<1>2. q \in Starts(bucket) /\ q \in 0 .. Units - 1
  <2>1. q \in Starts(bucket)
    BY <1>1, PtrOfNode
  <2>2. q \in Nat /\ q + Size(bucket) <= Units /\ Size(bucket) \in Nat \ {0}
    BY <1>1, <2>1, StartInHeap, Positive
  <2> QED
    BY <2>1, <2>2, Numbers
<1>3. /\ DOMAIN live' = DOMAIN live \union {q}
      /\ live'[q] = bucket
      /\ \A p \in DOMAIN live : p # q => live'[p] = live[p]
  OBVIOUS
<1>4. /\ pc' = "idle"
      /\ UNCHANGED <<inited, max_ptr, bucket_limit, buckets, node_status, foreign, bucket, orig, node, up>>
  BY DEF heap
<1> HIDE DEF q
<1>5. TypeOK'
  <2>1. DOMAIN live' \subseteq 0 .. Units - 1 /\ \A p \in DOMAIN live' : live'[p] \in Buckets
    BY <1>1, <1>2, <1>3 DEF IInv, TypeOK
  <2> QED
    BY <1>4, <2>1 DEF IInv, TypeOK
<1>6. FreePlaced' /\ MallocPlaced' /\ FreePlacedCall' /\ Fresh'
  BY <1>1, <1>4 DEF IInv, FreePlaced, MallocPlaced, FreePlacedCall, Fresh
<1>7. ASSUME NEW p \in DOMAIN live' PROVE Held(p, live[p])'
  <2>1. CASE p = q
    BY <2>1, <1>1, <1>2, <1>3, <1>4 DEF Held
  <2>2. CASE p # q
    BY <2>2, <1>3, <1>4, <1>7 DEF IInv, LivePlaced, Held
  <2> QED
    BY <2>1, <2>2
<1> QED
  BY <1>5, <1>6, <1>7 DEF IInv, LivePlaced

\* What free_2 works on while it merges: a block backed by memory at its start.
LEMMA MergeNode ==
  ASSUME IInv, pc = "merge"
  PROVE  /\ bucket \in Buckets /\ bucket >= bucket_limit /\ node \in LevelOf(bucket)
         /\ (node = 0 <=> bucket = 0) /\ inited
         /\ ptr_for_node(node, bucket) \in Room(bucket, max_ptr)
<1>1. bucket \in Buckets /\ bucket >= bucket_limit /\ node \in LevelOf(bucket) /\ inited
      /\ ptr_for_node(node, bucket) < max_ptr
  BY DEF IInv, TypeOK, FreePlacedCall, Fresh
<1> QED
  BY <1>1, LevelNodes, PtrOfNode DEF Room

\* The freed block's own field is cleared.
LEMMA ClearedBytes == ASSUME IInv PROVE Cleared \in BytesOf
  BY SetBytes DEF IInv, TypeOK, BytesOf, Cleared

LEMMA FreeStopIInv == ASSUME IInv, FreeStop \/ FreeAll PROVE IInv'
<1>1. pc = "merge" /\ PushFreed(node, bucket) /\ pc' = "idle"
      /\ UNCHANGED <<inited, max_ptr, bucket_limit, foreign, live, bucket, orig, node, up>>
  BY DEF FreeStop, FreeAll
<1>2. node_status' \in BytesOf
  <2>1. CASE FreeStop
    <3>1. node \in Nodes /\ node # 0 /\ node_status' = parent_dec_status(Cleared, node)
      BY <2>1 DEF FreeStop, IInv, TypeOK
    <3> QED
      BY <3>1, ClearedBytes, ParentNode, SetBytes
  <2>2. CASE FreeAll
    BY <2>2 DEF FreeAll, IInv, TypeOK, BytesOf
  <2> QED
    BY <2>1, <2>2
<1>3. max_ptr' \in 0 .. Units /\ max_ptr' \in Nat /\ max_ptr <= max_ptr' /\ max_ptr' = max_ptr
  BY <1>1, Numbers
<1>4. /\ buckets' \in [Buckets -> Seq(0 .. Units - 1)]
      /\ \A b \in Buckets : buckets'[b] \in Seq(Room(b, max_ptr'))
  <2>1. list_push(buckets[bucket], ptr_for_node(node, bucket)) \in Seq(Room(bucket, max_ptr'))
    BY <1>1, <1>3, MergeNode, Lists DEF IInv, FreePlaced
  <2> QED
    BY <1>1, <1>3, <2>1, MergeNode, OneList DEF PushFreed
<1>5. FreePlaced' /\ LivePlaced'
  BY <1>1, <1>3, <1>4, ListsIInv
<1>6. TypeOK'
  BY <1>1, <1>2, <1>4 DEF IInv, TypeOK, BytesOf
<1>7. MallocPlaced' /\ FreePlacedCall' /\ Fresh'
  BY <1>1, MergeNode DEF MallocPlaced, FreePlacedCall, Fresh
<1> QED
  BY <1>5, <1>6, <1>7 DEF IInv

LEMMA MergeIInv == ASSUME IInv, Merge PROVE IInv'
<1> USE DEF Merge
<1>1. /\ bucket \in Buckets /\ bucket # 0 /\ bucket > bucket_limit /\ inited
      /\ node \in LevelOf(bucket) /\ node \in Nodes
  <2>1. bucket # bucket_limit
    BY DEF StopsMerging
  <2> QED
    BY <2>1, MergeNode, LevelNodes, Numbers
<1>2. /\ bucket - 1 \in Buckets /\ Parent(node) \in LevelOf(bucket - 1)
      /\ Parent(node) \in Nodes /\ bucket - 1 >= bucket_limit
      /\ ptr_for_node(Parent(node), bucket - 1) < max_ptr
  <2>1. /\ bucket - 1 \in Buckets /\ Parent(node) \in LevelOf(bucket - 1)
        /\ ptr_for_node(Parent(node), bucket - 1) <= ptr_for_node(node, bucket)
    BY <1>1, ParentOf
  <2>2. ptr_for_node(node, bucket) \in Nat /\ ptr_for_node(Parent(node), bucket - 1) \in Nat
    BY <1>1, <2>1, PtrOfNode, StartInHeap
  <2>3. ptr_for_node(node, bucket) < max_ptr
    BY DEF IInv, FreePlacedCall
  <2> QED
    BY <1>1, <2>1, <2>2, <2>3, LevelNodes, Numbers
<1>3. /\ node_status' = Cleared
      /\ UNCHANGED <<inited, max_ptr, bucket_limit, foreign, live, orig, up>>
      /\ \/ /\ buckets' = Unlinked(BuddyPtr) /\ node' = Parent(node)
            /\ bucket' = bucket - 1 /\ pc' = "merge"
         \/ pc' = "undefined" /\ UNCHANGED <<buckets, node, bucket>>
  OBVIOUS
<1>4. max_ptr' \in Nat /\ max_ptr <= max_ptr' /\ max_ptr' = max_ptr
  BY <1>3, Numbers
<1>5. /\ buckets' \in [Buckets -> Seq(0 .. Units - 1)]
      /\ \A b \in Buckets : buckets'[b] \in Seq(Room(b, max_ptr'))
  BY <1>3, <1>4, UnlinkedPlaced DEF IInv, TypeOK, FreePlaced
<1>6. FreePlaced' /\ LivePlaced'
  BY <1>3, <1>4, <1>5, ListsIInv
<1>7. TypeOK'
  <2>1. node' \in Nodes /\ bucket' \in Buckets /\ pc' \in {"merge", "undefined"}
    BY <1>1, <1>2, <1>3
  <2> QED
    BY <1>3, <1>5, <2>1, ClearedBytes DEF IInv, TypeOK, BytesOf
<1>8. MallocPlaced' /\ FreePlacedCall' /\ Fresh'
  BY <1>1, <1>2, <1>3 DEF MallocPlaced, FreePlacedCall, Fresh
<1> QED
  BY <1>6, <1>7, <1>8 DEF IInv

\* The rest of the process moves the break, which the allocator does not see.
LEMMA ForeignIInv == ASSUME IInv, Foreign PROVE IInv'
<1> USE DEF Foreign
<1>1. /\ pc = "idle" /\ inited /\ Cardinality(foreign) < ForeignMax
      /\ foreign' = foreign \union {max_ptr + Cardinality(foreign)}
      /\ UNCHANGED <<inited, max_ptr, bucket_limit, buckets, node_status, live, pc, bucket, orig, node, up>>
  BY DEF heap, call
<1>2. Cardinality(foreign) \in Nat
  <2>1. foreign \subseteq 0 .. Units + ForeignMax - 1 /\ Units + ForeignMax - 1 \in Int
    BY Positive, BuddyMalloc2Assumption DEF IInv, TypeOK
  <2>2. IsFiniteSet(0 .. Units + ForeignMax - 1)
    BY <2>1, FS_Interval
  <2>3. IsFiniteSet(foreign)
    BY <2>1, <2>2, FS_Subset
  <2> QED
    BY <2>3, FS_CardinalityType
<1>3. foreign' \subseteq 0 .. Units + ForeignMax - 1
  <2> DEFINE c == Cardinality(foreign)
  <2>1. c \in Nat /\ c < ForeignMax /\ ForeignMax \in Nat
    BY <1>1, <1>2, BuddyMalloc2Assumption
  <2>2. foreign \subseteq 0 .. Units + ForeignMax - 1 /\ foreign' = foreign \union {max_ptr + c}
    BY <1>1 DEF IInv, TypeOK
  <2> HIDE DEF c
  <2>3. max_ptr + c \in 0 .. Units + ForeignMax - 1
    BY <2>1, Numbers
  <2> QED
    BY <2>2, <2>3
<1>4. TypeOK'
  BY <1>1, <1>3 DEF IInv, TypeOK
<1>5. FreePlaced' /\ LivePlaced' /\ MallocPlaced' /\ FreePlacedCall' /\ Fresh'
  BY <1>1 DEF IInv, FreePlaced, LivePlaced, Held, MallocPlaced, Reach, FreePlacedCall, Fresh
<1> QED
  BY <1>4, <1>5 DEF IInv

LEMMA NextIInv == IInv /\ [Next]_vars => IInv'
<1> SUFFICES ASSUME IInv, [Next]_vars PROVE IInv'
  OBVIOUS
<1>1. ASSUME NEW n \in Requests, Malloc(n) PROVE IInv'
  BY <1>1, MallocIInv
<1>2. ASSUME NEW p \in DOMAIN live, Free(p) PROVE IInv'
  BY <1>2, FreeIInv
<1>3. CASE Step
  BY <1>3, GrowFreeIInv, GrowUsedIInv, PopIInv, PopDeniedIInv, LocalIInv, SplitIInv,
     MarkBlockIInv, MarkAncestorIInv, ReturnBlockIInv, FreeStopIInv, MergeIInv DEF Step
<1>4. CASE Foreign
  BY <1>4, ForeignIInv
<1>5. CASE UNCHANGED vars
  <2>1. UNCHANGED <<inited, max_ptr, bucket_limit, buckets, node_status, foreign, live, pc, bucket, orig, node, up>>
    BY <1>5 DEF vars, heap, call
  <2>2. TypeOK'
    BY <2>1 DEF IInv, TypeOK
  <2>3. FreePlaced' /\ LivePlaced' /\ MallocPlaced' /\ FreePlacedCall' /\ Fresh'
    BY <2>1 DEF IInv, FreePlaced, LivePlaced, Held, MallocPlaced, Reach, FreePlacedCall, Fresh
  <2> QED
    BY <2>2, <2>3 DEF IInv
<1> QED
  BY <1>1, <1>2, <1>3, <1>4, <1>5 DEF Next

LEMMA AlwaysIInv == Spec => []IInv
<1> QED
  BY InitIInv, NextIInv, PTL DEF Spec

-----------------------------------------------------------------------------
\* Every variable keeps its type, whatever the tree, the requests, the use the
\* rest of the process makes of the break and the order of frees: addresses stay
\* in the heap and node indexes in the tree, even after the status bits went
\* wrong (every pointer and index computation of malloc_2 and free_2).
THEOREM TypeCorrect == Spec => []TypeOK
<1>1. IInv => TypeOK
  BY DEF IInv
<1> QED
  BY <1>1, AlwaysIInv, PTL

\* Memory handed out, and the list nodes of free blocks, were obtained from sbrk
\* (update_max_ptr and the amounts malloc_2 and lower_bucket_limit pass to it),
\* for every bucket free_2 may take a freed block to be of.
THEOREM Obtained == Spec => []MemoryObtained
<1>1. IInv => MemoryObtained
  <2> SUFFICES ASSUME IInv PROVE MemoryObtained
    OBVIOUS
  <2>1. ASSUME NEW x \in LiveBlocks PROVE x[1] + Size(x[2]) <= max_ptr
    <3>1. x[1] \in DOMAIN live /\ x[2] = live[x[1]]
      BY DEF LiveBlocks
    <3> QED
      BY <3>1 DEF IInv, LivePlaced, Held
  <2>2. ASSUME max_ptr # 0, NEW x \in FreeBlocks PROVE x[1] < max_ptr
    <3>1. PICK b \in Buckets : \E p \in ToSet(buckets[b]) : x = <<p, b>>
      BY DEF FreeBlocks
    <3>2. x[1] \in ToSet(buckets[b])
      BY <3>1
    <3>3. buckets[b] \in Seq(Room(b, max_ptr))
      BY DEF IInv, FreePlaced
    <3>4. x[1] \in Room(b, max_ptr)
      BY <3>2, <3>3 DEF ToSet
    <3> QED
      BY <2>2, <3>4, Numbers DEF Room
  <2> QED
    BY <2>1, <2>2 DEF MemoryObtained
<1> QED
  BY <1>1, AlwaysIInv, PTL

-----------------------------------------------------------------------------
(***************************************************************************)
(* What the two bits of each node mean in malloc_2 and free_2, as lemmas   *)
(* about sets of blocks and the fields f[x] of all blocks x; the program   *)
(* itself does not occur.  Kept says that every field holds what it        *)
(* should; there is a lemma for each move the program makes, from Kept to  *)
(* Kept.  They need much less than an invariant of the program: F, K and   *)
(* M are any sets.                                                         *)
(***************************************************************************)

(***************************************************************************)
(* The fields.  An addition that stays in its field changes that field and *)
(* no other.                                                               *)
(***************************************************************************)
Digit(v, s) == (v \div s) % 4
Byte(a, b, c, d) == 64 * a + 16 * b + 4 * c + d

LEMMA DigitsOf ==
  \A a, b, c, d \in 0 .. 3 :
    /\ Digit(Byte(a, b, c, d), 64) = a /\ Digit(Byte(a, b, c, d), 16) = b
    /\ Digit(Byte(a, b, c, d), 4) = c /\ Digit(Byte(a, b, c, d), 1) = d
  BY DEF Byte, Digit

LEMMA Digits ==
  ASSUME NEW v \in 0 .. 255
  PROVE  \E a, b, c, d \in 0 .. 3 : v = Byte(a, b, c, d)
<1> DEFINE a == v \div 64
           b == (v \div 16) % 4
           c == (v \div 4) % 4
           d == v % 4
<1>1. a \in 0 .. 3 /\ b \in 0 .. 3 /\ c \in 0 .. 3 /\ d \in 0 .. 3 /\ v = Byte(a, b, c, d)
  BY DEF Byte
<1> QED
  BY <1>1

FieldWeights == {64, 16, 4, 1}
Raised(v, n, s) == (v + n * s) % 256

LEMMA DigitAdd ==
  ASSUME NEW v \in 0 .. 255, NEW s \in FieldWeights, NEW t \in FieldWeights, NEW n \in Int,
         Digit(v, s) + n \in 0 .. 3
  PROVE  /\ s = t => Digit(Raised(v, n, s), t) = Digit(v, s) + n
         /\ s # t => Digit(Raised(v, n, s), t) = Digit(v, t)
<1> DEFINE w == v + n * s
           x == Digit(v, s)
<1>0. w = v + n * s /\ x + n \in 0 .. 3
  OBVIOUS
<1> HIDE DEF w, x
<1>1. PICK a, b, c, d \in 0 .. 3 : v = Byte(a, b, c, d)
  BY Digits
<1>2. Digit(v, 64) = a /\ Digit(v, 16) = b /\ Digit(v, 4) = c /\ Digit(v, 1) = d
  BY <1>1, DigitsOf
<1>3. ASSUME s = 64 PROVE w >= 0 /\ w <= 255 /\ (s = t => Digit(w, t) = x + n) /\ (s # t => Digit(w, t) = Digit(v, t))
  <2> DEFINE e == a + n
  <2>1. x = a
    BY <1>2, <1>3 DEF x
  <2>2. e \in 0 .. 3 /\ w = Byte(e, b, c, d) /\ x + n = e
    BY <2>1, <1>0, <1>1, <1>3 DEF Byte
  <2> HIDE DEF e
  <2>3. Digit(w, 64) = e /\ Digit(w, 16) = b /\ Digit(w, 4) = c /\ Digit(w, 1) = d
    BY <2>2, DigitsOf
  <2>4. w >= 0 /\ w <= 255
    BY <2>2 DEF Byte
  <2>5. /\ s = t => Digit(w, t) = x + n
        /\ s # t => Digit(w, t) = Digit(v, t)
    BY <2>2, <2>3, <1>2, <1>3 DEF FieldWeights
  <2> QED
    BY <2>4, <2>5
<1>4. ASSUME s = 16 PROVE w >= 0 /\ w <= 255 /\ (s = t => Digit(w, t) = x + n) /\ (s # t => Digit(w, t) = Digit(v, t))
  <2> DEFINE e == b + n
  <2>1. x = b
    BY <1>2, <1>4 DEF x
  <2>2. e \in 0 .. 3 /\ w = Byte(a, e, c, d) /\ x + n = e
    BY <2>1, <1>0, <1>1, <1>4 DEF Byte
  <2> HIDE DEF e
  <2>3. Digit(w, 64) = a /\ Digit(w, 16) = e /\ Digit(w, 4) = c /\ Digit(w, 1) = d
    BY <2>2, DigitsOf
  <2>4. w >= 0 /\ w <= 255
    BY <2>2 DEF Byte
  <2>5. /\ s = t => Digit(w, t) = x + n
        /\ s # t => Digit(w, t) = Digit(v, t)
    BY <2>2, <2>3, <1>2, <1>4 DEF FieldWeights
  <2> QED
    BY <2>4, <2>5
<1>5. ASSUME s = 4 PROVE w >= 0 /\ w <= 255 /\ (s = t => Digit(w, t) = x + n) /\ (s # t => Digit(w, t) = Digit(v, t))
  <2> DEFINE e == c + n
  <2>1. x = c
    BY <1>2, <1>5 DEF x
  <2>2. e \in 0 .. 3 /\ w = Byte(a, b, e, d) /\ x + n = e
    BY <2>1, <1>0, <1>1, <1>5 DEF Byte
  <2> HIDE DEF e
  <2>3. Digit(w, 64) = a /\ Digit(w, 16) = b /\ Digit(w, 4) = e /\ Digit(w, 1) = d
    BY <2>2, DigitsOf
  <2>4. w >= 0 /\ w <= 255
    BY <2>2 DEF Byte
  <2>5. /\ s = t => Digit(w, t) = x + n
        /\ s # t => Digit(w, t) = Digit(v, t)
    BY <2>2, <2>3, <1>2, <1>5 DEF FieldWeights
  <2> QED
    BY <2>4, <2>5
<1>6. ASSUME s = 1 PROVE w >= 0 /\ w <= 255 /\ (s = t => Digit(w, t) = x + n) /\ (s # t => Digit(w, t) = Digit(v, t))
  <2> DEFINE e == d + n
  <2>1. x = d
    BY <1>2, <1>6 DEF x
  <2>2. e \in 0 .. 3 /\ w = Byte(a, b, c, e) /\ x + n = e
    BY <2>1, <1>0, <1>1, <1>6 DEF Byte
  <2> HIDE DEF e
  <2>3. Digit(w, 64) = a /\ Digit(w, 16) = b /\ Digit(w, 4) = c /\ Digit(w, 1) = e
    BY <2>2, DigitsOf
  <2>4. w >= 0 /\ w <= 255
    BY <2>2 DEF Byte
  <2>5. /\ s = t => Digit(w, t) = x + n
        /\ s # t => Digit(w, t) = Digit(v, t)
    BY <2>2, <2>3, <1>2, <1>6 DEF FieldWeights
  <2> QED
    BY <2>4, <2>5
<1>7. w >= 0 /\ w <= 255 /\ (s = t => Digit(w, t) = x + n) /\ (s # t => Digit(w, t) = Digit(v, t))
  BY <1>3, <1>4, <1>5, <1>6 DEF FieldWeights
<1>8. w % 256 = w
  <2>1. w \in Int
    BY <1>0 DEF FieldWeights
  <2> QED
    BY <2>1, <1>7
<1> QED
  BY <1>7, <1>8 DEF Raised, w, x

LEMMA SamePlace ==
  ASSUME NEW i \in Nat, NEW j \in Nat, i \div 4 = j \div 4, i % 4 = j % 4
  PROVE  i = j
OBVIOUS

LEMMA FieldAdd ==
  ASSUME NEW ns \in BytesOf, NEW i \in Nodes, NEW n \in Int, Field(ns, i) + n \in 0 .. 3,
         NEW j \in Nodes
  PROVE  Field(AddTo(ns, i, n), j) = IF j = i THEN Field(ns, i) + n ELSE Field(ns, j)
<1> DEFINE s == One(i)
           t == One(j)
           v == ns[i \div 4]
           ms == AddTo(ns, i, n)
<1>1. /\ i \in Nat /\ j \in Nat /\ i \div 4 \in DOMAIN ns /\ j \div 4 \in DOMAIN ns
      /\ v \in 0 .. 255 /\ v \in Int
  BY ByteOfNode, ByteValue
<1>2. s \in FieldWeights /\ t \in FieldWeights /\ s \in Int
  BY <1>1, Weights DEF FieldWeights
<1>3. i \div 4 = j \div 4 => (s = t <=> i = j)
  <2> SUFFICES ASSUME i \div 4 = j \div 4 PROVE s = t <=> i = j
    OBVIOUS
  <2>1. s = t <=> i % 4 = j % 4
    BY <1>1, Weights
  <2>2. i % 4 = j % 4 => i = j
    BY <1>1, SamePlace
  <2> HIDE DEF s, t
  <2> QED
    BY <2>1, <2>2
<1>4. ms[i \div 4] = (v + n * s) % 256 /\ (j \div 4 # i \div 4 => ms[j \div 4] = ns[j \div 4])
  <2> DEFINE w == (ns[i \div 4] + n * One(i)) % 256
  <2>1. ms = [ns EXCEPT ![i \div 4] = w]
    BY DEF AddTo
  <2> HIDE DEF w, ms
  <2>2. ms[i \div 4] = w /\ (j \div 4 # i \div 4 => ms[j \div 4] = ns[j \div 4])
    BY <2>1, <1>1
  <2> QED
    BY <2>2 DEF w
<1>5. Field(ms, j) = (ms[j \div 4] \div t) % 4 /\ Field(ns, j) = (ns[j \div 4] \div t) % 4
      /\ Field(ns, i) = (v \div s) % 4
  BY DEF Field
<1>6. CASE j \div 4 # i \div 4
  <2>1. j # i
    BY <1>6
  <2> QED
    BY <2>1, <1>4, <1>5, <1>6
<1>7. CASE j \div 4 = i \div 4
  <2>1. Digit(ns[i \div 4], One(i)) + n \in 0 .. 3
    BY DEF Digit, Field
  <2>2. /\ One(i) = One(j) => Digit(Raised(ns[i \div 4], n, One(i)), One(j)) = Digit(ns[i \div 4], One(i)) + n
        /\ One(i) # One(j) => Digit(Raised(ns[i \div 4], n, One(i)), One(j)) = Digit(ns[i \div 4], One(j))
    BY <2>1, <1>1, <1>2, DigitAdd, Zenon
  <2>3. ms[i \div 4] = Raised(ns[i \div 4], n, One(i))
    BY <1>4 DEF Raised
  <2>4. Field(ms, j) = Digit(ms[j \div 4], t) /\ Field(ns, j) = Digit(ns[j \div 4], t)
        /\ Field(ns, i) = Digit(ns[i \div 4], s)
    BY <1>5 DEF Digit
  <2> HIDE DEF s, t, ms
  <2> QED
    BY <2>2, <2>3, <2>4, <1>3, <1>7 DEF ms, s, t
<1> QED
  BY <1>6, <1>7

-----------------------------------------------------------------------------
(***************************************************************************)
(* Blocks without bits: what Sound says when nothing is recorded per node. *)
(***************************************************************************)
Tidy(F, K, l) == \E S : Sound(F, K, S, l)

LEMMA FlipExists == ASSUME NEW S, NEW x PROVE \E T : Flipped(S, T, x)
<1> DEFINE q == Parent(NodeOf(x))
           T == IF x[2] = 0 THEN S ELSE IF q \in S THEN S \ {q} ELSE S \union {q}
<1>1. Flipped(S, T, x)
  BY DEF Flipped
<1> QED
  BY <1>1

LEMMA TidyRoot == ASSUME NEW l \in Buckets PROVE Tidy({Root(l)}, {}, l)
BY SoundRoot DEF Tidy

LEMMA TidyTiles ==
  ASSUME NEW l \in Buckets, NEW F, NEW K, Tidy(F, K, l)
  PROVE  /\ Tiling(F \union K, Size(l)) /\ F \intersect K = {}
         /\ \A x \in F \union K : x \in AllBlocks /\ x[2] >= l /\ (x[2] = l => x = Root(l) /\ F \union K = {x})
         /\ \A x \in F : x[2] > l => Twin(x) \notin F
<1>1. Tiling(F \union K, Size(l)) /\ F \intersect K = {} /\ \A x \in F : x[2] > l => Twin(x) \notin F
  BY DEF Tidy, Sound
<1> QED
  BY <1>1, PoolBlocks

LEMMA TidyTake ==
  ASSUME NEW l \in Buckets, NEW F, NEW K, Tidy(F, K, l), NEW x \in F
  PROVE  Tidy(F \ {x}, K \union {x}, l)
<1>1. PICK S : Sound(F, K, S, l)
  BY DEF Tidy
<1>2. PICK T : Flipped(S, T, x)
  BY FlipExists
<1> QED
  BY <1>1, <1>2, SoundTake DEF Tidy

\* A block is given back where its twin is used.
LEMMA TidyGive ==
  ASSUME NEW l \in Buckets, NEW F, NEW K, Tidy(F, K, l), NEW x \in K, x[2] # l,
         Used(F \union K, K, Twin(x))
  PROVE  Tidy(F \union {x}, K \ {x}, l) /\ x \notin F
<1> DEFINE B == F \union K
<1>1. PICK S : Sound(F, K, S, l)
  BY DEF Tidy
<1>2. PICK T : Flipped(S, T, x)
  BY FlipExists
<1>3. Tiling(B, Size(l)) /\ BitsExact(S, B, K, l) /\ x \in B
  BY <1>1 DEF Sound
<1>4. x \in AllBlocks /\ x[2] > l /\ x[2] # 0 /\ x[2] \in Nat /\ l \in Nat
  BY <1>3, PoolBlocks, BlockFacts, Positive
<1>5. PICK z \in AllBlocks : /\ z[2] = x[2] - 1 /\ z[2] # Smallest /\ NodeOf(z) = Parent(NodeOf(x))
                            /\ {x, Twin(x)} = {LeftOf(z), RightOf(z)}
  BY <1>4, UpOf
<1>6. Used(B, K, x)
  BY <1>3, UsedOfBlock
<1>7. Used(B, K, LeftOf(z)) /\ Used(B, K, RightOf(z))
  BY <1>5, <1>6
<1>8. NodeOf(z) \notin S
  <2>1. z[2] >= l
    BY <1>4, <1>5
  <2>2. ~BitOf(B, K, l, z)
    BY <2>1, <1>7 DEF BitOf
  <2> QED
    BY <2>2, <1>3, <1>5 DEF BitsExact
<1>9. Parent(NodeOf(x)) \in T
  BY <1>2, <1>4, <1>5, <1>8 DEF Flipped
<1> QED
  BY <1>1, <1>2, <1>4, <1>9, SoundGive DEF Tidy

LEMMA TidySplit ==
  ASSUME NEW l \in Buckets, NEW F, NEW K, Tidy(F, K, l), NEW z \in K, z[2] # Smallest
  PROVE  /\ Tidy(F \union {RightOf(z)}, (K \ {z}) \union {LeftOf(z)}, l)
         /\ RightOf(z) \notin F /\ LeftOf(z) \notin K
<1>1. PICK S : Sound(F, K, S, l)
  BY DEF Tidy
<1>2. PICK T : Flipped(S, T, LeftOf(z))
  BY FlipExists
<1> QED
  BY <1>1, <1>2, SoundSplit DEF Tidy

\* A block in hand whose twin is not used merges with it.
LEMMA TidyMerge ==
  ASSUME NEW l \in Buckets, NEW F, NEW K, Tidy(F, K, l), NEW x \in K, x[2] # l,
         ~Used(F \union K, K, Twin(x))
  PROVE  /\ Twin(x) \in F
         /\ \E z \in AllBlocks :
              /\ NodeOf(z) = Parent(NodeOf(x)) /\ z[2] = x[2] - 1 /\ z \notin F \union K
              /\ Tidy(F \ {Twin(x)}, (K \ {x}) \union {z}, l)
<1> DEFINE B == F \union K
<1>1. PICK S : Sound(F, K, S, l)
  BY DEF Tidy
<1>2. PICK T : Flipped(S, T, x)
  BY FlipExists
<1>3. Tiling(B, Size(l)) /\ BitsExact(S, B, K, l) /\ x \in B
  BY <1>1 DEF Sound
<1>4. x \in AllBlocks /\ x[2] > l /\ x[2] # 0 /\ x[2] \in Nat /\ l \in Nat
  BY <1>3, PoolBlocks, BlockFacts, Positive
<1>5. PICK z \in AllBlocks : /\ z[2] = x[2] - 1 /\ z[2] # Smallest /\ NodeOf(z) = Parent(NodeOf(x))
                            /\ {x, Twin(x)} = {LeftOf(z), RightOf(z)}
  BY <1>4, UpOf
<1>6. Used(B, K, x)
  BY <1>3, UsedOfBlock
<1>7. ~(Used(B, K, LeftOf(z)) <=> Used(B, K, RightOf(z)))
  BY <1>5, <1>6
<1>8. Parent(NodeOf(x)) \in S
  <2>1. z[2] >= l
    BY <1>4, <1>5
  <2>2. BitOf(B, K, l, z)
    BY <2>1, <1>7 DEF BitOf
  <2> QED
    BY <2>2, <1>3, <1>5 DEF BitsExact
<1>9. /\ Twin(x) \in F
      /\ \E y \in AllBlocks :
              /\ NodeOf(y) = Parent(NodeOf(x)) /\ y[2] = x[2] - 1 /\ y \notin F \union K
              /\ Sound(F \ {Twin(x)}, (K \ {x}) \union {y}, T, l)
  BY <1>1, <1>2, <1>8, SoundMerge
<1> QED
  BY <1>9 DEF Tidy

LEMMA TidyGrowFree ==
  ASSUME NEW l \in Buckets, l # 0, NEW F, NEW K, Tidy(F, K, l), ~Used(F \union K, K, Root(l))
  PROVE  F = {Root(l)} /\ K = {} /\ Tidy({Root(l - 1)}, {}, l - 1)
<1>1. PICK S : Sound(F, K, S, l)
  BY DEF Tidy
<1> QED
  BY <1>1, BitAbove, SoundGrowFree DEF Tidy

LEMMA TidyGrowUsed ==
  ASSUME NEW l \in Buckets, l # 0, NEW F, NEW K, Tidy(F, K, l), Used(F \union K, K, Root(l))
  PROVE  /\ Half(l) \notin F /\ \A x \in F : x[2] >= l
         /\ Tidy(F \union {Half(l)}, K, l - 1)
<1>1. PICK S : Sound(F, K, S, l)
  BY DEF Tidy
<1>2. PICK T : Flipped(S, T, Root(l - 1))
  BY FlipExists
<1> QED
  BY <1>1, <1>2, BitAbove, SoundGrowUsed DEF Tidy

-----------------------------------------------------------------------------
(***************************************************************************)
(* What a status field f[x] holds, when F is free, K in hand, M of it      *)
(* marked USED and the pool the leftmost block of bucket l: 2 for a block  *)
(* that is marked, else the number of halves in use.  E are the blocks     *)
(* whose field is out of date.  Above the pool a field is 0, but that of   *)
(* the parent of the pool's root, which is 0 or 1.                         *)
(***************************************************************************)
OneIf(P) == IF P THEN 1 ELSE 0
HalvesUsed(B, U, x) == OneIf(Used(B, U, LeftOf(x))) + OneIf(Used(B, U, RightOf(x)))
StatusOf(B, U, M, x) ==
    IF x \in M THEN 2 ELSE IF x[2] = Smallest THEN 0 ELSE HalvesUsed(B, U, x)

InPool(l, x) == x[2] >= l \/ x[1] # 0
Counted(f, B, U, M, E, l) ==
    \A x \in AllBlocks : InPool(l, x) /\ x \notin E => f[x] = StatusOf(B, U, M, x)
Above(f, U, l) ==
    \A x \in AllBlocks : ~InPool(l, x) => f[x] \in {0, 1} /\ (x[2] < l - 1 \/ U = {} => f[x] = 0)

Kept(f, F, K, M, E, l) ==
    /\ f \in [AllBlocks -> 0 .. 3]
    /\ M \subseteq K
    /\ Tidy(F, K, l)
    /\ Counted(f, F \union K, K, M, E, l)
    /\ Above(f, K, l)

\* A block is a half of one block only.
LEMMA HalfOfOne ==
  ASSUME NEW z \in AllBlocks, z[2] # Smallest, NEW w \in AllBlocks, w[2] # Smallest,
         NEW x \in {LeftOf(z), RightOf(z)}, x \in {LeftOf(w), RightOf(w)}
  PROVE  z = w
<1>1. Parent(NodeOf(x)) = NodeOf(z) /\ Parent(NodeOf(x)) = NodeOf(w)
  BY TwinHalves
<1> QED
  BY <1>1, NodesDiffer

\* A block with a used half is used.
LEMMA HalfUsed ==
  ASSUME NEW z \in AllBlocks, z[2] # Smallest, NEW x \in {LeftOf(z), RightOf(z)}, NEW B, NEW U,
         B \subseteq AllBlocks, Used(B, U, x)
  PROVE  Used(B, U, z)
<1>1. PICK a \in B : a[1] \in At(x) /\ (a[2] > x[2] \/ a = x)
  BY DEF Used
<1>2. a[1] \in At(z)
  BY <1>1, Halves
<1>3. a[2] > z[2]
  <2>1. x[2] = z[2] + 1 /\ z[2] \in Nat /\ a[2] \in Nat
    BY BlockFacts DEF LeftOf, RightOf
  <2> QED
    BY <2>1, <1>1
<1> QED
  BY <1>2, <1>3 DEF Used

\* The halves of a block of the tiling are not used, nor those of a block within it.
LEMMA BelowBlock ==
  ASSUME NEW n, NEW B, NEW U, Tiling(B, n), NEW x \in B, NEW w \in AllBlocks, w[2] > x[2], w[1] \in At(x)
  PROVE  ~Used(B, U, w)
<1> SUFFICES ASSUME NEW a \in B, a[1] \in At(w), a[2] > w[2] \/ a = w
             PROVE  FALSE
  BY DEF Used
<1>1. x \in AllBlocks /\ a \in AllBlocks /\ w[2] \in Nat /\ x[2] \in Nat /\ a[1] \in At(a) /\ w[1] \in At(w)
  BY BlockFacts DEF Tiling
<1>2. At(w) \subseteq At(x)
  BY <1>1, Geometry
<1>3. a = x
  BY <1>1, <1>2 DEF Tiling
<1> QED
  BY <1>1, <1>3

\* The count of z is one more for C and V than for B and U, every other is the same.
OneMore(B, U, C, V, z) ==
    /\ HalvesUsed(B, U, z) \in {0, 1} /\ HalvesUsed(C, V, z) = HalvesUsed(B, U, z) + 1
    /\ \A w \in AllBlocks : w[2] # Smallest /\ w # z => HalvesUsed(C, V, w) = HalvesUsed(B, U, w)

\* That is so when one block x, a half of z, becomes used.
LEMMA CountMoves ==
  ASSUME NEW z \in AllBlocks, z[2] # Smallest, NEW x \in {LeftOf(z), RightOf(z)},
         NEW B, NEW U, NEW C, NEW V, ~Used(B, U, x), Used(C, V, x),
         \A w \in AllBlocks : w # x => (Used(B, U, w) <=> Used(C, V, w))
  PROVE  OneMore(B, U, C, V, z)
<1>1. LeftOf(z) \in AllBlocks /\ RightOf(z) \in AllBlocks /\ LeftOf(z) # RightOf(z)
  BY Halves
<1>2. HalvesUsed(B, U, z) \in {0, 1} /\ HalvesUsed(C, V, z) = HalvesUsed(B, U, z) + 1
  <2>1. CASE x = LeftOf(z)
    <3>1. Used(B, U, RightOf(z)) <=> Used(C, V, RightOf(z))
      BY <2>1, <1>1
    <3> QED
      BY <3>1, <2>1 DEF HalvesUsed, OneIf
  <2>2. CASE x = RightOf(z)
    <3>1. Used(B, U, LeftOf(z)) <=> Used(C, V, LeftOf(z))
      BY <2>2, <1>1
    <3> QED
      BY <3>1, <2>2 DEF HalvesUsed, OneIf
  <2> QED
    BY <2>1, <2>2
<1>3. ASSUME NEW w \in AllBlocks, w[2] # Smallest, w # z
      PROVE  HalvesUsed(C, V, w) = HalvesUsed(B, U, w)
  <2>1. x \notin {LeftOf(w), RightOf(w)}
    BY <1>3, HalfOfOne
  <2>2. LeftOf(w) \in AllBlocks /\ RightOf(w) \in AllBlocks
    BY <1>3, Halves
  <2>3. /\ Used(B, U, LeftOf(w)) <=> Used(C, V, LeftOf(w))
        /\ Used(B, U, RightOf(w)) <=> Used(C, V, RightOf(w))
    BY <2>1, <2>2
  <2> QED
    BY <2>3 DEF HalvesUsed, OneIf
<1> QED
  BY <1>2, <1>3 DEF OneMore

LEMMA HalvesRange == \A B, U, x : HalvesUsed(B, U, x) \in {0, 1, 2}
BY DEF HalvesUsed, OneIf

\* A block whose field is not 0 is used.
LEMMA StatusUsed ==
  ASSUME NEW l \in Buckets, NEW f, NEW F, NEW K, NEW M, NEW E, Kept(f, F, K, M, E, l),
         NEW x \in AllBlocks, InPool(l, x), x \notin E, f[x] # 0
  PROVE  Used(F \union K, K, x)
<1> DEFINE B == F \union K
<1>1. Tiling(B, Size(l)) /\ M \subseteq B /\ M \subseteq K /\ B \subseteq AllBlocks /\ StatusOf(B, K, M, x) # 0
  BY TidyTiles DEF Kept, Counted, Tiling
<1>2. CASE x \in M
  BY <1>1, <1>2, UsedOfBlock
<1>3. CASE x \notin M
  <2>1. x[2] # Smallest /\ HalvesUsed(B, K, x) # 0
    BY <1>1, <1>3 DEF StatusOf
  <2>2. Used(B, K, LeftOf(x)) \/ Used(B, K, RightOf(x))
    BY <2>1 DEF HalvesUsed, OneIf
  <2> QED
    BY <1>1, <2>1, <2>2, HalfUsed
<1> QED
  BY <1>2, <1>3

\* A block whose field is 0 is not used, unless it is in hand and not marked: a used
\* block has a used half, as its halves are not both free.
LEMMA StatusUnused ==
  ASSUME NEW l \in Buckets, NEW f, NEW F, NEW K, NEW M, NEW E, Kept(f, F, K, M, E, l),
         NEW x \in AllBlocks, x[2] >= l, x \notin E, f[x] = 0, x \in K => x \in M
  PROVE  ~Used(F \union K, K, x)
<1> DEFINE B == F \union K
<1> SUFFICES ASSUME NEW a \in B, a[1] \in At(x), a[2] > x[2] \/ (a = x /\ a \in K)
             PROVE  FALSE
  BY DEF Used
<1>1. Tiling(B, Size(l)) /\ a \in AllBlocks /\ StatusOf(B, K, M, x) = 0 /\ InPool(l, x) /\ F \intersect K = {}
  BY TidyTiles DEF Kept, Counted, InPool
<1>2. x \notin M /\ ~(a = x /\ a \in K)
  BY <1>1 DEF StatusOf
<1>3. a[2] > x[2] /\ x[2] \in Nat /\ l \in Nat /\ a[2] \in Nat /\ a[2] <= Smallest /\ x[2] # Smallest
      /\ a[1] \in At(a)
  <2>1. x[2] \in Nat /\ l \in Nat /\ a[2] \in Nat /\ a[2] <= Smallest /\ a[1] \in At(a) /\ Smallest \in Int
    BY <1>1, BlockFacts, Positive DEF Buckets, Smallest
  <2> QED
    BY <2>1, <1>2
<1>4. ~Used(B, K, LeftOf(x)) /\ ~Used(B, K, RightOf(x))
  BY <1>1, <1>2, <1>3 DEF StatusOf, HalvesUsed, OneIf
<1>5. PICK h \in {LeftOf(x), RightOf(x)} : a[1] \in At(h)
  BY <1>3, Halves
<1>6. h \in AllBlocks /\ h[2] = x[2] + 1 /\ Twin(h) \in {LeftOf(x), RightOf(x)}
  <2>1. LeftOf(x) \in AllBlocks /\ RightOf(x) \in AllBlocks
        /\ Twin(LeftOf(x)) = RightOf(x) /\ Twin(RightOf(x)) = LeftOf(x)
    BY <1>3, Halves, TwinHalves
  <2>2. LeftOf(x)[2] = x[2] + 1 /\ RightOf(x)[2] = x[2] + 1
    BY DEF LeftOf, RightOf
  <2> QED
    BY <2>1, <2>2
<1>7. a = h /\ a \notin K
  <2>1. ~(a[2] > h[2]) /\ ~(a = h /\ a \in K)
    BY <1>4, <1>5 DEF Used
  <2>2. a[2] = h[2]
    BY <2>1, <1>3, <1>6
  <2> QED
    BY <2>1, <2>2, <1>1, <1>3, <1>5, <1>6, Geometry
<1>8. h \in F /\ h[2] # l /\ h[2] > l
  BY <1>3, <1>6, <1>7
<1>9. ~Used(B, K, Twin(h))
  BY <1>4, <1>6
<1>10. Twin(h) \in B /\ Twin(h) \notin K
  BY <1>1, <1>7, <1>8, <1>9, UnusedTwin
<1> QED
  BY <1>8, <1>10, TidyTiles DEF Kept

-----------------------------------------------------------------------------
(***************************************************************************)
(* The moves.  In each at most one field changes.                          *)
(***************************************************************************)
Bumped(f, z, n) == [f EXCEPT ![z] = @ + n]
Put(f, z, v) == [f EXCEPT ![z] = v]

LEMMA PutIs ==
  ASSUME NEW f \in [AllBlocks -> 0 .. 3], NEW z \in AllBlocks, NEW v \in 0 .. 3
  PROVE  /\ Put(f, z, v) \in [AllBlocks -> 0 .. 3] /\ Put(f, z, v)[z] = v
         /\ \A w \in AllBlocks : w # z => Put(f, z, v)[w] = f[w]
  BY DEF Put

LEMMA BumpedIs ==
  ASSUME NEW f \in [AllBlocks -> 0 .. 3], NEW z \in AllBlocks, NEW n \in Int, f[z] + n \in 0 .. 3
  PROVE  /\ Bumped(f, z, n) \in [AllBlocks -> 0 .. 3] /\ Bumped(f, z, n)[z] = f[z] + n
         /\ \A w \in AllBlocks : w # z => Bumped(f, z, n)[w] = f[w]
<1> DEFINE v == f[z] + n
<1>1. Bumped(f, z, n) = Put(f, z, v)
  BY DEF Bumped, Put
<1>2. v \in 0 .. 3
  OBVIOUS
<1> HIDE DEF v
<1>3. /\ Put(f, z, v) \in [AllBlocks -> 0 .. 3] /\ Put(f, z, v)[z] = v
      /\ \A w \in AllBlocks : w # z => Put(f, z, v)[w] = f[w]
  BY <1>2, PutIs
<1> QED
  BY <1>1, <1>3 DEF v

\* The field above a block that becomes used is counted up, above one that is no longer
\* used it is counted down.  Where z is in the pool:
LEMMA CountedUp ==
  ASSUME NEW l \in Buckets, NEW f \in [AllBlocks -> 0 .. 3], NEW B, NEW U, NEW C, NEW V, NEW M, 
         Counted(f, B, U, M, {}, l),
         NEW z \in AllBlocks, z[2] # Smallest, NEW x \in {LeftOf(z), RightOf(z)}, z \notin M, InPool(l, z),
         ~Used(B, U, x), Used(C, V, x),
         \A w \in AllBlocks : w # x => (Used(B, U, w) <=> Used(C, V, w))
  PROVE  f[z] + 1 \in 0 .. 3 /\ Counted(Bumped(f, z, 1), C, V, M, {}, l)
<1>1. /\ HalvesUsed(B, U, z) \in {0, 1} /\ HalvesUsed(C, V, z) = HalvesUsed(B, U, z) + 1
      /\ \A w \in AllBlocks : w[2] # Smallest /\ w # z => HalvesUsed(C, V, w) = HalvesUsed(B, U, w)
  <2>1. OneMore(B, U, C, V, z)
    BY CountMoves
  <2> QED
    BY <2>1 DEF OneMore
<1>2. f[z] = HalvesUsed(B, U, z)
  BY DEF Counted, StatusOf
<1>3. f[z] + 1 \in 0 .. 3
  BY <1>1, <1>2
<1>4. /\ Bumped(f, z, 1)[z] = f[z] + 1
      /\ \A w \in AllBlocks : w # z => Bumped(f, z, 1)[w] = f[w]
  BY <1>3, BumpedIs
<1>5. ASSUME NEW w \in AllBlocks, InPool(l, w) PROVE Bumped(f, z, 1)[w] = StatusOf(C, V, M, w)
  <2>1. CASE w = z
    BY <2>1, <1>1, <1>2, <1>4 DEF StatusOf
  <2>2. CASE w # z
    <3>1. f[w] = StatusOf(B, U, M, w)
      BY <1>5 DEF Counted
    <3> QED
      BY <3>1, <2>2, <1>1, <1>4 DEF StatusOf
  <2> QED
    BY <2>1, <2>2
<1> QED
  BY <1>3, <1>5 DEF Counted

LEMMA CountedDown ==
  ASSUME NEW l \in Buckets, NEW f \in [AllBlocks -> 0 .. 3], NEW B, NEW U, NEW C, NEW V, NEW M,
         Counted(f, C, V, M, {}, l),
         NEW z \in AllBlocks, z[2] # Smallest, NEW x \in {LeftOf(z), RightOf(z)}, z \notin M, InPool(l, z),
         ~Used(B, U, x), Used(C, V, x),
         \A w \in AllBlocks : w # x => (Used(B, U, w) <=> Used(C, V, w))
  PROVE  f[z] + (-1) \in 0 .. 3 /\ Counted(Bumped(f, z, -1), B, U, M, {}, l)
<1>1. /\ HalvesUsed(B, U, z) \in {0, 1} /\ HalvesUsed(C, V, z) = HalvesUsed(B, U, z) + 1
      /\ \A w \in AllBlocks : w[2] # Smallest /\ w # z => HalvesUsed(C, V, w) = HalvesUsed(B, U, w)
  <2>1. OneMore(B, U, C, V, z)
    BY CountMoves
  <2> QED
    BY <2>1 DEF OneMore
<1>2. f[z] = HalvesUsed(C, V, z)
  BY DEF Counted, StatusOf
<1>3. f[z] + (-1) \in 0 .. 3 /\ f[z] + (-1) = HalvesUsed(B, U, z)
  BY <1>1, <1>2
<1>4. /\ Bumped(f, z, -1)[z] = f[z] + (-1)
      /\ \A w \in AllBlocks : w # z => Bumped(f, z, -1)[w] = f[w]
  BY <1>3, BumpedIs
<1>5. ASSUME NEW w \in AllBlocks, InPool(l, w) PROVE Bumped(f, z, -1)[w] = StatusOf(B, U, M, w)
  <2>1. CASE w = z
    BY <2>1, <1>3, <1>4 DEF StatusOf
  <2>2. CASE w # z
    <3>1. f[w] = StatusOf(C, V, M, w)
      BY <1>5 DEF Counted
    <3> QED
      BY <3>1, <2>2, <1>1, <1>4 DEF StatusOf
  <2> QED
    BY <2>1, <2>2
<1> QED
  BY <1>3, <1>5 DEF Counted

\* The block above one in the pool but the pool itself is in the pool.
LEMMA UpInPool ==
  ASSUME NEW l \in Buckets, NEW z \in AllBlocks, z[2] # Smallest, NEW x \in {LeftOf(z), RightOf(z)},
         x[2] > l
  PROVE  z[2] >= l /\ InPool(l, z)
<1>1. x[2] = z[2] + 1 /\ z[2] \in Nat /\ l \in Nat
  BY BlockFacts, Positive DEF LeftOf, RightOf
<1> QED
  BY <1>1 DEF InPool

\* The block above a block of the tiling is none of it.
LEMMA UpNoBlock ==
  ASSUME NEW n, NEW B, Tiling(B, n), NEW x \in B,
         NEW z \in AllBlocks, z[2] # Smallest, x \in {LeftOf(z), RightOf(z)}
  PROVE  z \notin B
<1>1. x \in AllBlocks /\ x[1] \in At(z) /\ x[1] \in At(x) /\ x[2] = z[2] + 1 /\ z[2] \in Nat
  <2>1. LeftOf(z) \in AllBlocks /\ RightOf(z) \in AllBlocks /\ x[1] \in At(x)
    BY Halves, BlockFacts DEF Tiling
  <2>2. x[1] \in At(z)
    BY <2>1, Halves
  <2> QED
    BY <2>1, <2>2, BlockFacts DEF LeftOf, RightOf
<1>2. z \in B => z = x
  BY <1>1 DEF Tiling
<1> QED
  BY <1>1, <1>2

\* The block above the pool.
LEMMA UpOfPool ==
  ASSUME NEW l \in Buckets, NEW z \in AllBlocks, z[2] # Smallest, Root(l) \in {LeftOf(z), RightOf(z)}
  PROVE  z = Root(l - 1) /\ l # 0 /\ ~InPool(l, z)
<1>1. z[2] \in Nat /\ l \in Nat /\ l = z[2] + 1 /\ z[1] \in Nat
  BY BlockFacts, Positive DEF LeftOf, RightOf, Root
<1>2. LeftOf(Root(l - 1)) = Root(l) /\ Root(l - 1) \in AllBlocks /\ Root(l - 1)[2] # Smallest
      /\ Root(l - 1)[1] = 0 /\ Root(l - 1)[2] = l - 1
  BY <1>1, Doubled, RootBlock
<1>3. z = Root(l - 1)
  BY <1>2, HalfOfOne
<1> QED
  BY <1>1, <1>2, <1>3 DEF InPool

\* A field in the pool leaves the fields above it alone.
LEMMA AboveStays ==
  ASSUME NEW l, NEW f, NEW U, Above(f, U, l), NEW g, NEW V, V = {} => U = {},
         \A w \in AllBlocks : ~InPool(l, w) => g[w] = f[w]
  PROVE  Above(g, V, l)
  BY DEF Above

\* A free block is taken.
LEMMA KeptTake ==
  ASSUME NEW l \in Buckets, NEW f, NEW F, NEW K, NEW M, Kept(f, F, K, M, {}, l), NEW x \in F,
         NEW z \in AllBlocks, z[2] # Smallest, x \in {LeftOf(z), RightOf(z)}
  PROVE  f[z] + 1 \in 0 .. 3 /\ Kept(Bumped(f, z, 1), F \ {x}, K \union {x}, M, {}, l)
<1> DEFINE B == F \union K
           V == K \union {x}
           g == Bumped(f, z, 1)
<1>1. /\ f \in [AllBlocks -> 0 .. 3] /\ M \subseteq K /\ Tidy(F, K, l) /\ Counted(f, B, K, M, {}, l)
      /\ Above(f, K, l) /\ Tiling(B, Size(l)) /\ x \notin K /\ x \in B /\ F \intersect K = {}
  BY TidyTiles DEF Kept
<1>2. x \in AllBlocks /\ x[2] \in Nat /\ l \in Nat /\ x[2] >= l /\ (x[2] = l => x = Root(l) /\ B = {x})
  BY <1>1, TidyTiles, BlockFacts, Positive
<1>3. /\ ~Used(B, K, x) /\ Used(B, V, x)
      /\ \A w \in AllBlocks : w # x => (Used(B, K, w) <=> Used(B, V, w))
  BY <1>1, UsedToggle
<1>4. (F \ {x}) \union V = B /\ M \subseteq V /\ Tidy(F \ {x}, V, l) /\ V # {}
  BY <1>1, TidyTake
<1>5. CASE x[2] > l
  <2>1. InPool(l, z)
    BY <1>5, UpInPool
  <2>2. z \notin M
    BY <1>1, UpNoBlock
  <2>3. f[z] + 1 \in 0 .. 3 /\ Counted(g, B, V, M, {}, l)
    BY <2>1, <2>2, <1>1, <1>3, CountedUp
  <2>4. g \in [AllBlocks -> 0 .. 3] /\ \A w \in AllBlocks : w # z => g[w] = f[w]
    BY <2>3, <1>1, BumpedIs
  <2>5. Above(g, V, l)
    BY <2>1, <2>4, <1>1, <1>4, AboveStays
  <2> HIDE DEF V, g
  <2> QED
    BY <2>3, <2>4, <2>5, <1>4 DEF Kept, V, g
<1>6. CASE x[2] = l
  <2>1. z = Root(l - 1) /\ ~InPool(l, z) /\ l # 0 /\ B = {x} /\ K = {} /\ M = {} /\ x = Root(l)
    BY <1>1, <1>2, <1>6, UpOfPool
  <2>2. f[z] = 0
    BY <2>1, <1>1 DEF Above
  <2>3. g \in [AllBlocks -> 0 .. 3] /\ g[z] = 1 /\ \A w \in AllBlocks : w # z => g[w] = f[w]
    BY <2>2, <1>1, BumpedIs
  <2>4. Counted(g, B, V, M, {}, l)
    <3> SUFFICES ASSUME NEW w \in AllBlocks, InPool(l, w) PROVE g[w] = StatusOf(B, V, M, w)
      BY DEF Counted
    <3>1. w # z /\ g[w] = f[w] /\ f[w] = StatusOf(B, K, M, w)
      BY <2>1, <2>3, <1>1 DEF Counted
    <3>2. ASSUME w[2] # Smallest PROVE HalvesUsed(B, V, w) = HalvesUsed(B, K, w)
      <4>1. x \notin {LeftOf(w), RightOf(w)}
        BY <3>1, <3>2, HalfOfOne
      <4>2. LeftOf(w) \in AllBlocks /\ RightOf(w) \in AllBlocks
        BY <3>2, Halves
      <4>3. /\ Used(B, K, LeftOf(w)) <=> Used(B, V, LeftOf(w))
            /\ Used(B, K, RightOf(w)) <=> Used(B, V, RightOf(w))
        BY <4>1, <4>2, <1>3
      <4> QED
        BY <4>3 DEF HalvesUsed, OneIf
    <3> QED
      BY <3>1, <3>2 DEF StatusOf
  <2>5. Above(g, V, l)
    <3> SUFFICES ASSUME NEW w \in AllBlocks, ~InPool(l, w)
                 PROVE  g[w] \in {0, 1} /\ (w[2] < l - 1 \/ V = {} => g[w] = 0)
      BY DEF Above
    <3>1. CASE w = z
      <4>1. ~(w[2] < l - 1)
        BY <3>1, <2>1, <1>2 DEF Root
      <4> QED
        BY <3>1, <4>1, <2>3, <1>4
    <3>2. CASE w # z
      <4>1. f[w] = 0
        BY <2>1, <1>1 DEF Above
      <4> QED
        BY <4>1, <3>2, <2>3
    <3> QED
      BY <3>1, <3>2
  <2>6. f[z] + 1 \in 0 .. 3
    BY <2>2
  <2> HIDE DEF V, g
  <2> QED
    BY <2>3, <2>4, <2>5, <2>6, <1>4 DEF Kept, V, g
<1> QED
  BY <1>2, <1>5, <1>6

\* So is the whole heap: there is no field above it.
LEMMA KeptTakeHeap ==
  ASSUME NEW l \in Buckets, NEW f, NEW F, NEW K, NEW M, Kept(f, F, K, M, {}, l), NEW x \in F, x[2] = 0
  PROVE  Kept(f, F \ {x}, K \union {x}, M, {}, l)
<1> DEFINE B == F \union K
           V == K \union {x}
<1>1. /\ f \in [AllBlocks -> 0 .. 3] /\ M \subseteq K /\ Tidy(F, K, l) /\ Counted(f, B, K, M, {}, l)
      /\ Above(f, K, l) /\ Tiling(B, Size(l)) /\ x \notin K /\ x \in B
  BY TidyTiles DEF Kept
<1>2. x \in AllBlocks /\ l = 0
  <2>1. x \in AllBlocks /\ x[2] >= l /\ l \in Nat
    BY <1>1, TidyTiles, Positive
  <2> QED
    BY <2>1
<1>3. \A w \in AllBlocks : w # x => (Used(B, K, w) <=> Used(B, V, w))
  BY <1>1, UsedToggle
<1>4. B = (F \ {x}) \union V /\ M \subseteq V /\ Tidy(F \ {x}, V, l)
  BY <1>1, TidyTake
<1>5. Counted(f, B, V, M, {}, l)
  <2> SUFFICES ASSUME NEW w \in AllBlocks, InPool(l, w) PROVE f[w] = StatusOf(B, V, M, w)
    BY DEF Counted
  <2>1. f[w] = StatusOf(B, K, M, w)
    BY <1>1 DEF Counted
  <2>2. ASSUME w[2] # Smallest PROVE HalvesUsed(B, V, w) = HalvesUsed(B, K, w)
    <3>1. LeftOf(w) \in AllBlocks /\ RightOf(w) \in AllBlocks /\ LeftOf(w)[2] # 0 /\ RightOf(w)[2] # 0
      <4>1. LeftOf(w) \in AllBlocks /\ RightOf(w) \in AllBlocks /\ w[2] \in Nat
        BY <2>2, Halves, BlockFacts
      <4> QED
        BY <4>1 DEF LeftOf, RightOf
    <3>2. /\ Used(B, K, LeftOf(w)) <=> Used(B, V, LeftOf(w))
          /\ Used(B, K, RightOf(w)) <=> Used(B, V, RightOf(w))
      BY <3>1, <1>3
    <3> QED
      BY <3>2 DEF HalvesUsed, OneIf
  <2> QED
    BY <2>1, <2>2 DEF StatusOf
<1>6. Above(f, V, l)
  <2>1. \A w \in AllBlocks : InPool(l, w)
    BY <1>2, BlockFacts DEF InPool
  <2> QED
    BY <2>1 DEF Above
<1> HIDE DEF V, B
<1>7. Counted(f, (F \ {x}) \union V, V, M, {}, l)
  BY <1>4, <1>5
<1> QED
  BY <1>1, <1>4, <1>6, <1>7 DEF Kept, V

\* A block in hand is marked.
LEMMA KeptMark ==
  ASSUME NEW l \in Buckets, NEW f, NEW F, NEW K, NEW M, Kept(f, F, K, M, {}, l), NEW x \in K
  PROVE  x \in AllBlocks /\ Kept(Put(f, x, 2), F, K, M \union {x}, {}, l)
<1> DEFINE B == F \union K
           g == Put(f, x, 2)
<1>1. /\ f \in [AllBlocks -> 0 .. 3] /\ M \subseteq K /\ Tidy(F, K, l) /\ Counted(f, B, K, M, {}, l)
      /\ Above(f, K, l) /\ Tiling(B, Size(l)) /\ x \in B
  BY TidyTiles DEF Kept
<1>2. x \in AllBlocks /\ InPool(l, x)
  BY <1>1, TidyTiles DEF InPool
<1>3. g \in [AllBlocks -> 0 .. 3] /\ g[x] = 2 /\ \A w \in AllBlocks : w # x => g[w] = f[w]
  BY <1>1, <1>2, PutIs
<1>4. Counted(g, B, K, M \union {x}, {}, l)
  BY <1>1, <1>3 DEF Counted, StatusOf
<1>5. Above(g, K, l)
  BY <1>1, <1>2, <1>3, AboveStays
<1> QED
  BY <1>1, <1>2, <1>3, <1>4, <1>5 DEF Kept

\* A marked block is to be freed: its field no longer says what it is.
LEMMA KeptFree ==
  ASSUME NEW l \in Buckets, NEW f, NEW F, NEW K, NEW M, Kept(f, F, K, M, {}, l), NEW x
  PROVE  Kept(f, F, K, M \ {x}, {x}, l)
<1>1. Counted(f, F \union K, K, M \ {x}, {x}, l)
  BY DEF Kept, Counted, StatusOf
<1> QED
  BY <1>1 DEF Kept

\* Its field is cleared: it has no half in use.
LEMMA KeptClear ==
  ASSUME NEW l \in Buckets, NEW f, NEW F, NEW K, NEW M, NEW x \in K, x \notin M,
         Kept(f, F, K, M, {x}, l)
  PROVE  x \in AllBlocks /\ Kept(Put(f, x, 0), F, K, M, {}, l)
<1> DEFINE B == F \union K
           g == Put(f, x, 0)
<1>1. /\ f \in [AllBlocks -> 0 .. 3] /\ M \subseteq K /\ Tidy(F, K, l) /\ Counted(f, B, K, M, {x}, l)
      /\ Above(f, K, l) /\ Tiling(B, Size(l)) /\ x \in B
  BY TidyTiles DEF Kept
<1>2. x \in AllBlocks /\ InPool(l, x)
  BY <1>1, TidyTiles DEF InPool
<1>3. g \in [AllBlocks -> 0 .. 3] /\ g[x] = 0 /\ \A w \in AllBlocks : w # x => g[w] = f[w]
  BY <1>1, <1>2, PutIs
<1>4. StatusOf(B, K, M, x) = 0
  <2>1. CASE x[2] = Smallest
    BY <2>1 DEF StatusOf
  <2>2. CASE x[2] # Smallest
    <3>1. LeftOf(x) \in AllBlocks /\ RightOf(x) \in AllBlocks /\ x[2] \in Nat
      BY <2>2, <1>2, Halves, BlockFacts
    <3>2. LeftOf(x)[1] \in At(x) /\ RightOf(x)[1] \in At(x)
      BY <3>1, <2>2, <1>2, Halves, BlockFacts
    <3>3. LeftOf(x)[2] > x[2] /\ RightOf(x)[2] > x[2]
      BY <3>1 DEF LeftOf, RightOf
    <3>4. ~Used(B, K, LeftOf(x)) /\ ~Used(B, K, RightOf(x))
      BY <3>1, <3>2, <3>3, <1>1, BelowBlock
    <3> QED
      BY <3>4 DEF StatusOf, HalvesUsed, OneIf
  <2> QED
    BY <2>1, <2>2
<1>5. Counted(g, B, K, M, {}, l)
  BY <1>1, <1>3, <1>4 DEF Counted
<1>6. Above(g, K, l)
  BY <1>1, <1>2, <1>3, AboveStays
<1> QED
  BY <1>1, <1>2, <1>3, <1>5, <1>6 DEF Kept

\* A block in hand is given back, where its twin is not unused and it is not the last one
\* in hand.
LEMMA KeptGive ==
  ASSUME NEW l \in Buckets, NEW f, NEW F, NEW K, NEW M, Kept(f, F, K, M, {}, l), NEW x \in K, x \notin M,
         K # {x}, f[Twin(x)] # 0,
         NEW z \in AllBlocks, z[2] # Smallest, x \in {LeftOf(z), RightOf(z)}
  PROVE  f[z] + (-1) \in 0 .. 3 /\ x \notin F /\ Kept(Bumped(f, z, -1), F \union {x}, K \ {x}, M, {}, l)
<1> DEFINE B == F \union K
           U == K \ {x}
           g == Bumped(f, z, -1)
<1>1. /\ f \in [AllBlocks -> 0 .. 3] /\ M \subseteq K /\ Tidy(F, K, l) /\ Counted(f, B, K, M, {}, l)
      /\ Above(f, K, l) /\ Tiling(B, Size(l)) /\ x \in B
  BY TidyTiles DEF Kept
<1>2. x \in AllBlocks /\ x[2] \in Nat /\ l \in Nat /\ x[2] >= l /\ x[2] # l
  BY <1>1, TidyTiles, BlockFacts, Positive
<1>3. x[2] > l /\ x[2] # 0
  BY <1>2
<1>4. Used(B, K, Twin(x))
  <2>1. Twin(x) \in AllBlocks /\ InPool(l, Twin(x))
    BY <1>2, <1>3, TwinTwin DEF InPool
  <2> QED
    BY <2>1, StatusUsed
<1>5. Tidy(F \union {x}, U, l) /\ x \notin F
  BY <1>1, <1>2, <1>4, TidyGive
<1>6. (F \union {x}) \union U = B /\ M \subseteq U /\ U # {} /\ U \union {x} = K /\ x \notin U
  BY <1>1
<1>7. /\ ~Used(B, U, x) /\ Used(B, K, x)
      /\ \A w \in AllBlocks : w # x => (Used(B, U, w) <=> Used(B, K, w))
  <2>1. /\ ~Used(B, U, x) /\ Used(B, U \union {x}, x)
        /\ \A w : w # x => (Used(B, U, w) <=> Used(B, U \union {x}, w))
    BY <1>1, <1>6, UsedToggle
  <2> QED
    BY <2>1, <1>6
<1>8. InPool(l, z)
  BY <1>3, UpInPool
<1>9. z \notin M
  BY <1>1, UpNoBlock
<1>10. f[z] + (-1) \in 0 .. 3 /\ Counted(g, B, U, M, {}, l)
  BY <1>1, <1>7, <1>8, <1>9, CountedDown
<1>11. g \in [AllBlocks -> 0 .. 3] /\ \A w \in AllBlocks : w # z => g[w] = f[w]
  BY <1>10, <1>1, BumpedIs
<1>12. Above(g, U, l)
  BY <1>1, <1>6, <1>8, <1>11, AboveStays
<1> HIDE DEF U, g, B
<1>13. Counted(g, (F \union {x}) \union U, U, M, {}, l)
  BY <1>6, <1>10
<1> QED
  BY <1>5, <1>6, <1>10, <1>11, <1>12, <1>13 DEF Kept, U, g

\* A block z in K is replaced by its halves, of which x is in V and y is not.
HalfMarked(B, K, C, V, z, x, y, n) ==
    /\ Tiling(B, n) /\ z \in B /\ z[2] # Smallest /\ z \in K /\ x \in V /\ y \notin V /\ x # y
    /\ x \in {LeftOf(z), RightOf(z)} /\ y \in {LeftOf(z), RightOf(z)}
    /\ \A w \in B \ {z} : w \in V <=> w \in K
    /\ C = (B \ {z}) \union {x, y}

LEMMA HalvesMarked ==
  ASSUME NEW B, NEW K, NEW C, NEW V, NEW z, NEW x, NEW y, NEW n, HalfMarked(B, K, C, V, z, x, y, n)
  PROVE  /\ ~Used(B, K, x) /\ Used(C, V, x)
         /\ \A w \in AllBlocks : w # x => (Used(B, K, w) <=> Used(C, V, w))
<1>1. /\ Tiling(B, n) /\ z \in B /\ z[2] # Smallest /\ z \in K /\ x \in V /\ y \notin V /\ x # y
      /\ x \in {LeftOf(z), RightOf(z)} /\ y \in {LeftOf(z), RightOf(z)}
      /\ \A w \in B \ {z} : w \in V <=> w \in K
      /\ C = (B \ {z}) \union {x, y}
  BY DEF HalfMarked
<1> QED
  BY <1>1, UsedHalves

\* A block in hand is split.
LEMMA KeptSplit ==
  ASSUME NEW l \in Buckets, NEW f, NEW F, NEW K, NEW M, Kept(f, F, K, M, {}, l), NEW z \in K, z \notin M,
         z[2] # Smallest
  PROVE  /\ z \in AllBlocks /\ f[z] + 1 \in 0 .. 3 /\ RightOf(z) \notin F /\ LeftOf(z) \notin K
         /\ Kept(Bumped(f, z, 1), F \union {RightOf(z)}, (K \ {z}) \union {LeftOf(z)}, M, {}, l)
<1> DEFINE B == F \union K
           x == LeftOf(z)
           y == RightOf(z)
           V == (K \ {z}) \union {x}
           C == (B \ {z}) \union {x, y}
           g == Bumped(f, z, 1)
<1>1. /\ f \in [AllBlocks -> 0 .. 3] /\ M \subseteq K /\ Tidy(F, K, l) /\ Counted(f, B, K, M, {}, l)
      /\ Above(f, K, l) /\ Tiling(B, Size(l)) /\ z \in B /\ F \intersect K = {}
  BY TidyTiles DEF Kept
<1>2. z \in AllBlocks /\ InPool(l, z)
  BY <1>1, TidyTiles DEF InPool
<1>3. x # y /\ x \notin B /\ y \notin B
  BY <1>1, <1>2, Halves, TileSplit
<1>4. Tidy(F \union {y}, V, l) /\ y \notin F /\ x \notin K
  BY <1>1, TidySplit
<1>5. (F \union {y}) \union V = C /\ M \subseteq V /\ V # {}
  BY <1>1
<1>6. /\ ~Used(B, K, x) /\ Used(C, V, x)
      /\ \A w \in AllBlocks : w # x => (Used(B, K, w) <=> Used(C, V, w))
  <2>1. x \in V /\ y \notin V /\ \A w \in B \ {z} : w \in V <=> w \in K
    BY <1>3
  <2>2. C = (B \ {z}) \union {x, y} /\ x \in {LeftOf(z), RightOf(z)} /\ y \in {LeftOf(z), RightOf(z)}
    OBVIOUS
  <2> HIDE DEF B, C, V, x, y
  <2>3. HalfMarked(B, K, C, V, z, x, y, Size(l))
    BY <2>1, <2>2, <1>1, <1>3 DEF HalfMarked
  <2> QED
    BY <2>3, HalvesMarked
<1>7. f[z] + 1 \in 0 .. 3 /\ Counted(g, C, V, M, {}, l)
  <2>1. x \in {LeftOf(z), RightOf(z)}
    OBVIOUS
  <2> HIDE DEF B, C, V, x, y
  <2> QED
    BY <2>1, <1>1, <1>2, <1>6, CountedUp
<1>8. g \in [AllBlocks -> 0 .. 3] /\ \A w \in AllBlocks : w # z => g[w] = f[w]
  BY <1>7, <1>1, <1>2, BumpedIs
<1>9. Above(g, V, l)
  BY <1>1, <1>2, <1>5, <1>8, AboveStays
<1> HIDE DEF B, C, V, x, y, g
<1>10. Counted(g, (F \union {y}) \union V, V, M, {}, l)
  BY <1>5, <1>7
<1> QED
  BY <1>2, <1>4, <1>5, <1>7, <1>8, <1>9, <1>10 DEF Kept, V, x, y, g

\* A block in hand merges with its twin, whose field is 0.  The field of the block they
\* make is still 1.
Joined(f, F, K, M, x, l) ==
    /\ Twin(x) \in F
    /\ \E z \in AllBlocks :
         /\ NodeOf(z) = Parent(NodeOf(x)) /\ z[2] = x[2] - 1 /\ z \notin F \union K
         /\ Kept(f, F \ {Twin(x)}, (K \ {x}) \union {z}, M, {z}, l)

LEMMA KeptMerge ==
  ASSUME NEW l \in Buckets, NEW f, NEW F, NEW K, NEW M, Kept(f, F, K, M, {}, l), NEW x \in K,
         K \ M = {x}, x[2] # l, f[Twin(x)] = 0
  PROVE  Joined(f, F, K, M, x, l)
<1> DEFINE B == F \union K
           y == Twin(x)
<1>1. /\ f \in [AllBlocks -> 0 .. 3] /\ M \subseteq K /\ Tidy(F, K, l) /\ Counted(f, B, K, M, {}, l)
      /\ Above(f, K, l) /\ Tiling(B, Size(l)) /\ x \in B /\ F \intersect K = {}
  BY TidyTiles DEF Kept
<1>2. x \in AllBlocks /\ x[2] \in Nat /\ l \in Nat /\ x[2] > l /\ x[2] # 0 /\ x \notin M
  <2>1. x \in AllBlocks /\ x[2] \in Nat /\ l \in Nat /\ x[2] >= l /\ x \notin M
    BY <1>1, TidyTiles, BlockFacts, Positive
  <2> QED
    BY <2>1
<1>3. y \in AllBlocks /\ y[2] = x[2] /\ y # x
  BY <1>2, TwinTwin
<1>4. ~Used(B, K, y)
  <2>1. y[2] >= l /\ (y \in K => y \in M)
    BY <1>2, <1>3
  <2> QED
    BY <2>1, <1>3, StatusUnused
<1>5. /\ y \in F
      /\ \E z \in AllBlocks :
              /\ NodeOf(z) = Parent(NodeOf(x)) /\ z[2] = x[2] - 1 /\ z \notin B
              /\ Tidy(F \ {y}, (K \ {x}) \union {z}, l)
  BY <1>1, <1>4, TidyMerge
<1>6. PICK z \in AllBlocks : /\ NodeOf(z) = Parent(NodeOf(x)) /\ z[2] = x[2] - 1 /\ z \notin B
                            /\ Tidy(F \ {y}, (K \ {x}) \union {z}, l)
  BY <1>5
<1> DEFINE V == (K \ {x}) \union {z}
           C == (F \ {y}) \union V
<1>7. z[2] # Smallest /\ {x, y} = {LeftOf(z), RightOf(z)} /\ x # y
  <2>1. PICK w \in AllBlocks : /\ w[2] # Smallest /\ NodeOf(w) = Parent(NodeOf(x))
                              /\ {x, y} = {LeftOf(w), RightOf(w)}
    BY <1>2, UpOf
  <2>2. w = z
    BY <2>1, <1>6, NodesDiffer
  <2> QED
    BY <2>1, <2>2, <1>3
<1>8. Tiling(C, Size(l))
  BY <1>6, TidyTiles
<1>9. B = (C \ {z}) \union {x, y} /\ z \in C /\ z \in V /\ x \in K /\ y \notin K
      /\ \A w \in C \ {z} : w \in K <=> w \in V
  BY <1>1, <1>3, <1>5, <1>6
<1>10. /\ ~Used(C, V, x) /\ Used(B, K, x)
       /\ \A w \in AllBlocks : w # x => (Used(C, V, w) <=> Used(B, K, w))
  <2>1. x \in {LeftOf(z), RightOf(z)} /\ y \in {LeftOf(z), RightOf(z)}
    BY <1>7
  <2> HIDE DEF B, C, V, y
  <2>2. Tiling(C, Size(l)) /\ z \in C /\ z[2] # Smallest /\ x # y /\ z \in V /\ x \in K /\ y \notin K
    BY <1>7, <1>8, <1>9
  <2>3. B = (C \ {z}) \union {x, y} /\ \A w \in C \ {z} : w \in K <=> w \in V
    BY <1>9
  <2>4. HalfMarked(C, V, B, K, z, x, y, Size(l))
    BY <2>1, <2>2, <2>3 DEF HalfMarked
  <2> QED
    BY <2>4, HalvesMarked
<1>11. \A w \in AllBlocks : w[2] # Smallest /\ w # z => HalvesUsed(B, K, w) = HalvesUsed(C, V, w)
  <2>1. x \in {LeftOf(z), RightOf(z)}
    BY <1>7
  <2> HIDE DEF B, C, V, y
  <2>2. OneMore(C, V, B, K, z)
    BY <2>1, <1>7, <1>10, CountMoves
  <2> QED
    BY <2>2 DEF OneMore
<1>12. Counted(f, C, V, M, {z}, l)
  BY <1>1, <1>11 DEF Counted, StatusOf
<1>13. Above(f, V, l)
  <2>1. V # {}
    OBVIOUS
  <2> HIDE DEF V
  <2> QED
    BY <2>1, <1>1, AboveStays
<1>14. M \subseteq V
  BY <1>1, <1>2
<1>15. Kept(f, F \ {y}, V, M, {z}, l)
  BY <1>1, <1>6, <1>12, <1>13, <1>14 DEF Kept
<1>16. /\ Twin(x) \in F
       /\ \E w \in AllBlocks :
            /\ NodeOf(w) = Parent(NodeOf(x)) /\ w[2] = x[2] - 1 /\ w \notin F \union K
            /\ Kept(f, F \ {Twin(x)}, (K \ {x}) \union {w}, M, {w}, l)
  BY <1>5, <1>6, <1>15
<1> QED
  BY <1>16 DEF Joined

\* A pool of one free block: every field is 0, and that is all there is to it.
LEMMA FreePoolFields ==
  ASSUME NEW l \in Buckets, NEW f \in [AllBlocks -> 0 .. 3]
  PROVE  /\ \A w \in AllBlocks : InPool(l, w) => StatusOf({Root(l)}, {}, {}, w) = 0
         /\ Kept(f, {Root(l)}, {}, {}, {}, l) <=> \A w \in AllBlocks : f[w] = 0
<1>1. ASSUME NEW w \in AllBlocks, InPool(l, w) PROVE StatusOf({Root(l)}, {}, {}, w) = 0
  <2>1. CASE w[2] = Smallest
    BY <2>1 DEF StatusOf
  <2>2. CASE w[2] # Smallest
    <3>1. /\ LeftOf(w) \in AllBlocks /\ RightOf(w) \in AllBlocks /\ w[2] \in Nat /\ l \in Nat /\ w[1] \in Nat
          /\ LeftOf(w)[2] = w[2] + 1 /\ RightOf(w)[2] = w[2] + 1
      BY <2>2, Halves, BlockFacts, Positive DEF LeftOf, RightOf
    <3>2. Root(l)[1] = 0 /\ Root(l)[2] = l
      BY RootBlock
    <3>3. w[1] # 0 => ~(0 \in At(LeftOf(w))) /\ ~(0 \in At(RightOf(w)))
      <4>1. w[1] # 0 => ~(0 \in At(w))
        BY <3>1, BlockFacts
      <4> QED
        BY <4>1, <2>2, Halves
    <3>4. w[2] >= l => ~(l > w[2] + 1)
      BY <3>1
    <3>5. ~Used({Root(l)}, {}, LeftOf(w)) /\ ~Used({Root(l)}, {}, RightOf(w))
      BY <1>1, <3>1, <3>2, <3>3, <3>4 DEF InPool, Used
    <3> QED
      BY <3>5 DEF StatusOf, HalvesUsed, OneIf
  <2> QED
    BY <2>1, <2>2
<1>2. {Root(l)} \union {} = {Root(l)} /\ Tidy({Root(l)}, {}, l)
  BY TidyRoot
<1>3. ASSUME \A w \in AllBlocks : f[w] = 0 PROVE Kept(f, {Root(l)}, {}, {}, {}, l)
  <2>1. Counted(f, {Root(l)}, {}, {}, {}, l)
    BY <1>1, <1>3 DEF Counted
  <2>2. Above(f, {}, l)
    BY <1>3 DEF Above
  <2> QED
    BY <1>2, <2>1, <2>2 DEF Kept
<1>4. ASSUME Kept(f, {Root(l)}, {}, {}, {}, l), NEW w \in AllBlocks PROVE f[w] = 0
  <2>1. Counted(f, {Root(l)}, {}, {}, {}, l) /\ Above(f, {}, l)
    BY <1>2, <1>4 DEF Kept
  <2> QED
    BY <2>1, <1>1 DEF Counted, Above
<1> QED
  BY <1>1, <1>3, <1>4

\* The pool doubles.  If the field of its root is 0, it is one free block and stays so,
LEMMA KeptGrowFree ==
  ASSUME NEW l \in Buckets, l # 0, NEW f, NEW F, NEW K, Kept(f, F, K, K, {}, l), f[Root(l)] = 0
  PROVE  F = {Root(l)} /\ K = {} /\ Kept(f, {Root(l - 1)}, {}, {}, {}, l - 1)
<1>1. Root(l) \in AllBlocks /\ Root(l)[2] = l /\ l \in Nat /\ l - 1 \in Buckets
  BY RootBlock, Doubled
<1>2. f \in [AllBlocks -> 0 .. 3] /\ Tidy(F, K, l)
  BY DEF Kept
<1>3. ~Used(F \union K, K, Root(l))
  <2>1. Root(l)[2] >= l
    BY <1>1
  <2> QED
    BY <2>1, <1>1, StatusUnused
<1>4. F = {Root(l)} /\ K = {}
  BY <1>2, <1>3, TidyGrowFree
<1>5. Kept(f, {Root(l)}, {}, {}, {}, l)
  BY <1>4
<1>6. \A w \in AllBlocks : f[w] = 0
  BY <1>2, <1>5, FreePoolFields
<1>7. Kept(f, {Root(l - 1)}, {}, {}, {}, l - 1)
  BY <1>1, <1>2, <1>6, FreePoolFields
<1> QED
  BY <1>4, <1>7

\* and otherwise it becomes the left half of the new pool.
LEMMA KeptGrowUsed ==
  ASSUME NEW l \in Buckets, l # 0, NEW f, NEW F, NEW K, Kept(f, F, K, K, {}, l), f[Root(l)] # 0
  PROVE  /\ Half(l) \notin F /\ \A x \in F : x[2] >= l
         /\ Root(l - 1) \in AllBlocks
         /\ Kept(Put(f, Root(l - 1), 1), F \union {Half(l)}, K, K, {}, l - 1)
<1> DEFINE B == F \union K
           r == Root(l - 1)
           h == Half(l)
           C == B \union {h}
           g == Put(f, r, 1)
<1>1. /\ l - 1 \in Buckets /\ l \in Nat /\ r \in AllBlocks /\ r[1] = 0 /\ r[2] = l - 1 /\ r[2] # Smallest
      /\ Root(l) \in AllBlocks /\ Root(l)[1] = 0 /\ Root(l)[2] = l
      /\ LeftOf(r) = Root(l) /\ RightOf(r) = h /\ h \in AllBlocks /\ h[2] = l /\ h # Root(l)
  BY RootBlock, Doubled DEF Half
<1>2. /\ f \in [AllBlocks -> 0 .. 3] /\ Tidy(F, K, l) /\ Counted(f, B, K, K, {}, l)
      /\ Above(f, K, l) /\ Tiling(B, Size(l))
  BY TidyTiles DEF Kept
<1>3. Used(B, K, Root(l))
  <2>1. InPool(l, Root(l))
    BY <1>1 DEF InPool
  <2> QED
    BY <2>1, <1>1, StatusUsed
<1>4. h \notin F /\ (\A x \in F : x[2] >= l) /\ Tidy(F \union {h}, K, l - 1)
  BY <1>2, <1>3, TidyGrowUsed
<1>5. Tiling(C, Size(l - 1)) /\ h \notin B
  BY <1>2, TileGrow
<1>6. g \in [AllBlocks -> 0 .. 3] /\ g[r] = 1 /\ \A w \in AllBlocks : w # r => g[w] = f[w]
  BY <1>1, <1>2, PutIs
\* Only blocks that contain the new half can notice it, and these are above the new pool.
<1>7. ASSUME NEW w \in AllBlocks, w[2] >= l - 1 \/ w[1] # 0, w # r
      PROVE  Used(B, K, w) <=> Used(C, K, w)
  <2> SUFFICES ASSUME h[1] \in At(w), h[2] > w[2] \/ (h = w /\ h \in K) PROVE FALSE
    BY DEF Used
  <2>1. h[2] > w[2] /\ w[2] \in Nat /\ w[1] \in Nat
    BY <1>5, BlockFacts
  <2>2. h[1] \in At(r)
    BY <1>1, Halves, BlockFacts
  <2>3. CASE w[2] >= l - 1
    <3>1. w[2] = r[2]
      BY <2>1, <2>3, <1>1
    <3> QED
      BY <3>1, <2>2, <1>1, <1>7, Geometry
  <2>4. CASE w[2] < l - 1 /\ w[1] # 0
    <3>1. r[2] >= w[2]
      BY <2>1, <2>4, <1>1
    <3>2. r[1] \in At(w)
      BY <3>1, <2>2, <1>1, Geometry
    <3> QED
      BY <3>2, <2>1, <2>4, <1>1, BlockFacts
  <2> QED
    BY <2>1, <2>3, <2>4, <1>1, <1>7
<1>8. ~Used(C, K, h) /\ Used(C, K, Root(l))
  <2>1. h \in C /\ h \notin K
    BY <1>5
  <2>2. ~Used(C, K, h)
    BY <2>1, <1>5, UsedOfBlock
  <2>3. Used(C, K, Root(l))
    BY <1>3 DEF Used
  <2> QED
    BY <2>2, <2>3
<1>9. Counted(g, C, K, K, {}, l - 1)
  <2> SUFFICES ASSUME NEW w \in AllBlocks, InPool(l - 1, w) PROVE g[w] = StatusOf(C, K, K, w)
    BY DEF Counted
  <2>1. CASE w = r
    <3>1. r \notin K
      <4>1. r \notin B
        BY <1>1, <1>2, TidyTiles
      <4> QED
        BY <4>1
    <3>2. HalvesUsed(C, K, r) = 1
      BY <1>1, <1>8 DEF HalvesUsed, OneIf
    <3> QED
      BY <2>1, <3>1, <3>2, <1>1, <1>6 DEF StatusOf
  <2>2. CASE w # r
    <3>1. w[2] \in Nat /\ w[1] \in Nat
      BY BlockFacts
    <3>2. InPool(l, w)
      <4>1. w[2] = l - 1 /\ w[1] = 0 => w = r
        BY <1>1, BlockFacts
      <4> QED
        BY <4>1, <3>1, <2>2, <1>1 DEF InPool
    <3>3. g[w] = StatusOf(B, K, K, w)
      BY <3>2, <2>2, <1>2, <1>6 DEF Counted
    <3>4. ASSUME w[2] # Smallest PROVE HalvesUsed(C, K, w) = HalvesUsed(B, K, w)
      <4>1. ASSUME NEW x \in {LeftOf(w), RightOf(w)} PROVE Used(B, K, x) <=> Used(C, K, x)
        <5>1. x \in AllBlocks /\ x[2] = w[2] + 1
          <6>1. LeftOf(w) \in AllBlocks /\ RightOf(w) \in AllBlocks
            BY <3>4, Halves
          <6>2. LeftOf(w)[2] = w[2] + 1 /\ RightOf(w)[2] = w[2] + 1
            BY DEF LeftOf, RightOf
          <6> QED
            BY <6>1, <6>2
        <5>2. x # r
          <6> SUFFICES ASSUME x = r PROVE FALSE
            OBVIOUS
          <6>1. 0 \in At(w)
            <7>1. r[1] \in At(r)
              BY <1>1, BlockFacts
            <7> QED
              BY <7>1, <3>4, <4>1, <1>1, Halves
          <6>2. w[1] = 0
            BY <6>1, <3>1, BlockFacts
          <6> QED
            BY <6>2, <5>1, <3>1, <3>2, <1>1 DEF InPool
        <5>3. x[2] >= l - 1 \/ x[1] # 0
          <6>1. CASE w[2] >= l
            BY <6>1, <5>1, <3>1, <1>1
          <6>2. CASE w[1] # 0
            <7>1. ~(0 \in At(w))
              BY <6>2, <3>1, BlockFacts
            <7>2. x[1] \in At(w)
              <8>1. x[1] \in At(x)
                BY <5>1, BlockFacts
              <8> QED
                BY <8>1, <3>4, <4>1, Halves
            <7> QED
              BY <7>1, <7>2
          <6> QED
            BY <6>1, <6>2, <3>2 DEF InPool
        <5> QED
          BY <5>1, <5>2, <5>3, <1>7
      <4>2. /\ Used(B, K, LeftOf(w)) <=> Used(C, K, LeftOf(w))
            /\ Used(B, K, RightOf(w)) <=> Used(C, K, RightOf(w))
        BY <4>1
      <4> QED
        BY <4>2 DEF HalvesUsed, OneIf
    <3> QED
      BY <3>3, <3>4 DEF StatusOf
  <2> QED
    BY <2>1, <2>2
<1>10. Above(g, K, l - 1)
  <2> SUFFICES ASSUME NEW w \in AllBlocks, ~InPool(l - 1, w) PROVE g[w] = 0
    BY DEF Above
  <2>1. w[2] < l - 1 /\ w[1] = 0 /\ w[2] \in Nat
    BY BlockFacts, <1>1 DEF InPool
  <2>2. ~InPool(l, w) /\ w # r
    BY <2>1, <1>1 DEF InPool
  <2>3. f[w] = 0
    BY <2>1, <2>2, <1>2 DEF Above
  <2> QED
    BY <2>2, <2>3, <1>6
<1>11. (F \union {h}) \union K = C
  OBVIOUS
<1> HIDE DEF C, g, h, B
<1>12. Counted(g, (F \union {h}) \union K, K, K, {}, l - 1)
  BY <1>9, <1>11
<1>13. Kept(g, F \union {h}, K, K, {}, l - 1)
  BY <1>4, <1>6, <1>10, <1>12 DEF Kept
<1> QED
  BY <1>1, <1>4, <1>13 DEF g, h

-----------------------------------------------------------------------------
\* What the walk of malloc_2 over the ancestors finds: a block whose halves are both USED
\* is USED already, as the counts are kept up to date.
LEMMA KeptBothUsed ==
  ASSUME NEW l \in Buckets, NEW f, NEW F, NEW K, NEW M, Kept(f, F, K, M, {}, l),
         NEW z \in AllBlocks, z[2] # Smallest, f[LeftOf(z)] = 2, f[RightOf(z)] = 2
  PROVE  f[z] = 2
<1> DEFINE B == F \union K
           x == LeftOf(z)
           y == RightOf(z)
<1>1. /\ Tidy(F, K, l) /\ Counted(f, B, K, M, {}, l) /\ Above(f, K, l) /\ Tiling(B, Size(l))
  BY TidyTiles DEF Kept
<1>2. /\ x \in AllBlocks /\ y \in AllBlocks /\ z[1] \in Nat /\ z[2] \in Nat /\ l \in Nat
      /\ x[1] = z[1] /\ x[2] = z[2] + 1 /\ y[2] = z[2] + 1 /\ y[1] = z[1] + Size(z[2] + 1)
  BY Halves, BlockFacts, Positive DEF LeftOf, RightOf
<1>3. InPool(l, x)
  <2> SUFFICES ASSUME ~InPool(l, x) PROVE FALSE
    OBVIOUS
  <2>1. f[x] \in {0, 1}
    BY <1>1, <1>2 DEF Above
  <2> QED
    BY <2>1
<1>4. CASE InPool(l, z)
  <2>1. InPool(l, y)
    <3>1. Size(y[2]) \in Nat \ {0}
      BY <1>2, BlockFacts
    <3> QED
      BY <3>1, <1>2, <1>4 DEF InPool
  <2>2. f[x] # 0 /\ f[y] # 0
    OBVIOUS
  <2> HIDE DEF x, y
  <2>3. Used(B, K, x) /\ Used(B, K, y)
    BY <1>2, <1>3, <2>1, <2>2, StatusUsed
  <2>4. HalvesUsed(B, K, z) = 2
    BY <2>3 DEF HalvesUsed, OneIf, x, y
  <2>5. StatusOf(B, K, M, z) = 2
    BY <2>4 DEF StatusOf
  <2> QED
    BY <2>5, <1>1, <1>4 DEF Counted
<1>5. CASE ~InPool(l, z)
  <2>1. z[1] = 0 /\ z[2] + 1 = l
    BY <1>2, <1>3, <1>5 DEF InPool
  <2>2. y[2] = l /\ y[1] = Size(l) /\ Size(l) \in Nat \ {0}
    BY <2>1, <1>2, Positive
  <2>3. InPool(l, y) /\ f[y] # 0
    BY <2>2, <1>2 DEF InPool
  <2> HIDE DEF y
  <2>4. Used(B, K, y)
    BY <1>2, <2>3, StatusUsed
  <2>5. PICK a \in B : a[1] \in At(y)
    BY <2>4 DEF Used
  <2>6. a[1] >= Size(l)
    BY <2>2, <2>5, <1>2, BlockFacts
  <2>7. a[1] \in 0 .. Size(l) - 1
    <3>1. a \in AllBlocks /\ a[1] \in At(a)
      BY <1>1, BlockFacts DEF Tiling
    <3> QED
      BY <3>1, <1>1 DEF Tiling
  <2> QED
    BY <2>2, <2>6, <2>7
<1> QED
  BY <1>4, <1>5

\* What the search of free_2 finds: the field of a marked block is 2, and those below it on
\* the same address are 0.
LEMMA KeptFind ==
  ASSUME NEW l \in Buckets, NEW f, NEW F, NEW K, NEW M, Kept(f, F, K, M, {}, l), NEW x \in M
  PROVE  /\ x \in AllBlocks /\ x[2] >= l /\ f[x] = 2
         /\ \A w \in AllBlocks : w[1] = x[1] /\ w[2] > x[2] => f[w] = 0
<1> DEFINE B == F \union K
<1>1. /\ Tidy(F, K, l) /\ Counted(f, B, K, M, {}, l) /\ Tiling(B, Size(l)) /\ x \in B /\ M \subseteq B
  BY TidyTiles DEF Kept
<1>2. x \in AllBlocks /\ x[2] >= l /\ x[2] \in Nat /\ l \in Nat /\ x[1] \in At(x)
  BY <1>1, TidyTiles, BlockFacts, Positive
<1>3. f[x] = 2
  BY <1>1, <1>2 DEF Counted, StatusOf, InPool
<1>4. ASSUME NEW w \in AllBlocks, w[1] = x[1], w[2] > x[2] PROVE f[w] = 0
  <2>1. w[2] \in Nat /\ w[1] \in At(w) /\ InPool(l, w) /\ w[1] \in At(x)
    BY <1>2, <1>4, BlockFacts DEF InPool
  <2>2. At(w) \subseteq At(x)
    BY <2>1, <1>2, <1>4, Geometry
  <2>3. w \notin M
    <3>1. w \in B => w = x
      BY <2>1, <1>1, <1>2, <1>4 DEF Tiling
    <3>2. w # x
      BY <2>1, <1>2, <1>4
    <3> QED
      BY <3>1, <3>2, <1>1
  <2>4. ASSUME w[2] # Smallest PROVE HalvesUsed(B, K, w) = 0
    <3>1. ASSUME NEW h \in {LeftOf(w), RightOf(w)} PROVE ~Used(B, K, h)
      <4>1. h \in AllBlocks /\ h[2] = w[2] + 1
        <5>1. LeftOf(w) \in AllBlocks /\ RightOf(w) \in AllBlocks
          BY <2>4, Halves
        <5>2. LeftOf(w)[2] = w[2] + 1 /\ RightOf(w)[2] = w[2] + 1
          BY DEF LeftOf, RightOf
        <5> QED
          BY <5>1, <5>2
      <4>2. h[1] \in At(w)
        <5>1. h[1] \in At(h)
          BY <4>1, BlockFacts
        <5> QED
          BY <5>1, <2>4, <3>1, Halves
      <4>3. h[2] > x[2] /\ h[1] \in At(x)
        BY <4>1, <4>2, <2>1, <2>2, <1>2, <1>4
      <4> QED
        BY <4>1, <4>3, <1>1, BelowBlock
    <3> QED
      BY <3>1 DEF HalvesUsed, OneIf
  <2>5. StatusOf(B, K, M, w) = 0
    BY <2>3, <2>4 DEF StatusOf
  <2> QED
    BY <2>5, <2>1, <1>1 DEF Counted
<1> QED
  BY <1>2, <1>3, <1>4

-----------------------------------------------------------------------------
(***************************************************************************)
(* The fields of the blocks in the bytes of node_status.                   *)
(***************************************************************************)
FieldsOf(ns) == [x \in AllBlocks |-> Field(ns, NodeOf(x))]

LEMMA FieldsAre ==
  ASSUME NEW ns \in BytesOf
  PROVE  /\ FieldsOf(ns) \in [AllBlocks -> 0 .. 3]
         /\ \A x \in AllBlocks : NodeOf(x) \in Nodes /\ FieldsOf(ns)[x] = Field(ns, NodeOf(x))
<1>1. ASSUME NEW x \in AllBlocks PROVE NodeOf(x) \in Nodes /\ Field(ns, NodeOf(x)) \in 0 .. 3
  <2>1. NodeOf(x) \in Nodes
    BY NodeOfBlock, BlockFacts, LevelNodes
  <2>2. ns[NodeOf(x) \div 4] \in Int /\ One(NodeOf(x)) \in {1, 4, 16, 64}
    BY <2>1, ByteOfNode, ByteValue, Weights
  <2>3. ns[NodeOf(x) \div 4] \div One(NodeOf(x)) \in Int
    BY <2>2
  <2> QED
    BY <2>1, <2>3 DEF Field
<1> QED
  BY <1>1 DEF FieldsOf

LEMMA FieldsAdd ==
  ASSUME NEW ns \in BytesOf, NEW z \in AllBlocks, NEW n \in Int, FieldsOf(ns)[z] + n \in 0 .. 3
  PROVE  FieldsOf(AddTo(ns, NodeOf(z), n)) = Bumped(FieldsOf(ns), z, n)
<1> DEFINE ms == AddTo(ns, NodeOf(z), n)
           f == FieldsOf(ns)
<1>1. NodeOf(z) \in Nodes /\ Field(ns, NodeOf(z)) + n \in 0 .. 3 /\ ms \in BytesOf
  BY FieldsAre, AddToBytes
<1>2. ASSUME NEW x \in AllBlocks PROVE FieldsOf(ms)[x] = Bumped(f, z, n)[x]
  <2>1. NodeOf(x) \in Nodes /\ FieldsOf(ms)[x] = Field(ms, NodeOf(x)) /\ f[x] = Field(ns, NodeOf(x))
    BY <1>1, FieldsAre
  <2>2. Field(ms, NodeOf(x)) = IF NodeOf(x) = NodeOf(z) THEN Field(ns, NodeOf(z)) + n ELSE Field(ns, NodeOf(x))
    BY <1>1, <2>1, FieldAdd
  <2>3. NodeOf(x) = NodeOf(z) => x = z
    BY NodesDiffer
  <2>4. f \in [AllBlocks -> 0 .. 3] /\ f[z] = Field(ns, NodeOf(z))
    BY FieldsAre
  <2>5. Bumped(f, z, n)[x] = IF x = z THEN f[z] + n ELSE f[x]
    <3> HIDE DEF f
    <3> QED
      BY <2>4 DEF Bumped
  <2> HIDE DEF f, ms
  <2> QED
    BY <2>1, <2>2, <2>3, <2>4, <2>5
<1>3. FieldsOf(ms) \in [AllBlocks -> 0 .. 3] /\ Bumped(f, z, n) \in [AllBlocks -> 0 .. 3]
  <2>1. f \in [AllBlocks -> 0 .. 3] /\ FieldsOf(ms) \in [AllBlocks -> 0 .. 3]
    BY <1>1, FieldsAre
  <2> QED
    BY <2>1, BumpedIs
<1> HIDE DEF ms, f
<1>4. FieldsOf(ms) = Bumped(f, z, n)
  BY <1>2, <1>3
<1> QED
  BY <1>4 DEF ms, f

LEMMA FieldsSet ==
  ASSUME NEW ns \in BytesOf, NEW z \in AllBlocks, NEW st \in {UNUSED, SPLIT, USED}
  PROVE  FieldsOf(node_set_status(ns, NodeOf(z), st)) = Put(FieldsOf(ns), z, st)
<1> DEFINE f == FieldsOf(ns)
           v == f[z]
           n == st - v
<1>1. f \in [AllBlocks -> 0 .. 3] /\ v = Field(ns, NodeOf(z))
  BY FieldsAre
<1>2. v \in 0 .. 3 /\ st \in 0 .. 3
  BY <1>1 DEF UNUSED, SPLIT, USED
<1> HIDE DEF v
<1>3. n \in Int /\ v + n = st /\ v + n \in 0 .. 3
  BY <1>2
<1> HIDE DEF n
<1>4. node_set_status(ns, NodeOf(z), st) = AddTo(ns, NodeOf(z), n)
  BY <1>1 DEF node_set_status, n
<1>5. FieldsOf(AddTo(ns, NodeOf(z), n)) = Bumped(f, z, n)
  BY <1>3, FieldsAdd DEF v
<1>6. Bumped(f, z, n) = Put(f, z, st)
  <2>1. Bumped(f, z, n) = [f EXCEPT ![z] = v + n]
    BY DEF Bumped, v
  <2> QED
    BY <2>1, <1>3 DEF Put
<1> QED
  BY <1>4, <1>5, <1>6

LEMMA BuddyNode ==
  ASSUME NEW x \in AllBlocks, x[2] # 0
  PROVE  NodeOf(Twin(x)) = Buddy(NodeOf(x))
<1>1. NodeOf(x) \in LevelOf(x[2]) /\ x[2] \in Buckets
  BY NodeOfBlock, BlockFacts
<1>2. Buddy(NodeOf(x)) \in LevelOf(x[2])
  BY <1>1, ParentOf
<1> QED
  BY <1>1, <1>2, BlockOfNode DEF Twin

\* A block may begin where a larger one begins.
LEMMA StartsWithin ==
  ASSUME NEW b \in Buckets, NEW c \in Buckets, b <= c, NEW p \in Starts(b)
  PROVE  p \in Starts(c)
<1>1. PICK m \in Nat \ {0} : Size(b) = m * Size(c)
  BY SizeDivides
<1>2. PICK j \in 0 .. Pow2[b] - 1 : p = j * Size(b)
  BY DEF Starts
<1>3. p \in Nat /\ p + Size(b) <= Units /\ Size(b) \in Nat /\ Size(c) \in Nat \ {0} /\ Units \in Nat
      /\ j \in Nat
  BY StartInHeap, Positive
<1>4. Size(c) <= Size(b)
  BY SizeOrder
<1>5. j * m \in Nat /\ p = (j * m) * Size(c)
  BY <1>1, <1>2, <1>3
<1>6. p % Size(c) = 0
  BY <1>3, <1>5, Multiple
<1>7. p + Size(c) <= Units
  BY <1>3, <1>4
<1> QED
  BY <1>3, <1>6, <1>7, Aligned
=============================================================================
