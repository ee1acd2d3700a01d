-------------------------- MODULE BuddyTree_proofs --------------------------
(***************************************************************************)
(* What the operators of BuddyTree compute, for every depth of the tree:   *)
(* sizes halve from bucket to bucket, the nodes of a bucket and the        *)
(* addresses of its blocks correspond one to one, children and parents lie *)
(* in the neighbouring buckets, and the list operations stay in the list.  *)
(*                                                                         *)
(* In the second half blocks are sets of units: a block is                 *)
(* <<address, bucket>>.  Two blocks nest or do not touch; a set of blocks  *)
(* tiles the heap when each unit is in exactly one; what splitting and     *)
(* merging do to a tiling and to the bits that record which blocks are in  *)
(* use.  Nothing here refers to a state: the lemmas serve both allocators. *)
(***************************************************************************)
EXTENDS BuddyTree, SequenceTheorems, WellFoundedInduction, TLAPS

\* Where the blocks of bucket b begin.
Starts(b) == {j * Size(b) : j \in 0 .. Pow2[b] - 1}

-----------------------------------------------------------------------------
\* Products of natural numbers keep the order of their left factor.
LEMMA ProductOrder ==
  ASSUME NEW a \in Nat, NEW b \in Nat, NEW s \in Nat, a < b
  PROVE  a * s + s <= b * s
<1>1. PICK d \in Nat : b = a + 1 + d
  BY SMT
<1>2. b * s = a * s + s + d * s
  BY <1>1, SMT
<1>3. d * s >= 0
  BY SMT
<1> QED
  BY <1>2, <1>3, SMT

LEMMA ProductMonotone ==
  ASSUME NEW a \in Nat, NEW b \in Nat, NEW s \in Nat, a <= b
  PROVE  s * a <= s * b /\ s * a \in Nat /\ s * b \in Nat
<1>1. PICK d \in Nat : b = a + d
  BY SMT
<1>2. s * b = s * a + s * d /\ s * d \in Nat
  BY <1>1, SMT
<1> QED
  BY <1>2, SMT

\* An exact multiple divides exactly.
LEMMA ExactQuotient ==
  ASSUME NEW j \in Nat, NEW s \in Nat \ {0}
  PROVE  (j * s) \div s = j
<1> DEFINE q == (j * s) \div s
<1>1. j * s \in Nat /\ q \in Nat
  BY SMT
<1>2. q * s <= j * s /\ j * s < q * s + s
  BY <1>1, SMT
<1>3. ~(q < j)
  BY <1>1, <1>2, ProductOrder, SMT
<1>4. ~(j < q)
  BY <1>1, <1>2, ProductOrder, SMT
<1> QED
  BY <1>1, <1>3, <1>4, SMT

\* The powers and the sizes of the buckets are positive.
LEMMA Positive ==
  /\ BUCKET_COUNT \in Nat /\ Smallest \in Nat \ {0} /\ Smallest \in Buckets
  /\ \A b \in Buckets : b \in Nat /\ Pow2[b] \in Nat \ {0} /\ Size(b) \in Nat \ {0}
  /\ Pow2[BUCKET_COUNT] \in Nat \ {0} /\ Units \in Nat \ {0}
  /\ MIN_ALLOC \in Nat \ {0}
<1>1. BUCKET_COUNT \in Nat /\ BUCKET_COUNT >= 2
  BY BuddyTreeAssumption
<1>2. Smallest \in Nat \ {0} /\ Smallest \in Buckets /\ Smallest <= BUCKET_COUNT
  BY <1>1 DEF Buckets, Smallest
<1>3. \A k \in 0 .. BUCKET_COUNT : Pow2[k] \in Nat \ {0}
  BY BuddyTreeAssumption
<1>4. ASSUME NEW b \in Buckets
      PROVE  b \in Nat /\ b \in 0 .. BUCKET_COUNT /\ Smallest - b \in 0 .. BUCKET_COUNT
  BY <1>1 DEF Buckets, Smallest
<1>5. \A b \in Buckets : b \in Nat /\ Pow2[b] \in Nat \ {0} /\ Size(b) \in Nat \ {0}
  BY <1>3, <1>4 DEF Size
<1>6. Pow2[BUCKET_COUNT] \in Nat \ {0} /\ Units \in Nat \ {0}
  BY <1>1, <1>2, <1>3 DEF Units
<1>7. MIN_ALLOC \in Nat \ {0}
  BY BuddyTreeAssumption
<1> QED
  BY <1>1, <1>2, <1>5, <1>6, <1>7

\* Bucket b holds Pow2[b] blocks, which fill the heap.
LEMMA BlocksFill == \A b \in Buckets : Pow2[b] * Size(b) = Units
<1> TAKE b \in Buckets
<1>1. b \in 0 .. BUCKET_COUNT /\ Smallest - b \in 0 .. BUCKET_COUNT
      /\ b + (Smallest - b) = Smallest /\ Smallest <= BUCKET_COUNT
  BY BuddyTreeAssumption DEF Buckets, Smallest
<1> QED
  BY <1>1, BuddyTreeAssumption DEF Size, Units

\* The next larger blocks are twice as large and half as many.
LEMMA Halving ==
  /\ \A b \in Buckets : b # Smallest => b + 1 \in Buckets /\ Size(b) = 2 * Size(b + 1)
  /\ \A b \in 0 .. BUCKET_COUNT - 1 : Pow2[b + 1] = 2 * Pow2[b]
  /\ Pow2[0] = 1 /\ Size(Smallest) = 1 /\ Size(0) = Units
<1>1. ASSUME NEW b \in Buckets, b # Smallest
      PROVE  b + 1 \in Buckets /\ Size(b) = 2 * Size(b + 1)
  <2>1. b + 1 \in Buckets
    BY <1>1, Positive DEF Buckets, Smallest
  <2>2. 1 \in 0 .. BUCKET_COUNT /\ Smallest - (b + 1) \in 0 .. BUCKET_COUNT
        /\ 1 + (Smallest - (b + 1)) = Smallest - b /\ Smallest - b <= BUCKET_COUNT
    BY <1>1, BuddyTreeAssumption DEF Buckets, Smallest
  <2>3. Pow2[1 + (Smallest - (b + 1))] = Pow2[1] * Pow2[Smallest - (b + 1)]
    BY <2>2, BuddyTreeAssumption
  <2> QED
    BY <2>1, <2>2, <2>3, BuddyTreeAssumption DEF Size
<1>2. ASSUME NEW b \in 0 .. BUCKET_COUNT - 1
      PROVE  Pow2[b + 1] = 2 * Pow2[b]
  <2>1. Pow2[1 + b] = Pow2[1] * Pow2[b]
    BY BuddyTreeAssumption
  <2>2. 1 + b = b + 1
    BY BuddyTreeAssumption
  <2> QED
    BY <2>1, <2>2, BuddyTreeAssumption
<1>3. Pow2[0] = 1 /\ Size(Smallest) = 1 /\ Size(0) = Units
  BY BuddyTreeAssumption DEF Size, Units, Smallest
<1> QED
  BY <1>1, <1>2, <1>3

\* Powers grow with their exponents, sizes shrink with the bucket.
LEMMA PowOrder == \A j, k \in 0 .. BUCKET_COUNT : j <= k => Pow2[j] <= Pow2[k]
<1> SUFFICES ASSUME NEW j \in 0 .. BUCKET_COUNT, NEW k \in 0 .. BUCKET_COUNT, j <= k
             PROVE  Pow2[j] <= Pow2[k]
  OBVIOUS
<1>1. k - j \in 0 .. BUCKET_COUNT /\ (k - j) + j = k /\ k <= BUCKET_COUNT
  BY Positive
<1>2. Pow2[(k - j) + j] = Pow2[k - j] * Pow2[j]
  BY <1>1, BuddyTreeAssumption
<1>3. Pow2[k - j] \in Nat \ {0} /\ Pow2[j] \in Nat
  BY <1>1, BuddyTreeAssumption
<1>4. 0 * Pow2[j] + Pow2[j] <= Pow2[k - j] * Pow2[j]
  BY <1>3, ProductOrder
<1> QED
  BY <1>1, <1>2, <1>3, <1>4

LEMMA SizeOrder == \A b, c \in Buckets : b <= c => Size(c) <= Size(b)
<1> SUFFICES ASSUME NEW b \in Buckets, NEW c \in Buckets, b <= c
             PROVE  Size(c) <= Size(b)
  OBVIOUS
<1>1. Smallest - c \in 0 .. BUCKET_COUNT /\ Smallest - b \in 0 .. BUCKET_COUNT
      /\ Smallest - c <= Smallest - b
  BY Positive DEF Buckets, Smallest
<1> QED
  BY <1>1, PowOrder DEF Size

\* bucket_for_request has one answer.
LEMMA OneBucket ==
  \A b, c \in Buckets : \A n \in Nat : IsBucketFor(b, n) /\ IsBucketFor(c, n) => b = c
<1>1. ASSUME NEW b \in Buckets, NEW c \in Buckets, NEW n \in Nat, b < c, IsBucketFor(b, n)
      PROVE  ~IsBucketFor(c, n)
  <2>1. b # Smallest /\ b + 1 <= c /\ b + 1 \in Buckets
    BY <1>1, Positive DEF Buckets, Smallest
  <2>2. Size(c) <= Size(b + 1) /\ Size(c) \in Nat /\ Size(b + 1) \in Nat
    BY <2>1, SizeOrder, Positive
  <2>4. Bytes(c) <= Bytes(b + 1) /\ Bytes(c) \in Nat /\ Bytes(b + 1) \in Nat
    BY <2>2, Positive, ProductMonotone DEF Bytes
  <2>5. Bytes(b + 1) < n
    BY <1>1, <2>1 DEF IsBucketFor
  <2> QED
    BY <2>4, <2>5 DEF IsBucketFor
<1> QED
  BY <1>1, Positive
-----------------------------------------------------------------------------
\* A block lies inside the heap.
LEMMA StartInHeap ==
  \A b \in Buckets : \A p \in Starts(b) : p \in Nat /\ p + Size(b) <= Units
<1> SUFFICES ASSUME NEW b \in Buckets, NEW j \in 0 .. Pow2[b] - 1
             PROVE  j * Size(b) \in Nat /\ j * Size(b) + Size(b) <= Units
  BY DEF Starts
<1>1. j \in Nat /\ Pow2[b] \in Nat /\ j < Pow2[b] /\ Size(b) \in Nat
  BY Positive
<1>2. j * Size(b) + Size(b) <= Pow2[b] * Size(b)
  BY <1>1, ProductOrder
<1>3. j * Size(b) \in Nat
  BY <1>1
<1> QED
  BY <1>2, <1>3, BlocksFill

\* The nodes of a bucket are nodes of the tree; only the root is in bucket 0.
LEMMA LevelNodes ==
  \A b \in Buckets : \A i \in LevelOf(b) :
    /\ i \in Nodes /\ i \in Nat
    /\ i = 0 <=> b = 0
    /\ b # Smallest => i \in Internal
<1> SUFFICES ASSUME NEW b \in Buckets, NEW i \in LevelOf(b)
             PROVE  /\ i \in Nodes /\ i \in Nat
                    /\ i = 0 <=> b = 0
                    /\ b # Smallest => i \in Internal
  OBVIOUS
<1>1. Pow2[b] \in Nat \ {0} /\ i \in Pow2[b] - 1 .. 2 * Pow2[b] - 2
  BY Positive DEF LevelOf
<1>2. \A c \in Buckets : b <= c => Pow2[b] <= Pow2[c]
  BY PowOrder, Positive DEF Buckets
<1>3. Pow2[BUCKET_COUNT] = 2 * Pow2[Smallest]
  BY Halving, Positive DEF Smallest
<1>4. i \in Nodes /\ i \in Nat
  BY <1>1, <1>2, <1>3, Positive DEF Nodes, Buckets, Smallest
<1>5. b # Smallest => i \in Internal
  <2> SUFFICES ASSUME b # Smallest PROVE i \in Internal
    OBVIOUS
  <2>1. b + 1 \in Buckets /\ b + 1 <= Smallest /\ b \in 0 .. BUCKET_COUNT - 1
    BY Positive DEF Buckets, Smallest
  <2>2. Pow2[b + 1] = 2 * Pow2[b]
    BY <2>1, Halving
  <2>3. Pow2[b + 1] <= Pow2[Smallest]
    BY <2>1, PowOrder, Positive DEF Buckets, Smallest
  <2> QED
    BY <1>1, <2>2, <2>3, Positive DEF Internal
<1>6. i = 0 <=> b = 0
  <2>1. CASE b = 0
    BY <2>1, <1>1, Halving
  <2>2. CASE b # 0
    <3>1. b - 1 \in 0 .. BUCKET_COUNT - 1 /\ b - 1 \in Buckets /\ (b - 1) + 1 = b
      BY <2>2, Positive DEF Buckets
    <3>2. Pow2[(b - 1) + 1] = 2 * Pow2[b - 1]
      BY <3>1, Halving
    <3> QED
      BY <3>1, <3>2, <2>2, <1>1, Positive
  <2> QED
    BY <2>1, <2>2
<1> QED
  BY <1>4, <1>5, <1>6
\* The k-th node of a bucket is the k-th block.
LEMMA PtrOfNode ==
  \A b \in Buckets : \A i \in LevelOf(b) : ptr_for_node(i, b) \in Starts(b)
<1> SUFFICES ASSUME NEW b \in Buckets, NEW i \in LevelOf(b)
             PROVE  ptr_for_node(i, b) \in Starts(b)
  OBVIOUS
<1>1. i - Pow2[b] + 1 \in 0 .. Pow2[b] - 1
  BY Positive DEF LevelOf
<1> QED
  BY <1>1 DEF ptr_for_node, Starts

\* node_for_ptr undoes ptr_for_node.
LEMMA NodeOfPtr ==
  \A b \in Buckets : \A p \in Starts(b) :
    /\ node_for_ptr(p, b) \in LevelOf(b)
    /\ ptr_for_node(node_for_ptr(p, b), b) = p
<1> SUFFICES ASSUME NEW b \in Buckets, NEW j \in 0 .. Pow2[b] - 1
             PROVE  /\ node_for_ptr(j * Size(b), b) \in LevelOf(b)
                    /\ ptr_for_node(node_for_ptr(j * Size(b), b), b) = j * Size(b)
  BY DEF Starts
<1>1. j \in Nat /\ Pow2[b] \in Nat \ {0} /\ Size(b) \in Nat \ {0}
  BY Positive
<1>2. (j * Size(b)) \div Size(b) = j
  BY <1>1, ExactQuotient
<1>3. node_for_ptr(j * Size(b), b) = j + Pow2[b] - 1
  BY <1>2 DEF node_for_ptr
<1>4. (j + Pow2[b] - 1) - Pow2[b] + 1 = j
  BY <1>1
<1> QED
  BY <1>1, <1>3, <1>4 DEF LevelOf, ptr_for_node

\* The left child begins where its parent does, the right child half a block
\* further; both are in the next bucket.
LEMMA ChildrenOf ==
  \A b \in Buckets : \A i \in LevelOf(b) : b # Smallest =>
    /\ Left(i) \in LevelOf(b + 1) /\ Right(i) \in LevelOf(b + 1)
    /\ ptr_for_node(Left(i), b + 1) = ptr_for_node(i, b)
    /\ ptr_for_node(Right(i), b + 1) = ptr_for_node(i, b) + Size(b + 1)
<1> SUFFICES ASSUME NEW b \in Buckets, NEW i \in LevelOf(b), b # Smallest
             PROVE  /\ Left(i) \in LevelOf(b + 1) /\ Right(i) \in LevelOf(b + 1)
                    /\ ptr_for_node(Left(i), b + 1) = ptr_for_node(i, b)
                    /\ ptr_for_node(Right(i), b + 1) = ptr_for_node(i, b) + Size(b + 1)
  OBVIOUS
<1>1. Pow2[b + 1] = 2 * Pow2[b] /\ Size(b) = 2 * Size(b + 1)
  BY Halving DEF Buckets
<1>2. Pow2[b] \in Nat /\ Size(b + 1) \in Nat /\ b + 1 \in Buckets
  BY Positive, Halving
<1>3. PICK k \in 0 .. Pow2[b] - 1 : i = k + Pow2[b] - 1
  <2>1. i - Pow2[b] + 1 \in 0 .. Pow2[b] - 1 /\ i = (i - Pow2[b] + 1) + Pow2[b] - 1
    BY <1>2 DEF LevelOf
  <2> QED
    BY <2>1
<1>4. Left(i) - Pow2[b + 1] + 1 = 2 * k /\ Right(i) - Pow2[b + 1] + 1 = 2 * k + 1
      /\ i - Pow2[b] + 1 = k
  BY <1>1, <1>2, <1>3 DEF Left, Right
<1>5. (2 * k) * Size(b + 1) = k * (2 * Size(b + 1))
      /\ (2 * k + 1) * Size(b + 1) = k * (2 * Size(b + 1)) + Size(b + 1)
  BY <1>2
<1> QED
  BY <1>1, <1>2, <1>3, <1>4, <1>5 DEF Left, Right, LevelOf, ptr_for_node

\* Parent undoes Left and Right; a block begins in its parent, and its buddy is
\* the parent's other child.
LEMMA ParentOf ==
  \A b \in Buckets : \A i \in LevelOf(b) : b # 0 =>
    /\ b - 1 \in Buckets /\ Parent(i) \in LevelOf(b - 1) /\ Parent(i) \in Internal
    /\ ptr_for_node(Parent(i), b - 1) <= ptr_for_node(i, b)
    /\ Buddy(i) \in LevelOf(b)
    /\ {i, Buddy(i)} = {Left(Parent(i)), Right(Parent(i))}
<1> SUFFICES ASSUME NEW b \in Buckets, NEW i \in LevelOf(b), b # 0
             PROVE  /\ b - 1 \in Buckets /\ Parent(i) \in LevelOf(b - 1) /\ Parent(i) \in Internal
                    /\ ptr_for_node(Parent(i), b - 1) <= ptr_for_node(i, b)
                    /\ Buddy(i) \in LevelOf(b)
                    /\ {i, Buddy(i)} = {Left(Parent(i)), Right(Parent(i))}
  OBVIOUS
<1>1. b - 1 \in Buckets /\ b - 1 \in 0 .. BUCKET_COUNT - 1 /\ (b - 1) + 1 = b /\ b - 1 # Smallest
  BY Positive DEF Buckets, Smallest
<1>2. Pow2[b] = 2 * Pow2[b - 1] /\ Pow2[b - 1] \in Nat \ {0}
  <2>1. Pow2[(b - 1) + 1] = 2 * Pow2[b - 1]
    BY <1>1, Halving
  <2> QED
    BY <2>1, <1>1, Positive
<1>3. i \in Pow2[b] - 1 .. 2 * Pow2[b] - 2
  BY DEF LevelOf
<1>4. Parent(i) \in LevelOf(b - 1)
  BY <1>2, <1>3 DEF Parent, LevelOf
<1>5. \/ i = Left(Parent(i)) /\ Buddy(i) = Right(Parent(i))
      \/ i = Right(Parent(i)) /\ Buddy(i) = Left(Parent(i))
  BY <1>2, <1>3 DEF Parent, Left, Right, Buddy
<1>6. /\ Left(Parent(i)) \in LevelOf(b) /\ Right(Parent(i)) \in LevelOf(b)
      /\ ptr_for_node(Left(Parent(i)), b) = ptr_for_node(Parent(i), b - 1)
      /\ ptr_for_node(Right(Parent(i)), b) = ptr_for_node(Parent(i), b - 1) + Size(b)
  BY <1>1, <1>4, ChildrenOf
<1>7. ptr_for_node(Parent(i), b - 1) \in Nat /\ Size(b) \in Nat
  BY <1>1, <1>4, PtrOfNode, StartInHeap, Positive
<1> QED
  BY <1>1, <1>4, <1>5, <1>6, <1>7, LevelNodes

-----------------------------------------------------------------------------
LEMMA SeqOfMore == ASSUME NEW S, NEW T, S \subseteq T PROVE Seq(S) \subseteq Seq(T)
  OBVIOUS

\* Pushing, popping and unlinking keep a list a list of the same things.
LEMMA Lists ==
  ASSUME NEW S, NEW s \in Seq(S), NEW p
  PROVE  /\ p \in S => list_push(s, p) \in Seq(S)
         /\ list_remove(s, p) \in Seq(S)
         /\ s # <<>> => Front(s) \in Seq(S) /\ Last(s) \in S
<1>1. p \in S => list_push(s, p) \in Seq(S)
  BY DEF list_push
<1>2. list_remove(s, p) \in Seq(S)
  <2>1. CASE Contains(s, p)
    <3>1. PICK k \in DOMAIN s : k = (CHOOSE m \in DOMAIN s : s[m] = p)
      BY <2>1 DEF Contains
    <3>2. k \in 1 .. Len(s) /\ Len(s) \in Nat
      BY <3>1
    <3>3. SubSeq(s, 1, k - 1) \in Seq(S)
      BY <3>2, SubSeqProperties
    <3>4. SubSeq(s, k + 1, Len(s)) \in Seq(S)
      BY <3>2, SubSeqProperties
    <3> QED
      BY <2>1, <3>1, <3>3, <3>4 DEF list_remove, RemoveAt
  <2>2. CASE ~Contains(s, p)
    BY <2>2 DEF list_remove
  <2> QED
    BY <2>1, <2>2
<1>3. s # <<>> => Front(s) \in Seq(S) /\ Last(s) \in S
  BY DEF Front, Last
<1> QED
  BY <1>1, <1>2, <1>3

\* The members of a list when an entry is pushed, popped or unlinked.
LEMMA ListPush ==
  ASSUME NEW S, NEW s \in Seq(S), NEW p \in S, p \notin ToSet(s), IsInjective(s)
  PROVE  ToSet(list_push(s, p)) = ToSet(s) \union {p} /\ IsInjective(list_push(s, p))
<1> DEFINE t == Append(s, p)
<1>1. t \in Seq(S) /\ Len(t) = Len(s) + 1 /\ Len(s) \in Nat /\ t[Len(s) + 1] = p
      /\ \A i \in 1 .. Len(s) : t[i] = s[i]
  OBVIOUS
<1>2. DOMAIN t = 1 .. Len(s) + 1 /\ DOMAIN s = 1 .. Len(s)
  BY <1>1
<1> HIDE DEF t
<1>3. ToSet(t) = ToSet(s) \union {p}
  <2>1. ASSUME NEW i \in DOMAIN t PROVE t[i] \in ToSet(s) \union {p}
    BY <1>1, <1>2 DEF ToSet
  <2>2. ASSUME NEW i \in DOMAIN s PROVE s[i] \in ToSet(t)
    <3>1. i \in DOMAIN t /\ t[i] = s[i]
      BY <1>1, <1>2
    <3> QED
      BY <3>1 DEF ToSet
  <2>3. p \in ToSet(t)
    <3>1. Len(s) + 1 \in DOMAIN t
      BY <1>1, <1>2
    <3> QED
      BY <3>1, <1>1 DEF ToSet
  <2> QED
    BY <2>1, <2>2, <2>3 DEF ToSet
<1>4. IsInjective(t)
  <2> SUFFICES ASSUME NEW i \in DOMAIN t, NEW j \in DOMAIN t, t[i] = t[j] PROVE i = j
    BY DEF IsInjective
  <2>1. \A k \in DOMAIN s : s[k] # p
    BY DEF ToSet
  <2>2. CASE i \in DOMAIN s /\ j \in DOMAIN s
    BY <2>2, <1>1, <1>2 DEF IsInjective
  <2>3. CASE ~(i \in DOMAIN s /\ j \in DOMAIN s)
    BY <2>1, <2>3, <1>1, <1>2
  <2> QED
    BY <2>2, <2>3
<1> QED
  BY <1>3, <1>4 DEF t, list_push

LEMMA ListPop ==
  ASSUME NEW S, NEW s \in Seq(S), s # <<>>, IsInjective(s)
  PROVE  /\ Last(s) \in ToSet(s) /\ ToSet(Front(s)) = ToSet(s) \ {Last(s)} /\ IsInjective(Front(s))
         /\ list_push(Front(s), Last(s)) = s
<1> DEFINE t == Front(s)
           n == Len(s)
<1>1. n \in Nat \ {0} /\ DOMAIN s = 1 .. n /\ Last(s) = s[n]
  BY DEF Last
<1>2. t \in Seq(S) /\ Len(t) = n - 1 /\ DOMAIN t = 1 .. n - 1 /\ \A i \in 1 .. n - 1 : t[i] = s[i]
  BY <1>1 DEF Front
<1> HIDE DEF t, n
<1>3. Last(s) \in ToSet(s)
  BY <1>1 DEF ToSet
<1>4. ToSet(t) = ToSet(s) \ {Last(s)}
  <2>1. ASSUME NEW i \in DOMAIN t PROVE t[i] \in ToSet(s) \ {Last(s)}
    <3>1. i \in DOMAIN s /\ n \in DOMAIN s /\ i # n /\ t[i] = s[i]
      BY <1>1, <1>2
    <3> QED
      BY <3>1, <1>1 DEF ToSet, IsInjective
  <2>2. ASSUME NEW i \in DOMAIN s, s[i] # Last(s) PROVE s[i] \in ToSet(t)
    <3>1. i \in DOMAIN t /\ t[i] = s[i]
      BY <2>2, <1>1, <1>2
    <3> QED
      BY <3>1 DEF ToSet
  <2> QED
    BY <2>1, <2>2 DEF ToSet
<1>5. IsInjective(t)
  BY <1>1, <1>2 DEF IsInjective
<1>6. Append(t, Last(s)) = s
  <2>1. s[n] \in S
    BY <1>1
  <2>2. Append(t, s[n]) \in Seq(S) /\ Len(Append(t, s[n])) = n
        /\ \A i \in 1 .. n : Append(t, s[n])[i] = s[i]
    BY <1>1, <1>2, <2>1
  <2> QED
    BY <2>2, <1>1 DEF n
<1> QED
  BY <1>3, <1>4, <1>5, <1>6 DEF t, list_push

LEMMA ListRemove ==
  ASSUME NEW S, NEW s \in Seq(S), NEW p \in ToSet(s), IsInjective(s)
  PROVE  Contains(s, p) /\ ToSet(list_remove(s, p)) = ToSet(s) \ {p} /\ IsInjective(list_remove(s, p))
<1> DEFINE n == Len(s)
<1>1. n \in Nat /\ DOMAIN s = 1 .. n /\ Contains(s, p)
  BY DEF ToSet, Contains
<1>2. PICK k \in 1 .. n : s[k] = p /\ list_remove(s, p) = RemoveAt(s, k)
  <2>1. \E k \in DOMAIN s : s[k] = p
    BY DEF ToSet
  <2> QED
    BY <2>1, <1>1 DEF list_remove
<1> DEFINE t == RemoveAt(s, k)
<1>3. t \in Seq(S) /\ Len(t) = n - 1 /\ DOMAIN t = 1 .. n - 1
      /\ \A i \in 1 .. n - 1 : t[i] = IF i < k THEN s[i] ELSE s[i + 1]
  <2> DEFINE u == SubSeq(s, 1, k - 1)
             v == SubSeq(s, k + 1, n)
  <2>1. u \in Seq(S) /\ Len(u) = k - 1 /\ \A i \in 1 .. k - 1 : u[i] = s[i]
    BY <1>1, <1>2, SubSeqProperties
  <2>2. v \in Seq(S) /\ Len(v) = n - k /\ \A i \in 1 .. n - k : v[i] = s[i + k]
    <3>1. k + 1 \in 1 .. n + 1 /\ n \in k .. n /\ n - (k + 1) + 1 = n - k
          /\ \A i \in 1 .. n - k : (k + 1) + i - 1 = i + k
      BY <1>1, <1>2
    <3>2. v \in Seq(S) /\ Len(v) = n - k /\ \A i \in 1 .. n - k : v[i] = s[(k + 1) + i - 1]
      BY <3>1, <1>1, SubSeqProperties
    <3> QED
      BY <3>1, <3>2
  <2>3. t = u \o v
    BY DEF RemoveAt
  <2> HIDE DEF u, v, t
  <2>4. t \in Seq(S) /\ Len(t) = (k - 1) + (n - k)
        /\ \A i \in 1 .. (k - 1) + (n - k) : t[i] = IF i <= k - 1 THEN u[i] ELSE v[i - (k - 1)]
    <3>1. /\ u \o v \in Seq(S) /\ Len(u \o v) = Len(u) + Len(v)
          /\ \A i \in 1 .. Len(u) + Len(v) : (u \o v)[i] = IF i <= Len(u) THEN u[i] ELSE v[i - Len(u)]
      BY <2>1, <2>2, ConcatProperties, Zenon
    <3>2. Len(u) = k - 1 /\ Len(v) = n - k
      BY <2>1, <2>2
    <3> QED
      BY <3>1, <3>2, <2>3
  <2>5. ASSUME NEW i \in 1 .. n - 1 PROVE t[i] = IF i < k THEN s[i] ELSE s[i + 1]
    <3>1. CASE i < k
      BY <3>1, <2>1, <2>4, <1>1
    <3>2. CASE i >= k
      <4>1. i - (k - 1) \in 1 .. n - k /\ (i - (k - 1)) + k = i + 1 /\ i \in 1 .. (k - 1) + (n - k)
            /\ ~(i <= k - 1)
        BY <3>2, <1>1
      <4>2. t[i] = v[i - (k - 1)] /\ v[i - (k - 1)] = s[(i - (k - 1)) + k]
        BY <4>1, <2>2, <2>4
      <4> QED
        BY <3>2, <4>1, <4>2
    <3> QED
      BY <3>1, <3>2, <1>1
  <2> QED
    BY <2>4, <2>5, <1>1
<1> HIDE DEF t, n
<1>4. ToSet(t) = ToSet(s) \ {p}
  <2>1. ASSUME NEW i \in DOMAIN t PROVE t[i] \in ToSet(s) \ {p}
    <3>1. PICK j \in DOMAIN s : j # k /\ t[i] = s[j]
      <4>1. i \in DOMAIN s /\ i + 1 \in DOMAIN s
        BY <1>1, <1>3
      <4>2. CASE i < k
        BY <4>1, <4>2, <1>3
      <4>3. CASE ~(i < k)
        BY <4>1, <4>3, <1>3
      <4> QED
        BY <4>2, <4>3
    <3> QED
      BY <3>1, <1>1, <1>2 DEF ToSet, IsInjective
  <2>2. ASSUME NEW i \in DOMAIN s, s[i] # p PROVE s[i] \in ToSet(t)
    <3>1. PICK j \in DOMAIN t : t[j] = s[i]
      <4>1. CASE i < k
        <5>1. i \in 1 .. n - 1
          BY <4>1, <1>1, <1>2
        <5> QED
          BY <4>1, <5>1, <1>3
      <4>2. CASE i > k
        <5>1. i - 1 \in 1 .. n - 1 /\ ~(i - 1 < k) /\ (i - 1) + 1 = i
          BY <4>2, <1>1, <1>2
        <5>2. t[i - 1] = s[i]
          BY <5>1, <1>3
        <5> QED
          BY <5>1, <5>2, <1>3
      <4> QED
        BY <2>2, <4>1, <4>2, <1>1, <1>2
    <3> QED
      BY <3>1 DEF ToSet
  <2> QED
    BY <2>1, <2>2 DEF ToSet
<1>5. IsInjective(t)
  <2> SUFFICES ASSUME NEW i \in DOMAIN t, NEW j \in DOMAIN t, t[i] = t[j] PROVE i = j
    BY DEF IsInjective
  <2> DEFINE at(m) == IF m < k THEN m ELSE m + 1
  <2>1. \A m \in DOMAIN t : at(m) \in DOMAIN s /\ t[m] = s[at(m)] /\ m \in Nat
    BY <1>1, <1>2, <1>3
  <2>2. at(i) = at(j)
    <3> HIDE DEF at
    <3> QED
      BY <2>1 DEF IsInjective
  <2> QED
    BY <2>1, <2>2, <1>2
<1> QED
  BY <1>1, <1>2, <1>4, <1>5 DEF t

-----------------------------------------------------------------------------
\* The order of the natural numbers is well founded: every set of them has a
\* least member, and a bounded one a greatest.
LEMMA HasLeast == ASSUME NEW T, T \subseteq Nat, T # {} PROVE \E m \in T : \A n \in T : m <= n
<1>1. IsWellFoundedOn(OpToRel(<, Nat), Nat)
  BY NatLessThanWellFounded
<1>2. PICK m \in T : \A n \in T : ~ (<<n, m>> \in OpToRel(<, Nat))
  BY <1>1, WFMin
<1>3. \A n \in T : ~ (n < m)
  BY <1>2 DEF OpToRel
<1>4. m \in Nat /\ \A n \in T : n \in Nat
  BY <1>2
<1>5. \A n \in T : m <= n
  BY <1>3, <1>4
<1> QED
  BY <1>5

LEMMA HasGreatest ==
  ASSUME NEW n \in Nat, NEW T, T \subseteq 0 .. n, T # {}
  PROVE  \E m \in T : \A k \in T : k <= m
<1> DEFINE D == {d \in 0 .. n : n - d \in T}
<1>1. D \subseteq Nat /\ D # {}
  <2>1. PICK k \in T : TRUE
    OBVIOUS
  <2>2. n - k \in 0 .. n /\ n - (n - k) = k
    BY <2>1
  <2>3. n - k \in D
    BY <2>2
  <2>4. D \subseteq 0 .. n
    OBVIOUS
  <2>5. D \subseteq Nat
    BY <2>4
  <2> HIDE DEF D
  <2> QED
    BY <2>3, <2>5
<1>2. PICK z \in D : \A d \in D : z <= d
  BY <1>1, HasLeast
<1>3. n - z \in T
  OBVIOUS
<1>4. ASSUME NEW k \in T PROVE k <= n - z
  <2>1. k \in 0 .. n /\ n - k \in 0 .. n /\ n - (n - k) = k
    OBVIOUS
  <2>2. n - k \in D
    BY <2>1
  <2> QED
    BY <1>2, <2>1, <2>2
<1> QED
  BY <1>3, <1>4

-----------------------------------------------------------------------------
AllBlocks == {x \in (0 .. Units - 1) \X Buckets : x[1] \in Starts(x[2])}
At(x)      == Span(x[1], x[2])
LeftOf(x)  == <<x[1], x[2] + 1>>
RightOf(x) == <<x[1] + Size(x[2] + 1), x[2] + 1>>

LEMMA BlockFacts ==
  \A x \in AllBlocks :
    /\ x = <<x[1], x[2]>> /\ x[2] \in Buckets /\ x[1] \in Starts(x[2])
    /\ x[1] \in Nat /\ x[2] \in Nat /\ x[2] <= Smallest /\ Size(x[2]) \in Nat \ {0}
    /\ x[1] + Size(x[2]) <= Units
    /\ \A u : u \in At(x) <=> u \in Int /\ x[1] <= u /\ u < x[1] + Size(x[2])
    /\ x[1] \in At(x)
<1> SUFFICES ASSUME NEW x \in AllBlocks
             PROVE  /\ x = <<x[1], x[2]>> /\ x[2] \in Buckets /\ x[1] \in Starts(x[2])
                    /\ x[1] \in Nat /\ x[2] \in Nat /\ x[2] <= Smallest /\ Size(x[2]) \in Nat \ {0}
                    /\ x[1] + Size(x[2]) <= Units
                    /\ \A u : u \in At(x) <=> u \in Int /\ x[1] <= u /\ u < x[1] + Size(x[2])
                    /\ x[1] \in At(x)
  OBVIOUS
<1>1. x = <<x[1], x[2]>> /\ x[2] \in Buckets /\ x[1] \in Starts(x[2])
  BY DEF AllBlocks
<1>2. x[1] \in Nat /\ x[1] + Size(x[2]) <= Units /\ x[2] \in Nat /\ Size(x[2]) \in Nat \ {0}
      /\ x[2] <= Smallest
  BY <1>1, StartInHeap, Positive DEF Buckets, Smallest
<1>3. \A u : u \in At(x) <=> u \in Int /\ x[1] <= u /\ u < x[1] + Size(x[2])
  BY <1>2 DEF At, Span
<1> QED
  BY <1>1, <1>2, <1>3

\* An address where a block may begin makes a block.
LEMMA MakeBlock ==
  ASSUME NEW b \in Buckets, NEW p \in Starts(b)
  PROVE  <<p, b>> \in AllBlocks
<1>1. p \in Nat /\ p + Size(b) <= Units /\ Size(b) \in Nat \ {0} /\ Units \in Nat
  BY StartInHeap, Positive
<1> QED
  BY <1>1 DEF AllBlocks

\* A larger size is a multiple of a smaller one.
LEMMA SizeDivides ==
  ASSUME NEW b \in Buckets, NEW c \in Buckets, b <= c
  PROVE  \E m \in Nat \ {0} : Size(b) = m * Size(c)
<1>1. c - b \in 0 .. BUCKET_COUNT /\ Smallest - c \in 0 .. BUCKET_COUNT
      /\ (c - b) + (Smallest - c) = Smallest - b /\ Smallest - b <= BUCKET_COUNT
  BY Positive DEF Buckets, Smallest
<1>2. Pow2[(c - b) + (Smallest - c)] = Pow2[c - b] * Pow2[Smallest - c]
  BY <1>1, BuddyTreeAssumption
<1>3. Pow2[c - b] \in Nat \ {0}
  BY <1>1, BuddyTreeAssumption
<1> QED
  BY <1>1, <1>2, <1>3 DEF Size

\* Of two blocks that share a unit the smaller lies in the larger.
LEMMA Geometry ==
  ASSUME NEW x \in AllBlocks, NEW y \in AllBlocks, x[2] >= y[2],
         NEW u, u \in At(x), u \in At(y)
  PROVE  /\ x[1] \in At(y) /\ At(x) \subseteq At(y)
         /\ x[2] = y[2] => x = y
<1> DEFINE s == Size(x[2])
<1>1. PICK k \in 0 .. Pow2[x[2]] - 1 : x[1] = k * s
  BY BlockFacts DEF Starts
<1>2. PICK j \in 0 .. Pow2[y[2]] - 1 : y[1] = j * Size(y[2])
  BY BlockFacts DEF Starts
<1>3. PICK m \in Nat \ {0} : Size(y[2]) = m * s /\ (x[2] = y[2] => m = 1)
  <2>1. CASE x[2] = y[2]
    <3>1. 1 \in Nat \ {0} /\ Size(y[2]) = 1 * s
      BY <2>1, BlockFacts
    <3> QED
      BY <3>1
  <2>2. CASE x[2] # y[2]
    BY <2>2, SizeDivides, BlockFacts
  <2> QED
    BY <2>1, <2>2
<1>4. k \in Nat /\ j \in Nat /\ s \in Nat \ {0}
  BY Positive, BlockFacts
<1>5. j * m \in Nat /\ j * m + m \in Nat /\ y[1] = (j * m) * s
      /\ (j * m) * s + m * s = (j * m + m) * s
  BY <1>2, <1>3, <1>4
<1>6. u \in Int /\ x[1] <= u /\ u < x[1] + s /\ y[1] <= u /\ u < y[1] + m * s
  BY <1>3, BlockFacts
<1>7. j * m <= k
  <2> SUFFICES ASSUME k < j * m PROVE FALSE
    BY <1>4, <1>5
  <2>1. k * s + s <= (j * m) * s
    BY <1>4, <1>5, ProductOrder
  <2> QED
    BY <2>1, <1>1, <1>5, <1>6, BlockFacts
<1>8. k < j * m + m
  <2> SUFFICES ASSUME j * m + m <= k PROVE FALSE
    BY <1>4, <1>5
  <2>1. s * (j * m + m) <= s * k
    BY <1>4, <1>5, ProductMonotone
  <2>2. (j * m + m) * s = s * (j * m + m) /\ k * s = s * k
    BY <1>4, <1>5
  <2>3. (j * m + m) * s <= k * s
    BY <2>1, <2>2
  <2> QED
    BY <2>3, <1>1, <1>5, <1>6, BlockFacts
<1>9. y[1] <= x[1]
  <2>1. s * (j * m) <= s * k
    BY <1>4, <1>5, <1>7, ProductMonotone
  <2>2. (j * m) * s = s * (j * m) /\ k * s = s * k
    BY <1>4, <1>5
  <2> QED
    BY <2>1, <2>2, <1>1, <1>5
<1>10. x[1] + s <= y[1] + m * s
  <2>1. k * s + s <= (j * m + m) * s
    BY <1>4, <1>5, <1>8, ProductOrder
  <2> QED
    BY <2>1, <1>1, <1>5
<1>11. m * s = Size(y[2]) /\ x[1] \in Nat /\ y[1] \in Nat
  BY <1>3, BlockFacts
<1>12. x[1] \in At(y) /\ At(x) \subseteq At(y)
  BY <1>4, <1>9, <1>10, <1>11, BlockFacts
<1>13. ASSUME x[2] = y[2] PROVE x = y
  <2>1. m * s = s
    BY <1>3, <1>4, <1>13
  <2>2. x[1] = y[1]
    BY <2>1, <1>4, <1>9, <1>10, <1>11
  <2> QED
    BY <2>2, <1>13, BlockFacts
<1> QED
  BY <1>12, <1>13

\* A block that is not smallest is the disjoint union of its halves.
LEMMA Halves ==
  ASSUME NEW z \in AllBlocks, z[2] # Smallest
  PROVE  /\ LeftOf(z) \in AllBlocks /\ RightOf(z) \in AllBlocks /\ LeftOf(z) # RightOf(z)
         /\ \A u : u \in At(z) <=> u \in At(LeftOf(z)) \/ u \in At(RightOf(z))
         /\ \A u : ~(u \in At(LeftOf(z)) /\ u \in At(RightOf(z)))
<1> DEFINE b == z[2]
           s == Size(b + 1)
<1>1. b \in Buckets /\ b + 1 \in Buckets /\ Size(b) = 2 * s /\ s \in Nat \ {0}
      /\ Pow2[b + 1] = 2 * Pow2[b] /\ Pow2[b] \in Nat \ {0} /\ z[1] \in Nat
  BY BlockFacts, Halving, Positive DEF Buckets
<1>2. PICK j \in 0 .. Pow2[b] - 1 : z[1] = j * Size(b)
  BY BlockFacts DEF Starts
<1>3. j \in Nat /\ 2 * j \in 0 .. Pow2[b + 1] - 1 /\ 2 * j + 1 \in 0 .. Pow2[b + 1] - 1
  BY <1>1
<1>4. z[1] = (2 * j) * s /\ z[1] + s = (2 * j + 1) * s
  BY <1>1, <1>2, <1>3
<1>5. z[1] \in Starts(b + 1) /\ z[1] + s \in Starts(b + 1)
  BY <1>3, <1>4 DEF Starts
<1>6. LeftOf(z) \in AllBlocks /\ RightOf(z) \in AllBlocks
  BY <1>1, <1>5, MakeBlock DEF LeftOf, RightOf
<1>7. /\ \A u : u \in At(LeftOf(z)) <=> u \in Int /\ z[1] <= u /\ u < z[1] + s
      /\ \A u : u \in At(RightOf(z)) <=> u \in Int /\ z[1] + s <= u /\ u < z[1] + s + s
  BY <1>1, <1>6, BlockFacts DEF LeftOf, RightOf
<1>8. \A u : u \in At(z) <=> u \in Int /\ z[1] <= u /\ u < z[1] + 2 * s
  BY <1>1, BlockFacts
<1>9. LeftOf(z) # RightOf(z)
  BY <1>1 DEF LeftOf, RightOf
<1> QED
  BY <1>1, <1>6, <1>7, <1>8, <1>9

\* Seen from a block at least as large as z, a half of z lies where z does.
LEMMA HalfWithin ==
  ASSUME NEW z \in AllBlocks, z[2] # Smallest, NEW x \in {LeftOf(z), RightOf(z)},
         NEW y \in AllBlocks, y[2] <= z[2]
  PROVE  x[1] \in At(y) <=> z[1] \in At(y)
<1>1. x \in AllBlocks /\ x[1] \in At(x) /\ x[1] \in At(z) /\ z[1] \in At(z)
  BY Halves, BlockFacts
<1>2. ASSUME x[1] \in At(y) PROVE z[1] \in At(y)
  BY <1>1, <1>2, Geometry, BlockFacts
<1>3. ASSUME z[1] \in At(y) PROVE x[1] \in At(y)
  <2>1. At(z) \subseteq At(y)
    BY <1>1, <1>3, Geometry, BlockFacts
  <2> QED
    BY <2>1, <1>1
<1> QED
  BY <1>2, <1>3

-----------------------------------------------------------------------------
\* Every unit below n is in exactly one block of B, and no other unit is in any.
Tiling(B, n) ==
    /\ B \subseteq AllBlocks
    /\ \A x, y \in B : \A u : u \in At(x) /\ u \in At(y) => x = y
    /\ \A u : (\E x \in B : u \in At(x)) <=> u \in 0 .. n - 1

LEMMA TileSplit ==
  ASSUME NEW B, NEW n, Tiling(B, n), NEW z \in B, z[2] # Smallest
  PROVE  /\ Tiling((B \ {z}) \union {LeftOf(z), RightOf(z)}, n)
         /\ LeftOf(z) \notin B /\ RightOf(z) \notin B
<1> DEFINE L == LeftOf(z)
           R == RightOf(z)
           C == (B \ {z}) \union {L, R}
<1>1. z \in AllBlocks /\ L \in AllBlocks /\ R \in AllBlocks /\ L # R
      /\ (\A u : u \in At(z) <=> u \in At(L) \/ u \in At(R))
      /\ (\A u : ~(u \in At(L) /\ u \in At(R)))
  BY Halves DEF Tiling
<1>2. L[1] \in At(L) /\ R[1] \in At(R) /\ z[2] \in Nat /\ L[2] = z[2] + 1 /\ R[2] = z[2] + 1
  BY <1>1, BlockFacts DEF LeftOf, RightOf
<1>3. L # z /\ R # z
  BY <1>2
<1>4. L \notin B /\ R \notin B
  BY <1>1, <1>2, <1>3 DEF Tiling
<1>5. C \subseteq AllBlocks
  BY <1>1 DEF Tiling
<1>6. \A x, y \in C : \A u : u \in At(x) /\ u \in At(y) => x = y
  <2> SUFFICES ASSUME NEW x \in C, NEW y \in C, NEW u, u \in At(x), u \in At(y) PROVE x = y
    OBVIOUS
  <2>1. \A w \in B \ {z} : u \in At(w) => ~(u \in At(L)) /\ ~(u \in At(R))
    BY <1>1 DEF Tiling
  <2> QED
    BY <2>1, <1>1 DEF Tiling
<1>7. \A u : (\E x \in C : u \in At(x)) <=> u \in 0 .. n - 1
  <2> SUFFICES ASSUME NEW u PROVE (\E x \in C : u \in At(x)) <=> (\E x \in B : u \in At(x))
    BY DEF Tiling
  <2>1. ASSUME NEW x \in C, u \in At(x) PROVE \E y \in B : u \in At(y)
    BY <2>1, <1>1
  <2>2. ASSUME NEW x \in B, u \in At(x) PROVE \E y \in C : u \in At(y)
    BY <2>2, <1>1
  <2> QED
    BY <2>1, <2>2
<1>8. Tiling(C, n)
  BY <1>5, <1>6, <1>7 DEF Tiling
<1> QED
  BY <1>4, <1>8

LEMMA TileMerge ==
  ASSUME NEW B, NEW n, Tiling(B, n), NEW z \in AllBlocks, z[2] # Smallest,
         LeftOf(z) \in B, RightOf(z) \in B
  PROVE  Tiling((B \ {LeftOf(z), RightOf(z)}) \union {z}, n) /\ z \notin B
<1> DEFINE L == LeftOf(z)
           R == RightOf(z)
           C == (B \ {L, R}) \union {z}
<1>1. L # R
      /\ (\A u : u \in At(z) <=> u \in At(L) \/ u \in At(R))
      /\ (\A u : ~(u \in At(L) /\ u \in At(R)))
  BY Halves
<1>2. L[1] \in At(L) /\ z[2] \in Nat /\ L[2] = z[2] + 1
  BY BlockFacts DEF LeftOf, Tiling
<1>3. L # z
  BY <1>2
<1>4. z \notin B
  BY <1>1, <1>2, <1>3 DEF Tiling
<1>5. C \subseteq AllBlocks
  BY DEF Tiling
<1>6. \A x, y \in C : \A u : u \in At(x) /\ u \in At(y) => x = y
  <2> SUFFICES ASSUME NEW x \in C, NEW y \in C, NEW u, u \in At(x), u \in At(y) PROVE x = y
    OBVIOUS
  <2>1. \A w \in B \ {L, R} : u \in At(w) => ~(u \in At(L)) /\ ~(u \in At(R))
    BY DEF Tiling
  <2>2. \A w \in B \ {L, R} : u \in At(w) => ~(u \in At(z))
    BY <2>1, <1>1
  <2> QED
    BY <2>2 DEF Tiling
<1>7. \A u : (\E x \in C : u \in At(x)) <=> u \in 0 .. n - 1
  <2> SUFFICES ASSUME NEW u PROVE (\E x \in C : u \in At(x)) <=> (\E x \in B : u \in At(x))
    BY DEF Tiling
  <2>1. ASSUME NEW x \in C, u \in At(x) PROVE \E y \in B : u \in At(y)
    BY <2>1, <1>1
  <2>2. ASSUME NEW x \in B, u \in At(x) PROVE \E y \in C : u \in At(y)
    BY <2>2, <1>1
  <2> QED
    BY <2>1, <2>2
<1>8. Tiling(C, n)
  BY <1>5, <1>6, <1>7 DEF Tiling
<1> QED
  BY <1>4, <1>8

-----------------------------------------------------------------------------
\* With U the blocks that are in use as a whole: a block is used when it is one of
\* them or when it was split.
Used(B, U, x) == \E a \in B : a[1] \in At(x) /\ (a[2] > x[2] \/ (a = x /\ a \in U))

\* A block of a tiling is used as U says.
LEMMA UsedOfBlock ==
  ASSUME NEW B, NEW U, NEW n, Tiling(B, n), NEW x \in B
  PROVE  Used(B, U, x) <=> x \in U
<1>1. x \in AllBlocks /\ x[1] \in At(x)
  BY BlockFacts DEF Tiling
<1>2. ASSUME NEW a \in B, a[1] \in At(x) PROVE a = x
  BY <1>2, BlockFacts DEF Tiling
<1>3. ~(x[2] > x[2])
  BY <1>1, BlockFacts
<1> QED
  BY <1>1, <1>2, <1>3 DEF Used

\* One block more in use, in the same tiling.
LEMMA UsedToggle ==
  ASSUME NEW B, NEW n, Tiling(B, n), NEW x \in B, NEW U, x \notin U
  PROVE  /\ ~Used(B, U, x) /\ Used(B, U \union {x}, x)
         /\ \A w : w # x => (Used(B, U, w) <=> Used(B, U \union {x}, w))
<1>1. ~Used(B, U, x) /\ Used(B, U \union {x}, x)
  BY UsedOfBlock
<1> QED
  BY <1>1 DEF Used

\* Splitting z, which is in use, into x, which stays so, and y, which does not: x
\* becomes used and nothing else changes.  Read backwards, merging does the opposite.
LEMMA UsedHalves ==
  ASSUME NEW B, NEW n, Tiling(B, n), NEW z \in B, z[2] # Smallest,
         NEW x \in {LeftOf(z), RightOf(z)}, NEW y \in {LeftOf(z), RightOf(z)}, x # y,
         NEW U, z \in U, NEW V, x \in V, y \notin V,
         \A w \in B \ {z} : w \in V <=> w \in U, NEW C, C = (B \ {z}) \union {x, y}
  PROVE  /\ ~Used(B, U, x) /\ Used(C, V, x)
         /\ \A w \in AllBlocks : w # x => (Used(B, U, w) <=> Used(C, V, w))
<1>1. /\ z \in AllBlocks /\ x \in AllBlocks /\ y \in AllBlocks /\ x \notin B /\ y \notin B
      /\ z[2] \in Nat /\ x[2] = z[2] + 1 /\ y[2] = z[2] + 1
      /\ At(x) \subseteq At(z) /\ x[1] \in At(x)
  <2>1. z \in AllBlocks
    BY DEF Tiling
  <2>2. x \in AllBlocks /\ y \in AllBlocks /\ At(x) \subseteq At(z)
    BY <2>1, Halves
  <2>3. x \notin B /\ y \notin B
    BY TileSplit
  <2>4. x[2] = z[2] + 1 /\ y[2] = z[2] + 1
    BY DEF LeftOf, RightOf
  <2> QED
    BY <2>1, <2>2, <2>3, <2>4, BlockFacts
<1>2. ~Used(B, U, x)
  <2> SUFFICES ASSUME NEW a \in B, a[1] \in At(x), a[2] > x[2] \/ (a = x /\ a \in U)
               PROVE  FALSE
    BY DEF Used
  <2>1. a[1] \in At(a) /\ a[1] \in At(z)
    BY <1>1, BlockFacts DEF Tiling
  <2>2. a = z
    BY <2>1 DEF Tiling
  <2> QED
    BY <2>2, <1>1
<1>3. Used(C, V, x)
  BY <1>1 DEF Used
<1>4. ASSUME NEW w \in AllBlocks, w # x, Used(B, U, w) PROVE Used(C, V, w)
  <2>1. PICK a \in B : a[1] \in At(w) /\ (a[2] > w[2] \/ (a = w /\ a \in U))
    BY <1>4 DEF Used
  <2>2. CASE a # z
    <3>1. a \in C /\ (a \in V <=> a \in U)
      BY <2>2
    <3> QED
      BY <2>1, <3>1 DEF Used
  <2>3. CASE a = z
    <3>1. w[2] <= z[2] /\ w[2] \in Nat
      BY <2>1, <2>3, <1>1, BlockFacts
    <3>2. x[1] \in At(w) /\ x[2] > w[2]
      BY <3>1, <2>1, <2>3, <1>1, HalfWithin
    <3> QED
      BY <3>2 DEF Used
  <2> QED
    BY <2>2, <2>3
<1>5. ASSUME NEW w \in AllBlocks, w # x, Used(C, V, w) PROVE Used(B, U, w)
  <2>1. PICK a \in C : a[1] \in At(w) /\ (a[2] > w[2] \/ (a = w /\ a \in V))
    BY <1>5 DEF Used
  <2>2. CASE a \in B \ {z}
    BY <2>1, <2>2 DEF Used
  <2>3. CASE a = x \/ a = y
    <3>1. a[2] > w[2] /\ a \in {LeftOf(z), RightOf(z)}
      BY <2>1, <2>3, <1>5
    <3>2. w[2] <= z[2] /\ w[2] \in Nat
      BY <3>1, <2>3, <1>1, BlockFacts
    <3>3. z[1] \in At(w)
      BY <3>1, <3>2, <2>1, <1>1, HalfWithin
    <3>4. w[2] = z[2] => z = w
      BY <3>3, <1>1, Geometry, BlockFacts
    <3> QED
      BY <3>2, <3>3, <3>4, <1>1 DEF Used
  <2> QED
    BY <2>1, <2>2, <2>3
<1> QED
  BY <1>2, <1>3, <1>4, <1>5

-----------------------------------------------------------------------------
\* Blocks and nodes correspond one to one.
NodeOf(x) == node_for_ptr(x[1], x[2])
Twin(x)   == <<ptr_for_node(Buddy(NodeOf(x)), x[2]), x[2]>>

LEMMA NodeOfBlock ==
  ASSUME NEW x \in AllBlocks
  PROVE  NodeOf(x) \in LevelOf(x[2]) /\ ptr_for_node(NodeOf(x), x[2]) = x[1]
  BY NodeOfPtr, BlockFacts DEF NodeOf

LEMMA BlockOfNode ==
  ASSUME NEW b \in Buckets, NEW i \in LevelOf(b)
  PROVE  /\ <<ptr_for_node(i, b), b>> \in AllBlocks
         /\ NodeOf(<<ptr_for_node(i, b), b>>) = i
<1> DEFINE p == ptr_for_node(i, b)
           j == node_for_ptr(p, b)
<1>1. p \in Starts(b)
  BY PtrOfNode
<1>2. j \in LevelOf(b) /\ ptr_for_node(j, b) = p
  BY <1>1, NodeOfPtr
<1>3. i \in Int /\ j \in Int /\ Pow2[b] \in Int /\ Size(b) \in Nat \ {0}
  BY <1>2, Positive DEF LevelOf
<1>4. (j - Pow2[b] + 1) * Size(b) = (i - Pow2[b] + 1) * Size(b)
  BY <1>2 DEF ptr_for_node
<1>5. j = i
  <2>1. i - Pow2[b] + 1 \in Nat /\ j - Pow2[b] + 1 \in Nat
    BY <1>2, Positive DEF LevelOf
  <2>2. i - Pow2[b] + 1 = j - Pow2[b] + 1
    BY <2>1, <1>3, <1>4, ExactQuotient
  <2> QED
    BY <2>2, <1>3
<1> QED
  BY <1>1, <1>5, MakeBlock DEF NodeOf

LEMMA LevelsApart ==
  ASSUME NEW b \in Buckets, NEW c \in Buckets, NEW i \in LevelOf(b), i \in LevelOf(c)
  PROVE  b = c
<1>1. ASSUME NEW d \in Buckets, NEW e \in Buckets, d < e PROVE 2 * Pow2[d] <= Pow2[e]
  <2>1. d \in 0 .. BUCKET_COUNT - 1 /\ d + 1 \in 0 .. BUCKET_COUNT /\ e \in 0 .. BUCKET_COUNT
        /\ d + 1 <= e
    BY <1>1, Positive DEF Buckets
  <2> QED
    BY <2>1, Halving, PowOrder
<1>2. b \in Int /\ c \in Int /\ Pow2[b] \in Nat \ {0} /\ Pow2[c] \in Nat \ {0}
      /\ i \in Pow2[b] - 1 .. 2 * Pow2[b] - 2 /\ i \in Pow2[c] - 1 .. 2 * Pow2[c] - 2
  BY Positive DEF LevelOf
<1>3. ~(b < c) /\ ~(c < b)
  BY <1>1, <1>2
<1> QED
  BY <1>2, <1>3

LEMMA NodesDiffer ==
  ASSUME NEW x \in AllBlocks, NEW y \in AllBlocks, NodeOf(x) = NodeOf(y)
  PROVE  x = y
<1>1. x[2] = y[2]
  BY NodeOfBlock, LevelsApart, BlockFacts
<1> QED
  BY <1>1, NodeOfBlock, BlockFacts

\* The block a block is a half of, its node and its other half.
LEMMA UpOf ==
  ASSUME NEW x \in AllBlocks, x[2] # 0
  PROVE  \E z \in AllBlocks :
           /\ z[2] = x[2] - 1 /\ z[2] # Smallest /\ NodeOf(z) = Parent(NodeOf(x))
           /\ x # Twin(x)
           /\ {x, Twin(x)} = {LeftOf(z), RightOf(z)}
<1> DEFINE i == NodeOf(x)
           b == x[2]
           z == <<ptr_for_node(Parent(i), b - 1), b - 1>>
<1>1. i \in LevelOf(b) /\ ptr_for_node(i, b) = x[1] /\ b \in Buckets /\ b \in Nat
      /\ x = <<x[1], b>>
  BY NodeOfBlock, BlockFacts
<1>2. /\ b - 1 \in Buckets /\ Parent(i) \in LevelOf(b - 1) /\ Buddy(i) \in LevelOf(b)
      /\ {i, Buddy(i)} = {Left(Parent(i)), Right(Parent(i))}
  BY <1>1, ParentOf
<1>3. b - 1 # Smallest /\ (b - 1) + 1 = b
  BY <1>1 DEF Buckets, Smallest
<1>4. z \in AllBlocks /\ NodeOf(z) = Parent(i)
  BY <1>2, BlockOfNode
<1>5. /\ ptr_for_node(Left(Parent(i)), b) = z[1]
      /\ ptr_for_node(Right(Parent(i)), b) = z[1] + Size(b)
  BY <1>2, <1>3, ChildrenOf
<1>6. LeftOf(z) = <<z[1], b>> /\ RightOf(z) = <<z[1] + Size(b), b>> /\ z[2] = b - 1
  BY <1>3 DEF LeftOf, RightOf
<1>7. Twin(x) = <<ptr_for_node(Buddy(i), b), b>>
  BY DEF Twin
<1>8. \/ i = Left(Parent(i)) /\ Buddy(i) = Right(Parent(i))
      \/ i = Right(Parent(i)) /\ Buddy(i) = Left(Parent(i))
  <2>1. Left(Parent(i)) # Right(Parent(i))
    BY <1>2, LevelNodes DEF Left, Right
  <2> QED
    BY <2>1, <1>2
<1>9. \/ x = LeftOf(z) /\ Twin(x) = RightOf(z)
      \/ x = RightOf(z) /\ Twin(x) = LeftOf(z)
  BY <1>1, <1>5, <1>6, <1>7, <1>8
<1>10. LeftOf(z) # RightOf(z)
  BY <1>3, <1>4, <1>6, Halves
<1> QED
  BY <1>3, <1>4, <1>6, <1>9, <1>10

-----------------------------------------------------------------------------
\* The pool is the leftmost block of bucket l.
Root(l) == <<0, l>>

LEMMA RootBlock ==
  ASSUME NEW l \in Buckets
  PROVE  /\ Root(l) \in AllBlocks /\ Root(l)[1] = 0 /\ Root(l)[2] = l
         /\ \A u : u \in At(Root(l)) <=> u \in 0 .. Size(l) - 1
<1>1. 0 = 0 * Size(l) /\ 0 \in 0 .. Pow2[l] - 1 /\ Size(l) \in Nat \ {0}
  BY Positive
<1>2. Root(l) \in AllBlocks
  BY <1>1, MakeBlock DEF Starts, Root
<1> QED
  BY <1>1, <1>2 DEF Root, At, Span

LEMMA RootTiles == ASSUME NEW l \in Buckets PROVE Tiling({Root(l)}, Size(l))
  BY RootBlock DEF Tiling

\* The blocks of a pool are no larger than the pool.
LEMMA PoolBlocks ==
  ASSUME NEW l \in Buckets, NEW B, Tiling(B, Size(l)), NEW x \in B
  PROVE  /\ x \in AllBlocks /\ x[2] >= l /\ x[1] \in At(Root(l)) /\ At(x) \subseteq At(Root(l))
         /\ x[2] = l => x = Root(l) /\ B = {x}
<1>1. x \in AllBlocks /\ \A u \in At(x) : u \in 0 .. Size(l) - 1
  BY DEF Tiling
<1>2. x[1] \in At(x) /\ x[1] \in At(Root(l)) /\ l \in Nat
  BY <1>1, BlockFacts, RootBlock, Positive
<1>3. x[2] >= l
  <2> SUFFICES ASSUME x[2] < l PROVE FALSE
    BY <1>1, <1>2, BlockFacts
  <2>1. x[2] \in Buckets /\ x[2] # Smallest /\ x[2] + 1 \in Buckets /\ x[2] + 1 <= l
    BY <1>1, <1>2, BlockFacts, Positive DEF Buckets, Smallest
  <2>2. Size(x[2]) = 2 * Size(x[2] + 1) /\ Size(l) <= Size(x[2] + 1)
        /\ Size(l) \in Nat \ {0} /\ Size(x[2] + 1) \in Nat \ {0} /\ Size(x[2]) \in Nat \ {0}
    BY <2>1, Halving, SizeOrder, Positive
  <2>3. x[1] + Size(x[2]) - 1 \in At(x)
    BY <1>1, BlockFacts
  <2>4. x[1] + Size(x[2]) - 1 <= Size(l) - 1
    BY <1>1, <2>3
  <2> QED
    BY <2>2, <2>4, <1>1, BlockFacts
<1>4. At(x) \subseteq At(Root(l)) /\ (x[2] = l => x = Root(l))
  BY <1>1, <1>2, <1>3, Geometry, RootBlock
<1>5. ASSUME x[2] = l PROVE B = {x}
  <2>1. ASSUME NEW w \in B PROVE w = x
    <3>1. w[1] \in At(w) /\ w[1] \in At(x)
      BY <1>4, <1>5, BlockFacts, RootBlock DEF Tiling
    <3> QED
      BY <3>1 DEF Tiling
  <2> QED
    BY <2>1
<1> QED
  BY <1>1, <1>2, <1>3, <1>4, <1>5

\* A pool that is not used is one block.
LEMMA UnusedPool ==
  ASSUME NEW l \in Buckets, NEW B, NEW U, Tiling(B, Size(l)), ~Used(B, U, Root(l))
  PROVE  B = {Root(l)} /\ Root(l) \notin U
<1>1. 0 \in 0 .. Size(l) - 1
  BY Positive
<1>2. PICK a \in B : 0 \in At(a)
  BY <1>1 DEF Tiling
<1>3. a[2] >= l /\ a[1] \in At(Root(l)) /\ a[2] \in Nat /\ l \in Nat
  BY PoolBlocks, BlockFacts, Positive
<1>4. ~(a[2] > l)
  BY <1>3, RootBlock DEF Used
<1>5. a = Root(l) /\ B = {a}
  BY <1>3, <1>4, PoolBlocks
<1> QED
  BY <1>5, UsedOfBlock

\* The other half of a block, when it is not used, is a block that is free.
LEMMA UnusedTwin ==
  ASSUME NEW l \in Buckets, NEW B, NEW U, Tiling(B, Size(l)), NEW x \in B, x[2] # l,
         ~Used(B, U, Twin(x))
  PROVE  Twin(x) \in B /\ Twin(x) \notin U
<1> DEFINE y == Twin(x)
<1>1. x \in AllBlocks /\ x[2] > l /\ x[2] # 0 /\ x[2] \in Nat /\ l \in Nat
  BY PoolBlocks, BlockFacts, Positive
<1>2. PICK z \in AllBlocks : /\ z[2] = x[2] - 1 /\ z[2] # Smallest
                            /\ x # y /\ {x, y} = {LeftOf(z), RightOf(z)}
  BY <1>1, UpOf
<1>3. y \in AllBlocks /\ y[2] = x[2] /\ y[1] \in At(y) /\ y[1] \in At(z) /\ x[1] \in At(z)
      /\ x[1] \in At(x)
  <2>1. y \in {LeftOf(z), RightOf(z)} /\ x \in {LeftOf(z), RightOf(z)}
    BY <1>2
  <2>2. y \in AllBlocks
    BY <1>2, <2>1, Halves
  <2>3. y[1] \in At(y) /\ x[1] \in At(x)
    BY <1>1, <2>2, BlockFacts
  <2>4. y[1] \in At(z) /\ x[1] \in At(z)
    BY <1>2, <2>1, <2>3, Halves
  <2> QED
    BY <2>2, <2>3, <2>4 DEF Twin
<1>4. y[1] \in 0 .. Size(l) - 1
  <2>1. z[2] >= l /\ x[1] \in At(Root(l))
    BY <1>1, <1>2, PoolBlocks
  <2>2. At(z) \subseteq At(Root(l))
    BY <1>3, <2>1, Geometry, RootBlock
  <2> QED
    BY <1>3, <2>2, RootBlock
<1>5. PICK a \in B : y[1] \in At(a)
  BY <1>4 DEF Tiling
<1>6. a \in AllBlocks /\ a[2] \in Nat
  BY <1>5, BlockFacts DEF Tiling
<1>7. ~(a[2] > y[2])
  <2> SUFFICES ASSUME a[2] > y[2] PROVE FALSE
    OBVIOUS
  <2>1. a[1] \in At(y)
    BY <1>1, <1>3, <1>5, <1>6, Geometry
  <2> QED
    BY <2>1 DEF Used
<1>8. ~(a[2] < y[2])
  <2> SUFFICES ASSUME a[2] < y[2] PROVE FALSE
    OBVIOUS
  <2>1. z[2] >= a[2]
    BY <1>1, <1>2, <1>3, <1>6
  <2>2. At(z) \subseteq At(a)
    BY <2>1, <1>3, <1>5, <1>6, Geometry
  <2>3. a = x
    BY <2>2, <1>3 DEF Tiling
  <2> QED
    BY <2>3, <1>1, <1>3
<1>9. a = y
  <2>1. a[2] = y[2]
    BY <1>1, <1>3, <1>6, <1>7, <1>8
  <2> QED
    BY <2>1, <1>1, <1>3, <1>5, <1>6, Geometry
<1> QED
  BY <1>9, UsedOfBlock

-----------------------------------------------------------------------------
\* What the bit of the node of x says: that exactly one half of x is used; above the
\* pool, that the pool is.
BitOf(B, U, l, x) ==
    IF x[2] >= l \/ x[1] # 0
    THEN ~(Used(B, U, LeftOf(x)) <=> Used(B, U, RightOf(x)))
    ELSE x[2] = l - 1 /\ Used(B, U, Root(l))

BitsExact(S, B, U, l) ==
    \A x \in AllBlocks : x[2] # Smallest => (NodeOf(x) \in S <=> BitOf(B, U, l, x))

\* One block becomes used, or is no longer, and the bit above it is flipped.
LEMMA BitsToggle ==
  ASSUME NEW l \in Buckets, NEW x \in AllBlocks, x[2] >= l, x[2] = l => x[1] = 0,
         NEW S, NEW T, NEW B, NEW U, NEW C, NEW V, BitsExact(S, B, U, l),
         Used(B, U, x) <=> ~Used(C, V, x),
         \A w \in AllBlocks : w # x => (Used(B, U, w) <=> Used(C, V, w)),
         x[2] = 0 => T = S,
         x[2] # 0 => \A j : j \in T <=> IF j = Parent(NodeOf(x)) THEN j \notin S ELSE j \in S
  PROVE  BitsExact(T, C, V, l)
<1> SUFFICES ASSUME NEW w \in AllBlocks, w[2] # Smallest
             PROVE  NodeOf(w) \in T <=> BitOf(C, V, l, w)
  BY DEF BitsExact
<1>1. NodeOf(w) \in S <=> BitOf(B, U, l, w)
  BY DEF BitsExact
<1>2. /\ w[1] \in Nat /\ w[2] \in Nat /\ x[1] \in Nat /\ x[2] \in Nat /\ l \in Nat
      /\ x = <<x[1], x[2]>> /\ w = <<w[1], w[2]>>
  BY BlockFacts, Positive
<1>3. LeftOf(w) \in AllBlocks /\ RightOf(w) \in AllBlocks /\ LeftOf(w) # RightOf(w)
      /\ LeftOf(w)[2] = w[2] + 1 /\ RightOf(w)[2] = w[2] + 1
  BY Halves DEF LeftOf, RightOf
<1>4. Root(l) \in AllBlocks
  BY RootBlock
<1>5. CASE x \in {LeftOf(w), RightOf(w)}
  <2>1. x[2] = w[2] + 1 /\ x[2] # 0
    BY <1>2, <1>3, <1>5
  <2>2. PICK z \in AllBlocks : /\ z[2] = x[2] - 1 /\ z[2] # Smallest
                              /\ NodeOf(z) = Parent(NodeOf(x))
                              /\ x \in {LeftOf(z), RightOf(z)}
    BY <2>1, UpOf
  <2>3. z = w
    <3>1. x[1] \in At(x) /\ x[1] \in At(z) /\ x[1] \in At(w)
      BY <1>5, <2>2, BlockFacts, Halves
    <3> QED
      BY <3>1, <2>1, <2>2, <1>2, Geometry
  <2>4. NodeOf(w) \in T <=> NodeOf(w) \notin S
    BY <2>1, <2>2, <2>3
  <2>5. CASE w[2] >= l \/ w[1] # 0
    <3>1. (Used(B, U, LeftOf(w)) <=> Used(B, U, RightOf(w)))
             <=> ~(Used(C, V, LeftOf(w)) <=> Used(C, V, RightOf(w)))
      BY <1>3, <1>5
    <3> QED
      BY <3>1, <2>4, <2>5, <1>1 DEF BitOf
  <2>6. CASE ~(w[2] >= l \/ w[1] # 0)
    <3>1. w[2] = l - 1 /\ x[2] = l
      BY <2>1, <2>6, <1>2
    <3>2. x = Root(l)
      BY <3>1, <1>2 DEF Root
    <3> QED
      BY <3>1, <3>2, <2>4, <2>6, <1>1 DEF BitOf
  <2> QED
    BY <2>5, <2>6
<1>6. CASE x \notin {LeftOf(w), RightOf(w)}
  <2>1. NodeOf(w) \in T <=> NodeOf(w) \in S
    <3>1. CASE x[2] = 0
      BY <3>1
    <3>2. CASE x[2] # 0
      <4>1. PICK z \in AllBlocks : NodeOf(z) = Parent(NodeOf(x)) /\ x \in {LeftOf(z), RightOf(z)}
        BY <3>2, UpOf
      <4>2. NodeOf(w) # NodeOf(z)
        BY <4>1, <1>6, NodesDiffer
      <4> QED
        BY <3>2, <4>1, <4>2
    <3> QED
      BY <3>1, <3>2
  <2>2. CASE w[2] >= l \/ w[1] # 0
    BY <2>1, <2>2, <1>1, <1>3, <1>6 DEF BitOf
  <2>3. CASE ~(w[2] >= l \/ w[1] # 0)
    <3>1. w[2] = l - 1 => LeftOf(w) = Root(l)
      BY <2>3, <1>2 DEF LeftOf, Root
    <3>2. w[2] = l - 1 => (Used(B, U, Root(l)) <=> Used(C, V, Root(l)))
      BY <3>1, <1>4, <1>6
    <3> QED
      BY <3>2, <2>1, <2>3, <1>1 DEF BitOf
  <2> QED
    BY <2>2, <2>3
<1> QED
  BY <1>5, <1>6

-----------------------------------------------------------------------------
\* The pool doubles: its new right half.
Half(l) == RightOf(Root(l - 1))

LEMMA Doubled ==
  ASSUME NEW l \in Buckets, l # 0
  PROVE  /\ l - 1 \in Buckets /\ l - 1 # Smallest /\ l \in Nat
         /\ Root(l - 1) \in AllBlocks /\ LeftOf(Root(l - 1)) = Root(l)
         /\ Half(l) \in AllBlocks /\ Half(l) = <<Size(l), l>> /\ Half(l) # Root(l)
         /\ \A u : u \in At(Root(l - 1)) <=> u \in At(Root(l)) \/ u \in At(Half(l))
         /\ \A u : ~(u \in At(Root(l)) /\ u \in At(Half(l)))
<1>1. l - 1 \in Buckets /\ l - 1 # Smallest /\ l \in Nat /\ (l - 1) + 1 = l /\ Size(l) \in Nat
  BY Positive DEF Buckets, Smallest
<1>2. Root(l - 1) \in AllBlocks /\ Root(l - 1)[1] = 0 /\ Root(l - 1)[2] = l - 1
  BY <1>1, RootBlock
<1>3. LeftOf(Root(l - 1)) = Root(l) /\ Half(l) = <<Size(l), l>>
  BY <1>1, <1>2 DEF LeftOf, RightOf, Half, Root
<1> QED
  BY <1>1, <1>2, <1>3, Halves DEF Half

LEMMA TileGrow ==
  ASSUME NEW l \in Buckets, l # 0, NEW B, Tiling(B, Size(l))
  PROVE  Tiling(B \union {Half(l)}, Size(l - 1)) /\ Half(l) \notin B
<1> DEFINE C == B \union {Half(l)}
<1>1. \A x \in B : \A u \in At(x) : u \in At(Root(l))
  BY PoolBlocks
<1>2. Half(l) \notin B
  BY <1>1, Doubled, BlockFacts
<1>3. C \subseteq AllBlocks
  BY Doubled DEF Tiling
<1>4. \A x, y \in C : \A u : u \in At(x) /\ u \in At(y) => x = y
  <2> SUFFICES ASSUME NEW x \in C, NEW y \in C, NEW u, u \in At(x), u \in At(y) PROVE x = y
    OBVIOUS
  <2>1. CASE x \in B /\ y \in B
    BY <2>1 DEF Tiling
  <2>2. CASE x \notin B \/ y \notin B
    BY <2>2, <1>1, Doubled
  <2> QED
    BY <2>1, <2>2
<1>5. \A u : (\E x \in C : u \in At(x)) <=> u \in 0 .. Size(l - 1) - 1
  <2> TAKE u
  <2>1. u \in 0 .. Size(l - 1) - 1 <=> u \in At(Root(l - 1))
    BY Doubled, RootBlock
  <2>2. (\E x \in B : u \in At(x)) <=> u \in At(Root(l))
    BY RootBlock DEF Tiling
  <2>3. (\E x \in C : u \in At(x)) <=> (\E x \in B : u \in At(x)) \/ u \in At(Half(l))
    OBVIOUS
  <2> QED
    BY <2>1, <2>2, <2>3, Doubled
<1> QED
  BY <1>2, <1>3, <1>4, <1>5 DEF Tiling

\* A pool that is one free block has no bit set.
LEMMA NoBit ==
  ASSUME NEW k \in Buckets, NEW W, Root(k) \notin W, NEW x \in AllBlocks, x[2] # Smallest
  PROVE  ~BitOf({Root(k)}, W, k, x)
<1>1. \A w : Used({Root(k)}, W, w) <=> 0 \in At(w) /\ k > w[2]
  BY RootBlock DEF Used
<1>2. x[1] \in Nat /\ x[2] \in Nat /\ k \in Nat
  BY BlockFacts DEF Buckets
<1>3. LeftOf(x)[2] = x[2] + 1 /\ RightOf(x)[2] = x[2] + 1
  BY DEF LeftOf, RightOf
<1>4. CASE x[2] >= k
  <2>1. ~(k > LeftOf(x)[2]) /\ ~(k > RightOf(x)[2])
    BY <1>2, <1>3, <1>4
  <2>2. ~Used({Root(k)}, W, LeftOf(x)) /\ ~Used({Root(k)}, W, RightOf(x))
    BY <1>1, <2>1
  <2> QED
    BY <1>4, <2>2 DEF BitOf
<1>5. CASE x[1] # 0
  <2>1. ~(0 \in At(x))
    BY <1>2, <1>5, BlockFacts
  <2>2. ~(0 \in At(LeftOf(x))) /\ ~(0 \in At(RightOf(x)))
    BY <2>1, Halves
  <2> QED
    BY <1>1, <1>5, <2>2 DEF BitOf
<1>6. CASE ~(x[2] >= k \/ x[1] # 0)
  <2>1. ~(k > Root(k)[2])
    BY <1>2 DEF Root
  <2>2. ~Used({Root(k)}, W, Root(k))
    BY <1>1, <2>1
  <2> QED
    BY <2>2, <1>6 DEF BitOf
<1> QED
  BY <1>4, <1>5, <1>6

\* It grows into one free block: no bit is set before or after.
LEMMA BitsGrowFree ==
  ASSUME NEW l \in Buckets, l # 0, NEW S, NEW U, Root(l) \notin U, NEW V, Root(l - 1) \notin V,
         BitsExact(S, {Root(l)}, U, l)
  PROVE  BitsExact(S, {Root(l - 1)}, V, l - 1)
<1> SUFFICES ASSUME NEW x \in AllBlocks, x[2] # Smallest
             PROVE  NodeOf(x) \in S <=> BitOf({Root(l - 1)}, V, l - 1, x)
  BY DEF BitsExact
<1>1. NodeOf(x) \in S <=> BitOf({Root(l)}, U, l, x)
  BY DEF BitsExact
<1>2. l - 1 \in Buckets
  BY Doubled
<1>3. ~BitOf({Root(l)}, U, l, x)
  BY NoBit
<1>4. ~BitOf({Root(l - 1)}, V, l - 1, x)
  BY <1>2, NoBit
<1> QED
  BY <1>1, <1>3, <1>4

\* A pool in use becomes the left half of the new one: the bit above the new pool, if
\* there is one, is flipped.
LEMMA BitsGrowUsed ==
  ASSUME NEW l \in Buckets, l # 0, NEW B, NEW U, Tiling(B, Size(l)), Half(l) \notin U,
         Used(B, U, Root(l)), NEW S, NEW T, BitsExact(S, B, U, l),
         l - 1 = 0 => T = S,
         l - 1 # 0 => \A j : j \in T <=> IF j = Parent(NodeOf(Root(l - 1))) THEN j \notin S
                                                                            ELSE j \in S
  PROVE  BitsExact(T, B \union {Half(l)}, U, l - 1)
<1> DEFINE h == Half(l)
           C == B \union {h}
           r == Root(l - 1)
<1> SUFFICES ASSUME NEW x \in AllBlocks, x[2] # Smallest
             PROVE  NodeOf(x) \in T <=> BitOf(C, U, l - 1, x)
  BY DEF BitsExact
<1>1. NodeOf(x) \in S <=> BitOf(B, U, l, x)
  BY DEF BitsExact
<1>2. /\ x[1] \in Nat /\ x[2] \in Nat /\ l \in Nat /\ l - 1 \in Buckets /\ h[2] = l
      /\ x = <<x[1], x[2]>> /\ r \in AllBlocks /\ r[1] = 0 /\ r[2] = l - 1
      /\ h[1] \in At(h) /\ h[1] \in At(r) /\ 0 \in At(r) /\ 0 \in At(Root(l))
  BY BlockFacts, RootBlock, Doubled
<1>3. LeftOf(x)[2] = x[2] + 1 /\ RightOf(x)[2] = x[2] + 1
      /\ LeftOf(x) \in AllBlocks /\ RightOf(x) \in AllBlocks
  BY Halves DEF LeftOf, RightOf
<1>4. \A w : Used(C, U, w) <=> Used(B, U, w) \/ (h[1] \in At(w) /\ l > w[2])
  BY <1>2 DEF Used
<1>5. Used(C, U, r)
  <2>1. PICK a \in B : a[1] \in At(Root(l)) /\ (a[2] > l \/ a = Root(l))
    BY RootBlock DEF Used
  <2>2. a[2] >= l /\ a[2] \in Nat
    BY PoolBlocks, BlockFacts
  <2>3. a[1] \in At(r)
    BY <2>1, Doubled
  <2> QED
    BY <2>2, <2>3, <1>2 DEF Used
<1>6. ~Used(B, U, h)
  <2> SUFFICES ASSUME NEW a \in B, a[1] \in At(h) PROVE FALSE
    BY DEF Used
  <2>1. a[1] \in At(Root(l))
    BY PoolBlocks
  <2> QED
    BY <2>1, Doubled
<1>7. CASE x = r
  <2>1. NodeOf(x) \in S
    BY <1>1, <1>2, <1>7 DEF BitOf
  <2>2. LeftOf(x) = Root(l) /\ RightOf(x) = h
    BY <1>7, Doubled DEF Half
  <2>3. Used(C, U, Root(l))
    BY <1>4
  <2>4. ~(l > h[2])
    BY <1>2
  <2>5. ~Used(C, U, h)
    BY <1>4, <1>6, <2>4
  <2>6. x[2] >= l - 1
    BY <1>2, <1>7
  <2>7. BitOf(C, U, l - 1, x)
    BY <2>2, <2>3, <2>5, <2>6 DEF BitOf
  <2>8. NodeOf(x) \in T
    <3>1. CASE l - 1 = 0
      BY <3>1, <2>1
    <3>2. CASE l - 1 # 0
      <4>1. PICK z \in AllBlocks : z[2] = r[2] - 1 /\ NodeOf(z) = Parent(NodeOf(r))
        BY <3>2, <1>2, UpOf
      <4>2. NodeOf(x) # NodeOf(z)
        BY <4>1, <1>2, <1>7, NodesDiffer
      <4> QED
        BY <3>2, <4>1, <4>2, <2>1
    <3> QED
      BY <3>1, <3>2
  <2> QED
    BY <2>7, <2>8
<1>8. CASE x # r /\ (x[2] >= l - 1 \/ x[1] # 0)
  <2>1. x[2] >= l \/ x[1] # 0
    <3>1. x[2] = l - 1 => x[1] # 0
      BY <1>2, <1>8 DEF Root
    <3> QED
      BY <3>1, <1>2, <1>8
  <2>2. ASSUME NEW w \in {LeftOf(x), RightOf(x)} PROVE Used(C, U, w) <=> Used(B, U, w)
    <3>1. CASE x[2] >= l - 1
      <4>1. ~(l > w[2])
        BY <3>1, <1>2, <1>3
      <4> QED
        BY <4>1, <1>4
    <3>2. CASE x[2] < l - 1
      <4>1. ~(h[1] \in At(x))
        <5> SUFFICES ASSUME h[1] \in At(x) PROVE FALSE
          OBVIOUS
        <5>1. 0 \in At(x)
          BY <3>2, <1>2, Geometry
        <5> QED
          BY <5>1, <3>2, <1>2, <1>8, BlockFacts
      <4>2. ~(h[1] \in At(w))
        BY <4>1, Halves
      <4> QED
        BY <4>2, <1>4
    <3> QED
      BY <3>1, <3>2, <1>2
  <2>3. BitOf(C, U, l - 1, x) <=> BitOf(B, U, l, x)
    BY <2>1, <2>2, <1>8 DEF BitOf
  <2>4. NodeOf(x) \in T <=> NodeOf(x) \in S
    <3>1. CASE l - 1 = 0
      BY <3>1
    <3>2. CASE l - 1 # 0
      <4>1. PICK z \in AllBlocks : /\ z[2] = r[2] - 1 /\ z[2] # Smallest
                                  /\ NodeOf(z) = Parent(NodeOf(r))
                                  /\ r \in {LeftOf(z), RightOf(z)}
        BY <3>2, <1>2, UpOf
      <4>2. z[1] = 0
        <5>1. 0 \in At(z)
          BY <4>1, <1>2, Halves
        <5> QED
          BY <5>1, BlockFacts
      <4>3. x # z
        BY <4>1, <4>2, <1>2, <1>8
      <4>4. NodeOf(x) # NodeOf(z)
        BY <4>3, NodesDiffer
      <4> QED
        BY <3>2, <4>1, <4>4
    <3> QED
      BY <3>1, <3>2
  <2> QED
    BY <2>3, <2>4, <1>1
<1>9. CASE x[2] < l - 1 /\ x[1] = 0
  <2>1. ~(NodeOf(x) \in S)
    BY <1>1, <1>2, <1>9 DEF BitOf
  <2>2. BitOf(C, U, l - 1, x) <=> x[2] = (l - 1) - 1
    BY <1>2, <1>5, <1>9 DEF BitOf
  <2>3. NodeOf(x) \in T <=> x[2] = (l - 1) - 1
    <3>1. l - 1 # 0
      BY <1>2, <1>9
    <3>2. PICK z \in AllBlocks : /\ z[2] = r[2] - 1 /\ z[2] # Smallest
                                /\ NodeOf(z) = Parent(NodeOf(r))
                                /\ r \in {LeftOf(z), RightOf(z)}
      BY <3>1, <1>2, UpOf
    <3>3. z[1] = 0
      <4>1. 0 \in At(z)
        BY <3>2, <1>2, Halves
      <4> QED
        BY <4>1, BlockFacts
    <3>4. x = z <=> x[2] = (l - 1) - 1
      BY <3>2, <3>3, <1>2, <1>9, BlockFacts
    <3>5. NodeOf(x) = NodeOf(z) <=> x = z
      BY <3>2, NodesDiffer
    <3> QED
      BY <2>1, <3>1, <3>2, <3>4, <3>5
  <2> QED
    BY <2>2, <2>3
<1>10. x = r \/ (x # r /\ (x[2] >= l - 1 \/ x[1] # 0)) \/ (x[2] < l - 1 /\ x[1] = 0)
  BY <1>2
<1> QED
  BY <1>7, <1>8, <1>9, <1>10
-----------------------------------------------------------------------------
(***************************************************************************)
(* What an allocator keeps true of its free blocks F, the blocks H in      *)
(* somebody's hands and the bits S, when the pool is the leftmost block of *)
(* bucket l; and the moves it makes.                                       *)
(***************************************************************************)
Sound(F, H, S, l) ==
    /\ Tiling(F \union H, Size(l))
    /\ F \intersect H = {}
    /\ BitsExact(S, F \union H, H, l)
    /\ \A x \in F : x[2] > l => Twin(x) \notin F

\* The bit above x is flipped, if there is one.
Flipped(S, T, x) ==
    /\ x[2] = 0 => T = S
    /\ x[2] # 0 => \A j : j \in T <=> IF j = Parent(NodeOf(x)) THEN j \notin S ELSE j \in S

LEMMA TwinHalves ==
  ASSUME NEW z \in AllBlocks, z[2] # Smallest
  PROVE  /\ Twin(LeftOf(z)) = RightOf(z) /\ Twin(RightOf(z)) = LeftOf(z)
         /\ Parent(NodeOf(LeftOf(z))) = NodeOf(z) /\ Parent(NodeOf(RightOf(z))) = NodeOf(z)
<1>1. ASSUME NEW x \in {LeftOf(z), RightOf(z)}
      PROVE  {x, Twin(x)} = {LeftOf(z), RightOf(z)} /\ x # Twin(x) /\ Parent(NodeOf(x)) = NodeOf(z)
  <2>1. x \in AllBlocks /\ x[2] = z[2] + 1 /\ z[2] \in Nat /\ x[1] \in At(z)
    <3>1. x \in AllBlocks
      BY Halves
    <3>2. x[1] \in At(z)
      BY <3>1, Halves, BlockFacts
    <3> QED
      BY <3>1, <3>2, BlockFacts DEF LeftOf, RightOf
  <2>2. PICK w \in AllBlocks : /\ w[2] = x[2] - 1 /\ w[2] # Smallest
                              /\ NodeOf(w) = Parent(NodeOf(x)) /\ x # Twin(x)
                              /\ {x, Twin(x)} = {LeftOf(w), RightOf(w)}
    BY <2>1, UpOf
  <2>3. x[1] \in At(w)
    <3>1. x \in {LeftOf(w), RightOf(w)} /\ x[1] \in At(x)
      BY <2>1, <2>2, BlockFacts
    <3> QED
      BY <3>1, <2>2, Halves
  <2>4. w[2] = z[2]
    BY <2>1, <2>2
  <2>5. w = z
    BY <2>1, <2>3, <2>4, Geometry, BlockFacts
  <2> QED
    BY <2>2, <2>5
<1>2. LeftOf(z) # RightOf(z)
  BY Halves
<1> QED
  BY <1>1, <1>2

LEMMA TwinTwin ==
  ASSUME NEW x \in AllBlocks, x[2] # 0
  PROVE  Twin(x) \in AllBlocks /\ Twin(x)[2] = x[2] /\ Twin(x) # x /\ Twin(Twin(x)) = x
<1>1. PICK z \in AllBlocks : /\ z[2] # Smallest /\ x # Twin(x)
                            /\ {x, Twin(x)} = {LeftOf(z), RightOf(z)}
  BY UpOf
<1>2. Twin(x) \in AllBlocks /\ x \in {LeftOf(z), RightOf(z)}
  BY <1>1, Halves
<1>3. Twin(Twin(x)) = x
  BY <1>1, <1>2, TwinHalves
<1> QED
  BY <1>1, <1>2, <1>3 DEF Twin

\* A pool of one free block.
LEMMA SoundRoot ==
  ASSUME NEW l \in Buckets PROVE Sound({Root(l)}, {}, {}, l)
<1>1. {Root(l)} \union {} = {Root(l)} /\ Tiling({Root(l)}, Size(l))
  BY RootTiles
<1>2. BitsExact({}, {Root(l)}, {}, l)
  BY NoBit DEF BitsExact
<1>3. ~(Root(l)[2] > l)
  BY Positive DEF Root
<1> QED
  BY <1>1, <1>2, <1>3 DEF Sound

\* A free block is taken.
LEMMA SoundTake ==
  ASSUME NEW l \in Buckets, NEW F, NEW H, NEW S, Sound(F, H, S, l), NEW x \in F,
         NEW T, Flipped(S, T, x)
  PROVE  Sound(F \ {x}, H \union {x}, T, l)
<1> DEFINE B == F \union H
<1>1. Tiling(B, Size(l)) /\ BitsExact(S, B, H, l) /\ x \in B /\ x \notin H
  BY DEF Sound
<1>2. (F \ {x}) \union (H \union {x}) = B
  OBVIOUS
<1>3. x \in AllBlocks /\ x[2] >= l /\ (x[2] = l => x[1] = 0)
  BY <1>1, PoolBlocks, RootBlock
<1>4. /\ ~Used(B, H, x) /\ Used(B, H \union {x}, x)
      /\ \A w \in AllBlocks : w # x => (Used(B, H, w) <=> Used(B, H \union {x}, w))
  BY <1>1, UsedToggle
<1>5. BitsExact(T, B, H \union {x}, l)
  BY <1>1, <1>3, <1>4, BitsToggle DEF Flipped
<1>6. \A w \in F \ {x} : w[2] > l => Twin(w) \notin F \ {x}
  BY DEF Sound
<1>7. (F \ {x}) \intersect (H \union {x}) = {}
  BY DEF Sound
<1> QED
  BY <1>1, <1>2, <1>5, <1>6, <1>7 DEF Sound

\* A block in hand becomes free, where its twin is not free or it is the pool.
LEMMA SoundGive ==
  ASSUME NEW l \in Buckets, NEW F, NEW H, NEW S, Sound(F, H, S, l), NEW x \in H,
         NEW T, Flipped(S, T, x), x[2] = l \/ (x[2] # 0 /\ Parent(NodeOf(x)) \in T)
  PROVE  Sound(F \union {x}, H \ {x}, T, l) /\ x \notin F
<1> DEFINE B == F \union H
           G == H \ {x}
<1>1. Tiling(B, Size(l)) /\ BitsExact(S, B, H, l) /\ x \in B /\ x \notin F /\ x \notin G
      /\ G \union {x} = H
  BY DEF Sound
<1>2. (F \union {x}) \union G = B
  OBVIOUS
<1>3. x \in AllBlocks /\ x[2] >= l /\ (x[2] = l => x[1] = 0) /\ x[2] \in Nat /\ l \in Nat
  BY <1>1, PoolBlocks, RootBlock, BlockFacts, Positive
<1>4. /\ ~Used(B, G, x) /\ Used(B, H, x)
      /\ \A w \in AllBlocks : w # x => (Used(B, H, w) <=> Used(B, G, w))
  <2>1. /\ ~Used(B, G, x) /\ Used(B, G \union {x}, x)
        /\ \A w : w # x => (Used(B, G, w) <=> Used(B, G \union {x}, w))
    BY <1>1, UsedToggle
  <2> QED
    BY <2>1, <1>1
<1>5. BitsExact(T, B, G, l)
  BY <1>1, <1>3, <1>4, BitsToggle DEF Flipped
<1>6. x[2] # l => Twin(x) \notin F
  <2> SUFFICES ASSUME x[2] # l, Twin(x) \in F PROVE FALSE
    OBVIOUS
  <2>1. Twin(x) \notin H /\ Twin(x) \in B
    BY DEF Sound
  <2>2. ~Used(B, H, Twin(x))
    BY <2>1, <1>1, UsedOfBlock
  <2>3. PICK z \in AllBlocks : /\ z[2] = x[2] - 1 /\ z[2] # Smallest
                              /\ NodeOf(z) = Parent(NodeOf(x))
                              /\ {x, Twin(x)} = {LeftOf(z), RightOf(z)}
    BY <1>3, UpOf
  <2>4. NodeOf(z) \notin S
    BY <2>3, <1>3 DEF Flipped
  <2>5. z[2] >= l
    BY <2>3, <1>3
  <2>6. Used(B, H, LeftOf(z)) <=> Used(B, H, RightOf(z))
    BY <2>3, <2>4, <2>5, <1>1 DEF BitsExact, BitOf
  <2>7. Used(B, H, x) <=> Used(B, H, Twin(x))
    BY <2>3, <2>6
  <2> QED
    BY <2>2, <2>7, <1>4
<1>7. \A w \in F \union {x} : w[2] > l => Twin(w) \notin F \union {x}
  <2> SUFFICES ASSUME NEW w \in F \union {x}, w[2] > l, Twin(w) \in F \union {x} PROVE FALSE
    OBVIOUS
  <2>1. w \in AllBlocks /\ w[2] # 0
    BY <1>1, <1>3, PoolBlocks, BlockFacts
  <2>2. Twin(w) # w /\ Twin(Twin(w)) = w /\ Twin(w)[2] = w[2]
    BY <2>1, TwinTwin
  <2>3. CASE w = x
    BY <2>2, <2>3, <1>3, <1>6
  <2>4. CASE w # x
    <3>1. Twin(w) = x
      BY <2>4 DEF Sound
    <3> QED
      BY <3>1, <2>2, <2>4, <1>3, <1>6
  <2> QED
    BY <2>3, <2>4
<1> QED
  BY <1>1, <1>2, <1>5, <1>7 DEF Sound

\* A block in hand is split: its left half stays in hand, its right half is free.
LEMMA SoundSplit ==
  ASSUME NEW l \in Buckets, NEW F, NEW H, NEW S, Sound(F, H, S, l), NEW z \in H, z[2] # Smallest,
         NEW T, Flipped(S, T, LeftOf(z))
  PROVE  /\ Sound(F \union {RightOf(z)}, (H \ {z}) \union {LeftOf(z)}, T, l)
         /\ RightOf(z) \notin F /\ LeftOf(z) \notin H
<1> DEFINE B == F \union H
           x == LeftOf(z)
           y == RightOf(z)
           C == (B \ {z}) \union {x, y}
           G == (H \ {z}) \union {x}
<1>1. Tiling(B, Size(l)) /\ BitsExact(S, B, H, l) /\ z \in B /\ z \notin F
  BY DEF Sound
<1>2. z \in AllBlocks /\ z[2] >= l /\ z[2] \in Nat /\ l \in Nat
  BY <1>1, PoolBlocks, BlockFacts, Positive
<1>3. /\ x \in AllBlocks /\ y \in AllBlocks /\ x # y /\ x[2] = z[2] + 1
      /\ Tiling(C, Size(l)) /\ x \notin B /\ y \notin B
  BY <1>1, <1>2, Halves, TileSplit DEF LeftOf
<1>4. (F \union {y}) \union G = C /\ (F \union {y}) \intersect G = {}
  BY <1>1, <1>3 DEF Sound
<1>5. x \in G /\ y \notin G /\ \A w \in B \ {z} : w \in G <=> w \in H
  BY <1>3
<1>6. /\ ~Used(B, H, x) /\ Used(C, G, x)
      /\ \A w \in AllBlocks : w # x => (Used(B, H, w) <=> Used(C, G, w))
  <2> HIDE DEF B, C, G
  <2>1. C = (B \ {z}) \union {x, y}
    BY DEF C
  <2>2. x \in {LeftOf(z), RightOf(z)} /\ y \in {LeftOf(z), RightOf(z)} /\ x # y
    BY <1>3
  <2>3. Tiling(B, Size(l)) /\ z \in B /\ z \in H /\ x \in G /\ y \notin G
        /\ \A w \in B \ {z} : w \in G <=> w \in H
    BY <1>1, <1>5
  <2> HIDE DEF x, y
  <2> QED
    BY <2>1, <2>2, <2>3, UsedHalves
<1>7. BitsExact(T, C, G, l)
  <2>1. x[2] >= l /\ x[2] # l /\ x[2] # 0
    BY <1>2, <1>3
  <2> QED
    BY <1>1, <1>3, <1>6, <2>1, BitsToggle DEF Flipped
<1>8. \A w \in F \union {y} : w[2] > l => Twin(w) \notin F \union {y}
  <2> SUFFICES ASSUME NEW w \in F \union {y}, w[2] > l, Twin(w) \in F \union {y} PROVE FALSE
    OBVIOUS
  <2>1. Twin(x) = y /\ Twin(y) = x
    BY <1>2, TwinHalves
  <2>2. w \in AllBlocks /\ w[2] # 0
    BY <1>1, <1>2, <1>3, PoolBlocks, BlockFacts
  <2>3. Twin(Twin(w)) = w
    BY <2>2, TwinTwin
  <2>4. x \notin F \union {y}
    BY <1>3
  <2>5. w \in F /\ Twin(w) \in F
    BY <2>1, <2>3, <2>4
  <2> QED
    BY <2>5 DEF Sound
<1> QED
  BY <1>3, <1>4, <1>7, <1>8 DEF Sound

\* A block in hand, its twin being free, becomes the block they are halves of.
LEMMA SoundMerge ==
  ASSUME NEW l \in Buckets, NEW F, NEW H, NEW S, Sound(F, H, S, l), NEW x \in H, x[2] # l,
         Parent(NodeOf(x)) \in S, NEW T, Flipped(S, T, x)
  PROVE  /\ Twin(x) \in F
         /\ \E z \in AllBlocks :
              /\ NodeOf(z) = Parent(NodeOf(x)) /\ z[2] = x[2] - 1 /\ z \notin F \union H
              /\ Sound(F \ {Twin(x)}, (H \ {x}) \union {z}, T, l)
<1> DEFINE B == F \union H
           y == Twin(x)
<1>1. Tiling(B, Size(l)) /\ BitsExact(S, B, H, l) /\ x \in B /\ x \notin F
  BY DEF Sound
<1>2. x \in AllBlocks /\ x[2] > l /\ x[2] # 0 /\ x[2] \in Nat /\ l \in Nat
  BY <1>1, PoolBlocks, BlockFacts, Positive
<1>3. PICK z \in AllBlocks : /\ z[2] = x[2] - 1 /\ z[2] # Smallest
                            /\ NodeOf(z) = Parent(NodeOf(x)) /\ x # y
                            /\ {x, y} = {LeftOf(z), RightOf(z)}
  BY <1>2, UpOf
<1>4. z[2] >= l
  BY <1>2, <1>3
<1>5. ~(Used(B, H, LeftOf(z)) <=> Used(B, H, RightOf(z)))
  BY <1>1, <1>3, <1>4 DEF BitsExact, BitOf
<1>6. Used(B, H, x) /\ ~Used(B, H, y)
  <2>1. Used(B, H, x)
    BY <1>1, UsedOfBlock
  <2> QED
    BY <2>1, <1>3, <1>5
<1>7. y \in B /\ y \notin H /\ y \in F
  BY <1>1, <1>6, UnusedTwin
<1> DEFINE C == (B \ {LeftOf(z), RightOf(z)}) \union {z}
           G == (H \ {x}) \union {z}
           E == F \ {y}
<1>8. Tiling(C, Size(l)) /\ z \notin B
  <2>1. LeftOf(z) \in B /\ RightOf(z) \in B
    BY <1>1, <1>3, <1>7
  <2> QED
    BY <2>1, <1>1, <1>3, TileMerge
<1>9. E \union G = C /\ E \intersect G = {}
  BY <1>1, <1>3, <1>7, <1>8 DEF Sound
<1>10. Sound(E, G, T, l)
  <2>1. /\ z \in C /\ z \in G /\ x \in {LeftOf(z), RightOf(z)} /\ y \in {LeftOf(z), RightOf(z)}
        /\ (C \ {z}) \union {x, y} = B
        /\ \A w \in C \ {z} : w \in H <=> w \in G
    BY <1>1, <1>3, <1>7, <1>8
  <2>2. /\ ~Used(C, G, x) /\ Used(B, H, x)
        /\ \A w \in AllBlocks : w # x => (Used(C, G, w) <=> Used(B, H, w))
    <3> HIDE DEF B, C, G, y
    <3>1. B = (C \ {z}) \union {x, y} /\ x # y /\ x \in H /\ y \notin H
      BY <2>1, <1>3, <1>7
    <3> QED
      BY <1>3, <1>8, <2>1, <3>1, UsedHalves
  <2>3. BitsExact(T, C, G, l)
    <3>1. \A w \in AllBlocks : w # x => (Used(B, H, w) <=> Used(C, G, w))
      BY <2>2
    <3>2. x[2] >= l /\ (Used(B, H, x) <=> ~Used(C, G, x))
      BY <1>2, <2>2
    <3>3. /\ x[2] = 0 => T = S
          /\ x[2] # 0 => \A j : j \in T <=> IF j = Parent(NodeOf(x)) THEN j \notin S ELSE j \in S
      BY DEF Flipped
    <3>4. x[2] # l
      OBVIOUS
    <3> HIDE DEF B, C, G
    <3> QED
      BY <1>1, <1>2, <3>1, <3>2, <3>3, <3>4, BitsToggle
  <2>4. \A w \in E : w[2] > l => Twin(w) \notin E
    BY DEF Sound
  <2> QED
    BY <1>8, <1>9, <2>3, <2>4 DEF Sound
<1> QED
  BY <1>3, <1>7, <1>8, <1>10

\* The bit above the pool says whether the pool is in use.
LEMMA BitAbove ==
  ASSUME NEW l \in Buckets, l # 0, NEW F, NEW H, NEW S, Sound(F, H, S, l)
  PROVE  /\ Parent(NodeOf(Root(l))) = NodeOf(Root(l - 1))
         /\ Parent(NodeOf(Root(l))) \in S <=> Used(F \union H, H, Root(l))
<1>1. /\ Root(l - 1) \in AllBlocks /\ Root(l - 1)[2] = l - 1 /\ Root(l - 1)[1] = 0
      /\ l - 1 # Smallest /\ l \in Nat /\ LeftOf(Root(l - 1)) = Root(l)
  BY Doubled, RootBlock
<1>2. Parent(NodeOf(Root(l))) = NodeOf(Root(l - 1))
  BY <1>1, TwinHalves
<1>3. ~(Root(l - 1)[2] >= l \/ Root(l - 1)[1] # 0)
  BY <1>1
<1>4. NodeOf(Root(l - 1)) \in S <=> BitOf(F \union H, H, l, Root(l - 1))
  BY <1>1 DEF Sound, BitsExact
<1>5. BitOf(F \union H, H, l, Root(l - 1)) <=> Used(F \union H, H, Root(l))
  BY <1>1, <1>3 DEF BitOf
<1> QED
  BY <1>2, <1>4, <1>5

\* The pool doubles: a free pool becomes a free pool,
LEMMA SoundGrowFree ==
  ASSUME NEW l \in Buckets, l # 0, NEW F, NEW H, NEW S, Sound(F, H, S, l),
         Parent(NodeOf(Root(l))) \notin S
  PROVE  /\ F = {Root(l)} /\ H = {}
         /\ Sound({Root(l - 1)}, {}, S, l - 1)
<1>1. F \union H = {Root(l)} /\ Root(l) \notin H
  <2>1. ~Used(F \union H, H, Root(l))
    BY BitAbove
  <2> QED
    BY <2>1, UnusedPool DEF Sound
<1>2. F = {Root(l)} /\ H = {}
  BY <1>1
<1>3. l - 1 \in Buckets
  BY Doubled
<1>4. BitsExact(S, {Root(l - 1)}, {}, l - 1)
  BY <1>1, BitsGrowFree DEF Sound
<1>5. Sound({Root(l - 1)}, {}, {}, l - 1)
  BY <1>3, SoundRoot
<1>6. {Root(l - 1)} \union {} = {Root(l - 1)}
  OBVIOUS
<1> QED
  BY <1>2, <1>4, <1>5, <1>6 DEF Sound

\* and one in use becomes the left half of the new one, whose right half is free.
LEMMA SoundGrowUsed ==
  ASSUME NEW l \in Buckets, l # 0, NEW F, NEW H, NEW S, Sound(F, H, S, l),
         Parent(NodeOf(Root(l))) \in S, NEW T, Flipped(S, T, Root(l - 1))
  PROVE  /\ Half(l) \notin F /\ \A x \in F : x[2] >= l
         /\ Sound(F \union {Half(l)}, H, T, l - 1)
<1> DEFINE B == F \union H
           h == Half(l)
<1>1. Tiling(B, Size(l)) /\ BitsExact(S, B, H, l) /\ Used(B, H, Root(l))
  BY BitAbove DEF Sound
<1>2. /\ l - 1 \in Buckets /\ l \in Nat /\ Root(l - 1)[2] = l - 1 /\ LeftOf(Root(l - 1)) = Root(l)
      /\ Root(l - 1) \in AllBlocks /\ l - 1 # Smallest /\ h[2] = l /\ h # Root(l)
  BY Doubled, RootBlock
<1>3. Tiling(B \union {h}, Size(l - 1)) /\ h \notin B
  BY <1>1, TileGrow
<1>4. BitsExact(T, B \union {h}, H, l - 1)
  BY <1>1, <1>2, <1>3, BitsGrowUsed DEF Flipped
<1>5. \A x \in B : x \in AllBlocks /\ x[2] \in Nat /\ x[2] >= l /\ (x[2] = l => x = Root(l))
  BY <1>1, PoolBlocks, BlockFacts
<1>6. Root(l) \notin F
  <2> SUFFICES ASSUME Root(l) \in F PROVE FALSE
    OBVIOUS
  <2>1. Root(l) \notin H /\ Root(l) \in B
    BY DEF Sound
  <2> QED
    BY <2>1, <1>1, UsedOfBlock
<1>7. Twin(h) = Root(l)
  BY <1>2, TwinHalves DEF Half
<1>8. \A x \in F \union {h} : x[2] > l - 1 => Twin(x) \notin F \union {h}
  <2> SUFFICES ASSUME NEW x \in F \union {h}, Twin(x) \in F \union {h} PROVE FALSE
    OBVIOUS
  <2>1. x # h
    BY <1>2, <1>6, <1>7
  <2>2. x \in F /\ x[2] > l /\ x[2] # 0 /\ x \in AllBlocks
    BY <2>1, <1>2, <1>5, <1>6
  <2>3. Twin(x)[2] = x[2]
    BY <2>2, TwinTwin
  <2>4. Twin(x) # h
    BY <2>2, <2>3, <1>2
  <2> QED
    BY <2>2, <2>4 DEF Sound
<1>9. (F \union {h}) \union H = B \union {h} /\ (F \union {h}) \intersect H = {}
  BY <1>3 DEF Sound
<1> QED
  BY <1>3, <1>4, <1>5, <1>8, <1>9 DEF Sound

-----------------------------------------------------------------------------
(***************************************************************************)
(* A part of the pool that nobody holds any of, and that is in no one free *)
(* block, cannot be: two of its smallest free blocks would be twins.       *)
(***************************************************************************)
LEMMA FreeRegion ==
  ASSUME NEW l \in Buckets, NEW F, NEW H, NEW S, Sound(F, H, S, l),
         NEW w \in AllBlocks, w[2] >= l, w[1] \in At(Root(l)), \A x \in F : x[2] > w[2]
  PROVE  \E x \in H : \E u : u \in At(x) /\ u \in At(w)
<1> SUFFICES ASSUME \A x \in H : \A u : ~(u \in At(x) /\ u \in At(w)) PROVE FALSE
  OBVIOUS
<1> DEFINE B == F \union H
<1>1. /\ B \subseteq AllBlocks /\ \A x, y \in B : \A u : u \in At(x) /\ u \in At(y) => x = y
      /\ \A u : (\E x \in B : u \in At(x)) <=> u \in 0 .. Size(l) - 1
  BY DEF Sound, Tiling
<1>2. At(w) \subseteq At(Root(l)) /\ w[1] \in At(w) /\ w[2] \in Nat /\ l \in Nat
  <2>1. Root(l) \in AllBlocks /\ Root(l)[2] = l /\ w[1] \in At(w)
    BY RootBlock, BlockFacts
  <2> QED
    BY <2>1, Geometry, BlockFacts, Positive
<1>3. ASSUME NEW u \in At(w)
      PROVE  \E a \in F : u \in At(a) /\ a \in AllBlocks /\ a[2] > w[2] /\ a[1] \in At(w)
  <2>1. u \in 0 .. Size(l) - 1
    BY <1>2, RootBlock
  <2>2. PICK a \in B : u \in At(a)
    BY <2>1, <1>1
  <2>3. a \in F /\ a \in AllBlocks /\ a[2] > w[2]
    BY <2>2, <1>1
  <2>4. a[1] \in At(w)
    BY <2>2, <2>3, <1>2, Geometry, BlockFacts
  <2> QED
    BY <2>2, <2>3, <2>4
<1> DEFINE T == {Smallest - x[2] : x \in {y \in F : y[1] \in At(w)}}
<1>4. \A x \in F : x \in AllBlocks /\ x[2] \in Nat /\ x[2] <= Smallest /\ x[1] \in At(x)
  BY <1>1, BlockFacts
<1>5. T \subseteq Nat /\ T # {}
  <2>1. PICK a \in F : a[1] \in At(w)
    BY <1>2, <1>3
  <2> QED
    BY <2>1, <1>4, Positive
<1>6. PICK x \in F : x[1] \in At(w) /\ \A y \in F : y[1] \in At(w) => y[2] <= x[2]
  <2>1. PICK m \in T : \A n \in T : m <= n
    BY <1>5, HasLeast
  <2>2. PICK x \in F : x[1] \in At(w) /\ m = Smallest - x[2]
    BY <2>1
  <2>3. \A y \in F : y[1] \in At(w) => Smallest - x[2] <= Smallest - y[2]
    BY <2>1, <2>2
  <2>4. \A y \in F : y[1] \in At(w) => y[2] <= x[2]
    BY <2>3, <1>4, Positive
  <2> QED
    BY <2>2, <2>4
<1>7. x \in AllBlocks /\ x[2] > w[2] /\ x[2] > l /\ x[2] # 0 /\ Twin(x) \notin F
  BY <1>2, <1>4 DEF Sound
<1> DEFINE t == Twin(x)
<1>8. PICK z \in AllBlocks : z[2] = x[2] - 1 /\ z[2] # Smallest /\ {x, t} = {LeftOf(z), RightOf(z)}
  BY <1>7, UpOf
<1>9. /\ t \in AllBlocks /\ t[2] = x[2] /\ t[1] \in At(t) /\ t[1] \in At(z) /\ x[1] \in At(z)
      /\ x[1] \in At(x)
  <2>1. t \in AllBlocks /\ t[2] = x[2] /\ t[1] \in At(t) /\ x[1] \in At(x)
    BY <1>7, TwinTwin, BlockFacts
  <2>2. x \in {LeftOf(z), RightOf(z)} /\ t \in {LeftOf(z), RightOf(z)}
    BY <1>8
  <2> QED
    BY <2>1, <2>2, Halves, <1>8
<1>10. t[1] \in At(w)
  <2>1. z[2] >= w[2]
    BY <1>2, <1>4, <1>7, <1>8
  <2>2. At(z) \subseteq At(w)
    BY <2>1, <1>6, <1>9, Geometry
  <2> QED
    BY <2>2, <1>9
<1>11. PICK a \in F : t[1] \in At(a) /\ a \in AllBlocks /\ a[1] \in At(w)
  BY <1>3, <1>10
<1>12. a[2] <= x[2] /\ a[2] \in Nat
  BY <1>6, <1>11, <1>4
<1>13. CASE a[2] = x[2]
  <2>1. t[2] >= a[2] /\ t[2] = a[2]
    BY <1>13, <1>9, <1>12
  <2>2. t = a
    BY <2>1, <1>9, <1>11, Geometry
  <2> QED
    BY <2>2, <1>7
<1>14. CASE a[2] # x[2]
  <2>1. z[2] >= a[2]
    BY <1>14, <1>12, <1>8, <1>4
  <2>2. x[1] \in At(a)
    BY <2>1, <1>9, <1>11, Geometry
  <2>3. a = x
    BY <2>2, <1>1, <1>9
  <2> QED
    BY <2>3, <1>14
<1> QED
  BY <1>13, <1>14

\* The addresses where a block may begin are the multiples of its size.
LEMMA Multiple == ASSUME NEW p \in Nat, NEW s \in Nat \ {0}
                  PROVE  p % s = 0 <=> \E k \in Nat : p = k * s
<1>1. ASSUME NEW k \in Nat, p = k * s PROVE p % s = 0
  BY <1>1, SMT
<1>2. ASSUME p % s = 0 PROVE \E k \in Nat : p = k * s
  BY <1>2, SMT
<1> QED
  BY <1>1, <1>2

LEMMA Aligned ==
  ASSUME NEW b \in Buckets, NEW p \in Nat
  PROVE  p \in Starts(b) <=> p % Size(b) = 0 /\ p + Size(b) <= Units
<1> DEFINE s == Size(b)
<1>1. s \in Nat \ {0} /\ Pow2[b] \in Nat \ {0} /\ Pow2[b] * s = Units
  BY Positive, BlocksFill
<1>2. ASSUME p \in Starts(b) PROVE p % s = 0 /\ p + s <= Units
  <2>1. \E k \in Nat : p = k * s
    BY <1>1, <1>2 DEF Starts
  <2> QED
    BY <2>1, <1>1, <1>2, Multiple, StartInHeap
<1>3. ASSUME p % s = 0, p + s <= Units PROVE p \in Starts(b)
  <2> HIDE DEF s
  <2>1. PICK k \in Nat : p = k * s
    BY <1>1, <1>3, Multiple
  <2>2. k < Pow2[b]
    <3> SUFFICES ASSUME Pow2[b] <= k PROVE FALSE
      BY <1>1
    <3>1. s * Pow2[b] <= s * k
      BY <1>1, ProductMonotone
    <3>2. s * Pow2[b] = Pow2[b] * s /\ s * k = k * s
      BY <1>1
    <3>3. Units <= p
      BY <3>1, <3>2, <2>1, <1>1
    <3> QED
      BY <3>3, <1>1, <1>3, Positive
  <2>3. k \in 0 .. Pow2[b] - 1
    BY <2>2, <1>1
  <2> QED
    BY <2>1, <2>3 DEF Starts, s
<1> QED
  BY <1>2, <1>3
=============================================================================
