---------------------- MODULE ProducersConsumers_proofs ----------------------
(***************************************************************************)
(* Proofs about ProducersConsumers, for every number of children, slots    *)
(* and iterations.  The invariants relate the three semaphores, the two    *)
(* positions and the point the child inside has reached; IInv spells that  *)
(* relation out for each point.                                            *)
(***************************************************************************)
EXTENDS ProducersConsumers, FiniteSetTheorems, SequenceTheorems, TLAPS

\* Only producers stand at the steps of producer(), only consumers at those of
\* consumer(); children not yet forked stand nowhere.
Roles ==
    /\ \A p \in Children : pc[p] \in {"load", "write"} => p \in Producers
    /\ \A p \in Children : pc[p] = "read" => p \in Consumers
    /\ \A p \in Children : p >= forked => pc[p] = "unborn"

\* Iterations are left exactly as long as the child runs.
Iterations == \A p \in Children : todo[p] = 0 <=> pc[p] = "exited"

\* While producer p is inside, SEM_F misses the item between the store of the
\* position and the final semop.
PutsOne(p) ==
    /\ f = wpos - rpos - (IF pc[p] = "end" THEN 1 ELSE 0)
    /\ Len(taken) = rpos
    /\ pc[p] = "store" => reg[p] = wpos

\* While consumer p is inside, SEM_F no longer counts the item it is taking.
TakesOne(p) ==
    /\ f = wpos - rpos - (IF pc[p] = "end" THEN 0 ELSE 1)
    /\ Len(taken) = rpos + (IF pc[p] \in {"bump", "store"} THEN 1 ELSE 0)
    /\ pc[p] = "store" => reg[p] = rpos

\* A child that is inside holds SEM_BIN alone, and one slot is neither free
\* nor full.
Busy ==
    \A p \in Children : Inside(p) =>
        /\ bin = 0
        /\ \A q \in Children : Inside(q) => q = p
        /\ e + f + 1 = EMPTY_NUM
        /\ IF p \in Producers THEN PutsOne(p) ELSE TakesOne(p)

\* When nobody is inside the semaphores count the slots exactly.
Quiet ==
    (\A p \in Children : ~Inside(p)) =>
        /\ bin = 1
        /\ e + f = EMPTY_NUM
        /\ f = wpos - rpos
        /\ Len(taken) = rpos

Removed == main = "removed" => \A p \in Children : pc[p] = "exited"

IInv == TypeOK /\ Roles /\ Iterations /\ Busy /\ Quiet /\ Removed

-----------------------------------------------------------------------------
\* What the proofs need to know of the two kinds of children.
LEMMA Kinds ==
  /\ Children \subseteq Nat
  /\ Producers \subseteq Children
  /\ Consumers = Children \ Producers
  BY ProducersConsumersAssumption DEF Children, Producers, Consumers

\* The initial state satisfies the inductive invariant.
LEMMA InitIInv == Init => IInv
<1> SUFFICES ASSUME Init PROVE IInv
  OBVIOUS
<1> USE ProducersConsumersAssumption DEF Init
<1>1. TypeOK
  BY Kinds DEF TypeOK, Children
<1>2. Roles /\ Iterations /\ Busy /\ Quiet /\ Removed
  BY Kinds DEF Roles, Iterations, Busy, Quiet, Removed, Inside
<1> QED
  BY <1>1, <1>2 DEF IInv

\* A producer that locks the buffer finds nobody inside, and becomes the one.
LEMMA ProdStartIInv ==
  ASSUME IInv, NEW p \in Producers, ProdStart(p)
  PROVE  IInv'
<1> USE ProducersConsumersAssumption, Kinds DEF IInv, ProdStart, Goto, sems, buf
<1>1. \A q \in Children : ~Inside(q)
  BY DEF Busy
<1>2. TypeOK'
  BY DEF TypeOK
<1>3. Roles' /\ Iterations' /\ Removed'
  BY DEF TypeOK, Roles, Iterations, Removed
<1>4. Busy'
  BY <1>1 DEF TypeOK, Busy, Quiet, PutsOne, TakesOne, Inside
<1>5. Quiet'
  BY DEF Quiet, Inside, TypeOK
<1> QED
  BY <1>2, <1>3, <1>4, <1>5

\* The steps inside keep everybody else outside.
LEMMA LoadSlotIInv ==
  ASSUME IInv, NEW p \in Producers, LoadSlot(p)
  PROVE  IInv'
<1> USE ProducersConsumersAssumption, Kinds DEF IInv, LoadSlot, Goto, sems, buf
<1>1. Inside(p) /\ Inside(p)' /\ \A q \in Children \ {p} : ~Inside(q) /\ ~Inside(q)'
  BY DEF TypeOK, Busy, Inside
<1>2. TypeOK'
  BY DEF TypeOK
<1>3. Roles' /\ Iterations' /\ Removed'
  BY DEF TypeOK, Roles, Iterations, Removed
<1>4. Busy'
  BY <1>1 DEF TypeOK, Busy, PutsOne, TakesOne, Roles
<1>5. Quiet'
  BY <1>1 DEF Quiet
<1> QED
  BY <1>2, <1>3, <1>4, <1>5

LEMMA WriteSlotIInv ==
  ASSUME IInv, NEW p \in Producers, WriteSlot(p)
  PROVE  IInv'
<1> USE ProducersConsumersAssumption, Kinds DEF IInv, WriteSlot, Goto, sems, buf
<1>1. Inside(p) /\ Inside(p)' /\ \A q \in Children \ {p} : ~Inside(q) /\ ~Inside(q)'
  BY DEF TypeOK, Busy, Inside
<1>2. TypeOK'
  <2>1. reg[p] \in Int
    BY DEF TypeOK
  <2>2. data' \in [0 .. EMPTY_NUM - 1 -> Int]
    BY <2>1 DEF TypeOK
  <2> QED
    BY <2>2 DEF TypeOK
<1>3. Roles' /\ Iterations' /\ Removed'
  BY DEF TypeOK, Roles, Iterations, Removed
<1>4. Busy'
  BY <1>1 DEF TypeOK, Busy, PutsOne, TakesOne, Roles
<1>5. Quiet'
  BY <1>1 DEF Quiet
<1> QED
  BY <1>2, <1>3, <1>4, <1>5

LEMMA LoadWposIInv ==
  ASSUME IInv, NEW p \in Producers, LoadWpos(p)
  PROVE  IInv'
<1> USE ProducersConsumersAssumption, Kinds DEF IInv, LoadWpos, Goto, sems, buf
<1>1. Inside(p) /\ Inside(p)' /\ \A q \in Children \ {p} : ~Inside(q) /\ ~Inside(q)'
  BY DEF TypeOK, Busy, Inside
<1>2. TypeOK'
  BY DEF TypeOK
<1>3. Roles' /\ Iterations' /\ Removed'
  BY DEF TypeOK, Roles, Iterations, Removed
<1>4. Busy'
  BY <1>1 DEF TypeOK, Busy, PutsOne, TakesOne, Roles
<1>5. Quiet'
  BY <1>1 DEF Quiet
<1> QED
  BY <1>2, <1>3, <1>4, <1>5

LEMMA StoreWposIInv ==
  ASSUME IInv, NEW p \in Producers, StoreWpos(p)
  PROVE  IInv'
<1> USE ProducersConsumersAssumption, Kinds DEF IInv, StoreWpos, Goto, sems, buf
<1>1. Inside(p) /\ Inside(p)' /\ \A q \in Children \ {p} : ~Inside(q) /\ ~Inside(q)'
  BY DEF TypeOK, Busy, Inside
<1>2. TypeOK'
  BY DEF TypeOK
<1>3. Roles' /\ Iterations' /\ Removed'
  BY DEF TypeOK, Roles, Iterations, Removed
<1>4. Busy'
  BY <1>1 DEF TypeOK, Busy, PutsOne, TakesOne, Roles
<1>5. Quiet'
  BY <1>1 DEF Quiet
<1> QED
  BY <1>2, <1>3, <1>4, <1>5

\* A producer that leaves returns SEM_BIN and counts its item.
LEMMA ProdEndIInv ==
  ASSUME IInv, NEW p \in Producers, ProdEnd(p)
  PROVE  IInv'
<1> USE ProducersConsumersAssumption, Kinds DEF IInv, ProdEnd, AfterIteration, Goto, sems, buf
<1>1. Inside(p) /\ \A q \in Children : ~Inside(q)'
  BY DEF TypeOK, Busy, Inside
<1>0. todo[p] \in Nat \ {0}
  BY DEF TypeOK, Iterations
<1>2. TypeOK'
  BY <1>0 DEF TypeOK
<1>3. Roles' /\ Iterations' /\ Removed'
  BY <1>0 DEF TypeOK, Roles, Iterations, Removed
<1>4. Busy'
  BY <1>1 DEF Busy
<1>5. Quiet'
  BY <1>1 DEF TypeOK, Busy, Quiet, PutsOne, TakesOne
<1> QED
  BY <1>2, <1>3, <1>4, <1>5

\* So does a consumer.
LEMMA ReadStartIInv ==
  ASSUME IInv, NEW p \in Consumers, ReadStart(p)
  PROVE  IInv'
<1> USE ProducersConsumersAssumption, Kinds DEF IInv, ReadStart, Goto, sems, buf
<1>1. \A q \in Children : ~Inside(q)
  BY DEF Busy
<1>2. TypeOK'
  BY DEF TypeOK
<1>3. Roles' /\ Iterations' /\ Removed'
  BY DEF TypeOK, Roles, Iterations, Removed
<1>4. Busy'
  BY <1>1 DEF TypeOK, Busy, Quiet, PutsOne, TakesOne, Inside
<1>5. Quiet'
  BY DEF Quiet, Inside, TypeOK
<1> QED
  BY <1>2, <1>3, <1>4, <1>5

LEMMA ReadSlotIInv ==
  ASSUME IInv, NEW p \in Consumers, ReadSlot(p)
  PROVE  IInv'
<1> USE ProducersConsumersAssumption, Kinds DEF IInv, ReadSlot, Slot, Goto, sems, buf
<1>1. Inside(p) /\ Inside(p)' /\ \A q \in Children \ {p} : ~Inside(q) /\ ~Inside(q)'
  BY DEF TypeOK, Busy, Inside
<1>2. TypeOK'
  BY DEF TypeOK
<1>3. Roles' /\ Iterations' /\ Removed'
  BY DEF TypeOK, Roles, Iterations, Removed
<1>4. Busy'
  BY <1>1 DEF TypeOK, Busy, PutsOne, TakesOne, Roles
<1>5. Quiet'
  BY <1>1 DEF Quiet
<1> QED
  BY <1>2, <1>3, <1>4, <1>5

LEMMA LoadRposIInv ==
  ASSUME IInv, NEW p \in Consumers, LoadRpos(p)
  PROVE  IInv'
<1> USE ProducersConsumersAssumption, Kinds DEF IInv, LoadRpos, Goto, sems, buf
<1>1. Inside(p) /\ Inside(p)' /\ \A q \in Children \ {p} : ~Inside(q) /\ ~Inside(q)'
  BY DEF TypeOK, Busy, Inside
<1>2. TypeOK'
  BY DEF TypeOK
<1>3. Roles' /\ Iterations' /\ Removed'
  BY DEF TypeOK, Roles, Iterations, Removed
<1>4. Busy'
  BY <1>1 DEF TypeOK, Busy, PutsOne, TakesOne, Roles
<1>5. Quiet'
  BY <1>1 DEF Quiet
<1> QED
  BY <1>2, <1>3, <1>4, <1>5

LEMMA StoreRposIInv ==
  ASSUME IInv, NEW p \in Consumers, StoreRpos(p)
  PROVE  IInv'
<1> USE ProducersConsumersAssumption, Kinds DEF IInv, StoreRpos, Goto, sems, buf
<1>1. Inside(p) /\ Inside(p)' /\ \A q \in Children \ {p} : ~Inside(q) /\ ~Inside(q)'
  BY DEF TypeOK, Busy, Inside
<1>2. TypeOK'
  BY DEF TypeOK
<1>3. Roles' /\ Iterations' /\ Removed'
  BY DEF TypeOK, Roles, Iterations, Removed
<1>4. Busy'
  <2>1. reg[p] = rpos /\ TakesOne(p) /\ bin = 0 /\ e + f + 1 = EMPTY_NUM
    BY <1>1 DEF TypeOK, Busy, TakesOne
  <2>2. TakesOne(p)'
    BY <2>1 DEF TypeOK, TakesOne
  <2> QED
    BY <1>1, <2>1, <2>2 DEF Busy
<1>5. Quiet'
  BY <1>1 DEF Quiet
<1> QED
  BY <1>2, <1>3, <1>4, <1>5

\* A consumer that leaves returns SEM_BIN and its slot.
LEMMA ReadEndIInv ==
  ASSUME IInv, NEW p \in Consumers, ReadEnd(p)
  PROVE  IInv'
<1> USE ProducersConsumersAssumption, Kinds DEF IInv, ReadEnd, AfterIteration, Goto, sems, buf
<1>1. Inside(p) /\ \A q \in Children : ~Inside(q)'
  BY DEF TypeOK, Busy, Inside
<1>0. todo[p] \in Nat \ {0}
  BY DEF TypeOK, Iterations
<1>2. TypeOK'
  BY <1>0 DEF TypeOK
<1>3. Roles' /\ Iterations' /\ Removed'
  BY <1>0 DEF TypeOK, Roles, Iterations, Removed
<1>4. Busy'
  BY <1>1 DEF Busy
<1>5. Quiet'
  BY <1>1 DEF TypeOK, Busy, Quiet, PutsOne, TakesOne
<1> QED
  BY <1>2, <1>3, <1>4, <1>5

\* main never touches what the children share: a new child stands outside.
LEMMA ForkIInv == ASSUME IInv, Fork PROVE IInv'
<1> USE ProducersConsumersAssumption DEF IInv, Fork, sems, buf
<1>1. forked \in Children /\ pc[forked] = "unborn"
  BY DEF TypeOK, Roles, Children
<1>2. TypeOK'
  <2>1. forked' \in 0 .. 2 * PROC_AMOUNT
    BY DEF TypeOK
  <2> QED
    BY <1>1, <2>1 DEF TypeOK
<1>3. Roles' /\ Iterations' /\ Removed'
  BY <1>1, Kinds DEF TypeOK, Roles, Iterations, Removed
<1>4. \A q \in Children : /\ Inside(q)' <=> Inside(q)
                          /\ Inside(q) => pc'[q] = pc[q]
  BY <1>1 DEF TypeOK, Inside
<1>5. Busy' /\ Quiet'
  BY <1>4 DEF Busy, Quiet, PutsOne, TakesOne
<1> QED
  BY <1>2, <1>3, <1>5

LEMMA MainIInv == ASSUME IInv, Main PROVE IInv'
<1>1. CASE Fork
  BY <1>1, ForkIInv
<1>2. CASE ForkFails \/ Remove
  <2> USE <1>2 DEF IInv, ForkFails, Remove, sems, buf
  <2>1. TypeOK' /\ Roles' /\ Iterations' /\ Removed'
    BY DEF TypeOK, Roles, Iterations, Removed
  <2>2. Busy' /\ Quiet'
    BY DEF Busy, Quiet, PutsOne, TakesOne, Inside
  <2> QED
    BY <2>1, <2>2
<1> QED
  BY <1>1, <1>2 DEF Main

\* Every step preserves the inductive invariant.
LEMMA NextIInv == IInv /\ [Next]_vars => IInv'
<1> SUFFICES ASSUME IInv, [Next]_vars PROVE IInv'
  OBVIOUS
<1>1. ASSUME NEW p \in Producers, Producer(p) PROVE IInv'
  BY <1>1, ProdStartIInv, LoadSlotIInv, WriteSlotIInv, LoadWposIInv, StoreWposIInv, ProdEndIInv
     DEF Producer
<1>2. ASSUME NEW p \in Consumers, Consumer(p) PROVE IInv'
  BY <1>2, ReadStartIInv, ReadSlotIInv, LoadRposIInv, StoreRposIInv, ReadEndIInv
     DEF Consumer
<1>3. CASE Main
  BY <1>3, MainIInv
<1>4. CASE Terminated \/ UNCHANGED vars
  <2> USE <1>4 DEF Terminated, vars, sems, buf, IInv
  <2>1. TypeOK' /\ Roles' /\ Iterations' /\ Removed'
    BY DEF TypeOK, Roles, Iterations, Removed
  <2>2. Busy' /\ Quiet'
    BY DEF Busy, Quiet, PutsOne, TakesOne, Inside
  <2> QED
    BY <2>1, <2>2
<1> QED
  BY <1>1, <1>2, <1>3, <1>4 DEF Next

LEMMA AlwaysIInv == Spec => []IInv
  BY InitIInv, NextIInv, PTL DEF Spec

-----------------------------------------------------------------------------
\* The semaphores, positions and program points keep their ranges.
THEOREM TypeCorrect == Spec => []TypeOK
<1>1. IInv => TypeOK
  BY DEF IInv
<1> QED
  BY <1>1, AlwaysIInv, PTL

\* Two children are never both between their semops, whatever their number.
THEOREM Exclusion == Spec => []MutualExclusion
<1>1. IInv => MutualExclusion
  BY DEF IInv, Busy, MutualExclusion
<1> QED
  BY <1>1, AlwaysIInv, PTL

\* A consumer never reads a slot that was not filled or was read already.
THEOREM ReadsFilled == Spec => []ReadsFilledSlot
<1>1. IInv => ReadsFilledSlot
  BY Kinds DEF IInv, TypeOK, Busy, TakesOne, Inside, ReadsFilledSlot
<1> QED
  BY <1>1, AlwaysIInv, PTL

\* Producers are never more than EMPTY_NUM items ahead of consumers.
THEOREM Overfull == Spec => []NeverOverfull
<1>1. IInv => NeverOverfull
  <2> SUFFICES ASSUME IInv PROVE NeverOverfull
    OBVIOUS
  <2> USE ProducersConsumersAssumption DEF IInv, TypeOK, NeverOverfull
  <2>1. CASE \E p \in Children : Inside(p)
    <3>1. PICK p \in Children : Inside(p)
      BY <2>1
    <3>2. e + f + 1 = EMPTY_NUM
      BY <3>1 DEF Busy
    <3>3. PutsOne(p) \/ TakesOne(p)
      BY <3>1 DEF Busy
    <3>4. wpos - rpos <= f + 1
      BY <3>3 DEF PutsOne, TakesOne
    <3> QED
      BY <3>2, <3>4
  <2>2. CASE \A p \in Children : ~Inside(p)
    BY <2>2 DEF Quiet
  <2> QED
    BY <2>1, <2>2
<1> QED
  BY <1>1, AlwaysIInv, PTL

\* main removes the shared memory only when every child has exited.
THEOREM RemovedLast == Spec => []RemovedWhenUnused
<1>1. IInv => RemovedWhenUnused
  BY DEF IInv, Iterations, Removed, Inside, RemovedWhenUnused
<1> QED
  BY <1>1, AlwaysIInv, PTL
-----------------------------------------------------------------------------
(***************************************************************************)
(* The positions do not wrap: all that is ever produced has to fit.  wpos  *)
(* counts the rounds of the producers that have stored it, so it cannot    *)
(* pass the number of rounds there are.                                    *)
(***************************************************************************)
Fits == PROC_AMOUNT * PRODUCE_NUM <= EMPTY_NUM

\* The rounds in which producer p has stored wpos, and the rounds of all.
StoredBy(p)  == PRODUCE_NUM - todo[p] + (IF pc[p] = "end" THEN 1 ELSE 0)
Rounds       == Producers \X (1 .. PRODUCE_NUM)
StoredRounds == {x \in Rounds : x[2] <= StoredBy(x[1])}

Counted ==
    /\ \A p \in Producers : todo[p] <= PRODUCE_NUM
    /\ wpos = Cardinality(StoredRounds)

\* A producer between its load and its store has put its item at wpos.
Placed == \A p \in Producers :
    /\ pc[p] = "write" => reg[p] = wpos
    /\ pc[p] \in {"bump", "store"} /\ wpos < EMPTY_NUM => data[wpos] = wpos

LInv == IInv /\ Counted /\ Placed

\* Every other child produces.
LEMMA RoundsCounted ==
  IsFiniteSet(Rounds) /\ Cardinality(Rounds) = PROC_AMOUNT * PRODUCE_NUM
<1> USE ProducersConsumersAssumption
<1> DEFINE g == [k \in 0 .. PROC_AMOUNT - 1 |-> 2 * k]
<1>1. g \in Bijection(0 .. PROC_AMOUNT - 1, Producers)
  <2>1. \A k \in 0 .. PROC_AMOUNT - 1 : 2 * k \in Producers
    BY DEF Producers, Children
  <2>2. \A p \in Producers : \E k \in 0 .. PROC_AMOUNT - 1 : p = 2 * k
    <3> SUFFICES ASSUME NEW p \in Producers PROVE \E k \in 0 .. PROC_AMOUNT - 1 : p = 2 * k
      OBVIOUS
    <3>1. p \in 0 .. 2 * PROC_AMOUNT - 1 /\ p % 2 = 0
      BY DEF Producers, Children
    <3>2. p = 2 * (p \div 2) /\ p \div 2 \in 0 .. PROC_AMOUNT - 1
      BY <3>1
    <3> QED
      BY <3>2
  <2>3. g \in Injection(0 .. PROC_AMOUNT - 1, Producers)
    <3>1. \A j, k \in 0 .. PROC_AMOUNT - 1 : g[j] = g[k] => j = k
      OBVIOUS
    <3> QED
      BY <2>1, <3>1 DEF Injection, IsInjective
  <2>4. g \in Surjection(0 .. PROC_AMOUNT - 1, Producers)
    BY <2>1, <2>2 DEF Surjection
  <2> QED
    BY <2>3, <2>4 DEF Bijection
<1>2. IsFiniteSet(0 .. PROC_AMOUNT - 1) /\ Cardinality(0 .. PROC_AMOUNT - 1) = PROC_AMOUNT
  BY FS_Interval
<1>3. IsFiniteSet(Producers) /\ Cardinality(Producers) = PROC_AMOUNT
  BY <1>1, <1>2, FS_Bijection DEF ExistsBijection
<1>4. IsFiniteSet(1 .. PRODUCE_NUM) /\ Cardinality(1 .. PRODUCE_NUM) = PRODUCE_NUM
  BY FS_Interval
<1> QED
  BY <1>3, <1>4, FS_Product DEF Rounds

\* No position is past the end, and none is at the end while a round is under way.
LEMMA PositionsFit ==
  ASSUME Fits, LInv
  PROVE  /\ wpos <= EMPTY_NUM
         /\ \A p \in Producers : pc[p] \in {"load", "write", "bump", "store"}
               => wpos < EMPTY_NUM
<1> USE ProducersConsumersAssumption DEF LInv
<1>1. IsFiniteSet(StoredRounds) /\ Cardinality(StoredRounds) <= Cardinality(Rounds)
      /\ (Cardinality(StoredRounds) = Cardinality(Rounds) => StoredRounds = Rounds)
  BY RoundsCounted, FS_Subset DEF StoredRounds
<1>2. Cardinality(StoredRounds) \in Nat /\ Cardinality(Rounds) \in Nat
  BY <1>1, RoundsCounted, FS_CardinalityType
<1>3. wpos <= EMPTY_NUM
  BY <1>1, <1>2, RoundsCounted DEF Counted, Fits
<1>4. ASSUME NEW p \in Producers, pc[p] \in {"load", "write", "bump", "store"}
      PROVE  wpos < EMPTY_NUM
  <2>1. todo[p] \in 1 .. PRODUCE_NUM
    BY <1>4, Kinds DEF IInv, TypeOK, Iterations, Counted
  <2>2. <<p, PRODUCE_NUM>> \in Rounds \ StoredRounds
    BY <1>4, <2>1 DEF Rounds, StoredRounds, StoredBy
  <2>3. Cardinality(StoredRounds) < Cardinality(Rounds)
    BY <1>1, <1>2, <2>2
  <2> QED
    BY <2>3, <1>2, RoundsCounted DEF Counted, Fits
<1> QED
  BY <1>3, <1>4

LEMMA InitLInv == Init => LInv
<1> SUFFICES ASSUME Init PROVE LInv
  OBVIOUS
<1>1. IInv
  BY InitIInv
<1>2. StoredRounds = {}
  <2>1. \A p \in Producers : StoredBy(p) = 0
    BY ProducersConsumersAssumption, Kinds DEF Init, StoredBy
  <2> QED
    BY <2>1 DEF StoredRounds, Rounds
<1>3. Counted
  BY <1>2, FS_EmptySet, ProducersConsumersAssumption, Kinds DEF Init, Counted
<1>4. Placed
  BY Kinds DEF Init, Placed
<1> QED
  BY <1>1, <1>3, <1>4 DEF LInv

\* Every step but the store of wpos leaves wpos and the rounds as they are.
LEMMA StoresOnly ==
  ASSUME LInv, [Next]_vars, ~ \E p \in Producers : StoreWpos(p)
  PROVE  /\ wpos' = wpos
         /\ \A p \in Producers : todo'[p] <= todo[p] /\ StoredBy(p)' = StoredBy(p)
<1> USE ProducersConsumersAssumption DEF sems, buf
<1>0. /\ pc \in [Children -> {"unborn", "idle", "load", "write", "read", "bump", "store",
                            "end", "exited"}]
      /\ todo \in [Children -> Nat]
      /\ \A p \in Children : pc[p] # "exited" => todo[p] \in Nat \ {0}
  BY DEF LInv, IInv, TypeOK, Iterations
<1>1. wpos' = wpos
  BY DEF Next, Producer, ProdStart, LoadSlot, WriteSlot, LoadWpos, ProdEnd, Consumer,
         ReadStart, ReadSlot, LoadRpos, StoreRpos, ReadEnd, Main, Fork, ForkFails, Remove,
         Terminated, vars
<1>2. ASSUME NEW p \in Producers
      PROVE  todo'[p] <= todo[p] /\ StoredBy(p)' = StoredBy(p)
  <2>1. p \in Children /\ p \notin Consumers /\ todo[p] \in Nat
    BY <1>0, Kinds
  <2>2. ASSUME NEW q \in Producers, Producer(q)
        PROVE  todo'[p] <= todo[p] /\ StoredBy(p)' = StoredBy(p)
    <3>1. CASE ProdStart(q) \/ LoadSlot(q) \/ WriteSlot(q) \/ LoadWpos(q)
      <4>1. todo' = todo /\ (pc'[p] = "end" <=> pc[p] = "end")
        BY <3>1, <1>0, <2>1 DEF ProdStart, LoadSlot, WriteSlot, LoadWpos, Goto
      <4> QED
        BY <4>1, <2>1 DEF StoredBy
    <3>2. CASE ProdEnd(q)
      <4>1. CASE q = p
        <5>1. todo'[p] = todo[p] - 1 /\ pc[p] = "end" /\ pc'[p] # "end"
          BY <3>2, <4>1, <1>0, <2>1 DEF ProdEnd, AfterIteration, Goto
        <5> QED
          BY <5>1, <2>1 DEF StoredBy
      <4>2. CASE q # p
        <5>1. todo'[p] = todo[p] /\ pc'[p] = pc[p]
          BY <3>2, <4>2, <1>0, <2>1 DEF ProdEnd, Goto
        <5> QED
          BY <5>1, <2>1 DEF StoredBy
      <4> QED
        BY <4>1, <4>2
    <3> QED
      BY <2>2, <3>1, <3>2 DEF Producer
  <2>3. ASSUME NEW q \in Consumers, Consumer(q) PROVE todo'[p] = todo[p] /\ pc'[p] = pc[p]
    BY <2>3, <2>1, <1>0
       DEF Consumer, ReadStart, ReadSlot, LoadRpos, StoreRpos, ReadEnd, Goto
  <2>4. CASE Main
    <3>1. CASE Fork
      <4>1. pc[forked] = "unborn"
        BY <3>1 DEF Fork, LInv, IInv, TypeOK, Roles, Children
      <4>2. todo' = todo /\ (pc'[p] = "end" <=> pc[p] = "end")
        BY <3>1, <4>1, <1>0, <2>1 DEF Fork
      <4> QED
        BY <4>2, <2>1 DEF StoredBy
    <3> QED
      BY <2>4, <3>1, <2>1 DEF Main, ForkFails, Remove, StoredBy
  <2>5. CASE Terminated \/ UNCHANGED vars
    BY <2>5, <2>1 DEF Terminated, vars, StoredBy
  <2>6. CASE todo'[p] = todo[p] /\ pc'[p] = pc[p]
    BY <2>6, <2>1 DEF StoredBy
  <2> QED
    BY <2>2, <2>3, <2>4, <2>5, <2>6 DEF Next
<1> QED
  BY <1>1, <1>2

\* The store of wpos adds one round to those that have stored it.
LEMMA CountedKept == LInv /\ [Next]_vars => Counted'
<1> SUFFICES ASSUME LInv, [Next]_vars PROVE Counted'
  OBVIOUS
<1>1. CASE \E p \in Producers : StoreWpos(p)
  <2>1. PICK p \in Producers : StoreWpos(p)
    BY <1>1
  <2> DEFINE x == <<p, StoredBy(p) + 1>>
  <2> USE ProducersConsumersAssumption, Kinds, <2>1 DEF LInv, IInv, StoreWpos, Goto
  <2>2. todo[p] \in 1 .. PRODUCE_NUM /\ StoredBy(p) \in 0 .. PRODUCE_NUM - 1
    BY DEF TypeOK, Iterations, Counted, StoredBy
  <2>3. x \in Rounds \ StoredRounds
    BY <2>2 DEF Rounds, StoredRounds
  <2>4. StoredBy(p)' = StoredBy(p) + 1 /\ \A q \in Producers \ {p} : StoredBy(q)' = StoredBy(q)
    BY DEF TypeOK, StoredBy
  <2>5. \A q \in Producers : StoredBy(q) \in Int
    BY DEF TypeOK, StoredBy
  <2>6. StoredRounds' = StoredRounds \union {x}
    <3>1. ASSUME NEW q \in Producers, NEW k \in 1 .. PRODUCE_NUM
          PROVE  <<q, k>> \in StoredRounds' <=> <<q, k>> \in StoredRounds \union {x}
      <4>1. CASE q = p
        BY <4>1, <2>2, <2>4 DEF StoredRounds, Rounds
      <4>2. CASE q # p
        BY <4>2, <2>4 DEF StoredRounds, Rounds
      <4> QED
        BY <4>1, <4>2
    <3>2. StoredRounds \union {x} \subseteq Rounds
      BY <2>3 DEF StoredRounds
    <3>3. StoredRounds' \subseteq Rounds
      BY DEF StoredRounds, Rounds
    <3>4. \A y \in Rounds : \E q \in Producers, k \in 1 .. PRODUCE_NUM : y = <<q, k>>
      <4> TAKE y \in Rounds
      <4>1. y[1] \in Producers /\ y[2] \in 1 .. PRODUCE_NUM /\ y = <<y[1], y[2]>>
        BY DEF Rounds
      <4> QED
        BY <4>1
    <3> QED
      BY <3>1, <3>2, <3>3, <3>4
  <2>7. IsFiniteSet(StoredRounds)
    BY RoundsCounted, FS_Subset DEF StoredRounds
  <2>8. Cardinality(StoredRounds') = Cardinality(StoredRounds) + 1
    BY <2>3, <2>6, <2>7, FS_AddElement
  <2>9. wpos' = wpos + 1
    BY DEF TypeOK, Busy, PutsOne, Inside
  <2> QED
    BY <2>8, <2>9 DEF Counted
<1>2. CASE ~ \E p \in Producers : StoreWpos(p)
  <2>1. StoredRounds' = StoredRounds
    BY <1>2, StoresOnly DEF StoredRounds, Rounds
  <2>2. \A p \in Producers : todo[p] \in Nat /\ todo'[p] \in Nat
    BY NextIInv, Kinds DEF LInv, IInv, TypeOK
  <2> QED
    BY <1>2, <2>1, <2>2, StoresOnly, ProducersConsumersAssumption DEF LInv, Counted
<1> QED
  BY <1>1, <1>2

\* Only the child inside moves reg, wpos or a slot.
LEMMA PlacedKept == LInv /\ [Next]_vars => Placed'
<1> SUFFICES ASSUME LInv, [Next]_vars, NEW p \in Producers
             PROVE  /\ pc'[p] = "write" => reg'[p] = wpos'
                    /\ pc'[p] \in {"bump", "store"} /\ wpos' < EMPTY_NUM => data'[wpos'] = wpos'
  BY DEF Placed
<1> USE ProducersConsumersAssumption, Kinds DEF LInv, IInv, TypeOK, Goto, sems, buf, Placed
<1>1. ASSUME NEW q \in Producers, Producer(q)
      PROVE  /\ pc'[p] = "write" => reg'[p] = wpos'
             /\ pc'[p] \in {"bump", "store"} /\ wpos' < EMPTY_NUM => data'[wpos'] = wpos'
  <2>1. CASE ProdStart(q) \/ LoadSlot(q) \/ LoadWpos(q) \/ ProdEnd(q)
    BY <2>1 DEF ProdStart, LoadSlot, LoadWpos, ProdEnd, AfterIteration, Busy, Inside
  <2>2. CASE WriteSlot(q)
    BY <2>2 DEF WriteSlot, Busy, Inside
  <2>3. CASE StoreWpos(q)
    BY <2>3 DEF StoreWpos, Busy, Inside
  <2> QED
    BY <1>1, <2>1, <2>2, <2>3 DEF Producer
<1>2. ASSUME NEW q \in Consumers, Consumer(q)
      PROVE  /\ pc'[p] = "write" => reg'[p] = wpos'
             /\ pc'[p] \in {"bump", "store"} /\ wpos' < EMPTY_NUM => data'[wpos'] = wpos'
  BY <1>2 DEF Consumer, ReadStart, ReadSlot, LoadRpos, StoreRpos, ReadEnd, AfterIteration
<1>3. CASE Main
  BY <1>3 DEF Main, Fork, ForkFails, Remove
<1>4. CASE Terminated \/ UNCHANGED vars
  BY <1>4 DEF Terminated, vars
<1> QED
  BY <1>1, <1>2, <1>3, <1>4 DEF Next

LEMMA NextLInv == LInv /\ [Next]_vars => LInv'
  BY NextIInv, CountedKept, PlacedKept DEF LInv

LEMMA AlwaysLInv == Spec => []LInv
  BY InitLInv, NextLInv, PTL DEF Spec

\* Where all that is produced fits, no child stores to or reads from a slot past the
\* end of the buffer, however many they are.
THEOREM InBounds == Fits => (Spec => []SlotsInBounds)
<1> SUFFICES ASSUME Fits PROVE Spec => []SlotsInBounds
  OBVIOUS
<1>1. LInv => SlotsInBounds
  <2> SUFFICES ASSUME LInv, NEW p \in Children
               PROVE  /\ pc[p] = "write" => reg[p] < EMPTY_NUM
                      /\ pc[p] = "read" => rpos < EMPTY_NUM
    BY DEF SlotsInBounds
  <2> USE ProducersConsumersAssumption, Kinds DEF LInv, IInv
  <2>1. CASE pc[p] = "write"
    BY <2>1, PositionsFit DEF Roles, Placed
  <2>2. CASE pc[p] = "read"
    <3>1. p \in Consumers /\ f = wpos - rpos - 1
      BY <2>2 DEF Roles, Busy, TakesOne, Inside
    <3> QED
      BY <3>1, <2>2, PositionsFit DEF TypeOK
  <2> QED
    BY <2>1, <2>2
<1> QED
  BY <1>1, AlwaysLInv, PTL

-----------------------------------------------------------------------------
(***************************************************************************)
(* The buffer implements BoundedQueue: the queue is what lies between the  *)
(* items taken and wpos.  It grows when wpos is stored, the item being in  *)
(* its slot by then, and shrinks when a consumer reads.                    *)
(***************************************************************************)
Queue == [k \in 1 .. wpos - Len(taken) |-> Slot(Len(taken) + k - 1)]

\* Two functions that agree but for the last element: one is the other with it appended.
LEMMA Extended ==
  ASSUME NEW n \in Nat, NEW s \in [1 .. n -> Int], NEW t \in [1 .. n + 1 -> Int],
         \A k \in 1 .. n : t[k] = s[k]
  PROVE  Len(s) = n /\ t = Append(s, t[n + 1])
<1>1. s \in Seq(Int) /\ Len(s) = n
  OBVIOUS
<1>2. t \in Seq(Int) /\ Len(t) = n + 1 /\ t[n + 1] \in Int
  OBVIOUS
<1>3. /\ Append(s, t[n + 1]) \in Seq(Int) /\ Len(Append(s, t[n + 1])) = n + 1
      /\ \A k \in 1 .. n + 1 : Append(s, t[n + 1])[k] = t[k]
  BY <1>1, <1>2, AppendProperties
<1> QED
  BY <1>1, <1>2, <1>3, SeqEqual

\* Two functions shifted by one: one is the tail of the other.
LEMMA Shortened ==
  ASSUME NEW n \in Nat, NEW s \in [1 .. n + 1 -> Int], NEW t \in [1 .. n -> Int],
         \A k \in 1 .. n : t[k] = s[k + 1]
  PROVE  s # << >> /\ Head(s) = s[1] /\ t = Tail(s)
<1>1. s \in Seq(Int) /\ Len(s) = n + 1 /\ s # << >>
  OBVIOUS
<1>2. t \in Seq(Int) /\ Len(t) = n
  OBVIOUS
<1>3. /\ Tail(s) \in Seq(Int) /\ Len(Tail(s)) = n
      /\ \A k \in 1 .. n : Tail(s)[k] = t[k]
  BY <1>1, HeadTailProperties
<1>4. Head(s) = s[1]
  BY <1>1
<1>5. t = Tail(s)
  BY <1>2, <1>3, SeqEqual
<1> QED
  BY <1>1, <1>4, <1>5

\* The items of the queue are integers, before and after a step.
Windowed == /\ Len(taken) \in Nat /\ \A k \in Int : Slot(k) \in Int
            /\ Queue \in [1 .. wpos - Len(taken) -> Int]

LEMMA Window == LInv => Windowed
<1> SUFFICES ASSUME LInv PROVE Windowed
  OBVIOUS
<1>1. Len(taken) \in Nat /\ wpos \in Nat /\ data \in [0 .. EMPTY_NUM - 1 -> Int]
  BY DEF LInv, IInv, TypeOK
<1>2. \A k \in Int : Slot(k) \in Int
  BY <1>1, ProducersConsumersAssumption DEF Slot
<1> QED
  BY <1>1, <1>2 DEF Queue, Windowed

LEMMA NextWindow == LInv' => Windowed'
  BY Window, PTL

\* The store of wpos puts an item.
LEMMA StorePuts == ASSUME Fits, LInv, LInv', NEW p \in Producers, StoreWpos(p) PROVE Q!Put
<1> USE ProducersConsumersAssumption
<1>1. /\ p \in Children /\ pc[p] = "store"
      /\ e \in Nat /\ f \in Nat /\ wpos \in Nat /\ rpos \in Nat
      /\ data \in [0 .. EMPTY_NUM - 1 -> Int]
  BY Kinds DEF StoreWpos, Goto, LInv, IInv, TypeOK
<1>2. /\ wpos' = wpos + 1 /\ f = wpos - rpos /\ Len(taken) = rpos
      /\ e + f + 1 = EMPTY_NUM /\ UNCHANGED <<data, taken>>
  BY <1>1 DEF StoreWpos, LInv, IInv, Busy, PutsOne, Inside
<1>3. wpos < EMPTY_NUM /\ data[wpos] = wpos
  BY <1>1, PositionsFit DEF LInv, Placed
<1> DEFINE n == wpos - rpos
<1>4. n \in Nat /\ n < EMPTY_NUM /\ wpos' - Len(taken') = n + 1
  BY <1>1, <1>2
<1>5. Queue \in [1 .. n -> Int] /\ Queue' \in [1 .. n + 1 -> Int]
  BY <1>2, <1>4, Window, NextWindow DEF Windowed
<1>6. \A k \in Int : Slot(k)' = Slot(k)
  BY <1>2 DEF Slot
<1>7. /\ \A k \in 1 .. n : Queue[k] = Slot(rpos + k - 1)
      /\ \A k \in 1 .. n + 1 : Queue'[k] = Slot(rpos + k - 1)
  BY <1>1, <1>2, <1>4, <1>6 DEF Queue
<1>8. Queue'[n + 1] = wpos
  BY <1>1, <1>3, <1>4, <1>7 DEF Slot
<1>9. Len(Queue) = n /\ Queue' = Append(Queue, wpos)
  BY <1>4, <1>5, <1>7, <1>8, Extended
<1>10. Len(Queue) < EMPTY_NUM /\ wpos \in 0 .. EMPTY_NUM - 1 /\ UNCHANGED taken
  BY <1>1, <1>2, <1>3, <1>4, <1>9
<1> QED
  BY <1>9, <1>10, Zenon DEF Q!Put, Queue

\* A consumer's read takes the oldest.
LEMMA ReadGets == ASSUME LInv, LInv', NEW p \in Consumers, ReadSlot(p) PROVE Q!Get
<1>1. /\ p \in Children /\ p \notin Producers /\ pc[p] = "read"
      /\ f \in Nat /\ wpos \in Nat /\ rpos \in Nat /\ taken \in Seq(Int)
  BY Kinds DEF ReadSlot, Goto, LInv, IInv, TypeOK
<1>2. f = wpos - rpos - 1 /\ Len(taken) = rpos
  BY <1>1 DEF LInv, IInv, Busy, TakesOne, Inside
<1>3. UNCHANGED <<data, wpos>> /\ taken' = Append(taken, Slot(rpos))
  BY DEF ReadSlot, buf
<1>4. Slot(rpos) \in Int
  BY <1>1, Window DEF Windowed
<1>5. Len(taken') = rpos + 1
  BY <1>1, <1>2, <1>3, <1>4, AppendProperties
<1> DEFINE n == wpos - rpos - 1
<1>6. n \in Nat /\ wpos - Len(taken) = n + 1 /\ wpos' - Len(taken') = n
  BY <1>1, <1>2, <1>3, <1>5
<1>7. Queue \in [1 .. n + 1 -> Int] /\ Queue' \in [1 .. n -> Int]
  BY <1>6, Window, NextWindow DEF Windowed
<1>8. \A k \in 1 .. n + 1 : Queue[k] = Slot(rpos + k - 1)
  BY <1>1, <1>2, <1>6 DEF Queue
<1>9. \A k \in 1 .. n : Queue'[k] = Slot(rpos + k)
  <2> SUFFICES ASSUME NEW k \in 1 .. n PROVE Queue'[k] = Slot(rpos + k)
    OBVIOUS
  <2>1. Queue'[k] = Slot(Len(taken) + k - 1)'
    BY <1>6 DEF Queue
  <2>2. Len(taken') + k - 1 = rpos + k /\ rpos + k \in Int
    BY <1>1, <1>5
  <2> QED
    BY <2>1, <2>2, <1>3 DEF Slot
<1>10. \A k \in 1 .. n : Queue'[k] = Queue[k + 1]
  <2> SUFFICES ASSUME NEW k \in 1 .. n PROVE Queue'[k] = Queue[k + 1]
    OBVIOUS
  <2>1. k + 1 \in 1 .. n + 1 /\ rpos + (k + 1) - 1 = rpos + k
    BY <1>1, <1>6
  <2> QED
    BY <2>1, <1>8, <1>9
<1>11. Queue[1] = Slot(rpos)
  <2>1. 1 \in 1 .. n + 1 /\ rpos + 1 - 1 = rpos
    BY <1>1, <1>6
  <2> QED
    BY <2>1, <1>8
<1>12. Queue # << >> /\ Head(Queue) = Slot(rpos) /\ Queue' = Tail(Queue)
  BY <1>6, <1>7, <1>10, <1>11, Shortened
<1> QED
  BY <1>3, <1>12, Zenon DEF Q!Get, Queue

\* Every other step leaves what lies between the two alone.
LEMMA OthersStutter ==
  ASSUME LInv, [Next]_vars, ~ \E p \in Producers : StoreWpos(p),
         ~ \E p \in Consumers : ReadSlot(p)
  PROVE  UNCHANGED <<Queue, taken>>
<1> USE ProducersConsumersAssumption, Kinds DEF LInv, IInv, TypeOK, sems, buf
<1>1. CASE \E p \in Producers : WriteSlot(p)
  <2>1. PICK p \in Producers : WriteSlot(p)
    BY <1>1
  <2>2. wpos' = wpos /\ taken' = taken
    BY <2>1 DEF WriteSlot
  <2>3. Len(taken) \in Nat /\ data' = [data EXCEPT ![wpos] = wpos]
    <3>1. pc[p] = "write" /\ data' = [data EXCEPT ![reg[p]] = reg[p]]
      BY <2>1 DEF WriteSlot, Goto
    <3> QED
      BY <3>1, Window DEF Placed, Windowed
  <2>4. DOMAIN data' = DOMAIN data /\ \A k \in DOMAIN data : k # wpos => data'[k] = data[k]
    BY <2>3
  <2>5. \A k \in 1 .. wpos - Len(taken) :
           Slot(Len(taken) + k - 1)' = Slot(Len(taken) + k - 1)
    BY <2>2, <2>3, <2>4 DEF Slot
  <2> QED
    BY <2>2, <2>5 DEF Queue
<1>2. CASE ~ \E p \in Producers : WriteSlot(p)
  <2>1. UNCHANGED <<wpos, data, taken>>
    BY <1>2 DEF Next, Producer, ProdStart, LoadSlot, LoadWpos, ProdEnd, Consumer, ReadStart,
                LoadRpos, StoreRpos, ReadEnd, Main, Fork, ForkFails, Remove, Terminated, vars
  <2> QED
    BY <2>1 DEF Queue, Slot
<1> QED
  BY <1>1, <1>2

\* The buffer with its semaphores is a bounded queue: items are put and taken one by
\* one, in order, and never more than EMPTY_NUM are in it.
THEOREM Implements == Fits => (Spec => IsBoundedQueue)
<1> SUFFICES ASSUME Fits PROVE Spec => IsBoundedQueue
  OBVIOUS
<1>1. Init => Q!Init
  BY DEF Init, Q!Init
<1>2. LInv /\ [Next]_vars => [Q!Put \/ Q!Get]_<<Queue, taken>>
  BY NextLInv, StorePuts, ReadGets, OthersStutter
<1> QED
  BY <1>1, <1>2, AlwaysLInv, PTL DEF Spec, IsBoundedQueue, Q!Spec, Queue
=============================================================================
