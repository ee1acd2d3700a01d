------------------------ MODULE ReadersWriters_proofs ------------------------
(***************************************************************************)
(* Proofs about ReadersWriters, for every number of writers and readers.   *)
(* The properties follow from an invariant that relates the two ACTIVE     *)
(* semaphores to the sets of children that are inside (CountersExact),     *)
(* bounds the semaphores (OneKind) and says what a writer that stands      *)
(* between its load and its store has loaded (Loaded).                     *)
(***************************************************************************)
EXTENDS ReadersWriters, FiniteSetTheorems, TLAPS

InsideSteps == {"load", "store", "print", "stop"}
WritersIn == {p \in Writers : Inside(p)}
ReadersIn == {p \in Readers : Inside(p)}

\* Only writers load and store, only readers print; children not yet forked
\* stand nowhere.
Roles ==
    /\ \A p \in Children : pc[p] \in {"load", "store"} => p \in Writers
    /\ \A p \in Children : pc[p] = "print" => p \in Readers
    /\ \A p \in Children : p >= forked => pc[p] = "unborn"

OneKind == active_writers = 0 \/ (active_writers = 1 /\ active_readers = 0)

Loaded == shm = written /\ \A p \in Children : pc[p] = "store" => reg[p] = shm

\* What a semop raises in a WAIT semaphore it lowers again, or it has no effect at all.
WaitsAsSet == wait_readers = 1 /\ wait_writers = 0

IInv == TypeOK /\ Roles /\ CountersExact /\ OneKind /\ Loaded /\ WaitsAsSet

-----------------------------------------------------------------------------
\* The children are finitely many numbers, writers first.
LEMMA Kinds ==
  /\ Children \subseteq Nat /\ IsFiniteSet(Children)
  /\ Writers \subseteq Children /\ Readers = Children \ Writers
  /\ Main \in Nat /\ Main \notin Children
  /\ \A n \in Children : n + 1 \in Children \union {Main}
  /\ 0 \in Children \union {Main}
<1>1. WRITERS_AMOUNT \in Nat /\ READERS_AMOUNT \in Nat
  BY ReadersWritersAssumption
<1>2. IsFiniteSet(Children)
  <2>1. 0 \in Int /\ WRITERS_AMOUNT + READERS_AMOUNT - 1 \in Int
    BY <1>1
  <2> QED
    BY <2>1, FS_Interval DEF Children
<1> QED
  BY <1>1, <1>2 DEF Children, Writers, Readers, Main

\* The two counts are of finite sets.
LEMMA Counts ==
  /\ IsFiniteSet(WritersIn) /\ Cardinality(WritersIn) \in Nat
  /\ IsFiniteSet(ReadersIn) /\ Cardinality(ReadersIn) \in Nat
<1>1. WritersIn \subseteq Children /\ ReadersIn \subseteq Children
  BY Kinds DEF WritersIn, ReadersIn
<1>2. IsFiniteSet(WritersIn) /\ IsFiniteSet(ReadersIn)
  BY <1>1, Kinds, FS_Subset
<1> QED
  BY <1>2, FS_CardinalityType

\* Who is inside after a child has moved from one step to another.
LEMMA Moves ==
  ASSUME TypeOK, NEW p \in Children, NEW s, pc' = [pc EXCEPT ![p] = s]
  PROVE  /\ WritersIn' = IF p \in Writers /\ s \in InsideSteps
                         THEN WritersIn \union {p} ELSE WritersIn \ {p}
         /\ ReadersIn' = IF p \in Readers /\ s \in InsideSteps
                         THEN ReadersIn \union {p} ELSE ReadersIn \ {p}
<1>1. /\ pc'[p] = s
      /\ \A q \in Children : q # p => pc'[q] = pc[q]
  BY DEF TypeOK
<1>2. /\ (Inside(p))' <=> s \in InsideSteps
      /\ \A q \in Children : q # p => (Inside(q)' <=> Inside(q))
  BY <1>1 DEF Inside, InsideSteps
<1>3. Writers \subseteq Children /\ Readers = Children \ Writers
  BY Kinds
<1>4. WritersIn' = IF p \in Writers /\ s \in InsideSteps
                   THEN WritersIn \union {p} ELSE WritersIn \ {p}
  BY <1>2, <1>3 DEF WritersIn
<1>5. ReadersIn' = IF p \in Readers /\ s \in InsideSteps
                   THEN ReadersIn \union {p} ELSE ReadersIn \ {p}
  BY <1>2, <1>3 DEF ReadersIn
<1> QED
  BY <1>4, <1>5

\* A child that stays inside or stays outside changes no count.
LEMMA Stays ==
  ASSUME IInv, NEW p \in Children, NEW s, pc' = [pc EXCEPT ![p] = s],
         Inside(p) <=> s \in InsideSteps,
         active_writers' = active_writers, active_readers' = active_readers
  PROVE  CountersExact'
<1>1. WritersIn' = WritersIn /\ ReadersIn' = ReadersIn
  <2>1. TypeOK /\ Readers = Children \ Writers
    BY Kinds DEF IInv
  <2>2. CASE s \in InsideSteps
    <3>1. CASE p \in Writers
      <4>1. WritersIn' = WritersIn \union {p} /\ ReadersIn' = ReadersIn \ {p}
        BY <2>1, <2>2, <3>1, Moves
      <4>2. p \in WritersIn /\ p \notin ReadersIn
        BY <2>1, <2>2, <3>1 DEF WritersIn, ReadersIn
      <4> QED
        BY <4>1, <4>2
    <3>2. CASE p \notin Writers
      <4>1. WritersIn' = WritersIn \ {p} /\ ReadersIn' = ReadersIn \union {p}
        BY <2>1, <2>2, <3>2, Moves
      <4>2. p \notin WritersIn /\ p \in ReadersIn
        BY <2>1, <2>2, <3>2 DEF WritersIn, ReadersIn
      <4> QED
        BY <4>1, <4>2
    <3> QED
      BY <3>1, <3>2
  <2>3. CASE s \notin InsideSteps
    BY <2>1, <2>3, Moves DEF WritersIn, ReadersIn
  <2> QED
    BY <2>2, <2>3
<1>2. active_writers = Cardinality(WritersIn) /\ active_readers = Cardinality(ReadersIn)
  BY DEF IInv, CountersExact, WritersIn, ReadersIn
<1>3. active_writers' = Cardinality(WritersIn') /\ active_readers' = Cardinality(ReadersIn')
  BY <1>1, <1>2
<1> QED
  BY <1>3 DEF CountersExact, WritersIn, ReadersIn

\* What the invariant says of a writer that is inside.
LEMMA Alone ==
  ASSUME IInv, NEW w \in Writers, Inside(w)
  PROVE  /\ active_writers = 1
         /\ \A p \in Children : Inside(p) => p = w
<1>1. active_writers = Cardinality(WritersIn) /\ active_readers = Cardinality(ReadersIn)
  BY DEF IInv, CountersExact, WritersIn, ReadersIn
<1>2. w \in WritersIn
  BY DEF WritersIn
<1>3. active_writers # 0
  BY <1>1, <1>2, Counts, FS_EmptySet
<1>4. active_writers = 1 /\ active_readers = 0
  BY <1>3 DEF IInv, OneKind
<1>5. ReadersIn = {}
  BY <1>1, <1>4, Counts, FS_EmptySet
<1>6. PICK x : WritersIn = {x}
  BY <1>1, <1>4, Counts, FS_Singleton
<1>7. ASSUME NEW p \in Children, Inside(p) PROVE p = w
  <2>1. p \in WritersIn \/ p \in ReadersIn
    BY <1>7, Kinds DEF WritersIn, ReadersIn
  <2> QED
    BY <2>1, <1>2, <1>5, <1>6
<1> QED
  BY <1>4, <1>7

-----------------------------------------------------------------------------
\* The initial state.
LEMMA InitIInv == Init => IInv
<1> SUFFICES ASSUME Init PROVE IInv
  OBVIOUS
<1> USE DEF Init
<1>1. TypeOK
  BY Kinds, ReadersWritersAssumption DEF TypeOK
<1>2. WritersIn = {} /\ ReadersIn = {}
  BY Kinds DEF WritersIn, ReadersIn, Inside
<1>3. CountersExact
  BY <1>2, FS_EmptySet DEF CountersExact, WritersIn, ReadersIn
<1> QED
  BY <1>1, <1>3, Kinds DEF IInv, Roles, OneKind, Loaded, WaitsAsSet

\* One lemma per group of actions: they preserve the inductive invariant.
LEMMA OutsideIInv ==
  ASSUME IInv, NEW p \in Children, Loop(p) \/ Sleep(p)
  PROVE  IInv'
<1>1. /\ pc[p] \in {"loop", "enter"}
      /\ \E s \in {"exited", "enter", "asleep"} : pc' = [pc EXCEPT ![p] = s]
      /\ UNCHANGED <<sems, shm, written, reg, group>>
  BY DEF Loop, Sleep, Goto
<1>2. PICK s \in {"exited", "enter", "asleep"} : pc' = [pc EXCEPT ![p] = s]
  BY <1>1
<1>3. CountersExact'
  BY <1>1, <1>2, Stays DEF Inside, InsideSteps, sems
<1> QED
  BY <1>1, <1>2, <1>3 DEF IInv, TypeOK, Roles, OneKind, Loaded, WaitsAsSet, sems, group

LEMMA StartWriteIInv ==
  ASSUME IInv, NEW p \in Children, StartWrite(p)
  PROVE  IInv'
<1> USE DEF StartWrite
<1>1. ~Inside(p) /\ p \notin Readers /\ "load" \in InsideSteps
  BY Kinds DEF Inside, InsideSteps
<1>2. WritersIn' = WritersIn \union {p} /\ ReadersIn' = ReadersIn /\ p \notin WritersIn
  BY <1>1, Moves DEF IInv, WritersIn, ReadersIn
<1>3. active_writers = Cardinality(WritersIn) /\ active_readers = Cardinality(ReadersIn)
  BY DEF IInv, CountersExact, WritersIn, ReadersIn
<1>4. active_writers' = Cardinality(WritersIn') /\ active_readers' = Cardinality(ReadersIn')
  BY <1>2, <1>3, Counts, FS_AddElement
<1>5. CountersExact'
  BY <1>4 DEF CountersExact, WritersIn, ReadersIn
<1>6. OneKind'
  BY DEF MayWrite, OneKind
<1> QED
  BY <1>5, <1>6 DEF IInv, TypeOK, Roles, Loaded, WaitsAsSet, group

LEMMA StartReadIInv ==
  ASSUME IInv, NEW p \in Children, StartRead(p)
  PROVE  IInv'
<1> USE DEF StartRead
<1>1. ~Inside(p) /\ p \notin Writers /\ "print" \in InsideSteps
  BY Kinds DEF Inside, InsideSteps
<1>2. ReadersIn' = ReadersIn \union {p} /\ WritersIn' = WritersIn /\ p \notin ReadersIn
  BY <1>1, Moves DEF IInv, WritersIn, ReadersIn
<1>3. active_writers = Cardinality(WritersIn) /\ active_readers = Cardinality(ReadersIn)
  BY DEF IInv, CountersExact, WritersIn, ReadersIn
<1>4. active_writers' = Cardinality(WritersIn') /\ active_readers' = Cardinality(ReadersIn')
  BY <1>2, <1>3, Counts, FS_AddElement
<1>5. CountersExact'
  BY <1>4 DEF CountersExact, WritersIn, ReadersIn
<1>6. OneKind'
  BY DEF MayRead, OneKind
<1> QED
  BY <1>5, <1>6 DEF IInv, TypeOK, Roles, Loaded, WaitsAsSet, group

\* Steps inside: the integer and what was loaded from it agree because no other
\* child is inside with the writer.
LEMMA LoadIInv ==
  ASSUME IInv, NEW p \in Children, Load(p)
  PROVE  IInv'
<1> USE DEF Load, Goto
<1>1. CountersExact'
  BY Stays DEF Inside, InsideSteps, sems
<1> QED
  BY <1>1 DEF IInv, TypeOK, Roles, OneKind, Loaded, WaitsAsSet, sems, group

LEMMA StoreIInv ==
  ASSUME IInv, NEW p \in Children, Store(p)
  PROVE  IInv'
<1> USE DEF Store, Goto
<1>1. CountersExact'
  BY Stays DEF Inside, InsideSteps, sems
<1>2. p \in Writers /\ Inside(p) /\ reg[p] = shm /\ shm = written
  BY DEF IInv, Roles, Loaded, Inside
<1>3. \A q \in Children : pc[q] = "store" => q = p
  BY <1>2, Alone DEF Inside
<1>4. Loaded'
  <2>1. \A q \in Children : pc'[q] # "store"
    BY <1>3 DEF IInv, TypeOK
  <2> QED
    BY <1>2, <2>1 DEF Loaded
<1>5. TypeOK'
  <2>1. ValueLimit \in Nat \ {0, 1} /\ reg[p] \in Nat /\ written \in Nat
    BY ReadersWritersAssumption DEF IInv, TypeOK
  <2>2. (reg[p] + 1) % ValueLimit \in 0 .. ValueLimit - 1
        /\ (written + 1) % ValueLimit \in 0 .. ValueLimit - 1 /\ 0 \in 0 .. ValueLimit - 1
    BY <2>1
  <2> QED
    BY <2>2 DEF IInv, TypeOK, sems, group
<1> QED
  BY <1>1, <1>4, <1>5 DEF IInv, TypeOK, Roles, OneKind, WaitsAsSet, sems, group

LEMMA ReadValueIInv ==
  ASSUME IInv, NEW p \in Children, ReadValue(p)
  PROVE  IInv'
<1> USE DEF ReadValue, Goto
<1>1. CountersExact'
  BY Stays DEF Inside, InsideSteps, sems
<1> QED
  BY <1>1 DEF IInv, TypeOK, Roles, OneKind, Loaded, WaitsAsSet, sems, group

LEMMA StopWriteIInv ==
  ASSUME IInv, NEW p \in Children, StopWrite(p)
  PROVE  IInv'
<1> USE DEF StopWrite, Goto
<1>1. Inside(p) /\ p \notin Readers /\ "loop" \notin InsideSteps
  BY Kinds DEF Inside, InsideSteps
<1>2. WritersIn' = WritersIn \ {p} /\ ReadersIn' = ReadersIn /\ p \in WritersIn
  BY <1>1, Moves DEF IInv, WritersIn, ReadersIn
<1>3. active_writers = Cardinality(WritersIn) /\ active_readers = Cardinality(ReadersIn)
  BY DEF IInv, CountersExact, WritersIn, ReadersIn
<1>4. active_writers' = Cardinality(WritersIn') /\ active_readers' = Cardinality(ReadersIn')
  BY <1>2, <1>3, Counts, FS_RemoveElement
<1>5. CountersExact'
  BY <1>4 DEF CountersExact, WritersIn, ReadersIn
<1>6. OneKind' /\ active_writers' \in Nat
  BY DEF IInv, OneKind, TypeOK
<1> QED
  BY <1>5, <1>6 DEF IInv, TypeOK, Roles, Loaded, WaitsAsSet, group

LEMMA StopReadIInv ==
  ASSUME IInv, NEW p \in Children, StopRead(p)
  PROVE  IInv'
<1> USE DEF StopRead, Goto
<1>1. Inside(p) /\ p \notin Writers /\ "loop" \notin InsideSteps
  BY Kinds DEF Inside, InsideSteps
<1>2. ReadersIn' = ReadersIn \ {p} /\ WritersIn' = WritersIn /\ p \in ReadersIn
  BY <1>1, Moves DEF IInv, WritersIn, ReadersIn
<1>3. active_writers = Cardinality(WritersIn) /\ active_readers = Cardinality(ReadersIn)
  BY DEF IInv, CountersExact, WritersIn, ReadersIn
<1>4. active_writers' = Cardinality(WritersIn') /\ active_readers' = Cardinality(ReadersIn')
  BY <1>2, <1>3, Counts, FS_RemoveElement
<1>5. CountersExact'
  BY <1>4 DEF CountersExact, WritersIn, ReadersIn
<1>6. OneKind' /\ active_readers' \in Nat
  BY DEF IInv, OneKind, TypeOK
<1> QED
  BY <1>5, <1>6 DEF IInv, TypeOK, Roles, Loaded, WaitsAsSet, group

LEMMA ForkIInv == ASSUME IInv, Fork PROVE IInv'
<1> USE DEF Fork
<1>1. forked \in Children /\ pc[forked] = "unborn" /\ forked \in Nat
  BY Kinds DEF IInv, Roles
<1>2. CountersExact'
  BY <1>1, Stays DEF Inside, InsideSteps, sems
<1>3. TypeOK'
  BY <1>1, Kinds DEF IInv, TypeOK, sems
<1>4. Roles'
  <2>1. \A p \in Children : p >= forked + 1 => p >= forked /\ p # forked
    BY <1>1, Kinds
  <2> QED
    BY <1>1, <2>1 DEF IInv, TypeOK, Roles
<1> QED
  BY <1>1, <1>2, <1>3, <1>4 DEF IInv, TypeOK, OneKind, Loaded, WaitsAsSet, sems

LEMMA MainIInv == ASSUME IInv, ForkFails \/ Remove \/ Interrupt PROVE IInv'
<1>1. UNCHANGED <<sems, shm, written, pc, reg, sig_status, forked>>
  BY DEF ForkFails, Remove, Interrupt
<1>2. pending' \subseteq Children \union {Main} /\ sent' \in 0 .. SigintLimit
  BY ReadersWritersAssumption DEF IInv, TypeOK, ForkFails, Remove, Interrupt, Alive
<1>3. main' \in {"fork", "failed", "removed"}
  BY DEF IInv, TypeOK, ForkFails, Remove, Interrupt
<1>4. TypeOK'
  BY <1>1, <1>2, <1>3 DEF IInv, TypeOK, sems
<1> QED
  BY <1>1, <1>3, <1>4 DEF IInv, Roles, CountersExact, Inside, OneKind, Loaded, WaitsAsSet, sems

LEMMA DeliverIInv ==
  ASSUME IInv, NEW p \in Children \union {Main}, Deliver(p)
  PROVE  IInv'
<1> USE DEF Deliver
<1>1. TypeOK'
  BY DEF IInv, TypeOK, sems
<1>2. CountersExact'
  <2>1. CASE p \in Children /\ pc[p] = "asleep"
    BY <2>1, Stays DEF Inside, InsideSteps, sems
  <2>2. CASE ~(p \in Children /\ pc[p] = "asleep")
    BY <2>2 DEF IInv, CountersExact, Inside, sems
  <2> QED
    BY <2>1, <2>2
<1>3. Roles' /\ Loaded' /\ WaitsAsSet'
  BY DEF IInv, TypeOK, Roles, Loaded, WaitsAsSet, sems
<1> QED
  BY <1>1, <1>2, <1>3 DEF IInv, OneKind, sems

LEMMA NextIInv == IInv /\ [Next]_vars => IInv'
<1> SUFFICES ASSUME IInv, [Next]_vars PROVE IInv'
  OBVIOUS
<1>1. ASSUME NEW p \in Children, Child(p) PROVE IInv'
  BY <1>1, OutsideIInv, StartWriteIInv, StartReadIInv, LoadIInv, StoreIInv, ReadValueIInv,
     StopWriteIInv, StopReadIInv DEF Child
<1>2. CASE Fork \/ ForkFails \/ Remove \/ Interrupt
  BY <1>2, ForkIInv, MainIInv
<1>3. ASSUME NEW p \in Children \union {Main}, Deliver(p) PROVE IInv'
  BY <1>3, DeliverIInv
<1>4. CASE UNCHANGED vars \/ Terminated
  BY <1>4 DEF Terminated, vars, sems, group, IInv, TypeOK, Roles, CountersExact, Inside, OneKind, Loaded,
              WaitsAsSet
<1> QED
  BY <1>1, <1>2, <1>3, <1>4 DEF Next

LEMMA AlwaysIInv == Spec => []IInv
<1> QED
  BY InitIInv, NextIInv, PTL DEF Spec

-----------------------------------------------------------------------------
\* Every variable keeps its type, for every number of writers and readers.
THEOREM TypeCorrect == Spec => []TypeOK
<1>1. IInv => TypeOK
  BY DEF IInv
<1> QED
  BY <1>1, AlwaysIInv, PTL

\* Semaphores and children inside agree, whatever SIGINT does to those that wait
\* (start_write, stop_write, start_read, stop_read).
THEOREM Counted == Spec => []CountersExact
<1>1. IInv => CountersExact
  BY DEF IInv
<1> QED
  BY <1>1, AlwaysIInv, PTL

\* A writer between start_write and stop_write is inside alone.
THEOREM Exclusion == Spec => []WriterAlone
<1>1. IInv => WriterAlone
  BY Alone DEF WriterAlone
<1> QED
  BY <1>1, AlwaysIInv, PTL

\* (*shm)++, a load and a store, loses no increment.
THEOREM NothingLost == Spec => []NoLostUpdate
<1>1. IInv => NoLostUpdate
  BY DEF IInv, Loaded, NoLostUpdate
<1> QED
  BY <1>1, AlwaysIInv, PTL

\* Whoever waits in start_write or start_read waits for a child that is inside, and a
\* reader for a writer, whatever SIGINT has ended: a semaphore that keeps a child out counts
\* somebody.
LEMMA SomeoneInside == IInv => WaitsForSomeoneInside
<1> SUFFICES ASSUME IInv, NEW p \in Children, ~MayEnter(p)
             PROVE  \E q \in Children : Inside(q) /\ (p \in Readers => q \in Writers)
  BY DEF WaitsForSomeoneInside
<1>1. /\ active_writers = Cardinality(WritersIn) /\ active_readers = Cardinality(ReadersIn)
      /\ wait_writers = 0
  BY DEF IInv, CountersExact, WritersIn, ReadersIn, WaitsAsSet
<1>2. active_writers # 0 \/ (p \in Writers /\ active_readers # 0)
  BY <1>1 DEF MayEnter, MayWrite, MayRead
<1>3. /\ active_writers # 0 => WritersIn # {}
      /\ active_readers # 0 => ReadersIn # {}
  BY <1>1, FS_EmptySet
<1> QED
  BY <1>2, <1>3, Kinds DEF WritersIn, ReadersIn

THEOREM NobodyGoneHolds == Spec => []WaitsForSomeoneInside
BY SomeoneInside, AlwaysIInv, PTL
=============================================================================
