--------------------------- MODULE Programs_proofs ---------------------------
(***************************************************************************)
(* Theorems about the small programs, each for any value of its constants: *)
(* the daemon, the protected mode program, the reports of the tablet, the  *)
(* server that waits in pselect, the two interrupt bottom halves, the      *)
(* programs with two streams over one file, the readers and writers of     *)
(* Windows, the five programs that fork, and the types of all of them side *)
(* by side.  They share nothing; every section is about one specification. *)
(***************************************************************************)
EXTENDS MCPrograms, FiniteSetTheorems, SequenceTheorems, WellFoundedInduction, TLAPS

-----------------------------------------------------------------------------
\* The daemon.

\* Who is past flock holds the lock, alone, or is known to have gone on without it.
HoldsLock == \A p \in Procs : daemonPc[p] \in Past => locks = {p} \/ p \in unlocked

\* A failure of flock is one of the three that nobody looks at.
FailureNoted == unlocked # {} => unwritten

\* The file names the process that has written it, unless a call has failed unnoticed.
NamedInFile == \A p \in Procs : daemonPc[p] \in Past \ {"locked", "truncated"}
             => pidFile = p \/ unwritten

DaemonInv == DaemonTypeOK /\ HoldsLock /\ FailureNoted /\ NamedInFile

LEMMA InitDaemon == DaemonInit => DaemonInv
BY DaemonAssumption
   DEF DaemonInit, DaemonInv, DaemonTypeOK, HoldsLock, FailureNoted, NamedInFile, Past, DaemonPlaces

\* The end of a process takes its own lock with it and nobody else's.
LEMMA DaemonEndKeeps == ASSUME DaemonInv, NEW p \in Procs, Ends(p) PROVE DaemonInv'
<1> USE DEF DaemonInv, Ends
<1>1. DaemonTypeOK' BY DEF DaemonTypeOK, DaemonPlaces
<1>2. HoldsLock' BY DEF HoldsLock, Past, DaemonTypeOK
<1>3. FailureNoted' BY DEF FailureNoted, DaemonTypeOK
<1>4. NamedInFile' BY DEF NamedInFile, Past, DaemonTypeOK
<1> QED BY <1>1, <1>2, <1>3, <1>4

LEMMA DaemonCallKeeps == ASSUME DaemonInv, NEW p \in Procs, Call(p) PROVE DaemonInv'
<1> USE DEF DaemonInv, Call, GoOn, ghostly
<1>1. DaemonTypeOK' BY DEF DaemonTypeOK, DaemonPlaces, NextPlace
<1>2. HoldsLock' BY DEF HoldsLock, Past, NextPlace, DaemonTypeOK
<1>3. FailureNoted' BY DEF FailureNoted
<1>4. NamedInFile' BY DEF NamedInFile, Past, NextPlace, DaemonTypeOK
<1> QED BY <1>1, <1>2, <1>3, <1>4

\* The lock is given only when nobody has it: then whoever is past flock is unlocked.
LEMMA FlockKeeps == ASSUME DaemonInv, NEW p \in Procs, Flock(p) PROVE DaemonInv'
<1> USE DEF DaemonInv, GoOn, ghostly
<1>1. CASE locks # {} /\ Ends(p) BY <1>1, DaemonEndKeeps
<1>2. CASE locks = {} /\ locks' = {p} /\ GoOn(p, "opened", "locked")
           /\ UNCHANGED <<signals, pidFile, ghostly>>
  <2>1. DaemonTypeOK' BY <1>2 DEF DaemonTypeOK, DaemonPlaces
  <2>2. HoldsLock' BY <1>2 DEF HoldsLock, DaemonTypeOK, Past
  <2>3. FailureNoted' BY <1>2 DEF FailureNoted
  <2>4. NamedInFile' BY <1>2 DEF NamedInFile, Past, DaemonTypeOK
  <2> QED BY <2>1, <2>2, <2>3, <2>4
<1>3. CASE GoOn(p, "opened", "locked") /\ unlocked' = unlocked \union {p}
           /\ unwritten' = TRUE /\ UNCHANGED <<signals, locks, pidFile>>
  <2>1. DaemonTypeOK' BY <1>3 DEF DaemonTypeOK, DaemonPlaces
  <2>2. HoldsLock' BY <1>3 DEF HoldsLock, DaemonTypeOK, Past
  <2>3. FailureNoted' BY <1>3 DEF FailureNoted
  <2>4. NamedInFile' BY <1>3 DEF NamedInFile
  <2> QED BY <2>1, <2>2, <2>3, <2>4
<1> QED BY <1>1, <1>2, <1>3 DEF Flock

\* Two processes that are past flock, one of which writes the file, are a case in which
\* flock has failed.
LEMMA WriteKeeps == ASSUME DaemonInv, NEW p \in Procs, WritePid(p) PROVE DaemonInv'
<1> USE DEF DaemonInv, WritePid, GoOn, Overwrite
<1>1. DaemonTypeOK' BY DaemonAssumption DEF DaemonTypeOK, DaemonPlaces, NextPlace
<1>2. HoldsLock' BY DEF HoldsLock, Past, DaemonTypeOK
<1>3. FailureNoted' BY DEF FailureNoted
<1>4. daemonPc[p] \in {"locked", "truncated"} BY DEF DaemonTypeOK
<1>5. ASSUME NEW q \in Procs, q # p, daemonPc[q] \in Past PROVE unwritten
  BY <1>4, <1>5 DEF HoldsLock, FailureNoted, Past
<1>6. NamedInFile' BY <1>4, <1>5 DEF NamedInFile, Past, DaemonTypeOK
<1> QED BY <1>1, <1>2, <1>3, <1>6

\* A signal that is not blocked ends the process; one that is taken or left pending
\* changes nothing else.
LEMMA DaemonSignalKeeps ==
    ASSUME DaemonInv, NEW p \in Procs, Sigwait(p) \/ \E s \in Signals : Send(p, s) PROVE DaemonInv'
<1>1. CASE Ends(p) BY <1>1, DaemonEndKeeps
<1>2. CASE /\ signals' \in [Procs -> SUBSET Signals]
           /\ UNCHANGED <<daemonPc, locks, pidFile, ghostly>>
  BY <1>2 DEF DaemonInv, DaemonTypeOK, HoldsLock, FailureNoted, NamedInFile, ghostly
<1>3. Ends(p) \/ (/\ signals' \in [Procs -> SUBSET Signals]
                  /\ UNCHANGED <<daemonPc, locks, pidFile, ghostly>>)
  BY DEF Sigwait, Send, DaemonInv, DaemonTypeOK, Signals
<1> QED BY <1>1, <1>2, <1>3

LEMMA DaemonStepKeeps == DaemonInv /\ [DaemonNext]_daemonVars => DaemonInv'
<1> SUFFICES ASSUME DaemonInv, [DaemonNext]_daemonVars PROVE DaemonInv'
  OBVIOUS
<1>1. CASE UNCHANGED daemonVars
  BY <1>1 DEF daemonVars, ghostly, DaemonInv, DaemonTypeOK, HoldsLock, FailureNoted, NamedInFile
<1>2. ASSUME NEW p \in Procs, Start(p) PROVE DaemonInv'
  BY <1>2 DEF Start, GoOn, ghostly, DaemonInv, DaemonTypeOK, DaemonPlaces, NextPlace,
              HoldsLock, FailureNoted, NamedInFile, Past
<1>3. ASSUME NEW p \in Procs, DaemonStep(p) PROVE DaemonInv'
  <2>1. CASE Call(p) BY <2>1, DaemonCallKeeps
  <2>2. CASE CallFails(p) BY <2>2, DaemonEndKeeps DEF CallFails
  <2>3. CASE Flock(p) BY <2>3, FlockKeeps
  <2>4. CASE WritePid(p) BY <2>4, WriteKeeps
  <2>5. CASE Sigwait(p) BY <2>5, DaemonSignalKeeps
  <2> QED BY <1>3, <2>1, <2>2, <2>3, <2>4, <2>5 DEF DaemonStep
<1>4. ASSUME NEW p \in Procs, Kill(p) PROVE DaemonInv'
  BY <1>4, DaemonEndKeeps DEF Kill
<1>5. ASSUME NEW p \in Procs, NEW s \in Signals, Send(p, s) PROVE DaemonInv'
  BY <1>5, DaemonSignalKeeps
<1> QED BY <1>1, <1>2, <1>3, <1>4, <1>5 DEF DaemonNext

\* The types of the variables hold in every state of the daemon's processes.
THEOREM DaemonTypeCorrect == DaemonSpec => []DaemonTypeOK
<1>1. DaemonInv => DaemonTypeOK BY DEF DaemonInv
<1> QED BY <1>1, InitDaemon, DaemonStepKeeps, PTL DEF DaemonSpec

LEMMA DaemonIsOne == DaemonInv => OneDaemon
<1> SUFFICES ASSUME DaemonInv, NEW p \in Procs, daemonPc[p] \in Past
             PROVE  /\ \A q \in Procs \ {p} : daemonPc[q] \in Past
                           => {p, q} \intersect unlocked # {}
                    /\ daemonPc[p] \notin {"locked", "truncated"}
                           => pidFile = p \/ unwritten
  BY DEF OneDaemon
<1>1. ASSUME NEW q \in Procs \ {p}, daemonPc[q] \in Past
      PROVE  p \in unlocked \/ q \in unlocked
  BY <1>1 DEF DaemonInv, HoldsLock
<1>2. daemonPc[p] \notin {"locked", "truncated"} => pidFile = p \/ unwritten
  BY DEF DaemonInv, NamedInFile
<1> QED BY <1>1, <1>2

\* However many processes are started, killed and started again: no two are past the
\* lock that already_running takes, but for a failure of flock that it passes over, and
\* the file names the one that has written it.
THEOREM RunsOnce == DaemonSpec => []OneDaemon
BY DaemonIsOne, InitDaemon, DaemonStepKeeps, PTL DEF DaemonSpec

-----------------------------------------------------------------------------
\* The protected mode program.

\* What mem_scrn still has to print goes behind the cursor, into the message's place or
\* over the line above the text; undisturbed it goes where it belongs.
PrintsElsewhere ==
    place = "printing" =>
        \/ DI > keyboard_output
        \/ DI >= MessageCell
        \/ DI + (MessageLength - shown) <= KeyCell
MessageGrows ==
    Running /\ ~disturbed =>
        /\ keyboard_output < MessageCell
        /\ place = "counting" => shown = 0
        /\ place = "printing" => DI = MessageCell + shown
        /\ place = "waiting" => shown = MessageLength
        /\ \A k \in 1 .. shown : display[MessageCell + k - 1] = k
TypedStands ==
    Running => \A p \in KeyCell .. MessageCell - 1 :
                  /\ p < keyboard_output => display[p] = Char
                  /\ typed /\ p = keyboard_output => display[p] = Cursor
ScreenInv == ScreenTypeOK /\ PrintsElsewhere /\ MessageGrows /\ TypedStands

LEMMA ScreenNumbers ==
  /\ TimerCell \in Nat /\ KeyCell \in Nat /\ MessageCell \in Nat
  /\ MessageLength \in Nat /\ ScreenSize \in Nat
  /\ TimerCell + 1 + MessageLength <= KeyCell
  /\ KeyCell < MessageCell /\ MessageCell + MessageLength <= ScreenSize
BY ScreenAssumption

LEMMA InitScreenInv == ScreenInit => ScreenInv
<1> SUFFICES ASSUME ScreenInit PROVE ScreenInv
  OBVIOUS
<1> USE ScreenNumbers DEF ScreenInit
<1>1. ScreenTypeOK
  <2>1. Blank \in -3 .. MessageLength /\ KeyCell \in Cells
    BY DEF Blank, Cells
  <2>2. display \in [Cells -> -3 .. MessageLength]
    BY <2>1
  <2>3. 0 \in 0 .. ScreenSize /\ 0 \in 0 .. MessageLength
    OBVIOUS
  <2> QED
    BY <2>1, <2>2, <2>3 DEF ScreenTypeOK
<1>2. PrintsElsewhere /\ MessageGrows
  BY DEF PrintsElsewhere, MessageGrows, Running
<1>3. TypedStands
  BY DEF TypedStands
<1> QED
  BY <1>1, <1>2, <1>3 DEF ScreenInv

LEMMA NextScreenInv == ScreenInv /\ [ScreenNext]_screenVars => ScreenInv'
<1> SUFFICES ASSUME ScreenInv, [ScreenNext]_screenVars PROVE ScreenInv'
  OBVIOUS
<1> USE ScreenNumbers DEF ScreenInv
<1>1. CASE PrintMemoryCount
  <2> USE <1>1 DEF PrintMemoryCount
  <2>1. ScreenTypeOK' BY DEF ScreenTypeOK
  <2>2. PrintsElsewhere' BY DEF PrintsElsewhere
  <2>3. MessageGrows' BY DEF MessageGrows, Running, ScreenTypeOK
  <2>4. TypedStands' BY DEF TypedStands, Running
  <2> QED BY <2>1, <2>2, <2>3, <2>4
<1>2. ASSUME Exception PROVE ScreenInv'
  BY <1>2 DEF Exception, ScreenTypeOK, PrintsElsewhere, MessageGrows, TypedStands, Running
<1>3. CASE MemScrn
  <2>1. CASE DI \notin Cells
    BY <1>2, <1>3, <2>1 DEF MemScrn
  <2>2. CASE DI \in Cells
    <3>1. /\ place = "printing" /\ shown < MessageLength
          /\ display' = [display EXCEPT ![DI] = shown + 1]
          /\ DI' = DI + 1 /\ shown' = shown + 1
          /\ UNCHANGED <<place, keyboard_output, exit_flag, typed, disturbed>>
      BY <1>3, <2>2 DEF MemScrn
    <3>2. DI \in 0 .. ScreenSize - 1 /\ shown \in Nat /\ keyboard_output \in Nat
      BY <2>2 DEF Cells, ScreenTypeOK
    <3>3. ScreenTypeOK'
      <4>1. DI' \in 0 .. ScreenSize /\ shown' \in 0 .. MessageLength /\ shown' \in -3 .. MessageLength
        BY <3>1, <3>2 DEF ScreenTypeOK
      <4> QED
        BY <3>1, <4>1 DEF ScreenTypeOK
    <3>4. \A p \in Cells : p # DI => display'[p] = display[p]
      BY <3>1 DEF ScreenTypeOK
    <3>5. display'[DI] = shown'
      BY <2>2, <3>1 DEF ScreenTypeOK
    <3>6. PrintsElsewhere'
      BY <3>1, <3>2 DEF PrintsElsewhere, ScreenTypeOK
    <3>7. MessageGrows'
      <4> SUFFICES ASSUME ~disturbed
                   PROVE  /\ keyboard_output < MessageCell
                          /\ DI' = MessageCell + shown'
                          /\ \A k \in 1 .. shown' : display'[MessageCell + k - 1] = k
        BY <3>1 DEF MessageGrows
      <4>1. DI = MessageCell + shown /\ keyboard_output < MessageCell
            /\ \A k \in 1 .. shown : display[MessageCell + k - 1] = k
        BY <3>1 DEF MessageGrows, Running
      <4>2. ASSUME NEW k \in 1 .. shown' PROVE display'[MessageCell + k - 1] = k
        <5>1. CASE k = shown'
          BY <5>1, <3>1, <3>2, <3>5, <4>1
        <5>2. CASE k # shown'
          <6>1. k \in 1 .. shown /\ MessageCell + k - 1 \in Cells /\ MessageCell + k - 1 # DI
            BY <5>2, <3>1, <3>2, <4>1 DEF Cells
          <6> QED
            BY <6>1, <3>4, <4>1
        <5> QED
          BY <5>1, <5>2
      <4> QED
        BY <3>1, <3>2, <4>1, <4>2
    <3>8. TypedStands'
      <4>1. ASSUME NEW p \in KeyCell .. MessageCell - 1, p <= keyboard_output
            PROVE  p # DI /\ p \in Cells
        BY <3>1, <3>2, <4>1 DEF PrintsElsewhere, Cells
      <4> QED
        BY <3>1, <3>2, <3>4, <4>1 DEF TypedStands, Running
    <3> QED
      BY <3>3, <3>6, <3>7, <3>8
  <2> QED
    BY <2>1, <2>2
<1>4. CASE MessageDone
  <2> USE <1>4 DEF MessageDone
  <2>1. ScreenTypeOK' BY DEF ScreenTypeOK
  <2>2. PrintsElsewhere' BY DEF PrintsElsewhere
  <2>3. MessageGrows' BY DEF MessageGrows, Running
  <2>4. TypedStands' BY DEF TypedStands, Running
  <2> QED BY <2>1, <2>2, <2>3, <2>4
<1>5. CASE EndlessLoop
  BY <1>5 DEF EndlessLoop, ScreenTypeOK, PrintsElsewhere, MessageGrows, TypedStands, Running
<1>6. CASE new_08
  <2> USE <1>6 DEF new_08
  <2>1. \A p \in Cells : p # TimerCell => display'[p] = display[p]
    BY DEF ScreenTypeOK
  <2>2. ScreenTypeOK'
    BY DEF ScreenTypeOK, Cells, Symbol
  <2>3. PrintsElsewhere'
    BY DEF PrintsElsewhere, ScreenTypeOK
  <2>4. MessageGrows'
    <3>1. \A k \in 1 .. shown : MessageCell + k - 1 \in Cells /\ MessageCell + k - 1 # TimerCell
      BY DEF Cells, ScreenTypeOK
    <3> QED
      BY <2>1, <3>1 DEF MessageGrows, Running, ScreenTypeOK
  <2>5. TypedStands'
    <3>1. \A p \in KeyCell .. MessageCell - 1 : p \in Cells /\ p # TimerCell
      BY DEF Cells
    <3> QED
      BY <2>1, <3>1 DEF TypedStands, Running
  <2> QED
    BY <2>2, <2>3, <2>4, <2>5
<1>7. CASE NormalKey
  <2>1. CASE keyboard_output + 1 \notin Cells
    BY <1>2, <1>7, <2>1 DEF NormalKey
  <2>2. CASE keyboard_output + 1 \in Cells
    <3> DEFINE q == keyboard_output
    <3>1. /\ Running /\ display' = [display EXCEPT ![q] = Char, ![q + 1] = Cursor]
          /\ keyboard_output' = q + 1 /\ DI' = q + 1 + 1 /\ typed' = TRUE
          /\ disturbed' = (disturbed \/ place = "printing" \/ q + 1 >= MessageCell)
          /\ UNCHANGED <<place, shown, exit_flag>>
      BY <1>7, <2>2 DEF NormalKey, CursorAt
    <3>2. q \in Nat /\ q + 1 \in 0 .. ScreenSize - 1 /\ q \in Cells
      BY <2>2 DEF ScreenTypeOK, Cells
    <3>3. display'[q] = Char /\ display'[q + 1] = Cursor
          /\ \A p \in Cells : p # q /\ p # q + 1 => display'[p] = display[p]
      BY <2>2, <3>1, <3>2 DEF ScreenTypeOK
    <3>4. ScreenTypeOK'
      <4>1. Char \in -3 .. MessageLength /\ Cursor \in -3 .. MessageLength
        BY DEF Char, Cursor
      <4>2. display' \in [Cells -> -3 .. MessageLength]
        BY <3>1, <4>1 DEF ScreenTypeOK
      <4>3. disturbed' \in BOOLEAN
        BY <3>1
      <4> QED
        BY <2>2, <3>1, <3>2, <4>2, <4>3 DEF ScreenTypeOK
    <3>5. PrintsElsewhere'
      BY <3>1, <3>2 DEF PrintsElsewhere
    <3>6. MessageGrows'
      <4> SUFFICES ASSUME ~disturbed' PROVE MessageGrows'
        BY DEF MessageGrows
      <4>0. ~disturbed /\ place # "printing" /\ ~(q + 1 >= MessageCell)
        BY <3>1, Zenon
      <4>1. ~disturbed /\ place # "printing" /\ q + 1 < MessageCell
        BY <3>2, <4>0
      <4>2. \A k \in 1 .. shown : MessageCell + k - 1 \in Cells /\ MessageCell + k - 1 > q + 1
        BY <4>1, <3>2 DEF Cells, ScreenTypeOK
      <4>3. \A k \in 1 .. shown : display'[MessageCell + k - 1] = display[MessageCell + k - 1]
        BY <4>2, <3>2, <3>3 DEF Cells
      <4> QED
        BY <3>1, <4>1, <4>3 DEF MessageGrows, Running
    <3>7. TypedStands'
      <4>1. \A p \in KeyCell .. MessageCell - 1 : p \in Cells /\ p \in Nat
        BY DEF Cells
      <4>2. ASSUME NEW p \in KeyCell .. MessageCell - 1, p < q + 1 PROVE display'[p] = Char
        <5>1. CASE p = q
          BY <5>1, <3>3
        <5>2. CASE p # q
          <6>1. p < q /\ p \in Cells /\ p # q + 1
            BY <5>2, <4>1, <4>2, <3>2
          <6> QED
            BY <6>1, <5>2, <3>1, <3>3 DEF TypedStands
        <5> QED
          BY <5>1, <5>2
      <4>3. ASSUME NEW p \in KeyCell .. MessageCell - 1, p = q + 1 PROVE display'[p] = Cursor
        BY <3>3, <4>3
      <4> QED
        BY <3>1, <4>2, <4>3 DEF TypedStands
    <3> QED
      BY <3>4, <3>5, <3>6, <3>7
  <2> QED
    BY <2>1, <2>2
<1>8. CASE Backspace
  <2> DEFINE q == keyboard_output
             r == IF q = 0 THEN 0 ELSE q - 1
  <2>1. /\ Running /\ keyboard_output' = r /\ DI' = r + 1 /\ typed' = TRUE
        /\ disturbed' = (disturbed \/ place = "printing" \/ r >= MessageCell)
        /\ UNCHANGED <<place, shown, exit_flag>>
    BY <1>8 DEF Backspace, CursorAt
  <2>2. q \in Cells /\ q \in Nat /\ r \in Cells /\ r \in Nat /\ r <= q /\ r + 1 \in 0 .. ScreenSize
    BY DEF ScreenTypeOK, Cells
  <2>3. /\ display' \in [Cells -> -3 .. MessageLength] /\ display'[r] = Cursor
        /\ \A p \in Cells : p # q /\ p # r => display'[p] = display[p]
    <3>1. Blank \in -3 .. MessageLength /\ Cursor \in -3 .. MessageLength
      BY DEF Blank, Cursor
    <3> QED
      BY <1>8, <2>2, <3>1 DEF Backspace, ScreenTypeOK
  <2>4. ScreenTypeOK'
    <3>1. disturbed' \in BOOLEAN
      BY <2>1
    <3> QED
      BY <2>1, <2>2, <2>3, <3>1 DEF ScreenTypeOK
  <2>5. PrintsElsewhere'
    BY <2>1, <2>2 DEF PrintsElsewhere
  <2>6. MessageGrows'
    <3> SUFFICES ASSUME ~disturbed' PROVE MessageGrows'
      BY DEF MessageGrows
    <3>0. ~disturbed /\ place # "printing" /\ ~(r >= MessageCell)
      BY <2>1, Zenon
    <3>1. ~disturbed /\ place # "printing" /\ r < MessageCell
      BY <2>2, <3>0
    <3>2. q < MessageCell
      BY <2>1, <3>1 DEF MessageGrows
    <3>3. \A k \in 1 .. shown : MessageCell + k - 1 \in Cells /\ MessageCell + k - 1 > q
      BY <3>2, <2>2 DEF Cells, ScreenTypeOK
    <3>4. \A k \in 1 .. shown : display'[MessageCell + k - 1] = display[MessageCell + k - 1]
      BY <3>3, <2>2, <2>3 DEF Cells
    <3> QED
      BY <2>1, <3>1, <3>4 DEF MessageGrows, Running
  <2>7. TypedStands'
    <3>1. \A p \in KeyCell .. MessageCell - 1 : p \in Cells
      BY DEF Cells
    <3> QED
      BY <2>1, <2>2, <2>3, <3>1 DEF TypedStands
  <2> QED
    BY <2>4, <2>5, <2>6, <2>7
<1>9. CASE Escape
  <2> USE <1>9 DEF Escape
  <2>1. ScreenTypeOK' BY DEF ScreenTypeOK
  <2>2. PrintsElsewhere' BY DEF PrintsElsewhere
  <2>3. MessageGrows' BY DEF MessageGrows, Running
  <2>4. TypedStands' BY DEF TypedStands, Running
  <2> QED BY <2>1, <2>2, <2>3, <2>4
<1>10. CASE KeyBeyondMap
  BY <1>2, <1>10 DEF KeyBeyondMap
<1>11. CASE UNCHANGED screenVars
  BY <1>11 DEF screenVars, ScreenTypeOK, PrintsElsewhere, MessageGrows, TypedStands, Running
<1> QED
  BY <1>1, <1>3, <1>4, <1>5, <1>6, <1>7, <1>8, <1>9, <1>10, <1>11 DEF ScreenNext, new_09

LEMMA AlwaysScreenInv == ScreenSpec => []ScreenInv
BY InitScreenInv, NextScreenInv, PTL DEF ScreenSpec

LEMMA TextIsKept == ScreenInv => TextStands
<1> SUFFICES ASSUME ScreenInv PROVE TextStands
  OBVIOUS
<1>1. Running => \A p \in KeyCell .. MessageCell - 1 :
            /\ p < keyboard_output => display[p] = Char
            /\ typed /\ p = keyboard_output => display[p] = Cursor
  BY DEF ScreenInv, TypedStands
<1>2. place = "waiting" /\ ~disturbed =>
            \A k \in 1 .. MessageLength : display[MessageCell + k - 1] = k
  BY DEF ScreenInv, MessageGrows, Running
<1> QED
  BY <1>1, <1>2 DEF TextStands

\* What is typed stays on the screen, and the message while nobody disturbs it, for any
\* layout that ScreenAssumption allows: mem_scrn and the interrupt handlers write to
\* different cells.
THEOREM TextKept == ScreenSpec => []TextStands
BY TextIsKept, AlwaysScreenInv, PTL

-----------------------------------------------------------------------------
\* The reports of the tablet.

\* What the moves of a finger are counted from: nothing before a finger lands, and the
\* place where it stands.
StrokeStarts ==
    /\ stroke = AllUp => mt_info[1] = Lifted
    /\ Len(stroke) = 2 => mt_info[1] \in Places
ReportsInv == ReportsTypeOK /\ NoKeyLeftPressed /\ StrokeStarts /\ MovesAddUp

\* The stroke tells its three forms apart by its length.
LEMMA StrokeKinds ==
  /\ Len(NoStroke) = 0 /\ Len(AllUp) = 1 /\ NoStroke # AllUp
  /\ \A p, q : Len(<<p, q>>) = 2 /\ <<p, q>> # AllUp /\ <<p, q>> # NoStroke
BY DEF NoStroke, AllUp

\* A move adds the way from the old place to the new one.
LEMMA AddMove ==
  ASSUME NEW a \in Nat, NEW s \in Int, NEW old \in Nat, NEW new \in Nat, a + s = old + (-1)
  PROVE  s + (new - old) \in Int /\ a + (s + (new - old)) = new + (-1)
OBVIOUS

LEMMA PlaceFacts ==
  /\ \A p \in Places : p = <<p[1], p[2]>> /\ p[1] \in Nat /\ p[2] \in Nat /\ p # Lifted
  /\ Lifted[1] = -1 /\ Lifted[2] = -1
BY ReportsAssumption DEF Lifted

LEMMA InitReportsInv == ReportsInit => ReportsInv
<1> SUFFICES ASSUME ReportsInit PROVE ReportsInv
  OBVIOUS
<1>1. ReportsTypeOK
  BY DEF ReportsInit, ReportsTypeOK, HidStart, Default, Points
<1>2. NoKeyLeftPressed
  BY DEF ReportsInit, NoKeyLeftPressed
<1>3. StrokeStarts /\ MovesAddUp
  BY StrokeKinds DEF ReportsInit, StrokeStarts, MovesAddUp
<1> QED
  BY <1>1, <1>2, <1>3 DEF ReportsInv

\* The other steps leave the statics alone.  The keys and the stroke stay or are forgotten.
LEMMA HidKeeps ==
  ASSUME ReportsInv, Plug \/ HidStep \/ ProbeEnds \/ Unplug \/ Reopen \/ UNCHANGED reportsVars
  PROVE  ReportsInv'
<1> USE DEF ReportsInv
<1>1. UNCHANGED statics /\ stroke' \in {stroke, NoStroke} /\ keys' \in SUBSET keys
  BY DEF Plug, HidStep, HidPage, HidUsage, HidCollectionEnd, ProbeEnds, Unplug, Reopen, reportsVars
<1>2. reporting_data' = reporting_data \/ (keys' = {} /\ reporting_data' = FALSE)
  BY DEF Plug, HidStep, HidPage, HidUsage, HidCollectionEnd, ProbeEnds, Unplug, Reopen, reportsVars
<1>3. ReportsTypeOK'
  <2> DEFINE Hids == [page : {"none", "desktop", "digitizer", "other"},
                       finger : BOOLEAN, pen : BOOLEAN]
  <2>1. hid' \in Hids
    <3>1. hid \in Hids /\ HidStart \in Hids
      BY DEF ReportsTypeOK, HidStart
    <3>2. ASSUME NEW p \in {"desktop", "digitizer", "other"}, HidPage(p) PROVE hid' \in Hids
      BY <3>1, <3>2 DEF HidPage
    <3>3. ASSUME NEW u, NEW long, HidUsage(u, long) PROVE hid' \in Hids
      <4>1. hid' = [[hid EXCEPT !.finger = @ \/ u = "finger"] EXCEPT !.pen = @ \/ u = "stylus"]
        BY <3>3 DEF HidUsage
      <4>2. (hid.finger \/ u = "finger") \in BOOLEAN /\ (hid.pen \/ u = "stylus") \in BOOLEAN
        OBVIOUS
      <4> QED
        BY <3>1, <4>1, <4>2, Zenon
    <3>4. HidCollectionEnd => hid' \in Hids
      BY <3>1 DEF HidCollectionEnd
    <3>5. Plug \/ ProbeEnds \/ Unplug \/ Reopen \/ UNCHANGED reportsVars
            => hid' = hid \/ hid' = HidStart
      BY DEF Plug, ProbeEnds, Unplug, Reopen, reportsVars
    <3> QED
      BY <3>1, <3>2, <3>3, <3>4, <3>5 DEF HidStep
  <2>3. stage' \in {"out", "parsing", "bound"}
    BY DEF Plug, HidStep, HidPage, HidUsage, HidCollectionEnd, ProbeEnds, Unplug, Reopen,
           reportsVars, ReportsTypeOK
  <2>2. features' \in [device_type : {"pen", "finger"}, pktlen : {9, 20}]
    BY DEF Plug, HidStep, HidPage, HidUsage, HidCollectionEnd, ProbeEnds, Unplug, Reopen,
           reportsVars, ReportsTypeOK, Default
  <2> QED
    BY <1>1, <1>2, <2>1, <2>2, <2>3 DEF ReportsTypeOK, statics
<1>4. NoKeyLeftPressed'
  BY <1>1, <1>2 DEF NoKeyLeftPressed, statics
<1>5. StrokeStarts' /\ MovesAddUp'
  BY <1>1, StrokeKinds DEF StrokeStarts, MovesAddUp, statics
<1> QED
  BY <1>3, <1>4, <1>5

\* A mouse button is pressed only together with its static; the pen's keys are not
\* button_handler's.
LEMMA TouchKeys ==
  ASSUME ReportsInv, NEW b, NEW before, before \subseteq keys \union {"middle"},
         button_handler(b, before), UNCHANGED reporting_data
  PROVE  /\ held' \subseteq MouseKeys /\ keys' \subseteq MouseKeys \union PenKeys
         /\ NoKeyLeftPressed'
<1> DEFINE new == ButtonOf(b) \ held
<1>1. /\ held' = IF b = 0 THEN {} ELSE held \union new
      /\ keys' = Capabilities \intersect (IF b = 0 THEN before \ held ELSE before \union new)
  BY DEF button_handler
<1>2. new \subseteq MouseKeys /\ MouseKeys \intersect PenKeys = {}
  BY DEF ButtonOf, MouseKeys, PenKeys
<1>3. /\ Capabilities \subseteq MouseKeys \union PenKeys
      /\ "middle" \in MouseKeys
  BY DEF Capabilities, MouseKeys, PenKeys
<1> HIDE DEF new
<1>4. held \subseteq MouseKeys /\ keys \subseteq MouseKeys \union PenKeys
      /\ keys \intersect (MouseKeys \ {"middle"}) \subseteq held
      /\ (~reporting_data => keys \intersect PenKeys = {})
  BY DEF ReportsInv, ReportsTypeOK, NoKeyLeftPressed
<1>5. held' \subseteq MouseKeys /\ keys' \subseteq MouseKeys \union PenKeys
  BY <1>1, <1>2, <1>3, <1>4
<1>6. keys' \intersect (MouseKeys \ {"middle"}) \subseteq held'
  BY <1>1, <1>4
<1>7. ~reporting_data => keys' \intersect PenKeys = {}
  BY <1>1, <1>2, <1>3, <1>4
<1> QED
  BY <1>5, <1>6, <1>7 DEF NoKeyLeftPressed

\* A stroke is continued only from the place where the last report has left the finger.
LEMMA TouchKeeps ==
  ASSUME ReportsInv, NEW b, NEW hard \in BOOLEAN, NEW f \in Points \X Points, irq_touch(b, hard, f)
  PROVE  ReportsInv'
<1>1. PICK fingers :
         /\ mt_info' = f
         /\ button_handler(b, Pressed(fingers, hard))
         /\ stroke' = CASE f[1] = Lifted -> AllUp
                       [] f[1] # Lifted /\ (fingers = 2 \/ stroke = NoStroke) -> NoStroke
                       [] OTHER -> Extend(Move(f[1]), f[1])
         /\ UNCHANGED <<stage, hid, features, reporting_data>>
  BY Zenon DEF irq_touch, NewPlaces
<1>2. Pressed(fingers, hard) \subseteq keys \union {"middle"}
  BY DEF Pressed
<1>3. held' \subseteq MouseKeys /\ keys' \subseteq MouseKeys \union PenKeys /\ NoKeyLeftPressed'
  BY <1>1, <1>2, TouchKeys
<1>4. f[1] \in Points /\ f[1] # Lifted => f[1] \in Places
  BY DEF Points
<1>6. \/ stroke' = AllUp /\ f[1] = Lifted
      \/ stroke' = NoStroke
      \/ /\ f[1] \in Places
         /\ stroke' \in Places \X (Int \X Int)
         /\ Len(stroke') = 2 /\ stroke' # AllUp
         /\ Plus(stroke'[1], stroke'[2]) = Plus(f[1], <<-1, -1>>)
  <2> SUFFICES ASSUME f[1] \in Places, stroke # NoStroke, stroke' = Extend(Move(f[1]), f[1])
               PROVE  /\ stroke' \in Places \X (Int \X Int)
                      /\ Len(stroke') = 2 /\ stroke' # AllUp
                      /\ Plus(stroke'[1], stroke'[2]) = Plus(f[1], <<-1, -1>>)
    BY <1>1, <1>4
  <2> DEFINE x == f[1][1]
             y == f[1][2]
             m == Move(f[1])
  <2>1. f[1] = <<x, y>> /\ x \in Nat /\ y \in Nat
    BY PlaceFacts
  <2>2. CASE stroke = AllUp
    <3>1. m = <<-1, -1>>
      BY <2>2, PlaceFacts DEF ReportsInv, StrokeStarts, Move, Rel
    <3>2. stroke' = <<f[1], <<-1, -1>>>>
      BY <2>2, <3>1 DEF Extend
    <3> QED
      BY <3>2, StrokeKinds DEF Plus
  <2>3. CASE stroke # AllUp
    <3>1. PICK p \in Places, s \in Int \X Int : stroke = <<p, s>>
      BY <2>3 DEF ReportsInv, ReportsTypeOK
    <3>2. Len(stroke) = 2 /\ stroke[1] = p /\ stroke[2] = s
      BY <3>1, StrokeKinds
    <3>3. mt_info[1] \in Places /\ Plus(p, s) = Plus(mt_info[1], <<-1, -1>>)
      BY <3>2 DEF ReportsInv, StrokeStarts, MovesAddUp
    <3> DEFINE u == mt_info[1][1]
               v == mt_info[1][2]
    <3>4. u \in Nat /\ v \in Nat /\ p[1] \in Nat /\ p[2] \in Nat
      BY <3>3, PlaceFacts
    <3>5. s[1] \in Int /\ s[2] \in Int
      OBVIOUS
    <3>6. p[1] + s[1] = u + (-1) /\ p[2] + s[2] = v + (-1)
      BY <3>3 DEF Plus
    <3>7. m = <<x - u, y - v>>
      BY <2>1, <3>4 DEF Move, Rel
    <3>8. stroke' = <<p, <<s[1] + (x - u), s[2] + (y - v)>>>>
      BY <2>3, <3>2, <3>7 DEF Extend, Plus
    <3> HIDE DEF u, v, m, x, y
    <3>9. /\ s[1] + (x - u) \in Int /\ s[2] + (y - v) \in Int
          /\ p[1] + (s[1] + (x - u)) = x + (-1) /\ p[2] + (s[2] + (y - v)) = y + (-1)
      BY <2>1, <3>4, <3>5, <3>6, AddMove
    <3>10. Plus(stroke'[1], stroke'[2]) = Plus(f[1], <<-1, -1>>)
      BY <3>8, <3>9, <2>1 DEF Plus
    <3> QED
      BY <3>8, <3>9, <3>10, StrokeKinds
  <2> QED
    BY <2>2, <2>3
<1>7. ReportsTypeOK'
  BY <1>1, <1>3, <1>6 DEF ReportsInv, ReportsTypeOK
<1>8. StrokeStarts' /\ MovesAddUp'
  <2>1. mt_info'[1] = f[1]
    BY <1>1
  <2>2. CASE stroke' = AllUp /\ f[1] = Lifted
    BY <2>1, <2>2, StrokeKinds DEF StrokeStarts, MovesAddUp
  <2>3. CASE stroke' = NoStroke
    BY <2>3, StrokeKinds DEF StrokeStarts, MovesAddUp
  <2>4. CASE /\ f[1] \in Places
             /\ Len(stroke') = 2 /\ stroke' # AllUp
             /\ Plus(stroke'[1], stroke'[2]) = Plus(f[1], <<-1, -1>>)
    BY <2>1, <2>4, Zenon DEF StrokeStarts, MovesAddUp
  <2> QED
    BY <1>6, <2>2, <2>3, <2>4
<1> QED
  BY <1>3, <1>7, <1>8 DEF ReportsInv

LEMMA PenKeeps == ASSUME ReportsInv, NEW s \in PenStates, irq_pen(s) PROVE ReportsInv'
<1> DEFINE down == IF s.ready THEN s.down ELSE {}
<1>1. /\ keys' = IF Reporting(s) THEN (keys \ PenKeys) \union (down \intersect Capabilities) ELSE keys
      /\ reporting_data' = (s.range /\ Reporting(s))
      /\ UNCHANGED <<stage, hid, features, mt_info, held, stroke>>
  BY DEF irq_pen, statics
<1>2. down \subseteq PenKeys /\ (~s.range => down = {}) /\ s.range \in BOOLEAN
  BY DEF PenStates
<1> HIDE DEF down
<1>3. MouseKeys \intersect PenKeys = {}
  BY DEF MouseKeys, PenKeys
<1>4. keys' \subseteq keys \union PenKeys /\ keys' \intersect MouseKeys \subseteq keys
  BY <1>1, <1>2, <1>3
<1>5. ~reporting_data' => keys' \intersect PenKeys = {}
  <2>1. CASE Reporting(s)
    <3>1. ~reporting_data' => ~s.range
      BY <1>1, <2>1, Zenon
    <3> QED
      BY <1>1, <1>2, <2>1, <3>1
  <2>2. CASE ~Reporting(s)
    BY <1>1, <2>2 DEF ReportsInv, NoKeyLeftPressed, Reporting
  <2> QED
    BY <2>1, <2>2
<1>6. NoKeyLeftPressed'
  BY <1>1, <1>4, <1>5 DEF ReportsInv, NoKeyLeftPressed
<1>7. reporting_data' \in BOOLEAN
  BY <1>1, Zenon
<1>8. ReportsTypeOK'
  BY <1>1, <1>4, <1>7 DEF ReportsInv, ReportsTypeOK
<1>9. StrokeStarts' /\ MovesAddUp'
  BY <1>1 DEF ReportsInv, StrokeStarts, MovesAddUp
<1> QED
  BY <1>6, <1>8, <1>9 DEF ReportsInv

LEMMA ReportsStepKeeps == ReportsInv /\ [ReportsNext]_reportsVars => ReportsInv'
BY HidKeeps, TouchKeeps, PenKeeps DEF ReportsNext, ReportStep

LEMMA AlwaysReportsInv == ReportsSpec => []ReportsInv
BY ReportsStepKeeps, InitReportsInv, PTL DEF ReportsSpec

\* No key is left pressed by button_handler and the pen's handler, for any places and
\* buttons, whatever reports, openings and replacements of the tablet there are.
THEOREM KeysReleased == ReportsSpec => []NoKeyLeftPressed
<1>1. ReportsInv => NoKeyLeftPressed
  BY DEF ReportsInv
<1> QED
  BY <1>1, AlwaysReportsInv, PTL

\* The moves that the touch handler reports of one finger add up to its way, less one on
\* each axis, from wherever on the pad it lands.
THEOREM MovesSum == ReportsSpec => []MovesAddUp
<1>1. ReportsInv => MovesAddUp
  BY DEF ReportsInv
<1> QED
  BY <1>1, AlwaysReportsInv, PTL

-----------------------------------------------------------------------------
\* Least and greatest members.

\* The order of the natural numbers as a relation.  That it is well founded gives every
\* set of natural numbers a least member, and a bounded one a greatest.
Below == {s \in Nat \X Nat : s[1] < s[2]}
LEMMA BelowWF == IsWellFoundedOn(Below, Nat)
<1>1. OpToRel(<, Nat) = Below
  BY DEF OpToRel, Below
<1> QED BY <1>1, NatLessThanWellFounded

LEMMA HasLeast ==
  ASSUME NEW S, S \subseteq Nat, S # {} PROVE \E x \in S : \A y \in S : x <= y
<1>1. \E x \in S : \A y \in S : ~ (<<y, x>> \in Below)
  BY BelowWF, WFMin, Zenon
<1>2. PICK x \in S : \A y \in S : ~ (<<y, x>> \in Below)
  BY <1>1
<1>3. ASSUME NEW y \in S PROVE x <= y
  <2>1. x \in Nat /\ y \in Nat /\ <<y, x>> \in Nat \X Nat
    OBVIOUS
  <2>2. ~ (y < x)
    BY <1>2, <2>1 DEF Below
  <2> QED BY <2>1, <2>2
<1> QED BY <1>3

LEMMA HasGreatest ==
  ASSUME NEW n \in Nat, NEW S, S \subseteq 0 .. n, S # {} PROVE \E x \in S : \A y \in S : y <= x
<1> DEFINE T == {d \in 0 .. n : n - d \in S}
<1>1. T \subseteq Nat /\ T # {}
  <2>1. PICK s \in S : TRUE OBVIOUS
  <2>2. s \in 0 .. n /\ n - s \in 0 .. n /\ n - (n - s) = s BY <2>1
  <2>3. n - s \in T BY <2>2
  <2> QED BY <2>3
<1>2. PICK z \in T : \A y \in T : z <= y
  BY <1>1, HasLeast
<1>3. n - z \in S OBVIOUS
<1>4. ASSUME NEW y \in S PROVE y <= n - z
  <2>1. y \in 0 .. n /\ n - y \in 0 .. n /\ n - (n - y) = y OBVIOUS
  <2>2. n - y \in T BY <2>1
  <2> QED BY <1>2, <2>1, <2>2
<1> QED BY <1>3, <1>4

-----------------------------------------------------------------------------
\* The server.

\* The clients that wait to be accepted.
Waiting == {backlog[k] : k \in 1 .. Len(backlog)}

\* A client is behind one connection at most, and only after it has connected.
OneConnection ==
    /\ \A fd \in Open : owner[fd] \notin Waiting /\ peer[owner[fd]] # "new"
    /\ \A f, g \in Open : owner[f] = owner[g] => f = g
    /\ \A k \in 1 .. Len(backlog) : peer[backlog[k]] # "new"
    /\ \A k, l \in 1 .. Len(backlog) : backlog[k] = backlog[l] => k = l

\* The table and the set, but for what recv finds.
TableHolds ==
    Up => /\ readfds \subseteq Open \union {sfd}
          /\ {clients[i] : i \in Slots} \ {0} = Open
          /\ \A i, j \in Slots : clients[i] = clients[j] => i = j \/ clients[i] = 0

\* From pselect until its slot has had its turn a connection in the set has something
\* to receive, and the listening socket someone to accept.
SetIsFresh ==
    /\ server = "accept" =>
          /\ sfd \in readfds => backlog # <<>>
          /\ \A fd \in Open \intersect readfds : inbox[owner[fd]] # {}
    /\ server = "slots" =>
          \A i \in Slots : i >= slot /\ Selected(i) => inbox[owner[clients[i]]] # {}

ServerInv == ServerTypeOK /\ OneConnection /\ TableHolds /\ SetIsFresh

LEMMA SlotFacts ==
  /\ IsFiniteSet(Slots) /\ Cardinality(Slots) = MAX_CLIENTS
  /\ IsFiniteSet(Fds) /\ Cardinality(Fds) = MAX_CLIENTS + 1
  /\ 1 \in Slots /\ 0 \notin Fds /\ Fds \subseteq Nat
BY FS_Interval, ServerAssumption DEF Slots, Fds

\* A table with a slot for each open descriptor leaves one descriptor that is not open.
LEMMA FreeDescriptor ==
  ASSUME ServerTypeOK, TableHolds, Up
  PROVE  Min(Fds \ Open) \in Fds \ Open
<1>1. IsFiniteSet({clients[i] : i \in Slots}) /\ Cardinality({clients[i] : i \in Slots}) <= MAX_CLIENTS
  <2> DEFINE T == {clients[i] : i \in Slots}
  <2>1. clients \in Surjection(Slots, T)
    <3>1. clients \in [Slots -> T] BY DEF ServerTypeOK
    <3>2. \A t \in T : \E i \in Slots : clients[i] = t OBVIOUS
    <3> QED BY <3>1, <3>2 DEF Surjection
  <2> HIDE DEF T
  <2>2. IsFiniteSet(T) /\ Cardinality(T) <= Cardinality(Slots) BY <2>1, SlotFacts, FS_Surjection
  <2> QED BY <2>2, SlotFacts DEF T
<1>2. Open \subseteq {clients[i] : i \in Slots}
  BY DEF TableHolds
<1>3. IsFiniteSet(Open) /\ Cardinality(Open) <= Cardinality({clients[i] : i \in Slots})
  BY <1>1, <1>2, FS_Subset
<1>4. Cardinality(Open) \in Nat /\ Cardinality({clients[i] : i \in Slots}) \in Nat
  BY <1>1, <1>3, FS_CardinalityType
<1>5. Fds # Open
  BY <1>1, <1>3, <1>4, SlotFacts, ServerAssumption
<1>6. Fds \ Open # {} /\ Fds \ Open \subseteq Nat
  BY <1>5, SlotFacts DEF ServerTypeOK
<1>7. \E x \in Fds \ Open : \A y \in Fds \ Open : x <= y
  BY <1>6, HasLeast
<1> QED BY <1>7 DEF Min

\* The first free slot, when there is one.
LEMMA FreeSlot ==
  ASSUME {i \in Slots : clients[i] = 0} # {}
  PROVE  Min({i \in Slots : clients[i] = 0}) \in {i \in Slots : clients[i] = 0}
<1>1. {i \in Slots : clients[i] = 0} \subseteq Nat
  BY DEF Slots
<1>2. \E x \in {i \in Slots : clients[i] = 0} : \A y \in {i \in Slots : clients[i] = 0} : x <= y
  BY <1>1, HasLeast, Zenon
<1> QED BY <1>2 DEF Min

\* pselect looks at every descriptor of the set.
LEMMA AllExamined ==
  ASSUME ServerTypeOK, TableHolds, Up
  PROVE  Examined = readfds
<1> DEFINE T == {sfd} \union {clients[i] : i \in Slots}
<1>1. T \subseteq 0 .. MAX_CLIENTS + 1 /\ T # {}
  BY ServerAssumption DEF ServerTypeOK, sfd, Fds
<1>2. MAX_CLIENTS + 1 \in Nat
  BY ServerAssumption
<1> HIDE DEF T
<1>3. \E x \in T : \A y \in T : y <= x
  BY <1>1, <1>2, HasGreatest
<1>4. Max(T) \in T /\ \A y \in T : y <= Max(T)
  <2>1. \E x \in T : \A y \in T : x >= y
    BY <1>1, <1>3
  <2>2. Max(T) \in T /\ \A y \in T : Max(T) >= y
    BY <2>1, Zenon DEF Max
  <2> QED BY <1>1, <2>2
<1>5. readfds \subseteq T
  BY DEF TableHolds, T
<1> QED BY <1>4, <1>5 DEF Examined, T

LEMMA InitServer == ServerInit => ServerInv
<1> SUFFICES ASSUME ServerInit PROVE ServerInv
  OBVIOUS
<1>1. Open = {} /\ backlog = <<>> /\ Len(backlog) = 0
  BY DEF ServerInit, Open
<1>2. ServerTypeOK
  BY <1>1, SlotFacts DEF ServerInit, ServerTypeOK
<1>3. OneConnection
  BY <1>1 DEF OneConnection
<1>4. TableHolds
  <2>1. {clients[i] : i \in Slots} = {0}
    BY SlotFacts DEF ServerInit
  <2> QED BY <1>1, <2>1 DEF ServerInit, TableHolds
<1>5. SetIsFresh
  BY DEF ServerInit, SetIsFresh
<1> QED BY <1>2, <1>3, <1>4, <1>5 DEF ServerInv

\* A client's step leaves the server's variables but for the end of the backlog, and
\* what is to be received grows.
LEMMA ClientKeeps ==
  ASSUME ServerInv, NEW cl \in Clients, ClientStep(cl) \/ ClientEnd(cl)
  PROVE  ServerInv'
<1> USE DEF ServerInv
<1>1. /\ UNCHANGED <<tableVars, server, slot>>
      /\ peer' \in [Clients -> {"new", "connected", "waiting", "done", "gone"}]
      /\ \A d \in Clients : peer[d] # "new" => peer'[d] # "new"
      /\ peer'[cl] # "new"
  BY DEF ClientStep, ClientEnd, Connect, ClientSend, ClientRecv, Step, ServerTypeOK
<1>2. /\ inbox' \in [Clients -> SUBSET {"msg", "fin", "rst"}]
      /\ \A d \in Clients : inbox[d] \subseteq inbox'[d]
      /\ answered' \subseteq Clients
  BY DEF ClientStep, ClientEnd, Connect, ClientSend, ClientRecv, Step, ServerTypeOK
<1>3. \/ UNCHANGED backlog
      \/ backlog' = Append(backlog, cl) /\ peer[cl] = "new"
  BY DEF ClientStep, ClientEnd, Connect, ClientSend, ClientRecv, Step
<1>4. ServerTypeOK'
  BY <1>1, <1>2, <1>3 DEF ServerTypeOK, Open, tableVars
<1>5. OneConnection'
  <2>1. CASE UNCHANGED backlog
    BY <1>1, <2>1 DEF OneConnection, ServerTypeOK, Open, Waiting, tableVars
  <2>2. CASE backlog' = Append(backlog, cl) /\ peer[cl] = "new"
    <3>1. /\ Len(backlog) \in Nat /\ Len(backlog') = Len(backlog) + 1
          /\ \A k \in 1 .. Len(backlog) : backlog'[k] = backlog[k] /\ backlog[k] \in Clients
          /\ backlog'[Len(backlog) + 1] = cl
      BY <2>2 DEF ServerTypeOK
    <3>2. \A k \in 1 .. Len(backlog') : k \in 1 .. Len(backlog) \/ k = Len(backlog) + 1
      BY <3>1
    <3>3. Waiting' \subseteq Waiting \union {cl}
      BY <3>1, <3>2 DEF Waiting
    <3>4. \A k \in 1 .. Len(backlog) : backlog[k] # cl
      BY <2>2 DEF OneConnection
    <3>5. \A fd \in Open : owner[fd] # cl /\ owner[fd] \in Clients
      BY <2>2 DEF OneConnection, ServerTypeOK
    <3>6. owner' = owner /\ Open' = Open
      BY <1>1 DEF Open, tableVars
    <3>7. \A fd \in Open' : owner'[fd] \notin Waiting' /\ peer'[owner'[fd]] # "new"
      BY <1>1, <3>3, <3>5, <3>6 DEF OneConnection
    <3>8. \A k \in 1 .. Len(backlog') : peer'[backlog'[k]] # "new"
      BY <1>1, <3>1, <3>2 DEF OneConnection
    <3>9. \A k, l \in 1 .. Len(backlog') : backlog'[k] = backlog'[l] => k = l
      BY <3>1, <3>2, <3>4 DEF OneConnection
    <3> QED BY <3>6, <3>7, <3>8, <3>9 DEF OneConnection
  <2> QED BY <1>3, <2>1, <2>2
<1>6. TableHolds'
  BY <1>1 DEF TableHolds, Open, Up, tableVars
<1>7. SetIsFresh'
  <2>1. backlog # <<>> => backlog' # <<>>
    BY <1>3 DEF ServerTypeOK
  <2>2. server = "slots" => \A i \in Slots : i >= slot /\ Selected(i) => clients[i] \in Open
    BY DEF TableHolds, Selected, Up, ServerEnds
  <2>3. \A i : Selected(i)' <=> Selected(i)
    BY <1>1 DEF Selected, tableVars
  <2> QED
    BY <1>1, <1>2, <2>1, <2>2, <2>3 DEF SetIsFresh, Open, tableVars, ServerTypeOK
<1> QED BY <1>4, <1>5, <1>6, <1>7
LEMMA SetKeeps == ASSUME ServerInv, SetDescriptors PROVE ServerInv'
<1> USE DEF ServerInv, SetDescriptors, peerVars, tableVars
<1>1. server # "slots" /\ server' = "select" /\ Up /\ Open' = Open
  BY DEF Open, Up, ServerEnds
<1>2. readfds' \subseteq Open \union {sfd}
  BY <1>1 DEF TableHolds, sfd
<1>3. ServerTypeOK' BY <1>1, <1>2 DEF ServerTypeOK, ServerEnds
<1>4. OneConnection' BY <1>1 DEF OneConnection, Waiting
<1>5. TableHolds' BY <1>1, <1>2 DEF TableHolds
<1>6. SetIsFresh' BY <1>1 DEF SetIsFresh
<1> QED BY <1>3, <1>4, <1>5, <1>6

LEMMA PselectKeeps == ASSUME ServerInv, Pselect PROVE ServerInv'
<1> USE DEF ServerInv, peerVars
<1>1. server = "select" /\ Up /\ UNCHANGED <<peerVars, backlog, owner, clients, slot>> /\ Open' = Open
  BY DEF Pselect, Up, ServerEnds, Open
<1>2. Examined = readfds
  BY <1>1, AllExamined
<1>3. Examined \subseteq Open \union {sfd}
  BY <1>1, <1>2 DEF TableHolds
<1>4. server' = "accept" /\ readfds' = {fd \in readfds : Ready(fd)}
  BY <1>2, <1>3 DEF Pselect
<1>5. sfd \in readfds' => backlog # <<>>
  BY <1>4 DEF Ready
<1>6. \A fd \in Open \intersect readfds' : inbox[owner[fd]] # {}
  BY <1>4, SlotFacts DEF Ready, ServerTypeOK, sfd
<1>7. ServerTypeOK' BY <1>1, <1>4 DEF ServerTypeOK, ServerEnds
<1>8. OneConnection' BY <1>1 DEF OneConnection, Waiting
<1>9. TableHolds' BY <1>1, <1>4 DEF TableHolds
<1>10. SetIsFresh' BY <1>1, <1>4, <1>5, <1>6 DEF SetIsFresh
<1> QED BY <1>7, <1>8, <1>9, <1>10

\* The slot whose turn is next has not had it.
LEMMA NextSlotFacts ==
  ASSUME ServerTypeOK, server = "slots", NextSlot
  PROVE  /\ slot' \in Slots /\ server' \in {"slots", "set"}
         /\ server' = "slots" => slot' = slot + 1
BY ServerAssumption DEF NextSlot, ServerTypeOK, Slots

LEMMA SkipKeeps == ASSUME ServerInv, SkipSlot PROVE ServerInv'
<1> USE DEF ServerInv, SkipSlot, peerVars, tableVars
<1>1. slot' \in Slots /\ server' \in {"slots", "set"} /\ (server' = "slots" => slot' = slot + 1)
  BY NextSlotFacts
<1>2. UNCHANGED <<peerVars, backlog, tableVars>> /\ Open' = Open /\ server = "slots"
  BY DEF Open
<1>3. ServerTypeOK' BY <1>1, <1>2 DEF ServerTypeOK, ServerEnds
<1>4. OneConnection' BY <1>2 DEF OneConnection, Waiting
<1>5. TableHolds' BY <1>2 DEF TableHolds, Up, ServerEnds
<1>6. SetIsFresh'
  <2>1. \A i \in Slots : i >= slot + 1 => i >= slot BY DEF ServerTypeOK, Slots
  <2> QED BY <1>1, <1>2, <2>1 DEF SetIsFresh, Selected
<1> QED BY <1>3, <1>4, <1>5, <1>6

LEMMA AnswerKeeps == ASSUME ServerInv, Answer PROVE ServerInv'
<1> USE DEF ServerInv, tableVars
<1> DEFINE cl == owner[clients[slot]]
<1>1. /\ server = "slots" /\ Selected(slot)
      /\ inbox' = [inbox EXCEPT ![cl] = @ \ {"msg"}]
      /\ answered' \in {answered, answered \union {cl}}
      /\ NextSlot /\ UNCHANGED <<peer, backlog, tableVars>>
  BY DEF Answer
<1>2. slot' \in Slots /\ server' \in {"slots", "set"} /\ (server' = "slots" => slot' = slot + 1)
  BY <1>1, NextSlotFacts
<1>3. Up /\ Open' = Open /\ slot \in Slots
  BY <1>1 DEF Open, Up, ServerEnds, ServerTypeOK
<1>4. clients[slot] \in Open /\ cl \in Clients
  BY <1>1, <1>3 DEF TableHolds, Selected, ServerTypeOK
<1>5. ServerTypeOK'
  <2>1. inbox' \in [Clients -> SUBSET {"msg", "fin", "rst"}]
    <3>1. inbox[cl] \ {"msg"} \in SUBSET {"msg", "fin", "rst"} BY <1>4 DEF ServerTypeOK
    <3> QED BY <1>1, <3>1 DEF ServerTypeOK
  <2> QED BY <1>1, <1>2, <1>3, <1>4, <2>1 DEF ServerTypeOK, ServerEnds
<1>6. OneConnection' BY <1>1, <1>3 DEF OneConnection, Waiting
<1>7. TableHolds' BY <1>1, <1>2, <1>3 DEF TableHolds, Up, ServerEnds
<1>8. SetIsFresh'
  <2>1. ASSUME NEW i \in Slots, i >= slot + 1, Selected(i) PROVE inbox'[owner[clients[i]]] # {}
    <3>1. i # slot /\ i >= slot BY <2>1, <1>3 DEF Slots
    <3>2. clients[i] \in Open /\ clients[i] # clients[slot]
      BY <2>1, <1>1, <1>3, <3>1 DEF TableHolds, Selected
    <3>3. owner[clients[i]] # cl BY <1>4, <3>2 DEF OneConnection
    <3>4. owner[clients[i]] \in Clients BY <3>2 DEF ServerTypeOK
    <3>5. inbox'[owner[clients[i]]] = inbox[owner[clients[i]]]
      BY <1>1, <3>3, <3>4 DEF ServerTypeOK
    <3> QED BY <1>1, <2>1, <3>1, <3>5 DEF SetIsFresh
  <2>2. \A i : Selected(i)' <=> Selected(i) BY <1>1 DEF Selected
  <2> HIDE DEF cl
  <2> QED BY <1>1, <1>2, <2>1, <2>2 DEF SetIsFresh
<1> QED BY <1>5, <1>6, <1>7, <1>8

LEMMA HangupKeeps == ASSUME ServerInv, Hangup PROVE ServerInv'
<1> USE DEF ServerInv, peerVars
<1> DEFINE fd == clients[slot]
<1>1. /\ server = "slots" /\ Selected(slot)
      /\ readfds' = readfds \ {fd} /\ owner' = [f \in Open \ {fd} |-> owner[f]]
      /\ clients' = [clients EXCEPT ![slot] = 0]
      /\ NextSlot /\ UNCHANGED <<peerVars, backlog>>
  BY DEF Hangup
<1>2. slot' \in Slots /\ server' \in {"slots", "set"} /\ (server' = "slots" => slot' = slot + 1)
  BY <1>1, NextSlotFacts
<1>3. Up /\ slot \in Slots /\ Open' = Open \ {fd} /\ \A f \in Open' : owner'[f] = owner[f]
  BY <1>1 DEF Open, Up, ServerEnds, ServerTypeOK
<1>4. fd \in Open /\ fd # 0
  BY <1>1, <1>3 DEF TableHolds, Selected, ServerTypeOK
<1>5. /\ clients' \in [Slots -> {0} \union Fds] /\ clients'[slot] = 0
      /\ \A i \in Slots : i # slot => clients'[i] = clients[i] /\ (clients[i] = fd => FALSE)
  BY <1>1, <1>3, <1>4 DEF ServerTypeOK, TableHolds
<1> HIDE DEF fd
<1>6. ServerTypeOK'
  BY <1>1, <1>2, <1>3, <1>5 DEF ServerTypeOK, ServerEnds
<1>7. OneConnection' BY <1>1, <1>3 DEF OneConnection, Waiting
<1>8. TableHolds'
  <2>1. readfds' \subseteq Open' \union {sfd} BY <1>1, <1>3 DEF TableHolds
  <2>2. {clients'[i] : i \in Slots} \ {0} = Open'
    <3>1. ASSUME NEW i \in Slots, clients'[i] # 0 PROVE clients'[i] \in Open'
      BY <1>3, <1>5, <3>1 DEF TableHolds
    <3>2. ASSUME NEW f \in Open' PROVE f # 0 /\ \E i \in Slots : clients'[i] = f
      <4>1. f \in Open /\ f # fd BY <1>3
      <4>2. PICK i \in Slots : clients[i] = f BY <1>3, <4>1 DEF TableHolds
      <4>3. i # slot BY <4>1, <4>2 DEF fd
      <4> QED BY <1>3, <1>5, <4>1, <4>2, <4>3 DEF TableHolds
    <3> QED BY <3>1, <3>2
  <2>3. \A i, j \in Slots : clients'[i] = clients'[j] => i = j \/ clients'[i] = 0
    BY <1>3, <1>5 DEF TableHolds
  <2> QED BY <2>1, <2>2, <2>3 DEF TableHolds
<1>9. SetIsFresh'
  <2>1. ASSUME NEW i \in Slots, i >= slot + 1, Selected(i)' PROVE inbox[owner'[clients'[i]]] # {}
    <3>1. i # slot /\ i >= slot BY <2>1, <1>3 DEF Slots
    <3>2. clients'[i] = clients[i] /\ clients[i] # fd /\ Selected(i)
      BY <1>1, <1>5, <2>1, <3>1 DEF Selected
    <3>3. clients[i] \in Open'
      BY <1>3, <3>2 DEF TableHolds, Selected
    <3> QED BY <1>1, <1>3, <3>1, <3>2, <3>3 DEF SetIsFresh
  <2> QED BY <1>1, <1>2, <2>1 DEF SetIsFresh
<1> QED BY <1>6, <1>7, <1>8, <1>9

\* A connection that is accepted is none the server has already, on a descriptor that is
\* not in the set.
LEMMA AcceptKeeps == ASSUME ServerInv, Accept PROVE ServerInv'
<1> USE DEF ServerInv, peerVars
<1>1. server = "accept" /\ slot' = 1 /\ Up /\ UNCHANGED <<peerVars, readfds>>
  BY DEF Accept, Up, ServerEnds
<1>2. ASSUME UNCHANGED <<backlog, owner, clients>>, server' \in {"slots", "accept failed"}
      PROVE  ServerInv'
  <2>1. Open' = Open BY <1>2 DEF Open
  <2>2. ServerTypeOK'
    <3>1. server' \in {"set", "select", "accept", "slots"} \union ServerEnds
      BY <1>2 DEF ServerEnds
    <3>2. slot' \in Slots BY <1>1, SlotFacts
    <3> QED BY <1>1, <1>2, <2>1, <3>1, <3>2 DEF ServerTypeOK
  <2>3. OneConnection'
    <3>1. Waiting' = Waiting BY <1>2 DEF Waiting
    <3> QED BY <1>1, <1>2, <2>1, <3>1 DEF OneConnection
  <2>4. TableHolds' BY <1>1, <1>2, <2>1 DEF TableHolds, Up, ServerEnds
  <2>5. SetIsFresh'
    <3>1. \A i \in Slots : Selected(i) => clients[i] \in Open \intersect readfds
      BY <1>1 DEF Selected, TableHolds
    <3> QED BY <1>1, <1>2, <3>1 DEF SetIsFresh, Selected
  <2> QED BY <2>2, <2>3, <2>4, <2>5
<1>3. ASSUME NEW fd, fd = Min(Fds \ Open), sfd \in readfds,
             owner' = [f \in Open \union {fd} |-> IF f = fd THEN Head(backlog) ELSE owner[f]],
             backlog' = Tail(backlog), Put(fd)
      PROVE  ServerInv'
  <2>1. fd \in Fds /\ fd \notin Open /\ fd # 0
    BY <1>1, <1>3, FreeDescriptor, SlotFacts
  <2>2. /\ Open' = Open \union {fd} /\ owner'[fd] = Head(backlog)
        /\ \A f \in Open : owner'[f] = owner[f]
    BY <1>3, <2>1 DEF Open
  <2>3. backlog # <<>> /\ Len(backlog) \in Nat \ {0} /\ backlog[1] = Head(backlog)
    BY <1>1, <1>3 DEF SetIsFresh, ServerTypeOK
  <2>4. /\ backlog' \in Seq(Clients) /\ Len(backlog') = Len(backlog) - 1
        /\ \A k \in 1 .. Len(backlog') : backlog'[k] = backlog[k + 1] /\ k + 1 \in 1 .. Len(backlog)
    BY <1>3, <2>3 DEF ServerTypeOK
  <2>5. Head(backlog) \in Clients /\ 1 \in 1 .. Len(backlog)
    BY <2>3 DEF ServerTypeOK
  <2>6. \/ server' = "no slot" /\ UNCHANGED clients
        \/ /\ server' = "slots"
           /\ \E i \in Slots : clients[i] = 0 /\ clients' = [clients EXCEPT ![i] = fd]
    <3> DEFINE free == {i \in Slots : clients[i] = 0}
    <3>1. CASE free = {} BY <1>3, <3>1 DEF Put
    <3>2. CASE free # {}
      <4>1. server' = "slots" /\ clients' = [clients EXCEPT ![Min(free)] = fd]
        BY <1>3, <3>2 DEF Put
      <4>2. Min(free) \in free BY <3>2, FreeSlot
      <4> QED BY <4>1, <4>2
    <3> QED BY <3>1, <3>2
  <2>7. ServerTypeOK'
    <3>1. clients' \in [Slots -> {0} \union Fds]
      BY <2>1, <2>6 DEF ServerTypeOK
    <3>2. server' \in {"slots"} \union ServerEnds
      BY <2>6 DEF ServerEnds
    <3> QED BY <1>1, <2>1, <2>2, <2>4, <2>5, <3>1, <3>2, SlotFacts DEF ServerTypeOK
  <2>8. OneConnection'
    <3>1. Waiting' \subseteq Waiting /\ Head(backlog) \in Waiting /\ Head(backlog) \notin Waiting'
      <4>1. ASSUME NEW k \in 1 .. Len(backlog') PROVE backlog'[k] \in Waiting /\ backlog'[k] # Head(backlog)
        <5>1. backlog'[k] = backlog[k + 1] /\ k + 1 \in 1 .. Len(backlog) /\ k + 1 # 1
          BY <2>4
        <5> QED BY <2>3, <2>5, <5>1 DEF Waiting, OneConnection
      <4> QED BY <4>1, <2>3, <2>5 DEF Waiting
    <3>2. \A f \in Open : owner[f] # Head(backlog)
      BY <3>1 DEF OneConnection
    <3>3. peer[Head(backlog)] # "new"
      BY <2>3, <2>5 DEF OneConnection
    <3>4. \A f \in Open' : owner'[f] \notin Waiting' /\ peer'[owner'[f]] # "new"
      BY <1>1, <2>2, <3>1, <3>3 DEF OneConnection
    <3>5. \A f, g \in Open' : owner'[f] = owner'[g] => f = g
      BY <2>2, <3>2 DEF OneConnection
    <3>6. \A k \in 1 .. Len(backlog') : peer'[backlog'[k]] # "new"
      BY <1>1, <2>4 DEF OneConnection
    <3>7. \A k, l \in 1 .. Len(backlog') : backlog'[k] = backlog'[l] => k = l
      <4> SUFFICES ASSUME NEW k \in 1 .. Len(backlog'), NEW l \in 1 .. Len(backlog'),
                          backlog'[k] = backlog'[l] PROVE k = l
        OBVIOUS
      <4>1. k + 1 = l + 1 BY <2>4 DEF OneConnection
      <4> QED BY <4>1
    <3> QED BY <3>4, <3>5, <3>6, <3>7 DEF OneConnection
  <2>9. CASE server' = "no slot"
    <3>1. TableHolds' /\ SetIsFresh' BY <2>9 DEF TableHolds, SetIsFresh, Up, ServerEnds
    <3> QED BY <2>7, <2>8, <3>1
  <2>10. CASE server' = "slots"
    <3>1. PICK i \in Slots : clients[i] = 0 /\ clients' = [clients EXCEPT ![i] = fd]
      BY <2>6, <2>10
    <3>2. clients'[i] = fd /\ \A j \in Slots : j # i => clients'[j] = clients[j]
      BY <3>1 DEF ServerTypeOK
    <3>3. TableHolds'
      <4>1. readfds' \subseteq Open' \union {sfd} BY <1>1, <2>2 DEF TableHolds
      <4>2. \A j \in Slots : clients'[j] # 0 => clients'[j] \in Open'
        BY <1>1, <2>2, <3>2 DEF TableHolds
      <4>3. ASSUME NEW f \in Open' PROVE f # 0 /\ \E j \in Slots : clients'[j] = f
        BY <1>1, <2>1, <2>2, <3>1, <3>2 DEF TableHolds
      <4>4. {clients'[j] : j \in Slots} \ {0} = Open' BY <4>2, <4>3
      <4>5. \A j \in Slots : clients[j] # fd BY <1>1, <2>1 DEF TableHolds
      <4>6. \A j, k \in Slots : clients'[j] = clients'[k] => j = k \/ clients'[j] = 0
        BY <1>1, <3>2, <4>5 DEF TableHolds
      <4> QED BY <4>1, <4>4, <4>6 DEF TableHolds
    <3>4. SetIsFresh'
      <4>1. ASSUME NEW j \in Slots, Selected(j)' PROVE inbox'[owner'[clients'[j]]] # {}
        <5>1. clients'[j] # 0 /\ clients'[j] \in readfds BY <1>1, <4>1 DEF Selected
        <5>2. j # i BY <1>1, <2>1, <3>2, <5>1 DEF TableHolds, sfd
        <5>3. clients[j] \in Open \intersect readfds
          BY <1>1, <3>2, <5>1, <5>2 DEF TableHolds
        <5> QED BY <1>1, <2>2, <3>2, <5>2, <5>3 DEF SetIsFresh
      <4> QED BY <2>10, <4>1 DEF SetIsFresh
    <3> QED BY <2>7, <2>8, <3>3, <3>4
  <2> QED BY <2>6, <2>9, <2>10
<1> QED BY <1>2, <1>3 DEF Accept

LEMMA ServerStepKeeps == ServerInv /\ [ServerNext]_serverVars => ServerInv'
<1> SUFFICES ASSUME ServerInv, [ServerNext]_serverVars PROVE ServerInv'
  OBVIOUS
<1>1. CASE Reset
  <2>1. server' \in ServerEnds /\ UNCHANGED <<peerVars, backlog, tableVars, slot>>
    BY <1>1 DEF Reset, ServerEnds
  <2>2. Open' = Open /\ Waiting' = Waiting BY <2>1 DEF Open, Waiting, tableVars
  <2>3. ServerTypeOK'
    BY <2>1, <2>2 DEF ServerInv, ServerTypeOK, peerVars, tableVars
  <2>4. OneConnection'
    BY <2>1, <2>2 DEF ServerInv, OneConnection, peerVars, tableVars
  <2>5. TableHolds' /\ SetIsFresh'
    BY <2>1 DEF TableHolds, SetIsFresh, Up, ServerEnds
  <2> QED BY <2>3, <2>4, <2>5 DEF ServerInv
<1>2. CASE UNCHANGED serverVars
  BY <1>2 DEF serverVars, ServerInv, ServerTypeOK, OneConnection, TableHolds, SetIsFresh, Up,
              Selected, Open, Waiting, peerVars, tableVars
<1> QED
  BY <1>1, <1>2, ClientKeeps, SetKeeps, PselectKeeps, AcceptKeeps, SkipKeeps, AnswerKeeps,
     HangupKeeps DEF ServerNext, ServerStep

LEMMA AlwaysServerInv == ServerSpec => []ServerInv
BY InitServer, ServerStepKeeps, PTL DEF ServerSpec

\* The types of the server's variables, for any clients and any size of the table.
THEOREM ServerTypeCorrect == ServerSpec => []ServerTypeOK
<1>1. ServerInv => ServerTypeOK BY DEF ServerInv
<1> QED BY <1>1, AlwaysServerInv, PTL

LEMMA TableIsKept == ServerInv => TableIsExact
BY DEF ServerInv, TableHolds, SetIsFresh, TableIsExact, ServerTypeOK, Slots

\* However many clients come, send, hang up and are killed: the table and readfds hold
\* the open descriptors and no others, and recv is called only where there is something
\* to receive.
THEOREM TableStaysExact == ServerSpec => []TableIsExact
BY TableIsKept, AlwaysServerInv, PTL

-----------------------------------------------------------------------------
\* The bottom halves.

\* The parts of the two modules that rest while the other one runs.
WorkOut    == module_w = "out" /\ irq_w = "idle" /\ work1 = "idle"
TaskletOut == module_t = "out"

\* Between the two steps of the handler the tasklet's data is the new code's, otherwise
\* that of the last code that has been asked for, until it is printed.
DataFollows ==
    /\ irq_t # "idle" => module_t # "out" /\ port.pressed
    /\ irq_t = "schedule" => data = port.key
    /\ last.pressed /\ irq_t # "schedule" => data = last.key
    /\ last.pressed /\ irq_t # "schedule" /\ ~scheduled /\ ~running => printed = last.key

TaskletInv == BottomTypeOK /\ WorkOut /\ DataFollows

\* The same of scancode, which the handler writes before it queues work1.
ScancodeFollows ==
    /\ irq_w # "idle" => module_w # "out"
    /\ irq_w \in {"queue1", "queue2"} => queue /\ scancode = port
    /\ last.pressed => queue
    /\ module_w = "irq" => last = NoCode /\ ~queue
    /\ last.pressed /\ irq_w # "queue1" => scancode = last
    /\ last.pressed /\ irq_w # "queue1" /\ 1 \notin queued /\ work1 = "idle"
          => printed = last.key

WorkInv == BottomTypeOK /\ TaskletOut /\ ScancodeFollows

LEMMA CodeFacts ==
  /\ NoCode.pressed = FALSE /\ NoCode.key = NoKey
  /\ \A e \in Codes : e.key \in Keys /\ e.pressed \in BOOLEAN
  /\ \A e \in Codes \union {NoCode} : e.key \in Keys \union {NoKey}
BY DEF NoCode, Codes

LEMMA InitBottom == BottomInit => TaskletInv /\ WorkInv
BY CodeFacts DEF BottomInit, TaskletInv, WorkInv, BottomTypeOK, WorkOut, TaskletOut,
                 DataFollows, ScancodeFollows

LEMMA TaskletKeeps == TaskletInv /\ [TaskletNext]_bottomVars => TaskletInv'
<1> SUFFICES ASSUME TaskletInv, [TaskletNext]_bottomVars PROVE TaskletInv'
  OBVIOUS
<1> USE CodeFacts DEF TaskletInv, taskletVars, workVars, ghosts, bottomVars, BottomTypeOK, WorkOut, DataFollows
<1>1. CASE TaskletInit BY <1>1 DEF TaskletInit
<1>2. ASSUME NEW code \in Codes, TaskletInterrupt(code) PROVE TaskletInv'
  BY <1>2 DEF TaskletInterrupt
<1>3. CASE TaskletHandler BY <1>3 DEF TaskletHandler
<1>4. CASE TaskletStart BY <1>4 DEF TaskletStart
<1>5. CASE TaskletRun BY <1>5, KeysAssumption DEF TaskletRun
<1>6. CASE TaskletExit BY <1>6 DEF TaskletExit
<1>7. CASE TaskletStale BY <1>7 DEF TaskletStale, Break
<1>8. CASE UNCHANGED bottomVars BY <1>8
<1> QED BY <1>1, <1>2, <1>3, <1>4, <1>5, <1>6, <1>7, <1>8 DEF TaskletNext

LEMMA WorkKeeps == WorkInv /\ [WorkNext]_bottomVars => WorkInv'
<1> SUFFICES ASSUME WorkInv, [WorkNext]_bottomVars PROVE WorkInv'
  OBVIOUS
<1> USE CodeFacts DEF WorkInv, taskletVars, workVars, ghosts, bottomVars, BottomTypeOK, TaskletOut, ScancodeFollows
<1>1. CASE WorkInit
  <2>3. /\ module_w' \in {"out", "irq", "queue", "work1", "live", "destroyed"}
        /\ scancode' \in Codes \union {NoCode} /\ last' \in Codes \union {NoCode}
        /\ queue' \in BOOLEAN /\ printed' \in Keys \union {NoKey}
    BY <1>1 DEF WorkInit
  <2>1. BottomTypeOK' /\ TaskletOut' BY <1>1, <2>3 DEF WorkInit
  <2>2. ScancodeFollows' BY <1>1 DEF WorkInit
  <2> QED BY <2>1, <2>2, Zenon
<1>2. ASSUME NEW code \in Codes, WorkInterrupt(code) PROVE WorkInv'
  BY <1>2 DEF WorkInterrupt
<1>3. CASE WorkStore
  <2>1. BottomTypeOK' /\ TaskletOut' BY <1>3 DEF WorkStore
  <2>2. ScancodeFollows' BY <1>3 DEF WorkStore
  <2> QED BY <2>1, <2>2, Zenon
<1>4. CASE WorkQueue
  <2>1. BottomTypeOK' /\ TaskletOut' BY <1>4 DEF WorkQueue
  <2>2. ScancodeFollows' BY <1>4 DEF WorkQueue
  <2> QED BY <2>1, <2>2, Zenon
<1>5. CASE WorkStart
  <2>1. queued' \subseteq queued /\ work1' \in {work1, "test"} BY <1>5 DEF WorkStart
  <2>2. BottomTypeOK' /\ TaskletOut' BY <1>5, <2>1 DEF WorkStart
  <2>3. ScancodeFollows' BY <1>5 DEF WorkStart
  <2> QED BY <2>2, <2>3, Zenon
<1>6. CASE WorkTest BY <1>6 DEF WorkTest
<1>7. CASE WorkPrint BY <1>7, KeysAssumption DEF WorkPrint
<1>8. CASE WorkExit BY <1>8 DEF WorkExit
<1>9. CASE WorkNoMemory \/ WorkMissing \/ WorkNoQueue
  <2>1. Break BY <1>9 DEF WorkNoMemory, WorkMissing, WorkNoQueue
  <2> QED BY <2>1 DEF Break
<1>10. CASE UNCHANGED bottomVars BY <1>10
<1> QED BY <1>1, <1>2, <1>3, <1>4, <1>5, <1>6, <1>7, <1>8, <1>9, <1>10 DEF WorkNext

LEMMA TaskletPrinted == TaskletInv => PressedIsPrinted
BY DEF TaskletInv, BottomTypeOK, WorkOut, DataFollows, PressedIsPrinted, TaskletRests, WorkRests

\* At rest the module with the tasklet has printed the key pressed last, for any keys.
THEOREM TaskletPrints == TaskletSpec => []PressedIsPrinted
BY TaskletPrinted, InitBottom, TaskletKeeps, PTL DEF TaskletSpec

LEMMA WorkPrinted == WorkInv => PressedIsPrinted
BY DEF WorkInv, TaskletOut, ScancodeFollows, PressedIsPrinted, TaskletRests, WorkRests

\* At rest the module with the work queue has printed the key pressed last.
THEOREM WorkPrints == WorkSpec => []PressedIsPrinted
BY WorkPrinted, InitBottom, WorkKeeps, PTL DEF WorkSpec

-----------------------------------------------------------------------------
\* The programs with two streams over one file, for any length of the texts and any size
\* of the buffers.

\* Whether a part holds a character it has not written.
Held(s) == IF c[s] = Nothing THEN 0 ELSE 1

\* Where a part of a reading program can stand, and what it has left when it has found the
\* end of the file.
ReaderPlaces ==
    /\ output = <<>>
    /\ \A s \in Parts :
          /\ part[s] \in {"start", "loop", "eof", "done"}
          /\ part[s] = "start" => program = "2_th_mutex" /\ position[s] = 0
          /\ part[s] = "eof" => program = "1" /\ s = 1
          /\ part[s] # "loop" => c[s] = Nothing /\ buffer[s] = <<>>
          /\ part[s] \in {"eof", "done"} => position[Descriptor(s)] = LENGTH
    /\ program \in Buffered => position[2] = 0
    /\ program \in InTurn => (part[1] = "done" <=> part[2] = "done")
    /\ program \notin Buffered => \A s \in Parts : buffer[s] = <<>> /\ c[s] \in {Nothing, position[s]}

\* Each character of the part of the file that was read has been shown, is held or is in a buffer.
Has(p, k) ==
    \/ \E i \in DOMAIN screen : screen[i] = <<p, k>>
    \/ c[p] = k
    \/ \E i \in DOMAIN buffer[p] : buffer[p][i] = k
NoneSkipped == \A s \in Parts : \A k \in 1 .. position[Descriptor(s)] :
                  \E p \in Parts : Descriptor(p) = Descriptor(s) /\ Has(p, k)

\* What a part has shown, what it holds and what is in its buffer is in order.
Ordered(s) ==
    /\ InOrder(s)
    /\ \A i \in DOMAIN screen : screen[i][1] = s =>
          /\ screen[i][2] <= position[Descriptor(s)]
          /\ c[s] # Nothing => screen[i][2] < c[s]
          /\ \A j \in DOMAIN buffer[s] : screen[i][2] < buffer[s][j]
    /\ c[s] <= position[Descriptor(s)]
    /\ \A j \in DOMAIN buffer[s] :
          /\ c[s] < buffer[s][j] /\ buffer[s][j] <= position[Descriptor(s)]
          /\ \A i \in DOMAIN buffer[s] : i < j => buffer[s][i] < buffer[s][j]

\* As many as were read.
Unshown(s) == Held(s) + Len(buffer[s])
Together == position[1] + position[2]
AllCounted == Len(screen) + Unshown(1) + Unshown(2) = Together

\* 2.c writes a character of the one descriptor and the same one of the other.
Alternates ==
    /\ \A k \in DOMAIN screen : screen[k] = <<IF k % 2 = 1 THEN 1 ELSE 2, (k + 1) \div 2>>
    /\ part[1] = "loop" =>
          IF turn = 1 THEN c[2] = Nothing /\ position[1] = position[2] + Held(1)
          ELSE c[1] = Nothing /\ position[1] = position[2] + 1 - Held(2)

\* Under the mutex the second thread starts when the first is done.
Excluded ==
    /\ mu = {s \in Parts : part[s] = "loop"}
    /\ \E f \in Parts :
          /\ part[3 - f] # "start" => part[f] = "done"
          /\ \A k \in DOMAIN screen :
                screen[k] = IF k <= LENGTH THEN <<f, k>> ELSE <<3 - f, k - LENGTH>>

Reading == program \in Reads =>
    /\ ReaderPlaces /\ NoneSkipped /\ AllCounted /\ \A s \in Parts : Ordered(s)
    /\ program = "2" => Alternates
    /\ program = "2_th_mutex" => Excluded

\* A writing thread has a beginning of its text in its buffer until it closes the file; an
\* exit ends both.
Beginning(s, n) == [k \in 1 .. n |-> <<s, k>>]
WriterPlaces ==
    /\ screen = <<>>
    /\ \A s \in Parts :
          /\ part[s] \in {"start", "fill", "done", "exited"}
          /\ part[s] = "exited" => part[3 - s] = "exited"
          /\ part[s] \in {"start", "done"} => buffer[s] = <<>>
          /\ \E n \in 0 .. Lengths[s] : buffer[s] = Beginning(s, n)

Truncates == (\A s \in Parts : part[s] = "done") => \E s \in Parts : IsPrefix(Own(s), output)

Appends ==
    \/ \A s \in Parts : part[s] = "exited"
    \/ (\A s \in Parts : part[s] # "done") /\ output = <<>>
    \/ \E s \in Parts : part[s] = "done" /\ part[3 - s] # "done" /\ output = Own(s)
    \/ (\A s \in Parts : part[s] = "done") /\ \E s \in Parts : output = Own(s) \o Own(3 - s)

Writing == program \in Writes =>
    /\ WriterPlaces
    /\ program = "3_th" => Truncates
    /\ program = "3_th_append" => Appends

StreamsTyped ==
    /\ program \in Reads \union Writes
    /\ part \in [Parts -> {"start", "loop", "eof", "fill", "done", "exited"}] /\ turn \in Parts
    /\ position \in [Parts -> 0 .. LENGTH]
    /\ c \in [Parts -> {Nothing} \union 1 .. LENGTH] /\ mu \subseteq Parts
    /\ DOMAIN buffer = Parts
    /\ program \in Reads => \A s \in Parts : buffer[s] \in Seq(1 .. LENGTH) /\ Len(buffer[s]) <= BUFSIZE
    /\ screen \in Seq(Parts \X (1 .. LENGTH))
    /\ output \in Seq(Parts \X Nat) /\ Len(output) <= Lengths[1] + Lengths[2]
StreamsInv == StreamsTyped /\ Reading /\ Writing

LEMMA StreamFacts ==
  /\ BUFSIZE \in Nat /\ BUFSIZE >= 1 /\ LENGTH \in Nat
  /\ \A s \in Parts : Lengths[s] \in Nat
  /\ Parts = {1, 2} /\ \A s \in Parts : 3 - s \in Parts
BY StreamsAssumption DEF Parts

\* What a read returns.
LEMMA ChunkIs ==
  ASSUME StreamsTyped, NEW s \in Parts
  PROVE  LET from == position[Descriptor(s)]
             n == Len(Chunk(s))
         IN  /\ Descriptor(s) \in Parts /\ from \in 0 .. LENGTH
             /\ Chunk(s) \in Seq(1 .. LENGTH) /\ n \in Nat
             /\ from + n <= LENGTH
             /\ n <= BUFSIZE /\ (program \notin Buffered => n <= 1)
             /\ from < LENGTH => n >= 1
             /\ \A i \in 1 .. n : Chunk(s)[i] = from + i
<1> DEFINE from == position[Descriptor(s)]
           size == IF program \in Buffered THEN BUFSIZE ELSE 1
           upTo == from + size
           to == IF upTo < LENGTH THEN upTo ELSE LENGTH
<1>1. Descriptor(s) \in Parts /\ from \in 0 .. LENGTH
  BY StreamFacts DEF Descriptor, StreamsTyped
<1>2. size \in Nat /\ size >= 1 /\ size <= BUFSIZE /\ (program \notin Buffered => size = 1)
  BY StreamFacts
<1> HIDE DEF size
<1>3. to \in Nat /\ to <= LENGTH /\ from <= to /\ to <= from + size /\ (from < LENGTH => to > from)
  BY <1>1, <1>2, StreamFacts
<1> HIDE DEF to
<1>4. Chunk(s) = SubSeq(Text, from + 1, to)
  BY DEF Chunk, to, upTo, size
<1>5. Text \in Seq(1 .. LENGTH) /\ Len(Text) = LENGTH /\ \A k \in 1 .. LENGTH : Text[k] = k
  BY StreamFacts DEF Text
<1> DEFINE m == from + 1
<1>6. m \in Int /\ to \in Int /\ \A i \in m .. to : Text[i] \in 1 .. LENGTH
  BY <1>1, <1>3, <1>5, StreamFacts
<1> HIDE DEF from
<1>7. /\ SubSeq(Text, m, to) \in Seq(1 .. LENGTH)
      /\ Len(SubSeq(Text, m, to)) = (IF m <= to THEN to - m + 1 ELSE 0)
      /\ \A i \in 1 .. to - m + 1 : SubSeq(Text, m, to)[i] = Text[m + i - 1]
  <2> HIDE DEF m
  <2> QED BY <1>6, SubSeqProperties
<1>8. /\ Chunk(s) \in Seq(1 .. LENGTH) /\ Len(Chunk(s)) = to - from
      /\ \A i \in 1 .. to - from : Chunk(s)[i] = Text[from + i]
  BY <1>1, <1>3, <1>4, <1>7
<1>9. \A i \in 1 .. to - from : Chunk(s)[i] = from + i
  BY <1>1, <1>3, <1>5, <1>8, StreamFacts
<1>10. /\ Len(Chunk(s)) \in Nat /\ from + Len(Chunk(s)) <= LENGTH
       /\ Len(Chunk(s)) <= BUFSIZE /\ (program \notin Buffered => Len(Chunk(s)) <= 1)
       /\ from < LENGTH => Len(Chunk(s)) >= 1
  BY <1>1, <1>2, <1>3, <1>8, StreamFacts
<1> QED
  BY <1>1, <1>8, <1>9, <1>10 DEF from

LEMMA TextIn ==
  ASSUME NEW q \in Seq(1 .. LENGTH)
  PROVE  /\ Len(q) \in Nat /\ DOMAIN q = 1 .. Len(q) /\ (q = <<>> <=> Len(q) = 0)
         /\ \A j \in 1 .. Len(q) : q[j] \in 1 .. LENGTH
<1> DEFINE S == 1 .. LENGTH
<1>1. q \in Seq(S)
  OBVIOUS
<1> HIDE DEF S
<1>2. Len(q) \in Nat /\ DOMAIN q = 1 .. Len(q) /\ \A j \in 1 .. Len(q) : q[j] \in S
  BY <1>1
<1>3. q = <<>> <=> Len(q) = 0
  BY <1>1, EmptySeq
<1> QED
  BY <1>2, <1>3 DEF S

\* What a scan does: it takes the first character of the buffer, or reads and takes the
\* first of what it has read.
Taken(s, x, q) ==
    /\ x \in 1 .. LENGTH /\ q \in Seq(1 .. LENGTH) /\ Len(q) <= BUFSIZE
    /\ c' = [c EXCEPT ![s] = x] /\ buffer' = [buffer EXCEPT ![s] = q]
FromBuffer(s, x, q) ==
    /\ buffer[s] # <<>> /\ position' = position
    /\ Len(buffer[s]) = Len(q) + 1 /\ x = buffer[s][1]
    /\ \A j \in 1 .. Len(q) : q[j] = buffer[s][j + 1]
FromFile(s, x, q) ==
    LET from == position[Descriptor(s)]
    IN  /\ buffer[s] = <<>>
        /\ position' = [position EXCEPT ![Descriptor(s)] = from + 1 + Len(q)]
        /\ from + 1 + Len(q) <= LENGTH /\ x = from + 1
        /\ \A j \in 1 .. Len(q) : q[j] = from + 1 + j
        /\ program \notin Buffered => q = <<>>

LEMMA ScanTakes ==
  ASSUME StreamsTyped, program \in Reads, NEW s \in Parts, Scan(s)
  PROVE  \E x, q : Taken(s, x, q) /\ (FromBuffer(s, x, q) \/ FromFile(s, x, q))
<1> DEFINE there == IF buffer[s] = <<>> THEN Chunk(s) ELSE buffer[s]
           from == position[Descriptor(s)]
<1>1. /\ there # <<>> /\ c' = [c EXCEPT ![s] = Head(there)]
      /\ buffer' = [buffer EXCEPT ![s] = Tail(there)]
      /\ position' = IF buffer[s] = <<>> THEN [position EXCEPT ![Descriptor(s)] = @ + Len(there)]
                     ELSE position
  BY DEF Scan
<1>2. /\ Chunk(s) \in Seq(1 .. LENGTH) /\ Len(Chunk(s)) \in Nat /\ from \in 0 .. LENGTH
      /\ from + Len(Chunk(s)) <= LENGTH
      /\ Len(Chunk(s)) <= BUFSIZE /\ (program \notin Buffered => Len(Chunk(s)) <= 1)
      /\ \A i \in 1 .. Len(Chunk(s)) : Chunk(s)[i] = from + i
  BY ChunkIs
<1>3. buffer[s] \in Seq(1 .. LENGTH) /\ Len(buffer[s]) <= BUFSIZE
  BY DEF StreamsTyped
<1>4. there \in Seq(1 .. LENGTH) /\ Len(there) <= BUFSIZE
  BY <1>2, <1>3
<1> DEFINE x == Head(there)
           q == Tail(there)
<1>5. /\ x \in 1 .. LENGTH /\ q \in Seq(1 .. LENGTH) /\ Len(q) = Len(there) - 1 /\ Len(q) \in Nat
      /\ Len(there) \in Nat /\ \A j \in 1 .. Len(q) : q[j] = there[j + 1]
  <2>1. there # <<>> /\ there \in Seq(1 .. LENGTH)
    BY <1>1, <1>4
  <2> HIDE DEF there
  <2>2. /\ x \in 1 .. LENGTH /\ q \in Seq(1 .. LENGTH) /\ Len(q) = Len(there) - 1
        /\ \A j \in 1 .. Len(q) : q[j] = there[j + 1]
    BY <2>1, HeadTailProperties
  <2> HIDE DEF x, q
  <2> QED BY <2>1, <2>2
<1>6. x = there[1]
  OBVIOUS
<1>7. Taken(s, x, q)
  <2> HIDE DEF there
  <2> QED BY <1>1, <1>4, <1>5, StreamFacts DEF Taken
<1>8. CASE buffer[s] # <<>>
  <2>1. there = buffer[s] /\ position' = position
    BY <1>1, <1>8
  <2>2. 1 \in 1 .. Len(there) /\ Len(there) = Len(q) + 1 /\ \A j \in 1 .. Len(q) : q[j] = there[j + 1]
    <3> HIDE DEF there, x, q
    <3> QED BY <1>5
  <2>3. FromBuffer(s, x, q)
    <3> HIDE DEF there, x, q
    <3> QED BY <1>6, <1>8, <2>1, <2>2 DEF FromBuffer
  <2> HIDE DEF there, x, q
  <2> QED BY <1>7, <2>3
<1>9. CASE buffer[s] = <<>>
  <2>1. there = Chunk(s)
    BY <1>9
  <2> HIDE DEF there, x, q, from
  <2>2. Len(q) + 1 = Len(Chunk(s)) /\ x = from + 1 /\ \A j \in 1 .. Len(q) : q[j] = from + 1 + j
    BY <1>2, <1>5, <1>6, <2>1
  <2>3. position' = [position EXCEPT ![Descriptor(s)] = from + 1 + Len(q)]
    <3>1. from + Len(there) = from + 1 + Len(q)
      BY <1>2, <1>5, <2>1, <2>2
    <3> QED
      BY <1>1, <1>9, <3>1 DEF from
  <2>4. program \notin Buffered => q = <<>>
    BY <1>2, <1>5, <2>2
  <2>5. from + 1 + Len(q) <= LENGTH
    BY <1>2, <1>5, <2>2
  <2>6. FromFile(s, x, q)
    BY <1>9, <2>2, <2>3, <2>4, <2>5 DEF FromFile, from
  <2> QED
    BY <1>7, <2>6
<1> QED
  BY <1>8, <1>9

\* One of two numbers grows by n: so does the sum.
LEMMA FourNumbers ==
  ASSUME NEW a \in Nat, NEW b \in Nat, NEW e \in Nat, NEW f \in Nat, NEW n \in Nat,
         (e = a + 1 + n /\ f = b) \/ (f = b + 1 + n /\ e = a)
  PROVE  e + f = a + b + 1 + n
OBVIOUS

LEMMA ScanKeeps ==
  ASSUME StreamsInv, program \in Reads, NEW s \in Parts, Scan(s)
  PROVE  StreamsInv'
<1> DEFINE d == Descriptor(s)
           from == position[d]
<1>1. PICK x, q : Taken(s, x, q) /\ (FromBuffer(s, x, q) \/ FromFile(s, x, q))
  BY ScanTakes DEF StreamsInv
<1>2. StreamsTyped /\ ReaderPlaces /\ NoneSkipped /\ AllCounted /\ \A p \in Parts : Ordered(p)
  BY DEF StreamsInv, Reading
<1>3. /\ c[s] = Nothing /\ program' = program /\ part' = part /\ turn' = turn /\ mu' = mu
      /\ screen' = screen /\ output' = output /\ MayGo(s)
  BY DEF Scan
<1>4. /\ x \in 1 .. LENGTH /\ q \in Seq(1 .. LENGTH) /\ Len(q) <= BUFSIZE /\ Len(q) \in Nat
      /\ DOMAIN q = 1 .. Len(q) /\ \A j \in 1 .. Len(q) : q[j] \in 1 .. LENGTH
      /\ c'[s] = x /\ buffer'[s] = q /\ DOMAIN buffer' = Parts /\ c' \in [Parts -> {Nothing} \union 1 .. LENGTH]
      /\ \A p \in Parts : p # s => c'[p] = c[p] /\ buffer'[p] = buffer[p]
  <2>1. x \in 1 .. LENGTH /\ q \in Seq(1 .. LENGTH) /\ Len(q) <= BUFSIZE
    BY <1>1 DEF Taken
  <2>2. Len(q) \in Nat /\ DOMAIN q = 1 .. Len(q) /\ \A j \in 1 .. Len(q) : q[j] \in 1 .. LENGTH
    BY <2>1, TextIn
  <2>3. c \in [Parts -> {Nothing} \union 1 .. LENGTH] /\ DOMAIN buffer = Parts
    BY <1>2 DEF StreamsTyped
  <2>4. c' = [c EXCEPT ![s] = x] /\ buffer' = [buffer EXCEPT ![s] = q]
    BY <1>1 DEF Taken
  <2> QED
    BY <2>1, <2>2, <2>3, <2>4
<1>5. d \in Parts /\ from \in 0 .. LENGTH /\ LENGTH \in Nat
  BY <1>2, ChunkIs, StreamFacts
<1>6. /\ position' \in [Parts -> 0 .. LENGTH]
      /\ \A e \in Parts : position[e] <= position'[e] /\ position[e] \in Nat /\ position'[e] \in Nat
      /\ \A e \in Parts : e # d => position'[e] = position[e]
  <2>1. position \in [Parts -> 0 .. LENGTH]
    BY <1>2 DEF StreamsTyped
  <2>2. CASE FromBuffer(s, x, q)
    BY <1>5, <2>1, <2>2 DEF FromBuffer
  <2>3. CASE FromFile(s, x, q)
    <3> DEFINE n == from + 1 + Len(q)
    <3>1. n \in 0 .. LENGTH /\ from <= n /\ position' = [position EXCEPT ![d] = n]
      BY <1>4, <1>5, <2>3 DEF FromFile
    <3> HIDE DEF n, d
    <3> QED
      BY <1>5, <2>1, <3>1
  <2> QED
    BY <1>1, <2>2, <2>3
<1>7. FromFile(s, x, q) => position'[d] = from + 1 + Len(q)
  BY <1>2, <1>5 DEF FromFile, StreamsTyped
<1> HIDE DEF d, from
<1>18. Descriptor(s) = d /\ from = position[d]
  BY DEF d, from
<1>19. FromFile(s, x, q) => /\ buffer[s] = <<>> /\ x = from + 1 /\ from + 1 + Len(q) <= LENGTH
                            /\ position'[d] = from + 1 + Len(q)
                            /\ \A j \in 1 .. Len(q) : q[j] = from + 1 + j
  BY <1>7, <1>18 DEF FromFile
<1>20. \A p \in Parts : /\ Len(buffer[p]) \in Nat /\ DOMAIN buffer[p] = 1 .. Len(buffer[p])
                         /\ \A j \in 1 .. Len(buffer[p]) : buffer[p][j] \in 1 .. LENGTH
                         /\ (buffer[p] = <<>> <=> Len(buffer[p]) = 0)
  <2> SUFFICES ASSUME NEW p \in Parts
               PROVE  /\ Len(buffer[p]) \in Nat /\ DOMAIN buffer[p] = 1 .. Len(buffer[p])
                      /\ \A j \in 1 .. Len(buffer[p]) : buffer[p][j] \in 1 .. LENGTH
                      /\ (buffer[p] = <<>> <=> Len(buffer[p]) = 0)
    OBVIOUS
  <2>1. buffer[p] \in Seq(1 .. LENGTH)
    BY <1>2 DEF StreamsTyped
  <2> QED
    BY <2>1, TextIn
<1>8. part[s] = "loop"
  <2>1. CASE FromBuffer(s, x, q)
    BY <1>2, <2>1 DEF FromBuffer, ReaderPlaces
  <2>2. CASE FromFile(s, x, q)
    <3>1. from < LENGTH
      BY <1>4, <1>5, <1>19, <2>2
    <3> QED
      BY <1>2, <1>3, <1>5, <1>18, <3>1 DEF MayGo, ReaderPlaces
  <2> QED
    BY <1>1, <2>1, <2>2
<1>9. StreamsTyped'
  BY <1>2, <1>3, <1>4, <1>6 DEF StreamsTyped
<1>10. \A p \in Parts : Descriptor(p)' = Descriptor(p) /\ Descriptor(p) \in Parts
  BY <1>3, StreamFacts DEF Descriptor
<1>11. ReaderPlaces'
  <2>1. program \in Buffered => d = 1
    BY DEF Descriptor, d
  <2>2. program \notin Buffered => d = s /\ x = from + 1 /\ q = <<>> /\ position'[s] = x
    BY <1>1, <1>2, <1>4, <1>5, <1>19 DEF ReaderPlaces, FromBuffer, FromFile, Descriptor, d
  <2>3. \A p \in Parts :
          /\ part[p] = "start" => position'[p] = 0
          /\ part[p] # "loop" => c'[p] = Nothing /\ buffer'[p] = <<>>
          /\ part[p] \in {"eof", "done"} => position'[Descriptor(p)] = LENGTH
    <3> SUFFICES ASSUME NEW p \in Parts
                 PROVE  /\ part[p] = "start" => position'[p] = 0
                        /\ part[p] # "loop" => c'[p] = Nothing /\ buffer'[p] = <<>>
                        /\ part[p] \in {"eof", "done"} => position'[Descriptor(p)] = LENGTH
      OBVIOUS
    <3>1. part[p] = "start" => p # d
      BY <1>2, <1>8, <2>2 DEF ReaderPlaces, Buffered
    <3>2. part[p] = "start" => position'[p] = 0
      BY <1>2, <1>6, <3>1 DEF ReaderPlaces
    <3>3. part[p] # "loop" => c'[p] = Nothing /\ buffer'[p] = <<>>
      BY <1>2, <1>4, <1>8 DEF ReaderPlaces
    <3>4. ASSUME part[p] \in {"eof", "done"} PROVE position'[Descriptor(p)] = LENGTH
      <4>1. position[Descriptor(p)] = LENGTH
        BY <1>2, <3>4 DEF ReaderPlaces
      <4>2. position'[Descriptor(p)] <= LENGTH
        BY <1>6, <1>10
      <4> QED
        BY <1>6, <1>10, <4>1, <4>2, StreamFacts
    <3> QED
      BY <3>2, <3>3, <3>4
  <2>4. program \in Buffered => position'[2] = 0
    BY <1>2, <1>6, <2>1, StreamFacts DEF ReaderPlaces
  <2>5. program \notin Buffered => \A p \in Parts : buffer'[p] = <<>> /\ c'[p] \in {Nothing, position'[p]}
    BY <1>2, <1>4, <1>6, <2>2 DEF ReaderPlaces
  <2>6. /\ output' = <<>>
        /\ \A p \in Parts : /\ part'[p] \in {"start", "loop", "eof", "done"}
                            /\ part'[p] = "start" => program' = "2_th_mutex"
                            /\ part'[p] = "eof" => program' = "1" /\ p = 1
        /\ program' \in InTurn => (part'[1] = "done" <=> part'[2] = "done")
    BY <1>2, <1>3 DEF ReaderPlaces
  <2> QED
    BY <1>3, <1>10, <2>3, <2>4, <2>5, <2>6 DEF ReaderPlaces
<1>12. NoneSkipped'
  <2> SUFFICES ASSUME NEW r \in Parts, NEW k \in 1 .. position'[Descriptor(r)]
               PROVE  \E p \in Parts : Descriptor(p) = Descriptor(r) /\ Has(p, k)'
    BY <1>10 DEF NoneSkipped
  <2>1. CASE k \in 1 .. position[Descriptor(r)]
    <3>1. PICK p \in Parts : Descriptor(p) = Descriptor(r) /\ Has(p, k)
      BY <1>2, <2>1 DEF NoneSkipped
    <3>2. CASE p # s
      BY <1>3, <1>4, <3>1, <3>2 DEF Has
    <3>3. CASE p = s
      <4>1. (\E i \in DOMAIN screen : screen[i] = <<s, k>>) \/ \E i \in DOMAIN buffer[s] : buffer[s][i] = k
        BY <1>3, <3>1, <3>3 DEF Has, Nothing
      <4>2. ASSUME NEW i \in DOMAIN buffer[s], buffer[s][i] = k PROVE Has(s, k)'
        <5>1. FromBuffer(s, x, q) /\ i \in 1 .. Len(q) + 1
          BY <1>1, <1>4, <1>19, <1>20, <4>2 DEF FromBuffer
        <5>2. CASE i = 1
          BY <1>4, <4>2, <5>1, <5>2 DEF FromBuffer, Has
        <5>3. CASE i # 1
          <6>1. i - 1 \in 1 .. Len(q) /\ (i - 1) + 1 = i
            BY <1>4, <5>1, <5>3
          <6>2. q[i - 1] = k
            BY <4>2, <5>1, <6>1 DEF FromBuffer
          <6> QED
            BY <1>4, <6>1, <6>2 DEF Has
        <5> QED
          BY <5>2, <5>3
      <4> QED
        BY <1>3, <3>1, <3>3, <4>1, <4>2 DEF Has
    <3> QED
      BY <3>2, <3>3
  <2>2. CASE k \notin 1 .. position[Descriptor(r)]
    <3>1. FromFile(s, x, q) /\ Descriptor(r) = d /\ k > from /\ k <= from + 1 + Len(q)
      <4>1. Descriptor(r) = d
        BY <1>6, <1>10, <1>18, <2>2
      <4>2. FromFile(s, x, q)
        BY <1>1, <2>2 DEF FromBuffer
      <4> QED
        BY <1>4, <1>5, <1>6, <1>18, <1>19, <2>2, <4>1, <4>2
    <3>2. CASE k = from + 1
      <4>1. Has(s, k)'
        BY <1>4, <1>19, <3>1, <3>2 DEF Has
      <4> QED
        BY <1>18, <3>1, <4>1
    <3>3. CASE k # from + 1
      <4>1. k - from - 1 \in 1 .. Len(q) /\ from + 1 + (k - from - 1) = k
        <5>1. k \in Int /\ from \in Int /\ Len(q) \in Int
          BY <1>4, <1>5, <1>6, <1>10
        <5>2. k > from /\ k <= from + 1 + Len(q) /\ k # from + 1
          BY <3>1, <3>3
        <5> QED
          BY <5>1, <5>2
      <4>2. q[k - from - 1] = k
        <5>1. \A j \in 1 .. Len(q) : q[j] = from + 1 + j
          BY <1>19, <3>1
        <5> QED
          BY <4>1, <5>1
      <4>3. Has(s, k)'
        BY <1>4, <4>1, <4>2 DEF Has
      <4> QED
        BY <1>18, <3>1, <4>3
    <3> QED
      BY <3>2, <3>3, <3>1
  <2> QED
    BY <2>1, <2>2
<1>13. AllCounted'
  <2>1. Unshown(s) = Len(buffer[s]) /\ Unshown(s)' = 1 + Len(q) /\ Len(buffer[s]) \in Nat
    BY <1>3, <1>4, <1>20 DEF Unshown, Held, Nothing
  <2>2. ASSUME NEW p \in Parts PROVE Unshown(p) \in Nat
    <3>1. Held(p) \in Nat /\ Len(buffer[p]) \in Nat
      BY <1>20 DEF Held
    <3> QED
      BY <3>1 DEF Unshown
  <2>3. ASSUME NEW p \in Parts, p # s PROVE Unshown(p)' = Unshown(p)
    BY <1>4, <2>3 DEF Unshown, Held
  <2>9. position[1] \in Nat /\ position[2] \in Nat /\ position'[1] \in Nat /\ position'[2] \in Nat
    BY <1>6, StreamFacts
  <2>4. Together' + Len(buffer[s]) = Together + 1 + Len(q)
    <3>1. CASE FromBuffer(s, x, q)
      <4>1. Together' = Together /\ Len(buffer[s]) = Len(q) + 1
        BY <3>1 DEF FromBuffer, Together
      <4>2. Together \in Nat
        BY <2>9 DEF Together
      <4> QED
        BY <1>4, <4>1, <4>2
    <3>2. CASE FromFile(s, x, q)
      <4>1. Len(buffer[s]) = 0
        BY <1>19, <1>20, <3>2
      <4>2. \/ position'[1] = position[1] + 1 + Len(q) /\ position'[2] = position[2]
            \/ position'[2] = position[2] + 1 + Len(q) /\ position'[1] = position[1]
        <5>1. position'[d] = position[d] + 1 + Len(q)
          BY <1>18, <1>19, <3>2
        <5> QED
          BY <5>1, <1>5, <1>6, StreamFacts
      <4>3. position'[1] + position'[2] = position[1] + position[2] + 1 + Len(q)
        BY <1>4, <2>9, <4>2, FourNumbers
      <4>4. Together' = Together + 1 + Len(q) /\ Together \in Nat
        BY <2>9, <4>3 DEF Together
      <4> QED
        BY <1>4, <4>1, <4>4
    <3> QED
      BY <1>1, <3>1, <3>2
  <2>8. Together \in Nat /\ Together' \in Nat
    BY <2>9 DEF Together
  <2>5. Len(screen) \in Nat /\ Len(screen)' = Len(screen) /\ Len(screen) + Unshown(1) + Unshown(2) = Together
    BY <1>2, <1>3 DEF AllCounted, StreamsTyped
  <2>10. Unshown(1) \in Nat /\ Unshown(2) \in Nat
    BY <2>2, StreamFacts
  <2>11. /\ Len(screen) + (Unshown(1) + Together' - Together) + Unshown(2) = Together'
         /\ Len(screen) + Unshown(1) + (Unshown(2) + Together' - Together) = Together'
    <3>1. Len(screen) \in Nat /\ Len(screen) + Unshown(1) + Unshown(2) = Together
      BY <2>5
    <3>2. ASSUME NEW u \in Nat
          PROVE  /\ Len(screen) + (Unshown(1) + u - Together) + Unshown(2) = u
                 /\ Len(screen) + Unshown(1) + (Unshown(2) + u - Together) = u
      BY <2>8, <2>10, <3>1
    <3> QED
      BY <2>8, <3>2
  <2>6. CASE s = 1
    <3>1. Unshown(2)' = Unshown(2)
      BY <2>3, <2>6, StreamFacts
    <3>2. Unshown(1)' = Unshown(1) + Together' - Together
      BY <1>4, <2>1, <2>4, <2>6, <2>8, <2>10
    <3>3. Len(screen) + Unshown(1)' + Unshown(2)' = Together'
      BY <2>11, <3>1, <3>2
    <3> QED
      BY <2>5, <3>3 DEF AllCounted
  <2>7. CASE s = 2
    <3>1. Unshown(1)' = Unshown(1)
      BY <2>3, <2>7, StreamFacts
    <3>2. Unshown(2)' = Unshown(2) + Together' - Together
      BY <1>4, <2>1, <2>4, <2>7, <2>8, <2>10
    <3>3. Len(screen) + Unshown(1)' + Unshown(2)' = Together'
      BY <2>11, <3>1, <3>2
    <3> QED
      BY <2>5, <3>3 DEF AllCounted
  <2> QED
    BY <2>6, <2>7, StreamFacts
<1>14. \A p \in Parts : Ordered(p)'
  <2>0. \A i \in DOMAIN screen : screen[i][2] \in 1 .. LENGTH
    BY <1>2 DEF StreamsTyped
  <2>1. ASSUME NEW p \in Parts, p # s PROVE Ordered(p)'
    <3>1. position[Descriptor(p)] <= position'[Descriptor(p)] /\ position[Descriptor(p)] \in Nat
          /\ position'[Descriptor(p)] \in Nat
      BY <1>6, <1>10
    <3>2. c'[p] = c[p] /\ buffer'[p] = buffer[p] /\ c[p] \in 0 .. LENGTH
          /\ \A j \in DOMAIN buffer[p] : buffer[p][j] \in 1 .. LENGTH
      <4>1. c[p] \in 0 .. LENGTH
        BY <1>2, <1>5 DEF StreamsTyped, Nothing
      <4> QED
        BY <1>4, <1>20, <2>1, <4>1
    <3>3. InOrder(p)' = InOrder(p)
      BY <1>3 DEF InOrder
    <3> QED
      BY <1>2, <1>3, <1>10, <2>0, <3>1, <3>2, <3>3, StreamFacts DEF Ordered
  <2>2. Ordered(s)'
    <3>1. Ordered(s) /\ InOrder(s)' = InOrder(s)
      BY <1>2, <1>3 DEF InOrder
    <3>2. position'[d] \in 0 .. LENGTH /\ from <= position'[d]
      BY <1>5, <1>6, <1>18
    <3>3. /\ \A i \in DOMAIN screen : screen[i][1] = s => screen[i][2] < x
          /\ x <= position'[d]
          /\ \A j \in 1 .. Len(q) :
                /\ x < q[j] /\ q[j] <= position'[d]
                /\ \A i \in 1 .. Len(q) : i < j => q[i] < q[j]
      <4>1. CASE FromBuffer(s, x, q)
        <5>1. DOMAIN buffer[s] = 1 .. Len(q) + 1 /\ \A j \in DOMAIN buffer[s] : buffer[s][j] \in 1 .. LENGTH
          BY <1>4, <1>20, <4>1 DEF FromBuffer
        <5>2. 1 \in DOMAIN buffer[s] /\ x = buffer[s][1]
              /\ \A j \in 1 .. Len(q) : j + 1 \in DOMAIN buffer[s] /\ q[j] = buffer[s][j + 1] /\ 1 < j + 1
          BY <1>4, <4>1, <5>1 DEF FromBuffer
        <5>3. \A j \in DOMAIN buffer[s] : buffer[s][j] <= position'[d]
          BY <1>5, <1>18, <3>1, <3>2, <5>1, StreamFacts DEF Ordered
        <5>4. \A i \in DOMAIN screen : screen[i][1] = s => screen[i][2] < x
          BY <3>1, <5>2 DEF Ordered
        <5>5. \A j \in 1 .. Len(q) : x < q[j]
          BY <3>1, <5>1, <5>2 DEF Ordered
        <5>6. ASSUME NEW j \in 1 .. Len(q), NEW i \in 1 .. Len(q), i < j PROVE q[i] < q[j]
          <6>1. i + 1 < j + 1
            BY <1>4, <5>6
          <6> QED
            BY <3>1, <5>2, <5>6, <6>1 DEF Ordered
        <5> QED
          BY <5>2, <5>3, <5>4, <5>5, <5>6
      <4>2. CASE FromFile(s, x, q)
        <5>1. x = from + 1 /\ position'[d] = from + 1 + Len(q) /\ \A j \in 1 .. Len(q) : q[j] = from + 1 + j
          BY <1>19, <4>2
        <5>2. \A i \in DOMAIN screen : screen[i][1] = s => screen[i][2] <= from
          BY <1>18, <3>1 DEF Ordered
        <5>3. from \in Int /\ Len(q) \in Int /\ Len(q) >= 0
          BY <1>4, <1>5
        <5>4. \A i \in DOMAIN screen : screen[i][1] = s => screen[i][2] < x
          BY <2>0, <5>1, <5>2, <5>3
        <5>5. \A j \in 1 .. Len(q) :
                 /\ x < q[j] /\ q[j] <= position'[d]
                 /\ \A i \in 1 .. Len(q) : i < j => q[i] < q[j]
          BY <5>1, <5>3
        <5>6. x <= position'[d]
          BY <5>1, <5>3
        <5> QED
          BY <5>4, <5>5, <5>6
      <4> QED
        BY <1>1, <4>1, <4>2
    <3>4. \A i \in DOMAIN screen : screen[i][1] = s =>
             /\ screen[i][2] <= position'[d] /\ screen[i][2] < x
             /\ \A j \in 1 .. Len(q) : screen[i][2] < q[j]
      BY <1>4, <2>0, <3>2, <3>3
    <3> QED
      BY <1>3, <1>4, <1>10, <1>18, <3>1, <3>3, <3>4 DEF Ordered
  <2> QED
    BY <2>1, <2>2
<1>15. program = "2" => Alternates'
  <2> SUFFICES ASSUME program = "2" PROVE Alternates'
    OBVIOUS
  <2>1. Alternates
    BY DEF StreamsInv, Reading
  <2>2. /\ turn = s /\ d = s /\ part[1] = "loop"
        /\ Held(s) = 0 /\ Held(s)' = 1 /\ buffer[s] = <<>>
    <3>1. turn = s /\ d = s
      BY <1>3 DEF MayGo, InTurn, Descriptor, Buffered, d
    <3>2. part[1] = "loop" /\ buffer[s] = <<>>
      <4>1. /\ program \in InTurn => (part[1] = "done" <=> part[2] = "done")
            /\ program \notin Buffered => buffer[s] = <<>>
            /\ part[1] \in {"start", "loop", "eof", "done"}
            /\ part[1] = "start" => program = "2_th_mutex"
            /\ part[1] = "eof" => program = "1"
        BY <1>2, StreamFacts DEF ReaderPlaces
      <4> QED
        BY <1>8, <4>1, StreamFacts DEF InTurn, Buffered
    <3>3. Held(s) = 0 /\ Held(s)' = 1
      BY <1>3, <1>4 DEF Held, Nothing
    <3> QED
      BY <3>1, <3>2, <3>3
  <2>3. position'[s] = position[s] + 1
    <3>1. FromFile(s, x, q) /\ q = <<>>
      BY <1>1, <1>18, <2>2 DEF FromBuffer, FromFile, Buffered
    <3> QED
      <4>1. Len(q) = 0
        BY <3>1
      <4> QED
        BY <1>5, <1>18, <1>19, <2>2, <3>1, <4>1
  <2>4. CASE s = 1
    BY <1>3, <1>4, <1>6, <2>1, <2>2, <2>3, <2>4, StreamFacts DEF Alternates
  <2>5. CASE s = 2
    BY <1>3, <1>4, <1>6, <2>1, <2>2, <2>3, <2>5, StreamFacts DEF Alternates
  <2> QED
    BY <2>4, <2>5, StreamFacts
<1>16. program = "2_th_mutex" => Excluded'
  BY <1>2, <1>3 DEF StreamsInv, Reading, Excluded
<1>17. Writing'
  BY <1>3 DEF Writing, Reads, Writes, Buffered
<1> QED
  BY <1>3, <1>9, <1>11, <1>12, <1>13, <1>14, <1>15, <1>16, <1>17 DEF StreamsInv, Reading

\* The buffers of a reading program.
LEMMA BuffersAre ==
  ASSUME StreamsTyped, program \in Reads, NEW p \in Parts
  PROVE  /\ Len(buffer[p]) \in Nat /\ DOMAIN buffer[p] = 1 .. Len(buffer[p])
         /\ \A j \in DOMAIN buffer[p] : buffer[p][j] \in 1 .. LENGTH
         /\ (buffer[p] = <<>> <=> Len(buffer[p]) = 0)
<1>1. buffer[p] \in Seq(1 .. LENGTH)
  BY DEF StreamsTyped
<1> QED
  BY <1>1, TextIn

\* A part that can go on has not found the end of the file, or is the first of 1.c.
LEMMA WhoGoes ==
  ASSUME StreamsInv, NEW s \in Parts, MayGo(s)
  PROVE  program \in Reads
<1>1. program \in Writes => part[s] \in {"start", "fill", "done", "exited"}
  BY DEF StreamsInv, Writing, WriterPlaces
<1> QED
  BY <1>1 DEF StreamsInv, StreamsTyped, MayGo

\* Even and odd places.
LEMMA Halves ==
  ASSUME NEW q \in Nat, NEW k \in Nat
  PROVE  /\ k = q + q + 1 => k % 2 = 1 /\ (k + 1) \div 2 = q + 1
         /\ k = q + q => k % 2 = 0 /\ (k + 1) \div 2 = q
OBVIOUS

LEMMA ShowKeeps ==
  ASSUME StreamsInv, program \in Reads, NEW s \in Parts, Show(s)
  PROVE  StreamsInv'
<1>1. StreamsTyped /\ ReaderPlaces /\ NoneSkipped /\ AllCounted /\ \A p \in Parts : Ordered(p)
  BY DEF StreamsInv, Reading
<1>2. /\ MayGo(s) /\ c[s] # Nothing /\ screen' = Append(screen, <<s, c[s]>>)
      /\ c' = [c EXCEPT ![s] = Nothing] /\ turn' = 3 - s
      /\ program' = program /\ part' = part /\ position' = position /\ buffer' = buffer
      /\ mu' = mu /\ output' = output
  BY DEF Show
<1> DEFINE n == Len(screen)
<1>3. /\ c[s] \in 1 .. LENGTH /\ c'[s] = Nothing /\ c' \in [Parts -> {Nothing} \union 1 .. LENGTH]
      /\ \A p \in Parts : p # s => c'[p] = c[p]
  BY <1>1, <1>2 DEF StreamsTyped
<1>4. /\ screen' \in Seq(Parts \X (1 .. LENGTH)) /\ n \in Nat /\ DOMAIN screen = 1 .. n
      /\ DOMAIN screen' = 1 .. n + 1 /\ Len(screen') = n + 1
      /\ \A i \in 1 .. n : screen'[i] = screen[i]
      /\ screen'[n + 1] = <<s, c[s]>>
  <2> DEFINE S == Parts \X (1 .. LENGTH)
             e == <<s, c[s]>>
  <2>1. screen \in Seq(S) /\ e \in S /\ screen' = Append(screen, e)
    BY <1>1, <1>2, <1>3 DEF StreamsTyped
  <2>2. n \in Nat /\ DOMAIN screen = 1 .. n
    BY <2>1
  <2> HIDE DEF S, e
  <2>3. /\ screen' \in Seq(S) /\ Len(screen') = n + 1
        /\ \A i \in 1 .. n : screen'[i] = screen[i]
        /\ screen'[n + 1] = e
    BY <2>1, AppendProperties
  <2>4. DOMAIN screen' = 1 .. n + 1
    BY <2>2, <2>3
  <2> QED
    BY <2>2, <2>3, <2>4 DEF S, e
<1> HIDE DEF n
<1>5. part[s] = "loop"
  BY <1>1, <1>2 DEF ReaderPlaces
<1>6. StreamsTyped'
  BY <1>1, <1>2, <1>3, <1>4, StreamFacts DEF StreamsTyped
<1>7. \A p \in Parts : Descriptor(p)' = Descriptor(p) /\ Descriptor(p) \in Parts
  BY <1>2, StreamFacts DEF Descriptor
<1>8. ReaderPlaces'
  <2>1. \A p \in Parts : c'[p] = c[p] \/ c'[p] = Nothing
    BY <1>3
  <2> QED
    BY <1>1, <1>2, <1>7, <2>1 DEF ReaderPlaces
<1>9. NoneSkipped'
  <2>1. ASSUME NEW p \in Parts, NEW k, Has(p, k) PROVE Has(p, k)'
    <3>1. CASE \E i \in DOMAIN screen : screen[i] = <<p, k>>
      <4>1. PICK i \in 1 .. n : screen[i] = <<p, k>>
        BY <1>4, <3>1
      <4>2. i \in DOMAIN screen' /\ screen'[i] = <<p, k>>
        BY <1>4, <4>1
      <4> QED
        BY <4>2 DEF Has
    <3>2. CASE c[p] = k /\ p = s
      <4>1. n + 1 \in DOMAIN screen' /\ screen'[n + 1] = <<p, k>>
        BY <1>4, <3>2
      <4> QED
        BY <4>1 DEF Has
    <3>3. CASE c[p] = k /\ p # s
      BY <1>3, <3>3 DEF Has
    <3>4. CASE \E i \in DOMAIN buffer[p] : buffer[p][i] = k
      BY <1>2, <3>4 DEF Has
    <3> QED
      BY <2>1, <3>1, <3>2, <3>3, <3>4 DEF Has
  <2>2. ASSUME NEW r \in Parts, NEW k \in 1 .. position'[Descriptor(r)]
        PROVE  \E p \in Parts : Descriptor(p) = Descriptor(r) /\ Has(p, k)'
    <3>1. k \in 1 .. position[Descriptor(r)]
      BY <1>2
    <3>2. PICK p \in Parts : Descriptor(p) = Descriptor(r) /\ Has(p, k)
      BY <1>1, <3>1 DEF NoneSkipped
    <3> QED
      BY <2>1, <3>2
  <2> QED
    BY <1>7, <2>2 DEF NoneSkipped
<1>10. AllCounted'
  <2>1. ASSUME NEW p \in Parts PROVE Unshown(p) \in Nat
    <3>1. Held(p) \in Nat /\ Len(buffer[p]) \in Nat
      BY <1>1, BuffersAre DEF Held
    <3> QED
      BY <3>1 DEF Unshown
  <2>2. ASSUME NEW p \in Parts, p # s PROVE Unshown(p)' = Unshown(p)
    BY <1>2, <1>3, <2>2 DEF Unshown, Held
  <2>3. Unshown(s)' = Unshown(s) - 1
    <3>1. Held(s) = 1 /\ Held(s)' = 0
      BY <1>2, <1>3 DEF Held
    <3>2. Len(buffer[s]) \in Nat
      BY <1>1, BuffersAre
    <3> QED
      BY <1>2, <3>1, <3>2 DEF Unshown
  <2>4. Together' = Together /\ Len(screen') = n + 1 /\ n + Unshown(1) + Unshown(2) = Together
    BY <1>1, <1>2, <1>4 DEF Together, AllCounted, n
  <2>5. Unshown(1) \in Nat /\ Unshown(2) \in Nat
    BY <2>1, StreamFacts
  <2>6. \/ Unshown(1)' = Unshown(1) - 1 /\ Unshown(2)' = Unshown(2)
        \/ Unshown(2)' = Unshown(2) - 1 /\ Unshown(1)' = Unshown(1)
    BY <2>2, <2>3, StreamFacts
  <2>7. (n + 1) + Unshown(1)' + Unshown(2)' = Together
    <3>1. n \in Nat
      BY <1>4
    <3>2. n + Unshown(1) + Unshown(2) = Together
      BY <2>4
    <3> QED
      BY <2>5, <2>6, <3>1, <3>2
  <2> QED
    BY <2>4, <2>7 DEF AllCounted
<1>11. \A p \in Parts : Ordered(p)'
  <2>1. ASSUME NEW p \in Parts, p # s PROVE Ordered(p)'
    <3>1. Ordered(p) /\ c'[p] = c[p]
      BY <1>1, <1>3, <2>1
    <3>2. \A i \in DOMAIN screen' : screen'[i][1] = p => i \in DOMAIN screen /\ screen'[i] = screen[i]
      BY <1>4, <2>1
    <3>3. InOrder(p)'
      BY <3>1, <3>2 DEF Ordered, InOrder
    <3> QED
      BY <1>2, <1>7, <3>1, <3>2, <3>3 DEF Ordered
  <2>2. Ordered(s)'
    <3>1. Ordered(s)
      BY <1>1
    <3>2. \A i \in DOMAIN screen' : \/ i \in DOMAIN screen /\ screen'[i] = screen[i] /\ i < n + 1
                                    \/ i = n + 1 /\ screen'[i][2] = c[s]
      BY <1>4
    <3>3. InOrder(s)'
      <4> SUFFICES ASSUME NEW i \in DOMAIN screen', NEW j \in DOMAIN screen', i < j,
                          screen'[i][1] = s, screen'[j][1] = s
                   PROVE  screen'[i][2] < screen'[j][2]
        BY DEF InOrder
      <4>1. i \in DOMAIN screen /\ screen'[i] = screen[i]
        BY <1>4
      <4>2. CASE j = n + 1
        BY <1>2, <3>1, <3>2, <4>1, <4>2, <1>4 DEF Ordered
      <4>3. CASE j # n + 1
        BY <3>1, <3>2, <4>1, <4>3 DEF Ordered, InOrder
      <4> QED
        BY <4>2, <4>3
    <3>4. \A j \in DOMAIN buffer[s] : buffer[s][j] \in 1 .. LENGTH /\ 0 < buffer[s][j]
      BY <1>1, BuffersAre
    <3>5. position[Descriptor(s)] \in Nat
      BY <1>1, <1>7 DEF StreamsTyped
    <3>6. \A i \in DOMAIN screen' : screen'[i][1] = s =>
             /\ screen'[i][2] <= position[Descriptor(s)]
             /\ \A j \in DOMAIN buffer[s] : screen'[i][2] < buffer[s][j]
      BY <3>1, <3>2 DEF Ordered
    <3>7. \A j \in DOMAIN buffer[s] :
             /\ 0 < buffer[s][j] /\ buffer[s][j] <= position[Descriptor(s)]
             /\ \A i \in DOMAIN buffer[s] : i < j => buffer[s][i] < buffer[s][j]
      BY <3>1, <3>4 DEF Ordered
    <3> QED
      BY <1>2, <1>3, <1>7, <3>3, <3>5, <3>6, <3>7 DEF Ordered, Nothing
  <2> QED
    BY <2>1, <2>2
<1>12. program = "2" => Alternates'
  <2> SUFFICES ASSUME program = "2" PROVE Alternates'
    OBVIOUS
  <2>1. /\ Alternates /\ turn = s
        /\ position[1] \in Nat /\ position[2] \in Nat
    BY <1>1, <1>2, StreamFacts DEF StreamsInv, Reading, StreamsTyped, MayGo, InTurn
  <2>2. part[1] = "loop" /\ \A p \in Parts : buffer[p] = <<>> /\ c[p] \in {Nothing, position[p]}
    <3>1. /\ part[1] = "done" <=> part[2] = "done"
          /\ part[1] \in {"start", "loop", "eof", "done"}
          /\ part[1] = "start" => program = "2_th_mutex"
          /\ part[1] = "eof" => program = "1"
          /\ \A p \in Parts : buffer[p] = <<>> /\ c[p] \in {Nothing, position[p]}
      BY <1>1, StreamFacts DEF ReaderPlaces, InTurn, Buffered
    <3> QED
      BY <1>5, <3>1, StreamFacts
  <2>3. n + Held(1) + Held(2) = position[1] + position[2]
    <3>1. Len(buffer[1]) = 0 /\ Len(buffer[2]) = 0
      BY <2>2, StreamFacts
    <3>2. Held(1) \in Nat /\ Held(2) \in Nat
      BY DEF Held
    <3>3. n + (Held(1) + Len(buffer[1])) + (Held(2) + Len(buffer[2])) = position[1] + position[2]
      BY <1>1 DEF AllCounted, Unshown, Together, n
    <3> QED
      BY <1>4, <2>1, <3>1, <3>2, <3>3
  <2>4. \A k \in 1 .. n : screen[k] = <<IF k % 2 = 1 THEN 1 ELSE 2, (k + 1) \div 2>>
    BY <1>4, <2>1 DEF Alternates
  <2>5. CASE s = 1
    <3>1. /\ c[2] = Nothing /\ position[1] = position[2] + Held(1)
          /\ Held(1) = 1 /\ Held(2) = 0 /\ c[1] = position[1]
      BY <1>2, <2>1, <2>2, <2>5, StreamFacts DEF Alternates, Held
    <3>2. n + 1 = position[2] + position[2] + 1 /\ c[1] = position[2] + 1
      BY <1>4, <2>1, <2>3, <3>1
    <3>3. screen'[n + 1] = <<IF (n + 1) % 2 = 1 THEN 1 ELSE 2, ((n + 1) + 1) \div 2>>
      <4>1. (n + 1) % 2 = 1 /\ ((n + 1) + 1) \div 2 = position[2] + 1
        <5>1. n + 1 \in Nat
          BY <1>4
        <5> QED
          BY <2>1, <3>2, <5>1, Halves
      <4> QED
        BY <1>4, <2>5, <3>2, <4>1
    <3>4. turn' = 2 /\ c'[1] = Nothing /\ Held(2)' = 0
      BY <1>2, <1>3, <2>5, <3>1, StreamFacts DEF Held
    <3>5. position'[1] = position'[2] + 1 - Held(2)'
      BY <1>2, <2>1, <3>1, <3>4
    <3>6. \A k \in DOMAIN screen' : screen'[k] = <<IF k % 2 = 1 THEN 1 ELSE 2, (k + 1) \div 2>>
      <4>1. ASSUME NEW k \in 1 .. n + 1
            PROVE  screen'[k] = <<IF k % 2 = 1 THEN 1 ELSE 2, (k + 1) \div 2>>
        <5>1. CASE k = n + 1
          BY <3>3, <5>1
        <5>2. CASE k # n + 1
          <6>1. k \in 1 .. n
            BY <1>4, <5>2
          <6> QED
            BY <1>4, <2>4, <6>1
        <5> QED
          BY <5>1, <5>2
      <4> QED
        BY <1>4, <4>1
    <3> QED
      BY <1>2, <3>4, <3>5, <3>6 DEF Alternates
  <2>6. CASE s = 2
    <3>1. /\ c[1] = Nothing /\ position[1] = position[2] + 1 - Held(2)
          /\ Held(2) = 1 /\ Held(1) = 0 /\ c[2] = position[2]
      BY <1>2, <2>1, <2>2, <2>6, StreamFacts DEF Alternates, Held
    <3>2. n + 1 = position[2] + position[2] /\ c[2] = position[2] /\ position[1] = position[2]
      BY <1>4, <2>1, <2>3, <3>1
    <3>3. screen'[n + 1] = <<IF (n + 1) % 2 = 1 THEN 1 ELSE 2, ((n + 1) + 1) \div 2>>
      <4>1. (n + 1) % 2 = 0 /\ ((n + 1) + 1) \div 2 = position[2]
        <5>1. n + 1 \in Nat
          BY <1>4
        <5> QED
          BY <2>1, <3>2, <5>1, Halves
      <4> QED
        BY <1>4, <2>6, <3>2, <4>1
    <3>4. turn' = 1 /\ c'[2] = Nothing /\ Held(1)' = 0
      BY <1>2, <1>3, <2>6, <3>1, StreamFacts DEF Held
    <3>5. position'[1] = position'[2] + Held(1)'
      BY <1>2, <2>1, <3>2, <3>4
    <3>6. \A k \in DOMAIN screen' : screen'[k] = <<IF k % 2 = 1 THEN 1 ELSE 2, (k + 1) \div 2>>
      <4>1. ASSUME NEW k \in 1 .. n + 1
            PROVE  screen'[k] = <<IF k % 2 = 1 THEN 1 ELSE 2, (k + 1) \div 2>>
        <5>1. CASE k = n + 1
          BY <3>3, <5>1
        <5>2. CASE k # n + 1
          <6>1. k \in 1 .. n
            BY <1>4, <5>2
          <6> QED
            BY <1>4, <2>4, <6>1
        <5> QED
          BY <5>1, <5>2
      <4> QED
        BY <1>4, <4>1
    <3> QED
      BY <1>2, <3>4, <3>5, <3>6 DEF Alternates
  <2> QED
    BY <2>5, <2>6, StreamFacts
<1>13. program = "2_th_mutex" => Excluded'
  <2> SUFFICES ASSUME program = "2_th_mutex" PROVE Excluded'
    OBVIOUS
  <2>1. Excluded
    BY DEF StreamsInv, Reading
  <2>2. PICK f \in Parts :
          /\ part[3 - f] # "start" => part[f] = "done"
          /\ \A k \in DOMAIN screen :
                screen[k] = IF k <= LENGTH THEN <<f, k>> ELSE <<3 - f, k - LENGTH>>
    BY <2>1 DEF Excluded
  <2>3. \A p \in Parts : /\ Descriptor(p) = p /\ Len(buffer[p]) = 0 /\ c[p] \in {Nothing, position[p]}
                         /\ position[p] \in 0 .. LENGTH
                         /\ part[p] = "start" => position[p] = 0 /\ c[p] = Nothing
                         /\ part[p] = "done" => position[p] = LENGTH /\ c[p] = Nothing
    <3>1. \A p \in Parts : Descriptor(p) = p /\ position[p] \in 0 .. LENGTH
      BY <1>1 DEF Descriptor, Buffered, StreamsTyped
    <3>2. \A p \in Parts : buffer[p] = <<>> /\ c[p] \in {Nothing, position[p]}
      BY <1>1 DEF ReaderPlaces, Buffered
    <3>3. \A p \in Parts : /\ part[p] = "start" => position[p] = 0 /\ c[p] = Nothing
                           /\ part[p] = "done" => position[p] = LENGTH /\ c[p] = Nothing
      BY <1>1, <3>1 DEF ReaderPlaces
    <3> QED
      BY <3>1, <3>2, <3>3
  <2>4. n + Held(1) + Held(2) = position[1] + position[2]
    <3>1. Len(buffer[1]) = 0 /\ Len(buffer[2]) = 0 /\ position[1] \in Nat /\ position[2] \in Nat
      BY <2>3, StreamFacts
    <3>2. Held(1) \in Nat /\ Held(2) \in Nat
      BY DEF Held
    <3>3. n + (Held(1) + Len(buffer[1])) + (Held(2) + Len(buffer[2])) = position[1] + position[2]
      BY <1>1 DEF AllCounted, Unshown, Together, n
    <3> QED
      BY <1>4, <3>1, <3>2, <3>3
  <2>5. Held(s) = 1 /\ c[s] = position[s] /\ position[s] \in 1 .. LENGTH
    BY <1>2, <1>3, <2>3 DEF Held
  <2>6. ASSUME c[3 - s] = Nothing PROVE n + 1 = position[s] + position[3 - s]
    <3>1. Held(3 - s) = 0
      BY <2>6 DEF Held
    <3>2. position[1] \in Nat /\ position[2] \in Nat
      BY <2>3, StreamFacts
    <3> QED
      BY <1>4, <2>4, <2>5, <3>1, <3>2, StreamFacts
  <2>7. screen'[n + 1] = IF n + 1 <= LENGTH THEN <<f, n + 1>> ELSE <<3 - f, n + 1 - LENGTH>>
    <3>1. CASE s = f
      <4>1. position[3 - s] = 0 /\ c[3 - s] = Nothing
        BY <1>5, <2>2, <2>3, <3>1, StreamFacts
      <4>2. n + 1 = position[s]
        BY <2>5, <2>6, <4>1
      <4> QED
        BY <1>4, <2>5, <3>1, <4>2
    <3>2. CASE s # f
      <4>1. s = 3 - f /\ f = 3 - s
        BY <3>2, StreamFacts
      <4>2. position[f] = LENGTH /\ c[f] = Nothing
        BY <1>5, <2>2, <2>3, <4>1
      <4>3. n + 1 = position[s] + LENGTH
        BY <2>6, <4>1, <4>2
      <4> QED
        BY <1>4, <2>5, <4>1, <4>3, StreamFacts
    <3> QED
      BY <3>1, <3>2
  <2>8. \A k \in DOMAIN screen' : screen'[k] = IF k <= LENGTH THEN <<f, k>> ELSE <<3 - f, k - LENGTH>>
    <3>1. ASSUME NEW k \in 1 .. n + 1
          PROVE  screen'[k] = IF k <= LENGTH THEN <<f, k>> ELSE <<3 - f, k - LENGTH>>
      <4>1. CASE k = n + 1
        BY <1>4, <2>7, <4>1, StreamFacts
      <4>2. CASE k # n + 1
        <5>1. k \in 1 .. n
          BY <1>4, <4>2
        <5> QED
          BY <1>4, <2>2, <5>1
      <4> QED
        BY <4>1, <4>2
    <3> QED
      BY <1>4, <3>1
  <2> QED
    BY <1>2, <2>1, <2>2, <2>8 DEF Excluded
<1>14. Writing'
  BY <1>2 DEF Writing, Reads, Writes, Buffered
<1> QED
  BY <1>2, <1>6, <1>8, <1>9, <1>10, <1>11, <1>12, <1>13, <1>14 DEF StreamsInv, Reading

LEMMA EofKeeps ==
  ASSUME StreamsInv, program \in Reads, NEW s \in Parts, Eof(s)
  PROVE  StreamsInv'
<1>1. StreamsTyped /\ ReaderPlaces /\ NoneSkipped /\ AllCounted /\ \A p \in Parts : Ordered(p)
  BY DEF StreamsInv, Reading
<1>2. /\ MayGo(s) /\ c[s] = Nothing /\ buffer[s] = <<>> /\ Chunk(s) = <<>>
      /\ turn' = 3 - s /\ mu' = mu \ {s} /\ program' = program /\ position' = position
      /\ buffer' = buffer /\ c' = c /\ screen' = screen /\ output' = output
      /\ part' = IF program \notin InTurn THEN [part EXCEPT ![s] = "done"]
                 ELSE IF program = "1" /\ s = 1 THEN [part EXCEPT ![1] = "eof"]
                 ELSE IF program = "1" /\ part[1] = "loop" THEN part
                 ELSE [p \in Parts |-> "done"]
  BY DEF Eof
<1>3. part[s] \in {"loop", "eof"} /\ (program \in InTurn => turn = s)
  BY <1>2 DEF MayGo
<1>4. position[Descriptor(s)] = LENGTH
  <2>1. Len(Chunk(s)) = 0
    BY <1>2
  <2> QED
    BY <1>1, <2>1, ChunkIs, StreamFacts
<1>5. \A p \in Parts : Descriptor(p)' = Descriptor(p)
  BY <1>2 DEF Descriptor
<1>6. NoneSkipped' /\ AllCounted' /\ \A p \in Parts : Ordered(p)'
  <2>1. NoneSkipped'
    <3>1. \A p \in Parts : \A k : Has(p, k) => Has(p, k)'
      BY <1>1, <1>2 DEF Has
    <3> QED
      BY <1>1, <1>2, <1>5, <3>1 DEF NoneSkipped
  <2>2. AllCounted'
    <3>1. Unshown(1)' = Unshown(1) /\ Unshown(2)' = Unshown(2)
      BY <1>1, <1>2 DEF Unshown, Held
    <3>2. Together' = Together /\ Len(screen)' = Len(screen)
      BY <1>1, <1>2 DEF Together
    <3> QED
      BY <1>1, <1>2, <3>1, <3>2 DEF AllCounted
  <2>3. ASSUME NEW p \in Parts PROVE Ordered(p)'
    <3>1. Ordered(p) /\ InOrder(p)' = InOrder(p)
      BY <1>1, <1>2 DEF InOrder
    <3> QED
      BY <1>1, <1>2, <1>5, <3>1 DEF Ordered
  <2> QED
    BY <2>1, <2>2, <2>3
\* Both parts have come to the end when the program ends.
<1>7. ASSUME program \in InTurn, ~(program = "1" /\ s = 1), ~(program = "1" /\ part[1] = "loop")
      PROVE  \A p \in Parts : c[p] = Nothing /\ buffer[p] = <<>> /\ position[Descriptor(p)] = LENGTH
  <2>0. /\ part[1] = "done" <=> part[2] = "done"
        /\ part[1] \in {"start", "loop", "eof", "done"}
        /\ part[1] = "start" => program = "2_th_mutex"
        /\ part[1] = "eof" => program = "1" /\ c[1] = Nothing /\ buffer[1] = <<>>
    BY <1>1, <1>7, StreamFacts DEF ReaderPlaces
  <2>1. part[1] # "done"
    BY <1>3, <2>0, StreamFacts
  <2>2. CASE program = "1"
    <3>1. s = 2 /\ c[1] = Nothing /\ buffer[1] = <<>>
      BY <1>7, <2>0, <2>1, <2>2, StreamFacts
    <3>2. \A p \in Parts : Descriptor(p) = 1
      BY <2>2 DEF Descriptor, Buffered
    <3> QED
      BY <1>2, <1>4, <3>1, <3>2, StreamFacts
  <2>3. CASE program = "2"
    <3>1. part[1] = "loop" /\ turn = s /\ Alternates /\ position[1] \in 0 .. LENGTH /\ position[2] \in 0 .. LENGTH
      BY <1>1, <1>3, <1>7, <2>0, <2>1, <2>3, StreamFacts DEF StreamsInv, Reading, StreamsTyped
    <3>2. \A p \in Parts : Descriptor(p) = p /\ buffer[p] = <<>>
      BY <1>1, <2>3 DEF Descriptor, Buffered, ReaderPlaces
    <3>3. CASE s = 1
      <4>1. c[2] = Nothing /\ position[1] = position[2]
        BY <1>2, <3>1, <3>3 DEF Alternates, Held
      <4> QED
        BY <1>2, <1>4, <3>2, <3>3, <4>1, StreamFacts
    <3>4. CASE s = 2
      <4>1. position[1] = position[2] + 1
        BY <1>2, <3>1, <3>4 DEF Alternates, Held
      <4> QED
        BY <1>4, <3>1, <3>2, <3>4, <4>1, StreamFacts
    <3> QED
      BY <3>3, <3>4, StreamFacts
  <2> QED
    BY <1>7, <2>2, <2>3 DEF InTurn
<1>8. \/ program = "1" /\ s = 1 /\ part' = [part EXCEPT ![1] = "eof"]
      \/ program = "1" /\ s = 2 /\ part' = part
      \/ /\ program \in InTurn /\ part' = [p \in Parts |-> "done"]
         /\ \A p \in Parts : c[p] = Nothing /\ buffer[p] = <<>> /\ position[Descriptor(p)] = LENGTH
      \/ program \notin InTurn /\ part' = [part EXCEPT ![s] = "done"]
  BY <1>2, <1>7, StreamFacts DEF InTurn
<1>9. part \in [Parts -> {"start", "loop", "eof", "fill", "done", "exited"}]
  BY <1>1 DEF StreamsTyped
<1>10. StreamsTyped'
  <2>1. part' \in [Parts -> {"start", "loop", "eof", "fill", "done", "exited"}]
    BY <1>8, <1>9
  <2>2. turn' \in Parts /\ mu' \subseteq Parts
    BY <1>1, <1>2, StreamFacts DEF StreamsTyped
  <2> QED
    BY <1>1, <1>2, <2>1, <2>2 DEF StreamsTyped
<1>11. ReaderPlaces'
  <2>1. ASSUME NEW p \in Parts
        PROVE  /\ part'[p] \in {"start", "loop", "eof", "done"}
               /\ part'[p] = "start" => program = "2_th_mutex" /\ position[p] = 0
               /\ part'[p] = "eof" => program = "1" /\ p = 1
               /\ part'[p] # "loop" => c[p] = Nothing /\ buffer[p] = <<>>
               /\ part'[p] \in {"eof", "done"} => position[Descriptor(p)] = LENGTH
    <3>1. \/ part'[p] = part[p]
          \/ part'[p] = "eof" /\ program = "1" /\ p = 1 /\ s = 1
          \/ part'[p] = "done" /\ p = s
          \/ part'[p] = "done" /\ c[p] = Nothing /\ buffer[p] = <<>> /\ position[Descriptor(p)] = LENGTH
      BY <1>8, <1>9
    <3> QED
      BY <1>1, <1>2, <1>4, <3>1 DEF ReaderPlaces
  <2>2. ASSUME program \in InTurn PROVE part'[1] = "done" <=> part'[2] = "done"
    <3>1. part[1] = "done" <=> part[2] = "done"
      BY <1>1, <2>2 DEF ReaderPlaces
    <3>2. program = "1" /\ s = 1 => part[1] # "done"
      BY <1>3
    <3> QED
      BY <1>8, <1>9, <2>2, <3>1, <3>2, StreamFacts
  <2>3. \A p \in Parts :
          /\ part'[p] \in {"start", "loop", "eof", "done"}
          /\ part'[p] = "start" => program' = "2_th_mutex" /\ position'[p] = 0
          /\ part'[p] = "eof" => program' = "1" /\ p = 1
          /\ part'[p] # "loop" => c'[p] = Nothing /\ buffer'[p] = <<>>
          /\ part'[p] \in {"eof", "done"} => position'[Descriptor(p)'] = LENGTH
    BY <1>2, <1>5, <2>1
  <2>4. /\ output' = <<>>
        /\ program' \in Buffered => position'[2] = 0
        /\ program' \in InTurn => (part'[1] = "done" <=> part'[2] = "done")
        /\ program' \notin Buffered => \A p \in Parts : buffer'[p] = <<>> /\ c'[p] \in {Nothing, position'[p]}
    BY <1>1, <1>2, <2>2 DEF ReaderPlaces
  <2> QED
    BY <2>3, <2>4 DEF ReaderPlaces
<1>12. program = "2" => Alternates'
  <2>1. program = "2" => Alternates /\ part'[1] = "done"
    BY <1>8, StreamFacts DEF InTurn, StreamsInv, Reading
  <2> QED
    BY <1>2, <2>1 DEF Alternates
<1>13. program = "2_th_mutex" => Excluded'
  <2> SUFFICES ASSUME program = "2_th_mutex" PROVE Excluded'
    OBVIOUS
  <2>1. Excluded /\ part' = [part EXCEPT ![s] = "done"]
    BY <1>8 DEF StreamsInv, Reading, InTurn
  <2>2. PICK f \in Parts :
          /\ part[3 - f] # "start" => part[f] = "done"
          /\ \A k \in DOMAIN screen :
                screen[k] = IF k <= LENGTH THEN <<f, k>> ELSE <<3 - f, k - LENGTH>>
    BY <2>1 DEF Excluded
  <2>3. part'[3 - f] # "start" => part'[f] = "done"
    BY <1>3, <1>9, <2>1, <2>2, StreamFacts
  <2>4. mu' = {p \in Parts : part'[p] = "loop"}
    BY <1>2, <1>9, <2>1 DEF Excluded
  <2> QED
    BY <1>2, <2>2, <2>3, <2>4 DEF Excluded
<1>14. Writing'
  BY <1>2 DEF Writing, Reads, Writes, Buffered
<1> QED
  BY <1>2, <1>6, <1>10, <1>11, <1>12, <1>13, <1>14 DEF StreamsInv, Reading

LEMMA LockKeeps ==
  ASSUME StreamsInv, NEW s \in Parts, Lock(s)
  PROVE  StreamsInv'
<1>1. /\ program = "2_th_mutex" /\ mu = {} /\ part[s] = "start" /\ part' = [part EXCEPT ![s] = "loop"]
      /\ mu' = {s} /\ program' = program /\ turn' = turn /\ position' = position
      /\ buffer' = buffer /\ c' = c /\ screen' = screen /\ output' = output
  BY DEF Lock, Moves
<1>2. StreamsTyped /\ ReaderPlaces /\ NoneSkipped /\ AllCounted /\ (\A p \in Parts : Ordered(p)) /\ Excluded
  BY <1>1 DEF StreamsInv, Reading, Reads
<1>3. part \in [Parts -> {"start", "loop", "eof", "fill", "done", "exited"}]
  BY <1>2 DEF StreamsTyped
<1>4. StreamsTyped'
  <2>1. part' \in [Parts -> {"start", "loop", "eof", "fill", "done", "exited"}]
    BY <1>1, <1>3
  <2> QED
    BY <1>1, <1>2, <2>1 DEF StreamsTyped
<1>5. \A p \in Parts : Descriptor(p)' = Descriptor(p) /\ Descriptor(p) = p
  BY <1>1 DEF Descriptor, Buffered
<1>6. NoneSkipped' /\ AllCounted' /\ \A p \in Parts : Ordered(p)'
  <2>1. NoneSkipped'
    <3>1. \A p \in Parts : \A k : Has(p, k) => Has(p, k)'
      BY <1>1, <1>2 DEF Has
    <3> QED
      BY <1>1, <1>2, <1>5, <3>1 DEF NoneSkipped
  <2>2. AllCounted'
    <3>1. Unshown(1)' = Unshown(1) /\ Unshown(2)' = Unshown(2)
      BY <1>1, <1>2 DEF Unshown, Held
    <3>2. Together' = Together /\ Len(screen)' = Len(screen)
      BY <1>1, <1>2 DEF Together
    <3> QED
      BY <1>1, <1>2, <3>1, <3>2 DEF AllCounted
  <2>3. ASSUME NEW p \in Parts PROVE Ordered(p)'
    <3>1. Ordered(p) /\ InOrder(p)' = InOrder(p)
      BY <1>1, <1>2 DEF InOrder
    <3> QED
      BY <1>1, <1>2, <1>5, <3>1 DEF Ordered
  <2> QED
    BY <2>1, <2>2, <2>3
<1>7. ReaderPlaces'
  <2>1. \A p \in Parts : part'[p] = part[p] \/ part'[p] = "loop"
    BY <1>1, <1>3
  <2> QED
    BY <1>1, <1>2, <1>5, <2>1 DEF ReaderPlaces, InTurn
<1>8. Excluded'
  <2>1. \A p \in Parts : part[p] # "loop"
    BY <1>1, <1>2 DEF Excluded
  <2>2. mu' = {p \in Parts : part'[p] = "loop"}
    BY <1>1, <1>3, <2>1
  <2>3. part[3 - s] \in {"start", "done"}
    BY <1>1, <1>2, <2>1, StreamFacts DEF ReaderPlaces
  <2>4. CASE part[3 - s] = "done"
    <3>1. PICK f \in Parts :
            /\ part[3 - f] # "start" => part[f] = "done"
            /\ \A k \in DOMAIN screen :
                  screen[k] = IF k <= LENGTH THEN <<f, k>> ELSE <<3 - f, k - LENGTH>>
      BY <1>2 DEF Excluded
    <3>2. f = 3 - s
      BY <1>1, <2>4, <3>1, StreamFacts
    <3>3. part'[f] = "done"
      BY <1>1, <1>3, <2>4, <3>2, StreamFacts
    <3> QED
      BY <1>1, <2>2, <3>1, <3>3 DEF Excluded
  <2>5. CASE part[3 - s] = "start"
    <3>1. \A p \in Parts : part[p] = "start"
      BY <1>1, <2>5, StreamFacts
    <3>2. \A p \in Parts : position[p] = 0 /\ c[p] = Nothing /\ buffer[p] = <<>>
      BY <1>2, <3>1 DEF ReaderPlaces
    <3>3. Len(screen) = 0
      <4>1. Held(1) = 0 /\ Held(2) = 0 /\ Len(buffer[1]) = 0 /\ Len(buffer[2]) = 0
            /\ position[1] = 0 /\ position[2] = 0 /\ Len(screen) \in Nat
        BY <1>2, <3>2, StreamFacts DEF Held, StreamsTyped
      <4>2. Len(screen) + (0 + 0) + (0 + 0) = 0 + 0
        BY <1>2, <4>1 DEF AllCounted, Unshown, Together
      <4> QED
        BY <4>1, <4>2
    <3>4. DOMAIN screen = {}
      BY <1>2, <3>3 DEF StreamsTyped
    <3>5. part'[3 - s] = "start"
      BY <1>1, <1>3, <2>5, StreamFacts
    <3> QED
      BY <1>1, <2>2, <3>4, <3>5 DEF Excluded
  <2> QED
    BY <2>3, <2>4, <2>5
<1>9. Writing'
  BY <1>1 DEF Writing, Writes
<1> QED
  BY <1>1, <1>4, <1>6, <1>7, <1>8, <1>9 DEF StreamsInv, Reading

\* What a thread has written of its text.
LEMMA BeginningIs ==
  ASSUME NEW s \in Parts, NEW n \in 0 .. Lengths[s]
  PROVE  /\ n \in Nat /\ Beginning(s, n) \in Seq(Parts \X Nat) /\ Len(Beginning(s, n)) = n
         /\ n = 0 <=> Beginning(s, n) = <<>>
         /\ n < Lengths[s] => Append(Beginning(s, n), Own(s)[n + 1]) = Beginning(s, n + 1)
<1>1. n \in Nat /\ Lengths[s] \in Nat
  BY StreamFacts
<1>2. Beginning(s, n) \in Seq(Parts \X Nat) /\ Len(Beginning(s, n)) = n
  BY <1>1 DEF Beginning
<1>3. n = 0 <=> Beginning(s, n) = <<>>
  BY <1>2, EmptySeq
<1>4. ASSUME n < Lengths[s] PROVE Append(Beginning(s, n), Own(s)[n + 1]) = Beginning(s, n + 1)
  <2>1. Own(s)[n + 1] = <<s, n + 1>>
    BY <1>1, <1>4 DEF Own
  <2> QED
    BY <1>1, <1>2, <2>1 DEF Beginning
<1> QED
  BY <1>1, <1>2, <1>3, <1>4

LEMMA OwnIs ==
  ASSUME NEW s \in Parts
  PROVE  Own(s) = Beginning(s, Lengths[s]) /\ Own(s) \in Seq(Parts \X Nat) /\ Len(Own(s)) = Lengths[s]
<1>1. Own(s) = Beginning(s, Lengths[s]) /\ Lengths[s] \in 0 .. Lengths[s]
  BY StreamFacts DEF Own, Beginning
<1> QED
  BY <1>1, BeginningIs

\* A text written over the file is at its beginning, and the file has room for both.
LEMMA WrittenIs ==
  ASSUME output \in Seq(Parts \X Nat), NEW text \in Seq(Parts \X Nat), program # "3_th_append"
  PROVE  /\ Written(text) \in Seq(Parts \X Nat)
         /\ Len(Written(text)) = (IF Len(text) < Len(output) THEN Len(output) ELSE Len(text))
         /\ IsPrefix(text, Written(text))
<1> DEFINE S == Parts \X Nat
           rest == SubSeq(output, Len(text) + 1, Len(output))
<1>1. Written(text) = text \o rest
  BY DEF Written
<1>2. output \in Seq(S) /\ text \in Seq(S)
  OBVIOUS
<1> HIDE DEF S
<1>3. /\ Len(text) \in Nat /\ Len(output) \in Nat
      /\ \A i \in Len(text) + 1 .. Len(output) : output[i] \in S
  BY <1>2
<1> DEFINE m == Len(text) + 1
           l == Len(output)
<1>4. m \in Int /\ l \in Int /\ \A i \in m .. l : output[i] \in S
  BY <1>3
<1>5. rest \in Seq(S) /\ Len(rest) = IF m <= l THEN l - m + 1 ELSE 0
  <2> HIDE DEF m, l
  <2>1. /\ SubSeq(output, m, l) \in Seq(S)
        /\ Len(SubSeq(output, m, l)) = IF m <= l THEN l - m + 1 ELSE 0
    BY <1>4, SubSeqProperties
  <2> QED
    BY <2>1 DEF m, l
<1> HIDE DEF rest
<1>6. text \o rest \in Seq(S) /\ Len(text \o rest) = Len(text) + Len(rest)
  BY <1>2, <1>5, ConcatProperties
<1>7. Len(text \o rest) = IF Len(text) < Len(output) THEN Len(output) ELSE Len(text)
  BY <1>3, <1>5, <1>6
<1>8. IsPrefix(text, text \o rest)
  <2>1. CASE Len(text) = 0
    <3>1. SubSeq(text, 1, 0) = <<>> /\ SubSeq(text \o rest, 1, 0) = <<>>
      BY SubSeqEmpty
    <3> QED
      BY <1>3, <1>7, <2>1, <3>1 DEF IsPrefix
  <2>2. CASE Len(text) # 0
    <3>1. 1 \in 1 .. Len(text) /\ Len(text) \in 1 .. Len(text)
      BY <1>3, <2>2
    <3>2. SubSeq(text \o rest, 1, Len(text)) = SubSeq(text, 1, Len(text))
      BY <1>2, <1>5, <3>1, SubSeqOfConcat1
    <3>3. Len(text) <= Len(text \o rest)
      BY <1>3, <1>7
    <3> QED
      BY <3>2, <3>3 DEF IsPrefix
  <2> QED
    BY <2>1, <2>2
<1> QED
  BY <1>1, <1>6, <1>7, <1>8 DEF S

LEMMA AppendedIs ==
  ASSUME output \in Seq(Parts \X Nat), NEW text \in Seq(Parts \X Nat), program = "3_th_append"
  PROVE  /\ Written(text) = output \o text /\ Written(text) \in Seq(Parts \X Nat)
         /\ Len(Written(text)) = Len(output) + Len(text)
         /\ output = <<>> => Written(text) = text
<1> DEFINE S == Parts \X Nat
<1>1. Written(text) = output \o text
  BY DEF Written
<1>2. output \in Seq(S) /\ text \in Seq(S)
  OBVIOUS
<1> HIDE DEF S
<1>3. /\ output \o text \in Seq(S) /\ Len(output \o text) = Len(output) + Len(text)
      /\ output = <<>> => output \o text = text
  <2>1. output \o text \in Seq(S) /\ Len(output \o text) = Len(output) + Len(text)
    BY <1>2, ConcatProperties
  <2>2. <<>> \o text = text
    BY <1>2, ConcatEmptySeq
  <2> QED
    BY <2>1, <2>2
<1> QED
  BY <1>1, <1>3 DEF S

\* The steps of the writing threads change neither the terminal nor the positions.
LEMMA WriterMoves ==
  ASSUME StreamsInv, NEW s \in Parts, FOpen(s) \/ Fill(s) \/ FClose(s)
  PROVE  /\ program \in Writes /\ program \notin Reads
         /\ program' = program /\ turn' = turn /\ position' = position
         /\ c' = c /\ mu' = mu /\ screen' = screen
<1>1. program \in Reads => part[s] # "fill"
  BY DEF StreamsInv, Reading, ReaderPlaces
<1>2. program \in Writes
  BY <1>1 DEF FOpen, Fill, FClose, Moves, StreamsInv, StreamsTyped
<1>3. program \notin Reads
  BY <1>2 DEF Writes, Reads, Buffered
<1>4. program' = program /\ turn' = turn /\ position' = position
      /\ c' = c /\ mu' = mu /\ screen' = screen
  BY DEF FOpen, Fill, FClose
<1> QED
  BY <1>2, <1>3, <1>4

LEMMA FOpenKeeps ==
  ASSUME StreamsInv, NEW s \in Parts, FOpen(s)
  PROVE  StreamsInv'
<1>1. /\ program \in Writes /\ program \notin Reads /\ program' = program /\ turn' = turn
      /\ position' = position /\ c' = c /\ mu' = mu /\ screen' = screen /\ buffer' = buffer
      /\ part[s] = "start"
  BY WriterMoves DEF FOpen, Moves
<1>2. /\ StreamsTyped /\ WriterPlaces /\ (program = "3_th" => Truncates)
      /\ program = "3_th_append" => Appends
  BY <1>1 DEF StreamsInv, Writing
<1>3. part \in [Parts -> {"start", "loop", "eof", "fill", "done", "exited"}]
  BY <1>2 DEF StreamsTyped
<1>4. CASE Moves(s, "start", "fill") /\ output' = IF program = "3_th" THEN <<>> ELSE output
  <2>1. part' = [part EXCEPT ![s] = "fill"] /\ output' \in {<<>>, output}
        /\ (program = "3_th_append" => output' = output)
    BY <1>4 DEF Moves
  <2>2. StreamsTyped'
    <3>1. part' \in [Parts -> {"start", "loop", "eof", "fill", "done", "exited"}]
      BY <1>3, <2>1
    <3>2. output' \in Seq(Parts \X Nat) /\ Len(output') <= Lengths[1] + Lengths[2]
      <4>1. output \in Seq(Parts \X Nat) /\ Len(output) <= Lengths[1] + Lengths[2]
        BY <1>2 DEF StreamsTyped
      <4>2. <<>> \in Seq(Parts \X Nat) /\ Len(<<>>) <= Lengths[1] + Lengths[2]
        BY StreamFacts
      <4> QED
        BY <2>1, <4>1, <4>2
    <3> QED
      BY <1>1, <1>2, <3>1, <3>2 DEF StreamsTyped
  <2>3. part'[s] = "fill" /\ \A p \in Parts : p # s => part'[p] = part[p]
    BY <1>3, <2>1
  <2>4. WriterPlaces'
    <3>1. ASSUME NEW p \in Parts
          PROVE  /\ part'[p] \in {"start", "fill", "done", "exited"}
                 /\ part'[p] = "exited" => part'[3 - p] = "exited"
                 /\ part'[p] \in {"start", "done"} => buffer[p] = <<>>
      BY <1>1, <1>2, <2>3, StreamFacts DEF WriterPlaces
    <3> QED
      BY <1>1, <1>2, <3>1 DEF WriterPlaces
  <2>5. Truncates'
    BY <2>3 DEF Truncates
  <2>6. program = "3_th_append" => Appends'
    <3> SUFFICES ASSUME program = "3_th_append" PROVE Appends'
      OBVIOUS
    <3>1. Appends /\ output' = output
      BY <1>2, <2>1
    <3>2. CASE (\A p \in Parts : part[p] # "done") /\ output = <<>>
      <4>1. (\A p \in Parts : part'[p] # "done") /\ output' = <<>>
        BY <2>3, <3>1, <3>2
      <4> QED
        BY <4>1 DEF Appends
    <3>3. CASE \E p \in Parts : part[p] = "done" /\ part[3 - p] # "done" /\ output = Own(p)
      <4>1. PICK p \in Parts : part[p] = "done" /\ part[3 - p] # "done" /\ output = Own(p)
        BY <3>3
      <4>2. part'[p] = "done" /\ part'[3 - p] # "done" /\ output' = Own(p)
        BY <1>1, <2>3, <3>1, <4>1, StreamFacts
      <4>3. Own(p)' = Own(p)
        BY DEF Own
      <4> QED
        BY <4>2, <4>3 DEF Appends
    <3> QED
      BY <1>1, <3>1, <3>2, <3>3 DEF Appends
  <2> QED
    BY <1>1, <2>2, <2>4, <2>5, <2>6 DEF StreamsInv, Reading, Writing
<1>5. CASE part' = [p \in Parts |-> "exited"] /\ output' = Written(buffer[3 - s])
  <2>1. output' \in Seq(Parts \X Nat) /\ Len(output') <= Lengths[1] + Lengths[2]
    <3>1. 3 - s \in Parts /\ output \in Seq(Parts \X Nat) /\ Len(output) <= Lengths[1] + Lengths[2]
      BY <1>2, StreamFacts DEF StreamsTyped
    <3>2. PICK m \in 0 .. Lengths[3 - s] : buffer[3 - s] = Beginning(3 - s, m)
      BY <1>2, <3>1 DEF WriterPlaces
    <3>3. buffer[3 - s] \in Seq(Parts \X Nat) /\ Len(buffer[3 - s]) = m /\ (m # 0 => buffer[3 - s] # <<>>)
      BY <3>1, <3>2, BeginningIs
    <3>4. Lengths[1] \in Nat /\ Lengths[2] \in Nat /\ m \in Nat /\ m <= Lengths[1] + Lengths[2]
      BY <3>1, <3>2, StreamFacts
    <3>5. CASE program = "3_th_append"
      <4>1. output' \in Seq(Parts \X Nat) /\ Len(output') = Len(output) + m
        BY <1>5, <3>1, <3>3, <3>5, AppendedIs
      <4>2. m = 0 \/ output = <<>>
        <5>1. CASE part[3 - s] = "done"
          BY <1>2, <3>1, <3>3, <5>1 DEF WriterPlaces
        <5>2. CASE part[3 - s] # "done"
          BY <1>1, <1>2, <3>5, <5>2, StreamFacts DEF Appends
        <5> QED
          BY <5>1, <5>2
      <4>3. Len(output) \in Nat
        BY <3>1
      <4> QED
        BY <3>1, <3>4, <4>1, <4>2, <4>3
    <3>6. CASE program # "3_th_append"
      BY <1>5, <3>1, <3>3, <3>4, <3>6, WrittenIs
    <3> QED
      BY <3>5, <3>6
  <2>2. StreamsTyped'
    BY <1>1, <1>2, <1>5, <2>1 DEF StreamsTyped
  <2>3. \A p \in Parts : part'[p] = "exited"
    BY <1>5
  <2>4. WriterPlaces'
    BY <1>1, <1>2, <2>3, StreamFacts DEF WriterPlaces
  <2>5. Truncates' /\ Appends'
    BY <2>3, StreamFacts DEF Truncates, Appends
  <2> QED
    BY <1>1, <2>2, <2>4, <2>5 DEF StreamsInv, Reading, Writing
<1> QED
  BY <1>4, <1>5 DEF FOpen

LEMMA FillKeeps ==
  ASSUME StreamsInv, NEW s \in Parts, Fill(s)
  PROVE  StreamsInv'
<1>1. /\ program \in Writes /\ program \notin Reads /\ program' = program /\ turn' = turn
      /\ position' = position /\ c' = c /\ mu' = mu /\ screen' = screen /\ output' = output
      /\ part' = part /\ part[s] = "fill" /\ Len(buffer[s]) < Lengths[s]
      /\ buffer' = [buffer EXCEPT ![s] = Append(buffer[s], Own(s)[Len(buffer[s]) + 1])]
  BY WriterMoves DEF Fill
<1>2. /\ StreamsTyped /\ WriterPlaces /\ (program = "3_th" => Truncates)
      /\ program = "3_th_append" => Appends
  BY <1>1 DEF StreamsInv, Writing
<1>3. PICK n \in 0 .. Lengths[s] : buffer[s] = Beginning(s, n)
  BY <1>2 DEF WriterPlaces
<1>4. n + 1 \in 0 .. Lengths[s] /\ Append(buffer[s], Own(s)[Len(buffer[s]) + 1]) = Beginning(s, n + 1)
  <2>1. Len(buffer[s]) = n /\ n \in Nat /\ n < Lengths[s]
    BY <1>1, <1>3, BeginningIs
  <2>2. Append(Beginning(s, n), Own(s)[n + 1]) = Beginning(s, n + 1)
    BY <2>1, BeginningIs
  <2>3. n + 1 \in 0 .. Lengths[s]
    BY <2>1, StreamFacts
  <2> QED
    BY <1>3, <2>1, <2>2, <2>3
<1>5. DOMAIN buffer = Parts
  BY <1>2 DEF StreamsTyped
<1>6. buffer'[s] = Beginning(s, n + 1) /\ \A p \in Parts : p # s => buffer'[p] = buffer[p]
  BY <1>1, <1>4, <1>5
<1>7. StreamsTyped'
  BY <1>1, <1>2 DEF StreamsTyped
<1>8. WriterPlaces'
  <2>1. ASSUME NEW p \in Parts
        PROVE  /\ part[p] \in {"start", "done"} => buffer'[p] = <<>>
               /\ \E m \in 0 .. Lengths[p] : buffer'[p] = Beginning(p, m)
    BY <1>1, <1>2, <1>4, <1>6 DEF WriterPlaces
  <2>2. \A p \in Parts : \A m : Beginning(p, m)' = Beginning(p, m)
    BY DEF Beginning
  <2> QED
    BY <1>1, <1>2, <2>1, <2>2 DEF WriterPlaces
<1>9. (program = "3_th" => Truncates') /\ (program = "3_th_append" => Appends')
  BY <1>1, <1>2 DEF Truncates, Appends, Own
<1> QED
  BY <1>1, <1>7, <1>8, <1>9 DEF StreamsInv, Reading, Writing

LEMMA FCloseKeeps ==
  ASSUME StreamsInv, NEW s \in Parts, FClose(s)
  PROVE  StreamsInv'
<1>1. /\ program \in Writes /\ program \notin Reads /\ program' = program /\ turn' = turn
      /\ position' = position /\ c' = c /\ mu' = mu /\ screen' = screen
      /\ part' = [part EXCEPT ![s] = "done"] /\ part[s] = "fill" /\ Len(buffer[s]) = Lengths[s]
      /\ buffer' = [buffer EXCEPT ![s] = <<>>] /\ output' = Written(buffer[s])
  BY WriterMoves DEF FClose, Moves
<1>2. /\ StreamsTyped /\ WriterPlaces /\ (program = "3_th" => Truncates)
      /\ program = "3_th_append" => Appends
  BY <1>1 DEF StreamsInv, Writing
<1>3. /\ part \in [Parts -> {"start", "loop", "eof", "fill", "done", "exited"}]
      /\ DOMAIN buffer = Parts /\ output \in Seq(Parts \X Nat) /\ Len(output) <= Lengths[1] + Lengths[2]
  BY <1>2 DEF StreamsTyped
<1>4. buffer[s] = Own(s) /\ Own(s) \in Seq(Parts \X Nat) /\ Len(Own(s)) = Lengths[s]
  <2>1. PICK n \in 0 .. Lengths[s] : buffer[s] = Beginning(s, n)
    BY <1>2 DEF WriterPlaces
  <2>2. n = Lengths[s]
    BY <1>1, <2>1, BeginningIs
  <2> QED
    BY <2>1, <2>2, OwnIs
<1>5. /\ part'[s] = "done" /\ buffer'[s] = <<>> /\ DOMAIN buffer' = Parts
      /\ \A p \in Parts : p # s => part'[p] = part[p] /\ buffer'[p] = buffer[p]
  BY <1>1, <1>3
<1>6. part[3 - s] # "exited"
  BY <1>1, <1>2, StreamFacts DEF WriterPlaces
<1>7. /\ Lengths[1] \in Nat /\ Lengths[2] \in Nat /\ Len(output) \in Nat
      /\ Lengths[s] <= Lengths[1] + Lengths[2] /\ Lengths[s] + Lengths[3 - s] = Lengths[1] + Lengths[2]
  BY <1>3, StreamFacts
<1>8. \A p \in Parts : \A m : Beginning(p, m)' = Beginning(p, m) /\ Own(p)' = Own(p)
  BY DEF Beginning, Own
<1>9. WriterPlaces'
  <2>1. ASSUME NEW p \in Parts
        PROVE  /\ part'[p] \in {"start", "fill", "done", "exited"}
               /\ part'[p] = "exited" => part'[3 - p] = "exited"
               /\ part'[p] \in {"start", "done"} => buffer'[p] = <<>>
    BY <1>1, <1>2, <1>5, <1>6, StreamFacts DEF WriterPlaces
  <2>2. ASSUME NEW p \in Parts PROVE \E m \in 0 .. Lengths[p] : buffer'[p] = Beginning(p, m)
    <3>1. CASE p = s
      <4>1. 0 \in 0 .. Lengths[s] /\ Beginning(s, 0) = <<>>
        <5>1. 0 \in 0 .. Lengths[s]
          BY StreamFacts
        <5> QED
          BY <5>1, BeginningIs
      <4> QED
        BY <1>5, <3>1, <4>1
    <3>2. CASE p # s
      BY <1>2, <1>5, <3>2 DEF WriterPlaces
    <3> QED
      BY <3>1, <3>2
  <2> QED
    BY <1>1, <1>2, <1>8, <2>1, <2>2 DEF WriterPlaces
<1>10. CASE program = "3_th_append"
  <2>1. /\ output' = output \o Own(s) /\ output' \in Seq(Parts \X Nat)
        /\ Len(output') = Len(output) + Lengths[s] /\ (output = <<>> => output' = Own(s))
    BY <1>1, <1>3, <1>4, <1>10, AppendedIs
  <2>2. Len(output') <= Lengths[1] + Lengths[2] /\ Appends'
    <3>1. CASE (\A p \in Parts : part[p] # "done") /\ output = <<>>
      <4>1. part'[3 - s] # "done" /\ output' = Own(s) /\ Len(output) = 0
        BY <1>5, <2>1, <3>1, StreamFacts
      <4>2. Len(output') <= Lengths[1] + Lengths[2]
        <5>1. Len(output') = Lengths[s]
          BY <1>4, <4>1
        <5> QED
          BY <1>7, <5>1
      <4> QED
        BY <1>5, <1>8, <4>1, <4>2 DEF Appends
    <3>2. CASE \E p \in Parts : part[p] = "done" /\ part[3 - p] # "done" /\ output = Own(p)
      <4>1. PICK p \in Parts : part[p] = "done" /\ part[3 - p] # "done" /\ output = Own(p)
        BY <3>2
      <4>2. p = 3 - s /\ s = 3 - p
        BY <1>1, <4>1, StreamFacts
      <4>3. (\A r \in Parts : part'[r] = "done") /\ output' = Own(p) \o Own(3 - p)
        BY <1>5, <2>1, <4>1, <4>2, StreamFacts
      <4>4. Len(output) = Lengths[3 - s]
        BY <4>1, <4>2, OwnIs
      <4>5. Len(output') <= Lengths[1] + Lengths[2]
        BY <1>7, <2>1, <4>4, StreamFacts
      <4> QED
        BY <1>8, <4>3, <4>5, StreamFacts DEF Appends
    <3> QED
      BY <1>1, <1>2, <1>10, <3>1, <3>2 DEF Appends
  <2>3. StreamsTyped'
    <3>1. part' \in [Parts -> {"start", "loop", "eof", "fill", "done", "exited"}]
      BY <1>1, <1>3
    <3> QED
      BY <1>1, <1>2, <1>5, <2>1, <2>2, <3>1 DEF StreamsTyped
  <2> QED
    BY <1>1, <1>9, <1>10, <2>2, <2>3 DEF StreamsInv, Reading, Writing
<1>11. CASE program # "3_th_append"
  <2>1. /\ output' \in Seq(Parts \X Nat) /\ IsPrefix(Own(s), output')
        /\ Len(output') = IF Lengths[s] < Len(output) THEN Len(output) ELSE Lengths[s]
    BY <1>1, <1>3, <1>4, <1>11, WrittenIs
  <2>2. Len(output') <= Lengths[1] + Lengths[2]
    BY <1>3, <1>7, <2>1
  <2>3. StreamsTyped'
    <3>1. part' \in [Parts -> {"start", "loop", "eof", "fill", "done", "exited"}]
      BY <1>1, <1>3
    <3> QED
      BY <1>1, <1>2, <1>5, <2>1, <2>2, <3>1 DEF StreamsTyped
  <2>4. Truncates'
    BY <1>8, <2>1 DEF Truncates
  <2> QED
    BY <1>1, <1>9, <1>11, <2>3, <2>4 DEF StreamsInv, Reading, Writing
<1> QED
  BY <1>10, <1>11

LEMMA StreamsInitInv ==
  ASSUME StreamsInit
  PROVE  StreamsInv
<1>1. /\ program \in Reads \union Writes /\ turn = 1 /\ mu = {} /\ screen = <<>> /\ output = <<>>
      /\ part = [p \in Parts |-> IF program = "2_th_mutex" \/ program \in Writes THEN "start" ELSE "loop"]
      /\ position = [d \in Parts |-> 0] /\ buffer = [p \in Parts |-> <<>>] /\ c = [p \in Parts |-> Nothing]
  BY DEF StreamsInit
<1>2. \A p \in Parts : /\ position[p] = 0 /\ buffer[p] = <<>> /\ c[p] = Nothing
                       /\ part[p] = IF program = "2_th_mutex" \/ program \in Writes THEN "start" ELSE "loop"
  BY <1>1
<1>3. Descriptor(1) \in Parts /\ Descriptor(2) \in Parts /\ \A p \in Parts : Descriptor(p) \in Parts
  BY StreamFacts DEF Descriptor
<1>4. DOMAIN screen = {} /\ screen \in Seq(Parts \X (1 .. LENGTH)) /\ output \in Seq(Parts \X Nat)
      /\ Len(output) = 0 /\ Len(screen) = 0
  BY <1>1
<1>5. StreamsTyped
  <2>1. part \in [Parts -> {"start", "loop", "eof", "fill", "done", "exited"}] /\ turn \in Parts
    BY <1>1, StreamFacts
  <2>2. position \in [Parts -> 0 .. LENGTH] /\ c \in [Parts -> {Nothing} \union 1 .. LENGTH]
        /\ DOMAIN buffer = Parts /\ mu \subseteq Parts
    BY <1>1, StreamFacts
  <2>3. \A p \in Parts : buffer[p] \in Seq(1 .. LENGTH) /\ Len(buffer[p]) <= BUFSIZE
    <3>1. <<>> \in Seq(1 .. LENGTH) /\ Len(<<>>) = 0
      BY EmptySeq
    <3>2. Len(<<>>) <= BUFSIZE
      BY <3>1, StreamFacts
    <3>3. \A p \in Parts : buffer[p] = <<>>
      BY <1>2
    <3> QED
      BY <3>1, <3>2, <3>3, Zenon
  <2>4. Len(output) <= Lengths[1] + Lengths[2]
    BY <1>4, StreamFacts
  <2> QED
    BY <1>1, <1>4, <2>1, <2>2, <2>3, <2>4 DEF StreamsTyped
<1>6. ASSUME program \in Reads PROVE Reading
  <2>0. program \notin Writes
    BY <1>6 DEF Reads, Writes, Buffered
  <2>1. ReaderPlaces
    BY <1>1, <1>2, <1>3, <2>0, StreamFacts DEF ReaderPlaces, InTurn
  <2>2. NoneSkipped
    BY <1>2, <1>3 DEF NoneSkipped
  <2>3. AllCounted
    <3>1. Unshown(1) = 0 /\ Unshown(2) = 0 /\ Together = 0
      <4>1. ASSUME NEW p \in Parts PROVE Held(p) = 0 /\ Len(buffer[p]) = 0
        BY <1>2 DEF Held
      <4>2. ASSUME NEW p \in Parts PROVE Unshown(p) = 0
        BY <4>1 DEF Unshown
      <4>3. Together = 0
        BY <1>2, StreamFacts DEF Together
      <4> QED
        BY <4>2, <4>3, StreamFacts
    <3> QED
      BY <1>4, <3>1 DEF AllCounted
  <2>4. \A p \in Parts : Ordered(p)
    BY <1>2, <1>3, <1>4 DEF Ordered, InOrder, Nothing
  <2>5. program = "2" => Alternates
    BY <1>1, <1>2, <1>4, StreamFacts DEF Alternates, Held
  <2>6. program = "2_th_mutex" => Excluded
    BY <1>1, <1>2, <1>4, StreamFacts DEF Excluded
  <2> QED
    BY <2>1, <2>2, <2>3, <2>4, <2>5, <2>6 DEF Reading
<1>7. ASSUME program \in Writes PROVE Writing
  <2>1. \A p \in Parts : part[p] = "start" /\ \E n \in 0 .. Lengths[p] : buffer[p] = Beginning(p, n)
    <3>1. ASSUME NEW p \in Parts PROVE 0 \in 0 .. Lengths[p] /\ buffer[p] = Beginning(p, 0)
      <4>1. 0 \in 0 .. Lengths[p]
        BY StreamFacts
      <4> QED
        BY <1>2, <4>1, BeginningIs
    <3> QED
      BY <1>2, <1>7, <3>1
  <2>2. WriterPlaces
    BY <1>1, <1>2, <2>1 DEF WriterPlaces
  <2>3. Truncates /\ Appends
    BY <1>1, <2>1, StreamFacts DEF Truncates, Appends
  <2> QED
    BY <2>2, <2>3 DEF Writing
<1> QED
  BY <1>5, <1>6, <1>7 DEF StreamsInv, Reading, Writing

LEMMA StreamsStay ==
  ASSUME StreamsInv, UNCHANGED streamVars
  PROVE  StreamsInv'
<1>1. /\ program' = program /\ part' = part /\ turn' = turn /\ position' = position
      /\ buffer' = buffer /\ c' = c /\ mu' = mu /\ screen' = screen /\ output' = output
  BY DEF streamVars
<1>2. \A p \in Parts : Descriptor(p)' = Descriptor(p) /\ Held(p)' = Held(p)
  BY <1>1 DEF Descriptor, Held
<1>3. StreamsTyped' /\ ReaderPlaces' = ReaderPlaces
  BY <1>1, <1>2 DEF StreamsInv, StreamsTyped, ReaderPlaces
<1>4. NoneSkipped' = NoneSkipped
  <2>1. \A p, k : Has(p, k)' = Has(p, k)
    BY <1>1 DEF Has
  <2> QED
    BY <1>1, <1>2, <2>1 DEF NoneSkipped
<1>5. \A p \in Parts : Ordered(p)' = Ordered(p)
  <2>1. \A p \in Parts : InOrder(p)' = InOrder(p)
    BY <1>1 DEF InOrder
  <2> QED
    BY <1>1, <1>2, <2>1 DEF Ordered
<1>6. AllCounted' = AllCounted
  <2>1. Unshown(1)' = Unshown(1) /\ Unshown(2)' = Unshown(2) /\ Together' = Together
    BY <1>1, <1>2, StreamFacts DEF Unshown, Together
  <2> QED
    BY <1>1, <2>1 DEF AllCounted
<1>7. Alternates' = Alternates
  BY <1>1, <1>2, StreamFacts DEF Alternates
<1>8. Excluded' = Excluded
  BY <1>1 DEF Excluded
<1>9. WriterPlaces' = WriterPlaces /\ Truncates' = Truncates /\ Appends' = Appends
  BY <1>1 DEF WriterPlaces, Beginning, Truncates, Appends, Own
<1> QED
  BY <1>1, <1>3, <1>4, <1>5, <1>6, <1>7, <1>8, <1>9 DEF StreamsInv, Reading, Writing

LEMMA StreamsNextInv ==
  ASSUME StreamsInv, StreamsNext
  PROVE  StreamsInv'
<1>1. PICK s \in Parts : StreamStep(s)
  BY DEF StreamsNext
<1>2. CASE Scan(s)
  BY <1>2, WhoGoes, ScanKeeps DEF Scan
<1>3. CASE Show(s)
  BY <1>3, WhoGoes, ShowKeeps DEF Show
<1>4. CASE Eof(s)
  BY <1>4, WhoGoes, EofKeeps DEF Eof
<1>5. CASE Lock(s)
  BY <1>5, LockKeeps
<1>6. CASE FOpen(s)
  BY <1>6, FOpenKeeps
<1>7. CASE Fill(s)
  BY <1>7, FillKeeps
<1>8. CASE FClose(s)
  BY <1>8, FCloseKeeps
<1> QED
  BY <1>1, <1>2, <1>3, <1>4, <1>5, <1>6, <1>7, <1>8 DEF StreamStep

LEMMA NothingLostIs ==
  ASSUME StreamsInv
  PROVE  NothingLost
<1> SUFFICES ASSUME \A p \in Parts : part[p] = "done"
             PROVE  /\ program \in Buffered =>
                           /\ \A p \in Parts : InOrder(p)
                           /\ \A k \in 1 .. LENGTH : \E i \in DOMAIN screen : screen[i][2] = k
                           /\ Len(screen) = LENGTH
                    /\ program = "2" => screen = [k \in 1 .. 2 * LENGTH |->
                                                     <<IF k % 2 = 1 THEN 1 ELSE 2, (k + 1) \div 2>>]
                    /\ program = "2_th" => \A p \in Parts :
                           /\ InOrder(p)
                           /\ \A k \in 1 .. LENGTH : \E i \in DOMAIN screen : screen[i] = <<p, k>>
                    /\ program = "2_th_mutex" => \E f \in Parts :
                           screen = [k \in 1 .. 2 * LENGTH |->
                                        IF k <= LENGTH THEN <<f, k>> ELSE <<3 - f, k - LENGTH>>]
                    /\ program = "3_th" => \E p \in Parts : IsPrefix(Own(p), output)
                    /\ program = "3_th_append" => \E p \in Parts : output = Own(p) \o Own(3 - p)
  BY DEF NothingLost
<1>1. StreamsTyped
  BY DEF StreamsInv
<1>2. ASSUME program \in Reads
      PROVE  /\ ReaderPlaces /\ NoneSkipped /\ AllCounted /\ \A p \in Parts : Ordered(p) /\ InOrder(p)
             /\ \A p \in Parts : /\ c[p] = Nothing /\ DOMAIN buffer[p] = {} /\ Len(buffer[p]) = 0
                                 /\ position[Descriptor(p)] = LENGTH
             /\ Len(screen) = position[1] + position[2] /\ Len(screen) \in Nat /\ DOMAIN screen = 1 .. Len(screen)
             /\ screen = [k \in 1 .. Len(screen) |-> screen[k]]
  <2>1. ReaderPlaces /\ NoneSkipped /\ AllCounted /\ \A p \in Parts : Ordered(p) /\ InOrder(p)
    BY <1>2 DEF StreamsInv, Reading, Ordered
  <2>2. \A p \in Parts : /\ c[p] = Nothing /\ DOMAIN buffer[p] = {} /\ Len(buffer[p]) = 0
                         /\ position[Descriptor(p)] = LENGTH
    BY <2>1 DEF ReaderPlaces
  <2>3. Len(screen) \in Nat /\ DOMAIN screen = 1 .. Len(screen) /\ screen = [k \in 1 .. Len(screen) |-> screen[k]]
    BY <1>1 DEF StreamsTyped
  <2>4. Unshown(1) = 0 /\ Unshown(2) = 0
    <3>1. ASSUME NEW p \in Parts PROVE Held(p) = 0 /\ Len(buffer[p]) = 0
      BY <2>2 DEF Held
    <3>2. ASSUME NEW p \in Parts PROVE Unshown(p) = 0
      BY <3>1 DEF Unshown
    <3> QED
      BY <3>2, StreamFacts
  <2>5. Len(screen) = position[1] + position[2]
    BY <2>1, <2>3, <2>4 DEF AllCounted, Together
  <2> QED
    BY <2>1, <2>2, <2>3, <2>5
<1>3. ASSUME program \in Buffered
      PROVE  /\ \A p \in Parts : InOrder(p)
             /\ \A k \in 1 .. LENGTH : \E i \in DOMAIN screen : screen[i][2] = k
             /\ Len(screen) = LENGTH
  <2>1. program \in Reads
    BY <1>3 DEF Reads
  <2>2. \A p \in Parts : Descriptor(p) = 1
    BY <1>3 DEF Descriptor
  <2>3. position[1] = LENGTH /\ position[2] = 0
    BY <1>2, <1>3, <2>1, <2>2, StreamFacts DEF ReaderPlaces
  <2>4. Len(screen) = LENGTH
    BY <1>2, <2>1, <2>3, StreamFacts
  <2>5. ASSUME NEW k \in 1 .. LENGTH PROVE \E i \in DOMAIN screen : screen[i][2] = k
    <3>1. PICK p \in Parts : Has(p, k)
      BY <1>2, <2>1, <2>2, <2>3, StreamFacts DEF NoneSkipped
    <3>2. c[p] # k
      BY <1>2, <2>1 DEF Nothing
    <3>3. PICK i \in DOMAIN screen : screen[i] = <<p, k>>
      BY <1>2, <2>1, <3>1, <3>2 DEF Has
    <3> QED
      BY <3>3
  <2> QED
    BY <1>2, <2>1, <2>4, <2>5
<1>4. ASSUME program = "2"
      PROVE  screen = [k \in 1 .. 2 * LENGTH |-> <<IF k % 2 = 1 THEN 1 ELSE 2, (k + 1) \div 2>>]
  <2>1. program \in Reads /\ \A p \in Parts : Descriptor(p) = p
    BY <1>4 DEF Reads, Descriptor, Buffered
  <2>2. Len(screen) = 2 * LENGTH
    BY <1>2, <2>1, StreamFacts
  <2>3. \A k \in DOMAIN screen : screen[k] = <<IF k % 2 = 1 THEN 1 ELSE 2, (k + 1) \div 2>>
    BY <1>4, <2>1 DEF StreamsInv, Reading, Alternates
  <2> QED
    BY <1>2, <2>1, <2>2, <2>3
<1>5. ASSUME program = "2_th"
      PROVE  \A p \in Parts :
                /\ InOrder(p)
                /\ \A k \in 1 .. LENGTH : \E i \in DOMAIN screen : screen[i] = <<p, k>>
  <2>1. program \in Reads /\ \A p \in Parts : Descriptor(p) = p
    BY <1>5 DEF Reads, Descriptor, Buffered
  <2>2. ASSUME NEW p \in Parts, NEW k \in 1 .. LENGTH PROVE \E i \in DOMAIN screen : screen[i] = <<p, k>>
    <3>1. Has(p, k)
      BY <1>2, <2>1 DEF NoneSkipped
    <3> QED
      BY <1>2, <2>1, <3>1 DEF Has, Nothing
  <2> QED
    BY <1>2, <2>1, <2>2
<1>6. ASSUME program = "2_th_mutex"
      PROVE  \E f \in Parts :
                screen = [k \in 1 .. 2 * LENGTH |->
                             IF k <= LENGTH THEN <<f, k>> ELSE <<3 - f, k - LENGTH>>]
  <2>1. program \in Reads /\ \A p \in Parts : Descriptor(p) = p
    BY <1>6 DEF Reads, Descriptor, Buffered
  <2>2. Len(screen) = 2 * LENGTH
    BY <1>2, <2>1, StreamFacts
  <2>3. PICK f \in Parts : \A k \in DOMAIN screen :
                screen[k] = IF k <= LENGTH THEN <<f, k>> ELSE <<3 - f, k - LENGTH>>
    BY <1>6, <2>1 DEF StreamsInv, Reading, Excluded
  <2>4. screen = [k \in 1 .. 2 * LENGTH |-> IF k <= LENGTH THEN <<f, k>> ELSE <<3 - f, k - LENGTH>>]
    BY <1>2, <2>1, <2>2, <2>3
  <2> QED
    BY <2>4
<1>7. program = "3_th" => \E p \in Parts : IsPrefix(Own(p), output)
  BY DEF StreamsInv, Writing, Writes, Truncates
<1>8. program = "3_th_append" => \E p \in Parts : output = Own(p) \o Own(3 - p)
  BY StreamFacts DEF StreamsInv, Writing, Writes, Appends
<1> QED
  BY <1>3, <1>4, <1>5, <1>6, <1>7, <1>8

LEMMA StreamsTypeIs ==
  ASSUME StreamsInv
  PROVE  StreamsTypeOK
<1>1. StreamsTyped
  BY DEF StreamsInv
<1>2. ASSUME NEW s \in Parts PROVE Len(buffer[s]) <= BUFSIZE + Lengths[s]
  <2>1. CASE program \in Reads
    <3>1. Len(buffer[s]) \in Nat /\ Len(buffer[s]) <= BUFSIZE
      BY <1>1, <2>1, BuffersAre DEF StreamsTyped
    <3> QED
      BY <3>1, StreamFacts
  <2>2. CASE program \in Writes
    <3>1. PICK n \in 0 .. Lengths[s] : buffer[s] = Beginning(s, n)
      BY <2>2 DEF StreamsInv, Writing, WriterPlaces
    <3>2. Len(buffer[s]) = n
      BY <3>1, BeginningIs
    <3> QED
      BY <3>2, StreamFacts
  <2> QED
    BY <1>1, <2>1, <2>2 DEF StreamsTyped
<1>3. Len(screen) <= 2 * LENGTH
  <2>1. CASE program \in Reads
    <3>1. Unshown(1) \in Nat /\ Unshown(2) \in Nat
      <4>1. ASSUME NEW p \in Parts PROVE Held(p) \in Nat /\ Len(buffer[p]) \in Nat
        BY <1>1, <2>1, BuffersAre DEF Held
      <4>2. ASSUME NEW p \in Parts PROVE Unshown(p) \in Nat
        BY <4>1 DEF Unshown
      <4> QED
        BY <4>2, StreamFacts
    <3>2. Len(screen) \in Nat /\ position[1] \in 0 .. LENGTH /\ position[2] \in 0 .. LENGTH
      BY <1>1, StreamFacts DEF StreamsTyped
    <3>3. Len(screen) + Unshown(1) + Unshown(2) = position[1] + position[2]
      BY <2>1 DEF StreamsInv, Reading, AllCounted, Together
    <3> QED
      BY <3>1, <3>2, <3>3, StreamFacts
  <2>2. CASE program \in Writes
    <3>1. Len(screen) = 0
      BY <2>2 DEF StreamsInv, Writing, WriterPlaces
    <3> QED
      BY <3>1, StreamFacts
  <2> QED
    BY <1>1, <2>1, <2>2 DEF StreamsTyped
<1> QED
  BY <1>1, <1>2, <1>3 DEF StreamsTyped, StreamsTypeOK

\* When both parts of one of the seven programs over one file are done no character is lost:
\* two buffers show the text once between them, two descriptors each show all of it, in the
\* order that the program promises, two appending threads leave both texts whole and of two
\* truncating ones one text at least is.  This is so for every length of the texts, every size
\* of the buffers and every interleaving.  The state keeps its type.
THEOREM NoCharacterLost == StreamsSpec => [](NothingLost /\ StreamsTypeOK)
<1>1. StreamsInit => StreamsInv
  BY StreamsInitInv
<1>2. StreamsInv /\ [StreamsNext]_streamVars => StreamsInv'
  BY StreamsNextInv, StreamsStay
<1>3. StreamsInv => NothingLost /\ StreamsTypeOK
  BY NothingLostIs, StreamsTypeIs
<1> QED
  BY <1>1, <1>2, <1>3, PTL DEF StreamsSpec

-----------------------------------------------------------------------------
\* The programs that fork, for any number of children and of interrupts.

\* The children that wait has returned, and where the parent is when it has forked all of
\* them and when it has waited for all of them.
Returned == {i \in Kids : kid[i] = "waited for"}
Forking == parent \in {"start", "handler", "fork"} => kids < PROC_COUNT /\ waits = 0
ForkedAll == parent \in {"wait", "close", "read"} => kids = PROC_COUNT
WaitsOn == parent = "wait" => waits < PROC_COUNT
HeardOut == parent \in {"close", "read"} \/ (parent = "ended" /\ source \in Piped) => waits = PROC_COUNT
WaitsCounted == Cardinality(Returned) = waits

\* The parent reads with its own end closed, when nobody is left to write, so that read does
\* not wait; and when the parent ends it has read all the children have written.
ReadDoesNotWait == parent = "read" => ~writeEnd /\ \A i \in Kids : ~Alive(i)
HasReadAll == parent = "ended" /\ source \in Piped => received = written

ForkInv ==
    /\ ForkTypeOK /\ Forking /\ ForkedAll /\ WaitsOn /\ HeardOut /\ WaitsCounted
    /\ (parent = "read" => ~writeEnd) /\ HasReadAll

LEMMA KidNumbers == PROC_COUNT \in Nat /\ PROC_COUNT >= 1 /\ INTERRUPTS \in Nat
BY ForkAssumption

LEMMA KidFacts == IsFiniteSet(Kids) /\ Cardinality(Kids) = PROC_COUNT /\ Parent \notin Kids
<1>1. IsFiniteSet(Kids) /\ Cardinality(Kids) = PROC_COUNT
  BY KidNumbers, FS_Interval DEF Kids
<1> QED
  BY <1>1, KidNumbers DEF Kids, Parent

\* When as many waits have returned as there are children, every child was waited for.
LEMMA AllReturned ==
  ASSUME WaitsCounted, waits = PROC_COUNT
  PROVE  \A i \in Kids : kid[i] = "waited for" /\ ~Alive(i)
<1>1. Returned \in SUBSET Kids /\ Cardinality(Returned) = Cardinality(Kids)
  BY KidFacts DEF Returned, WaitsCounted
<1>2. Returned = Kids
  BY <1>1, KidFacts, FS_Subset
<1> QED
  BY <1>2 DEF Returned, Alive

LEMMA ForkInitInv == ForkInit => ForkInv
<1> SUFFICES ASSUME ForkInit PROVE ForkInv
  OBVIOUS
<1>1. /\ parent = "start" /\ kid = [i \in Kids |-> "unborn"] /\ kids = 0 /\ waits = 0
      /\ writeEnd = FALSE /\ written = <<>> /\ received = <<>>
      /\ status = [i \in Kids |-> FALSE] /\ interrupted = {} /\ interrupts = 0
  BY DEF ForkInit
<1>2. ForkTypeOK
  <2>1. <<>> \in Seq(Kids)
    BY EmptySeq
  <2>2. kids \in 0 .. PROC_COUNT /\ waits \in 0 .. kids /\ interrupts \in 0 .. INTERRUPTS
    BY <1>1, KidNumbers
  <2> QED
    BY <1>1, <2>1, <2>2 DEF ForkTypeOK
<1>3. Returned = {}
  BY <1>1 DEF Returned
<1>4. WaitsCounted
  BY <1>1, <1>3, FS_EmptySet DEF WaitsCounted
<1> QED
  BY <1>1, <1>2, <1>4, KidNumbers DEF ForkInv, Forking, ForkedAll, WaitsOn, HeardOut, HasReadAll

\* Nobody but wait makes a child one that was waited for, and it stays one.
LEMMA SameReturned ==
  ASSUME WaitsCounted, waits' = waits,
         \A i \in Kids : kid'[i] = "waited for" <=> kid[i] = "waited for"
  PROVE  WaitsCounted'
<1>1. Returned' = Returned
  BY DEF Returned
<1> QED
  BY <1>1 DEF WaitsCounted

LEMMA ParentKeeps == ASSUME ForkInv, ParentStep PROVE ForkInv'
<1>1. /\ ForkTypeOK /\ Forking /\ ForkedAll /\ WaitsOn /\ HeardOut /\ WaitsCounted
      /\ (parent = "read" => ~writeEnd) /\ HasReadAll
  BY DEF ForkInv
<1>2. kid \in [Kids -> {"unborn", "born", "counting", "asleep", "awake", "reading", "send", "ended", "waited for"}]
  BY <1>1 DEF ForkTypeOK
<1>7. kids \in Nat /\ kids <= PROC_COUNT /\ waits \in Nat /\ waits <= kids
  <2>1. kids \in 0 .. PROC_COUNT /\ waits \in 0 .. kids
    BY <1>1 DEF ForkTypeOK
  <2> QED
    BY <2>1, KidNumbers
<1>3. CASE Prepare
  <2>1. /\ parent \in {"start", "handler"} /\ parent' \in {"handler", "fork", "failed"}
        /\ writeEnd' \in BOOLEAN
        /\ source' = source /\ kid' = kid /\ kids' = kids /\ waits' = waits /\ written' = written
        /\ received' = received /\ status' = status /\ interrupted' = interrupted
        /\ interrupts' = interrupts
    <3>1. writeEnd \in BOOLEAN
      BY <1>1 DEF ForkTypeOK
    <3>2. writeEnd' \in BOOLEAN
      <4>1. writeEnd' = (source \in Piped) \/ writeEnd' = writeEnd
        BY <1>3, Zenon DEF Prepare
      <4>2. (source \in Piped) \in BOOLEAN
        BY SMT DEF Piped
      <4> QED
        BY <3>1, <4>1, <4>2, Zenon
    <3> QED
      BY <1>3, <3>2 DEF Prepare, signalVars
  <2>2. ForkTypeOK'
    BY <1>1, <2>1 DEF ForkTypeOK, Finished
  <2>3. WaitsCounted'
    BY <1>1, <2>1, SameReturned
  <2> QED
    BY <1>1, <2>1, <2>2, <2>3 DEF ForkInv, Forking, ForkedAll, WaitsOn, HeardOut, HasReadAll
<1>4. CASE Fork
  <2>1. /\ parent = "fork" /\ source' = source /\ waits' = waits /\ writeEnd' = writeEnd
        /\ written' = written /\ received' = received
        /\ status' = status /\ interrupted' = interrupted /\ interrupts' = interrupts
        /\ kids < PROC_COUNT /\ waits = 0
    BY <1>1, <1>4 DEF Fork, pipeVars, signalVars, Forking
  <2>2. CASE /\ kids' = kids + 1 /\ kid' = [kid EXCEPT ![kids + 1] = "born"]
             /\ parent' = IF kids + 1 < PROC_COUNT THEN "fork"
                          ELSE IF source = "1_fork" THEN "ended" ELSE "wait"
    <3>1. kids + 1 \in Kids /\ kids' \in 0 .. PROC_COUNT /\ waits' \in 0 .. kids'
      <4>1. kids' = kids + 1 /\ waits' = 0 /\ kids < PROC_COUNT
        BY <2>1, <2>2
      <4> QED
        BY <1>7, <4>1, KidNumbers DEF Kids
    <3>2. kid' \in [Kids -> {"unborn", "born", "counting", "asleep", "awake", "reading", "send", "ended", "waited for"}]
      BY <1>2, <2>2, <3>1
    <3>3. parent' \in {"fork", "ended", "wait"}
          /\ (parent' = "fork" => kids' < PROC_COUNT) /\ (parent' = "wait" => kids' = PROC_COUNT)
          /\ (parent' = "ended" => source = "1_fork")
      <4>1. kids' = kids + 1 /\ kids < PROC_COUNT
        BY <2>1, <2>2
      <4> QED
        BY <1>7, <2>2, <4>1, KidNumbers
    <3>4. ForkTypeOK'
      BY <1>1, <2>1, <3>1, <3>2, <3>3 DEF ForkTypeOK, Finished
    <3>5. Returned = {}
      <4>1. Returned \in SUBSET Kids /\ IsFiniteSet(Returned)
        BY KidFacts, FS_Subset DEF Returned
      <4> QED
        BY <1>1, <2>1, <4>1, FS_EmptySet DEF WaitsCounted
    <3>6. \A i \in Kids : kid'[i] = "waited for" <=> kid[i] = "waited for"
      BY <1>2, <2>2, <3>1, <3>5 DEF Returned
    <3>7. WaitsCounted'
      BY <1>1, <2>1, <3>6, SameReturned
    <3>8. source = "1_fork" => source \notin Piped
      BY DEF Piped
    <3> QED
      BY <1>1, <2>1, <3>3, <3>4, <3>7, <3>8, KidNumbers
         DEF ForkInv, Forking, ForkedAll, WaitsOn, HeardOut, HasReadAll
  <2>3. CASE parent' = "failed" /\ kid' = kid /\ kids' = kids
    <3>1. ForkTypeOK'
      BY <1>1, <2>1, <2>3 DEF ForkTypeOK, Finished
    <3>2. WaitsCounted'
      BY <1>1, <2>1, <2>3, SameReturned
    <3> QED
      BY <2>3, <3>1, <3>2 DEF ForkInv, Forking, ForkedAll, WaitsOn, HeardOut, HasReadAll
  <2> QED
    BY <1>4, <2>2, <2>3 DEF Fork
<1>5. CASE Wait
  <2>1. PICK i \in Kids : kid[i] = "ended" /\ kid' = [kid EXCEPT ![i] = "waited for"]
    BY <1>5 DEF Wait
  <2>2. /\ parent = "wait" /\ waits' = waits + 1
        /\ parent' = IF waits + 1 < PROC_COUNT THEN "wait"
                     ELSE IF source \in Piped THEN "close" ELSE "ended"
        /\ source' = source /\ kids' = kids /\ writeEnd' = writeEnd /\ written' = written
        /\ received' = received /\ status' = status /\ interrupted' = interrupted
        /\ interrupts' = interrupts
    BY <1>5 DEF Wait, pipeVars, signalVars
  <2>3. waits < PROC_COUNT /\ kids = PROC_COUNT
    BY <1>1, <2>2 DEF WaitsOn, ForkedAll
  <2>4. kid' \in [Kids -> {"unborn", "born", "counting", "asleep", "awake", "reading", "send", "ended", "waited for"}]
    BY <1>2, <2>1
  <2>5. WaitsCounted'
    <3>1. Returned' = Returned \union {i} /\ i \notin Returned
      BY <1>2, <2>1 DEF Returned
    <3>2. IsFiniteSet(Returned)
      <4>1. Returned \in SUBSET Kids
        BY DEF Returned
      <4> QED
        BY <4>1, KidFacts, FS_Subset
    <3>3. Cardinality(Returned') = Cardinality(Returned) + 1
      BY <3>1, <3>2, FS_AddElement
    <3> QED
      BY <1>1, <2>2, <3>3 DEF WaitsCounted
  <2>6. /\ waits' \in 0 .. kids' /\ parent' \in {"wait", "close", "ended"}
        /\ parent' = "wait" => waits' < PROC_COUNT
        /\ parent' = "close" => waits' = PROC_COUNT
        /\ parent' = "ended" => source \notin Piped
    BY <1>7, <2>2, <2>3, KidNumbers
  <2>7. ForkTypeOK'
    BY <1>1, <2>2, <2>4, <2>6 DEF ForkTypeOK, Finished
  <2> QED
    BY <1>1, <2>2, <2>3, <2>5, <2>6, <2>7
       DEF ForkInv, Forking, ForkedAll, WaitsOn, HeardOut, HasReadAll
<1>6. CASE Close \/ Read
  <2>1. /\ \/ parent = "close" /\ parent' = "read" /\ writeEnd' = FALSE /\ received' = received
           \/ parent = "read" /\ parent' = "ended" /\ writeEnd' = writeEnd /\ received' = written
        /\ source' = source /\ kid' = kid /\ kids' = kids /\ waits' = waits /\ written' = written
        /\ status' = status /\ interrupted' = interrupted /\ interrupts' = interrupts
    BY <1>6 DEF Close, Read, signalVars
  <2>2. ForkTypeOK'
    BY <1>1, <2>1 DEF ForkTypeOK, Finished
  <2>3. WaitsCounted'
    BY <1>1, <2>1, SameReturned
  <2> QED
    BY <1>1, <2>1, <2>2, <2>3 DEF ForkInv, Forking, ForkedAll, WaitsOn, HeardOut, HasReadAll
<1> QED
  BY <1>3, <1>4, <1>5, <1>6 DEF ParentStep

LEMMA KidKeeps == ASSUME ForkInv, NEW i \in Kids,
                         KidStep(i) \/ UserAnswers(i) \/ KidKilled(i)
                  PROVE  ForkInv'
<1>1. /\ ForkTypeOK /\ Forking /\ ForkedAll /\ WaitsOn /\ HeardOut /\ WaitsCounted
      /\ (parent = "read" => ~writeEnd) /\ HasReadAll
  BY DEF ForkInv
<1>2. kid \in [Kids -> {"unborn", "born", "counting", "asleep", "awake", "reading", "send", "ended", "waited for"}]
  BY <1>1 DEF ForkTypeOK
<1>3. /\ source' = source /\ parent' = parent /\ kids' = kids /\ waits' = waits
      /\ writeEnd' = writeEnd /\ received' = received /\ status' = status
      /\ interrupted' = interrupted /\ interrupts' = interrupts
  BY DEF KidStep, UserAnswers, KidKilled, pipeVars, signalVars
<1>4. /\ Alive(i) /\ written' \in {written, Append(written, i)}
      /\ \E there \in {"counting", "asleep", "awake", "reading", "send", "ended"} : kid' = [kid EXCEPT ![i] = there]
  BY DEF KidStep, AfterSleep, UserAnswers, KidKilled, Becomes, Alive, pipeVars
<1>5. kid[i] # "waited for"
  BY <1>4 DEF Alive
<1>6. /\ kid' \in [Kids -> {"unborn", "born", "counting", "asleep", "awake", "reading", "send", "ended", "waited for"}]
      /\ \A k \in Kids : kid'[k] = "waited for" <=> kid[k] = "waited for"
  BY <1>2, <1>4, <1>5
<1>7. {written', received'} \subseteq Seq(Kids)
  <2>1. written \in Seq(Kids) /\ received \in Seq(Kids)
    BY <1>1 DEF ForkTypeOK
  <2>2. Append(written, i) \in Seq(Kids)
    BY <2>1, AppendProperties
  <2> QED
    BY <1>3, <1>4, <2>1, <2>2
<1>8. ForkTypeOK'
  BY <1>1, <1>3, <1>6, <1>7 DEF ForkTypeOK
<1>9. WaitsCounted'
  BY <1>1, <1>3, <1>6, SameReturned
<1>10. ~(parent = "ended" /\ source \in Piped)
  BY <1>1, <1>4, AllReturned DEF HeardOut
<1> QED
  BY <1>1, <1>3, <1>8, <1>9, <1>10
     DEF ForkInv, Forking, ForkedAll, WaitsOn, HeardOut, HasReadAll

LEMMA InterruptKeeps ==
  ASSUME ForkInv, Interrupt \/ \E p \in Kids \union {Parent} : InterruptArrives(p)
  PROVE  ForkInv'
<1>1. /\ ForkTypeOK /\ Forking /\ ForkedAll /\ WaitsOn /\ HeardOut /\ WaitsCounted
      /\ (parent = "read" => ~writeEnd) /\ HasReadAll
  BY DEF ForkInv
<1>2. kid \in [Kids -> {"unborn", "born", "counting", "asleep", "awake", "reading", "send", "ended", "waited for"}]
      /\ status \in [Kids -> BOOLEAN]
  BY <1>1 DEF ForkTypeOK
<1>3. CASE Interrupt
  <2>1. /\ source' = source /\ parent' = parent /\ kids' = kids /\ waits' = waits /\ kid' = kid
        /\ writeEnd' = writeEnd /\ received' = received /\ written' = written /\ status' = status
        /\ interrupted' \subseteq Kids \union {Parent} /\ interrupts' = interrupts + 1
        /\ interrupts < INTERRUPTS
    BY <1>3 DEF Interrupt, pipeVars
  <2>2. interrupts' \in 0 .. INTERRUPTS
    <3>1. interrupts \in 0 .. INTERRUPTS
      BY <1>1 DEF ForkTypeOK
    <3>2. interrupts' = interrupts + 1 /\ interrupts < INTERRUPTS
      BY <2>1
    <3> QED
      BY <3>1, <3>2, KidNumbers
  <2>3. ForkTypeOK'
    BY <1>1, <2>1, <2>2 DEF ForkTypeOK
  <2>4. WaitsCounted'
    BY <1>1, <2>1, SameReturned
  <2> QED
    BY <1>1, <2>1, <2>3, <2>4 DEF ForkInv, Forking, ForkedAll, WaitsOn, HeardOut, HasReadAll
<1>4. ASSUME NEW p \in Kids \union {Parent}, InterruptArrives(p) PROVE ForkInv'
  <2>1. /\ source' = source /\ kids' = kids /\ waits' = waits /\ writeEnd' = writeEnd
        /\ received' = received /\ written' = written /\ interrupts' = interrupts
        /\ interrupted' = interrupted \ {p}
    BY <1>4 DEF InterruptArrives, pipeVars
  <2>2. /\ parent' \in {parent, "killed"} /\ (parent \in Finished => parent' = parent)
        /\ (p # Parent => parent' = parent)
    BY <1>4 DEF InterruptArrives, Finished
  <2>3. /\ kid' \in [Kids -> {"unborn", "born", "counting", "asleep", "awake", "reading", "send", "ended", "waited for"}]
        /\ \A k \in Kids : kid'[k] = "waited for" <=> kid[k] = "waited for"
        /\ status' \in [Kids -> BOOLEAN]
    <3>1. CASE p = Parent
      BY <1>2, <1>4, <3>1 DEF InterruptArrives
    <3>2. CASE p # Parent
      <4>1. /\ p \in Kids
            /\ kid' = [kid EXCEPT ![p] = IF Alive(p) /\ source # "5_signal" THEN "ended"
                                         ELSE IF kid[p] = "asleep" THEN "awake" ELSE kid[p]]
            /\ status' = [status EXCEPT ![p] = status[p] \/ (source = "5_signal" /\ kid[p] # "born")]
        BY <1>4, <3>2 DEF InterruptArrives
      <4>2. \E there \in {"ended", "awake", kid[p]} :
                /\ kid' = [kid EXCEPT ![p] = there]
                /\ there # kid[p] => kid[p] # "waited for"
        BY <4>1 DEF Alive
      <4> QED
        BY <1>2, <4>1, <4>2
    <3> QED
      BY <3>1, <3>2
  <2>4. ForkTypeOK'
    BY <1>1, <2>1, <2>2, <2>3 DEF ForkTypeOK, Finished
  <2>5. WaitsCounted'
    BY <1>1, <2>1, <2>3, SameReturned
  <2> QED
    BY <1>1, <2>1, <2>2, <2>4, <2>5 DEF ForkInv, Forking, ForkedAll, WaitsOn, HeardOut, HasReadAll, Finished
<1> QED
  BY <1>3, <1>4

LEMMA ForkStepKeeps == ForkInv /\ [ForkNext]_forkVars => ForkInv'
<1> SUFFICES ASSUME ForkInv, [ForkNext]_forkVars PROVE ForkInv'
  OBVIOUS
<1>1. CASE ForkNext
  BY <1>1, ParentKeeps, KidKeeps, InterruptKeeps DEF ForkNext
<1>2. CASE UNCHANGED forkVars
  BY <1>2 DEF forkVars, pipeVars, signalVars, ForkInv, ForkTypeOK, Forking, ForkedAll, WaitsOn,
              HeardOut, WaitsCounted, Returned, HasReadAll
<1> QED
  BY <1>1, <1>2

LEMMA AlwaysForkInv == ForkSpec => []ForkInv
BY ForkInitInv, ForkStepKeeps, PTL DEF ForkSpec

\* For any number of children, whichever are killed and whenever SIGINT comes: when the
\* parent of 4_pipe.c or 5_signal.c reads, every child was waited for and no end of the pipe
\* is left open, so that read returns at once; and a parent that has ended has read all that
\* was written.
THEOREM ParentHasHeard == ForkSpec => [](ReadDoesNotWait /\ HasReadAll)
<1>1. ForkInv => ReadDoesNotWait /\ HasReadAll
  BY AllReturned DEF ForkInv, ReadDoesNotWait, HeardOut
<1> QED
  BY <1>1, AlwaysForkInv, PTL

-----------------------------------------------------------------------------
\* The readers and writers of Windows, for any number of them and of rounds.

\* The places of a writer and of a reader.
WinW == {"enter write", "test writer", "test readers", "wait write", "granted", "claim", "load",
         "store", "stop write", "choose", "signal read", "signal write"}
WinR == {"loop", "lock", "enter read", "test working", "test waiting", "wait read", "admitted",
         "activate", "chain", "unlock", "leave", "test last", "let write", "reset"}

\* Where a thread is counted in waitingWriters, in waitingReaders and in activeReaders, where
\* it has the mutex, and where it has stored in a round.
Asking  == {"test writer", "test readers", "wait write", "granted"}
Counted == {"test working", "test waiting", "wait read", "admitted"}
Active  == {"chain", "unlock", "leave"}
Holding == {"enter read", "activate", "chain", "unlock"} \union Counted
HasStored == {"stop write", "choose", "signal read", "signal write"}

\* Where workingWriter is the writer's own, and where it has a SetEvent of canRead to come, if
\* a reader waits.
Working == {"load", "store", "stop write"}
WillSignal == Asking \union Working \union {"claim", "choose", "signal read"}

WinForms ==
    /\ canRead \in BOOLEAN /\ canWrite = TRUE /\ workingWriter \in BOOLEAN
    /\ signal \in {"none", "given", "erased"}
    /\ winReg \in [WinThreads -> Nat] /\ round \in [WinThreads -> 0 .. ITERS]
    /\ winPc \in [WinThreads -> {"unborn", "returned"} \union WinW \union WinR]
    /\ winMain \in {"objects", "threads", "join readers", "closed", "exited"}
    /\ created \in 0 .. W_CNT + R_CNT
WinPlaces ==
    \A t \in WinThreads :
        /\ winPc[t] \in {"unborn", "returned"} \union IF t \in WinWriters THEN WinW ELSE WinR
        /\ t >= created => winPc[t] = "unborn"
        /\ winPc[t] = "unborn" => round[t] = 0
        /\ winPc[t] \in WinW => round[t] < ITERS
MutexHeld == winMutex = WinAt(Holding) /\ \A s, t \in winMutex : s = t
WinCounts ==
    /\ waitingWriters = Cardinality(WinAt(Asking))
    /\ waitingReaders = Cardinality(WinAt(Counted))
    /\ activeReaders  = Cardinality(WinAt(Active))

\* The rounds of the writers whose increment was stored: value is no more than their number,
\* and neither is what a writer has loaded.
Rounds(t) == IF winPc[t] \in HasStored THEN round[t] + 1 ELSE round[t]
Stores == {s \in WinWriters \X (1 .. ITERS) : s[2] <= Rounds(s[1])}
ValueStored ==
    /\ value \in Nat /\ value <= Cardinality(Stores)
    /\ \A t \in WinThreads : winReg[t] <= Cardinality(Stores)

\* A signal that was given is there.  A writer works while workingWriter is set.  A reader that
\* waits for canRead was seen or will be seen by a writer, who sets the event.
GivenIsThere == signal = "given" => canRead
OneWorks == workingWriter => WinAt(Working) # {}
WillBeWoken == WinAt({"wait read"}) # {} => signal # "none" \/ WinAt(WillSignal) # {}

WinInv ==
    /\ WinForms /\ WinPlaces /\ MutexHeld /\ WinCounts /\ ValueStored
    /\ GivenIsThere /\ OneWorks /\ WillBeWoken

LEMMA WinNumbers == W_CNT \in Nat /\ R_CNT \in Nat /\ ITERS \in Nat /\ ITERS >= 1
BY WinAssumption

LEMMA WinSets ==
  /\ IsFiniteSet(WinThreads) /\ Cardinality(WinThreads) = W_CNT + R_CNT
  /\ IsFiniteSet(WinWriters) /\ Cardinality(WinWriters) = W_CNT
  /\ WinWriters \subseteq WinThreads
  /\ \A P : WinAt(P) \in SUBSET WinThreads /\ IsFiniteSet(WinAt(P)) /\ Cardinality(WinAt(P)) \in Nat
            /\ Cardinality(WinAt(P)) <= W_CNT + R_CNT
<1>1. IsFiniteSet(WinThreads) /\ Cardinality(WinThreads) = W_CNT + R_CNT
  <2>1. 0 \in Int /\ W_CNT + R_CNT - 1 \in Int
    BY WinNumbers
  <2>2. IsFiniteSet(WinThreads)
        /\ Cardinality(WinThreads) = IF 0 > W_CNT + R_CNT - 1 THEN 0 ELSE (W_CNT + R_CNT - 1) - 0 + 1
    BY <2>1, FS_Interval DEF WinThreads
  <2> QED
    BY <2>2, WinNumbers
<1>2. IsFiniteSet(WinWriters) /\ Cardinality(WinWriters) = W_CNT
  <2>1. 0 \in Int /\ W_CNT - 1 \in Int
    BY WinNumbers
  <2>2. IsFiniteSet(WinWriters)
        /\ Cardinality(WinWriters) = IF 0 > W_CNT - 1 THEN 0 ELSE (W_CNT - 1) - 0 + 1
    BY <2>1, FS_Interval DEF WinWriters
  <2> QED
    BY <2>2, WinNumbers
<1>3. WinWriters \subseteq WinThreads
  BY WinNumbers DEF WinWriters, WinThreads
<1>4. ASSUME NEW P
      PROVE  /\ WinAt(P) \in SUBSET WinThreads /\ IsFiniteSet(WinAt(P)) /\ Cardinality(WinAt(P)) \in Nat
             /\ Cardinality(WinAt(P)) <= W_CNT + R_CNT
  <2>1. WinAt(P) \in SUBSET WinThreads
    BY DEF WinAt
  <2>2. IsFiniteSet(WinAt(P)) /\ Cardinality(WinAt(P)) <= W_CNT + R_CNT
    BY <1>1, <2>1, FS_Subset
  <2> QED
    BY <2>1, <2>2, FS_CardinalityType
<1> QED
  BY <1>1, <1>2, <1>3, <1>4

\* What a step of a thread does: to the places, to the counters, to the mutex, to the value, to
\* the events and to workingWriter.
One(P, t) == IF winPc[t] \in P THEN 1 ELSE 0
MovesOn(t) ==
    /\ winPc' = [winPc EXCEPT ![t] = winPc'[t]] /\ winMain' = winMain /\ created' = created
    /\ \/ winPc[t] \in WinW /\ winPc'[t] \in WinW \union {"returned"}
       \/ winPc[t] \in WinR /\ winPc'[t] \in WinR \union {"returned"}
CountsOn(t) ==
    /\ waitingWriters' = waitingWriters + One(Asking, t)' - One(Asking, t)
    /\ waitingReaders' = waitingReaders + One(Counted, t)' - One(Counted, t)
    /\ activeReaders' = activeReaders + One(Active, t)' - One(Active, t)
LocksOn(t) ==
    /\ winPc[t] = "lock" => winPc'[t] = "enter read" /\ winMutex = {} /\ winMutex' = {t}
    /\ winPc[t] = "unlock" => winPc'[t] = "leave" /\ winMutex' = {}
    /\ winPc[t] \notin {"lock", "unlock"} =>
          winMutex' = winMutex /\ (winPc[t] \in Holding <=> winPc'[t] \in Holding)
StoresOn(t) ==
    /\ winPc[t] = "store" => value' = winReg[t] + 1 /\ winPc'[t] = "stop write" /\ round' = round
    /\ winPc[t] # "store" => value' = value
    /\ winReg' = [winReg EXCEPT ![t] = winReg'[t]] /\ winReg'[t] \in {winReg[t], value, 0}
    /\ winPc[t] \in {"signal read", "signal write"} =>
          /\ round' = [round EXCEPT ![t] = round[t] + 1]
          /\ winPc'[t] = IF round[t] + 1 < ITERS THEN "enter write" ELSE "returned"
    /\ winPc[t] \notin {"store", "signal read", "signal write"} =>
          /\ round' = round /\ (winPc[t] \in HasStored <=> winPc'[t] \in HasStored)
          /\ winPc[t] \in WinW => winPc'[t] \in WinW
EventsOn(t) ==
    /\ canWrite' = TRUE /\ canRead' \in BOOLEAN
    /\ signal' \in {"none", "given", "erased"}
    /\ signal' = "given" => \/ canRead' = TRUE
                            \/ signal = "given" /\ canRead' = canRead
    /\ signal' = "none" => \/ signal = "none"
                           \/ winPc[t] = "wait read" /\ winPc'[t] = "admitted"
WorksOn(t) ==
    /\ workingWriter' \in BOOLEAN
    /\ \/ workingWriter' = FALSE
       \/ winPc'[t] = "load"
       \/ workingWriter' = workingWriter /\ (winPc[t] \in Working => winPc'[t] \in Working)
SignalsOn(t) ==
    /\ winPc[t] \in WillSignal => \/ winPc'[t] \in WillSignal
                                  \/ winPc[t] = "choose" /\ ~(waitingReaders > 0)
                                  \/ winPc[t] = "signal read" /\ signal' = "given"
    /\ winPc'[t] = "wait read" => \/ winPc[t] = "test working" /\ workingWriter = TRUE
                                  \/ winPc[t] = "test waiting" /\ waitingWriters > 0
GoesOn(t) ==
    /\ MovesOn(t) /\ CountsOn(t) /\ LocksOn(t) /\ StoresOn(t) /\ EventsOn(t) /\ WorksOn(t)
    /\ SignalsOn(t)

\* Numbers and forms a step starts from.
LEMMA WinForm ==
  ASSUME WinInv, NEW t \in WinThreads
  PROVE  /\ waitingWriters \in Int /\ waitingReaders \in Int /\ activeReaders \in Int
         /\ winPc = [winPc EXCEPT ![t] = winPc[t]] /\ winReg = [winReg EXCEPT ![t] = winReg[t]]
         /\ DOMAIN winPc = WinThreads /\ DOMAIN winReg = WinThreads
         /\ canWrite = TRUE /\ canRead \in BOOLEAN /\ workingWriter \in BOOLEAN
         /\ signal \in {"none", "given", "erased"}
<1>1. Cardinality(WinAt(Asking)) \in Nat /\ Cardinality(WinAt(Counted)) \in Nat
      /\ Cardinality(WinAt(Active)) \in Nat
  BY WinSets
<1>2. waitingWriters \in Int /\ waitingReaders \in Int /\ activeReaders \in Int
  BY <1>1 DEF WinInv, WinCounts
<1>3. DOMAIN winPc = WinThreads /\ DOMAIN winReg = WinThreads
      /\ winPc = [winPc EXCEPT ![t] = winPc[t]] /\ winReg = [winReg EXCEPT ![t] = winReg[t]]
  BY DEF WinInv, WinForms
<1> QED
  BY <1>2, <1>3 DEF WinInv, WinForms

LEMMA WriteStepIs ==
  ASSUME WinInv, NEW t \in WinThreads, WinWriteStep(t)
  PROVE  GoesOn(t)
<1>0. /\ waitingWriters \in Int /\ waitingReaders \in Int /\ activeReaders \in Int
      /\ winPc = [winPc EXCEPT ![t] = winPc[t]] /\ winReg = [winReg EXCEPT ![t] = winReg[t]]
      /\ DOMAIN winPc = WinThreads /\ DOMAIN winReg = WinThreads
      /\ canWrite = TRUE /\ canRead \in BOOLEAN /\ workingWriter \in BOOLEAN
      /\ signal \in {"none", "given", "erased"}
  BY WinForm
<1>1. CASE WinWriteEnter(t)
  <2>1. winPc[t] = "enter write" /\ winPc'[t] = "test writer"
        /\ winPc' = [winPc EXCEPT ![t] = winPc'[t]]
    BY <1>0, <1>1 DEF WinWriteEnter, WinGoto
  <2>2. /\ One(Asking, t) = 0 /\ One(Asking, t)' = 1
        /\ One(Counted, t) = 0 /\ One(Counted, t)' = 0
        /\ One(Active, t) = 0 /\ One(Active, t)' = 0
    BY <2>1 DEF One, Asking, Counted, Active
  <2>a. /\ waitingWriters' = waitingWriters + 1
        /\ waitingReaders' = waitingReaders
        /\ activeReaders' = activeReaders
    BY <1>1 DEF WinWriteEnter, winData
  <2>b. /\ signal' = signal /\ canRead' = canRead
        /\ canWrite' = TRUE
    BY <1>0, <1>1 DEF WinWriteEnter, winEvents
  <2>3. MovesOn(t)
    BY <2>1, <1>1 DEF MovesOn, WinW, WinR, WinWriteEnter, WinGoto, winEvents, winData, winProc
  <2>4. CountsOn(t)
    BY <1>0, <2>2, <2>a DEF CountsOn
  <2>5. LocksOn(t)
    BY <2>1, <1>1 DEF LocksOn, Holding, Counted, WinWriteEnter, WinGoto, winEvents, winData, winProc
  <2>6. StoresOn(t)
    BY <1>0, <2>1, <1>1 DEF StoresOn, HasStored, WinW, WinWriteEnter, WinGoto, winEvents, winData, winProc
  <2>7. EventsOn(t)
    BY <1>0, <2>1, <2>b DEF EventsOn
  <2>8. WorksOn(t)
    BY <1>0, <2>1, <1>1 DEF WorksOn, Working, WinWriteEnter, WinGoto, winEvents, winData, winProc
  <2>9. SignalsOn(t)
    BY <1>0, <2>1, <1>1 DEF SignalsOn, WillSignal, Asking, Working, WinWriteEnter, WinGoto, winEvents, winData, winProc
  <2> QED
    BY <2>3, <2>4, <2>5, <2>6, <2>7, <2>8, <2>9 DEF GoesOn
<1>2. CASE WinTestWriter(t)
  <2>1. winPc[t] = "test writer" /\ winPc'[t] \in {"wait write", "test readers"}
        /\ winPc' = [winPc EXCEPT ![t] = winPc'[t]]
    BY <1>0, <1>2 DEF WinTestWriter, WinGoto
  <2>2. /\ One(Asking, t) = 1 /\ One(Asking, t)' = 1
        /\ One(Counted, t) = 0 /\ One(Counted, t)' = 0
        /\ One(Active, t) = 0 /\ One(Active, t)' = 0
    BY <2>1 DEF One, Asking, Counted, Active
  <2>a. /\ waitingWriters' = waitingWriters
        /\ waitingReaders' = waitingReaders
        /\ activeReaders' = activeReaders
    BY <1>2 DEF WinTestWriter, winData
  <2>b. /\ signal' = signal /\ canRead' = canRead
        /\ canWrite' = TRUE
    BY <1>0, <1>2 DEF WinTestWriter, winEvents
  <2>3. MovesOn(t)
    BY <2>1, <1>2 DEF MovesOn, WinW, WinR, WinTestWriter, WinGoto, winEvents, winData, winProc
  <2>4. CountsOn(t)
    BY <1>0, <2>2, <2>a DEF CountsOn
  <2>5. LocksOn(t)
    BY <2>1, <1>2 DEF LocksOn, Holding, Counted, WinTestWriter, WinGoto, winEvents, winData, winProc
  <2>6. StoresOn(t)
    BY <1>0, <2>1, <1>2 DEF StoresOn, HasStored, WinW, WinTestWriter, WinGoto, winEvents, winData, winProc
  <2>7. EventsOn(t)
    BY <1>0, <2>1, <2>b DEF EventsOn
  <2>8. WorksOn(t)
    BY <1>0, <2>1, <1>2 DEF WorksOn, Working, WinTestWriter, WinGoto, winEvents, winData, winProc
  <2>9. SignalsOn(t)
    BY <1>0, <2>1, <1>2 DEF SignalsOn, WillSignal, Asking, Working, WinTestWriter, WinGoto, winEvents, winData, winProc
  <2> QED
    BY <2>3, <2>4, <2>5, <2>6, <2>7, <2>8, <2>9 DEF GoesOn
<1>3. CASE WinTestReaders(t)
  <2>1. winPc[t] = "test readers" /\ winPc'[t] \in {"wait write", "granted"}
        /\ winPc' = [winPc EXCEPT ![t] = winPc'[t]]
    BY <1>0, <1>3 DEF WinTestReaders, WinGoto
  <2>2. /\ One(Asking, t) = 1 /\ One(Asking, t)' = 1
        /\ One(Counted, t) = 0 /\ One(Counted, t)' = 0
        /\ One(Active, t) = 0 /\ One(Active, t)' = 0
    BY <2>1 DEF One, Asking, Counted, Active
  <2>a. /\ waitingWriters' = waitingWriters
        /\ waitingReaders' = waitingReaders
        /\ activeReaders' = activeReaders
    BY <1>3 DEF WinTestReaders, winData
  <2>b. /\ signal' = signal /\ canRead' = canRead
        /\ canWrite' = TRUE
    BY <1>0, <1>3 DEF WinTestReaders, winEvents
  <2>3. MovesOn(t)
    BY <2>1, <1>3 DEF MovesOn, WinW, WinR, WinTestReaders, WinGoto, winEvents, winData, winProc
  <2>4. CountsOn(t)
    BY <1>0, <2>2, <2>a DEF CountsOn
  <2>5. LocksOn(t)
    BY <2>1, <1>3 DEF LocksOn, Holding, Counted, WinTestReaders, WinGoto, winEvents, winData, winProc
  <2>6. StoresOn(t)
    BY <1>0, <2>1, <1>3 DEF StoresOn, HasStored, WinW, WinTestReaders, WinGoto, winEvents, winData, winProc
  <2>7. EventsOn(t)
    BY <1>0, <2>1, <2>b DEF EventsOn
  <2>8. WorksOn(t)
    BY <1>0, <2>1, <1>3 DEF WorksOn, Working, WinTestReaders, WinGoto, winEvents, winData, winProc
  <2>9. SignalsOn(t)
    BY <1>0, <2>1, <1>3 DEF SignalsOn, WillSignal, Asking, Working, WinTestReaders, WinGoto, winEvents, winData, winProc
  <2> QED
    BY <2>3, <2>4, <2>5, <2>6, <2>7, <2>8, <2>9 DEF GoesOn
<1>4. CASE WinWaitWrite(t)
  <2>1. winPc[t] = "wait write" /\ winPc'[t] = "granted"
        /\ winPc' = [winPc EXCEPT ![t] = winPc'[t]]
    BY <1>0, <1>4 DEF WinWaitWrite, WinGoto
  <2>2. /\ One(Asking, t) = 1 /\ One(Asking, t)' = 1
        /\ One(Counted, t) = 0 /\ One(Counted, t)' = 0
        /\ One(Active, t) = 0 /\ One(Active, t)' = 0
    BY <2>1 DEF One, Asking, Counted, Active
  <2>a. /\ waitingWriters' = waitingWriters
        /\ waitingReaders' = waitingReaders
        /\ activeReaders' = activeReaders
    BY <1>4 DEF WinWaitWrite, winData
  <2>b. /\ signal' = signal /\ canRead' = canRead
        /\ canWrite' = TRUE
    BY <1>0, <1>4 DEF WinWaitWrite, winEvents
  <2>3. MovesOn(t)
    BY <2>1, <1>4 DEF MovesOn, WinW, WinR, WinWaitWrite, WinGoto, winEvents, winData, winProc
  <2>4. CountsOn(t)
    BY <1>0, <2>2, <2>a DEF CountsOn
  <2>5. LocksOn(t)
    BY <2>1, <1>4 DEF LocksOn, Holding, Counted, WinWaitWrite, WinGoto, winEvents, winData, winProc
  <2>6. StoresOn(t)
    BY <1>0, <2>1, <1>4 DEF StoresOn, HasStored, WinW, WinWaitWrite, WinGoto, winEvents, winData, winProc
  <2>7. EventsOn(t)
    BY <1>0, <2>1, <2>b DEF EventsOn
  <2>8. WorksOn(t)
    BY <1>0, <2>1, <1>4 DEF WorksOn, Working, WinWaitWrite, WinGoto, winEvents, winData, winProc
  <2>9. SignalsOn(t)
    BY <1>0, <2>1, <1>4 DEF SignalsOn, WillSignal, Asking, Working, WinWaitWrite, WinGoto, winEvents, winData, winProc
  <2> QED
    BY <2>3, <2>4, <2>5, <2>6, <2>7, <2>8, <2>9 DEF GoesOn
<1>5. CASE WinWriteGranted(t)
  <2>1. winPc[t] = "granted" /\ winPc'[t] = "claim"
        /\ winPc' = [winPc EXCEPT ![t] = winPc'[t]]
    BY <1>0, <1>5 DEF WinWriteGranted, WinGoto
  <2>2. /\ One(Asking, t) = 1 /\ One(Asking, t)' = 0
        /\ One(Counted, t) = 0 /\ One(Counted, t)' = 0
        /\ One(Active, t) = 0 /\ One(Active, t)' = 0
    BY <2>1 DEF One, Asking, Counted, Active
  <2>a. /\ waitingWriters' = waitingWriters - 1
        /\ waitingReaders' = waitingReaders
        /\ activeReaders' = activeReaders
    BY <1>5 DEF WinWriteGranted, winData
  <2>b. /\ signal' = signal /\ canRead' = canRead
        /\ canWrite' = TRUE
    BY <1>0, <1>5 DEF WinWriteGranted, winEvents
  <2>3. MovesOn(t)
    BY <2>1, <1>5 DEF MovesOn, WinW, WinR, WinWriteGranted, WinGoto, winEvents, winData, winProc
  <2>4. CountsOn(t)
    BY <1>0, <2>2, <2>a DEF CountsOn
  <2>5. LocksOn(t)
    BY <2>1, <1>5 DEF LocksOn, Holding, Counted, WinWriteGranted, WinGoto, winEvents, winData, winProc
  <2>6. StoresOn(t)
    BY <1>0, <2>1, <1>5 DEF StoresOn, HasStored, WinW, WinWriteGranted, WinGoto, winEvents, winData, winProc
  <2>7. EventsOn(t)
    BY <1>0, <2>1, <2>b DEF EventsOn
  <2>8. WorksOn(t)
    BY <1>0, <2>1, <1>5 DEF WorksOn, Working, WinWriteGranted, WinGoto, winEvents, winData, winProc
  <2>9. SignalsOn(t)
    BY <1>0, <2>1, <1>5 DEF SignalsOn, WillSignal, Asking, Working, WinWriteGranted, WinGoto, winEvents, winData, winProc
  <2> QED
    BY <2>3, <2>4, <2>5, <2>6, <2>7, <2>8, <2>9 DEF GoesOn
<1>6. CASE WinClaim(t)
  <2>1. winPc[t] = "claim" /\ winPc'[t] = "load"
        /\ winPc' = [winPc EXCEPT ![t] = winPc'[t]]
    BY <1>0, <1>6 DEF WinClaim, WinGoto
  <2>2. /\ One(Asking, t) = 0 /\ One(Asking, t)' = 0
        /\ One(Counted, t) = 0 /\ One(Counted, t)' = 0
        /\ One(Active, t) = 0 /\ One(Active, t)' = 0
    BY <2>1 DEF One, Asking, Counted, Active
  <2>a. /\ waitingWriters' = waitingWriters
        /\ waitingReaders' = waitingReaders
        /\ activeReaders' = activeReaders
    BY <1>6 DEF WinClaim, winData
  <2>b. /\ signal' = signal /\ canRead' = canRead
        /\ canWrite' = TRUE
    BY <1>0, <1>6 DEF WinClaim, winEvents
  <2>3. MovesOn(t)
    BY <2>1, <1>6 DEF MovesOn, WinW, WinR, WinClaim, WinGoto, winEvents, winData, winProc
  <2>4. CountsOn(t)
    BY <1>0, <2>2, <2>a DEF CountsOn
  <2>5. LocksOn(t)
    BY <2>1, <1>6 DEF LocksOn, Holding, Counted, WinClaim, WinGoto, winEvents, winData, winProc
  <2>6. StoresOn(t)
    BY <1>0, <2>1, <1>6 DEF StoresOn, HasStored, WinW, WinClaim, WinGoto, winEvents, winData, winProc
  <2>7. EventsOn(t)
    BY <1>0, <2>1, <2>b DEF EventsOn
  <2>8. WorksOn(t)
    BY <1>0, <2>1, <1>6 DEF WorksOn, Working, WinClaim, WinGoto, winEvents, winData, winProc
  <2>9. SignalsOn(t)
    BY <1>0, <2>1, <1>6 DEF SignalsOn, WillSignal, Asking, Working, WinClaim, WinGoto, winEvents, winData, winProc
  <2> QED
    BY <2>3, <2>4, <2>5, <2>6, <2>7, <2>8, <2>9 DEF GoesOn
<1>7. CASE WinLoad(t)
  <2>1. winPc[t] = "load" /\ winPc'[t] = "store"
        /\ winPc' = [winPc EXCEPT ![t] = winPc'[t]]
    BY <1>0, <1>7 DEF WinLoad, WinGoto
  <2>2. /\ One(Asking, t) = 0 /\ One(Asking, t)' = 0
        /\ One(Counted, t) = 0 /\ One(Counted, t)' = 0
        /\ One(Active, t) = 0 /\ One(Active, t)' = 0
    BY <2>1 DEF One, Asking, Counted, Active
  <2>a. /\ waitingWriters' = waitingWriters
        /\ waitingReaders' = waitingReaders
        /\ activeReaders' = activeReaders
    BY <1>7 DEF WinLoad, winData
  <2>b. /\ signal' = signal /\ canRead' = canRead
        /\ canWrite' = TRUE
    BY <1>0, <1>7 DEF WinLoad, winEvents
  <2>3. MovesOn(t)
    BY <2>1, <1>7 DEF MovesOn, WinW, WinR, WinLoad, WinGoto, winEvents, winData, winProc
  <2>4. CountsOn(t)
    BY <1>0, <2>2, <2>a DEF CountsOn
  <2>5. LocksOn(t)
    BY <2>1, <1>7 DEF LocksOn, Holding, Counted, WinLoad, WinGoto, winEvents, winData, winProc
  <2>6. StoresOn(t)
    BY <1>0, <2>1, <1>7 DEF StoresOn, HasStored, WinW, WinLoad, WinGoto, winEvents, winData, winProc
  <2>7. EventsOn(t)
    BY <1>0, <2>1, <2>b DEF EventsOn
  <2>8. WorksOn(t)
    BY <1>0, <2>1, <1>7 DEF WorksOn, Working, WinLoad, WinGoto, winEvents, winData, winProc
  <2>9. SignalsOn(t)
    BY <1>0, <2>1, <1>7 DEF SignalsOn, WillSignal, Asking, Working, WinLoad, WinGoto, winEvents, winData, winProc
  <2> QED
    BY <2>3, <2>4, <2>5, <2>6, <2>7, <2>8, <2>9 DEF GoesOn
<1>8. CASE WinStore(t)
  <2>1. winPc[t] = "store" /\ winPc'[t] = "stop write"
        /\ winPc' = [winPc EXCEPT ![t] = winPc'[t]]
    BY <1>0, <1>8 DEF WinStore, WinGoto
  <2>2. /\ One(Asking, t) = 0 /\ One(Asking, t)' = 0
        /\ One(Counted, t) = 0 /\ One(Counted, t)' = 0
        /\ One(Active, t) = 0 /\ One(Active, t)' = 0
    BY <2>1 DEF One, Asking, Counted, Active
  <2>a. /\ waitingWriters' = waitingWriters
        /\ waitingReaders' = waitingReaders
        /\ activeReaders' = activeReaders
    BY <1>8 DEF WinStore, winData
  <2>b. /\ signal' = signal /\ canRead' = canRead
        /\ canWrite' = TRUE
    BY <1>0, <1>8 DEF WinStore, winEvents
  <2>3. MovesOn(t)
    BY <2>1, <1>8 DEF MovesOn, WinW, WinR, WinStore, WinGoto, winEvents, winData, winProc
  <2>4. CountsOn(t)
    BY <1>0, <2>2, <2>a DEF CountsOn
  <2>5. LocksOn(t)
    BY <2>1, <1>8 DEF LocksOn, Holding, Counted, WinStore, WinGoto, winEvents, winData, winProc
  <2>6. StoresOn(t)
    BY <1>0, <2>1, <1>8 DEF StoresOn, HasStored, WinW, WinStore, WinGoto, winEvents, winData, winProc
  <2>7. EventsOn(t)
    BY <1>0, <2>1, <2>b DEF EventsOn
  <2>8. WorksOn(t)
    BY <1>0, <2>1, <1>8 DEF WorksOn, Working, WinStore, WinGoto, winEvents, winData, winProc
  <2>9. SignalsOn(t)
    BY <1>0, <2>1, <1>8 DEF SignalsOn, WillSignal, Asking, Working, WinStore, WinGoto, winEvents, winData, winProc
  <2> QED
    BY <2>3, <2>4, <2>5, <2>6, <2>7, <2>8, <2>9 DEF GoesOn
<1>9. CASE WinStopWrite(t)
  <2>1. winPc[t] = "stop write" /\ winPc'[t] = "choose"
        /\ winPc' = [winPc EXCEPT ![t] = winPc'[t]]
    BY <1>0, <1>9 DEF WinStopWrite, WinGoto
  <2>2. /\ One(Asking, t) = 0 /\ One(Asking, t)' = 0
        /\ One(Counted, t) = 0 /\ One(Counted, t)' = 0
        /\ One(Active, t) = 0 /\ One(Active, t)' = 0
    BY <2>1 DEF One, Asking, Counted, Active
  <2>a. /\ waitingWriters' = waitingWriters
        /\ waitingReaders' = waitingReaders
        /\ activeReaders' = activeReaders
    BY <1>9 DEF WinStopWrite, winData
  <2>b. /\ signal' = signal /\ canRead' = canRead
        /\ canWrite' = TRUE
    BY <1>0, <1>9 DEF WinStopWrite, winEvents
  <2>3. MovesOn(t)
    BY <2>1, <1>9 DEF MovesOn, WinW, WinR, WinStopWrite, WinGoto, winEvents, winData, winProc
  <2>4. CountsOn(t)
    BY <1>0, <2>2, <2>a DEF CountsOn
  <2>5. LocksOn(t)
    BY <2>1, <1>9 DEF LocksOn, Holding, Counted, WinStopWrite, WinGoto, winEvents, winData, winProc
  <2>6. StoresOn(t)
    BY <1>0, <2>1, <1>9 DEF StoresOn, HasStored, WinW, WinStopWrite, WinGoto, winEvents, winData, winProc
  <2>7. EventsOn(t)
    BY <1>0, <2>1, <2>b DEF EventsOn
  <2>8. WorksOn(t)
    BY <1>0, <2>1, <1>9 DEF WorksOn, Working, WinStopWrite, WinGoto, winEvents, winData, winProc
  <2>9. SignalsOn(t)
    BY <1>0, <2>1, <1>9 DEF SignalsOn, WillSignal, Asking, Working, WinStopWrite, WinGoto, winEvents, winData, winProc
  <2> QED
    BY <2>3, <2>4, <2>5, <2>6, <2>7, <2>8, <2>9 DEF GoesOn
<1>10. CASE WinChoose(t)
  <2>1. winPc[t] = "choose" /\ winPc'[t] \in {"signal read", "signal write"}
        /\ winPc' = [winPc EXCEPT ![t] = winPc'[t]]
    BY <1>0, <1>10 DEF WinChoose, WinGoto
  <2>2. /\ One(Asking, t) = 0 /\ One(Asking, t)' = 0
        /\ One(Counted, t) = 0 /\ One(Counted, t)' = 0
        /\ One(Active, t) = 0 /\ One(Active, t)' = 0
    BY <2>1 DEF One, Asking, Counted, Active
  <2>a. /\ waitingWriters' = waitingWriters
        /\ waitingReaders' = waitingReaders
        /\ activeReaders' = activeReaders
    BY <1>10 DEF WinChoose, winData
  <2>b. /\ signal' = signal /\ canRead' = canRead
        /\ canWrite' = TRUE
    BY <1>0, <1>10 DEF WinChoose, winEvents
  <2>3. MovesOn(t)
    BY <2>1, <1>10 DEF MovesOn, WinW, WinR, WinChoose, WinGoto, winEvents, winData, winProc
  <2>4. CountsOn(t)
    BY <1>0, <2>2, <2>a DEF CountsOn
  <2>5. LocksOn(t)
    BY <2>1, <1>10 DEF LocksOn, Holding, Counted, WinChoose, WinGoto, winEvents, winData, winProc
  <2>6. StoresOn(t)
    BY <1>0, <2>1, <1>10 DEF StoresOn, HasStored, WinW, WinChoose, WinGoto, winEvents, winData, winProc
  <2>7. EventsOn(t)
    BY <1>0, <2>1, <2>b DEF EventsOn
  <2>8. WorksOn(t)
    BY <1>0, <2>1, <1>10 DEF WorksOn, Working, WinChoose, WinGoto, winEvents, winData, winProc
  <2>9. SignalsOn(t)
    BY <1>0, <2>1, <1>10 DEF SignalsOn, WillSignal, Asking, Working, WinChoose, WinGoto, winEvents, winData, winProc
  <2> QED
    BY <2>3, <2>4, <2>5, <2>6, <2>7, <2>8, <2>9 DEF GoesOn
<1>11. CASE WinSignal(t)
  <2>1. winPc[t] \in {"signal read", "signal write"} /\ winPc'[t] \in {"enter write", "returned"}
        /\ winPc' = [winPc EXCEPT ![t] = winPc'[t]]
    BY <1>0, <1>11 DEF WinSignal, WinGoto
  <2>2. /\ One(Asking, t) = 0 /\ One(Asking, t)' = 0
        /\ One(Counted, t) = 0 /\ One(Counted, t)' = 0
        /\ One(Active, t) = 0 /\ One(Active, t)' = 0
    BY <2>1 DEF One, Asking, Counted, Active
  <2>a. /\ waitingWriters' = waitingWriters
        /\ waitingReaders' = waitingReaders
        /\ activeReaders' = activeReaders
    BY <1>11 DEF WinSignal, winData
  <2>b. /\ \/ signal' = "given" /\ canRead' = TRUE
           \/ signal' = signal /\ canRead' = canRead
        /\ canWrite' = TRUE
    BY <1>0, <1>11 DEF WinSignal, winEvents
  <2>3. MovesOn(t)
    BY <2>1, <1>11 DEF MovesOn, WinW, WinR, WinSignal, WinGoto, winEvents, winData, winProc
  <2>4. CountsOn(t)
    BY <1>0, <2>2, <2>a DEF CountsOn
  <2>5. LocksOn(t)
    BY <2>1, <1>11 DEF LocksOn, Holding, Counted, WinSignal, WinGoto, winEvents, winData, winProc
  <2>6. StoresOn(t)
    BY <1>0, <2>1, <1>11 DEF StoresOn, HasStored, WinW, WinSignal, WinGoto, winEvents, winData, winProc
  <2>7. EventsOn(t)
    BY <1>0, <2>1, <2>b DEF EventsOn
  <2>8. WorksOn(t)
    BY <1>0, <2>1, <1>11 DEF WorksOn, Working, WinSignal, WinGoto, winEvents, winData, winProc
  <2>9. SignalsOn(t)
    BY <1>0, <2>1, <1>11 DEF SignalsOn, WillSignal, Asking, Working, WinSignal, WinGoto, winEvents, winData, winProc
  <2> QED
    BY <2>3, <2>4, <2>5, <2>6, <2>7, <2>8, <2>9 DEF GoesOn
<1> QED
  BY <1>1, <1>2, <1>3, <1>4, <1>5, <1>6, <1>7, <1>8, <1>9, <1>10, <1>11 DEF WinWriteStep

LEMMA ReadStepIs ==
  ASSUME WinInv, NEW t \in WinThreads, WinReadStep(t)
  PROVE  GoesOn(t)
<1>0. /\ waitingWriters \in Int /\ waitingReaders \in Int /\ activeReaders \in Int
      /\ winPc = [winPc EXCEPT ![t] = winPc[t]] /\ winReg = [winReg EXCEPT ![t] = winReg[t]]
      /\ DOMAIN winPc = WinThreads /\ DOMAIN winReg = WinThreads
      /\ canWrite = TRUE /\ canRead \in BOOLEAN /\ workingWriter \in BOOLEAN
      /\ signal \in {"none", "given", "erased"}
  BY WinForm
<1>1. CASE WinLoop(t)
  <2>1. winPc[t] = "loop" /\ winPc'[t] \in {"lock", "returned"}
        /\ winPc' = [winPc EXCEPT ![t] = winPc'[t]]
    BY <1>0, <1>1 DEF WinLoop, WinGoto
  <2>2. /\ One(Asking, t) = 0 /\ One(Asking, t)' = 0
        /\ One(Counted, t) = 0 /\ One(Counted, t)' = 0
        /\ One(Active, t) = 0 /\ One(Active, t)' = 0
    BY <2>1 DEF One, Asking, Counted, Active
  <2>a. /\ waitingWriters' = waitingWriters
        /\ waitingReaders' = waitingReaders
        /\ activeReaders' = activeReaders
    BY <1>1 DEF WinLoop, winData
  <2>b. /\ signal' = signal /\ canRead' = canRead
        /\ canWrite' = TRUE
    BY <1>0, <1>1 DEF WinLoop, winEvents
  <2>3. MovesOn(t)
    BY <2>1, <1>1 DEF MovesOn, WinW, WinR, WinLoop, WinGoto, winEvents, winData, winProc
  <2>4. CountsOn(t)
    BY <1>0, <2>2, <2>a DEF CountsOn
  <2>5. LocksOn(t)
    BY <2>1, <1>1 DEF LocksOn, Holding, Counted, WinLoop, WinGoto, winEvents, winData, winProc
  <2>6. StoresOn(t)
    BY <1>0, <2>1, <1>1 DEF StoresOn, HasStored, WinW, WinLoop, WinGoto, winEvents, winData, winProc
  <2>7. EventsOn(t)
    BY <1>0, <2>1, <2>b DEF EventsOn
  <2>8. WorksOn(t)
    BY <1>0, <2>1, <1>1 DEF WorksOn, Working, WinLoop, WinGoto, winEvents, winData, winProc
  <2>9. SignalsOn(t)
    BY <1>0, <2>1, <1>1 DEF SignalsOn, WillSignal, Asking, Working, WinLoop, WinGoto, winEvents, winData, winProc
  <2> QED
    BY <2>3, <2>4, <2>5, <2>6, <2>7, <2>8, <2>9 DEF GoesOn
<1>2. CASE WinLock(t)
  <2>1. winPc[t] = "lock" /\ winPc'[t] = "enter read"
        /\ winPc' = [winPc EXCEPT ![t] = winPc'[t]]
    BY <1>0, <1>2 DEF WinLock, WinGoto
  <2>2. /\ One(Asking, t) = 0 /\ One(Asking, t)' = 0
        /\ One(Counted, t) = 0 /\ One(Counted, t)' = 0
        /\ One(Active, t) = 0 /\ One(Active, t)' = 0
    BY <2>1 DEF One, Asking, Counted, Active
  <2>a. /\ waitingWriters' = waitingWriters
        /\ waitingReaders' = waitingReaders
        /\ activeReaders' = activeReaders
    BY <1>2 DEF WinLock, winData
  <2>b. /\ signal' = signal /\ canRead' = canRead
        /\ canWrite' = TRUE
    BY <1>0, <1>2 DEF WinLock, winEvents
  <2>3. MovesOn(t)
    BY <2>1, <1>2 DEF MovesOn, WinW, WinR, WinLock, WinGoto, winEvents, winData, winProc
  <2>4. CountsOn(t)
    BY <1>0, <2>2, <2>a DEF CountsOn
  <2>5. LocksOn(t)
    BY <2>1, <1>2 DEF LocksOn, Holding, Counted, WinLock, WinGoto, winEvents, winData, winProc
  <2>6. StoresOn(t)
    BY <1>0, <2>1, <1>2 DEF StoresOn, HasStored, WinW, WinLock, WinGoto, winEvents, winData, winProc
  <2>7. EventsOn(t)
    BY <1>0, <2>1, <2>b DEF EventsOn
  <2>8. WorksOn(t)
    BY <1>0, <2>1, <1>2 DEF WorksOn, Working, WinLock, WinGoto, winEvents, winData, winProc
  <2>9. SignalsOn(t)
    BY <1>0, <2>1, <1>2 DEF SignalsOn, WillSignal, Asking, Working, WinLock, WinGoto, winEvents, winData, winProc
  <2> QED
    BY <2>3, <2>4, <2>5, <2>6, <2>7, <2>8, <2>9 DEF GoesOn
<1>3. CASE WinReadEnter(t)
  <2>1. winPc[t] = "enter read" /\ winPc'[t] = "test working"
        /\ winPc' = [winPc EXCEPT ![t] = winPc'[t]]
    BY <1>0, <1>3 DEF WinReadEnter, WinGoto
  <2>2. /\ One(Asking, t) = 0 /\ One(Asking, t)' = 0
        /\ One(Counted, t) = 0 /\ One(Counted, t)' = 1
        /\ One(Active, t) = 0 /\ One(Active, t)' = 0
    BY <2>1 DEF One, Asking, Counted, Active
  <2>a. /\ waitingWriters' = waitingWriters
        /\ waitingReaders' = waitingReaders + 1
        /\ activeReaders' = activeReaders
    BY <1>3 DEF WinReadEnter, winData
  <2>b. /\ signal' = signal /\ canRead' = canRead
        /\ canWrite' = TRUE
    BY <1>0, <1>3 DEF WinReadEnter, winEvents
  <2>3. MovesOn(t)
    BY <2>1, <1>3 DEF MovesOn, WinW, WinR, WinReadEnter, WinGoto, winEvents, winData, winProc
  <2>4. CountsOn(t)
    BY <1>0, <2>2, <2>a DEF CountsOn
  <2>5. LocksOn(t)
    BY <2>1, <1>3 DEF LocksOn, Holding, Counted, WinReadEnter, WinGoto, winEvents, winData, winProc
  <2>6. StoresOn(t)
    BY <1>0, <2>1, <1>3 DEF StoresOn, HasStored, WinW, WinReadEnter, WinGoto, winEvents, winData, winProc
  <2>7. EventsOn(t)
    BY <1>0, <2>1, <2>b DEF EventsOn
  <2>8. WorksOn(t)
    BY <1>0, <2>1, <1>3 DEF WorksOn, Working, WinReadEnter, WinGoto, winEvents, winData, winProc
  <2>9. SignalsOn(t)
    BY <1>0, <2>1, <1>3 DEF SignalsOn, WillSignal, Asking, Working, WinReadEnter, WinGoto, winEvents, winData, winProc
  <2> QED
    BY <2>3, <2>4, <2>5, <2>6, <2>7, <2>8, <2>9 DEF GoesOn
<1>4. CASE WinTestWorking(t)
  <2>1. winPc[t] = "test working" /\ winPc'[t] \in {"wait read", "test waiting"}
        /\ winPc' = [winPc EXCEPT ![t] = winPc'[t]]
    BY <1>0, <1>4 DEF WinTestWorking, WinGoto
  <2>2. /\ One(Asking, t) = 0 /\ One(Asking, t)' = 0
        /\ One(Counted, t) = 1 /\ One(Counted, t)' = 1
        /\ One(Active, t) = 0 /\ One(Active, t)' = 0
    BY <2>1 DEF One, Asking, Counted, Active
  <2>a. /\ waitingWriters' = waitingWriters
        /\ waitingReaders' = waitingReaders
        /\ activeReaders' = activeReaders
    BY <1>4 DEF WinTestWorking, winData
  <2>b. /\ signal' = signal /\ canRead' = canRead
        /\ canWrite' = TRUE
    BY <1>0, <1>4 DEF WinTestWorking, winEvents
  <2>3. MovesOn(t)
    BY <2>1, <1>4 DEF MovesOn, WinW, WinR, WinTestWorking, WinGoto, winEvents, winData, winProc
  <2>4. CountsOn(t)
    BY <1>0, <2>2, <2>a DEF CountsOn
  <2>5. LocksOn(t)
    BY <2>1, <1>4 DEF LocksOn, Holding, Counted, WinTestWorking, WinGoto, winEvents, winData, winProc
  <2>6. StoresOn(t)
    BY <1>0, <2>1, <1>4 DEF StoresOn, HasStored, WinW, WinTestWorking, WinGoto, winEvents, winData, winProc
  <2>7. EventsOn(t)
    BY <1>0, <2>1, <2>b DEF EventsOn
  <2>8. WorksOn(t)
    BY <1>0, <2>1, <1>4 DEF WorksOn, Working, WinTestWorking, WinGoto, winEvents, winData, winProc
  <2>9. SignalsOn(t)
    BY <1>0, <2>1, <1>4 DEF SignalsOn, WillSignal, Asking, Working, WinTestWorking, WinGoto, winEvents, winData, winProc
  <2> QED
    BY <2>3, <2>4, <2>5, <2>6, <2>7, <2>8, <2>9 DEF GoesOn
<1>5. CASE WinTestWaiting(t)
  <2>1. winPc[t] = "test waiting" /\ winPc'[t] \in {"wait read", "admitted"}
        /\ winPc' = [winPc EXCEPT ![t] = winPc'[t]]
    BY <1>0, <1>5 DEF WinTestWaiting, WinGoto
  <2>2. /\ One(Asking, t) = 0 /\ One(Asking, t)' = 0
        /\ One(Counted, t) = 1 /\ One(Counted, t)' = 1
        /\ One(Active, t) = 0 /\ One(Active, t)' = 0
    BY <2>1 DEF One, Asking, Counted, Active
  <2>a. /\ waitingWriters' = waitingWriters
        /\ waitingReaders' = waitingReaders
        /\ activeReaders' = activeReaders
    BY <1>5 DEF WinTestWaiting, winData
  <2>b. /\ signal' = signal /\ canRead' = canRead
        /\ canWrite' = TRUE
    BY <1>0, <1>5 DEF WinTestWaiting, winEvents
  <2>3. MovesOn(t)
    BY <2>1, <1>5 DEF MovesOn, WinW, WinR, WinTestWaiting, WinGoto, winEvents, winData, winProc
  <2>4. CountsOn(t)
    BY <1>0, <2>2, <2>a DEF CountsOn
  <2>5. LocksOn(t)
    BY <2>1, <1>5 DEF LocksOn, Holding, Counted, WinTestWaiting, WinGoto, winEvents, winData, winProc
  <2>6. StoresOn(t)
    BY <1>0, <2>1, <1>5 DEF StoresOn, HasStored, WinW, WinTestWaiting, WinGoto, winEvents, winData, winProc
  <2>7. EventsOn(t)
    BY <1>0, <2>1, <2>b DEF EventsOn
  <2>8. WorksOn(t)
    BY <1>0, <2>1, <1>5 DEF WorksOn, Working, WinTestWaiting, WinGoto, winEvents, winData, winProc
  <2>9. SignalsOn(t)
    BY <1>0, <2>1, <1>5 DEF SignalsOn, WillSignal, Asking, Working, WinTestWaiting, WinGoto, winEvents, winData, winProc
  <2> QED
    BY <2>3, <2>4, <2>5, <2>6, <2>7, <2>8, <2>9 DEF GoesOn
<1>6. CASE WinWaitRead(t)
  <2>1. winPc[t] = "wait read" /\ winPc'[t] = "admitted"
        /\ winPc' = [winPc EXCEPT ![t] = winPc'[t]]
    BY <1>0, <1>6 DEF WinWaitRead, WinGoto
  <2>2. /\ One(Asking, t) = 0 /\ One(Asking, t)' = 0
        /\ One(Counted, t) = 1 /\ One(Counted, t)' = 1
        /\ One(Active, t) = 0 /\ One(Active, t)' = 0
    BY <2>1 DEF One, Asking, Counted, Active
  <2>a. /\ waitingWriters' = waitingWriters
        /\ waitingReaders' = waitingReaders
        /\ activeReaders' = activeReaders
    BY <1>6 DEF WinWaitRead, winData
  <2>b. /\ signal' = "none" /\ canRead' = FALSE
        /\ canWrite' = TRUE
    BY <1>0, <1>6 DEF WinWaitRead, winEvents
  <2>3. MovesOn(t)
    BY <2>1, <1>6 DEF MovesOn, WinW, WinR, WinWaitRead, WinGoto, winEvents, winData, winProc
  <2>4. CountsOn(t)
    BY <1>0, <2>2, <2>a DEF CountsOn
  <2>5. LocksOn(t)
    BY <2>1, <1>6 DEF LocksOn, Holding, Counted, WinWaitRead, WinGoto, winEvents, winData, winProc
  <2>6. StoresOn(t)
    BY <1>0, <2>1, <1>6 DEF StoresOn, HasStored, WinW, WinWaitRead, WinGoto, winEvents, winData, winProc
  <2>7. EventsOn(t)
    BY <1>0, <2>1, <2>b DEF EventsOn
  <2>8. WorksOn(t)
    BY <1>0, <2>1, <1>6 DEF WorksOn, Working, WinWaitRead, WinGoto, winEvents, winData, winProc
  <2>9. SignalsOn(t)
    BY <1>0, <2>1, <1>6 DEF SignalsOn, WillSignal, Asking, Working, WinWaitRead, WinGoto, winEvents, winData, winProc
  <2> QED
    BY <2>3, <2>4, <2>5, <2>6, <2>7, <2>8, <2>9 DEF GoesOn
<1>7. CASE WinAdmitted(t)
  <2>1. winPc[t] = "admitted" /\ winPc'[t] = "activate"
        /\ winPc' = [winPc EXCEPT ![t] = winPc'[t]]
    BY <1>0, <1>7 DEF WinAdmitted, WinGoto
  <2>2. /\ One(Asking, t) = 0 /\ One(Asking, t)' = 0
        /\ One(Counted, t) = 1 /\ One(Counted, t)' = 0
        /\ One(Active, t) = 0 /\ One(Active, t)' = 0
    BY <2>1 DEF One, Asking, Counted, Active
  <2>a. /\ waitingWriters' = waitingWriters
        /\ waitingReaders' = waitingReaders - 1
        /\ activeReaders' = activeReaders
    BY <1>7 DEF WinAdmitted, winData
  <2>b. /\ signal' = signal /\ canRead' = canRead
        /\ canWrite' = TRUE
    BY <1>0, <1>7 DEF WinAdmitted, winEvents
  <2>3. MovesOn(t)
    BY <2>1, <1>7 DEF MovesOn, WinW, WinR, WinAdmitted, WinGoto, winEvents, winData, winProc
  <2>4. CountsOn(t)
    BY <1>0, <2>2, <2>a DEF CountsOn
  <2>5. LocksOn(t)
    BY <2>1, <1>7 DEF LocksOn, Holding, Counted, WinAdmitted, WinGoto, winEvents, winData, winProc
  <2>6. StoresOn(t)
    BY <1>0, <2>1, <1>7 DEF StoresOn, HasStored, WinW, WinAdmitted, WinGoto, winEvents, winData, winProc
  <2>7. EventsOn(t)
    BY <1>0, <2>1, <2>b DEF EventsOn
  <2>8. WorksOn(t)
    BY <1>0, <2>1, <1>7 DEF WorksOn, Working, WinAdmitted, WinGoto, winEvents, winData, winProc
  <2>9. SignalsOn(t)
    BY <1>0, <2>1, <1>7 DEF SignalsOn, WillSignal, Asking, Working, WinAdmitted, WinGoto, winEvents, winData, winProc
  <2> QED
    BY <2>3, <2>4, <2>5, <2>6, <2>7, <2>8, <2>9 DEF GoesOn
<1>8. CASE WinActivate(t)
  <2>1. winPc[t] = "activate" /\ winPc'[t] = "chain"
        /\ winPc' = [winPc EXCEPT ![t] = winPc'[t]]
    BY <1>0, <1>8 DEF WinActivate, WinGoto
  <2>2. /\ One(Asking, t) = 0 /\ One(Asking, t)' = 0
        /\ One(Counted, t) = 0 /\ One(Counted, t)' = 0
        /\ One(Active, t) = 0 /\ One(Active, t)' = 1
    BY <2>1 DEF One, Asking, Counted, Active
  <2>a. /\ waitingWriters' = waitingWriters
        /\ waitingReaders' = waitingReaders
        /\ activeReaders' = activeReaders + 1
    BY <1>8 DEF WinActivate, winData
  <2>b. /\ signal' = signal /\ canRead' = canRead
        /\ canWrite' = TRUE
    BY <1>0, <1>8 DEF WinActivate, winEvents
  <2>3. MovesOn(t)
    BY <2>1, <1>8 DEF MovesOn, WinW, WinR, WinActivate, WinGoto, winEvents, winData, winProc
  <2>4. CountsOn(t)
    BY <1>0, <2>2, <2>a DEF CountsOn
  <2>5. LocksOn(t)
    BY <2>1, <1>8 DEF LocksOn, Holding, Counted, WinActivate, WinGoto, winEvents, winData, winProc
  <2>6. StoresOn(t)
    BY <1>0, <2>1, <1>8 DEF StoresOn, HasStored, WinW, WinActivate, WinGoto, winEvents, winData, winProc
  <2>7. EventsOn(t)
    BY <1>0, <2>1, <2>b DEF EventsOn
  <2>8. WorksOn(t)
    BY <1>0, <2>1, <1>8 DEF WorksOn, Working, WinActivate, WinGoto, winEvents, winData, winProc
  <2>9. SignalsOn(t)
    BY <1>0, <2>1, <1>8 DEF SignalsOn, WillSignal, Asking, Working, WinActivate, WinGoto, winEvents, winData, winProc
  <2> QED
    BY <2>3, <2>4, <2>5, <2>6, <2>7, <2>8, <2>9 DEF GoesOn
<1>9. CASE WinChain(t)
  <2>1. winPc[t] = "chain" /\ winPc'[t] = "unlock"
        /\ winPc' = [winPc EXCEPT ![t] = winPc'[t]]
    BY <1>0, <1>9 DEF WinChain, WinGoto
  <2>2. /\ One(Asking, t) = 0 /\ One(Asking, t)' = 0
        /\ One(Counted, t) = 0 /\ One(Counted, t)' = 0
        /\ One(Active, t) = 1 /\ One(Active, t)' = 1
    BY <2>1 DEF One, Asking, Counted, Active
  <2>a. /\ waitingWriters' = waitingWriters
        /\ waitingReaders' = waitingReaders
        /\ activeReaders' = activeReaders
    BY <1>9 DEF WinChain, winData
  <2>b. /\ signal' = signal /\ canRead' = TRUE
        /\ canWrite' = TRUE
    BY <1>0, <1>9 DEF WinChain, winEvents
  <2>3. MovesOn(t)
    BY <2>1, <1>9 DEF MovesOn, WinW, WinR, WinChain, WinGoto, winEvents, winData, winProc
  <2>4. CountsOn(t)
    BY <1>0, <2>2, <2>a DEF CountsOn
  <2>5. LocksOn(t)
    BY <2>1, <1>9 DEF LocksOn, Holding, Counted, WinChain, WinGoto, winEvents, winData, winProc
  <2>6. StoresOn(t)
    BY <1>0, <2>1, <1>9 DEF StoresOn, HasStored, WinW, WinChain, WinGoto, winEvents, winData, winProc
  <2>7. EventsOn(t)
    BY <1>0, <2>1, <2>b DEF EventsOn
  <2>8. WorksOn(t)
    BY <1>0, <2>1, <1>9 DEF WorksOn, Working, WinChain, WinGoto, winEvents, winData, winProc
  <2>9. SignalsOn(t)
    BY <1>0, <2>1, <1>9 DEF SignalsOn, WillSignal, Asking, Working, WinChain, WinGoto, winEvents, winData, winProc
  <2> QED
    BY <2>3, <2>4, <2>5, <2>6, <2>7, <2>8, <2>9 DEF GoesOn
<1>10. CASE WinUnlock(t)
  <2>1. winPc[t] = "unlock" /\ winPc'[t] = "leave"
        /\ winPc' = [winPc EXCEPT ![t] = winPc'[t]]
    BY <1>0, <1>10 DEF WinUnlock, WinGoto
  <2>2. /\ One(Asking, t) = 0 /\ One(Asking, t)' = 0
        /\ One(Counted, t) = 0 /\ One(Counted, t)' = 0
        /\ One(Active, t) = 1 /\ One(Active, t)' = 1
    BY <2>1 DEF One, Asking, Counted, Active
  <2>a. /\ waitingWriters' = waitingWriters
        /\ waitingReaders' = waitingReaders
        /\ activeReaders' = activeReaders
    BY <1>10 DEF WinUnlock, winData
  <2>b. /\ signal' = signal /\ canRead' = canRead
        /\ canWrite' = TRUE
    BY <1>0, <1>10 DEF WinUnlock, winEvents
  <2>3. MovesOn(t)
    BY <2>1, <1>10 DEF MovesOn, WinW, WinR, WinUnlock, WinGoto, winEvents, winData, winProc
  <2>4. CountsOn(t)
    BY <1>0, <2>2, <2>a DEF CountsOn
  <2>5. LocksOn(t)
    BY <2>1, <1>10 DEF LocksOn, Holding, Counted, WinUnlock, WinGoto, winEvents, winData, winProc
  <2>6. StoresOn(t)
    BY <1>0, <2>1, <1>10 DEF StoresOn, HasStored, WinW, WinUnlock, WinGoto, winEvents, winData, winProc
  <2>7. EventsOn(t)
    BY <1>0, <2>1, <2>b DEF EventsOn
  <2>8. WorksOn(t)
    BY <1>0, <2>1, <1>10 DEF WorksOn, Working, WinUnlock, WinGoto, winEvents, winData, winProc
  <2>9. SignalsOn(t)
    BY <1>0, <2>1, <1>10 DEF SignalsOn, WillSignal, Asking, Working, WinUnlock, WinGoto, winEvents, winData, winProc
  <2> QED
    BY <2>3, <2>4, <2>5, <2>6, <2>7, <2>8, <2>9 DEF GoesOn
<1>11. CASE WinLeave(t)
  <2>1. winPc[t] = "leave" /\ winPc'[t] = "test last"
        /\ winPc' = [winPc EXCEPT ![t] = winPc'[t]]
    BY <1>0, <1>11 DEF WinLeave, WinGoto
  <2>2. /\ One(Asking, t) = 0 /\ One(Asking, t)' = 0
        /\ One(Counted, t) = 0 /\ One(Counted, t)' = 0
        /\ One(Active, t) = 1 /\ One(Active, t)' = 0
    BY <2>1 DEF One, Asking, Counted, Active
  <2>a. /\ waitingWriters' = waitingWriters
        /\ waitingReaders' = waitingReaders
        /\ activeReaders' = activeReaders - 1
    BY <1>11 DEF WinLeave, winData
  <2>b. /\ signal' = signal /\ canRead' = canRead
        /\ canWrite' = TRUE
    BY <1>0, <1>11 DEF WinLeave, winEvents
  <2>3. MovesOn(t)
    BY <2>1, <1>11 DEF MovesOn, WinW, WinR, WinLeave, WinGoto, winEvents, winData, winProc
  <2>4. CountsOn(t)
    BY <1>0, <2>2, <2>a DEF CountsOn
  <2>5. LocksOn(t)
    BY <2>1, <1>11 DEF LocksOn, Holding, Counted, WinLeave, WinGoto, winEvents, winData, winProc
  <2>6. StoresOn(t)
    BY <1>0, <2>1, <1>11 DEF StoresOn, HasStored, WinW, WinLeave, WinGoto, winEvents, winData, winProc
  <2>7. EventsOn(t)
    BY <1>0, <2>1, <2>b DEF EventsOn
  <2>8. WorksOn(t)
    BY <1>0, <2>1, <1>11 DEF WorksOn, Working, WinLeave, WinGoto, winEvents, winData, winProc
  <2>9. SignalsOn(t)
    BY <1>0, <2>1, <1>11 DEF SignalsOn, WillSignal, Asking, Working, WinLeave, WinGoto, winEvents, winData, winProc
  <2> QED
    BY <2>3, <2>4, <2>5, <2>6, <2>7, <2>8, <2>9 DEF GoesOn
<1>12. CASE WinTestLast(t)
  <2>1. winPc[t] = "test last" /\ winPc'[t] \in {"let write", "loop"}
        /\ winPc' = [winPc EXCEPT ![t] = winPc'[t]]
    BY <1>0, <1>12 DEF WinTestLast, WinGoto
  <2>2. /\ One(Asking, t) = 0 /\ One(Asking, t)' = 0
        /\ One(Counted, t) = 0 /\ One(Counted, t)' = 0
        /\ One(Active, t) = 0 /\ One(Active, t)' = 0
    BY <2>1 DEF One, Asking, Counted, Active
  <2>a. /\ waitingWriters' = waitingWriters
        /\ waitingReaders' = waitingReaders
        /\ activeReaders' = activeReaders
    BY <1>12 DEF WinTestLast, winData
  <2>b. /\ signal' = signal /\ canRead' = canRead
        /\ canWrite' = TRUE
    BY <1>0, <1>12 DEF WinTestLast, winEvents
  <2>3. MovesOn(t)
    BY <2>1, <1>12 DEF MovesOn, WinW, WinR, WinTestLast, WinGoto, winEvents, winData, winProc
  <2>4. CountsOn(t)
    BY <1>0, <2>2, <2>a DEF CountsOn
  <2>5. LocksOn(t)
    BY <2>1, <1>12 DEF LocksOn, Holding, Counted, WinTestLast, WinGoto, winEvents, winData, winProc
  <2>6. StoresOn(t)
    BY <1>0, <2>1, <1>12 DEF StoresOn, HasStored, WinW, WinTestLast, WinGoto, winEvents, winData, winProc
  <2>7. EventsOn(t)
    BY <1>0, <2>1, <2>b DEF EventsOn
  <2>8. WorksOn(t)
    BY <1>0, <2>1, <1>12 DEF WorksOn, Working, WinTestLast, WinGoto, winEvents, winData, winProc
  <2>9. SignalsOn(t)
    BY <1>0, <2>1, <1>12 DEF SignalsOn, WillSignal, Asking, Working, WinTestLast, WinGoto, winEvents, winData, winProc
  <2> QED
    BY <2>3, <2>4, <2>5, <2>6, <2>7, <2>8, <2>9 DEF GoesOn
<1>13. CASE WinLetWrite(t)
  <2>1. winPc[t] = "let write" /\ winPc'[t] = "reset"
        /\ winPc' = [winPc EXCEPT ![t] = winPc'[t]]
    BY <1>0, <1>13 DEF WinLetWrite, WinGoto
  <2>2. /\ One(Asking, t) = 0 /\ One(Asking, t)' = 0
        /\ One(Counted, t) = 0 /\ One(Counted, t)' = 0
        /\ One(Active, t) = 0 /\ One(Active, t)' = 0
    BY <2>1 DEF One, Asking, Counted, Active
  <2>a. /\ waitingWriters' = waitingWriters
        /\ waitingReaders' = waitingReaders
        /\ activeReaders' = activeReaders
    BY <1>13 DEF WinLetWrite, winData
  <2>b. /\ signal' = signal /\ canRead' = canRead
        /\ canWrite' = TRUE
    BY <1>0, <1>13 DEF WinLetWrite, winEvents
  <2>3. MovesOn(t)
    BY <2>1, <1>13 DEF MovesOn, WinW, WinR, WinLetWrite, WinGoto, winEvents, winData, winProc
  <2>4. CountsOn(t)
    BY <1>0, <2>2, <2>a DEF CountsOn
  <2>5. LocksOn(t)
    BY <2>1, <1>13 DEF LocksOn, Holding, Counted, WinLetWrite, WinGoto, winEvents, winData, winProc
  <2>6. StoresOn(t)
    BY <1>0, <2>1, <1>13 DEF StoresOn, HasStored, WinW, WinLetWrite, WinGoto, winEvents, winData, winProc
  <2>7. EventsOn(t)
    BY <1>0, <2>1, <2>b DEF EventsOn
  <2>8. WorksOn(t)
    BY <1>0, <2>1, <1>13 DEF WorksOn, Working, WinLetWrite, WinGoto, winEvents, winData, winProc
  <2>9. SignalsOn(t)
    BY <1>0, <2>1, <1>13 DEF SignalsOn, WillSignal, Asking, Working, WinLetWrite, WinGoto, winEvents, winData, winProc
  <2> QED
    BY <2>3, <2>4, <2>5, <2>6, <2>7, <2>8, <2>9 DEF GoesOn
<1>14. CASE WinReset(t)
  <2>1. winPc[t] = "reset" /\ winPc'[t] = "loop"
        /\ winPc' = [winPc EXCEPT ![t] = winPc'[t]]
    BY <1>0, <1>14 DEF WinReset, WinGoto
  <2>2. /\ One(Asking, t) = 0 /\ One(Asking, t)' = 0
        /\ One(Counted, t) = 0 /\ One(Counted, t)' = 0
        /\ One(Active, t) = 0 /\ One(Active, t)' = 0
    BY <2>1 DEF One, Asking, Counted, Active
  <2>a. /\ waitingWriters' = waitingWriters
        /\ waitingReaders' = waitingReaders
        /\ activeReaders' = activeReaders
    BY <1>14 DEF WinReset, winData
  <2>b. /\ signal' = (IF signal = "given" THEN "erased" ELSE signal) /\ canRead' = FALSE
        /\ canWrite' = TRUE
    BY <1>0, <1>14 DEF WinReset, winEvents
  <2>3. MovesOn(t)
    BY <2>1, <1>14 DEF MovesOn, WinW, WinR, WinReset, WinGoto, winEvents, winData, winProc
  <2>4. CountsOn(t)
    BY <1>0, <2>2, <2>a DEF CountsOn
  <2>5. LocksOn(t)
    BY <2>1, <1>14 DEF LocksOn, Holding, Counted, WinReset, WinGoto, winEvents, winData, winProc
  <2>6. StoresOn(t)
    BY <1>0, <2>1, <1>14 DEF StoresOn, HasStored, WinW, WinReset, WinGoto, winEvents, winData, winProc
  <2>7. EventsOn(t)
    BY <1>0, <2>1, <2>b DEF EventsOn
  <2>8. WorksOn(t)
    BY <1>0, <2>1, <1>14 DEF WorksOn, Working, WinReset, WinGoto, winEvents, winData, winProc
  <2>9. SignalsOn(t)
    BY <1>0, <2>1, <1>14 DEF SignalsOn, WillSignal, Asking, Working, WinReset, WinGoto, winEvents, winData, winProc
  <2> QED
    BY <2>3, <2>4, <2>5, <2>6, <2>7, <2>8, <2>9 DEF GoesOn
<1> QED
  BY <1>1, <1>2, <1>3, <1>4, <1>5, <1>6, <1>7, <1>8, <1>9, <1>10, <1>11, <1>12, <1>13, <1>14 DEF WinReadStep

\* A thread that moves is counted where it goes and no longer where it was.
LEMMA WinAtMoves ==
  ASSUME WinInv, NEW t \in WinThreads, MovesOn(t), NEW P
  PROVE  Cardinality(WinAt(P)') = Cardinality(WinAt(P)) + One(P, t)' - One(P, t)
<1>1. /\ winPc' = [winPc EXCEPT ![t] = winPc'[t]] /\ DOMAIN winPc = WinThreads
      /\ \A s \in WinThreads \ {t} : winPc'[s] = winPc[s]
  BY DEF MovesOn, WinInv, WinForms
<1>2. IsFiniteSet(WinAt(P)) /\ Cardinality(WinAt(P)) \in Nat
  BY WinSets
<1>3. CASE winPc[t] \in P /\ winPc'[t] \in P
  <2>1. WinAt(P)' = WinAt(P)
    BY <1>1, <1>3 DEF WinAt
  <2>2. One(P, t) = 1 /\ One(P, t)' = 1
    BY <1>3 DEF One
  <2> QED
    BY <1>2, <2>1, <2>2
<1>4. CASE winPc[t] \notin P /\ winPc'[t] \notin P
  <2>1. WinAt(P)' = WinAt(P)
    BY <1>1, <1>4 DEF WinAt
  <2>2. One(P, t) = 0 /\ One(P, t)' = 0
    BY <1>4 DEF One
  <2> QED
    BY <1>2, <2>1, <2>2
<1>5. CASE winPc[t] \notin P /\ winPc'[t] \in P
  <2>1. WinAt(P)' = WinAt(P) \union {t} /\ t \notin WinAt(P)
    BY <1>1, <1>5 DEF WinAt
  <2>2. One(P, t) = 0 /\ One(P, t)' = 1
    BY <1>5 DEF One
  <2>3. Cardinality(WinAt(P) \union {t}) = Cardinality(WinAt(P)) + 1
    BY <1>2, <2>1, FS_AddElement
  <2> QED
    BY <1>2, <2>1, <2>2, <2>3
<1>6. CASE winPc[t] \in P /\ winPc'[t] \notin P
  <2>1. WinAt(P)' = WinAt(P) \ {t} /\ t \in WinAt(P)
    BY <1>1, <1>6 DEF WinAt
  <2>2. One(P, t) = 1 /\ One(P, t)' = 0
    BY <1>6 DEF One
  <2>3. Cardinality(WinAt(P) \ {t}) = Cardinality(WinAt(P)) - 1
    BY <1>2, <2>1, FS_RemoveElement
  <2> QED
    BY <1>2, <2>1, <2>2, <2>3
<1> QED
  BY <1>3, <1>4, <1>5, <1>6

LEMMA StoresAre ==
  /\ IsFiniteSet(Stores) /\ Cardinality(Stores) \in Nat
  /\ Cardinality(Stores) <= W_CNT * ITERS
<1>1. IsFiniteSet(1 .. ITERS) /\ Cardinality(1 .. ITERS) = ITERS
  <2>1. 1 \in Int /\ ITERS \in Int
    BY WinNumbers
  <2>2. IsFiniteSet(1 .. ITERS) /\ Cardinality(1 .. ITERS) = IF 1 > ITERS THEN 0 ELSE ITERS - 1 + 1
    BY <2>1, FS_Interval
  <2> QED
    BY <2>2, WinNumbers
<1>2. IsFiniteSet(WinWriters \X (1 .. ITERS))
      /\ Cardinality(WinWriters \X (1 .. ITERS)) = Cardinality(WinWriters) * Cardinality(1 .. ITERS)
  BY <1>1, WinSets, FS_Product
<1>3. Stores \in SUBSET (WinWriters \X (1 .. ITERS))
  BY DEF Stores
<1>4. IsFiniteSet(Stores) /\ Cardinality(Stores) <= Cardinality(WinWriters \X (1 .. ITERS))
  BY <1>2, <1>3, FS_Subset
<1>5. Cardinality(WinWriters \X (1 .. ITERS)) = W_CNT * ITERS
  BY <1>1, <1>2, WinSets
<1> QED
  BY <1>4, <1>5, FS_CardinalityType

LEMMA WinInitInv == WinInit => WinInv
<1> SUFFICES ASSUME WinInit PROVE WinInv
  OBVIOUS
<1>1. \A t \in WinThreads : winPc[t] = "unborn" /\ winReg[t] = 0 /\ round[t] = 0
  BY DEF WinInit
<1>2. WinForms
  <2>1. /\ winReg \in [WinThreads -> Nat] /\ round \in [WinThreads -> 0 .. ITERS]
        /\ winPc \in [WinThreads -> {"unborn", "returned"} \union WinW \union WinR]
    BY WinNumbers DEF WinInit
  <2>2. created \in 0 .. W_CNT + R_CNT
    BY WinNumbers DEF WinInit
  <2> QED
    BY <2>1, <2>2 DEF WinInit, WinForms
<1>3. WinPlaces
  BY <1>1 DEF WinPlaces, WinW
<1>4. /\ WinAt(Holding) = {} /\ WinAt(Asking) = {} /\ WinAt(Counted) = {} /\ WinAt(Active) = {}
      /\ WinAt({"wait read"}) = {}
  BY <1>1 DEF WinAt, Holding, Asking, Counted, Active
<1>5. MutexHeld
  BY <1>4 DEF MutexHeld, WinInit
<1>6. WinCounts
  BY <1>4, FS_EmptySet DEF WinCounts, WinInit
<1>7. ValueStored
  <2>1. value = 0
    BY DEF WinInit
  <2> QED
    BY <1>1, <2>1, StoresAre DEF ValueStored
<1>8. GivenIsThere /\ OneWorks
  BY DEF GivenIsThere, OneWorks, WinInit
<1>9. WillBeWoken
  BY <1>4 DEF WillBeWoken
<1> QED
  BY <1>2, <1>3, <1>5, <1>6, <1>7, <1>8, <1>9 DEF WinInv

LEMMA WinOthers ==
  ASSUME WinInv, NEW t \in WinThreads, GoesOn(t)
  PROVE  /\ \A s \in WinThreads \ {t} : winPc'[s] = winPc[s] /\ winReg'[s] = winReg[s] /\ round'[s] = round[s]
         /\ DOMAIN winPc' = WinThreads
         /\ t \in WinWriters <=> winPc[t] \in WinW
         /\ t \in WinWriters => winPc'[t] \in WinW \union {"returned"}
         /\ t \notin WinWriters => winPc'[t] \in WinR \union {"returned"}
         /\ round'[t] \in {round[t], round[t] + 1}
<1>1. /\ winPc' = [winPc EXCEPT ![t] = winPc'[t]] /\ winReg' = [winReg EXCEPT ![t] = winReg'[t]]
      /\ round' = [round EXCEPT ![t] = round[t] + 1] \/ round' = round
  BY DEF GoesOn, MovesOn, StoresOn
<1>2. /\ DOMAIN winPc = WinThreads /\ DOMAIN winReg = WinThreads /\ DOMAIN round = WinThreads
  BY DEF WinInv, WinForms
<1>3. /\ \A s \in WinThreads \ {t} : winPc'[s] = winPc[s] /\ winReg'[s] = winReg[s] /\ round'[s] = round[s]
      /\ DOMAIN winPc' = WinThreads
      /\ round'[t] \in {round[t], round[t] + 1}
  BY <1>1, <1>2
<1>4. \/ winPc[t] \in WinW /\ winPc'[t] \in WinW \union {"returned"}
      \/ winPc[t] \in WinR /\ winPc'[t] \in WinR \union {"returned"}
  BY DEF GoesOn, MovesOn
<1>5. winPc[t] \in {"unborn", "returned"} \union IF t \in WinWriters THEN WinW ELSE WinR
  BY DEF WinInv, WinPlaces
<1>6. \A p : ~(p \in WinW /\ p \in WinR)
  BY DEF WinW, WinR
<1>7. \A p \in {"unborn", "returned"} : p \notin WinW /\ p \notin WinR
  BY DEF WinW, WinR
<1> QED
  BY <1>3, <1>4, <1>5, <1>6, <1>7

LEMMA FormsKept ==
  ASSUME WinInv, NEW t \in WinThreads, GoesOn(t)
  PROVE  WinForms' /\ WinPlaces'
<1>1. /\ winPc \in [WinThreads -> {"unborn", "returned"} \union WinW \union WinR]
      /\ winReg \in [WinThreads -> Nat] /\ round \in [WinThreads -> 0 .. ITERS]
      /\ winMain \in {"objects", "threads", "join readers", "closed", "exited"}
      /\ created \in 0 .. W_CNT + R_CNT
  BY DEF WinInv, WinForms
<1>2. /\ winPc' = [winPc EXCEPT ![t] = winPc'[t]] /\ winReg' = [winReg EXCEPT ![t] = winReg'[t]]
      /\ winMain' = winMain /\ created' = created
      /\ winReg'[t] \in {winReg[t], value, 0}
  BY DEF GoesOn, MovesOn, StoresOn
<1>3. \A s \in WinThreads :
        /\ winPc[s] \in {"unborn", "returned"} \union IF s \in WinWriters THEN WinW ELSE WinR
        /\ s >= created => winPc[s] = "unborn"
        /\ winPc[s] = "unborn" => round[s] = 0
        /\ winPc[s] \in WinW => round[s] < ITERS
  BY DEF WinInv, WinPlaces
<1>4. \/ winPc[t] \in {"signal read", "signal write"}
         /\ round' = [round EXCEPT ![t] = round[t] + 1]
         /\ winPc'[t] = IF round[t] + 1 < ITERS THEN "enter write" ELSE "returned"
      \/ round' = round /\ (winPc'[t] \in WinW => winPc[t] \in WinW)
  <2>1. \A p : ~(p \in WinW /\ p \in WinR \union {"returned"})
    BY DEF WinW, WinR
  <2>2. winPc'[t] \in WinW => winPc[t] \in WinW
    BY <2>1 DEF GoesOn, MovesOn
  <2> QED
    BY <2>2 DEF GoesOn, StoresOn
<1>5. winPc[t] \in {"signal read", "signal write"} => winPc[t] \in WinW
  BY DEF WinW
<1>6. round' \in [WinThreads -> 0 .. ITERS]
  <2>1. CASE round' = [round EXCEPT ![t] = round[t] + 1] /\ winPc[t] \in WinW
    <3>1. round[t] \in 0 .. ITERS /\ round[t] < ITERS
      BY <1>1, <1>3, <2>1
    <3>2. round[t] + 1 \in 0 .. ITERS
      BY <3>1, WinNumbers
    <3> QED
      BY <1>1, <2>1, <3>2
  <2> QED
    BY <1>1, <1>4, <1>5, <2>1
<1>7. winReg' \in [WinThreads -> Nat]
  <2>0. value \in Nat /\ winReg[t] \in Nat
    BY <1>1 DEF WinInv, ValueStored
  <2>1. winReg'[t] \in Nat
    BY <1>2, <2>0
  <2> QED
    BY <1>1, <1>2, <2>1
<1>8. winPc'[t] \in WinW \union WinR \union {"returned"}
  BY DEF GoesOn, MovesOn
<1>9. WinForms'
  <2>1. winPc' \in [WinThreads -> {"unborn", "returned"} \union WinW \union WinR]
    BY <1>1, <1>2, <1>8
  <2>2. canRead' \in BOOLEAN /\ canWrite' = TRUE /\ workingWriter' \in BOOLEAN
        /\ signal' \in {"none", "given", "erased"}
    BY DEF GoesOn, EventsOn, WorksOn
  <2> QED
    BY <1>1, <1>2, <1>6, <1>7, <2>1, <2>2 DEF WinForms
<1>10. ASSUME NEW s \in WinThreads
       PROVE  /\ winPc'[s] \in {"unborn", "returned"} \union IF s \in WinWriters THEN WinW ELSE WinR
              /\ s >= created' => winPc'[s] = "unborn"
              /\ winPc'[s] = "unborn" => round'[s] = 0
              /\ winPc'[s] \in WinW => round'[s] < ITERS
  <2>1. CASE s # t
    BY <1>2, <1>3, <2>1, WinOthers
  <2>2. CASE s = t
    <3>1. winPc'[t] \in {"unborn", "returned"} \union IF t \in WinWriters THEN WinW ELSE WinR
      BY WinOthers
    <3>2. winPc[t] # "unborn" /\ winPc'[t] # "unborn"
      BY DEF GoesOn, MovesOn, WinW, WinR
    <3>3. winPc'[t] \in WinW => round'[t] < ITERS
      <4>1. CASE round' = round /\ (winPc'[t] \in WinW => winPc[t] \in WinW)
        BY <4>1, <1>3
      <4>2. CASE /\ round' = [round EXCEPT ![t] = round[t] + 1]
                 /\ winPc'[t] = IF round[t] + 1 < ITERS THEN "enter write" ELSE "returned"
        <5>1. round'[t] = round[t] + 1 /\ "returned" \notin WinW
          BY <4>2, <1>1 DEF WinW
        <5> QED
          BY <4>2, <5>1
      <4> QED
        BY <1>4, <4>1, <4>2
    <3> QED
      BY <2>2, <1>2, <1>3, <3>1, <3>2, <3>3
  <2> QED
    BY <2>1, <2>2
<1> QED
  BY <1>9, <1>10 DEF WinPlaces

LEMMA MutexKept ==
  ASSUME WinInv, NEW t \in WinThreads, GoesOn(t)
  PROVE  MutexHeld'
<1>1. winMutex = WinAt(Holding) /\ \A s, u \in winMutex : s = u
  BY DEF WinInv, MutexHeld
<1>2. \A s \in WinThreads \ {t} : winPc'[s] = winPc[s]
  BY WinOthers
<1>3. CASE winPc[t] = "lock"
  <2>1. winPc'[t] = "enter read" /\ winMutex = {} /\ winMutex' = {t}
    BY <1>3 DEF GoesOn, LocksOn
  <2>2. WinAt(Holding)' = {t}
    BY <1>1, <1>2, <2>1 DEF WinAt, Holding
  <2> QED
    BY <2>1, <2>2 DEF MutexHeld
<1>4. CASE winPc[t] = "unlock"
  <2>1. winPc'[t] = "leave" /\ winMutex' = {}
    BY <1>4 DEF GoesOn, LocksOn
  <2>2. t \in WinAt(Holding)
    BY <1>4 DEF WinAt, Holding
  <2>3. WinAt(Holding)' = {}
    BY <1>1, <1>2, <2>1, <2>2 DEF WinAt, Holding, Counted
  <2> QED
    BY <2>1, <2>3 DEF MutexHeld
<1>5. CASE winPc[t] \notin {"lock", "unlock"}
  <2>1. winMutex' = winMutex /\ (winPc[t] \in Holding <=> winPc'[t] \in Holding)
    BY <1>5 DEF GoesOn, LocksOn
  <2>2. WinAt(Holding)' = WinAt(Holding)
    BY <1>2, <2>1 DEF WinAt
  <2> QED
    BY <1>1, <2>1, <2>2 DEF MutexHeld
<1> QED
  BY <1>3, <1>4, <1>5

LEMMA CountsKept ==
  ASSUME WinInv, NEW t \in WinThreads, GoesOn(t)
  PROVE  WinCounts'
<1>1. MovesOn(t)
  BY DEF GoesOn
<1>2. /\ Cardinality(WinAt(Asking)') = Cardinality(WinAt(Asking)) + One(Asking, t)' - One(Asking, t)
      /\ Cardinality(WinAt(Counted)') = Cardinality(WinAt(Counted)) + One(Counted, t)' - One(Counted, t)
      /\ Cardinality(WinAt(Active)') = Cardinality(WinAt(Active)) + One(Active, t)' - One(Active, t)
  BY <1>1, WinAtMoves
<1>3. /\ waitingWriters' = waitingWriters + One(Asking, t)' - One(Asking, t)
      /\ waitingReaders' = waitingReaders + One(Counted, t)' - One(Counted, t)
      /\ activeReaders' = activeReaders + One(Active, t)' - One(Active, t)
  BY DEF GoesOn, CountsOn
<1>4. /\ waitingWriters = Cardinality(WinAt(Asking))
      /\ waitingReaders = Cardinality(WinAt(Counted))
      /\ activeReaders  = Cardinality(WinAt(Active))
  BY DEF WinInv, WinCounts
<1>5. /\ waitingWriters' = Cardinality(WinAt(Asking)')
      /\ waitingReaders' = Cardinality(WinAt(Counted)')
      /\ activeReaders' = Cardinality(WinAt(Active)')
  BY <1>2, <1>3, <1>4
<1> QED
  BY <1>5 DEF WinCounts

LEMMA StoresKept ==
  ASSUME WinInv, NEW t \in WinThreads, GoesOn(t), WinForms'
  PROVE  ValueStored'
<1>1. /\ winReg \in [WinThreads -> Nat] /\ round \in [WinThreads -> 0 .. ITERS]
      /\ DOMAIN winReg = WinThreads
  BY DEF WinInv, WinForms
<1>2. value \in Nat /\ value <= Cardinality(Stores)
  BY DEF WinInv, ValueStored
<1>3. \A s \in WinThreads : winReg[s] \in Nat /\ winReg[s] <= Cardinality(Stores)
  BY <1>1 DEF WinInv, ValueStored
<1>4. \A s \in WinThreads : round[s] \in Nat
  BY <1>1
<1>5. StoresOn(t)
  BY DEF GoesOn
<1>6. winReg' = [winReg EXCEPT ![t] = winReg'[t]] /\ winReg'[t] \in {winReg[t], value, 0}
  BY <1>5 DEF StoresOn
<1>7. \A s \in WinThreads : Rounds(s) <= Rounds(s)'
  <2>1. ASSUME NEW s \in WinThreads, s # t
        PROVE  Rounds(s) <= Rounds(s)'
    BY <1>4, <2>1, WinOthers DEF Rounds
  <2>2. Rounds(t) <= Rounds(t)'
    <3>1. round[t] \in Nat
      BY <1>4
    <3>2. CASE winPc[t] = "store"
      <4>1. Rounds(t) = round[t] /\ Rounds(t)' = round[t] + 1
        BY <3>2, <1>5 DEF StoresOn, Rounds, HasStored
      <4> QED
        BY <3>1, <4>1
    <3>3. CASE winPc[t] \in {"signal read", "signal write"}
      <4>1. round'[t] = round[t] + 1 /\ winPc'[t] \in {"enter write", "returned"}
        BY <3>3, <1>1, <1>5 DEF StoresOn
      <4>2. Rounds(t) = round[t] + 1 /\ Rounds(t)' = round[t] + 1
        BY <3>3, <4>1 DEF Rounds, HasStored
      <4> QED
        BY <3>1, <4>2
    <3>4. CASE winPc[t] \notin {"store", "signal read", "signal write"}
      <4>1. Rounds(t) = Rounds(t)'
        BY <3>4, <1>5 DEF StoresOn, Rounds
      <4>2. Rounds(t) \in Nat
        BY <3>1 DEF Rounds
      <4> QED
        BY <4>1, <4>2
    <3> QED
      BY <3>2, <3>3, <3>4
  <2> QED
    BY <2>1, <2>2
<1>8. \A s \in WinThreads : Rounds(s) \in Nat /\ Rounds(s)' \in Nat
  <2>0. round' \in [WinThreads -> 0 .. ITERS]
    BY DEF WinForms
  <2>1. \A s \in WinThreads : round'[s] \in Nat
    BY <2>0
  <2> QED
    BY <1>4, <2>1 DEF Rounds
<1>9. Stores \subseteq Stores'
  <2>1. ASSUME NEW x \in Stores
        PROVE  x \in Stores'
    <3>1. x \in WinWriters \X (1 .. ITERS) /\ x[1] \in WinThreads /\ x[2] \in Nat /\ x[2] <= Rounds(x[1])
      BY WinSets DEF Stores
    <3>2. Rounds(x[1]) <= Rounds(x[1])' /\ Rounds(x[1]) \in Nat /\ Rounds(x[1])' \in Nat
      BY <1>7, <1>8, <3>1
    <3>3. x[2] <= Rounds(x[1])'
      BY <3>1, <3>2
    <3> QED
      BY <3>1, <3>3 DEF Stores
  <2> QED
    BY <2>1
<1>10. /\ IsFiniteSet(Stores) /\ Cardinality(Stores) \in Nat
       /\ IsFiniteSet(Stores') /\ Cardinality(Stores') \in Nat
  <2>1. (IsFiniteSet(Stores) /\ Cardinality(Stores) \in Nat)'
    BY StoresAre, PTL
  <2> QED
    BY <2>1, StoresAre
<1>11. Cardinality(Stores) <= Cardinality(Stores')
  BY <1>9, <1>10, FS_Subset
<1>12. value' \in Nat /\ value' <= Cardinality(Stores')
  <2>1. CASE winPc[t] = "store"
    <3> DEFINE x == <<t, round[t] + 1>>
    <3>1. winPc[t] \in WinW
      BY <2>1 DEF WinW
    <3>2. t \in WinWriters /\ round[t] < ITERS
      BY <3>1, WinOthers DEF WinInv, WinPlaces
    <3>3. round[t] \in Nat /\ round[t] + 1 \in 1 .. ITERS
      BY <1>4, <3>2, WinNumbers
    <3>4. Rounds(t) = round[t] /\ Rounds(t)' = round[t] + 1
      BY <2>1, <1>5 DEF StoresOn, Rounds, HasStored
    <3>5. x \in Stores' /\ x \notin Stores
      BY <3>2, <3>3, <3>4 DEF Stores
    <3> HIDE DEF x
    <3>6. Stores \union {x} \in SUBSET Stores'
      BY <1>9, <3>5
    <3>7. Cardinality(Stores \union {x}) = Cardinality(Stores) + 1
      BY <1>10, <3>5, FS_AddElement
    <3>8. Cardinality(Stores \union {x}) <= Cardinality(Stores')
      BY <1>10, <3>6, FS_Subset
    <3>9. value' = winReg[t] + 1
      BY <2>1, <1>5 DEF StoresOn
    <3> QED
      BY <1>3, <1>10, <3>7, <3>8, <3>9
  <2>2. CASE winPc[t] # "store"
    <3>1. value' = value
      BY <2>2, <1>5 DEF StoresOn
    <3> QED
      BY <1>2, <1>10, <1>11, <3>1
  <2> QED
    BY <2>1, <2>2
<1>13. ASSUME NEW s \in WinThreads
       PROVE  winReg'[s] <= Cardinality(Stores')
  <2>1. winReg'[s] \in {winReg[s], value, 0}
    BY <1>1, <1>6
  <2>2. winReg[s] \in Nat /\ winReg[s] <= Cardinality(Stores)
    BY <1>3
  <2> QED
    BY <1>2, <1>10, <1>11, <2>1, <2>2
<1> QED
  BY <1>12, <1>13 DEF ValueStored

LEMMA EventsKept ==
  ASSUME WinInv, NEW t \in WinThreads, GoesOn(t)
  PROVE  GivenIsThere' /\ OneWorks' /\ WillBeWoken'
<1>1. \A s \in WinThreads \ {t} : winPc'[s] = winPc[s]
  BY WinOthers
<1>2. GivenIsThere'
  <2>1. canRead \in BOOLEAN /\ (signal = "given" => canRead)
    BY DEF WinInv, WinForms, GivenIsThere
  <2>2. signal' = "given" => \/ canRead' = TRUE
                             \/ signal = "given" /\ canRead' = canRead
    BY DEF GoesOn, EventsOn
  <2> QED
    BY <2>1, <2>2 DEF GivenIsThere
<1>3. OneWorks'
  <2>1. \/ workingWriter' = FALSE
        \/ winPc'[t] = "load"
        \/ workingWriter' = workingWriter /\ (winPc[t] \in Working => winPc'[t] \in Working)
    BY DEF GoesOn, WorksOn
  <2>2. CASE workingWriter' = FALSE
    BY <2>2 DEF OneWorks
  <2>3. CASE winPc'[t] = "load"
    <3>1. t \in WinAt(Working)'
      BY <2>3 DEF WinAt, Working
    <3> QED
      BY <3>1 DEF OneWorks
  <2>4. CASE workingWriter' = workingWriter /\ (winPc[t] \in Working => winPc'[t] \in Working)
    <3>1. WinAt(Working) \subseteq WinAt(Working)'
      BY <2>4, <1>1 DEF WinAt
    <3>2. workingWriter => WinAt(Working) # {}
      BY DEF WinInv, OneWorks
    <3> QED
      BY <2>4, <3>1, <3>2 DEF OneWorks
  <2> QED
    BY <2>1, <2>2, <2>3, <2>4
<1>a. waitingWriters > 0 => WinAt(Asking) # {}
  <2>1. waitingWriters = Cardinality(WinAt(Asking)) /\ Cardinality({}) = 0
    BY FS_EmptySet DEF WinInv, WinCounts
  <2> QED
    BY <2>1
<1>b. ASSUME NEW s \in WinThreads, winPc[s] = "wait read"
      PROVE  waitingReaders > 0
  <2>1. s \in WinAt(Counted)
    BY <1>b DEF WinAt, Counted
  <2>2. IsFiniteSet(WinAt(Counted)) /\ Cardinality(WinAt(Counted)) \in Nat
    BY WinSets
  <2>3. Cardinality(WinAt(Counted)) # 0
    <3>1. \A S : IsFiniteSet(S) => (Cardinality(S) = 0 <=> S = {})
      BY FS_EmptySet
    <3> QED
      BY <2>1, <2>2, <3>1
  <2>4. waitingReaders = Cardinality(WinAt(Counted))
    BY DEF WinInv, WinCounts
  <2> QED
    BY <2>2, <2>3, <2>4
<1>4. WillBeWoken'
  <2> SUFFICES ASSUME NEW s \in WinThreads, winPc'[s] = "wait read", signal' = "none"
               PROVE  \E w \in WinThreads : winPc'[w] \in WillSignal
    BY DEF WillBeWoken, WinAt
  <2>1. /\ winPc[t] \in WillSignal => \/ winPc'[t] \in WillSignal
                                      \/ winPc[t] = "choose" /\ ~(waitingReaders > 0)
                                      \/ winPc[t] = "signal read" /\ signal' = "given"
        /\ winPc'[t] = "wait read" => \/ winPc[t] = "test working" /\ workingWriter = TRUE
                                      \/ winPc[t] = "test waiting" /\ waitingWriters > 0
    BY DEF GoesOn, SignalsOn
  <2>2. CASE s = t
    <3>1. CASE winPc[t] = "test working" /\ workingWriter = TRUE
      <4>1. PICK w \in WinThreads : winPc[w] \in Working
        BY <3>1 DEF WinInv, OneWorks, WinAt
      <4>2. w # t
        BY <3>1, <4>1 DEF Working
      <4>3. winPc'[w] \in WillSignal
        BY <1>1, <4>1, <4>2 DEF WillSignal
      <4> QED
        BY <4>3
    <3>2. CASE winPc[t] = "test waiting" /\ waitingWriters > 0
      <4>1. WinAt(Asking) # {}
        BY <1>a, <3>2
      <4>2. PICK w \in WinThreads : winPc[w] \in Asking
        BY <4>1 DEF WinAt
      <4>3. w # t
        BY <3>2, <4>2 DEF Asking
      <4>4. winPc'[w] \in WillSignal
        BY <1>1, <4>2, <4>3 DEF WillSignal
      <4> QED
        BY <4>4
    <3> QED
      BY <2>1, <2>2, <3>1, <3>2
  <2>3. CASE s # t
    <3>1. winPc[s] = "wait read"
      BY <1>1, <2>3
    <3>2. signal = "none"
      <4>1. \/ signal = "none"
            \/ winPc[t] = "wait read" /\ winPc'[t] = "admitted"
        BY DEF GoesOn, EventsOn
      <4>2. winPc[t] # "wait read"
        <5>1. "wait read" \in Holding
          BY DEF Holding, Counted
        <5> QED
          BY <2>3, <3>1, <5>1 DEF WinInv, MutexHeld, WinAt
      <4> QED
        BY <4>1, <4>2
    <3>3. PICK w \in WinThreads : winPc[w] \in WillSignal
      BY <3>1, <3>2 DEF WinInv, WillBeWoken, WinAt
    <3>4. waitingReaders > 0
      BY <1>b, <3>1
    <3>5. CASE w = t
      BY <2>1, <3>3, <3>4, <3>5
    <3>6. CASE w # t
      BY <1>1, <3>3, <3>6
    <3> QED
      BY <3>5, <3>6
  <2> QED
    BY <2>2, <2>3
<1> QED
  BY <1>2, <1>3, <1>4

LEMMA ThreadKeeps ==
  ASSUME WinInv, NEW t \in WinThreads, GoesOn(t)
  PROVE  WinInv'
<1>1. WinForms' /\ WinPlaces'
  BY FormsKept
<1>2. MutexHeld' /\ WinCounts'
  BY MutexKept, CountsKept
<1>3. ValueStored'
  BY <1>1, StoresKept
<1>4. GivenIsThere' /\ OneWorks' /\ WillBeWoken'
  BY EventsKept
<1> QED
  BY <1>1, <1>2, <1>3, <1>4 DEF WinInv

\* A thread that is created is where nothing counts it, and main only waits otherwise.
LEMMA MainKeeps ==
  ASSUME WinInv, WinMainStep
  PROVE  WinInv'
<1>1. UNCHANGED <<winEvents, winData, winReg, round>>
  BY DEF WinMainStep, WinMake, WinCreate, WinJoin
<1>2. /\ winMutex' = winMutex /\ canRead' = canRead /\ canWrite' = canWrite /\ signal' = signal
      /\ workingWriter' = workingWriter /\ waitingWriters' = waitingWriters
      /\ waitingReaders' = waitingReaders /\ activeReaders' = activeReaders /\ value' = value
      /\ winReg' = winReg /\ round' = round
  BY <1>1 DEF winEvents, winData
<1>3. /\ winPc \in [WinThreads -> {"unborn", "returned"} \union WinW \union WinR]
      /\ winMain \in {"objects", "threads", "join readers", "closed", "exited"}
      /\ created \in 0 .. W_CNT + R_CNT
  BY DEF WinInv, WinForms
<1>a. created \in Nat /\ created <= W_CNT + R_CNT
  <2>1. created \in 0 .. W_CNT + R_CNT
    BY <1>3
  <2> QED
    BY <2>1, WinNumbers
<1>b. created' = created \/ (created < W_CNT + R_CNT /\ created' = created + 1)
  BY DEF WinMainStep, WinMake, WinCreate, WinJoin
<1>4. \/ winPc' = winPc /\ created' = created
      \/ /\ created < W_CNT + R_CNT /\ created' = created + 1
         /\ winPc' = [winPc EXCEPT ![created] = IF created \in WinWriters THEN "enter write" ELSE "loop"]
  BY DEF WinMainStep, WinMake, WinCreate, WinJoin
<1>5. winMain' \in {"objects", "threads", "join readers", "closed", "exited"}
  BY <1>3 DEF WinMainStep, WinMake, WinCreate, WinJoin
<1>6. \A s \in WinThreads :
        /\ winPc[s] \in {"unborn", "returned"} \union IF s \in WinWriters THEN WinW ELSE WinR
        /\ s >= created => winPc[s] = "unborn"
        /\ winPc[s] = "unborn" => round[s] = 0
        /\ winPc[s] \in WinW => round[s] < ITERS
  BY DEF WinInv, WinPlaces
<1>7. \A s \in WinThreads :
        \/ winPc'[s] = winPc[s]
        \/ /\ s = created /\ winPc[s] = "unborn" /\ created' = created + 1
           /\ winPc'[s] = IF s \in WinWriters THEN "enter write" ELSE "loop"
  <2>1. CASE winPc' = winPc
    BY <2>1
  <2>2. CASE /\ created < W_CNT + R_CNT /\ created' = created + 1
             /\ winPc' = [winPc EXCEPT ![created] = IF created \in WinWriters THEN "enter write" ELSE "loop"]
    <3>a. created >= created
      BY <1>a
    <3>0. created < W_CNT + R_CNT /\ created >= created
      BY <2>2, <3>a
    <3>1. created \in WinThreads
      BY <1>a, <3>0, WinNumbers DEF WinThreads
    <3>2. winPc[created] = "unborn"
      BY <1>6, <3>0, <3>1
    <3>3. winPc'[created] = IF created \in WinWriters THEN "enter write" ELSE "loop"
      BY <1>3, <2>2, <3>1
    <3>4. \A s \in WinThreads \ {created} : winPc'[s] = winPc[s]
      BY <1>3, <2>2
    <3> QED
      BY <2>2, <3>2, <3>3, <3>4
  <2> QED
    BY <1>4, <2>1, <2>2
<1>8. ASSUME NEW P, "unborn" \notin P, "enter write" \notin P, "loop" \notin P
      PROVE  WinAt(P)' = WinAt(P)
  BY <1>7, <1>8 DEF WinAt
<1>9. /\ WinAt(Holding)' = WinAt(Holding) /\ WinAt(Asking)' = WinAt(Asking)
      /\ WinAt(Counted)' = WinAt(Counted) /\ WinAt(Active)' = WinAt(Active)
      /\ WinAt(Working)' = WinAt(Working) /\ WinAt(WillSignal)' = WinAt(WillSignal)
      /\ WinAt({"wait read"})' = WinAt({"wait read"})
  BY <1>7 DEF WinAt, Holding, Asking, Counted, Active, Working, WillSignal
<1>10. WinForms'
  <2>1. winPc' \in [WinThreads -> {"unborn", "returned"} \union WinW \union WinR]
    BY <1>3, <1>4 DEF WinW, WinR
  <2>2. created' \in 0 .. W_CNT + R_CNT
    BY <1>a, <1>b, WinNumbers
  <2> QED
    BY <1>2, <1>5, <2>1, <2>2 DEF WinInv, WinForms
<1>11. WinPlaces'
  <2>1. ASSUME NEW s \in WinThreads
        PROVE  /\ winPc'[s] \in {"unborn", "returned"} \union IF s \in WinWriters THEN WinW ELSE WinR
               /\ s >= created' => winPc'[s] = "unborn"
               /\ winPc'[s] = "unborn" => round'[s] = 0
               /\ winPc'[s] \in WinW => round'[s] < ITERS
    <3>0. s \in Int /\ created \in Int /\ created' \in {created, created + 1}
      BY <1>a, <1>b, WinNumbers DEF WinThreads
    <3>1. CASE winPc'[s] = winPc[s]
      <4>1. s >= created' => s >= created
        BY <3>0
      <4> QED
        BY <1>2, <1>6, <3>1, <4>1
    <3>2. CASE /\ s = created /\ winPc[s] = "unborn" /\ created' = created + 1
               /\ winPc'[s] = IF s \in WinWriters THEN "enter write" ELSE "loop"
      <4>0. round[s] = 0
        BY <1>6, <3>2
      <4>a. s = created /\ created' = created + 1
        BY <3>2
      <4>1. ~(s >= created')
        BY <1>a, <4>a
      <4>2. winPc'[s] \in IF s \in WinWriters THEN WinW ELSE WinR
        BY <3>2 DEF WinW, WinR
      <4>3. winPc'[s] # "unborn"
        BY <3>2
      <4>4. 0 < ITERS
        BY WinNumbers
      <4> QED
        BY <1>2, <4>0, <4>1, <4>2, <4>3, <4>4
    <3> QED
      BY <1>7, <3>1, <3>2
  <2> QED
    BY <2>1 DEF WinPlaces
<1>12. MutexHeld' /\ WinCounts'
  BY <1>2, <1>9 DEF WinInv, MutexHeld, WinCounts
<1>13. ValueStored'
  <2>1. \A s \in WinThreads : Rounds(s)' = Rounds(s)
    BY <1>2, <1>7 DEF Rounds, HasStored
  <2>2. Stores' = Stores
    BY <2>1, WinSets DEF Stores
  <2> QED
    BY <1>2, <2>2 DEF WinInv, ValueStored
<1>14. GivenIsThere' /\ OneWorks' /\ WillBeWoken'
  BY <1>2, <1>9 DEF WinInv, GivenIsThere, OneWorks, WillBeWoken
<1> QED
  BY <1>10, <1>11, <1>12, <1>13, <1>14 DEF WinInv

LEMMA WinStays ==
  ASSUME WinInv, UNCHANGED winVars
  PROVE  WinInv'
BY DEF WinInv, winVars, winEvents, winData, winProc, WinForms, WinPlaces, MutexHeld, WinCounts,
       ValueStored, Stores, Rounds, GivenIsThere, OneWorks, WillBeWoken, WinAt

LEMMA WinNextInv == WinInv /\ [WinNext]_winVars => WinInv'
<1> SUFFICES ASSUME WinInv, [WinNext]_winVars PROVE WinInv'
  OBVIOUS
<1>1. CASE WinMainStep
  BY <1>1, MainKeeps
<1>2. ASSUME NEW t \in WinThreads, WinWriteStep(t) \/ WinReadStep(t)
      PROVE  WinInv'
  <2>1. GoesOn(t)
    BY <1>2, WriteStepIs, ReadStepIs
  <2> QED
    BY <2>1, ThreadKeeps
<1>3. CASE UNCHANGED winVars
  BY <1>3, WinStays
<1> QED
  BY <1>1, <1>2, <1>3 DEF WinNext

LEMMA WinInvHolds == WinSpec => []WinInv
BY WinInitInv, WinNextInv, PTL DEF WinSpec

LEMMA WinTypeIs == WinInv => WinTypeOK
<1> SUFFICES ASSUME WinInv PROVE WinTypeOK
  OBVIOUS
<1>1. winMutex \subseteq WinReaders
  <2>1. ASSUME NEW s \in winMutex
        PROVE  s \in WinReaders
    <3>1. s \in WinThreads /\ winPc[s] \in Holding
      BY <2>1 DEF WinInv, MutexHeld, WinAt
    <3>2. \A p \in Holding : p \notin WinW /\ p \notin {"unborn", "returned"}
      BY DEF Holding, Counted, WinW
    <3>3. winPc[s] \in {"unborn", "returned"} \union IF s \in WinWriters THEN WinW ELSE WinR
      BY <3>1 DEF WinInv, WinPlaces
    <3> QED
      BY <3>1, <3>2, <3>3 DEF WinReaders
  <2> QED
    BY <2>1
<1>2. {canRead, canWrite, workingWriter} \subseteq BOOLEAN
  BY DEF WinInv, WinForms
<1>3. {waitingWriters, waitingReaders, activeReaders} \subseteq 0 .. W_CNT + R_CNT
  <2>1. \A P : Cardinality(WinAt(P)) \in 0 .. W_CNT + R_CNT
    BY WinSets, WinNumbers
  <2>2. /\ waitingWriters = Cardinality(WinAt(Asking)) /\ waitingReaders = Cardinality(WinAt(Counted))
        /\ activeReaders = Cardinality(WinAt(Active))
    BY DEF WinInv, WinCounts
  <2> QED
    BY <2>1, <2>2
<1>4. W_CNT * ITERS \in Nat
  BY WinNumbers
<1>5. value \in 0 .. W_CNT * ITERS
  <2>1. value \in Nat /\ value <= Cardinality(Stores)
    BY DEF WinInv, ValueStored
  <2> QED
    BY <1>4, <2>1, StoresAre
<1>6. winReg \in [WinThreads -> 0 .. W_CNT * ITERS]
  <2>1. winReg \in [WinThreads -> Nat]
    BY DEF WinInv, WinForms
  <2>2. ASSUME NEW s \in WinThreads
        PROVE  winReg[s] \in 0 .. W_CNT * ITERS
    <3>1. winReg[s] \in Nat /\ winReg[s] <= Cardinality(Stores)
      BY <2>1 DEF WinInv, ValueStored
    <3> QED
      BY <1>4, <3>1, StoresAre
  <2> QED
    BY <2>1, <2>2
<1> QED
  BY <1>1, <1>2, <1>3, <1>5, <1>6 DEF WinInv, WinForms, WinTypeOK

\* The only way for the program to stop short, with the last writer gone and a reader waiting
\* with the event not set, is that a SetEvent(canRead) of stopWrite (win_reades_writers.c:98)
\* was undone by the ResetEvent of a stopRead (line 66): a reader that waits in startRead was
\* always seen by a writer, who signals it.
THEOREM OnlyAnErasedSignalStrands ==
  WinSpec => [](/\ WinAt({"wait read"}) # {} /\ ~canRead
                /\ \A t \in WinWriters : winPc[t] = "returned"
                => signal = "erased")
<1>1. WinInv => (/\ WinAt({"wait read"}) # {} /\ ~canRead
                 /\ \A t \in WinWriters : winPc[t] = "returned"
                 => signal = "erased")
  <2> SUFFICES ASSUME WinInv, WinAt({"wait read"}) # {}, ~canRead,
                      \A t \in WinWriters : winPc[t] = "returned"
               PROVE  signal = "erased"
    OBVIOUS
  <2>1. WinAt(WillSignal) = {}
    <3>1. ASSUME NEW w \in WinThreads, winPc[w] \in WillSignal
          PROVE  FALSE
      <4>1. winPc[w] \notin {"unborn", "returned"} /\ winPc[w] \notin WinR
        BY <3>1 DEF WillSignal, Asking, Working, WinR
      <4>2. w \in WinWriters
        BY <4>1 DEF WinInv, WinPlaces
      <4> QED
        BY <4>1, <4>2
    <3> QED
      BY <3>1 DEF WinAt
  <2>2. signal # "none"
    BY <2>1 DEF WinInv, WillBeWoken
  <2>3. signal # "given"
    BY DEF WinInv, GivenIsThere
  <2> QED
    BY <2>2, <2>3 DEF WinInv, WinForms
<1> QED
  BY <1>1, WinInvHolds, PTL

\* A reader is stranded when it waits with the event not set and no writer is left.
Stranded(t) ==
    /\ winPc[t] = "wait read" /\ ~canRead
    /\ \A w \in WinWriters : winPc[w] = "returned"

\* A reader that is stranded stays so for ever: it holds the mutex (win_reades_writers.c:65-77),
\* so that no other reader comes to the SetEvent of startRead, and no writer is left to signal.
THEOREM TheStrandedStay ==
  WinSpec => [][\A t \in WinThreads : Stranded(t) => Stranded(t)']_winVars
<1>1. ASSUME WinInv, [WinNext]_winVars, NEW t \in WinThreads, Stranded(t)
      PROVE  Stranded(t)'
  <2>1. /\ winPc[t] = "wait read" /\ ~canRead
        /\ \A w \in WinWriters : winPc[w] = "returned"
    BY <1>1 DEF Stranded
  <2>2. \A s \in WinThreads : winPc[s] \in {"unborn", "returned"} \union IF s \in WinWriters THEN WinW ELSE WinR
    BY <1>1 DEF WinInv, WinPlaces
  <2>3. CASE WinMainStep
    <3>1. canRead' = canRead
      BY <2>3 DEF WinMainStep, WinMake, WinCreate, WinJoin, winEvents
    <3>2. \A s \in WinThreads : winPc[s] # "unborn" => winPc'[s] = winPc[s]
      <4>1. \/ winPc' = winPc
            \/ /\ created < W_CNT + R_CNT
               /\ winPc' = [winPc EXCEPT ![created] = IF created \in WinWriters THEN "enter write" ELSE "loop"]
        BY <2>3 DEF WinMainStep, WinMake, WinCreate, WinJoin
      <4>2. created \in WinThreads => winPc[created] = "unborn"
        <5>1. created \in WinThreads => created >= created
          BY WinNumbers DEF WinThreads
        <5> QED
          BY <1>1, <5>1 DEF WinInv, WinPlaces
      <4>3. DOMAIN winPc = WinThreads
        BY <1>1 DEF WinInv, WinForms
      <4> QED
        BY <4>1, <4>2, <4>3
    <3> QED
      BY <2>1, <3>1, <3>2, WinSets DEF Stranded
  <2>4. ASSUME NEW s \in WinThreads, WinWriteStep(s)
        PROVE  FALSE
    <3>1. winPc[s] \in WinW
      BY <2>4 DEF WinWriteStep, WinWriteEnter, WinTestWriter, WinTestReaders, WinWaitWrite, WinWriteGranted,
                  WinClaim, WinLoad, WinStore, WinStopWrite, WinChoose, WinSignal, WinGoto, WinW
    <3>2. winPc[s] \notin {"unborn", "returned"} /\ winPc[s] \notin WinR
      BY <3>1 DEF WinW, WinR
    <3>3. s \in WinWriters
      BY <2>2, <3>2
    <3> QED
      BY <2>1, <3>2, <3>3
  <2>5. ASSUME NEW s \in WinThreads, WinReadStep(s)
        PROVE  Stranded(t)'
    <3>1. GoesOn(s)
      BY <1>1, <2>5, ReadStepIs
    <3>2. s # t
      BY <2>1, <2>5 DEF WinReadStep, WinLoop, WinLock, WinReadEnter, WinTestWorking, WinTestWaiting,
                  WinWaitRead, WinAdmitted, WinActivate, WinChain, WinUnlock, WinLeave, WinTestLast,
                  WinLetWrite, WinReset, WinGoto
    <3>3. canRead' = canRead \/ canRead' = FALSE \/ winPc[s] = "chain"
      BY <2>5 DEF WinReadStep, WinLoop, WinLock, WinReadEnter, WinTestWorking, WinTestWaiting,
                  WinWaitRead, WinAdmitted, WinActivate, WinChain, WinUnlock, WinLeave, WinTestLast,
                  WinLetWrite, WinReset, WinGoto, winEvents
    <3>4. winPc[s] # "chain"
      <4>1. "wait read" \in Holding /\ "chain" \in Holding
        BY DEF Holding, Counted
      <4> QED
        BY <1>1, <2>1, <3>2, <4>1 DEF WinInv, MutexHeld, WinAt
    <3>5. ~canRead'
      BY <2>1, <3>3, <3>4
    <3>6. winPc'[t] = "wait read"
      BY <1>1, <2>1, <3>1, <3>2, WinOthers
    <3>7. \A w \in WinWriters : winPc'[w] = "returned"
      <4>1. winPc[s] \in WinR \/ winPc[s] \in WinW
        BY <3>1 DEF GoesOn, MovesOn
      <4>2. winPc[s] # "returned"
        BY <4>1 DEF WinW, WinR
      <4> QED
        BY <1>1, <2>1, <3>1, <4>2, WinOthers, WinSets
    <3> QED
      BY <3>5, <3>6, <3>7 DEF Stranded
  <2>6. CASE UNCHANGED winVars
    BY <2>1, <2>6 DEF Stranded, winVars, winEvents
  <2> QED
    BY <1>1, <2>3, <2>4, <2>5, <2>6 DEF WinNext
<1>2. WinInv /\ [WinNext]_winVars => [\A t \in WinThreads : Stranded(t) => Stranded(t)']_winVars
  BY <1>1
<1> QED
  BY <1>2, WinInvHolds, PTL DEF WinSpec

-----------------------------------------------------------------------------
\* The programs side by side, as MCPrograms composes them.

\* Every program keeps its own invariant; of the two modules with a bottom half, the one that
\* is chosen does, which the other one shares the keyboard with.
SideInv ==
    /\ WinInv /\ ReportsInv /\ ServerInv /\ DaemonInv /\ StreamsInv /\ ForkInv /\ ScreenInv
    /\ IF chosen = "wq" THEN WorkInv ELSE TaskletInv

LEMMA SideInit == Init => SideInv
BY WinInitInv, InitReportsInv, InitServer, InitBottom, InitDaemon, StreamsInitInv, ForkInitInv, InitScreenInv
   DEF Init, SideInv

LEMMA SideStep == SideInv /\ [Next]_vars => SideInv'
<1> SUFFICES ASSUME SideInv, [Next]_vars PROVE SideInv'
  OBVIOUS
<1>1. /\ WinInv /\ ReportsInv /\ ServerInv /\ DaemonInv /\ StreamsInv /\ ForkInv /\ ScreenInv
      /\ chosen = "wq" => WorkInv
      /\ chosen # "wq" => TaskletInv
  BY DEF SideInv
<1>2. /\ chosen' = chosen
      /\ [WinNext]_winVars /\ [ReportsNext]_reportsVars /\ [ServerNext]_serverVars
      /\ [DaemonNext]_daemonVars /\ [StreamsNext]_streamVars /\ [ForkNext]_forkVars
      /\ [ScreenNext]_screenVars
      /\ chosen = "wq" => [WorkNext]_bottomVars
      /\ chosen # "wq" => [TaskletNext]_bottomVars
  BY DEF Next, vars, BesidesWin, BesidesReports, BesidesServer, BesidesBottom, BesidesDaemon,
         BesidesStreams, BesidesFork, BesidesScreen
<1>3. WinInv' /\ ReportsInv' /\ ServerInv' /\ DaemonInv'
  BY <1>1, <1>2, WinNextInv, ReportsStepKeeps, ServerStepKeeps, DaemonStepKeeps
<1>4. StreamsInv'
  BY <1>1, <1>2, StreamsNextInv, StreamsStay
<1>5. ForkInv' /\ ScreenInv'
  BY <1>1, <1>2, ForkStepKeeps, NextScreenInv
<1>6. CASE chosen = "wq"
  <2>1. WorkInv'
    BY <1>1, <1>2, <1>6, WorkKeeps
  <2> QED
    BY <1>2, <1>3, <1>4, <1>5, <1>6, <2>1 DEF SideInv
<1>7. CASE chosen # "wq"
  <2>1. TaskletInv'
    BY <1>1, <1>2, <1>7, TaskletKeeps
  <2> QED
    BY <1>2, <1>3, <1>4, <1>5, <1>7, <2>1 DEF SideInv
<1> QED
  BY <1>6, <1>7

LEMMA AlwaysSideInv == Spec => []SideInv
BY SideInit, SideStep, PTL DEF Spec

\* The variables of every program keep their types, for all values of the constants.  Among
\* the bounds that hold: the counters of the readers and writers of Windows never exceed the
\* number of the threads nor value that of the increments, a stream's buffer never holds more
\* than fits or is to be written, the server's slot and every descriptor stay in their tables,
\* and the cursor and what is printed stay on the display.
THEOREM TypesAlways == Spec => []TypesOK
<1>1. SideInv => TypesOK
  <2> SUFFICES ASSUME SideInv PROVE TypesOK
    OBVIOUS
  <2>1. WinTypeOK
    BY WinTypeIs DEF SideInv
  <2>2. StreamsTypeOK
    BY StreamsTypeIs DEF SideInv
  <2>3. BottomTypeOK
    BY DEF SideInv, TaskletInv, WorkInv
  <2>4. ReportsTypeOK /\ ServerTypeOK /\ DaemonTypeOK /\ ForkTypeOK /\ ScreenTypeOK
    BY DEF SideInv, ReportsInv, ServerInv, DaemonInv, ForkInv, ScreenInv
  <2> QED
    BY <2>1, <2>2, <2>3, <2>4 DEF TypesOK
<1> QED
  BY <1>1, AlwaysSideInv, PTL

\* What was proved of each program holds of the specification that the run checks, in which
\* any one of them runs: all its invariants at once.
THEOREM AllKeepTheirPromises ==
  Spec => [](/\ NoKeyLeftPressed /\ MovesAddUp /\ TableIsExact /\ PressedIsPrinted
             /\ OneDaemon /\ NothingLost /\ TextStands)
<1>1. SideInv => /\ NoKeyLeftPressed /\ MovesAddUp /\ TableIsExact /\ PressedIsPrinted
                 /\ OneDaemon /\ NothingLost /\ TextStands
  <2> SUFFICES ASSUME SideInv
               PROVE  /\ NoKeyLeftPressed /\ MovesAddUp /\ TableIsExact /\ PressedIsPrinted
                      /\ OneDaemon /\ NothingLost /\ TextStands
    OBVIOUS
  <2>1. NoKeyLeftPressed /\ MovesAddUp
    BY DEF SideInv, ReportsInv
  <2>2. TableIsExact
    BY TableIsKept DEF SideInv
  <2>3. PressedIsPrinted
    BY TaskletPrinted, WorkPrinted DEF SideInv
  <2>4. OneDaemon
    BY DaemonIsOne DEF SideInv
  <2>5. NothingLost
    BY NothingLostIs DEF SideInv
  <2>6. TextStands
    BY TextIsKept DEF SideInv
  <2> QED
    BY <2>1, <2>2, <2>3, <2>4, <2>5, <2>6
<1> QED
  BY <1>1, AlwaysSideInv, PTL
=============================================================================
