---------------------------- MODULE SharedStreams ----------------------------
(***************************************************************************)
(* src/5_buffered_IO: seven programs in which two parts, one after the     *)
(* other or two threads, use one file.  1.c and 1_th.c read it through two *)
(* buffered streams over one descriptor, 2.c, 2_th.c and 2_th_mutex.c      *)
(* character by character over a descriptor each; 3_th.c and               *)
(* 3_th_append.c write to it through a buffered stream each.               *)
(*                                                                         *)
(* Of the system the model takes: descriptors of one open share a          *)
(* position, and a read or a write moves it at once; "w" truncates when    *)
(* the file is opened, and writes where the position is; "a" writes at the *)
(* end.  A buffer holds BUFSIZE characters of what is read, and all a      *)
(* thread writes.  alphabet.txt is there, threads can be created and the   *)
(* terminal takes what it is given; fopen for writing may fail, and exit   *)
(* then writes out what the other thread has in its buffer.                *)
(*                                                                         *)
(* A definition named Faulty_X is X with a plausible bug; no specification *)
(* uses it, it serves to show that the properties notice the bug.          *)
(***************************************************************************)
EXTENDS Naturals, Sequences, SequencesExt

CONSTANTS BUFSIZE, LENGTH, Lengths

ASSUME StreamsAssumption ==
    BUFSIZE \in Nat \ {0} /\ LENGTH \in Nat /\ Lengths \in [1 .. 2 -> Nat]

\* A character is its place in the text; a written one is a pair of writer and place.
Text     == [k \in 1 .. LENGTH |-> k]
Own(s)   == [k \in 1 .. Lengths[s] |-> <<s, k>>]
Parts    == 1 .. 2
Buffered == {"1", "1_th"}
Reads    == Buffered \union {"2", "2_th", "2_th_mutex"}
Writes   == {"3_th", "3_th_append"}
InTurn   == {"1", "2"}
Nothing  == 0

VARIABLES
    program,    \* which of the programs
    part,       \* where each part stands
    turn,       \* of a program without threads: the part that goes on
    position,   \* of each descriptor
    buffer,     \* of each stream
    c,          \* the character a part has read and not written
    mu,         \* the parts that hold the mutex
    screen,     \* what was written to the terminal: pairs of part and character
    output      \* what is in output.txt

streamVars == <<program, part, turn, position, buffer, c, mu, screen, output>>

StreamsInit ==
    /\ program \in Reads \union Writes
    /\ part = [s \in Parts |-> IF program = "2_th_mutex" \/ program \in Writes
                               THEN "start" ELSE "loop"]
    /\ turn = 1
    /\ position = [d \in Parts |-> 0]
    /\ buffer = [s \in Parts |-> <<>>] /\ c = [s \in Parts |-> Nothing]
    /\ mu = {} /\ screen = <<>> /\ output = <<>>

Moves(s, here, there) == part[s] = here /\ part' = [part EXCEPT ![s] = there]

-----------------------------------------------------------------------------
\* 1.c and 1_th.c open the file once.
Descriptor(s) == IF program \in Buffered THEN 1 ELSE s

\* What read returns, and what is left in the buffer when the first is taken.
Chunk(s) == LET from == position[Descriptor(s)]
                upTo == from + IF program \in Buffered THEN BUFSIZE ELSE 1
            IN  SubSeq(Text, from + 1, IF upTo < LENGTH THEN upTo ELSE LENGTH)

MayGo(s) == part[s] \in {"loop", "eof"} /\ (program \in InTurn => turn = s)

\* fscanf or read: a character out of the buffer, or out of what read puts there.
Scan(s) ==
    /\ MayGo(s) /\ c[s] = Nothing
    /\ LET there == IF buffer[s] = <<>> THEN Chunk(s) ELSE buffer[s]
       IN  /\ there # <<>>
           /\ c' = [c EXCEPT ![s] = Head(there)]
           /\ buffer' = [buffer EXCEPT ![s] = Tail(there)]
           /\ position' = IF buffer[s] = <<>>
                          THEN [position EXCEPT ![Descriptor(s)] = @ + Len(there)]
                          ELSE position
    /\ UNCHANGED <<program, part, turn, mu, screen, output>>

\* fprintf or write.
Show(s) ==
    /\ MayGo(s) /\ c[s] # Nothing
    /\ screen' = Append(screen, <<s, c[s]>>)
    /\ c' = [c EXCEPT ![s] = Nothing]
    /\ turn' = 3 - s
    /\ UNCHANGED <<program, part, position, buffer, mu, output>>

\* The end of the file: a thread returns, 2.c ends, and 1.c ends when both streams
\* have found it in the same round.
Eof(s) ==
    /\ MayGo(s) /\ c[s] = Nothing /\ buffer[s] = <<>> /\ Chunk(s) = <<>>
    /\ part' = IF program \notin InTurn THEN [part EXCEPT ![s] = "done"]
               ELSE IF program = "1" /\ s = 1 THEN [part EXCEPT ![1] = "eof"]
               ELSE IF program = "1" /\ part[1] = "loop" THEN part
               ELSE [p \in Parts |-> "done"]
    /\ turn' = 3 - s
    /\ mu' = mu \ {s}
    /\ UNCHANGED <<program, position, buffer, c, screen, output>>

\* 2_th_mutex.c: pthread_mutex_lock; the end of the loop unlocks.
Faulty_Lock(s) ==                                       \* a mutex for each thread
    /\ program = "2_th_mutex" /\ Moves(s, "start", "loop")
    /\ mu' = mu \union {s}
    /\ UNCHANGED <<program, turn, position, buffer, c, screen, output>>

Lock(s) ==
    /\ program = "2_th_mutex" /\ mu = {} /\ Moves(s, "start", "loop")
    /\ mu' = {s}
    /\ UNCHANGED <<program, turn, position, buffer, c, screen, output>>

-----------------------------------------------------------------------------
\* What is in the file after text was written to it.
Written(text) ==
    IF program = "3_th_append" THEN output \o text
    ELSE text \o SubSeq(output, Len(text) + 1, Len(output))

\* fopen of 3_th.c and 3_th_append.c; without it the program exits.
FOpen(s) ==
    /\ program \in Writes
    /\ \/ /\ Moves(s, "start", "fill")
          /\ output' = IF program = "3_th" THEN <<>> ELSE output
       \/ /\ part[s] = "start" /\ part' = [p \in Parts |-> "exited"]
          /\ output' = Written(buffer[3 - s])
    /\ UNCHANGED <<program, turn, position, buffer, c, mu, screen>>

\* fprintf into the buffer, character by character.
Fill(s) ==
    /\ part[s] = "fill" /\ Len(buffer[s]) < Lengths[s]
    /\ buffer' = [buffer EXCEPT ![s] = Append(@, Own(s)[Len(@) + 1])]
    /\ UNCHANGED <<program, part, turn, position, c, mu, screen, output>>

\* fclose writes the buffer.
FClose(s) ==
    /\ Len(buffer[s]) = Lengths[s] /\ Moves(s, "fill", "done")
    /\ output' = Written(buffer[s])
    /\ buffer' = [buffer EXCEPT ![s] = <<>>]
    /\ UNCHANGED <<program, turn, position, c, mu, screen>>

StreamStep(s) ==
    \/ Scan(s) \/ Show(s) \/ Eof(s) \/ Lock(s) \/ FOpen(s) \/ Fill(s) \/ FClose(s)

StreamsNext == \E s \in Parts : StreamStep(s)

StreamsSpec == StreamsInit /\ [][StreamsNext]_streamVars

-----------------------------------------------------------------------------
\* What part s wrote to the terminal is in the order of the text, nothing twice.
InOrder(s) == \A i, j \in DOMAIN screen :
    i < j /\ screen[i][1] = s /\ screen[j][1] = s => screen[i][2] < screen[j][2]

\* When a program is done nothing was lost.  Streams over one descriptor have between
\* them shown every character once, each in order, though either took more than it had
\* use for; with a descriptor each, both have shown the text, in turn in 2.c and one
\* after the other under the mutex.  Appending threads leave both texts whole in the
\* file; of those that truncate it one text at least is whole at its beginning.
NothingLost ==
    (\A s \in Parts : part[s] = "done") =>
        /\ program \in Buffered =>
               /\ \A s \in Parts : InOrder(s)
               /\ \A k \in 1 .. LENGTH : \E i \in DOMAIN screen : screen[i][2] = k
               /\ Len(screen) = LENGTH
        /\ program = "2" => screen = [k \in 1 .. 2 * LENGTH |->
                                         <<IF k % 2 = 1 THEN 1 ELSE 2, (k + 1) \div 2>>]
        /\ program = "2_th" => \A s \in Parts :
               InOrder(s) /\ \A k \in 1 .. LENGTH : \E i \in DOMAIN screen : screen[i] = <<s, k>>
        /\ program = "2_th_mutex" => \E s \in Parts :
               screen = [k \in 1 .. 2 * LENGTH |->
                            IF k <= LENGTH THEN <<s, k>> ELSE <<3 - s, k - LENGTH>>]
        /\ program = "3_th" => \E s \in Parts : IsPrefix(Own(s), output)
        /\ program = "3_th_append" => \E s \in Parts : output = Own(s) \o Own(3 - s)

\* The type of the state.
StreamsTypeOK ==
    /\ program \in Reads \union Writes
    /\ part \in [Parts -> {"start", "loop", "eof", "fill", "done", "exited"}] /\ turn \in Parts
    /\ position \in [Parts -> 0 .. LENGTH]
    /\ c \in [Parts -> {Nothing} \union 1 .. LENGTH] /\ mu \subseteq Parts
    /\ \A s \in Parts : Len(buffer[s]) <= BUFSIZE + Lengths[s]
    /\ screen \in Seq(Parts \X (1 .. LENGTH))
    /\ Len(screen) <= 2 * LENGTH /\ Len(output) <= Lengths[1] + Lengths[2]
=============================================================================
