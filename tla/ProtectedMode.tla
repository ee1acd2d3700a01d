--------------------------- MODULE ProtectedMode ---------------------------
(***************************************************************************)
(* src/protected_mode/protected_mode.asm from the point where it allows    *)
(* interrupts to the point where it returns to real mode: it counts the    *)
(* memory, prints the amount and waits for Escape, while new_08 draws the  *)
(* timer's symbol and new_09 what is typed.                                *)
(*                                                                         *)
(* Interrupt gates: a handler is not interrupted and is one step.  Both    *)
(* handlers give back AX and BX, but not DI, with which the interrupted    *)
(* loop goes on.  stosw past the limit of the screen's segment, and a key  *)
(* beyond ascii_map, are the exception exc13, which goes home.             *)
(*                                                                         *)
(* A place is a character cell, two bytes of the code's offsets.  Letters, *)
(* case, colours, the timer's count and symbol, and what is on the screen  *)
(* before, are left out: a key that is neither Escape nor backspace types  *)
(* a character, does nothing or is beyond ascii_map, and the timer draws   *)
(* when it likes.                                                          *)
(*                                                                         *)
(* A definition named Faulty_X is X with a plausible bug; no specification *)
(* uses it, it serves to show that the properties notice the bug.          *)
(***************************************************************************)
EXTENDS Integers

\* The cells of the timer, of the first character typed and of the message; the
\* length of the message and the size of the screen: 79, 240, 1920, 26, 2000.
CONSTANTS TimerCell, KeyCell, MessageCell, MessageLength, ScreenSize

ASSUME ScreenAssumption ==
    /\ {TimerCell, KeyCell, MessageCell, MessageLength, ScreenSize} \subseteq Nat
    /\ TimerCell + 1 + MessageLength <= KeyCell
    /\ KeyCell < MessageCell /\ MessageCell + MessageLength <= ScreenSize

Cells == 0 .. ScreenSize - 1

\* What a cell shows: one of these, or the character of the message with that number.
Blank  == 0
Char   == -1
Cursor == -2
Symbol == -3

VARIABLES
    place,             \* where the program stands
    DI,
    shown,             \* how many characters of the message are printed: CX
    display,
    keyboard_output,
    exit_flag,
    typed,             \* ghost: whether a key has moved the cursor
    disturbed          \* ghost: an interrupt changed DI under mem_scrn, or a key
                       \* wrote where the message is

screenVars == <<place, DI, shown, display, keyboard_output, exit_flag, typed, disturbed>>

Running == place # "home"

ScreenInit ==
    /\ place = "counting" /\ DI = 0 /\ shown = 0
    /\ display = [p \in Cells |-> Blank]
    /\ keyboard_output = KeyCell /\ exit_flag = FALSE
    /\ typed = FALSE /\ disturbed = FALSE

\* exc13: home, whatever else the handler or the loop had still to do.
Exception ==
    /\ place' = "home"
    /\ UNCHANGED <<DI, shown, display, keyboard_output, exit_flag, typed, disturbed>>

-----------------------------------------------------------------------------
\* print_memory_count sets DI, mem_scrn prints a character a turn.
PrintMemoryCount ==
    /\ place = "counting" /\ place' = "printing"
    /\ DI' = MessageCell
    /\ UNCHANGED <<shown, display, keyboard_output, exit_flag, typed, disturbed>>

MemScrn ==
    /\ place = "printing" /\ shown < MessageLength
    /\ IF DI \notin Cells THEN Exception
       ELSE /\ display' = [display EXCEPT ![DI] = shown + 1]
            /\ DI' = DI + 1 /\ shown' = shown + 1
            /\ UNCHANGED <<place, keyboard_output, exit_flag, typed, disturbed>>

MessageDone ==
    /\ place = "printing" /\ shown = MessageLength /\ place' = "waiting"
    /\ UNCHANGED <<DI, shown, display, keyboard_output, exit_flag, typed, disturbed>>

EndlessLoop ==
    /\ place = "waiting" /\ exit_flag /\ place' = "home"
    /\ UNCHANGED <<DI, shown, display, keyboard_output, exit_flag, typed, disturbed>>

-----------------------------------------------------------------------------
\* new_08 when it draws.
new_08 ==
    /\ Running
    /\ display' = [display EXCEPT ![TimerCell] = Symbol] /\ DI' = TimerCell + 1
    /\ disturbed' = (disturbed \/ place = "printing")
    /\ UNCHANGED <<place, shown, keyboard_output, exit_flag, typed>>

\* What a key leaves: the cursor at cell p, the place of the next character, and DI
\* behind it.
CursorAt(p) ==
    /\ keyboard_output' = p /\ DI' = p + 1
    /\ typed' = TRUE
    /\ disturbed' = (disturbed \/ place = "printing" \/ p >= MessageCell)
    /\ UNCHANGED <<place, shown, exit_flag>>

\* normal_key: the character, then kb_flash_line.
Faulty_NormalKey ==                        \* keyboard_output is stored after the cursor
    /\ Running
    /\ IF keyboard_output + 1 \notin Cells THEN Exception
       ELSE /\ display' = [display EXCEPT ![keyboard_output] = Char,
                                        ![keyboard_output + 1] = Cursor]
            /\ CursorAt(keyboard_output + 2)

NormalKey ==
    /\ Running
    /\ IF keyboard_output + 1 \notin Cells THEN Exception
       ELSE /\ display' = [display EXCEPT ![keyboard_output] = Char,
                                        ![keyboard_output + 1] = Cursor]
            /\ CursorAt(keyboard_output + 1)

\* kb_backspace: the cursor goes from its cell to the one before, if there is one.
Backspace ==
    /\ Running
    /\ IF keyboard_output = 0
       THEN display' = [display EXCEPT ![0] = Cursor] /\ CursorAt(0)
       ELSE /\ display' = [display EXCEPT ![keyboard_output] = Blank,
                                        ![keyboard_output - 1] = Cursor]
            /\ CursorAt(keyboard_output - 1)

Escape ==
    /\ Running /\ exit_flag' = TRUE
    /\ UNCHANGED <<place, DI, shown, display, keyboard_output, typed, disturbed>>

\* normal_key for a code that has no entry: ascii_map holds those up to 39h and ends the
\* data segment, so that ascii_map[BX] for F1, an arrow or the keypad is past its limit.
KeyBeyondMap == Running /\ Exception

new_09 == NormalKey \/ KeyBeyondMap \/ Backspace \/ Escape

ScreenNext ==
    \/ PrintMemoryCount \/ MemScrn \/ MessageDone \/ EndlessLoop
    \/ new_08 \/ new_09

ScreenSpec == ScreenInit /\ [][ScreenNext]_screenVars

-----------------------------------------------------------------------------
\* Although the handlers change DI under the loop that prints, what stands between
\* the first cell for typing and the message is what was typed and not deleted, with
\* the cursor behind it: what is printed from a DI that a handler left goes behind
\* the cursor or over the line above.  The message is whole in its place unless a
\* handler came while it was printed or a key has written there.
TextStands ==
    Running =>
        /\ \A p \in KeyCell .. MessageCell - 1 :
              /\ p < keyboard_output => display[p] = Char
              /\ typed /\ p = keyboard_output => display[p] = Cursor
        /\ place = "waiting" /\ ~disturbed =>
              \A k \in 1 .. MessageLength : display[MessageCell + k - 1] = k

\* The type of the state.
ScreenTypeOK ==
    /\ place \in {"counting", "printing", "waiting", "home"}
    /\ DI \in 0 .. ScreenSize /\ shown \in 0 .. MessageLength
    /\ display \in [Cells -> -3 .. MessageLength] /\ keyboard_output \in Cells
    /\ {exit_flag, typed, disturbed} \subseteq BOOLEAN
=============================================================================
