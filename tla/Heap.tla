-------------------------------- MODULE Heap --------------------------------
(***************************************************************************)
(* What malloc and free promise their caller, with nothing of how.         *)
(*                                                                         *)
(* A call asks for a number of bytes.  It is answered with a block that    *)
(* holds them (and the allocator's own header), lies inside the heap, is   *)
(* aligned to its size and shares no unit with a block handed out before   *)
(* and not yet freed; or it is refused, which the allocator may do only    *)
(* when no such block exists or the system denied it memory meanwhile.     *)
(***************************************************************************)
EXTENDS Integers

CONSTANTS
    HeapUnits,      \* units of the whole heap
    UnitBytes,      \* bytes of a unit
    BlockSizes,     \* the sizes, in units, a block may have
    Overhead,       \* bytes of a block the caller cannot use
    RequestSizes    \* sizes, in bytes, callers ask for

VARIABLES
    live,           \* the blocks callers hold: records [at, size]
    asked,          \* the request being served, or NoRequest
    denied          \* the system denied memory to the request being served

NoRequest == -1

Block == [at : 0 .. HeapUnits - 1, size : BlockSizes]
Overlap(x, y) == x.at < y.at + y.size /\ y.at < x.at + x.size

Fits(b, n) ==
    /\ UnitBytes * b.size >= n + Overhead
    /\ b.at + b.size <= HeapUnits
    /\ b.at % b.size = 0
Vacant(b) == \A x \in live : ~Overlap(b, x)

Init == live = {} /\ asked = NoRequest /\ ~denied

Ask(n) == /\ asked = NoRequest
          /\ asked' = n
          /\ UNCHANGED <<live, denied>>

Deny == /\ asked # NoRequest
        /\ denied' = TRUE
        /\ UNCHANGED <<live, asked>>

Grant == /\ asked # NoRequest /\ ~denied
         /\ \E b \in Block : Fits(b, asked) /\ Vacant(b) /\ live' = live \union {b}
         /\ asked' = NoRequest
         /\ UNCHANGED denied

\* Either the system denied memory or no block that fits is vacant.
Refuse == /\ asked # NoRequest
          /\ denied \/ \A b \in Block : Fits(b, asked) => ~Vacant(b)
          /\ asked' = NoRequest
          /\ denied' = FALSE
          /\ UNCHANGED live

Release == /\ asked = NoRequest
           /\ \E b \in live : live' = live \ {b}
           /\ UNCHANGED <<asked, denied>>

Next == (\E n \in RequestSizes : Ask(n)) \/ Deny \/ Grant \/ Refuse \/ Release

Spec == Init /\ [][Next]_<<live, asked, denied>>
=============================================================================
