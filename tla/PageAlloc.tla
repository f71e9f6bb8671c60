------------------------------ MODULE PageAlloc ------------------------------
(***************************************************************************)
(* What the page allocator of mm.h promises its callers: blocks of 2^order *)
(* page frames, aligned to their size, that do not overlap while they are  *)
(* held, and a null pointer only when no such block exists.                *)
(***************************************************************************)
EXTENDS Integers

CONSTANTS
    MAX_ORDER,
    NrBlocks,      \* blocks of order MAX_ORDER in the pool
    NULL           \* the null pointer, no page frame number

VARIABLES
    held,          \* the blocks the callers hold, as <<pfn, order>>
    ret            \* what the last allocation returned

vars == <<held, ret>>

Orders == 0 .. MAX_ORDER
Frames == 0 .. NrBlocks * 2^MAX_ORDER - 1

\* The page frames of the block of order o at pfn.
Span(pfn, o) == pfn .. pfn + 2^o - 1

HeldFrames == UNION {Span(b[1], b[2]) : b \in held}

\* The aligned blocks of order o in which no page frame is held.
Available(o) ==
    {pfn \in Frames : pfn % 2^o = 0 /\ Span(pfn, o) \cap HeldFrames = {}}

Init == held = {} /\ ret = NULL

Alloc(o) ==
    \/ \E pfn \in Available(o) :
         held' = held \cup {<<pfn, o>>} /\ ret' = pfn
    \/ Available(o) = {} /\ ret' = NULL /\ UNCHANGED held

Free(b) == held' = held \ {b} /\ UNCHANGED ret

Next ==
    \/ \E o \in Orders : Alloc(o)
    \/ \E b \in held : Free(b)

Spec == Init /\ [][Next]_vars
=============================================================================
