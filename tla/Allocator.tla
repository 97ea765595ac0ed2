----------------------------- MODULE Allocator ------------------------------
(***************************************************************************)
(* What an allocator promises, whatever its lists look like: it hands out  *)
(* runs of cells that nobody holds. Cells are pages for the page           *)
(* allocators and units for the kernel heap.                               *)
(***************************************************************************)
EXTENDS Integers

CONSTANT NCELLS     \* cells there are at most

Cell == 0..NCELLS - 1

VARIABLE taken      \* the cells in use

Init == taken = {}

\* n cells from at are handed out.
Get(at, n) ==
    /\ (at..at + n - 1) \cap taken = {}
    /\ taken' = taken \cup (at..at + n - 1)

\* n cells from at come back.
Give(at, n) ==
    /\ at..at + n - 1 \subseteq taken
    /\ taken' = taken \ (at..at + n - 1)

Next == \E n \in 1..NCELLS : \E at \in 0..NCELLS - n : Get(at, n) \/ Give(at, n)

Spec == Init /\ [][Next]_taken
=============================================================================
