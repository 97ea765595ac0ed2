---------------------------- MODULE Philosophers ----------------------------
(***************************************************************************)
(* The table of lab8/kern/sync/check_sync.c: who sits next to whom.        *)
(***************************************************************************)
EXTENDS Integers

CONSTANTS
    N,              \* philosophers, numbered from 0; with one there is no neighbour
    TIMES           \* meals of each

ASSUME PhilosophersAssumption ==
    /\ N \in Nat \ {0, 1}
    /\ TIMES \in Nat \ {0}

Phil == 0..N - 1

LEFT(i) == (i - 1 + N) % N

RIGHT(i) == (i + 1) % N
=============================================================================
