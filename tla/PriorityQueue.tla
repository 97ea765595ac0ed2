---------------------------- MODULE PriorityQueue ---------------------------
(***************************************************************************)
(* What a scheduling class wants of its run pool: a set of entries that    *)
(* come and go in any order, of which one with the smallest key is known.  *)
(***************************************************************************)
EXTENDS Integers

CONSTANTS
    Entry,
    NoEntry,
    key         \* the key of every entry

VARIABLES
    queue,      \* the entries queued
    front       \* one of them with the smallest key, if there is any

IsFront(e, Q) ==
    IF Q = {} THEN e = NoEntry
    ELSE e \in Q /\ \A f \in Q : key[e] <= key[f]

Init == queue = {} /\ front = NoEntry

Put(e) ==
    /\ e \notin queue
    /\ queue' = queue \cup {e}
    /\ front' \in Entry
    /\ IsFront(front', queue')

Take(e) ==
    /\ e \in queue
    /\ queue' = queue \ {e}
    /\ front' \in Entry \cup {NoEntry}
    /\ IsFront(front', queue')

Next == \E e \in Entry : Put(e) \/ Take(e)

Spec == Init /\ [][Next]_<< queue, front >>
=============================================================================
