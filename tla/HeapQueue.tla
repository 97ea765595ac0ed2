------------------------------ MODULE HeapQueue -----------------------------
(***************************************************************************)
(* A run pool kept in a skew heap, as stride_enqueue and stride_dequeue    *)
(* keep one: entries are inserted and removed in any order, the root, an   *)
(* inner entry or a leaf. Keys do not change while an entry is queued.     *)
(***************************************************************************)
EXTENDS SkewHeap

CONSTANTS
    Item,       \* the entries
    key         \* of every entry

ASSUME HeapQueueAssumption ==
    /\ IsFiniteSet(Item) /\ NULL \notin Item
    /\ key \in [Item -> Int]

VARIABLES
    links,      \* the links of all entries, stale ones included
    run_pool,   \* the root
    queued      \* history: the entries inserted and not removed since

heapvars == << links, run_pool, queued >>

compare_f == [e \in Item \X Item |->
                IF key[e[1]] > key[e[2]] THEN 1
                ELSE IF key[e[1]] = key[e[2]] THEN 0 ELSE -1]

HeapInit ==
    /\ links = [left   |-> [e \in Item |-> NULL],
               right  |-> [e \in Item |-> NULL],
               parent |-> [e \in Item |-> NULL]]
    /\ run_pool = NULL
    /\ queued = {}

HeapInsert(e) ==
    LET after == skew_heap_insert(links, run_pool, e, compare_f)
    IN  /\ e \notin queued
        /\ links' = after.heap
        /\ run_pool' = after.root
        /\ queued' = queued \cup {e}

HeapRemove(e) ==
    LET after == skew_heap_remove(links, run_pool, e, compare_f)
    IN  /\ e \in queued
        /\ links' = after.heap
        /\ run_pool' = after.root
        /\ queued' = queued \ {e}

HeapNext == \E e \in Item : HeapInsert(e) \/ HeapRemove(e)

HeapSpec == HeapInit /\ [][HeapNext]_heapvars

-----------------------------------------------------------------------------
(* Properties *)

\* Whatever was removed, from the root, the middle or the bottom, and put back,
\* with the links it had then: the pointers skew_heap_merge and
\* skew_heap_remove leave behind form one tree that holds exactly the queued
\* entries, and every parent pointer in it is right, so that the next
\* skew_heap_remove finds the place of its entry.
TreeExact == IsTree(links, run_pool) /\ Members(links, run_pool) = queued

\* The heap is a priority queue: its root has the smallest key at any time.
Queue == INSTANCE PriorityQueue
           WITH Entry <- Item, NoEntry <- NULL,
                queue <- Members(links, run_pool), front <- run_pool

IsPriorityQueue == Queue!Spec

\* The links an entry keeps after its removal are written before they are read,
\* so states that differ only in them are the same.
QueuedView ==
    << run_pool, queued, [e \in queued |-> << links.left[e], links.right[e],
                                              links.parent[e] >>] >>
=============================================================================
