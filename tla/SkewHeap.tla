------------------------------ MODULE SkewHeap ------------------------------
(***************************************************************************)
(* The skew heap of libs/skew_heap.h: entries linked by left, right and    *)
(* parent pointers, NULL where there is none. A heap is the record of all  *)
(* links; comp[<<a, b>>] is the value the compare_f passed to an operation *)
(* returns, -1, 0 or 1.                                                    *)
(***************************************************************************)
EXTENDS Integers, FiniteSets

CONSTANT NULL       \* no entry

\* The links of the entries E, the skew_heap_entry of every object there is.
Heaps(E) == [left   : [E -> E \cup {NULL}],
             right  : [E -> E \cup {NULL}],
             parent : [E -> E \cup {NULL}]]

Entries(h) == DOMAIN h.left

skew_heap_init(h, a) ==
    [left   |-> [h.left EXCEPT ![a] = NULL],
     right  |-> [h.right EXCEPT ![a] = NULL],
     parent |-> [h.parent EXCEPT ![a] = NULL]]

\* top keeps its left child on the right and gets the subtree low on the left.
SetChildren(h, top, low) ==
    [left   |-> [low.heap.left EXCEPT ![top] = low.root],
     right  |-> [low.heap.right EXCEPT ![top] = h.left[top]],
     parent |-> IF low.root = NULL THEN low.heap.parent
                ELSE [low.heap.parent EXCEPT ![low.root] = top]]

\* Mutant: the larger of two entries comes out on top.
OnTop_larger(a, b, comp) == comp[<<a, b>>] = 1

\* Which of two roots stays a root; of equal ones it is the second.
OnTop(a, b, comp) == comp[<<a, b>>] = -1

\* A call for two trees: the root of the merged tree and the links. below[<<x, y>>]
\* is what the recursive call returns. It changes nothing below the left child
\* of the root it leaves on top.
Merge(h, comp, below, a, b) ==
    IF a = NULL THEN [root |-> b, heap |-> h]
    ELSE IF b = NULL THEN [root |-> a, heap |-> h]
    ELSE IF OnTop(a, b, comp)
      THEN [root |-> a, heap |-> SetChildren(h, a, below[<<h.right[a], b>>])]
      ELSE [root |-> b, heap |-> SetChildren(h, b, below[<<a, h.right[b]>>])]

\* A call goes one entry down, so that at most as many as there are entries go on.
skew_heap_merge(h, x, y, comp) ==
    LET Roots == (Entries(h) \cup {NULL}) \X (Entries(h) \cup {NULL})
        merge[n \in 0..Cardinality(Entries(h))] ==
          [q \in Roots |->
             IF n = 0 THEN [root |-> IF q[1] = NULL THEN q[2] ELSE q[1], heap |-> h]
             ELSE Merge(h, comp, merge[n - 1], q[1], q[2])]
    IN  merge[Cardinality(Entries(h))][<<x, y>>]

\* Mutant: the entry keeps the links it had when it was queued before.
skew_heap_insert_no_init(h, a, b, comp) ==
    skew_heap_merge(h, a, b, comp)

skew_heap_insert(h, a, b, comp) ==
    skew_heap_merge(skew_heap_init(h, b), a, b, comp)

\* Take b out of the heap with root a; the new root.
skew_heap_remove(h, a, b, comp) ==
    LET p   == h.parent[b]
        rep == skew_heap_merge(h, h.left[b], h.right[b], comp)
        g   == IF rep.root = NULL THEN rep.heap
               ELSE [rep.heap EXCEPT !.parent[rep.root] = p]
    IN  IF p = NULL THEN [root |-> rep.root, heap |-> g]
        ELSE [root |-> a,
              heap |-> IF g.left[p] = b THEN [g EXCEPT !.left[p] = rep.root]
                       ELSE [g EXCEPT !.right[p] = rep.root]]

-----------------------------------------------------------------------------
(* What an observer of the links sees *)

Children(h, a) == {h.left[a], h.right[a]} \ {NULL}

\* The entries within n links below a.
Within(h, a, n) ==
    LET below[k \in 0..n] ==
          IF k = 0 THEN {a} \ {NULL}
          ELSE below[k - 1] \cup UNION {Children(h, e) : e \in below[k - 1]}
    IN  below[n]

Members(h, a) == Within(h, a, Cardinality(Entries(h)))

\* The links below root a form a tree and the parent pointers are its inverse.
IsTree(h, a) ==
    /\ a # NULL => h.parent[a] = NULL
    /\ \A e \in Members(h, a) :
         /\ \A c \in Children(h, e) : h.parent[c] = e /\ c # a
         /\ h.left[e] = NULL \/ h.left[e] # h.right[e]
=============================================================================
