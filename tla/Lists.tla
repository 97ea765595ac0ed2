------------------------------- MODULE Lists --------------------------------
(***************************************************************************)
(* The doubly linked lists of lab8/libs/list.h, pointer by pointer. A list *)
(* is a record of two functions from nodes to nodes, next and prev; the    *)
(* list head is a node like any other.                                     *)
(***************************************************************************)
EXTENDS Naturals

\* prev and next may be the same node, and either may be elm.
__list_add(l, elm, prev, next) ==
    [next |-> [l.next EXCEPT ![prev] = elm, ![elm] = next],
     prev |-> [l.prev EXCEPT ![next] = elm, ![elm] = prev]]

list_add(l, listelm, elm) == __list_add(l, elm, listelm, l.next[listelm])

list_add_before(l, listelm, elm) == __list_add(l, elm, l.prev[listelm], listelm)

\* elm keeps its own pointers.
list_del(l, elm) ==
    [next |-> [l.next EXCEPT ![l.prev[elm]] = l.next[elm]],
     prev |-> [l.prev EXCEPT ![l.next[elm]] = l.prev[elm]]]

list_empty(l, head) == l.next[head] = head
=============================================================================
