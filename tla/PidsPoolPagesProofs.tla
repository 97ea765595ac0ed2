------------------------- MODULE PidsPoolPagesProofs -------------------------
(***************************************************************************)
(* The skew heap of libs/skew_heap.h for any number of entries, and the    *)
(* run pool the stride class keeps in one, for any number of processes.    *)
(*                                                                         *)
(* A tree is described by the set sub[e] of the entries below each entry e *)
(* of it, e included. So a tree is taken apart, put together and cut in    *)
(* the middle without induction; only the recursion of skew_heap_merge and *)
(* the walk of an observer from the root need it.                          *)
(*                                                                         *)
(* le says which of two entries may be above the other: by their keys for  *)
(* HeapQueue; any, for a pool whose strides have overflowed; and by what the *)
(* processes have really used for one whose strides have not.              *)
(*                                                                         *)
(* Then get_pid, which never gives two processes the same pid, whatever    *)
(* their number and MAX_PID.                                               *)
(*                                                                         *)
(* At the end the first-fit and the best-fit page allocator, for any       *)
(* number of pages. FitExact says of the list with all its links, of the   *)
(* lengths and of the flags that they are the free pages in blocks that do *)
(* not touch; of a walk along the list it is shown that it sees every      *)
(* block once, in ascending order, and comes back to the head.             *)
(***************************************************************************)
EXTENDS HeapQueue, Stride, Pids, EitherFit, Queues

Sub(sub, e) == IF e = NULL THEN {} ELSE sub[e]

\* The children of e are the roots of two separate trees.
Node(h, S, sub, e) ==
    /\ h.left[e] \in S \cup {NULL} /\ h.right[e] \in S \cup {NULL}
    /\ sub[e] = {e} \cup Sub(sub, h.left[e]) \cup Sub(sub, h.right[e])
    /\ e \notin Sub(sub, h.left[e]) /\ e \notin Sub(sub, h.right[e])
    /\ Sub(sub, h.left[e]) \cap Sub(sub, h.right[e]) = {}

\* Every pointer to a child has its parent pointer.
PointsBack(h, e) ==
    /\ h.left[e] # NULL => h.parent[h.left[e]] = e
    /\ h.right[e] # NULL => h.parent[h.right[e]] = e

\* e is the child of its parent.
HasParent(h, S, e) ==
    /\ h.parent[e] \in S
    /\ h.left[h.parent[e]] = e \/ h.right[h.parent[e]] = e

\* The entries S are a tree below r, in which e comes above f only if le has the
\* pair. The parent pointer of r itself is left open.
Tree(h, r, S, sub, le) ==
    /\ sub \in [S -> SUBSET S]
    /\ IF r = NULL THEN S = {} ELSE r \in S /\ sub[r] = S
    /\ \A e \in S : Node(h, S, sub, e) /\ PointsBack(h, e)
    /\ \A e \in S : e # r => HasParent(h, S, e)
    /\ \A e \in S : \A x \in sub[e] : sub[x] \subseteq sub[e] /\ <<e, x>> \in le
    /\ \A e, f \in S : \A x \in sub[e] \cap sub[f] : e \in sub[f] \/ f \in sub[e]

\* comp puts x above y only if le has the pair.
Agrees(le, comp, S) ==
    \A x, y \in S : IF OnTop(x, y, comp) THEN <<x, y>> \in le ELSE <<y, x>> \in le

Order(le, S) ==
    /\ \A x \in S : <<x, x>> \in le
    /\ \A x, y, z \in S : <<x, y>> \in le /\ <<y, z>> \in le => <<x, z>> \in le

-----------------------------------------------------------------------------
(* Trees *)

\* Of two entries only one can be above the other.
LEMMA OneAbove ==
    ASSUME NEW h, NEW r, NEW S, NEW sub, NEW le, Tree(h, r, S, sub, le), NULL \notin S,
           NEW e \in S, NEW b \in S, e \in sub[b], b \in sub[e]
    PROVE  e = b
<1> SUFFICES ASSUME e # b PROVE FALSE
  OBVIOUS
<1>1. Node(h, S, sub, b)
  BY DEF Tree
<1>2. PICK c \in {h.left[b], h.right[b]} : e \in Sub(sub, c)
  BY <1>1 DEF Node
<1>3. c \in S /\ Sub(sub, c) = sub[c]
  BY <1>1, <1>2 DEF Node, Sub
<1>4. sub[e] \subseteq sub[c]
  BY <1>2, <1>3 DEF Tree
<1>5. b \notin sub[c]
  BY <1>1, <1>2, <1>3 DEF Node
<1> QED  BY <1>4, <1>5

\* The entries below c, an entry or NULL, are a tree.
LEMMA Subtree ==
    ASSUME NEW h, NEW r, NEW S, NEW sub, NEW le, Tree(h, r, S, sub, le), NULL \notin S,
           NEW c \in S \cup {NULL}
    PROVE  Tree(h, c, Sub(sub, c), [e \in Sub(sub, c) |-> sub[e]], le)
<1>1. CASE c = NULL
  BY <1>1 DEF Tree, Sub
<1>2. CASE c # NULL
  <2> DEFINE C == sub[c]
             new == [e \in C |-> sub[e]]
  <2>1. c \in S /\ Sub(sub, c) = C /\ C \subseteq S /\ c \in C
    BY <1>2 DEF Sub, Tree, Node
  <2>2. ASSUME NEW e \in C PROVE sub[e] \subseteq C /\ new[e] = sub[e] /\ e \in S
    BY <2>1 DEF Tree
  <2>3. new \in [C -> SUBSET C]
    BY <2>2
  <2>4. new[c] = C
    BY <2>1
  <2> HIDE DEF new
  <2>5. ASSUME NEW e \in C PROVE Node(h, C, new, e) /\ PointsBack(h, e)
    <3>1. Node(h, S, sub, e) /\ PointsBack(h, e)
      BY <2>2 DEF Tree
    <3>2. ASSUME NEW d \in {h.left[e], h.right[e]}
          PROVE  d \in C \cup {NULL} /\ Sub(new, d) = Sub(sub, d)
      <4>1. CASE d = NULL
        BY <4>1 DEF Sub
      <4>2. CASE d # NULL
        <5>1. d \in S /\ Sub(sub, d) = sub[d] /\ d \in sub[d] /\ sub[d] \subseteq sub[e]
          <6>1. d \in S
            BY <3>1, <4>2 DEF Node
          <6>2. d \in sub[d]
            BY <6>1 DEF Tree, Node
          <6> QED  BY <3>1, <4>2, <6>1, <6>2 DEF Node, Sub
        <5> QED  BY <4>2, <5>1, <2>2 DEF Sub
      <4> QED  BY <4>1, <4>2
    <3> QED  BY <2>2, <3>1, <3>2 DEF Node
  <2>6. ASSUME NEW e \in C, e # c PROVE HasParent(h, C, e)
    <3>1. e # r
      <4> SUFFICES ASSUME e = r PROVE FALSE
        OBVIOUS
      <4>1. r \in S /\ sub[r] = S
        BY <2>1, <2>2 DEF Tree
      <4> QED  BY <2>1, <2>6, <4>1, OneAbove
    <3>2. HasParent(h, S, e)
      BY <2>2, <3>1 DEF Tree
    <3> DEFINE p == h.parent[e]
    <3>3. p \in S /\ (h.left[p] = e \/ h.right[p] = e)
      BY <3>2 DEF HasParent
    <3> HIDE DEF p
    <3>4. Node(h, S, sub, p)
      BY <3>3 DEF Tree
    <3>5. e \in sub[e] /\ e # NULL /\ sub[e] \subseteq sub[p]
      <4>1. e \in sub[e] /\ e # NULL
        BY <2>2 DEF Tree, Node
      <4> QED  BY <3>3, <3>4, <4>1 DEF Node, Sub
    <3>6. p \in C
      <4> SUFFICES ASSUME p \notin C PROVE FALSE
        OBVIOUS
      <4>1. c \in sub[p] /\ c # p
        <5>1. p \in sub[c] \/ c \in sub[p]
          BY <2>1, <2>2, <3>3, <3>5 DEF Tree
        <5> QED  BY <2>1, <5>1
      <4>2. PICK d \in {h.left[p], h.right[p]} : c \in Sub(sub, d)
        BY <3>4, <4>1 DEF Node
      <4>3. d \in S /\ Sub(sub, d) = sub[d]
        BY <3>4, <4>2 DEF Node, Sub
      <4>4. e \in sub[d]
        BY <2>1, <4>2, <4>3 DEF Tree
      <4>5. d = e
        BY <3>3, <3>4, <3>5, <4>2, <4>3, <4>4 DEF Node, Sub
      <4> QED  BY <2>1, <2>2, <2>6, <4>2, <4>3, <4>5, OneAbove
    <3> QED  BY <3>3, <3>6 DEF HasParent, p
  <2>7. \A e \in C : \A x \in new[e] : new[x] \subseteq new[e] /\ <<e, x>> \in le
    BY <2>2 DEF Tree
  <2>8. \A e, f \in C : \A x \in new[e] \cap new[f] : e \in new[f] \/ f \in new[e]
    BY <2>2 DEF Tree
  <2>9. Tree(h, c, C, new, le)
    BY <1>2, <2>1, <2>3, <2>4, <2>5, <2>6, <2>7, <2>8 DEF Tree
  <2> QED  BY <2>1, <2>9 DEF new
<1> QED  BY <1>1, <1>2

\* A tree stays one while only other entries and the parent pointer of its root
\* are written.
LEMMA Untouched ==
    ASSUME NEW h, NEW g, NEW r, NEW S, NEW sub, NEW le, Tree(h, r, S, sub, le),
           NULL \notin S,
           \A e \in S : g.left[e] = h.left[e] /\ g.right[e] = h.right[e],
           \A e \in S \ {r} : g.parent[e] = h.parent[e]
    PROVE  Tree(g, r, S, sub, le)
<1>1. ASSUME NEW e \in S PROVE Node(g, S, sub, e) /\ PointsBack(g, e)
  <2>1. Node(h, S, sub, e) /\ PointsBack(h, e) /\ r \in S /\ sub[r] = S
    BY DEF Tree
  <2>2. ASSUME NEW d \in {h.left[e], h.right[e]}, d # NULL PROVE d \in S \ {r}
    BY <2>1, <2>2 DEF Node, Sub
  <2> QED  BY <2>1, <2>2 DEF Node, PointsBack
<1>2. ASSUME NEW e \in S, e # r PROVE HasParent(g, S, e)
  BY <1>2 DEF Tree, HasParent
<1> QED  BY <1>1, <1>2 DEF Tree

\* An entry r on top of two trees.
LEMMA Joined ==
    ASSUME NEW h, NEW le, NEW r, r # NULL,
           NEW A, NEW s, Tree(h, h.left[r], A, s, le),
           NEW B, NEW t, Tree(h, h.right[r], B, t, le),
           NULL \notin A, NULL \notin B, A \cap B = {}, r \notin A, r \notin B,
           PointsBack(h, r), <<r, r>> \in le, \A x \in A \cup B : <<r, x>> \in le
    PROVE  \E sub : Tree(h, r, {r} \cup A \cup B, sub, le)
<1> DEFINE S == {r} \cup A \cup B
           sub == [e \in S |-> IF e = r THEN S ELSE IF e \in A THEN s[e] ELSE t[e]]
<1>1. /\ sub[r] = S
      /\ \A e \in A : sub[e] = s[e] /\ s[e] \subseteq A
      /\ \A e \in B : sub[e] = t[e] /\ t[e] \subseteq B
  BY DEF Tree
<1>2. sub \in [S -> SUBSET S]
  BY <1>1
<1> HIDE DEF sub
<1>3. ASSUME NEW e \in A
      PROVE  /\ Node(h, S, sub, e) /\ PointsBack(h, e)
             /\ e # h.left[r] => HasParent(h, S, e)
  <2>1. Node(h, A, s, e) /\ PointsBack(h, e) /\ (e # h.left[r] => HasParent(h, A, e))
    BY DEF Tree
  <2>2. \A d \in {h.left[e], h.right[e]} : d \in A \cup {NULL} /\ Sub(sub, d) = Sub(s, d)
    BY <1>1, <2>1 DEF Node, Sub
  <2> QED  BY <1>1, <2>1, <2>2 DEF Node, HasParent
<1>4. ASSUME NEW e \in B
      PROVE  /\ Node(h, S, sub, e) /\ PointsBack(h, e)
             /\ e # h.right[r] => HasParent(h, S, e)
  <2>1. Node(h, B, t, e) /\ PointsBack(h, e) /\ (e # h.right[r] => HasParent(h, B, e))
    BY DEF Tree
  <2>2. \A d \in {h.left[e], h.right[e]} : d \in B \cup {NULL} /\ Sub(sub, d) = Sub(t, d)
    BY <1>1, <2>1 DEF Node, Sub
  <2> QED  BY <1>1, <2>1, <2>2 DEF Node, HasParent
<1>5. Sub(sub, h.left[r]) = A /\ Sub(sub, h.right[r]) = B
  BY <1>1 DEF Tree, Sub
<1>6. h.left[r] \in A \cup {NULL} /\ h.right[r] \in B \cup {NULL}
  BY DEF Tree
<1>7. Node(h, S, sub, r)
  BY <1>1, <1>5, <1>6 DEF Node
<1>8. ASSUME NEW e \in S, e # r PROVE HasParent(h, S, e)
  <2>1. CASE e = h.left[r] \/ e = h.right[r]
    <3>1. e # NULL
      BY <1>8
    <3>2. h.parent[e] = r
      BY <2>1, <3>1 DEF PointsBack
    <3> QED  BY <2>1, <3>2 DEF HasParent
  <2>2. CASE ~(e = h.left[r] \/ e = h.right[r])
    BY <1>3, <1>4, <1>8, <2>2
  <2> QED  BY <2>1, <2>2
<1>9. ASSUME NEW e \in S, NEW x \in sub[e] PROVE sub[x] \subseteq sub[e] /\ <<e, x>> \in le
  <2>1. CASE e = r
    BY <1>1, <2>1
  <2>2. CASE e \in A
    BY <1>1, <2>2 DEF Tree
  <2>3. CASE e \in B
    BY <1>1, <2>3 DEF Tree
  <2> QED  BY <2>1, <2>2, <2>3
<1>10. ASSUME NEW e \in S, NEW f \in S, NEW x \in sub[e] \cap sub[f]
       PROVE  e \in sub[f] \/ f \in sub[e]
  <2>1. CASE e = r \/ f = r
    BY <1>1, <2>1
  <2>2. CASE e \in A /\ f \in A
    BY <1>1, <2>2 DEF Tree
  <2>3. CASE e \in B /\ f \in B
    BY <1>1, <2>3 DEF Tree
  <2> QED  BY <1>1, <2>1, <2>2, <2>3
<1>11. Tree(h, r, S, sub, le)
  BY <1>1, <1>2, <1>3, <1>4, <1>7, <1>8, <1>9, <1>10 DEF Tree
<1> QED  BY <1>11

-----------------------------------------------------------------------------
(* skew_heap_merge *)

Results(E) == [root : E \cup {NULL}, heap : Heaps(E)]

Roots(h) == (Entries(h) \cup {NULL}) \X (Entries(h) \cup {NULL})

\* The recursive function of skew_heap_merge.
IsMerge(f, h, comp) ==
    f = [n \in 0..Cardinality(Entries(h)) |->
          [q \in Roots(h) |->
             IF n = 0 THEN [root |-> IF q[1] = NULL THEN q[2] ELSE q[1], heap |-> h]
             ELSE Merge(h, comp, f[n - 1], q[1], q[2])]]

\* What the links of a heap are.
LEMMA HeapTypes ==
    ASSUME NEW E, NEW h \in Heaps(E)
    PROVE  /\ Entries(h) = E
           /\ h.left \in [E -> E \cup {NULL}] /\ h.right \in [E -> E \cup {NULL}]
           /\ h.parent \in [E -> E \cup {NULL}]
BY DEF Heaps, Entries

\* What SetChildren writes.
LEMMA ChildrenSet ==
    ASSUME NEW E, NEW h \in Heaps(E), NEW top \in E, NEW low \in Results(E)
    PROVE  /\ SetChildren(h, top, low) \in Heaps(E)
           /\ SetChildren(h, top, low).left[top] = low.root
           /\ SetChildren(h, top, low).right[top] = h.left[top]
           /\ \A e \in E \ {top} :
                /\ SetChildren(h, top, low).left[e] = low.heap.left[e]
                /\ SetChildren(h, top, low).right[e] = low.heap.right[e]
           /\ \A e \in E :
                SetChildren(h, top, low).parent[e] =
                  IF e = low.root /\ low.root # NULL THEN top ELSE low.heap.parent[e]
<1>1. low.root \in E \cup {NULL} /\ low.heap \in Heaps(E)
  BY DEF Results
<1>2. /\ low.heap.left \in [E -> E \cup {NULL}]
      /\ low.heap.right \in [E -> E \cup {NULL}]
      /\ low.heap.parent \in [E -> E \cup {NULL}]
      /\ h.left[top] \in E \cup {NULL}
  BY <1>1, HeapTypes
<1> DEFINE left   == [low.heap.left EXCEPT ![top] = low.root]
           right  == [low.heap.right EXCEPT ![top] = h.left[top]]
           parent == IF low.root = NULL THEN low.heap.parent
                     ELSE [low.heap.parent EXCEPT ![low.root] = top]
<1>3. /\ left \in [E -> E \cup {NULL}] /\ left[top] = low.root
      /\ \A e \in E \ {top} : left[e] = low.heap.left[e]
  BY <1>1, <1>2
<1>4. /\ right \in [E -> E \cup {NULL}] /\ right[top] = h.left[top]
      /\ \A e \in E \ {top} : right[e] = low.heap.right[e]
  BY <1>2
<1>5. /\ parent \in [E -> E \cup {NULL}]
      /\ \A e \in E : parent[e] = IF e = low.root /\ low.root # NULL THEN top
                                  ELSE low.heap.parent[e]
  BY <1>1, <1>2
<1>6. SetChildren(h, top, low) = [left |-> left, right |-> right, parent |-> parent]
  BY DEF SetChildren
<1> HIDE DEF left, right, parent
<1> QED  BY <1>3, <1>4, <1>5, <1>6 DEF Heaps

\* The recursion ends, whatever the links are.
LEMMA MergeExists ==
    ASSUME NEW E, IsFiniteSet(E), NEW h \in Heaps(E), NEW comp
    PROVE  \E f : IsMerge(f, h, comp)
<1> DEFINE N == Cardinality(E)
           R == E \cup {NULL}
           T == [R \X R -> Results(E)]
           first == [q \in R \X R |->
                       [root |-> IF q[1] = NULL THEN q[2] ELSE q[1], heap |-> h]]
           Turn(m) == [q \in R \X R |-> Merge(h, comp, m, q[1], q[2])]
           next == [x \in Nat \X T |-> Turn(x[2])]
<1>1. N \in Nat
  BY FS_CardinalityType
<1>2. \A e \in E : h.right[e] \in R
  BY HeapTypes
<1>3. first \in T
  BY DEF Results
<1>4. ASSUME NEW m \in T PROVE Turn(m) \in T
  <2>1. ASSUME NEW a \in R, NEW b \in R PROVE Merge(h, comp, m, a, b) \in Results(E)
    <3>1. CASE a = NULL \/ b = NULL
      BY <3>1 DEF Results, Merge
    <3>2. CASE a # NULL /\ b # NULL
      <4>1. a \in E /\ b \in E
        BY <3>2
      <4>2. m[<<h.right[a], b>>] \in Results(E) /\ m[<<a, h.right[b]>>] \in Results(E)
        BY <1>2, <4>1
      <4>3. /\ SetChildren(h, a, m[<<h.right[a], b>>]) \in Heaps(E)
            /\ SetChildren(h, b, m[<<a, h.right[b]>>]) \in Heaps(E)
        BY <4>1, <4>2, ChildrenSet
      <4> QED  BY <3>2, <4>3 DEF Results, Merge
    <3> QED  BY <3>1, <3>2
  <2>2. \A q \in R \X R : Merge(h, comp, m, q[1], q[2]) \in Results(E)
    BY <2>1
  <2> QED  BY <2>2
<1>5. next \in [Nat \X T -> T]
  <2> HIDE DEF T, Turn
  <2> QED  BY <1>4
<1>6. PICK f : Steps(f, T, first, next, N)
  <2> HIDE DEF N, T, first, next
  <2> QED  BY <1>1, <1>3, <1>5, Recursion
<1> DEFINE Level(n) == [q \in R \X R |->
             IF n = 0 THEN [root |-> IF q[1] = NULL THEN q[2] ELSE q[1], heap |-> h]
             ELSE Merge(h, comp, f[n - 1], q[1], q[2])]
<1>7. ASSUME NEW n \in 0..N PROVE f[n] = Level(n)
  <2>1. CASE n = 0
    <3>1. f[n] = first
      <4> HIDE DEF first, next
      <4> QED  BY <1>6, <2>1 DEF Steps
    <3> QED  BY <2>1, <3>1
  <2>2. CASE n # 0
    <3>1. n - 1 \in 0..N /\ n \in Nat
      BY <1>1, <2>2
    <3>2. f[n - 1] \in T
      <4> HIDE DEF T, first, next
      <4> QED  BY <1>6, <3>1 DEF Steps
    <3>3. f[n] = Turn(f[n - 1])
      <4> HIDE DEF T, Turn
      <4>1. f[n] = next[<<n, f[n - 1]>>]
        <5> HIDE DEF first, next
        <5> QED  BY <1>6, <2>2 DEF Steps
      <4> QED  BY <3>1, <3>2, <4>1
    <3> HIDE DEF T
    <3> QED  BY <2>2, <3>3
  <2> QED  BY <2>1, <2>2
<1>8. f = [n \in 0..N |-> Level(n)]
  <2> HIDE DEF Level, T, first, next
  <2> QED  BY <1>6, <1>7 DEF Steps
<1>9. IsMerge(f, h, comp)
  BY <1>8, HeapTypes DEF IsMerge, Roots
<1> QED  BY <1>9

\* w is the merge of two trees of h with the roots and the entries S.
Merged(w, h, E, roots, S, le) ==
    /\ w \in Results(E) /\ w.root \in roots
    /\ \E sub : Tree(w.heap, w.root, S, sub, le)
    /\ \A e \in E \ S : /\ w.heap.left[e] = h.left[e]
                        /\ w.heap.right[e] = h.right[e]
                        /\ w.heap.parent[e] = h.parent[e]
    /\ w.root # NULL => w.heap.parent[w.root] = h.parent[w.root]

\* The root top gets the merge of its right subtree and the other tree.
LEMMA MergeBelow ==
    ASSUME NEW E, NULL \notin E, NEW h \in Heaps(E), NEW le,
           NEW A \in SUBSET E, NEW B \in SUBSET E, A \cap B = {}, Order(le, A \cup B),
           NEW top, NEW s, Tree(h, top, A, s, le), top # NULL,
           NEW b, NEW t, Tree(h, b, B, t, le), b # NULL, <<top, b>> \in le,
           NEW low,
           Merged(low, h, E, {h.right[top], b}, Sub(s, h.right[top]) \cup B, le)
    PROVE  /\ low \in Results(E)
           /\ Merged([root |-> top, heap |-> SetChildren(h, top, low)], h, E,
                     {top, b}, A \cup B, le)
<1> DEFINE R == Sub(s, h.right[top])
           L == Sub(s, h.left[top])
           g == SetChildren(h, top, low)
<1>1. low \in Results(E) /\ low.root \in E \cup {NULL} /\ low.heap \in Heaps(E)
  BY DEF Merged, Results
<1>2. /\ top \in A /\ s[top] = A /\ top \in E
      /\ b \in B /\ t[b] = B
      /\ Node(h, A, s, top) /\ PointsBack(h, top)
  BY DEF Tree
<1>3. /\ A = {top} \cup L \cup R /\ top \notin L /\ top \notin R /\ L \cap R = {}
      /\ h.left[top] \in A \cup {NULL}
  BY <1>2 DEF Node
<1>4. low.root # NULL /\ low.root \in R \cup B
  <2>1. PICK sub : Tree(low.heap, low.root, R \cup B, sub, le)
    BY DEF Merged
  <2> QED  BY <1>2, <2>1 DEF Tree
<1>5. /\ g \in Heaps(E) /\ g.left[top] = low.root /\ g.right[top] = h.left[top]
      /\ \A e \in E \ {top} : g.left[e] = low.heap.left[e] /\ g.right[e] = low.heap.right[e]
      /\ \A e \in E : g.parent[e] = IF e = low.root THEN top ELSE low.heap.parent[e]
  <2>1. top \in E /\ low \in Results(E) /\ low.root # NULL
    BY <1>1, <1>2, <1>4
  <2> QED  BY <2>1, ChildrenSet
<1>6. \A e \in E \ (R \cup B) : /\ low.heap.left[e] = h.left[e]
                               /\ low.heap.right[e] = h.right[e]
                               /\ low.heap.parent[e] = h.parent[e]
  BY DEF Merged
<1> HIDE DEF g, R, L
<1>7. PICK sub : Tree(g, g.left[top], R \cup B, sub, le)
  <2>1. PICK sub : Tree(low.heap, low.root, R \cup B, sub, le)
    BY DEF Merged, R
  <2>2. \A e \in R \cup B : e \in E /\ e # top /\ e # NULL
    BY <1>2, <1>3
  <2>3. Tree(g, low.root, R \cup B, sub, le)
    BY <1>5, <2>1, <2>2, Untouched
  <2> QED  BY <1>5, <2>3
<1>8. PICK sub2 : Tree(g, g.right[top], L, sub2, le)
  <2>1. PICK sub2 : Tree(h, h.left[top], L, sub2, le)
    BY <1>3, Subtree DEF L
  <2>2. \A e \in L : e \in E /\ e # top /\ e # NULL /\ e \notin R \cup B /\ e # low.root
    BY <1>2, <1>3, <1>4
  <2>3. \A e \in L : /\ g.left[e] = h.left[e] /\ g.right[e] = h.right[e]
                    /\ g.parent[e] = h.parent[e]
    BY <1>5, <1>6, <2>2
  <2>4. Tree(g, h.left[top], L, sub2, le)
    BY <2>1, <2>2, <2>3, Untouched
  <2> QED  BY <1>5, <2>4
<1>9. PointsBack(g, top)
  <2>1. g.parent[g.left[top]] = top
    BY <1>1, <1>4, <1>5
  <2>2. ASSUME h.left[top] # NULL PROVE g.parent[h.left[top]] = top
    <3>1. h.left[top] \in L
      BY <1>3, <1>8, <2>2, <1>5 DEF Tree
    <3>2. h.left[top] \in E /\ h.left[top] \notin R \cup B /\ h.left[top] # low.root
      BY <1>3, <1>4, <3>1
    <3> QED  BY <1>2, <1>5, <1>6, <2>2, <3>2 DEF PointsBack
  <2> QED  BY <1>5, <2>1, <2>2 DEF PointsBack
<1>10. <<top, top>> \in le /\ \A x \in A \cup B : <<top, x>> \in le
  <2>1. \A x \in A : <<top, x>> \in le
    BY <1>2 DEF Tree
  <2>2. \A x \in B : <<b, x>> \in le
    BY <1>2 DEF Tree
  <2>3. \A x \in B : <<top, x>> \in le
    <3> TAKE x \in B
    <3>1. top \in A \cup B /\ b \in A \cup B /\ x \in A \cup B
      BY <1>2
    <3> QED  BY <2>2, <3>1 DEF Order
  <2> QED  BY <1>2, <2>1, <2>3
<1>11. \E all : Tree(g, top, {top} \cup (R \cup B) \cup L, all, le)
  <2>1. /\ NULL \notin R \cup B /\ NULL \notin L /\ (R \cup B) \cap L = {}
        /\ top \notin R \cup B /\ top \notin L
        /\ \A x \in (R \cup B) \cup L : <<top, x>> \in le
    BY <1>2, <1>3, <1>10
  <2> QED  BY <1>7, <1>8, <1>9, <1>10, <2>1, Joined
<1>12. {top} \cup (R \cup B) \cup L = A \cup B
  BY <1>3
<1>13. \A e \in E \ (A \cup B) : /\ g.left[e] = h.left[e] /\ g.right[e] = h.right[e]
                               /\ g.parent[e] = h.parent[e]
  BY <1>3, <1>4, <1>5, <1>6
<1>14. g.parent[top] = h.parent[top]
  <2>1. top \notin R \cup B
    BY <1>2, <1>3
  <2> QED  BY <1>2, <1>4, <1>5, <1>6, <2>1
<1>15. [root |-> top, heap |-> g] \in Results(E)
  BY <1>2, <1>5 DEF Results
<1> QED  BY <1>1, <1>11, <1>12, <1>13, <1>14, <1>15 DEF Merged, g

\* The entries S are a tree below r.
Planted(h, r, S, le) == \E sub : Tree(h, r, S, sub, le)

\* A tree and nothing are merged as they are.
LEMMA MergeNothing ==
    ASSUME NEW E, NEW h \in Heaps(E), NEW le, NEW a \in E \cup {NULL}, NEW A,
           Planted(h, a, A, le), NEW roots, a \in roots
    PROVE  Merged([root |-> a, heap |-> h], h, E, roots, A, le)
BY DEF Planted, Merged, Results

\* A subtree has fewer entries.
LEMMA Smaller ==
    ASSUME NEW E, IsFiniteSet(E), NULL \notin E, NEW h, NEW le, NEW A \in SUBSET E,
           NEW a, a # NULL, NEW s, Tree(h, a, A, s, le)
    PROVE  /\ Sub(s, h.right[a]) \subseteq A
           /\ Planted(h, h.right[a], Sub(s, h.right[a]), le)
           /\ h.right[a] \in E \cup {NULL}
           /\ Cardinality(Sub(s, h.right[a])) + 1 <= Cardinality(A)
           /\ Cardinality(A) \in Nat /\ Cardinality(Sub(s, h.right[a])) \in Nat
<1> DEFINE R == Sub(s, h.right[a])
<1>1. a \in A /\ Node(h, A, s, a) /\ s[a] = A
  BY DEF Tree
<1>2. h.right[a] \in A \cup {NULL} /\ R \subseteq A \ {a} /\ NULL \notin A
  BY <1>1 DEF Node
<1>3. Planted(h, h.right[a], R, le)
  BY <1>2, Subtree DEF Planted
<1>4. IsFiniteSet(A) /\ IsFiniteSet(A \ {a})
  BY FS_Subset
<1>5. Cardinality(A \ {a}) = Cardinality(A) - 1 /\ Cardinality(A) \in Nat
  BY <1>1, <1>4, FS_RemoveElement, FS_CardinalityType
<1>6. Cardinality(R) <= Cardinality(A \ {a}) /\ Cardinality(R) \in Nat
  BY <1>2, <1>4, FS_Subset, FS_CardinalityType
<1> HIDE DEF R
<1>7. Cardinality(R) + 1 <= Cardinality(A)
  BY <1>5, <1>6
<1> QED  BY <1>2, <1>3, <1>5, <1>6, <1>7 DEF R

\* skew_heap_merge joins two trees and touches nothing else. The root that stays
\* one keeps its parent pointer.
LEMMA MergeTrees ==
    ASSUME NEW E, IsFiniteSet(E), NULL \notin E, NEW h \in Heaps(E), NEW comp, NEW le,
           NEW X \in SUBSET E, Order(le, X), Agrees(le, comp, X),
           NEW A \in SUBSET X, NEW B \in SUBSET X, A \cap B = {}, A \cup B = X,
           NEW a \in E \cup {NULL}, Planted(h, a, A, le),
           NEW b \in E \cup {NULL}, Planted(h, b, B, le)
    PROVE  Merged(skew_heap_merge(h, a, b, comp), h, E, {a, b}, X, le)
<1> DEFINE f == CHOOSE m : IsMerge(m, h, comp)
           max == Cardinality(E)
           R == E \cup {NULL}
<1>1. IsMerge(f, h, comp)
  BY MergeExists
<1>2. skew_heap_merge(h, a, b, comp) = f[max][<<a, b>>]
  BY HeapTypes DEF skew_heap_merge, IsMerge, Roots
<1> HIDE DEF f
<1>3. max \in Nat
  BY FS_CardinalityType
<1>4. ASSUME NEW n \in 0..max, NEW x \in R, NEW y \in R
      PROVE  f[n][<<x, y>>] =
               IF n = 0 THEN [root |-> IF x = NULL THEN y ELSE x, heap |-> h]
               ELSE Merge(h, comp, f[n - 1], x, y)
  <2>1. <<x, y>> \in R \X R
    OBVIOUS
  <2>2. f = [k \in 0..max |->
              [q \in R \X R |->
                 IF k = 0 THEN [root |-> IF q[1] = NULL THEN q[2] ELSE q[1], heap |-> h]
                 ELSE Merge(h, comp, f[k - 1], q[1], q[2])]]
    BY <1>1, HeapTypes DEF IsMerge, Roots
  <2> HIDE DEF R, max
  <2>3. f[n] = [q \in R \X R |->
                 IF n = 0 THEN [root |-> IF q[1] = NULL THEN q[2] ELSE q[1], heap |-> h]
                 ELSE Merge(h, comp, f[n - 1], q[1], q[2])]
    BY <2>2
  <2> QED  BY <2>1, <2>3
<1> DEFINE Done(n) ==
             \A C, D \in SUBSET X : \A c, d \in R :
               C \cap D = {} /\ Planted(h, c, C, le) /\ Planted(h, d, D, le)
                 /\ Cardinality(C) + Cardinality(D) <= n
               => Merged(f[n][<<c, d>>], h, E, {c, d}, C \cup D, le)
           N == {n \in Nat : n <= max => Done(n)}
<1>5. ASSUME NEW C \in SUBSET X, Cardinality(C) <= 0 PROVE C = {}
  <2>1. IsFiniteSet(C) /\ Cardinality(C) \in Nat
    BY FS_Subset, FS_CardinalityType
  <2>2. Cardinality(C) = 0
    BY <1>5, <2>1
  <2> QED  BY <2>1, <2>2, FS_EmptySet
<1>6. 0 \in N
  <2> SUFFICES ASSUME NEW C \in SUBSET X, NEW D \in SUBSET X, NEW c \in R, NEW d \in R,
                      C \cap D = {}, Planted(h, c, C, le), Planted(h, d, D, le),
                      Cardinality(C) + Cardinality(D) <= 0
               PROVE  Merged(f[0][<<c, d>>], h, E, {c, d}, C \cup D, le)
    OBVIOUS
  <2>1. Cardinality(C) \in Nat /\ Cardinality(D) \in Nat
    BY FS_Subset, FS_CardinalityType
  <2>2. Cardinality(C) <= 0 /\ Cardinality(D) <= 0
    BY <2>1
  <2>3. C = {} /\ D = {}
    BY <1>5, <2>2
  <2>4. c = NULL /\ d = NULL
    BY <2>3 DEF Planted, Tree
  <2>5. 0 \in 0..max
    BY <1>3
  <2>6. f[0][<<c, d>>] = [root |-> c, heap |-> h]
    BY <1>4, <2>4, <2>5
  <2> QED  BY <2>3, <2>6, MergeNothing
<1>7. ASSUME NEW n \in Nat, n \in N PROVE n + 1 \in N
  <2>0. n + 1 \in Nat /\ (n <= max => Done(n))
    <3> HIDE DEF Done, max
    <3> QED  BY <1>7
  <2> SUFFICES ASSUME n + 1 <= max PROVE Done(n + 1)
    BY <2>0
  <2> SUFFICES ASSUME NEW C \in SUBSET X, NEW D \in SUBSET X, NEW c \in R, NEW d \in R,
                      C \cap D = {}, Planted(h, c, C, le), Planted(h, d, D, le),
                      Cardinality(C) + Cardinality(D) <= n + 1
               PROVE  Merged(f[n + 1][<<c, d>>], h, E, {c, d}, C \cup D, le)
    OBVIOUS
  <2> DEFINE rest == f[n]
  <2>1. n + 1 \in 0..max /\ n + 1 # 0 /\ (n + 1) - 1 = n /\ Done(n)
    <3> HIDE DEF Done, max
    <3> QED  BY <1>3, <2>0
  <2>2. f[n + 1][<<c, d>>] = Merge(h, comp, rest, c, d)
    <3>1. f[n + 1][<<c, d>>] =
            IF n + 1 = 0 THEN [root |-> IF c = NULL THEN d ELSE c, heap |-> h]
            ELSE Merge(h, comp, f[(n + 1) - 1], c, d)
      <4> HIDE DEF Done, max
      <4> QED  BY <1>4, <2>1
    <3>2. n + 1 # 0 /\ (n + 1) - 1 = n
      OBVIOUS
    <3> QED  BY <3>1, <3>2
  <2> HIDE DEF Done, N
  <2>3. CASE c = NULL
    <3>1. C = {} /\ C \cup D = D
      BY <2>3 DEF Planted, Tree
    <3>2. Merge(h, comp, rest, c, d) = [root |-> d, heap |-> h]
      BY <2>3 DEF Merge
    <3> QED  BY <2>2, <3>1, <3>2, MergeNothing
  <2>4. CASE d = NULL
    <3>1. D = {} /\ C \cup D = C
      BY <2>4 DEF Planted, Tree
    <3>2. Merge(h, comp, rest, c, d) = [root |-> c, heap |-> h]
      BY <2>4 DEF Merge
    <3> QED  BY <2>2, <3>1, <3>2, MergeNothing
  <2>5. CASE c # NULL /\ d # NULL
    <3>1. PICK s : Tree(h, c, C, s, le)
      BY DEF Planted
    <3>2. PICK t : Tree(h, d, D, t, le)
      BY DEF Planted
    <3>3. c \in C /\ d \in D /\ C \subseteq E /\ D \subseteq E
      BY <2>5, <3>1, <3>2 DEF Tree
    <3>4. Order(le, C \cup D) /\ C \cup D \subseteq E
      BY <3>3 DEF Order
    <3>5. CASE OnTop(c, d, comp)
      <4> DEFINE S == Sub(s, h.right[c])
                 low == rest[<<h.right[c], d>>]
      <4>1. /\ S \subseteq C /\ Planted(h, h.right[c], S, le) /\ h.right[c] \in R
            /\ Cardinality(S) + 1 <= Cardinality(C)
            /\ Cardinality(C) \in Nat /\ Cardinality(S) \in Nat
        BY <2>5, <3>1, <3>3, Smaller
      <4>2. Cardinality(D) \in Nat
        BY FS_Subset, FS_CardinalityType
      <4> HIDE DEF S
      <4>3. Cardinality(S) + Cardinality(D) <= n
        BY <4>1, <4>2
      <4>4. Merged(low, h, E, {h.right[c], d}, S \cup D, le)
        BY <2>1, <4>1, <4>3 DEF Done
      <4>5. <<c, d>> \in le
        BY <3>3, <3>5 DEF Agrees
      <4> HIDE DEF low, rest
      <4>6. Merged([root |-> c, heap |-> SetChildren(h, c, low)], h, E, {c, d}, C \cup D, le)
        BY <2>5, <3>1, <3>2, <3>3, <3>4, <4>4, <4>5, MergeBelow DEF S
      <4>7. f[n + 1][<<c, d>>] = [root |-> c, heap |-> SetChildren(h, c, low)]
        BY <2>2, <2>5, <3>5 DEF Merge, low
      <4> QED  BY <4>6, <4>7
    <3>6. CASE ~OnTop(c, d, comp)
      <4> DEFINE S == Sub(t, h.right[d])
                 low == rest[<<c, h.right[d]>>]
      <4>1. /\ S \subseteq D /\ Planted(h, h.right[d], S, le) /\ h.right[d] \in R
            /\ Cardinality(S) + 1 <= Cardinality(D)
            /\ Cardinality(D) \in Nat /\ Cardinality(S) \in Nat
        BY <2>5, <3>2, <3>3, Smaller
      <4>2. Cardinality(C) \in Nat
        BY FS_Subset, FS_CardinalityType
      <4> HIDE DEF S
      <4>3. Cardinality(C) + Cardinality(S) <= n
        BY <4>1, <4>2
      <4>4. Merged(low, h, E, {c, h.right[d]}, C \cup S, le)
        BY <2>1, <4>1, <4>3 DEF Done
      <4>5. <<d, c>> \in le
        BY <3>3, <3>6 DEF Agrees
      <4> HIDE DEF low, rest
      <4>6. {c, h.right[d]} = {h.right[d], c} /\ C \cup S = S \cup C /\ {d, c} = {c, d}
            /\ D \cup C = C \cup D /\ D \cap C = {} /\ Order(le, D \cup C)
        BY <3>4
      <4>7. Merged(low, h, E, {h.right[d], c}, S \cup C, le)
        BY <4>4, <4>6
      <4>8. Merged([root |-> d, heap |-> SetChildren(h, d, low)], h, E, {d, c}, D \cup C, le)
        BY <2>5, <3>1, <3>2, <3>3, <4>5, <4>6, <4>7, MergeBelow DEF S
      <4>9. f[n + 1][<<c, d>>] = [root |-> d, heap |-> SetChildren(h, d, low)]
        BY <2>2, <2>5, <3>6 DEF Merge, low
      <4> QED  BY <4>6, <4>8, <4>9
    <3> QED  BY <3>5, <3>6
  <2> QED  BY <2>3, <2>4, <2>5
<1>8. Done(max)
  <2>1. Nat \subseteq N
    <3> HIDE DEF N
    <3> QED  BY <1>6, <1>7, Induction
  <2> HIDE DEF Done
  <2> QED  BY <1>3, <2>1
<1>9. Cardinality(A) + Cardinality(B) <= max
  <2>1. IsFiniteSet(A) /\ IsFiniteSet(B) /\ A \cup B \subseteq E
    BY FS_Subset
  <2>2. Cardinality(A \cup B) = Cardinality(A) + Cardinality(B)
    <3>1. Cardinality(A \cup B) = Cardinality(A) + Cardinality(B) - Cardinality(A \cap B)
      BY <2>1, FS_Union
    <3>2. Cardinality(A \cap B) = 0
      BY FS_EmptySet
    <3>3. Cardinality(A) \in Nat /\ Cardinality(B) \in Nat
      BY <2>1, FS_CardinalityType
    <3> QED  BY <3>1, <3>2, <3>3
  <2>3. Cardinality(A \cup B) <= Cardinality(E)
    BY <2>1, FS_Subset
  <2> QED  BY <2>2, <2>3
<1>10. Merged(f[max][<<a, b>>], h, E, {a, b}, A \cup B, le)
  <2> HIDE DEF max
  <2> QED  BY <1>8, <1>9
<1> QED  BY <1>2, <1>10

-----------------------------------------------------------------------------
(* skew_heap_insert and skew_heap_remove *)

\* The entries below a child are below the parent, and not the other way round.
LEMMA ChildBelow ==
    ASSUME NEW h, NEW r, NEW S, NEW sub, NEW le, Tree(h, r, S, sub, le), NULL \notin S,
           NEW p \in S, NEW c, c # NULL, c = h.left[p] \/ c = h.right[p]
    PROVE  /\ c \in S /\ c # p /\ c \in sub[c] /\ h.parent[c] = p
           /\ sub[c] \subseteq sub[p] /\ p \notin sub[c] /\ sub[c] \subseteq S
<1>1. Node(h, S, sub, p) /\ PointsBack(h, p)
  BY DEF Tree
<1>2. c \in S
  BY <1>1 DEF Node
<1>3. c \in sub[c]
  BY <1>2 DEF Tree, Node
<1> QED  BY <1>1, <1>2, <1>3 DEF Node, Sub, PointsBack, Tree

\* k has q, of the entries below b, where h has b, and otherwise the links of h.
Replaced(h, k, S, sub, b, q) ==
    LET p == h.parent[b]
        Q == sub[b] \ {b}
    IN  /\ k.left[p] = IF h.left[p] = b THEN q ELSE h.left[p]
        /\ k.right[p] = IF h.left[p] = b THEN h.right[p] ELSE q
        /\ \A e \in S \ (Q \cup {b, p}) :
             k.left[e] = h.left[e] /\ k.right[e] = h.right[e]
        /\ \A e \in S \ (Q \cup {b}) : k.parent[e] = h.parent[e]
        /\ q # NULL => k.parent[q] = p

\* In the place of an inner entry b a tree of the entries below it.
LEMMA Cut ==
    ASSUME NEW h, NEW k, NEW r, NEW S, NEW sub, NEW le, Tree(h, r, S, sub, le),
           NULL \notin S, NEW b \in S, b # r,
           NEW q, NEW t, Tree(k, q, sub[b] \ {b}, t, le),
           Replaced(h, k, S, sub, b, q)
    PROVE  Planted(k, r, S \ {b}, le)
<1> DEFINE p == h.parent[b]
           Q == sub[b] \ {b}
           new == [e \in S \ {b} |-> IF e \in Q THEN t[e] ELSE sub[e] \ {b}]
<1>1. /\ k.left[p] = IF h.left[p] = b THEN q ELSE h.left[p]
      /\ k.right[p] = IF h.left[p] = b THEN h.right[p] ELSE q
      /\ \A e \in S \ (Q \cup {b, p}) : k.left[e] = h.left[e] /\ k.right[e] = h.right[e]
      /\ \A e \in S \ (Q \cup {b}) : k.parent[e] = h.parent[e]
      /\ q # NULL => k.parent[q] = p
  BY DEF Replaced
<1>2. p \in S /\ (h.left[p] = b \/ h.right[p] = b)
  BY DEF Tree, HasParent
<1> HIDE DEF p
<1>3. /\ b # NULL /\ b # p /\ b \in sub[b] /\ sub[b] \subseteq sub[p] /\ p \notin sub[b]
      /\ sub[b] \subseteq S
  BY <1>2, ChildBelow
<1>4. Q \subseteq S \ {b} /\ p \notin Q /\ sub[b] = Q \cup {b} /\ b \notin Q
  BY <1>3
<1>5. \A e \in Q : t[e] \subseteq Q /\ new[e] = t[e]
  BY <1>4 DEF Tree
<1>6. \A e \in S \ (Q \cup {b}) : new[e] = sub[e] \ {b}
  OBVIOUS
<1>7. \A e \in S : sub[e] \subseteq S /\ Node(h, S, sub, e) /\ PointsBack(h, e)
  BY DEF Tree
<1>8. new \in [S \ {b} -> SUBSET (S \ {b})]
  BY <1>4, <1>5, <1>7
<1>9. Tree(k, q, Q, t, le)
  OBVIOUS
<1> HIDE DEF new, Q
\* What is above an entry below b is above b or below it.
<1>10. ASSUME NEW e \in S \ (Q \cup {b}), NEW x \in sub[e], x \in Q \cup {b}
       PROVE  b \in sub[e] /\ Q \subseteq sub[e]
  <2>1. x \in sub[e] \cap sub[b]
    BY <1>4, <1>10
  <2>2. b \in sub[e] \/ e \in sub[b]
    BY <2>1 DEF Tree
  <2>3. b \in sub[e]
    BY <1>4, <2>2
  <2>4. sub[b] \subseteq sub[e]
    BY <2>3 DEF Tree
  <2> QED  BY <1>4, <2>3, <2>4
\* The children of the other entries are not below b.
<1>11. ASSUME NEW e \in S \ (Q \cup {b}), NEW c \in S, c = h.left[e] \/ c = h.right[e],
              c # b
       PROVE  c \in S \ (Q \cup {b})
  <2> SUFFICES ASSUME c \in Q PROVE FALSE
    BY <1>11
  <2>1. c # NULL /\ c \in sub[c] /\ e \notin sub[c]
    BY <1>11, ChildBelow
  <2>2. b \in sub[e] /\ b # e
    BY <1>10, <1>4, <1>7, <2>1, <1>11, ChildBelow
  <2>3. PICK d \in {h.left[e], h.right[e]} : b \in Sub(sub, d)
    BY <1>7, <2>2 DEF Node
  <2>4. d \in S /\ Sub(sub, d) = sub[d]
    BY <1>7, <2>3 DEF Node, Sub
  <2>5. sub[b] \subseteq sub[d]
    <3>1. \A x \in sub[d] : sub[x] \subseteq sub[d]
      BY <2>4 DEF Tree
    <3> QED  BY <2>3, <2>4, <3>1
  <2>6. c \in sub[d]
    BY <1>4, <2>5
  <2>7. d = c
    BY <1>7, <1>11, <2>1, <2>3, <2>4, <2>6 DEF Node, Sub
  <2>8. c \in sub[b] /\ b \in sub[c]
    BY <1>4, <2>3, <2>4, <2>7
  <2> QED  BY <1>11, <2>8, OneAbove
<1>12. q \in Q \cup {NULL} /\ Sub(new, q) = Q
  <2>1. IF q = NULL THEN Q = {} ELSE q \in Q /\ t[q] = Q
    BY <1>9 DEF Tree
  <2> QED  BY <1>5, <2>1 DEF Sub
<1>13. ASSUME NEW e \in Q
       PROVE  /\ Node(k, S \ {b}, new, e) /\ PointsBack(k, e)
              /\ e # q => HasParent(k, S \ {b}, e)
  <2>1. Node(k, Q, t, e) /\ PointsBack(k, e) /\ (e # q => HasParent(k, Q, e))
    BY <1>9 DEF Tree
  <2>2. \A d \in {k.left[e], k.right[e]} : d \in Q \cup {NULL} /\ Sub(new, d) = Sub(t, d)
    BY <1>5, <2>1 DEF Node, Sub
  <2> QED  BY <1>4, <1>5, <2>1, <2>2 DEF Node, HasParent
\* An entry that is not above b has the same children.
<1>14. ASSUME NEW e \in S \ (Q \cup {b}), e # p
       PROVE  Node(k, S \ {b}, new, e) /\ PointsBack(k, e)
  <2>1. Node(h, S, sub, e) /\ PointsBack(h, e)
    BY <1>7
  <2>2. k.left[e] = h.left[e] /\ k.right[e] = h.right[e]
    BY <1>1, <1>14
  <2>3. ASSUME NEW c \in {h.left[e], h.right[e]}, c # NULL
        PROVE  /\ c \in S \ (Q \cup {b}) /\ k.parent[c] = e
               /\ Sub(new, c) = Sub(sub, c) \ {b}
    <3>1. c \in S /\ h.parent[c] = e
      BY <2>3, ChildBelow
    <3>2. c # b
      BY <1>14, <3>1 DEF p
    <3>3. c \in S \ (Q \cup {b})
      BY <1>11, <2>3, <3>1, <3>2
    <3> QED  BY <1>1, <1>6, <2>3, <3>1, <3>3 DEF Sub
  <2>4. \A c \in {h.left[e], h.right[e]} :
          c \in (S \ {b}) \cup {NULL} /\ Sub(new, c) = Sub(sub, c) \ {b}
    <3> TAKE c \in {h.left[e], h.right[e]}
    <3>1. CASE c = NULL
      BY <3>1 DEF Sub
    <3>2. CASE c # NULL
      BY <2>3, <3>2
    <3> QED  BY <3>1, <3>2
  <2>5. Node(k, S \ {b}, new, e)
    BY <1>6, <2>1, <2>2, <2>4 DEF Node
  <2>6. PointsBack(k, e)
    BY <2>2, <2>3 DEF PointsBack
  <2> QED  BY <2>5, <2>6
\* The parent of b gets the new tree on that side.
<1>15. Node(k, S \ {b}, new, p) /\ PointsBack(k, p)
  <2> DEFINE o == IF h.left[p] = b THEN h.right[p] ELSE h.left[p]
  <2>1. Node(h, S, sub, p) /\ PointsBack(h, p)
    BY <1>2, <1>7
  <2>2. /\ o \in S \cup {NULL} /\ o # b
        /\ sub[p] = {p} \cup sub[b] \cup Sub(sub, o)
        /\ p \notin Sub(sub, o) /\ sub[b] \cap Sub(sub, o) = {}
    BY <1>2, <1>3, <2>1 DEF Node, Sub
  <2>3. \/ h.left[p] = b /\ o = h.right[p] /\ k.left[p] = q /\ k.right[p] = o
        \/ h.left[p] # b /\ o = h.left[p] /\ k.left[p] = o /\ k.right[p] = q
    BY <1>1
  <2>4. o = h.left[p] \/ o = h.right[p]
    OBVIOUS
  <2> HIDE DEF o
  <2>5. ASSUME o # NULL
        PROVE  /\ o \in S \ (Q \cup {b}) /\ k.parent[o] = p
               /\ Sub(new, o) = Sub(sub, o)
    <3>1. o \in S /\ h.parent[o] = p /\ Sub(sub, o) = sub[o] /\ o \in sub[o]
      BY <1>2, <2>4, <2>5, ChildBelow DEF Sub
    <3>2. o \in S \ (Q \cup {b})
      BY <1>4, <2>2, <3>1
    <3>3. k.parent[o] = p
      BY <1>1, <3>1, <3>2
    <3>4. new[o] = sub[o] \ {b}
      BY <1>6, <3>2
    <3> QED  BY <1>3, <2>2, <2>5, <3>1, <3>2, <3>3, <3>4 DEF Sub
  <2>6. Sub(new, o) = Sub(sub, o) /\ o \in (S \ {b}) \cup {NULL}
    <3>1. CASE o = NULL
      BY <3>1 DEF Sub
    <3> QED  BY <2>5, <3>1
  <2>7. new[p] = {p} \cup Q \cup Sub(sub, o)
    <3>1. new[p] = sub[p] \ {b}
      BY <1>2, <1>3, <1>4, <1>6
    <3> QED  BY <1>3, <1>4, <2>2, <3>1
  <2>8. p \notin Q /\ Q \cap Sub(sub, o) = {} /\ q \in (S \ {b}) \cup {NULL}
    BY <1>4, <1>12, <2>2
  <2>9. Node(k, S \ {b}, new, p)
    BY <1>12, <2>2, <2>3, <2>6, <2>7, <2>8 DEF Node
  <2>10. PointsBack(k, p)
    BY <1>1, <2>3, <2>5 DEF PointsBack
  <2> QED  BY <2>9, <2>10
<1>16. r \in S \ (Q \cup {b}) /\ new[r] = S \ {b}
  <2>1. r \in S /\ sub[r] = S
    BY <1>2 DEF Tree
  <2>2. r \notin sub[b]
    BY <2>1, OneAbove
  <2> QED  BY <1>4, <1>6, <2>1, <2>2
<1>17. ASSUME NEW e \in S \ {b}, e # r PROVE HasParent(k, S \ {b}, e)
  <2>1. CASE e \in Q /\ e # q
    BY <1>13, <2>1
  <2>2. CASE e = q
    <3>1. q # NULL /\ k.parent[q] = p /\ p \in S \ {b}
      BY <1>1, <1>2, <1>3, <2>2
    <3>2. k.left[p] = q \/ k.right[p] = q
      BY <1>1
    <3> QED  BY <2>2, <3>1, <3>2 DEF HasParent
  <2>3. CASE e \notin Q /\ e # q
    <3> DEFINE o == h.parent[e]
    <3>1. o \in S /\ (h.left[o] = e \/ h.right[o] = e) /\ k.parent[e] = o
      BY <1>1, <1>17, <2>3 DEF Tree, HasParent
    <3> HIDE DEF o
    <3>2. e # NULL /\ e \in sub[e] /\ sub[e] \subseteq sub[o]
      BY <3>1, ChildBelow
    <3>3. o \notin Q \cup {b}
      <4> SUFFICES ASSUME o \in sub[b] PROVE FALSE
        BY <1>4
      <4>1. sub[o] \subseteq sub[b]
        BY DEF Tree
      <4> QED  BY <1>4, <2>3, <3>2, <4>1
    <3>4. k.left[o] = e \/ k.right[o] = e
      BY <1>1, <1>2, <3>1, <3>3
    <3> QED  BY <3>1, <3>3, <3>4 DEF HasParent
  <2> QED  BY <2>1, <2>2, <2>3
<1>18. ASSUME NEW e \in S \ {b}, NEW x \in new[e]
       PROVE  new[x] \subseteq new[e] /\ <<e, x>> \in le
  <2>1. CASE e \in Q
    BY <1>5, <1>9, <2>1 DEF Tree
  <2>2. CASE e \notin Q
    <3>1. e \in S \ (Q \cup {b}) /\ new[e] = sub[e] \ {b} /\ x \in sub[e] /\ x # b /\ x \in S
      BY <1>6, <1>7, <2>2
    <3>2. <<e, x>> \in le /\ sub[x] \subseteq sub[e]
      BY <3>1 DEF Tree
    <3>3. CASE x \in Q
      BY <1>4, <1>5, <1>10, <3>1, <3>2, <3>3
    <3>4. CASE x \notin Q
      BY <1>6, <3>1, <3>2, <3>4
    <3> QED  BY <3>3, <3>4
  <2> QED  BY <2>1, <2>2
<1>19. ASSUME NEW e \in S \ {b}, NEW f \in S \ {b}, NEW x \in new[e] \cap new[f]
       PROVE  e \in new[f] \/ f \in new[e]
  <2>1. CASE e \in Q /\ f \in Q
    BY <1>5, <1>9, <2>1 DEF Tree
  <2>2. CASE e \in Q /\ f \notin Q
    <3>1. f \in S \ (Q \cup {b}) /\ x \in Q /\ x \in sub[f] /\ new[f] = sub[f] \ {b}
      BY <1>5, <1>6, <2>2
    <3> QED  BY <1>10, <1>4, <2>2, <3>1
  <2>3. CASE e \notin Q /\ f \in Q
    <3>1. e \in S \ (Q \cup {b}) /\ x \in Q /\ x \in sub[e] /\ new[e] = sub[e] \ {b}
      BY <1>5, <1>6, <2>3
    <3> QED  BY <1>10, <1>4, <2>3, <3>1
  <2>4. CASE e \notin Q /\ f \notin Q
    <3>1. x \in sub[e] \cap sub[f] /\ new[e] = sub[e] \ {b} /\ new[f] = sub[f] \ {b}
      BY <1>6, <2>4
    <3>2. e \in sub[f] \/ f \in sub[e]
      BY <3>1 DEF Tree
    <3> QED  BY <3>1, <3>2
  <2> QED  BY <2>1, <2>2, <2>3, <2>4
<1>20. r # NULL
  BY <1>16
<1>21. \A e \in S \ {b} : Node(k, S \ {b}, new, e) /\ PointsBack(k, e)
  BY <1>13, <1>14, <1>15
<1>22. Tree(k, r, S \ {b}, new, le)
  BY <1>8, <1>16, <1>17, <1>18, <1>19, <1>20, <1>21 DEF Tree
<1> QED  BY <1>22 DEF Planted

\* A skew heap of the entries S of E with the root r.
Heap(h, r, S, E, le) ==
    /\ h \in Heaps(E) /\ r \in E \cup {NULL} /\ S \subseteq E
    /\ Planted(h, r, S, le)
    /\ r # NULL => h.parent[r] = NULL

\* skew_heap_insert adds one entry, whatever links it had.
LEMMA InsertHeap ==
    ASSUME NEW E, IsFiniteSet(E), NULL \notin E, NEW h, NEW a, NEW S, NEW le,
           Heap(h, a, S, E, le), NEW b \in E, b \notin S, NEW comp,
           Order(le, S \cup {b}), Agrees(le, comp, S \cup {b})
    PROVE  LET w == skew_heap_insert(h, a, b, comp)
           IN  Heap(w.heap, w.root, S \cup {b}, E, le) /\ w.root # NULL
<1> DEFINE g == skew_heap_init(h, b)
           X == S \cup {b}
           w == skew_heap_merge(g, a, b, comp)
<1>1. h \in Heaps(E) /\ a \in E \cup {NULL} /\ S \subseteq E
  BY DEF Heap
<1>2. /\ g \in Heaps(E)
      /\ g.left[b] = NULL /\ g.right[b] = NULL /\ g.parent[b] = NULL
      /\ \A e \in E \ {b} : /\ g.left[e] = h.left[e] /\ g.right[e] = h.right[e]
                           /\ g.parent[e] = h.parent[e]
  <2>1. g = [left   |-> [h.left EXCEPT ![b] = NULL],
             right  |-> [h.right EXCEPT ![b] = NULL],
             parent |-> [h.parent EXCEPT ![b] = NULL]]
    BY DEF skew_heap_init
  <2> HIDE DEF g
  <2> QED  BY <1>1, <2>1, HeapTypes DEF Heaps
<1> HIDE DEF g
<1>3. Planted(g, a, S, le)
  <2>1. PICK sub : Tree(h, a, S, sub, le)
    BY DEF Heap, Planted
  <2>2. \A e \in S : e \in E \ {b} /\ e # NULL
    BY <1>1
  <2>3. Tree(g, a, S, sub, le)
    BY <1>2, <2>1, <2>2, Untouched
  <2> QED  BY <2>3 DEF Planted
<1>4. Planted(g, b, {b}, le)
  <2> DEFINE sub == [e \in {b} |-> {b}]
  <2>1. b # NULL /\ <<b, b>> \in le
    BY DEF Order
  <2>2. Node(g, {b}, sub, b) /\ PointsBack(g, b)
    BY <1>2 DEF Node, PointsBack, Sub
  <2>3. Tree(g, b, {b}, sub, le)
    BY <2>1, <2>2 DEF Tree
  <2> QED  BY <2>3 DEF Planted
<1>5. Merged(w, g, E, {a, b}, X, le)
  <2>1. X \in SUBSET E /\ S \in SUBSET X /\ {b} \in SUBSET X /\ S \cap {b} = {}
        /\ S \cup {b} = X /\ b \in E \cup {NULL}
    BY <1>1
  <2> HIDE DEF w, X
  <2>2. Order(le, X) /\ Agrees(le, comp, X)
    BY DEF X
  <2> QED  BY <1>1, <1>2, <1>3, <1>4, <2>1, <2>2, MergeTrees DEF w
<1>6. w.root # NULL
  <2>1. PICK sub : Tree(w.heap, w.root, X, sub, le)
    BY <1>5 DEF Merged
  <2> QED  BY <2>1 DEF Tree
<1>7. w.heap.parent[w.root] = NULL
  <2>1. w.root \in {a, b} /\ w.heap.parent[w.root] = g.parent[w.root]
    BY <1>5, <1>6 DEF Merged
  <2>2. a # NULL => a \in E /\ h.parent[a] = NULL
    BY <1>1 DEF Heap
  <2> HIDE DEF w
  <2> QED  BY <1>2, <1>6, <2>1, <2>2
<1>8. Heap(w.heap, w.root, X, E, le)
  <2>1. X \subseteq E
    BY <1>1
  <2> HIDE DEF w, X
  <2> QED  BY <1>5, <1>7, <2>1 DEF Heap, Merged, Results, Planted
<1> QED  BY <1>6, <1>8 DEF skew_heap_insert, g

\* skew_heap_remove takes one entry out, from the root, the middle or the bottom.
LEMMA RemoveHeap ==
    ASSUME NEW E, IsFiniteSet(E), NULL \notin E, NEW h, NEW a, NEW S, NEW le,
           Heap(h, a, S, E, le), NEW b \in S, NEW comp,
           Order(le, S \ {b}), Agrees(le, comp, S \ {b})
    PROVE  LET w == skew_heap_remove(h, a, b, comp)
           IN  Heap(w.heap, w.root, S \ {b}, E, le)
<1>1. h \in Heaps(E) /\ a \in E \cup {NULL} /\ S \subseteq E /\ NULL \notin S
      /\ b \in E /\ b # NULL
  BY DEF Heap
<1>2. PICK sub : Tree(h, a, S, sub, le)
  BY DEF Heap, Planted
<1> DEFINE L == Sub(sub, h.left[b])
           R == Sub(sub, h.right[b])
           Q == sub[b] \ {b}
           p == h.parent[b]
           rep == skew_heap_merge(h, h.left[b], h.right[b], comp)
           g == IF rep.root = NULL THEN rep.heap
                ELSE [rep.heap EXCEPT !.parent[rep.root] = p]
<1>3. /\ h.left[b] \in S \cup {NULL} /\ h.right[b] \in S \cup {NULL}
      /\ Q = L \cup R /\ L \cap R = {} /\ sub[b] \subseteq S
  BY <1>2 DEF Tree, Node
<1>4. Planted(h, h.left[b], L, le) /\ Planted(h, h.right[b], R, le)
  BY <1>1, <1>2, <1>3, Subtree DEF Planted
<1>5. /\ Order(le, Q) /\ Agrees(le, comp, Q)
  BY <1>3 DEF Order, Agrees
<1>6. Merged(rep, h, E, {h.left[b], h.right[b]}, Q, le)
  <2>1. Q \in SUBSET E /\ L \in SUBSET Q /\ R \in SUBSET Q /\ L \cup R = Q
        /\ h.left[b] \in E \cup {NULL} /\ h.right[b] \in E \cup {NULL}
    BY <1>1, <1>3
  <2> HIDE DEF rep, L, R, Q
  <2> QED  BY <1>1, <1>3, <1>4, <1>5, <2>1, MergeTrees DEF rep
<1> HIDE DEF rep, L, R
<1>7. PICK t : Tree(rep.heap, rep.root, Q, t, le)
  BY <1>6 DEF Merged
<1>8. /\ rep.heap \in Heaps(E) /\ rep.root \in E \cup {NULL}
      /\ rep.root # NULL => rep.root \in Q
      /\ \A e \in E \ Q : /\ rep.heap.left[e] = h.left[e]
                         /\ rep.heap.right[e] = h.right[e]
                         /\ rep.heap.parent[e] = h.parent[e]
  BY <1>6, <1>7 DEF Merged, Results, Tree
<1>9. p \in E \cup {NULL}
  BY <1>1, HeapTypes
<1>10. /\ g \in Heaps(E)
       /\ \A e \in E : /\ g.left[e] = rep.heap.left[e] /\ g.right[e] = rep.heap.right[e]
                     /\ g.parent[e] = IF e = rep.root /\ rep.root # NULL THEN p
                                      ELSE rep.heap.parent[e]
  <2>1. CASE rep.root = NULL
    BY <1>8, <2>1
  <2>2. CASE rep.root # NULL
    <3>1. g = [left |-> rep.heap.left, right |-> rep.heap.right,
               parent |-> [rep.heap.parent EXCEPT ![rep.root] = p]]
      BY <1>8, <2>2 DEF Heaps
    <3> HIDE DEF g, p
    <3> QED  BY <1>8, <1>9, <2>2, <3>1, HeapTypes DEF Heaps
  <2> QED  BY <2>1, <2>2
<1> HIDE DEF g
<1>11. CASE p = NULL
  <2>1. b = a
    BY <1>1, <1>2, <1>11 DEF Tree, HasParent
  <2>2. Q = S \ {b}
    BY <1>2, <2>1, <1>1 DEF Tree
  <2>3. skew_heap_remove(h, a, b, comp) = [root |-> rep.root, heap |-> g]
    BY <1>11 DEF skew_heap_remove, rep, g
  <2>4. Tree(g, rep.root, Q, t, le)
    <3>1. \A e \in Q : e \in E /\ e # NULL
      BY <1>1, <1>3
    <3> HIDE DEF Q
    <3> QED  BY <1>7, <1>10, <3>1, Untouched
  <2>5. rep.root # NULL => g.parent[rep.root] = NULL
    BY <1>8, <1>10, <1>11
  <2>6. S \ {b} \subseteq E
    BY <1>1
  <2>7. Heap(g, rep.root, S \ {b}, E, le)
    BY <1>8, <1>10, <2>2, <2>4, <2>5, <2>6 DEF Heap, Planted
  <2> QED  BY <2>3, <2>7
<1>12. CASE p # NULL
  <2> DEFINE k == IF g.left[p] = b THEN [g EXCEPT !.left[p] = rep.root]
                  ELSE [g EXCEPT !.right[p] = rep.root]
  <2>1. b # a
    BY <1>1, <1>12 DEF Heap
  <2>2. p \in S /\ (h.left[p] = b \/ h.right[p] = b)
    BY <1>2, <2>1 DEF Tree, HasParent
  <2>3. p \in E \ Q /\ p # b
    BY <1>1, <1>2, <2>2, ChildBelow
  <2>4. skew_heap_remove(h, a, b, comp) = [root |-> a, heap |-> k]
    BY <1>12 DEF skew_heap_remove, rep, g
  <2>5. g.left[p] = h.left[p] /\ g.right[p] = h.right[p] /\ p # rep.root
    BY <1>8, <1>10, <2>3
  <2>6. /\ k \in Heaps(E)
        /\ k.left[p] = IF h.left[p] = b THEN rep.root ELSE h.left[p]
        /\ k.right[p] = IF h.left[p] = b THEN h.right[p] ELSE rep.root
        /\ \A e \in E \ {p} : k.left[e] = g.left[e] /\ k.right[e] = g.right[e]
        /\ \A e \in E : k.parent[e] = g.parent[e]
    <3>1. CASE h.left[p] = b
      <4>1. k = [left |-> [g.left EXCEPT ![p] = rep.root], right |-> g.right,
                 parent |-> g.parent]
        BY <1>10, <2>5, <3>1 DEF Heaps
      <4> HIDE DEF k
      <4> QED  BY <1>8, <1>10, <2>3, <2>5, <3>1, <4>1, HeapTypes DEF Heaps
    <3>2. CASE h.left[p] # b
      <4>1. k = [left |-> g.left, right |-> [g.right EXCEPT ![p] = rep.root],
                 parent |-> g.parent]
        BY <1>10, <2>5, <3>2 DEF Heaps
      <4> HIDE DEF k
      <4> QED  BY <1>8, <1>10, <2>3, <2>5, <3>2, <4>1, HeapTypes DEF Heaps
    <3> QED  BY <3>1, <3>2
  <2> HIDE DEF k
  <2>7. Tree(k, rep.root, Q, t, le)
    <3>1. \A e \in Q : e \in E /\ e # NULL /\ e # p
      BY <1>1, <1>3, <2>3
    <3> HIDE DEF Q, p
    <3> QED  BY <1>7, <1>10, <2>6, <3>1, Untouched
  <2>8. Planted(k, a, S \ {b}, le)
    <3>1. /\ \A e \in S \ (Q \cup {b, p}) :
               k.left[e] = h.left[e] /\ k.right[e] = h.right[e]
          /\ \A e \in S \ (Q \cup {b}) : k.parent[e] = h.parent[e]
          /\ rep.root # NULL => k.parent[rep.root] = p
      <4>1. \A e \in S \ Q : e \in E /\ e # rep.root
        BY <1>1, <1>8
      <4> HIDE DEF Q, p
      <4> QED  BY <1>8, <1>10, <2>6, <4>1
    <3>2. Replaced(h, k, S, sub, b, rep.root)
      BY <2>6, <3>1 DEF Replaced
    <3> QED  BY <1>1, <1>2, <2>1, <2>7, <3>2, Cut
  <2>9. a # NULL => k.parent[a] = NULL
    <3>1. a \in S /\ a \notin Q
      <4>1. a \in S /\ sub[a] = S
        BY <1>2 DEF Tree
      <4>2. a \notin sub[b]
        BY <1>1, <1>2, <2>1, <4>1, OneAbove
      <4> QED  BY <4>1, <4>2
    <3>2. a # rep.root /\ a \in E
      BY <1>1, <1>8, <3>1
    <3>3. k.parent[a] = h.parent[a]
      BY <1>8, <1>10, <2>6, <3>1, <3>2
    <3> QED  BY <3>3 DEF Heap
  <2>10. S \ {b} \subseteq E
    BY <1>1
  <2> QED  BY <1>1, <2>4, <2>6, <2>8, <2>9, <2>10 DEF Heap
<1> QED  BY <1>11, <1>12

-----------------------------------------------------------------------------
(* What an observer of the links sees *)

\* The recursive function of Within.
IsBelow(f, h, a, n) ==
    f = [k \in 0..n |->
          IF k = 0 THEN {a} \ {NULL}
          ELSE f[k - 1] \cup UNION {Children(h, e) : e \in f[k - 1]}]

LEMMA BelowExists ==
    ASSUME NEW E, NEW h \in Heaps(E), NEW a \in E \cup {NULL}, NEW n \in Nat
    PROVE  \E f : IsBelow(f, h, a, n)
<1> DEFINE T == SUBSET E
           first == {a} \ {NULL}
           More(s) == s \cup UNION {Children(h, e) : e \in s}
           next == [x \in Nat \X T |-> More(x[2])]
<1>1. first \in T
  OBVIOUS
<1>2. ASSUME NEW s \in T PROVE More(s) \in T
  <2>1. \A e \in s : Children(h, e) \subseteq E
    BY HeapTypes DEF Children
  <2> QED  BY <2>1
<1>3. next \in [Nat \X T -> T]
  <2> HIDE DEF T, More
  <2> QED  BY <1>2
<1>4. PICK f : Steps(f, T, first, next, n)
  <2> HIDE DEF T, first, next
  <2> QED  BY <1>1, <1>3, Recursion
<1>5. ASSUME NEW k \in 0..n
      PROVE  f[k] = IF k = 0 THEN first ELSE More(f[k - 1])
  <2>1. CASE k = 0
    <3> HIDE DEF first, next
    <3> QED  BY <1>4, <2>1 DEF Steps
  <2>2. CASE k # 0
    <3>1. k \in Nat /\ k - 1 \in 0..n
      BY <2>2
    <3>2. f[k - 1] \in T /\ f[k] = next[<<k, f[k - 1]>>]
      <4> HIDE DEF T, first, next
      <4> QED  BY <1>4, <2>2, <3>1 DEF Steps
    <3> HIDE DEF T, More
    <3> QED  BY <2>2, <3>1, <3>2
  <2> QED  BY <2>1, <2>2
<1>6. f = [k \in 0..n |-> IF k = 0 THEN first ELSE More(f[k - 1])]
  <2>1. f = [k \in 0..n |-> f[k]]
    <3> HIDE DEF T, first, next
    <3> QED  BY <1>4 DEF Steps
  <2> HIDE DEF More, first
  <2> QED  BY <1>5, <2>1
<1> QED  BY <1>6 DEF IsBelow

\* An entry whose parent is another one has fewer entries below it.
LEMMA Deeper ==
    ASSUME NEW E, IsFiniteSet(E), NEW h, NEW r, NEW S \in SUBSET E, NEW sub, NEW le,
           Tree(h, r, S, sub, le), NULL \notin S,
           NEW p \in S, NEW c, c # NULL, c = h.left[p] \/ c = h.right[p]
    PROVE  Cardinality(sub[c]) + 1 <= Cardinality(sub[p])
<1>1. sub[c] \subseteq sub[p] \ {p} /\ sub[p] \subseteq S /\ p \in sub[p]
  <2>1. sub[c] \subseteq sub[p] /\ p \notin sub[c]
    BY ChildBelow
  <2>2. sub[p] \subseteq S /\ p \in sub[p]
    BY DEF Tree, Node
  <2> QED  BY <2>1, <2>2
<1>2. IsFiniteSet(sub[p]) /\ IsFiniteSet(sub[p] \ {p})
  BY <1>1, FS_Subset
<1>3. Cardinality(sub[p] \ {p}) = Cardinality(sub[p]) - 1
  BY <1>1, <1>2, FS_RemoveElement
<1>4. Cardinality(sub[c]) <= Cardinality(sub[p] \ {p}) /\ IsFiniteSet(sub[c])
  BY <1>1, <1>2, FS_Subset
<1>5. Cardinality(sub[p]) \in Nat /\ Cardinality(sub[c]) \in Nat
  BY <1>2, <1>4, FS_CardinalityType
<1> QED  BY <1>3, <1>4, <1>5

\* Following the links from the root an observer finds a tree of the entries S.
LEMMA SeenExactly ==
    ASSUME NEW E, IsFiniteSet(E), NULL \notin E, NEW h, NEW r, NEW S, NEW le,
           Heap(h, r, S, E, le)
    PROVE  IsTree(h, r) /\ Members(h, r) = S
<1>1. h \in Heaps(E) /\ r \in E \cup {NULL} /\ S \subseteq E /\ NULL \notin S
  BY DEF Heap
<1>2. PICK sub : Tree(h, r, S, sub, le)
  BY DEF Heap, Planted
<1> DEFINE n == Cardinality(E)
           f == CHOOSE m : IsBelow(m, h, r, n)
<1>3. n \in Nat
  BY FS_CardinalityType
<1>4. IsBelow(f, h, r, n)
  <2> HIDE DEF n
  <2> QED  BY <1>1, <1>3, BelowExists
<1>5. Members(h, r) = f[n]
  BY <1>1, HeapTypes DEF Members, Within, IsBelow
<1> HIDE DEF f, n
<1>6. /\ f[0] = {r} \ {NULL}
      /\ \A k \in 0..n : k # 0 =>
           f[k] = f[k - 1] \cup UNION {Children(h, e) : e \in f[k - 1]}
  BY <1>3, <1>4 DEF IsBelow
<1>7. ASSUME NEW e \in S PROVE Children(h, e) \subseteq S
  BY <1>2 DEF Tree, Node, Children
<1>8. f[n] \subseteq S
  <2> DEFINE N == {k \in Nat : k <= n => f[k] \subseteq S}
  <2>1. 0 \in N
    BY <1>2, <1>6 DEF Tree
  <2>2. ASSUME NEW k \in Nat, k \in N PROVE k + 1 \in N
    <3> SUFFICES ASSUME k + 1 <= n PROVE f[k + 1] \subseteq S
      OBVIOUS
    <3>1. k + 1 \in 0..n /\ k + 1 # 0 /\ (k + 1) - 1 = k /\ k <= n
      BY <1>3
    <3>2. f[k + 1] = f[k] \cup UNION {Children(h, e) : e \in f[k]}
      BY <1>6, <3>1
    <3> QED  BY <1>7, <2>2, <3>1, <3>2
  <2>3. Nat \subseteq N
    <3> HIDE DEF N
    <3> QED  BY <2>1, <2>2, Induction
  <2> QED  BY <1>3, <2>3
<1> DEFINE Size(e) == Cardinality(sub[e])
<1>9. ASSUME NEW e \in S PROVE Size(e) \in Nat /\ Size(e) <= n /\ Size(e) >= 1
  <2>1. sub[e] \subseteq E /\ e \in sub[e]
    BY <1>1, <1>2 DEF Tree, Node
  <2>2. IsFiniteSet(sub[e]) /\ Size(e) <= n
    BY <2>1, FS_Subset DEF n
  <2>3. Size(e) \in Nat /\ Size(e) # 0
    BY <2>1, <2>2, FS_CardinalityType, FS_EmptySet
  <2> QED  BY <2>2, <2>3
<1>10. ASSUME NEW e \in S, e # r
       PROVE  \E p \in S : e \in Children(h, p) /\ Size(e) + 1 <= Size(p)
  <2> DEFINE p == h.parent[e]
  <2>1. p \in S /\ (h.left[p] = e \/ h.right[p] = e) /\ e # NULL
    BY <1>1, <1>2, <1>10 DEF Tree, HasParent
  <2> HIDE DEF p
  <2>2. Size(e) + 1 <= Size(p)
    BY <1>1, <1>2, <2>1, Deeper
  <2> QED  BY <2>1, <2>2 DEF Children
<1> HIDE DEF Size
<1>11. S \subseteq f[n]
  <2> DEFINE N == {k \in Nat : k <= n => \A e \in S : n - Size(e) <= k => e \in f[k]}
  <2>1. \A e \in S : r # NULL /\ r \in S
    BY <1>2 DEF Tree
  <2>2. 0 \in N
    <3> SUFFICES ASSUME NEW e \in S, n - Size(e) <= 0 PROVE e \in f[0]
      OBVIOUS
    <3>1. e = r
      <4> SUFFICES ASSUME e # r PROVE FALSE
        OBVIOUS
      <4>1. PICK p \in S : Size(e) + 1 <= Size(p)
        BY <1>10
      <4> QED  BY <1>3, <1>9, <4>1
    <3> QED  BY <1>1, <1>6, <3>1
  <2>3. ASSUME NEW k \in Nat, k \in N PROVE k + 1 \in N
    <3> SUFFICES ASSUME k + 1 <= n, NEW e \in S, n - Size(e) <= k + 1
                 PROVE  e \in f[k + 1]
      OBVIOUS
    <3>1. k + 1 \in 0..n /\ k + 1 # 0 /\ (k + 1) - 1 = k /\ k <= n
      BY <1>3
    <3>2. f[k + 1] = f[k] \cup UNION {Children(h, x) : x \in f[k]}
      BY <1>6, <3>1
    <3>3. \A x \in S : n - Size(x) <= k => x \in f[k]
      BY <2>3, <3>1
    <3>4. CASE e = r
      <4>1. r \in f[k]
        <5> DEFINE M == {m \in Nat : m <= n => r \in f[m]}
        <5>1. 0 \in M
          BY <1>6, <2>1
        <5>2. ASSUME NEW m \in Nat, m \in M PROVE m + 1 \in M
          <6> SUFFICES ASSUME m + 1 <= n PROVE r \in f[m + 1]
            OBVIOUS
          <6>1. m + 1 \in 0..n /\ m + 1 # 0 /\ (m + 1) - 1 = m /\ m <= n
            BY <1>3
          <6>2. f[m] \subseteq f[m + 1]
            BY <1>6, <6>1
          <6> QED  BY <5>2, <6>1, <6>2
        <5>3. Nat \subseteq M
          <6> HIDE DEF M
          <6> QED  BY <5>1, <5>2, Induction
        <5> QED  BY <3>1, <5>3
      <4> QED  BY <3>2, <3>4, <4>1
    <3>5. CASE e # r
      <4>1. PICK p \in S : e \in Children(h, p) /\ Size(e) + 1 <= Size(p)
        BY <1>10, <3>5
      <4>2. n - Size(p) <= k
        BY <1>3, <1>9, <4>1
      <4>3. p \in f[k]
        BY <3>3, <4>2
      <4> QED  BY <3>2, <4>1, <4>3
    <3> QED  BY <3>4, <3>5
  <2>4. Nat \subseteq N
    <3> HIDE DEF N
    <3> QED  BY <2>2, <2>3, Induction
  <2>5. n \in N
    BY <1>3, <2>4
  <2>6. \A e \in S : n - Size(e) <= n
    BY <1>3, <1>9
  <2> QED  BY <1>3, <2>5, <2>6
<1>12. Members(h, r) = S
  BY <1>5, <1>8, <1>11
<1>13. r # NULL => h.parent[r] = NULL
  BY DEF Heap
<1>14. ASSUME NEW e \in S
       PROVE  /\ \A c \in Children(h, e) : h.parent[c] = e /\ c # r
              /\ h.left[e] = NULL \/ h.left[e] # h.right[e]
  <2>1. Node(h, S, sub, e) /\ PointsBack(h, e) /\ r \in S /\ sub[r] = S
    BY <1>2 DEF Tree
  <2>2. ASSUME NEW c \in Children(h, e) PROVE h.parent[c] = e /\ c # r
    BY <1>1, <1>2, <2>1, ChildBelow DEF Children
  <2>3. ASSUME h.left[e] # NULL, h.left[e] = h.right[e] PROVE FALSE
    <3>1. h.left[e] \in sub[h.left[e]]
      BY <1>1, <1>2, <2>3, ChildBelow
    <3> QED  BY <2>1, <2>3, <3>1 DEF Node, Sub
  <2> QED  BY <2>2, <2>3
<1> QED  BY <1>12, <1>13, <1>14 DEF IsTree

\* The root is above every entry.
LEMMA RootFirst ==
    ASSUME NEW h, NEW r, NEW S, NEW E, NEW le, Heap(h, r, S, E, le), NULL \notin E
    PROVE  /\ IF r = NULL THEN S = {} ELSE r \in S
           /\ \A x \in S : <<r, x>> \in le
BY DEF Heap, Planted, Tree

-----------------------------------------------------------------------------
(* The priority queue *)

ByKey == {e \in Item \X Item : key[e[1]] <= key[e[2]]}

HeapInv == Heap(links, run_pool, queued, Item, ByKey)

\* The keys are an order and compare_f tells it.
LEMMA KeyOrder ==
    ASSUME NEW S \in SUBSET Item
    PROVE  Order(ByKey, S) /\ Agrees(ByKey, compare_f, S)
<1>1. ASSUME NEW x \in S, NEW y \in S
      PROVE  /\ <<x, y>> \in ByKey <=> key[x] <= key[y]
             /\ OnTop(x, y, compare_f) <=> key[x] < key[y]
  <2>1. <<x, y>> \in Item \X Item /\ key[x] \in Int /\ key[y] \in Int
    BY HeapQueueAssumption
  <2>2. compare_f[<<x, y>>] = IF key[x] > key[y] THEN 1
                              ELSE IF key[x] = key[y] THEN 0 ELSE -1
    BY <2>1 DEF compare_f
  <2>3. OnTop(x, y, compare_f) <=> key[x] < key[y]
    BY <2>1, <2>2 DEF OnTop
  <2>4. <<x, y>> \in ByKey <=> key[x] <= key[y]
    BY <2>1 DEF ByKey
  <2> QED  BY <2>3, <2>4
<1>2. \A x \in S : key[x] \in Int
  BY HeapQueueAssumption
<1>3. Order(ByKey, S)
  BY <1>1, <1>2 DEF Order
<1>4. Agrees(ByKey, compare_f, S)
  <2>1. ASSUME NEW x \in S, NEW y \in S
        PROVE  IF OnTop(x, y, compare_f) THEN <<x, y>> \in ByKey ELSE <<y, x>> \in ByKey
    BY <1>1, <1>2
  <2> QED  BY <2>1 DEF Agrees
<1> QED  BY <1>3, <1>4

\* What an observer sees, and what the root is.
LEMMA HeapFront ==
    ASSUME NEW h, NEW r, NEW Q, Heap(h, r, Q, Item, ByKey)
    PROVE  /\ IsTree(h, r) /\ Members(h, r) = Q
           /\ Q \subseteq Item /\ r \in Item \cup {NULL} /\ (Q # {} => r \in Item)
           /\ Queue!IsFront(r, Q)
<1>1. IsTree(h, r) /\ Members(h, r) = Q
  BY HeapQueueAssumption, SeenExactly
<1>2. Q \subseteq Item /\ r \in Item \cup {NULL} /\ NULL \notin Item
  BY HeapQueueAssumption DEF Heap
<1>3. /\ IF r = NULL THEN Q = {} ELSE r \in Q
      /\ \A x \in Q : <<r, x>> \in ByKey
  BY <1>2, RootFirst
<1>4. Queue!IsFront(r, Q)
  BY <1>2, <1>3 DEF Queue!IsFront, ByKey
<1> QED  BY <1>1, <1>2, <1>3, <1>4

LEMMA InitHeap ==
    HeapInit => HeapInv
<1> SUFFICES ASSUME HeapInit PROVE HeapInv
  OBVIOUS
<1> DEFINE sub == [e \in {} |-> {}]
<1>1. links \in Heaps(Item)
  BY DEF HeapInit, Heaps
<1>2. Tree(links, NULL, {}, sub, ByKey)
  BY DEF Tree
<1> QED  BY <1>1, <1>2 DEF HeapInit, HeapInv, Heap, Planted

LEMMA InsertStep ==
    ASSUME HeapInv, NEW e \in Item, HeapInsert(e)
    PROVE  HeapInv'
<1> DEFINE after == skew_heap_insert(links, run_pool, e, compare_f)
<1>1. queued \cup {e} \subseteq Item
  BY HeapFront DEF HeapInv
<1>2. Heap(after.heap, after.root, queued \cup {e}, Item, ByKey)
  BY <1>1, KeyOrder, InsertHeap, HeapQueueAssumption DEF HeapInv, HeapInsert
<1>3. links' = after.heap /\ run_pool' = after.root /\ queued' = queued \cup {e}
  BY DEF HeapInsert
<1> HIDE DEF after
<1> QED  BY <1>2, <1>3 DEF HeapInv, Heap, Planted, ByKey

LEMMA RemoveStep ==
    ASSUME HeapInv, NEW e \in Item, HeapRemove(e)
    PROVE  HeapInv'
<1> DEFINE after == skew_heap_remove(links, run_pool, e, compare_f)
<1>1. queued \ {e} \subseteq Item /\ e \in queued
  BY HeapFront DEF HeapInv, HeapRemove
<1>2. Heap(after.heap, after.root, queued \ {e}, Item, ByKey)
  BY <1>1, KeyOrder, RemoveHeap, HeapQueueAssumption DEF HeapInv
<1>3. links' = after.heap /\ run_pool' = after.root /\ queued' = queued \ {e}
  BY DEF HeapRemove
<1> HIDE DEF after
<1> QED  BY <1>2, <1>3 DEF HeapInv, Heap, Planted, ByKey

LEMMA NextHeap ==
    HeapInv /\ [HeapNext]_heapvars => HeapInv'
<1> SUFFICES ASSUME HeapInv, [HeapNext]_heapvars PROVE HeapInv'
  OBVIOUS
<1>1. CASE HeapNext
  BY <1>1, InsertStep, RemoveStep DEF HeapNext
<1>2. CASE UNCHANGED heapvars
  BY <1>2 DEF heapvars, HeapInv, Heap, Planted, ByKey
<1> QED  BY <1>1, <1>2

\* Whatever entries, with whatever keys, are inserted and removed in whatever order:
\* the links of skew_heap.h form one tree of the queued entries.
THEOREM HeapKept == HeapSpec => []TreeExact
<1>1. HeapInv => TreeExact
  BY HeapFront DEF HeapInv, TreeExact
<1> QED  BY <1>1, InitHeap, NextHeap, PTL DEF HeapSpec

\* Every operation is one of a priority queue.
LEMMA StepQueue ==
    HeapInv /\ HeapInv' /\ [HeapNext]_heapvars
      => [Queue!Next]_<< Members(links, run_pool), run_pool >>
<1> SUFFICES ASSUME HeapInv, HeapInv', [HeapNext]_heapvars
             PROVE  [Queue!Next]_<< Members(links, run_pool), run_pool >>
  OBVIOUS
<1>1. Members(links, run_pool) = queued
  BY HeapFront DEF HeapInv
<1>2. /\ Members(links, run_pool)' = queued'
      /\ run_pool' \in Item \cup {NULL} /\ (queued' # {} => run_pool' \in Item)
      /\ Queue!IsFront(run_pool', queued')
  <2>1. Heap(links', run_pool', queued', Item, ByKey)
    BY DEF HeapInv, Heap, Planted, ByKey
  <2>2. /\ Members(links', run_pool') = queued'
        /\ run_pool' \in Item \cup {NULL} /\ (queued' # {} => run_pool' \in Item)
        /\ Queue!IsFront(run_pool', queued')
    BY <2>1, HeapFront
  <2> QED  BY <2>2
<1>3. CASE \E e \in Item : HeapInsert(e)
  <2>1. PICK e \in Item : e \notin queued /\ queued' = queued \cup {e}
    BY <1>3 DEF HeapInsert
  <2>2. Queue!Put(e)
    BY <1>1, <1>2, <2>1 DEF Queue!Put
  <2> QED  BY <2>2 DEF Queue!Next
<1>4. CASE \E e \in Item : HeapRemove(e)
  <2>1. PICK e \in Item : e \in queued /\ queued' = queued \ {e}
    BY <1>4 DEF HeapRemove
  <2>2. Queue!Take(e)
    BY <1>1, <1>2, <2>1 DEF Queue!Take
  <2> QED  BY <2>2 DEF Queue!Next
<1>5. CASE UNCHANGED heapvars
  BY <1>1, <1>2, <1>5 DEF heapvars
<1> QED  BY <1>3, <1>4, <1>5 DEF HeapNext

\* The skew heap is a priority queue: its root has the smallest key at any time.
THEOREM HeapImplements == HeapSpec => IsPriorityQueue
<1>1. HeapInit => Queue!Init
  <2> SUFFICES ASSUME HeapInit PROVE Queue!Init
    OBVIOUS
  <2>1. Members(links, run_pool) = queued
    BY InitHeap, HeapFront DEF HeapInv
  <2> QED  BY <2>1 DEF HeapInit, Queue!Init
<1> QED  BY <1>1, InitHeap, NextHeap, StepQueue, PTL DEF HeapSpec, IsPriorityQueue, Queue!Spec

-----------------------------------------------------------------------------
(* Words that wrap round: the lemmas on remainders of Queues, for integers *)

\* What the library does not say of quotients and remainders.
LEMMA Divided ==
    ASSUME NEW z \in Int, NEW m \in Nat \ {0}
    PROVE  z % m \in 0..m - 1 /\ z \div m \in Int /\ z = m * (z \div m) + (z % m)
OBVIOUS

\* Only one multiple of m lies between -m and m.
LEMMA Small ==
    ASSUME NEW k \in Int, NEW m \in Nat \ {0}, -m < m * k, m * k < m
    PROVE  k = 0
OBVIOUS

\* The remainder is unique.
LEMMA IntRemainder ==
    ASSUME NEW m \in Nat \ {0}, NEW q \in Int, NEW r \in 0..m - 1
    PROVE  (m * q + r) % m = r
<1> DEFINE z == m * q + r
           d == z \div m
<1>1. z \in Int /\ d \in Int /\ z % m \in 0..m - 1 /\ z = m * d + (z % m)
  <2>1. z \in Int
    OBVIOUS
  <2> HIDE DEF z
  <2> QED  BY <2>1, Divided
<1>2. m * (q - d) = (z % m) - r
  <2>1. m * (q - d) = m * q - m * d
    BY <1>1
  <2>2. z = m * q + r
    OBVIOUS
  <2> HIDE DEF d, z
  <2> QED  BY <1>1, <2>1, <2>2
<1>3. q - d = 0
  <2> HIDE DEF d, z
  <2>1. -m < m * (q - d) /\ m * (q - d) < m /\ q - d \in Int
    BY <1>1, <1>2
  <2> QED  BY <2>1, Small
<1>4. m * 0 = 0
  OBVIOUS
<1> QED  BY <1>1, <1>2, <1>3

\* A multiple of m changes no remainder.
LEMMA WrapsRound ==
    ASSUME NEW m \in Nat \ {0}, NEW z \in Int, NEW q \in Int
    PROVE  (z + m * q) % m = z % m
<1>1. z % m \in 0..m - 1 /\ z \div m \in Int /\ z = m * (z \div m) + (z % m)
  BY Divided
<1> DEFINE d == z \div m
           r == z % m
<1>2. z + m * q = m * (d + q) + r
  <2>1. m * (d + q) = m * d + m * q
    BY <1>1
  <2>2. m * d \in Int /\ m * q \in Int
    BY <1>1
  <2> HIDE DEF d, r
  <2> QED  BY <1>1, <2>1, <2>2 DEF d, r
<1>3. d + q \in Int /\ r \in 0..m - 1
  BY <1>1
<1> HIDE DEF d, r
<1>4. (m * (d + q) + r) % m = r
  BY <1>3, IntRemainder
<1> QED  BY <1>2, <1>4 DEF r

\* Words are added as their numbers are.
LEMMA Reduced ==
    ASSUME NEW m \in Nat \ {0}, NEW a \in Int, NEW c \in Int
    PROVE  ((a % m) + c) % m = (a + c) % m
<1> DEFINE d == a \div m
           r == a % m
<1>1. r \in 0..m - 1 /\ d \in Int /\ a = m * d + r
  BY Divided
<1> HIDE DEF d, r
<1>2. a + c = (r + c) + m * d
  BY <1>1
<1>3. ((r + c) + m * d) % m = (r + c) % m
  <2> DEFINE z == r + c
  <2>1. z \in Int
    BY <1>1
  <2> HIDE DEF z
  <2>2. (z + m * d) % m = z % m
    BY <1>1, <2>1, WrapsRound
  <2> QED  BY <2>2 DEF z
<1> QED  BY <1>2, <1>3 DEF r

\* The difference of the words of two numbers that are less than m apart.
LEMMA WordsApart ==
    ASSUME NEW m \in Nat \ {0}, NEW a \in Int, NEW b \in Int, -m < a - b, a - b < m
    PROVE  ((a % m) - (b % m) + m) % m = IF a >= b THEN a - b ELSE a - b + m
<1> DEFINE d == a \div m
           r == a % m
           e == b \div m
           s == b % m
<1>1. /\ r \in 0..m - 1 /\ d \in Int /\ a = m * d + r
      /\ s \in 0..m - 1 /\ e \in Int /\ b = m * e + s
  BY Divided
<1> HIDE DEF d, r, e, s
<1>2. r - s + m = (a - b) + m * (e - d + 1)
  <2>1. m * (e - d + 1) = m * e - m * d + m
    BY <1>1
  <2>2. m * e \in Int /\ m * d \in Int
    BY <1>1
  <2> QED  BY <1>1, <2>1, <2>2
<1>3. (r - s + m) % m = (a - b) % m
  <2> DEFINE z == a - b
             q == e - d + 1
  <2>1. z \in Int /\ q \in Int
    BY <1>1
  <2> HIDE DEF z, q
  <2>2. (z + m * q) % m = z % m
    BY <2>1, WrapsRound
  <2> QED  BY <1>2, <2>2 DEF z, q
<1>4. CASE a >= b
  <2>1. a - b \in 0..m - 1 /\ m * 0 + (a - b) = a - b
    BY <1>4
  <2>2. (m * 0 + (a - b)) % m = a - b
    BY <2>1, IntRemainder
  <2> QED  BY <1>3, <1>4, <2>1, <2>2 DEF r, s
<1>5. CASE ~(a >= b)
  <2>1. a - b + m \in 0..m - 1 /\ m * (-1) + (a - b + m) = a - b
    BY <1>5
  <2>2. (m * (-1) + (a - b + m)) % m = a - b + m
    BY <2>1, IntRemainder
  <2> QED  BY <1>3, <1>5, <2>1, <2>2 DEF r, s
<1> QED  BY <1>4, <1>5

-----------------------------------------------------------------------------
(* The run pool *)

Pools == [heap : Heaps(Entry), root : Entry \cup {NULL}, num : Nat,
          stride : [Entry -> Word], total : [Entry -> Nat],
          current : Entry \cup {idleproc}]

\* The pool of s has exactly the entries Q.
Holds(s, Q, le) ==
    /\ s \in Pools
    /\ Heap(s.heap, s.root, Q, Entry, le)
    /\ s.num = Cardinality(Q)

\* A tree keeps to every order that has the pairs of its entries.
LEMMA Reordered ==
    ASSUME NEW h, NEW r, NEW S, NEW E, NEW le, Heap(h, r, S, E, le),
           NEW new, \A x, y \in S : <<x, y>> \in le => <<x, y>> \in new
    PROVE  Heap(h, r, S, E, new)
<1>1. PICK sub : Tree(h, r, S, sub, le)
  BY DEF Heap, Planted
<1>2. Tree(h, r, S, sub, new)
  <2>1. \A e \in S : \A x \in sub[e] : <<e, x>> \in new
    BY <1>1 DEF Tree
  <2> QED  BY <1>1, <2>1 DEF Tree
<1> QED  BY <1>2 DEF Heap, Planted

\* What stride_enqueue does to the pool.
LEMMA Enqueued ==
    ASSUME NEW s, NEW Q, NEW le, Holds(s, Q, le),
           NEW p \in Entry, p \notin Q, Order(le, Q \cup {p}),
           Agrees(le, proc_stride_comp_f(s.stride), Q \cup {p})
    PROVE  LET t == stride_enqueue(s, p)
           IN  /\ Holds(t, Q \cup {p}, le)
               /\ t.root # NULL /\ t.stride = s.stride /\ t.total = s.total
               /\ t.current = s.current
<1> DEFINE after == skew_heap_insert(s.heap, s.root, p, proc_stride_comp_f(s.stride))
           t == stride_enqueue(s, p)
<1>1. Heap(after.heap, after.root, Q \cup {p}, Entry, le) /\ after.root # NULL
  BY InsertHeap, StrideAssumption DEF Holds
<1>2. after.heap \in Heaps(Entry) /\ after.root \in Entry \cup {NULL}
  BY <1>1 DEF Heap
<1>3. t = [s EXCEPT !.heap = after.heap, !.root = after.root, !.num = @ + 1]
  BY DEF stride_enqueue
<1> HIDE DEF after, t
<1>4. /\ t \in Pools /\ t.heap = after.heap /\ t.root = after.root /\ t.num = s.num + 1
      /\ t.stride = s.stride /\ t.total = s.total /\ t.current = s.current
  <2>1. s \in Pools /\ s.num + 1 \in Nat
    BY DEF Holds, Pools
  <2> QED  BY <1>2, <1>3, <2>1 DEF Pools
<1>5. t.num = Cardinality(Q \cup {p})
  <2>1. IsFiniteSet(Q)
    BY FS_Subset, StrideAssumption DEF Holds, Heap
  <2>2. Cardinality(Q \cup {p}) = Cardinality(Q) + 1
    BY <2>1, FS_AddElement
  <2> QED  BY <1>4, <2>2 DEF Holds
<1> QED  BY <1>1, <1>4, <1>5 DEF Holds, t

\* What stride_dequeue does to it, even when p is no longer in its place.
LEMMA Dequeued ==
    ASSUME NEW s, NEW Q, NEW le, Holds(s, Q, le),
           NEW p \in Q, Order(le, Q \ {p}),
           Agrees(le, proc_stride_comp_f(s.stride), Q \ {p})
    PROVE  LET t == stride_dequeue(s, p)
           IN  /\ Holds(t, Q \ {p}, le)
               /\ t.stride = s.stride /\ t.total = s.total /\ t.current = s.current
<1> DEFINE after == skew_heap_remove(s.heap, s.root, p, proc_stride_comp_f(s.stride))
           t == stride_dequeue(s, p)
<1>1. Heap(after.heap, after.root, Q \ {p}, Entry, le)
  BY RemoveHeap, StrideAssumption DEF Holds
<1>2. after.heap \in Heaps(Entry) /\ after.root \in Entry \cup {NULL}
  BY <1>1 DEF Heap
<1>3. t = [s EXCEPT !.heap = after.heap, !.root = after.root, !.num = @ - 1]
  BY DEF stride_dequeue
<1>4. IsFiniteSet(Q)
  BY FS_Subset, StrideAssumption DEF Holds, Heap
<1>5. Cardinality(Q \ {p}) = s.num - 1 /\ s.num - 1 \in Nat
  <2>1. Cardinality(Q \ {p}) = Cardinality(Q) - 1 /\ Cardinality(Q \ {p}) \in Nat
    BY <1>4, FS_RemoveElement, FS_CardinalityType, FS_Subset
  <2> QED  BY <2>1 DEF Holds
<1> HIDE DEF after, t
<1>6. /\ t \in Pools /\ t.heap = after.heap /\ t.root = after.root /\ t.num = s.num - 1
      /\ t.stride = s.stride /\ t.total = s.total /\ t.current = s.current
  BY <1>2, <1>3, <1>5 DEF Holds, Pools
<1> QED  BY <1>1, <1>5, <1>6 DEF Holds, t

\* What is divided by a priority.
LEMMA Shared ==
    ASSUME NEW z \in Nat, NEW n \in Nat \ {0}
    PROVE  z \div n \in 0..z /\ (n <= z => z \div n >= 1)
<1> DEFINE d == z \div n
           r == z % n
<1>1. r \in 0..n - 1 /\ d \in Int /\ z = n * d + r
  BY Divided
<1> HIDE DEF d, r
<1>2. d >= 0
  <2> SUFFICES ASSUME d <= -1 PROVE FALSE
    BY <1>1
  <2>1. n * d <= n * (-1) /\ n * (-1) = -n
    BY <1>1
  <2> QED  BY <1>1, <2>1
<1>3. d <= z
  <2>1. n * d >= 1 * d /\ n * d \in Int
    BY <1>1, <1>2
  <2> QED  BY <1>1, <1>2, <2>1
<1>4. n <= z => d >= 1
  <2> SUFFICES ASSUME n <= z, d = 0 PROVE FALSE
    BY <1>1, <1>2
  <2>1. n * d = 0
    OBVIOUS
  <2> QED  BY <1>1, <2>1
<1> QED  BY <1>1, <1>2, <1>3, <1>4 DEF d

LEMMA PassType ==
    ASSUME NEW n \in Nat
    PROVE  Pass(n) \in Nat
<1>1. BIG_STRIDE \in Nat /\ PASS_0 \in Nat
  BY StrideAssumption DEF BIG_STRIDE
<1> QED  BY <1>1, Shared DEF Pass

\* The turn of the root is charged to it and to nobody else.
LEMMA Charged ==
    ASSUME NEW s, NEW Q, NEW le, Holds(s, Q, le), s.root # NULL,
           lab6_priority \in [Entry -> Nat]
    PROVE  LET t == stride_pick_next(s)
               cost == Pass(lab6_priority[s.root])
           IN  /\ Holds(t, Q, le) /\ cost \in Nat
               /\ s.root \in Q /\ \A x \in Q : <<s.root, x>> \in le
               /\ t.stride = [s.stride EXCEPT ![s.root] = (@ + cost) % (2 * HALF)]
               /\ t.total = [s.total EXCEPT ![s.root] = @ + cost]
               /\ t.current = s.current /\ t.root = s.root
<1> DEFINE p == s.root
           t == stride_pick_next(s)
           cost == Pass(lab6_priority[p])
           word == (s.stride[p] + cost) % (2 * HALF)
<1>1. /\ s \in Pools /\ p \in Q /\ Q \subseteq Entry
      /\ \A x \in Q : <<p, x>> \in le
  BY RootFirst, StrideAssumption DEF Holds, Heap
<1>2. cost \in Nat
  BY <1>1, PassType
<1>3. s.stride[p] \in 0..2 * HALF - 1 /\ s.total[p] \in Nat
  BY <1>1 DEF Pools, Word
<1>4. word \in Word
  <2>1. 2 * HALF \in Nat \ {0}
    BY StrideAssumption
  <2> DEFINE m == 2 * HALF
             z == s.stride[p] + cost
  <2>2. z \in Int
    BY <1>2, <1>3, <2>1
  <2> HIDE DEF m, z
  <2>3. z % m \in 0..m - 1
    BY <2>1, <2>2, Divided DEF m
  <2> QED  BY <2>3 DEF m, z, Word
<1>5. t = [s EXCEPT !.stride = [s.stride EXCEPT ![p] = word],
                    !.total = [s.total EXCEPT ![p] = s.total[p] + cost]]
  BY <1>1 DEF stride_pick_next, Pools
<1> HIDE DEF t, cost, word
<1>6. /\ t \in Pools /\ t.heap = s.heap /\ t.root = s.root /\ t.num = s.num
      /\ t.stride = [s.stride EXCEPT ![p] = word]
      /\ t.total = [s.total EXCEPT ![p] = s.total[p] + cost] /\ t.current = s.current
  <2>1. s.total[p] + cost \in Nat
    BY <1>2, <1>3
  <2> HIDE DEF p
  <2> QED  BY <1>1, <1>4, <1>5, <2>1 DEF Pools
<1> QED  BY <1>1, <1>2, <1>6 DEF Holds, t, cost, word

\* The comparisons of entries whose strides have not changed.
LEMMA SameOrder ==
    ASSUME NEW le, NEW old, NEW new, NEW S \in SUBSET Entry, \A x \in S : new[x] = old[x],
           Agrees(le, proc_stride_comp_f(old), S)
    PROVE  Agrees(le, proc_stride_comp_f(new), S)
<1>1. ASSUME NEW x \in S, NEW y \in S
      PROVE  proc_stride_comp_f(new)[<<x, y>>] = proc_stride_comp_f(old)[<<x, y>>]
  <2>1. <<x, y>> \in Entry \X Entry /\ x \in S /\ y \in S
    OBVIOUS
  <2>2. new[x] = old[x] /\ new[y] = old[y]
    OBVIOUS
  <2> QED  BY <2>1, <2>2 DEF proc_stride_comp_f
<1>2. ASSUME NEW x \in S, NEW y \in S
      PROVE  OnTop(x, y, proc_stride_comp_f(new)) = OnTop(x, y, proc_stride_comp_f(old))
  BY <1>1 DEF OnTop
<1> QED  BY <1>2 DEF Agrees

\* The processes that are ready to run when st are the states.
ReadyIn(s, st, Q) ==
    Q \cup (IF s.current # idleproc /\ st[s.current] = "RUNNABLE" THEN {s.current} ELSE {})

\* Of the processes R that are ready to run one that comes before the others has
\* the CPU and has paid for its turn. The others are in the pool.
Turned(s, t, R, le) ==
    LET p    == t.current
        cost == Pass(lab6_priority[p])
    IN  /\ Holds(t, R \ {p}, le)
        /\ IF R = {} THEN p = idleproc /\ t.stride = s.stride /\ t.total = s.total
           ELSE /\ p \in R /\ cost \in Nat /\ \A x \in R : <<p, x>> \in le
                /\ t.stride = [s.stride EXCEPT ![p] = (@ + cost) % (2 * HALF)]
                /\ t.total = [s.total EXCEPT ![p] = @ + cost]

\* This is what schedule() does.
LEMMA Scheduled ==
    ASSUME lab6_priority \in [Entry -> Nat],
           NEW s, NEW st, NEW Q, NEW le, Holds(s, Q, le), s.current \notin Q,
           NEW R, R = ReadyIn(s, st, Q),
           Order(le, R), Agrees(le, proc_stride_comp_f(s.stride), R)
    PROVE  Turned(s, schedule(s, st), R, le)
<1> DEFINE q == IF s.current # idleproc /\ st[s.current] = "RUNNABLE"
                  THEN stride_enqueue(s, s.current) ELSE s
           u == stride_pick_next(q)
           v == stride_dequeue(u, q.root)
           t == schedule(s, st)
<1>1. /\ Holds(q, R, le) /\ q.stride = s.stride /\ q.total = s.total
      /\ q.current = s.current
  <2>1. CASE s.current # idleproc /\ st[s.current] = "RUNNABLE"
    <3>1. s.current \in Entry /\ R = Q \cup {s.current}
      BY <2>1 DEF Holds, Pools, ReadyIn
    <3>2. q = stride_enqueue(s, s.current)
      BY <2>1
    <3> HIDE DEF q
    <3> QED  BY <3>1, <3>2, Enqueued
  <2>2. CASE ~(s.current # idleproc /\ st[s.current] = "RUNNABLE")
    BY <2>2 DEF ReadyIn
  <2> QED  BY <2>1, <2>2
<1>2. t = IF q.root = NULL THEN [q EXCEPT !.current = idleproc]
          ELSE [v EXCEPT !.current = q.root]
  BY DEF schedule
<1> HIDE DEF q, t
<1>3. R \subseteq Entry /\ (q.root = NULL => R = {}) /\ (q.root # NULL => q.root \in R)
  <2>1. Heap(q.heap, q.root, R, Entry, le) /\ NULL \notin Entry
    BY <1>1, StrideAssumption DEF Holds
  <2>2. R \subseteq Entry
    BY <2>1 DEF Heap
  <2> QED  BY <2>1, <2>2, RootFirst
<1>4. CASE q.root = NULL
  <2>1. /\ t \in Pools /\ t.heap = q.heap /\ t.root = q.root /\ t.num = q.num
        /\ t.stride = s.stride /\ t.total = s.total /\ t.current = idleproc
    BY <1>1, <1>2, <1>4 DEF Holds, Pools
  <2>2. R = {} /\ R \ {t.current} = R
    BY <1>3, <1>4
  <2> QED  BY <1>1, <2>1, <2>2 DEF Holds, Turned, t
<1>5. CASE q.root # NULL
  <2> DEFINE p == q.root
             cost == Pass(lab6_priority[p])
  <2>1. /\ Holds(u, R, le) /\ cost \in Nat
        /\ p \in R /\ \A x \in R : <<p, x>> \in le
        /\ u.stride = [q.stride EXCEPT ![p] = (@ + cost) % (2 * HALF)]
        /\ u.total = [q.total EXCEPT ![p] = @ + cost]
    <3> HIDE DEF u
    <3> QED  BY <1>1, <1>5, Charged DEF u
  <2> HIDE DEF u, p, cost
  <2>2. Agrees(le, proc_stride_comp_f(u.stride), R \ {p})
    <3>1. Agrees(le, proc_stride_comp_f(s.stride), R \ {p})
      BY DEF Agrees
    <3>2. \A x \in R \ {p} : u.stride[x] = s.stride[x]
      BY <1>1, <1>3, <2>1 DEF Holds, Pools
    <3> QED  BY <1>3, <3>1, <3>2, SameOrder
  <2>3. Order(le, R \ {p})
    BY DEF Order
  <2>4. Holds(v, R \ {p}, le) /\ v.stride = u.stride /\ v.total = u.total
    <3>1. p \in R /\ Holds(u, R, le)
      BY <2>1
    <3>2. LET w == stride_dequeue(u, p)
          IN  Holds(w, R \ {p}, le) /\ w.stride = u.stride /\ w.total = u.total
      BY <2>2, <2>3, <3>1, Dequeued
    <3> QED  BY <3>2 DEF p
  <2> HIDE DEF v
  <2>5. /\ t \in Pools /\ t.heap = v.heap /\ t.root = v.root /\ t.num = v.num
        /\ t.stride = v.stride /\ t.total = v.total /\ t.current = p
    BY <1>2, <1>3, <1>5, <2>1, <2>4 DEF Holds, Pools, p
  <2>6. Holds(t, R \ {t.current}, le)
    BY <2>4, <2>5 DEF Holds
  <2>7. R # {}
    BY <2>1
  <2> QED  BY <1>1, <2>1, <2>4, <2>5, <2>6, <2>7 DEF Turned, t, cost
<1> QED  BY <1>4, <1>5

\* The pool as alloc_proc and stride_init leave it has no entry.
LEMMA EmptyHolds ==
    ASSUME NEW le
    PROVE  Holds(EmptyPool, {}, le)
<1> DEFINE none == [left |-> NoLinks, right |-> NoLinks, parent |-> NoLinks]
           sub == [e \in {} |-> {}]
<1>1. none \in Heaps(Entry)
  BY DEF NoLinks, Heaps
<1> HIDE DEF none
<1>2. Tree(none, NULL, {}, sub, le)
  BY DEF Tree
<1>3. Heap(none, NULL, {}, Entry, le)
  BY <1>1, <1>2 DEF Heap, Planted
<1>4. /\ EmptyPool.heap = none /\ EmptyPool.root = NULL /\ EmptyPool.num = 0
      /\ EmptyPool \in Pools
  <2>1. EmptyPool = [heap |-> none, root |-> NULL, num |-> 0,
                     stride |-> [p \in Entry |-> 0], total |-> [p \in Entry |-> 0],
                     current |-> idleproc]
    BY DEF EmptyPool, none
  <2>2. 0 \in Word
    BY StrideAssumption DEF Word
  <2> QED  BY <1>1, <2>1, <2>2 DEF Pools
<1> QED  BY <1>3, <1>4, FS_EmptySet DEF Holds

\* The recursive function of StartPool.
IsStart(f) ==
    f = [n \in 0..Len(Starters) |->
          IF n = 0 THEN EmptyPool ELSE stride_enqueue(f[n - 1], Starters[n])]

Forked(k) == {Starters[n] : n \in 1..k}

\* The pool of f[k] has the first k processes, at the stride 0.
Begun(f, k, le) ==
    /\ Holds(f[k], Forked(k), le)
    /\ f[k].stride = [p \in Entry |-> 0] /\ f[k].total = [p \in Entry |-> 0]
    /\ f[k].current = idleproc

\* The processes there are at the start are all in the pool.
LEMMA Started ==
    ASSUME NEW le, Order(le, Entry),
           Agrees(le, proc_stride_comp_f([p \in Entry |-> 0]), Entry)
    PROVE  /\ Holds(StartPool, {Starters[n] : n \in DOMAIN Starters}, le)
           /\ StartPool.stride = [p \in Entry |-> 0]
           /\ StartPool.total = [p \in Entry |-> 0] /\ StartPool.current = idleproc
<1> DEFINE max == Len(Starters)
           zero == [p \in Entry |-> 0]
           In(s) == Members(s.heap, s.root)
           T == {s \in Pools : /\ Holds(s, In(s), le) /\ s.stride = zero
                               /\ s.total = zero /\ s.current = idleproc}
           More(k, s) == IF k \in 1..max /\ Starters[k] \notin In(s)
                           THEN stride_enqueue(s, Starters[k]) ELSE s
           next == [x \in Nat \X T |-> More(x[1], x[2])]
<1>1. /\ max \in Nat /\ DOMAIN Starters = 1..max
      /\ \A n \in 1..max : Starters[n] \in Entry
      /\ \A m, n \in 1..max : Starters[m] = Starters[n] => m = n
  BY StrideAssumption
<1>2. ASSUME NEW s, NEW Q, Holds(s, Q, le) PROVE In(s) = Q
  BY <1>2, SeenExactly, StrideAssumption DEF Holds
<1>3. ASSUME NEW p \in Entry, NEW s, NEW Q, p \notin Q, Holds(s, Q, le), s.stride = zero,
             s.total = zero, s.current = idleproc
      PROVE  LET t == stride_enqueue(s, p)
             IN  /\ Holds(t, Q \cup {p}, le) /\ t.stride = zero /\ t.total = zero
                 /\ t.current = idleproc
  <2>1. Q \cup {p} \subseteq Entry
    BY <1>3 DEF Holds, Heap
  <2>2. Order(le, Q \cup {p})
    BY <2>1 DEF Order
  <2>3. Agrees(le, proc_stride_comp_f(s.stride), Q \cup {p})
    <3>1. Agrees(le, proc_stride_comp_f(s.stride), Entry)
      BY <1>3
    <3> QED  BY <2>1, <3>1 DEF Agrees
  <2> HIDE DEF zero
  <2> QED  BY <1>3, <2>2, <2>3, Enqueued
<1>4. EmptyPool \in T
  <2>1. Holds(EmptyPool, {}, le)
    BY EmptyHolds
  <2>2. EmptyPool \in Pools /\ In(EmptyPool) = {}
    BY <1>2, <2>1 DEF Holds
  <2> HIDE DEF In
  <2> QED  BY <2>1, <2>2 DEF EmptyPool
<1>5. ASSUME NEW k \in Nat, NEW s \in T PROVE More(k, s) \in T
  <2>1. CASE k \in 1..max /\ Starters[k] \notin In(s)
    <3> DEFINE t == stride_enqueue(s, Starters[k])
    <3>1. /\ Holds(t, In(s) \cup {Starters[k]}, le) /\ t.stride = zero /\ t.total = zero
          /\ t.current = idleproc
      <4> HIDE DEF In, zero
      <4> QED  BY <1>1, <1>3, <2>1
    <3>2. In(t) = In(s) \cup {Starters[k]} /\ t \in Pools
      BY <1>2, <3>1 DEF Holds
    <3>3. More(k, s) = t
      BY <2>1
    <3> HIDE DEF In, zero, t, More
    <3> QED  BY <3>1, <3>2, <3>3
  <2>2. CASE ~(k \in 1..max /\ Starters[k] \notin In(s))
    <3> HIDE DEF T
    <3> QED  BY <2>2
  <2> QED  BY <2>1, <2>2
<1>6. next \in [Nat \X T -> T]
  <2> HIDE DEF T, More
  <2> QED  BY <1>5
<1>7. PICK f : Steps(f, T, EmptyPool, next, max)
  <2> HIDE DEF T, next, max
  <2> QED  BY <1>1, <1>4, <1>6, Recursion
<1>8. f[0] = EmptyPool
  <2>1. 0 \in 0..max
    BY <1>1
  <2> HIDE DEF T, next, max
  <2> QED  BY <1>7, <2>1 DEF Steps
<1>9. ASSUME NEW k \in 1..max PROVE f[k] = More(k, f[k - 1])
  <2>1. k \in Nat /\ k - 1 \in 0..max /\ k \in 0..max /\ k # 0
    BY <1>1
  <2>2. f[k - 1] \in T /\ f[k] = next[<<k, f[k - 1]>>]
    <3> HIDE DEF T, next
    <3> QED  BY <1>7, <2>1 DEF Steps
  <2> HIDE DEF T, More
  <2> QED  BY <2>1, <2>2
<1> HIDE DEF T, next
<1>10. ASSUME NEW k \in Nat, k + 1 \in 1..max, Begun(f, k, le)
       PROVE  f[k + 1] = stride_enqueue(f[k], Starters[k + 1]) /\ Begun(f, k + 1, le)
  <2> DEFINE p == Starters[k + 1]
  <2>1. p \in Entry /\ p \notin Forked(k) /\ Forked(k + 1) = Forked(k) \cup {p}
    <3>1. 1..k + 1 = (1..k) \cup {k + 1} /\ \A n \in 1..k : n \in 1..max /\ n # k + 1
      BY <1>1, <1>10
    <3> QED  BY <1>1, <1>10, <3>1 DEF Forked
  <2>2. (k + 1) - 1 = k
    OBVIOUS
  <2>3. f[k + 1] = stride_enqueue(f[k], p)
    <3>1. In(f[k]) = Forked(k)
      BY <1>2, <1>10 DEF Begun
    <3>2. f[k + 1] = More(k + 1, f[k])
      <4> HIDE DEF More
      <4> QED  BY <1>9, <1>10, <2>2
    <3> HIDE DEF In
    <3> QED  BY <1>10, <2>1, <3>1, <3>2
  <2> DEFINE s == f[k]
             Q == Forked(k)
             t == stride_enqueue(s, p)
  <2>4. Holds(s, Q, le) /\ s.stride = zero /\ s.total = zero /\ s.current = idleproc
    BY <1>10 DEF Begun
  <2>5. /\ Holds(t, Q \cup {p}, le) /\ t.stride = zero /\ t.total = zero
        /\ t.current = idleproc
    <3> HIDE DEF p, s, Q, zero
    <3> QED  BY <1>3, <2>1, <2>4 DEF Q
  <2>6. f[k + 1] = t /\ Forked(k + 1) = Q \cup {p}
    BY <2>1, <2>3
  <2> HIDE DEF p, s, Q, t
  <2> QED  BY <2>3, <2>5, <2>6 DEF Begun, p, s
<1>11. Begun(f, 0, le)
  <2>1. Forked(0) = {}
    BY DEF Forked
  <2>2. EmptyPool.stride = zero /\ EmptyPool.total = zero /\ EmptyPool.current = idleproc
    BY DEF EmptyPool
  <2> QED  BY <1>8, <2>1, <2>2, EmptyHolds DEF Begun
<1>12. \A k \in 0..max : Begun(f, k, le)
  <2> DEFINE N == {k \in Nat : k <= max => Begun(f, k, le)}
  <2>1. 0 \in N
    BY <1>11
  <2>2. ASSUME NEW k \in Nat, k \in N PROVE k + 1 \in N
    <3> SUFFICES ASSUME k + 1 <= max PROVE Begun(f, k + 1, le)
      OBVIOUS
    <3>1. k + 1 \in 1..max /\ k <= max
      BY <1>1
    <3> HIDE DEF max
    <3> QED  BY <1>10, <2>2, <3>1
  <2>3. Nat \subseteq N
    <3> HIDE DEF N
    <3> QED  BY <2>1, <2>2, Induction
  <2> QED  BY <1>1, <2>3
<1>13. IsStart(f)
  <2> DEFINE Level(n) == IF n = 0 THEN EmptyPool ELSE stride_enqueue(f[n - 1], Starters[n])
  <2>1. ASSUME NEW n \in 0..max PROVE f[n] = Level(n)
    <3>1. CASE n = 0
      BY <1>8, <3>1
    <3>2. CASE n # 0
      <4> DEFINE k == n - 1
      <4>1. k \in Nat /\ k + 1 = n /\ k \in 0..max /\ n \in 1..max
        BY <1>1, <3>2
      <4> HIDE DEF k
      <4>2. f[k + 1] = stride_enqueue(f[k], Starters[k + 1])
        <5> HIDE DEF max
        <5> QED  BY <1>10, <1>12, <4>1
      <4> QED  BY <3>2, <4>1, <4>2 DEF k
    <3> QED  BY <3>1, <3>2
  <2>2. f = [n \in 0..max |-> f[n]]
    BY <1>7 DEF Steps
  <2>3. f = [n \in 0..max |-> Level(n)]
    <3> HIDE DEF Level
    <3> QED  BY <2>1, <2>2
  <2> QED  BY <2>3 DEF IsStart
<1> DEFINE g == CHOOSE m : IsStart(m)
<1>14. IsStart(g)
  BY <1>13
<1>15. StartPool = g[max]
  BY DEF StartPool, IsStart
<1>16. \A k \in 0..max : g[k] = f[k]
  <2> DEFINE N == {k \in Nat : k <= max => g[k] = f[k]}
  <2>1. ASSUME NEW d, IsStart(d)
        PROVE  /\ d[0] = EmptyPool
               /\ \A k \in Nat : k + 1 <= max =>
                    d[k + 1] = stride_enqueue(d[k], Starters[k + 1])
    <3>1. d = [n \in 0..max |->
                IF n = 0 THEN EmptyPool ELSE stride_enqueue(d[n - 1], Starters[n])]
      BY <2>1 DEF IsStart
    <3>2. 0 \in 0..max
      BY <1>1
    <3>3. ASSUME NEW k \in Nat, k + 1 <= max
          PROVE  k + 1 \in 0..max /\ k + 1 # 0 /\ (k + 1) - 1 = k
      BY <1>1, <3>3
    <3> HIDE DEF max
    <3>4. d[0] = EmptyPool
      BY <3>1, <3>2
    <3>5. ASSUME NEW k \in Nat, k + 1 <= max
          PROVE  d[k + 1] = stride_enqueue(d[k], Starters[k + 1])
      <4>1. d[k + 1] = IF k + 1 = 0 THEN EmptyPool
                       ELSE stride_enqueue(d[(k + 1) - 1], Starters[k + 1])
        BY <3>1, <3>3, <3>5
      <4> QED  BY <3>3, <3>5, <4>1
    <3> QED  BY <3>4, <3>5
  <2> HIDE DEF g
  <2>2. 0 \in N
    BY <1>13, <1>14, <2>1
  <2>3. ASSUME NEW k \in Nat, k \in N PROVE k + 1 \in N
    <3> SUFFICES ASSUME k + 1 <= max PROVE g[k + 1] = f[k + 1]
      OBVIOUS
    <3>1. g[k] = f[k]
      BY <1>1, <2>3
    <3> HIDE DEF max
    <3> QED  BY <1>13, <1>14, <2>1, <3>1
  <2>4. Nat \subseteq N
    <3> HIDE DEF N
    <3> QED  BY <2>2, <2>3, Induction
  <2> QED  BY <1>1, <2>4
<1>17. Begun(f, max, le) /\ StartPool = f[max]
  <2>1. max \in 0..max
    BY <1>1
  <2> HIDE DEF max, g
  <2> QED  BY <1>12, <1>15, <1>16, <2>1
<1> QED  BY <1>1, <1>17 DEF Begun, Forked

-----------------------------------------------------------------------------
(* The pool of a class whose comparison need not be an order *)

AnyOrder == Entry \X Entry

\* Only a process that is ready to run runs.
PoolInv ==
    /\ Holds(Pool, Queued, AnyOrder)
    /\ lab6_priority \in [Entry -> Nat]
    /\ state \in [Entry -> {"FREE", "RUNNABLE", "SLEEPING"}]
    /\ current # idleproc => state[current] = "RUNNABLE"

LEMMA AnyAgrees ==
    ASSUME NEW S \in SUBSET Entry, NEW comp
    PROVE  Order(AnyOrder, S) /\ Agrees(AnyOrder, comp, S)
BY DEF AnyOrder, Order, Agrees

LEMMA PoolTypes ==
    ASSUME PoolInv
    PROVE  /\ heap \in Heaps(Entry) /\ lab6_run_pool \in Entry \cup {NULL}
           /\ proc_num = Cardinality(Queued) /\ lab6_stride \in [Entry -> Word]
           /\ total \in [Entry -> Nat] /\ current \in Entry \cup {idleproc}
           /\ Heap(heap, lab6_run_pool, Queued, Entry, AnyOrder)
BY DEF PoolInv, Holds, Pools, Pool

\* The handler has left the pool t.
LEMMA Became ==
    ASSUME NEW t \in Pools, Become(t)
    PROVE  Pool' = t
BY DEF Become, Pool, Pools

\* The invariant says what the properties say.
LEMMA ImpliesExact ==
    PoolInv /\ steady \in BOOLEAN => StrideTypeOK /\ PoolExact
<1> SUFFICES ASSUME PoolInv, steady \in BOOLEAN PROVE StrideTypeOK /\ PoolExact
  OBVIOUS
<1>1. IsTree(heap, lab6_run_pool) /\ Members(heap, lab6_run_pool) = Queued
  BY PoolTypes, SeenExactly, StrideAssumption
<1>2. Cardinality(Queued) \in 0..Cardinality(Entry)
  <2>1. Queued \subseteq Entry /\ IsFiniteSet(Entry)
    BY StrideAssumption DEF Queued
  <2>2. Cardinality(Queued) <= Cardinality(Entry) /\ IsFiniteSet(Queued)
    BY <2>1, FS_Subset
  <2>3. Cardinality(Queued) \in Nat /\ Cardinality(Entry) \in Nat
    BY <2>1, <2>2, FS_CardinalityType
  <2> QED  BY <2>2, <2>3
<1> QED  BY <1>1, <1>2, PoolTypes DEF PoolInv, StrideTypeOK, PoolExact

\* The Starters are ready to run and nobody else is.
LEMMA InitQueued ==
    StrideInit => Queued = {Starters[n] : n \in DOMAIN Starters}
<1> SUFFICES ASSUME StrideInit
             PROVE  Queued = {Starters[n] : n \in DOMAIN Starters}
  OBVIOUS
<1> DEFINE Q == {Starters[n] : n \in DOMAIN Starters}
<1>1. Q \subseteq Entry /\ idleproc \notin Entry
  BY StrideAssumption
<1>2. ASSUME NEW p \in Entry PROVE p \in Q <=> \E n \in DOMAIN Starters : Starters[n] = p
  OBVIOUS
<1>3. ASSUME NEW p \in Entry PROVE state[p] = "RUNNABLE" <=> p \in Q
  BY <1>2 DEF StrideInit
<1> HIDE DEF Q
<1>4. Queued = Q
  BY <1>1, <1>3 DEF Queued, StrideInit
<1> QED  BY <1>4 DEF Q

LEMMA InitPool ==
    StrideInit => PoolInv
<1> SUFFICES ASSUME StrideInit PROVE PoolInv
  OBVIOUS
<1> DEFINE Q == {Starters[n] : n \in DOMAIN Starters}
<1>1. Holds(StartPool, Q, AnyOrder) /\ StartPool.current = idleproc
  BY AnyAgrees, Started
<1>2. Pool = StartPool
  <2>1. StartPool \in Pools
    BY <1>1 DEF Holds
  <2> QED  BY <1>1, <2>1 DEF StrideInit, Pool, Pools
<1>3. Queued = Q
  BY InitQueued
<1> QED  BY <1>1, <1>2, <1>3 DEF StrideInit, PoolInv

\* The processes that are ready to run, when the current one may have stopped.
LEMMA Rescheduled ==
    ASSUME PoolInv,
           NEW st \in [Entry -> {"FREE", "RUNNABLE", "SLEEPING"}],
           \A p \in Entry : p # current => st[p] = state[p],
           state' = st, Become(schedule(Pool, st)), UNCHANGED lab6_priority
    PROVE  PoolInv'
<1> DEFINE R == ReadyIn(Pool, st, Queued)
           t == schedule(Pool, st)
<1>1. Pool.current = current /\ current \notin Queued
  BY DEF Pool, Queued
<1>2. R = {p \in Entry : st[p] = "RUNNABLE"}
  <2>1. current \in Entry \cup {idleproc} /\ idleproc \notin Entry
    BY PoolTypes, StrideAssumption
  <2> QED  BY <1>1, <2>1 DEF Queued, ReadyIn
<1>3. /\ Holds(t, R \ {t.current}, AnyOrder)
      /\ IF R = {} THEN t.current = idleproc ELSE t.current \in R
  <2>1. R \subseteq Entry
    BY <1>2
  <2>2. R = ReadyIn(Pool, st, Queued) /\ Pool.current \notin Queued
    BY <1>1
  <2>3. Holds(Pool, Queued, AnyOrder) /\ lab6_priority \in [Entry -> Nat]
    BY DEF PoolInv
  <2>4. Order(AnyOrder, R) /\ Agrees(AnyOrder, proc_stride_comp_f(Pool.stride), R)
    BY <2>1, AnyAgrees
  <2> HIDE DEF R, t
  <2>5. Turned(Pool, t, R, AnyOrder)
    BY <2>2, <2>3, <2>4, Scheduled DEF t
  <2> QED  BY <2>5 DEF Turned
<1> HIDE DEF R, t
<1>4. Pool' = t /\ current' = t.current
  <2>1. t \in Pools /\ Become(t)
    BY <1>3 DEF Holds, t
  <2> QED  BY <2>1, Became DEF Become
<1>5. Queued' = R \ {t.current}
  BY <1>2, <1>4 DEF Queued
<1>6. current' # idleproc => state'[current'] = "RUNNABLE"
  BY <1>2, <1>3, <1>4
<1>7. Holds(Pool, Queued, AnyOrder)'
  BY <1>3, <1>4, <1>5 DEF Holds, Heap, Planted, AnyOrder
<1> QED  BY <1>6, <1>7 DEF PoolInv

\* A process becomes ready to run; its stride may have changed before.
LEMMA Queueing ==
    ASSUME PoolInv, NEW p \in Entry, state[p] # "RUNNABLE",
           state' = [state EXCEPT ![p] = "RUNNABLE"], lab6_priority' \in [Entry -> Nat],
           NEW s, Holds(s, Queued, AnyOrder), s.current = current,
           Become(stride_enqueue(s, p))
    PROVE  PoolInv'
<1> DEFINE t == stride_enqueue(s, p)
<1>1. p \notin Queued /\ p # current
  <2>1. p # idleproc
    BY StrideAssumption
  <2> QED  BY <2>1 DEF Queued, PoolInv
<1>2. Holds(t, Queued \cup {p}, AnyOrder) /\ t.current = current
  <2>1. Queued \cup {p} \subseteq Entry
    BY DEF Queued
  <2>2. /\ Order(AnyOrder, Queued \cup {p})
        /\ Agrees(AnyOrder, proc_stride_comp_f(s.stride), Queued \cup {p})
    BY <2>1, AnyAgrees
  <2> QED  BY <1>1, <2>2, Enqueued
<1> HIDE DEF t
<1>3. Pool' = t /\ current' = current
  <2>1. t \in Pools /\ Become(t)
    BY <1>2 DEF Holds, t
  <2> QED  BY <1>2, <2>1, Became DEF Become
<1>4. /\ state' \in [Entry -> {"FREE", "RUNNABLE", "SLEEPING"}]
      /\ \A q \in Entry : q # p => state'[q] = state[q]
      /\ state'[p] = "RUNNABLE"
  BY DEF PoolInv
<1>5. Queued' = Queued \cup {p}
  BY <1>1, <1>3, <1>4 DEF Queued
<1>6. current' # idleproc => state'[current'] = "RUNNABLE"
  <2>1. current \in Entry \cup {idleproc}
    BY PoolTypes
  <2> QED  BY <1>1, <1>3, <1>4, <2>1 DEF PoolInv
<1>7. Holds(Pool, Queued, AnyOrder)'
  BY <1>2, <1>3, <1>5 DEF Holds, Heap, Planted, AnyOrder
<1> QED  BY <1>4, <1>6, <1>7 DEF PoolInv

LEMMA SwitchPool ==
    PoolInv /\ Switch => PoolInv'
<1> SUFFICES ASSUME PoolInv, Switch PROVE PoolInv'
  OBVIOUS
<1>1. /\ state \in [Entry -> {"FREE", "RUNNABLE", "SLEEPING"}] /\ state' = state
      /\ Become(schedule(Pool, state)) /\ UNCHANGED lab6_priority
  BY DEF Switch, PoolInv
<1> QED  BY <1>1, Rescheduled

\* The current process sleeps or is gone when schedule() is called.
LEMMA SleepExitPool ==
    PoolInv /\ (Sleep \/ Exit) => PoolInv'
<1> SUFFICES ASSUME PoolInv,
                    NEW to \in {"FREE", "SLEEPING"}, current # idleproc,
                    state' = [state EXCEPT ![current] = to],
                    Become(schedule(Pool, [state EXCEPT ![current] = to])),
                    UNCHANGED lab6_priority
             PROVE  PoolInv'
  BY DEF Sleep, Exit
<1> DEFINE st == [state EXCEPT ![current] = to]
<1>1. st \in [Entry -> {"FREE", "RUNNABLE", "SLEEPING"}]
  BY DEF PoolInv
<1>2. \A p \in Entry : p # current => st[p] = state[p]
  BY DEF PoolInv
<1>3. state' = st /\ Become(schedule(Pool, st)) /\ UNCHANGED lab6_priority
  OBVIOUS
<1> HIDE DEF st
<1> QED  BY <1>1, <1>2, <1>3, Rescheduled

LEMMA WakeupPool ==
    ASSUME PoolInv, NEW p \in Entry, Wakeup(p)
    PROVE  PoolInv'
<1>1. /\ state[p] # "RUNNABLE" /\ state' = [state EXCEPT ![p] = "RUNNABLE"]
      /\ lab6_priority' \in [Entry -> Nat] /\ Become(stride_enqueue(Pool, p))
  BY DEF Wakeup, PoolInv
<1>2. Holds(Pool, Queued, AnyOrder) /\ Pool.current = current
  BY DEF PoolInv, Pool
<1> QED  BY <1>1, <1>2, Queueing

\* alloc_proc clears the stride of a process that is not in the pool.
LEMMA ForkPool ==
    ASSUME PoolInv, NEW p \in Entry, Fork(p)
    PROVE  PoolInv'
<1> DEFINE s == [Pool EXCEPT !.stride[p] = 0, !.total[p] = 0]
<1>1. /\ state[p] # "RUNNABLE" /\ state' = [state EXCEPT ![p] = "RUNNABLE"]
      /\ lab6_priority' \in [Entry -> Nat] /\ Become(stride_enqueue(s, p))
  BY DEF Fork, PoolInv
<1>2. /\ s \in Pools /\ s.heap = Pool.heap /\ s.root = Pool.root /\ s.num = Pool.num
      /\ s.current = Pool.current
  <2>1. Pool \in Pools
    BY DEF PoolInv, Holds
  <2>2. 0 \in Word
    BY StrideAssumption DEF Word
  <2> QED  BY <2>1, <2>2 DEF Pools
<1>3. Holds(s, Queued, AnyOrder) /\ s.current = current
  BY <1>2 DEF PoolInv, Holds, Pool
<1> HIDE DEF s
<1> QED  BY <1>1, <1>3, Queueing

LEMMA PriorityPool ==
    ASSUME PoolInv, NEW n \in Priorities, lab6_set_priority(n)
    PROVE  PoolInv'
<1>1. /\ Pool' = Pool /\ Queued' = Queued /\ state' = state /\ current' = current
  BY DEF lab6_set_priority, Pool, Queued
<1>2. lab6_priority' \in [Entry -> Nat]
  <2>1. (IF n = 0 THEN 1 ELSE n) \in Nat
    BY StrideAssumption
  <2> QED  BY <2>1 DEF lab6_set_priority, PoolInv
<1>3. Holds(Pool, Queued, AnyOrder)'
  BY <1>1 DEF PoolInv, Holds, Heap, Planted, AnyOrder
<1> QED  BY <1>1, <1>2, <1>3 DEF PoolInv

LEMMA NextPool ==
    PoolInv /\ [StrideNext]_stridevars => PoolInv'
<1> SUFFICES ASSUME PoolInv, [StrideNext]_stridevars PROVE PoolInv'
  OBVIOUS
<1>1. CASE Switch \/ Sleep \/ Exit
  BY <1>1, SwitchPool, SleepExitPool
<1>2. CASE \E p \in Entry : Wakeup(p) \/ Fork(p)
  BY <1>2, WakeupPool, ForkPool
<1>3. CASE \E n \in Priorities : lab6_set_priority(n)
  BY <1>3, PriorityPool
<1>4. CASE UNCHANGED stridevars
  <2>1. Pool' = Pool /\ Queued' = Queued
    BY <1>4 DEF stridevars, Pool, Queued
  <2> QED  BY <1>4, <2>1 DEF stridevars, PoolInv, Holds, Heap, Planted, AnyOrder
<1> QED  BY <1>1, <1>2, <1>3, <1>4 DEF StrideNext

LEMMA FlagKept ==
    steady \in BOOLEAN /\ [StrideNext]_stridevars => (steady \in BOOLEAN)'
BY DEF StrideNext, stridevars, Switch, Sleep, Exit, Wakeup, Fork, lab6_set_priority

\* However many processes come, sleep, wake up and go, whatever their strides and
\* however often those wrap round: stride_enqueue and stride_dequeue keep every
\* process that is ready to run and does not run in the pool, once, and the links
\* of the pool stay those of a tree.
THEOREM PoolKept == StrideSpec => [](StrideTypeOK /\ PoolExact)
<1>1. StrideInit => PoolInv /\ steady \in BOOLEAN
  BY InitPool DEF StrideInit
<1>2. /\ PoolInv /\ steady \in BOOLEAN /\ [StrideNext]_stridevars
      => PoolInv' /\ (steady \in BOOLEAN)'
  BY NextPool, FlagKept
<1>3. PoolInv /\ steady \in BOOLEAN => StrideTypeOK /\ PoolExact
  BY ImpliesExact
<1> QED  BY <1>1, <1>2, <1>3, PTL DEF StrideSpec

-----------------------------------------------------------------------------
(* Processes that compute all the time *)

\* The order of the processes by what they have used.
ByTotal(t) == {e \in Entry \X Entry : t[e[1]] <= t[e[2]]}

Close == \A p, q \in Ready : total[p] - total[q] <= BIG_STRIDE

\* The strides are the words of the totals, and so close that the words tell the
\* order of the totals.
SteadyInv ==
    /\ Holds(Pool, Queued, ByTotal(total))
    /\ lab6_priority \in [Entry -> 0..BIG_STRIDE]
    /\ state \in [Entry -> {"FREE", "RUNNABLE", "SLEEPING"}]
    /\ current # idleproc => state[current] = "RUNNABLE"
    /\ \A p \in Entry : lab6_stride[p] = total[p] % (2 * HALF)
    /\ Close

LEMMA TotalOrder ==
    ASSUME NEW t \in [Entry -> Nat], NEW S \in SUBSET Entry
    PROVE  Order(ByTotal(t), S)
<1>1. ASSUME NEW x \in S, NEW y \in S PROVE <<x, y>> \in ByTotal(t) <=> t[x] <= t[y]
  BY DEF ByTotal
<1>2. \A x \in S : t[x] \in Nat
  OBVIOUS
<1> QED  BY <1>1, <1>2 DEF Order

\* What the sign of a difference of words says.
LEMMA SignOfWords ==
    ASSUME NEW t \in [Entry -> Nat], NEW stride,
           NEW x \in Entry, NEW y \in Entry,
           stride[x] = t[x] % (2 * HALF), stride[y] = t[y] % (2 * HALF),
           t[x] - t[y] <= BIG_STRIDE, t[y] - t[x] <= BIG_STRIDE
    PROVE  proc_stride_comp_f(stride)[<<x, y>>] =
             IF t[x] > t[y] THEN 1 ELSE IF t[x] = t[y] THEN 0 ELSE -1
<1> DEFINE m == 2 * HALF
           a == t[x]
           b == t[y]
           c == Difference(stride[x], stride[y])
<1>1. /\ m \in Nat \ {0} /\ HALF \in Nat \ {0} /\ a \in Nat /\ b \in Nat
      /\ -m < a - b /\ a - b < m
  BY StrideAssumption DEF BIG_STRIDE
<1>2. c = IF a >= b THEN a - b ELSE a - b + m
  <2>1. c = ((a % m) - (b % m) + m) % m
    BY DEF Difference
  <2>2. m \in Nat \ {0} /\ a \in Int /\ b \in Int /\ -m < a - b /\ a - b < m
    BY <1>1
  <2> HIDE DEF a, b, c, m
  <2>3. ((a % m) - (b % m) + m) % m = IF a >= b THEN a - b ELSE a - b + m
    BY <2>2, WordsApart
  <2> QED  BY <2>1, <2>3
<1>3. proc_stride_comp_f(stride)[<<x, y>>] = IF c = 0 THEN 0 ELSE IF c < HALF THEN 1 ELSE -1
  <2>1. <<x, y>> \in Entry \X Entry
    OBVIOUS
  <2> QED  BY <2>1 DEF proc_stride_comp_f
<1>4. a - b <= HALF - 1 /\ b - a <= HALF - 1 /\ m = 2 * HALF
  BY DEF BIG_STRIDE
<1> HIDE DEF a, b, c, m
<1>5. (IF c = 0 THEN 0 ELSE IF c < HALF THEN 1 ELSE -1) =
         IF a > b THEN 1 ELSE IF a = b THEN 0 ELSE -1
  BY <1>1, <1>2, <1>4
<1> QED  BY <1>3, <1>5 DEF a, b

\* So processes that are close to each other are compared as their totals are.
LEMMA TotalAgrees ==
    ASSUME NEW t \in [Entry -> Nat], NEW stride, NEW S \in SUBSET Entry,
           \A x \in S : stride[x] = t[x] % (2 * HALF),
           \A x, y \in S : t[x] - t[y] <= BIG_STRIDE
    PROVE  Agrees(ByTotal(t), proc_stride_comp_f(stride), S)
<1>1. ASSUME NEW x \in S, NEW y \in S
      PROVE  IF OnTop(x, y, proc_stride_comp_f(stride)) THEN <<x, y>> \in ByTotal(t)
             ELSE <<y, x>> \in ByTotal(t)
  <2>1. x \in Entry /\ y \in Entry /\ t[x] \in Nat /\ t[y] \in Nat
    OBVIOUS
  <2>2. proc_stride_comp_f(stride)[<<x, y>>] =
          IF t[x] > t[y] THEN 1 ELSE IF t[x] = t[y] THEN 0 ELSE -1
    BY <2>1, SignOfWords
  <2>3. OnTop(x, y, proc_stride_comp_f(stride)) <=> t[x] < t[y]
    BY <2>1, <2>2 DEF OnTop
  <2>4. (<<x, y>> \in ByTotal(t) <=> t[x] <= t[y]) /\ (<<y, x>> \in ByTotal(t) <=> t[y] <= t[x])
    BY <2>1 DEF ByTotal
  <2> QED  BY <2>1, <2>3, <2>4
<1> QED  BY <1>1 DEF Agrees

\* What a turn costs in lab6.
LEMMA PassRange ==
    ASSUME Charges, NEW n \in 0..BIG_STRIDE
    PROVE  Pass(n) \in 1..BIG_STRIDE
<1>1. BIG_STRIDE \in Nat /\ PASS_0 \in 1..BIG_STRIDE
  BY StrideAssumption DEF Charges, BIG_STRIDE
<1>2. CASE n = 0
  BY <1>1, <1>2 DEF Pass
<1>3. CASE n # 0
  <2>1. n \in Nat \ {0} /\ n <= BIG_STRIDE
    BY <1>1, <1>3
  <2>2. BIG_STRIDE \div n \in 0..BIG_STRIDE /\ BIG_STRIDE \div n >= 1
    BY <1>1, <2>1, Shared
  <2> QED  BY <1>1, <1>3, <2>2 DEF Pass
<1> QED  BY <1>2, <1>3

\* What SteadyInv says of the variables.
LEMMA SteadyTypes ==
    ASSUME Charges, SteadyInv
    PROVE  /\ lab6_priority \in [Entry -> Nat]
           /\ total \in [Entry -> Nat] /\ lab6_stride \in [Entry -> Word]
           /\ current \in Entry \cup {idleproc} /\ Ready \subseteq Entry
           /\ Ready = ReadyIn(Pool, state, Queued) /\ Pool.current \notin Queued
           /\ Agrees(ByTotal(total), proc_stride_comp_f(lab6_stride), Ready)
           /\ Order(ByTotal(total), Ready)
<1>1. Ready \subseteq Entry /\ Queued \subseteq Entry
  BY DEF Charges, Ready, Queued
<1>2. lab6_priority \in [Entry -> Nat]
  <2>1. BIG_STRIDE \in Nat
    BY <1>1, StrideAssumption DEF BIG_STRIDE
  <2> QED  BY <2>1 DEF SteadyInv
<1>3. /\ total \in [Entry -> Nat] /\ lab6_stride \in [Entry -> Word]
      /\ current \in Entry \cup {idleproc}
  BY DEF SteadyInv, Holds, Pools, Pool
<1>4. Ready = ReadyIn(Pool, state, Queued) /\ Pool.current \notin Queued
  <2>1. idleproc \notin Entry
    BY <1>1, StrideAssumption
  <2>2. Pool.current = current
    BY DEF Pool
  <2> QED  BY <1>3, <2>1, <2>2 DEF ReadyIn, Ready, Queued
<1>5. Agrees(ByTotal(total), proc_stride_comp_f(lab6_stride), Ready)
  <2>1. \A x \in Ready : lab6_stride[x] = total[x] % (2 * HALF)
    BY <1>1 DEF SteadyInv
  <2>2. \A x, y \in Ready : total[x] - total[y] <= BIG_STRIDE
    BY DEF SteadyInv, Close
  <2> QED  BY <1>1, <1>3, <2>1, <2>2, TotalAgrees
<1>6. Order(ByTotal(total), Ready)
  BY <1>1, <1>3, TotalOrder
<1> QED  BY <1>1, <1>2, <1>3, <1>4, <1>5, <1>6

\* A turn goes to a process that has used least, and is charged to it in words and
\* in numbers. The others are in the pool.
LEMMA SteadyTurn ==
    ASSUME Charges, SteadyInv, Switch
    PROVE  LET p == current'
               cost == Pass(lab6_priority[p])
           IN  /\ Holds(Pool', Ready \ {p}, ByTotal(total))
               /\ IF Ready = {} THEN /\ p = idleproc /\ lab6_stride' = lab6_stride
                                     /\ total' = total
                  ELSE /\ p \in Ready /\ cost \in 1..BIG_STRIDE
                       /\ \A q \in Ready : total[p] <= total[q]
                       /\ lab6_stride' = [lab6_stride EXCEPT ![p] = (@ + cost) % (2 * HALF)]
                       /\ total' = [total EXCEPT ![p] = @ + cost]
<1> DEFINE t == schedule(Pool, state)
           le == ByTotal(total)
<1>1. Turned(Pool, t, Ready, le)
  <2>1. Holds(Pool, Queued, le)
    BY DEF SteadyInv
  <2>2. Pool.stride = lab6_stride
    BY DEF Pool
  <2>3. /\ lab6_priority \in [Entry -> Nat]
        /\ Ready = ReadyIn(Pool, state, Queued) /\ Pool.current \notin Queued
        /\ Agrees(le, proc_stride_comp_f(Pool.stride), Ready) /\ Order(le, Ready)
    BY <2>2, SteadyTypes
  <2> HIDE DEF le
  <2> QED  BY <2>1, <2>3, Scheduled
<1> HIDE DEF t
<1>2. Holds(t, Ready \ {t.current}, le)
  <2> HIDE DEF le
  <2> QED  BY <1>1 DEF Turned
<1>3. Pool' = t /\ current' = t.current /\ lab6_stride' = t.stride /\ total' = t.total
  <2>1. t \in Pools /\ Become(t)
    BY <1>2 DEF Holds, Switch, t
  <2> QED  BY <2>1, Became DEF Become
<1>4. Pool.stride = lab6_stride /\ Pool.total = total
  BY DEF Pool
<1>5. CASE Ready = {}
  <2>1. t.current = idleproc /\ t.stride = Pool.stride /\ t.total = Pool.total
    <3> HIDE DEF le
    <3> QED  BY <1>1, <1>5 DEF Turned
  <2> QED  BY <1>2, <1>3, <1>4, <1>5, <2>1
<1>6. CASE Ready # {}
  <2> DEFINE p == t.current
             cost == Pass(lab6_priority[p])
  <2>1. /\ p \in Ready /\ \A x \in Ready : <<p, x>> \in le
        /\ t.stride = [Pool.stride EXCEPT ![p] = (@ + cost) % (2 * HALF)]
        /\ t.total = [Pool.total EXCEPT ![p] = @ + cost]
    <3> HIDE DEF le
    <3> QED  BY <1>1, <1>6 DEF Turned
  <2>2. p \in Entry /\ lab6_priority[p] \in 0..BIG_STRIDE
    BY <2>1, SteadyTypes DEF SteadyInv
  <2> HIDE DEF p, cost
  <2>3. cost \in 1..BIG_STRIDE
    BY <2>2, PassRange DEF cost
  <2>4. \A q \in Ready : total[p] <= total[q]
    BY <2>1 DEF ByTotal
  <2> QED  BY <1>2, <1>3, <1>4, <1>6, <2>1, <2>3, <2>4 DEF p, cost
<1> QED  BY <1>5, <1>6

LEMMA SwitchSteady ==
    Charges /\ SteadyInv /\ Switch => SteadyInv'
<1> SUFFICES ASSUME Charges, SteadyInv, Switch PROVE SteadyInv'
  OBVIOUS
<1> DEFINE p == current'
           cost == Pass(lab6_priority[p])
           left == Ready \ {p}
<1>1. /\ Holds(Pool', left, ByTotal(total))
      /\ IF Ready = {} THEN p = idleproc /\ lab6_stride' = lab6_stride /\ total' = total
         ELSE /\ p \in Ready /\ cost \in 1..BIG_STRIDE
              /\ \A q \in Ready : total[p] <= total[q]
              /\ lab6_stride' = [lab6_stride EXCEPT ![p] = (@ + cost) % (2 * HALF)]
              /\ total' = [total EXCEPT ![p] = @ + cost]
  BY SteadyTurn
<1>2. /\ total \in [Entry -> Nat] /\ lab6_stride \in [Entry -> Word]
      /\ Ready \subseteq Entry /\ HALF \in Nat \ {0} /\ BIG_STRIDE \in Nat
  BY SteadyTypes, StrideAssumption DEF BIG_STRIDE
<1>3. state' = state /\ lab6_priority' = lab6_priority /\ Ready' = Ready /\ Queued' = left
  BY DEF Switch, Ready, Queued
<1> HIDE DEF cost
<1>4. \A x \in left : total'[x] = total[x]
  BY <1>1, <1>2
<1>5. Holds(Pool', left, ByTotal(total'))
  <2>1. \A x, y \in left : <<x, y>> \in ByTotal(total) => <<x, y>> \in ByTotal(total')
    BY <1>2, <1>4 DEF ByTotal
  <2>2. Heap(Pool'.heap, Pool'.root, left, Entry, ByTotal(total))
    BY <1>1 DEF Holds
  <2>3. Heap(Pool'.heap, Pool'.root, left, Entry, ByTotal(total'))
    <3> HIDE DEF left
    <3> QED  BY <2>1, <2>2, Reordered
  <2> QED  BY <1>1, <2>3 DEF Holds
<1>6. ASSUME NEW q \in Entry PROVE lab6_stride'[q] = total'[q] % (2 * HALF)
  <2>1. lab6_stride[q] = total[q] % (2 * HALF)
    BY DEF SteadyInv
  <2>2. CASE Ready = {} \/ q # p
    BY <1>1, <1>2, <2>1, <2>2
  <2>3. CASE Ready # {} /\ q = p
    <3> DEFINE m == 2 * HALF
               a == total[q]
    <3>1. lab6_stride'[q] = (lab6_stride[q] + cost) % m /\ total'[q] = a + cost
      BY <1>1, <1>2, <2>3
    <3>2. m \in Nat \ {0} /\ a \in Int /\ cost \in Int
      BY <1>1, <1>2, <2>3
    <3>3. ((a % m) + cost) % m = (a + cost) % m
      <4> HIDE DEF m, a
      <4> QED  BY <3>2, Reduced
    <3>4. lab6_stride[q] = a % m
      BY <2>1
    <3> HIDE DEF m, a
    <3>5. lab6_stride'[q] = total'[q] % m
      BY <3>1, <3>3, <3>4
    <3> QED  BY <3>5 DEF m
  <2> QED  BY <2>2, <2>3
<1>7. ASSUME NEW x \in Ready, NEW y \in Ready PROVE total'[x] - total'[y] <= BIG_STRIDE
  <2>1. total[x] - total[y] <= BIG_STRIDE /\ total[y] - total[x] <= BIG_STRIDE
    BY DEF SteadyInv, Close
  <2>2. /\ total[x] \in Nat /\ total[y] \in Nat /\ total[p] <= total[y]
        /\ cost \in 1..BIG_STRIDE /\ total[p] - total[y] <= BIG_STRIDE
        /\ total[x] - total[p] <= BIG_STRIDE /\ total[p] \in Nat
    BY <1>1, <1>2 DEF SteadyInv, Close
  <2>3. /\ total'[x] = IF x = p THEN total[p] + cost ELSE total[x]
        /\ total'[y] = IF y = p THEN total[p] + cost ELSE total[y]
    BY <1>1, <1>2
  <2> QED  BY <1>2, <2>1, <2>2, <2>3
<1>8. Close'
  BY <1>3, <1>7 DEF Close
<1>9. current' # idleproc => state'[current'] = "RUNNABLE"
  BY <1>1, <1>3 DEF Ready
<1>10. Holds(Pool, Queued, ByTotal(total))'
  BY <1>3, <1>5 DEF Holds, Heap, Planted, ByTotal
<1>11. /\ lab6_priority' \in [Entry -> 0..BIG_STRIDE]
       /\ state' \in [Entry -> {"FREE", "RUNNABLE", "SLEEPING"}]
  BY <1>3 DEF SteadyInv
<1> QED  BY <1>6, <1>8, <1>9, <1>10, <1>11 DEF SteadyInv

LEMMA PrioritySteady ==
    ASSUME Charges, SteadyInv, NEW n \in Priorities, lab6_set_priority(n)
    PROVE  SteadyInv'
<1>1. /\ Pool' = Pool /\ Queued' = Queued /\ state' = state /\ current' = current
      /\ Ready' = Ready /\ total' = total /\ lab6_stride' = lab6_stride
  BY DEF lab6_set_priority, Pool, Queued, Ready
<1>2. lab6_priority' \in [Entry -> 0..BIG_STRIDE]
  <2>1. n \in 0..BIG_STRIDE /\ 1 \in 0..BIG_STRIDE
    BY StrideAssumption DEF Charges, BIG_STRIDE
  <2> QED  BY <2>1 DEF lab6_set_priority, SteadyInv
<1>3. Holds(Pool, Queued, ByTotal(total))'
  BY <1>1 DEF SteadyInv, Holds, Heap, Planted, ByTotal
<1> QED  BY <1>1, <1>2, <1>3 DEF SteadyInv, Close

LEMMA InitSteady ==
    Charges /\ StrideInit => SteadyInv
<1> SUFFICES ASSUME Charges, StrideInit PROVE SteadyInv
  OBVIOUS
<1> DEFINE zero == [p \in Entry |-> 0]
<1>1. HALF \in Nat \ {0} /\ BIG_STRIDE \in Nat
  BY StrideAssumption DEF Charges, BIG_STRIDE
<1>2. 0 % (2 * HALF) = 0
  <2> DEFINE m == 2 * HALF
  <2>1. m \in Nat \ {0} /\ 0 \in 0..m - 1
    BY <1>1
  <2>2. m * 0 + 0 = 0
    BY <2>1
  <2> HIDE DEF m
  <2>3. (m * 0 + 0) % m = 0
    BY <2>1, IntRemainder
  <2> QED  BY <2>2, <2>3 DEF m
<1>3. /\ Order(ByTotal(zero), Entry)
      /\ Agrees(ByTotal(zero), proc_stride_comp_f(zero), Entry)
  <2>1. zero \in [Entry -> Nat] /\ \A x \in Entry : zero[x] = zero[x] % (2 * HALF)
    BY <1>2
  <2>2. \A x, y \in Entry : zero[x] - zero[y] <= BIG_STRIDE
    BY <1>1
  <2> HIDE DEF zero
  <2> QED  BY <1>1, <2>1, <2>2, TotalOrder, TotalAgrees
<1>4. /\ Holds(StartPool, {Starters[n] : n \in DOMAIN Starters}, ByTotal(zero))
      /\ total = zero /\ lab6_stride = zero /\ current = idleproc
      /\ StartPool.current = idleproc
  BY <1>1, <1>3, Started DEF StrideInit
<1>5. PoolInv
  BY <1>1, InitPool
<1>6. Pool = StartPool
  <2>1. StartPool \in Pools
    BY <1>4 DEF Holds
  <2> QED  BY <1>4, <2>1 DEF StrideInit, Pool, Pools
<1>7. Queued = {Starters[n] : n \in DOMAIN Starters}
  BY <1>1, InitQueued
<1>8. \A p \in Entry : lab6_stride[p] = total[p] % (2 * HALF)
  BY <1>2, <1>4
<1>9. Close
  BY <1>1, <1>4 DEF Close, Ready
<1>10. lab6_priority \in [Entry -> 0..BIG_STRIDE]
  BY <1>1 DEF StrideInit
<1>11. Holds(Pool, Queued, ByTotal(total))
  <2> HIDE DEF zero
  <2> QED  BY <1>4, <1>6, <1>7
<1> QED  BY <1>4, <1>5, <1>8, <1>9, <1>10, <1>11 DEF SteadyInv, PoolInv

\* Every other operation ends the steady run.
LEMMA NextSteady ==
    Charges /\ (steady => SteadyInv) /\ [StrideNext]_stridevars => (steady => SteadyInv)'
<1> SUFFICES ASSUME Charges, steady => SteadyInv, [StrideNext]_stridevars, steady'
             PROVE  SteadyInv'
  OBVIOUS
<1>1. CASE Switch
  <2>1. steady
    BY <1>1 DEF Switch
  <2> QED  BY <1>1, <2>1, SwitchSteady
<1>2. CASE \E n \in Priorities : lab6_set_priority(n)
  <2>1. steady
    BY <1>2 DEF lab6_set_priority
  <2> QED  BY <1>2, <2>1, PrioritySteady
<1>3. CASE UNCHANGED stridevars
  <2>1. Pool' = Pool /\ Queued' = Queued /\ Ready' = Ready /\ SteadyInv
    BY <1>3 DEF stridevars, Pool, Queued, Ready
  <2> QED  BY <1>3, <2>1 DEF stridevars, SteadyInv, Close, Holds, Heap, Planted, ByTotal
<1>4. CASE Sleep \/ Exit \/ \E p \in Entry : Wakeup(p) \/ Fork(p)
  BY <1>4 DEF Sleep, Exit, Wakeup, Fork
<1> QED  BY <1>1, <1>2, <1>3, <1>4 DEF StrideNext

LEMMA ImpliesOrder ==
    Charges /\ (steady => SteadyInv) => SpreadBounded
<1> SUFFICES ASSUME Charges, SteadyInv, NEW p \in Ready, NEW q \in Ready
             PROVE  proc_stride_comp_f(lab6_stride)[<<p, q>>] =
                      IF total[p] > total[q] THEN 1
                      ELSE IF total[p] = total[q] THEN 0 ELSE -1
  BY DEF SpreadBounded, NoOverflow, SteadyInv, Close
<1>1. p \in Entry /\ q \in Entry /\ total \in [Entry -> Nat]
  BY SteadyTypes
<1>2. /\ lab6_stride[p] = total[p] % (2 * HALF) /\ lab6_stride[q] = total[q] % (2 * HALF)
      /\ total[p] - total[q] <= BIG_STRIDE /\ total[q] - total[p] <= BIG_STRIDE
  BY <1>1 DEF SteadyInv, Close
<1> QED  BY <1>1, <1>2, SignOfWords

\* A turn charges the process that gets it, in either class.
LEMMA TurnTaken ==
    ASSUME PoolInv, Switch, current' # idleproc
    PROVE  /\ current' \in Entry
           /\ lab6_stride'[current'] =
                (lab6_stride[current'] + Pass(lab6_priority[current'])) % (2 * HALF)
<1> DEFINE t == schedule(Pool, state)
           R == ReadyIn(Pool, state, Queued)
<1>1. Turned(Pool, t, R, AnyOrder) /\ R \subseteq Entry
  <2>1. Holds(Pool, Queued, AnyOrder) /\ lab6_priority \in [Entry -> Nat]
    BY DEF PoolInv
  <2>2. Pool.current \notin Queued /\ R \subseteq Entry
    BY PoolTypes DEF Pool, Queued, ReadyIn
  <2>3. Order(AnyOrder, R) /\ Agrees(AnyOrder, proc_stride_comp_f(Pool.stride), R)
    BY <2>2, AnyAgrees
  <2> HIDE DEF t
  <2> QED  BY <2>1, <2>2, <2>3, Scheduled DEF t
<1> HIDE DEF t, R
<1>2. current' = t.current /\ lab6_stride' = t.stride
  BY DEF Switch, Become, t
<1>3. /\ t.current \in R
      /\ t.stride = [Pool.stride EXCEPT ![t.current] =
                        (@ + Pass(lab6_priority[t.current])) % (2 * HALF)]
  BY <1>1, <1>2 DEF Turned
<1>4. Pool.stride = lab6_stride /\ lab6_stride \in [Entry -> Word]
  BY PoolTypes DEF Pool
<1> QED  BY <1>1, <1>2, <1>3, <1>4

\* The priorities Charges allows are those there are.
LEMMA PrioritiesKept ==
    Charges /\ lab6_priority \in [Entry -> 0..BIG_STRIDE] /\ [StrideNext]_stridevars
      => lab6_priority' \in [Entry -> 0..BIG_STRIDE]
<1>1. BIG_STRIDE \in Nat /\ 0 \in 0..BIG_STRIDE
  BY StrideAssumption DEF BIG_STRIDE
<1>2. Charges => 1 \in 0..BIG_STRIDE
  BY <1>1 DEF Charges
<1> QED  BY <1>1, <1>2 DEF Charges, StrideNext, stridevars, Switch, Sleep, Exit, Wakeup, Fork,
         lab6_set_priority

\* The difference of the words of a stride before and after a turn is its price.
LEMMA PriceSeen ==
    ASSUME NEW a \in Word, NEW cost \in 1..BIG_STRIDE
    PROVE  Difference((a + cost) % (2 * HALF), a) \in 1..BIG_STRIDE
<1> DEFINE m == 2 * HALF
<1>1. /\ m \in Nat \ {0} /\ a \in Int /\ a + cost \in Int /\ a \in 0..m - 1 /\ cost < m
  BY StrideAssumption DEF Word, BIG_STRIDE
<1>2. Difference((a + cost) % m, a) = (((a + cost) % m) - a + m) % m
  BY DEF Difference
<1> HIDE DEF m
<1>3. a % m = a
  <2>1. (m * 0 + a) % m = a /\ m * 0 + a = a
    BY <1>1, IntRemainder
  <2> QED  BY <2>1
<1>4. (((a + cost) % m) - (a % m) + m) % m = cost
  BY <1>1, WordsApart
<1> QED  BY <1>2, <1>3, <1>4 DEF m

\* Proportional share in lab6: through any number of overflows of the strides and
\* changes of the priorities no two processes that compute all the time are
\* further apart than BIG_STRIDE, so no comparison of their strides is wrong.
THEOREM SpreadKept ==
    ASSUME Charges
    PROVE  StrideSpec => []SpreadBounded
<1>1. StrideInit => (steady => SteadyInv)
  BY InitSteady
<1>2. (steady => SteadyInv) /\ [StrideNext]_stridevars => (steady => SteadyInv)'
  BY NextSteady
<1>3. (steady => SteadyInv) => SpreadBounded
  BY ImpliesOrder
<1> QED  BY <1>1, <1>2, <1>3, PTL DEF StrideSpec

\* Among processes that compute all the time each turn goes to one that has used
\* least.
THEOREM TurnsFair ==
    ASSUME Charges
    PROVE  StrideSpec => PicksMinimum
<1>1. StrideInit => (steady => SteadyInv)
  BY InitSteady
<1>2. (steady => SteadyInv) /\ [StrideNext]_stridevars => (steady => SteadyInv)'
  BY NextSteady
<1>3. (steady => SteadyInv) =>
        [steady /\ Switch /\ current' # idleproc =>
           \A q \in Ready : total[current'] <= total[q]]_stridevars
  <2> SUFFICES ASSUME SteadyInv, Switch, current' # idleproc
               PROVE  \A q \in Ready : total[current'] <= total[q]
    OBVIOUS
  <2> QED  BY SteadyTurn
<1> QED  BY <1>1, <1>2, <1>3, PTL DEF StrideSpec, PicksMinimum

\* In lab6 a turn costs something but not more than BIG_STRIDE, also for processes
\* that have slept and whatever the order of the pool has become.
THEOREM TurnsCharged ==
    ASSUME Charges
    PROVE  StrideSpec => TurnCharged
<1> DEFINE Inv == PoolInv /\ lab6_priority \in [Entry -> 0..BIG_STRIDE]
<1>1. StrideInit => Inv
  <2>1. 0 \in 0..BIG_STRIDE
    BY StrideAssumption DEF BIG_STRIDE
  <2> QED  BY <2>1, InitPool DEF StrideInit
<1>2. Inv /\ [StrideNext]_stridevars => Inv'
  BY NextPool, PrioritiesKept
<1>3. Inv =>
        [Switch /\ current' # idleproc =>
           Difference(lab6_stride'[current'], lab6_stride[current'])
             \in 1..BIG_STRIDE]_stridevars
  <2> SUFFICES ASSUME Inv, Switch, current' # idleproc
               PROVE  Difference(lab6_stride'[current'], lab6_stride[current'])
                        \in 1..BIG_STRIDE
    OBVIOUS
  <2>1. current' \in Entry /\ lab6_stride \in [Entry -> Word]
    BY TurnTaken, PoolTypes
  <2>2. Pass(lab6_priority[current']) \in 1..BIG_STRIDE
    BY <2>1, PassRange
  <2>3. lab6_stride[current'] \in Word
    BY <2>1
  <2> QED  BY <2>2, <2>3, TurnTaken, PriceSeen
<1> HIDE DEF Inv
<1> QED  BY <1>1, <1>2, <1>3, PTL DEF StrideSpec, TurnCharged

-----------------------------------------------------------------------------
(* Process numbers *)

\* The three invariants support each other: what SafeRange says of next_safe
\* makes the fast way of get_pid unique, and what it says of the candidate
\* makes the end of a scan unique.
PidInv == TypeOK /\ UniquePids /\ SafeRange

\* At the start no process has a pid.
LEMMA InitPids == Init => PidInv
  BY PidsAssumption DEF Init, PidInv, TypeOK, UniquePids, SafeRange, proc_list, Pid

\* get_pid returns a pid from last_pid + 1 on, below next_safe.
LEMMA ForkFastPids ==
    ASSUME PidInv, NEW p \in Proc, ForkFast(p)
    PROVE  PidInv'
<1> USE PidsAssumption DEF ForkFast, Listed
<1>1. TypeOK'
  BY DEF PidInv, TypeOK, Pid, proc_list
<1>2. \A q \in proc_list : pid[q] # last_pid + 1
  BY DEF PidInv, TypeOK, SafeRange, proc_list
<1>3. proc_list' = proc_list \cup {p}
  BY DEF PidInv, TypeOK, proc_list
<1>4. UniquePids'
  BY <1>2, <1>3 DEF PidInv, TypeOK, UniquePids, proc_list
<1>5. SafeRange'
  BY <1>3 DEF PidInv, TypeOK, SafeRange, proc_list
<1>6. QED
  BY <1>1, <1>4, <1>5 DEF PidInv

\* A scan starts with no process looked at.
LEMMA ForkScanPids ==
    ASSUME PidInv, NEW p \in Proc, ForkScan(p)
    PROVE  PidInv'
<1> USE PidsAssumption DEF ForkScan
<1>1. TypeOK'
  BY DEF PidInv, TypeOK, Pid, proc_list
<1>2. UniquePids'
  BY DEF PidInv, UniquePids, proc_list
<1>3. SafeRange'
  BY DEF PidInv, SafeRange, proc_list
<1>4. QED
  BY <1>1, <1>2, <1>3 DEF PidInv

\* The next candidate is below next_safe, so the processes looked at do not
\* have it either; or the scan starts again.
LEMMA ScanTakenPids ==
    ASSUME PidInv, NEW q \in todo, ScanTaken(q)
    PROVE  PidInv'
<1> USE PidsAssumption DEF ScanTaken
<1>1. TypeOK'
  BY DEF PidInv, TypeOK, Pid, proc_list
<1>2. UniquePids'
  BY DEF PidInv, UniquePids, proc_list
<1>3. SafeRange'
  <2>1. CASE last_pid + 1 < next_safe
    BY <2>1 DEF PidInv, TypeOK, SafeRange, proc_list
  <2>2. CASE ~(last_pid + 1 < next_safe)
    BY <2>2 DEF PidInv, TypeOK, SafeRange, proc_list
  <2>3. QED
    BY <2>1, <2>2
<1>4. QED
  BY <1>1, <1>2, <1>3 DEF PidInv

\* next_safe only comes down.
LEMMA ScanOtherPids ==
    ASSUME PidInv, NEW q \in todo, ScanOther(q)
    PROVE  PidInv'
<1> USE PidsAssumption DEF ScanOther
<1>1. TypeOK'
  BY DEF PidInv, TypeOK, Pid, proc_list
<1>2. UniquePids'
  BY DEF PidInv, UniquePids, proc_list
<1>3. SafeRange'
  BY DEF PidInv, TypeOK, SafeRange, proc_list
<1>4. QED
  BY <1>1, <1>2, <1>3 DEF PidInv

\* Every process has been looked at, and none has the candidate.
LEMMA ScanEndPids ==
    ASSUME PidInv, ScanEnd
    PROVE  PidInv'
<1> USE PidsAssumption DEF ScanEnd, Listed
<1>1. TypeOK'
  BY DEF PidInv, TypeOK, Pid, proc_list
<1>2. \A q \in proc_list : pid[q] # last_pid
  BY DEF PidInv, SafeRange
<1>3. proc_list' = proc_list \cup {forking}
  BY DEF PidInv, TypeOK, Pid, proc_list
<1>4. UniquePids'
  BY <1>2, <1>3 DEF PidInv, TypeOK, UniquePids, proc_list
<1>5. SafeRange'
  BY <1>3 DEF PidInv, TypeOK, SafeRange, proc_list
<1>6. QED
  BY <1>1, <1>4, <1>5 DEF PidInv

\* A process that leaves the list only frees its pid.
LEMMA CollectPids ==
    ASSUME PidInv, NEW p \in Proc, Collect(p)
    PROVE  PidInv'
<1> USE PidsAssumption DEF Collect
<1>1. proc_list' = proc_list \ {p}
  BY DEF PidInv, TypeOK, proc_list
<1>2. TypeOK'
  BY DEF PidInv, TypeOK, Pid, proc_list
<1>3. UniquePids'
  BY <1>1 DEF PidInv, TypeOK, UniquePids, proc_list
<1>4. SafeRange'
  BY <1>1 DEF PidInv, TypeOK, SafeRange, proc_list
<1>5. QED
  BY <1>2, <1>3, <1>4 DEF PidInv

\* PidInv is an inductive invariant of get_pid.
THEOREM PidsHold == Spec => []PidInv
<1>1. PidInv /\ [Next]_vars => PidInv'
  <2> SUFFICES ASSUME PidInv, [Next]_vars
               PROVE  PidInv'
    OBVIOUS
  <2>1. CASE UNCHANGED vars
    BY <2>1 DEF vars, PidInv, TypeOK, UniquePids, SafeRange, proc_list
  <2>2. ASSUME NEW p \in Proc, ForkFast(p) PROVE PidInv'
    BY <2>2, ForkFastPids
  <2>3. ASSUME NEW p \in Proc, ForkScan(p) PROVE PidInv'
    BY <2>3, ForkScanPids
  <2>4. ASSUME NEW p \in Proc, Collect(p) PROVE PidInv'
    BY <2>4, CollectPids
  <2>5. ASSUME NEW q \in todo, ScanTaken(q) PROVE PidInv'
    BY <2>5, ScanTakenPids
  <2>6. ASSUME NEW q \in todo, ScanOther(q) PROVE PidInv'
    BY <2>6, ScanOtherPids
  <2>7. CASE ScanEnd
    BY <2>7, ScanEndPids
  <2>8. QED
    BY <2>1, <2>2, <2>3, <2>4, <2>5, <2>6, <2>7 DEF Next
<1>2. QED
  BY InitPids, <1>1, PTL DEF Spec

\* The variables of get_pid keep their types: a pid is below MAX_PID.
THEOREM PidsTyped == Spec => []TypeOK
<1>1. PidInv => TypeOK
  BY DEF PidInv
<1>2. QED
  BY PidsHold, <1>1, PTL

\* No two processes on proc_list have the same pid, for any number of
\* processes and any MAX_PID, also when pids are used again after MAX_PID.
THEOREM PidsUnique == Spec => []UniquePids
<1>1. PidInv => UniquePids
  BY DEF PidInv
<1>2. QED
  BY PidsHold, <1>1, PTL

\* next_safe never promises a pid that is in use.
THEOREM NextSafeTrue == Spec => []SafeRange
<1>1. PidInv => SafeRange
  BY DEF PidInv
<1>2. QED
  BY PidsHold, <1>1, PTL

-----------------------------------------------------------------------------
(* The page allocators: what is on a free list *)

\* The nodes of a list that holds the blocks B.
OnList(B) == B \cup {free_list}

\* The list l holds the blocks B, in ascending order.
Linked(l, B) ==
    /\ l \in [next : [Nodes -> Nodes], prev : [Nodes -> Nodes]]
    /\ \A p \in OnList(B) :
         /\ l.next[p] \in OnList(B) /\ l.prev[p] \in OnList(B)
         /\ l.prev[l.next[p]] = p /\ l.next[l.prev[p]] = p
         /\ l.next[p] # free_list => p < l.next[p]
         /\ \A q \in B : p < q => l.next[p] # free_list /\ l.next[p] <= q

\* The blocks B, of the lengths prop, are the pages F, each once.
Parts(F, B, prop) ==
    /\ B \subseteq Page /\ prop \in [Page -> 0..NPAGES]
    /\ \A b \in B : /\ prop[b] > 0 /\ b + prop[b] <= NPAGES
                    /\ Run(b, prop[b]) \subseteq F
    /\ \A p \in F : \E b \in B : p \in Run(b, prop[b])
    /\ \A b, c \in B : b < c => b + prop[b] <= c

\* No two of the blocks touch.
Spaced(B, prop) == \A b, c \in B : b < c => b + prop[b] < c

\* What the list, the lengths, the flags and nr_free say of the free pages.
FitExact ==
    /\ held \in [Page -> 0..1] /\ status = "ok"
    /\ Linked(list, PageProperty)
    /\ Parts(Free, PageProperty, property)
    /\ Spaced(PageProperty, property)
    /\ nr_free = Cardinality(Free)

FitInv == appended \in BOOLEAN /\ (~appended => FitExact)

-----------------------------------------------------------------------------
(* The list *)

\* Pages are nodes above the head.
LEMMA NodeTypes ==
    /\ Page \subseteq Int /\ Nodes \subseteq Int /\ free_list \in Nodes /\ Page \subseteq Nodes
    /\ \A p \in Page : 0 <= p /\ p < NPAGES /\ free_list < p /\ p # free_list
    /\ \A p \in Nodes : free_list <= p /\ (p # free_list => p \in Page)
BY FirstFitAssumption DEF Page, Nodes, free_list

\* A block put in at its place.
LEMMA AddLinked ==
    ASSUME NEW l, NEW B, B \subseteq Page, Linked(l, B),
           NEW a \in OnList(B), NEW e \in Page, e \notin B, a < e,
           l.next[a] = free_list \/ e < l.next[a]
    PROVE  Linked(__list_add(l, e, a, l.next[a]), B \cup {e})
<1> DEFINE nx == l.next[a]
           m  == __list_add(l, e, a, nx)
<1>1. l.next \in [Nodes -> Nodes] /\ l.prev \in [Nodes -> Nodes]
  BY DEF Linked
<1>2. /\ OnList(B) \subseteq Nodes /\ a \in Nodes /\ e \in Nodes /\ nx \in OnList(B)
      /\ nx \in Nodes /\ a # e /\ nx # e /\ e # free_list
  BY NodeTypes DEF Linked, OnList
<1> HIDE DEF nx
<1>3. /\ m \in [next : [Nodes -> Nodes], prev : [Nodes -> Nodes]]
      /\ \A p \in Nodes :
           /\ m.next[p] = IF p = e THEN nx ELSE IF p = a THEN e ELSE l.next[p]
           /\ m.prev[p] = IF p = e THEN a ELSE IF p = nx THEN e ELSE l.prev[p]
  BY <1>1, <1>2 DEF __list_add
<1> HIDE DEF m
<1>4. OnList(B \cup {e}) = OnList(B) \cup {e}
  BY DEF OnList
<1>5. ASSUME NEW p \in OnList(B) \cup {e}
      PROVE  /\ m.next[p] \in OnList(B) \cup {e} /\ m.prev[p] \in OnList(B) \cup {e}
             /\ m.prev[m.next[p]] = p /\ m.next[m.prev[p]] = p
  <2>1. /\ l.prev[nx] = a
        /\ p \in OnList(B) =>
             /\ l.next[p] \in OnList(B) /\ l.prev[p] \in OnList(B)
             /\ l.prev[l.next[p]] = p /\ l.next[l.prev[p]] = p
    BY DEF Linked, nx
  <2>2. e \notin OnList(B)
    BY <1>2 DEF OnList
  <2>3. l.next[a] = nx
    BY DEF nx
  <2>4. CASE p = e
    BY <1>2, <1>3, <2>1, <2>2, <2>3, <2>4
  <2>5. CASE p # e
    <3>1. p \in OnList(B) /\ p \in Nodes
      BY <1>2, <2>5
    <3>2. l.next[p] \in Nodes /\ l.prev[p] \in Nodes /\ l.next[p] # e /\ l.prev[p] # e
      BY <1>2, <2>1, <2>2, <3>1
    <3>3. p # a => l.next[p] # nx
      BY <2>1, <3>1
    <3>4. p # nx => l.prev[p] # a
      BY <2>1, <2>3, <3>1
    <3> QED  BY <1>2, <1>3, <2>1, <2>3, <2>5, <3>1, <3>2, <3>3, <3>4
  <2> QED  BY <2>4, <2>5
<1>6. ASSUME NEW p \in OnList(B) \cup {e}
      PROVE  /\ m.next[p] # free_list => p < m.next[p]
             /\ \A q \in B \cup {e} : p < q => m.next[p] # free_list /\ m.next[p] <= q
  <2>1. /\ p \in OnList(B) =>
             /\ l.next[p] \in OnList(B)
             /\ l.next[p] # free_list => p < l.next[p]
             /\ \A q \in B : p < q => l.next[p] # free_list /\ l.next[p] <= q
        /\ \A q \in B : a < q => nx # free_list /\ nx <= q
    BY DEF Linked, nx
  <2>2. e < nx \/ nx = free_list
    BY DEF nx
  <2>3. OnList(B) \subseteq Int /\ B \subseteq Int /\ e \in Int /\ p \in Nodes
    BY <1>2, NodeTypes
  <2>4. CASE p = e
    BY <1>2, <1>3, <2>1, <2>2, <2>3, <2>4
  <2>5. CASE p = a
    BY <1>2, <1>3, <2>1, <2>2, <2>3, <2>5
  <2>6. CASE p # e /\ p # a
    <3>1. p \in OnList(B) /\ m.next[p] = l.next[p]
      BY <1>3, <2>3, <2>6
    <3>2. p < e => l.next[p] # free_list /\ l.next[p] <= e
      <4>1. p < a \/ a < p
        BY <2>3, <2>6, <3>1
      <4>2. p < a => a \in B
        BY <2>3, <3>1, NodeTypes, <1>2 DEF OnList
      <4>3. CASE p < a
        <5>1. l.next[p] # free_list /\ l.next[p] <= a
          BY <2>1, <3>1, <4>2, <4>3
        <5> QED  BY <2>1, <2>3, <3>1, <5>1
      <4>4. CASE a < p
        <5>1. p \in B
          BY <2>3, <3>1, <4>4, <1>2, NodeTypes DEF OnList
        <5>2. nx # free_list /\ nx <= p
          BY <2>1, <4>4, <5>1
        <5> QED  BY <1>2, <2>2, <2>3, <5>2
      <4> QED  BY <4>1, <4>3, <4>4
    <3> QED  BY <2>1, <2>3, <3>1, <3>2
  <2> QED  BY <2>4, <2>5, <2>6
<1> QED  BY <1>3, <1>4, <1>5, <1>6 DEF Linked, m, nx

\* A block taken out.
LEMMA DelLinked ==
    ASSUME NEW l, NEW B, B \subseteq Page, Linked(l, B), NEW e \in B
    PROVE  /\ Linked(list_del(l, e), B \ {e})
           /\ l.prev[e] \in OnList(B \ {e}) /\ l.prev[e] < e
           /\ list_del(l, e).next[l.prev[e]] = l.next[e]
<1> DEFINE nx == l.next[e]
           pv == l.prev[e]
           m  == list_del(l, e)
<1>1. l.next \in [Nodes -> Nodes] /\ l.prev \in [Nodes -> Nodes]
  BY DEF Linked
<1>2. /\ OnList(B) \subseteq Nodes /\ e \in OnList(B) /\ e # free_list
      /\ nx \in OnList(B) /\ pv \in OnList(B) /\ nx \in Nodes /\ pv \in Nodes
      /\ l.prev[nx] = e /\ l.next[pv] = e
  BY NodeTypes DEF Linked, OnList
<1>3. /\ pv < e /\ (nx # free_list => e < nx) /\ pv # e /\ nx # e
  <2>1. /\ pv < e
        /\ nx # free_list => e < nx
    BY <1>2 DEF Linked
  <2>2. e \in Int /\ nx \in Int /\ pv \in Int
    BY <1>2, NodeTypes
  <2> QED  BY <1>2, <2>1, <2>2
<1> HIDE DEF nx, pv
<1>4. /\ m \in [next : [Nodes -> Nodes], prev : [Nodes -> Nodes]]
      /\ \A p \in Nodes :
           /\ m.next[p] = IF p = pv THEN nx ELSE l.next[p]
           /\ m.prev[p] = IF p = nx THEN pv ELSE l.prev[p]
  BY <1>1, <1>2 DEF list_del, nx, pv
<1> HIDE DEF m
<1>5. OnList(B \ {e}) = OnList(B) \ {e}
  BY <1>2 DEF OnList
<1>6. ASSUME NEW p \in OnList(B) \ {e}
      PROVE  /\ m.next[p] \in OnList(B) \ {e} /\ m.prev[p] \in OnList(B) \ {e}
             /\ m.prev[m.next[p]] = p /\ m.next[m.prev[p]] = p
  <2>1. /\ l.next[p] \in OnList(B) /\ l.prev[p] \in OnList(B)
        /\ l.prev[l.next[p]] = p /\ l.next[l.prev[p]] = p
    BY DEF Linked
  <2>2. /\ l.next[p] = e => p = pv
        /\ l.prev[p] = e => p = nx
        /\ l.next[p] = nx => p = e
        /\ l.prev[p] = pv => p = e
    BY <1>2, <2>1 DEF nx, pv
  <2> QED  BY <1>2, <1>3, <1>4, <2>1, <2>2
<1>7. ASSUME NEW p \in OnList(B) \ {e}
      PROVE  /\ m.next[p] # free_list => p < m.next[p]
             /\ \A q \in B \ {e} : p < q => m.next[p] # free_list /\ m.next[p] <= q
  <2>1. /\ l.next[p] # free_list => p < l.next[p]
        /\ \A q \in B : p < q => l.next[p] # free_list /\ l.next[p] <= q
        /\ \A q \in B : e < q => nx # free_list /\ nx <= q
    BY <1>2 DEF Linked, nx
  <2>2. OnList(B) \subseteq Int /\ B \subseteq Int /\ p \in Nodes /\ nx \in Int
    BY <1>2, NodeTypes
  <2>3. CASE p = pv
    BY <1>2, <1>3, <1>4, <2>1, <2>2, <2>3
  <2>4. CASE p # pv
    BY <1>2, <1>3, <1>4, <2>1, <2>2, <2>4
  <2> QED  BY <2>3, <2>4
<1>8. Linked(m, B \ {e})
  BY <1>4, <1>5, <1>6, <1>7 DEF Linked
<1>9. m.next[pv] = nx
  BY <1>2, <1>4
<1> QED  BY <1>2, <1>3, <1>5, <1>8, <1>9 DEF m, nx, pv

\* A walk follows the links.
LEMMA NthFacts ==
    ASSUME NEW l, l.next \in [Nodes -> Nodes]
    PROVE  /\ Nth(l) \in [0..NPAGES + 1 -> Nodes]
           /\ Nth(l)[0] = free_list
           /\ \A k \in 1..NPAGES + 1 : Nth(l)[k] = l.next[Nth(l)[k - 1]]
<1> DEFINE n == NPAGES + 1
           next == [x \in Nat \X Nodes |-> l.next[x[2]]]
           Walk(f) == f = [k \in 0..n |-> IF k = 0 THEN free_list ELSE l.next[f[k - 1]]]
<1>1. n \in Nat /\ free_list \in Nodes
  BY FirstFitAssumption, NodeTypes
<1>2. next \in [Nat \X Nodes -> Nodes]
  OBVIOUS
<1>3. \E f : Steps(f, Nodes, free_list, next, n)
  <2> HIDE DEF n, next
  <2> QED  BY <1>1, <1>2, Recursion
<1>4. PICK f : Steps(f, Nodes, free_list, next, n)
  BY <1>3
<1>5. Walk(f)
  <2>1. f \in [0..n -> Nodes]
    BY <1>4 DEF Steps
  <2>2. ASSUME NEW k \in 0..n
        PROVE  f[k] = IF k = 0 THEN free_list ELSE l.next[f[k - 1]]
    <3>1. f[k] = IF k = 0 THEN free_list ELSE next[<<k, f[k - 1]>>]
      BY <1>4, <2>2 DEF Steps
    <3>2. k # 0 => k \in Nat /\ k - 1 \in 0..n
      BY <1>1
    <3>3. k # 0 => f[k - 1] \in Nodes
      BY <2>1, <3>2
    <3>4. k # 0 => next[<<k, f[k - 1]>>] = l.next[f[k - 1]]
      BY <3>2, <3>3
    <3> QED  BY <3>1, <3>4
  <2> HIDE DEF n
  <2> QED  BY <2>1, <2>2
<1> HIDE DEF n
<1>6. Nth(l) = CHOOSE g : Walk(g)
  BY DEF Nth, n
<1>7. Walk(Nth(l))
  <2> HIDE DEF Walk
  <2> QED  BY <1>5, <1>6
<1> DEFINE g == Nth(l)
<1> HIDE DEF g
<1>8. Walk(g)
  BY <1>7 DEF g
<1>9. g[0] = free_list
  <2>1. 0 \in 0..n
    BY <1>1
  <2> QED  BY <1>8, <2>1
<1>10. \A k \in 1..n : g[k] = l.next[g[k - 1]]
  <2> TAKE k \in 1..n
  <2>1. k \in 0..n /\ k # 0
    BY <1>1
  <2> QED  BY <1>8, <2>1
<1>11. \A k \in Nat : k <= n => g[k] \in Nodes
  <2> DEFINE T == {k \in Nat : k <= n => g[k] \in Nodes}
  <2>1. 0 \in T
    BY <1>1, <1>9
  <2>2. ASSUME NEW k \in Nat, k \in T PROVE k + 1 \in T
    <3>1. k + 1 <= n => k + 1 \in 1..n /\ (k + 1) - 1 = k /\ k <= n
      BY <1>1
    <3>2. k + 1 <= n => g[k + 1] = l.next[g[k]]
      BY <1>10, <3>1
    <3> QED  BY <2>2, <3>1, <3>2
  <2>3. Nat \subseteq T
    <3> HIDE DEF T
    <3> QED  BY <2>1, <2>2, Induction
  <2> QED  BY <2>3
<1>12. g \in [0..n -> Nodes]
  <2>1. DOMAIN g = 0..n
    BY <1>8
  <2>2. \A k \in 0..n : g[k] \in Nodes
    BY <1>1, <1>11
  <2>3. g = [k \in 0..n |-> g[k]]
    BY <1>8
  <2> QED  BY <2>2, <2>3
<1> QED  BY <1>9, <1>10, <1>12 DEF g, n

\* The walk from the head along a list: its blocks in ascending order, then the
\* head, after len blocks.
Visits(l, B, len) ==
    /\ len \in 0..NPAGES /\ Nth(l)[0] = free_list /\ Nth(l)[len + 1] = free_list
    /\ \A k \in 1..len : Nth(l)[k] \in B
    /\ \A j, k \in 0..len : j < k => Nth(l)[j] < Nth(l)[k]
    /\ \A b \in B : \E k \in 1..len : Nth(l)[k] = b

\* A walk along a list comes back to the head.
LEMMA WalkEnds ==
    ASSUME NEW l, NEW B, B \subseteq Page, Linked(l, B)
    PROVE  \E len : Visits(l, B, len)
<1> DEFINE g == Nth(l)
           n == NPAGES + 1
<1>1. /\ l.next \in [Nodes -> Nodes] /\ n \in Nat /\ NPAGES \in Nat
      /\ OnList(B) \subseteq Nodes
  BY NodeTypes, FirstFitAssumption DEF Linked, OnList
<1>2. /\ g \in [0..n -> Nodes] /\ g[0] = free_list
      /\ \A k \in 1..n : g[k] = l.next[g[k - 1]]
  BY <1>1, NthFacts
<1> HIDE DEF g, n
<1> DEFINE
      \* After k steps not at the head again: at a block, which is k - 1 at least,
      \* and all blocks up to it have been seen.
      Out(k) == \A j \in 1..k : g[j] # free_list
      Seen(k) ==
        /\ g[k] \in OnList(B) /\ (k > 0 => g[k] \in B) /\ g[k] >= k - 1
        /\ \A j \in 0..k : g[j] <= g[k] /\ (j < k => g[j] < g[k])
        /\ \A b \in B : b <= g[k] => \E j \in 1..k : g[j] = b
      T == {k \in Nat : k <= n /\ Out(k) => Seen(k)}
<1>3. 0 \in T
  <2>1. Seen(0)
    <3>1. free_list = -1 /\ \A b \in B : ~(b <= free_list)
      BY NodeTypes DEF free_list
    <3> QED  BY <1>2, <3>1 DEF OnList
  <2> HIDE DEF Seen
  <2> QED  BY <2>1
<1>4. ASSUME NEW k \in Nat, k \in T PROVE k + 1 \in T
  <2> SUFFICES ASSUME k + 1 <= n, Out(k + 1) PROVE Seen(k + 1)
    OBVIOUS
  <2>1. k <= n /\ Out(k) /\ k + 1 \in 1..n /\ (k + 1) - 1 = k /\ k \in 0..n
    BY <1>1
  <2>2. Seen(k)
    BY <1>4, <2>1
  <2>3. g[k + 1] = l.next[g[k]] /\ g[k + 1] # free_list
    <3>1. k + 1 \in 1..k + 1
      OBVIOUS
    <3> QED  BY <1>2, <2>1, <3>1
  <2> DEFINE x == g[k]
             y == g[k + 1]
  <2>4. /\ y \in OnList(B) /\ x < y
        /\ \A q \in B : x < q => y <= q
    BY <2>2, <2>3 DEF Linked
  <2>5. y \in B /\ y \in Int /\ x \in Int /\ x >= k - 1
    BY <1>1, <2>2, <2>3, <2>4, NodeTypes DEF OnList
  <2>6. \A j \in 0..k : g[j] \in Int /\ g[j] <= x
    <3>1. \A j \in 0..k : j \in 0..n
      BY <1>1, <2>1
    <3> QED  BY <1>2, <2>2, <3>1, NodeTypes
  <2>7. ASSUME NEW j \in 0..k + 1 PROVE g[j] <= y /\ (j < k + 1 => g[j] < y)
    <3>1. CASE j = k + 1
      BY <2>5, <3>1
    <3>2. CASE j # k + 1
      <4>1. j \in 0..k
        BY <3>2
      <4>2. g[j] \in Int /\ g[j] <= x
        BY <2>6, <4>1
      <4> HIDE DEF x, y
      <4> QED  BY <2>4, <2>5, <4>2
    <3> QED  BY <3>1, <3>2
  <2>8. ASSUME NEW b \in B, b <= y PROVE \E j \in 1..k + 1 : g[j] = b
    <3>1. b \in Int
      BY NodeTypes
    <3>2. CASE b <= x
      <4>1. PICK j \in 1..k : g[j] = b
        BY <2>2, <3>2
      <4>2. j \in 1..k + 1
        OBVIOUS
      <4> QED  BY <4>1, <4>2
    <3>3. CASE x < b
      <4>1. b = y
        BY <2>4, <2>5, <2>8, <3>1, <3>3
      <4>2. k + 1 \in 1..k + 1
        OBVIOUS
      <4> QED  BY <4>1, <4>2
    <3>4. b <= x \/ x < b
      BY <2>5, <3>1
    <3> QED  BY <3>2, <3>3, <3>4
  <2>9. y >= (k + 1) - 1
    <3> HIDE DEF x, y
    <3> QED  BY <2>4, <2>5
  <2> HIDE DEF T, Out
  <2> QED  BY <2>4, <2>5, <2>7, <2>8, <2>9
<1>5. Nat \subseteq T
  <2> HIDE DEF T
  <2> QED  BY <1>3, <1>4, Induction
<1> DEFINE H == {k \in 1..n : g[k] = free_list}
<1>6. H # {}
  <2> SUFFICES ASSUME H = {} PROVE FALSE
    OBVIOUS
  <2>1. Out(n) /\ n \in T /\ n <= n
    BY <1>1, <1>5
  <2>2. Seen(n)
    BY <1>1, <2>1
  <2>3. n > 0 /\ g[n] \in B /\ g[n] >= n - 1 /\ n - 1 = NPAGES
    BY <1>1, <2>2 DEF n
  <2>4. g[n] \in Int /\ g[n] < NPAGES
    BY <2>3, NodeTypes
  <2>5. g[n] >= NPAGES
    BY <2>3
  <2> QED  BY <1>1, <2>4, <2>5
<1>7. PICK h \in H : \A k \in H : h <= k
  <2>1. H \subseteq Nat
    OBVIOUS
  <2> HIDE DEF H
  <2> QED  BY <1>6, <2>1, Least
<1> DEFINE len == h - 1
<1>8. len \in 0..NPAGES /\ len + 1 = h /\ g[h] = free_list /\ len \in Nat /\ len <= n
  BY <1>1, <1>7 DEF n
<1> HIDE DEF len
<1>9. Out(len)
  BY <1>1, <1>7, <1>8
<1>10. \A k \in 0..len : Seen(k)
  <2> TAKE k \in 0..len
  <2>1. k \in Nat /\ k <= n /\ Out(k)
    BY <1>1, <1>8, <1>9
  <2>2. k \in T
    BY <1>5, <2>1
  <2> HIDE DEF Seen, Out
  <2> QED  BY <2>1, <2>2
<1>11. \A b \in B : \E k \in 1..len : g[k] = b
  <2> TAKE b \in B
  <2>1. len \in 0..len /\ h \in 1..n /\ h - 1 = len
    BY <1>7, <1>8
  <2>2. Seen(len)
    BY <1>10, <2>1
  <2>3. l.next[g[len]] = free_list
    BY <1>2, <1>8, <2>1
  <2>4. b <= g[len]
    <3>1. ~(g[len] < b)
      BY <2>2, <2>3 DEF Linked
    <3>2. g[len] \in Int /\ b \in Int
      BY <1>1, <2>2, NodeTypes
    <3> QED  BY <3>1, <3>2
  <2> QED  BY <2>2, <2>4
<1>12. \A k \in 1..len : g[k] \in B
  <2> TAKE k \in 1..len
  <2>1. k \in 0..len /\ k > 0
    BY <1>8
  <2> QED  BY <1>10, <2>1
<1>13. \A j, k \in 0..len : j < k => g[j] < g[k]
  <2> TAKE j, k \in 0..len
  <2>1. j < k => j \in 0..k
    BY <1>8
  <2> QED  BY <1>10, <2>1
<1>14. Visits(l, B, len)
  BY <1>2, <1>8, <1>11, <1>12, <1>13 DEF Visits, g
<1> QED  BY <1>14

\* Where a search ends that looks for one of S.
LEMMA StepsFacts ==
    ASSUME NEW S, list.next \in [Nodes -> Nodes],
           NEW k \in 1..NPAGES + 1, NodeAt(k) \in S
    PROVE  /\ StepsTo(S) \in 1..k /\ NodeAt(StepsTo(S)) \in S
           /\ \A j \in 1..StepsTo(S) - 1 : NodeAt(j) \notin S
<1> DEFINE at == {i \in 1..NPAGES + 1 : Nth(list)[i] \in S}
<1>1. k \in at /\ at \subseteq Nat
  BY DEF NodeAt
<1>2. PICK i \in at : \A j \in at : i <= j
  <2> HIDE DEF at
  <2> QED  BY <1>1, Least
<1>3. StepsTo(S) = CHOOSE i2 \in at : \A j \in at : i2 <= j
  BY <1>1 DEF StepsTo
<1> DEFINE m == StepsTo(S)
<1>4. m \in at /\ \A j \in at : m <= j
  <2> HIDE DEF at
  <2> QED  BY <1>2, <1>3
<1> HIDE DEF m
<1>5. m \in 1..NPAGES + 1 /\ m <= k /\ Nth(list)[m] \in S
  BY <1>1, <1>4
<1>6. \A j \in 1..m - 1 : j \notin at /\ j \in 1..NPAGES + 1
  <2> TAKE j \in 1..m - 1
  <2>1. ~(m <= j) /\ j \in 1..NPAGES + 1
    BY <1>5, FirstFitAssumption
  <2> QED  BY <1>4, <2>1
<1> QED  BY <1>5, <1>6 DEF m, NodeAt

\* A list is empty if the head points to itself.
LEMMA EmptyList ==
    ASSUME NEW l, NEW B, B \subseteq Page, Linked(l, B)
    PROVE  list_empty(l, free_list) <=> B = {}
BY NodeTypes DEF list_empty, Linked, OnList

\* A walk that has come to k has passed what lies below.
LEMMA Passed ==
    ASSUME NEW l, NEW B, B \subseteq Page, NEW len, Visits(l, B, len),
           NEW k \in 1..len, NEW b \in B, b < Nth(l)[k]
    PROVE  \E j \in 1..k - 1 : Nth(l)[j] = b
<1> DEFINE g == Nth(l)
<1>1. PICK j \in 1..len : g[j] = b
  BY DEF Visits
<1>2. len \in Nat /\ g[k] \in Int /\ b \in Int /\ j \in 0..len /\ k \in 0..len
  <2>1. g[k] \in B /\ len \in 0..NPAGES
    BY DEF Visits
  <2> HIDE DEF g
  <2>2. g[k] \in Int /\ b \in Int
    BY <2>1, NodeTypes
  <2>3. len \in Nat /\ j \in 0..len /\ k \in 0..len
    BY <2>1
  <2> QED  BY <2>2, <2>3
<1>3. ~(k < j)
  <2> SUFFICES ASSUME k < j PROVE FALSE
    OBVIOUS
  <2>1. g[k] < g[j]
    BY <1>2 DEF Visits
  <2> HIDE DEF g
  <2>2. b < g[k]
    BY DEF g
  <2> QED  BY <1>1, <1>2, <2>1, <2>2
<1>4. j # k
  <2> SUFFICES ASSUME j = k PROVE FALSE
    OBVIOUS
  <2>1. b < b /\ b \in Int
    BY <1>1, <1>2
  <2> QED  BY <2>1
<1>5. j \in 1..k - 1
  BY <1>2, <1>3, <1>4
<1> QED  BY <1>1, <1>5

\* The search of first fit ends at the lowest block that is large enough, or at
\* the head if there is none.
LEMMA SearchFinds ==
    ASSUME NEW B, B \subseteq Page, Linked(list, B), NEW n
    PROVE  LET x == NodeAt(SearchFor(n))
               Large(b) == property[b] >= n
           IN  /\ SearchFor(n) # 0
               /\ \/ x = free_list /\ \A b \in B : ~Large(b)
                  \/ x \in B /\ Large(x) /\ \A b \in B : b < x => ~Large(b)
<1> DEFINE Large(b) == property[b] >= n
           S == {free_list} \cup {p \in Page : Large(p)}
           g == Nth(list)
           k == StepsTo(S)
<1>1. PICK len : Visits(list, B, len)
  BY WalkEnds
<1>2. /\ len \in 0..NPAGES /\ NPAGES \in Nat /\ g[len + 1] = free_list
      /\ len + 1 \in 1..NPAGES + 1 /\ list.next \in [Nodes -> Nodes]
  BY <1>1, FirstFitAssumption DEF Visits, Linked
<1>3. SearchFor(n) = k /\ \A i : NodeAt(i) = g[i]
  BY DEF SearchFor, NodeAt
<1>4. /\ k \in 1..len + 1 /\ g[k] \in S
      /\ \A j \in 1..k - 1 : g[j] \notin S
  <2> HIDE DEF S
  <2>1. NodeAt(len + 1) \in S
    BY <1>2, <1>3 DEF S
  <2> QED  BY <1>2, <1>3, <2>1, StepsFacts
<1> HIDE DEF k, g
<1>5. CASE k = len + 1
  <2>1. \A b \in B : ~Large(b)
    <3> TAKE b \in B
    <3>1. PICK j \in 1..len : g[j] = b
      BY <1>1 DEF Visits, g
    <3>2. j \in 1..k - 1 /\ b \in Page
      BY <1>2, <1>5, <3>1
    <3> QED  BY <1>4, <3>1, <3>2
  <2> QED  BY <1>2, <1>3, <1>4, <1>5, <2>1
<1>6. CASE k # len + 1
  <2>1. k \in 1..len
    BY <1>2, <1>4, <1>6
  <2>2. g[k] \in B /\ g[k] # free_list
    BY <1>1, <2>1, NodeTypes DEF Visits, g
  <2>3. \A b \in B : b < g[k] => ~Large(b)
    <3> TAKE b \in B
    <3> SUFFICES ASSUME b < g[k] PROVE ~Large(b)
      OBVIOUS
    <3>1. \E j \in 1..k - 1 : g[j] = b
      <4>1. b < Nth(list)[k]
        BY DEF g
      <4> HIDE DEF S
      <4>2. \E j \in 1..k - 1 : Nth(list)[j] = b
        BY <1>1, <2>1, <4>1, Passed
      <4> QED  BY <4>2 DEF g
    <3> QED  BY <1>4, <3>1
  <2>4. Large(g[k])
    BY <1>4, <2>2
  <2>5. k # 0
    BY <2>1
  <2> HIDE DEF Large
  <2> QED  BY <1>3, <2>2, <2>3, <2>4, <2>5 DEF Large
<1> QED  BY <1>5, <1>6

\* The loop of free ends at the first block above the one that is freed, or at
\* the last.
LEMMA PlaceFound ==
    ASSUME NEW B, B \subseteq Page, Linked(list, B), B # {},
           NEW base \in Page, base \notin B
    PROVE  LET x == NodeAt(PlaceFor(base))
           IN  /\ PlaceFor(base) # 0 /\ x \in B
               /\ \/ base < x /\ \A b \in B : b < x => b < base
                  \/ x < base
<1> DEFINE S == {p \in Page : base < p \/ list.next[p] = free_list}
           g == Nth(list)
           k == StepsTo(S)
<1>1. PICK len : Visits(list, B, len)
  BY WalkEnds
<1>2. /\ len \in 0..NPAGES /\ NPAGES \in Nat /\ g[len + 1] = free_list
      /\ list.next \in [Nodes -> Nodes]
  BY <1>1, FirstFitAssumption DEF Visits, Linked
<1>3. len \in 1..len /\ len \in 1..NPAGES + 1 /\ len + 1 \in 1..NPAGES + 1
  <2>1. \E j \in 1..len : TRUE
    BY <1>1 DEF Visits
  <2> QED  BY <1>2, <2>1
<1>4. PlaceFor(base) = k /\ \A i : NodeAt(i) = g[i]
  BY DEF PlaceFor, NodeAt
<1>5. g[len] \in B /\ list.next[g[len]] = free_list
  <2>1. g[len + 1] = list.next[g[(len + 1) - 1]] /\ (len + 1) - 1 = len
    BY <1>2, <1>3, NthFacts
  <2> QED  BY <1>1, <1>2, <1>3, <2>1 DEF Visits
<1>6. /\ k \in 1..len /\ g[k] \in S
      /\ \A j \in 1..k - 1 : g[j] \notin S
  <2>1. NodeAt(len) \in S
    BY <1>4, <1>5
  <2> HIDE DEF S
  <2> QED  BY <1>2, <1>3, <1>4, <2>1, StepsFacts
<1> HIDE DEF k, g
<1>7. g[k] \in B /\ B \subseteq Int /\ base \in Int
  BY <1>1, <1>6, NodeTypes DEF Visits, g
<1>8. \A b \in B : b < g[k] => b < base
  <2> TAKE b \in B
  <2> SUFFICES ASSUME b < g[k] PROVE b < base
    OBVIOUS
  <2>1. \E j \in 1..k - 1 : g[j] = b
    <3>1. k \in 1..len /\ b < Nth(list)[k]
      BY <1>6 DEF g
    <3> HIDE DEF S
    <3>2. \E j \in 1..k - 1 : Nth(list)[j] = b
      BY <1>1, <3>1, Passed
    <3> QED  BY <3>2 DEF g
  <2>2. ~(base < b) /\ b # base
    BY <1>6, <2>1
  <2> QED  BY <1>7, <2>2
<1>9. base < g[k] \/ g[k] < base
  <2>1. g[k] \in Int /\ g[k] # base
    BY <1>7
  <2> QED  BY <1>7, <2>1
<1>10. k # 0
  BY <1>6
<1> QED  BY <1>4, <1>7, <1>8, <1>9, <1>10

\* Unless it is put behind all others, a block that is freed gets its place.
LEMMA InsertedLinked ==
    ASSUME NEW B, B \subseteq Page, Linked(list, B), NEW base \in Page, base \notin B,
           list_empty(list, free_list) \/ ~(base > NodeAt(PlaceFor(base)))
    PROVE  Linked(Inserted(base), B \cup {base})
<1> DEFINE x == NodeAt(PlaceFor(base))
<1>1. list_empty(list, free_list) <=> B = {}
  BY EmptyList
<1>2. CASE B = {}
  <2>1. Inserted(base) = __list_add(list, base, free_list, list.next[free_list])
    BY <1>1, <1>2 DEF Inserted, list_add
  <2>2. list.next[free_list] = free_list /\ free_list \in OnList(B) /\ free_list < base
    BY <1>1, <1>2, NodeTypes DEF list_empty, OnList
  <2> QED  BY <2>1, <2>2, AddLinked
<1>3. CASE B # {}
  <2>1. x \in B /\ ((base < x /\ \A b \in B : b < x => b < base) \/ x < base)
    BY <1>3, PlaceFound
  <2>2. ~(base > x)
    BY <1>1, <1>3
  <2> HIDE DEF x
  <2>3. x \in Int /\ base \in Int
    BY <2>1, NodeTypes
  <2>4. base < x /\ \A b \in B : b < x => b < base
    BY <2>1, <2>2, <2>3
  <2>5. Inserted(base) = __list_add(list, base, list.prev[x], x)
    BY <1>1, <1>3, <2>4 DEF Inserted, list_add_before, x
  <2> DEFINE a == list.prev[x]
  <2>6. a \in OnList(B) /\ list.next[a] = x
    BY <2>1 DEF Linked, OnList
  <2>7. a < base
    <3>1. CASE a = free_list
      BY <3>1, NodeTypes
    <3>2. CASE a # free_list
      <4>1. a \in B /\ x # free_list
        BY <2>1, <2>6, <3>2, NodeTypes DEF OnList
      <4>2. a < x
        BY <2>6, <4>1 DEF Linked
      <4> QED  BY <2>4, <4>1, <4>2
    <3> QED  BY <3>1, <3>2
  <2> HIDE DEF a
  <2> QED  BY <2>4, <2>5, <2>6, <2>7, AddLinked DEF a
<1> QED  BY <1>2, <1>3

-----------------------------------------------------------------------------
(* Blocks *)

\* A block of free pages and another one do not meet.
LEMMA AddParts ==
    ASSUME NEW F, NEW B, NEW prop, F \subseteq Page, Parts(F, B, prop),
           NEW base \in Page, NEW n \in 1..NPAGES, base + n <= NPAGES,
           Run(base, n) \cap F = {}
    PROVE  LET new == [prop EXCEPT ![base] = n]
           IN  /\ base \notin B
               /\ Parts(F \cup Run(base, n), B \cup {base}, new)
               /\ \A b \in B : new[b] = prop[b]
<1> DEFINE new == [prop EXCEPT ![base] = n]
<1>1. Page \subseteq Int /\ NPAGES \in Nat /\ B \subseteq Int
  BY NodeTypes, FirstFitAssumption DEF Parts
<1>2. /\ \A b \in B : /\ b \in Page /\ prop[b] \in 0..NPAGES /\ prop[b] > 0
                      /\ b + prop[b] <= NPAGES /\ Run(b, prop[b]) \subseteq F
                      /\ b \in F
  <2>1. \A b \in B : b \in Page /\ prop[b] \in 0..NPAGES /\ prop[b] > 0
                      /\ b + prop[b] <= NPAGES /\ Run(b, prop[b]) \subseteq F
    BY DEF Parts
  <2>2. \A b \in B : b \in Run(b, prop[b])
    BY <1>1, <2>1 DEF Run
  <2> QED  BY <2>1, <2>2
<1>3. base \in Run(base, n) /\ base \notin B
  BY <1>1, <1>2 DEF Run
<1>4. /\ new \in [Page -> 0..NPAGES] /\ new[base] = n /\ \A b \in B : new[b] = prop[b]
  BY <1>1, <1>3 DEF Parts
<1> HIDE DEF new
<1>5. \A b \in B : /\ b < base => b + prop[b] <= base
                   /\ base < b => base + n <= b
  <2> TAKE b \in B
  <2>1. base \notin Run(b, prop[b]) /\ b \notin Run(base, n)
    BY <1>2, <1>3
  <2> QED  BY <1>1, <1>2, <2>1 DEF Run
<1>6. \A b, c \in B \cup {base} : b < c => b + new[b] <= c
  <2>1. \A b, c \in B : b < c => b + prop[b] <= c
    BY DEF Parts
  <2>2. ~(base < base)
    BY <1>1
  <2> QED  BY <1>4, <1>5, <2>1, <2>2
<1>7. \A p \in F \cup Run(base, n) : \E b \in B \cup {base} : p \in Run(b, new[b])
  BY <1>4 DEF Parts
<1>8. \A b \in B \cup {base} : /\ new[b] > 0 /\ b + new[b] <= NPAGES
                               /\ Run(b, new[b]) \subseteq F \cup Run(base, n)
  BY <1>2, <1>4
<1>9. B \cup {base} \subseteq Page
  BY <1>2
<1> QED  BY <1>3, <1>4, <1>6, <1>7, <1>8, <1>9 DEF Parts, new

\* Two blocks that touch are one.
LEMMA MergeParts ==
    ASSUME NEW F, NEW B, NEW prop, Parts(F, B, prop),
           NEW b \in B, NEW c \in B, b + prop[b] = c
    PROVE  LET new == [prop EXCEPT ![b] = @ + prop[c]]
           IN  /\ Parts(F, B \ {c}, new) /\ b # c /\ new[b] = prop[b] + prop[c]
               /\ \A x \in B : x # b => new[x] = prop[x]
<1> DEFINE new == [prop EXCEPT ![b] = @ + prop[c]]
<1>1. Page \subseteq Int /\ NPAGES \in Nat /\ B \subseteq Page /\ B \subseteq Int
  BY NodeTypes, FirstFitAssumption DEF Parts
<1>2. /\ \A x \in B : /\ prop[x] \in 0..NPAGES /\ prop[x] > 0 /\ x + prop[x] <= NPAGES
                      /\ Run(x, prop[x]) \subseteq F /\ 0 <= x
  BY <1>1, NodeTypes DEF Parts
<1>3. b # c /\ b < c /\ c = b + prop[b]
  BY <1>1, <1>2
<1>4. prop[b] + prop[c] \in 0..NPAGES
  <2>1. b + prop[b] + prop[c] <= NPAGES
    BY <1>1, <1>2
  <2>2. b \in Int /\ 0 <= b /\ prop[b] \in Int /\ prop[c] \in Int /\ prop[b] > 0 /\ prop[c] > 0
    BY <1>1, <1>2
  <2> QED  BY <1>1, <2>1, <2>2
<1>5. /\ new \in [Page -> 0..NPAGES] /\ new[b] = prop[b] + prop[c]
      /\ \A x \in B : x # b => new[x] = prop[x]
  BY <1>1, <1>4 DEF Parts
<1> HIDE DEF new
<1>6. Run(b, new[b]) = Run(b, prop[b]) \cup Run(c, prop[c])
  <2>1. b \in Int /\ prop[b] \in Int /\ prop[c] \in Int /\ prop[b] > 0 /\ prop[c] > 0
    BY <1>1, <1>2
  <2> QED  BY <1>3, <1>5, <2>1 DEF Run
<1>7. \A x \in B \ {c} : new[x] > 0 /\ x + new[x] <= NPAGES /\ Run(x, new[x]) \subseteq F
  <2> TAKE x \in B \ {c}
  <2>1. CASE x = b
    <3>1. b + new[b] = c + prop[c] /\ new[b] > 0
      BY <1>1, <1>2, <1>3, <1>5
    <3> QED  BY <1>2, <1>6, <2>1, <3>1
  <2>2. CASE x # b
    BY <1>2, <1>5, <2>2
  <2> QED  BY <2>1, <2>2
<1>8. \A p \in F : \E x \in B \ {c} : p \in Run(x, new[x])
  <2> TAKE p \in F
  <2>1. PICK x \in B : p \in Run(x, prop[x])
    BY DEF Parts
  <2> QED  BY <1>3, <1>5, <1>6, <2>1
<1>9. \A x, y \in B \ {c} : x < y => x + new[x] <= y
  <2> TAKE x, y \in B \ {c}
  <2> SUFFICES ASSUME x < y PROVE x + new[x] <= y
    OBVIOUS
  <2>1. \A v, w \in B : v < w => v + prop[v] <= w
    BY DEF Parts
  <2>2. CASE x = b
    <3>1. c <= y /\ c # y
      BY <1>3, <2>1, <2>2
    <3>2. c < y
      BY <1>1, <3>1
    <3>3. c + prop[c] <= y
      BY <2>1, <3>2
    <3>4. x \in Int /\ prop[b] \in Int /\ prop[c] \in Int
      BY <1>1, <1>2
    <3> QED  BY <1>3, <1>5, <2>2, <3>3, <3>4
  <2>3. CASE x # b
    BY <1>5, <2>1, <2>3
  <2> QED  BY <2>2, <2>3
<1> QED  BY <1>1, <1>3, <1>5, <1>7, <1>8, <1>9 DEF Parts, new

\* All that Parts says of one block.
LEMMA BlockFacts ==
    ASSUME NEW F, NEW B, NEW prop, Parts(F, B, prop)
    PROVE  /\ B \subseteq Int /\ NPAGES \in Nat
           /\ \A b \in B : /\ b \in Page /\ 0 <= b /\ prop[b] \in 1..NPAGES
                           /\ b + prop[b] <= NPAGES
                           /\ Run(b, prop[b]) \subseteq F /\ b \in F
           /\ \A b, c \in B : b < c => b + prop[b] <= c
           /\ \A p \in F : \E b \in B : p \in Run(b, prop[b])
<1>1. /\ B \subseteq Page
      /\ \A b \in B : /\ prop[b] \in 0..NPAGES /\ prop[b] > 0 /\ b + prop[b] <= NPAGES
                      /\ Run(b, prop[b]) \subseteq F
  BY DEF Parts
<1>2. B \subseteq Int /\ NPAGES \in Nat /\ \A b \in B : b \in Page /\ 0 <= b
  BY <1>1, NodeTypes, FirstFitAssumption
<1>3. \A b \in B : prop[b] \in 1..NPAGES /\ b \in Run(b, prop[b])
  BY <1>1, <1>2 DEF Run
<1> QED  BY <1>1, <1>2, <1>3 DEF Parts

\* The first pages of a block are taken, and the rest is a block.
LEMMA SplitParts ==
    ASSUME NEW F, NEW B, NEW prop, Parts(F, B, prop), Spaced(B, prop),
           NEW page \in B, NEW n \in 1..NPAGES, prop[page] > n
    PROVE  LET rest == page + n
               new  == [prop EXCEPT ![rest] = prop[page] - n]
               left == (B \ {page}) \cup {rest}
           IN  /\ rest \in Page /\ rest \notin B
               /\ Parts(F \ Run(page, n), left, new) /\ Spaced(left, new)
<1> DEFINE rest == page + n
           new  == [prop EXCEPT ![rest] = prop[page] - n]
           left == (B \ {page}) \cup {rest}
           G    == F \ Run(page, n)
<1>1. /\ B \subseteq Int /\ NPAGES \in Nat /\ n \in Int /\ n > 0 /\ page \in Int
      /\ \A b \in B : /\ b \in Page /\ 0 <= b /\ prop[b] \in 1..NPAGES
                      /\ b + prop[b] <= NPAGES
                      /\ Run(b, prop[b]) \subseteq F /\ b \in F
      /\ \A p \in F : \E b \in B : p \in Run(b, prop[b])
  BY BlockFacts
<1>2. \A b, c \in B : b < c => b + prop[b] < c
  BY DEF Spaced
<1>3. /\ rest \in Int /\ page < rest /\ rest < page + prop[page] /\ rest \in Page
      /\ prop[page] - n \in 1..NPAGES /\ prop[page] \in Int
      /\ rest + (prop[page] - n) = page + prop[page]
  BY <1>1 DEF Page
<1>4. rest \notin B
  BY <1>1, <1>2, <1>3
<1>5. /\ new \in [Page -> 0..NPAGES] /\ new[rest] = prop[page] - n
      /\ \A b \in B : new[b] = prop[b]
  <2>1. prop \in [Page -> 0..NPAGES] /\ prop[page] - n \in 0..NPAGES
    BY <1>1, <1>3 DEF Parts
  <2> HIDE DEF rest
  <2> QED  BY <1>1, <1>3, <1>4, <2>1
<1>6. Run(rest, new[rest]) = Run(page, prop[page]) \ Run(page, n)
  <2> HIDE DEF new
  <2> QED  BY <1>1, <1>3, <1>5 DEF Run
<1> HIDE DEF new
<1>7. \A b \in B : b # page => Run(b, prop[b]) \cap Run(page, n) = {}
  <2> TAKE b \in B
  <2> SUFFICES ASSUME b # page PROVE Run(b, prop[b]) \cap Run(page, n) = {}
    OBVIOUS
  <2>1. b + prop[b] < page \/ page + prop[page] < b
    <3>1. b < page \/ page < b
      BY <1>1
    <3> QED  BY <1>2, <3>1
  <2>2. b \in Int /\ prop[b] \in Int /\ prop[page] \in Int /\ n < prop[page]
    BY <1>1, <1>3
  <2> QED  BY <1>1, <2>1, <2>2 DEF Run
<1> HIDE DEF rest
<1>8. \A b \in left : /\ new[b] > 0 /\ b + new[b] <= NPAGES
                      /\ Run(b, new[b]) \subseteq G
  <2> TAKE b \in left
  <2>1. CASE b = rest
    <3>1. rest + new[rest] = page + prop[page] /\ new[rest] > 0
      BY <1>3, <1>5
    <3>2. Run(rest, new[rest]) \subseteq G
      BY <1>1, <1>6
    <3> QED  BY <1>1, <2>1, <3>1, <3>2
  <2>2. CASE b # rest
    <3>1. b \in B /\ b # page /\ new[b] = prop[b] /\ prop[b] \in 1..NPAGES
      BY <1>1, <1>5, <2>2
    <3>2. Run(b, prop[b]) \subseteq G
      BY <1>1, <1>7, <3>1
    <3> QED  BY <1>1, <3>1, <3>2
  <2> QED  BY <2>1, <2>2
<1>9. \A p \in G : \E b \in left : p \in Run(b, new[b])
  <2> TAKE p \in G
  <2>1. PICK b \in B : p \in Run(b, prop[b])
    BY <1>1
  <2>2. CASE b = page
    BY <1>6, <2>1, <2>2
  <2>3. CASE b # page
    BY <1>5, <2>1, <2>3
  <2> QED  BY <2>2, <2>3
<1>10. \A b, c \in left : b < c => b + new[b] < c /\ b + new[b] <= c
  <2> TAKE b, c \in left
  <2> SUFFICES ASSUME b < c PROVE b + new[b] < c /\ b + new[b] <= c
    OBVIOUS
  <2>1. CASE b = rest
    <3>1. c \in B /\ page < c
      BY <1>1, <1>3, <2>1
    <3>2. page + prop[page] < c
      BY <1>2, <3>1
    <3> QED  BY <1>1, <1>3, <1>5, <2>1, <3>1, <3>2
  <2>2. CASE b # rest /\ c = rest
    <3>1. b \in B /\ b # page /\ new[b] = prop[b] /\ b \in Int /\ prop[b] \in Int
      BY <1>1, <1>5, <2>2
    <3>2. b < page
      <4>1. ~(page < b)
        <5> SUFFICES ASSUME page < b PROVE FALSE
          OBVIOUS
        <5>1. page + prop[page] < b
          BY <1>2, <3>1
        <5> QED  BY <1>1, <1>3, <2>2, <3>1, <5>1
      <4> QED  BY <1>1, <3>1, <4>1
    <3>3. b + prop[b] < page
      BY <1>2, <3>1, <3>2
    <3> QED  BY <1>1, <1>3, <2>2, <3>1, <3>3
  <2>3. CASE b # rest /\ c # rest
    <3>1. b \in B /\ c \in B /\ new[b] = prop[b] /\ prop[b] \in Int /\ b \in Int /\ c \in Int
      BY <1>1, <1>5, <2>3
    <3>2. b + prop[b] < c
      BY <1>2, <3>1
    <3> QED  BY <3>1, <3>2
  <2> QED  BY <2>1, <2>2, <2>3
<1>11. left \subseteq Page
  BY <1>1, <1>3
<1> QED  BY <1>3, <1>4, <1>5, <1>8, <1>9, <1>10, <1>11 DEF Parts, Spaced, new, rest

\* A whole block is taken.
LEMMA WholeParts ==
    ASSUME NEW F, NEW B, NEW prop, Parts(F, B, prop), Spaced(B, prop), NEW page \in B
    PROVE  /\ Parts(F \ Run(page, prop[page]), B \ {page}, prop)
           /\ Spaced(B \ {page}, prop)
<1> DEFINE G == F \ Run(page, prop[page])
<1>1. /\ B \subseteq Int /\ NPAGES \in Nat
      /\ \A b \in B : /\ b \in Page /\ prop[b] \in 1..NPAGES
                      /\ b + prop[b] <= NPAGES /\ Run(b, prop[b]) \subseteq F
      /\ \A p \in F : \E b \in B : p \in Run(b, prop[b])
      /\ \A b, c \in B : b < c => b + prop[b] <= c
  BY BlockFacts
<1>2. \A b \in B : b # page => Run(b, prop[b]) \cap Run(page, prop[page]) = {}
  <2> TAKE b \in B
  <2> SUFFICES ASSUME b # page PROVE Run(b, prop[b]) \cap Run(page, prop[page]) = {}
    OBVIOUS
  <2>1. b + prop[b] <= page \/ page + prop[page] <= b
    <3>1. b < page \/ page < b
      BY <1>1
    <3> QED  BY <1>1, <3>1
  <2>2. b \in Int /\ prop[b] \in Int /\ prop[page] \in Int /\ page \in Int
    BY <1>1
  <2> QED  BY <2>1, <2>2 DEF Run
<1>3. \A b \in B \ {page} : Run(b, prop[b]) \subseteq G
  BY <1>1, <1>2
<1>4. \A p \in G : \E b \in B \ {page} : p \in Run(b, prop[b])
  BY <1>1
<1>5. prop \in [Page -> 0..NPAGES] /\ \A b \in B : prop[b] > 0
  BY <1>1 DEF Parts
<1> QED  BY <1>1, <1>3, <1>4, <1>5 DEF Parts, Spaced

\* What Take leaves when it is given a block that is large enough.
LEMMA TakeLeaves ==
    ASSUME NEW F, F = Free, FitExact, NEW page \in PageProperty, NEW n \in 1..NPAGES,
           property[page] >= n, Take(page, n)
    PROVE  /\ Linked(list', PageProperty')
           /\ Parts(F \ Run(page, n), PageProperty', property')
           /\ Spaced(PageProperty', property')
<1> DEFINE B == PageProperty
           l == list_del(list, page)
           pv == list.prev[page]
           rest == page + n
<1>1. /\ Parts(F, B, property) /\ Spaced(B, property) /\ Linked(list, B) /\ B \subseteq Page
  BY DEF FitExact, Parts
<1>2. /\ Linked(l, B \ {page}) /\ pv \in OnList(B \ {page}) /\ pv < page
      /\ l.next[pv] = list.next[page]
  BY <1>1, DelLinked
<1>3. /\ B \subseteq Int /\ page \in Int /\ n \in Int /\ property[page] \in Int /\ n > 0
  BY <1>1, BlockFacts
<1>4. CASE property[page] > n
  <2>1. /\ list' = list_add(l, pv, rest)
        /\ property' = [property EXCEPT ![rest] = property[page] - n]
        /\ PageProperty' = (B \cup {rest}) \ {page}
    BY <1>4 DEF Take
  <2>2. /\ rest \in Page /\ rest \notin B
        /\ Parts(F \ Run(page, n), (B \ {page}) \cup {rest}, property')
        /\ Spaced((B \ {page}) \cup {rest}, property')
    BY <1>1, <1>4, <2>1, SplitParts
  <2>3. (B \cup {rest}) \ {page} = (B \ {page}) \cup {rest}
    BY <1>3
  <2>4. pv < rest
    <3>1. pv \in Int
      BY <1>1, <1>2, NodeTypes DEF OnList
    <3> QED  BY <1>2, <1>3, <3>1
  <2>5. l.next[pv] = free_list \/ rest < l.next[pv]
    <3> SUFFICES ASSUME l.next[pv] # free_list PROVE rest < l.next[pv]
      OBVIOUS
    <3> DEFINE nx == list.next[page]
    <3>1. nx \in B /\ page < nx
      BY <1>1, <1>2 DEF Linked, OnList
    <3>2. page + property[page] < nx
      BY <1>1, <3>1 DEF Spaced
    <3>3. nx \in Int
      BY <1>3, <3>1
    <3> HIDE DEF nx
    <3>4. rest < nx
      BY <1>3, <1>4, <3>2, <3>3
    <3> QED  BY <1>2, <3>4 DEF nx
  <2>6. Linked(__list_add(l, rest, pv, l.next[pv]), (B \ {page}) \cup {rest})
    <3>1. B \ {page} \subseteq Page /\ rest \notin B \ {page}
      BY <1>1, <2>2
    <3> HIDE DEF l, pv, rest, B
    <3> QED  BY <1>2, <2>2, <2>4, <2>5, <3>1, AddLinked
  <2> QED  BY <2>1, <2>2, <2>3, <2>6 DEF list_add
<1>5. CASE ~(property[page] > n)
  <2>1. list' = l /\ PageProperty' = B \ {page} /\ property' = property
    BY <1>5 DEF Take
  <2>2. property[page] = n
    BY <1>3, <1>5
  <2>3. /\ Parts(F \ Run(page, property[page]), B \ {page}, property)
        /\ Spaced(B \ {page}, property)
    BY <1>1, WholeParts
  <2> QED  BY <1>2, <2>1, <2>2, <2>3
<1> QED  BY <1>4, <1>5

\* The free pages F in blocks that touch only at the lower or upper end of base.
Freeing(f, F) ==
    /\ Linked(f.list, f.flags) /\ Parts(F, f.flags, f.property) /\ f.base \in f.flags

Area(l, prop, B, base) == [list |-> l, property |-> prop, flags |-> B, base |-> base]

\* After the merge with the block below only the upper end may touch another.
LEMMA MergesLow ==
    ASSUME NEW F, NEW l, NEW prop, NEW B, NEW base, Freeing(Area(l, prop, B, base), F),
           \A b, c \in B : b < c /\ b # base /\ c # base => b + prop[b] < c
    PROVE  LET g == MergeLow(Area(l, prop, B, base))
           IN  /\ g = Area(g.list, g.property, g.flags, g.base)
               /\ Freeing(g, F)
               /\ \A b, c \in g.flags : b < c /\ b # g.base => b + g.property[b] < c
<1> DEFINE p == l.prev[base]
           new == [prop EXCEPT ![p] = @ + prop[base]]
           f == Area(l, prop, B, base)
           g == MergeLow(f)
<1>1. /\ f.list = l /\ f.property = prop /\ f.flags = B /\ f.base = base
      /\ Linked(l, B) /\ Parts(F, B, prop) /\ base \in B /\ B \subseteq Page
  BY DEF Freeing, Area, Parts
<1>2. /\ B \subseteq Int
      /\ \A b \in B : b \in Page /\ prop[b] \in 1..NPAGES
      /\ \A b, c \in B : b < c => b + prop[b] <= c
  BY <1>1, BlockFacts
<1>3. p \in OnList(B) /\ l.next[p] = base /\ base # free_list
  BY <1>1, NodeTypes DEF Linked, OnList
<1> HIDE DEF f, p
<1>4. CASE p # free_list /\ p + prop[p] = base
  <2>1. g = Area(list_del(l, base), new, B \ {base}, p)
    BY <1>1, <1>4 DEF MergeLow, Area, p
  <2>2. /\ g.list = list_del(l, base) /\ g.property = new /\ g.flags = B \ {base}
        /\ g.base = p
    BY <2>1 DEF Area
  <2>3. p \in B
    BY <1>3, <1>4 DEF OnList
  <2>4. /\ Parts(F, B \ {base}, new) /\ p # base
        /\ \A x \in B : x # p => new[x] = prop[x]
    BY <1>1, <1>4, <2>3, MergeParts
  <2>5. Linked(list_del(l, base), B \ {base})
    BY <1>1, DelLinked
  <2> HIDE DEF g, new
  <2>6. \A b, c \in B \ {base} : b < c /\ b # p => b + new[b] < c
    BY <2>4
  <2>7. g = Area(g.list, g.property, g.flags, g.base)
    BY <2>1, <2>2
  <2>8. Freeing(g, F)
    BY <2>2, <2>3, <2>4, <2>5 DEF Freeing
  <2> QED  BY <2>2, <2>6, <2>7, <2>8 DEF g, f
<1>5. CASE ~(p # free_list /\ p + prop[p] = base)
  <2>1. g = f
    BY <1>1, <1>5 DEF MergeLow, p
  <2>2. \A b \in B : b < base => b + prop[b] < base
    <3> TAKE b \in B
    <3> SUFFICES ASSUME b < base PROVE b + prop[b] < base
      OBVIOUS
    <3>1. ~(p < b)
      <4> SUFFICES ASSUME p < b PROVE FALSE
        OBVIOUS
      <4>1. base <= b
        BY <1>1, <1>3 DEF Linked
      <4> QED  BY <1>1, <1>2, <4>1
    <3>2. p \in B
      BY <1>1, <1>3, <3>1, NodeTypes DEF OnList
    <3>3. p < base
      BY <1>1, <1>3 DEF Linked
    <3>4. p # free_list
      BY <1>1, <3>2, NodeTypes
    <3>5. p + prop[p] <= base /\ p + prop[p] # base
      BY <1>1, <1>2, <1>5, <3>2, <3>3, <3>4
    <3>6. /\ p \in Int /\ b \in Int /\ base \in Int
          /\ prop[p] \in Int /\ prop[b] \in Int /\ prop[p] > 0
      <4>1. base \in B
        BY <1>1
      <4>2. prop[p] \in 1..NPAGES /\ prop[b] \in 1..NPAGES
        BY <1>2, <3>2
      <4> HIDE DEF f, g, new
      <4> QED  BY <1>2, <3>2, <4>1, <4>2
    <3>7. CASE b = p
      BY <3>5, <3>6, <3>7
    <3>8. CASE b # p
      <4>1. b < p
        BY <3>1, <3>6, <3>8
      <4>2. b + prop[b] <= p
        BY <1>2, <3>2, <4>1
      <4> QED  BY <3>5, <3>6, <4>2
    <3> QED  BY <3>7, <3>8
  <2>3. \A b, c \in B : b < c /\ b # base => b + prop[b] < c
    BY <2>2
  <2>4. f = Area(f.list, f.property, f.flags, f.base) /\ Freeing(f, F)
    BY <1>1 DEF f
  <2> HIDE DEF g
  <2> QED  BY <1>1, <2>1, <2>3, <2>4 DEF g, f
<1> QED  BY <1>4, <1>5

\* After the merge with the block above none touches another.
LEMMA MergesHigh ==
    ASSUME NEW F, NEW l, NEW prop, NEW B, NEW base, Freeing(Area(l, prop, B, base), F),
           \A b, c \in B : b < c /\ b # base => b + prop[b] < c
    PROVE  LET g == MergeHigh(Area(l, prop, B, base))
           IN  /\ Linked(g.list, g.flags) /\ Parts(F, g.flags, g.property)
               /\ Spaced(g.flags, g.property)
<1> DEFINE p == l.next[base]
           new == [prop EXCEPT ![base] = @ + prop[p]]
           f == Area(l, prop, B, base)
           g == MergeHigh(f)
<1>1. /\ f.list = l /\ f.property = prop /\ f.flags = B /\ f.base = base
      /\ Linked(l, B) /\ Parts(F, B, prop) /\ base \in B /\ B \subseteq Page
  BY DEF Freeing, Area, Parts
<1>2. /\ B \subseteq Int
      /\ \A b \in B : b \in Page /\ prop[b] \in 1..NPAGES
      /\ \A b, c \in B : b < c => b + prop[b] <= c
  BY <1>1, BlockFacts
<1>3. p \in OnList(B) /\ l.prev[p] = base
  BY <1>1, NodeTypes DEF Linked, OnList
<1>4. CASE p # free_list /\ base + prop[base] = p
  <2>1. p \in B
    BY <1>3, <1>4 DEF OnList
  <2>2. /\ Parts(F, B \ {p}, new) /\ base # p /\ new[base] = prop[base] + prop[p]
        /\ \A x \in B : x # base => new[x] = prop[x]
    <3> HIDE DEF p
    <3> QED  BY <1>1, <1>4, <2>1, MergeParts
  <2>3. Linked(list_del(l, p), B \ {p})
    <3> HIDE DEF p
    <3> QED  BY <1>1, <2>1, DelLinked
  <2>4. g.list = list_del(l, p) /\ g.property = new /\ g.flags = B \ {p}
    <3>1. g = Area(list_del(l, p), new, B \ {p}, base)
      <4> HIDE DEF f
      <4> QED  BY <1>1, <1>4 DEF MergeHigh, Area
    <3> HIDE DEF g, new, p, f
    <3> QED  BY <3>1 DEF Area
  <2> HIDE DEF g, new, p
  <2>5. \A b, c \in B \ {p} : b < c => b + new[b] < c
    <3> TAKE b, c \in B \ {p}
    <3> SUFFICES ASSUME b < c PROVE b + new[b] < c
      OBVIOUS
    <3>1. CASE b = base
      <4>1. /\ base \in Int /\ p \in Int /\ c \in Int /\ prop[base] \in Int /\ prop[p] \in Int
            /\ prop[base] > 0 /\ prop[p] > 0
        BY <1>1, <1>2, <2>1
      <4>2. base + prop[base] <= c /\ c # p
        BY <1>1, <1>2, <3>1
      <4>3. p < c
        BY <1>4, <4>1, <4>2
      <4>4. p + prop[p] < c
        BY <2>1, <2>2, <4>3
      <4> QED  BY <1>4, <2>2, <3>1, <4>1, <4>4
    <3>2. CASE b # base
      BY <2>2, <3>2
    <3> QED  BY <3>1, <3>2
  <2> QED  BY <2>2, <2>3, <2>4, <2>5 DEF Spaced, g
<1>5. CASE ~(p # free_list /\ base + prop[base] = p)
  <2>1. g = f
    <3> HIDE DEF f
    <3> QED  BY <1>1, <1>5 DEF MergeHigh
  <2>2. \A c \in B : base < c => base + prop[base] < c
    <3> TAKE c \in B
    <3> SUFFICES ASSUME base < c PROVE base + prop[base] < c
      OBVIOUS
    <3>1. p # free_list /\ p <= c /\ base < p
      BY <1>1 DEF Linked, OnList
    <3>2. p \in B
      BY <1>3, <3>1 DEF OnList
    <3>3. base + prop[base] <= p /\ base + prop[base] # p
      BY <1>1, <1>2, <1>5, <3>1, <3>2
    <3> HIDE DEF p, f, g, new
    <3>4. base \in Int /\ p \in Int /\ c \in Int /\ prop[base] \in Int
      <4>1. base \in B /\ B \subseteq Int
        BY <1>1, <1>2
      <4>2. prop[base] \in 1..NPAGES
        BY <1>2, <4>1
      <4> QED  BY <3>2, <4>1, <4>2
    <3> QED  BY <3>1, <3>3, <3>4
  <2>3. Spaced(B, prop)
    BY <2>2 DEF Spaced
  <2> HIDE DEF g, f
  <2> QED  BY <1>1, <2>1, <2>3 DEF g, f
<1> QED  BY <1>4, <1>5

\* What a free leaves that puts its block at its place.
LEMMA FreeLeaves ==
    ASSUME FitExact, NEW base \in Page, NEW n \in 1..NPAGES, base + n <= NPAGES,
           Run(base, n) \cap Free = {},
           FreePages(base, n), ~appended, ~appended'
    PROVE  LET F == Free \cup Run(base, n)
           IN  /\ Linked(list', PageProperty') /\ Parts(F, PageProperty', property')
               /\ Spaced(PageProperty', property')
<1> DEFINE F == Free \cup Run(base, n)
           B == PageProperty
           prop == [property EXCEPT ![base] = n]
           f == Area(Inserted(base), prop, B \cup {base}, base)
           low == MergeLow(f)
           merged == MergeHigh(low)
<1>1. /\ Parts(Free, B, property) /\ Spaced(B, property) /\ Linked(list, B)
      /\ B \subseteq Page /\ Free \subseteq Page
  BY DEF FitExact, Parts, Free
<1>2. /\ base \notin B /\ Parts(F, B \cup {base}, prop)
      /\ \A b \in B : prop[b] = property[b]
  <2>1. Run(base, n) \cap Free = {} /\ n \in 1..NPAGES /\ base + n <= NPAGES
    OBVIOUS
  <2> HIDE DEF B
  <2> QED  BY <1>1, <2>1, AddParts
<1>3. list_empty(list, free_list) \/ ~(base > NodeAt(PlaceFor(base)))
  BY DEF FreePages
<1>4. Linked(Inserted(base), B \cup {base})
  BY <1>1, <1>2, <1>3, InsertedLinked
<1>5. Freeing(f, F)
  <2> HIDE DEF prop, F, B
  <2> QED  BY <1>2, <1>4 DEF Freeing, Area
<1>6. \A b, c \in B \cup {base} : b < c /\ b # base /\ c # base => b + prop[b] < c
  <2> HIDE DEF prop
  <2> QED  BY <1>1, <1>2 DEF Spaced
<1>7. /\ low = Area(low.list, low.property, low.flags, low.base)
      /\ Freeing(low, F)
      /\ \A b, c \in low.flags : b < c /\ b # low.base => b + low.property[b] < c
  <2> HIDE DEF prop, F, B
  <2> QED  BY <1>5, <1>6, MergesLow
<1>8. /\ list' = merged.list /\ property' = merged.property /\ PageProperty' = merged.flags
  BY DEF FreePages, Area
<1> HIDE DEF low, f, F
<1>9. /\ Linked(merged.list, merged.flags) /\ Parts(F, merged.flags, merged.property)
      /\ Spaced(merged.flags, merged.property)
  <2> DEFINE l2 == low.list
             p2 == low.property
             b2 == low.flags
             e2 == low.base
  <2>1. low = Area(l2, p2, b2, e2)
    BY <1>7
  <2>2. \A b, c \in b2 : b < c /\ b # e2 => b + p2[b] < c
    BY <1>7
  <2> HIDE DEF l2, p2, b2, e2
  <2>3. Freeing(Area(l2, p2, b2, e2), F)
    BY <1>7, <2>1
  <2> QED  BY <2>1, <2>2, <2>3, MergesHigh
<1> HIDE DEF merged
<1> QED  BY <1>8, <1>9 DEF F

-----------------------------------------------------------------------------
(* How many pages are free *)

LEMMA RunSize ==
    ASSUME NEW base \in Int, NEW n \in Nat
    PROVE  IsFiniteSet(Run(base, n)) /\ Cardinality(Run(base, n)) = n
<1>1. base + n - 1 \in Int
  OBVIOUS
<1>2. /\ IsFiniteSet(base..base + n - 1)
      /\ Cardinality(base..base + n - 1) =
           IF base > base + n - 1 THEN 0 ELSE (base + n - 1) - base + 1
  BY <1>1, FS_Interval
<1>3. (IF base > base + n - 1 THEN 0 ELSE (base + n - 1) - base + 1) = n
  OBVIOUS
<1> QED  BY <1>2, <1>3 DEF Run

LEMMA FreeFinite == IsFiniteSet(Free) /\ Free \subseteq Page /\ Cardinality(Free) \in Nat
<1>1. IsFiniteSet(Page)
  BY FS_Interval, FirstFitAssumption DEF Page
<1>2. Free \subseteq Page
  BY DEF Free
<1> QED  BY <1>1, <1>2, FS_Subset, FS_CardinalityType

\* Pages that are taken are counted off, pages that come back are added.
LEMMA CountLess ==
    ASSUME NEW F, IsFiniteSet(F), NEW p \in Int, NEW n \in Nat, Run(p, n) \subseteq F
    PROVE  Cardinality(F \ Run(p, n)) = Cardinality(F) - n /\ n <= Cardinality(F)
<1>1. F \cap Run(p, n) = Run(p, n) /\ Cardinality(Run(p, n)) = n
  BY RunSize
<1>2. Cardinality(F \ Run(p, n)) = Cardinality(F) - n
  <2> DEFINE R == Run(p, n)
  <2> HIDE DEF R
  <2>1. Cardinality(F \ R) = Cardinality(F) - Cardinality(F \cap R)
    BY FS_Difference
  <2> QED  BY <1>1, <2>1 DEF R
<1>3. n <= Cardinality(F)
  BY <1>1, FS_Subset
<1> QED  BY <1>2, <1>3

LEMMA CountMore ==
    ASSUME NEW F, IsFiniteSet(F), NEW p \in Int, NEW n \in Nat, Run(p, n) \cap F = {}
    PROVE  Cardinality(F \cup Run(p, n)) = Cardinality(F) + n
<1>1. IsFiniteSet(Run(p, n)) /\ Cardinality(Run(p, n)) = n
  BY RunSize
<1>2. F \cap Run(p, n) = {} /\ Cardinality({}) = 0 /\ Cardinality(F) \in Nat
  BY FS_EmptySet, FS_CardinalityType
<1> QED  BY <1>1, <1>2, FS_Union

-----------------------------------------------------------------------------
(* The blocks are the maximal free runs *)

\* What the proofs below use of an exact list.
LEMMA ExactFacts ==
    ASSUME FitExact
    PROVE  /\ PageProperty \subseteq Page /\ PageProperty \subseteq Int /\ NPAGES \in Nat
           /\ Linked(list, PageProperty)
           /\ \A b \in PageProperty :
                /\ 0 <= b /\ property[b] \in 1..NPAGES /\ b + property[b] <= NPAGES
                /\ Run(b, property[b]) \subseteq Free /\ b \in Free
                /\ property[b] <= nr_free
           /\ \A b, c \in PageProperty : b < c => b + property[b] < c
           /\ \A p \in Free : \E b \in PageProperty : p \in Run(b, property[b])
           /\ nr_free = Cardinality(Free) /\ nr_free \in 0..NPAGES
<1>1. /\ Parts(Free, PageProperty, property) /\ Spaced(PageProperty, property)
      /\ Linked(list, PageProperty) /\ nr_free = Cardinality(Free)
  BY DEF FitExact
<1>2. /\ PageProperty \subseteq Int /\ NPAGES \in Nat
      /\ \A b \in PageProperty :
           /\ b \in Page /\ 0 <= b /\ property[b] \in 1..NPAGES
           /\ b + property[b] <= NPAGES
           /\ Run(b, property[b]) \subseteq Free /\ b \in Free
      /\ \A p \in Free : \E b \in PageProperty : p \in Run(b, property[b])
  BY <1>1, BlockFacts
<1>3. \A b \in PageProperty : property[b] <= nr_free
  <2> TAKE b \in PageProperty
  <2>1. IsFiniteSet(Free) /\ b \in Int /\ property[b] \in Nat
    BY <1>2, FreeFinite
  <2> QED  BY <1>1, <1>2, <2>1, CountLess
<1>4. nr_free \in 0..NPAGES
  <2>1. Free \in SUBSET Page /\ IsFiniteSet(Page) /\ Cardinality(Page) = NPAGES
    <3>1. Page = Run(0, NPAGES)
      BY <1>2 DEF Page, Run
    <3>2. IsFiniteSet(Run(0, NPAGES)) /\ Cardinality(Run(0, NPAGES)) = NPAGES
      BY <1>2, RunSize
    <3> QED  BY <3>1, <3>2, FreeFinite
  <2>2. Cardinality(Free) <= NPAGES
    BY <2>1, FS_Subset
  <2> QED  BY <1>1, <1>2, <2>2, FreeFinite
<1>5. \A b, c \in PageProperty : b < c => b + property[b] < c
  BY <1>1 DEF Spaced
<1>6. PageProperty \subseteq Page
  BY <1>1 DEF Parts
<1> QED  BY <1>1, <1>2, <1>3, <1>4, <1>5, <1>6

\* Free pages in a row are all in one block.
LEMMA RunInBlock ==
    ASSUME FitExact, NEW p \in Int, NEW n \in Int, n > 0, Run(p, n) \subseteq Free
    PROVE  \E c \in PageProperty : c <= p /\ p + n <= c + property[c]
<1> DEFINE B == PageProperty
<1>1. /\ B \subseteq Int
      /\ \A b \in B : property[b] \in Int /\ b \in Int
      /\ \A b, c \in B : b < c => b + property[b] < c
      /\ \A q \in Free : \E b \in B : q \in Run(b, property[b])
  BY ExactFacts
<1>2. p \in Run(p, n)
  BY DEF Run
<1>3. PICK c \in B : p \in Run(c, property[c])
  BY <1>1, <1>2
<1>4. c <= p /\ p < c + property[c] /\ c \in Int /\ property[c] \in Int
  BY <1>1, <1>3 DEF Run
<1>5. p + n <= c + property[c]
  <2> SUFFICES ASSUME c + property[c] < p + n PROVE FALSE
    BY <1>4
  <2> DEFINE e == c + property[c]
  <2>1. e \in Run(p, n)
    BY <1>4 DEF Run
  <2>2. PICK d \in B : e \in Run(d, property[d])
    BY <1>1, <2>1
  <2>3. d <= e /\ e < d + property[d] /\ d \in Int /\ property[d] \in Int /\ e \in Int
    BY <1>1, <1>4, <2>2 DEF Run
  <2>4. CASE d < c
    <3>1. d + property[d] < c
      BY <1>1, <1>3, <2>4
    <3> QED  BY <1>4, <2>3, <3>1
  <2>5. CASE c < d
    <3>1. c + property[c] < d
      BY <1>1, <1>3, <2>5
    <3> QED  BY <1>4, <2>3, <3>1
  <2>6. CASE c = d
    BY <2>3, <2>6
  <2> QED  BY <1>4, <2>3, <2>4, <2>5, <2>6
<1> QED  BY <1>3, <1>4, <1>5

\* A maximal free run is a block with its length, and the other way round.
LEMMA BlocksAreRuns ==
    ASSUME FitExact, NEW p \in Page, NEW n \in Int, n > 0
    PROVE  IsBlock(p, n) <=> p \in PageProperty /\ property[p] = n
<1> DEFINE B == PageProperty
<1>1. /\ B \subseteq Int /\ p \in Int
      /\ \A b \in B : /\ property[b] \in Int /\ b \in Int /\ property[b] > 0
                      /\ Run(b, property[b]) \subseteq Free
      /\ \A b, c \in B : b < c => b + property[b] < c
      /\ \A q \in Free : \E b \in B : q \in Run(b, property[b])
  BY ExactFacts, NodeTypes
<1>2. ASSUME IsBlock(p, n) PROVE p \in B /\ property[p] = n
  <2>1. PICK c \in B : c <= p /\ p + n <= c + property[c]
    BY <1>1, <1>2, RunInBlock DEF IsBlock
  <2>2. Run(c, property[c]) \subseteq Free /\ c \in Int /\ property[c] \in Int
    BY <1>1
  <2>3. c = p
    <3> SUFFICES ASSUME c < p PROVE FALSE
      BY <1>1, <2>1, <2>2
    <3>1. p - 1 \in Run(c, property[c])
      BY <1>1, <2>1, <2>2 DEF Run
    <3> QED  BY <1>2, <2>2, <3>1 DEF IsBlock
  <2>4. ~(n < property[c])
    <3> SUFFICES ASSUME n < property[c] PROVE FALSE
      OBVIOUS
    <3>1. p + n \in Run(c, property[c])
      BY <1>1, <2>2, <2>3 DEF Run
    <3> QED  BY <1>2, <2>2, <3>1 DEF IsBlock
  <2> QED  BY <2>1, <2>2, <2>3, <2>4
<1>3. ASSUME p \in B, property[p] = n PROVE IsBlock(p, n)
  <2>1. Run(p, n) \subseteq Free
    BY <1>1, <1>3
  <2>2. p - 1 \notin Free
    <3> SUFFICES ASSUME p - 1 \in Free PROVE FALSE
      OBVIOUS
    <3>1. PICK d \in B : p - 1 \in Run(d, property[d])
      BY <1>1
    <3>2. d < p /\ p <= d + property[d]
      BY <1>1, <3>1 DEF Run
    <3>3. d + property[d] < p
      BY <1>1, <1>3, <3>2
    <3> QED  BY <1>1, <3>2, <3>3
  <2>3. p + n \notin Free
    <3> SUFFICES ASSUME p + n \in Free PROVE FALSE
      OBVIOUS
    <3>1. PICK d \in B : p + n \in Run(d, property[d])
      BY <1>1
    <3>2. d <= p + n /\ p + n < d + property[d] /\ d \in Int /\ property[d] \in Int
      BY <1>1, <3>1 DEF Run
    <3>3. CASE d < p
      <4>1. d + property[d] < p
        BY <1>1, <1>3, <3>3
      <4> QED  BY <1>1, <3>2, <4>1
    <3>4. CASE p < d
      <4>1. p + n < d
        BY <1>1, <1>3, <3>4
      <4> QED  BY <1>1, <3>2, <4>1
    <3>5. CASE p = d
      BY <1>1, <1>3, <3>2, <3>5
    <3> QED  BY <1>1, <3>2, <3>3, <3>4, <3>5
  <2> QED  BY <2>1, <2>2, <2>3 DEF IsBlock
<1> QED  BY <1>2, <1>3

\* The invariant says what the run checks.
LEMMA ExactMeans ==
    ASSUME FitInv
    PROVE  ListExact /\ CountExact /\ StopsOnlyAfterAppend
<1> SUFFICES ASSUME ~appended PROVE ListExact /\ CountExact /\ status = "ok"
  BY DEF ListExact, CountExact, StopsOnlyAfterAppend
<1>1. FitExact
  BY DEF FitInv
<1>2. \A p \in Page : p \in PageProperty <=>
        \E n \in 1..NPAGES - p : IsBlock(p, n) /\ property[p] = n
  <2> TAKE p \in Page
  <2>1. ASSUME p \in PageProperty
        PROVE  \E n \in 1..NPAGES - p : IsBlock(p, n) /\ property[p] = n
    <3> DEFINE n == property[p]
    <3>1. n \in 1..NPAGES /\ p + n <= NPAGES /\ p \in Int /\ NPAGES \in Nat
      BY <1>1, <2>1, ExactFacts
    <3> HIDE DEF n
    <3>2. n \in 1..NPAGES - p /\ n \in Int /\ n > 0
      BY <3>1
    <3>3. IsBlock(p, n)
      BY <1>1, <2>1, <3>2, BlocksAreRuns DEF n
    <3> QED  BY <3>2, <3>3 DEF n
  <2>2. ASSUME NEW n \in 1..NPAGES - p, IsBlock(p, n) PROVE p \in PageProperty
    BY <1>1, <2>2, BlocksAreRuns
  <2> QED  BY <2>1, <2>2
<1>3. \A p \in PageProperty \cup {free_list} :
        /\ list.prev[list.next[p]] = p
        /\ list.next[p] \in PageProperty \cup {free_list}
        /\ list.next[p] # free_list => list.next[p] > p
        /\ \A q \in PageProperty : q > p =>
             list.next[p] # free_list /\ list.next[p] <= q
  BY <1>1 DEF FitExact, Linked, OnList
<1>4. \A p \in Free : \E b \in PageProperty : p \in Run(b, property[b])
  BY <1>1, ExactFacts
<1>5. nr_free = Cardinality(Free) /\ status = "ok"
  BY <1>1 DEF FitExact
<1> QED  BY <1>2, <1>3, <1>4, <1>5 DEF ListExact, CountExact

-----------------------------------------------------------------------------
(* Steps *)

\* The list is exact when memory is one block.
LEMMA FitStarts ==
    ASSUME FitInit
    PROVE  FitInv
<1> DEFINE l == [next |-> [x \in Nodes |-> x], prev |-> [x \in Nodes |-> x]]
<1>1. NPAGES \in Nat /\ NPAGES > 0 /\ Page = Run(0, NPAGES) /\ 0 \in Page
  BY FirstFitAssumption DEF Page, Run
<1>2. Linked(l, {})
  BY NodeTypes DEF Linked, OnList
<1>3. Linked(list, {0})
  <2>1. list = __list_add(l, 0, free_list, l.next[free_list])
    BY DEF FitInit, list_add
  <2>2. free_list \in OnList({}) /\ free_list < 0 /\ l.next[free_list] = free_list
    BY <1>1, NodeTypes DEF OnList
  <2>3. {} \cup {0} = {0} /\ {} \subseteq Page /\ 0 \notin {}
    OBVIOUS
  <2> HIDE DEF l
  <2>4. Linked(__list_add(l, 0, free_list, l.next[free_list]), {} \cup {0})
    BY <1>1, <1>2, <2>2, <2>3, AddLinked
  <2> QED  BY <2>1, <2>3, <2>4
<1>4. Free = Page
  BY DEF FitInit, Free
<1>5. Parts(Page, {0}, property)
  <2>1. property \in [Page -> 0..NPAGES] /\ property[0] = NPAGES
    BY <1>1 DEF FitInit
  <2>2. {0} \subseteq Page /\ \A b, c \in {0} : ~(b < c)
    BY <1>1
  <2> QED  BY <1>1, <2>1, <2>2 DEF Parts
<1>6. Spaced({0}, property)
  BY DEF Spaced
<1>7. nr_free = Cardinality(Free)
  <2>1. Cardinality(Run(0, NPAGES)) = NPAGES
    BY <1>1, RunSize
  <2> QED  BY <1>1, <1>4, <2>1 DEF FitInit
<1>8. /\ held \in [Page -> 0..1] /\ status = "ok" /\ PageProperty = {0}
      /\ appended \in BOOLEAN
  <2>1. held = [p \in Page |-> 0] /\ status = "ok" /\ PageProperty = {0} /\ appended = FALSE
    BY DEF FitInit
  <2>2. held \in [Page -> 0..1]
    BY <2>1
  <2> QED  BY <2>1, <2>2
<1> QED  BY <1>3, <1>4, <1>5, <1>6, <1>7, <1>8 DEF FitInv, FitExact

\* A block that is large enough is taken.
LEMMA TakeKeeps ==
    ASSUME FitExact, NEW page \in PageProperty, NEW n \in 1..NPAGES,
           property[page] >= n, Take(page, n), status' = status,
           held' = [p \in Page |-> IF p \in Run(page, n) THEN held[p] + 1 ELSE held[p]]
    PROVE  FitExact'
<1> DEFINE F == Free
           G == Free \ Run(page, n)
<1>1. /\ page \in Int /\ n \in Nat /\ NPAGES \in Nat /\ property[page] \in Int
      /\ Run(page, property[page]) \subseteq Free
  BY ExactFacts
<1>2. Run(page, n) \subseteq Free
  BY <1>1 DEF Run
<1>3. held \in [Page -> 0..1] /\ Free \subseteq Page /\ status = "ok"
  BY DEF FitExact, Free
<1>4. \A p \in Free : held[p] = 0
  BY DEF Free
<1>5. held' \in [Page -> 0..1]
  BY <1>2, <1>3, <1>4
<1>6. Free' = G
  BY <1>2, <1>3, <1>4 DEF Free
<1>7. nr_free' = Cardinality(G)
  <2>1. Cardinality(Free \ Run(page, n)) = Cardinality(Free) - n
    BY <1>1, <1>2, FreeFinite, CountLess
  <2>2. nr_free' = nr_free - n
    BY DEF Take
  <2> QED  BY <2>1, <2>2 DEF FitExact
<1>8. /\ Linked(list', PageProperty') /\ Parts(G, PageProperty', property')
      /\ Spaced(PageProperty', property')
  BY TakeLeaves
<1> HIDE DEF G
<1> QED  BY <1>3, <1>5, <1>6, <1>7, <1>8 DEF FitExact

\* A free keeps the list exact unless it appends.
LEMMA FreeKeeps ==
    ASSUME FitInv, NEW n \in 1..NPAGES, NEW base \in 0..NPAGES - n, FreePages(base, n)
    PROVE  FitInv'
<1>1. appended' \in BOOLEAN /\ (~appended' => ~appended)
  BY DEF FreePages, FitInv
<1> SUFFICES ASSUME ~appended' PROVE FitExact'
  BY <1>1 DEF FitInv
<1>2. FitExact /\ ~appended
  BY <1>1 DEF FitInv
<1> DEFINE F == Free \cup Run(base, n)
<1>3. /\ base \in Page /\ base \in Int /\ n \in Nat /\ base + n <= NPAGES
      /\ Run(base, n) \subseteq Page
  BY FirstFitAssumption DEF Page, Run
<1>4. /\ held \in [Page -> 0..1] /\ Free \subseteq Page /\ status = "ok"
      /\ \A p \in Free : held[p] = 0
  BY <1>2 DEF FitExact, Free
<1>5. /\ \A p \in Run(base, n) : held[p] > 0
      /\ held' = [p \in Page |-> IF p \in Run(base, n) THEN held[p] - 1 ELSE held[p]]
      /\ nr_free' = nr_free + n /\ status' = status
  BY DEF FreePages
<1>6. Run(base, n) \cap Free = {}
  BY <1>4, <1>5
<1>7. \A p \in Run(base, n) : held[p] = 1
  <2> TAKE p \in Run(base, n)
  <2>1. held[p] \in 0..1 /\ held[p] > 0
    BY <1>3, <1>4, <1>5
  <2> QED  BY <2>1
<1>8. held' \in [Page -> 0..1]
  BY <1>4, <1>5, <1>7
<1>9. Free' = F
  <2>1. \A p \in Page : held'[p] = 0 <=> held[p] = 0 \/ p \in Run(base, n)
    BY <1>4, <1>5, <1>7
  <2> QED  BY <1>3, <2>1 DEF Free
<1>10. nr_free' = Cardinality(F)
  <2>1. Cardinality(Free \cup Run(base, n)) = Cardinality(Free) + n
    BY <1>3, <1>6, FreeFinite, CountMore
  <2> QED  BY <1>2, <1>5, <2>1 DEF FitExact
<1>11. /\ Linked(list', PageProperty') /\ Parts(F, PageProperty', property')
       /\ Spaced(PageProperty', property')
  BY <1>2, <1>3, <1>6, FreeLeaves
<1> HIDE DEF F
<1> QED  BY <1>4, <1>5, <1>8, <1>9, <1>10, <1>11 DEF FitExact

\* A free neither meets a page that is marked free nor walks in a circle.
LEMMA FreeNeverStops ==
    ASSUME FitInv, NEW n \in 1..NPAGES, NEW base \in 0..NPAGES - n, FreeStops(base, n)
    PROVE  FitInv'
<1>1. appended' = appended
  BY DEF FreeStops
<1> SUFFICES ASSUME ~appended PROVE FALSE
  BY <1>1 DEF FitInv
<1>2. FitExact
  BY DEF FitInv
<1>3. /\ base \in Page /\ Run(base, n) \subseteq Page /\ base \in Run(base, n)
  BY FirstFitAssumption DEF Page, Run
<1>4. /\ held \in [Page -> 0..1] /\ PageProperty \subseteq Page /\ PageProperty \subseteq Free
      /\ Linked(list, PageProperty) /\ \A p \in Free : held[p] = 0
  BY <1>2, ExactFacts DEF FitExact, Free
<1>5. Run(base, n) \cap PageProperty = {}
  BY <1>4 DEF FreeStops
<1>6. ~list_empty(list, free_list) /\ PlaceFor(base) = 0
  BY <1>5 DEF FreeStops
<1>7. PageProperty # {} /\ base \notin PageProperty
  BY <1>3, <1>4, <1>5, <1>6, EmptyList
<1> QED  BY <1>3, <1>4, <1>6, <1>7, PlaceFound

\* First fit gives out the lowest block that is large enough.
LEMMA FirstPlace ==
    ASSUME FitExact, NEW n \in 1..NPAGES
    PROVE  LET x == NodeAt(SearchFor(n))
           IN  /\ SearchFor(n) # 0
               /\ \/ x = free_list /\ \A b \in PageProperty : ~(property[b] >= n)
                  \/ /\ x \in PageProperty /\ property[x] >= n
                     /\ \A b \in PageProperty : b < x => ~(property[b] >= n)
<1>1. PageProperty \subseteq Page /\ Linked(list, PageProperty)
  BY ExactFacts
<1> QED  BY <1>1, SearchFinds

\* The steps of first fit.
LEMMA AllocKeeps ==
    ASSUME FitInv, NEW n \in 1..NPAGES, Alloc(n)
    PROVE  FitInv'
<1>1. appended' = appended /\ status' = status
  BY DEF Alloc
<1> SUFFICES ASSUME ~appended PROVE FitExact'
  BY <1>1 DEF FitInv
<1> DEFINE x == NodeAt(SearchFor(n))
<1>2. FitExact
  BY DEF FitInv
<1>3. x \in PageProperty /\ property[x] >= n
  BY <1>2, FirstPlace DEF Alloc
<1>4. /\ Take(x, n)
      /\ held' = [p \in Page |-> IF p \in Run(x, n) THEN held[p] + 1 ELSE held[p]]
  BY DEF Alloc
<1> HIDE DEF x
<1> QED  BY <1>1, <1>2, <1>3, <1>4, TakeKeeps

LEMMA AllocNeverHangs ==
    ASSUME FitInv, NEW n \in 1..NPAGES, AllocHangs(n)
    PROVE  FitInv'
<1>1. appended' = appended /\ SearchFor(n) = 0
  BY DEF AllocHangs
<1> SUFFICES ASSUME ~appended PROVE FALSE
  BY <1>1 DEF FitInv
<1>2. FitExact
  BY DEF FitInv
<1> QED  BY <1>1, <1>2, FirstPlace

LEMMA FitStutters ==
    ASSUME FitInv, UNCHANGED fitvars
    PROVE  FitInv'
BY DEF FitInv, FitExact, fitvars, Free, Parts, Linked, Spaced

LEMMA FitStep ==
    ASSUME FitInv, [FitNext]_fitvars
    PROVE  FitInv'
<1>1. ASSUME NEW n \in 1..NPAGES, Alloc(n) PROVE FitInv'
  BY <1>1, AllocKeeps
<1>2. ASSUME NEW n \in 1..NPAGES, AllocFails(n) PROVE FitInv'
  BY <1>2, FitStutters DEF AllocFails
<1>3. ASSUME NEW n \in 1..NPAGES, AllocHangs(n) PROVE FitInv'
  BY <1>3, AllocNeverHangs
<1>4. ASSUME NEW n \in 1..NPAGES, NEW base \in 0..NPAGES - n, FreePages(base, n)
      PROVE  FitInv'
  BY <1>4, FreeKeeps
<1>5. ASSUME NEW n \in 1..NPAGES, NEW base \in 0..NPAGES - n, FreeStops(base, n)
      PROVE  FitInv'
  BY <1>5, FreeNeverStops
<1>6. ASSUME UNCHANGED fitvars PROVE FitInv'
  BY <1>6, FitStutters
<1> QED  BY <1>1, <1>2, <1>3, <1>4, <1>5, <1>6 DEF FitNext

-----------------------------------------------------------------------------
(* First fit *)

\* What first fit gives out is the lowest run of free pages that is long enough.
LEMMA FirstFitsRight ==
    ASSUME FitInv
    PROVE  LowestFit
<1> SUFFICES ASSUME NEW n \in 1..NPAGES, Alloc(n), ~appended
             PROVE  LET page == CHOOSE p \in Page : p = NodeAt(SearchFor(n))
                    IN  /\ Run(page, n) \subseteq Free
                        /\ \A p \in 0..page - 1 : ~(Run(p, n) \subseteq Free)
  BY DEF LowestFit
<1> DEFINE x == NodeAt(SearchFor(n))
           page == CHOOSE p \in Page : p = x
<1>1. FitExact
  BY DEF FitInv
<1>2. /\ x \in PageProperty /\ property[x] >= n
      /\ \A b \in PageProperty : b < x => ~(property[b] >= n)
  BY <1>1, FirstPlace DEF Alloc
<1>3. /\ PageProperty \subseteq Page /\ PageProperty \subseteq Int /\ n \in Int /\ n > 0
      /\ \A b \in PageProperty : property[b] \in Int
      /\ Run(x, property[x]) \subseteq Free
  BY <1>1, <1>2, ExactFacts
<1> HIDE DEF x
<1>4. page = x
  BY <1>2, <1>3
<1>5. Run(x, n) \subseteq Free
  BY <1>2, <1>3 DEF Run
<1>6. \A p \in 0..x - 1 : ~(Run(p, n) \subseteq Free)
  <2> TAKE p \in 0..x - 1
  <2> SUFFICES ASSUME Run(p, n) \subseteq Free PROVE FALSE
    OBVIOUS
  <2>1. PICK c \in PageProperty : c <= p /\ p + n <= c + property[c]
    BY <1>1, <1>3, RunInBlock
  <2>2. c < x /\ property[c] >= n
    BY <1>2, <1>3, <2>1
  <2> QED  BY <1>2, <2>1, <2>2
<1> HIDE DEF page
<1> QED  BY <1>4, <1>5, <1>6 DEF page, x

\* A run of free pages that is long enough is part of a block that is.
LEMMA RoomFor ==
    ASSUME FitExact, NEW n \in 1..NPAGES,
           NEW p \in 0..NPAGES - n, Run(p, n) \subseteq Free
    PROVE  n <= nr_free /\ \E c \in PageProperty : property[c] >= n
<1>1. n \in Int /\ n > 0 /\ p \in Int /\ NPAGES \in Nat
  BY FirstFitAssumption
<1>2. PICK c \in PageProperty : c <= p /\ p + n <= c + property[c]
  BY <1>1, RunInBlock
<1>3. /\ property[c] \in Int /\ c \in Int /\ property[c] <= nr_free /\ nr_free \in Int
  BY <1>2, ExactFacts
<1> QED  BY <1>1, <1>2, <1>3

LEMMA FirstFull ==
    ASSUME FitInv
    PROVE  FirstFailsOnlyWhenFull
<1> SUFFICES ASSUME ~appended, NEW n \in 1..NPAGES,
                    NEW p \in 0..NPAGES - n, Run(p, n) \subseteq Free
             PROVE  n <= nr_free /\ SearchFor(n) # 0 /\ NodeAt(SearchFor(n)) # free_list
  BY DEF FirstFailsOnlyWhenFull
<1>1. FitExact
  BY DEF FitInv
<1>2. n <= nr_free /\ \E c \in PageProperty : property[c] >= n
  BY <1>1, RoomFor
<1>3. PageProperty \subseteq Page
  BY <1>1, ExactFacts
<1> QED  BY <1>1, <1>2, <1>3, FirstPlace, NodeTypes

LEMMA FitTyped ==
    ASSUME FitInv, ~appended
    PROVE  FitTypeOK /\ NoPageTwice
<1>1. FitExact /\ appended \in BOOLEAN
  BY DEF FitInv
<1>2. nr_free \in 0..NPAGES
  BY <1>1, ExactFacts
<1>3. /\ held \in [Page -> 0..1] /\ status = "ok" /\ PageProperty \subseteq Page
      /\ property \in [Page -> 0..NPAGES]
      /\ list \in [next : [Nodes -> Nodes], prev : [Nodes -> Nodes]]
  BY <1>1 DEF FitExact, Linked, Parts
<1>4. NoPageTwice
  BY <1>3 DEF NoPageTwice
<1> QED  BY <1>1, <1>2, <1>3, <1>4 DEF FitTypeOK

\* The first-fit allocator of lab 8, for any number of pages and any sequence of
\* calls. Until a block is put behind the last of the list, the list is the free
\* memory: its maximal free runs, in ascending order, with their lengths and
\* flags and with links that agree; nr_free counts the free pages; no page is
\* handed out twice; no loop and no assert stops the kernel; and alloc_pages
\* fails only if there are not that many free pages in a row.
THEOREM FirstFitExact ==
    FitSpec => []( /\ ListExact /\ CountExact /\ StopsOnlyAfterAppend
                   /\ FirstFailsOnlyWhenFull /\ (~appended => FitTypeOK /\ NoPageTwice) )
<1>1. FitInit => FitInv
  BY FitStarts
<1>2. FitInv /\ [FitNext]_fitvars => FitInv'
  BY FitStep
<1>3. FitInv => /\ ListExact /\ CountExact /\ StopsOnlyAfterAppend
                /\ FirstFailsOnlyWhenFull /\ (~appended => FitTypeOK /\ NoPageTwice)
  BY ExactMeans, FirstFull, FitTyped
<1> QED  BY <1>1, <1>2, <1>3, PTL DEF FitSpec

\* First fit at its word: alloc_pages gives out the lowest run of free pages that
\* is long enough, also one that was freed in pieces.
THEOREM FirstFitLowest == FitSpec => [][LowestFit]_fitvars
<1>1. FitInit => FitInv
  BY FitStarts
<1>2. FitInv /\ [FitNext]_fitvars => FitInv'
  BY FitStep
<1>3. FitInv => LowestFit
  BY FirstFitsRight
<1> QED  BY <1>1, <1>2, <1>3, PTL DEF FitSpec

-----------------------------------------------------------------------------
(* Best fit *)

\* The search of best fit sees every block once.
LEMMA BestWalks ==
    ASSUME FitExact
    PROVE  /\ ListEnds /\ Places \subseteq Nat
           /\ \A k \in Places : NodeAt(k) \in PageProperty
           /\ \A b \in PageProperty : \E k \in Places : NodeAt(k) = b
<1> DEFINE B == PageProperty
           g == Nth(list)
           S == {free_list}
           k == StepsTo(S)
<1>1. B \subseteq Page /\ Linked(list, B)
  BY ExactFacts
<1>2. PICK len : Visits(list, B, len)
  BY <1>1, WalkEnds
<1>3. /\ len \in 0..NPAGES /\ NPAGES \in Nat /\ g[len + 1] = free_list
      /\ list.next \in [Nodes -> Nodes] /\ len + 1 \in 1..NPAGES + 1
      /\ \A i \in 1..len : g[i] \in B
      /\ \A b \in B : \E i \in 1..len : g[i] = b
  BY <1>1, <1>2, FirstFitAssumption DEF Visits, Linked
<1>4. \A i : NodeAt(i) = g[i]
  BY DEF NodeAt
<1>5. k \in 1..len + 1 /\ g[k] = free_list
  <2>1. NodeAt(len + 1) \in S
    BY <1>3, <1>4
  <2> HIDE DEF S
  <2>2. StepsTo(S) \in 1..len + 1 /\ NodeAt(StepsTo(S)) \in S
    BY <1>3, <2>1, StepsFacts
  <2> QED  BY <1>4, <2>2 DEF S
<1>6. free_list \notin B
  BY <1>1, NodeTypes
<1>7. k = len + 1 /\ Places = 1..k - 1 /\ (ListEnds <=> k # 0)
  <2>1. Places = 1..k - 1 /\ (ListEnds <=> k # 0)
    BY DEF Places, ListEnds
  <2> HIDE DEF k, g
  <2>2. ~(k \in 1..len)
    BY <1>3, <1>5, <1>6
  <2> QED  BY <1>3, <1>5, <2>1, <2>2
<1> HIDE DEF k, g
<1>8. Places = 1..len /\ ListEnds
  BY <1>3, <1>7
<1> QED  BY <1>3, <1>4, <1>8

\* What best fit keeps is a shortest block that is large enough, ...
LEMMA BestPlace ==
    ASSUME FitExact, NEW n \in 1..NPAGES, NEW k \in BestAt(n)
    PROVE  /\ NodeAt(k) \in PageProperty /\ property[NodeAt(k)] >= n
           /\ \A b \in PageProperty :
                property[b] >= n => property[NodeAt(k)] <= property[b]
<1>1. k \in LargeAt(n)
  BY DEF BestAt
<1>2. NodeAt(k) \in PageProperty /\ property[NodeAt(k)] >= n
  BY <1>1, BestWalks DEF LargeAt
<1>3. ASSUME NEW b \in PageProperty, property[b] >= n
      PROVE  property[NodeAt(k)] <= property[b]
  <2>1. PICK j \in Places : NodeAt(j) = b
    BY BestWalks
  <2>2. j \in LargeAt(n)
    BY <1>3, <2>1 DEF LargeAt
  <2>3. property[NodeAt(k)] < property[b] \/ property[NodeAt(k)] = property[b]
    BY <2>1, <2>2 DEF BestAt
  <2>4. property[NodeAt(k)] \in Int /\ property[b] \in Int
    BY <1>2, ExactFacts
  <2> QED  BY <2>3, <2>4
<1> QED  BY <1>2, <1>3

\* ... and it keeps one if there is one.
LEMMA BestExists ==
    ASSUME FitExact, NEW n \in 1..NPAGES, NEW c \in PageProperty, property[c] >= n
    PROVE  BestAt(n) # {}
<1> DEFINE len(k) == property[NodeAt(k)]
           L == LargeAt(n)
           T == {len(k) : k \in L}
<1>1. /\ L \subseteq Nat
      /\ \A k \in L : len(k) \in Nat /\ len(k) <= nr_free
  <2>1. L \subseteq Places
    BY DEF LargeAt
  <2>2. \A b \in PageProperty : property[b] \in Nat /\ property[b] <= nr_free
    BY ExactFacts
  <2> QED  BY <2>1, <2>2, BestWalks
<1>2. L # {}
  BY BestWalks DEF LargeAt
<1> HIDE DEF L, len
<1>3. T \subseteq Nat /\ T # {}
  BY <1>1, <1>2
<1>4. PICK m \in T : \A t \in T : m <= t
  <2> HIDE DEF T
  <2> QED  BY <1>3, Least
<1> DEFINE U == {k \in L : len(k) = m}
<1>5. U \subseteq Nat /\ U # {}
  BY <1>1, <1>4
<1>6. PICK k \in U : \A j \in U : k <= j
  <2> HIDE DEF U
  <2> QED  BY <1>5, Least
<1>7. k \in L /\ len(k) <= nr_free
  BY <1>1, <1>6
<1>8. \A j \in L : len(k) < len(j) \/ (len(k) = len(j) /\ k <= j)
  <2> TAKE j \in L
  <2>1. len(k) <= len(j) /\ len(k) \in Nat /\ len(j) \in Nat
    BY <1>1, <1>4, <1>6
  <2>2. len(k) = len(j) => k <= j
    BY <1>6
  <2> QED  BY <2>1, <2>2
<1>9. k \in BestAt(n)
  BY <1>7, <1>8 DEF BestAt, L, len
<1> QED  BY <1>9

\* The steps of best fit.
LEMMA BestAllocKeeps ==
    ASSUME FitInv, NEW n \in 1..NPAGES, BestAlloc(n)
    PROVE  FitInv'
<1>1. appended' = appended /\ status' = status
  BY DEF BestAlloc
<1> SUFFICES ASSUME ~appended PROVE FitExact'
  BY <1>1 DEF FitInv
<1>2. FitExact
  BY DEF FitInv
<1>3. PICK k \in BestAt(n) :
        /\ Take(NodeAt(k), n)
        /\ held' = [p \in Page |-> IF p \in Run(NodeAt(k), n) THEN held[p] + 1
                                   ELSE held[p]]
  BY DEF BestAlloc
<1>4. NodeAt(k) \in PageProperty /\ property[NodeAt(k)] >= n
  BY <1>2, BestPlace
<1> DEFINE x == NodeAt(k)
<1>5. /\ x \in PageProperty /\ property[x] >= n /\ Take(x, n)
      /\ held' = [p \in Page |-> IF p \in Run(x, n) THEN held[p] + 1 ELSE held[p]]
  BY <1>3, <1>4
<1> HIDE DEF x
<1> QED  BY <1>1, <1>2, <1>5, TakeKeeps

LEMMA BestStep ==
    ASSUME FitInv, [BestNext]_fitvars
    PROVE  FitInv'
<1>1. ASSUME NEW n \in 1..NPAGES, BestAlloc(n) PROVE FitInv'
  BY <1>1, BestAllocKeeps
<1>2. ASSUME NEW n \in 1..NPAGES, BestAllocFails(n) PROVE FitInv'
  BY <1>2, FitStutters DEF BestAllocFails
<1>3. ASSUME NEW n \in 1..NPAGES, BestAllocHangs(n) PROVE FitInv'
  <2>1. appended' = appended /\ ~ListEnds
    BY <1>3 DEF BestAllocHangs
  <2>2. ~appended => FALSE
    BY <2>1, BestWalks DEF FitInv
  <2> QED  BY <2>1, <2>2 DEF FitInv
<1>4. ASSUME NEW n \in 1..NPAGES, NEW base \in 0..NPAGES - n, BestFree(base, n)
      PROVE  FitInv'
  BY <1>4, FreeKeeps DEF BestFree
<1>5. ASSUME NEW n \in 1..NPAGES, NEW base \in 0..NPAGES - n, BestFreeStops(base, n)
      PROVE  FitInv'
  BY <1>5, FreeNeverStops DEF BestFreeStops
<1>6. ASSUME UNCHANGED fitvars PROVE FitInv'
  BY <1>6, FitStutters
<1> QED  BY <1>1, <1>2, <1>3, <1>4, <1>5, <1>6 DEF BestNext

\* What best fit gives out is the start of a shortest block that is long enough.
LEMMA BestFitsRight ==
    ASSUME FitInv
    PROVE  ShortestFit
<1> SUFFICES ASSUME NEW n \in 1..NPAGES, BestAlloc(n), ~appended
             PROVE  \E page \in Page, m \in n..NPAGES :
                      /\ page + m <= NPAGES /\ IsBlock(page, m)
                      /\ \A p \in Run(page, n) : held'[p] = held[p] + 1
                      /\ \A q \in Page, l \in n..NPAGES :
                           q + l <= NPAGES /\ IsBlock(q, l) => m <= l
  BY DEF ShortestFit
<1>1. FitExact
  BY DEF FitInv
<1>2. PICK k \in BestAt(n) :
        held' = [p \in Page |-> IF p \in Run(NodeAt(k), n) THEN held[p] + 1
                                ELSE held[p]]
  BY DEF BestAlloc
<1> DEFINE page == NodeAt(k)
           m == property[page]
<1>3. /\ page \in PageProperty /\ m >= n
      /\ \A b \in PageProperty : property[b] >= n => m <= property[b]
  BY <1>1, BestPlace
<1>4. held' = [p \in Page |-> IF p \in Run(page, n) THEN held[p] + 1 ELSE held[p]]
  BY <1>2
<1> HIDE DEF page
<1>5. /\ page \in Page /\ page \in Int /\ m \in 1..NPAGES /\ page + m <= NPAGES
      /\ n \in Int /\ n > 0 /\ NPAGES \in Nat /\ 0 <= page
      /\ Run(page, m) \subseteq Free /\ Free \subseteq Page
  BY <1>1, <1>3, ExactFacts, FreeFinite
<1>6. IsBlock(page, m)
  BY <1>1, <1>3, <1>5, BlocksAreRuns
<1>7. \A p \in Run(page, n) : held'[p] = held[p] + 1
  <2>1. Run(page, n) \subseteq Run(page, m)
    BY <1>3, <1>5 DEF Run
  <2> HIDE DEF m
  <2> QED  BY <1>4, <1>5, <2>1
<1>8. \A q \in Page, l \in n..NPAGES : q + l <= NPAGES /\ IsBlock(q, l) => m <= l
  <2> TAKE q \in Page, l \in n..NPAGES
  <2> SUFFICES ASSUME IsBlock(q, l) PROVE m <= l
    OBVIOUS
  <2>1. l \in Int /\ l > 0 /\ l >= n
    BY <1>5
  <2>2. q \in PageProperty /\ property[q] = l
    BY <1>1, <2>1, BlocksAreRuns
  <2> QED  BY <1>3, <2>1, <2>2
<1>9. m \in n..NPAGES
  BY <1>3, <1>5
<1> HIDE DEF m
<1> QED  BY <1>5, <1>6, <1>7, <1>8, <1>9

LEMMA BestFull ==
    ASSUME FitInv
    PROVE  BestFailsOnlyWhenFull
<1> SUFFICES ASSUME ~appended, NEW n \in 1..NPAGES,
                    NEW p \in 0..NPAGES - n, Run(p, n) \subseteq Free
             PROVE  Fits(n)
  BY DEF BestFailsOnlyWhenFull
<1>1. FitExact
  BY DEF FitInv
<1>2. n <= nr_free /\ \E c \in PageProperty : property[c] >= n
  BY <1>1, RoomFor
<1>3. ListEnds /\ BestAt(n) # {}
  BY <1>1, <1>2, BestWalks, BestExists
<1> QED  BY <1>2, <1>3 DEF Fits

\* The best-fit allocator of lab 2, likewise: the free it has from first fit keeps
\* the list exact, and its search through the whole list ends.
THEOREM BestFitExact ==
    BestSpec => []( /\ ListExact /\ CountExact /\ StopsOnlyAfterAppend
                    /\ BestFailsOnlyWhenFull /\ (~appended => FitTypeOK /\ NoPageTwice) )
<1>1. BestInit => FitInv
  BY FitStarts DEF BestInit
<1>2. FitInv /\ [BestNext]_fitvars => FitInv'
  BY BestStep
<1>3. FitInv => /\ ListExact /\ CountExact /\ StopsOnlyAfterAppend
                /\ BestFailsOnlyWhenFull /\ (~appended => FitTypeOK /\ NoPageTwice)
  BY ExactMeans, BestFull, FitTyped
<1> QED  BY <1>1, <1>2, <1>3, PTL DEF BestSpec

\* Best fit at its word: best_fit_alloc_pages serves a request from a shortest
\* maximal run of free pages that is long enough.
THEOREM BestFitShortest == BestSpec => [][ShortestFit]_fitvars
<1>1. BestInit => FitInv
  BY FitStarts DEF BestInit
<1>2. FitInv /\ [BestNext]_fitvars => FitInv'
  BY BestStep
<1>3. FitInv => ShortestFit
  BY BestFitsRight
<1> QED  BY <1>1, <1>2, <1>3, PTL DEF BestSpec

-----------------------------------------------------------------------------
(* Both hand out free memory *)

OfPages == INSTANCE Allocator WITH NCELLS <- NPAGES, taken <- PagesTaken

\* While the list is exact a call hands out pages in a row that nobody has, takes
\* such pages back, or changes nothing of who has what.
HandsOut == ~appended => OfPages!Next \/ UNCHANGED PagesTaken

\* A page is taken or free.
LEMMA TakenFacts ==
    ASSUME held \in [Page -> 0..1]
    PROVE  PagesTaken = Page \ Free /\ Free \subseteq Page
<1>1. \A p \in Page : held[p] > 0 <=> held[p] # 0
  <2> TAKE p \in Page
  <2>1. held[p] \in 0..1
    OBVIOUS
  <2> QED  BY <2>1
<1> QED  BY <1>1 DEF PagesTaken, Free

LEMMA TakeHandsOut ==
    ASSUME FitExact, NEW page \in PageProperty, NEW n \in 1..NPAGES,
           property[page] >= n,
           held' = [p \in Page |-> IF p \in Run(page, n) THEN held[p] + 1 ELSE held[p]]
    PROVE  OfPages!Next
<1> DEFINE T == PagesTaken
           R == Run(page, n)
<1>1. /\ page \in Int /\ 0 <= page /\ n \in Nat /\ NPAGES \in Nat
      /\ property[page] \in Int /\ page + property[page] <= NPAGES
      /\ Run(page, property[page]) \subseteq Free
  BY ExactFacts
<1>2. R \subseteq Free
  BY <1>1 DEF Run
<1>3. held \in [Page -> 0..1] /\ T = Page \ Free /\ Free \subseteq Page
  BY TakenFacts DEF FitExact
<1>4. \A p \in Page : held'[p] > 0 <=> held[p] > 0 \/ p \in R
  <2> TAKE p \in Page
  <2>1. held[p] \in 0..1 /\ (p \in R => held[p] = 0)
    BY <1>2, <1>3 DEF Free
  <2> HIDE DEF R
  <2>2. held'[p] = IF p \in R THEN held[p] + 1 ELSE held[p]
    BY DEF R
  <2> QED  BY <2>1, <2>2
<1>5. T' = T \cup R
  BY <1>2, <1>3, <1>4 DEF PagesTaken
<1>6. R \cap T = {}
  BY <1>2, <1>3
<1>7. n \in 1..NPAGES /\ page \in 0..NPAGES - n
  BY <1>1
<1>8. OfPages!Get(page, n)
  BY <1>5, <1>6 DEF OfPages!Get, Run
<1> QED  BY <1>7, <1>8 DEF OfPages!Next

LEMMA FreeTakesBack ==
    ASSUME FitExact, NEW n \in 1..NPAGES, NEW base \in 0..NPAGES - n, FreePages(base, n)
    PROVE  OfPages!Next
<1> DEFINE T == PagesTaken
           R == Run(base, n)
<1>1. /\ held \in [Page -> 0..1] /\ T = Page \ Free
      /\ \A p \in R : held[p] > 0
      /\ held' = [p \in Page |-> IF p \in R THEN held[p] - 1 ELSE held[p]]
  BY TakenFacts DEF FitExact, FreePages
<1>2. R \subseteq Page
  BY FirstFitAssumption DEF Page, Run
<1>3. R \subseteq T
  BY <1>1, <1>2 DEF PagesTaken
<1>4. \A p \in Page : held'[p] > 0 <=> held[p] > 0 /\ p \notin R
  <2> TAKE p \in Page
  <2>1. held[p] \in 0..1 /\ (p \in R => held[p] > 0)
    BY <1>1
  <2> HIDE DEF R
  <2>2. held'[p] = IF p \in R THEN held[p] - 1 ELSE held[p]
    BY <1>1
  <2> QED  BY <2>1, <2>2
<1>5. T' = T \ R
  BY <1>4 DEF PagesTaken
<1>6. OfPages!Give(base, n)
  BY <1>3, <1>5 DEF OfPages!Give, Run
<1> QED  BY <1>6 DEF OfPages!Next

LEMMA FirstHandsOut ==
    ASSUME FitInv, [FitNext]_fitvars
    PROVE  HandsOut
<1> SUFFICES ASSUME ~appended PROVE OfPages!Next \/ UNCHANGED PagesTaken
  BY DEF HandsOut
<1>1. FitExact
  BY DEF FitInv
<1>2. ASSUME NEW n \in 1..NPAGES, Alloc(n) PROVE OfPages!Next
  <2> DEFINE x == NodeAt(SearchFor(n))
  <2>1. x \in PageProperty /\ property[x] >= n
    BY <1>1, <1>2, FirstPlace DEF Alloc
  <2>2. held' = [p \in Page |-> IF p \in Run(x, n) THEN held[p] + 1 ELSE held[p]]
    BY <1>2 DEF Alloc
  <2> HIDE DEF x
  <2> QED  BY <1>1, <2>1, <2>2, TakeHandsOut
<1>3. ASSUME NEW n \in 1..NPAGES, NEW base \in 0..NPAGES - n, FreePages(base, n)
      PROVE  OfPages!Next
  BY <1>1, <1>3, FreeTakesBack
<1>4. ASSUME held' = held PROVE UNCHANGED PagesTaken
  BY <1>4 DEF PagesTaken
<1>5. ASSUME NEW n \in 1..NPAGES, AllocFails(n) \/ AllocHangs(n) PROVE held' = held
  BY <1>5 DEF AllocFails, AllocHangs, fitvars
<1>6. ASSUME NEW n \in 1..NPAGES, NEW base \in 0..NPAGES - n, FreeStops(base, n)
      PROVE  held' = held
  BY <1>6 DEF FreeStops
<1>7. ASSUME UNCHANGED fitvars PROVE held' = held
  BY <1>7 DEF fitvars
<1> QED  BY <1>2, <1>3, <1>4, <1>5, <1>6, <1>7 DEF FitNext

LEMMA BestHandsOut ==
    ASSUME FitInv, [BestNext]_fitvars
    PROVE  HandsOut
<1> SUFFICES ASSUME ~appended PROVE OfPages!Next \/ UNCHANGED PagesTaken
  BY DEF HandsOut
<1>1. FitExact
  BY DEF FitInv
<1>2. ASSUME NEW n \in 1..NPAGES, BestAlloc(n) PROVE OfPages!Next
  <2>1. PICK k \in BestAt(n) :
          held' = [p \in Page |-> IF p \in Run(NodeAt(k), n) THEN held[p] + 1
                                  ELSE held[p]]
    BY <1>2 DEF BestAlloc
  <2> DEFINE x == NodeAt(k)
  <2>2. x \in PageProperty /\ property[x] >= n
    BY <1>1, BestPlace
  <2>3. held' = [p \in Page |-> IF p \in Run(x, n) THEN held[p] + 1 ELSE held[p]]
    BY <2>1
  <2> HIDE DEF x
  <2> QED  BY <1>1, <2>2, <2>3, TakeHandsOut
<1>3. ASSUME NEW n \in 1..NPAGES, NEW base \in 0..NPAGES - n, BestFree(base, n)
      PROVE  OfPages!Next
  BY <1>1, <1>3, FreeTakesBack DEF BestFree
<1>4. ASSUME held' = held PROVE UNCHANGED PagesTaken
  BY <1>4 DEF PagesTaken
<1>5. ASSUME NEW n \in 1..NPAGES, BestAllocFails(n) \/ BestAllocHangs(n)
      PROVE  held' = held
  BY <1>5 DEF BestAllocFails, BestAllocHangs, fitvars
<1>6. ASSUME NEW n \in 1..NPAGES, NEW base \in 0..NPAGES - n, BestFreeStops(base, n)
      PROVE  held' = held
  BY <1>6 DEF BestFreeStops, FreeStops
<1>7. ASSUME UNCHANGED fitvars PROVE held' = held
  BY <1>7 DEF fitvars
<1> QED  BY <1>2, <1>3, <1>4, <1>5, <1>6, <1>7 DEF BestNext

\* Until a block is appended every call of alloc and free is one of Allocator, or
\* changes nothing of who has what: first fit ...
THEOREM FirstFitHandsOut == FitSpec => [][HandsOut]_fitvars
<1>1. FitInit => FitInv
  BY FitStarts
<1>2. FitInv /\ [FitNext]_fitvars => FitInv'
  BY FitStep
<1>3. FitInv /\ [FitNext]_fitvars => HandsOut
  BY FirstHandsOut
<1> QED  BY <1>1, <1>2, <1>3, PTL DEF FitSpec

\* ... and best fit.
THEOREM BestFitHandsOut == BestSpec => [][HandsOut]_fitvars
<1>1. BestInit => FitInv
  BY FitStarts DEF BestInit
<1>2. FitInv /\ [BestNext]_fitvars => FitInv'
  BY BestStep
<1>3. FitInv /\ [BestNext]_fitvars => HandsOut
  BY BestHandsOut
<1> QED  BY <1>1, <1>2, <1>3, PTL DEF BestSpec

-----------------------------------------------------------------------------
(* Either fit *)

FitPart == part \in {"first", "best"} /\ FitInv

\* Whichever of the two the kernel is built with takes what its name promises:
\* the lowest place, or a shortest block.
THEOREM FitsRightAlways == EitherSpec => FitsRight
<1>1. EitherInit => FitPart
  BY FitStarts DEF EitherInit, FitPart
<1>2. FitPart /\ [EitherNext]_<< part, fitvars >> => FitPart'
  <2> SUFFICES ASSUME FitPart, [EitherNext]_<< part, fitvars >> PROVE FitPart'
    OBVIOUS
  <2>1. part' = part
    BY DEF EitherNext
  <2>2. FitNext \/ BestNext \/ UNCHANGED fitvars
    BY DEF EitherNext
  <2>3. FitInv'
    BY <2>2, FitStep, BestStep, FitStutters DEF FitPart
  <2> QED  BY <2>1, <2>3 DEF FitPart
<1>3. FitPart => (part = "first" => LowestFit) /\ (part = "best" => ShortestFit)
  BY FirstFitsRight, BestFitsRight DEF FitPart
<1> QED  BY <1>1, <1>2, <1>3, PTL DEF EitherSpec, FitsRight
=============================================================================
