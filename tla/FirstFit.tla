------------------------------ MODULE FirstFit ------------------------------
(***************************************************************************)
(* The first-fit page allocator lab8/kern/mm/default_pmm.c: its free list  *)
(* with every pointer, the property field that gives the length of a free  *)
(* block, the PG_property flag, and nr_free. alloc_pages and free_pages of *)
(* pmm.c run the operations with interrupts off, so each is one step.      *)
(*                                                                         *)
(* The callers are any that free only pages they were given, in runs of    *)
(* any length: default_check frees a block piece by piece.                 *)
(***************************************************************************)
EXTENDS Lists, Integers, FiniteSets

CONSTANT NPAGES     \* pages page_init finds behind the kernel

ASSUME FirstFitAssumption == NPAGES \in Nat \ {0}

Page == 0..NPAGES - 1

free_list == -1     \* the list head

Nodes == Page \cup {free_list}

VARIABLES
    list,           \* the links of the head and of all pages
    property,       \* length of the free block that starts at the page
    PageProperty,   \* the pages with the flag PG_property
    nr_free,
    held,           \* how often a page has been handed out and not freed
    status,         \* "hang": a loop has no end; "panic": an assert failed
    appended        \* history: a block was put at the end of a non-empty list

fitvars == << list, property, PageProperty, nr_free, held, status, appended >>

Run(base, n) == base..base + n - 1

Free == {p \in Page : held[p] = 0}

-----------------------------------------------------------------------------

\* default_init, then one init_memmap of all the memory. The links of a page
\* that was never listed are not looked at.
FitInit ==
    /\ list = list_add([next |-> [x \in Nodes |-> x], prev |-> [x \in Nodes |-> x]],
                       free_list, 0)
    /\ property = [p \in Page |-> IF p = 0 THEN NPAGES ELSE 0]
    /\ PageProperty = {0}
    /\ nr_free = NPAGES
    /\ held = [p \in Page |-> 0]
    /\ status = "ok"
    /\ appended = FALSE

\* The node a walk along the list reaches after k steps from the head.
Nth(l) ==
    LET nth[k \in 0..NPAGES + 1] ==
          IF k = 0 THEN free_list ELSE l.next[nth[k - 1]]
    IN  nth

\* The number of steps to the first node of S, 0 if a walk never gets to one:
\* after NPAGES + 1 steps it goes round in circles.
StepsTo(S) ==
    LET at == {k \in 1..NPAGES + 1 : Nth(list)[k] \in S}
    IN  IF at = {} THEN 0 ELSE CHOOSE k \in at : \A j \in at : k <= j

NodeAt(k) == Nth(list)[k]

-----------------------------------------------------------------------------
(* default_alloc_pages *)

\* Steps to the block that is taken, or to the head if none is large enough.
SearchFor(n) ==
    StepsTo({free_list} \cup {p \in Page : property[p] >= n})

\* The page leaves the list; what is left of its block takes its place.
Take(page, n) ==
    LET rest == page + n
        left == list_del(list, page)
    IN  /\ IF property[page] > n
             THEN /\ list' = list_add(left, list.prev[page], rest)
                  /\ property' = [property EXCEPT ![rest] = property[page] - n]
                  /\ PageProperty' = (PageProperty \cup {rest}) \ {page}
             ELSE /\ list' = left
                  /\ PageProperty' = PageProperty \ {page}
                  /\ UNCHANGED property
        /\ nr_free' = nr_free - n

Alloc(n) ==
    LET k == SearchFor(n)
    IN  /\ status = "ok"
        /\ n <= nr_free
        /\ k # 0 /\ NodeAt(k) # free_list
        /\ Take(NodeAt(k), n)
        /\ held' = [p \in Page |-> IF p \in Run(NodeAt(k), n) THEN held[p] + 1
                                   ELSE held[p]]
        /\ UNCHANGED << status, appended >>

\* NULL
AllocFails(n) ==
    /\ status = "ok"
    /\ n > nr_free \/ (SearchFor(n) # 0 /\ NodeAt(SearchFor(n)) = free_list)
    /\ UNCHANGED fitvars

AllocHangs(n) ==
    /\ status = "ok"
    /\ n <= nr_free /\ SearchFor(n) = 0
    /\ status' = "hang"
    /\ UNCHANGED << list, property, PageProperty, nr_free, held, appended >>

-----------------------------------------------------------------------------
(* default_free_pages *)

\* Steps to the block behind which the loop stops, or to the last block.
PlaceFor(base) ==
    StepsTo({p \in Page : base < p \/ list.next[p] = free_list})

\* The list with base put in. The loop has no break after the insertion at the
\* end: its next turn looks at base itself, is again at the end, and inserts
\* base behind base.
Inserted(base) ==
    LET x == NodeAt(PlaceFor(base))
    IN  IF list_empty(list, free_list) THEN list_add(list, free_list, base)
        ELSE IF base < x THEN list_add_before(list, x, base)
        ELSE list_add(list_add(list, x, base), base, base)

\* Mutant: the block before the freed one is never merged.
MergeLow_never(f) == f

\* f: the list, the lengths and flags, and the block to merge.
MergeLow(f) ==
    LET p == f.list.prev[f.base]
    IN  IF p # free_list /\ p + f.property[p] = f.base
          THEN [list     |-> list_del(f.list, f.base),
                property |-> [f.property EXCEPT ![p] = @ + f.property[f.base]],
                flags    |-> f.flags \ {f.base},
                base     |-> p]
          ELSE f

MergeHigh(f) ==
    LET p == f.list.next[f.base]
    IN  IF p # free_list /\ f.base + f.property[f.base] = p
          THEN [list     |-> list_del(f.list, p),
                property |-> [f.property EXCEPT ![f.base] = @ + f.property[p]],
                flags    |-> f.flags \ {p},
                base     |-> f.base]
          ELSE f

FreePages(base, n) ==
    LET low    == MergeLow([list     |-> Inserted(base),
                            property |-> [property EXCEPT ![base] = n],
                            flags    |-> PageProperty \cup {base},
                            base     |-> base])
        merged == MergeHigh(low)
        place  == PlaceFor(base)
    IN  /\ status = "ok"
        /\ \A p \in Run(base, n) : held[p] > 0 /\ p \notin PageProperty
        /\ list_empty(list, free_list) \/ place # 0
        /\ list' = merged.list
        /\ property' = merged.property
        /\ PageProperty' = merged.flags
        /\ nr_free' = nr_free + n
        /\ held' = [p \in Page |-> IF p \in Run(base, n) THEN held[p] - 1
                                   ELSE held[p]]
        /\ appended' = (appended \/ (/\ ~list_empty(list, free_list)
                                     /\ base > NodeAt(place)))
        /\ UNCHANGED status

\* A page is marked free already, or the walk along the list never ends.
FreeStops(base, n) ==
    /\ status = "ok"
    /\ \A p \in Run(base, n) : held[p] > 0
    /\ \/ /\ Run(base, n) \cap PageProperty # {}
          /\ status' = "panic"
       \/ /\ Run(base, n) \cap PageProperty = {}
          /\ ~list_empty(list, free_list) /\ PlaceFor(base) = 0
          /\ status' = "hang"
    /\ UNCHANGED << list, property, PageProperty, nr_free, held, appended >>

-----------------------------------------------------------------------------

FitNext ==
    \E n \in 1..NPAGES :
      \/ Alloc(n) \/ AllocFails(n) \/ AllocHangs(n)
      \/ \E base \in 0..NPAGES - n : FreePages(base, n) \/ FreeStops(base, n)

FitSpec == FitInit /\ [][FitNext]_fitvars

-----------------------------------------------------------------------------
(* Properties; LowestFit is about a step *)

FitTypeOK ==
    /\ list \in [next : [Nodes -> Nodes], prev : [Nodes -> Nodes]]
    /\ property \in [Page -> 0..NPAGES]
    /\ PageProperty \subseteq Page
    /\ nr_free \in 0..NPAGES
    /\ held \in [Page -> 0..1]
    /\ status \in {"ok", "hang", "panic"}
    /\ appended \in BOOLEAN

\* A free block: a maximal run of pages that nobody holds.
IsBlock(p, n) ==
    /\ Run(p, n) \subseteq Free
    /\ p - 1 \notin Free /\ p + n \notin Free

\* Until a block is freed above all others the list is exact: it holds the
\* maximal free runs of memory in ascending order, every one with its length
\* and flag, and its links agree in both directions. So what alloc and free do
\* to pointers, lengths and flags always amounts to coalescing at once.
ListExact ==
    ~appended =>
      /\ \A p \in Page : p \in PageProperty <=>
           \E n \in 1..NPAGES - p : IsBlock(p, n) /\ property[p] = n
      /\ \A p \in PageProperty \cup {free_list} :
           /\ list.prev[list.next[p]] = p
           /\ list.next[p] \in PageProperty \cup {free_list}
           /\ list.next[p] # free_list => list.next[p] > p
           /\ \A q \in PageProperty : q > p =>
                list.next[p] # free_list /\ list.next[p] <= q
      /\ \A p \in Free : \E b \in PageProperty : p \in Run(b, property[b])

\* Neither the loops of alloc and free nor their assert stop the kernel before
\* a block has been freed above all others.
StopsOnlyAfterAppend == status # "ok" => appended

\* nr_free, which alloc_pages decides by, is the number of free pages.
CountExact == ~appended => nr_free = Cardinality(Free)

\* First fit, and no failure without need: alloc_pages gives out the lowest
\* run of n pages nobody holds, also when it spans what was freed in pieces.
LowestFit ==
    \A n \in 1..NPAGES : Alloc(n) /\ ~appended =>
      LET page == CHOOSE p \in Page : p = NodeAt(SearchFor(n))
      IN  /\ Run(page, n) \subseteq Free
          /\ \A p \in 0..page - 1 : ~(Run(p, n) \subseteq Free)

\* An allocation fails only if there are no n free pages in a row.
FirstFailsOnlyWhenFull ==
    ~appended => \A n \in 1..NPAGES :
      (\E p \in 0..NPAGES - n : Run(p, n) \subseteq Free) =>
        n <= nr_free /\ SearchFor(n) # 0 /\ NodeAt(SearchFor(n)) # free_list

\* basic_check: pages that are handed out are all different.
NoPageTwice == \A p \in Page : held[p] <= 1

PagesTaken == {p \in Page : held[p] > 0}

\* Until a block is appended the links of a page that starts no free block are
\* written before they are read, so states that differ only in them are the
\* same.
LinksOf(f) == [x \in PageProperty \cup {free_list} |-> f[x]]

ListedView ==
    << held, nr_free, status, appended, LinksOf(list.next), LinksOf(list.prev),
       [p \in PageProperty |-> property[p]] >>
=============================================================================
