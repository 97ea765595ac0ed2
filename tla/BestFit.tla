------------------------------ MODULE BestFit -------------------------------
(***************************************************************************)
(* The best-fit page allocator of lab 2, lab2/kern/mm/best_fit_pmm.c. Its  *)
(* free list, its init and its free are those of the first-fit allocator,  *)
(* statement by statement, the insertion without break included; only the  *)
(* search for a block differs: it always walks the whole list and keeps    *)
(* the smallest block that is large enough, the first of equals.           *)
(***************************************************************************)
EXTENDS FirstFit

BestInit == FitInit

-----------------------------------------------------------------------------
(* best_fit_alloc_pages *)

\* The blocks from the first to the last, by their place in the list; none if
\* the walk never comes back to the head.
Places == 1..StepsTo({free_list}) - 1

LargeAt(n) == {k \in Places : property[NodeAt(k)] >= n}

\* Mutant: the largest block is kept.
BestAt_worst(n) ==
    {k \in LargeAt(n) : \A j \in LargeAt(n) :
       \/ property[NodeAt(k)] > property[NodeAt(j)]
       \/ property[NodeAt(k)] = property[NodeAt(j)] /\ k <= j}

\* min_size starts above nr_free, so a block longer than that is never kept.
BestAt(n) ==
    {k \in LargeAt(n) :
       /\ property[NodeAt(k)] <= nr_free
       /\ \A j \in LargeAt(n) :
            \/ property[NodeAt(k)] < property[NodeAt(j)]
            \/ property[NodeAt(k)] = property[NodeAt(j)] /\ k <= j}

\* The search is sure to end.
ListEnds == StepsTo({free_list}) # 0

Fits(n) == ListEnds /\ n <= nr_free /\ BestAt(n) # {}

BestAlloc(n) ==
    /\ status = "ok" /\ Fits(n)
    /\ \E k \in BestAt(n) :
         /\ Take(NodeAt(k), n)
         /\ held' = [p \in Page |-> IF p \in Run(NodeAt(k), n) THEN held[p] + 1
                                    ELSE held[p]]
    /\ UNCHANGED << status, appended >>

BestAllocFails(n) ==
    /\ status = "ok"
    /\ n > nr_free \/ (ListEnds /\ BestAt(n) = {})
    /\ UNCHANGED fitvars

BestAllocHangs(n) ==
    /\ status = "ok" /\ n <= nr_free /\ ~ListEnds
    /\ status' = "hang"
    /\ UNCHANGED << list, property, PageProperty, nr_free, held, appended >>

-----------------------------------------------------------------------------

BestFree(base, n) == FreePages(base, n)

BestFreeStops(base, n) == FreeStops(base, n)

BestNext ==
    \E n \in 1..NPAGES :
      \/ BestAlloc(n) \/ BestAllocFails(n) \/ BestAllocHangs(n)
      \/ \E base \in 0..NPAGES - n : BestFree(base, n) \/ BestFreeStops(base, n)

BestSpec == BestInit /\ [][BestNext]_fitvars

-----------------------------------------------------------------------------
(* Properties; ShortestFit is about a step *)

\* Best fit, and no failure without need: as long as the list is exact, the
\* block a request is served from is the shortest maximal run of free pages
\* that is long enough, however memory was cut up before.
ShortestFit ==
    \A n \in 1..NPAGES : BestAlloc(n) /\ ~appended =>
      \E page \in Page, m \in n..NPAGES :
        /\ page + m <= NPAGES /\ IsBlock(page, m)
        /\ \A p \in Run(page, n) : held'[p] = held[p] + 1
        /\ \A q \in Page, l \in n..NPAGES :
             q + l <= NPAGES /\ IsBlock(q, l) => m <= l

\* A request fails only if there are not that many free pages in a row.
BestFailsOnlyWhenFull ==
    ~appended => \A n \in 1..NPAGES :
      (\E p \in 0..NPAGES - n : Run(p, n) \subseteq Free) => Fits(n)
=============================================================================
