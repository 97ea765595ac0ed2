---------------------------- MODULE MCAllocators ----------------------------
(***************************************************************************)
(* Every allocator of the labs on a small memory. A behaviour is about one *)
(* of them:                                                                *)
(*   first, best      eight pages, until a block is put at the end of the  *)
(*                    list                                                 *)
(*   first3, best3    three pages, wherever the calls lead                 *)
(*   buddy            nine pages, which are no power of two                *)
(*   heap             the SLOB heap with three pages of five units; one    *)
(*                    size is a byte more than two pages                   *)
(*   slub             three pages, and sizes on both sides of a limit      *)
(***************************************************************************)
EXTENDS EitherFit

\* Those of the fits stand for what is like them in the others: list for their
\* links or lists of free blocks, property for lengths of blocks.
VARIABLES
    PageReserved,                                       \* of the buddy allocator
    slobfree, bigblocks, freepages,                     \* of the heap
    slub_free_list, slab_page, partial_slabs, full_slabs

First3 == INSTANCE FirstFit WITH NPAGES <- 3
Best3  == INSTANCE BestFit WITH NPAGES <- 3
Buddy  == INSTANCE Buddy WITH
              NPAGES <- 9, BUDDY_MAX_ORDER <- 4, FL <- list, NR_FREE <- nr_free
Slob   == INSTANCE Heap WITH
              NPAGES <- 3, PU <- 5, UNIT <- 2, BIGBLOCK <- 3,
              Sizes <- {1, 5, 6, 8, 11, 21}, next <- list, units <- property
Slub   == INSTANCE Slub WITH
              NPAGES <- 3, Sizes <- {1500, 2048, 2049}, free_list <- list,
              slub_nr_free <- nr_free

OfFit  == << property, PageProperty, nr_free, status >>
OfHeap == << slobfree, bigblocks, freepages >>
OfSlub == << slub_free_list, slab_page, partial_slabs, full_slabs >>
allocatorvars == << part, held, list, OfFit, appended, PageReserved, OfHeap, OfSlub >>

NoHeap == slobfree = 0 /\ bigblocks = {} /\ freepages = {}

NoSlub ==
    slub_free_list = 0 /\ slab_page = 0 /\ partial_slabs = 0 /\ full_slabs = 0

AllocatorsInit ==
    \/ /\ EitherInit
       /\ PageReserved = {} /\ NoHeap /\ NoSlub
    \/ /\ part \in {"first3", "best3"} /\ First3!FitInit
       /\ PageReserved = {} /\ NoHeap /\ NoSlub
    \/ part = "buddy" /\ Buddy!Init /\ appended = FALSE /\ NoHeap /\ NoSlub
    \/ /\ part = "heap" /\ Slob!Init
       /\ PageProperty = {} /\ nr_free = 0 /\ appended = FALSE
       /\ PageReserved = {} /\ NoSlub
    \/ /\ part = "slub" /\ Slub!Init
       /\ property = 0 /\ PageProperty = {} /\ status = "ok" /\ appended = FALSE
       /\ PageReserved = {} /\ NoHeap

FitsNext ==
    \/ EitherNext
    \/ part = "first3" /\ First3!FitNext
    \/ part = "best3" /\ Best3!BestNext

AllocatorsNext ==
    /\ UNCHANGED part
    /\ \/ FitsNext /\ UNCHANGED << PageReserved, OfHeap, OfSlub >>
       \/ part = "buddy" /\ Buddy!Next /\ UNCHANGED << appended, OfHeap, OfSlub >>
       \/ /\ part = "heap" /\ Slob!Next
          /\ UNCHANGED << PageProperty, nr_free, appended, PageReserved, OfSlub >>
       \/ /\ part = "slub" /\ Slub!Next
          /\ UNCHANGED << property, PageProperty, status, appended, PageReserved,
                          OfHeap >>

AllocatorsSpec == AllocatorsInit /\ [][AllocatorsNext]_allocatorvars

\* States that differ only in links or lengths nobody reads are the same.
View ==
    << part, CASE part = "first" -> ListedView
               [] part = "best" -> ListedView
               [] part = "heap" -> Slob!LiveView
               [] OTHER -> << held, list, OfFit, appended, PageReserved, OfSlub >> >>

-----------------------------------------------------------------------------
(* Properties *)

\* What an allocator has of its free memory, in links, lengths, flags and
\* counters, is exact and coalesced after any sequence of calls, and the calls
\* stop neither in a loop nor in an assert; in the two fits, until a block is
\* freed above all others, and in the heap but for the requests of the one size
\* that kmalloc takes for small and slob_alloc does not.
ListsExact ==
    /\ part = "first" => FitTypeOK /\ ListExact /\ CountExact
    /\ part = "best" => FitTypeOK /\ ListExact /\ CountExact
    /\ part \in {"first3", "best3"} => First3!StopsOnlyAfterAppend
    /\ part = "buddy" => /\ Buddy!TypeOK /\ Buddy!ListsExact /\ Buddy!NoBuddiesFree
                         /\ Buddy!CountExact /\ Buddy!AssertsHold
    /\ part = "heap" => Slob!TypeOK /\ Slob!RingExact /\ Slob!FreeEnds
    /\ part = "slub" => Slub!TypeOK /\ Slub!FullAreFull

\* Nothing is lost and nothing is given twice, and a caller has the room it
\* asked for; but for whole pages of kmalloc, which are short by less than a byte
\* a page where find_order rounds down (21 bytes get two pages of ten).
MemoryOnce ==
    /\ part = "buddy" => Buddy!LargeEnough
    /\ part = "heap" => Slob!UnitsOnce /\ Slob!LargeEnough
    /\ part = "slub" => Slub!ObjectsOnce /\ Slub!LargeEnough

\* A request fails only if it cannot be served.
FailsOnlyWhenFull ==
    /\ part = "first" => FirstFailsOnlyWhenFull
    /\ part = "best" => BestFailsOnlyWhenFull
    /\ part = "buddy" => Buddy!FailsOnlyWhenFull
    /\ part = "slub" => Slub!FailsOnlyWhenFull

\* The pages or units in use.
Taken ==
    CASE part \in {"first", "best"} -> PagesTaken
      [] part = "buddy" -> Buddy!Used
      [] part = "heap" -> Slob!Taken
      [] OTHER -> {}

Memory == INSTANCE Allocator WITH NCELLS <- 17, taken <- Taken

\* They implement one abstract allocator: a call hands out a run of memory
\* nobody has, or takes back a run that was handed out. Not slub, whose objects
\* are no runs of pages (Slub!ObjectsOnce), nor the fits after an append.
HandsOutFree == Memory!Spec
=============================================================================
