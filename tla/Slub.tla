-------------------------------- MODULE Slub --------------------------------
(***************************************************************************)
(* The slub allocator of lab 2, lab2/kern/mm/slub.c: ten caches of objects *)
(* of fixed sizes; a cache cuts a page into objects, keeps one list of the *)
(* free objects of all its pages, the current slab, and lists of partial   *)
(* and full slabs. No page ever goes back. Sizes are in bytes.             *)
(*                                                                         *)
(* The list of free pages is only ever cut from the front; as the pages    *)
(* are entered in ascending order and each removal writes the prev of the  *)
(* page behind, it is a sequence although the insertion loop, as in the    *)
(* other allocators, has no break.                                         *)
(***************************************************************************)
EXTENDS Integers, FiniteSets, SequencesExt

CONSTANTS
    NPAGES,         \* pages given to slub_init_memmap
    Sizes           \* sizes callers of slub_alloc ask for

PGSIZE == 4096

OBJECT == 16        \* sizeof(slub_object_t)

POINTER == 8

sizes == << 8, 16, 32, 64, 128, 256, 512, 1024, 1536, 2048 >>

Cache == DOMAIN sizes

Page == 1..NPAGES

NULL == 0

VARIABLES
    slub_free_list, \* the pages no cache has
    slub_nr_free,
    free_list,      \* the free objects of every cache: << page, number >>
    slab_page,      \* its current slab
    partial_slabs,
    full_slabs,
    held            \* {[obj, size]}: objects callers have

vars == << slub_free_list, slub_nr_free, free_list, slab_page, partial_slabs,
           full_slabs, held >>

Init ==
    /\ slub_free_list = [i \in Page |-> i]
    /\ slub_nr_free = NPAGES
    /\ free_list = [c \in Cache |-> << >>]
    /\ slab_page = [c \in Cache |-> NULL]
    /\ partial_slabs = [c \in Cache |-> << >>]
    /\ full_slabs = [c \in Cache |-> << >>]
    /\ held = {}

-----------------------------------------------------------------------------

\* The first cache whose objects are large enough; none if there is none.
slub_size_to_index(size) ==
    {c \in Cache : size <= sizes[c] /\ \A d \in 1..c - 1 : size > sizes[d]}

actual_size(c) == ((sizes[c] + OBJECT + POINTER - 1) \div POINTER) * POINTER

object_num(c) == (PGSIZE - POINTER) \div actual_size(c)

\* The objects a page is cut into, in address order. Every one begins before
\* the end of the page, at most 1000 are made.
ObjectsOn(c, page) ==
    [i \in 1..(IF object_num(c) > 1000 THEN 1000 ELSE object_num(c)) |-> << page, i >>]

\* Mutant: the last page is never taken.
Refill_early(c) ==
    IF free_list[c] # << >>
      THEN [objects |-> free_list[c], page |-> NULL]
    ELSE IF slub_nr_free <= 1
      THEN [objects |-> << >>, page |-> NULL]
    ELSE [objects |-> ObjectsOn(c, Head(slub_free_list)), page |-> Head(slub_free_list)]

\* The list of free objects when an object is needed, and the page that was
\* taken for it.
Refill(c) ==
    IF free_list[c] # << >>
      THEN [objects |-> free_list[c], page |-> NULL]
    ELSE IF slub_nr_free = 0 \/ slub_free_list = << >>
      THEN [objects |-> << >>, page |-> NULL]
    ELSE [objects |-> ObjectsOn(c, Head(slub_free_list)), page |-> Head(slub_free_list)]

TakesPage(got) ==
    IF got.page = NULL
      THEN UNCHANGED << slub_free_list, slub_nr_free >>
      ELSE slub_free_list' = Tail(slub_free_list) /\ slub_nr_free' = slub_nr_free - 1

\* With its last free object the cache's current slab, and no other, goes to
\* the full ones.
slub_alloc(size, c) ==
    LET got     == Refill(c)
        slab    == IF got.page = NULL THEN slab_page[c] ELSE got.page
        partial == IF got.page = NULL THEN partial_slabs[c]
                   ELSE Append(partial_slabs[c], got.page)
        used    == Tail(got.objects) = << >> /\ slab # NULL
    IN  /\ got.objects # << >>
        /\ held' = held \cup {[obj |-> Head(got.objects), size |-> size]}
        /\ free_list' = [free_list EXCEPT ![c] = Tail(got.objects)]
        /\ TakesPage(got)
        /\ partial_slabs' = [partial_slabs EXCEPT ![c] =
                               IF used THEN SelectSeq(partial, LAMBDA p : p # slab)
                               ELSE partial]
        /\ full_slabs' = [full_slabs EXCEPT ![c] = IF used THEN Append(@, slab) ELSE @]
        /\ slab_page' = [slab_page EXCEPT ![c] = IF used THEN NULL ELSE slab]

\* NULL, also for every size no cache has.
slub_alloc_fails(size) ==
    /\ \A c \in slub_size_to_index(size) : Refill(c).objects = << >>
    /\ UNCHANGED vars

\* slub_alloc_pages: a page is asked of the caches, as an object.
slub_alloc_pages_fails(n) ==
    /\ n > 1 \/ slub_size_to_index(PGSIZE - OBJECT) = {}
    /\ UNCHANGED vars

slub_free(obj, size, c) ==
    LET page == obj[1]
        full == Contains(full_slabs[c], page)
    IN  /\ held' = held \ {[obj |-> obj, size |-> size]}
        /\ free_list' = [free_list EXCEPT ![c] = << obj >> \o @]
        /\ full_slabs' = [full_slabs EXCEPT ![c] = SelectSeq(@, LAMBDA p : p # page)]
        /\ partial_slabs' = [partial_slabs EXCEPT ![c] =
                               IF full THEN Append(@, page) ELSE @]
        /\ slab_page' = [slab_page EXCEPT ![c] = IF @ = NULL THEN page ELSE @]
        /\ UNCHANGED << slub_free_list, slub_nr_free >>

-----------------------------------------------------------------------------

Next ==
    \/ \E size \in Sizes :
         \/ \E c \in slub_size_to_index(size) : slub_alloc(size, c)
         \/ slub_alloc_fails(size)
    \/ \E n \in 1..NPAGES : slub_alloc_pages_fails(n)
    \/ \E h \in held : \E c \in slub_size_to_index(h.size) : slub_free(h.obj, h.size, c)

Spec == Init /\ [][Next]_vars

-----------------------------------------------------------------------------
(* Properties *)

TypeOK ==
    /\ slub_free_list \in Seq(Page) /\ slub_nr_free \in 0..NPAGES
    /\ free_list \in [Cache -> Seq(Page \X Nat)]
    /\ slab_page \in [Cache -> Page \cup {NULL}]
    /\ partial_slabs \in [Cache -> Seq(Page)] /\ full_slabs \in [Cache -> Seq(Page)]
    /\ \A h \in held : h.obj \in Page \X Nat /\ h.size \in Sizes

Slabs(c) == ToSet(partial_slabs[c]) \cup ToSet(full_slabs[c])

HeldOn(page) == {h.obj : h \in {g \in held : g.obj[1] = page}}

\* Every object of every slab is in the free list of its cache or with one
\* caller, once, however objects of several slabs mix in the list; and every
\* page is free or one cache's.
ObjectsOnce ==
    /\ \A c \in Cache :
         /\ Len(free_list[c]) = Cardinality(ToSet(free_list[c]))
         /\ UNION {ToSet(ObjectsOn(c, p)) : p \in Slabs(c)} =
              ToSet(free_list[c]) \cup UNION {HeldOn(p) : p \in Slabs(c)}
         /\ \A h \in held : ~Contains(free_list[c], h.obj)
         /\ Len(partial_slabs[c]) + Len(full_slabs[c]) = Cardinality(Slabs(c))
         /\ Slabs(c) \cap ToSet(slub_free_list) = {}
         /\ \A d \in Cache : c # d => Slabs(c) \cap Slabs(d) = {}
    /\ slub_nr_free = Len(slub_free_list)
    /\ slub_nr_free + Cardinality(UNION {Slabs(c) : c \in Cache}) = NPAGES

\* A slab on the full list has no free object, so an object that is freed finds
\* its slab there or the cache has a current slab that is partial.
FullAreFull ==
    \A c \in Cache :
      /\ \A p \in ToSet(full_slabs[c]) : HeldOn(p) = ToSet(ObjectsOn(c, p))
      /\ free_list[c] # << >> => Contains(partial_slabs[c], slab_page[c])

\* An object has the room its caller asked for, behind its header and before
\* the next object or the end of the page.
LargeEnough ==
    \A h \in held : \A c \in slub_size_to_index(h.size) :
      /\ h.size + OBJECT <= actual_size(c)
      /\ h.obj[2] * actual_size(c) <= PGSIZE

\* A request a cache can serve fails only if there is no page left.
FailsOnlyWhenFull ==
    \A size \in Sizes : size <= sizes[10] =>
      \E c \in slub_size_to_index(size) :
        Refill(c).objects = << >> => slub_free_list = << >>

\* partial_slabs is "the list of partly used slabs" (slub.c:51): none of them is
\* full.
PartialHaveFree ==
    \A c \in Cache : \A p \in ToSet(partial_slabs[c]) :
      \E i \in DOMAIN free_list[c] : free_list[c][i][1] = p

\* pmm.h: alloc_pages allocates at least n pages. With a free page, one page
\* can be had.
PageServed == slub_nr_free > 0 => slub_size_to_index(PGSIZE - OBJECT) # {}
=============================================================================
