-------------------------------- MODULE Heap --------------------------------
(***************************************************************************)
(* The kernel heap lab8/kern/mm/kmalloc.c: kmalloc and kfree over SLOB, a  *)
(* circular list of free blocks, each with its length in units, that takes *)
(* pages from the page allocator and never gives one back; and requests of *)
(* about a page and more, served with whole pages and remembered in        *)
(* bigblocks. Kernel code is not preempted and no interrupt handler        *)
(* allocates, so a call is one step.                                       *)
(*                                                                         *)
(* Unit 0 is the arena, a static block of one unit; page p is the PU units *)
(* from FIRST + p * PU. A pointer is the number of a unit.                 *)
(***************************************************************************)
EXTENDS Integers, FiniteSets

CONSTANTS
    NPAGES,         \* pages the page allocator has left
    PU,             \* units in a page
    UNIT,           \* bytes in a unit, SLOB_UNIT
    BIGBLOCK,       \* bytes of a bigblock_t, which fits in a page
    Sizes           \* bytes asked for

PAGE_SIZE == PU * UNIT

FIRST == 2

NUNITS == FIRST + NPAGES * PU

Unit == 0..NUNITS - 1

arena == 0

PageOf(p) == FIRST + p * PU

Run(b, n) == b..b + n - 1

VARIABLES
    slobfree,       \* where the next search starts
    next,           \* the links of the free blocks
    units,          \* lengths of free blocks, and of blocks handed out by kmalloc
    bigblocks,      \* {[at, pages, order]}: bigblock_t records
    freepages,      \* pages the page allocator has
    held,           \* {[ptr, size]}: what callers got and did not free
    status          \* "panic": an assert failed; "hang": a loop has no end

vars == << slobfree, next, units, bigblocks, freepages, held, status >>

heap == [free |-> slobfree, next |-> next, units |-> units]

Init ==
    /\ slobfree = arena
    /\ next = [u \in Unit |-> arena]
    /\ units = [u \in Unit |-> IF u = arena THEN 1 ELSE 0]
    /\ bigblocks = {}
    /\ freepages = 0..NPAGES - 1
    /\ held = {}
    /\ status = "ok"

-----------------------------------------------------------------------------
(* slob_free *)

SLOB_UNITS(size) == (size + UNIT - 1) \div UNIT

\* The block k links behind slobfree.
Nth(h) ==
    LET nth[k \in 0..NUNITS] == IF k = 0 THEN h.free ELSE h.next[nth[k - 1]]
    IN  nth

\* The list is in address order but for one link, from the last block to the
\* first.
BelongsBehind(h, cur, b) ==
    \/ cur < b /\ b < h.next[cur]
    \/ cur >= h.next[cur] /\ (b > cur \/ b < h.next[cur])

PlacesFor(h, b) == {k \in 0..NUNITS : BelongsBehind(h, Nth(h)[k], b)}

MergeUp(h, cur, b) ==
    LET after == h.next[cur]
    IN  IF b + h.units[b] = after
          THEN [h EXCEPT !.units[b] = @ + h.units[after], !.next[b] = h.next[after]]
          ELSE [h EXCEPT !.next[b] = after]

MergeDown(h, cur, b) ==
    IF cur + h.units[cur] = b
      THEN [h EXCEPT !.units[cur] = @ + h.units[b], !.next[cur] = h.next[b]]
      ELSE [h EXCEPT !.next[cur] = b]

\* The block b of size bytes, or of as many units as it records if size is 0.
\* Without a place the loop does not end.
slob_free(h, b, size) ==
    LET sized == IF size = 0 THEN h
                 ELSE [h EXCEPT !.units[b] = SLOB_UNITS(size)]
        k     == CHOOSE k \in PlacesFor(sized, b) :
                   \A j \in PlacesFor(sized, b) : k <= j
        cur   == Nth(sized)[k]
    IN  [MergeDown(MergeUp(sized, cur, b), cur, b) EXCEPT !.free = cur]

-----------------------------------------------------------------------------
(* slob_alloc *)

\* The links after which a search of n units stops: at a block that is large
\* enough, the whole ring round, slobfree last.
StopsFor(h, n) ==
    {k \in 1..NUNITS : /\ h.units[Nth(h)[k]] >= n
                       /\ \A j \in 1..k - 1 : Nth(h)[j] # h.free}

HasRoom(h, n) == StopsFor(h, n) # {}

\* First fit: n units from the start of the first block with room.
Cut(h, n) ==
    LET k    == CHOOSE k \in StopsFor(h, n) : \A j \in StopsFor(h, n) : k <= j
        cur  == Nth(h)[k]
        prev == Nth(h)[k - 1]
        rest == cur + n
        link == [h EXCEPT !.next[prev] = rest]
    IN  IF h.units[cur] = n
          THEN [at |-> cur, heap |-> [h EXCEPT !.next[prev] = h.next[cur],
                                               !.free = prev]]
          ELSE [at |-> cur, heap |-> [link EXCEPT !.units[rest] = h.units[cur] - n,
                                                  !.next[rest] = link.next[cur],
                                                  !.units[cur] = n,
                                                  !.free = prev]]

\* What slob_alloc(size) can end in: the block, the heap and the pages left.
\* Without room one page is added, of any the page allocator picks.
SlobAllocs(size) ==
    LET n == SLOB_UNITS(size)
    IN  IF HasRoom(heap, n)
          THEN {[at |-> Cut(heap, n).at, heap |-> Cut(heap, n).heap,
                 pages |-> freepages]}
          ELSE {LET cut == Cut(slob_free(heap, PageOf(p), PAGE_SIZE), n)
                IN  [at |-> cut.at, heap |-> cut.heap, pages |-> freepages \ {p}]
                : p \in freepages}

Becomes(h) ==
    /\ slobfree' = h.free
    /\ next' = h.next
    /\ units' = h.units

-----------------------------------------------------------------------------
(* kmalloc *)

IsSmall(size) == size < PAGE_SIZE - UNIT

\* slob_alloc's assert, of a request with its header.
FitsPage(size) == size + UNIT < PAGE_SIZE

\* A block with a header of one unit.
KmallocSmall(size) ==
    /\ IsSmall(size) /\ FitsPage(size + UNIT)
    /\ \E got \in SlobAllocs(size + UNIT) :
         /\ Becomes(got.heap)
         /\ freepages' = got.pages
         /\ held' = held \cup {[ptr |-> got.at + 1, size |-> size]}
    /\ UNCHANGED << bigblocks, status >>

KmallocStops(size) ==
    /\ IsSmall(size) /\ ~FitsPage(size + UNIT)
    /\ status' = "panic"
    /\ UNCHANGED << slobfree, next, units, bigblocks, freepages, held >>

\* NULL
KmallocFails(size) ==
    /\ IsSmall(size) /\ FitsPage(size + UNIT)
    /\ SlobAllocs(size + UNIT) = {}
    /\ UNCHANGED vars

Halved(size) ==
    LET half[k \in 0..size] == IF k = 0 THEN size ELSE half[k - 1] \div 2
    IN  half

\* The halvings until the size is at most a page; each rounds down.
find_order(size) ==
    CHOOSE o \in 0..size : /\ Halved(size)[o] <= PAGE_SIZE
                           /\ \A i \in 0..o - 1 : Halved(size)[i] > PAGE_SIZE

\* The runs of 2^order pages the page allocator may pick from.
PageRuns(pages, order) == {p \in pages : Run(p, 2^order) \subseteq pages}

KmallocBig(size) ==
    /\ ~IsSmall(size)
    /\ \E got \in SlobAllocs(BIGBLOCK) :
         \E p \in PageRuns(got.pages, find_order(size)) :
           /\ Becomes(got.heap)
           /\ freepages' = got.pages \ Run(p, 2^find_order(size))
           /\ bigblocks' = bigblocks \cup
                {[at |-> got.at, pages |-> PageOf(p), order |-> find_order(size)]}
           /\ held' = held \cup {[ptr |-> PageOf(p), size |-> size]}
    /\ UNCHANGED status

\* Mutant: the record stays allocated when there are no pages for it.
KmallocBigFails_leaks(size) ==
    /\ ~IsSmall(size)
    /\ \/ SlobAllocs(BIGBLOCK) = {} /\ UNCHANGED << slobfree, next, units, freepages >>
       \/ \E got \in SlobAllocs(BIGBLOCK) :
            /\ PageRuns(got.pages, find_order(size)) = {}
            /\ Becomes(got.heap)
            /\ freepages' = got.pages
    /\ UNCHANGED << bigblocks, held, status >>

\* No record or no pages for it; a page taken for the record stays in the heap.
KmallocBigFails(size) ==
    /\ ~IsSmall(size)
    /\ \/ SlobAllocs(BIGBLOCK) = {} /\ UNCHANGED << slobfree, next, units, freepages >>
       \/ \E got \in SlobAllocs(BIGBLOCK) :
            /\ PageRuns(got.pages, find_order(size)) = {}
            /\ Becomes(slob_free(got.heap, got.at, BIGBLOCK))
            /\ freepages' = got.pages
    /\ UNCHANGED << bigblocks, held, status >>

-----------------------------------------------------------------------------
(* kfree *)

\* Only a pointer to the start of a page may be on the list.
BigBlocksAt(ptr) ==
    IF (ptr - FIRST) % PU = 0 THEN {bb \in bigblocks : bb.pages = ptr} ELSE {}

\* What slob_free is given: the record of a big block, or a block of its header.
Freed(ptr) ==
    IF BigBlocksAt(ptr) # {}
      THEN [at |-> (CHOOSE bb \in BigBlocksAt(ptr) : TRUE).at, size |-> BIGBLOCK]
      ELSE [at |-> ptr - 1, size |-> 0]

\* A block whose place in the ring is not found is looked for without end.
Kfree(ptr) ==
    LET f     == Freed(ptr)
        known == PlacesFor(heap, f.at) # {}
    IN  /\ held' = {h \in held : h.ptr # ptr}
        /\ bigblocks' = bigblocks \ BigBlocksAt(ptr)
        /\ freepages' = freepages \cup
             {p \in 0..NPAGES - 1 : \E bb \in BigBlocksAt(ptr) :
                PageOf(p) \in Run(bb.pages, 2^bb.order * PU)}
        /\ Becomes(IF known THEN slob_free(heap, f.at, f.size) ELSE heap)
        /\ status' = IF known THEN status ELSE "hang"

-----------------------------------------------------------------------------

Next ==
    /\ status = "ok"
    /\ \/ \E size \in Sizes :
            \/ KmallocSmall(size) \/ KmallocStops(size) \/ KmallocFails(size)
            \/ KmallocBig(size) \/ KmallocBigFails(size)
       \/ \E h \in held : Kfree(h.ptr)

Spec == Init /\ [][Next]_vars

-----------------------------------------------------------------------------
(* Properties *)

\* The blocks of the ring.
Ring == {Nth(heap)[k] : k \in 0..NUNITS}

\* The units a caller's pointer stands for: its block with the header, or pages.
Owned(h) ==
    IF BigBlocksAt(h.ptr) # {}
      THEN Run(h.ptr, PU * 2^(CHOOSE bb \in BigBlocksAt(h.ptr) : TRUE).order)
      ELSE Run(h.ptr - 1, units[h.ptr - 1])

Record(bb) == Run(bb.at, SLOB_UNITS(BIGBLOCK))

FreeUnits == UNION {Run(b, units[b]) : b \in Ring}

PageUnits(p) == Run(PageOf(p), PU)

TypeOK ==
    /\ slobfree \in Unit
    /\ next \in [Unit -> Unit]
    /\ units \in [Unit -> 0..NUNITS]
    /\ bigblocks \subseteq [at : Unit, pages : Unit, order : Nat]
    /\ freepages \subseteq 0..NPAGES - 1
    /\ held \subseteq [ptr : Unit, size : Sizes]
    /\ status \in {"ok", "panic", "hang"}

\* The list slob_free and slob_alloc walk is one ring in address order with a
\* single wrap, the arena is always on it, and no two blocks of it touch: every
\* free is coalesced on both sides, whatever the order of calls.
RingExact ==
    /\ arena \in Ring /\ units[arena] = 1
    /\ Cardinality({b \in Ring : next[b] <= b}) = 1
    /\ \A b \in Ring : units[b] > 0 /\ b + units[b] \notin Ring
    /\ \A b \in Ring : next[b] > b => b + units[b] < next[b]

\* Nothing is lost and nothing is given twice: every unit of memory is in one
\* free block, in one block a caller holds, in one bigblock record, or on a page
\* the page allocator has; the lengths in the headers are all there is to tell.
UnitsOnce ==
    /\ \A h \in held : Owned(h) \cap FreeUnits = {}
    /\ \A h, g \in held : h # g => Owned(h) \cap Owned(g) = {}
    /\ \A bb \in bigblocks :
         /\ Record(bb) \cap FreeUnits = {}
         /\ \A h \in held : Record(bb) \cap Owned(h) = {}
         /\ \A b2 \in bigblocks : bb # b2 => Record(bb) \cap Record(b2) = {}
    /\ Run(FIRST, NPAGES * PU) \cup {arena} =
         UNION {Owned(h) : h \in held} \cup UNION {Record(bb) : bb \in bigblocks}
         \cup FreeUnits \cup UNION {PageUnits(p) : p \in freepages}
    /\ \A p \in freepages : PageUnits(p) \cap FreeUnits = {}

\* The bytes from a caller's pointer to the end of its block.
Room(h) == UNIT * Cardinality({u \in Owned(h) : u >= h.ptr})

\* A block of the ring has the room its caller asked for. Pages may be short, as
\* find_order rounds down with each halving, but by less than a byte a page.
LargeEnough ==
    \A h \in held :
      IF BigBlocksAt(h.ptr) = {} THEN h.size <= Room(h)
      ELSE \A bb \in BigBlocksAt(h.ptr) : h.size < Room(h) + 2^bb.order

\* kmalloc.c:26 says "If kmalloc is asked for objects of PAGE_SIZE or larger, it
\* calls __get_free_pages directly": the object has room in what it got.
KmallocRoom == \A h \in held : h.size <= Room(h)

\* kfree always comes to an end.
FreeEnds == status # "hang"

\* slob_alloc: assert((size + SLOB_UNIT) < PAGE_SIZE)
SlobSizeHolds == status # "panic"

\* "The slob heap is a singly-linked list of pages from __get_free_page"
FromPages == \A h \in held : Owned(h) \subseteq Run(FIRST, NPAGES * PU)

Taken == UNION {Owned(h) : h \in held}

\* Links and lengths of units that are in no list, and lengths of no block a
\* caller holds, are written before they are read.
LiveView ==
    << slobfree, [b \in Ring |-> next[b]], bigblocks, freepages, held, status,
       [b \in Ring \cup {h.ptr - 1 : h \in held} |-> units[b]] >>
=============================================================================
