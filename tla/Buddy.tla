------------------------------- MODULE Buddy --------------------------------
(***************************************************************************)
(* The buddy page allocator of lab 2, lab2/kern/mm/buddy_pmm.c: a free     *)
(* list for every order, the property field and the flags of every page,   *)
(* and NR_FREE. A request is rounded up to a power of two, which the head  *)
(* page remembers in property until it is freed. alloc_pages and           *)
(* free_pages run with interrupts off, so a call is one step.              *)
(*                                                                         *)
(* The callers free the blocks they were given, whole, with the number of  *)
(* pages they asked for.                                                   *)
(***************************************************************************)
EXTENDS Integers, FiniteSets, SequencesExt

CONSTANTS
    BUDDY_MAX_ORDER,    \* the highest order
    NPAGES              \* pages of the managed range, at most 2^BUDDY_MAX_ORDER:
                        \* 128 MB are 2^15 pages, and some of it holds the kernel

Page == 0..NPAGES - 1

Order == 0..BUDDY_MAX_ORDER

Run(p, n) == p..p + n - 1

VARIABLES
    FL,             \* the free list of every order, first block first
    property,
    PageProperty,   \* pages with the flag PG_property: heads of free blocks
    PageReserved,   \* pages with the flag PG_reserved: allocated
    NR_FREE,
    held,           \* {[at, n]}: blocks handed out, with the pages asked for
    status          \* "panic": an assert failed

vars == << FL, property, PageProperty, PageReserved, NR_FREE, held, status >>

area == [FL |-> FL, property |-> property, flags |-> PageProperty]

-----------------------------------------------------------------------------
(* buddy_init_memmap *)

\* A block of this order may be cut off at offset.
Splits(offset, o) == 2^o <= NPAGES - offset /\ offset % 2^o = 0

\* The order grows as long as the next one fits, too.
OrderAt(offset) ==
    CHOOSE o \in Order : /\ \A i \in 1..o : Splits(offset, i)
                         /\ o = BUDDY_MAX_ORDER \/ ~Splits(offset, o + 1)

\* The memory from offset on, cut into blocks from the front.
Cut ==
    LET cut[offset \in 0..NPAGES] ==
          IF offset = NPAGES
            THEN [FL |-> [o \in Order |-> << >>], property |-> [p \in Page |-> 0],
                  flags |-> {}]
            ELSE LET o == OrderAt(offset)
                     f == cut[offset + 2^o]
                 IN  [FL       |-> [f.FL EXCEPT ![o] = Append(@, offset)],
                      property |-> [f.property EXCEPT ![offset] = 2^o],
                      flags    |-> f.flags \cup {offset}]
    IN  cut[0]

Init ==
    /\ FL = Cut.FL
    /\ property = Cut.property
    /\ PageProperty = Cut.flags
    /\ PageReserved = {}
    /\ NR_FREE = NPAGES
    /\ held = {}
    /\ status = "ok"

-----------------------------------------------------------------------------
(* buddy_alloc_pages *)

size2order_ceil(n) ==
    CHOOSE o \in Order : /\ \A i \in 0..o - 1 : 2^i < n
                         /\ 2^o >= n \/ o = BUDDY_MAX_ORDER

\* The orders with a block that can serve the request.
Orders(n) == {o \in Order : o >= size2order_ceil(n) /\ FL[o] # << >>}

\* The block leaves its list; the right halves go to the front of theirs.
Halve(blk, got, need) ==
    [FL       |-> [o \in Order |->
                     CASE o = got            -> Tail(FL[o])
                       [] o \in need..got - 1 -> << blk + 2^o >> \o FL[o]
                       [] OTHER              -> FL[o]],
     property |-> [p \in Page |->
                     IF \E o \in need..got - 1 : p = blk + 2^o
                       THEN 2^(CHOOSE o \in need..got - 1 : p = blk + 2^o)
                     ELSE IF p = blk THEN 2^need ELSE property[p]],
     flags    |-> (PageProperty \ {blk}) \cup {blk + 2^o : o \in need..got - 1}]

Alloc(n) ==
    LET need == size2order_ceil(n)
        got  == CHOOSE o \in Orders(n) : \A i \in Orders(n) : o <= i
        blk  == Head(FL[got])
        left == Halve(blk, got, need)
    IN  /\ n <= NR_FREE /\ Orders(n) # {}
        /\ FL' = left.FL
        /\ property' = left.property
        /\ PageProperty' = left.flags \ Run(blk, 2^need)
        /\ PageReserved' = PageReserved \cup Run(blk, 2^need)
        /\ NR_FREE' = NR_FREE - 2^need
        /\ held' = held \cup {[at |-> blk, n |-> n]}
        /\ UNCHANGED status

\* NULL
AllocFails(n) == (n > NR_FREE \/ Orders(n) = {}) /\ UNCHANGED vars

-----------------------------------------------------------------------------
(* buddy_free_pages *)

BuddyOf(idx, o) == IF (idx \div 2^o) % 2 = 0 THEN idx + 2^o ELSE idx - 2^o

\* Mutant: a free block of any order is merged.
CanMerge_any_order(a, block, o) ==
    /\ o < BUDDY_MAX_ORDER
    /\ BuddyOf(block, o) \in a.flags
    /\ \E i \in Order : Contains(a.FL[i], BuddyOf(block, o))

\* The buddy is the head of a free block of the same order.
CanMerge(a, block, o) ==
    /\ o < BUDDY_MAX_ORDER
    /\ BuddyOf(block, o) < NPAGES
    /\ Contains(a.FL[o], BuddyOf(block, o))

\* Both halves lose their mark; the lower one goes on as the block.
Merge(a, block, o) ==
    LET buddy == BuddyOf(block, o)
        high  == IF buddy < block THEN {block, buddy} ELSE {buddy}
    IN  [FL       |-> [a.FL EXCEPT ![o] = SelectSeq(@, LAMBDA p : p # buddy)],
         property |-> [p \in Page |-> IF p \in high THEN 0 ELSE a.property[p]],
         flags    |-> a.flags \ high]

insert_and_merge(a, block, order) ==
    LET step[o \in order..BUDDY_MAX_ORDER] ==
          IF o = order THEN [area |-> a, block |-> block, order |-> o]
          ELSE LET s == step[o - 1]
                   b == BuddyOf(s.block, o - 1)
               IN  IF s.order = o - 1 /\ CanMerge(s.area, s.block, o - 1)
                     THEN [area  |-> Merge(s.area, s.block, o - 1),
                           block |-> IF b < s.block THEN b ELSE s.block,
                           order |-> o]
                     ELSE s
        last == step[BUDDY_MAX_ORDER]
    IN  [FL       |-> [last.area.FL EXCEPT ![last.order] = << last.block >> \o @],
         property |-> [last.area.property EXCEPT ![last.block] = 2^last.order],
         flags    |-> last.area.flags \cup {last.block}]

\* What is freed: what the head page remembers, else what the caller says.
SizeOf(base, n) == IF property[base] = 0 THEN n ELSE property[base]

\* The asserts of buddy_free_pages; the last one is the loop's.
Checks(base, n) ==
    /\ property[base] = 0 => \E o \in Order : n = 2^o
    /\ base + SizeOf(base, n) <= NPAGES
    /\ base % SizeOf(base, n) = 0
    /\ Run(base, SizeOf(base, n)) \subseteq PageReserved

Free(base, n) ==
    LET size   == SizeOf(base, n)
        merged == insert_and_merge(
                    [area EXCEPT !.property[base] = 0, !.flags = @ \ Run(base, size)],
                    base, size2order_ceil(size))
    IN  IF Checks(base, n)
          THEN /\ FL' = merged.FL
               /\ property' = merged.property
               /\ PageProperty' = merged.flags
               /\ PageReserved' = PageReserved \ Run(base, size)
               /\ NR_FREE' = NR_FREE + size
               /\ held' = held \ {[at |-> base, n |-> n]}
               /\ UNCHANGED status
          ELSE /\ status' = "panic"
               /\ UNCHANGED << FL, property, PageProperty, PageReserved, NR_FREE, held >>

-----------------------------------------------------------------------------

Next ==
    /\ status = "ok"
    /\ \/ \E n \in 1..NPAGES + 1 : Alloc(n) \/ AllocFails(n)
       \/ \E h \in held : Free(h.at, h.n)

Spec == Init /\ [][Next]_vars

-----------------------------------------------------------------------------
(* Properties *)

Owned(h) == Run(h.at, 2^size2order_ceil(h.n))

Used == UNION {Owned(h) : h \in held}

Blocks == {b \in Order \X Page : Contains(FL[b[1]], b[2])}

BlockPages(b) == Run(b[2], 2^b[1])

TypeOK ==
    /\ FL \in [Order -> Seq(Page)]
    /\ property \in [Page -> 0..NPAGES]
    /\ PageProperty \subseteq Page /\ PageReserved \subseteq Page
    /\ NR_FREE \in 0..NPAGES
    /\ held \subseteq [at : Page, n : 1..NPAGES]
    /\ status \in {"ok", "panic"}

\* The free lists hold exactly the pages that nobody has, every one once, in
\* aligned blocks within the range; flags and lengths agree, and on no other
\* page is there a length a later free could take for an allocation.
ListsExact ==
    /\ UNION {BlockPages(b) : b \in Blocks} = Page \ Used
    /\ \A b, c \in Blocks : b # c => BlockPages(b) \cap BlockPages(c) = {}
    /\ \A b \in Blocks : b[2] % 2^b[1] = 0 /\ property[b[2]] = 2^b[1]
    /\ \A o \in Order : Len(FL[o]) = Cardinality(ToSet(FL[o]))
    /\ PageProperty = {b[2] : b \in Blocks}
    /\ PageReserved = Used
    /\ \A p \in Page : property[p] # 0 => p \in PageProperty \/ \E h \in held : h.at = p

\* Coalescing is complete after every call: the two halves of a block are never
\* both free as blocks of their own.
NoBuddiesFree ==
    \A b, c \in Blocks :
      b[1] = c[1] /\ b[1] < BUDDY_MAX_ORDER => c[2] # BuddyOf(b[2], b[1])

\* scan_free_and_check() == NR_FREE, after every sequence of calls.
CountExact == NR_FREE = Cardinality(Page \ Used)

\* An allocation fails only if no aligned run of its order is free.
FailsOnlyWhenFull ==
    \A n \in 1..NPAGES :
      (\E p \in Page : /\ p % 2^size2order_ceil(n) = 0
                       /\ Run(p, 2^size2order_ceil(n)) \subseteq Page \ Used) =>
        n <= NR_FREE /\ Orders(n) # {}

\* Giving back what was given never trips an assert.
AssertsHold == status = "ok"

\* A block has as many pages as were asked for.
LargeEnough == \A h \in held : Owned(h) \subseteq Page /\ Cardinality(Owned(h)) >= h.n
=============================================================================
