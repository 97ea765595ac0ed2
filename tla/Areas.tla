------------------------------- MODULE Areas -------------------------------
(***************************************************************************)
(* The areas of one address space, mm/vmm.c: the sorted list of areas with *)
(* the cache of find_vma, mm_map, dup_mmap, and what the kernel decides    *)
(* with them about an address a program passes.                            *)
(*                                                                         *)
(* An address counts bytes, PGSIZE of them to a page; USERBASE and USERTOP *)
(* bound the part a program may use.                                       *)
(***************************************************************************)
EXTENDS Integers, Sequences, SequencesExt

CONSTANTS
    PGSIZE,
    USERBASE, USERTOP,      \* multiples of PGSIZE
    Flags,                  \* the vm_flags in use
    NoVma                   \* no area, the code's NULL

Addresses == 0..USERTOP + PGSIZE

Lengths == 0..USERTOP

VMAs == [start : Addresses, end : Addresses, flags : Flags]

\* Pages have a size.
ASSUME AreasAssumption ==
    /\ PGSIZE \in Nat \ {0}
    /\ USERBASE \in Nat /\ USERTOP \in Nat
    /\ NoVma \notin VMAs

VARIABLES
    mmap_list,      \* the areas, in the order of the list
    mmap_cache,     \* the area find_vma found last
    overlap         \* an assert of check_vma_overlap failed

areavars == << mmap_list, mmap_cache, overlap >>

ROUNDDOWN(a) == a - (a % PGSIZE)

ROUNDUP(a) == ROUNDDOWN(a + PGSIZE - 1)

USER_ACCESS(start, end) == USERBASE <= start /\ start < end /\ end <= USERTOP

Area(start, end, flags) == [start |-> start, end |-> end, flags |-> flags]

Holds(vma, a) == vma.start <= a /\ a < vma.end

\* The first area of the list that holds a.
Scan(list, a) ==
    LET found == {i \in DOMAIN list : Holds(list[i], a)}
    IN  IF found = {} THEN NoVma ELSE list[Min(found)]

\* Mutant: the cached area is taken for every address above its start.
find_vma_start_only(list, cache, a) ==
    IF cache # NoVma /\ cache.start <= a THEN cache ELSE Scan(list, a)

find_vma(list, cache, a) ==
    IF cache # NoVma /\ Holds(cache, a) THEN cache ELSE Scan(list, a)

\* The cache after find_vma returned vma.
Cached(vma, cache) == IF vma # NoVma THEN vma ELSE cache

\* Where insert_vma_struct puts vma: before the first area that starts later.
Place(list, vma) ==
    Min({i \in DOMAIN list : list[i].start > vma.start} \cup {Len(list) + 1})

check_vma_overlap(prev, next) ==
    /\ prev.start < prev.end
    /\ prev.end <= next.start
    /\ next.start < next.end

\* The asserts of insert_vma_struct.
MayInsert(list, vma) ==
    LET i == Place(list, vma)
    IN  /\ i > 1 => check_vma_overlap(list[i - 1], vma)
        /\ i <= Len(list) => check_vma_overlap(vma, list[i])

insert_vma_struct(list, vma) == InsertAt(list, Place(list, vma), vma)

\* dup_mmap walks the list backwards.
dup_mmap(list) ==
    LET to[n \in 0..Len(list)] ==
          IF n = 0 THEN << >>
          ELSE insert_vma_struct(to[n - 1], list[Len(list) - n + 1])
    IN  to[Len(list)]

-----------------------------------------------------------------------------
(* Addresses that come from a program *)

\* user_mem_check: whether the area found for at lets it go on.
Allowed(vma, at, write) ==
    /\ (IF write THEN "WRITE" ELSE "READ") \in vma.flags
    /\ write /\ "STACK" \in vma.flags => at >= vma.start + PGSIZE

\* A turn of its loop from w.at, until a check has failed or end is reached.
Turn(list, w, end, write) ==
    LET vma == find_vma(list, w.cache, w.at)
    IN  IF ~w.ok \/ w.at >= end THEN w
        ELSE [ok    |-> vma # NoVma /\ Allowed(vma, w.at, write),
              at    |-> IF vma = NoVma THEN w.at ELSE vma.end,
              cache |-> Cached(vma, w.cache)]

\* The loop: at most one turn for each area, and one that finds none.
Walk(list, cache, start, end, write) ==
    LET walk[n \in 0..Len(list) + 1] ==
          IF n = 0 THEN [ok |-> TRUE, at |-> start, cache |-> cache]
          ELSE Turn(list, walk[n - 1], end, write)
    IN  walk[Len(list) + 1]

user_mem_check(list, cache, addr, len, write) ==
    USER_ACCESS(addr, addr + len) /\ Walk(list, cache, addr, addr + len, write).ok

FirstPart(src) == ROUNDDOWN(src + PGSIZE) - src

\* copy_string of at most maxn bytes from src, when the first zero byte is at
\* nul: page by page, as long as the pages may be read. Part n starts at From[n].
copy_string(list, cache, src, nul, maxn) ==
    LET From == [n \in 0..maxn + 1 |->
                   IF n = 0 THEN src ELSE src + FirstPart(src) + (n - 1) * PGSIZE]
        Part(n) == Min({From[n + 1] - From[n], maxn - (From[n] - src)})
        Read(n) == user_mem_check(list, cache, From[n], Part(n), FALSE)
    IN  \E n \in 0..maxn :
          /\ \A k \in 0..n : Read(k)
          /\ nul - From[n] < Part(n)
          /\ \A k \in 0..n - 1 : Part(k) # maxn - (From[k] - src)

-----------------------------------------------------------------------------

AreasInit ==
    mmap_list = << >> /\ mmap_cache = NoVma /\ overlap = FALSE

\* mm_map: -E_INVAL for a range outside the user part, and for one that starts
\* in an area; -E_NO_MEM when mem is FALSE.
mm_map(addr, len, flags, mem) ==
    LET start == ROUNDDOWN(addr)
        end   == ROUNDUP(addr + len)
        found == find_vma(mmap_list, mmap_cache, start)
        vma   == Area(start, end, flags)
    IN  /\ ~overlap
        /\ USER_ACCESS(start, end)
        /\ mmap_cache' = Cached(found, mmap_cache)
        /\ IF (found # NoVma /\ end > found.start) \/ ~mem
             THEN UNCHANGED << mmap_list, overlap >>
           ELSE IF MayInsert(mmap_list, vma)
             THEN mmap_list' = insert_vma_struct(mmap_list, vma) /\ UNCHANGED overlap
           ELSE overlap' = TRUE /\ UNCHANGED mmap_list

\* copy_from_user, copy_to_user: nothing changes but the cache.
Access(addr, len, write) ==
    /\ ~overlap
    /\ USER_ACCESS(addr, addr + len)
    /\ mmap_cache' = Walk(mmap_list, mmap_cache, addr, addr + len, write).cache
    /\ UNCHANGED << mmap_list, overlap >>

AreasNext ==
    \/ \E a \in Addresses, len \in Lengths, flags \in Flags, mem \in BOOLEAN :
         mm_map(a, len, flags, mem)
    \/ \E a \in Addresses, len \in Lengths, write \in BOOLEAN : Access(a, len, write)

AreasSpec == AreasInit /\ [][AreasNext]_areavars

-----------------------------------------------------------------------------
(* Properties *)

AreasTypeOK ==
    /\ \A i \in DOMAIN mmap_list : mmap_list[i] \in VMAs
    /\ mmap_cache \in ToSet(mmap_list) \cup {NoVma}
    /\ overlap \in BOOLEAN

\* Whatever mm_map was asked for, the areas of the list are whole pages of the
\* user part, in order and apart: insert_vma_struct keeps it so without looking
\* at more than the two neighbours of the new area.
AreasApart ==
    \A i \in DOMAIN mmap_list :
      /\ USER_ACCESS(mmap_list[i].start, mmap_list[i].end)
      /\ mmap_list[i].start % PGSIZE = 0 /\ mmap_list[i].end % PGSIZE = 0
      /\ \A j \in DOMAIN mmap_list : i < j => mmap_list[i].end <= mmap_list[j].start

\* find_vma finds the area of an address whatever its cache holds.
FindExact ==
    \A a \in Addresses :
      LET vma == find_vma(mmap_list, mmap_cache, a)
      IN  IF vma = NoVma THEN \A i \in DOMAIN mmap_list : ~Holds(mmap_list[i], a)
          ELSE vma \in ToSet(mmap_list) /\ Holds(vma, a)

\* The byte a may be read, or written: written not in the lowest page of a stack.
ByteAllowed(list, a, write) ==
    \E i \in DOMAIN list :
      /\ Holds(list[i], a)
      /\ IF write THEN /\ "WRITE" \in list[i].flags
                       /\ "STACK" \in list[i].flags => a >= list[i].start + PGSIZE
         ELSE "READ" \in list[i].flags

\* user_mem_check, which looks at one byte of each area, answers for every byte
\* of the range, across adjacent areas too.
CheckExact ==
    \A a \in Addresses, len \in Lengths, write \in BOOLEAN :
      user_mem_check(mmap_list, mmap_cache, a, len, write) =
        (len > 0 /\ \A b \in a..a + len - 1 : ByteAllowed(mmap_list, b, write))

\* copy_string, which asks for a page at a time, copies a string exactly when it
\* ends within maxn bytes and each of its bytes may be read.
CopyExact ==
    \A src \in USERBASE..USERTOP, nul \in USERBASE..USERTOP, maxn \in Lengths :
      nul >= src =>
        copy_string(mmap_list, mmap_cache, src, nul, maxn) =
          (nul < src + maxn /\ \A b \in src..nul : ByteAllowed(mmap_list, b, FALSE))

\* The child of a fork has the areas of its parent.
DupExact == dup_mmap(mmap_list) = mmap_list

\* vmm.c:115 asserts prev->vm_end <= next->vm_start: an area that overlaps one
\* that starts later is refused before it comes to that.
OverlapRefused == ~overlap
=============================================================================
