--------------------------- MODULE AddressSpaces ---------------------------
(***************************************************************************)
(* Where the pages of processes come from and go to: the three-level page  *)
(* tables of mm/pmm.c, dup_mmap and exit_mmap of mm/vmm.c, and what        *)
(* do_fork, do_execve (with load_icode), do_exit and do_wait of            *)
(* process/proc.c do with them when memory runs out half-way.              *)
(*                                                                         *)
(* The kernel is not preempted: an operation is one step. An address       *)
(* counts pages; a table has two entries, so there are eight. kmalloc fails*)
(* after as many calls as an operation is given, alloc_page when no page   *)
(* is free.                                                                *)
(***************************************************************************)
EXTENDS Integers, Sequences, FiniteSets, SequencesExt

CONSTANTS
    Procs,
    MMs,            \* memory for mm_structs
    NPAGE,          \* pages, numbered from 1; 0 is an entry without PTE_V
    Programs,       \* the segments of the programs, as areas <<start, end>>
    STACK,          \* the area of the stack, of which the last page is used
    Budgets,        \* how many calls of kmalloc may succeed in one step
    NULL

VARIABLES
    mem,        \* the free pages, the references to pages, the tables, the mms
    proc,       \* state, mm, pgdir and kstack of every process
    panic       \* an assert failed

vars == << mem, proc, panic >>

Pages == 1..NPAGE

NPTE == 2

PTSIZE == NPTE

PDSIZE == NPTE * PTSIZE

PDX1(la) == la \div PDSIZE

PDX0(la) == (la \div PTSIZE) % NPTE

PTX(la) == la % NPTE

NoEntries == [i \in 0..NPTE - 1 |-> 0]

NoMM == [count |-> 0, pgdir |-> 0, areas |-> << >>]

NoProc == [state |-> "UNUSED", mm |-> NULL, pgdir |-> 0, kstack |-> 0]

-----------------------------------------------------------------------------
(* Pages. s is the mem of an operation, with what is left of kmalloc (k), the *)
(* page or pte found last, and whether an assert failed.                      *)

alloc_page(s) ==
    IF s.free = {} THEN [s EXCEPT !.page = 0]
    ELSE LET page == CHOOSE p \in s.free : \A q \in s.free : p <= q
         IN  [s EXCEPT !.page = page, !.free = @ \ {page}, !.ref[page] = 0,
                       !.entry[page] = NoEntries]

free_page(s, page) ==
    [s EXCEPT !.free = @ \cup {page}, !.ref[page] = 0, !.entry[page] = NoEntries]

kmalloc(s) == [s EXCEPT !.k = @ - 1]

Fails(s) == s.k < 0

\* Entry i of table points to the page found.
Linked(s, table, i) ==
    IF s.page = 0 THEN s ELSE [s EXCEPT !.ref[s.page] = 1, !.entry[table][i] = s.page]

\* The table that entry i of table points to, allocated if it is missing.
Subtable(s, table, i, create) ==
    IF s.entry[table][i] # 0 THEN [s EXCEPT !.page = s.entry[table][i]]
    ELSE IF create THEN Linked(alloc_page(s), table, i)
    ELSE [s EXCEPT !.page = 0]

\* The page that holds the pte of la, as page; 0 if there is none. The directory
\* is found first.
SecondLevel(s, la, create) ==
    IF s.page = 0 THEN s ELSE Subtable(s, s.page, PDX0(la), create)

get_pte(s, pgdir, la, create) ==
    SecondLevel(Subtable(s, pgdir, PDX1(la), create), la, create)

PteAt(s, table, la) == IF table = 0 THEN 0 ELSE s.entry[table][PTX(la)]

Mapped(s, pgdir, la) == PteAt(s, get_pte(s, pgdir, la, FALSE).page, la)

page_remove_pte(s, table, la) ==
    LET page == s.entry[table][PTX(la)]
        less == [s EXCEPT !.ref[page] = @ - 1, !.entry[table][PTX(la)] = 0]
    IN  IF less.ref[page] = 0 THEN free_page(less, page) ELSE less

\* Nothing is mapped at la before. 0 when a table cannot be allocated.
SetPte(s, page, la) ==
    IF s.page = 0 THEN s
    ELSE [s EXCEPT !.ref[page] = @ + 1, !.entry[s.page][PTX(la)] = page]

page_insert(s, pgdir, page, la) == SetPte(get_pte(s, pgdir, la, TRUE), page, la)

\* A page that could not be inserted goes back.
OrFree(s, page) ==
    IF s.page = 0 THEN [free_page(s, page) EXCEPT !.page = 0] ELSE s

InsertFound(s, pgdir, la) ==
    IF s.page = 0 THEN s ELSE OrFree(page_insert(s, pgdir, s.page, la), s.page)

pgdir_alloc_page(s, pgdir, la) == InsertFound(alloc_page(s), pgdir, la)

Range2Seq(area) == [i \in 1..area[2] - area[1] |-> area[1] + i - 1]

unmap_range(s, pgdir, area) ==
    FoldLeft(LAMBDA r, la : IF Mapped(r, pgdir, la) = 0 THEN r
                            ELSE page_remove_pte(r, get_pte(r, pgdir, la, FALSE).page, la),
             s, Range2Seq(area))

\* The entries of the directory d1 that exit_range looks at for area.
InRange(area, d1) ==
    {d0 \in 0..NPTE - 1 :
       LET la == d1 * PDSIZE + d0 * PTSIZE
       IN  area[1] - (area[1] % PTSIZE) <= la /\ la < area[2]}

Empty(s, table) == table # 0 /\ s.entry[table] = NoEntries

\* Free the empty tables of directory d1 within area, then the directory if it
\* had a table for every entry within area, whatever it has for the others.
exit_directory(s, pgdir, area, d1) ==
    LET pd0   == s.entry[pgdir][d1]
        range == InRange(area, d1)
        empty == {d0 \in range : Empty(s, s.entry[pd0][d0])}
        freed == [FoldLeft(LAMBDA r, d0 : free_page(r, s.entry[pd0][d0]),
                           s, SetToSeq(empty))
                    EXCEPT !.entry[pd0] = [d0 \in 0..NPTE - 1 |->
                                             IF d0 \in empty THEN 0 ELSE s.entry[pd0][d0]]]
    IN  IF pd0 = 0 \/ range = {} THEN s
        ELSE IF \A d0 \in range : s.entry[pd0][d0] # 0
          THEN [free_page(freed, pd0) EXCEPT !.entry[pgdir][d1] = 0]
        ELSE freed

exit_range(s, pgdir, area) ==
    FoldLeft(LAMBDA r, d1 : exit_directory(r, pgdir, area, d1), s,
             [i \in 1..NPTE |-> i - 1])

\* Mutant: the tables are left.
exit_mmap_tables(s, m) ==
    FoldLeft(LAMBDA r, area : unmap_range(r, s.mm[m].pgdir, area), s, s.mm[m].areas)

exit_mmap(s, m) ==
    LET pgdir == s.mm[m].pgdir
        areas == s.mm[m].areas
    IN  FoldLeft(LAMBDA r, area : exit_range(r, pgdir, area),
                 FoldLeft(LAMBDA r, area : unmap_range(r, pgdir, area), s, areas),
                 areas)

\* put_pgdir and mm_destroy.
Destroy(s, m) == [free_page(s, s.mm[m].pgdir) EXCEPT !.mm[m] = NoMM]

\* Mutant: the first one to leave takes it all.
mm_drop_shared(s, m) == Destroy(exit_mmap(s, m), m)

\* mm_count_dec, and the end of an mm nobody has any more.
mm_drop(s, m) ==
    LET d == [s EXCEPT !.mm[m].count = @ - 1]
    IN  IF d.mm[m].count = 0 THEN Destroy(exit_mmap(d, m), m) ELSE d

\* mm_create and setup_pgdir, for the mm m; m stays unused if one fails.
NewMM(s, m) ==
    LET a == alloc_page(kmalloc(s))
    IN  IF Fails(kmalloc(s)) THEN [kmalloc(s) EXCEPT !.page = 0]
        ELSE IF a.page = 0 THEN a
        ELSE [a EXCEPT !.mm[m] = [NoMM EXCEPT !.pgdir = a.page]]

\* An mm_struct that is not in use.
Spare(s) == CHOOSE m \in MMs : s.mm[m] = NoMM

-----------------------------------------------------------------------------
(* do_fork *)

CopyInto(s, to, la) ==
    IF s.page = 0 THEN [s EXCEPT !.panic = TRUE] ELSE page_insert(s, to, s.page, la)

\* The table for the copy is there, or ok becomes FALSE; an alloc_page that fails
\* is asserted not to.
CopyPage(s, to, la) ==
    IF s.page = 0 THEN [s EXCEPT !.ok = FALSE] ELSE CopyInto(alloc_page(s), to, la)

\* copy_range: one page after the other.
copy_range(s, to, from, area) ==
    FoldLeft(LAMBDA r, la :
               IF ~r.ok \/ r.panic \/ Mapped(r, from, la) = 0 THEN r
               ELSE CopyPage(get_pte(r, to, la, TRUE), to, la),
             s, Range2Seq(area))

\* From the last area to the first.
dup_mmap(s, to, from) ==
    FoldRight(LAMBDA area, r :
                IF ~r.ok \/ r.panic THEN r
                ELSE IF Fails(kmalloc(r)) THEN [kmalloc(r) EXCEPT !.ok = FALSE]
                ELSE copy_range([kmalloc(r) EXCEPT !.mm[to].areas = <<area>> \o @],
                                r.mm[to].pgdir, r.mm[from].pgdir, area),
              s.mm[from].areas, s)

\* copy_mm: what follows dup_mmap, and what follows mm_create and setup_pgdir.
Duplicated(s, m) ==
    IF s.panic THEN s
    ELSE IF ~s.ok THEN Destroy(exit_mmap(s, m), m)
    ELSE [s EXCEPT !.mm[m].count = 1, !.new = m]

Duplicate(s, m, old) ==
    IF s.page = 0 THEN [s EXCEPT !.ok = FALSE] ELSE Duplicated(dup_mmap(s, m, old), m)

\* copy_mm for a process that has the mm old; ok tells whether it worked, and new
\* is the mm of the child.
copy_mm(s, old, share) ==
    IF old = NULL THEN [s EXCEPT !.new = NULL]
    ELSE IF share THEN [s EXCEPT !.mm[old].count = @ + 1, !.new = old]
    ELSE Duplicate(NewMM(s, Spare(s)), Spare(s), old)

\* bad_fork_cleanup_mm and what follows it.
bad_fork(s, kstack) ==
    free_page(IF s.new = NULL THEN s ELSE mm_drop(s, s.new), kstack)

\* copy_files (one kmalloc) follows copy_mm, which follows setup_kstack.
CopyFiles(s, kstack) ==
    IF s.panic THEN s
    ELSE IF ~s.ok THEN free_page(s, kstack)
    ELSE IF Fails(kmalloc(s)) THEN [bad_fork(kmalloc(s), kstack) EXCEPT !.ok = FALSE]
    ELSE [s EXCEPT !.page = kstack]

CopyMemory(s, old, share) ==
    IF s.page = 0 THEN [s EXCEPT !.ok = FALSE] ELSE CopyFiles(copy_mm(s, old, share), s.page)

\* do_fork begins with alloc_proc.
ForkResult(s, old, share) ==
    LET p == kmalloc(s)
    IN  IF Fails(p) THEN [p EXCEPT !.ok = FALSE, !.page = 0]
        ELSE CopyMemory(alloc_page(p), old, share)

-----------------------------------------------------------------------------
(* load_icode *)

OkIfFound(s) == [s EXCEPT !.ok = (s.page # 0)]

\* One segment: mm_map, then a page for each address.
Load(s, m, area) ==
    FoldLeft(LAMBDA r, la : IF ~r.ok THEN r
                            ELSE OkIfFound(pgdir_alloc_page(r, r.mm[m].pgdir, la)),
             [kmalloc(s) EXCEPT !.mm[m].areas = Append(@, area)], Range2Seq(area))

\* The segments of the program: ok is FALSE when one has failed; ret is set by
\* mm_map alone.
LoadAll(s, m, program) ==
    FoldLeft(LAMBDA r, area : IF ~r.ok THEN r
                              ELSE IF Fails(kmalloc(r))
                                THEN [kmalloc(r) EXCEPT !.ok = FALSE, !.ret = "E_NO_MEM"]
                              ELSE Load(r, m, area),
             s, program)

\* The stack: mm_map, and pages that are asserted to be there.
PanicUnlessFound(s) == [s EXCEPT !.panic = (s.page = 0)]

LoadStack(s, m) ==
    LET v == kmalloc(s)
    IN  IF Fails(v) THEN [v EXCEPT !.ok = FALSE, !.ret = "E_NO_MEM"]
        ELSE PanicUnlessFound(
               pgdir_alloc_page([v EXCEPT !.mm[m].areas = Append(@, STACK)],
                                v.mm[m].pgdir, STACK[2] - 1))

bad_cleanup_mmap(s, m) == [Destroy(exit_mmap(s, m), m) EXCEPT !.new = NULL]

\* What follows the stack, the segments, and mm_create with setup_pgdir.
Loaded(s, m) ==
    IF s.panic THEN s
    ELSE IF ~s.ok THEN bad_cleanup_mmap(s, m)
    ELSE [s EXCEPT !.mm[m].count = 1, !.new = m]

SegmentsLoaded(s, m) ==
    IF s.ok THEN Loaded(LoadStack(s, m), m) ELSE bad_cleanup_mmap(s, m)

LoadProgram(s, m, program, readable) ==
    LET h == kmalloc(s)
    IN  IF s.page = 0 THEN [s EXCEPT !.ret = "E_NO_MEM", !.new = NULL]
        ELSE IF ~readable THEN [Destroy(s, m) EXCEPT !.ret = "E_INVAL_ELF", !.new = NULL]
        ELSE IF Fails(h) THEN [Destroy(h, m) EXCEPT !.new = NULL]
        ELSE SegmentsLoaded(LoadAll(h, m, program), m)

\* load_icode: ret is what it returns, new the mm of the process after it. When
\* readable is FALSE the file is no program.
load_icode(s, program, readable) ==
    LoadProgram(NewMM(s, Spare(s)), Spare(s), program, readable)

-----------------------------------------------------------------------------

Begin(k) ==
    [free |-> mem.free, ref |-> mem.ref, entry |-> mem.entry, mm |-> mem.mm,
     k |-> k, page |-> 0, new |-> NULL, ok |-> TRUE, ret |-> "0", panic |-> FALSE]

Memory(s) == [free |-> s.free, ref |-> s.ref, entry |-> s.entry, mm |-> s.mm]

End(s) == mem' = Memory(s) /\ panic' = s.panic

\* One process with the first kernel stack and no memory yet, as user_main.
Init ==
    \E p \in Procs :
      /\ mem = [free |-> Pages \ {1}, ref |-> [q \in Pages |-> 0],
                entry |-> [q \in Pages |-> NoEntries], mm |-> [m \in MMs |-> NoMM]]
      /\ proc = [q \in Procs |-> IF q = p THEN [NoProc EXCEPT !.state = "ALIVE", !.kstack = 1]
                                 ELSE NoProc]
      /\ panic = FALSE

Alive(p) == ~panic /\ proc[p].state = "ALIVE"

Fork(p, c, share, k) ==
    /\ Alive(p) /\ proc[c].state = "UNUSED"
    /\ \E s \in {ForkResult(Begin(k), proc[p].mm, share)} :
        /\ End(s)
        /\ proc' = IF s.panic \/ ~s.ok THEN proc
                   ELSE [proc EXCEPT ![c] =
                           [state |-> "ALIVE", mm |-> s.new, kstack |-> s.page,
                            pgdir |-> IF s.new = NULL THEN 0 ELSE s.mm[s.new].pgdir]]

\* What do_exit does to memory.
Left(s, p) == IF proc[p].mm = NULL THEN s ELSE mm_drop(s, proc[p].mm)

Exit(p) ==
    /\ Alive(p)
    /\ End(Left(Begin(0), p))
    /\ proc' = [proc EXCEPT ![p].state = "ZOMBIE", ![p].mm = NULL]

\* do_wait of a parent.
Reap(p) ==
    /\ ~panic /\ proc[p].state = "ZOMBIE"
    /\ End(free_page(Begin(0), proc[p].kstack))
    /\ proc' = [proc EXCEPT ![p] = NoProc]

\* do_execve once the file is open: the memory goes, then load_icode; when that
\* does not return 0 the process exits. pgdir changes only when a program is there.
Exec(p, program, readable, k) ==
    /\ Alive(p)
    /\ \E s \in {load_icode([Left(Begin(k), p) EXCEPT !.page = 0], program, readable)} :
        /\ End(s)
        /\ proc' = [proc EXCEPT ![p] =
             IF s.panic THEN @
             ELSE IF s.ret # "0" THEN [@ EXCEPT !.state = "ZOMBIE", !.mm = NULL]
             ELSE [@ EXCEPT !.mm = s.new,
                            !.pgdir = IF s.new = NULL THEN @ ELSE s.mm[s.new].pgdir]]

Next ==
    \E p \in Procs :
      \/ \E c \in Procs, share \in BOOLEAN, k \in Budgets : Fork(p, c, share, k)
      \/ Exit(p)
      \/ Reap(p)
      \/ \E program \in Programs, readable \in BOOLEAN, k \in Budgets :
           Exec(p, program, readable, k)

Spec == Init /\ [][Next]_vars

-----------------------------------------------------------------------------
(* Properties *)

InUse == {m \in MMs : mem.mm[m] # NoMM}

TypeOK ==
    /\ mem.free \subseteq Pages
    /\ mem.ref \in [Pages -> Nat]
    /\ mem.entry \in [Pages -> [0..NPTE - 1 -> 0..NPAGE]]
    /\ \A p \in Procs : /\ proc[p].state \in {"UNUSED", "ALIVE", "ZOMBIE"}
                        /\ proc[p].mm \in InUse \cup {NULL}
                        /\ proc[p].kstack \in 0..NPAGE

\* The mm of a process lives as long as somebody has it, and its page directory
\* is the one the process runs on.
MmCounted ==
    ~panic =>
      /\ \A m \in InUse :
           mem.mm[m].count = Cardinality({p \in Procs : proc[p].mm = m})
             /\ mem.mm[m].count > 0
      /\ \A p \in Procs :
           proc[p].mm # NULL => proc[p].pgdir = mem.mm[proc[p].mm].pgdir

Targets(S) == {mem.entry[t][i] : t \in S, i \in 0..NPTE - 1} \ {0}

Directories(m) == Targets({mem.mm[m].pgdir})

PageTables(m) == Targets(Directories(m))

Data(m) == Targets(PageTables(m))

KStacks == {proc[p].kstack : p \in Procs} \ {0}

\* All that a process can come to.
Reached ==
    KStacks \cup UNION {{mem.mm[m].pgdir} \cup Directories(m) \cup PageTables(m) \cup Data(m) :
                          m \in InUse}

Entries(page) ==
    Cardinality({e \in Reached \X (0..NPTE - 1) : mem.entry[e[1]][e[2]] = page})

\* No page that is reached is free, and none is reached twice: not as a table and
\* as memory, not by two processes that do not share their mm; the references of a
\* page are the entries that point to it.
PagesOnce ==
    ~panic =>
      /\ Reached \cap mem.free = {}
      /\ \A page \in Reached : mem.ref[page] = Entries(page) /\ mem.ref[page] <= 1
      /\ Cardinality(KStacks) = Cardinality({p \in Procs : proc[p].kstack # 0})
      /\ KStacks \cap Targets(Reached) = {}

\* What is not reached is free: whatever forks, execs and exits fail half-way, no
\* page is lost. pmm.c:414 says of exit_range: "free level 0 page directory only
\* when all pde0s in it are already invalid".
NothingLost == ~panic => mem.free \cup Reached = Pages

\* proc.c:1020 says of do_execve that it calls load_icode "to setup new memory
\* space": a process with memory that returns from it has memory again.
ExecLoads ==
    [][\A p \in Procs :
         proc[p].state = "ALIVE" /\ proc[p].mm # NULL /\ proc'[p].state = "ALIVE"
           => proc'[p].mm # NULL]_vars
=============================================================================
