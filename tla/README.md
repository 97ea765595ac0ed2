# Verification of the uCore laboratory kernel

The repository holds a teaching kernel for RISC-V in stages (`src/lab1` ...
`src/lab8`). `lab8` is the last stage and contains all of the others, so the
models follow `src/lab8/kern`; paths below are relative to it unless they
start with `src/`. The kernel runs on one CPU. Concurrency comes from timer
interrupts, which the kernel shuts out with `local_intr_save`, and from
`schedule()`, which it calls at places of its own choice. System calls run
with interrupts off from entry to exit; kernel threads run with interrupts on.

## 1. Inventory

| Part | State | Operations | Interacts with | What makes it correct |
|---|---|---|---|---|
| scheduler core, round robin: `schedule/sched.c`, `default_sched.c` | run queue, `current`, `state`, `wait_state`, time slices, `need_resched` | `wakeup_proc`, `schedule`, class `enqueue`, `dequeue`, `pick_next`, `proc_tick` | called by every other part | the queue holds exactly the runnable processes off the CPU; nobody starves |
| timers: `sched.c` | delta list of `timer_t`, which live on kernel stacks | `add_timer`, `del_timer`, `run_timer_list` | `do_sleep`, timer interrupt, `wakeup_proc` | no timer outlives its frame; sleeps end; `expires` never wraps |
| process life cycle: `process/proc.c`, `trap/trap.c` | family links, flags, pids, `nr_process` | fork, exec, exit, wait, kill, yield, sleep, `trap` | scheduler, timers, memory, files | one family tree; no lost wakeup; zombies are collected; killed processes die |
| pid allocation: `get_pid` | `last_pid`, `next_safe`, `proc_list` | `get_pid`, links added and removed | fork, wait | no pid twice; it returns |
| semaphores and wait queues: `sync/sem.c`, `wait.c` | value, FIFO queue of `wait_t` | `up`, `down`, `try_down`, wake functions | scheduler | a permit is handed to exactly one thread |
| monitor: `sync/monitor.c` | `mutex`, `next`, `next_count`, condition variables | `cond_wait`, `cond_signal` | semaphores | one thread inside; counts say who waits |
| philosophers: `sync/check_sync.c` | states of the table, `iter` | take and put forks, twice | semaphores, monitor | neighbours never eat together; everybody gets his meals |
| console and stdin: `driver/console.c`, `fs/devs/dev_stdin.c` | ring of 512, buffer of 4096, queue of readers | timer interrupt moves characters, `dev_stdin_read` sleeps | wait queues, kill | order; no character twice; no reader forgotten |
| first-fit allocator: `mm/default_pmm.c`, `src/lab8/libs/list.h` | free list, `property`, flags, `nr_free` | `alloc_pages`, `free_pages` | everything that needs pages | list = maximal free runs in order; no page twice; no needless failure |
| stride class: `default_sched_stride.c`, `skew_heap.h` | skew heap, 32-bit strides | the class functions | not selected in lab8 | order of strides survives wrap-round |
| page tables, areas: `mm/pmm.c`, `vmm.c` | page tables, page `ref`, area list with a cache, mm count | map, unmap, copy, find | fork, exec, exit | reference counts exact; areas disjoint |
| kernel heap: `mm/kmalloc.c` | circular list of free blocks, list of large blocks | `slob_alloc`, `slob_free` | page allocator | units disjoint and merged, as large as asked |
| program loading: `do_execve`, `load_icode` | the process's mm, files | exec | files, areas | failure leaves nothing behind |
| files: `fs/file.c`, `fs.c`, `sysfile.c` | fd table, open counts, shared between threads | open, close, dup, read, fork copies | VFS | counts exact, closed once |
| VFS: `fs/vfs/*` | inode `ref_count`, `open_count`, device list | lookup, inc and dec, reclaim | SFS, devices | an inode is reclaimed once, after its last use |
| SFS: `fs/sfs/*` | inodes in memory and on the disk, dirty flags, bitmap, direct and indirect blocks | read, write, seek, truncate, sync, load, reclaim | files, disk device | a block belongs to one file; nothing written is lost when the inode leaves memory |
| devices, boot, libraries, user programs, `tools/mksfs.c` | - | straight-line I/O and formatting | - | - |
| lab 2: best fit, buddy, slub | free lists by size, order, cache | alloc, free | - | as for first fit |

Hard here are: wakeups that meet a process which has marked itself SLEEPING but
still owns the CPU; kills that race a timer, an exit or a character; data on
the kernel stack of a sleeper (`timer_t`, `wait_t`) that other code reaches
through a list; reparenting of zombies; hand-over of permits between signaller
and signalled; the pointer work of the free lists and of the skew heap; 32-bit
strides that wrap round; operations that fail half-way for want of memory, of
descriptors or of blocks; descriptor tables and address spaces that threads
share; sizes, positions and caches that are out of date when they are used.
`PROJECT.json` lists each of them under `hazards` at the line where it bites.

How the parts interact decides what is an atomic step. System calls run with
interrupts off and the kernel gives up the CPU only in `schedule()`, so an
operation that does not sleep is one step (allocators, areas, page tables,
files of the RAM disk), and one that does is cut where it sleeps (`do_wait`,
`do_sleep`, `down`, `cond_wait`, `dev_stdin_read`, and operations on files
whose inode another thread may be using).

## 2. Modules

| Module | Models | Kind |
|---|---|---|
| `Sched` | `sched.c` and the round-robin class, as operators on one record | operators |
| `Timers` | the delta list | operators |
| `Process` | life cycle of processes over `Sched` and `Timers` | state machine |
| `ProcessProofs` | theorems about the above | proofs |
| `Pids` | `get_pid` | state machine |
| `SkewHeap` | `skew_heap.h`, pointer by pointer | operators |
| `PriorityQueue`, `HeapQueue` | what a run pool promises, and a skew heap that implements it | abstract, state machine |
| `Stride` | the stride classes of lab6 and lab8 over `SkewHeap` | state machine |
| `PidsPoolPagesProofs` | theorems about `Pids`, `SkewHeap`, `HeapQueue`, `Stride`, `FirstFit` and `BestFit` | proofs |
| `Semaphores` | `up`, `down` | operators |
| `Philosophers` | the ring of seats | operators |
| `Dining` | what the philosophers promise | abstract specification |
| `PhilosophersSem`, `PhilosophersMon` | both halves of `check_sync.c` | state machines |
| `CheckSync` | `check_sync()`, either half | composition |
| `Queues` | lemmas about queues without repetition, `up` and `down`, rings, induction over numbers, remainders | proofs |
| `PhilosophersMonProofs`, `CheckSyncProofs` | theorems about the above | proofs |
| `Console`, `ConsoleProofs` | console ring, stdin buffer and readers, and theorems about them | state machine, proofs |
| `Contents` | what programs are promised of files | abstract specification |
| `Sfs`, `SfsProofs` | regular files of the simple file system, and theorems about them | state machine, proofs |
| `OpenFiles`, `ResourcesProofs` | descriptor tables, counts of inodes, what fork, exec and exit do to them; theorems about them and about `Areas` | state machine, proofs |
| `Areas` | areas of an address space and the checks of user addresses | state machine |
| `AddressSpaces` | page tables and pages through fork, exec, exit and wait | state machine |
| `Allocator` | what an allocator promises | abstract specification |
| `Lists`, `FirstFit` | `list.h`, and `default_pmm.c` over it | operators, state machine |
| `BestFit`, `Buddy`, `Slub` | the allocators of lab 2 | state machines |
| `EitherFit` | the choice of `init_pmm_manager` between the two fits | composition |
| `Heap` | SLOB, `kmalloc.c` | state machine |

Instances for TLC: `MCProcess`, `CheckSync`, `MCPidsAndPool`, `MCInputOutput`,
`MCAllocators`, `MCResources`, `MCAddressSpaces`, `MCSfs`. `CheckSync`,
`MCPidsAndPool`, `MCInputOutput`, `MCAllocators` and `MCResources` are sums: a
variable `part` (`half`), fixed in the initial state, says which component a
behaviour is about, the others stand still, and a property is the conjunction
over the parts of what the component says, or, in `MCPidsAndPool`, what one of them
says, which is also true while it stands still. `check_sync()` itself is such a sum,
two tables that share nothing; in the other four it saves one start of TLC per
component and lets variables of the same meaning be shared.

### Process

A process is its slot of `proc_struct`; `pc` says where it stands in the
kernel, or where `schedule()` will return to. A step ends where the code
enables interrupts or calls `schedule()`, or after one turn of a loop. Only the
process that owns the CPU takes steps; `irq` says that the handler of the
timer interrupt is active, which takes one step per expired timer.

* `do_exit` is `EnterExit` (the zombie state), `ExitNotify` (waking the parent
  and handing the children to init, interrupts off) and the call of
  `schedule()`. `do_wait` is the scan, the sleep and the collection. `do_sleep`
  is the marking, one step per turn of the loop of `add_timer`, the call of
  `schedule()`, and `del_timer` when it comes back.
* `TrapReturn` is the end of `trap()`: `PF_EXITING` first, `need_resched` next.
* `do_execve`: a success changes nothing the scheduler sees and is not a step;
  a failure is an exit and is covered by `SysExit` and `UserMain`.
  `SysForkFails` stands for every system call that returns an error at once.
  What exec does to memory and files is in `AddressSpaces` and `OpenFiles`.
* `Fork` begins at `local_intr_save`; before it only memory of the child is
  touched. For a kernel thread the wakeup that follows the critical section is
  part of the step; nobody else refers to the child in between.
* A killed init panics (`do_exit`): `pc[initproc] = "halted"` and the system
  stands still, as it does after the asserts at the end of `init_main`.
* `check_sync` starts `Workers` kernel threads; as the call is commented out in
  `init_main`, `Workers` may be 0. Its waits for them are part of the loop of
  waits of init.
* Sleeps on a semaphore or on the keyboard are not in this module; `Console`
  and the philosophers have them.

### Pids and the run pools

`Pids` is `get_pid` turn by turn. The processes on `proc_list` are a set and a
turn takes any of them that has not been looked at, so every order of the list
is covered; `do_fork` has interrupts off, so the list stands still meanwhile.

`SkewHeap` keeps the three links of every entry, those of entries that are out
of the heap included, because `skew_heap_insert` and `skew_heap_remove` are right
only if nobody reads them. `Stride` puts it under `schedule` and `wakeup_proc`.
Strides are words of `2 * HALF` values, `HALF` being 2^31 in the code; `total` is a
history variable with what a process really used. Processes come, sleep, wake up
and go; `steady` is a history variable that says that since the observation began
the `Starters`, which there were then, have computed and set priorities and
nothing else has happened. `PASS_0` is what a turn at priority 0 adds: in lab6 the
largest stride, in lab8 the quotient of the RISC-V division by 0.

### Philosophers

The kernel switches threads only where they sleep; the models let them take
turns after every step, which includes every behaviour of the kernel. A thread
asleep in `down()` already has the pc it will go on from and is in the queue of
the semaphore; `__up` takes it out when it hands the permit over. The mapping
to `Dining` is read from the pcs (`phase`) and from the rounds (`meals`).

### Console and files

In `Console` characters are numbered in the order of typing. One timer interrupt
is one step: empty the port into the ring, take one character out, store it,
wake all readers. A read runs to its end or to its sleep in one step. A process
killed in user mode may still make one more read before the trap that ends it.

`Sfs` has the blocks of the disk, the bitmap with its count, and of every file
the inode on the disk and the one in memory, with `dirty` and the number of
descriptors. A call of `file.c` on a regular file is one step: the RAM disk
never makes a caller wait, so the semaphores of an inode are free whenever
they are asked for. The last close writes a dirty inode back and drops it from
memory. The image of the disk is 480 kB: `NDIRECT + NENTRY >= NBLK`, as in the
code, where no file can outgrow its indirect block. `texts` and `positions` map
it to `Contents`, where a write may stop anywhere (the disk is full) but bytes
are never others than were written, and a hole reads as zeros.

### OpenFiles

Processes, tables of descriptors they may share (`CLONE_FS`), and inodes with
their two counts. An operation is cut in two where it may wait for an inode or
a device: between these another thread that shares the table may close the
descriptor, exit or exec. Files that exist and names that do not are told
apart, contents are not. An open may fail for want of memory, descriptors, an
existing or a missing file; a fork may fail for want of memory.

### Areas and AddressSpaces

`Areas` counts bytes: ranges that start in the middle of a page, cross adjacent
areas or touch the lowest page of the stack are what its properties are about.
`find_vma` and its cache, `mm_map`, `dup_mmap`, `user_mem_check` and
`copy_string` are there. `AddressSpaces` counts pages. Tables have two entries
and three levels; every table and page is taken from and given to one pool of
free pages, which says what is lost. `kmalloc` and `alloc_page` may fail at any
call (`Budgets` says after how many calls of `kmalloc`), and every error path of
`do_fork`, `do_execve`, `load_icode`, `copy_mm` and `dup_mmap` is followed.

### Allocators

In `FirstFit` the free list is the real one: `next` and `prev` of the head and of
every page. Callers free any run of pages they hold, as `default_check` does when
it frees a block piece by piece. `page_ref` and the reserved flag are left out,
as callers of `free_pages` have brought the first to 0 and never own a page with
the second. `BestFit` differs only in the search. A block that is freed above
every block of a non-empty list is linked twice: the loop of
`default_free_pages` (lines 141-151), like that of `best_fit_free_pages`, has no
`break` after the insertion at the end. `appended` records that this has
happened. The exactness properties are stated up to then, and
`MCFirstFitTail.cfg` shows what comes of it. `EitherFit` is one of the two up to
then, and a part of `MCAllocators`.

`Buddy` manages a range whose length is no power of two. `Heap` counts units and
gives and takes blocks as the ring of `slob_alloc` and `slob_free` does, with the
pages of large requests beside it. `Heap!LargeEnough`, a part of `MemoryOnce`,
promises the size that was asked for only to blocks of the ring: `find_order`
rounds down with each halving, so a run of pages may be short by less than a byte
a page, and no shorter. Without this exception the promise (`KmallocRoom`) does
not hold, see section 5. In `Slub` the free objects of a cache are one
list over all its slabs. All but `Slub`, whose objects are smaller than its
pages, are shown to implement `Allocator`.

## 3. Runs

| Run | Instance | Question |
|---|---|---|
| `process` | idle, init, 3 slots, slices of 1 tick, one kernel thread, sleeps up to 2, anyone may kill anyone | the safety properties of `Process` |
| `process_live` | 2 slots, slices of 2 ticks, users kill users | state diagram, no starvation, sleeps end, killed processes stop, orphans are collected |
| `process_kill` | 2 slots | a killed process that calls `wait` sleeps on: a finding |
| `check_sync` | 4 philosophers, 2 meals, at either table | exactness of permits, tokens and counts; refinement of `Dining` with liveness |
| `pids_and_pool` | 4 processes, 5 pids; a heap of 6 entries; 3 processes with strides of 3 bits (lab6, which compute) or 2 bits (lab8, which come and go) | uniqueness across the wrap of the numbers, and termination; the links form one tree, and the heap implements `PriorityQueue`; the pool is exact where the comparison is no order; strides stay an order while processes compute |
| `input_output` | 2 readers, ring of 3, buffer of 2, 5 characters; 2 files, 2 descriptors, disks of 4 and of 3 blocks of 2 bytes | order, no doubling, no forgotten reader, input is read; blocks are named once; files implement `Contents` |
| `console_kill` | 1 reader | a killed reader goes back to sleep: a finding |
| `sfs_trunc` | 1 file, 2 descriptors | a write at a position past a truncation panics: a finding |
| `allocators` | first and best fit with 8 pages until a block is appended, and with 3 pages; buddy with 9; SLOB with 3 pages of 5 units; slub with 3 pages | exact lists and counts, nothing lost or given twice, room for what was asked (in the SLOB heap but for what `find_order` rounds away), no needless failure but in the SLOB heap; refinement of `Allocator`, but for slub |
| `first_fit_tail` | 4 pages | pages handed out twice after an append: a finding |
| `resources` | 2 processes: 2 tables of 2 descriptors; 2 address spaces, with 24 pages and with 14; areas over 4 pages of 2 bytes | counts of tables and inodes, asserts, areas and checks, pages owned once and given back |
| `spaces_across` | the same with a program of two segments in neighbouring tables | a table is lost at exit: a finding |

The bounds. Three user slots make the smallest system in which a dying process
has a parent asleep in `wait`, a zombie child and a running child at once, and
in which a freed slot is used again; two timers with a delta between them need
two sleepers and sleeps of 2. The slots are interchangeable, which `SYMMETRY`
uses in the run without liveness. Four philosophers are the fewest of which two
that are not neighbours eat while the others wait; two meals bring everyone back
to the table after a hand-over. With four processes and five pids one pid stays
free, the tightest case the assumption allows. Six entries make heaps in which a
removed entry has two children, a sibling and a grandparent; words of 3 bits
let strides wrap round twice within `MAX_TOTAL`. For the console both buffers
wrap and overrun. A file of the two sizes a text of three bytes can give, with
seeks to 4, uses the direct block, makes the indirect block and gives both
back; on three blocks the disk fills up before, at and after the indirect block.
Eight pages hold four blocks with gaps, so a freed block can meet a neighbour on
no side, one or both, at the front and in the middle; three pages let every call
after an append be tried. Nine pages are split by the buddy allocator into blocks
of 8 and 1, so merges stop both at the highest order and at the end of the
range. Five units to a page make requests of the heap that fit exactly, leave one
unit, or need a page of their own, or two; 21 is a byte more than two pages, the
least size that `find_order` gives too little. The sizes for slub are on both sides
of its limit, and one page holds two objects or one. Two processes with two
tables meet in every way of sharing: one table, two, one given up by exec or
exit. `kmalloc` fails after any number of calls up to 6, which is all that a fork
or an exec makes: a fork that duplicates a process of two areas makes five, one
of three areas six, and the last of them is `copy_files`, whose failure takes the
whole copy back (`proc.c:581`). `NPAGE` = 24 is more than two processes ever need, so that only `kmalloc`
fails; with 14 pages run out in the middle of a fork or an exec.

`VIEW` in `allocators` and `pids_and_pool` drops links, lengths and flags of
what is in no list, or of what is written before it is read, so two states with
the same view have the same future. For the fits this holds until an append,
and there a behaviour of the parts `first` and `best` ends. `CHECK_DEADLOCK
FALSE` is used where the system may stop: after a failed assert or in an endless
loop, when nobody types or reads any more, when all processes have exited or
the memory for lost tables (`MAX_LOST`) is used up, and where the part
`steady` ends its observation (`MAX_TOTAL`).

`NothingLost` does not hold when pages run out in the middle of a fork or an
exec: `exit_range` keeps a directory if an entry of the area was never filled,
which is the case for the tables a failed `copy_range` or `pgdir_alloc_page` did
not come to (the other half of the finding `spaces_across`). So `resources`
checks `NothingLost` where `kmalloc` fails, and where pages run out (`tight`)
that none is given back or handed out twice (`PagesOnce`).

### Fairness

* `Process`: timer interrupts keep coming and one that is pending is taken when
  interrupts are on again (`SF` on `Tick`: it is disabled again and again while
  the kernel runs with interrupts off); the handler ends (`WF`); the
  interrupted code gets on between two interrupts (`SF` on `KernelStep`). Nothing is
  assumed of user programs: `RunnableRuns` holds among processes that never
  make a system call.
* philosophers: while a thread is awake some thread runs (`WF` on the whole
  step), which is `RunnableRuns` of `Process`, checked there. No stronger
  fairness is needed: no thread loops, so the others cannot keep one waiting.
* `Console` and `input_output`: ticks go on, and a woken reader runs. Typing is
  not fair.
* `Pids`: the loop goes on, as interrupts are off.

The allocators, files and address spaces have no liveness of their own: a call
is a step, and `FreeEnds`, `StopsOnlyAfterAppend` say that its loops end.

## 4. Proofs

The theorems hold for every value of the constants that meets the assumptions
of the modules; where those say more than a type they say it because the code
does (`SchedAssumption`, `ProcessAssumption`, `PidsAssumption`,
`PhilosophersAssumption`, `ConsoleAssumption`, `OpenFilesAssumption`,
`AreasAssumption`, `HeapQueueAssumption`, `StrideAssumption`). The bounds that keep
TLC's state spaces finite (`MaxTyped`, `MAX_LOST`, `MAX_TOTAL` and the like) are constants too, so they may
be as large as one likes.

### Process (`ProcessProofs`)

For every number of slots, every slice, every set of kill targets, every bound
on sleeps and any number of kernel threads: `TypeOK` (`TypeCorrect`),
`RunQueueExact` (`QueueExact`), `NoAssertFails` (`AssertsHold`),
`NoDanglingTimer` (`TimersLive`), `FamilyTree` (`TreeKept`), `ProcessCount`
(`CountExact`), `DeadStaysOff` (`ExitFinal`), `StateDiagram` (`DiagramKept`),
`NoLostWakeup` (`WakeupsKept`) and `InitQuitsLast` (`InitLast`). All rest on
one inductive invariant,

    IInv == TypeOK /\ SchedInv(sched) /\ PcInv /\ KinInv /\ TimerInv /\ ProcessCount

`RunQueueExact` alone is not inductive. A wakeup keeps the queue exact only if
its target is not a zombie, and that the target of a timer is none is known
from its `pc` (`TimerInv`: the owner of a timer is inside `do_sleep`) together
with the agreement of `pc` and `state` (`PcInv`). That the parent woken by
`ExitNotify` is none is known from `KinInv`: no parent has finished its own
`ExitNotify`. That `run_timer_list` never decrements a 0 needs
`TimerInv`: while no interrupt is handled the head is not due, which
`insert_timer` keeps because its cursor is only at the front with ticks left.
The first half of the module is what `wakeup_proc`, `schedule`, the tick and the
list operators return, then there is a lemma per action, with a step per
conjunct it can disturb.

The last three follow from `Effects`, proved action by action (`StepEffects`):
who may change whose state, program counter, timer and family in one step.
`StateDiagram` reads it off. `NoLostWakeup` adds that a sleeping parent is `Fed`:
it has a child it waits for, and a zombie among these has not come to its
`ExitNotify` yet. A step can take a child away only from a parent that runs, and
what it hands to init it also wakes init for. `InitQuitsLast` needs that there
is no ring of parents beside the tree, which no bound on chains of parents says
by induction; `TreeInv` says instead that every set of live processes has a
member whose parent is outside it. Taken for the set of everyone but init this
gives a child of init, so an init without children is alone.

### Pids (`PidsPoolPagesProofs`)

For any number of processes and any `MAX_PID` no pid is given twice
(`PidsUnique`), from `TypeOK /\ UniquePids /\ SafeRange`: what
`next_safe` promises makes the fast way out of `get_pid` unique, and the
processes already scanned not having the candidate makes the end of a scan
unique. `NextSafeTrue` and `PidsTyped` come with it.

### Philosophers (`PhilosophersMonProofs`, `CheckSyncProofs`)

For any number `N` >= 2 of philosophers and any number of meals
`CheckSync` satisfies `SectionExact` (`Sections`) and `PermitsExact` (`Permits`),
and either half does at the table only what `Dining` allows (`ImplementsTable`,
the safety part of `ImplementsDining`). Each half has an inductive invariant of its own:

    SemInv         == TypeOK /\ SleepInv /\ CallInv /\ MutexExact /\ StateInv
                        /\ PermitInv /\ TestInv
    MonProofs!IInv == TypeOK /\ QueueInv /\ CvQueueInv /\ TokenInv /\ CountersExact
                        /\ CallInv /\ StateInv /\ PermitInv /\ TestInv

That neighbours do not eat together (`StateInv`) rests on the test of
`phi_test_*` being still true when it is acted upon (`TestInv`), which rests on
nobody else running inside (`Alone`). For the semaphores this is the mutex. In
the monitor it is the token: `TokenInv` says that it is with one thread or is the
permit of one semaphore, and it stays true through a hand-over because `CvQueueInv`
and `PermitInv` say who can sleep on a condition variable (only its philosopher, in
`cond_wait`, and hungry or just being signalled), and `CountersExact` that
`cond_signal` is a no-op exactly when nobody waits. `PermitInv` is also why nobody
eats on an old permit: the value of a semaphore is 1 exactly between the `up` and
the `down` that belong together. `TokenCounts` turns `TokenInv` into the sum that
`OneToken` states. `CheckSync` extends the module of the semaphores and has an
instance of that of the monitor; in `CheckSyncProofs` `SameMon` says that what is
proved of the module is proved of this half.

### Console (`ConsoleProofs`)

For buffers of any two sizes, any number of readers and any lengths of reads:
`CharsExact` (`CharsKept`) and `ReadersWoken` (`ReadersKept`) of the run
`input_output`, from

    IInv == part = "stdin" => CharInv /\ WaitInv

`InOrder` and `CharsOnce` speak of a sequence put together from three buffers,
two of them rings, and cannot be carried through a step as they are. `CharInv`
says it place by place. Characters are numbered, and `OrderInv` has: those stdin
was given are all different and below those in the ring, which ascend, below
those in the port. `ExactInv` has that before an overrun the place tells the
number. The work is in the ring: the loop of `cons_intr` may go round it more
than once, and an index that wraps to the reader's makes a full ring an empty
one (`IntrFills`, `IntrKeeps`). `CharsInPlace` takes the sequence apart again.
`WaitInv` says of a sleeper that he is in the queue and stdin_buffer is empty;
that one who was woken by a character has left the queue and one who was woken
by a kill has not, as `wakeup_flags` tell; it is what makes the removal by
`wait_current_del` right in either case.

### Files (`SfsProofs`, `ConsoleProofs`)

For any number of files, descriptors and blocks, any size of a block, any number of
direct blocks and of entries of the indirect one: every block is free or named once
and the free ones are counted (`FilesBlocksOnce`), a read that does not fail returns
the bytes of the file (`FilesReadExact`), nobody asks for a block past the next one
(`FilesLoadInRange`), and what programs see is what `Contents` says
(`FilesImplement`). The hypothesis is

    Layout == sizes are numbers, a block holds at least a byte and an indirect block
              at least an entry, programs write bytes at positions in Nat,
              Descriptors is finite, CLOSED is not the state of an open descriptor,
              SHARED_TRUNC = FALSE

of which the last conjunct is the one that says something: with `O_TRUNC` on open
files the claims do not hold (`sfs_trunc` and section 5). `FilesTyped` also assumes
`NBLK <= NDIRECT + NENTRY`, as the image of the disk has it: on a larger disk, and on
no other (`FullFile`), a file with all its blocks meets the assert of
`sfs_bmap_get_nolock`, which `TypeOK` rules out. All rest on

    SfsInv == DiskInv /\ Referred /\ InFile

that is, after every call: blocks are free or have one name (`NamedOnce`,
`FreeUnnamed`); each file has its first `blocks` blocks, its inode none behind them,
its size is within them, and its blocks are zero behind its end (`Intact`); an
inode that is not marked is on the disk, but for blocks counted in the indirect
block since (`OnDisk`); `ref` counts descriptors, whose positions are within
the file. None of the properties is inductive without the others. That an
indirect block may hold more entries than `blocks` says is what an enlargement
leaves that fails half-way, and is why `Filled` says nothing of the entries
behind; that the blocks behind the end are zero, that a seek past the end shows
zeros and not the bytes of a file that is gone.

An operation is a composition of steps on the record `s` of `Sfs`, as in
`OpenFiles`; `Good(s, T)` holds between two of them, with `T` the blocks of the other
files, which `Keeps` says are untouched. `sfs_bmap_get_sub_nolock` takes one block or
two, and may give one back (`OldEntry`, `NewIndirect`). The three loops are folds
over sequences, `Enlarged`, `Reduced` and `Parts`; `EnlargeRun`, `ReduceRun` and
`IoRun` give them by their turns, so that induction over the number of turns needs a
lemma for one (`EnlargeStep`, `ReduceStep`, `IoStep`). `PartsSpan` shows that the parts
cut from a range cover it without gap or overlap for any offset and end, which is
the arithmetic of `sfs_io_nolock` with its three cases.

For the refinement `Text(s)` is what the record shows. A write of which `n` bytes
found room is `Written` of the first `n` (`WrittenText`), a seek past the end adds zeros
(`GrownText`), what fails or settles an inode shows nothing (`SameText`, `SettledText`).
`Contents` has no short reads, and `KnownFound` and `SoundRead` are why there are
none: a block within the size is always found. Then each call is a step of
`Contents` or changes neither texts nor positions (`NextMoves`).

`MCInputOutput` has its two file systems as instances of `SfsProofs`, which extends
`Sfs`, and `ConsoleProofs` takes from them what the run checks: `BlocksExact`
(`BlocksKept`) and `ImplementsContents` (`ContentsKept`).

### Open files (`ResourcesProofs`)

For any number of processes, tables, descriptors and inodes of the three kinds,
any flags of opens and clones: `FilesExact` (`FilesKept`: every entry counts its
users, every inode its open entries and all that refers to it) and
`FilesAssertsHold` (`AssertsKept`) of the run `resources`, from

    FilesInv == ProcsOK /\ TablesOK /\ OneOpener /\ Good(Now, Using, Opening, Kept)

A function of `file.c` is a composition of steps on a record, and between two
of them the counts are not exact: after `fd_array_acquire` there is a user no
process is, after `inode_ref_inc` a reference nothing has. `Good(s, users,
opening, kept)` takes these debts as parameters, so that every step has a lemma of
its own that says how it changes them (`Opens`, `Acquires`, `Drops`, `Releases`,
`Closes`, `Dups`, ...), and an action is a chain of lemmas that ends with the
debts the next state really has. `EntryChange` and `PwdChange` are the two that
count: if one entry, or the directory of one table, changes hands, so do
references by the difference. `files_destroy` and `dup_files` walk over a whole
table; they are recursive functions, `ClosesAll` and `DupsFiles` go by induction
along them. What makes it inductive: `OneOpener` (a descriptor being opened
belongs to one process, so two threads that share a table cannot finish one
open twice), `TablesOK` (a table outlives its sharers, and is blank when it is
dropped, which is why a child that takes it finds no stale entry), and in
`EntryOK` that a closed file still has a user, who will give it back.

### Areas (`ResourcesProofs`)

For any size of a page, any bounds of the user part, any number of areas and any
flags: `AreasExact` of the run `resources` (`AreasKept`), whose conjuncts are also
stated for `AreasSpec` alone (`Apartness`, `FindsExactly`, `ChecksExactly`,
`CopiesExactly`, `DuplicatesExactly`), from

    AreasInv == Sorted(mmap_list) /\ mmap_cache \in CacheOf(mmap_list)
                  /\ overlap \in BOOLEAN

`Sorted` is what the list promises: whole pages of the user part, each behind the
one before. The invariant is small; the work is in what it implies of loops that
look at a part of what they answer for. `insert_vma_struct` compares a new area
with its two neighbours, and `Inserts` gets the rest from the order of the list.
`user_mem_check` looks at one byte of each area, and `Checks` says it answers for
every byte of the range: before each turn all bytes behind it are allowed or one
is known that is not, and the n-th turn is behind the n-th area, so the loop
ends within the turns the model gives it (`Passed`, `TurnPasses`). That a stack
may not be written in its lowest page does not break this: what is allowed at a
byte of an area is allowed at every later one (`AllowedBytes`). `copy_string` asks for the
rest of a page although the string may end before it; `Copies` needs that areas
are whole pages, so that the rest of a page is allowed when one byte of it is
(`NextMultiple`). `dup_mmap` walks backwards and inserts each area in front of
those behind it (`InsertsInFront`, `Duplicated`). `OverlapRefused`, which the code
does not keep (section 5), is not part of it: a behaviour of the model ends when
that assert fails.

### Run pool (`PidsPoolPagesProofs`)

For any number of entries and any keys: `TreeExact` (`HeapKept`) and the
refinement `IsPriorityQueue` (`HeapImplements`). For any number of processes, any
width of strides, any priorities and any price of a turn at priority 0:
`StrideTypeOK` and `PoolExact` (`PoolKept`). And for the class of lab6: `SpreadBounded`
(`SpreadKept`), `PicksMinimum` (`TurnsFair`) and `TurnCharged` (`TurnsCharged`).

`TreeExact` follows links from the root, as far as they go, and says nothing of the
part of a tree below an entry, which is what `skew_heap_merge` and
`skew_heap_remove` work on. The invariants say instead that there is a function
`sub` that gives every entry the set of entries below it, itself included:

    Tree(h, r, S, sub, le)    the entries S are a tree below r; the children of an
                              entry are the roots of separate trees, parent and child
                              pointers agree, e is above f only if <<e, f>> \in le
    HeapInv   == Heap(links, run_pool, queued, Item, ByKey)

A tree can then be taken apart (`Subtree`), put together under a new root
(`Joined`), left alone by changes elsewhere (`Untouched`) and have an entry in the
middle replaced by what is left of it (`Cut`) without induction. Two things need
it: `MergeTrees`, because `skew_heap_merge` calls itself, goes by the number of
entries of the two trees and shows on the way that the recursion ends within the
depth the model gives it; `SeenExactly`, that an observer who follows the links
meets the entries of the tree and no other, goes by the number of links.
`InsertHeap` and `RemoveHeap` are what the two operations do. They need that an
entry outside the heap may have any links at all, that `skew_heap_insert` resets
them, and that the parent pointer of the root is `NULL`, by which
`skew_heap_remove` knows it.

`le` is what a heap is ordered by, and is a parameter since the class has three:

* for `HeapQueue` the keys. The root has the smallest (`RootFirst`).
* for `PoolKept` every pair. Where strides overflow, `proc_stride_comp_f` is no
  order and the heap is none, but the operations still keep a tree of the same
  entries. So no process is lost by an overflow, which the code can meet (a
  process that slept long), nor by a price of 2^32 - 1 (lab8).
* for `SteadyInv`, which holds while `steady` does, what the processes really used:

      SteadyInv == types /\ Holds(Pool, Queued, ByTotal(total)) /\ Close
                     /\ each lab6_stride is its total mod 2 * HALF

`Close` (no two totals further apart than `BIG_STRIDE`) alone is not inductive: the
process that gets the turn is the root of the heap, and that it has used least needs
the order of the heap, which was built by comparing words. As long as no two totals are further apart than
`BIG_STRIDE` < `HALF`, the sign of the difference of the words is that of the
difference of the totals (`WordsApart`, `SignOfWords`), however often they have wrapped
round; so the heap is ordered by the totals, its root has used least and may use
`BIG_STRIDE` more. The stride of the root changes while it is still in the heap, as
in the code; as the root is then removed, and the merge of its subtrees never
compares it, the order of the others is untouched (`SameOrder`, `Scheduled`).
`SpreadKept`, `TurnsFair` and `TurnsCharged` have the hypothesis

    Charges == PASS_0 \in 1..BIG_STRIDE /\ Priorities \subseteq 0..BIG_STRIDE

lab6 meets the first half, as it adds `BIG_STRIDE` at priority 0, and lab8 does not
(section 5). The second half is an assumption about programs: a priority above
`BIG_STRIDE` makes a turn free.

### Page allocators (`PidsPoolPagesProofs`)

For any number of pages and any sequence of calls, until a block is appended:
`FirstFitExact` and `BestFitExact` say that the list is the free memory
(`ListExact`, `CountExact`), that the loops and asserts do not stop the kernel
(`StopsOnlyAfterAppend`), that no page is given twice (`NoPageTwice`) and that a
request fails only if there are not that many free pages in a row. `FirstFitLowest`,
`BestFitShortest` and `FitsRightAlways`, which states the property of the run, say
where memory is taken from; `FirstFitHandsOut` and `BestFitHandsOut` that every step
is one of `Allocator` or does not change who has what. The hypothesis about
appended blocks is needed: without it the code is wrong (`first_fit_tail`).

    FitExact == Linked(list, PageProperty)              links, both ways, ascending
             /\ Parts(Free, PageProperty, property)     the blocks are the free pages
             /\ Spaced(PageProperty, property)          and do not touch
             /\ nr_free = Cardinality(Free) /\ status = "ok" /\ types

`ListExact` describes the blocks by what they are (maximal free runs);
`FitExact` by how they lie to each other, which a split or a merge changes at one
place. `AddLinked` and `DelLinked` are what `list_add` and `list_del` do to a list,
`SplitParts`, `WholeParts`, `AddParts` and `MergeParts` what happens to the blocks.
Between the insertion of a block and its merges the blocks are still the free pages,
but the new one may touch both neighbours, and after `MergeLow` only the one above:
`MergesLow` and `MergesHigh`. A search is a walk of at most `NPAGES + 1` steps along
`next`; `WalkEnds` shows by induction over its steps that it meets every block once,
in ascending order, and then the head, so that no loop of the code is endless and the
first block that is large enough is the lowest. That no run of free pages spans two
blocks (`RunInBlock`) makes "no block is large enough" mean "no n free pages in a
row".

### What the proofs have in common

`Queues` has the lemmas several of them use. A recursive function exists as it
is defined, and a fact about all its values is proved with `Induction` (a
set of numbers that has 0 and with each number its successor): the library's
induction rules take an operator as a parameter, which none of the provers here
can instantiate. `IntrTurns`, `CloseTurns`, `DupTurns`, `WalkTurns`, `MergeBelow` and `Deeper` use this
to give loops and recursions of the models by their turns, and `EnlargeRun`,
`ReduceRun` and `IoRun` the same for folds.

### Only model-checked

* Liveness, out of the prover's reach: `RunnableRuns`, `SleepEnds`,
  `KilledStops`, `OrphansCollected`, `ForkReturns`, `TypedIsRead`, the fairness
  part of `ImplementsDining`.
* `ListsExact`, `MemoryOnce`, `FailsOnlyWhenFull` and `HandsOutFree` of all the
  allocators: what they say of first fit and best fit is proved, what they say of
  the buddy allocator, the SLOB heap and slub is not. Address spaces
  (`PagesOnce`, `NothingLost`): not proved, see section 6.

## 5. Findings

Shown by a run that expects a violation:

* `process_kill`: a process killed while runnable that then calls `wait` goes to
  sleep, since `do_wait` does not look at `PF_EXITING`; a second kill does not
  wake it. `KilledStops` states what does hold.
* `console_kill`: the same in `dev_stdin_read` after a wakeup by a character.
* `first_fit_tail`: the missing `break` in `default_free_pages`; the allocator
  gives pages to two callers. `ListsExact` shows that nothing else is wrong with it.
* `spaces_across`: `exit_range` (`mm/pmm.c:411`) decides about a directory by the
  entries of one area, where its comment (`:414`) speaks of all.
* `sfs_trunc`: a descriptor whose position another open with `O_TRUNC` has left
  beyond the next block panics at its next write (`sfs_inode.c:356`).

The modules state more that the code does not keep. These definitions are in no
run; each is an invariant (or, for `ExecLoads` and `TurnCharged`, an action
property) that TLC refutes within seconds on the instance named:

| Definition | What the code does instead | Instance |
|---|---|---|
| `OpenFiles!FilesCounted` | `do_exit` puts the files inside `if (mm != NULL)` (`proc.c:651`): an exec that fails after its mm is gone exits without it | part `files` |
| `OpenFiles!ReclaimedWhenUnused` | `vfs_open` returns `-E_EXISTS` without giving back the reference of the lookup (`vfsfile.c:47`) | part `files` |
| `OpenFiles!NotADirectory` | `getdirentry` on a regular file asserts instead of returning an error (`file.c:330`) | part `files` |
| `OverlapRefused` of `Areas` | `mm_map` lets pass a range that starts in a gap and reaches the next area; `vmm.c:115` asserts | part `areas` |
| `AddressSpaces!ExecLoads` | `load_icode` fails with `ret` still 0 (`proc.c:773`, `:829`), and the process returns to user mode without an mm | part `spaces` |
| `Heap!KmallocRoom` | `find_order` halves with rounding down (`kmalloc.c:223`): `kmalloc(8193)` gets order 1, 8192 bytes, and in the model 21 bytes get two pages of ten; the sizes lab8 asks for with a constant come out right | part `heap`, as it is |
| `Heap!SlobSizeHolds` | `__kmalloc` and the assert of `slob_alloc` (`kmalloc.c:99`) disagree about what is small by one unit | part `heap`, as it is |
| `Heap!FromPages` | `kmalloc(0)` hands out the static arena | part `heap`, with size 0 |
| `Slub!PartialHaveFree` | a slab that is not the current one stays on `partial_slabs` when it is full (`slub.c:310`) | part `slub`, as it is |
| `Slub!PageServed` | one page is a larger request than any cache serves (`slub.c:382`) | part `slub` |
| `Stride!NoOverflow` | a process that is created or woken late has an old stride, and differences pass half the range | part `fresh` (`Lab8!`) |
| `Stride!TurnCharged` | lab8 divides by priority 0 (`default_sched_stride.c:138`): the turn moves the process forward | part `fresh` (`Lab8!`) |
| `NoPageTwice` of `BestFit` | the same missing `break` in `best_fit_pmm.c:203` | part `best3`, as it is |
| `Sfs!BlocksAgree` | an enlargement that fails on a full disk leaves blocks beyond the size; a later truncation asserts (`sfs_inode.c:957`) | part `full` |

With `O_TRUNC` on open files (`SHARED_TRUNC`) and a full disk `ImplementsContents`
does not hold either: a write at a stale position that fails leaves a size
beyond the blocks, and a block added through an existing indirect block does not
mark the inode dirty, so that old bytes come back when the file is opened again.
The run therefore leaves this combination out.

## 6. Not modelled, and what is left

* Directories of the file system, lookup of names, mounting, the device list: a
  program can neither create nor remove a name in lab8 (no file system has a
  `vop_create`), so names never change after `mksfs` has made the image; a lookup
  is the inode it returns. There is no crash recovery: the disk is memory.
* The mutexes of the file system are always free, as no holder sleeps.
* Swap, which lab8 compiles and does not call; the disk and stdout devices, which
  copy between buffers; boot, debugging, output, string and formatting functions,
  which keep no state.
* User programs, which `Process` replaces by any sequence of calls, and the image
  builder, a host program.
* The earlier stages of the kernel: `lab8` contains them, with the exception of
  the allocators of lab 2 and the class of lab6, which have modules. They make up
  most of the lines of the repository, together with headers of constants.
* Of the semaphores `try_down`, which nobody calls.

Left to do: theorems for `PagesOnce` of the address spaces and for the buddy, SLOB and slub
allocators, for every value of the constants; one model of `Process` with sleeps on
semaphores and the keyboard; an abstract alarm clock that `Timers` implements.
