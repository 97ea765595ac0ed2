------------------------------- MODULE Stride -------------------------------
(***************************************************************************)
(* The stride scheduling class, default_sched_stride.c of lab8 and of      *)
(* lab6, in place of the round-robin class under schedule and wakeup_proc. *)
(* Strides are unsigned words of 2 * HALF values and are compared by the   *)
(* sign of their difference; HALF is 2^31 in the code.                     *)
(*                                                                         *)
(* The time slices, which the class handles as the round-robin class does  *)
(* (module Sched), are left out: a process loses the CPU at any moment.    *)
(***************************************************************************)
EXTENDS SkewHeap, Sequences

CONSTANTS
    Entry,          \* the process structures
    idleproc,       \* it runs when the pool is empty and is never in it
    HALF,           \* of the values of lab6_stride
    Priorities,     \* the arguments of lab6_set_priority
    PASS_0,         \* the word pick_next adds for the priority 0
    Starters,       \* the processes there are when the observation begins, in the
                    \* order of their forks
    MAX_TOTAL       \* the observation ends when a process has used more

Word == 0..2 * HALF - 1

BIG_STRIDE == HALF - 1

\* Every Starter is forked once.
ASSUME StrideAssumption ==
    /\ IsFiniteSet(Entry) /\ NULL \notin Entry /\ idleproc \notin Entry
    /\ HALF \in Nat \ {0} /\ PASS_0 \in Nat /\ Priorities \subseteq Nat
    /\ Starters \in Seq(Entry)
    /\ \A m, n \in DOMAIN Starters : Starters[m] = Starters[n] => m = n

VARIABLES
    heap, lab6_run_pool,    \* the run pool of rq
    proc_num,
    lab6_stride, lab6_priority,
    state,                  \* "FREE", "RUNNABLE" or "SLEEPING"
    current,
    total,                  \* history: the stride without its wrapping round
    steady                  \* history: since the observation began the processes
                            \* there are have computed and done nothing else

stridevars == << heap, lab6_run_pool, proc_num, lab6_stride, lab6_priority, state,
                 current, total, steady >>

Difference(x, y) == (x - y + 2 * HALF) % (2 * HALF)

\* Mutant: the words are compared as numbers.
proc_stride_comp_f_unsigned(stride) ==
    [e \in Entry \X Entry |->
       IF stride[e[1]] > stride[e[2]] THEN 1
       ELSE IF stride[e[1]] = stride[e[2]] THEN 0 ELSE -1]

proc_stride_comp_f(stride) ==
    [e \in Entry \X Entry |->
       LET c == Difference(stride[e[1]], stride[e[2]])
       IN  IF c = 0 THEN 0 ELSE IF c < HALF THEN 1 ELSE -1]

\* s: the run pool, the strides and current, as a handler goes along.
Pool == [heap |-> heap, root |-> lab6_run_pool, num |-> proc_num,
         stride |-> lab6_stride, total |-> total, current |-> current]

stride_enqueue(s, p) ==
    LET after == skew_heap_insert(s.heap, s.root, p, proc_stride_comp_f(s.stride))
    IN  [s EXCEPT !.heap = after.heap, !.root = after.root, !.num = @ + 1]

stride_dequeue(s, p) ==
    LET after == skew_heap_remove(s.heap, s.root, p, proc_stride_comp_f(s.stride))
    IN  [s EXCEPT !.heap = after.heap, !.root = after.root, !.num = @ - 1]

\* Mutant: the stride goes up with the priority.
Pass_product(priority) == priority % (2 * HALF)

\* What a turn costs. No process above priority 0 divides by it.
Pass(priority) ==
    IF priority = 0 THEN PASS_0 ELSE BIG_STRIDE \div priority

\* The root of the pool and its new stride.
stride_pick_next(s) ==
    LET p == s.root
    IN  [s EXCEPT !.stride[p] = (@ + Pass(lab6_priority[p])) % (2 * HALF),
                  !.total[p] = @ + Pass(lab6_priority[p])]

\* schedule() when the states of the processes are st.
schedule(s, st) ==
    LET queued == IF s.current # idleproc /\ st[s.current] = "RUNNABLE"
                    THEN stride_enqueue(s, s.current) ELSE s
    IN  IF queued.root = NULL THEN [queued EXCEPT !.current = idleproc]
        ELSE [stride_dequeue(stride_pick_next(queued), queued.root)
                EXCEPT !.current = queued.root]

NoLinks == [e \in Entry |-> NULL]

EmptyPool == [heap |-> [left |-> NoLinks, right |-> NoLinks, parent |-> NoLinks],
              root |-> NULL, num |-> 0, stride |-> [p \in Entry |-> 0],
              total |-> [p \in Entry |-> 0], current |-> idleproc]

\* The Starters have been forked one after the other in one turn.
StartPool ==
    LET pool[n \in 0..Len(Starters)] ==
          IF n = 0 THEN EmptyPool ELSE stride_enqueue(pool[n - 1], Starters[n])
    IN  pool[Len(Starters)]

StrideInit ==
    /\ lab6_priority = [p \in Entry |-> 0]
    /\ state = [p \in Entry |->
                  IF \E n \in DOMAIN Starters : Starters[n] = p THEN "RUNNABLE"
                  ELSE "FREE"]
    /\ heap = StartPool.heap
    /\ lab6_run_pool = StartPool.root
    /\ proc_num = StartPool.num
    /\ lab6_stride = StartPool.stride
    /\ total = StartPool.total
    /\ current = idleproc
    /\ steady = TRUE

Become(s) ==
    /\ heap' = s.heap
    /\ lab6_run_pool' = s.root
    /\ proc_num' = s.num
    /\ lab6_stride' = s.stride
    /\ total' = s.total
    /\ current' = s.current

-----------------------------------------------------------------------------

Observed == \A p \in Entry : total[p] <= MAX_TOTAL

\* A slice is used up, or the process yields.
Switch ==
    /\ Become(schedule(Pool, state))
    /\ steady' = (steady /\ Observed)
    /\ UNCHANGED << state, lab6_priority >>

\* The current process waits for something.
Sleep ==
    LET asleep == [state EXCEPT ![current] = "SLEEPING"]
    IN  /\ current # idleproc
        /\ state' = asleep
        /\ Become(schedule(Pool, asleep))
        /\ steady' = FALSE
        /\ UNCHANGED lab6_priority

\* wakeup_proc of a process that sleeps.
Wakeup(p) ==
    /\ state[p] = "SLEEPING"
    /\ state' = [state EXCEPT ![p] = "RUNNABLE"]
    /\ Become(stride_enqueue(Pool, p))
    /\ steady' = FALSE
    /\ UNCHANGED lab6_priority

\* do_fork: alloc_proc starts with stride and priority 0.
Fork(p) ==
    /\ state[p] = "FREE"
    /\ state' = [state EXCEPT ![p] = "RUNNABLE"]
    /\ lab6_priority' = [lab6_priority EXCEPT ![p] = 0]
    /\ Become(stride_enqueue([Pool EXCEPT !.stride[p] = 0, !.total[p] = 0], p))
    /\ steady' = FALSE

Exit ==
    LET gone == [state EXCEPT ![current] = "FREE"]
    IN  /\ current # idleproc
        /\ state' = gone
        /\ Become(schedule(Pool, gone))
        /\ steady' = FALSE
        /\ UNCHANGED lab6_priority

lab6_set_priority(n) ==
    /\ current # idleproc
    /\ lab6_priority' = [lab6_priority EXCEPT ![current] = IF n = 0 THEN 1 ELSE n]
    /\ UNCHANGED << heap, lab6_run_pool, proc_num, lab6_stride, state, current,
                    total, steady >>

StrideNext ==
    \/ Switch \/ Sleep \/ Exit
    \/ \E p \in Entry : Wakeup(p) \/ Fork(p)
    \/ \E n \in Priorities : lab6_set_priority(n)

StrideSpec == StrideInit /\ [][StrideNext]_stridevars

\* In lab6 a turn costs something and at most BIG_STRIDE.
Charges == PASS_0 \in 1..BIG_STRIDE /\ Priorities \subseteq 0..BIG_STRIDE

-----------------------------------------------------------------------------
(* Properties *)

StrideTypeOK ==
    /\ heap \in Heaps(Entry)
    /\ lab6_run_pool \in Entry \cup {NULL}
    /\ proc_num \in 0..Cardinality(Entry)
    /\ lab6_stride \in [Entry -> Word]
    /\ lab6_priority \in [Entry -> Nat]
    /\ state \in [Entry -> {"FREE", "RUNNABLE", "SLEEPING"}]
    /\ current \in Entry \cup {idleproc}
    /\ total \in [Entry -> Nat]
    /\ steady \in BOOLEAN

Queued == {p \in Entry : state[p] = "RUNNABLE" /\ p # current}

\* Whatever the strides are, also when their differences overflow and the
\* comparison is no order: the pool is a tree of exactly the processes that
\* are ready to run and do not run, and proc_num counts them. So no process
\* is lost or queued twice by the kernel's use of the heap.
PoolExact ==
    /\ IsTree(heap, lab6_run_pool)
    /\ Members(heap, lab6_run_pool) = Queued
    /\ proc_num = Cardinality(Queued)

Ready == {p \in Entry : state[p] = "RUNNABLE"}

\* What default_sched_stride.c:12 of lab6 promises of BIG_STRIDE: it is large
\* and no comparison overflows. The sign of a difference of words tells which
\* of two processes has really used more.
NoOverflow ==
    \A p, q \in Ready : p # q =>
      LET c == proc_stride_comp_f(lab6_stride)[<<p, q>>]
      IN  c = (IF total[p] > total[q] THEN 1
               ELSE IF total[p] = total[q] THEN 0 ELSE -1)

\* Proportional share: no two processes that compute all the time are ever
\* further apart than the price of one turn at the lowest priority, through
\* any number of overflows and changes of priority, and so no comparison of
\* their strides is wrong.
SpreadBounded ==
    steady => NoOverflow /\ \A p, q \in Ready : total[p] - total[q] <= BIG_STRIDE

\* The process that gets the CPU is one that has used least.
PicksMinimum ==
    [][steady /\ Switch /\ current' # idleproc =>
         \A q \in Ready : total[current'] <= total[q]]_stridevars

\* A turn is never free, nor does it move a process forward: the stride goes up
\* by at least 1 and at most BIG_STRIDE, the priority 0 included.
TurnCharged ==
    [][Switch /\ current' # idleproc =>
         Difference(lab6_stride'[current'], lab6_stride[current'])
           \in 1..BIG_STRIDE]_stridevars

\* The links of a process that is not in the pool are written before they are
\* read, and only a steady run reads its history.
PoolView ==
    << [p \in Queued |-> << heap.left[p], heap.right[p], heap.parent[p] >>],
       lab6_run_pool, proc_num, lab6_stride, lab6_priority, state, current, steady,
       IF steady THEN total ELSE 0 >>
=============================================================================
