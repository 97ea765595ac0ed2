---------------------------- MODULE Semaphores ------------------------------
(***************************************************************************)
(* The kernel semaphores of lab8/kern/sync: sem.c over the wait queues of  *)
(* wait.c. Each operator is a section between local_intr_save and          *)
(* local_intr_restore of the code, hence one indivisible step.             *)
(*                                                                         *)
(* An up() that finds a waiter does not count: it takes the waiter off the *)
(* queue, stores WT_KSEM in its wakeup_flags and wakes it, which hands the *)
(* permit over. A thread that sleeps in down() is exactly one that is in   *)
(* the queue: only __up takes it out, as WT_KSEM has no WT_INTERRUPTED bit *)
(* and neither a kill nor a timer wakes it.                                *)
(***************************************************************************)
EXTENDS Naturals, SequencesExt

\* The semaphores on which members of S sleep.
SemType(S) == [value : Nat, wait_queue : Seq(S)]

sem_init(value) == [value |-> value, wait_queue |-> <<>>]

\* down() may pass without sleeping.
CanPass(sem) == sem.value > 0

Sleeps(sem, p) == p \in ToSet(sem.wait_queue)

up(sem) ==
    IF sem.wait_queue = <<>>
      THEN [sem EXCEPT !.value = @ + 1]
      ELSE [sem EXCEPT !.wait_queue = Tail(@)]

\* down() up to its return, or up to its schedule().
down(sem, p) ==
    IF CanPass(sem) THEN [sem EXCEPT !.value = @ - 1]
    ELSE [sem EXCEPT !.wait_queue = Append(@, p)]
=============================================================================
