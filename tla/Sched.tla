------------------------------- MODULE Sched -------------------------------
(***************************************************************************)
(* The scheduler core of the kernel: lab8/kern/schedule/sched.c with the   *)
(* round-robin class of default_sched.c that sched_init installs.          *)
(*                                                                         *)
(* The scheduling fields of all processes and the run queue form one       *)
(* record, so that a handler that calls wakeup_proc several times and then *)
(* schedule (do_exit does) is the composition of the operators below.      *)
(* Every operator runs between local_intr_save and local_intr_restore in   *)
(* the code, hence is one indivisible step.                                *)
(*                                                                         *)
(*   current       the process that owns the CPU                           *)
(*   state         "FREE" is a proc_struct that is not allocated           *)
(*   wait_state    why a process sleeps                                    *)
(*   run_list      the run queue, its head first                           *)
(*   time_slice    ticks left before need_resched is raised                *)
(*   need_resched  the processes whose need_resched flag is set            *)
(*   fault         the asserts of these functions that have failed         *)
(***************************************************************************)
EXTENDS Integers, SequencesExt

CONSTANTS
    Procs,          \* the proc_struct slots, idleproc included
    idleproc,
    MAX_TIME_SLICE

ASSUME SchedAssumption ==
    /\ idleproc \in Procs
    /\ MAX_TIME_SLICE \in Nat \ {0}

ProcStates == {"FREE", "UNINIT", "SLEEPING", "RUNNABLE", "ZOMBIE"}

WaitStates == {"0", "WT_CHILD", "WT_TIMER"}

\* The wait states that contain the bit WT_INTERRUPTED.
WT_INTERRUPTED == {"WT_CHILD", "WT_TIMER"}

\* The asserts that are checked in a step, by the function they are in.
Asserts == {"wakeup_proc", "RR_enqueue", "run_timer_list"}

\* s with a note that an assert failed unless ok holds.
Checked(s, ok, function) ==
    IF ok THEN s ELSE [s EXCEPT !.fault = @ \cup {function}]

SchedType ==
    [ current      : Procs,
      state        : [Procs -> ProcStates],
      wait_state   : [Procs -> WaitStates],
      run_list     : Seq(Procs),
      time_slice   : [Procs -> 0..MAX_TIME_SLICE],
      need_resched : SUBSET Procs,
      fault        : SUBSET Asserts ]

-----------------------------------------------------------------------------
(* The round-robin class, default_sched.c *)

\* Append to the tail; a used-up slice is refilled. The code asserts that the
\* process is not already linked in the queue.
RR_enqueue(s, p) ==
    [Checked(s, p \notin ToSet(s.run_list), "RR_enqueue") EXCEPT
        !.run_list = Append(@, p),
        !.time_slice[p] = IF @ = 0 \/ @ > MAX_TIME_SLICE
                            THEN MAX_TIME_SLICE ELSE @]

\* The process passed to RR_dequeue is always the head RR_pick_next returned.
RR_dequeue(s) ==
    [s EXCEPT !.run_list = Tail(@)]

\* Mutant: the slice is decremented without the test for zero.
RR_proc_tick_unguarded(s, p) ==
    [s EXCEPT !.time_slice[p] = @ - 1,
              !.need_resched = IF s.time_slice[p] = 1 THEN @ \cup {p} ELSE @]

\* Mutant: a used-up slice does not ask for a reschedule.
RR_proc_tick_no_resched(s, p) ==
    [s EXCEPT !.time_slice[p] = IF @ > 0 THEN @ - 1 ELSE 0]

RR_proc_tick(s, p) ==
    LET left == IF s.time_slice[p] > 0 THEN s.time_slice[p] - 1 ELSE 0
    IN  [s EXCEPT !.time_slice[p] = left,
                  !.need_resched = IF left = 0 THEN @ \cup {p} ELSE @]

-----------------------------------------------------------------------------
(* sched.c *)

sched_class_enqueue(s, p) ==
    IF p # idleproc THEN RR_enqueue(s, p) ELSE s

\* Mutant: the tick of the idle process does not ask for a reschedule.
sched_class_proc_tick_idle(s, p) ==
    IF p # idleproc THEN RR_proc_tick(s, p) ELSE s

sched_class_proc_tick(s, p) ==
    IF p # idleproc
      THEN RR_proc_tick(s, p)
      ELSE [s EXCEPT !.need_resched = @ \cup {p}]

\* Mutant: the test proc != current is missing.
wakeup_proc_current(s, p) ==
    IF s.state[p] = "RUNNABLE" THEN s
    ELSE sched_class_enqueue([s EXCEPT !.state[p] = "RUNNABLE",
                                       !.wait_state[p] = "0"], p)

\* A process that still owns the CPU is only marked RUNNABLE: schedule() will
\* queue it. Waking a RUNNABLE process prints a warning and changes nothing.
wakeup_proc(s, p) ==
    LET woken == [Checked(s, s.state[p] # "ZOMBIE", "wakeup_proc") EXCEPT
                    !.state[p] = "RUNNABLE", !.wait_state[p] = "0"]
    IN  IF s.state[p] = "RUNNABLE" THEN s
        ELSE IF p # s.current THEN sched_class_enqueue(woken, p)
        ELSE woken

\* proc_run: the CPU passes to p.
proc_run(s, p) ==
    [s EXCEPT !.current = p]

schedule(s) ==
    LET cleared == [s EXCEPT !.need_resched = @ \ {s.current}]
        queued  == IF s.state[s.current] = "RUNNABLE"
                     THEN sched_class_enqueue(cleared, s.current)
                     ELSE cleared
    IN  IF queued.run_list # <<>>
          THEN proc_run(RR_dequeue(queued), Head(queued.run_list))
          ELSE proc_run(queued, idleproc)
=============================================================================
