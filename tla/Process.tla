------------------------------ MODULE Process -------------------------------
(***************************************************************************)
(* The process life cycle of lab8: fork, exec, exit, wait, kill, yield,    *)
(* sleep and the timer interrupt (lab8/kern/process/proc.c, trap/trap.c),  *)
(* over the scheduler of Sched and the timer list of Timers.               *)
(*                                                                         *)
(* Only the process that owns the CPU takes steps; pc says where it is. A  *)
(* step ends where the code enables interrupts or calls schedule().        *)
(* System calls run with interrupts off, so a user process takes a timer   *)
(* interrupt only at pc "user"; a kernel thread takes one at every pc. A   *)
(* trap from user mode ends in "trapret", where PF_EXITING and             *)
(* need_resched are looked at; a trap from the kernel does not.            *)
(*                                                                         *)
(* A process is named by its proc_struct slot; a freed slot is reused by a *)
(* later fork as its memory and its pid are.                               *)
(***************************************************************************)
EXTENDS Sched, Timers, FiniteSets

CONSTANTS
    initproc,
    NULL,
    MAX_PROCESS,
    KillTargets,    \* the pids user programs pass to kill()
    Workers,        \* kernel threads check_sync() starts
    MaxSleep        \* bound: longest argument of do_sleep

ASSUME ProcessAssumption ==
    /\ initproc \in Procs \ {idleproc}
    /\ NULL \notin Procs
    /\ IsFiniteSet(Procs)
    /\ KillTargets \subseteq Procs \ {idleproc}
    /\ Workers \in Nat
    /\ MAX_PROCESS \in Nat /\ MAX_PROCESS >= Workers + 3
    /\ Cardinality(Procs) >= Workers + 3
    /\ MaxSleep \in Nat

VARIABLES
    sched,          \* the scheduler record of module Sched
    timer_list,     \* the timers of module Timers
    cursor,         \* where the loop of add_timer is
    parent,         \* proc->parent
    kids,           \* the chain proc->cptr, ->optr, ...: youngest child first
    exiting,        \* the processes with PF_EXITING in proc->flags
    kthreads,       \* the processes that run in the kernel, interrupts on
    pc,             \* where the process is, or where schedule() returns to
    wait_pid,       \* the pid argument of do_wait, NULL for 0 (any child)
    nr_process,
    workers,        \* kernel threads check_sync() has still to start
    irq             \* "timer" inside run_timer_list, else "none"

clock  == << timer_list, cursor, irq >>
family == << parent, kids, nr_process >>
roles  == << exiting, kthreads >>

vars == << sched, clock, family, roles, pc, wait_pid, workers >>

current == sched.current

Live == {p \in Procs : sched.state[p] # "FREE"}

UserPcs   == {"user", "trapret"}
WaitPcs   == {"wait_scan", "wait_sched", "wait_ret"}
SleepPcs  == {"add_timer", "sleep_sched", "sleep_ret"}
ExitPcs   == {"exit_notify", "exit_sched", "dead"}
KernelPcs == {"idle", "init_main", "check_sync", "init_sched", "halted",
              "user_main", "kthread"}
Pcs == {"none"} \cup UserPcs \cup WaitPcs \cup SleepPcs \cup ExitPcs
                \cup KernelPcs

\* p runs and no interrupt handler is active.
Running(p, at) == current = p /\ irq = "none" /\ pc[p] = at

Goto(p, at) == pc' = [pc EXCEPT ![p] = at]

\* Where a system call, or the same function called by a kernel thread,
\* returns to.
ReturnPc(p) ==
    IF p = initproc THEN "init_sched" ELSE IF p \in kthreads THEN "kthread"
    ELSE "trapret"

-----------------------------------------------------------------------------
(* proc_init: idleproc owns the CPU, init has been forked and woken. *)

Init ==
    /\ sched = [ current      |-> idleproc,
                 state        |-> [p \in Procs |->
                                     IF p \in {idleproc, initproc}
                                       THEN "RUNNABLE" ELSE "FREE"],
                 wait_state   |-> [p \in Procs |-> "0"],
                 run_list     |-> <<initproc>>,
                 time_slice   |-> [p \in Procs |->
                                     IF p = initproc THEN MAX_TIME_SLICE
                                     ELSE 0],
                 need_resched |-> {idleproc},
                 fault        |-> {} ]
    /\ timer_list = <<>>
    /\ cursor = NoCursor
    /\ parent = [p \in Procs |-> IF p = initproc THEN idleproc ELSE NULL]
    /\ kids = [p \in Procs |-> IF p = idleproc THEN <<initproc>> ELSE <<>>]
    /\ exiting = {}
    /\ kthreads = {idleproc, initproc}
    /\ pc = [p \in Procs |-> IF p = idleproc THEN "idle"
                             ELSE IF p = initproc THEN "init_main"
                             ELSE "none"]
    /\ wait_pid = [p \in Procs |-> NULL]
    /\ nr_process = 2
    /\ workers = Workers
    /\ irq = "none"

-----------------------------------------------------------------------------
(* do_fork *)

\* A fresh proc_struct. Its memory may have belonged to an earlier process.
alloc_proc(s, q) ==
    [s EXCEPT !.state[q] = "UNINIT", !.wait_state[q] = "0",
              !.time_slice[q] = 0, !.need_resched = @ \ {q}]

\* q becomes the youngest child of p.
set_links(p, q) ==
    /\ parent' = [parent EXCEPT ![q] = p]
    /\ kids' = [kids EXCEPT ![p] = <<q>> \o @, ![q] = <<>>]
    /\ nr_process' = nr_process + 1

\* p gets a new child q, a kernel thread or a user process. The step is the
\* one from local_intr_save on; what comes before touches only q's memory.
Fork(p, q, is_kernel) ==
    /\ nr_process < MAX_PROCESS
    /\ sched.state[q] = "FREE"
    /\ sched' = wakeup_proc([alloc_proc(sched, q) EXCEPT !.wait_state[p] = "0"],
                            q)
    /\ set_links(p, q)
    /\ exiting' = exiting \ {q}
    /\ kthreads' = IF is_kernel THEN kthreads \cup {q} ELSE kthreads \ {q}
    /\ UNCHANGED << clock, wait_pid >>

\* sys_fork. The child leaves through forkret straight to user mode.
SysFork(p, q) ==
    /\ Running(p, "user")
    /\ Fork(p, q, FALSE)
    /\ pc' = [pc EXCEPT ![p] = "trapret", ![q] = "user"]
    /\ UNCHANGED workers

\* MAX_PROCESS processes, or no memory for the proc_struct, the stack, the mm
\* or the file table: everything acquired so far is released again.
SysForkFails(p) ==
    /\ Running(p, "user")
    /\ Goto(p, "trapret")
    /\ UNCHANGED << sched, clock, family, roles, wait_pid, workers >>

-----------------------------------------------------------------------------
(* do_exit *)

\* Mutant: the exiting process is not marked PROC_ZOMBIE.
EnterExit_runnable(p) ==
    IF p = initproc THEN Goto(p, "halted") /\ UNCHANGED sched
                    ELSE Goto(p, "exit_notify") /\ UNCHANGED sched

\* The first half, up to the point where the relatives are told. The exit of
\* initproc is a kernel panic.
EnterExit(p) ==
    IF p = initproc
      THEN Goto(p, "halted") /\ UNCHANGED sched
      ELSE /\ Goto(p, "exit_notify")
           /\ sched' = [sched EXCEPT !.state[p] = "ZOMBIE"]

\* sys_exit
SysExit(p) ==
    /\ Running(p, "user")
    /\ EnterExit(p)
    /\ UNCHANGED << clock, family, roles, wait_pid, workers >>

\* Mutant: initproc is not woken for a zombie it inherits.
ExitNotify_silent(p) ==
    /\ Running(p, "exit_notify")
    /\ sched' = IF sched.wait_state[parent[p]] = "WT_CHILD"
                  THEN wakeup_proc(sched, parent[p]) ELSE sched
    /\ parent' = [c \in Procs |-> IF c \in ToSet(kids[p]) THEN initproc
                                  ELSE parent[c]]
    /\ kids' = [kids EXCEPT ![initproc] = Reverse(kids[p]) \o @, ![p] = <<>>]
    /\ Goto(p, "exit_sched")
    /\ UNCHANGED << clock, nr_process, roles, wait_pid, workers >>

\* Mutant: the parent is not woken.
ExitNotify_untold(p) ==
    /\ Running(p, "exit_notify")
    /\ parent' = [c \in Procs |-> IF c \in ToSet(kids[p]) THEN initproc
                                  ELSE parent[c]]
    /\ kids' = [kids EXCEPT ![initproc] = Reverse(kids[p]) \o @, ![p] = <<>>]
    /\ Goto(p, "exit_sched")
    /\ UNCHANGED << sched, clock, nr_process, roles, wait_pid, workers >>

\* Mutant: the exiting process's children are not handed to initproc.
ExitNotify_abandon(p) ==
    /\ Running(p, "exit_notify")
    /\ sched' = IF sched.wait_state[parent[p]] = "WT_CHILD"
                  THEN wakeup_proc(sched, parent[p]) ELSE sched
    /\ Goto(p, "exit_sched")
    /\ UNCHANGED << clock, family, roles, wait_pid, workers >>

\* The parent is woken if it waits for a child; the children go to initproc
\* one by one, youngest first, so their order turns round, and initproc is
\* woken if one of them is a zombie already.
ExitNotify(p) ==
    LET told    == IF sched.wait_state[parent[p]] = "WT_CHILD"
                     THEN wakeup_proc(sched, parent[p]) ELSE sched
        orphans == ToSet(kids[p])
        zombies == {c \in orphans : told.state[c] = "ZOMBIE"}
    IN  /\ Running(p, "exit_notify")
        /\ sched' = IF zombies # {} /\ told.wait_state[initproc] = "WT_CHILD"
                      THEN wakeup_proc(told, initproc) ELSE told
        /\ parent' = [c \in Procs |-> IF c \in orphans THEN initproc
                                      ELSE parent[c]]
        /\ kids' = [kids EXCEPT ![initproc] = Reverse(kids[p]) \o @,
                                ![p] = <<>>]
        /\ Goto(p, "exit_sched")
        /\ UNCHANGED << clock, nr_process, roles, wait_pid, workers >>

-----------------------------------------------------------------------------
(* do_wait *)

\* sys_wait(pid), pid 0 for any child.
SysWait(p, pid) ==
    /\ Running(p, "user")
    /\ wait_pid' = [wait_pid EXCEPT ![p] = pid]
    /\ Goto(p, "wait_scan")
    /\ UNCHANGED << sched, clock, family, roles, workers >>

\* The children the scan of do_wait looks at, in its order.
Candidates(p) ==
    IF wait_pid[p] = NULL THEN kids[p]
    ELSE IF wait_pid[p] \in Live /\ parent[wait_pid[p]] = p
           THEN << wait_pid[p] >>
    ELSE <<>>

IsZombie(q) == sched.state[q] = "ZOMBIE"

\* Mutant: the process is not counted out.
remove_links_uncounted(p, q) ==
    /\ parent' = [parent EXCEPT ![q] = NULL]
    /\ kids' = [kids EXCEPT ![p] = RemoveFirst(@, q)]
    /\ UNCHANGED nr_process

\* q, a child of p, leaves the chain of its siblings.
remove_links(p, q) ==
    /\ parent' = [parent EXCEPT ![q] = NULL]
    /\ kids' = [kids EXCEPT ![p] = RemoveFirst(@, q)]
    /\ nr_process' = nr_process - 1

\* found: the first zombie is unlinked and its stack and proc_struct freed.
WaitReap(p) ==
    /\ Running(p, "wait_scan")
    /\ \E i \in DOMAIN Candidates(p) :
         LET q == Candidates(p)[i]
         IN  /\ IsZombie(q)
             /\ \A j \in 1..i - 1 : ~IsZombie(Candidates(p)[j])
             /\ sched' = [sched EXCEPT !.state[q] = "FREE",
                                       !.time_slice[q] = 0,
                                       !.need_resched = @ \ {q}]
             /\ remove_links(p, q)
             /\ exiting' = exiting \ {q}
             /\ kthreads' = kthreads \ {q}
             /\ pc' = [pc EXCEPT ![p] = ReturnPc(p), ![q] = "none"]
             /\ wait_pid' = [wait_pid EXCEPT ![p] = NULL, ![q] = NULL]
    /\ UNCHANGED << clock, workers >>

\* haskid, but no zombie yet.
WaitBlock(p) ==
    /\ Running(p, "wait_scan")
    /\ Candidates(p) # <<>>
    /\ \A i \in DOMAIN Candidates(p) : ~IsZombie(Candidates(p)[i])
    /\ sched' = [sched EXCEPT !.state[p] = "SLEEPING",
                              !.wait_state[p] = "WT_CHILD"]
    /\ Goto(p, "wait_sched")
    /\ UNCHANGED << clock, family, roles, wait_pid, workers >>

\* schedule() has returned: a killed process exits, the others scan again.
WaitResume(p) ==
    /\ Running(p, "wait_ret")
    /\ IF p \in exiting THEN EnterExit(p)
                   ELSE Goto(p, "wait_scan") /\ UNCHANGED sched
    /\ UNCHANGED << clock, family, roles, wait_pid, workers >>

\* -E_BAD_PROC: nothing to wait for. For initproc this ends init_main, which
\* checks that it is the last process and returns into do_exit.
WaitNone(p) ==
    /\ Running(p, "wait_scan")
    /\ Candidates(p) = <<>>
    /\ Goto(p, IF p = initproc THEN "halted" ELSE ReturnPc(p))
    /\ wait_pid' = [wait_pid EXCEPT ![p] = NULL]
    /\ UNCHANGED << sched, clock, family, roles, workers >>

-----------------------------------------------------------------------------
(* do_kill, do_yield, do_sleep *)

\* Mutant: the target is woken whatever it waits for, or does.
SysKill_wakes_all(p, q) ==
    /\ Running(p, "user")
    /\ Goto(p, "trapret")
    /\ IF q \in Live /\ q \notin exiting
         THEN /\ exiting' = exiting \cup {q}
              /\ sched' = wakeup_proc(sched, q)
         ELSE UNCHANGED << exiting, sched >>
    /\ UNCHANGED << clock, family, kthreads, wait_pid, workers >>

\* A second kill of the same process and a pid that is not hashed return an
\* error and change nothing.
SysKill(p, q) ==
    /\ Running(p, "user")
    /\ Goto(p, "trapret")
    /\ IF q \in Live /\ q \notin exiting
         THEN /\ exiting' = exiting \cup {q}
              /\ sched' = IF sched.wait_state[q] \in WT_INTERRUPTED
                            THEN wakeup_proc(sched, q) ELSE sched
         ELSE UNCHANGED << exiting, sched >>
    /\ UNCHANGED << clock, family, kthreads, wait_pid, workers >>

SysYield(p) ==
    /\ Running(p, "user")
    /\ sched' = [sched EXCEPT !.need_resched = @ \cup {p}]
    /\ Goto(p, "trapret")
    /\ UNCHANGED << clock, family, roles, wait_pid, workers >>

\* A sleep of no ticks returns at once.
DoSleep(p, time) ==
    /\ IF time = 0
         THEN Goto(p, ReturnPc(p)) /\ UNCHANGED << sched, cursor >>
         ELSE /\ sched' = [sched EXCEPT !.state[p] = "SLEEPING",
                                        !.wait_state[p] = "WT_TIMER"]
              /\ cursor' = StartOfList(time)
              /\ Goto(p, "add_timer")
    /\ UNCHANGED << timer_list, irq, family, roles, wait_pid, workers >>

SysSleep(p, time) == Running(p, "user") /\ DoSleep(p, time)

KthreadSleep(p, time) == Running(p, "kthread") /\ DoSleep(p, time)

\* One turn of the loop of add_timer, or the insertion that ends it. After
\* that interrupts are on again: a kernel thread can be interrupted before it
\* reaches its schedule().
AddTimer(p) ==
    /\ Running(p, "add_timer")
    /\ IF WalkDone(timer_list, cursor)
         THEN /\ timer_list' = insert_timer(timer_list, cursor, p)
              /\ cursor' = NoCursor
              /\ Goto(p, "sleep_sched")
         ELSE /\ cursor' = WalkOn(timer_list, cursor)
              /\ UNCHANGED << timer_list, pc >>
    /\ UNCHANGED << sched, irq, family, roles, wait_pid, workers >>

\* Mutant: the timer is left in the list.
SleepResume_keeps_timer(p) ==
    /\ Running(p, "sleep_ret")
    /\ Goto(p, ReturnPc(p))
    /\ UNCHANGED << sched, clock, family, roles, wait_pid, workers >>

\* schedule() has returned, by expiry or by a kill: take the timer out.
SleepResume(p) ==
    /\ Running(p, "sleep_ret")
    /\ timer_list' = del_timer(timer_list, p)
    /\ Goto(p, ReturnPc(p))
    /\ UNCHANGED << sched, cursor, irq, family, roles, wait_pid, workers >>

-----------------------------------------------------------------------------
(* The calls of schedule() *)

\* The pc at which schedule() is called and the pc it returns to.
ScheduleCalls == [ wait_sched  |-> "wait_ret",
                   sleep_sched |-> "sleep_ret",
                   exit_sched  |-> "dead",
                   init_sched  |-> "wait_scan" ]

Schedule(p) ==
    /\ current = p /\ irq = "none"
    /\ pc[p] \in DOMAIN ScheduleCalls
    /\ sched' = schedule(sched)
    /\ Goto(p, ScheduleCalls[pc[p]])
    /\ UNCHANGED << clock, family, roles, wait_pid, workers >>

\* cpu_idle
IdleSchedule ==
    /\ Running(idleproc, "idle")
    /\ idleproc \in sched.need_resched
    /\ sched' = schedule(sched)
    /\ UNCHANGED << clock, family, roles, pc, wait_pid, workers >>

\* Mutant: PF_EXITING is not looked at.
TrapReturn_ignores_exiting(p) ==
    /\ Running(p, "trapret")
    /\ sched' = IF p \in sched.need_resched THEN schedule(sched) ELSE sched
    /\ Goto(p, "user")
    /\ UNCHANGED << clock, family, roles, wait_pid, workers >>

\* The end of trap() for a trap from user mode.
TrapReturn(p) ==
    /\ Running(p, "trapret")
    /\ IF p \in exiting THEN EnterExit(p)
       ELSE /\ sched' = IF p \in sched.need_resched THEN schedule(sched)
                        ELSE sched
            /\ Goto(p, "user")
    /\ UNCHANGED << clock, family, roles, wait_pid, workers >>

-----------------------------------------------------------------------------
(* init_main and the kernel threads it starts *)

InitMain(q) ==
    /\ Running(initproc, "init_main")
    /\ Fork(initproc, q, TRUE)
    /\ pc' = [pc EXCEPT ![initproc] = "check_sync", ![q] = "user_main"]
    /\ UNCHANGED workers

\* check_sync() starts its kernel threads; the call is optional in init_main.
CheckSync(q) ==
    /\ Running(initproc, "check_sync")
    /\ workers > 0
    /\ Fork(initproc, q, TRUE)
    /\ pc' = [pc EXCEPT ![q] = "kthread"]
    /\ workers' = workers - 1

InitWait ==
    /\ Running(initproc, "check_sync")
    /\ workers = 0
    /\ Goto(initproc, "wait_scan")
    /\ UNCHANGED << sched, clock, family, roles, wait_pid, workers >>

\* user_main: kernel_execve turns the kernel thread into a user process, or
\* do_execve fails and exits.
UserMain(p) ==
    /\ Running(p, "user_main")
    /\ \/ /\ kthreads' = kthreads \ {p}
          /\ Goto(p, "user")
          /\ UNCHANGED sched
       \/ EnterExit(p) /\ UNCHANGED kthreads
    /\ UNCHANGED << clock, family, exiting, wait_pid, workers >>

\* The function of a kernel thread returns: kernel_thread_entry calls do_exit.
KthreadReturn(p) ==
    /\ Running(p, "kthread")
    /\ EnterExit(p)
    /\ UNCHANGED << clock, family, roles, wait_pid, workers >>

-----------------------------------------------------------------------------
(* The timer interrupt: run_timer_list, one step per turn of its loop *)

\* The timer list is only changed with interrupts off.
InterruptsOn ==
    /\ irq = "none"
    /\ pc[current] \notin {"halted", "add_timer"}
    /\ pc[current] = "user" \/ current \in kthreads

Tick ==
    /\ InterruptsOn
    /\ irq' = "timer"
    /\ timer_list' = tick_timer(timer_list)
    /\ sched' = Checked(sched, ~HeadExpired(timer_list), "run_timer_list")
    /\ UNCHANGED << cursor, family, roles, pc, wait_pid, workers >>

\* The head has expired: its process is woken and the timer unlinked. The code
\* asserts that the process is in an interruptible sleep, or awake already.
FireTimer ==
    /\ irq = "timer"
    /\ HeadExpired(timer_list)
    /\ LET p  == timer_list[1].proc
           ok == sched.wait_state[p] \in WT_INTERRUPTED \cup {"0"}
       IN  /\ sched' = wakeup_proc(Checked(sched, ok, "run_timer_list"), p)
           /\ timer_list' = del_timer(timer_list, p)
    /\ UNCHANGED << cursor, irq, family, roles, pc, wait_pid, workers >>

\* The time slice of the interrupted process; then trap() returns.
TickEnd ==
    /\ irq = "timer"
    /\ ~HeadExpired(timer_list)
    /\ sched' = sched_class_proc_tick(sched, current)
    /\ irq' = "none"
    /\ IF pc[current] = "user" THEN Goto(current, "trapret") ELSE UNCHANGED pc
    /\ UNCHANGED << timer_list, cursor, family, roles, wait_pid, workers >>

-----------------------------------------------------------------------------

\* The kernel has stopped in panic().
Halted == pc[initproc] = "halted" /\ UNCHANGED vars

\* What a user program, or the body of a kernel thread, decides to do.
UserStep ==
    \E p \in Procs :
      \/ \E q \in Procs : SysFork(p, q)
      \/ SysForkFails(p)
      \/ SysExit(p)
      \/ \E pid \in (Procs \ {idleproc}) \cup {NULL} : SysWait(p, pid)
      \/ \E q \in KillTargets : SysKill(p, q)
      \/ SysYield(p)
      \/ \E time \in 0..MaxSleep : SysSleep(p, time)

\* What the kernel does by itself once it has the CPU.
KernelStep ==
    \/ \E p \in Procs :
         \/ ExitNotify(p)
         \/ WaitReap(p) \/ WaitBlock(p) \/ WaitResume(p) \/ WaitNone(p)
         \/ AddTimer(p) \/ SleepResume(p)
         \/ Schedule(p) \/ TrapReturn(p)
         \/ InitMain(p) \/ CheckSync(p)
         \/ UserMain(p)
         \/ KthreadReturn(p) \/ \E time \in 1..MaxSleep : KthreadSleep(p, time)
    \/ IdleSchedule \/ InitWait

\* The rest of the interrupt handler.
IrqStep == FireTimer \/ TickEnd

Next == UserStep \/ KernelStep \/ Tick \/ IrqStep \/ Halted

\* Timer interrupts keep coming, and one that is pending is taken when
\* interrupts are on again; the handler ends; and between two interrupts the
\* interrupted kernel code gets on. What a user program does is its own choice.
Fairness == SF_vars(Tick) /\ WF_vars(IrqStep) /\ SF_vars(KernelStep)

Spec == Init /\ [][Next]_vars /\ Fairness

-----------------------------------------------------------------------------
(* Safety *)

TypeOK ==
    /\ sched \in SchedType
    /\ timer_list \in Seq([proc : Procs, expires : Nat])
    /\ cursor \in [at : Nat, left : Nat]
    /\ parent \in [Procs -> Procs \cup {NULL}]
    /\ kids \in [Procs -> Seq(Procs)]
    /\ exiting \subseteq Procs
    /\ kthreads \subseteq Procs
    /\ pc \in [Procs -> Pcs]
    /\ wait_pid \in [Procs -> Procs \cup {NULL}]
    /\ nr_process \in Nat
    /\ workers \in Nat
    /\ irq \in {"none", "timer"}

\* No wakeup is lost or counted twice on the run queue: it holds exactly the
\* runnable processes that do not own the CPU, each once, whatever wakeups by
\* kill, exit and timers met them half-way into sleep. idleproc is never in.
RunQueueExact ==
    /\ IsInjective(sched.run_list)
    /\ ToSet(sched.run_list) =
         {p \in Procs \ {idleproc, current} : sched.state[p] = "RUNNABLE"}

\* The asserts of wakeup_proc, RR_enqueue and run_timer_list never fail: no
\* zombie is woken, no queued process is queued again, no timer is overdue.
NoAssertFails == sched.fault = {}

\* timer_t is on the sleeper's kernel stack, which do_wait frees: a timer in
\* the list belongs to a process that is still inside do_sleep.
NoDanglingTimer ==
    \A i \in DOMAIN timer_list :
      /\ pc[timer_list[i].proc] \in SleepPcs
      /\ sched.state[timer_list[i].proc] \in {"SLEEPING", "RUNNABLE"}
      /\ \A j \in DOMAIN timer_list :
           timer_list[j].proc = timer_list[i].proc => i = j

\* q has become a zombie and its do_exit has not yet reached its parent.
Notifying(q) == q = current /\ pc[q] = "exit_notify"

\* Nobody sleeps without something left to wake it: a sleeper in do_sleep has
\* its timer in the list, and a parent in do_wait has a child it waits for and
\* none of these is a zombie that went unnoticed, also not one that was handed
\* to initproc by a dying parent.
NoLostWakeup ==
    \A p \in Procs : sched.state[p] = "SLEEPING" =>
      \/ /\ sched.wait_state[p] = "WT_TIMER"
         /\ HasTimer(timer_list, p) \/ Running(p, "add_timer")
      \/ /\ sched.wait_state[p] = "WT_CHILD"
         /\ Candidates(p) # <<>>
         /\ \A q \in ToSet(Candidates(p)) : IsZombie(q) => Notifying(q)

\* set_links, remove_links and the reparenting of do_exit keep one family
\* tree: parent and child chains agree, and the parent of a process is alive,
\* so that somebody can always collect it.
FamilyTree ==
    /\ \A p \in Procs : IsInjective(kids[p])
    /\ \A p, q \in Procs : q \in ToSet(kids[p]) <=> parent[q] = p
    /\ \A q \in Live \ {idleproc} :
         /\ parent[q] \in Live
         /\ IsZombie(parent[q]) => Notifying(parent[q])

\* The process counter is exact, so the limit of do_fork is.
ProcessCount ==
    /\ nr_process = Cardinality(Live)
    /\ nr_process <= MAX_PROCESS

\* init_main leaves its loop only when every other process has been collected:
\* the asserts at its end hold. (A killed initproc panics elsewhere.)
InitQuitsLast ==
    pc[initproc] = "halted" /\ initproc \notin exiting =>
      /\ kids[initproc] = <<>>
      /\ nr_process = 2
      /\ Live = {idleproc, initproc}

\* do_exit does not return: schedule() never gives the CPU back to a zombie.
DeadStaysOff == \A p \in Procs : pc[p] = "dead" => current # p

-----------------------------------------------------------------------------
(* Action properties *)

\* The state diagram at the top of proc.c: a process leaves RUNNABLE only by
\* its own hand, while it owns the CPU; it leaves SLEEPING only to become
\* RUNNABLE; and a zombie stays one until its parent, running, collects it.
StateDiagram ==
    [][\A p \in Procs : sched'.state[p] # sched.state[p] =>
         CASE sched.state[p] = "FREE"     -> sched'.state[p] = "RUNNABLE"
           [] sched.state[p] = "RUNNABLE" -> /\ current = p
                                             /\ sched'.state[p] \in
                                                  {"SLEEPING", "ZOMBIE"}
           [] sched.state[p] = "SLEEPING" -> sched'.state[p] = "RUNNABLE"
           [] sched.state[p] = "ZOMBIE"   -> /\ sched'.state[p] = "FREE"
                                             /\ current = parent[p]
                                             /\ pc[p] = "dead"
           [] OTHER -> FALSE]_vars

-----------------------------------------------------------------------------
(* Liveness *)

\* Round robin starves nobody: a runnable process gets the CPU, even if the
\* others never make a system call.
RunnableRuns ==
    \A p \in Procs \ {idleproc} :
      sched.state[p] = "RUNNABLE" ~>
        (current = p \/ pc[initproc] = "halted")

\* A sleep ends.
SleepEnds ==
    \A p \in Procs : pc[p] = "add_timer" ~>
                        (pc[p] \notin SleepPcs \/ pc[initproc] = "halted")

\* A killed user process is on its way out, whatever the kill met it in: it
\* dies, or it has entered do_wait after the kill and sleeps there until one of
\* the children it waits for ends.
KilledStops ==
    \A p \in Procs \ {initproc} :
      (p \in exiting /\ p \notin kthreads) ~>
        \/ sched.state[p] \in {"ZOMBIE", "FREE"}
        \/ sched.state[p] = "SLEEPING" /\ sched.wait_state[p] = "WT_CHILD"
        \/ pc[initproc] = "halted"

\* What the table of system calls in proc.c says of SYS_kill: the killed
\* process reaches do_exit.
KilledDies ==
    \A p \in Procs \ {initproc} :
      (p \in exiting /\ p \notin kthreads) ~>
        (sched.state[p] \in {"ZOMBIE", "FREE"} \/ pc[initproc] = "halted")

\* A zombie whose parent is initproc, its own child or one it has inherited
\* from a dead parent, is collected.
OrphansCollected ==
    \A p \in Procs :
      (sched.state[p] = "ZOMBIE" /\ parent[p] = initproc) ~>
        (sched.state[p] = "FREE" \/ pc[initproc] = "halted")
=============================================================================
