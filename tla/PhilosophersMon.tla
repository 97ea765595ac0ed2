-------------------------- MODULE PhilosophersMon ---------------------------
(***************************************************************************)
(* The dining philosophers with a monitor, the second half of check_sync() *)
(* in lab8/kern/sync/check_sync.c, over the condition variables of         *)
(* monitor.c. A thread that signals gives the monitor to the thread it     *)
(* wakes and waits on the semaphore next until it gets it back; next_count *)
(* counts these threads, and whoever leaves passes the monitor to one of   *)
(* them before it opens the mutex.                                         *)
(*                                                                         *)
(* As in PhilosophersSem the threads may take turns after every step, and  *)
(* a thread that sleeps is already at the pc it will go on from.           *)
(***************************************************************************)
EXTENDS Semaphores, Philosophers, FiniteSets

VARIABLES
    state_condvar,
    mutex, next, next_count,    \* monitor_t
    cv,                         \* its condition variables, one each
    pc,
    call,           \* inside phi_test_condvar: its argument, where it returns
    iter

monitor == << mutex, next, next_count, cv >>
vars == << state_condvar, monitor, pc, call, iter >>

TestPcs == {"test", "test_eating", "signal", "signal_up", "signal_down",
            "signal_end"}
WaitPcs == {"wait", "wait_leave", "wait_down", "wait_end"}
Pcs == {"think", "take_down", "take_hungry", "take_check", "take_leave", "eat",
        "put_down", "put_thinking", "put_right", "put_leave", "quit"}
       \cup TestPcs \cup WaitPcs

\* monitor_init
Init ==
    /\ state_condvar = [i \in Phil |-> "THINKING"]
    /\ mutex = sem_init(1)
    /\ next = sem_init(0)
    /\ next_count = 0
    /\ cv = [i \in Phil |-> [count |-> 0, sem |-> sem_init(0)]]
    /\ pc = [i \in Phil |-> "think"]
    /\ call = [i \in Phil |-> [arg |-> i, ret |-> "take_check"]]
    /\ iter = [i \in Phil |-> 1]

Awake(i) == ~Sleeps(mutex, i) /\ ~Sleeps(next, i) /\ ~Sleeps(cv[i].sem, i)

At(i, at) == pc[i] = at /\ Awake(i)

Goto(i, at) == pc' = [pc EXCEPT ![i] = at]

-----------------------------------------------------------------------------
(* monitor.c *)

\* The end of a monitor routine, and the first half of cond_wait.
Leave ==
    IF next_count > 0
      THEN next' = up(next) /\ UNCHANGED << mutex, next_count, cv >>
      ELSE mutex' = up(mutex) /\ UNCHANGED << next, next_count, cv >>

\* cond_signal(&cv[j]) by i, nothing if nobody waits.
Signal(i) ==
    /\ At(i, "signal")
    /\ IF cv[call[i].arg].count > 0
         THEN next_count' = next_count + 1 /\ Goto(i, "signal_up")
         ELSE Goto(i, call[i].ret) /\ UNCHANGED next_count
    /\ UNCHANGED << state_condvar, mutex, next, cv, call, iter >>

SignalUp(i) ==
    /\ At(i, "signal_up")
    /\ cv' = [cv EXCEPT ![call[i].arg].sem = up(@)]
    /\ Goto(i, "signal_down")
    /\ UNCHANGED << state_condvar, mutex, next, next_count, call, iter >>

SignalDown(i) ==
    /\ At(i, "signal_down")
    /\ next' = down(next, i)
    /\ Goto(i, "signal_end")
    /\ UNCHANGED << state_condvar, mutex, next_count, cv, call, iter >>

\* Mutant: the signaller is not counted out.
SignalEnd_uncounted(i) ==
    /\ At(i, "signal_end")
    /\ Goto(i, call[i].ret)
    /\ UNCHANGED << state_condvar, monitor, call, iter >>

SignalEnd(i) ==
    /\ At(i, "signal_end")
    /\ next_count' = next_count - 1
    /\ Goto(i, call[i].ret)
    /\ UNCHANGED << state_condvar, mutex, next, cv, call, iter >>

\* cond_wait(&cv[i])
CondWait(i) ==
    /\ At(i, "wait")
    /\ cv' = [cv EXCEPT ![i].count = @ + 1]
    /\ Goto(i, "wait_leave")
    /\ UNCHANGED << state_condvar, mutex, next, next_count, call, iter >>

WaitLeave(i) ==
    /\ At(i, "wait_leave")
    /\ Leave
    /\ Goto(i, "wait_down")
    /\ UNCHANGED << state_condvar, call, iter >>

WaitDown(i) ==
    /\ At(i, "wait_down")
    /\ cv' = [cv EXCEPT ![i].sem = down(@, i)]
    /\ Goto(i, "wait_end")
    /\ UNCHANGED << state_condvar, mutex, next, next_count, call, iter >>

WaitEnd(i) ==
    /\ At(i, "wait_end")
    /\ cv' = [cv EXCEPT ![i].count = @ - 1]
    /\ Goto(i, "take_leave")
    /\ UNCHANGED << state_condvar, mutex, next, next_count, call, iter >>

-----------------------------------------------------------------------------
(* phi_test_condvar *)

CallTest(i, j, ret) ==
    /\ call' = [call EXCEPT ![i] = [arg |-> j, ret |-> ret]]
    /\ Goto(i, "test")

\* Mutant: only the left neighbour is looked at.
MayEat_left_only(j) ==
    /\ state_condvar[j] = "HUNGRY"
    /\ state_condvar[LEFT(j)] # "EATING"

MayEat(j) ==
    /\ state_condvar[j] = "HUNGRY"
    /\ state_condvar[LEFT(j)] # "EATING"
    /\ state_condvar[RIGHT(j)] # "EATING"

Test(i) ==
    /\ At(i, "test")
    /\ Goto(i, IF MayEat(call[i].arg) THEN "test_eating" ELSE call[i].ret)
    /\ UNCHANGED << state_condvar, monitor, call, iter >>

TestEating(i) ==
    /\ At(i, "test_eating")
    /\ state_condvar' = [state_condvar EXCEPT ![call[i].arg] = "EATING"]
    /\ Goto(i, "signal")
    /\ UNCHANGED << monitor, call, iter >>

-----------------------------------------------------------------------------
(* phi_take_forks_condvar, phi_put_forks_condvar *)

\* do_sleep(SLEEP_TIME) ends.
Think(i) ==
    /\ At(i, "think")
    /\ Goto(i, "take_down")
    /\ UNCHANGED << state_condvar, monitor, call, iter >>

TakeDown(i) ==
    /\ At(i, "take_down")
    /\ mutex' = down(mutex, i)
    /\ Goto(i, "take_hungry")
    /\ UNCHANGED << state_condvar, next, next_count, cv, call, iter >>

TakeHungry(i) ==
    /\ At(i, "take_hungry")
    /\ state_condvar' = [state_condvar EXCEPT ![i] = "HUNGRY"]
    /\ CallTest(i, i, "take_check")
    /\ UNCHANGED << monitor, iter >>

TakeCheck(i) ==
    /\ At(i, "take_check")
    /\ Goto(i, IF state_condvar[i] = "HUNGRY" THEN "wait" ELSE "take_leave")
    /\ UNCHANGED << state_condvar, monitor, call, iter >>

TakeLeave(i) ==
    /\ At(i, "take_leave")
    /\ Leave
    /\ Goto(i, "eat")
    /\ UNCHANGED << state_condvar, call, iter >>

\* do_sleep(SLEEP_TIME) ends.
Eat(i) ==
    /\ At(i, "eat")
    /\ Goto(i, "put_down")
    /\ UNCHANGED << state_condvar, monitor, call, iter >>

PutDown(i) ==
    /\ At(i, "put_down")
    /\ mutex' = down(mutex, i)
    /\ Goto(i, "put_thinking")
    /\ UNCHANGED << state_condvar, next, next_count, cv, call, iter >>

PutThinking(i) ==
    /\ At(i, "put_thinking")
    /\ state_condvar' = [state_condvar EXCEPT ![i] = "THINKING"]
    /\ CallTest(i, LEFT(i), "put_right")
    /\ UNCHANGED << monitor, iter >>

PutRight(i) ==
    /\ At(i, "put_right")
    /\ CallTest(i, RIGHT(i), "put_leave")
    /\ UNCHANGED << state_condvar, monitor, iter >>

PutLeave(i) ==
    /\ At(i, "put_leave")
    /\ Leave
    /\ IF iter[i] < TIMES
         THEN Goto(i, "think") /\ iter' = [iter EXCEPT ![i] = @ + 1]
         ELSE Goto(i, "quit") /\ UNCHANGED iter
    /\ UNCHANGED << state_condvar, call >>

-----------------------------------------------------------------------------

Philosopher(i) ==
    \/ Think(i) \/ TakeDown(i) \/ TakeHungry(i) \/ TakeCheck(i) \/ TakeLeave(i)
    \/ Eat(i) \/ PutDown(i) \/ PutThinking(i) \/ PutRight(i) \/ PutLeave(i)
    \/ Test(i) \/ TestEating(i)
    \/ Signal(i) \/ SignalUp(i) \/ SignalDown(i) \/ SignalEnd(i)
    \/ CondWait(i) \/ WaitLeave(i) \/ WaitDown(i) \/ WaitEnd(i)

\* The threads have returned: check_sync collects them and frees the monitor.
AllQuit == \A i \in Phil : pc[i] = "quit"

Next == (\E i \in Phil : Philosopher(i)) \/ (AllQuit /\ UNCHANGED vars)

Spec == Init /\ [][Next]_vars /\ WF_vars(Next)

-----------------------------------------------------------------------------
(* Properties *)

TypeOK ==
    /\ state_condvar \in [Phil -> {"THINKING", "HUNGRY", "EATING"}]
    /\ mutex \in SemType(Phil) /\ next \in SemType(Phil)
    /\ next_count \in Nat
    /\ cv \in [Phil -> [count : Nat, sem : SemType(Phil)]]
    /\ pc \in [Phil -> Pcs]
    /\ call \in [Phil -> [arg : Phil, ret : {"take_check", "put_right", "put_leave"}]]
    /\ iter \in [Phil -> 1..TIMES]

OutsidePcs == {"think", "take_down", "eat", "put_down", "quit"}

\* i runs inside the monitor: it has entered, is not asleep, and has not just
\* given the monitor away in cond_signal or cond_wait.
Active(i) ==
    pc[i] \notin OutsidePcs \cup {"signal_down", "wait_down"} /\ Awake(i)

\* The right to run in the monitor is one token, never doubled and never lost
\* on its way through mutex, next and the condition variables: a thread holds
\* it, or exactly one semaphore has it as its permit.
OneToken ==
    Cardinality({i \in Phil : Active(i)}) + mutex.value + next.value
      + Cardinality({i \in Phil : cv[i].sem.value > 0}) = 1

\* The counters that cond_signal and the leaving threads decide by say who
\* really waits: count the threads in cond_wait, next_count the signallers.
CountersExact ==
    /\ \A i \in Phil : cv[i].count =
         IF pc[i] \in {"wait_leave", "wait_down", "wait_end"} THEN 1 ELSE 0
    /\ next_count = Cardinality({i \in Phil : pc[i] \in
                                   {"signal_up", "signal_down", "signal_end"}})

\* A signal reaches the philosopher it was meant for: who sleeps on its
\* condition variable is HUNGRY, or is just being woken with both forks.
SignalReaches ==
    \A i \in Phil : Sleeps(cv[i].sem, i) =>
      \/ state_condvar[i] = "HUNGRY"
      \/ \E j \in Phil : pc[j] \in {"signal", "signal_up"} /\ call[j].arg = i

\* i has its forks: from the end of take until it says that it thinks again.
HasForks(i) == pc[i] \in {"eat", "put_down", "put_thinking"}

phase == [i \in Phil |->
            IF HasForks(i) THEN "eating"
            ELSE IF pc[i] = "quit" THEN "gone"
            ELSE IF \/ pc[i] \in {"take_down", "take_hungry", "take_check",
                                  "take_leave"} \cup WaitPcs
                    \/ pc[i] \in TestPcs /\ call[i].ret = "take_check"
                   THEN "hungry"
            ELSE "thinking"]

meals == [i \in Phil |->
            IF \/ pc[i] \in {"put_right", "put_leave", "quit"}
               \/ pc[i] \in TestPcs /\ call[i].ret # "take_check"
              THEN iter[i] ELSE iter[i] - 1]

Table == INSTANCE Dining WITH phase <- phase, meals <- meals
=============================================================================
