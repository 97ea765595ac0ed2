-------------------------- MODULE PhilosophersSem ---------------------------
(***************************************************************************)
(* The dining philosophers with semaphores, the first half of check_sync() *)
(* in lab8/kern/sync/check_sync.c. Each philosopher is a kernel thread.    *)
(*                                                                         *)
(* The model lets threads take turns after every step, also where the      *)
(* kernel would not switch (it does not preempt kernel threads): what is   *)
(* shown rests on the semaphores alone. A thread whose down() found no     *)
(* permit is already at the pc it will go on from, but asleep.             *)
(***************************************************************************)
EXTENDS Semaphores, Philosophers

VARIABLES
    state_sema,     \* what the philosophers have told each other
    mutex, s,       \* the semaphores
    pc,
    call,           \* inside phi_test_sema: its argument and where it returns
    iter            \* the meal the philosopher is at

vars == << state_sema, mutex, s, pc, call, iter >>

TestPcs == {"test", "test_eating", "test_up"}
Pcs == {"think", "take_down", "take_hungry", "take_up", "take_s", "eat",
        "put_down", "put_thinking", "put_right", "put_up", "quit"}
       \cup TestPcs

Init ==
    /\ state_sema = [i \in Phil |-> "THINKING"]
    /\ mutex = sem_init(1)
    /\ s = [i \in Phil |-> sem_init(0)]
    /\ pc = [i \in Phil |-> "think"]
    /\ call = [i \in Phil |-> [arg |-> i, ret |-> "take_up"]]
    /\ iter = [i \in Phil |-> 1]

Awake(i) == ~Sleeps(mutex, i) /\ ~Sleeps(s[i], i)

At(i, at) == pc[i] = at /\ Awake(i)

Goto(i, at) == pc' = [pc EXCEPT ![i] = at]

-----------------------------------------------------------------------------
(* phi_test_sema *)

\* Philosopher i calls phi_test_sema(j).
CallTest(i, j, ret) ==
    /\ call' = [call EXCEPT ![i] = [arg |-> j, ret |-> ret]]
    /\ Goto(i, "test")

MayEat(j) ==
    /\ state_sema[j] = "HUNGRY"
    /\ state_sema[LEFT(j)] # "EATING"
    /\ state_sema[RIGHT(j)] # "EATING"

Test(i) ==
    /\ At(i, "test")
    /\ Goto(i, IF MayEat(call[i].arg) THEN "test_eating" ELSE call[i].ret)
    /\ UNCHANGED << state_sema, mutex, s, call, iter >>

TestEating(i) ==
    /\ At(i, "test_eating")
    /\ state_sema' = [state_sema EXCEPT ![call[i].arg] = "EATING"]
    /\ Goto(i, "test_up")
    /\ UNCHANGED << mutex, s, call, iter >>

TestUp(i) ==
    /\ At(i, "test_up")
    /\ s' = [s EXCEPT ![call[i].arg] = up(@)]
    /\ Goto(i, call[i].ret)
    /\ UNCHANGED << state_sema, mutex, call, iter >>

-----------------------------------------------------------------------------
(* phi_take_forks_sema *)

\* do_sleep(SLEEP_TIME) ends.
Think(i) ==
    /\ At(i, "think")
    /\ Goto(i, "take_down")
    /\ UNCHANGED << state_sema, mutex, s, call, iter >>

\* Mutant: the critical section is entered without the mutex.
TakeDown_unlocked(i) ==
    /\ At(i, "take_down")
    /\ Goto(i, "take_hungry")
    /\ UNCHANGED << state_sema, mutex, s, call, iter >>

TakeDown(i) ==
    /\ At(i, "take_down")
    /\ mutex' = down(mutex, i)
    /\ Goto(i, "take_hungry")
    /\ UNCHANGED << state_sema, s, call, iter >>

TakeHungry(i) ==
    /\ At(i, "take_hungry")
    /\ state_sema' = [state_sema EXCEPT ![i] = "HUNGRY"]
    /\ CallTest(i, i, "take_up")
    /\ UNCHANGED << mutex, s, iter >>

TakeUp(i) ==
    /\ At(i, "take_up")
    /\ mutex' = up(mutex)
    /\ Goto(i, "take_s")
    /\ UNCHANGED << state_sema, s, call, iter >>

\* Without both forks the philosopher sleeps.
TakeS(i) ==
    /\ At(i, "take_s")
    /\ s' = [s EXCEPT ![i] = down(@, i)]
    /\ Goto(i, "eat")
    /\ UNCHANGED << state_sema, mutex, call, iter >>

-----------------------------------------------------------------------------
(* phi_put_forks_sema *)

\* do_sleep(SLEEP_TIME) ends.
Eat(i) ==
    /\ At(i, "eat")
    /\ Goto(i, "put_down")
    /\ UNCHANGED << state_sema, mutex, s, call, iter >>

PutDown(i) ==
    /\ At(i, "put_down")
    /\ mutex' = down(mutex, i)
    /\ Goto(i, "put_thinking")
    /\ UNCHANGED << state_sema, s, call, iter >>

PutThinking(i) ==
    /\ At(i, "put_thinking")
    /\ state_sema' = [state_sema EXCEPT ![i] = "THINKING"]
    /\ CallTest(i, LEFT(i), "put_right")
    /\ UNCHANGED << mutex, s, iter >>

PutRight(i) ==
    /\ At(i, "put_right")
    /\ CallTest(i, RIGHT(i), "put_up")
    /\ UNCHANGED << state_sema, mutex, s, iter >>

\* Leaves the section; the next round, or the end of the thread.
PutUp(i) ==
    /\ At(i, "put_up")
    /\ mutex' = up(mutex)
    /\ IF iter[i] < TIMES
         THEN Goto(i, "think") /\ iter' = [iter EXCEPT ![i] = @ + 1]
         ELSE Goto(i, "quit") /\ UNCHANGED iter
    /\ UNCHANGED << state_sema, s, call >>

-----------------------------------------------------------------------------

Philosopher(i) ==
    \/ Think(i) \/ TakeDown(i) \/ TakeHungry(i) \/ TakeUp(i) \/ TakeS(i)
    \/ Eat(i) \/ PutDown(i) \/ PutThinking(i) \/ PutRight(i) \/ PutUp(i)
    \/ Test(i) \/ TestEating(i) \/ TestUp(i)

\* The threads have returned: check_sync collects them.
AllQuit == \A i \in Phil : pc[i] = "quit"

Next == (\E i \in Phil : Philosopher(i)) \/ (AllQuit /\ UNCHANGED vars)

Spec == Init /\ [][Next]_vars /\ WF_vars(Next)

-----------------------------------------------------------------------------
(* Properties *)

TypeOK ==
    /\ state_sema \in [Phil -> {"THINKING", "HUNGRY", "EATING"}]
    /\ mutex \in SemType(Phil)
    /\ s \in [Phil -> SemType(Phil)]
    /\ pc \in [Phil -> Pcs]
    /\ call \in [Phil -> [arg : Phil, ret : {"take_up", "put_right", "put_up"}]]
    /\ iter \in [Phil -> 1..TIMES]

SectionPcs == TestPcs \cup {"take_hungry", "take_up", "put_thinking",
                            "put_right", "put_up"}

\* i is between a down(&mutex) that has passed and its up(&mutex).
InSection(i) == pc[i] \in SectionPcs /\ Awake(i)

\* The mutex is handed over and counted right: the section is empty exactly
\* when a permit is there, has one thread in it otherwise, and nobody sleeps
\* in front of an open one.
MutexExact ==
    /\ \A i, j \in Phil : InSection(i) /\ InSection(j) => i = j
    /\ mutex.value = IF \E i \in Phil : InSection(i) THEN 0 ELSE 1
    /\ mutex.value > 0 => mutex.wait_queue = <<>>

\* i has its forks: from the end of take until it says that it thinks again.
HasForks(i) ==
    pc[i] \in {"eat", "put_down", "put_thinking"} /\ ~Sleeps(s[i], i)

\* The state a philosopher is given by a neighbour and what the thread really
\* does agree: a permit of s[i] is there exactly while i is EATING and has not
\* taken it, so no philosopher ever eats on a stale permit.
PermitExact ==
    \A i \in Phil :
      /\ s[i].value <= 1
      /\ s[i].value = 1 => state_sema[i] = "EATING" /\ ~HasForks(i)
      /\ HasForks(i) => state_sema[i] = "EATING"
      /\ Sleeps(s[i], i) /\ state_sema[i] = "EATING" =>
           \E j \in Phil : pc[j] = "test_up" /\ call[j].arg = i

\* The promise of module Dining: phases by what the thread really does.
phase == [i \in Phil |->
            IF HasForks(i) THEN "eating"
            ELSE IF pc[i] = "quit" THEN "gone"
            ELSE IF \/ pc[i] \in {"take_down", "take_hungry", "take_up",
                                  "take_s", "eat"}
                    \/ pc[i] \in TestPcs /\ call[i].ret = "take_up"
                   THEN "hungry"
            ELSE "thinking"]

meals == [i \in Phil |->
            IF \/ pc[i] \in {"put_right", "put_up", "quit"}
               \/ pc[i] \in TestPcs /\ call[i].ret # "take_up"
              THEN iter[i] ELSE iter[i] - 1]

Table == INSTANCE Dining WITH phase <- phase, meals <- meals
=============================================================================
