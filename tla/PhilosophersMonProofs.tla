------------------------ MODULE PhilosophersMonProofs ------------------------
(***************************************************************************)
(* Safety of PhilosophersMon for any number of philosophers: the right to  *)
(* run in the monitor is one token, the counters are exact, a signal       *)
(* reaches whom it is for, and every step is one of module Dining. TokenInv*)
(* says without cardinalities where the token is; the rest of IInv says    *)
(* who can sleep where, and what each state_condvar says of the pc of its  *)
(* owner.                                                                  *)
(***************************************************************************)
EXTENDS PhilosophersMon, Queues, FiniteSetTheorems, TLAPS

\* Threads sleep on mutex and next where a down() has put them.
QueueInv ==
    /\ IsInjective(mutex.wait_queue) /\ IsInjective(next.wait_queue)
    /\ \A i \in Phil : Sleeps(mutex, i) => pc[i] \in {"take_hungry", "put_thinking"}
    /\ \A i \in Phil : Sleeps(next, i) => pc[i] = "signal_end"

\* On a condition variable nobody sleeps but its philosopher, in cond_wait.
CvQueueInv ==
    \A i \in Phil :
      /\ cv[i].sem.wait_queue = <<>> \/ cv[i].sem.wait_queue = <<i>>
      /\ Sleeps(cv[i].sem, i) => pc[i] = "wait_end"

\* The token is at one place: a thread, mutex, next or a condition variable.
TokenInv ==
    /\ mutex.value \in {0, 1} /\ next.value \in {0, 1}
    /\ \A i \in Phil : cv[i].sem.value \in {0, 1}
    /\ \A i, j \in Phil : Active(i) /\ Active(j) => i = j
    /\ \A i \in Phil : Active(i) =>
         mutex.value = 0 /\ next.value = 0 /\ \A j \in Phil : cv[j].sem.value = 0
    /\ mutex.value = 1 => next.value = 0 /\ \A j \in Phil : cv[j].sem.value = 0
    /\ next.value = 1 => \A j \in Phil : cv[j].sem.value = 0
    /\ \A i, j \in Phil : cv[i].sem.value = 1 /\ cv[j].sem.value = 1 => i = j
    /\ \/ mutex.value = 1 \/ next.value = 1
       \/ \E i \in Phil : Active(i) \/ cv[i].sem.value = 1

\* phi_test_condvar is called for the caller, then for its neighbours.
CallInv ==
    \A i \in Phil : pc[i] \in TestPcs =>
      call[i].arg = CASE call[i].ret = "take_check" -> i
                      [] call[i].ret = "put_right" -> LEFT(i)
                      [] call[i].ret = "put_leave" -> RIGHT(i)

\* Where a philosopher says that it thinks, and where it says that it eats.
SaysThinking(i) ==
    \/ pc[i] \in {"think", "take_down", "take_hungry", "put_right", "put_leave", "quit"}
    \/ pc[i] \in TestPcs /\ call[i].ret # "take_check"

SaysEating(i) ==
    \/ HasForks(i) \/ pc[i] = "take_leave"
    \/ pc[i] = "wait_end" /\ ~Sleeps(cv[i].sem, i)

StateInv ==
    \A i \in Phil :
      /\ state_condvar[i] = "THINKING" <=> SaysThinking(i)
      /\ SaysEating(i) => state_condvar[i] = "EATING"
      /\ pc[i] \in {"wait", "wait_leave"} => state_condvar[i] = "HUNGRY"
      /\ state_condvar[i] = "EATING" =>
           state_condvar[LEFT(i)] # "EATING" /\ state_condvar[RIGHT(i)] # "EATING"

\* Somebody is about to signal i.
Signalling(i) == \E j \in Phil : pc[j] \in {"signal", "signal_up"} /\ call[j].arg = i

\* A signal that came before the wait is kept; one that comes later wakes.
PermitInv ==
    \A i \in Phil :
      /\ cv[i].sem.value = IF /\ pc[i] = "wait_down" /\ state_condvar[i] = "EATING"
                              /\ ~Signalling(i)
                             THEN 1 ELSE 0
      /\ Sleeps(cv[i].sem, i) => state_condvar[i] = "HUNGRY" \/ Signalling(i)

\* What the test has found still holds when it is acted upon.
TestInv ==
    \A i \in Phil :
      /\ pc[i] = "test_eating" => MayEat(call[i].arg)
      /\ pc[i] \in {"signal", "signal_up"} =>
           state_condvar[call[i].arg] = "EATING" /\ ~SaysEating(call[i].arg)
      /\ pc[i] = "signal_up" => pc[call[i].arg] \in {"wait_down", "wait_end"}

IInv ==
    /\ TypeOK /\ QueueInv /\ CvQueueInv /\ TokenInv /\ CountersExact
    /\ CallInv /\ StateInv /\ PermitInv /\ TestInv

-----------------------------------------------------------------------------
(* The invariant *)

\* A neighbour is another philosopher, and to be neighbours is mutual.
LEMMA Neighbours ==
    ASSUME NEW i \in Phil
    PROVE  /\ LEFT(i) \in Phil /\ RIGHT(i) \in Phil
           /\ LEFT(i) # i /\ RIGHT(i) # i
           /\ LEFT(RIGHT(i)) = i /\ RIGHT(LEFT(i)) = i
  BY PhilosophersAssumption, Ring DEF Phil, LEFT, RIGHT

\* The pcs at which a thread has the token if it is awake.
ActivePcs == Pcs \ (OutsidePcs \cup {"signal_down", "wait_down"})

\* While i has the token nobody else does: the others stand outside, have given
\* it away, or sleep.
LEMMA Alone ==
    ASSUME IInv, NEW i \in Phil, Active(i), NEW j \in Phil, j # i
    PROVE  /\ ~Active(j)
           /\ pc[j] \in OutsidePcs \cup {"signal_down", "wait_down", "take_hungry",
                                         "put_thinking", "signal_end", "wait_end"}
           /\ pc[j] = "wait_end" => Sleeps(cv[j].sem, j)
           /\ pc[j] = "signal_end" => Sleeps(next, j)
<1>1. ~Active(j)
  BY DEF IInv, TokenInv
<1>2. pc[j] \notin OutsidePcs \cup {"signal_down", "wait_down"} => ~Awake(j)
  BY <1>1 DEF Active
<1>3. QED
  BY <1>1, <1>2 DEF IInv, QueueInv, CvQueueInv, Awake, OutsidePcs

\* Who counts for next_count.
Signallers == {i \in Phil : pc[i] \in {"signal_up", "signal_down", "signal_end"}}

\* next_count changes with the set of those who signal, and counts it.
LEMMA Count ==
    /\ IsFiniteSet(Signallers)
    /\ \A i \in Phil : /\ Signallers' = Signallers => Cardinality(Signallers') = Cardinality(Signallers)
                       /\ Signallers' = Signallers \cup {i} /\ i \notin Signallers =>
                            Cardinality(Signallers') = Cardinality(Signallers) + 1
                       /\ Signallers' = Signallers \ {i} /\ i \in Signallers =>
                            Cardinality(Signallers') = Cardinality(Signallers) - 1
    /\ Cardinality(Signallers) \in Nat
<1>1. IsFiniteSet(Phil)
  BY PhilosophersAssumption, FS_Interval DEF Phil
<1>2. Signallers \subseteq Phil
  BY DEF Signallers
<1>3. IsFiniteSet(Signallers)
  BY <1>1, <1>2, FS_Subset
<1> HIDE DEF Signallers
<1>4. QED
  BY <1>3, FS_AddElement, FS_RemoveElement, FS_CardinalityType

\* A step of i that leaves state_condvar and the permits of the condition
\* variables alone, and does not signal, keeps IInv if it keeps the token and the
\* counters right.
LEMMA FrameKeeps ==
    ASSUME IInv, TypeOK', NEW i \in Phil,
           \A j \in Phil : j # i => pc'[j] = pc[j] /\ call'[j] = call[j],
           \A j \in Phil : cv'[j].sem = cv[j].sem,
           UNCHANGED state_condvar,
           ~Sleeps(cv[i].sem, i),
           QueueInv', TokenInv', CountersExact',
           SaysThinking(i)' <=> SaysThinking(i),
           SaysEating(i)' => state_condvar[i] = "EATING" /\ ~Signalling(i),
           pc'[i] \in {"wait", "wait_leave"} => state_condvar[i] = "HUNGRY",
           pc[i] # "wait_down",
           pc'[i] = "wait_down" => state_condvar[i] = "HUNGRY",
           pc[i] \notin {"signal", "signal_up"}, pc'[i] \notin {"signal", "signal_up"},
           pc'[i] \in TestPcs =>
             call'[i].arg = CASE call'[i].ret = "take_check" -> i
                              [] call'[i].ret = "put_right" -> LEFT(i)
                              [] call'[i].ret = "put_leave" -> RIGHT(i),
           pc'[i] = "test_eating" => MayEat(call'[i].arg)
    PROVE  IInv'
<1>1. \A j \in Phil : /\ j # i => /\ SaysEating(j)' <=> SaysEating(j)
                                  /\ SaysThinking(j)' <=> SaysThinking(j)
                      /\ Signalling(j)' <=> Signalling(j)
  BY DEF HasForks, SaysThinking, SaysEating, Signalling
<1>2. CvQueueInv'
  BY DEF IInv, CvQueueInv
<1>3. CallInv'
  BY DEF IInv, CallInv
<1>4. StateInv'
  BY <1>1 DEF IInv, StateInv
<1>5. PermitInv'
  BY <1>1 DEF IInv, PermitInv
<1>6. TestInv'
  <2>1. \A j \in Phil : call'[j].arg \in Phil
    BY DEF TypeOK
  <2>2. ASSUME NEW j \in Phil, j # i
        PROVE  /\ pc'[j] = "test_eating" => MayEat(call[j].arg)'
               /\ pc'[j] \in {"signal", "signal_up"} =>
                    (state_condvar[call[j].arg] = "EATING" /\ ~SaysEating(call[j].arg))'
               /\ pc'[j] = "signal_up" => pc'[call'[j].arg] \in {"wait_down", "wait_end"}
    <3>1. PICK a \in Phil : call[j].arg = a /\ call'[j].arg = a
      BY <2>1, <2>2
    <3>2. MayEat(a)' <=> MayEat(a)
      BY DEF MayEat
    <3>3. pc'[j] = "test_eating" => MayEat(a)'
      BY <2>2, <3>1, <3>2 DEF IInv, TestInv
    <3>4. pc'[j] \in {"signal", "signal_up"} => /\ state_condvar'[a] = "EATING"
                                                /\ ~SaysEating(a) /\ Signalling(a)
      BY <2>2, <3>1 DEF IInv, TestInv, Signalling
    <3>5. pc'[j] \in {"signal", "signal_up"} => ~SaysEating(a)'
      BY <1>1, <3>4
    <3>6. pc'[j] = "signal_up" => pc[a] \in {"wait_down", "wait_end"}
      BY <2>2, <3>1 DEF IInv, TestInv
    <3>7. pc'[j] = "signal_up" => a # i
      BY <3>4, <3>6 DEF SaysEating
    <3>8. QED
      BY <3>1, <3>3, <3>4, <3>5, <3>6, <3>7 DEF MayEat, SaysEating, HasForks
  <2>3. pc'[i] = "test_eating" => MayEat(call[i].arg)'
    BY <2>1 DEF MayEat
  <2>4. QED
    BY <2>2, <2>3 DEF TestInv
<1>7. QED
  BY <1>2, <1>3, <1>4, <1>5, <1>6 DEF IInv

-----------------------------------------------------------------------------
(* The token *)

\* A thread that is awake and leaves the semaphores alone keeps the token, or
\* stays without it.
LEMMA SameToken ==
    ASSUME IInv, NEW i \in Phil, Awake(i),
           \A j \in Phil : j # i => pc'[j] = pc[j],
           UNCHANGED << mutex, next >>, \A j \in Phil : cv'[j].sem = cv[j].sem,
           pc'[i] \in OutsidePcs \cup {"signal_down", "wait_down"} <=>
             pc[i] \in OutsidePcs \cup {"signal_down", "wait_down"}
    PROVE  QueueInv' /\ TokenInv'
<1>1. \A j \in Phil : Active(j)' <=> Active(j)
  BY DEF Active, Awake
<1>2. TokenInv'
  BY <1>1 DEF IInv, TokenInv
<1>3. QED
  BY <1>2 DEF IInv, QueueInv, Awake

\* down(&mtp->mutex) by a thread outside: it takes the token if it is there.
LEMMA EnterMutex ==
    ASSUME IInv, NEW i \in Phil, Awake(i),
           \A j \in Phil : j # i => pc'[j] = pc[j],
           mutex' = down(mutex, i), UNCHANGED << next, cv >>,
           pc[i] \in OutsidePcs, pc'[i] \in {"take_hungry", "put_thinking"}
    PROVE  mutex' \in SemType(Phil) /\ QueueInv' /\ TokenInv'
<1>1. /\ mutex \in SemType(Phil) /\ mutex.value \in {0, 1}
      /\ IsInjective(mutex.wait_queue) /\ ~Sleeps(mutex, i)
      /\ ~Sleeps(next, i) /\ ~Sleeps(cv[i].sem, i)
  BY DEF IInv, TypeOK, QueueInv, TokenInv, Awake
<1>2. CASE mutex.value = 1
  <2>1. /\ mutex' \in SemType(Phil) /\ IsInjective(mutex'.wait_queue)
        /\ mutex'.value = 0
        /\ \A j \in Phil : Sleeps(mutex', j) <=> Sleeps(mutex, j)
    BY <1>1, <1>2, DownFacts
  <2>2. \A j \in Phil : ~Active(j)
    BY <1>2 DEF IInv, TokenInv
  <2>3. \A j \in Phil : Active(j)' <=> j = i
    BY <1>1, <2>1, <2>2 DEF Active, Awake, OutsidePcs
  <2>4. TokenInv'
    BY <1>2, <2>1, <2>3 DEF IInv, TokenInv
  <2>5. QED
    BY <1>1, <2>1, <2>4 DEF IInv, QueueInv
<1>3. CASE mutex.value = 0
  <2>1. /\ mutex' \in SemType(Phil) /\ IsInjective(mutex'.wait_queue)
        /\ mutex'.value = 0
        /\ \A j \in Phil : Sleeps(mutex', j) <=> Sleeps(mutex, j) \/ j = i
    BY <1>1, <1>3, DownFacts
  <2>2. \A j \in Phil : Active(j)' <=> Active(j)
    BY <2>1 DEF Active, Awake
  <2>3. TokenInv'
    BY <1>3, <2>1, <2>2 DEF IInv, TokenInv
  <2>4. QED
    BY <1>1, <2>1, <2>3 DEF IInv, QueueInv
<1>4. QED
  BY <1>1, <1>2, <1>3

\* The thread with the token leaves: it gives the token to next or to mutex.
LEMMA LeaveMonitor ==
    ASSUME IInv, NEW i \in Phil, Active(i), Leave,
           \A j \in Phil : j # i => pc'[j] = pc[j],
           pc'[i] \in OutsidePcs \cup {"wait_down"}
    PROVE  /\ mutex' \in SemType(Phil) /\ next' \in SemType(Phil)
           /\ UNCHANGED << next_count, cv >>
           /\ QueueInv' /\ TokenInv'
<1>1. /\ mutex \in SemType(Phil) /\ next \in SemType(Phil)
      /\ mutex.value = 0 /\ next.value = 0
      /\ IsInjective(mutex.wait_queue) /\ IsInjective(next.wait_queue)
      /\ \A j \in Phil : Active(j) => j = i
      /\ \A j \in Phil : cv[j].sem.value = 0
      /\ ~Sleeps(mutex, i) /\ ~Sleeps(next, i) /\ ~Sleeps(cv[i].sem, i)
  BY DEF IInv, TypeOK, QueueInv, TokenInv, Active, Awake
<1>2. CASE next_count > 0
  <2>1. next' = up(next) /\ UNCHANGED << mutex, next_count, cv >>
    BY <1>2 DEF Leave
  <2>2. CASE next.wait_queue = <<>>
    <3>1. /\ next' \in SemType(Phil) /\ IsInjective(next'.wait_queue)
          /\ next'.value = 1
          /\ \A j \in Phil : ~Sleeps(next', j) /\ ~Sleeps(next, j)
      BY <1>1, <2>1, <2>2, UpFacts
    <3>2. \A j \in Phil : ~Active(j)'
      BY <1>1, <2>1, <3>1 DEF Active, Awake
    <3>3. TokenInv'
      BY <1>1, <2>1, <3>1, <3>2 DEF TokenInv
    <3>4. QED
      BY <1>1, <2>1, <3>1, <3>3 DEF IInv, QueueInv
  <2>3. CASE next.wait_queue # <<>>
    <3>1. /\ next' \in SemType(Phil) /\ IsInjective(next'.wait_queue)
          /\ next'.value = 0
      BY <1>1, <2>1, <2>3, UpFacts
    <3>2. PICK k \in Phil :
            /\ Sleeps(next, k)
            /\ \A j \in Phil : Sleeps(next', j) <=> Sleeps(next, j) /\ j # k
      BY <1>1, <2>1, <2>3, UpFacts
    <3>3. /\ k # i /\ pc[k] = "signal_end" /\ ~Sleeps(mutex, k) /\ ~Sleeps(cv[k].sem, k)
      BY <1>1, <3>2 DEF IInv, QueueInv, CvQueueInv
    <3>4. \A j \in Phil : Active(j)' <=> j = k
      BY <1>1, <2>1, <3>2, <3>3 DEF Active, Awake, OutsidePcs
    <3>5. TokenInv'
      BY <1>1, <2>1, <3>1, <3>4 DEF TokenInv
    <3>6. QED
      BY <1>1, <2>1, <3>1, <3>2, <3>5 DEF IInv, QueueInv
  <2>4. QED
    BY <2>2, <2>3
<1>3. CASE ~(next_count > 0)
  <2>1. mutex' = up(mutex) /\ UNCHANGED << next, next_count, cv >>
    BY <1>3 DEF Leave
  <2>2. CASE mutex.wait_queue = <<>>
    <3>1. /\ mutex' \in SemType(Phil) /\ IsInjective(mutex'.wait_queue)
          /\ mutex'.value = 1
          /\ \A j \in Phil : ~Sleeps(mutex', j) /\ ~Sleeps(mutex, j)
      BY <1>1, <2>1, <2>2, UpFacts
    <3>2. \A j \in Phil : ~Active(j)'
      BY <1>1, <2>1, <3>1 DEF Active, Awake
    <3>3. TokenInv'
      BY <1>1, <2>1, <3>1, <3>2 DEF TokenInv
    <3>4. QED
      BY <1>1, <2>1, <3>1, <3>3 DEF IInv, QueueInv
  <2>3. CASE mutex.wait_queue # <<>>
    <3>1. /\ mutex' \in SemType(Phil) /\ IsInjective(mutex'.wait_queue)
          /\ mutex'.value = 0
      BY <1>1, <2>1, <2>3, UpFacts
    <3>2. PICK k \in Phil :
            /\ Sleeps(mutex, k)
            /\ \A j \in Phil : Sleeps(mutex', j) <=> Sleeps(mutex, j) /\ j # k
      BY <1>1, <2>1, <2>3, UpFacts
    <3>3. /\ k # i /\ pc[k] \in {"take_hungry", "put_thinking"}
          /\ ~Sleeps(next, k) /\ ~Sleeps(cv[k].sem, k)
      BY <1>1, <3>2 DEF IInv, QueueInv, CvQueueInv
    <3>4. \A j \in Phil : Active(j)' <=> j = k
      BY <1>1, <2>1, <3>2, <3>3 DEF Active, Awake, OutsidePcs
    <3>5. TokenInv'
      BY <1>1, <2>1, <3>1, <3>4 DEF TokenInv
    <3>6. QED
      BY <1>1, <2>1, <3>1, <3>2, <3>5 DEF IInv, QueueInv
  <2>4. QED
    BY <2>2, <2>3
<1>4. QED
  BY <1>2, <1>3

-----------------------------------------------------------------------------
(* Every action keeps the invariant *)

\* The counters stay right if i stays among those who wait, or not, and among
\* those who signal, or not.
LEMMA SameCounters ==
    ASSUME IInv, NEW i \in Phil,
           \A j \in Phil : j # i => pc'[j] = pc[j],
           \A j \in Phil : cv'[j].count = cv[j].count,
           UNCHANGED next_count,
           pc'[i] \in {"wait_leave", "wait_down", "wait_end"} <=>
             pc[i] \in {"wait_leave", "wait_down", "wait_end"},
           pc'[i] \in {"signal_up", "signal_down", "signal_end"} <=>
             pc[i] \in {"signal_up", "signal_down", "signal_end"}
    PROVE  CountersExact'
<1>1. Signallers' = Signallers
  BY DEF Signallers
<1>2. QED
  BY <1>1 DEF IInv, CountersExact, Signallers

\* Where a philosopher goes, and that the others stay.
LEMMA OnlyOne ==
    ASSUME TypeOK, NEW i \in Phil, NEW at \in Pcs, Goto(i, at)
    PROVE  /\ pc' \in [Phil -> Pcs]
           /\ pc'[i] = at
           /\ \A j \in Phil : j # i => pc'[j] = pc[j]
  BY DEF TypeOK, Goto

\* The same of the arguments of phi_test_condvar.
LEMMA CallFacts ==
    ASSUME TypeOK, NEW i \in Phil, NEW j \in Phil,
           NEW ret \in {"take_check", "put_right", "put_leave"}, CallTest(i, j, ret)
    PROVE  /\ call' \in [Phil -> [arg : Phil, ret : {"take_check", "put_right", "put_leave"}]]
           /\ call'[i].arg = j /\ call'[i].ret = ret
           /\ \A k \in Phil : k # i => call'[k] = call[k]
           /\ pc' \in [Phil -> Pcs]
           /\ pc'[i] = "test"
           /\ \A k \in Phil : k # i => pc'[k] = pc[k]
<1>1. pc \in [Phil -> Pcs] /\ "test" \in Pcs
  BY DEF TypeOK, Pcs, TestPcs
<1>2. /\ call \in [Phil -> [arg : Phil, ret : {"take_check", "put_right", "put_leave"}]]
      /\ call' = [call EXCEPT ![i] = [arg |-> j, ret |-> ret]]
      /\ pc' = [pc EXCEPT ![i] = "test"]
  BY DEF CallTest, TypeOK, Goto
<1>3. QED
  BY <1>1, <1>2

\* Who says that it eats, does; and nobody signals it.
LEMMA Eaters ==
    ASSUME IInv, NEW i \in Phil, SaysEating(i)
    PROVE  state_condvar[i] = "EATING" /\ ~Signalling(i)
  BY DEF IInv, StateInv, TestInv, Signalling

\* Outside the monitor: a step of the pc alone.
LEMMA ThinkKeeps ==
    ASSUME IInv, NEW i \in Phil, Think(i)
    PROVE  IInv'
<1>1. /\ pc[i] = "think" /\ Awake(i) /\ Goto(i, "take_down")
      /\ UNCHANGED << state_condvar, mutex, next, next_count, cv, call, iter >>
  BY DEF Think, At, monitor
<1>2. /\ pc' \in [Phil -> Pcs] /\ pc'[i] = "take_down"
      /\ \A j \in Phil : j # i => pc'[j] = pc[j]
  BY <1>1, OnlyOne DEF IInv, Pcs
<1>3. TypeOK'
  BY <1>1, <1>2 DEF IInv, TypeOK
<1>4. QueueInv' /\ TokenInv'
  BY <1>1, <1>2, SameToken DEF OutsidePcs
<1>5. CountersExact'
  BY <1>1, <1>2, SameCounters
<1>6. /\ SaysThinking(i)' <=> SaysThinking(i)
      /\ SaysEating(i)' => SaysEating(i)
  BY <1>1, <1>2 DEF HasForks, SaysThinking, SaysEating, TestPcs
<1>7. QED
  BY <1>1, <1>2, <1>3, <1>4, <1>5, <1>6, Eaters, FrameKeeps DEF Awake, TestPcs

\* The meal ends; the forks are still there.
LEMMA EatKeeps ==
    ASSUME IInv, NEW i \in Phil, Eat(i)
    PROVE  IInv'
<1>1. /\ pc[i] = "eat" /\ Awake(i) /\ Goto(i, "put_down")
      /\ UNCHANGED << state_condvar, mutex, next, next_count, cv, call, iter >>
  BY DEF Eat, At, monitor
<1>2. /\ pc' \in [Phil -> Pcs] /\ pc'[i] = "put_down"
      /\ \A j \in Phil : j # i => pc'[j] = pc[j]
  BY <1>1, OnlyOne DEF IInv, Pcs
<1>3. TypeOK'
  BY <1>1, <1>2 DEF IInv, TypeOK
<1>4. QueueInv' /\ TokenInv'
  BY <1>1, <1>2, SameToken DEF OutsidePcs
<1>5. CountersExact'
  BY <1>1, <1>2, SameCounters
<1>6. /\ SaysThinking(i)' <=> SaysThinking(i)
      /\ SaysEating(i)' => SaysEating(i)
  BY <1>1, <1>2 DEF HasForks, SaysThinking, SaysEating, TestPcs
<1>7. QED
  BY <1>1, <1>2, <1>3, <1>4, <1>5, <1>6, Eaters, FrameKeeps DEF Awake, TestPcs

\* The monitor is entered to take the forks.
LEMMA TakeDownKeeps ==
    ASSUME IInv, NEW i \in Phil, TakeDown(i)
    PROVE  IInv'
<1>1. /\ pc[i] = "take_down" /\ Awake(i) /\ Goto(i, "take_hungry")
      /\ mutex' = down(mutex, i)
      /\ UNCHANGED << state_condvar, next, next_count, cv, call, iter >>
  BY DEF TakeDown, At
<1>2. /\ pc' \in [Phil -> Pcs] /\ pc'[i] = "take_hungry"
      /\ \A j \in Phil : j # i => pc'[j] = pc[j]
  BY <1>1, OnlyOne DEF IInv, Pcs
<1>3. mutex' \in SemType(Phil) /\ QueueInv' /\ TokenInv'
  BY <1>1, <1>2, EnterMutex DEF OutsidePcs
<1>4. TypeOK'
  BY <1>1, <1>2, <1>3 DEF IInv, TypeOK
<1>5. CountersExact'
  BY <1>1, <1>2, SameCounters
<1>6. /\ SaysThinking(i)' <=> SaysThinking(i)
      /\ SaysEating(i)' => SaysEating(i)
  BY <1>1, <1>2 DEF HasForks, SaysThinking, SaysEating, TestPcs
<1>7. QED
  BY <1>1, <1>2, <1>3, <1>4, <1>5, <1>6, Eaters, FrameKeeps DEF Awake, TestPcs

\* The monitor is entered to put the forks down.
LEMMA PutDownKeeps ==
    ASSUME IInv, NEW i \in Phil, PutDown(i)
    PROVE  IInv'
<1>1. /\ pc[i] = "put_down" /\ Awake(i) /\ Goto(i, "put_thinking")
      /\ mutex' = down(mutex, i)
      /\ UNCHANGED << state_condvar, next, next_count, cv, call, iter >>
  BY DEF PutDown, At
<1>2. /\ pc' \in [Phil -> Pcs] /\ pc'[i] = "put_thinking"
      /\ \A j \in Phil : j # i => pc'[j] = pc[j]
  BY <1>1, OnlyOne DEF IInv, Pcs
<1>3. mutex' \in SemType(Phil) /\ QueueInv' /\ TokenInv'
  BY <1>1, <1>2, EnterMutex DEF OutsidePcs
<1>4. TypeOK'
  BY <1>1, <1>2, <1>3 DEF IInv, TypeOK
<1>5. CountersExact'
  BY <1>1, <1>2, SameCounters
<1>6. /\ SaysThinking(i)' <=> SaysThinking(i)
      /\ SaysEating(i)' => SaysEating(i)
  BY <1>1, <1>2 DEF HasForks, SaysThinking, SaysEating, TestPcs
<1>7. QED
  BY <1>1, <1>2, <1>3, <1>4, <1>5, <1>6, Eaters, FrameKeeps DEF Awake, TestPcs

\* phi_test_condvar looks at the three states.
LEMMA TestKeeps ==
    ASSUME IInv, NEW i \in Phil, Test(i)
    PROVE  IInv'
<1> DEFINE at == IF MayEat(call[i].arg) THEN "test_eating" ELSE call[i].ret
<1>1. /\ pc[i] = "test" /\ Awake(i) /\ Goto(i, at)
      /\ UNCHANGED << state_condvar, mutex, next, next_count, cv, call, iter >>
  BY DEF Test, At, monitor
<1>2. call[i].ret \in {"take_check", "put_right", "put_leave"}
  BY DEF IInv, TypeOK
<1>3. at \in Pcs
  BY <1>2 DEF Pcs, TestPcs
<1>4. /\ pc' \in [Phil -> Pcs] /\ pc'[i] = at
      /\ \A j \in Phil : j # i => pc'[j] = pc[j]
  BY <1>1, <1>3, OnlyOne DEF IInv
<1>5. pc'[i] \in {"test_eating", "take_check", "put_right", "put_leave"}
  BY <1>2, <1>4
<1>6. TypeOK'
  BY <1>1, <1>4 DEF IInv, TypeOK
<1>7. QueueInv' /\ TokenInv'
  BY <1>1, <1>4, <1>5, SameToken DEF OutsidePcs
<1>8. CountersExact'
  BY <1>1, <1>4, <1>5, SameCounters
<1>9. /\ SaysThinking(i)' <=> SaysThinking(i)
      /\ SaysEating(i)' => SaysEating(i)
  BY <1>1, <1>2, <1>4 DEF HasForks, SaysThinking, SaysEating, TestPcs
<1>10. pc'[i] = "test_eating" => MayEat(call[i].arg)
  BY <1>2, <1>4
<1>11. pc[i] \in TestPcs
  BY <1>1 DEF TestPcs
<1> HIDE DEF at
<1>12. QED
  BY <1>1, <1>4, <1>5, <1>6, <1>7, <1>8, <1>9, <1>10, <1>11, Eaters, FrameKeeps
     DEF Awake, IInv, CallInv

\* Who is HUNGRY still waits; who is not has its forks.
LEMMA TakeCheckKeeps ==
    ASSUME IInv, NEW i \in Phil, TakeCheck(i)
    PROVE  IInv'
<1> DEFINE at == IF state_condvar[i] = "HUNGRY" THEN "wait" ELSE "take_leave"
<1>1. /\ pc[i] = "take_check" /\ Awake(i) /\ Goto(i, at)
      /\ UNCHANGED << state_condvar, mutex, next, next_count, cv, call, iter >>
  BY DEF TakeCheck, At, monitor
<1>2. at \in Pcs
  BY DEF Pcs, WaitPcs
<1>3. /\ pc' \in [Phil -> Pcs] /\ pc'[i] = at
      /\ \A j \in Phil : j # i => pc'[j] = pc[j]
  BY <1>1, <1>2, OnlyOne DEF IInv
<1>4. TypeOK'
  BY <1>1, <1>3 DEF IInv, TypeOK
<1>5. QueueInv' /\ TokenInv'
  BY <1>1, <1>3, SameToken DEF OutsidePcs
<1>6. CountersExact'
  BY <1>1, <1>3, SameCounters
<1>7. SaysThinking(i)' <=> SaysThinking(i)
  BY <1>1, <1>3 DEF HasForks, SaysThinking, SaysEating, TestPcs
<1>8. ~Signalling(i)
  <2>1. Active(i)
    BY <1>1 DEF Active, OutsidePcs
  <2>2. QED
    BY <1>1, <2>1, Alone DEF Signalling, OutsidePcs
<1>9. SaysEating(i)' => state_condvar[i] = "EATING"
  <2>1. ~SaysThinking(i)
    BY <1>1 DEF HasForks, SaysThinking, SaysEating, TestPcs
  <2>2. state_condvar[i] \in {"HUNGRY", "EATING"}
    BY <2>1 DEF IInv, TypeOK, StateInv
  <2>3. QED
    BY <1>1, <1>3, <2>2 DEF HasForks, SaysThinking, SaysEating, TestPcs
<1>10. QED
  BY <1>1, <1>3, <1>4, <1>5, <1>6, <1>7, <1>8, <1>9, FrameKeeps DEF Awake, TestPcs

\* With both forks, the monitor is left.
LEMMA TakeLeaveKeeps ==
    ASSUME IInv, NEW i \in Phil, TakeLeave(i)
    PROVE  IInv'
<1>1. /\ pc[i] = "take_leave" /\ Awake(i) /\ Goto(i, "eat") /\ Leave
      /\ UNCHANGED << state_condvar, call, iter >>
  BY DEF TakeLeave, At
<1>2. /\ pc' \in [Phil -> Pcs] /\ pc'[i] = "eat"
      /\ \A j \in Phil : j # i => pc'[j] = pc[j]
  BY <1>1, OnlyOne DEF IInv, Pcs, WaitPcs
<1>3. Active(i)
  BY <1>1 DEF Active, OutsidePcs
<1>4. /\ mutex' \in SemType(Phil) /\ next' \in SemType(Phil)
      /\ UNCHANGED << next_count, cv >> /\ QueueInv' /\ TokenInv'
  BY <1>1, <1>2, <1>3, LeaveMonitor DEF OutsidePcs
<1>5. TypeOK'
  BY <1>1, <1>2, <1>4 DEF IInv, TypeOK
<1>6. CountersExact'
  BY <1>1, <1>2, <1>4, SameCounters
<1>7. /\ SaysThinking(i)' <=> SaysThinking(i)
      /\ SaysEating(i)' => SaysEating(i)
  BY <1>1, <1>2, <1>4 DEF HasForks, SaysThinking, SaysEating, TestPcs
<1>8. pc'[i] = "wait_down" => state_condvar[i] = "HUNGRY"
  BY <1>1, <1>2 DEF IInv, StateInv
<1>9. QED
  BY <1>1, <1>2, <1>4, <1>5, <1>6, <1>7, <1>8, Eaters, FrameKeeps DEF Awake, TestPcs

\* cond_wait gives the monitor away before it waits.
LEMMA WaitLeaveKeeps ==
    ASSUME IInv, NEW i \in Phil, WaitLeave(i)
    PROVE  IInv'
<1>1. /\ pc[i] = "wait_leave" /\ Awake(i) /\ Goto(i, "wait_down") /\ Leave
      /\ UNCHANGED << state_condvar, call, iter >>
  BY DEF WaitLeave, At
<1>2. /\ pc' \in [Phil -> Pcs] /\ pc'[i] = "wait_down"
      /\ \A j \in Phil : j # i => pc'[j] = pc[j]
  BY <1>1, OnlyOne DEF IInv, Pcs, WaitPcs
<1>3. Active(i)
  BY <1>1 DEF Active, OutsidePcs
<1>4. /\ mutex' \in SemType(Phil) /\ next' \in SemType(Phil)
      /\ UNCHANGED << next_count, cv >> /\ QueueInv' /\ TokenInv'
  BY <1>1, <1>2, <1>3, LeaveMonitor DEF OutsidePcs
<1>5. TypeOK'
  BY <1>1, <1>2, <1>4 DEF IInv, TypeOK
<1>6. CountersExact'
  BY <1>1, <1>2, <1>4, SameCounters
<1>7. /\ SaysThinking(i)' <=> SaysThinking(i)
      /\ SaysEating(i)' => SaysEating(i)
  BY <1>1, <1>2, <1>4 DEF HasForks, SaysThinking, SaysEating, TestPcs
<1>8. pc'[i] = "wait_down" => state_condvar[i] = "HUNGRY"
  BY <1>1, <1>2 DEF IInv, StateInv
<1>9. QED
  BY <1>1, <1>2, <1>4, <1>5, <1>6, <1>7, <1>8, Eaters, FrameKeeps DEF Awake, TestPcs

\* The end of a round.
LEMMA PutLeaveKeeps ==
    ASSUME IInv, NEW i \in Phil, PutLeave(i)
    PROVE  IInv'
<1> DEFINE at == IF iter[i] < TIMES THEN "think" ELSE "quit"
<1>1. /\ pc[i] = "put_leave" /\ Awake(i) /\ Goto(i, at) /\ Leave
      /\ iter' = IF iter[i] < TIMES THEN [iter EXCEPT ![i] = @ + 1] ELSE iter
      /\ UNCHANGED << state_condvar, call >>
  BY DEF PutLeave, At
<1>2. /\ pc' \in [Phil -> Pcs] /\ pc'[i] = at
      /\ \A j \in Phil : j # i => pc'[j] = pc[j]
  BY <1>1, OnlyOne DEF IInv, Pcs
<1>3. Active(i)
  BY <1>1 DEF Active, OutsidePcs
<1>4. /\ mutex' \in SemType(Phil) /\ next' \in SemType(Phil)
      /\ UNCHANGED << next_count, cv >> /\ QueueInv' /\ TokenInv'
  BY <1>1, <1>2, <1>3, LeaveMonitor DEF OutsidePcs
<1>5. iter' \in [Phil -> 1..TIMES]
  BY <1>1, PhilosophersAssumption DEF IInv, TypeOK
<1>6. TypeOK'
  BY <1>1, <1>2, <1>4, <1>5 DEF IInv, TypeOK
<1>7. CountersExact'
  BY <1>1, <1>2, <1>4, SameCounters
<1>8. /\ SaysThinking(i)' <=> SaysThinking(i)
      /\ SaysEating(i)' => SaysEating(i)
  BY <1>1, <1>2, <1>4 DEF HasForks, SaysThinking, SaysEating, TestPcs
<1>9. QED
  BY <1>1, <1>2, <1>4, <1>6, <1>7, <1>8, Eaters, FrameKeeps DEF Awake, TestPcs

\* The right neighbour is tested after the left one.
LEMMA PutRightKeeps ==
    ASSUME IInv, NEW i \in Phil, PutRight(i)
    PROVE  IInv'
<1>1. /\ pc[i] = "put_right" /\ Awake(i) /\ CallTest(i, RIGHT(i), "put_leave")
      /\ UNCHANGED << state_condvar, mutex, next, next_count, cv, iter >>
  BY DEF PutRight, At, monitor
<1>2. /\ call' \in [Phil -> [arg : Phil, ret : {"take_check", "put_right", "put_leave"}]]
      /\ call'[i].arg = RIGHT(i) /\ call'[i].ret = "put_leave"
      /\ \A k \in Phil : k # i => call'[k] = call[k]
      /\ pc' \in [Phil -> Pcs]
      /\ pc'[i] = "test"
      /\ \A k \in Phil : k # i => pc'[k] = pc[k]
  BY <1>1, CallFacts, Neighbours DEF IInv
<1>3. TypeOK'
  BY <1>1, <1>2 DEF IInv, TypeOK
<1>4. QueueInv' /\ TokenInv'
  BY <1>1, <1>2, SameToken DEF OutsidePcs
<1>5. CountersExact'
  BY <1>1, <1>2, SameCounters
<1>6. /\ SaysThinking(i)' <=> SaysThinking(i)
      /\ SaysEating(i)' => SaysEating(i)
  BY <1>1, <1>2 DEF HasForks, SaysThinking, SaysEating, TestPcs
<1>7. QED
  BY <1>1, <1>2, <1>3, <1>4, <1>5, <1>6, Eaters, FrameKeeps DEF Awake

\* cond_wait counts the waiting thread, which has not yet left.
LEMMA CondWaitKeeps ==
    ASSUME IInv, NEW i \in Phil, CondWait(i)
    PROVE  IInv'
<1>1. /\ pc[i] = "wait" /\ Awake(i) /\ Goto(i, "wait_leave")
      /\ cv' = [cv EXCEPT ![i].count = @ + 1]
      /\ UNCHANGED << state_condvar, mutex, next, next_count, call, iter >>
  BY DEF CondWait, At
<1>2. /\ pc' \in [Phil -> Pcs] /\ pc'[i] = "wait_leave"
      /\ \A j \in Phil : j # i => pc'[j] = pc[j]
  BY <1>1, OnlyOne DEF IInv, Pcs, WaitPcs
<1>3. cv[i].count = 0
  BY <1>1 DEF IInv, CountersExact
<1>4. /\ \A j \in Phil : /\ cv'[j].sem = cv[j].sem
                         /\ j # i => cv'[j] = cv[j]
      /\ cv'[i].count = 1
      /\ cv' \in [Phil -> [count : Nat, sem : SemType(Phil)]]
  BY <1>1, <1>3 DEF IInv, TypeOK
<1>5. TypeOK'
  BY <1>1, <1>2, <1>4 DEF IInv, TypeOK
<1>6. QueueInv' /\ TokenInv'
  BY <1>1, <1>2, <1>4, SameToken DEF OutsidePcs
<1>7. CountersExact'
  <2>1. Signallers' = Signallers
    BY <1>1, <1>2 DEF Signallers
  <2>2. QED
    BY <1>1, <1>2, <1>4, <2>1 DEF IInv, CountersExact, Signallers
<1>8. /\ SaysThinking(i)' <=> SaysThinking(i)
      /\ SaysEating(i)' => SaysEating(i)
  BY <1>1, <1>2 DEF HasForks, SaysThinking, SaysEating, TestPcs
<1>9. pc'[i] \in {"wait", "wait_leave"} => state_condvar[i] = "HUNGRY"
  BY <1>1, <1>2 DEF IInv, StateInv
<1>10. QED
  BY <1>1, <1>2, <1>4, <1>5, <1>6, <1>7, <1>8, <1>9, Eaters, FrameKeeps
     DEF Awake, TestPcs

\* The thread is back from the wait, with its forks.
LEMMA WaitEndKeeps ==
    ASSUME IInv, NEW i \in Phil, WaitEnd(i)
    PROVE  IInv'
<1>1. /\ pc[i] = "wait_end" /\ Awake(i) /\ Goto(i, "take_leave")
      /\ cv' = [cv EXCEPT ![i].count = @ - 1]
      /\ UNCHANGED << state_condvar, mutex, next, next_count, call, iter >>
  BY DEF WaitEnd, At
<1>2. /\ pc' \in [Phil -> Pcs] /\ pc'[i] = "take_leave"
      /\ \A j \in Phil : j # i => pc'[j] = pc[j]
  BY <1>1, OnlyOne DEF IInv, Pcs, WaitPcs
<1>3. cv[i].count = 1
  BY <1>1 DEF IInv, CountersExact
<1>4. /\ \A j \in Phil : /\ cv'[j].sem = cv[j].sem
                         /\ j # i => cv'[j] = cv[j]
      /\ cv'[i].count = 0
      /\ cv' \in [Phil -> [count : Nat, sem : SemType(Phil)]]
  BY <1>1, <1>3 DEF IInv, TypeOK
<1>5. TypeOK'
  BY <1>1, <1>2, <1>4 DEF IInv, TypeOK
<1>6. QueueInv' /\ TokenInv'
  BY <1>1, <1>2, <1>4, SameToken DEF OutsidePcs
<1>7. CountersExact'
  <2>1. Signallers' = Signallers
    BY <1>1, <1>2 DEF Signallers
  <2>2. QED
    BY <1>1, <1>2, <1>4, <2>1 DEF IInv, CountersExact, Signallers
<1>8. /\ SaysThinking(i)' <=> SaysThinking(i)
      /\ SaysEating(i)' => SaysEating(i)
  BY <1>1, <1>2 DEF HasForks, SaysThinking, SaysEating, TestPcs, Awake
<1>9. pc'[i] \in {"wait", "wait_leave"} => state_condvar[i] = "HUNGRY"
  BY <1>1, <1>2 DEF IInv, StateInv
<1>10. QED
  BY <1>1, <1>2, <1>4, <1>5, <1>6, <1>7, <1>8, <1>9, Eaters, FrameKeeps
     DEF Awake, TestPcs

\* The signaller waits until the monitor comes back to it, unless it has already.
LEMMA SignalDownKeeps ==
    ASSUME IInv, NEW i \in Phil, SignalDown(i)
    PROVE  IInv'
<1>1. /\ pc[i] = "signal_down" /\ Awake(i) /\ Goto(i, "signal_end")
      /\ next' = down(next, i)
      /\ UNCHANGED << state_condvar, mutex, next_count, cv, call, iter >>
  BY DEF SignalDown, At
<1>2. /\ pc' \in [Phil -> Pcs] /\ pc'[i] = "signal_end"
      /\ \A j \in Phil : j # i => pc'[j] = pc[j]
  BY <1>1, OnlyOne DEF IInv, Pcs, TestPcs
<1>3. /\ next \in SemType(Phil) /\ next.value \in {0, 1}
      /\ IsInjective(next.wait_queue) /\ ~Sleeps(next, i)
      /\ ~Sleeps(mutex, i) /\ ~Sleeps(cv[i].sem, i)
  BY <1>1 DEF IInv, TypeOK, QueueInv, TokenInv, Awake
<1>4. next' \in SemType(Phil) /\ QueueInv' /\ TokenInv'
  <2>1. CASE next.value = 1
    <3>1. /\ next' \in SemType(Phil) /\ IsInjective(next'.wait_queue)
          /\ next'.value = 0
          /\ \A j \in Phil : Sleeps(next', j) <=> Sleeps(next, j)
      BY <1>1, <1>3, <2>1, DownFacts
    <3>2. \A j \in Phil : ~Active(j)
      BY <2>1 DEF IInv, TokenInv
    <3>3. \A j \in Phil : Active(j)' <=> j = i
      BY <1>1, <1>2, <1>3, <3>1, <3>2 DEF Active, Awake, OutsidePcs
    <3>4. TokenInv'
      BY <1>1, <2>1, <3>1, <3>3 DEF IInv, TokenInv
    <3>5. QED
      BY <1>1, <1>2, <1>3, <3>1, <3>4 DEF IInv, QueueInv
  <2>2. CASE next.value = 0
    <3>1. /\ next' \in SemType(Phil) /\ IsInjective(next'.wait_queue)
          /\ next'.value = 0
          /\ \A j \in Phil : Sleeps(next', j) <=> Sleeps(next, j) \/ j = i
      BY <1>1, <1>3, <2>2, DownFacts
    <3>2. \A j \in Phil : Active(j)' <=> Active(j)
      BY <1>1, <1>2, <3>1 DEF Active, Awake
    <3>3. TokenInv'
      BY <1>1, <2>2, <3>1, <3>2 DEF IInv, TokenInv
    <3>4. QED
      BY <1>1, <1>2, <1>3, <3>1, <3>3 DEF IInv, QueueInv
  <2>3. QED
    BY <1>3, <2>1, <2>2
<1>5. TypeOK'
  BY <1>1, <1>2, <1>4 DEF IInv, TypeOK
<1>6. CountersExact'
  BY <1>1, <1>2, SameCounters
<1>7. /\ SaysThinking(i)' <=> SaysThinking(i)
      /\ SaysEating(i)' => SaysEating(i)
      /\ pc[i] \in TestPcs
  BY <1>1, <1>2 DEF HasForks, SaysThinking, SaysEating, TestPcs
<1>8. QED
  BY <1>1, <1>2, <1>3, <1>4, <1>5, <1>6, <1>7, Eaters, FrameKeeps DEF IInv, CallInv

\* The signaller has the monitor again.
LEMMA SignalEndKeeps ==
    ASSUME IInv, NEW i \in Phil, SignalEnd(i)
    PROVE  IInv'
<1>1. /\ pc[i] = "signal_end" /\ Awake(i) /\ Goto(i, call[i].ret)
      /\ next_count' = next_count - 1
      /\ UNCHANGED << state_condvar, mutex, next, cv, call, iter >>
  BY DEF SignalEnd, At
<1>2. call[i].ret \in {"take_check", "put_right", "put_leave"}
  BY DEF IInv, TypeOK
<1>3. /\ pc' \in [Phil -> Pcs] /\ pc'[i] = call[i].ret
      /\ \A j \in Phil : j # i => pc'[j] = pc[j]
  BY <1>1, <1>2, OnlyOne DEF IInv, Pcs
<1>4. CountersExact' /\ next_count' \in Nat
  <2>1. Signallers' = Signallers \ {i} /\ i \in Signallers
    BY <1>1, <1>2, <1>3 DEF Signallers
  <2>2. /\ Cardinality(Signallers') = Cardinality(Signallers) - 1
        /\ IsFiniteSet(Signallers)'
    BY <2>1, Count, FS_RemoveElement
  <2>3. next_count' = Cardinality(Signallers')
    BY <1>1, <2>2 DEF IInv, CountersExact, Signallers
  <2>4. Cardinality(Signallers') \in Nat
    BY <2>2, FS_CardinalityType
  <2>5. CountersExact'
    BY <1>1, <1>2, <1>3, <2>3 DEF IInv, CountersExact, Signallers
  <2>6. QED
    BY <2>3, <2>4, <2>5
<1>5. TypeOK'
  BY <1>1, <1>3, <1>4 DEF IInv, TypeOK
<1>6. QueueInv' /\ TokenInv'
  BY <1>1, <1>2, <1>3, SameToken DEF OutsidePcs
<1>7. /\ SaysThinking(i)' <=> SaysThinking(i)
      /\ SaysEating(i)' => SaysEating(i)
      /\ pc'[i] \notin TestPcs \cup WaitPcs
  BY <1>1, <1>2, <1>3 DEF HasForks, SaysThinking, SaysEating, TestPcs, WaitPcs
<1>8. QED
  BY <1>1, <1>3, <1>4, <1>5, <1>6, <1>7, Eaters, FrameKeeps DEF Awake, TestPcs, WaitPcs

\* While i has the token nobody else tests or signals, or is on its way into a
\* wait, or out of it.
LEMMA Quiet ==
    ASSUME IInv, NEW i \in Phil, Active(i), NEW j \in Phil, j # i
    PROVE  pc[j] \notin {"test", "test_eating", "signal", "signal_up", "wait",
                         "wait_leave", "take_check", "take_leave"}
  BY Alone DEF OutsidePcs

\* The philosopher says HUNGRY before it looks for forks.
LEMMA TakeHungryKeeps ==
    ASSUME IInv, NEW i \in Phil, TakeHungry(i)
    PROVE  IInv'
<1>1. /\ pc[i] = "take_hungry" /\ Awake(i) /\ CallTest(i, i, "take_check")
      /\ state_condvar' = [state_condvar EXCEPT ![i] = "HUNGRY"]
      /\ UNCHANGED << mutex, next, next_count, cv, iter >>
  BY DEF TakeHungry, At, monitor
<1>2. /\ call' \in [Phil -> [arg : Phil, ret : {"take_check", "put_right", "put_leave"}]]
      /\ call'[i].arg = i /\ call'[i].ret = "take_check"
      /\ \A k \in Phil : k # i => call'[k] = call[k]
      /\ pc' \in [Phil -> Pcs]
      /\ pc'[i] = "test"
      /\ \A k \in Phil : k # i => pc'[k] = pc[k]
  BY <1>1, CallFacts DEF IInv
<1>3. /\ state_condvar'[i] = "HUNGRY"
      /\ \A k \in Phil : k # i => state_condvar'[k] = state_condvar[k]
  BY <1>1 DEF IInv, TypeOK
<1>4. TypeOK'
  BY <1>1, <1>2 DEF IInv, TypeOK
<1>5. \A k \in Phil : k # i => pc[k] \notin {"test", "test_eating", "signal", "signal_up"}
  BY <1>1, Quiet DEF Active, OutsidePcs
<1>6. \A k \in Phil : /\ k # i => /\ SaysThinking(k)' <=> SaysThinking(k)
                                  /\ SaysEating(k)' <=> SaysEating(k)
                      /\ ~Signalling(k) /\ ~Signalling(k)'
  BY <1>1, <1>2, <1>5 DEF HasForks, SaysThinking, SaysEating, Signalling
<1>7. QueueInv' /\ TokenInv'
  BY <1>1, <1>2, SameToken DEF OutsidePcs
<1>8. CountersExact'
  BY <1>1, <1>2, SameCounters
<1>9. CallInv'
  BY <1>2 DEF IInv, CallInv
<1>10. CvQueueInv'
  BY <1>1, <1>2 DEF IInv, CvQueueInv, Awake
<1>11. ~SaysThinking(i)' /\ ~SaysEating(i)'
  BY <1>2 DEF SaysThinking, SaysEating, HasForks
<1>12. StateInv'
  BY <1>2, <1>3, <1>6, <1>11, Neighbours DEF IInv, StateInv
<1>13. PermitInv'
  BY <1>1, <1>2, <1>3, <1>6 DEF IInv, PermitInv, Awake
<1>14. TestInv'
  BY <1>2, <1>5 DEF TestInv
<1>15. QED
  BY <1>4, <1>7, <1>8, <1>9, <1>10, <1>12, <1>13, <1>14 DEF IInv

\* The forks are put down before the neighbours are tested.
LEMMA PutThinkingKeeps ==
    ASSUME IInv, NEW i \in Phil, PutThinking(i)
    PROVE  IInv'
<1>1. /\ pc[i] = "put_thinking" /\ Awake(i) /\ CallTest(i, LEFT(i), "put_right")
      /\ state_condvar' = [state_condvar EXCEPT ![i] = "THINKING"]
      /\ UNCHANGED << mutex, next, next_count, cv, iter >>
  BY DEF PutThinking, At, monitor
<1>2. /\ call' \in [Phil -> [arg : Phil, ret : {"take_check", "put_right", "put_leave"}]]
      /\ call'[i].arg = LEFT(i) /\ call'[i].ret = "put_right"
      /\ \A k \in Phil : k # i => call'[k] = call[k]
      /\ pc' \in [Phil -> Pcs]
      /\ pc'[i] = "test"
      /\ \A k \in Phil : k # i => pc'[k] = pc[k]
  BY <1>1, CallFacts, Neighbours DEF IInv
<1>3. /\ state_condvar'[i] = "THINKING"
      /\ \A k \in Phil : k # i => state_condvar'[k] = state_condvar[k]
  BY <1>1 DEF IInv, TypeOK
<1>4. TypeOK'
  BY <1>1, <1>2 DEF IInv, TypeOK
<1>5. \A k \in Phil : k # i => pc[k] \notin {"test", "test_eating", "signal", "signal_up"}
  BY <1>1, Quiet DEF Active, OutsidePcs
<1>6. \A k \in Phil : /\ k # i => /\ SaysThinking(k)' <=> SaysThinking(k)
                                  /\ SaysEating(k)' <=> SaysEating(k)
                      /\ ~Signalling(k) /\ ~Signalling(k)'
  BY <1>1, <1>2, <1>5 DEF HasForks, SaysThinking, SaysEating, Signalling
<1>7. QueueInv' /\ TokenInv'
  BY <1>1, <1>2, SameToken DEF OutsidePcs
<1>8. CountersExact'
  BY <1>1, <1>2, SameCounters
<1>9. CallInv'
  BY <1>2 DEF IInv, CallInv
<1>10. CvQueueInv'
  BY <1>1, <1>2 DEF IInv, CvQueueInv, Awake
<1>11. SaysThinking(i)' /\ ~SaysEating(i)'
  BY <1>2 DEF SaysThinking, SaysEating, HasForks, TestPcs
<1>12. StateInv'
  BY <1>2, <1>3, <1>6, <1>11, Neighbours DEF IInv, StateInv
<1>13. PermitInv'
  BY <1>1, <1>2, <1>3, <1>6 DEF IInv, PermitInv, Awake
<1>14. TestInv'
  BY <1>2, <1>5 DEF TestInv
<1>15. QED
  BY <1>4, <1>7, <1>8, <1>9, <1>10, <1>12, <1>13, <1>14 DEF IInv

\* The philosopher tested is hungry and its neighbours do not eat: still so, as
\* nobody else runs in the monitor. It is signalled next.
LEMMA TestEatingKeeps ==
    ASSUME IInv, NEW i \in Phil, TestEating(i)
    PROVE  IInv'
<1>0. PICK a \in Phil : call[i].arg = a
  BY DEF IInv, TypeOK
<1>1. /\ pc[i] = "test_eating" /\ Awake(i) /\ Goto(i, "signal")
      /\ state_condvar' = [state_condvar EXCEPT ![a] = "EATING"]
      /\ UNCHANGED << mutex, next, next_count, cv, call, iter >>
  BY <1>0 DEF TestEating, At, monitor
<1>2. /\ pc' \in [Phil -> Pcs] /\ pc'[i] = "signal"
      /\ \A j \in Phil : j # i => pc'[j] = pc[j]
  BY <1>1, OnlyOne DEF IInv, Pcs, TestPcs
<1>3. /\ state_condvar'[a] = "EATING"
      /\ \A k \in Phil : k # a => state_condvar'[k] = state_condvar[k]
  BY <1>0, <1>1 DEF IInv, TypeOK
<1>4. TypeOK'
  BY <1>1, <1>2 DEF IInv, TypeOK
<1>5. \A k \in Phil : k # i => pc[k] \notin {"test", "test_eating", "signal", "signal_up",
                                             "wait", "wait_leave"}
  BY <1>1, Quiet DEF Active, OutsidePcs
<1>6. \A k \in Phil : /\ SaysThinking(k)' <=> SaysThinking(k)
                      /\ SaysEating(k)' <=> SaysEating(k)
                      /\ ~Signalling(k)
                      /\ Signalling(k)' <=> k = a
  BY <1>0, <1>1, <1>2, <1>5 DEF HasForks, SaysThinking, SaysEating, Signalling, TestPcs
<1>7. /\ state_condvar[a] = "HUNGRY"
      /\ state_condvar[LEFT(a)] # "EATING" /\ state_condvar[RIGHT(a)] # "EATING"
      /\ ~SaysEating(a)
  BY <1>0, <1>1 DEF IInv, TestInv, MayEat, StateInv
<1>8. QueueInv' /\ TokenInv'
  BY <1>1, <1>2, SameToken DEF OutsidePcs
<1>9. CountersExact'
  BY <1>1, <1>2, SameCounters
<1>10. CallInv'
  BY <1>1, <1>2 DEF IInv, CallInv, TestPcs
<1>11. CvQueueInv'
  BY <1>1, <1>2 DEF IInv, CvQueueInv, Awake
<1>12. StateInv'
  BY <1>0, <1>2, <1>3, <1>5, <1>6, <1>7, Neighbours DEF IInv, StateInv
<1>13. PermitInv'
  BY <1>0, <1>1, <1>2, <1>3, <1>6, <1>7 DEF IInv, PermitInv
<1>14. TestInv'
  <2>1. call'[i].arg = a /\ ~SaysEating(a)'
    BY <1>0, <1>1, <1>6, <1>7
  <2>2. QED
    BY <1>0, <1>2, <1>3, <1>5, <2>1 DEF TestInv, SaysEating, HasForks
<1>15. QED
  BY <1>4, <1>8, <1>9, <1>10, <1>11, <1>12, <1>13, <1>14 DEF IInv

\* Who is signalled waits already, in down() or before it, if it is counted; if it
\* is not it does not wait, and does not need the signal.
LEMMA SignalKeeps ==
    ASSUME IInv, NEW i \in Phil, Signal(i)
    PROVE  IInv'
<1>0. PICK a \in Phil : call[i].arg = a
  BY DEF IInv, TypeOK
<1>1. /\ pc[i] = "signal" /\ Awake(i)
      /\ UNCHANGED << state_condvar, mutex, next, cv, call, iter >>
      /\ cv[a].count > 0 => next_count' = next_count + 1 /\ Goto(i, "signal_up")
      /\ ~(cv[a].count > 0) => next_count' = next_count /\ Goto(i, call[i].ret)
  BY <1>0 DEF Signal, At
<1>2. call[i].ret \in {"take_check", "put_right", "put_leave"} /\ pc[i] \in TestPcs
  BY <1>1 DEF IInv, TypeOK, TestPcs
<1>3. /\ pc' \in [Phil -> Pcs]
      /\ \A j \in Phil : j # i => pc'[j] = pc[j]
      /\ pc'[i] = IF cv[a].count > 0 THEN "signal_up" ELSE call[i].ret
  BY <1>1, <1>2, OnlyOne DEF IInv, Pcs, TestPcs
<1>4. \A k \in Phil : k # i => pc[k] \notin {"test", "test_eating", "signal", "signal_up",
                                             "wait", "wait_leave"}
  BY <1>1, Quiet DEF Active, OutsidePcs
<1>5. cv[a].count = IF pc[a] \in {"wait_leave", "wait_down", "wait_end"} THEN 1 ELSE 0
  BY DEF IInv, CountersExact
<1>6. state_condvar[a] = "EATING" /\ ~SaysEating(a)
  BY <1>0, <1>1 DEF IInv, TestInv
<1>7. \A k \in Phil : /\ SaysThinking(k)' <=> SaysThinking(k)
                      /\ SaysEating(k)' <=> SaysEating(k)
                      /\ Signalling(k) <=> k = a
                      /\ Signalling(k)' <=> k = a /\ cv[a].count > 0
  BY <1>0, <1>1, <1>2, <1>3, <1>4 DEF HasForks, SaysThinking, SaysEating, Signalling, TestPcs
<1>8. CountersExact' /\ next_count' \in Nat
  <2>1. CASE cv[a].count > 0
    <3>1. Signallers' = Signallers \cup {i} /\ i \notin Signallers
      BY <1>1, <1>3, <2>1 DEF Signallers
    <3>2. /\ Cardinality(Signallers') = Cardinality(Signallers) + 1
      BY <3>1, Count
    <3>3. next_count' = Cardinality(Signallers')
      BY <1>1, <2>1, <3>2 DEF IInv, CountersExact, Signallers
    <3>4. next_count' \in Nat
      BY <1>1, <2>1 DEF IInv, TypeOK
    <3>5. CountersExact'
      BY <1>1, <1>3, <2>1, <3>3 DEF IInv, CountersExact, Signallers
    <3>6. QED
      BY <3>4, <3>5
  <2>2. CASE ~(cv[a].count > 0)
    <3>1. CountersExact'
      BY <1>1, <1>2, <1>3, <2>2, SameCounters
    <3>2. QED
      BY <1>1, <2>2, <3>1 DEF IInv, TypeOK
  <2>3. QED
    BY <2>1, <2>2
<1>9. TypeOK'
  BY <1>1, <1>3, <1>8 DEF IInv, TypeOK
<1>10. QueueInv' /\ TokenInv'
  BY <1>1, <1>2, <1>3, SameToken DEF OutsidePcs
<1>11. CallInv'
  BY <1>1, <1>2, <1>3 DEF IInv, CallInv, TestPcs
<1>12. CvQueueInv'
  BY <1>1, <1>2, <1>3 DEF IInv, CvQueueInv, Awake
<1>13. StateInv'
  BY <1>1, <1>2, <1>3, <1>7 DEF IInv, StateInv
<1>14. PermitInv'
  <2>1. pc'[i] # "wait_down" /\ pc[i] # "wait_down"
    BY <1>1, <1>2, <1>3
  <2>2. ~(cv[a].count > 0) => pc[a] # "wait_down" /\ ~Sleeps(cv[a].sem, a)
    BY <1>5 DEF IInv, CvQueueInv
  <2>3. QED
    BY <1>1, <1>3, <1>6, <1>7, <2>1, <2>2 DEF IInv, PermitInv
<1>15. TestInv'
  <2>1. call'[i].arg = a /\ ~SaysEating(a)'
    BY <1>0, <1>1, <1>6, <1>7
  <2>2. cv[a].count > 0 => a # i /\ pc[a] \in {"wait_down", "wait_end"}
    BY <1>1, <1>4, <1>5
  <2>3. QED
    BY <1>0, <1>1, <1>2, <1>3, <1>4, <1>6, <2>1, <2>2 DEF TestInv, SaysEating, HasForks
<1>16. QED
  BY <1>8, <1>9, <1>10, <1>11, <1>12, <1>13, <1>14, <1>15 DEF IInv

\* cond_signal keeps the rest of IInv, from what up() does to the condition variable.
LEMMA SignalUpRest ==
    ASSUME IInv, NEW i \in Phil, SignalUp(i), NEW a \in Phil, call[i].arg = a,
           cv'[a].sem \in SemType(Phil), cv'[a].sem.wait_queue = <<>>,
           ~Sleeps(cv'[a].sem, a),
           cv'[a].sem.value = IF pc[a] = "wait_down" THEN 1 ELSE 0,
           TokenInv'
    PROVE  IInv'
<1>1. /\ pc[i] = "signal_up" /\ Awake(i) /\ Goto(i, "signal_down")
      /\ cv' = [cv EXCEPT ![a].sem = up(@)]
      /\ UNCHANGED << state_condvar, mutex, next, next_count, call, iter >>
  BY DEF SignalUp, At
<1>2. /\ pc' \in [Phil -> Pcs] /\ pc'[i] = "signal_down"
      /\ \A j \in Phil : j # i => pc'[j] = pc[j]
  BY <1>1, OnlyOne DEF IInv, Pcs, TestPcs
<1>3. \A k \in Phil : k # i => pc[k] \notin {"test", "test_eating", "signal", "signal_up"}
  BY <1>1, Quiet DEF Active, OutsidePcs
<1>4. /\ state_condvar[a] = "EATING"
      /\ pc[a] \in {"wait_down", "wait_end"} /\ a # i
  BY <1>1 DEF IInv, TestInv
<1>5. /\ cv'[a].sem = up(cv[a].sem) /\ cv'[a].count = cv[a].count
      /\ \A k \in Phil : k # a => cv'[k] = cv[k]
  BY <1>1 DEF IInv, TypeOK
<1>6. \A k \in Phil : /\ k # a => (SaysEating(k)' <=> SaysEating(k))
                      /\ SaysThinking(k)' <=> SaysThinking(k)
                      /\ Signalling(k) => k = a
                      /\ ~Signalling(k)'
  BY <1>1, <1>2, <1>3, <1>5 DEF HasForks, SaysThinking, SaysEating, Signalling, TestPcs
<1>7. TypeOK'
  <2>1. cv[a] \in [count : Nat, sem : SemType(Phil)]
    BY DEF IInv, TypeOK
  <2>2. cv'[a] = [cv[a] EXCEPT !.sem = cv'[a].sem]
    BY <1>1, <1>5 DEF IInv, TypeOK
  <2>3. cv'[a] \in [count : Nat, sem : SemType(Phil)]
    BY <2>1, <2>2
  <2>4. cv' = [cv EXCEPT ![a] = cv'[a]]
    BY <1>1, <1>5 DEF IInv, TypeOK
  <2>5. cv' \in [Phil -> [count : Nat, sem : SemType(Phil)]]
    BY <2>3, <2>4 DEF IInv, TypeOK
  <2>6. QED
    BY <1>1, <1>2, <2>5 DEF IInv, TypeOK
<1>8. QueueInv'
  BY <1>1, <1>2 DEF IInv, QueueInv, Awake
<1>9. CvQueueInv'
  <2>1. ~Sleeps(cv[i].sem, i)
    BY <1>1 DEF Awake
  <2>2. QED
    BY <1>2, <1>4, <1>5, <2>1 DEF IInv, CvQueueInv
<1>10. CountersExact'
  <2>1. \A j \in Phil : cv'[j].count = cv[j].count
    BY <1>5
  <2>2. QED
    BY <1>1, <1>2, <2>1, SameCounters
<1>11. CallInv'
  BY <1>1, <1>2 DEF IInv, CallInv, TestPcs
<1>12. StateInv'
  BY <1>1, <1>2, <1>4, <1>6 DEF IInv, StateInv
<1>13. PermitInv'
  BY <1>1, <1>2, <1>4, <1>5, <1>6 DEF IInv, PermitInv
<1>14. TestInv'
  BY <1>2, <1>3 DEF TestInv
<1>15. QED
  BY <1>7, <1>8, <1>9, <1>10, <1>11, <1>12, <1>13, <1>14 DEF IInv

\* The signaller gives its token to the thread it wakes, or leaves it as the
\* permit the thread will find.
LEMMA SignalUpKeeps ==
    ASSUME IInv, NEW i \in Phil, SignalUp(i)
    PROVE  IInv'
<1>0. PICK a \in Phil : call[i].arg = a
  BY DEF IInv, TypeOK
<1>1. /\ pc[i] = "signal_up" /\ Awake(i) /\ Goto(i, "signal_down")
      /\ cv' = [cv EXCEPT ![a].sem = up(@)]
      /\ UNCHANGED << state_condvar, mutex, next, next_count, call, iter >>
  BY <1>0 DEF SignalUp, At
<1>2. /\ pc' \in [Phil -> Pcs] /\ pc'[i] = "signal_down"
      /\ \A j \in Phil : j # i => pc'[j] = pc[j]
  BY <1>1, OnlyOne DEF IInv, Pcs, TestPcs
<1>3. Active(i)
  BY <1>1 DEF Active, OutsidePcs
<1>4. \A k \in Phil : k # i => pc[k] \notin {"test", "test_eating", "signal", "signal_up"}
  BY <1>3, Quiet
<1>5. /\ state_condvar[a] = "EATING" /\ ~SaysEating(a) /\ Signalling(a)
      /\ pc[a] \in {"wait_down", "wait_end"} /\ a # i
  BY <1>0, <1>1 DEF IInv, TestInv, Signalling
<1>6. /\ \A j \in Phil : Active(j) => j = i
      /\ mutex.value = 0 /\ next.value = 0
      /\ \A j \in Phil : cv[j].sem.value = 0
  BY <1>3 DEF IInv, TokenInv
<1>7. /\ cv[a].sem \in SemType(Phil)
      /\ cv[a].sem.wait_queue = <<>> \/ cv[a].sem.wait_queue = <<a>>
      /\ IsInjective(cv[a].sem.wait_queue)
      /\ ~Sleeps(mutex, a) /\ ~Sleeps(next, a)
  <2>1. /\ cv[a].sem \in SemType(Phil)
        /\ cv[a].sem.wait_queue = <<>> \/ cv[a].sem.wait_queue = <<a>>
    BY DEF IInv, TypeOK, CvQueueInv
  <2>2. IsInjective(cv[a].sem.wait_queue)
    BY <2>1 DEF IsInjective
  <2>3. ~Sleeps(mutex, a) /\ ~Sleeps(next, a)
    BY <1>5 DEF IInv, QueueInv
  <2>4. QED
    BY <2>1, <2>2, <2>3
<1>8. /\ cv'[a].sem = up(cv[a].sem) /\ cv'[a].count = cv[a].count
      /\ \A k \in Phil : k # a => cv'[k] = cv[k]
  BY <1>1 DEF IInv, TypeOK
<1>9. CASE pc[a] = "wait_down"
  <2>1. ~Sleeps(cv[a].sem, a) /\ cv[a].sem.wait_queue = <<>>
    <3>1. ~Sleeps(cv[a].sem, a)
      BY <1>9 DEF IInv, CvQueueInv
    <3>2. QED
      BY <1>7, <3>1, OwnSleeper
  <2>2. /\ cv'[a].sem \in SemType(Phil)
        /\ cv'[a].sem.value = 1 /\ cv'[a].sem.wait_queue = <<>>
        /\ ~Sleeps(cv'[a].sem, a)
    BY <1>6, <1>7, <1>8, <2>1, UpFacts
  <2>3. \A j \in Phil : ~Active(j)'
    BY <1>1, <1>2, <1>5, <1>6, <1>8, <1>9, <2>2 DEF Active, Awake
  <2>4. TokenInv'
    BY <1>1, <1>6, <1>8, <2>2, <2>3 DEF TokenInv
  <2>5. QED
    BY <1>0, <1>9, <2>2, <2>4, SignalUpRest
<1>10. CASE pc[a] = "wait_end"
  <2>1. Sleeps(cv[a].sem, a) /\ cv[a].sem.wait_queue = <<a>>
    <3>1. Sleeps(cv[a].sem, a)
      BY <1>3, <1>5, <1>10, Alone
    <3>2. QED
      BY <1>7, <3>1, OwnSleeper
  <2>2. /\ cv'[a].sem \in SemType(Phil)
        /\ cv'[a].sem.value = 0 /\ cv'[a].sem.wait_queue = <<>>
        /\ ~Sleeps(cv'[a].sem, a)
    <3>1. cv[a].sem.wait_queue # <<>> /\ Tail(cv[a].sem.wait_queue) = <<>>
      BY <2>1
    <3>2. cv'[a].sem = [cv[a].sem EXCEPT !.wait_queue = <<>>]
      BY <1>8, <3>1 DEF up
    <3>3. <<>> \in Seq(Phil)
      OBVIOUS
    <3>4. /\ cv'[a].sem \in SemType(Phil)
          /\ cv'[a].sem.value = 0 /\ cv'[a].sem.wait_queue = <<>>
      BY <1>6, <1>7, <3>2, <3>3 DEF SemType
    <3>5. QED
      BY <3>1, <3>4, <2>1, OwnSleeper
  <2>3. \A j \in Phil : Active(j)' <=> j = a
    BY <1>1, <1>2, <1>5, <1>6, <1>7, <1>8, <1>10, <2>2 DEF Active, Awake, OutsidePcs
  <2>4. TokenInv'
    BY <1>1, <1>6, <1>8, <2>2, <2>3 DEF TokenInv
  <2>5. QED
    BY <1>0, <1>10, <2>2, <2>4, SignalUpRest
<1>11. QED
  BY <1>5, <1>9, <1>10

\* cond_wait: the thread takes the permit of a signal that came first, or sleeps.
LEMMA WaitDownKeeps ==
    ASSUME IInv, NEW i \in Phil, WaitDown(i)
    PROVE  IInv'
<1>1. /\ pc[i] = "wait_down" /\ Awake(i) /\ Goto(i, "wait_end")
      /\ cv' = [cv EXCEPT ![i].sem = down(@, i)]
      /\ UNCHANGED << state_condvar, mutex, next, next_count, call, iter >>
  BY DEF WaitDown, At
<1>2. /\ pc' \in [Phil -> Pcs] /\ pc'[i] = "wait_end"
      /\ \A j \in Phil : j # i => pc'[j] = pc[j]
  BY <1>1, OnlyOne DEF IInv, Pcs, WaitPcs
<1>3. /\ cv'[i].sem = down(cv[i].sem, i) /\ cv'[i].count = cv[i].count
      /\ \A k \in Phil : k # i => cv'[k] = cv[k]
  BY <1>1 DEF IInv, TypeOK
<1>4. /\ cv[i].sem \in SemType(Phil) /\ cv[i].sem.value \in {0, 1}
      /\ ~Sleeps(cv[i].sem, i) /\ cv[i].sem.wait_queue = <<>>
      /\ IsInjective(cv[i].sem.wait_queue)
      /\ ~Sleeps(mutex, i) /\ ~Sleeps(next, i)
  <2>1. /\ cv[i].sem \in SemType(Phil) /\ cv[i].sem.value \in {0, 1}
        /\ ~Sleeps(cv[i].sem, i) /\ ~Sleeps(mutex, i) /\ ~Sleeps(next, i)
    BY <1>1 DEF IInv, TypeOK, TokenInv, Awake
  <2>2. cv[i].sem.wait_queue = <<>>
    BY <2>1, OwnSleeper DEF IInv, CvQueueInv
  <2>3. QED
    BY <2>1, <2>2 DEF IsInjective
<1>5. /\ cv[i].sem.value = 1 => state_condvar[i] = "EATING" /\ ~Signalling(i)
      /\ cv[i].sem.value = 0 => state_condvar[i] = "HUNGRY" \/ Signalling(i)
  <2>1. state_condvar[i] # "THINKING"
    BY <1>1 DEF IInv, StateInv, SaysThinking, TestPcs
  <2>2. QED
    BY <1>1, <2>1 DEF IInv, PermitInv, TypeOK
<1>6. \A k \in Phil : /\ k # i => (SaysEating(k)' <=> SaysEating(k))
                      /\ SaysThinking(k)' <=> SaysThinking(k)
                      /\ Signalling(k)' <=> Signalling(k)
  BY <1>1, <1>2, <1>3 DEF HasForks, SaysThinking, SaysEating, Signalling, TestPcs
<1>7. /\ cv'[i].sem \in SemType(Phil) /\ cv'[i].sem.value = 0
      /\ Sleeps(cv'[i].sem, i) <=> cv[i].sem.value = 0
      /\ cv'[i].sem.wait_queue = <<>> \/ cv'[i].sem.wait_queue = <<i>>
      /\ TokenInv'
  <2>1. CASE cv[i].sem.value = 1
    <3>1. /\ cv'[i].sem \in SemType(Phil) /\ cv'[i].sem.value = 0
          /\ ~Sleeps(cv'[i].sem, i) /\ cv'[i].sem.wait_queue = <<>>
      BY <1>3, <1>4, <2>1, DownFacts
    <3>2. /\ \A j \in Phil : ~Active(j)
          /\ mutex.value = 0 /\ next.value = 0
          /\ \A j \in Phil : j # i => cv[j].sem.value = 0
      BY <2>1 DEF IInv, TokenInv
    <3>3. \A j \in Phil : Active(j)' <=> j = i
      BY <1>1, <1>2, <1>3, <1>4, <3>1, <3>2 DEF Active, Awake, OutsidePcs
    <3>4. TokenInv'
      BY <1>1, <1>3, <3>1, <3>2, <3>3 DEF TokenInv
    <3>5. QED
      BY <2>1, <3>1, <3>4
  <2>2. CASE cv[i].sem.value = 0
    <3>1. /\ cv'[i].sem \in SemType(Phil) /\ cv'[i].sem.value = 0
          /\ Sleeps(cv'[i].sem, i)
      BY <1>3, <1>4, <2>2, DownFacts
    <3>2. cv'[i].sem.wait_queue = <<i>>
      <4>1. cv'[i].sem = [cv[i].sem EXCEPT !.wait_queue = Append(@, i)]
        BY <1>3, <2>2 DEF down, CanPass
      <4>2. Append(cv[i].sem.wait_queue, i) = <<i>>
        BY <1>4
      <4>3. cv'[i].sem = [cv[i].sem EXCEPT !.wait_queue = <<i>>]
        BY <4>1, <4>2
      <4>4. QED
        BY <1>4, <4>3 DEF SemType
    <3>3. \A j \in Phil : Active(j)' <=> Active(j)
      BY <1>1, <1>2, <1>3, <3>1 DEF Active, Awake
    <3>4. \A j \in Phil : cv'[j].sem.value = cv[j].sem.value
      BY <1>3, <2>2, <3>1
    <3>5. TokenInv'
      BY <1>1, <3>3, <3>4 DEF IInv, TokenInv
    <3>6. QED
      BY <2>2, <3>1, <3>2, <3>5
  <2>3. QED
    BY <1>4, <2>1, <2>2
<1>8. TypeOK'
  <2>1. cv' \in [Phil -> [count : Nat, sem : SemType(Phil)]]
    BY <1>1, <1>3, <1>7 DEF IInv, TypeOK
  <2>2. QED
    BY <1>1, <1>2, <2>1 DEF IInv, TypeOK
<1>9. QueueInv'
  BY <1>1, <1>2, <1>4 DEF IInv, QueueInv
<1>10. CvQueueInv'
  BY <1>2, <1>3, <1>7 DEF IInv, CvQueueInv
<1>11. CountersExact'
  <2>1. \A j \in Phil : cv'[j].count = cv[j].count
    BY <1>3
  <2>2. QED
    BY <1>1, <1>2, <2>1, SameCounters
<1>12. CallInv'
  BY <1>1, <1>2 DEF IInv, CallInv, TestPcs
<1>13. StateInv'
  <2>1. SaysEating(i)' => state_condvar[i] = "EATING"
    BY <1>2, <1>5, <1>4, <1>7 DEF SaysEating, HasForks
  <2>2. QED
    BY <1>1, <1>2, <1>6, <2>1 DEF IInv, StateInv
<1>14. PermitInv'
  BY <1>1, <1>2, <1>3, <1>5, <1>6, <1>7 DEF IInv, PermitInv
<1>15. TestInv'
  <2>1. ASSUME NEW j \in Phil, pc'[j] \in {"test_eating", "signal", "signal_up"}
        PROVE  /\ pc'[j] = "test_eating" => MayEat(call[j].arg)'
               /\ pc'[j] \in {"signal", "signal_up"} =>
                    (state_condvar[call[j].arg] = "EATING" /\ ~SaysEating(call[j].arg))'
               /\ pc'[j] = "signal_up" => pc'[call'[j].arg] \in {"wait_down", "wait_end"}
    <3>1. PICK a \in Phil : call[j].arg = a
      BY DEF IInv, TypeOK
    <3>2. j # i /\ pc[j] = pc'[j] /\ call'[j].arg = a
      BY <1>1, <1>2, <2>1, <3>1
    <3>3. MayEat(a)' <=> MayEat(a)
      BY <1>1 DEF MayEat
    <3>4. pc'[j] = "test_eating" => MayEat(a)'
      BY <3>1, <3>2, <3>3 DEF IInv, TestInv
    <3>5. pc'[j] \in {"signal", "signal_up"} => /\ state_condvar'[a] = "EATING"
                                                /\ ~SaysEating(a) /\ Signalling(a)
      BY <1>1, <3>1, <3>2 DEF IInv, TestInv, Signalling
    <3>6. Signalling(i) => ~SaysEating(i)'
      BY <1>2, <1>4, <1>5, <1>7 DEF SaysEating, HasForks
    <3>7. pc'[j] \in {"signal", "signal_up"} => ~SaysEating(a)'
      BY <1>6, <3>5, <3>6
    <3>8. pc'[j] = "signal_up" => pc'[a] \in {"wait_down", "wait_end"}
      BY <1>2, <3>1, <3>2 DEF IInv, TestInv
    <3>9. QED
      BY <3>2, <3>4, <3>5, <3>7, <3>8 DEF MayEat, SaysEating, HasForks
  <2>2. QED
    BY <2>1 DEF TestInv
<1>16. QED
  BY <1>7, <1>8, <1>9, <1>10, <1>11, <1>12, <1>13, <1>14, <1>15 DEF IInv

\* IInv holds initially.
LEMMA InitIInv == Init => IInv
<1> SUFFICES ASSUME Init PROVE IInv
  OBVIOUS
<1>1. /\ mutex = [value |-> 1, wait_queue |-> <<>>]
      /\ next = [value |-> 0, wait_queue |-> <<>>] /\ next_count = 0
      /\ cv = [i \in Phil |->
                 [count |-> 0, sem |-> [value |-> 0, wait_queue |-> <<>>]]]
  BY DEF Init, sem_init
<1>2. <<>> \in Seq(Phil)
  OBVIOUS
<1>3. /\ mutex \in SemType(Phil) /\ next \in SemType(Phil)
      /\ cv \in [Phil -> [count : Nat, sem : SemType(Phil)]]
  BY <1>1, <1>2 DEF SemType
<1>4. TypeOK
  BY <1>1, <1>3, PhilosophersAssumption DEF Init, TypeOK, Pcs
<1>5. \A i \in Phil : ~Sleeps(mutex, i) /\ ~Sleeps(next, i) /\ ~Sleeps(cv[i].sem, i)
  BY <1>1 DEF Sleeps, ToSet
<1>6. \A i \in Phil : pc[i] = "think" /\ ~Active(i)
  BY DEF Init, Active, OutsidePcs
<1>7. QueueInv /\ CvQueueInv
  BY <1>1, <1>5 DEF QueueInv, CvQueueInv, IsInjective
<1>8. TokenInv
  BY <1>1, <1>6 DEF TokenInv
<1>9. CountersExact
  <2>1. {i \in Phil : pc[i] \in {"signal_up", "signal_down", "signal_end"}} = {}
    BY <1>6
  <2>2. QED
    BY <1>1, <1>6, <2>1, FS_EmptySet DEF CountersExact
<1>10. CallInv /\ TestInv
  BY <1>6 DEF CallInv, TestInv, TestPcs
<1>11. StateInv /\ PermitInv
  BY <1>1, <1>5, <1>6
     DEF Init, StateInv, PermitInv, SaysThinking, SaysEating, HasForks, TestPcs
<1>12. QED
  BY <1>4, <1>7, <1>8, <1>9, <1>10, <1>11 DEF IInv

\* Every step keeps IInv.
LEMMA NextIInv == IInv /\ [Next]_vars => IInv'
<1> SUFFICES ASSUME IInv, [Next]_vars PROVE IInv'
  OBVIOUS
<1>1. CASE UNCHANGED vars
  <2>1. UNCHANGED << state_condvar, mutex, next, next_count, cv, pc, call, iter >>
    BY <1>1 DEF vars, monitor
  <2>2. /\ TypeOK' <=> TypeOK
        /\ QueueInv' <=> QueueInv
        /\ CvQueueInv' <=> CvQueueInv
        /\ CallInv' <=> CallInv
        /\ CountersExact' <=> CountersExact
    BY <2>1 DEF TypeOK, QueueInv, CvQueueInv, CallInv, CountersExact
  <2>3. TokenInv' <=> TokenInv
    BY <2>1 DEF TokenInv, Active, Awake
  <2>4. /\ StateInv' <=> StateInv
        /\ PermitInv' <=> PermitInv
        /\ TestInv' <=> TestInv
    BY <2>1 DEF StateInv, PermitInv, TestInv, SaysThinking, SaysEating, HasForks,
                Signalling, MayEat
  <2>5. QED
    BY <2>2, <2>3, <2>4 DEF IInv
<1>2. ASSUME NEW i \in Phil, Philosopher(i)
      PROVE  IInv'
  BY <1>2, ThinkKeeps, TakeDownKeeps, TakeHungryKeeps, TakeCheckKeeps, TakeLeaveKeeps,
     EatKeeps, PutDownKeeps, PutThinkingKeeps, PutRightKeeps, PutLeaveKeeps,
     TestKeeps, TestEatingKeeps, SignalKeeps, SignalUpKeeps, SignalDownKeeps,
     SignalEndKeeps, CondWaitKeeps, WaitLeaveKeeps, WaitDownKeeps, WaitEndKeeps
     DEF Philosopher
<1>3. QED
  BY <1>1, <1>2 DEF Next

-----------------------------------------------------------------------------
(* The dining table *)

\* A step of i is a step at the table for i alone, or none.
LEMMA OthersStay ==
    ASSUME NEW i \in Phil,
           \A j \in Phil : j # i =>
             pc'[j] = pc[j] /\ call'[j] = call[j] /\ iter'[j] = iter[j]
    PROVE  /\ phase' = [phase EXCEPT ![i] = phase'[i]]
           /\ meals' = [meals EXCEPT ![i] = meals'[i]]
<1>1. \A j \in Phil : j # i => phase'[j] = phase[j] /\ meals'[j] = meals[j]
  BY DEF phase, meals, HasForks
<1>2. /\ phase = [j \in Phil |-> phase[j]] /\ meals = [j \in Phil |-> meals[j]]
      /\ phase' = [j \in Phil |-> phase'[j]] /\ meals' = [j \in Phil |-> meals'[j]]
  BY DEF phase, meals
<1> HIDE DEF phase, meals
<1>3. QED
  BY <1>1, <1>2

\* The steps of the table, in terms of phase and meals.
LEMMA TableSteps ==
    ASSUME NEW i \in Phil, phase' = [phase EXCEPT ![i] = phase'[i]]
    PROVE  /\ phase'[i] = phase[i] /\ meals' = meals
                => UNCHANGED << phase, meals >>
           /\ phase[i] = "thinking" /\ meals[i] < TIMES /\ phase'[i] = "hungry"
                /\ meals' = meals => Table!Next
           /\ phase[i] = "hungry" /\ phase[LEFT(i)] # "eating"
                /\ phase[RIGHT(i)] # "eating" /\ phase'[i] = "eating" /\ meals' = meals
                => Table!Next
           /\ phase[i] = "eating" /\ phase'[i] = "thinking"
                /\ meals' = [meals EXCEPT ![i] = @ + 1] => Table!Next
           /\ phase[i] = "thinking" /\ meals[i] = TIMES /\ phase'[i] = "gone"
                /\ meals' = meals => Table!Next
<1>1. phase \in [Phil -> {"eating", "gone", "hungry", "thinking"}]
  BY DEF phase
<1>2. phase'[i] = phase[i] => phase' = phase
  BY <1>1
<1>3. Table!Phil = Phil /\ Table!LEFT(i) = LEFT(i) /\ Table!RIGHT(i) = RIGHT(i)
  BY DEF Table!Phil, Phil, Table!LEFT, LEFT, Table!RIGHT, RIGHT
<1> HIDE DEF phase, meals
<1>4. phase[i] = "thinking" /\ meals[i] < TIMES /\ phase'[i] = "hungry"
        /\ meals' = meals => Table!Hunger(i)
  BY DEF Table!Hunger
<1>5. phase[i] = "hungry" /\ phase[LEFT(i)] # "eating"
        /\ phase[RIGHT(i)] # "eating" /\ phase'[i] = "eating" /\ meals' = meals
        => Table!Eat(i)
  BY <1>3 DEF Table!Eat
<1>6. phase[i] = "eating" /\ phase'[i] = "thinking"
        /\ meals' = [meals EXCEPT ![i] = @ + 1] => Table!Think(i)
  BY DEF Table!Think
<1>7. phase[i] = "thinking" /\ meals[i] = TIMES /\ phase'[i] = "gone"
        /\ meals' = meals => Table!Leave(i)
  BY DEF Table!Leave
<1>8. QED
  BY <1>2, <1>3, <1>4, <1>5, <1>6, <1>7 DEF Table!Next

\* A step after which i is in the same phase, with the same meals, and the others
\* are where they were, is no step at the table.
LEMMA Stutter ==
    ASSUME NEW i \in Phil,
           \A j \in Phil : j # i =>
             pc'[j] = pc[j] /\ call'[j] = call[j] /\ iter'[j] = iter[j],
           phase'[i] = phase[i], meals'[i] = meals[i]
    PROVE  UNCHANGED << phase, meals >>
<1>1. /\ phase' = [phase EXCEPT ![i] = phase'[i]]
      /\ meals' = [meals EXCEPT ![i] = meals'[i]]
  BY OthersStay
<1>2. phase = [j \in Phil |-> phase[j]] /\ meals = [j \in Phil |-> meals[j]]
  BY DEF phase, meals
<1> HIDE DEF phase, meals
<1>3. QED
  BY <1>1, <1>2

\* The steps between the pcs of one phase.
LEMMA PreparingSteps ==
    ASSUME IInv, NEW i \in Phil,
           \/ TakeDown(i) \/ TakeHungry(i) \/ TakeCheck(i) \/ Eat(i) \/ PutDown(i)
           \/ PutRight(i) \/ Test(i) \/ TestEating(i) \/ Signal(i) \/ SignalUp(i)
           \/ SignalDown(i) \/ SignalEnd(i) \/ CondWait(i) \/ WaitLeave(i)
           \/ WaitDown(i) \/ WaitEnd(i)
    PROVE  UNCHANGED << phase, meals >>
<1>1. /\ pc \in [Phil -> Pcs]
      /\ call \in [Phil -> [arg : Phil, ret : {"take_check", "put_right", "put_leave"}]]
  BY DEF IInv, TypeOK
<1>2. /\ iter' = iter
      /\ \A j \in Phil : j # i => pc'[j] = pc[j] /\ call'[j] = call[j]
  BY <1>1 DEF TakeDown, TakeHungry, TakeCheck, Eat, PutDown, PutRight, Test, TestEating,
              Signal, SignalUp, SignalDown, SignalEnd, CondWait, WaitLeave, WaitDown,
              WaitEnd, Goto, CallTest
<1> DEFINE hungry(p, c) == \/ p \in {"take_down", "take_hungry", "take_check",
                                     "take_leave"} \cup WaitPcs
                           \/ p \in TestPcs /\ c.ret = "take_check"
           eating(p) == p \in {"eat", "put_down", "put_thinking"}
           done(p, c) == \/ p \in {"put_right", "put_leave", "quit"}
                         \/ p \in TestPcs /\ c.ret # "take_check"
<1>3. /\ pc'[i] # "quit" /\ pc[i] # "quit"
      /\ hungry(pc'[i], call'[i]) <=> hungry(pc[i], call[i])
      /\ eating(pc'[i]) <=> eating(pc[i])
      /\ done(pc'[i], call'[i]) <=> done(pc[i], call[i])
  <2>1. CASE TakeDown(i) \/ TakeHungry(i) \/ TakeCheck(i) \/ Eat(i) \/ PutDown(i)
    BY <1>1, <2>1 DEF TakeDown, TakeHungry, TakeCheck, Eat, PutDown, At, Goto, CallTest,
                      TestPcs, WaitPcs
  <2>2. CASE PutRight(i) \/ Test(i) \/ TestEating(i) \/ Signal(i) \/ SignalUp(i)
    BY <1>1, <2>2 DEF PutRight, Test, TestEating, Signal, SignalUp, At, Goto, CallTest,
                      TestPcs, WaitPcs
  <2>3. CASE SignalDown(i) \/ SignalEnd(i)
    BY <1>1, <2>3 DEF SignalDown, SignalEnd, At, Goto, TestPcs, WaitPcs
  <2>4. CASE CondWait(i) \/ WaitLeave(i) \/ WaitDown(i) \/ WaitEnd(i)
    BY <1>1, <2>4 DEF CondWait, WaitLeave, WaitDown, WaitEnd, At, Goto, TestPcs, WaitPcs
  <2>5. QED
    BY <2>1, <2>2, <2>3, <2>4
<1>4. phase'[i] = phase[i] /\ meals'[i] = meals[i]
  BY <1>2, <1>3 DEF phase, meals, HasForks
<1>5. QED
  BY <1>2, <1>4, Stutter

\* do_sleep ends: the philosopher becomes hungry.
LEMMA ThinkAtTable ==
    ASSUME IInv, NEW i \in Phil, Think(i)
    PROVE  Table!Next
<1>1. /\ pc[i] = "think" /\ pc'[i] = "take_down"
      /\ call' = call /\ iter' = iter
      /\ \A j \in Phil : j # i => pc'[j] = pc[j]
  BY DEF Think, At, Goto, IInv, TypeOK
<1>2. phase' = [phase EXCEPT ![i] = phase'[i]]
  BY <1>1, OthersStay
<1>3. /\ phase[i] = "thinking" /\ phase'[i] = "hungry"
      /\ meals[i] = iter[i] - 1 /\ meals'[i] = meals[i]
  BY <1>1 DEF phase, meals, HasForks, TestPcs, WaitPcs
<1>4. meals' = meals
  BY <1>1, <1>3 DEF meals
<1>5. meals[i] < TIMES
  BY <1>3, PhilosophersAssumption DEF IInv, TypeOK
<1>6. QED
  BY <1>2, <1>3, <1>4, <1>5, TableSteps

\* The forks are taken as the monitor is left: the neighbours do not have them.
LEMMA TakeLeaveAtTable ==
    ASSUME IInv, NEW i \in Phil, TakeLeave(i)
    PROVE  Table!Next
<1>1. /\ pc[i] = "take_leave" /\ pc'[i] = "eat"
      /\ call' = call /\ iter' = iter
      /\ \A j \in Phil : j # i => pc'[j] = pc[j]
  BY DEF TakeLeave, At, Goto, IInv, TypeOK
<1>2. phase' = [phase EXCEPT ![i] = phase'[i]]
  BY <1>1, OthersStay
<1>3. phase[i] = "hungry" /\ phase'[i] = "eating" /\ meals'[i] = meals[i]
  BY <1>1 DEF phase, meals, HasForks, TestPcs
<1>4. meals' = meals
  BY <1>1, <1>3 DEF meals
<1>5. ~HasForks(LEFT(i)) /\ ~HasForks(RIGHT(i))
  BY <1>1, Neighbours DEF IInv, StateInv, SaysEating
<1>6. phase[LEFT(i)] # "eating" /\ phase[RIGHT(i)] # "eating"
  BY <1>5, Neighbours DEF phase
<1>7. QED
  BY <1>2, <1>3, <1>4, <1>6, TableSteps

\* The philosopher thinks again, and has had one more meal.
LEMMA PutThinkingAtTable ==
    ASSUME IInv, NEW i \in Phil, PutThinking(i)
    PROVE  Table!Next
<1>1. /\ pc[i] = "put_thinking"
      /\ pc'[i] = "test" /\ call'[i].ret = "put_right"
      /\ iter' = iter
      /\ \A j \in Phil : j # i => pc'[j] = pc[j] /\ call'[j] = call[j]
  BY DEF PutThinking, At, CallTest, Goto, IInv, TypeOK
<1>2. /\ phase' = [phase EXCEPT ![i] = phase'[i]]
      /\ meals' = [meals EXCEPT ![i] = meals'[i]]
  BY <1>1, OthersStay
<1>3. /\ phase[i] = "eating" /\ phase'[i] = "thinking"
      /\ meals[i] = iter[i] - 1 /\ meals'[i] = iter[i]
  BY <1>1 DEF phase, meals, HasForks, TestPcs, WaitPcs
<1>4. meals'[i] = meals[i] + 1
  BY <1>3 DEF IInv, TypeOK
<1>5. meals' = [meals EXCEPT ![i] = @ + 1]
  BY <1>2, <1>4
<1>6. QED
  BY <1>2, <1>3, <1>5, TableSteps

\* The next round is no step at the table, and the end of the thread is.
LEMMA PutLeaveAtTable ==
    ASSUME IInv, NEW i \in Phil, PutLeave(i)
    PROVE  Table!Next \/ UNCHANGED << phase, meals >>
<1>1. /\ pc[i] = "put_leave" /\ call' = call
      /\ pc'[i] = IF iter[i] < TIMES THEN "think" ELSE "quit"
      /\ iter'[i] = IF iter[i] < TIMES THEN iter[i] + 1 ELSE iter[i]
      /\ \A j \in Phil : j # i => pc'[j] = pc[j] /\ iter'[j] = iter[j]
      /\ iter[i] \in 1..TIMES
  BY DEF PutLeave, At, Goto, IInv, TypeOK
<1>2. /\ phase' = [phase EXCEPT ![i] = phase'[i]]
      /\ meals' = [meals EXCEPT ![i] = meals'[i]]
  BY <1>1, OthersStay
<1>3. phase[i] = "thinking" /\ meals[i] = iter[i] /\ meals'[i] = iter[i]
  BY <1>1 DEF phase, meals, HasForks, TestPcs, WaitPcs
<1>4. CASE iter[i] < TIMES
  <2>1. phase'[i] = "thinking"
    BY <1>1, <1>4 DEF phase, HasForks, TestPcs, WaitPcs
  <2>2. QED
    BY <1>1, <1>3, <2>1, Stutter
<1>5. CASE ~(iter[i] < TIMES)
  <2>1. phase'[i] = "gone" /\ meals[i] = TIMES
    BY <1>1, <1>3, <1>5, PhilosophersAssumption DEF phase, HasForks
  <2>2. meals' = meals
    BY <1>2, <1>3 DEF meals
  <2>3. QED
    BY <1>2, <1>3, <2>1, <2>2, TableSteps
<1>6. QED
  BY <1>4, <1>5

\* Initially all think, and have had no meal.
LEMMA TableInit == Init => Table!Init
<1> SUFFICES ASSUME Init PROVE Table!Init
  OBVIOUS
<1>1. \A i \in Phil : pc[i] = "think" /\ iter[i] - 1 = 0 /\ ~HasForks(i)
  BY DEF Init, HasForks
<1>2. /\ phase = [i \in Phil |-> "thinking"]
      /\ meals = [i \in Phil |-> 0]
  BY <1>1 DEF phase, meals, TestPcs, WaitPcs
<1>3. Table!Phil = Phil
  BY DEF Table!Phil, Phil
<1>4. QED
  BY <1>2, <1>3 DEF Table!Init

\* Every step is one at the table, or none.
LEMMA TableStep == IInv /\ [Next]_vars => [Table!Next]_<< phase, meals >>
<1> SUFFICES ASSUME IInv, [Next]_vars
             PROVE  Table!Next \/ UNCHANGED << phase, meals >>
  OBVIOUS
<1>1. CASE UNCHANGED vars
  BY <1>1 DEF vars, phase, meals, HasForks
<1>2. ASSUME NEW i \in Phil, Philosopher(i)
      PROVE  Table!Next \/ UNCHANGED << phase, meals >>
  BY <1>2, ThinkAtTable, TakeLeaveAtTable, PutThinkingAtTable, PutLeaveAtTable,
     PreparingSteps DEF Philosopher
<1>3. QED
  BY <1>1, <1>2 DEF Next

-----------------------------------------------------------------------------
(* Theorems *)

\* TokenInv counts.
LEMMA TokenCounts == TypeOK /\ TokenInv => OneToken
<1> SUFFICES ASSUME TypeOK, TokenInv PROVE OneToken
  OBVIOUS
<1> DEFINE active == {i \in Phil : Active(i)}
           permits == {i \in Phil : cv[i].sem.value > 0}
<1>1. \A i \in Phil : cv[i].sem.value > 0 <=> cv[i].sem.value = 1
  BY DEF TokenInv
<1> SUFFICES Cardinality(active) + mutex.value + next.value + Cardinality(permits) = 1
  BY DEF OneToken
<1>2. CASE \E i \in Phil : Active(i)
  <2>1. PICK i \in Phil : Active(i)
    BY <1>2
  <2>2. active = {i} /\ permits = {} /\ mutex.value = 0 /\ next.value = 0
    BY <2>1, <1>1 DEF TokenInv
  <2>3. Cardinality({i}) = 1 /\ Cardinality({}) = 0
    BY FS_EmptySet, FS_Singleton
  <2> HIDE DEF active, permits
  <2>4. Cardinality(active) = 1 /\ Cardinality(permits) = 0
    BY <2>2, <2>3
  <2>5. QED
    BY <2>2, <2>4
<1>3. CASE \E i \in Phil : cv[i].sem.value = 1
  <2>1. PICK i \in Phil : cv[i].sem.value = 1
    BY <1>3
  <2>2. active = {} /\ permits = {i} /\ mutex.value = 0 /\ next.value = 0
    BY <2>1, <1>1 DEF TokenInv
  <2>3. Cardinality({i}) = 1 /\ Cardinality({}) = 0
    BY FS_EmptySet, FS_Singleton
  <2> HIDE DEF active, permits
  <2>4. Cardinality(active) = 0 /\ Cardinality(permits) = 1
    BY <2>2, <2>3
  <2>5. QED
    BY <2>2, <2>4
<1>4. CASE ~(\E i \in Phil : Active(i) \/ cv[i].sem.value = 1)
  <2>1. active = {} /\ permits = {} /\ mutex.value + next.value = 1
    BY <1>1, <1>4 DEF TokenInv
  <2>2. mutex.value \in Nat /\ next.value \in Nat
    BY DEF TokenInv
  <2> HIDE DEF active, permits
  <2>3. QED
    BY <2>1, <2>2, FS_EmptySet
<1>5. QED
  BY <1>2, <1>3, <1>4

\* What the runs check follows from IInv.
LEMMA Implied == IInv => TypeOK /\ OneToken /\ CountersExact /\ SignalReaches
  BY TokenCounts DEF IInv, PermitInv, Signalling, SignalReaches

\* IInv holds throughout.
THEOREM Inductive == Spec => []IInv
<1>1. QED
  BY InitIInv, NextIInv, PTL DEF Spec

\* Types: no semaphore and no counter of the monitor goes below zero.
THEOREM TypeCorrect == Spec => []TypeOK
<1>1. QED
  BY Implied, Inductive, PTL

\* The right to run in the monitor of monitor.c is one token: on its way through
\* mutex, next and the condition variables it is neither doubled nor lost.
THEOREM TokenKept == Spec => []OneToken
<1>1. QED
  BY Implied, Inductive, PTL

\* count and next_count, by which cond_signal and the leaving threads of
\* monitor.c decide whom to wake, say who waits.
THEOREM CountersTrue == Spec => []CountersExact
<1>1. QED
  BY Implied, Inductive, PTL

\* cond_signal of phi_test_condvar reaches the philosopher it is meant for.
THEOREM SignalsReach == Spec => []SignalReaches
<1>1. QED
  BY Implied, Inductive, PTL

\* The philosophers of the monitor do at the table only what module Dining lets
\* them do: they eat only while neither neighbour does.
THEOREM ImplementsTable == Spec => Table!Safety
<1>1. QED
  BY TableInit, TableStep, Inductive, PTL DEF Spec, Table!Safety
==============================================================================
