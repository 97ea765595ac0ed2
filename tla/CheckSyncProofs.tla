-------------------------- MODULE CheckSyncProofs ---------------------------
(***************************************************************************)
(* Safety of check_sync() for any number of philosophers: the section and  *)
(* the permits are exact, the monitor has one token, and every step is one *)
(* of module Dining. What the run checks of the semaphores is not          *)
(* inductive by itself; SemInv adds who can sleep and where, whom a        *)
(* philosopher tests, and what each state_sema says of the pc of its       *)
(* owner. The monitor has its proofs in PhilosophersMonProofs; IInv is the *)
(* invariant of the half that a behaviour looks at.                        *)
(***************************************************************************)
EXTENDS CheckSync, Queues

MonProofs == INSTANCE PhilosophersMonProofs


\* A thread sleeps where a down() has put it; a philosopher waits on no
\* semaphore but mutex and its own.
SleepInv ==
    /\ IsInjective(mutex.wait_queue)
    /\ \A i \in Phil : Sleeps(mutex, i) => pc[i] \in {"take_hungry", "put_thinking"}
    /\ \A i \in Phil : s[i].wait_queue = <<>> \/ s[i].wait_queue = <<i>>
    /\ \A i \in Phil : Sleeps(s[i], i) => pc[i] = "eat"

\* phi_test_sema is called for the caller, then for its neighbours.
CallInv ==
    \A i \in Phil : pc[i] \in TestPcs =>
      call[i].arg = CASE call[i].ret = "take_up" -> i
                      [] call[i].ret = "put_right" -> LEFT(i)
                      [] call[i].ret = "put_up" -> RIGHT(i)

\* Where a philosopher says that it thinks.
SaysThinking(i) ==
    \/ pc[i] \in {"think", "take_down", "take_hungry", "put_right", "put_up", "quit"}
    \/ pc[i] \in TestPcs /\ call[i].ret # "take_up"

StateInv ==
    \A i \in Phil :
      /\ state_sema[i] = "THINKING" <=> SaysThinking(i)
      /\ HasForks(i) => state_sema[i] = "EATING"
      /\ state_sema[i] = "EATING" =>
           state_sema[LEFT(i)] # "EATING" /\ state_sema[RIGHT(i)] # "EATING"

\* Somebody is about to give i its permit.
Granting(i) == \E j \in Phil : pc[j] = "test_up" /\ call[j].arg = i

\* A permit is there from the time it is given until it is taken.
PermitInv ==
    \A i \in Phil :
      /\ s[i].value = IF state_sema[i] = "EATING" /\ ~HasForks(i) /\ ~Granting(i)
                        THEN 1 ELSE 0
      /\ Sleeps(s[i], i) => state_sema[i] = "HUNGRY" \/ Granting(i)

\* What the test has found still holds when it is acted upon.
TestInv ==
    \A i \in Phil :
      /\ pc[i] = "test_eating" => MayEat(call[i].arg)
      /\ pc[i] = "test_up" =>
           state_sema[call[i].arg] = "EATING" /\ ~HasForks(call[i].arg)

SemInv ==
    TypeOK /\ SleepInv /\ CallInv /\ MutexExact /\ StateInv /\ PermitInv /\ TestInv

-----------------------------------------------------------------------------

\* A neighbour is another philosopher, and to be neighbours is mutual.
LEMMA Neighbours ==
    ASSUME NEW i \in Phil
    PROVE  /\ LEFT(i) \in Phil /\ RIGHT(i) \in Phil
           /\ LEFT(i) # i /\ RIGHT(i) # i
           /\ LEFT(RIGHT(i)) = i /\ RIGHT(LEFT(i)) = i
  BY PhilosophersAssumption, Ring DEF Phil, LEFT, RIGHT

-----------------------------------------------------------------------------
(* The invariant of the semaphores *)

\* While i is in the section nobody else is, and nobody else tests.
LEMMA Alone ==
    ASSUME SemInv, NEW i \in Phil, InSection(i), NEW j \in Phil, j # i
    PROVE  /\ pc[j] \notin TestPcs
           /\ pc[j] \in SectionPcs => Sleeps(mutex, j)
<1>1. ~InSection(j)
  BY DEF SemInv, MutexExact
<1>2. pc[j] \in SectionPcs => Sleeps(mutex, j)
  BY <1>1 DEF SemInv, SleepInv, InSection, Awake, SectionPcs, TestPcs
<1>3. QED
  BY <1>2 DEF SemInv, SleepInv, TestPcs, SectionPcs

\* A step of i that leaves state_sema and s alone, does not change what i has or
\* says, and does not grant, keeps SemInv if it keeps the mutex right.
LEMMA FrameKeeps ==
    ASSUME SemInv, TypeOK', NEW i \in Phil,
           \A j \in Phil : j # i => pc'[j] = pc[j] /\ call'[j] = call[j],
           UNCHANGED << state_sema, s >>,
           ~Sleeps(s[i], i),
           IsInjective(mutex.wait_queue)',
           \A j \in Phil : Sleeps(mutex, j)' => pc'[j] \in {"take_hungry", "put_thinking"},
           MutexExact',
           HasForks(i)' <=> HasForks(i),
           SaysThinking(i)' <=> SaysThinking(i),
           pc'[i] \in TestPcs =>
             call'[i].arg = CASE call'[i].ret = "take_up" -> i
                              [] call'[i].ret = "put_right" -> LEFT(i)
                              [] call'[i].ret = "put_up" -> RIGHT(i),
           pc[i] # "test_up", pc'[i] # "test_up",
           pc'[i] = "test_eating" => MayEat(call'[i].arg)
    PROVE  SemInv'
<1>1. \A j \in Phil : /\ HasForks(j)' <=> HasForks(j)
                      /\ SaysThinking(j)' <=> SaysThinking(j)
                      /\ Granting(j)' <=> Granting(j)
  BY DEF HasForks, SaysThinking, Granting
<1>2. SleepInv'
  BY DEF SemInv, SleepInv
<1>3. CallInv'
  BY DEF SemInv, CallInv
<1>4. StateInv'
  BY <1>1 DEF SemInv, StateInv
<1>5. PermitInv'
  BY <1>1 DEF SemInv, PermitInv
<1>6. TestInv'
  <2>1. \A j \in Phil : call'[j].arg \in Phil
    BY DEF TypeOK
  <2>2. \A j \in Phil : MayEat(j)' <=> MayEat(j)
    BY DEF MayEat
  <2>3. QED
    BY <1>1, <2>1, <2>2 DEF SemInv, TestInv
<1>7. QED
  BY <1>2, <1>3, <1>4, <1>5, <1>6 DEF SemInv

\* A step that leaves the semaphores alone, of a thread that stays in the section
\* or outside, keeps the mutex right.
LEMMA SameMutex ==
    ASSUME SemInv, NEW i \in Phil, Awake(i),
           \A j \in Phil : j # i => pc'[j] = pc[j],
           UNCHANGED << mutex, s >>,
           pc'[i] \in SectionPcs <=> pc[i] \in SectionPcs
    PROVE  /\ IsInjective(mutex.wait_queue)'
           /\ \A j \in Phil : Sleeps(mutex, j)' => pc'[j] \in {"take_hungry", "put_thinking"}
           /\ MutexExact'
<1>1. \A j \in Phil : InSection(j)' <=> InSection(j)
  BY DEF InSection, Awake
<1>2. MutexExact'
  BY <1>1 DEF SemInv, MutexExact
<1>3. QED
  BY <1>2 DEF SemInv, SleepInv, Awake

\* down(&mutex) by a thread outside, which stands at a pc of the section next.
LEMMA EnterMutex ==
    ASSUME SemInv, NEW i \in Phil, Awake(i),
           \A j \in Phil : j # i => pc'[j] = pc[j],
           mutex' = down(mutex, i), UNCHANGED s,
           pc[i] \notin SectionPcs, pc'[i] \in {"take_hungry", "put_thinking"}
    PROVE  /\ mutex' \in SemType(Phil)
           /\ IsInjective(mutex.wait_queue)'
           /\ \A j \in Phil : Sleeps(mutex, j)' => pc'[j] \in {"take_hungry", "put_thinking"}
           /\ MutexExact'
<1>1. /\ mutex \in SemType(Phil) /\ mutex.value \in Nat
      /\ IsInjective(mutex.wait_queue) /\ ~Sleeps(mutex, i)
  BY DEF SemInv, TypeOK, SleepInv, Awake, SemType
<1>2. CASE mutex.value > 0
  <2>1. /\ mutex.value = 1
        /\ \A j \in Phil : ~InSection(j)
        /\ mutex.wait_queue = <<>>
    BY <1>2 DEF SemInv, MutexExact
  <2>2. /\ mutex' \in SemType(Phil) /\ IsInjective(mutex'.wait_queue)
        /\ mutex'.value = 0
        /\ \A j \in Phil : Sleeps(mutex', j) <=> Sleeps(mutex, j)
    BY <1>1, <1>2, <2>1, DownFacts
  <2>3. \A j \in Phil : InSection(j)' <=> j = i
    BY <1>1, <2>1, <2>2 DEF InSection, Awake, SectionPcs
  <2>4. MutexExact'
    BY <2>2, <2>3 DEF MutexExact
  <2>5. QED
    BY <2>2, <2>4, <1>1 DEF SemInv, SleepInv
<1>3. CASE mutex.value = 0
  <2>1. /\ mutex' \in SemType(Phil) /\ IsInjective(mutex'.wait_queue)
        /\ mutex'.value = 0
        /\ \A j \in Phil : Sleeps(mutex', j) <=> Sleeps(mutex, j) \/ j = i
    BY <1>1, <1>3, DownFacts
  <2>2. \A j \in Phil : InSection(j)' <=> InSection(j)
    BY <2>1 DEF InSection, Awake
  <2>3. MutexExact'
    BY <1>3, <2>1, <2>2 DEF SemInv, MutexExact
  <2>4. QED
    BY <2>1, <2>3 DEF SemInv, SleepInv
<1>4. QED
  BY <1>1, <1>2, <1>3

\* up(&mutex) by the thread in the section, which is outside next.
LEMMA LeaveMutex ==
    ASSUME SemInv, NEW i \in Phil, InSection(i),
           \A j \in Phil : j # i => pc'[j] = pc[j],
           mutex' = up(mutex), UNCHANGED s,
           pc'[i] \notin SectionPcs
    PROVE  /\ mutex' \in SemType(Phil)
           /\ IsInjective(mutex.wait_queue)'
           /\ \A j \in Phil : Sleeps(mutex, j)' => pc'[j] \in {"take_hungry", "put_thinking"}
           /\ MutexExact'
<1>1. /\ mutex \in SemType(Phil) /\ mutex.value = 0
      /\ IsInjective(mutex.wait_queue)
      /\ \A j \in Phil : InSection(j) => j = i
      /\ ~Sleeps(mutex, i)
  BY DEF SemInv, TypeOK, SleepInv, MutexExact, InSection, Awake
<1>2. CASE mutex.wait_queue = <<>>
  <2>1. /\ mutex' \in SemType(Phil) /\ IsInjective(mutex'.wait_queue)
        /\ mutex'.value = 1 /\ mutex'.wait_queue = <<>>
        /\ \A j \in Phil : ~Sleeps(mutex', j) /\ ~Sleeps(mutex, j)
    BY <1>1, <1>2, UpFacts
  <2>2. \A j \in Phil : ~InSection(j)'
    BY <1>1, <2>1 DEF InSection, Awake
  <2>3. QED
    BY <2>1, <2>2 DEF MutexExact
<1>3. CASE mutex.wait_queue # <<>>
  <2>1. /\ mutex' \in SemType(Phil) /\ IsInjective(mutex'.wait_queue)
        /\ mutex'.value = 0
    BY <1>1, <1>3, UpFacts
  <2>2. PICK k \in Phil :
          /\ Sleeps(mutex, k)
          /\ \A j \in Phil : Sleeps(mutex', j) <=> Sleeps(mutex, j) /\ j # k
    BY <1>1, <1>3, UpFacts
  <2>3. k # i /\ pc[k] \in {"take_hungry", "put_thinking"} /\ ~Sleeps(s[k], k)
    BY <1>1, <2>2 DEF SemInv, SleepInv
  <2>4. \A j \in Phil : InSection(j)' <=> j = k
    BY <1>1, <2>2, <2>3 DEF InSection, Awake, SectionPcs
  <2>5. MutexExact'
    BY <2>1, <2>4 DEF MutexExact
  <2>6. QED
    BY <1>1, <2>1, <2>2, <2>5 DEF SemInv, SleepInv
<1>4. QED
  BY <1>2, <1>3

\* Where a philosopher goes, and that the others stay.
LEMMA OnlyOne ==
    ASSUME TypeOK, NEW i \in Phil, NEW at \in Pcs, Goto(i, at)
    PROVE  /\ pc' \in [Phil -> Pcs]
           /\ pc'[i] = at
           /\ \A j \in Phil : j # i => pc'[j] = pc[j]
  BY DEF TypeOK, Goto

\* The same of the arguments of phi_test_sema.
LEMMA CallFacts ==
    ASSUME TypeOK, NEW i \in Phil, NEW j \in Phil,
           NEW ret \in {"take_up", "put_right", "put_up"}, CallTest(i, j, ret)
    PROVE  /\ call' \in [Phil -> [arg : Phil, ret : {"take_up", "put_right", "put_up"}]]
           /\ call'[i].arg = j /\ call'[i].ret = ret
           /\ \A k \in Phil : k # i => call'[k] = call[k]
           /\ pc' \in [Phil -> Pcs]
           /\ pc'[i] = "test"
           /\ \A k \in Phil : k # i => pc'[k] = pc[k]
<1>1. pc \in [Phil -> Pcs] /\ "test" \in Pcs
  BY DEF TypeOK, Pcs, TestPcs
<1>2. /\ call \in [Phil -> [arg : Phil, ret : {"take_up", "put_right", "put_up"}]]
      /\ call' = [call EXCEPT ![i] = [arg |-> j, ret |-> ret]]
      /\ pc' = [pc EXCEPT ![i] = "test"]
  BY DEF CallTest, TypeOK, Goto
<1>3. QED
  BY <1>1, <1>2

\* Outside the section: a step of the pc alone.
LEMMA ThinkKeeps ==
    ASSUME SemInv, NEW i \in Phil, Think(i)
    PROVE  SemInv'
<1>1. /\ pc[i] = "think" /\ Awake(i) /\ Goto(i, "take_down")
      /\ UNCHANGED << state_sema, mutex, s, call, iter >>
  BY DEF Think, At
<1>2. /\ pc' \in [Phil -> Pcs] /\ pc'[i] = "take_down"
      /\ \A j \in Phil : j # i => pc'[j] = pc[j]
  BY <1>1, OnlyOne DEF SemInv, Pcs
<1>3. TypeOK'
  BY <1>1, <1>2 DEF SemInv, TypeOK
<1>4. /\ IsInjective(mutex.wait_queue)'
      /\ \A j \in Phil : Sleeps(mutex, j)' => pc'[j] \in {"take_hungry", "put_thinking"}
      /\ MutexExact'
  BY <1>1, <1>2, SameMutex DEF SectionPcs, TestPcs
<1>5. /\ HasForks(i)' <=> HasForks(i)
      /\ SaysThinking(i)' <=> SaysThinking(i)
      /\ pc'[i] \notin TestPcs
  BY <1>1, <1>2 DEF HasForks, SaysThinking, TestPcs
<1>6. QED
  BY <1>1, <1>2, <1>3, <1>4, <1>5, FrameKeeps DEF Awake, TestPcs

\* The meal ends; the forks are still there.
LEMMA EatKeeps ==
    ASSUME SemInv, NEW i \in Phil, Eat(i)
    PROVE  SemInv'
<1>1. /\ pc[i] = "eat" /\ Awake(i) /\ Goto(i, "put_down")
      /\ UNCHANGED << state_sema, mutex, s, call, iter >>
  BY DEF Eat, At
<1>2. /\ pc' \in [Phil -> Pcs] /\ pc'[i] = "put_down"
      /\ \A j \in Phil : j # i => pc'[j] = pc[j]
  BY <1>1, OnlyOne DEF SemInv, Pcs
<1>3. TypeOK'
  BY <1>1, <1>2 DEF SemInv, TypeOK
<1>4. /\ IsInjective(mutex.wait_queue)'
      /\ \A j \in Phil : Sleeps(mutex, j)' => pc'[j] \in {"take_hungry", "put_thinking"}
      /\ MutexExact'
  BY <1>1, <1>2, SameMutex DEF SectionPcs, TestPcs
<1>5. /\ HasForks(i)' <=> HasForks(i)
      /\ SaysThinking(i)' <=> SaysThinking(i)
      /\ pc'[i] \notin TestPcs
  BY <1>1, <1>2 DEF HasForks, SaysThinking, TestPcs
<1>6. QED
  BY <1>1, <1>2, <1>3, <1>4, <1>5, FrameKeeps DEF Awake, TestPcs

\* phi_test_sema looks at the three states.
LEMMA TestKeeps ==
    ASSUME SemInv, NEW i \in Phil, Test(i)
    PROVE  SemInv'
<1> DEFINE at == IF MayEat(call[i].arg) THEN "test_eating" ELSE call[i].ret
<1>1. /\ pc[i] = "test" /\ Awake(i) /\ Goto(i, at)
      /\ UNCHANGED << state_sema, mutex, s, call, iter >>
  BY DEF Test, At
<1>2. call[i].ret \in {"take_up", "put_right", "put_up"}
  BY DEF SemInv, TypeOK
<1>3. at \in Pcs /\ at \in SectionPcs /\ at # "test_up"
  BY <1>2 DEF Pcs, SectionPcs, TestPcs
<1>4. /\ pc' \in [Phil -> Pcs] /\ pc'[i] = at
      /\ \A j \in Phil : j # i => pc'[j] = pc[j]
  BY <1>1, <1>3, OnlyOne DEF SemInv
<1>5. TypeOK'
  BY <1>1, <1>4 DEF SemInv, TypeOK
<1>6. /\ IsInjective(mutex.wait_queue)'
      /\ \A j \in Phil : Sleeps(mutex, j)' => pc'[j] \in {"take_hungry", "put_thinking"}
      /\ MutexExact'
  BY <1>1, <1>3, <1>4, SameMutex DEF SectionPcs, TestPcs
<1>7. /\ HasForks(i)' <=> HasForks(i)
      /\ SaysThinking(i)' <=> SaysThinking(i)
  BY <1>1, <1>2, <1>4 DEF HasForks, SaysThinking, TestPcs
<1>8. pc'[i] \in TestPcs => pc[i] \in TestPcs /\ MayEat(call[i].arg)
  BY <1>1, <1>2, <1>4 DEF TestPcs
<1>9. QED
  BY <1>1, <1>3, <1>4, <1>5, <1>6, <1>7, <1>8, FrameKeeps
     DEF Awake, TestPcs, SemInv, CallInv

\* The right neighbour is tested after the left one.
LEMMA PutRightKeeps ==
    ASSUME SemInv, NEW i \in Phil, PutRight(i)
    PROVE  SemInv'
<1>1. /\ pc[i] = "put_right" /\ Awake(i) /\ CallTest(i, RIGHT(i), "put_up")
      /\ UNCHANGED << state_sema, mutex, s, iter >>
  BY DEF PutRight, At
<1>2. /\ call' \in [Phil -> [arg : Phil, ret : {"take_up", "put_right", "put_up"}]]
      /\ call'[i].arg = RIGHT(i) /\ call'[i].ret = "put_up"
      /\ \A k \in Phil : k # i => call'[k] = call[k]
      /\ pc' \in [Phil -> Pcs]
      /\ pc'[i] = "test"
      /\ \A k \in Phil : k # i => pc'[k] = pc[k]
  BY <1>1, CallFacts, Neighbours DEF SemInv
<1>3. TypeOK'
  BY <1>1, <1>2 DEF SemInv, TypeOK
<1>4. /\ IsInjective(mutex.wait_queue)'
      /\ \A j \in Phil : Sleeps(mutex, j)' => pc'[j] \in {"take_hungry", "put_thinking"}
      /\ MutexExact'
  BY <1>1, <1>2, SameMutex DEF SectionPcs, TestPcs
<1>5. /\ HasForks(i)' <=> HasForks(i)
      /\ SaysThinking(i)' <=> SaysThinking(i)
  BY <1>1, <1>2 DEF HasForks, SaysThinking, TestPcs
<1>6. QED
  BY <1>1, <1>2, <1>3, <1>4, <1>5, FrameKeeps DEF Awake

\* down(&mutex) before the forks are asked for.
LEMMA TakeDownKeeps ==
    ASSUME SemInv, NEW i \in Phil, TakeDown(i)
    PROVE  SemInv'
<1>1. /\ pc[i] = "take_down" /\ Awake(i) /\ Goto(i, "take_hungry")
      /\ mutex' = down(mutex, i)
      /\ UNCHANGED << state_sema, s, call, iter >>
  BY DEF TakeDown, At
<1>2. /\ pc' \in [Phil -> Pcs] /\ pc'[i] = "take_hungry"
      /\ \A j \in Phil : j # i => pc'[j] = pc[j]
  BY <1>1, OnlyOne DEF SemInv, Pcs
<1>3. /\ mutex' \in SemType(Phil)
      /\ IsInjective(mutex.wait_queue)'
      /\ \A j \in Phil : Sleeps(mutex, j)' => pc'[j] \in {"take_hungry", "put_thinking"}
      /\ MutexExact'
  BY <1>1, <1>2, EnterMutex DEF SectionPcs, TestPcs
<1>4. TypeOK'
  BY <1>1, <1>2, <1>3 DEF SemInv, TypeOK
<1>5. /\ HasForks(i)' <=> HasForks(i)
      /\ SaysThinking(i)' <=> SaysThinking(i)
      /\ pc'[i] \notin TestPcs
  BY <1>1, <1>2 DEF HasForks, SaysThinking, TestPcs
<1>6. QED
  BY <1>1, <1>2, <1>3, <1>4, <1>5, FrameKeeps DEF Awake, TestPcs

\* down(&mutex) before the forks are put down.
LEMMA PutDownKeeps ==
    ASSUME SemInv, NEW i \in Phil, PutDown(i)
    PROVE  SemInv'
<1>1. /\ pc[i] = "put_down" /\ Awake(i) /\ Goto(i, "put_thinking")
      /\ mutex' = down(mutex, i)
      /\ UNCHANGED << state_sema, s, call, iter >>
  BY DEF PutDown, At
<1>2. /\ pc' \in [Phil -> Pcs] /\ pc'[i] = "put_thinking"
      /\ \A j \in Phil : j # i => pc'[j] = pc[j]
  BY <1>1, OnlyOne DEF SemInv, Pcs
<1>3. /\ mutex' \in SemType(Phil)
      /\ IsInjective(mutex.wait_queue)'
      /\ \A j \in Phil : Sleeps(mutex, j)' => pc'[j] \in {"take_hungry", "put_thinking"}
      /\ MutexExact'
  BY <1>1, <1>2, EnterMutex DEF SectionPcs, TestPcs
<1>4. TypeOK'
  BY <1>1, <1>2, <1>3 DEF SemInv, TypeOK
<1>5. /\ HasForks(i)' <=> HasForks(i)
      /\ SaysThinking(i)' <=> SaysThinking(i)
      /\ pc'[i] \notin TestPcs
  BY <1>1, <1>2 DEF HasForks, SaysThinking, TestPcs
<1>6. QED
  BY <1>1, <1>2, <1>3, <1>4, <1>5, FrameKeeps DEF Awake, TestPcs

\* up(&mutex) before the wait for the own semaphore.
LEMMA TakeUpKeeps ==
    ASSUME SemInv, NEW i \in Phil, TakeUp(i)
    PROVE  SemInv'
<1>1. /\ pc[i] = "take_up" /\ Awake(i) /\ Goto(i, "take_s")
      /\ mutex' = up(mutex)
      /\ UNCHANGED << state_sema, s, call, iter >>
  BY DEF TakeUp, At
<1>2. /\ pc' \in [Phil -> Pcs] /\ pc'[i] = "take_s"
      /\ \A j \in Phil : j # i => pc'[j] = pc[j]
  BY <1>1, OnlyOne DEF SemInv, Pcs
<1>3. /\ mutex' \in SemType(Phil)
      /\ IsInjective(mutex.wait_queue)'
      /\ \A j \in Phil : Sleeps(mutex, j)' => pc'[j] \in {"take_hungry", "put_thinking"}
      /\ MutexExact'
  BY <1>1, <1>2, LeaveMutex DEF InSection, SectionPcs, TestPcs
<1>4. TypeOK'
  BY <1>1, <1>2, <1>3 DEF SemInv, TypeOK
<1>5. /\ HasForks(i)' <=> HasForks(i)
      /\ SaysThinking(i)' <=> SaysThinking(i)
      /\ pc'[i] \notin TestPcs
  BY <1>1, <1>2 DEF HasForks, SaysThinking, TestPcs
<1>6. QED
  BY <1>1, <1>2, <1>3, <1>4, <1>5, FrameKeeps DEF Awake, TestPcs

\* The end of a round.
LEMMA PutUpKeeps ==
    ASSUME SemInv, NEW i \in Phil, PutUp(i)
    PROVE  SemInv'
<1> DEFINE at == IF iter[i] < TIMES THEN "think" ELSE "quit"
<1>1. /\ pc[i] = "put_up" /\ Awake(i) /\ Goto(i, at)
      /\ mutex' = up(mutex)
      /\ iter' = IF iter[i] < TIMES THEN [iter EXCEPT ![i] = @ + 1] ELSE iter
      /\ UNCHANGED << state_sema, s, call >>
  BY DEF PutUp, At
<1>2. /\ pc' \in [Phil -> Pcs] /\ pc'[i] = at
      /\ \A j \in Phil : j # i => pc'[j] = pc[j]
  BY <1>1, OnlyOne DEF SemInv, Pcs
<1>3. /\ mutex' \in SemType(Phil)
      /\ IsInjective(mutex.wait_queue)'
      /\ \A j \in Phil : Sleeps(mutex, j)' => pc'[j] \in {"take_hungry", "put_thinking"}
      /\ MutexExact'
  BY <1>1, <1>2, LeaveMutex DEF InSection, SectionPcs, TestPcs
<1>4. iter' \in [Phil -> 1..TIMES]
  BY <1>1, PhilosophersAssumption DEF SemInv, TypeOK
<1>5. TypeOK'
  BY <1>1, <1>2, <1>3, <1>4 DEF SemInv, TypeOK
<1>6. /\ HasForks(i)' <=> HasForks(i)
      /\ SaysThinking(i)' <=> SaysThinking(i)
      /\ pc'[i] \notin TestPcs
  BY <1>1, <1>2 DEF HasForks, SaysThinking, TestPcs
<1>7. QED
  BY <1>1, <1>2, <1>3, <1>5, <1>6, FrameKeeps DEF Awake, TestPcs

\* i says that it is hungry, while nobody tests.
LEMMA TakeHungryKeeps ==
    ASSUME SemInv, NEW i \in Phil, TakeHungry(i)
    PROVE  SemInv'
<1>1. /\ pc[i] = "take_hungry" /\ Awake(i) /\ CallTest(i, i, "take_up")
      /\ state_sema' = [state_sema EXCEPT ![i] = "HUNGRY"]
      /\ UNCHANGED << mutex, s, iter >>
  BY DEF TakeHungry, At
<1>2. /\ call' \in [Phil -> [arg : Phil, ret : {"take_up", "put_right", "put_up"}]]
      /\ call'[i].arg = i /\ call'[i].ret = "take_up"
      /\ \A k \in Phil : k # i => call'[k] = call[k]
      /\ pc' \in [Phil -> Pcs]
      /\ pc'[i] = "test"
      /\ \A k \in Phil : k # i => pc'[k] = pc[k]
  BY <1>1, CallFacts, Neighbours DEF SemInv
<1>3. /\ state_sema'[i] = "HUNGRY"
      /\ \A k \in Phil : k # i => state_sema'[k] = state_sema[k]
  BY <1>1 DEF SemInv, TypeOK
<1>4. TypeOK'
  BY <1>1, <1>2 DEF SemInv, TypeOK
<1>5. \A k \in Phil : k # i => pc[k] \notin TestPcs
  BY <1>1, Alone DEF InSection, SectionPcs
<1>6. \A k \in Phil : /\ k # i => /\ HasForks(k)' <=> HasForks(k)
                                  /\ SaysThinking(k)' <=> SaysThinking(k)
                      /\ ~Granting(k) /\ ~Granting(k)'
  BY <1>1, <1>2, <1>5 DEF HasForks, SaysThinking, Granting, TestPcs
<1>7. SleepInv' /\ MutexExact'
  BY <1>1, <1>2, SameMutex DEF SectionPcs, TestPcs, SemInv, SleepInv, Awake
<1>8. CallInv'
  BY <1>2, <1>5 DEF SemInv, CallInv, TestPcs
<1>9. StateInv'
  BY <1>1, <1>2, <1>3, <1>6, Neighbours
     DEF SemInv, StateInv, SaysThinking, HasForks, TestPcs
<1>10. PermitInv'
  BY <1>1, <1>2, <1>3, <1>6 DEF SemInv, PermitInv, StateInv, HasForks, SaysThinking, Awake
<1>11. TestInv'
  BY <1>2, <1>5 DEF TestInv, TestPcs
<1>12. QED
  BY <1>4, <1>7, <1>8, <1>9, <1>10, <1>11 DEF SemInv

\* i says that it thinks, while nobody tests; its permit is long taken.
LEMMA PutThinkingKeeps ==
    ASSUME SemInv, NEW i \in Phil, PutThinking(i)
    PROVE  SemInv'
<1>1. /\ pc[i] = "put_thinking" /\ Awake(i) /\ CallTest(i, LEFT(i), "put_right")
      /\ state_sema' = [state_sema EXCEPT ![i] = "THINKING"]
      /\ UNCHANGED << mutex, s, iter >>
  BY DEF PutThinking, At
<1>2. /\ call' \in [Phil -> [arg : Phil, ret : {"take_up", "put_right", "put_up"}]]
      /\ call'[i].arg = LEFT(i) /\ call'[i].ret = "put_right"
      /\ \A k \in Phil : k # i => call'[k] = call[k]
      /\ pc' \in [Phil -> Pcs]
      /\ pc'[i] = "test"
      /\ \A k \in Phil : k # i => pc'[k] = pc[k]
  BY <1>1, CallFacts, Neighbours DEF SemInv
<1>3. /\ state_sema'[i] = "THINKING"
      /\ \A k \in Phil : k # i => state_sema'[k] = state_sema[k]
  BY <1>1 DEF SemInv, TypeOK
<1>4. TypeOK'
  BY <1>1, <1>2 DEF SemInv, TypeOK
<1>5. \A k \in Phil : k # i => pc[k] \notin TestPcs
  BY <1>1, Alone DEF InSection, SectionPcs
<1>6. \A k \in Phil : /\ k # i => /\ HasForks(k)' <=> HasForks(k)
                                  /\ SaysThinking(k)' <=> SaysThinking(k)
                      /\ ~Granting(k) /\ ~Granting(k)'
  BY <1>1, <1>2, <1>5 DEF HasForks, SaysThinking, Granting, TestPcs
<1>7. SleepInv' /\ MutexExact'
  BY <1>1, <1>2, SameMutex DEF SectionPcs, TestPcs, SemInv, SleepInv, Awake
<1>8. CallInv'
  BY <1>2, <1>5 DEF SemInv, CallInv, TestPcs
<1>9. StateInv'
  BY <1>1, <1>2, <1>3, <1>6, Neighbours
     DEF SemInv, StateInv, SaysThinking, HasForks, TestPcs
<1>10. PermitInv'
  BY <1>1, <1>2, <1>3, <1>6 DEF SemInv, PermitInv, StateInv, HasForks, SaysThinking, Awake
<1>11. TestInv'
  BY <1>2, <1>5 DEF TestInv, TestPcs
<1>12. QED
  BY <1>4, <1>7, <1>8, <1>9, <1>10, <1>11 DEF SemInv

\* The philosopher tested is hungry and its neighbours do not eat: still so, as
\* nobody else is in the section. Its permit is granted next.
LEMMA TestEatingKeeps ==
    ASSUME SemInv, NEW i \in Phil, TestEating(i)
    PROVE  SemInv'
<1>0. PICK a \in Phil : call[i].arg = a
  BY DEF SemInv, TypeOK
<1>1. /\ pc[i] = "test_eating" /\ Awake(i) /\ Goto(i, "test_up")
      /\ state_sema' = [state_sema EXCEPT ![a] = "EATING"]
      /\ UNCHANGED << mutex, s, call, iter >>
  BY <1>0 DEF TestEating, At
<1>2. /\ pc' \in [Phil -> Pcs] /\ pc'[i] = "test_up"
      /\ \A j \in Phil : j # i => pc'[j] = pc[j]
  BY <1>1, OnlyOne DEF SemInv, Pcs, TestPcs
<1>3. call[i].ret \in {"take_up", "put_right", "put_up"}
  BY DEF SemInv, TypeOK
<1>4. /\ state_sema'[a] = "EATING"
      /\ \A k \in Phil : k # a => state_sema'[k] = state_sema[k]
  BY <1>1, <1>3 DEF SemInv, TypeOK
<1>5. TypeOK'
  BY <1>1, <1>2 DEF SemInv, TypeOK
<1>6. \A k \in Phil : k # i => pc[k] \notin TestPcs
  BY <1>1, Alone DEF InSection, SectionPcs, TestPcs
<1>7. \A k \in Phil : /\ HasForks(k)' <=> HasForks(k)
                      /\ SaysThinking(k)' <=> SaysThinking(k)
                      /\ ~Granting(k)
                      /\ Granting(k)' <=> k = a
  BY <1>0, <1>1, <1>2, <1>6 DEF HasForks, SaysThinking, Granting, TestPcs
<1>8. /\ state_sema[a] = "HUNGRY"
      /\ state_sema[LEFT(a)] # "EATING" /\ state_sema[RIGHT(a)] # "EATING"
      /\ ~HasForks(a)
  BY <1>0, <1>1 DEF SemInv, TestInv, MayEat, StateInv
<1>9. SleepInv' /\ MutexExact'
  BY <1>1, <1>2, SameMutex DEF SectionPcs, TestPcs, SemInv, SleepInv, Awake
<1>10. CallInv'
  BY <1>1, <1>2, <1>6 DEF SemInv, CallInv, TestPcs
<1>11. StateInv'
  BY <1>0, <1>3, <1>4, <1>7, <1>8, Neighbours DEF SemInv, StateInv
<1>12. PermitInv'
  BY <1>0, <1>1, <1>3, <1>4, <1>7, <1>8 DEF SemInv, PermitInv
<1>13. TestInv'
  <2>1. call'[i].arg = a /\ ~HasForks(a)'
    BY <1>0, <1>1, <1>3, <1>7, <1>8
  <2>2. QED
    BY <1>0, <1>2, <1>4, <1>6, <2>1 DEF TestInv, HasForks, TestPcs
<1>14. QED
  BY <1>5, <1>9, <1>10, <1>11, <1>12, <1>13 DEF SemInv

\* up(&s[j]) of the one tested: it has its forks if it slept, or a permit.
LEMMA TestUpKeeps ==
    ASSUME SemInv, NEW i \in Phil, TestUp(i)
    PROVE  SemInv'
<1>0. PICK a \in Phil : call[i].arg = a
  BY DEF SemInv, TypeOK
<1>1. /\ pc[i] = "test_up" /\ Awake(i) /\ Goto(i, call[i].ret)
      /\ s' = [s EXCEPT ![a] = up(@)]
      /\ UNCHANGED << state_sema, mutex, call, iter >>
  BY <1>0 DEF TestUp, At
<1>2. call[i].ret \in {"take_up", "put_right", "put_up"}
  BY DEF SemInv, TypeOK
<1>3. /\ pc' \in [Phil -> Pcs] /\ pc'[i] = call[i].ret
      /\ \A j \in Phil : j # i => pc'[j] = pc[j]
  BY <1>1, <1>2, OnlyOne DEF SemInv, Pcs
<1>4. /\ state_sema[a] = "EATING" /\ ~HasForks(a)
      /\ s[a] \in SemType(Phil) /\ s[a].value = 0
      /\ s[a].wait_queue = <<>> \/ s[a].wait_queue = <<a>>
      /\ IsInjective(s[a].wait_queue)
  <2>1. /\ state_sema[a] = "EATING" /\ ~HasForks(a)
        /\ s[a] \in SemType(Phil)
        /\ s[a].wait_queue = <<>> \/ s[a].wait_queue = <<a>>
    BY <1>0, <1>1 DEF SemInv, TypeOK, TestInv, SleepInv
  <2>2. Granting(a)
    BY <1>0, <1>1 DEF Granting
  <2>3. s[a].value = 0
    BY <1>2, <2>2 DEF SemInv, PermitInv
  <2>4. QED
    BY <2>1, <2>3 DEF IsInjective
<1>5. /\ s'[a] = up(s[a]) /\ \A k \in Phil : k # a => s'[k] = s[k]
  BY <1>1, <1>2 DEF SemInv, TypeOK
<1>6. /\ s'[a] \in SemType(Phil) /\ s'[a].wait_queue = <<>> /\ ~Sleeps(s'[a], a)
      /\ s'[a].value = IF s[a].wait_queue = <<>> THEN 1 ELSE 0
  <2>1. CASE s[a].wait_queue = <<>>
    BY <1>2, <1>4, <1>5, <2>1, UpFacts
  <2>2. CASE s[a].wait_queue = <<a>>
    <3>1. s[a].wait_queue # <<>> /\ Tail(s[a].wait_queue) = <<>>
      BY <2>2
    <3>2. s'[a] = [s[a] EXCEPT !.wait_queue = <<>>]
      BY <1>5, <3>1 DEF up
    <3>3. <<>> \in Seq(Phil)
      OBVIOUS
    <3>4. s'[a] \in SemType(Phil) /\ s'[a].value = 0 /\ s'[a].wait_queue = <<>>
      BY <1>4, <3>2, <3>3 DEF SemType
    <3>5. QED
      BY <3>1, <3>4, <2>2, OwnSleeper
  <2>3. QED
    BY <1>4, <2>1, <2>2
<1>7. \A k \in Phil : k # i => pc[k] \notin TestPcs
  BY <1>1, Alone DEF InSection, SectionPcs, TestPcs
<1>8. TypeOK'
  BY <1>1, <1>2, <1>3, <1>5, <1>6 DEF SemInv, TypeOK
<1>9. HasForks(a)' <=> s[a].wait_queue = <<a>>
  <2>1. s[a].wait_queue = <<a>> => pc[a] = "eat" /\ a # i
    BY <1>1, <1>2, OwnSleeper DEF SemInv, SleepInv
  <2>2. s[a].wait_queue = <<>> => ~HasForks(a)'
    <3>1. s[a].wait_queue = <<>> => ~Sleeps(s[a], a)
      BY DEF Sleeps, ToSet
    <3>2. QED
      BY <1>2, <1>3, <1>4, <3>1 DEF HasForks
  <2>3. <<>> # <<a>>
    OBVIOUS
  <2>4. QED
    BY <1>2, <1>3, <1>4, <1>6, <2>1, <2>2, <2>3 DEF HasForks
<1>10. \A k \in Phil : /\ k # a => (HasForks(k)' <=> HasForks(k))
                       /\ SaysThinking(k)' <=> SaysThinking(k)
                       /\ Granting(k) => k = a
                       /\ ~Granting(k)'
  BY <1>0, <1>1, <1>2, <1>3, <1>5, <1>7 DEF HasForks, SaysThinking, Granting, TestPcs
<1>11. SleepInv'
  <2>1. \A k, j \in Phil : Sleeps(s'[k], j) => Sleeps(s[k], j)
    BY <1>5, <1>6, OwnSleeper DEF Sleeps, ToSet
  <2>2. QED
    BY <1>1, <1>2, <1>3, <1>5, <1>6, <2>1 DEF SemInv, SleepInv, Awake
<1>12. MutexExact'
  <2>1. \A k \in Phil : pc[k] \in SectionPcs => ~Sleeps(s[k], k) /\ ~Sleeps(s'[k], k)
    BY <1>2, <1>5, <1>6 DEF SemInv, SleepInv, SectionPcs, TestPcs
  <2>2. \A k \in Phil : InSection(k)' <=> InSection(k)
    BY <1>1, <1>2, <1>3, <2>1 DEF InSection, Awake, SectionPcs, TestPcs
  <2>3. QED
    BY <1>1, <2>2 DEF SemInv, MutexExact
<1>13. CallInv'
  BY <1>1, <1>2, <1>3 DEF SemInv, CallInv, TestPcs
<1>14. StateInv'
  BY <1>1, <1>4, <1>10 DEF SemInv, StateInv
<1>15. PermitInv'
  BY <1>1, <1>2, <1>4, <1>5, <1>6, <1>9, <1>10 DEF SemInv, PermitInv
<1>16. TestInv'
  BY <1>2, <1>3, <1>7 DEF TestInv, TestPcs
<1>17. QED
  BY <1>8, <1>11, <1>12, <1>13, <1>14, <1>15, <1>16 DEF SemInv

\* down(&s[i]): with the permit i has its forks, and without it sleeps.
LEMMA TakeSKeeps ==
    ASSUME SemInv, NEW i \in Phil, TakeS(i)
    PROVE  SemInv'
<1>1. /\ pc[i] = "take_s" /\ Awake(i) /\ Goto(i, "eat")
      /\ s' = [s EXCEPT ![i] = down(@, i)]
      /\ UNCHANGED << state_sema, mutex, call, iter >>
  BY DEF TakeS, At
<1>2. /\ pc' \in [Phil -> Pcs] /\ pc'[i] = "eat"
      /\ \A j \in Phil : j # i => pc'[j] = pc[j]
  BY <1>1, OnlyOne DEF SemInv, Pcs
<1>3. /\ s[i] \in SemType(Phil) /\ s[i].value \in {0, 1} /\ s[i].wait_queue = <<>>
      /\ ~Sleeps(s[i], i)
      /\ IsInjective(s[i].wait_queue)
  <2>1. s[i] \in SemType(Phil) /\ ~Sleeps(s[i], i)
    BY <1>1 DEF SemInv, TypeOK, Awake
  <2>2. s[i].wait_queue = <<>>
    BY <2>1, OwnSleeper DEF SemInv, SleepInv
  <2>3. s[i].value \in {0, 1}
    BY DEF SemInv, PermitInv
  <2>4. QED
    BY <2>1, <2>2, <2>3 DEF IsInjective
<1>4. /\ s'[i] = down(s[i], i) /\ \A k \in Phil : k # i => s'[k] = s[k]
  BY <1>1 DEF SemInv, TypeOK
<1>5. /\ s'[i] \in SemType(Phil) /\ s'[i].value = 0
      /\ s'[i].wait_queue = IF s[i].value = 1 THEN <<>> ELSE <<i>>
      /\ Sleeps(s'[i], i) <=> s[i].value = 0
  <2>1. CASE s[i].value = 1
    BY <1>3, <1>4, <2>1, DownFacts
  <2>2. CASE s[i].value = 0
    <3>1. s'[i].wait_queue = <<i>>
      BY <1>3, <1>4, <2>2 DEF down, CanPass, SemType
    <3>2. QED
      BY <1>3, <1>4, <2>2, <3>1, DownFacts
  <2>3. QED
    BY <1>3, <2>1, <2>2
<1>6. TypeOK'
  BY <1>1, <1>2, <1>4, <1>5 DEF SemInv, TypeOK
<1>7. \A k \in Phil : /\ k # i => (HasForks(k)' <=> HasForks(k))
                      /\ SaysThinking(k)' <=> SaysThinking(k)
                      /\ Granting(k)' <=> Granting(k)
  BY <1>1, <1>2, <1>4 DEF HasForks, SaysThinking, Granting, TestPcs
<1>8. ~HasForks(i) /\ (HasForks(i)' <=> s[i].value = 1)
  BY <1>1, <1>2, <1>3, <1>5 DEF HasForks
<1>9. state_sema[i] \in {"HUNGRY", "EATING"}
  BY <1>1 DEF SemInv, TypeOK, StateInv, SaysThinking, TestPcs
<1>10. SleepInv'
  <2>1. \A k \in Phil : Sleeps(s'[k], k) => pc'[k] = "eat"
    BY <1>2, <1>4 DEF SemInv, SleepInv
  <2>2. QED
    BY <1>1, <1>2, <1>4, <1>5, <2>1 DEF SemInv, SleepInv, Awake
<1>11. MutexExact'
  <2>1. \A k \in Phil : InSection(k)' <=> InSection(k)
    BY <1>1, <1>2, <1>4 DEF InSection, Awake, SectionPcs, TestPcs
  <2>2. QED
    BY <1>1, <2>1 DEF SemInv, MutexExact
<1>12. CallInv'
  BY <1>1, <1>2 DEF SemInv, CallInv, TestPcs
<1>13. StateInv'
  BY <1>1, <1>7, <1>8 DEF SemInv, StateInv, PermitInv
<1>14. PermitInv'
  BY <1>1, <1>3, <1>4, <1>5, <1>7, <1>8, <1>9 DEF SemInv, PermitInv
<1>15. TestInv'
  <2>1. \A k \in Phil : call[k].arg \in Phil
    BY DEF SemInv, TypeOK
  <2>2. Granting(i) => ~HasForks(i)'
    BY <1>8 DEF SemInv, PermitInv
  <2>3. ASSUME NEW k \in Phil, pc'[k] = "test_up"
        PROVE  (state_sema[call[k].arg] = "EATING" /\ ~HasForks(call[k].arg))'
    <3>1. k # i /\ pc[k] = "test_up" /\ call' = call
      BY <1>1, <1>2, <2>3
    <3>2. PICK a \in Phil : call[k].arg = a
      BY <2>1
    <3>3. state_sema[a] = "EATING" /\ ~HasForks(a) /\ Granting(a)
      BY <3>1, <3>2 DEF SemInv, TestInv, Granting
    <3>4. ~HasForks(a)'
      BY <1>7, <2>2, <3>3
    <3>5. QED
      BY <1>1, <3>1, <3>2, <3>3, <3>4 DEF HasForks
  <2>4. \A k \in Phil : pc'[k] = "test_eating" => MayEat(call[k].arg)'
    BY <1>1, <1>2, <2>1 DEF SemInv, TestInv, MayEat
  <2>5. QED
    BY <2>3, <2>4 DEF TestInv
<1>16. QED
  BY <1>6, <1>10, <1>11, <1>12, <1>13, <1>14, <1>15 DEF SemInv

\* SemInv holds initially.
LEMMA InitSem == Init => SemInv
<1> SUFFICES ASSUME Init PROVE SemInv
  OBVIOUS
<1>1. /\ mutex.value = 1 /\ mutex.wait_queue = <<>>
      /\ mutex \in SemType(Phil)
      /\ s \in [Phil -> SemType(Phil)]
      /\ \A i \in Phil : s[i].value = 0 /\ s[i].wait_queue = <<>>
  BY DEF Init, sem_init, SemType
<1>2. TypeOK
  BY <1>1, PhilosophersAssumption DEF Init, TypeOK, Pcs
<1>3. \A i \in Phil : ~Sleeps(mutex, i) /\ ~Sleeps(s[i], i)
  BY <1>1 DEF Sleeps, ToSet
<1>4. \A i \in Phil : pc[i] = "think"
  BY DEF Init
<1>5. SleepInv
  BY <1>1, <1>3 DEF SleepInv, IsInjective
<1>6. MutexExact
  BY <1>1, <1>4 DEF MutexExact, InSection, SectionPcs, TestPcs
<1>7. CallInv /\ TestInv
  BY <1>4 DEF CallInv, TestInv, TestPcs
<1>8. StateInv /\ PermitInv
  BY <1>1, <1>3, <1>4 DEF Init, StateInv, PermitInv, SaysThinking, HasForks, TestPcs
<1>9. QED
  BY <1>2, <1>5, <1>6, <1>7, <1>8 DEF SemInv

\* Every step keeps SemInv.
LEMMA NextSem == SemInv /\ [Next]_vars => SemInv'
<1> SUFFICES ASSUME SemInv, [Next]_vars PROVE SemInv'
  OBVIOUS
<1>1. CASE UNCHANGED vars
  BY <1>1 DEF vars, SemInv, TypeOK, SleepInv, CallInv, MutexExact, StateInv, PermitInv,
              TestInv, InSection, Awake, SaysThinking, HasForks, Granting, MayEat
<1>2. ASSUME NEW i \in Phil, Philosopher(i)
      PROVE  SemInv'
  BY <1>2, ThinkKeeps, TakeDownKeeps, TakeHungryKeeps, TakeUpKeeps, TakeSKeeps,
     EatKeeps, PutDownKeeps, PutThinkingKeeps, PutRightKeeps, PutUpKeeps,
     TestKeeps, TestEatingKeeps, TestUpKeeps DEF Philosopher
<1>3. QED
  BY <1>1, <1>2 DEF Next

-----------------------------------------------------------------------------
(* The semaphores at the dining table *)

\* A step of i is a step at the table for i alone, or none.
LEMMA OthersStay ==
    ASSUME NEW i \in Phil,
           \A j \in Phil : j # i =>
             /\ pc'[j] = pc[j] /\ call'[j] = call[j] /\ iter'[j] = iter[j]
             /\ HasForks(j)' <=> HasForks(j)
    PROVE  /\ phase' = [phase EXCEPT ![i] = phase'[i]]
           /\ meals' = [meals EXCEPT ![i] = meals'[i]]
<1>1. \A j \in Phil : j # i => phase'[j] = phase[j] /\ meals'[j] = meals[j]
  BY DEF phase, meals
<1>2. /\ phase = [j \in Phil |-> phase[j]] /\ meals = [j \in Phil |-> meals[j]]
      /\ phase' = [j \in Phil |-> phase'[j]] /\ meals' = [j \in Phil |-> meals'[j]]
  BY DEF phase, meals
<1> HIDE DEF phase, meals
<1>3. QED
  BY <1>1, <1>2

\* The steps of the table, in terms of phase and meals.
LEMMA TableSteps ==
    ASSUME NEW i \in Phil, phase' = [phase EXCEPT ![i] = phase'[i]]
    PROVE  /\ phase'[i] = phase[i] /\ meals' = meals
                => UNCHANGED << phase, meals >>
           /\ phase[i] = "thinking" /\ meals[i] < TIMES /\ phase'[i] = "hungry"
                /\ meals' = meals => Table!Next
           /\ phase[i] = "hungry" /\ phase[LEFT(i)] # "eating"
                /\ phase[RIGHT(i)] # "eating" /\ phase'[i] = "eating" /\ meals' = meals
                => Table!Next
           /\ phase[i] = "eating" /\ phase'[i] = "thinking"
                /\ meals' = [meals EXCEPT ![i] = @ + 1] => Table!Next
           /\ phase[i] = "thinking" /\ meals[i] = TIMES /\ phase'[i] = "gone"
                /\ meals' = meals => Table!Next
<1>1. phase \in [Phil -> {"eating", "gone", "hungry", "thinking"}]
  BY DEF phase
<1>2. phase'[i] = phase[i] => phase' = phase
  BY <1>1
<1>3. Table!Phil = Phil /\ Table!LEFT(i) = LEFT(i) /\ Table!RIGHT(i) = RIGHT(i)
  BY DEF Table!Phil, Phil, Table!LEFT, LEFT, Table!RIGHT, RIGHT
<1> HIDE DEF phase, meals
<1>4. phase[i] = "thinking" /\ meals[i] < TIMES /\ phase'[i] = "hungry"
        /\ meals' = meals => Table!Hunger(i)
  BY DEF Table!Hunger
<1>5. phase[i] = "hungry" /\ phase[LEFT(i)] # "eating"
        /\ phase[RIGHT(i)] # "eating" /\ phase'[i] = "eating" /\ meals' = meals
        => Table!Eat(i)
  BY <1>3 DEF Table!Eat
<1>6. phase[i] = "eating" /\ phase'[i] = "thinking"
        /\ meals' = [meals EXCEPT ![i] = @ + 1] => Table!Think(i)
  BY DEF Table!Think
<1>7. phase[i] = "thinking" /\ meals[i] = TIMES /\ phase'[i] = "gone"
        /\ meals' = meals => Table!Leave(i)
  BY DEF Table!Leave
<1>8. QED
  BY <1>2, <1>3, <1>4, <1>5, <1>6, <1>7 DEF Table!Next

\* A step after which i is in the same phase, with the same meals, and the others
\* are where they were, is no step at the table.
LEMMA Stutter ==
    ASSUME NEW i \in Phil,
           \A j \in Phil : j # i =>
             /\ pc'[j] = pc[j] /\ call'[j] = call[j] /\ iter'[j] = iter[j]
             /\ HasForks(j)' <=> HasForks(j),
           phase'[i] = phase[i], meals'[i] = meals[i]
    PROVE  UNCHANGED << phase, meals >>
<1>1. /\ phase' = [phase EXCEPT ![i] = phase'[i]]
      /\ meals' = [meals EXCEPT ![i] = meals'[i]]
  BY OthersStay
<1>2. DOMAIN phase = Phil /\ DOMAIN meals = Phil
  BY DEF phase, meals
<1>3. phase = [j \in Phil |-> phase[j]] /\ meals = [j \in Phil |-> meals[j]]
  BY DEF phase, meals
<1> HIDE DEF phase, meals
<1>4. QED
  BY <1>1, <1>2, <1>3

\* Who eats has both forks, so its neighbours do not eat.
LEMMA NeighboursWait ==
    ASSUME SemInv, NEW i \in Phil, state_sema[i] = "EATING"
    PROVE  phase[LEFT(i)] # "eating" /\ phase[RIGHT(i)] # "eating"
<1>1. ~HasForks(LEFT(i)) /\ ~HasForks(RIGHT(i))
  BY Neighbours DEF SemInv, StateInv
<1>2. QED
  BY <1>1, Neighbours DEF phase

\* The steps that only prepare what follows.
LEMMA PreparingSteps ==
    ASSUME SemInv, NEW i \in Phil,
           \/ TakeDown(i) \/ TakeHungry(i) \/ TakeUp(i) \/ Eat(i) \/ PutDown(i)
           \/ PutRight(i) \/ Test(i) \/ TestEating(i)
    PROVE  UNCHANGED << phase, meals >>
<1>1. s' = s /\ iter' = iter
  BY DEF TakeDown, TakeHungry, TakeUp, Eat, PutDown, PutRight, Test, TestEating
<1>2. \A j \in Phil : j # i => pc'[j] = pc[j] /\ call'[j] = call[j]
  BY DEF TakeDown, TakeHungry, TakeUp, Eat, PutDown, PutRight, Test, TestEating,
         Goto, CallTest, SemInv, TypeOK
<1>3. \A j \in Phil : j # i => (HasForks(j)' <=> HasForks(j))
  BY <1>1, <1>2 DEF HasForks
<1> USE <1>1 DEF phase, meals, HasForks, TestPcs, At, Goto, CallTest, SemInv, TypeOK, Awake
<1>4. CASE TakeDown(i)
  <2>1. phase'[i] = phase[i] /\ meals'[i] = meals[i]
    BY <1>4 DEF TakeDown
  <2>2. QED
    BY <1>2, <1>3, <2>1, Stutter
<1>5. CASE TakeHungry(i)
  <2>1. phase'[i] = phase[i] /\ meals'[i] = meals[i]
    BY <1>5 DEF TakeHungry
  <2>2. QED
    BY <1>2, <1>3, <2>1, Stutter
<1>6. CASE TakeUp(i)
  <2>1. phase'[i] = phase[i] /\ meals'[i] = meals[i]
    BY <1>6 DEF TakeUp
  <2>2. QED
    BY <1>2, <1>3, <2>1, Stutter
<1>7. CASE Eat(i)
  <2>1. phase'[i] = phase[i] /\ meals'[i] = meals[i]
    BY <1>7 DEF Eat
  <2>2. QED
    BY <1>2, <1>3, <2>1, Stutter
<1>8. CASE PutDown(i)
  <2>1. phase'[i] = phase[i] /\ meals'[i] = meals[i]
    BY <1>8 DEF PutDown
  <2>2. QED
    BY <1>2, <1>3, <2>1, Stutter
<1>9. CASE PutRight(i)
  <2>1. phase'[i] = phase[i] /\ meals'[i] = meals[i]
    BY <1>9 DEF PutRight
  <2>2. QED
    BY <1>2, <1>3, <2>1, Stutter
<1>10. CASE Test(i)
  <2>1. phase'[i] = phase[i] /\ meals'[i] = meals[i]
    BY <1>10 DEF Test
  <2>2. QED
    BY <1>2, <1>3, <2>1, Stutter
<1>11. CASE TestEating(i)
  <2>1. phase'[i] = phase[i] /\ meals'[i] = meals[i]
    BY <1>11 DEF TestEating
  <2>2. QED
    BY <1>2, <1>3, <2>1, Stutter
<1>12. QED
  BY <1>4, <1>5, <1>6, <1>7, <1>8, <1>9, <1>10, <1>11

\* do_sleep ends: the philosopher becomes hungry.
LEMMA ThinkAtTable ==
    ASSUME SemInv, NEW i \in Phil, Think(i)
    PROVE  Table!Next
<1>1. /\ pc[i] = "think" /\ pc'[i] = "take_down"
      /\ s' = s /\ call' = call /\ iter' = iter
      /\ \A j \in Phil : j # i => pc'[j] = pc[j]
  BY DEF Think, At, Goto, SemInv, TypeOK
<1>2. \A j \in Phil : j # i => (HasForks(j)' <=> HasForks(j))
  BY <1>1 DEF HasForks
<1>3. /\ phase' = [phase EXCEPT ![i] = phase'[i]]
      /\ meals' = [meals EXCEPT ![i] = meals'[i]]
  BY <1>1, <1>2, OthersStay
<1>4. /\ phase[i] = "thinking" /\ phase'[i] = "hungry"
      /\ meals[i] = iter[i] - 1 /\ meals'[i] = meals[i]
  BY <1>1 DEF phase, meals, HasForks, TestPcs
<1>5. meals' = meals
  BY <1>1, <1>2, <1>4 DEF meals, TestPcs
<1>6. meals[i] < TIMES
  BY <1>4, PhilosophersAssumption DEF SemInv, TypeOK
<1>7. QED
  BY <1>3, <1>4, <1>5, <1>6, TableSteps

\* The permit is there: i eats. It is not: i stays hungry, asleep.
LEMMA TakeSAtTable ==
    ASSUME SemInv, SemInv', NEW i \in Phil, TakeS(i)
    PROVE  Table!Next \/ UNCHANGED << phase, meals >>
<1>1. /\ pc[i] = "take_s" /\ pc'[i] = "eat"
      /\ call' = call /\ iter' = iter /\ state_sema' = state_sema
      /\ \A j \in Phil : j # i => pc'[j] = pc[j]
      /\ \A j \in Phil : j # i => s'[j] = s[j]
  BY DEF TakeS, At, Goto, SemInv, TypeOK
<1>2. \A j \in Phil : j # i => (HasForks(j)' <=> HasForks(j))
  BY <1>1 DEF HasForks
<1>3. phase[i] = "hungry" /\ meals'[i] = meals[i]
  BY <1>1 DEF phase, meals, HasForks, TestPcs
<1>4. CASE HasForks(i)'
  <2>1. phase' = [phase EXCEPT ![i] = phase'[i]] /\ phase'[i] = "eating"
    BY <1>1, <1>2, <1>4, OthersStay DEF phase
  <2>2. meals' = meals
    BY <1>1, <1>3 DEF meals
  <2>3. state_sema[i] = "EATING"
    BY <1>1, <1>4 DEF SemInv, StateInv
  <2>4. phase[LEFT(i)] # "eating" /\ phase[RIGHT(i)] # "eating"
    BY <2>3, NeighboursWait
  <2>5. QED
    BY <1>3, <2>1, <2>2, <2>4, TableSteps
<1>5. CASE ~HasForks(i)'
  <2>1. phase'[i] = "hungry"
    BY <1>1, <1>5 DEF phase
  <2>2. QED
    BY <1>1, <1>2, <1>3, <2>1, Stutter
<1>6. QED
  BY <1>4, <1>5

\* The one who is tested eats if it slept, whoever tests.
LEMMA TestUpAtTable ==
    ASSUME SemInv, SemInv', NEW i \in Phil, TestUp(i)
    PROVE  Table!Next \/ UNCHANGED << phase, meals >>
<1>1. PICK a \in Phil : call[i].arg = a
  BY DEF SemInv, TypeOK
<1>2. /\ pc[i] = "test_up" /\ pc'[i] = call[i].ret
      /\ call[i].ret \in {"take_up", "put_right", "put_up"}
      /\ call' = call /\ iter' = iter /\ state_sema' = state_sema
      /\ \A j \in Phil : j # i => pc'[j] = pc[j]
      /\ \A j \in Phil : j # a => s'[j] = s[j]
      /\ state_sema[a] = "EATING" /\ ~HasForks(a)
  BY <1>1 DEF TestUp, At, Goto, SemInv, TypeOK, TestInv
<1>3. ~HasForks(i) /\ ~HasForks(i)'
  BY <1>2 DEF HasForks
<1>4. \A j \in Phil : j # a => (HasForks(j)' <=> HasForks(j))
  BY <1>2, <1>3 DEF HasForks
<1>5. phase'[i] = phase[i] /\ meals'[i] = meals[i]
  BY <1>2, <1>3 DEF phase, meals, TestPcs
<1>6. \A j \in Phil : j # a => phase'[j] = phase[j]
  BY <1>2, <1>4, <1>5 DEF phase
<1>7. meals' = meals
  <2>1. \A j \in Phil : meals'[j] = meals[j]
    BY <1>2, <1>5 DEF meals
  <2>2. QED
    BY <2>1 DEF meals
<1>8. phase' = [phase EXCEPT ![a] = phase'[a]]
  BY <1>6 DEF phase
<1>9. CASE HasForks(a)'
  <2>1. a # i /\ pc[a] \in {"eat", "put_down", "put_thinking"}
    BY <1>2, <1>3, <1>9 DEF HasForks
  <2>2. phase'[a] = "eating" /\ phase[a] = "hungry"
    <3>1. pc[a] = "eat"
      BY <1>2, <2>1 DEF SemInv, SleepInv, HasForks
    <3>2. QED
      BY <1>2, <1>9, <3>1 DEF phase
  <2>3. phase[LEFT(a)] # "eating" /\ phase[RIGHT(a)] # "eating"
    BY <1>2, NeighboursWait
  <2>4. QED
    BY <1>7, <1>8, <2>2, <2>3, TableSteps
<1>10. CASE ~HasForks(a)'
  <2>1. phase'[a] = phase[a]
    BY <1>2, <1>5, <1>10 DEF phase
  <2>2. QED
    BY <1>7, <1>8, <2>1, TableSteps
<1>11. QED
  BY <1>9, <1>10

\* The philosopher thinks again, and has had one more meal.
LEMMA PutThinkingAtTable ==
    ASSUME SemInv, NEW i \in Phil, PutThinking(i)
    PROVE  Table!Next
<1>1. /\ pc[i] = "put_thinking" /\ ~Sleeps(s[i], i)
      /\ pc'[i] = "test" /\ call'[i].ret = "put_right"
      /\ s' = s /\ iter' = iter
      /\ \A j \in Phil : j # i => pc'[j] = pc[j] /\ call'[j] = call[j]
  BY DEF PutThinking, At, Awake, CallTest, Goto, SemInv, TypeOK
<1>2. \A j \in Phil : j # i => (HasForks(j)' <=> HasForks(j))
  BY <1>1 DEF HasForks
<1>3. /\ phase' = [phase EXCEPT ![i] = phase'[i]]
      /\ meals' = [meals EXCEPT ![i] = meals'[i]]
  BY <1>1, <1>2, OthersStay
<1>4. /\ phase[i] = "eating" /\ phase'[i] = "thinking"
      /\ meals[i] = iter[i] - 1 /\ meals'[i] = iter[i]
  BY <1>1 DEF phase, meals, HasForks, TestPcs
<1>5. meals'[i] = meals[i] + 1
  BY <1>4 DEF SemInv, TypeOK
<1>6. meals' = [meals EXCEPT ![i] = @ + 1]
  BY <1>3, <1>5
<1>7. QED
  BY <1>3, <1>4, <1>6, TableSteps

\* The next round is no step at the table, and the end of the thread is.
LEMMA PutUpAtTable ==
    ASSUME SemInv, NEW i \in Phil, PutUp(i)
    PROVE  Table!Next \/ UNCHANGED << phase, meals >>
<1>1. /\ pc[i] = "put_up" /\ s' = s /\ call' = call
      /\ pc'[i] = IF iter[i] < TIMES THEN "think" ELSE "quit"
      /\ iter'[i] = IF iter[i] < TIMES THEN iter[i] + 1 ELSE iter[i]
      /\ \A j \in Phil : j # i => pc'[j] = pc[j] /\ iter'[j] = iter[j]
      /\ iter[i] \in 1..TIMES
  BY DEF PutUp, At, Goto, SemInv, TypeOK
<1>2. \A j \in Phil : j # i => (HasForks(j)' <=> HasForks(j))
  BY <1>1 DEF HasForks
<1>3. /\ phase' = [phase EXCEPT ![i] = phase'[i]]
      /\ meals' = [meals EXCEPT ![i] = meals'[i]]
  BY <1>1, <1>2, OthersStay
<1>4. phase[i] = "thinking" /\ meals[i] = iter[i] /\ meals'[i] = iter[i]
  BY <1>1 DEF phase, meals, HasForks, TestPcs
<1>5. CASE iter[i] < TIMES
  <2>1. phase'[i] = "thinking"
    BY <1>1, <1>5 DEF phase, HasForks, TestPcs
  <2>2. QED
    BY <1>1, <1>2, <1>4, <2>1, Stutter
<1>6. CASE ~(iter[i] < TIMES)
  <2>1. phase'[i] = "gone" /\ meals[i] = TIMES
    BY <1>1, <1>4, <1>6, PhilosophersAssumption DEF phase, HasForks
  <2>2. meals' = meals
    BY <1>3, <1>4 DEF meals
  <2>3. QED
    BY <1>3, <1>4, <2>1, <2>2, TableSteps
<1>7. QED
  BY <1>5, <1>6

\* Initially all think, and have had no meal.
LEMMA SemTableInit == Init => Table!Init
<1> SUFFICES ASSUME Init PROVE Table!Init
  OBVIOUS
<1>1. \A i \in Phil : pc[i] = "think" /\ iter[i] - 1 = 0 /\ ~HasForks(i)
  BY DEF Init, HasForks
<1>2. /\ phase = [i \in Phil |-> "thinking"]
      /\ meals = [i \in Phil |-> 0]
  BY <1>1 DEF phase, meals, TestPcs
<1>3. Table!Phil = Phil
  BY DEF Table!Phil, Phil
<1>4. QED
  BY <1>2, <1>3 DEF Table!Init

\* Every step is one at the table, or none.
LEMMA SemTableStep == SemInv /\ SemInv' /\ [Next]_vars => [Table!Next]_<< phase, meals >>
<1> SUFFICES ASSUME SemInv, SemInv', [Next]_vars
             PROVE  Table!Next \/ UNCHANGED << phase, meals >>
  OBVIOUS
<1>1. CASE UNCHANGED vars
  BY <1>1 DEF vars, phase, meals, HasForks
<1>2. ASSUME NEW i \in Phil, Philosopher(i)
      PROVE  Table!Next \/ UNCHANGED << phase, meals >>
  BY <1>2, ThinkAtTable, TakeSAtTable, TestUpAtTable, PutThinkingAtTable,
     PutUpAtTable, PreparingSteps DEF Philosopher
<1>3. QED
  BY <1>1, <1>2 DEF Next

-----------------------------------------------------------------------------
(* What it implies *)

\* What the runs check follows from SemInv.
LEMMA ImpliedSem == SemInv => TypeOK /\ MutexExact /\ PermitExact
  BY DEF SemInv, PermitExact, PermitInv, StateInv, Granting

\* SemInv holds throughout.
THEOREM SemInductive == Spec => []SemInv
<1>1. QED
  BY InitSem, NextSem, PTL DEF Spec

\* The mutex of check_sync.c admits one philosopher at a time, and its permit is
\* neither doubled nor lost as up() hands it over.
THEOREM OneInSection == Spec => []MutexExact
<1>1. QED
  BY ImpliedSem, SemInductive, PTL

\* phi_test_sema gives a permit exactly to a philosopher that says EATING and
\* has not yet taken it: nobody eats on a stale permit.
THEOREM PermitsTrue == Spec => []PermitExact
<1>1. QED
  BY ImpliedSem, SemInductive, PTL

-----------------------------------------------------------------------------
(* The monitor *)

\* What is proved about the monitor is proved about the half Mon.
LEMMA SameMon ==
    /\ Mon!Init <=> MonProofs!Init
    /\ Mon!Next <=> MonProofs!Next
    /\ Mon!TypeOK <=> MonProofs!TypeOK
    /\ Mon!OneToken <=> MonProofs!OneToken
    /\ Mon!CountersExact <=> MonProofs!CountersExact
    /\ Mon!SignalReaches <=> MonProofs!SignalReaches
    /\ Mon!phase = MonProofs!phase
    /\ Mon!meals = MonProofs!meals
<1>1. Mon!Init <=> MonProofs!Init
  BY DEF Mon!Init, MonProofs!Init, Mon!Phil, MonProofs!Phil,
         Mon!sem_init, MonProofs!sem_init
<1>2. Mon!Next <=> MonProofs!Next
  BY DEF Mon!Phil, MonProofs!Phil, Mon!LEFT, MonProofs!LEFT,
         Mon!RIGHT, MonProofs!RIGHT, Mon!CanPass, MonProofs!CanPass,
         Mon!Sleeps, MonProofs!Sleeps, Mon!up, MonProofs!up,
         Mon!down, MonProofs!down, Mon!ToSet, MonProofs!ToSet,
         Mon!monitor, MonProofs!monitor, Mon!vars, MonProofs!vars,
         Mon!Next, MonProofs!Next, Mon!AllQuit, MonProofs!AllQuit,
         Mon!Philosopher, MonProofs!Philosopher, Mon!At, MonProofs!At,
         Mon!Awake, MonProofs!Awake, Mon!Goto, MonProofs!Goto,
         Mon!CallTest, MonProofs!CallTest, Mon!MayEat, MonProofs!MayEat,
         Mon!Leave, MonProofs!Leave, Mon!Think, MonProofs!Think,
         Mon!TakeDown, MonProofs!TakeDown,
         Mon!TakeHungry, MonProofs!TakeHungry,
         Mon!TakeCheck, MonProofs!TakeCheck,
         Mon!TakeLeave, MonProofs!TakeLeave, Mon!Eat, MonProofs!Eat,
         Mon!PutDown, MonProofs!PutDown,
         Mon!PutThinking, MonProofs!PutThinking,
         Mon!PutRight, MonProofs!PutRight, Mon!PutLeave, MonProofs!PutLeave,
         Mon!Test, MonProofs!Test, Mon!TestEating, MonProofs!TestEating,
         Mon!Signal, MonProofs!Signal, Mon!SignalUp, MonProofs!SignalUp,
         Mon!SignalDown, MonProofs!SignalDown,
         Mon!SignalEnd, MonProofs!SignalEnd, Mon!CondWait, MonProofs!CondWait,
         Mon!WaitLeave, MonProofs!WaitLeave, Mon!WaitDown, MonProofs!WaitDown,
         Mon!WaitEnd, MonProofs!WaitEnd
<1>3. Mon!TypeOK <=> MonProofs!TypeOK
  BY DEF Mon!TypeOK, MonProofs!TypeOK, Mon!Phil, MonProofs!Phil,
         Mon!SemType, MonProofs!SemType, Mon!Pcs, MonProofs!Pcs,
         Mon!TestPcs, MonProofs!TestPcs, Mon!WaitPcs, MonProofs!WaitPcs
<1>4. Mon!OneToken <=> MonProofs!OneToken
  BY DEF Mon!Phil, MonProofs!Phil, Mon!LEFT, MonProofs!LEFT,
         Mon!RIGHT, MonProofs!RIGHT, Mon!CanPass, MonProofs!CanPass,
         Mon!Sleeps, MonProofs!Sleeps, Mon!up, MonProofs!up,
         Mon!down, MonProofs!down, Mon!ToSet, MonProofs!ToSet,
         Mon!OneToken, MonProofs!OneToken, Mon!Active, MonProofs!Active,
         Mon!OutsidePcs, MonProofs!OutsidePcs, Mon!Awake, MonProofs!Awake,
         Mon!Cardinality, MonProofs!Cardinality
<1>5. Mon!CountersExact <=> MonProofs!CountersExact
  BY DEF Mon!CountersExact, MonProofs!CountersExact, Mon!Phil, MonProofs!Phil,
         Mon!Cardinality, MonProofs!Cardinality
<1>6. Mon!SignalReaches <=> MonProofs!SignalReaches
  BY DEF Mon!Phil, MonProofs!Phil, Mon!LEFT, MonProofs!LEFT,
         Mon!RIGHT, MonProofs!RIGHT, Mon!CanPass, MonProofs!CanPass,
         Mon!Sleeps, MonProofs!Sleeps, Mon!up, MonProofs!up,
         Mon!down, MonProofs!down, Mon!ToSet, MonProofs!ToSet,
         Mon!SignalReaches, MonProofs!SignalReaches
<1>7. Mon!phase = MonProofs!phase /\ Mon!meals = MonProofs!meals
  BY DEF Mon!Phil, MonProofs!Phil, Mon!LEFT, MonProofs!LEFT,
         Mon!RIGHT, MonProofs!RIGHT, Mon!CanPass, MonProofs!CanPass,
         Mon!Sleeps, MonProofs!Sleeps, Mon!up, MonProofs!up,
         Mon!down, MonProofs!down, Mon!ToSet, MonProofs!ToSet,
         Mon!phase, MonProofs!phase, Mon!meals, MonProofs!meals,
         Mon!HasForks, MonProofs!HasForks, Mon!TestPcs, MonProofs!TestPcs,
         Mon!WaitPcs, MonProofs!WaitPcs
<1>8. QED
  BY <1>1, <1>2, <1>3, <1>4, <1>5, <1>6, <1>7

-----------------------------------------------------------------------------
(* The invariant of either *)

IInv ==
    \/ half = "sem" /\ SemInv
    \/ half = "mon" /\ MonProofs!IInv

\* The half looked at starts in its invariant.
LEMMA InitIInv == SyncInit => IInv
  BY SameMon, PhilosophersAssumption, InitSem, MonProofs!InitIInv
     DEF SyncInit, IInv

\* A step is one of the half looked at, and keeps its invariant.
LEMMA NextIInv == IInv /\ [SyncNext]_allvars => IInv'
<1> SUFFICES ASSUME IInv, [SyncNext]_allvars PROVE IInv'
  OBVIOUS
<1>1. CASE half = "sem"
  <2>1. SemInv
    BY <1>1 DEF IInv
  <2>2. [Next]_vars /\ half' = half
    BY <1>1 DEF SyncNext, allvars, vars
  <2>3. SemInv'
    BY <2>1, <2>2, PhilosophersAssumption, NextSem
  <2>4. QED
    BY <1>1, <2>2, <2>3 DEF IInv
<1>2. CASE half = "mon"
  <2>1. MonProofs!IInv
    BY <1>2 DEF IInv
  <2>2. [MonProofs!Next]_MonProofs!vars /\ half' = half
    BY <1>2, SameMon DEF SyncNext, allvars, vars, OfSem, OfMon, MonProofs!vars, MonProofs!monitor
  <2>3. MonProofs!IInv'
    BY <2>1, <2>2, PhilosophersAssumption, MonProofs!NextIInv
  <2>4. QED
    BY <1>2, <2>2, <2>3 DEF IInv
<1>3. QED
  BY <1>1, <1>2 DEF IInv

-----------------------------------------------------------------------------
(* Either at the dining table *)

\* The variables of the table.
TablePlace ==
    << IF half = "sem" THEN phase ELSE Mon!phase,
       IF half = "sem" THEN meals ELSE Mon!meals >>

\* The table is that of the half looked at.
LEMMA SameTable ==
    /\ half = "sem" /\ Table!Init => EitherTable!Init
    /\ half = "mon" /\ MonProofs!Table!Init => EitherTable!Init
    /\ half = "sem" /\ half' = half
         /\ (Table!Next \/ UNCHANGED << phase, meals >>)
         => EitherTable!Next \/ UNCHANGED TablePlace
    /\ half = "mon" /\ half' = half
         /\ (MonProofs!Table!Next \/ UNCHANGED << MonProofs!phase, MonProofs!meals >>)
         => EitherTable!Next \/ UNCHANGED TablePlace
<1>1. /\ half = "sem" /\ Table!Init => EitherTable!Init
      /\ half = "mon" /\ MonProofs!Table!Init => EitherTable!Init
  BY SameMon
     DEF EitherTable!Init, Table!Init, MonProofs!Table!Init,
         EitherTable!Phil, Table!Phil, MonProofs!Table!Phil
<1>2. (Mon!phase = MonProofs!phase /\ Mon!meals = MonProofs!meals)'
  <2>1. Mon!phase = MonProofs!phase /\ Mon!meals = MonProofs!meals
    BY SameMon
  <2>2. QED
    BY <2>1, PTL
<1>3. half = "sem" /\ half' = half
         /\ (Table!Next \/ UNCHANGED << phase, meals >>)
         => EitherTable!Next \/ UNCHANGED TablePlace
  BY DEF TablePlace, EitherTable!Next, Table!Next,
         EitherTable!Hunger, Table!Hunger, EitherTable!Eat, Table!Eat,
         EitherTable!Think, Table!Think, EitherTable!Leave,
         Table!Leave, EitherTable!Phil, Table!Phil, EitherTable!LEFT,
         Table!LEFT, EitherTable!RIGHT, Table!RIGHT
<1>4. half = "mon" /\ half' = half
         /\ (MonProofs!Table!Next \/ UNCHANGED << MonProofs!phase, MonProofs!meals >>)
         => EitherTable!Next \/ UNCHANGED TablePlace
  BY <1>2, SameMon DEF TablePlace, EitherTable!Next, MonProofs!Table!Next,
         EitherTable!Hunger, MonProofs!Table!Hunger, EitherTable!Eat, MonProofs!Table!Eat,
         EitherTable!Think, MonProofs!Table!Think, EitherTable!Leave,
         MonProofs!Table!Leave, EitherTable!Phil, MonProofs!Table!Phil, EitherTable!LEFT,
         MonProofs!Table!LEFT, EitherTable!RIGHT, MonProofs!Table!RIGHT
<1>5. QED
  BY <1>1, <1>3, <1>4

\* The initial states are those of the table.
LEMMA TableInit == SyncInit => EitherTable!Init
  BY SameMon, SameTable, PhilosophersAssumption,
     SemTableInit, MonProofs!TableInit DEF SyncInit

\* Every step is one at the table, or none.
LEMMA TableStep == IInv /\ IInv' /\ [SyncNext]_allvars => [EitherTable!Next]_TablePlace
<1> SUFFICES ASSUME IInv, IInv', [SyncNext]_allvars
             PROVE  EitherTable!Next \/ UNCHANGED TablePlace
  OBVIOUS
<1>1. CASE half = "sem"
  <2>1. [Next]_vars /\ half' = half
    BY <1>1 DEF SyncNext, allvars, vars
  <2>2. SemInv /\ SemInv'
    BY <1>1, <2>1 DEF IInv
  <2>3. Table!Next \/ UNCHANGED << phase, meals >>
    BY <2>1, <2>2, PhilosophersAssumption, SemTableStep
  <2>4. QED
    BY <1>1, <2>1, <2>3, SameTable
<1>2. CASE half = "mon"
  <2>1. [MonProofs!Next]_MonProofs!vars /\ half' = half
    BY <1>2, SameMon DEF SyncNext, allvars, vars, OfSem, OfMon, MonProofs!vars, MonProofs!monitor
  <2>2. MonProofs!IInv
    BY <1>2 DEF IInv
  <2>3. MonProofs!Table!Next \/ UNCHANGED << MonProofs!phase, MonProofs!meals >>
    BY <2>1, <2>2, PhilosophersAssumption, MonProofs!TableStep
  <2>4. QED
    BY <1>2, <2>1, <2>3, SameTable
<1>3. QED
  BY <1>1, <1>2 DEF IInv

-----------------------------------------------------------------------------
(* Theorems *)

\* IInv holds throughout.
THEOREM Inductive == SyncSpec => []IInv
<1>1. QED
  BY InitIInv, NextIInv, PTL DEF SyncSpec

\* The section of the semaphores admits one philosopher, the monitor has one
\* token: the right to run is neither doubled nor lost, for any N.
THEOREM Sections == SyncSpec => []SectionExact
<1>1. IInv => SectionExact
  BY SameMon, PhilosophersAssumption, ImpliedSem, MonProofs!Implied
     DEF IInv, SectionExact
<1>2. QED
  BY <1>1, Inductive, PTL

\* Permits, counters and signals are exact in check_sync.c, for any N.
THEOREM Permits == SyncSpec => []PermitsExact
<1>1. IInv => PermitsExact
  BY SameMon, PhilosophersAssumption, ImpliedSem, MonProofs!Implied
     DEF IInv, PermitsExact
<1>2. QED
  BY <1>1, Inductive, PTL

\* With semaphores or with the monitor, the philosophers do at the table only
\* what module Dining lets them do: they eat only while neither neighbour does.
\* The safety part of ImplementsDining, for any N and TIMES.
THEOREM ImplementsTable == SyncSpec => EitherTable!Safety
<1>1. QED
  BY TableInit, TableStep, Inductive, PTL DEF SyncSpec, TablePlace, EitherTable!Safety
=============================================================================
