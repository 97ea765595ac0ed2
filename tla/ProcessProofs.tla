--------------------------- MODULE ProcessProofs ----------------------------
(***************************************************************************)
(* Safety of Process, for any number of processes and any value of the     *)
(* other constants.                                                        *)
(*                                                                         *)
(* What the functions of sched.c do comes first: wakeup_proc and schedule  *)
(* keep the run queue exact (SchedInv), for lists of any length; an        *)
(* insertion, a removal and a tick keep the delta list of timers in order. *)
(*                                                                         *)
(* The invariants of the runs are not inductive by themselves: what a step *)
(* may do depends on where every process stands in its code. IInv adds     *)
(* that, as SchedInv, PcInv (program counter against process state),       *)
(* KinInv (the family) and TimerInv (who has a timer). Effects then says   *)
(* what a step can do to states, timers and the family; the state diagram, *)
(* NoLostWakeup and InitQuitsLast follow from it.                          *)
(***************************************************************************)
EXTENDS Process, Queues, SequenceTheorems, FiniteSetTheorems, TLAPS

\* The scheduler record: the run queue is exact, a process has a wait state
\* just when it sleeps, and no assert has failed.
SchedInv(s) ==
    /\ s \in SchedType
    /\ IsInjective(s.run_list)
    /\ \A p \in Procs : p \in ToSet(s.run_list) <=>
                          s.state[p] = "RUNNABLE" /\ p # idleproc /\ p # s.current
    /\ s.state[idleproc] = "RUNNABLE"
    /\ \A p \in Procs : s.wait_state[p] # "0" <=> s.state[p] = "SLEEPING"
    /\ s.fault = {}

-----------------------------------------------------------------------------
(* The scheduler *)

\* RR_enqueue of a process that is not linked keeps the queue a queue.
LEMMA EnqueueFacts ==
    ASSUME NEW s \in SchedType, NEW p \in Procs,
           IsInjective(s.run_list), p \notin ToSet(s.run_list)
    PROVE  LET t == RR_enqueue(s, p)
           IN  /\ t \in SchedType
               /\ IsInjective(t.run_list)
               /\ ToSet(t.run_list) = ToSet(s.run_list) \cup {p}
               /\ t.run_list # <<>>
               /\ t.current = s.current /\ t.state = s.state
               /\ t.wait_state = s.wait_state /\ t.fault = s.fault
<1> DEFINE t == RR_enqueue(s, p)
<1>1. t = [s EXCEPT !.run_list = Append(@, p),
                    !.time_slice[p] = IF @ = 0 \/ @ > MAX_TIME_SLICE
                                        THEN MAX_TIME_SLICE ELSE @]
  BY DEF RR_enqueue, Checked
<1>2. s.run_list \in Seq(Procs)
  BY DEF SchedType
<1>3. /\ t.run_list = Append(s.run_list, p)
      /\ t.current = s.current /\ t.state = s.state
      /\ t.wait_state = s.wait_state /\ t.fault = s.fault
  BY <1>1 DEF SchedType
<1>4. t \in SchedType
  <2>1. Append(s.run_list, p) \in Seq(Procs)
    BY <1>2
  <2>2. s.time_slice[p] \in 0..MAX_TIME_SLICE
    BY DEF SchedType
  <2> DEFINE slice == IF s.time_slice[p] = 0 \/ s.time_slice[p] > MAX_TIME_SLICE
                        THEN MAX_TIME_SLICE ELSE s.time_slice[p]
             slices == [s.time_slice EXCEPT ![p] = slice]
  <2>3. slices \in [Procs -> 0..MAX_TIME_SLICE]
    BY <2>2, SchedAssumption DEF SchedType
  <2>4. t = [s EXCEPT !.run_list = Append(s.run_list, p), !.time_slice = slices]
    BY <1>1
  <2> HIDE DEF slices
  <2>5. QED
    BY <2>1, <2>3, <2>4 DEF SchedType
<1>5. t.run_list # <<>>
  BY <1>2, <1>3
<1>6. QED
  <2>1. /\ IsInjective(Append(s.run_list, p))
        /\ ToSet(Append(s.run_list, p)) = ToSet(s.run_list) \cup {p}
    BY <1>2, AppendFresh
  <2>2. QED
    BY <1>3, <1>4, <1>5, <2>1

\* wakeup_proc keeps SchedInv, and makes p runnable and nothing else, unless p
\* is a zombie.
LEMMA WakeupFacts ==
    ASSUME NEW s, SchedInv(s), NEW p \in Procs, p # idleproc,
           s.state[p] # "ZOMBIE"
    PROVE  LET t == wakeup_proc(s, p)
           IN  /\ SchedInv(t)
               /\ t.current = s.current
               /\ t.state = [s.state EXCEPT ![p] = "RUNNABLE"]
               /\ t.wait_state = [s.wait_state EXCEPT ![p] = "0"]
<1> DEFINE t == wakeup_proc(s, p)
           w == [s EXCEPT !.state[p] = "RUNNABLE", !.wait_state[p] = "0"]
<1>0. s \in SchedType
  BY DEF SchedInv
<1>1. CASE s.state[p] = "RUNNABLE"
  <2>1. t = s /\ s.wait_state[p] = "0"
    BY <1>1 DEF wakeup_proc, SchedInv
  <2>2. QED
    BY <2>1, <1>1, <1>0 DEF SchedType
<1>2. CASE s.state[p] # "RUNNABLE"
  <2>1. /\ w \in SchedType
        /\ w.current = s.current /\ w.run_list = s.run_list
        /\ w.state = [s.state EXCEPT ![p] = "RUNNABLE"]
        /\ w.wait_state = [s.wait_state EXCEPT ![p] = "0"]
        /\ w.fault = s.fault
    BY <1>0 DEF SchedType, ProcStates, WaitStates
  <2>2. p \notin ToSet(s.run_list)
    BY <1>2 DEF SchedInv
  <2>3. t = IF p # s.current THEN RR_enqueue(w, p) ELSE w
    BY <1>2 DEF wakeup_proc, Checked, sched_class_enqueue
  <2>4. /\ t \in SchedType
        /\ IsInjective(t.run_list)
        /\ ToSet(t.run_list) = IF p # s.current THEN ToSet(s.run_list) \cup {p}
                               ELSE ToSet(s.run_list)
        /\ t.current = s.current /\ t.state = w.state
        /\ t.wait_state = w.wait_state /\ t.fault = s.fault
    <3>1. IsInjective(w.run_list) /\ p \notin ToSet(w.run_list)
      BY <2>1, <2>2 DEF SchedInv
    <3>2. CASE p # s.current
      <4>1. t = RR_enqueue(w, p)
        BY <2>3, <3>2
      <4> HIDE DEF w, t
      <4>2. QED
        BY <2>1, <3>1, <3>2, <4>1, EnqueueFacts
    <3>3. CASE p = s.current
      BY <2>1, <2>3, <3>1, <3>3
    <3>4. QED
      BY <3>2, <3>3
  <2>5. SchedInv(t)
    <3> HIDE DEF w, t
    <3>1. s.state \in [Procs -> ProcStates] /\ s.wait_state \in [Procs -> WaitStates]
      BY <1>0 DEF SchedType
    <3>2. \A q \in Procs : q \in ToSet(t.run_list) <=>
            t.state[q] = "RUNNABLE" /\ q # idleproc /\ q # t.current
      BY <2>4, <2>1, <3>1 DEF SchedInv
    <3>3. \A q \in Procs : t.wait_state[q] # "0" <=> t.state[q] = "SLEEPING"
      BY <2>4, <2>1, <3>1 DEF SchedInv
    <3>4. t.state[idleproc] = "RUNNABLE" /\ t.fault = {}
      BY <2>4, <2>1, <3>1, SchedAssumption DEF SchedInv
    <3>5. QED
      BY <2>4, <3>2, <3>3, <3>4 DEF SchedInv
  <2>6. QED
    BY <2>4, <2>5, <2>1
<1>3. QED
  BY <1>1, <1>2

\* schedule keeps SchedInv and the states of all processes; the process it
\* picks is runnable.
LEMMA ScheduleFacts ==
    ASSUME NEW s, SchedInv(s)
    PROVE  LET t == schedule(s)
           IN  /\ SchedInv(t)
               /\ t.state = s.state /\ t.wait_state = s.wait_state
               /\ t.state[t.current] = "RUNNABLE"
<1> DEFINE t == schedule(s)
           c == s.current
           cleared == [s EXCEPT !.need_resched = @ \ {s.current}]
           queued  == IF s.state[s.current] = "RUNNABLE"
                        THEN sched_class_enqueue(cleared, s.current)
                        ELSE cleared
<1>0. s \in SchedType /\ c \in Procs
  BY DEF SchedInv, SchedType
<1>1. /\ cleared \in SchedType
      /\ cleared.current = c /\ cleared.state = s.state
      /\ cleared.wait_state = s.wait_state /\ cleared.run_list = s.run_list
      /\ cleared.fault = s.fault
  BY <1>0 DEF SchedType
<1>2. /\ queued \in SchedType
      /\ IsInjective(queued.run_list)
      /\ \A p \in Procs : p \in ToSet(queued.run_list) <=>
                            s.state[p] = "RUNNABLE" /\ p # idleproc
      /\ queued.state = s.state /\ queued.wait_state = s.wait_state
      /\ queued.fault = s.fault
  <2>1. CASE s.state[c] = "RUNNABLE" /\ c # idleproc
    <3>1. queued = RR_enqueue(cleared, c)
      BY <2>1 DEF sched_class_enqueue
    <3>2. c \notin ToSet(cleared.run_list) /\ IsInjective(cleared.run_list)
      BY <1>0, <1>1 DEF SchedInv
    <3> HIDE DEF queued, cleared
    <3>3. /\ queued \in SchedType
          /\ IsInjective(queued.run_list)
          /\ ToSet(queued.run_list) = ToSet(s.run_list) \cup {c}
          /\ queued.state = s.state /\ queued.wait_state = s.wait_state
          /\ queued.fault = s.fault
      BY <1>0, <1>1, <3>1, <3>2, EnqueueFacts
    <3>4. QED
      BY <3>3, <2>1, <1>0 DEF SchedInv
  <2>2. CASE ~(s.state[c] = "RUNNABLE" /\ c # idleproc)
    <3>1. queued = cleared
      BY <2>2 DEF sched_class_enqueue
    <3>2. QED
      BY <1>0, <1>1, <2>2, <3>1 DEF SchedInv
  <2>3. QED
    BY <2>1, <2>2
<1>3. queued.run_list \in Seq(Procs)
  BY <1>2 DEF SchedType
<1>4. CASE queued.run_list # <<>>
  <2> DEFINE h == Head(queued.run_list)
  <2>1. /\ Tail(queued.run_list) \in Seq(Procs)
        /\ IsInjective(Tail(queued.run_list))
        /\ h \in Procs
        /\ ToSet(Tail(queued.run_list)) = ToSet(queued.run_list) \ {h}
        /\ h \in ToSet(queued.run_list)
    <3> HIDE DEF queued
    <3>1. QED
      BY <1>2, <1>3, <1>4, TailUnique
  <2>2. t = [[queued EXCEPT !.run_list = Tail(@)] EXCEPT !.current = h]
    BY <1>4 DEF schedule, proc_run, RR_dequeue
  <2>3. /\ t \in SchedType
        /\ t.current = h /\ t.state = s.state /\ t.wait_state = s.wait_state
        /\ t.run_list = Tail(queued.run_list) /\ t.fault = s.fault
    BY <1>2, <2>1, <2>2 DEF SchedType
  <2>4. \A p \in Procs : p \in ToSet(t.run_list) <=>
                           s.state[p] = "RUNNABLE" /\ p # idleproc /\ p # h
    BY <1>2, <2>1, <2>3
  <2>5. s.state[h] = "RUNNABLE"
    BY <1>2, <2>1
  <2>6. SchedInv(t)
    <3>1. t.state[idleproc] = "RUNNABLE" /\ t.fault = {}
      BY <2>3 DEF SchedInv
    <3>2. \A p \in Procs : t.wait_state[p] # "0" <=> t.state[p] = "SLEEPING"
      BY <2>3 DEF SchedInv
    <3> HIDE DEF t, queued
    <3>3. QED
      BY <2>1, <2>3, <2>4, <2>5, <3>1, <3>2 DEF SchedInv
  <2>7. QED
    BY <2>3, <2>5, <2>6
<1>5. CASE queued.run_list = <<>>
  <2>1. t = [queued EXCEPT !.current = idleproc]
    BY <1>5 DEF schedule, proc_run
  <2>2. /\ t \in SchedType
        /\ t.current = idleproc /\ t.state = s.state
        /\ t.wait_state = s.wait_state /\ t.run_list = queued.run_list
        /\ t.fault = s.fault
    BY <1>2, <2>1, SchedAssumption DEF SchedType
  <2>3. SchedInv(t)
    <3>1. t.state[idleproc] = "RUNNABLE" /\ t.fault = {}
      BY <2>2 DEF SchedInv
    <3>2. \A p \in Procs : t.wait_state[p] # "0" <=> t.state[p] = "SLEEPING"
      BY <2>2 DEF SchedInv
    <3>3. ToSet(t.run_list) = {}
      BY <2>2, <1>5 DEF ToSet
    <3> HIDE DEF t, queued
    <3>4. QED
      BY <1>2, <2>2, <3>1, <3>2, <3>3 DEF SchedInv
  <2>4. QED
    BY <2>2, <2>3 DEF SchedInv
<1>6. QED
  BY <1>4, <1>5

-----------------------------------------------------------------------------
(* The timers *)

\* The timers of a set of processes.
TimersOf(P) == [proc : P, expires : Nat]

\* No process has two timers in the list.
OnePerProc(list) ==
    \A i, j \in DOMAIN list : list[i].proc = list[j].proc => i = j

\* What removing position k does to a sequence: the elements before it stay,
\* the ones behind it move up by one (list_del of del_timer).
LEMMA RemoveAtFacts ==
    ASSUME NEW S, NEW seq \in Seq(S), NEW k \in 1..Len(seq)
    PROVE  /\ RemoveAt(seq, k) \in Seq(S)
           /\ Len(RemoveAt(seq, k)) = Len(seq) - 1
           /\ \A i \in 1..k - 1 : RemoveAt(seq, k)[i] = seq[i]
           /\ \A i \in k..Len(seq) - 1 : RemoveAt(seq, k)[i] = seq[i + 1]
<1> DEFINE a == SubSeq(seq, 1, k - 1)
           b == SubSeq(seq, k + 1, Len(seq))
<1>1. a \in Seq(S) /\ Len(a) = k - 1 /\ \A i \in 1..k - 1 : a[i] = seq[i]
  OBVIOUS
<1>2. /\ b \in Seq(S) /\ Len(b) = Len(seq) - k
      /\ \A i \in 1..Len(seq) - k : b[i] = seq[k + i]
  OBVIOUS
<1>3. RemoveAt(seq, k) = a \o b
  BY DEF RemoveAt
<1> HIDE DEF a, b
<1>4. /\ a \o b \in Seq(S) /\ Len(a \o b) = Len(seq) - 1
      /\ \A i \in 1..k - 1 : (a \o b)[i] = a[i]
      /\ \A i \in k..Len(seq) - 1 : (a \o b)[i] = b[i - k + 1]
  <2>1. /\ a \o b \in Seq(S) /\ Len(a \o b) = Len(a) + Len(b)
        /\ \A i \in 1..Len(a) + Len(b) :
             (a \o b)[i] = IF i <= Len(a) THEN a[i] ELSE b[i - Len(a)]
    BY <1>1, <1>2, ConcatProperties
  <2>2. k \in Nat /\ Len(seq) \in Nat /\ 1 <= k /\ k <= Len(seq)
    OBVIOUS
  <2>3. Len(a) = k - 1 /\ Len(a) + Len(b) = Len(seq) - 1
    BY <1>1, <1>2, <2>2
  <2>4. ASSUME NEW i \in k..Len(seq) - 1 PROVE (a \o b)[i] = b[i - k + 1]
    <3>1. i \in 1..Len(seq) - 1 /\ ~(i <= k - 1) /\ i - (k - 1) = i - k + 1
      BY <2>2
    <3>2. QED
      BY <2>1, <2>3, <3>1
  <2>5. ASSUME NEW i \in 1..k - 1 PROVE (a \o b)[i] = a[i]
    <3>1. i \in 1..Len(seq) - 1 /\ i <= k - 1
      BY <2>2
    <3>2. QED
      BY <2>1, <2>3, <3>1
  <2>6. QED
    BY <2>1, <2>3, <2>4, <2>5
<1>5. \A i \in k..Len(seq) - 1 : b[i - k + 1] = seq[i + 1]
  BY <1>2
<1>6. QED
  BY <1>1, <1>3, <1>4, <1>5

\* The end of add_timer: the new timer stands at the cursor, the processes of
\* the others keep their order, and no head becomes due by the insertion.
LEMMA InsertFacts ==
    ASSUME NEW P, NEW list \in Seq(TimersOf(P)), NEW p \in P,
           NEW c \in [at : Nat, left : Nat],
           c.at \in 1..Len(list) + 1, WalkDone(list, c)
    PROVE  LET new == insert_timer(list, c, p)
           IN  /\ new \in Seq(TimersOf(P))
               /\ Len(new) = Len(list) + 1
               /\ new[c.at].proc = p
               /\ \A i \in 1..c.at - 1 : new[i].proc = list[i].proc
               /\ \A i \in c.at + 1..Len(new) : new[i].proc = list[i - 1].proc
               /\ (c.at = 1 => c.left > 0) /\ ~HeadExpired(list) =>
                    ~HeadExpired(new)
<1> DEFINE e == [proc |-> p, expires |-> c.left]
           shifted == IF c.at <= Len(list)
                        THEN [list EXCEPT ![c.at].expires = @ - c.left]
                        ELSE list
           new == insert_timer(list, c, p)
<1>1. e \in TimersOf(P) /\ c.at \in Nat \ {0} /\ c.left \in Nat
  BY DEF TimersOf
<1>2. /\ shifted \in Seq(TimersOf(P))
      /\ Len(shifted) = Len(list)
      /\ \A i \in 1..Len(list) : shifted[i].proc = list[i].proc
      /\ \A i \in 1..c.at - 1 : shifted[i] = list[i]
  <2>1. CASE c.at <= Len(list)
    <3>1. c.left < list[c.at].expires /\ list[c.at] \in TimersOf(P)
      BY <2>1 DEF WalkDone
    <3>2. [list[c.at] EXCEPT !.expires = @ - c.left] \in TimersOf(P)
      <4>1. list[c.at].expires \in Nat
        BY <3>1 DEF TimersOf
      <4>2. list[c.at].expires - c.left \in Nat
        BY <3>1, <4>1, <1>1
      <4>3. QED
        BY <3>1, <4>2 DEF TimersOf
    <3>3. shifted = [list EXCEPT ![c.at] = [list[c.at] EXCEPT !.expires = @ - c.left]]
      BY <2>1
    <3>4. [list[c.at] EXCEPT !.expires = @ - c.left].proc = list[c.at].proc
      BY <3>1 DEF TimersOf
    <3> HIDE DEF shifted
    <3>5. QED
      BY <3>1, <3>2, <3>3, <3>4, <2>1, <1>1
  <2>2. CASE c.at > Len(list)
    BY <2>2
  <2>3. QED
    BY <2>1, <2>2
<1>3. new = InsertAt(shifted, c.at, e)
  BY DEF insert_timer
<1> HIDE DEF shifted, e, new
<1>4. /\ new \in Seq(TimersOf(P))
      /\ Len(new) = Len(list) + 1
      /\ new[c.at] = e
      /\ \A i \in 1..c.at - 1 : new[i] = shifted[i]
      /\ \A i \in c.at + 1..Len(new) : new[i] = shifted[i - 1]
  <2> DEFINE k == c.at
  <2>1. k \in Nat /\ 1 <= k /\ k <= Len(shifted) + 1
    BY <1>2
  <2> HIDE DEF k
  <2>2. /\ new \in Seq(TimersOf(P))
        /\ Len(new) = Len(shifted) + 1
        /\ new[k] = e
        /\ \A i \in 1..k - 1 : new[i] = shifted[i]
        /\ \A i \in k + 1..Len(shifted) + 1 : new[i] = shifted[i - 1]
    <3>1. new = InsertAt(shifted, k, e)
      BY <1>3 DEF k
    <3>2. e \in TimersOf(P) /\ shifted \in Seq(TimersOf(P))
      BY <1>1, <1>2
    <3>3. InsertedAt(InsertAt(shifted, k, e), shifted, k, e, TimersOf(P))
      BY <2>1, <3>2, InsertAtFacts, Zenon
    <3>4. QED
      BY <3>1, <3>3, Zenon DEF InsertedAt
  <2>3. QED
    BY <1>2, <2>2 DEF k
<1>5. e.proc = p /\ e.expires = c.left
  BY DEF e
<1>6. (c.at = 1 => c.left > 0) /\ ~HeadExpired(list) => ~HeadExpired(new)
  BY <1>1, <1>2, <1>4, <1>5 DEF HeadExpired
<1>7. QED
  <2>1. \A i \in 1..c.at - 1 : new[i].proc = list[i].proc
    BY <1>1, <1>2, <1>4
  <2>2. \A i \in c.at + 1..Len(new) : new[i].proc = list[i - 1].proc
    <3>1. SUFFICES ASSUME NEW i \in c.at + 1..Len(new)
                   PROVE  new[i].proc = list[i - 1].proc
      OBVIOUS
    <3>2. i - 1 \in 1..Len(list)
      BY <1>1, <1>4
    <3>3. QED
      BY <1>2, <1>4, <3>2
  <2>3. QED
    BY <1>4, <1>5, <1>6, <2>1, <2>2 DEF new

\* del_timer removes the timer of p, keeps the others in order, and makes no
\* head due that was not.
LEMMA DeleteFacts ==
    ASSUME NEW P, NEW list \in Seq(TimersOf(P)), NEW p \in P, OnePerProc(list)
    PROVE  LET new == del_timer(list, p)
           IN  /\ new \in Seq(TimersOf(P))
               /\ OnePerProc(new)
               /\ \A i \in DOMAIN new : /\ new[i].proc # p
                                        /\ HasTimer(list, new[i].proc)
               /\ \A q \in P \ {p} : HasTimer(list, q) => HasTimer(new, q)
               /\ ~HeadExpired(list) => ~HeadExpired(new)
<1> DEFINE new == del_timer(list, p)
<1>1. CASE ~HasTimer(list, p)
  BY <1>1 DEF del_timer, HasTimer
<1>2. CASE HasTimer(list, p)
  <2> DEFINE i == PositionOf(list, p)
             given == IF i < Len(list)
                        THEN [list EXCEPT ![i + 1].expires = @ + list[i].expires]
                        ELSE list
  <2>1. i \in 1..Len(list) /\ list[i].proc = p
    BY <1>2 DEF HasTimer, PositionOf
  <2>2. new = RemoveAt(given, i)
    BY <1>2 DEF del_timer
  <2> HIDE DEF i
  <2>3. /\ given \in Seq(TimersOf(P))
        /\ Len(given) = Len(list)
        /\ \A j \in 1..Len(list) : given[j].proc = list[j].proc
        /\ \A j \in 1..i : given[j] = list[j]
        /\ i < Len(list) => given[i + 1].expires >= list[i].expires
    <3>1. CASE i < Len(list)
      <4> DEFINE n == [list[i + 1] EXCEPT !.expires = @ + list[i].expires]
      <4>1. list[i] \in TimersOf(P) /\ list[i + 1] \in TimersOf(P)
        BY <2>1, <3>1
      <4>2. n \in TimersOf(P) /\ n.proc = list[i + 1].proc /\ n.expires >= list[i].expires
        BY <4>1 DEF TimersOf
      <4>3. given = [list EXCEPT ![i + 1] = n]
        BY <3>1
      <4> HIDE DEF given, n
      <4>4. QED
        BY <2>1, <3>1, <4>1, <4>2, <4>3
    <3>2. CASE i >= Len(list)
      BY <3>2, <2>1
    <3>3. QED
      BY <3>1, <3>2, <2>1
  <2> HIDE DEF given, new
  <2>4. /\ new \in Seq(TimersOf(P))
        /\ Len(new) = Len(list) - 1
        /\ \A j \in 1..i - 1 : new[j] = given[j]
        /\ \A j \in i..Len(new) : new[j] = given[j + 1]
    <3>1. i \in 1..Len(given)
      BY <2>1, <2>3
    <3>2. /\ new \in Seq(TimersOf(P))
          /\ Len(new) = Len(given) - 1
          /\ \A j \in 1..i - 1 : new[j] = given[j]
          /\ \A j \in i..Len(given) - 1 : new[j] = given[j + 1]
      BY <2>2, <2>3, <3>1, RemoveAtFacts
    <3>3. QED
      BY <2>3, <3>2
  <2>5. /\ \A j \in 1..i - 1 : new[j].proc = list[j].proc
        /\ \A j \in i..Len(new) : new[j].proc = list[j + 1].proc
    BY <2>1, <2>3, <2>4
  <2> DEFINE old(j) == IF j < i THEN j ELSE j + 1
  <2>a. /\ i \in Nat /\ Len(list) \in Nat /\ i <= Len(list)
        /\ DOMAIN new = 1..Len(list) - 1 /\ DOMAIN list = 1..Len(list)
    BY <2>1, <2>4
  <2>b. ASSUME NEW j \in DOMAIN new
        PROVE  /\ old(j) \in DOMAIN list /\ old(j) # i
               /\ new[j].proc = list[old(j)].proc
    BY <2>a, <2>4, <2>5
  <2>6. OnePerProc(new)
    <3>1. \A j, k \in DOMAIN new : old(j) = old(k) => j = k
      BY <2>a
    <3> HIDE DEF old
    <3>2. QED
      BY <2>b, <3>1 DEF OnePerProc
  <2>7. \A j \in DOMAIN new : new[j].proc # p /\ HasTimer(list, new[j].proc)
    <3> HIDE DEF old
    <3>1. QED
      BY <2>a, <2>b, <2>1 DEF OnePerProc, HasTimer
  <2>8. ASSUME NEW q \in P, q # p, HasTimer(list, q) PROVE HasTimer(new, q)
    <3>1. PICK j \in 1..Len(list) : list[j].proc = q
      BY <2>8 DEF HasTimer
    <3>2. j # i
      BY <3>1, <2>8, <2>1
    <3>3. CASE j < i
      <4>1. j \in 1..i - 1 /\ j \in DOMAIN new
        BY <3>1, <3>3, <2>a
      <4>2. new[j].proc = q
        BY <4>1, <3>1, <2>5
      <4>3. QED
        BY <4>1, <4>2 DEF HasTimer
    <3>4. CASE j > i
      <4>1. j - 1 \in i..Len(new) /\ new[j - 1].proc = q
        BY <3>1, <3>4, <2>1, <2>4, <2>5
      <4>2. QED
        BY <4>1, <2>1, <2>4 DEF HasTimer
    <3>5. QED
      BY <3>2, <3>3, <3>4, <2>1
  <2>9. ~HeadExpired(list) => ~HeadExpired(new)
    <3>1. SUFFICES ASSUME ~HeadExpired(list), new # <<>> PROVE new[1].expires # 0
      BY DEF HeadExpired
    <3>2. list # <<>> /\ list[1] \in TimersOf(P) /\ list[1].expires \in Nat \ {0}
      <4>1. list # <<>> /\ list[1] \in TimersOf(P)
        BY <2>1
      <4>2. QED
        BY <4>1, <3>1 DEF HeadExpired, TimersOf
    <3>3. CASE i = 1
      <4>1. new[1] = given[2] /\ 1 < Len(list)
        BY <3>1, <3>3, <2>1, <2>4
      <4>2. given[2].expires >= list[1].expires /\ given[2] \in TimersOf(P)
        BY <4>1, <3>3, <2>3
      <4>3. given[2].expires \in Nat
        BY <4>2 DEF TimersOf
      <4>4. QED
        BY <4>1, <4>2, <4>3, <3>2
    <3>4. CASE i > 1
      BY <3>2, <3>4, <2>1, <2>3, <2>4
    <3>5. QED
      BY <3>3, <3>4, <2>1
  <2>10. QED
    BY <2>4, <2>6, <2>7, <2>8, <2>9 DEF new
<1>3. QED
  BY <1>1, <1>2

\* A tick takes one from the head, which is not due yet.
LEMMA TickFacts ==
    ASSUME NEW P, NEW list \in Seq(TimersOf(P)), ~HeadExpired(list)
    PROVE  LET new == tick_timer(list)
           IN  /\ new \in Seq(TimersOf(P))
               /\ Len(new) = Len(list)
               /\ \A i \in 1..Len(list) : new[i].proc = list[i].proc
<1>1. CASE list = <<>>
  BY <1>1 DEF tick_timer
<1>2. CASE list # <<>>
  <2> DEFINE n == [list[1] EXCEPT !.expires = @ - 1]
  <2>1. list[1] \in TimersOf(P) /\ list[1].expires \in Nat \ {0}
    <3>1. 1 \in 1..Len(list) /\ list[1] \in TimersOf(P)
      BY <1>2
    <3>2. QED
      BY <3>1, <1>2 DEF HeadExpired, TimersOf
  <2>2. n \in TimersOf(P) /\ n.proc = list[1].proc
    BY <2>1 DEF TimersOf
  <2>3. tick_timer(list) = [list EXCEPT ![1] = n]
    BY <1>2 DEF tick_timer
  <2> HIDE DEF n
  <2>4. [list EXCEPT ![1] = n] \in Seq(TimersOf(P)) /\ Len([list EXCEPT ![1] = n]) = Len(list)
    BY <2>2, <1>2
  <2>5. QED
    BY <2>2, <2>3, <2>4, <1>2
<1>3. QED
  BY <1>1, <1>2

-----------------------------------------------------------------------------
(* The invariant *)

\* Where a process that does not own the CPU can stand.
RestPcs == {"none", "idle", "init_main", "user_main", "user", "kthread",
            "wait_scan", "wait_ret", "sleep_ret", "dead"}

\* Where initproc can stand.
InitPcs == {"init_main", "check_sync", "init_sched", "halted"} \cup WaitPcs

\* The state and the wait state of a process that stands at a pc.
PcAgrees(state, wait, at) ==
    /\ state # "UNINIT"
    /\ state = "FREE" <=> at = "none"
    /\ state = "ZOMBIE" <=> at \in ExitPcs
    /\ wait = "WT_CHILD" => at \in {"wait_sched", "wait_ret"}
    /\ wait = "WT_TIMER" => at \in SleepPcs

PcInv ==
    /\ pc[idleproc] = "idle"
    /\ pc[initproc] \in InitPcs
    /\ \A p \in Procs : PcAgrees(sched.state[p], sched.wait_state[p], pc[p])
    /\ \A p \in Procs : p # sched.current => pc[p] \in RestPcs
    /\ \A p \in Procs : pc[p] = "idle" => p = idleproc
    /\ pc[sched.current] \in {"wait_ret", "sleep_ret"} =>
         sched.state[sched.current] = "RUNNABLE"
    /\ pc[sched.current] \notin {"none", "dead"}
    /\ irq = "timer" => pc[sched.current] \notin {"add_timer", "halted"}

\* The chains of children and the parent pointers agree; only a free slot and
\* idleproc have no parent; and a process whose children have been given away
\* has none.
KinInv ==
    /\ \A p \in Procs : IsInjective(kids[p])
    /\ \A p, q \in Procs : q \in ToSet(kids[p]) <=> parent[q] = p
    /\ \A q \in Procs : parent[q] = NULL <=> pc[q] \in {"none", "idle"}
    /\ \A q \in Procs : parent[q] # NULL =>
         pc[parent[q]] \notin {"none", "exit_sched", "dead"}

\* The owner of a timer is inside do_sleep, the head is not due while no
\* interrupt is handled, and the cursor of add_timer is inside the list.
TimerInv ==
    /\ OnePerProc(timer_list)
    /\ \A i \in DOMAIN timer_list :
         pc[timer_list[i].proc] \in {"sleep_sched", "sleep_ret"}
    /\ irq = "none" => ~HeadExpired(timer_list)
    /\ pc[sched.current] = "add_timer" =>
         /\ cursor.at \in 1..Len(timer_list) + 1
         /\ cursor.at = 1 => cursor.left > 0

IInv ==
    TypeOK /\ SchedInv(sched) /\ PcInv /\ KinInv /\ TimerInv /\ ProcessCount

-----------------------------------------------------------------------------
(* Chains of children *)

\* set_links puts a new child in front.
LEMMA PrependFresh ==
    ASSUME NEW S, NEW seq \in Seq(S), NEW e \in S,
           IsInjective(seq), e \notin ToSet(seq)
    PROVE  /\ <<e>> \o seq \in Seq(S)
           /\ IsInjective(<<e>> \o seq)
           /\ ToSet(<<e>> \o seq) = ToSet(seq) \cup {e}
<1> DEFINE new == <<e>> \o seq
<1>1. /\ new \in Seq(S) /\ Len(new) = Len(seq) + 1
      /\ new[1] = e
      /\ \A i \in 2..Len(seq) + 1 : new[i] = seq[i - 1]
  OBVIOUS
<1>2. DOMAIN new = 1..Len(seq) + 1 /\ DOMAIN seq = 1..Len(seq) /\ Len(seq) \in Nat
  BY <1>1
<1> HIDE DEF new
<1>3. IsInjective(new)
  <2>1. ASSUME NEW i \in DOMAIN new, NEW j \in DOMAIN new, new[i] = new[j], i # j
        PROVE  FALSE
    <3>1. CASE i = 1
      BY <1>1, <1>2, <2>1, <3>1 DEF ToSet
    <3>2. CASE j = 1
      BY <1>1, <1>2, <2>1, <3>2 DEF ToSet
    <3>3. CASE i # 1 /\ j # 1
      <4>1. /\ i - 1 \in DOMAIN seq /\ new[i] = seq[i - 1]
            /\ j - 1 \in DOMAIN seq /\ new[j] = seq[j - 1]
        BY <1>1, <1>2, <3>3
      <4>2. i - 1 = j - 1
        BY <4>1, <2>1 DEF IsInjective
      <4>3. QED
        BY <4>2, <1>2, <2>1
    <3>4. QED
      BY <3>1, <3>2, <3>3
  <2>2. QED
    BY <2>1 DEF IsInjective
<1>4. ToSet(new) = ToSet(seq) \cup {e}
  <2>1. ASSUME NEW x \in ToSet(new) PROVE x \in ToSet(seq) \cup {e}
    <3>1. PICK i \in DOMAIN new : x = new[i]
      BY DEF ToSet
    <3>2. CASE i = 1
      BY <3>1, <3>2, <1>1
    <3>3. CASE i # 1
      <4>1. i - 1 \in DOMAIN seq /\ x = seq[i - 1]
        BY <3>1, <3>3, <1>1, <1>2
      <4>2. QED
        BY <4>1 DEF ToSet
    <3>4. QED
      BY <3>2, <3>3
  <2>2. ASSUME NEW x \in ToSet(seq) PROVE x \in ToSet(new)
    <3>1. PICK i \in 1..Len(seq) : x = seq[i]
      BY <1>2 DEF ToSet
    <3>2. i + 1 \in DOMAIN new /\ new[i + 1] = x
      BY <1>1, <1>2, <3>1
    <3>3. QED
      BY <3>2 DEF ToSet
  <2>3. e \in ToSet(new)
    BY <1>1, <1>2 DEF ToSet
  <2>4. QED
    BY <2>1, <2>2, <2>3
<1>5. QED
  BY <1>1, <1>3, <1>4 DEF new

\* do_exit hands its chain over, turned round, in front of that of initproc.
LEMMA HandOver ==
    ASSUME NEW S, NEW a \in Seq(S), NEW b \in Seq(S),
           IsInjective(a), IsInjective(b), ToSet(a) \cap ToSet(b) = {}
    PROVE  /\ Reverse(a) \o b \in Seq(S)
           /\ IsInjective(Reverse(a) \o b)
           /\ ToSet(Reverse(a) \o b) = ToSet(a) \cup ToSet(b)
<1> DEFINE r == Reverse(a)
           new == r \o b
<1>1. /\ r \in Seq(S) /\ Len(r) = Len(a)
      /\ \A i \in 1..Len(a) : r[i] = a[Len(a) - i + 1]
  BY DEF Reverse
<1> HIDE DEF r
<1>2. /\ new \in Seq(S) /\ Len(new) = Len(a) + Len(b)
      /\ \A i \in 1..Len(a) + Len(b) :
           new[i] = IF i <= Len(a) THEN r[i] ELSE b[i - Len(a)]
  <2>1. /\ new \in Seq(S) /\ Len(new) = Len(r) + Len(b)
        /\ \A i \in 1..Len(r) + Len(b) :
             new[i] = IF i <= Len(r) THEN r[i] ELSE b[i - Len(r)]
    BY <1>1, ConcatProperties
  <2> HIDE DEF new
  <2>2. QED
    BY <2>1, <1>1
<1> HIDE DEF new
<1>3. /\ Len(a) \in Nat /\ Len(b) \in Nat
      /\ DOMAIN a = 1..Len(a) /\ DOMAIN b = 1..Len(b)
      /\ DOMAIN new = 1..Len(a) + Len(b)
  BY <1>2
<1>4. /\ \A i \in 1..Len(a) : new[i] = a[Len(a) - i + 1]
      /\ \A i \in Len(a) + 1..Len(a) + Len(b) : new[i] = b[i - Len(a)]
  BY <1>1, <1>2, <1>3
<1>5. \A i \in DOMAIN new : IF i <= Len(a) THEN new[i] \in ToSet(a)
                                           ELSE new[i] \in ToSet(b)
  <2>1. SUFFICES ASSUME NEW i \in DOMAIN new
                 PROVE  IF i <= Len(a) THEN new[i] \in ToSet(a)
                                       ELSE new[i] \in ToSet(b)
    OBVIOUS
  <2>2. CASE i <= Len(a)
    <3>1. Len(a) - i + 1 \in DOMAIN a /\ new[i] = a[Len(a) - i + 1]
      BY <1>3, <1>4, <2>2
    <3>2. QED
      BY <2>2, <3>1 DEF ToSet
  <2>3. CASE ~(i <= Len(a))
    <3>1. i - Len(a) \in DOMAIN b /\ new[i] = b[i - Len(a)]
      BY <1>3, <1>4, <2>3
    <3>2. QED
      BY <2>3, <3>1 DEF ToSet
  <2>4. QED
    BY <2>2, <2>3
<1>6. IsInjective(new)
  <2>1. ASSUME NEW i \in DOMAIN new, NEW j \in DOMAIN new, new[i] = new[j]
        PROVE  i = j
    <3>1. i <= Len(a) <=> j <= Len(a)
      BY <1>5, <2>1
    <3>2. CASE i <= Len(a)
      <4>1. /\ Len(a) - i + 1 \in DOMAIN a /\ Len(a) - j + 1 \in DOMAIN a
            /\ a[Len(a) - i + 1] = a[Len(a) - j + 1]
        BY <1>3, <1>4, <2>1, <3>1, <3>2
      <4>2. Len(a) - i + 1 = Len(a) - j + 1
        BY <4>1 DEF IsInjective
      <4>3. QED
        BY <4>2, <1>3
    <3>3. CASE ~(i <= Len(a))
      <4>1. /\ i - Len(a) \in DOMAIN b /\ j - Len(a) \in DOMAIN b
            /\ b[i - Len(a)] = b[j - Len(a)]
        BY <1>3, <1>4, <2>1, <3>1, <3>3
      <4>2. i - Len(a) = j - Len(a)
        BY <4>1 DEF IsInjective
      <4>3. QED
        BY <4>2, <1>3
    <3>4. QED
      BY <3>2, <3>3
  <2>2. QED
    BY <2>1 DEF IsInjective
<1>7. ToSet(new) = ToSet(a) \cup ToSet(b)
  <2>1. ASSUME NEW x \in ToSet(new) PROVE x \in ToSet(a) \cup ToSet(b)
    BY <1>5 DEF ToSet
  <2>2. ASSUME NEW x \in ToSet(a) PROVE x \in ToSet(new)
    <3>1. PICK i \in 1..Len(a) : x = a[i]
      BY <1>3 DEF ToSet
    <3>2. /\ Len(a) - i + 1 \in DOMAIN new /\ Len(a) - i + 1 \in 1..Len(a)
          /\ Len(a) - (Len(a) - i + 1) + 1 = i
      BY <1>3
    <3>3. new[Len(a) - i + 1] = x
      BY <1>4, <3>1, <3>2
    <3>4. QED
      BY <3>2, <3>3 DEF ToSet
  <2>3. ASSUME NEW x \in ToSet(b) PROVE x \in ToSet(new)
    <3>1. PICK i \in 1..Len(b) : x = b[i]
      BY <1>3 DEF ToSet
    <3>2. i + Len(a) \in DOMAIN new /\ new[i + Len(a)] = x
      BY <1>3, <1>4, <3>1
    <3>3. QED
      BY <3>2 DEF ToSet
  <2>4. QED
    BY <2>1, <2>2, <2>3
<1>8. QED
  BY <1>2, <1>6, <1>7 DEF new, r

\* remove_links takes a child out of its chain.
LEMMA UnlinkFacts ==
    ASSUME NEW S, NEW seq \in Seq(S), NEW e \in ToSet(seq), IsInjective(seq)
    PROVE  /\ RemoveFirst(seq, e) \in Seq(S)
           /\ IsInjective(RemoveFirst(seq, e))
           /\ ToSet(RemoveFirst(seq, e)) = ToSet(seq) \ {e}
<1> DEFINE new == RemoveFirst(seq, e)
<1>1. PICK k \in 1..Len(seq) : seq[k] = e
  BY DEF ToSet
<1>2. {i \in 1..Len(seq) : seq[i] = e} = {k}
  BY <1>1 DEF IsInjective
<1>3. new = RemoveAt(seq, k)
  <2>1. Min({k}) = k
    BY <1>1 DEF Min
  <2>2. SelectInSeq(seq, LAMBDA v : v = e) = k
    BY <1>2, <2>1 DEF SelectInSeq
  <2>3. QED
    BY <1>1, <2>2 DEF RemoveFirst
<1> HIDE DEF new
<1>4. /\ new \in Seq(S)
      /\ Len(new) = Len(seq) - 1
      /\ \A i \in 1..k - 1 : new[i] = seq[i]
      /\ \A i \in k..Len(seq) - 1 : new[i] = seq[i + 1]
  BY <1>3, RemoveAtFacts
<1> DEFINE old(j) == IF j < k THEN j ELSE j + 1
<1>5. /\ k \in Nat /\ Len(seq) \in Nat /\ 1 <= k /\ k <= Len(seq)
      /\ DOMAIN new = 1..Len(seq) - 1 /\ DOMAIN seq = 1..Len(seq)
  BY <1>4
<1>6. \A j \in DOMAIN new : /\ old(j) \in DOMAIN seq /\ old(j) # k
                            /\ new[j] = seq[old(j)]
  BY <1>4, <1>5
<1>7. \A i, j \in DOMAIN new : old(i) = old(j) => i = j
  BY <1>5
<1>8. ASSUME NEW i \in DOMAIN seq, i # k
      PROVE  \E j \in DOMAIN new : old(j) = i
  <2>1. CASE i < k
    BY <2>1, <1>5
  <2>2. CASE i > k
    <3>1. i - 1 \in DOMAIN new /\ old(i - 1) = i
      BY <2>2, <1>5
    <3>2. QED
      BY <3>1
  <2>3. QED
    BY <2>1, <2>2, <1>5, <1>8
<1> HIDE DEF old
<1>9. IsInjective(new)
  BY <1>6, <1>7 DEF IsInjective
<1>10. ToSet(new) = ToSet(seq) \ {e}
  <2>1. ASSUME NEW x \in ToSet(new) PROVE x \in ToSet(seq) /\ x # e
    <3>1. PICK j \in DOMAIN new : x = new[j]
      BY DEF ToSet
    <3>2. old(j) \in DOMAIN seq /\ old(j) # k /\ x = seq[old(j)]
      BY <3>1, <1>6
    <3>3. QED
      BY <3>2, <1>1, <1>5 DEF ToSet, IsInjective
  <2>2. ASSUME NEW x \in ToSet(seq), x # e PROVE x \in ToSet(new)
    <3>1. PICK i \in DOMAIN seq : x = seq[i]
      BY DEF ToSet
    <3>2. PICK j \in DOMAIN new : old(j) = i
      BY <3>1, <2>2, <1>1, <1>8
    <3>3. QED
      BY <3>1, <3>2, <1>6 DEF ToSet
  <2>3. QED
    BY <2>1, <2>2
<1>11. QED
  BY <1>4, <1>9, <1>10 DEF new

-----------------------------------------------------------------------------
(* The initial state *)

\* proc_init leaves the kernel in a state of the invariant.
LEMMA InitIInv == Init => IInv
<1> USE SchedAssumption, ProcessAssumption
<1> SUFFICES ASSUME Init PROVE IInv
  OBVIOUS
<1>0. initproc # idleproc /\ initproc \in Procs /\ idleproc \in Procs
  OBVIOUS
<1>1. sched \in SchedType
  BY DEF Init, SchedType, ProcStates, WaitStates
<1>2. TypeOK
  <2>1. kids \in [Procs -> Seq(Procs)]
    BY DEF Init
  <2>2. pc \in [Procs -> Pcs]
    BY DEF Init, Pcs, KernelPcs
  <2>3. cursor \in [at : Nat, left : Nat]
    BY DEF Init, NoCursor
  <2>4. timer_list \in Seq([proc : Procs, expires : Nat])
    BY DEF Init
  <2>5. QED
    BY <1>1, <2>1, <2>2, <2>3, <2>4 DEF Init, TypeOK
<1>3. SchedInv(sched)
  <2>1. IsInjective(sched.run_list) /\ ToSet(sched.run_list) = {initproc}
    BY DEF Init, IsInjective, ToSet
  <2>2. QED
    BY <1>1, <2>1 DEF Init, SchedInv
<1>4. PcInv
  BY DEF Init, PcInv, PcAgrees, InitPcs, RestPcs, ExitPcs
<1>5. KinInv
  <2>1. \A p \in Procs : IsInjective(kids[p])
    BY DEF Init, IsInjective
  <2>2. \A p \in Procs : ToSet(kids[p]) = IF p = idleproc THEN {initproc} ELSE {}
    BY DEF Init, ToSet
  <2>3. \A p, q \in Procs : q \in ToSet(kids[p]) <=> parent[q] = p
    BY <2>2 DEF Init
  <2>4. /\ \A q \in Procs : parent[q] = NULL <=> pc[q] \in {"none", "idle"}
        /\ \A q \in Procs : parent[q] # NULL =>
             pc[parent[q]] \notin {"none", "exit_sched", "dead"}
    BY DEF Init
  <2>5. QED
    BY <2>1, <2>3, <2>4 DEF KinInv
<1>6. TimerInv
  BY DEF Init, TimerInv, OnePerProc, HeadExpired
<1>7. ProcessCount
  <2>1. Live = {idleproc, initproc}
    BY DEF Init, Live
  <2>2. Cardinality({idleproc}) = 1 /\ IsFiniteSet({idleproc})
    BY FS_Singleton
  <2>3. Cardinality({idleproc} \cup {initproc}) = 2
    <3>1. Cardinality({idleproc} \cup {initproc}) = Cardinality({idleproc}) + 1
      BY <1>0, <2>2, FS_AddElement, Zenon
    <3>2. QED
      BY <3>1, <2>2
  <2>4. {idleproc} \cup {initproc} = {idleproc, initproc}
    OBVIOUS
  <2>5. nr_process = 2 /\ 2 <= MAX_PROCESS
    BY DEF Init
  <2>6. QED
    BY <2>1, <2>3, <2>4, <2>5 DEF ProcessCount
<1>8. QED
  BY <1>2, <1>3, <1>4, <1>5, <1>6, <1>7 DEF IInv

-----------------------------------------------------------------------------
(* Facts that many steps share *)

\* The process that owns the CPU is runnable, unless it is on its way to sleep
\* or dying.
LEMMA CurrentRuns ==
    ASSUME IInv,
           pc[sched.current] \notin
             ExitPcs \cup {"wait_sched", "add_timer", "sleep_sched"}
    PROVE  /\ sched.current \in Procs
           /\ sched.state[sched.current] = "RUNNABLE"
           /\ sched.wait_state[sched.current] = "0"
<1>1. sched.current \in Procs /\ sched.state[sched.current] \in ProcStates
      /\ sched.wait_state[sched.current] \in WaitStates
  BY DEF IInv, TypeOK, SchedType
<1>2. PcAgrees(sched.state[sched.current], sched.wait_state[sched.current],
               pc[sched.current])
  BY <1>1 DEF IInv, PcInv
<1>3. /\ sched.wait_state[sched.current] # "0" <=>
           sched.state[sched.current] = "SLEEPING"
      /\ pc[sched.current] \in {"wait_ret", "sleep_ret"} =>
           sched.state[sched.current] = "RUNNABLE"
      /\ pc[sched.current] # "none"
  BY <1>1 DEF IInv, SchedInv, PcInv
<1>4. QED
  BY <1>1, <1>2, <1>3 DEF PcAgrees, SleepPcs, ProcStates, WaitStates

\* idleproc never leaves cpu_idle.
LEMMA NotIdle ==
    ASSUME IInv, NEW p \in Procs, pc[p] # "idle"
    PROVE  p # idleproc
BY DEF IInv, PcInv

\* As long as no process becomes free or ceases to be, the count stays right.
LEMMA SameCount ==
    ASSUME ProcessCount, nr_process' = nr_process,
           \A q \in Procs : sched'.state[q] = "FREE" <=> sched.state[q] = "FREE"
    PROVE  ProcessCount'
<1>1. Live' = Live
  BY DEF Live
<1>2. QED
  BY <1>1 DEF ProcessCount

\* A timer belongs to a process.
LEMMA TimerOwners ==
    ASSUME TypeOK
    PROVE  /\ timer_list \in Seq(TimersOf(Procs))
           /\ \A i \in DOMAIN timer_list : timer_list[i].proc \in Procs
<1>1. timer_list \in Seq(TimersOf(Procs))
  BY DEF TypeOK, TimersOf
<1>2. \A i \in DOMAIN timer_list : timer_list[i] \in TimersOf(Procs)
  BY <1>1
<1>3. QED
  BY <1>1, <1>2 DEF TimersOf

\* The timers stay right when the list is left alone, nobody leaves do_sleep,
\* and nobody enters add_timer.
LEMMA SameTimers ==
    ASSUME TimerInv, TypeOK, UNCHANGED clock,
           \A q \in Procs : pc[q] \in {"sleep_sched", "sleep_ret"} =>
                              pc'[q] \in {"sleep_sched", "sleep_ret"},
           pc'[sched'.current] # "add_timer"
    PROVE  TimerInv'
<1>1. \A i \in DOMAIN timer_list : timer_list[i].proc \in Procs
  BY TimerOwners
<1>2. timer_list' = timer_list /\ irq' = irq /\ cursor' = cursor
  BY DEF clock
<1>3. QED
  BY <1>1, <1>2 DEF TimerInv, OnePerProc, HeadExpired

\* A step in which the running process p changes only its own pc and state.
LEMMA OwnStep ==
    ASSUME IInv, irq = "none", irq' = irq, UNCHANGED family,
           NEW p, p = sched.current, p # idleproc,
           NEW to \in Pcs, NEW st \in ProcStates, NEW ws \in WaitStates,
           pc' = [pc EXCEPT ![p] = to],
           sched' \in SchedType,
           sched'.current = p, sched'.run_list = sched.run_list,
           sched'.fault = sched.fault,
           sched'.state = [sched.state EXCEPT ![p] = st],
           sched'.wait_state = [sched.wait_state EXCEPT ![p] = ws],
           PcAgrees(st, ws, to), ws # "0" <=> st = "SLEEPING",
           st # "FREE", sched.state[p] # "FREE",
           to \notin {"none", "idle", "dead", "exit_sched", "wait_ret", "sleep_ret"},
           p = initproc => to \in InitPcs
    PROVE  SchedInv(sched') /\ PcInv' /\ KinInv' /\ ProcessCount'
<1>1. p \in Procs /\ sched.state \in [Procs -> ProcStates]
      /\ sched.wait_state \in [Procs -> WaitStates] /\ pc \in [Procs -> Pcs]
  BY DEF IInv, TypeOK, SchedType
<1>2. SchedInv(sched')
  <2>1. \A q \in Procs : q \in ToSet(sched'.run_list) <=>
          sched'.state[q] = "RUNNABLE" /\ q # idleproc /\ q # sched'.current
    BY <1>1 DEF IInv, SchedInv
  <2>2. sched'.state[idleproc] = "RUNNABLE" /\ sched'.fault = {}
    BY <1>1, SchedAssumption DEF IInv, SchedInv
  <2>3. \A q \in Procs : sched'.wait_state[q] # "0" <=> sched'.state[q] = "SLEEPING"
    BY <1>1 DEF IInv, SchedInv
  <2>4. IsInjective(sched'.run_list)
    BY DEF IInv, SchedInv
  <2>5. QED
    BY <2>1, <2>2, <2>3, <2>4 DEF SchedInv
<1>3. PcInv'
  <2>1. \A q \in Procs : PcAgrees(sched'.state[q], sched'.wait_state[q], pc'[q])
    BY <1>1 DEF IInv, PcInv
  <2>2. pc'[idleproc] = "idle" /\ pc'[initproc] \in InitPcs
    BY <1>1, SchedAssumption, ProcessAssumption DEF IInv, PcInv
  <2>3. \A q \in Procs : q # sched'.current => pc'[q] \in RestPcs
    BY <1>1 DEF IInv, PcInv
  <2>4. \A q \in Procs : pc'[q] = "idle" => q = idleproc
    BY <1>1 DEF IInv, PcInv
  <2>5. pc'[sched'.current] = to
    BY <1>1
  <2>6. QED
    BY <2>1, <2>2, <2>3, <2>4, <2>5 DEF PcInv
<1>4. KinInv'
  <2>1. parent' = parent /\ kids' = kids
    BY DEF family
  <2>2. pc[p] \notin {"none", "idle"}
    BY <1>1 DEF IInv, PcInv, PcAgrees
  <2>3. \A q \in Procs : pc'[q] = IF q = p THEN to ELSE pc[q]
    BY <1>1
  <2>4. \A q \in Procs : parent'[q] = NULL <=> pc'[q] \in {"none", "idle"}
    BY <2>1, <2>2, <2>3 DEF IInv, KinInv
  <2>5. \A q \in Procs : parent'[q] # NULL =>
           pc'[parent'[q]] \notin {"none", "exit_sched", "dead"}
    <3>1. \A q \in Procs : parent[q] # NULL => parent[q] \in Procs
      BY DEF IInv, TypeOK
    <3>2. QED
      BY <2>1, <2>3, <3>1 DEF IInv, KinInv
  <2>6. QED
    BY <2>1, <2>4, <2>5 DEF IInv, KinInv
<1>5. ProcessCount'
  <2>1. \A q \in Procs : sched'.state[q] = "FREE" <=> sched.state[q] = "FREE"
    BY <1>1
  <2>2. QED
    BY <2>1, SameCount DEF IInv, family
<1>6. QED
  BY <1>2, <1>3, <1>4, <1>5

\* The variables the invariant only types.
RoleTypes ==
    /\ exiting \subseteq Procs
    /\ kthreads \subseteq Procs
    /\ wait_pid \in [Procs -> Procs \cup {NULL}]
    /\ workers \in Nat

\* t differs from s in time slices and need_resched flags only.
SameButSlices(s, t) ==
    /\ t \in SchedType
    /\ t.current = s.current /\ t.state = s.state
    /\ t.wait_state = s.wait_state
    /\ t.run_list = s.run_list /\ t.fault = s.fault

\* Steps of the running process p that move its pc and nothing else that
\* matters to the invariant.
LEMMA QuietStep ==
    ASSUME IInv, NEW p \in Procs, p = sched.current, irq = "none",
           pc[p] \notin ExitPcs \cup SleepPcs \cup {"wait_sched", "idle"},
           NEW to \in UserPcs \cup {"kthread", "wait_scan", "init_sched", "halted"},
           p = initproc => to \in InitPcs,
           SameButSlices(sched, sched'), UNCHANGED << clock, family >>,
           Goto(p, to), RoleTypes'
    PROVE  IInv'
<1>1. /\ sched.state[p] = "RUNNABLE" /\ sched.wait_state[p] = "0"
  BY CurrentRuns DEF SleepPcs
<1>2. p # idleproc
  BY NotIdle
<1>3. to \in Pcs /\ to \notin ExitPcs \cup SleepPcs
               \cup {"none", "idle", "wait_ret", "wait_sched"}
  BY DEF Pcs, UserPcs, KernelPcs, WaitPcs, ExitPcs, SleepPcs
<1>4. pc \in [Procs -> Pcs] /\ pc' = [pc EXCEPT ![p] = to]
  BY DEF IInv, TypeOK, Goto
<1>5. SchedInv(sched') /\ PcInv' /\ KinInv' /\ ProcessCount'
  <2> DEFINE st == sched.state[p]
             ws == sched.wait_state[p]
  <2>1. st \in ProcStates /\ ws \in WaitStates
    BY <1>1 DEF ProcStates, WaitStates
  <2>2. /\ sched'.state = [sched.state EXCEPT ![p] = st]
        /\ sched'.wait_state = [sched.wait_state EXCEPT ![p] = ws]
    BY DEF SameButSlices, IInv, TypeOK, SchedType
  <2>3. PcAgrees(st, ws, to) /\ (ws # "0" <=> st = "SLEEPING")
        /\ st # "FREE" /\ sched.state[p] # "FREE"
    BY <1>1, <1>3 DEF PcAgrees
  <2>4. to \notin {"none", "idle", "dead", "exit_sched", "wait_ret", "sleep_ret"}
    BY <1>3 DEF ExitPcs, SleepPcs
  <2>5. irq' = irq /\ UNCHANGED family
    BY DEF clock
  <2>6. /\ sched' \in SchedType /\ sched'.current = p
        /\ sched'.run_list = sched.run_list /\ sched'.fault = sched.fault
    BY DEF SameButSlices
  <2> HIDE DEF st, ws
  <2>7. QED
    BY <1>2, <1>3, <1>4, <2>1, <2>2, <2>3, <2>4, <2>5, <2>6, OwnStep
<1>6. TimerInv'
  <2>1. \A q \in Procs : pc'[q] = IF q = p THEN to ELSE pc[q]
    BY <1>4
  <2>2. /\ \A q \in Procs : pc[q] \in {"sleep_sched", "sleep_ret"} =>
                              pc'[q] \in {"sleep_sched", "sleep_ret"}
        /\ pc'[sched'.current] # "add_timer"
    BY <1>3, <2>1 DEF SleepPcs, SameButSlices
  <2>3. QED
    BY <2>2, SameTimers DEF IInv
<1>7. TypeOK'
  BY <1>3, <1>4 DEF TypeOK, IInv, SameButSlices, RoleTypes, clock, family
<1>8. QED
  BY <1>5, <1>6, <1>7 DEF IInv

\* The first half of do_exit.
LEMMA EnterExitStep ==
    ASSUME IInv, NEW p \in Procs, p = sched.current, irq = "none",
           pc[p] \notin ExitPcs \cup SleepPcs \cup {"wait_sched", "idle"},
           p = initproc => pc[p] \in WaitPcs,
           EnterExit(p), UNCHANGED << clock, family >>, RoleTypes'
    PROVE  IInv'
<1>0. sched \in SchedType
  BY DEF IInv, TypeOK
<1>1. CASE p = initproc
  <2>1. Goto(p, "halted") /\ sched' = sched
    BY <1>1 DEF EnterExit
  <2>2. SameButSlices(sched, sched')
    BY <2>1, <1>0 DEF SameButSlices
  <2>3. QED
    BY <2>1, <2>2, <1>1, QuietStep DEF InitPcs
<1>2. CASE p # initproc
  <2>1. Goto(p, "exit_notify") /\ sched' = [sched EXCEPT !.state[p] = "ZOMBIE"]
    BY <1>2 DEF EnterExit
  <2>2. sched.state[p] = "RUNNABLE" /\ sched.wait_state[p] = "0"
    BY CurrentRuns DEF SleepPcs
  <2>3. p # idleproc
    BY NotIdle
  <2>4. pc \in [Procs -> Pcs] /\ pc' = [pc EXCEPT ![p] = "exit_notify"]
    BY <2>1 DEF IInv, TypeOK, Goto
  <2>5. /\ sched' \in SchedType
        /\ sched'.current = p /\ sched'.run_list = sched.run_list
        /\ sched'.fault = sched.fault
        /\ sched'.state = [sched.state EXCEPT ![p] = "ZOMBIE"]
        /\ sched'.wait_state = [sched.wait_state EXCEPT ![p] = "0"]
    BY <1>0, <2>1, <2>2 DEF SchedType, ProcStates
  <2>6. SchedInv(sched') /\ PcInv' /\ KinInv' /\ ProcessCount'
    <3>1. PcAgrees("ZOMBIE", "0", "exit_notify") /\ "exit_notify" \in Pcs
          /\ "ZOMBIE" \in ProcStates /\ "0" \in WaitStates
      BY DEF PcAgrees, ExitPcs, Pcs, ProcStates, WaitStates
    <3>2. irq' = irq /\ UNCHANGED family
      BY DEF clock
    <3>3. QED
      BY <1>2, <2>2, <2>3, <2>4, <2>5, <3>1, <3>2, OwnStep
  <2>7. TimerInv'
    <3>1. \A q \in Procs : pc'[q] = IF q = p THEN "exit_notify" ELSE pc[q]
      BY <2>4
    <3>2. /\ \A q \in Procs : pc[q] \in {"sleep_sched", "sleep_ret"} =>
                                pc'[q] \in {"sleep_sched", "sleep_ret"}
          /\ pc'[sched'.current] # "add_timer"
      BY <2>5, <3>1 DEF SleepPcs
    <3>3. QED
      BY <3>2, SameTimers DEF IInv
  <2>8. TypeOK'
    BY <2>4, <2>5 DEF TypeOK, IInv, RoleTypes, clock, family, Pcs, ExitPcs
  <2>9. QED
    BY <2>6, <2>7, <2>8 DEF IInv
<1>3. QED
  BY <1>1, <1>2

\* The running process p goes to sleep, in do_wait or do_sleep.
LEMMA BlockStep ==
    ASSUME IInv, NEW p \in Procs, p = sched.current, irq = "none",
           pc[p] \in {"user", "kthread", "wait_scan"},
           NEW ws, NEW to,
           \/ ws = "WT_CHILD" /\ to = "wait_sched"
           \/ ws = "WT_TIMER" /\ to = "add_timer" /\ p # initproc,
           sched' = [sched EXCEPT !.state[p] = "SLEEPING", !.wait_state[p] = ws],
           Goto(p, to), irq' = irq, UNCHANGED family
    PROVE  /\ SchedInv(sched') /\ PcInv' /\ KinInv' /\ ProcessCount'
           /\ sched'.current = p
           /\ pc \in [Procs -> Pcs] /\ to \in Pcs /\ pc' = [pc EXCEPT ![p] = to]
<1>0. sched \in SchedType /\ ws \in WaitStates /\ "SLEEPING" \in ProcStates
  BY DEF IInv, TypeOK, WaitStates, ProcStates
<1>1. p # idleproc
  BY NotIdle
<1>2. sched.state[p] = "RUNNABLE" /\ sched.wait_state[p] = "0"
  BY CurrentRuns DEF ExitPcs
<1>3. pc \in [Procs -> Pcs] /\ pc' = [pc EXCEPT ![p] = to]
  BY DEF IInv, TypeOK, Goto
<1>4. /\ sched' \in SchedType
      /\ sched'.current = p /\ sched'.run_list = sched.run_list
      /\ sched'.fault = sched.fault
      /\ sched'.state = [sched.state EXCEPT ![p] = "SLEEPING"]
      /\ sched'.wait_state = [sched.wait_state EXCEPT ![p] = ws]
  BY <1>0 DEF SchedType
<1>5. PcAgrees("SLEEPING", ws, to) /\ ws # "0" /\ to \in Pcs
  BY DEF PcAgrees, ExitPcs, Pcs, WaitPcs, SleepPcs
<1>6. /\ to \notin {"none", "idle", "dead", "exit_sched", "wait_ret", "sleep_ret"}
      /\ p = initproc => to \in InitPcs
  BY DEF InitPcs, WaitPcs
<1>7. SchedInv(sched') /\ PcInv' /\ KinInv' /\ ProcessCount'
  BY <1>0, <1>1, <1>2, <1>3, <1>4, <1>5, <1>6, OwnStep
<1>8. QED
  BY <1>3, <1>4, <1>5, <1>7

\* Where schedule() is called, and where it returns to.
ScheduleMoves ==
    { <<"wait_sched", "wait_ret">>, <<"sleep_sched", "sleep_ret">>,
      <<"exit_sched", "dead">>, <<"init_sched", "wait_scan">>,
      <<"trapret", "user">>, <<"idle", "idle">> }

\* A call of schedule().
LEMMA ScheduleStep ==
    ASSUME IInv, NEW p \in Procs, p = sched.current, irq = "none",
           NEW to, << pc[p], to >> \in ScheduleMoves,
           sched' = schedule(sched), pc' = [pc EXCEPT ![p] = to],
           UNCHANGED << clock, family >>, RoleTypes'
    PROVE  IInv'
<1>0. sched \in SchedType /\ pc \in [Procs -> Pcs]
  BY DEF IInv, TypeOK
<1>1. /\ SchedInv(sched')
      /\ sched'.state = sched.state /\ sched'.wait_state = sched.wait_state
      /\ sched'.state[sched'.current] = "RUNNABLE"
  BY ScheduleFacts DEF IInv
<1>2. sched' \in SchedType /\ sched'.current \in Procs
  BY <1>1 DEF SchedInv, SchedType
<1>3. \A q \in Procs : pc'[q] = IF q = p THEN to ELSE pc[q]
  BY <1>0
<1>4. /\ to \in RestPcs \ {"none"} /\ to \in Pcs
      /\ to = "dead" <=> pc[p] = "exit_sched"
      /\ to = "idle" <=> pc[p] = "idle"
      /\ to = "sleep_ret" <=> pc[p] = "sleep_sched"
      /\ to = "wait_ret" <=> pc[p] = "wait_sched"
      /\ pc[p] \notin {"none", "exit_notify", "dead", "sleep_ret", "wait_ret", "add_timer"}
  BY DEF ScheduleMoves, RestPcs, Pcs, UserPcs, KernelPcs, WaitPcs, ExitPcs, SleepPcs
<1>5. PcInv'
  <2>1. \A q \in Procs : PcAgrees(sched'.state[q], sched'.wait_state[q], pc'[q])
    <3>1. SUFFICES ASSUME NEW q \in Procs
                   PROVE  PcAgrees(sched.state[q], sched.wait_state[q], pc'[q])
      BY <1>1
    <3>2. PcAgrees(sched.state[q], sched.wait_state[q], pc[q])
      BY DEF IInv, PcInv
    <3>3. CASE q # p
      BY <3>2, <3>3, <1>3
    <3>4. CASE q = p
      BY <3>2, <3>4, <1>3, <1>4 DEF PcAgrees, ExitPcs, SleepPcs, RestPcs
    <3>5. QED
      BY <3>3, <3>4
  <2>2. pc'[idleproc] = "idle" /\ pc'[initproc] \in InitPcs
    <3>1. pc[idleproc] = "idle" /\ pc[initproc] \in InitPcs
      BY DEF IInv, PcInv
    <3>2. CASE p = initproc
      BY <3>1, <3>2, <1>3, SchedAssumption, ProcessAssumption
         DEF ScheduleMoves, InitPcs, WaitPcs
    <3>3. CASE p # initproc
      BY <3>1, <3>3, <1>3, <1>4, SchedAssumption, ProcessAssumption
    <3>4. QED
      BY <3>2, <3>3
  <2>3. \A q \in Procs : pc'[q] \in RestPcs
    BY <1>3, <1>4 DEF IInv, PcInv
  <2>4. \A q \in Procs : pc'[q] = "idle" => q = idleproc
    BY <1>3, <1>4 DEF IInv, PcInv
  <2>5. pc'[sched'.current] \notin {"none", "dead"}
    BY <2>1, <1>1, <1>2 DEF PcAgrees, ExitPcs
  <2>6. irq' # "timer"
    BY DEF clock
  <2>7. QED
    BY <1>1, <2>1, <2>2, <2>3, <2>4, <2>5, <2>6 DEF PcInv
<1>6. KinInv'
  <2>1. parent' = parent /\ kids' = kids
    BY DEF family
  <2>2. \A q \in Procs : parent[q] = NULL <=> pc'[q] \in {"none", "idle"}
    BY <1>3, <1>4 DEF IInv, KinInv
  <2>3. \A q \in Procs : parent[q] # NULL =>
          pc'[parent[q]] \notin {"none", "exit_sched", "dead"}
    <3>1. \A q \in Procs : parent[q] # NULL => parent[q] \in Procs
      BY DEF IInv, TypeOK
    <3>2. to \notin {"none", "exit_sched"}
      BY <1>4 DEF RestPcs
    <3>3. QED
      BY <1>3, <1>4, <3>1, <3>2 DEF IInv, KinInv
  <2>4. QED
    BY <2>1, <2>2, <2>3 DEF IInv, KinInv
<1>7. TimerInv'
  <2>1. \A q \in Procs : pc[q] \in {"sleep_sched", "sleep_ret"} =>
                           pc'[q] \in {"sleep_sched", "sleep_ret"}
    BY <1>3, <1>4
  <2>2. pc'[sched'.current] # "add_timer"
    <3>1. CASE sched'.current = p
      BY <3>1, <1>3, <1>4 DEF RestPcs
    <3>2. CASE sched'.current # p
      BY <3>2, <1>2, <1>3 DEF IInv, PcInv, RestPcs
    <3>3. QED
      BY <3>1, <3>2
  <2>3. QED
    BY <2>1, <2>2, SameTimers DEF IInv
<1>8. ProcessCount'
  BY <1>1, SameCount DEF IInv, family
<1>9. TypeOK'
  BY <1>0, <1>2, <1>4 DEF TypeOK, IInv, RoleTypes, clock, family
<1>10. QED
  BY <1>1, <1>5, <1>6, <1>7, <1>8, <1>9 DEF IInv

\* t differs from s by wakeups: some sleeping processes have become runnable.
Woken(s, t) ==
    /\ SchedInv(t)
    /\ t.current = s.current
    /\ \A r \in Procs :
         \/ t.state[r] = s.state[r] /\ t.wait_state[r] = s.wait_state[r]
         \/ /\ s.state[r] = "SLEEPING"
            /\ t.state[r] = "RUNNABLE" /\ t.wait_state[r] = "0"

\* wakeup_proc of a process that sleeps, or is awake already.
LEMMA WakeSleeper ==
    ASSUME NEW s, SchedInv(s), NEW q \in Procs, q # idleproc,
           s.state[q] \in {"SLEEPING", "RUNNABLE"}
    PROVE  /\ Woken(s, wakeup_proc(s, q))
           /\ wakeup_proc(s, q).state[q] = "RUNNABLE"
<1> DEFINE t == wakeup_proc(s, q)
<1>1. /\ SchedInv(t) /\ t.current = s.current
      /\ t.state = [s.state EXCEPT ![q] = "RUNNABLE"]
      /\ t.wait_state = [s.wait_state EXCEPT ![q] = "0"]
  BY WakeupFacts
<1>2. s.state \in [Procs -> ProcStates] /\ s.wait_state \in [Procs -> WaitStates]
  BY DEF SchedInv, SchedType
<1>3. s.state[q] = "RUNNABLE" => s.wait_state[q] = "0"
  BY DEF SchedInv
<1> HIDE DEF t
<1>4. QED
  BY <1>1, <1>2, <1>3 DEF Woken, t

\* The same, guarded by a wait state: only sleeping processes have one.
LEMMA WakeWaiter ==
    ASSUME NEW s, SchedInv(s), NEW q \in Procs, s.wait_state[q] # "0"
    PROVE  Woken(s, wakeup_proc(s, q)) /\ wakeup_proc(s, q).state[q] = "RUNNABLE"
<1>1. s.state[q] = "SLEEPING" /\ q # idleproc
  BY DEF SchedInv
<1>2. QED
  BY <1>1, WakeSleeper

\* Wakeups leave program counters, the count and the owner of the CPU right.
LEMMA WokenStep ==
    ASSUME IInv, Woken(sched, sched')
    PROVE  /\ sched' \in SchedType
           /\ \A r \in Procs : PcAgrees(sched'.state[r], sched'.wait_state[r], pc[r])
           /\ \A r \in Procs : sched'.state[r] = "FREE" <=> sched.state[r] = "FREE"
           /\ pc[sched.current] \in {"wait_ret", "sleep_ret"} =>
                sched'.state[sched'.current] = "RUNNABLE"
<1>1. sched' \in SchedType
  BY DEF Woken, SchedInv
<1>2. ASSUME NEW r \in Procs
      PROVE  PcAgrees(sched'.state[r], sched'.wait_state[r], pc[r])
  BY DEF IInv, PcInv, PcAgrees, Woken
<1>3. pc[sched.current] \in {"wait_ret", "sleep_ret"} =>
        sched'.state[sched'.current] = "RUNNABLE"
  <2>1. sched.current \in Procs
    BY DEF IInv, TypeOK, SchedType
  <2>2. QED
    BY <2>1 DEF IInv, PcInv, Woken
<1>4. QED
  BY <1>1, <1>2, <1>3 DEF Woken

-----------------------------------------------------------------------------
(* One lemma per step that touches several processes *)

\* do_fork: the new process q is linked, counted and queued.
LEMMA ForkStep ==
    ASSUME IInv, NEW p \in Procs, NEW q \in Procs, NEW k \in BOOLEAN,
           p = sched.current, irq = "none",
           pc[p] \in {"user", "init_main", "check_sync"},
           NEW to \in {"trapret", "check_sync"},
           NEW at \in {"user", "user_main", "kthread"},
           p = initproc => to = "check_sync",
           Fork(p, q, k), pc' = [pc EXCEPT ![p] = to, ![q] = at], workers' \in Nat
    PROVE  IInv'
<1>0. sched \in SchedType /\ pc \in [Procs -> Pcs] /\ kids \in [Procs -> Seq(Procs)]
      /\ parent \in [Procs -> Procs \cup {NULL}]
  BY DEF IInv, TypeOK
<1>1. sched.state[p] = "RUNNABLE" /\ sched.wait_state[p] = "0"
  BY CurrentRuns DEF ExitPcs
<1>2. p # idleproc /\ sched.state[q] = "FREE" /\ p # q /\ pc[q] = "none"
  BY <1>1, NotIdle DEF Fork, alloc_proc, set_links, IInv, PcInv, PcAgrees
<1>3. q # idleproc /\ q # initproc /\ sched.wait_state[q] = "0"
  <2>1. pc[idleproc] = "idle" /\ pc[initproc] \in InitPcs
    BY DEF IInv, PcInv
  <2>2. sched.wait_state[q] = "0"
    BY <1>2 DEF IInv, SchedInv
  <2>3. QED
    BY <2>1, <2>2, <1>2 DEF InitPcs, WaitPcs
<1> DEFINE s == [sched EXCEPT !.state[q] = "UNINIT", !.wait_state[q] = "0",
                              !.wait_state[p] = "0", !.time_slice[q] = 0,
                              !.need_resched = @ \ {q}]
<1>4. /\ s \in SchedType
      /\ s.current = sched.current /\ s.run_list = sched.run_list
      /\ s.fault = sched.fault /\ s.wait_state = sched.wait_state
      /\ s.state = [sched.state EXCEPT ![q] = "UNINIT"]
  <2>1. /\ sched.state \in [Procs -> ProcStates]
        /\ sched.wait_state \in [Procs -> WaitStates]
        /\ sched.time_slice \in [Procs -> 0..MAX_TIME_SLICE]
        /\ sched.need_resched \in SUBSET Procs
    BY <1>0 DEF SchedType
  <2> DEFINE st == [sched.state EXCEPT ![q] = "UNINIT"]
             sl == [sched.time_slice EXCEPT ![q] = 0]
             nr == sched.need_resched \ {q}
             ws == [[sched.wait_state EXCEPT ![q] = "0"] EXCEPT ![p] = "0"]
  <2>2. /\ st \in [Procs -> ProcStates] /\ nr \in SUBSET Procs
        /\ sl \in [Procs -> 0..MAX_TIME_SLICE] /\ ws = sched.wait_state
    BY <2>1, <1>1, <1>3, SchedAssumption DEF ProcStates
  <2>3. s = [sched EXCEPT !.state = st, !.wait_state = ws, !.time_slice = sl,
                          !.need_resched = nr]
    BY <1>0 DEF SchedType
  <2> HIDE DEF sl, nr, ws, s
  <2>4. QED
    BY <1>0, <2>1, <2>2, <2>3 DEF SchedType
<1>5. sched' = wakeup_proc(s, q)
  BY DEF Fork, alloc_proc, set_links
<1> HIDE DEF s
<1>6. SchedInv(s)
  <2>1. sched.state \in [Procs -> ProcStates]
    BY <1>0 DEF SchedType
  <2>2. \A r \in Procs : r \in ToSet(s.run_list) <=>
          s.state[r] = "RUNNABLE" /\ r # idleproc /\ r # s.current
    BY <1>2, <1>4, <2>1 DEF IInv, SchedInv
  <2>3. \A r \in Procs : s.wait_state[r] # "0" <=> s.state[r] = "SLEEPING"
    BY <1>2, <1>4, <2>1 DEF IInv, SchedInv
  <2>4. s.state[idleproc] = "RUNNABLE"
    BY <1>3, <1>4, <2>1, SchedAssumption DEF IInv, SchedInv
  <2>5. QED
    BY <1>4, <2>2, <2>3, <2>4 DEF IInv, SchedInv
<1>7. /\ SchedInv(sched')
      /\ sched'.current = p
      /\ sched'.wait_state = sched.wait_state
      /\ sched'.state = [sched.state EXCEPT ![q] = "RUNNABLE"]
  <2>1. s.state[q] # "ZOMBIE" /\ sched.state \in [Procs -> ProcStates]
        /\ sched.wait_state \in [Procs -> WaitStates]
    BY <1>0, <1>4 DEF SchedType
  <2>2. /\ SchedInv(sched') /\ sched'.current = s.current
        /\ sched'.state = [s.state EXCEPT ![q] = "RUNNABLE"]
        /\ sched'.wait_state = [s.wait_state EXCEPT ![q] = "0"]
    BY <1>3, <1>5, <1>6, <2>1, WakeupFacts
  <2>3. QED
    BY <1>3, <1>4, <2>1, <2>2
<1>8. \A r \in Procs : pc'[r] = IF r = q THEN at ELSE IF r = p THEN to ELSE pc[r]
  BY <1>0, <1>2
<1>9. /\ at \in Pcs \cap RestPcs /\ to \in Pcs
      /\ {at, to} \cap (ExitPcs \cup SleepPcs \cup {"none", "idle", "wait_ret"}) = {}
  BY DEF Pcs, RestPcs, UserPcs, KernelPcs, WaitPcs, ExitPcs, SleepPcs
<1>10. PcInv'
  <2>1. sched.state \in [Procs -> ProcStates]
    BY <1>0 DEF SchedType
  <2>2. \A r \in Procs : PcAgrees(sched'.state[r], sched'.wait_state[r], pc'[r])
    <3>1. SUFFICES ASSUME NEW r \in Procs
                   PROVE  PcAgrees(sched'.state[r], sched'.wait_state[r], pc'[r])
      OBVIOUS
    <3>2. PcAgrees(sched.state[r], sched.wait_state[r], pc[r])
      BY DEF IInv, PcInv
    <3>3. CASE r = p \/ r = q
      BY <3>3, <1>1, <1>2, <1>3, <1>7, <1>8, <1>9, <2>1 DEF PcAgrees
    <3>4. CASE r # p /\ r # q
      BY <3>2, <3>4, <1>7, <1>8, <2>1
    <3>5. QED
      BY <3>3, <3>4
  <2>3. pc'[idleproc] = "idle" /\ pc'[initproc] \in InitPcs
    BY <1>2, <1>3, <1>8, SchedAssumption, ProcessAssumption DEF IInv, PcInv, InitPcs
  <2>4. \A r \in Procs : r # sched'.current => pc'[r] \in RestPcs
    BY <1>7, <1>8, <1>9 DEF IInv, PcInv
  <2>5. \A r \in Procs : pc'[r] = "idle" => r = idleproc
    BY <1>8, <1>9 DEF IInv, PcInv
  <2>6. pc'[sched'.current] = to
    BY <1>2, <1>7, <1>8
  <2>7. irq' # "timer"
    BY DEF Fork, alloc_proc, set_links, clock
  <2>8. QED
    BY <1>9, <2>2, <2>3, <2>4, <2>5, <2>6, <2>7 DEF PcInv, ExitPcs, SleepPcs
<1>11. /\ parent' = [parent EXCEPT ![q] = p]
       /\ kids' = [[kids EXCEPT ![p] = <<q>> \o kids[p]] EXCEPT ![q] = <<>>]
  BY <1>0, <1>2 DEF Fork, alloc_proc, set_links
<1>12. /\ parent[q] = NULL
       /\ \A r \in Procs : q \notin ToSet(kids[r])
       /\ \A r \in Procs : parent[r] # q
  <2>1. parent[q] = NULL
    BY <1>2 DEF IInv, KinInv
  <2>2. \A r \in Procs : parent[r] # q
    BY <1>2, ProcessAssumption DEF IInv, KinInv
  <2>3. QED
    BY <2>1, <2>2, ProcessAssumption DEF IInv, KinInv
<1>13. /\ <<q>> \o kids[p] \in Seq(Procs)
       /\ IsInjective(<<q>> \o kids[p])
       /\ ToSet(<<q>> \o kids[p]) = ToSet(kids[p]) \cup {q}
  <2>1. kids[p] \in Seq(Procs) /\ IsInjective(kids[p]) /\ q \notin ToSet(kids[p])
    BY <1>0, <1>12 DEF IInv, KinInv
  <2>2. QED
    BY <2>1, PrependFresh
<1>14. KinInv'
  <2>1. /\ kids'[q] = <<>> /\ kids'[p] = <<q>> \o kids[p]
        /\ \A r \in Procs \ {p, q} : kids'[r] = kids[r]
    BY <1>0, <1>2, <1>11
  <2>2. IsInjective(<<>>) /\ ToSet(<<>>) = {}
    BY DEF IsInjective, ToSet
  <2>3. \A r \in Procs : parent'[r] = IF r = q THEN p ELSE parent[r]
    BY <1>0, <1>11
  <2>4. \A r \in Procs : IsInjective(kids'[r])
    <3>1. \A r \in Procs : IsInjective(kids[r])
      BY DEF IInv, KinInv
    <3>2. QED
      BY <1>13, <2>1, <2>2, <3>1
  <2>5. \A r, c \in Procs : c \in ToSet(kids'[r]) <=> parent'[c] = r
    <3>1. SUFFICES ASSUME NEW r \in Procs, NEW c \in Procs
                   PROVE  c \in ToSet(kids'[r]) <=> parent'[c] = r
      OBVIOUS
    <3>2. c \in ToSet(kids[r]) <=> parent[c] = r
      BY DEF IInv, KinInv
    <3>3. CASE r = p
      BY <3>2, <3>3, <1>2, <1>12, <1>13, <2>1, <2>3
    <3>4. CASE r = q
      BY <3>2, <3>4, <1>2, <1>12, <2>1, <2>2, <2>3
    <3>5. CASE r \notin {p, q}
      BY <3>2, <3>5, <1>12, <2>1, <2>3
    <3>6. QED
      BY <3>3, <3>4, <3>5
  <2>6. \A r \in Procs : parent'[r] = NULL <=> pc'[r] \in {"none", "idle"}
    <3>1. p # NULL
      BY ProcessAssumption
    <3>2. pc[p] \notin {"none", "idle"}
      OBVIOUS
    <3>3. {at, to} \cap {"none", "idle"} = {}
      OBVIOUS
    <3>4. SUFFICES ASSUME NEW r \in Procs
                   PROVE  parent'[r] = NULL <=> pc'[r] \in {"none", "idle"}
      OBVIOUS
    <3>5. parent[r] = NULL <=> pc[r] \in {"none", "idle"}
      BY DEF IInv, KinInv
    <3>6. QED
      BY <3>1, <3>2, <3>3, <3>5, <1>8, <2>3
  <2>7. \A r \in Procs : parent'[r] # NULL =>
          pc'[parent'[r]] \notin {"none", "exit_sched", "dead"}
    <3>1. \A r \in Procs : parent'[r] # NULL => parent'[r] \in Procs
      BY <1>0, <2>3
    <3>2. SUFFICES ASSUME NEW r \in Procs, parent'[r] # NULL
                   PROVE  pc'[parent'[r]] \notin {"none", "exit_sched", "dead"}
      OBVIOUS
    <3>3. CASE r = q
      BY <3>3, <1>2, <1>8, <2>3
    <3>4. CASE r # q
      <4>1. /\ parent'[r] = parent[r] /\ parent[r] \in Procs /\ parent[r] # q
            /\ pc[parent[r]] \notin {"none", "exit_sched", "dead"}
        BY <3>1, <3>2, <3>4, <1>12, <2>3 DEF IInv, KinInv
      <4>2. QED
        BY <4>1, <1>8
    <3>5. QED
      BY <3>3, <3>4
  <2>8. QED
    BY <2>4, <2>5, <2>6, <2>7 DEF KinInv
<1>15. TimerInv'
  <2>1. \A r \in Procs : pc[r] \in {"sleep_sched", "sleep_ret"} =>
                           pc'[r] \in {"sleep_sched", "sleep_ret"}
    BY <1>2, <1>8
  <2>2. pc'[sched'.current] # "add_timer" /\ UNCHANGED clock
    BY <1>2, <1>7, <1>8 DEF Fork, alloc_proc, set_links
  <2>3. QED
    BY <2>1, <2>2, SameTimers DEF IInv
<1>16. ProcessCount'
  <2>1. Live' = Live \cup {q} /\ q \notin Live
    <3>1. sched.state \in [Procs -> ProcStates]
      BY <1>0 DEF SchedType
    <3>2. QED
      BY <3>1, <1>2, <1>7 DEF Live
  <2>2. IsFiniteSet(Live)
    BY FS_Subset, ProcessAssumption DEF Live
  <2>3. Cardinality(Live \cup {q}) = Cardinality(Live) + 1
    BY <2>1, <2>2, FS_AddElement, Zenon
  <2>4. nr_process' = nr_process + 1 /\ nr_process < MAX_PROCESS /\ nr_process \in Nat
        /\ MAX_PROCESS \in Nat
    BY ProcessAssumption DEF Fork, alloc_proc, set_links, IInv, TypeOK
  <2>5. nr_process = Cardinality(Live)
    BY DEF IInv, ProcessCount
  <2>6. QED
    BY <2>1, <2>3, <2>4, <2>5 DEF ProcessCount
<1>17. TypeOK'
  <2>1. pc' \in [Procs -> Pcs]
    BY <1>0, <1>9
  <2>2. kids' \in [Procs -> Seq(Procs)] /\ parent' \in [Procs -> Procs \cup {NULL}]
    <3>1. <<>> \in Seq(Procs)
      OBVIOUS
    <3>2. QED
      BY <3>1, <1>0, <1>11, <1>13
  <2>3. sched' \in SchedType
    BY <1>7 DEF SchedInv
  <2>4. /\ exiting' \subseteq Procs /\ kthreads' \subseteq Procs
        /\ nr_process' \in Nat /\ wait_pid' = wait_pid
        /\ timer_list' = timer_list /\ cursor' = cursor /\ irq' = irq
    BY DEF Fork, alloc_proc, set_links, clock, IInv, TypeOK
  <2>5. QED
    BY <2>1, <2>2, <2>3, <2>4 DEF IInv, TypeOK
<1>18. QED
  BY <1>7, <1>10, <1>14, <1>15, <1>16, <1>17 DEF IInv

\* The second half of do_exit: the relatives are told, the children given away.
LEMMA ExitNotifyStep ==
    ASSUME IInv, NEW p \in Procs, ExitNotify(p)
    PROVE  IInv'
<1> DEFINE f == parent[p]
           told == IF sched.wait_state[f] = "WT_CHILD"
                     THEN wakeup_proc(sched, f) ELSE sched
           orphans == ToSet(kids[p])
<1>0. sched \in SchedType /\ pc \in [Procs -> Pcs] /\ kids \in [Procs -> Seq(Procs)]
      /\ parent \in [Procs -> Procs \cup {NULL}]
  BY DEF IInv, TypeOK
<1>1. p = sched.current /\ irq = "none" /\ pc[p] = "exit_notify"
  BY DEF ExitNotify, Running, current
<1>2. p # idleproc /\ p # initproc /\ initproc \in Procs
  BY <1>1, ProcessAssumption DEF IInv, PcInv, InitPcs, WaitPcs
<1>3. f \in Procs
  BY <1>0, <1>1 DEF IInv, KinInv
<1>4. Woken(sched, sched')
  <2>1. Woken(sched, told)
    <3>1. CASE sched.wait_state[f] = "WT_CHILD"
      BY <3>1, <1>3, WakeWaiter DEF IInv
    <3>2. CASE sched.wait_state[f] # "WT_CHILD"
      BY <3>2 DEF IInv, Woken
    <3>3. QED
      BY <3>1, <3>2
  <2> HIDE DEF told
  <2>2. sched' = told \/ (sched' = wakeup_proc(told, initproc)
                          /\ told.wait_state[initproc] = "WT_CHILD")
    BY DEF ExitNotify, told
  <2>3. CASE sched' = told
    BY <2>1, <2>3
  <2>4. CASE sched' = wakeup_proc(told, initproc)
             /\ told.wait_state[initproc] = "WT_CHILD"
    <3>1. Woken(told, sched')
      BY <2>1, <2>4, <1>2, WakeWaiter DEF Woken
    <3>2. QED
      BY <2>1, <3>1 DEF Woken
  <2>5. QED
    BY <2>2, <2>3, <2>4
<1>5. pc' = [pc EXCEPT ![p] = "exit_sched"] /\ UNCHANGED clock
      /\ nr_process' = nr_process /\ roles' = roles /\ wait_pid' = wait_pid
      /\ workers' = workers
  BY DEF ExitNotify, Goto
<1>6. \A r \in Procs : pc'[r] = IF r = p THEN "exit_sched" ELSE pc[r]
  BY <1>0, <1>5
<1>7. /\ parent' = [c \in Procs |-> IF c \in orphans THEN initproc ELSE parent[c]]
      /\ kids' = [[kids EXCEPT ![initproc] = Reverse(kids[p]) \o kids[initproc]]
                    EXCEPT ![p] = <<>>]
  BY <1>0, <1>2 DEF ExitNotify
<1>8. PcInv'
  <2>1. \A r \in Procs : PcAgrees(sched'.state[r], sched'.wait_state[r], pc[r])
    BY <1>4, WokenStep
  <2>2. \A r \in Procs : PcAgrees(sched'.state[r], sched'.wait_state[r], pc'[r])
    BY <2>1, <1>1, <1>6 DEF PcAgrees, ExitPcs, SleepPcs
  <2>3. pc'[idleproc] = "idle" /\ pc'[initproc] \in InitPcs
    BY <1>2, <1>6, SchedAssumption DEF IInv, PcInv
  <2>4. sched'.current = p /\ pc'[p] = "exit_sched"
    BY <1>1, <1>4, <1>6 DEF Woken
  <2>5. \A r \in Procs : r # p => pc'[r] \in RestPcs
    BY <1>1, <1>6 DEF IInv, PcInv
  <2>6. \A r \in Procs : pc'[r] = "idle" => r = idleproc
    BY <1>6 DEF IInv, PcInv
  <2>7. QED
    BY <2>2, <2>3, <2>4, <2>5, <2>6 DEF PcInv
<1>9. /\ Reverse(kids[p]) \o kids[initproc] \in Seq(Procs)
      /\ IsInjective(Reverse(kids[p]) \o kids[initproc])
      /\ ToSet(Reverse(kids[p]) \o kids[initproc]) =
           ToSet(kids[p]) \cup ToSet(kids[initproc])
  <2>1. /\ kids[p] \in Seq(Procs) /\ kids[initproc] \in Seq(Procs)
        /\ IsInjective(kids[p]) /\ IsInjective(kids[initproc])
    BY <1>0, <1>2 DEF IInv, KinInv
  <2>2. ToSet(kids[p]) \cap ToSet(kids[initproc]) = {}
    <3>1. \A c \in ToSet(kids[p]) : c \in Procs
      BY <2>1 DEF ToSet
    <3>2. QED
      BY <3>1, <1>2 DEF IInv, KinInv
  <2>3. QED
    BY <2>1, <2>2, HandOver
<1>10. KinInv'
  <2>1. /\ kids'[p] = <<>>
        /\ kids'[initproc] = Reverse(kids[p]) \o kids[initproc]
        /\ \A r \in Procs \ {p, initproc} : kids'[r] = kids[r]
    BY <1>0, <1>2, <1>7
  <2>2. IsInjective(<<>>) /\ ToSet(<<>>) = {}
    BY DEF IsInjective, ToSet
  <2>3. \A c \in Procs : parent'[c] = IF parent[c] = p THEN initproc ELSE parent[c]
    BY <1>7 DEF IInv, KinInv
  <2>4. \A r \in Procs : IsInjective(kids'[r])
    <3>1. \A r \in Procs : IsInjective(kids[r])
      BY DEF IInv, KinInv
    <3>2. QED
      BY <1>9, <2>1, <2>2, <3>1
  <2>5. \A r, c \in Procs : c \in ToSet(kids'[r]) <=> parent'[c] = r
    <3>1. SUFFICES ASSUME NEW r \in Procs, NEW c \in Procs
                   PROVE  c \in ToSet(kids'[r]) <=> parent'[c] = r
      OBVIOUS
    <3>2. /\ c \in ToSet(kids[r]) <=> parent[c] = r
          /\ c \in ToSet(kids[p]) <=> parent[c] = p
      BY DEF IInv, KinInv
    <3>3. CASE r = p
      BY <3>3, <1>2, <2>1, <2>2, <2>3
    <3>4. CASE r = initproc
      BY <3>2, <3>4, <1>2, <1>9, <2>1, <2>3
    <3>5. CASE r \notin {p, initproc}
      BY <3>2, <3>5, <2>1, <2>3
    <3>6. QED
      BY <3>3, <3>4, <3>5
  <2>6. \A c \in Procs : parent'[c] = NULL <=> pc'[c] \in {"none", "idle"}
    <3>1. SUFFICES ASSUME NEW c \in Procs
                   PROVE  parent'[c] = NULL <=> pc'[c] \in {"none", "idle"}
      OBVIOUS
    <3>2. parent[c] = NULL <=> pc[c] \in {"none", "idle"}
      BY DEF IInv, KinInv
    <3>3. p # NULL /\ initproc # NULL
      BY <1>2, ProcessAssumption
    <3>4. QED
      BY <3>2, <3>3, <1>1, <1>6, <2>3
  <2>7. \A c \in Procs : parent'[c] # NULL =>
          pc'[parent'[c]] \notin {"none", "exit_sched", "dead"}
    <3>1. SUFFICES ASSUME NEW c \in Procs, parent'[c] # NULL
                   PROVE  pc'[parent'[c]] \notin {"none", "exit_sched", "dead"}
      OBVIOUS
    <3>2. CASE parent[c] = p
      BY <3>2, <1>2, <1>6, <2>3 DEF IInv, PcInv, InitPcs, WaitPcs
    <3>3. CASE parent[c] # p
      <4>1. /\ parent'[c] = parent[c] /\ parent[c] \in Procs
            /\ pc[parent[c]] \notin {"none", "exit_sched", "dead"}
        BY <3>1, <3>3, <1>0, <2>3 DEF IInv, KinInv
      <4>2. QED
        BY <4>1, <3>3, <1>6
    <3>4. QED
      BY <3>2, <3>3
  <2>8. QED
    BY <2>4, <2>5, <2>6, <2>7 DEF KinInv
<1>11. TimerInv'
  <2>1. /\ \A r \in Procs : pc[r] \in {"sleep_sched", "sleep_ret"} =>
                              pc'[r] \in {"sleep_sched", "sleep_ret"}
        /\ pc'[sched'.current] # "add_timer"
    BY <1>1, <1>4, <1>6 DEF Woken
  <2>2. QED
    BY <2>1, <1>5, SameTimers DEF IInv
<1>12. ProcessCount'
  <2>1. \A r \in Procs : sched'.state[r] = "FREE" <=> sched.state[r] = "FREE"
    BY <1>4, WokenStep
  <2>2. QED
    BY <2>1, <1>5, SameCount DEF IInv
<1>13. TypeOK'
  <2>1. sched' \in SchedType
    BY <1>4, WokenStep
  <2>2. pc' \in [Procs -> Pcs]
    BY <1>0, <1>5 DEF Pcs, ExitPcs
  <2>3. kids' \in [Procs -> Seq(Procs)]
    <3>1. <<>> \in Seq(Procs)
      OBVIOUS
    <3>2. QED
      BY <3>1, <1>0, <1>7, <1>9
  <2>4. parent' \in [Procs -> Procs \cup {NULL}]
    BY <1>0, <1>2, <1>7
  <2>5. QED
    BY <1>5, <2>1, <2>2, <2>3, <2>4 DEF IInv, TypeOK, clock, roles
<1>14. SchedInv(sched')
  BY <1>4 DEF Woken
<1>15. QED
  BY <1>8, <1>10, <1>11, <1>12, <1>13, <1>14 DEF IInv

\* The end of do_wait: the zombie q, a child of p, is unlinked and freed.
LEMMA WaitReapStep ==
    ASSUME IInv, NEW p \in Procs, WaitReap(p)
    PROVE  IInv'
<1>0. sched \in SchedType /\ pc \in [Procs -> Pcs] /\ kids \in [Procs -> Seq(Procs)]
      /\ parent \in [Procs -> Procs \cup {NULL}]
      /\ wait_pid \in [Procs -> Procs \cup {NULL}]
  BY DEF IInv, TypeOK
<1>1. p = sched.current /\ irq = "none" /\ pc[p] = "wait_scan"
  BY DEF WaitReap, remove_links, Running, current
<1>2. sched.state[p] = "RUNNABLE" /\ sched.wait_state[p] = "0" /\ p # idleproc
  BY <1>1, CurrentRuns, NotIdle DEF ExitPcs
<1>3. PICK i \in DOMAIN Candidates(p) :
        LET q == Candidates(p)[i]
        IN  /\ IsZombie(q)
            /\ sched' = [sched EXCEPT !.state[q] = "FREE",
                                      !.time_slice[q] = 0,
                                      !.need_resched = @ \ {q}]
            /\ parent' = [parent EXCEPT ![q] = NULL]
            /\ kids' = [kids EXCEPT ![p] = RemoveFirst(@, q)]
            /\ exiting' = exiting \ {q}
            /\ kthreads' = kthreads \ {q}
            /\ pc' = [pc EXCEPT ![p] = ReturnPc(p), ![q] = "none"]
            /\ wait_pid' = [wait_pid EXCEPT ![p] = NULL, ![q] = NULL]
  BY DEF WaitReap, remove_links
<1> DEFINE q == Candidates(p)[i]
           to == ReturnPc(p)
<1>4. q \in Procs /\ parent[q] = p
  <2>1. CASE wait_pid[p] = NULL
    <3>1. q \in ToSet(kids[p]) /\ kids[p] \in Seq(Procs)
      BY <1>0, <1>3, <2>1 DEF Candidates, ToSet
    <3>2. q \in Procs
      BY <3>1 DEF ToSet
    <3>3. QED
      BY <3>1, <3>2 DEF IInv, KinInv
  <2>2. CASE wait_pid[p] # NULL
    <3>1. wait_pid[p] \in Procs
      BY <1>0, <2>2
    <3>2. Candidates(p) = << wait_pid[p] >> /\ parent[wait_pid[p]] = p
      BY <1>3, <2>2 DEF Candidates
    <3>3. q = wait_pid[p]
      BY <1>3, <3>2
    <3>4. QED
      BY <3>1, <3>2, <3>3
  <2>3. QED
    BY <2>1, <2>2
<1>5. /\ sched.state[q] = "ZOMBIE" /\ sched.wait_state[q] = "0"
      /\ q # p /\ q # idleproc /\ q # initproc
      /\ q \in ToSet(kids[p])
  <2>1. sched.state[q] = "ZOMBIE"
    BY <1>3 DEF IsZombie
  <2>2. pc[q] \in ExitPcs
    BY <2>1, <1>4 DEF IInv, PcInv, PcAgrees
  <2>3. q # idleproc /\ q # initproc
    BY <2>2 DEF IInv, PcInv, InitPcs, WaitPcs, ExitPcs
  <2>4. QED
    BY <2>1, <2>3, <1>2, <1>4 DEF IInv, SchedInv, KinInv
<1>6. /\ sched' = [sched EXCEPT !.state[q] = "FREE", !.time_slice[q] = 0,
                                !.need_resched = @ \ {q}]
      /\ parent' = [parent EXCEPT ![q] = NULL]
      /\ kids' = [kids EXCEPT ![p] = RemoveFirst(kids[p], q)]
      /\ pc' = [[pc EXCEPT ![p] = to] EXCEPT ![q] = "none"]
      /\ exiting' = exiting \ {q} /\ kthreads' = kthreads \ {q}
      /\ wait_pid' = [[wait_pid EXCEPT ![p] = NULL] EXCEPT ![q] = NULL]
      /\ nr_process' = nr_process - 1 /\ UNCHANGED << clock, workers >>
  BY <1>0, <1>3 DEF WaitReap, remove_links
<1> HIDE DEF q
<1>7. /\ to \in {"init_sched", "kthread", "trapret"} /\ to \in Pcs
      /\ p = initproc => to \in InitPcs
  BY DEF ReturnPc, Pcs, UserPcs, KernelPcs, InitPcs
<1> HIDE DEF to
<1>8. \A r \in Procs : pc'[r] = IF r = q THEN "none" ELSE IF r = p THEN to ELSE pc[r]
  BY <1>0, <1>4, <1>5, <1>6
<1>9. /\ sched' \in SchedType
      /\ sched'.current = p /\ sched'.run_list = sched.run_list
      /\ sched'.fault = sched.fault /\ sched'.wait_state = sched.wait_state
      /\ sched'.state = [sched.state EXCEPT ![q] = "FREE"]
  <2>1. /\ sched.state \in [Procs -> ProcStates]
        /\ sched.time_slice \in [Procs -> 0..MAX_TIME_SLICE]
        /\ sched.need_resched \in SUBSET Procs
    BY <1>0 DEF SchedType
  <2> DEFINE st == [sched.state EXCEPT ![q] = "FREE"]
             sl == [sched.time_slice EXCEPT ![q] = 0]
             nr == sched.need_resched \ {q}
  <2>2. /\ st \in [Procs -> ProcStates] /\ nr \in SUBSET Procs
        /\ sl \in [Procs -> 0..MAX_TIME_SLICE]
    BY <1>4, <2>1, SchedAssumption DEF ProcStates
  <2>3. sched' = [sched EXCEPT !.state = st, !.time_slice = sl, !.need_resched = nr]
    BY <1>0, <1>6 DEF SchedType
  <2> HIDE DEF sl, nr
  <2>4. QED
    BY <1>0, <1>1, <2>1, <2>2, <2>3 DEF SchedType
<1>10. SchedInv(sched')
  <2>1. sched.state \in [Procs -> ProcStates]
    BY <1>0 DEF SchedType
  <2>2. \A r \in Procs : r \in ToSet(sched'.run_list) <=>
          sched'.state[r] = "RUNNABLE" /\ r # idleproc /\ r # sched'.current
    BY <1>1, <1>5, <1>9, <2>1 DEF IInv, SchedInv
  <2>3. \A r \in Procs : sched'.wait_state[r] # "0" <=> sched'.state[r] = "SLEEPING"
    BY <1>5, <1>9, <2>1 DEF IInv, SchedInv
  <2>4. sched'.state[idleproc] = "RUNNABLE"
    BY <1>5, <1>9, <2>1, SchedAssumption DEF IInv, SchedInv
  <2>5. QED
    BY <1>9, <2>2, <2>3, <2>4 DEF IInv, SchedInv
<1>11. PcInv'
  <2>1. sched.state \in [Procs -> ProcStates]
    BY <1>0 DEF SchedType
  <2>2. \A r \in Procs : PcAgrees(sched'.state[r], sched'.wait_state[r], pc'[r])
    <3>1. SUFFICES ASSUME NEW r \in Procs
                   PROVE  PcAgrees(sched'.state[r], sched'.wait_state[r], pc'[r])
      OBVIOUS
    <3>2. PcAgrees(sched.state[r], sched.wait_state[r], pc[r])
      BY DEF IInv, PcInv
    <3>3. CASE r = p \/ r = q
      BY <3>3, <1>2, <1>5, <1>7, <1>8, <1>9, <2>1 DEF PcAgrees, ExitPcs
    <3>4. CASE r # p /\ r # q
      BY <3>2, <3>4, <1>8, <1>9, <2>1
    <3>5. QED
      BY <3>3, <3>4
  <2>3. pc'[idleproc] = "idle" /\ pc'[initproc] \in InitPcs
    BY <1>2, <1>5, <1>7, <1>8, SchedAssumption, ProcessAssumption DEF IInv, PcInv
  <2>4. \A r \in Procs : r # sched'.current => pc'[r] \in RestPcs
    BY <1>1, <1>8, <1>9 DEF IInv, PcInv, RestPcs
  <2>5. \A r \in Procs : pc'[r] = "idle" => r = idleproc
    BY <1>7, <1>8 DEF IInv, PcInv
  <2>6. pc'[sched'.current] = to
    BY <1>5, <1>8, <1>9
  <2>7. irq' # "timer"
    BY <1>1, <1>6 DEF clock
  <2>8. QED
    BY <1>7, <2>2, <2>3, <2>4, <2>5, <2>6, <2>7 DEF PcInv
<1>12. \A r \in Procs : parent[r] # q
  <2>1. pc[q] \in ExitPcs /\ pc[q] \in RestPcs
    BY <1>1, <1>4, <1>5 DEF IInv, PcInv, PcAgrees
  <2>2. pc[q] = "dead"
    BY <2>1 DEF ExitPcs, RestPcs
  <2>3. QED
    BY <1>4, <2>2, ProcessAssumption DEF IInv, KinInv
<1>13. /\ RemoveFirst(kids[p], q) \in Seq(Procs)
       /\ IsInjective(RemoveFirst(kids[p], q))
       /\ ToSet(RemoveFirst(kids[p], q)) = ToSet(kids[p]) \ {q}
  <2>1. kids[p] \in Seq(Procs) /\ IsInjective(kids[p])
    BY <1>0 DEF IInv, KinInv
  <2>2. QED
    BY <2>1, <1>5, UnlinkFacts
<1>14. KinInv'
  <2>1. /\ kids'[p] = RemoveFirst(kids[p], q)
        /\ \A r \in Procs \ {p} : kids'[r] = kids[r]
        /\ \A r \in Procs : parent'[r] = IF r = q THEN NULL ELSE parent[r]
    BY <1>0, <1>4, <1>6
  <2>2. \A r \in Procs : IsInjective(kids'[r])
    <3>1. \A r \in Procs : IsInjective(kids[r])
      BY DEF IInv, KinInv
    <3>2. QED
      BY <1>13, <2>1, <3>1
  <2>3. \A r, c \in Procs : c \in ToSet(kids'[r]) <=> parent'[c] = r
    <3>1. SUFFICES ASSUME NEW r \in Procs, NEW c \in Procs
                   PROVE  c \in ToSet(kids'[r]) <=> parent'[c] = r
      OBVIOUS
    <3>2. c \in ToSet(kids[r]) <=> parent[c] = r
      BY DEF IInv, KinInv
    <3>3. NULL # r
      BY ProcessAssumption
    <3>4. QED
      BY <3>2, <3>3, <1>4, <1>13, <2>1
  <2>4. \A c \in Procs : parent'[c] = NULL <=> pc'[c] \in {"none", "idle"}
    <3>1. SUFFICES ASSUME NEW c \in Procs
                   PROVE  parent'[c] = NULL <=> pc'[c] \in {"none", "idle"}
      OBVIOUS
    <3>2. parent[c] = NULL <=> pc[c] \in {"none", "idle"}
      BY DEF IInv, KinInv
    <3>3. QED
      BY <3>2, <1>1, <1>7, <1>8, <2>1
  <2>5. \A c \in Procs : parent'[c] # NULL =>
          pc'[parent'[c]] \notin {"none", "exit_sched", "dead"}
    <3>1. SUFFICES ASSUME NEW c \in Procs, parent'[c] # NULL
                   PROVE  pc'[parent'[c]] \notin {"none", "exit_sched", "dead"}
      OBVIOUS
    <3>2. /\ parent'[c] = parent[c] /\ parent[c] \in Procs /\ parent[c] # q
          /\ pc[parent[c]] \notin {"none", "exit_sched", "dead"}
      BY <3>1, <1>0, <1>12, <2>1 DEF IInv, KinInv
    <3>3. QED
      BY <3>2, <1>7, <1>8
  <2>6. QED
    BY <2>2, <2>3, <2>4, <2>5 DEF KinInv
<1>15. TimerInv'
  <2>1. \A r \in Procs : pc[r] \in {"sleep_sched", "sleep_ret"} =>
                           pc'[r] \in {"sleep_sched", "sleep_ret"}
    <3>1. pc[q] \in ExitPcs
      BY <1>4, <1>5 DEF IInv, PcInv, PcAgrees
    <3>2. QED
      BY <3>1, <1>1, <1>8 DEF ExitPcs
  <2>2. pc'[sched'.current] # "add_timer"
    BY <1>5, <1>7, <1>8, <1>9
  <2>3. QED
    BY <2>1, <2>2, <1>6, SameTimers DEF IInv
<1>16. ProcessCount' /\ nr_process' \in Nat
  <2>1. Live' = Live \ {q} /\ q \in Live
    <3>1. sched.state \in [Procs -> ProcStates]
      BY <1>0 DEF SchedType
    <3>2. QED
      BY <3>1, <1>4, <1>5, <1>9 DEF Live
  <2>2. IsFiniteSet(Live)
    BY FS_Subset, ProcessAssumption DEF Live
  <2>3. Cardinality(Live \ {q}) = Cardinality(Live) - 1 /\ IsFiniteSet(Live \ {q})
    BY <2>1, <2>2, FS_RemoveElement, Zenon
  <2>4. Cardinality(Live \ {q}) \in Nat
    BY <2>3, FS_CardinalityType
  <2>5. nr_process \in Nat /\ MAX_PROCESS \in Nat /\ nr_process <= MAX_PROCESS
        /\ nr_process = Cardinality(Live)
    BY ProcessAssumption DEF IInv, TypeOK, ProcessCount
  <2>6. QED
    BY <2>1, <2>3, <2>4, <2>5, <1>6 DEF ProcessCount
<1>17. TypeOK'
  <2>1. pc' \in [Procs -> Pcs]
    BY <1>0, <1>6, <1>7 DEF Pcs
  <2>2. kids' \in [Procs -> Seq(Procs)]
    BY <1>0, <1>6, <1>13
  <2>3. parent' \in [Procs -> Procs \cup {NULL}]
        /\ wait_pid' \in [Procs -> Procs \cup {NULL}]
    BY <1>0, <1>6
  <2>4. /\ exiting' \subseteq Procs /\ kthreads' \subseteq Procs
        /\ workers' = workers
        /\ timer_list' = timer_list /\ cursor' = cursor /\ irq' = irq
    BY <1>6 DEF clock, IInv, TypeOK
  <2>5. QED
    BY <1>9, <1>16, <2>1, <2>2, <2>3, <2>4 DEF IInv, TypeOK
<1>18. QED
  BY <1>10, <1>11, <1>14, <1>15, <1>16, <1>17 DEF IInv

\* do_kill: the target is flagged, and woken if it waits.
LEMMA KillStep ==
    ASSUME IInv, NEW p \in Procs, NEW q \in KillTargets, SysKill(p, q)
    PROVE  IInv'
<1>0. sched \in SchedType /\ pc \in [Procs -> Pcs] /\ q \in Procs
  BY ProcessAssumption DEF IInv, TypeOK
<1>1. p = sched.current /\ irq = "none" /\ pc[p] = "user"
  BY DEF SysKill, Running, current
<1>2. Woken(sched, sched')
  <2>1. CASE sched' = sched
    BY <2>1 DEF IInv, Woken
  <2>2. CASE sched' = wakeup_proc(sched, q) /\ sched.wait_state[q] \in WT_INTERRUPTED
    BY <2>2, <1>0, WakeWaiter DEF IInv, WT_INTERRUPTED
  <2>3. QED
    BY <2>1, <2>2 DEF SysKill
<1>3. /\ pc' = [pc EXCEPT ![p] = "trapret"] /\ exiting' \subseteq Procs
      /\ UNCHANGED << clock, family, kthreads, wait_pid, workers >>
  BY <1>0 DEF SysKill, Goto, IInv, TypeOK
<1>4. \A r \in Procs : pc'[r] = IF r = p THEN "trapret" ELSE pc[r]
  BY <1>0, <1>3
<1>5. sched'.current = p /\ p # idleproc /\ p # initproc
  BY <1>1, <1>2 DEF Woken, IInv, PcInv, InitPcs, WaitPcs
<1>6. PcInv'
  <2>1. \A r \in Procs : PcAgrees(sched'.state[r], sched'.wait_state[r], pc[r])
    BY <1>2, WokenStep
  <2>2. sched.state[p] = "RUNNABLE" /\ sched.wait_state[p] = "0"
    BY <1>1, CurrentRuns DEF ExitPcs
  <2>3. sched'.state[p] = "RUNNABLE" /\ sched'.wait_state[p] = "0"
    BY <1>2, <2>2 DEF Woken
  <2>4. \A r \in Procs : PcAgrees(sched'.state[r], sched'.wait_state[r], pc'[r])
    BY <1>4, <2>1, <2>3 DEF PcAgrees, ExitPcs
  <2>5. pc'[idleproc] = "idle" /\ pc'[initproc] \in InitPcs
    BY <1>4, <1>5, SchedAssumption, ProcessAssumption DEF IInv, PcInv
  <2>6. \A r \in Procs : r # p => pc'[r] \in RestPcs
    BY <1>1, <1>4 DEF IInv, PcInv
  <2>7. \A r \in Procs : pc'[r] = "idle" => r = idleproc
    BY <1>4 DEF IInv, PcInv
  <2>8. pc'[sched'.current] = "trapret"
    BY <1>4, <1>5
  <2>9. QED
    BY <1>5, <2>4, <2>5, <2>6, <2>7, <2>8 DEF PcInv
<1>7. KinInv'
  <2>1. parent' = parent /\ kids' = kids
    BY <1>3 DEF family
  <2>2. \A r \in Procs : parent[r] # NULL => parent[r] \in Procs
    BY DEF IInv, TypeOK
  <2>3. QED
    BY <1>1, <1>4, <2>1, <2>2 DEF IInv, KinInv
<1>8. TimerInv'
  <2>1. /\ \A r \in Procs : pc[r] \in {"sleep_sched", "sleep_ret"} =>
                              pc'[r] \in {"sleep_sched", "sleep_ret"}
        /\ pc'[sched'.current] # "add_timer"
    BY <1>1, <1>4, <1>5
  <2>2. QED
    BY <2>1, <1>3, SameTimers DEF IInv
<1>9. ProcessCount'
  <2>1. \A r \in Procs : sched'.state[r] = "FREE" <=> sched.state[r] = "FREE"
    BY <1>2, WokenStep
  <2>2. QED
    BY <2>1, <1>3, SameCount DEF IInv, family
<1>10. TypeOK'
  <2>1. sched' \in SchedType
    BY <1>2, WokenStep
  <2>2. pc' \in [Procs -> Pcs]
    BY <1>0, <1>3 DEF Pcs, UserPcs
  <2>3. QED
    BY <1>3, <2>1, <2>2 DEF IInv, TypeOK, clock, family
<1>11. QED
  BY <1>2, <1>6, <1>7, <1>8, <1>9, <1>10 DEF IInv, Woken

\* do_sleep up to the loop of add_timer.
LEMMA DoSleepStep ==
    ASSUME IInv, NEW p \in Procs, NEW time \in Nat,
           p = sched.current, irq = "none", pc[p] \in {"user", "kthread"},
           DoSleep(p, time)
    PROVE  IInv'
<1>0. p # initproc
  BY DEF IInv, PcInv, InitPcs, WaitPcs
<1>1. RoleTypes'
  BY DEF DoSleep, RoleTypes, roles, IInv, TypeOK
<1>2. CASE time = 0
  <2>1. Goto(p, ReturnPc(p)) /\ sched' = sched /\ UNCHANGED << clock, family >>
    BY <1>2 DEF DoSleep, clock
  <2>2. ReturnPc(p) \in {"kthread", "trapret"}
    BY <1>0 DEF ReturnPc
  <2>3. SameButSlices(sched, sched')
    BY <2>1 DEF SameButSlices, IInv, TypeOK
  <2>4. QED
    BY <1>0, <1>1, <2>1, <2>2, <2>3, QuietStep DEF ExitPcs, SleepPcs, UserPcs
<1>3. CASE time # 0
  <2>1. /\ sched' = [sched EXCEPT !.state[p] = "SLEEPING", !.wait_state[p] = "WT_TIMER"]
        /\ cursor' = [at |-> 1, left |-> time]
        /\ Goto(p, "add_timer")
        /\ timer_list' = timer_list /\ irq' = irq /\ UNCHANGED family
    BY <1>3 DEF DoSleep, StartOfList
  <2>2. /\ SchedInv(sched') /\ PcInv' /\ KinInv' /\ ProcessCount'
        /\ sched'.current = p
        /\ pc \in [Procs -> Pcs] /\ "add_timer" \in Pcs
        /\ pc' = [pc EXCEPT ![p] = "add_timer"]
    BY <1>0, <2>1, BlockStep
  <2>3. TimerInv'
    <3>1. \A r \in Procs : pc'[r] = IF r = p THEN "add_timer" ELSE pc[r]
      BY <2>2
    <3>2. \A i \in DOMAIN timer_list : timer_list[i].proc \in Procs
      BY TimerOwners DEF IInv
    <3>3. \A i \in DOMAIN timer_list :
            pc'[timer_list[i].proc] \in {"sleep_sched", "sleep_ret"}
      BY <3>1, <3>2 DEF IInv, TimerInv
    <3>4. cursor'.at = 1 /\ cursor'.left > 0 /\ 1 \in 1..Len(timer_list) + 1
      <4>1. Len(timer_list) \in Nat
        BY DEF IInv, TypeOK
      <4>2. QED
        BY <4>1, <2>1, <1>3
    <3>5. QED
      BY <2>1, <3>3, <3>4 DEF IInv, TimerInv, OnePerProc, HeadExpired
  <2>4. TypeOK'
    <3>1. sched' \in SchedType
      BY <2>2 DEF SchedInv
    <3>2. QED
      BY <1>1, <2>1, <2>2, <3>1 DEF IInv, TypeOK, RoleTypes, family
  <2>5. QED
    BY <2>2, <2>3, <2>4 DEF IInv
<1>4. QED
  BY <1>2, <1>3

\* A step inside do_sleep changes the timers, and moves the running process
\* from one pc to another that its state allows.
LEMMA SleepMove ==
    ASSUME IInv, NEW p \in Procs, p = sched.current, irq = "none", irq' = irq,
           sched' = sched, UNCHANGED << family, roles, wait_pid, workers >>,
           NEW to, pc' = [pc EXCEPT ![p] = to],
           \/ pc[p] = "add_timer" /\ to \in {"add_timer", "sleep_sched"}
           \/ /\ pc[p] = "sleep_ret" /\ to \in {"kthread", "trapret"}
    PROVE  /\ SchedInv(sched') /\ PcInv' /\ KinInv' /\ ProcessCount'
           /\ pc' \in [Procs -> Pcs]
           /\ \A r \in Procs : pc'[r] = IF r = p THEN to ELSE pc[r]
<1>0. sched \in SchedType /\ pc \in [Procs -> Pcs]
  BY DEF IInv, TypeOK
<1>1. p # idleproc /\ p # initproc
  BY DEF IInv, PcInv, InitPcs, WaitPcs
<1>2. /\ to \in Pcs
      /\ to \notin {"none", "idle", "dead", "exit_sched", "wait_ret", "sleep_ret"}
  BY DEF Pcs, UserPcs, SleepPcs, KernelPcs
<1> DEFINE st == sched.state[p]
           ws == sched.wait_state[p]
<1>3. /\ st \in ProcStates /\ ws \in WaitStates
      /\ sched'.state = [sched.state EXCEPT ![p] = st]
      /\ sched'.wait_state = [sched.wait_state EXCEPT ![p] = ws]
      /\ sched' \in SchedType
  BY <1>0 DEF SchedType
<1>4. PcAgrees(st, ws, to) /\ st # "FREE"
  <2>1. PcAgrees(st, ws, pc[p])
    BY DEF IInv, PcInv
  <2>2. CASE pc[p] = "add_timer" /\ to \in {"add_timer", "sleep_sched"}
    BY <2>1, <2>2 DEF PcAgrees, ExitPcs, SleepPcs
  <2>3. CASE pc[p] = "sleep_ret" /\ to \in {"kthread", "trapret"}
    <3>1. st = "RUNNABLE" /\ ws = "0"
      BY <2>3, CurrentRuns DEF ExitPcs
    <3>2. QED
      BY <2>3, <3>1 DEF PcAgrees, ExitPcs
  <2>4. QED
    BY <2>2, <2>3
<1>5. ws # "0" <=> st = "SLEEPING"
  BY DEF IInv, SchedInv
<1>6. SchedInv(sched') /\ PcInv' /\ KinInv' /\ ProcessCount'
  <2> HIDE DEF st, ws
  <2>1. sched.state[p] # "FREE"
    BY <1>4 DEF st
  <2>2. QED
    BY <1>1, <1>2, <1>3, <1>4, <1>5, <2>1, OwnStep
<1>7. QED
  BY <1>0, <1>2, <1>6

\* A turn of the loop of add_timer, or the insertion.
LEMMA AddTimerStep ==
    ASSUME IInv, NEW p \in Procs, AddTimer(p)
    PROVE  IInv'
<1>0. /\ sched \in SchedType /\ pc \in [Procs -> Pcs]
      /\ timer_list \in Seq(TimersOf(Procs)) /\ cursor \in [at : Nat, left : Nat]
      /\ \A i \in DOMAIN timer_list : timer_list[i].proc \in Procs
      /\ \A i \in DOMAIN timer_list : timer_list[i] \in TimersOf(Procs)
  BY TimerOwners DEF IInv, TypeOK
<1>1. p = sched.current /\ irq = "none" /\ pc[p] = "add_timer"
      /\ irq' = irq /\ sched' = sched
      /\ UNCHANGED << family, roles, wait_pid, workers >>
  BY DEF AddTimer, Running, current
<1>2. /\ cursor.at \in 1..Len(timer_list) + 1
      /\ cursor.at = 1 => cursor.left > 0
      /\ ~HeadExpired(timer_list) /\ OnePerProc(timer_list)
      /\ \A i \in DOMAIN timer_list :
           pc[timer_list[i].proc] \in {"sleep_sched", "sleep_ret"}
  BY <1>1 DEF IInv, TimerInv
<1>3. CASE WalkDone(timer_list, cursor)
  <2>1. /\ timer_list' = insert_timer(timer_list, cursor, p)
        /\ cursor' = [at |-> 0, left |-> 0]
        /\ pc' = [pc EXCEPT ![p] = "sleep_sched"]
    BY <1>3 DEF AddTimer, NoCursor, Goto
  <2>2. /\ SchedInv(sched') /\ PcInv' /\ KinInv' /\ ProcessCount'
        /\ pc' \in [Procs -> Pcs]
        /\ \A r \in Procs : pc'[r] = IF r = p THEN "sleep_sched" ELSE pc[r]
    BY <1>1, <2>1, SleepMove
  <2> DEFINE at == cursor.at
             new == insert_timer(timer_list, cursor, p)
  <2>3. /\ new \in Seq(TimersOf(Procs))
        /\ Len(new) = Len(timer_list) + 1
        /\ new[at].proc = p
        /\ \A i \in 1..at - 1 : new[i].proc = timer_list[i].proc
        /\ \A i \in at + 1..Len(new) : new[i].proc = timer_list[i - 1].proc
        /\ ~HeadExpired(new)
    BY <1>0, <1>2, <1>3, InsertFacts
  <2>4. /\ at \in Nat /\ 1 <= at /\ at <= Len(timer_list) + 1
        /\ Len(timer_list) \in Nat
        /\ DOMAIN new = 1..Len(timer_list) + 1
        /\ DOMAIN timer_list = 1..Len(timer_list)
    BY <1>0, <1>2, <2>3
  <2> HIDE DEF new, at
  <2> DEFINE old(i) == IF i < at THEN i ELSE i - 1
  <2>5. ASSUME NEW i \in DOMAIN new, i # at
        PROVE  old(i) \in DOMAIN timer_list /\ new[i].proc = timer_list[old(i)].proc
    BY <2>3, <2>4, <2>5
  <2>6. \A i \in DOMAIN timer_list : timer_list[i].proc # p
    BY <1>1, <1>2
  <2>7. OnePerProc(new)
    <3>1. \A i, j \in DOMAIN new : i # at /\ j # at /\ old(i) = old(j) => i = j
      BY <2>4
    <3> HIDE DEF old
    <3>2. QED
      BY <1>2, <2>3, <2>5, <2>6, <3>1 DEF OnePerProc
  <2>8. \A i \in DOMAIN new : pc'[new[i].proc] \in {"sleep_sched", "sleep_ret"}
    <3> HIDE DEF old
    <3>1. SUFFICES ASSUME NEW i \in DOMAIN new
                   PROVE  pc'[new[i].proc] \in {"sleep_sched", "sleep_ret"}
      OBVIOUS
    <3>2. CASE i = at
      BY <3>2, <2>2, <2>3
    <3>3. CASE i # at
      BY <3>3, <1>0, <1>2, <2>2, <2>5
    <3>4. QED
      BY <3>2, <3>3
  <2>9. TimerInv'
    <3>1. pc'[sched'.current] = "sleep_sched"
      BY <1>1, <2>2
    <3>2. QED
      BY <2>1, <2>3, <2>7, <2>8, <3>1 DEF TimerInv, OnePerProc, HeadExpired, new
  <2>10. TypeOK'
    BY <1>1, <2>1, <2>2, <2>3 DEF IInv, TypeOK, TimersOf, family, roles, new
  <2>11. QED
    BY <2>2, <2>9, <2>10 DEF IInv
<1>4. CASE ~WalkDone(timer_list, cursor)
  <2>1. /\ cursor' = [at |-> cursor.at + 1,
                      left |-> cursor.left - timer_list[cursor.at].expires]
        /\ timer_list' = timer_list /\ pc' = pc
    BY <1>4 DEF AddTimer, WalkOn
  <2>2. /\ cursor.at \in DOMAIN timer_list
        /\ cursor.left \in Nat /\ cursor.at \in Nat
        /\ ~(cursor.left < timer_list[cursor.at].expires)
    BY <1>0, <1>2, <1>4 DEF WalkDone
  <2>3. timer_list[cursor.at].expires \in Nat
    BY <1>0, <2>2 DEF TimersOf
  <2>4. cursor' \in [at : Nat, left : Nat] /\ cursor'.at = cursor.at + 1
    BY <2>1, <2>2, <2>3
  <2>5. pc' = [pc EXCEPT ![p] = "add_timer"]
    BY <1>0, <1>1, <2>1
  <2>6. /\ SchedInv(sched') /\ PcInv' /\ KinInv' /\ ProcessCount'
        /\ pc' \in [Procs -> Pcs]
    BY <1>1, <2>5, SleepMove
  <2>7. TimerInv'
    <3>1. cursor'.at \in 1..Len(timer_list) + 1 /\ cursor'.at # 1
      BY <1>0, <1>2, <2>2, <2>4
    <3>2. QED
      BY <1>1, <1>2, <2>1, <3>1 DEF TimerInv, OnePerProc, HeadExpired
  <2>8. TypeOK'
    BY <1>1, <2>1, <2>4, <2>6 DEF IInv, TypeOK, family, roles
  <2>9. QED
    BY <2>6, <2>7, <2>8 DEF IInv
<1>5. QED
  BY <1>3, <1>4

\* do_sleep after its schedule().
LEMMA SleepResumeStep ==
    ASSUME IInv, NEW p \in Procs, SleepResume(p)
    PROVE  IInv'
<1>0. /\ sched \in SchedType /\ pc \in [Procs -> Pcs]
      /\ timer_list \in Seq(TimersOf(Procs))
      /\ \A i \in DOMAIN timer_list : timer_list[i].proc \in Procs
  BY TimerOwners DEF IInv, TypeOK
<1>1. p = sched.current /\ irq = "none" /\ pc[p] = "sleep_ret"
      /\ irq' = irq /\ cursor' = cursor /\ sched' = sched
      /\ UNCHANGED << family, roles, wait_pid, workers >>
      /\ timer_list' = del_timer(timer_list, p)
      /\ pc' = [pc EXCEPT ![p] = ReturnPc(p)]
  BY DEF SleepResume, Running, current, Goto
<1>2. p # initproc
  BY <1>1 DEF IInv, PcInv, InitPcs, WaitPcs
<1> DEFINE to == ReturnPc(p)
<1>3. to \in {"kthread", "trapret"}
  BY <1>2 DEF ReturnPc
<1>4. /\ SchedInv(sched') /\ PcInv' /\ KinInv' /\ ProcessCount'
      /\ pc' \in [Procs -> Pcs]
      /\ \A r \in Procs : pc'[r] = IF r = p THEN to ELSE pc[r]
  <2> HIDE DEF to
  <2>1. pc' = [pc EXCEPT ![p] = to]
    BY <1>1 DEF to
  <2>2. QED
    BY <1>1, <1>3, <2>1, SleepMove
<1> DEFINE new == del_timer(timer_list, p)
<1>5. /\ new \in Seq(TimersOf(Procs))
      /\ OnePerProc(new)
      /\ \A i \in DOMAIN new : new[i].proc # p /\ HasTimer(timer_list, new[i].proc)
      /\ ~HeadExpired(new)
  BY <1>0, <1>1, DeleteFacts DEF IInv, TimerInv
<1> HIDE DEF new
<1>6. TimerInv'
  <2>1. ASSUME NEW i \in DOMAIN new
        PROVE  pc'[new[i].proc] \in {"sleep_sched", "sleep_ret"}
    BY <1>0, <1>4, <1>5 DEF IInv, TimerInv, HasTimer
  <2>2. pc'[sched'.current] # "add_timer"
    BY <1>1, <1>3, <1>4
  <2>3. QED
    BY <1>1, <1>5, <2>1, <2>2 DEF TimerInv, OnePerProc, HeadExpired, new
<1>7. TypeOK'
  BY <1>1, <1>4, <1>5 DEF IInv, TypeOK, TimersOf, family, roles, new
<1>8. QED
  BY <1>4, <1>6, <1>7 DEF IInv

-----------------------------------------------------------------------------
(* The timer interrupt *)

\* The interrupt comes and takes a tick from the head of the timer list.
LEMMA TickStep ==
    ASSUME IInv, Tick
    PROVE  IInv'
<1>0. /\ timer_list \in Seq(TimersOf(Procs))
      /\ ~HeadExpired(timer_list) /\ irq = "none" /\ OnePerProc(timer_list)
      /\ pc[sched.current] \notin {"halted", "add_timer"}
  BY TimerOwners DEF IInv, TypeOK, TimerInv, Tick, InterruptsOn, current
<1>1. /\ sched' = sched /\ irq' = "timer" /\ cursor' = cursor
      /\ timer_list' = tick_timer(timer_list)
      /\ UNCHANGED << family, roles, pc, wait_pid, workers >>
  BY <1>0 DEF Tick, Checked
<1>2. /\ timer_list' \in Seq(TimersOf(Procs))
      /\ Len(timer_list') = Len(timer_list)
      /\ \A i \in 1..Len(timer_list) : timer_list'[i].proc = timer_list[i].proc
  BY <1>0, <1>1, TickFacts
<1>3. DOMAIN timer_list' = DOMAIN timer_list /\ DOMAIN timer_list = 1..Len(timer_list)
  BY <1>0, <1>2
<1>4. TimerInv'
  <2>1. OnePerProc(timer_list)'
    BY <1>0, <1>2, <1>3 DEF OnePerProc
  <2>2. \A i \in DOMAIN timer_list' :
          pc'[timer_list'[i].proc] \in {"sleep_sched", "sleep_ret"}
    BY <1>1, <1>2, <1>3 DEF IInv, TimerInv
  <2>3. QED
    BY <1>0, <1>1, <2>1, <2>2 DEF TimerInv
<1>5. PcInv' /\ SchedInv(sched') /\ KinInv'
  BY <1>0, <1>1 DEF IInv, PcInv, KinInv, family
<1>6. ProcessCount'
  BY <1>1, SameCount DEF IInv, family
<1>7. TypeOK'
  BY <1>1, <1>2 DEF IInv, TypeOK, TimersOf, family, roles
<1>8. QED
  BY <1>4, <1>5, <1>6, <1>7 DEF IInv

\* The head has expired: its owner is woken.
LEMMA FireTimerStep ==
    ASSUME IInv, FireTimer
    PROVE  IInv'
<1> DEFINE p == timer_list[1].proc
           new == del_timer(timer_list, p)
<1>0. /\ timer_list \in Seq(TimersOf(Procs)) /\ timer_list # <<>>
      /\ \A i \in DOMAIN timer_list : timer_list[i].proc \in Procs
      /\ irq = "timer" /\ OnePerProc(timer_list)
  BY TimerOwners DEF IInv, TimerInv, FireTimer, HeadExpired
<1>1. 1 \in DOMAIN timer_list /\ p \in Procs
      /\ pc[p] \in {"sleep_sched", "sleep_ret"}
  BY <1>0 DEF IInv, TimerInv
<1>2. /\ p # idleproc /\ sched.state[p] \in {"SLEEPING", "RUNNABLE"}
      /\ sched.wait_state[p] \in WT_INTERRUPTED \cup {"0"}
  <2>1. PcAgrees(sched.state[p], sched.wait_state[p], pc[p])
    BY <1>1 DEF IInv, PcInv
  <2>2. sched.state[p] \in ProcStates /\ sched.wait_state[p] \in WaitStates
    BY <1>1 DEF IInv, TypeOK, SchedType
  <2>3. QED
    BY <1>1, <2>1, <2>2 DEF IInv, PcInv, PcAgrees, ExitPcs, ProcStates,
                            WaitStates, WT_INTERRUPTED
<1>3. /\ sched' = wakeup_proc(sched, p)
      /\ timer_list' = new
      /\ UNCHANGED << cursor, irq, family, roles, pc, wait_pid, workers >>
  BY <1>2 DEF FireTimer, Checked
<1> HIDE DEF p
<1>4. Woken(sched, sched')
  BY <1>1, <1>2, <1>3, WakeSleeper DEF IInv
<1>5. /\ new \in Seq(TimersOf(Procs))
      /\ OnePerProc(new)
      /\ \A i \in DOMAIN new : new[i].proc # p /\ HasTimer(timer_list, new[i].proc)
  BY <1>0, <1>1, DeleteFacts
<1> HIDE DEF new
<1>6. /\ sched' \in SchedType
      /\ \A r \in Procs : PcAgrees(sched'.state[r], sched'.wait_state[r], pc[r])
      /\ \A r \in Procs : sched'.state[r] = "FREE" <=> sched.state[r] = "FREE"
      /\ pc[sched.current] \in {"wait_ret", "sleep_ret"} =>
           sched'.state[sched'.current] = "RUNNABLE"
      /\ sched'.current = sched.current
  BY <1>4, WokenStep DEF Woken
<1>7. PcInv'
  BY <1>3, <1>6 DEF IInv, PcInv
<1>8. KinInv'
  BY <1>3 DEF IInv, KinInv, family
<1>9. TimerInv'
  <2>1. \A i \in DOMAIN new : pc[new[i].proc] \in {"sleep_sched", "sleep_ret"}
    BY <1>5 DEF IInv, TimerInv, HasTimer
  <2>2. pc[sched.current] # "add_timer"
    BY <1>0 DEF IInv, PcInv
  <2>3. QED
    BY <1>0, <1>3, <1>5, <1>6, <2>1, <2>2 DEF TimerInv, OnePerProc
<1>10. ProcessCount'
  BY <1>3, <1>6, SameCount DEF IInv, family
<1>11. TypeOK'
  BY <1>3, <1>5, <1>6 DEF IInv, TypeOK, TimersOf, family, roles
<1>12. QED
  BY <1>4, <1>7, <1>8, <1>9, <1>10, <1>11 DEF IInv, Woken

\* sched_class_proc_tick touches slices and flags only.
LEMMA ProcTickFacts ==
    ASSUME NEW s \in SchedType
    PROVE  SameButSlices(s, sched_class_proc_tick(s, s.current))
<1> DEFINE c == s.current
           left == IF s.time_slice[c] > 0 THEN s.time_slice[c] - 1 ELSE 0
           sl == [s.time_slice EXCEPT ![c] = left]
           nr == IF left = 0 THEN s.need_resched \cup {c} ELSE s.need_resched
           t == sched_class_proc_tick(s, c)
<1>1. c \in Procs /\ s.time_slice \in [Procs -> 0..MAX_TIME_SLICE]
      /\ s.need_resched \in SUBSET Procs
  BY DEF SchedType
<1>2. left \in 0..MAX_TIME_SLICE
  <2>1. s.time_slice[c] \in 0..MAX_TIME_SLICE /\ MAX_TIME_SLICE \in Nat
    BY <1>1, SchedAssumption
  <2>2. QED
    BY <2>1
<1>3. sl \in [Procs -> 0..MAX_TIME_SLICE] /\ nr \in SUBSET Procs
  <2> HIDE DEF left
  <2>1. QED
    BY <1>1, <1>2
<1>4. CASE c # idleproc
  <2>1. t = [s EXCEPT !.time_slice = sl, !.need_resched = nr]
    BY <1>4 DEF sched_class_proc_tick, RR_proc_tick, SchedType
  <2> HIDE DEF sl, nr, t
  <2>2. SameButSlices(s, t)
    BY <1>3, <2>1 DEF SameButSlices, SchedType
  <2>3. QED
    BY <2>2 DEF t
<1>5. CASE c = idleproc
  BY <1>1, <1>5 DEF sched_class_proc_tick, SameButSlices, SchedType
<1>6. QED
  BY <1>4, <1>5

\* The end of the interrupt.
LEMMA TickEndStep ==
    ASSUME IInv, TickEnd
    PROVE  IInv'
<1> DEFINE p == sched.current
<1>0. /\ sched \in SchedType /\ pc \in [Procs -> Pcs] /\ p \in Procs
      /\ irq = "timer" /\ ~HeadExpired(timer_list)
      /\ pc[p] \notin {"add_timer", "halted", "none", "dead"}
  BY DEF TickEnd, IInv, TypeOK, SchedType, PcInv
<1>1. SameButSlices(sched, sched')
  BY <1>0, ProcTickFacts DEF TickEnd, current
<1> DEFINE to == IF pc[p] = "user" THEN "trapret" ELSE pc[p]
<1>2. /\ pc' = [pc EXCEPT ![p] = to] /\ irq' = "none"
      /\ UNCHANGED << timer_list, cursor, family, roles, wait_pid, workers >>
  BY <1>0 DEF TickEnd, Goto, current
<1>3. \A r \in Procs : pc'[r] = IF r = p THEN to ELSE pc[r]
  BY <1>0, <1>2
<1>4. SchedInv(sched')
  BY <1>1 DEF SameButSlices, IInv, SchedInv
<1>5. PcInv'
  <2>1. \A r \in Procs : PcAgrees(sched.state[r], sched.wait_state[r], pc[r])
    BY DEF IInv, PcInv
  <2>2. \A r \in Procs : PcAgrees(sched'.state[r], sched'.wait_state[r], pc'[r])
    BY <1>1, <1>3, <2>1 DEF PcAgrees, ExitPcs, SleepPcs, SameButSlices
  <2>3. pc'[idleproc] = "idle" /\ pc'[initproc] \in InitPcs
    BY <1>3, SchedAssumption, ProcessAssumption DEF IInv, PcInv, InitPcs, WaitPcs
  <2>4. \A r \in Procs : r # p => pc'[r] \in RestPcs
    BY <1>3 DEF IInv, PcInv
  <2>5. \A r \in Procs : pc'[r] = "idle" => r = idleproc
    BY <1>3 DEF IInv, PcInv
  <2>6. pc'[p] = to
    BY <1>0, <1>3
  <2>7. sched'.current = p /\ sched'.state = sched.state
    BY <1>1 DEF SameButSlices
  <2>8. QED
    BY <1>0, <1>2, <2>2, <2>3, <2>4, <2>5, <2>6, <2>7 DEF IInv, PcInv
<1>6. KinInv'
  <2>1. parent' = parent /\ kids' = kids
    BY <1>2 DEF family
  <2>2. \A r \in Procs : parent[r] # NULL => parent[r] \in Procs
    BY DEF IInv, TypeOK
  <2>3. QED
    BY <1>3, <2>1, <2>2 DEF IInv, KinInv
<1>7. TimerInv'
  <2>1. \A i \in DOMAIN timer_list : timer_list[i].proc \in Procs
    BY TimerOwners DEF IInv
  <2>2. \A i \in DOMAIN timer_list :
          pc'[timer_list[i].proc] \in {"sleep_sched", "sleep_ret"}
    BY <1>3, <2>1 DEF IInv, TimerInv
  <2>3. pc'[sched'.current] # "add_timer"
    BY <1>0, <1>1, <1>3 DEF SameButSlices
  <2>4. QED
    BY <1>0, <1>2, <2>2, <2>3 DEF IInv, TimerInv, OnePerProc, HeadExpired
<1>8. ProcessCount'
  <2>1. nr_process' = nr_process
    BY <1>2 DEF family
  <2>2. \A r \in Procs : sched'.state[r] = "FREE" <=> sched.state[r] = "FREE"
    BY <1>1 DEF SameButSlices
  <2>3. QED
    BY <2>1, <2>2, SameCount DEF IInv
<1>9. TypeOK'
  <2>1. to \in Pcs
    BY <1>0 DEF Pcs, UserPcs
  <2>2. pc' \in [Procs -> Pcs]
    BY <1>0, <1>2, <2>1
  <2>3. QED
    BY <1>1, <1>2, <2>2 DEF IInv, TypeOK, SameButSlices, family, roles
<1>10. QED
  BY <1>4, <1>5, <1>6, <1>7, <1>8, <1>9 DEF IInv

-----------------------------------------------------------------------------
(* Every step keeps the invariant *)

\* The system calls of a user program.
LEMMA UserInductive ==
    ASSUME IInv, UserStep
    PROVE  IInv'
<1> PICK p \in Procs :
      \/ \E q \in Procs : SysFork(p, q)
      \/ SysForkFails(p)
      \/ SysExit(p)
      \/ \E pid \in (Procs \ {idleproc}) \cup {NULL} : SysWait(p, pid)
      \/ \E q \in KillTargets : SysKill(p, q)
      \/ SysYield(p)
      \/ \E time \in 0..MaxSleep : SysSleep(p, time)
  BY DEF UserStep
<1>0. sched \in SchedType /\ RoleTypes
  BY DEF IInv, TypeOK, RoleTypes
<1>1. SUFFICES ASSUME p = sched.current, irq = "none", pc[p] = "user" PROVE IInv'
  BY DEF SysFork, SysForkFails, SysExit, SysWait, SysKill, SysYield, SysSleep,
         Running, current
<1>2. p # initproc
  BY <1>1 DEF IInv, PcInv, InitPcs, WaitPcs
<1>3. pc[p] \notin ExitPcs \cup SleepPcs \cup {"wait_sched", "idle"}
  BY <1>1 DEF ExitPcs, SleepPcs
<1>4. ASSUME NEW q \in Procs, SysFork(p, q) PROVE IInv'
  <2>1. /\ Fork(p, q, FALSE) /\ pc' = [pc EXCEPT ![p] = "trapret", ![q] = "user"]
        /\ workers' \in Nat
    BY <1>0, <1>4 DEF SysFork, RoleTypes
  <2>2. QED
    BY <1>1, <1>2, <2>1, ForkStep
<1>5. CASE SysForkFails(p)
  <2>1. SameButSlices(sched, sched') /\ RoleTypes' /\ Goto(p, "trapret")
        /\ UNCHANGED << clock, family >>
    BY <1>0, <1>5 DEF SysForkFails, SameButSlices, RoleTypes, roles
  <2>2. QED
    BY <1>1, <1>2, <1>3, <2>1, QuietStep DEF UserPcs
<1>6. CASE SysExit(p)
  <2>1. RoleTypes' /\ EnterExit(p) /\ UNCHANGED << clock, family >>
    BY <1>0, <1>6 DEF SysExit, RoleTypes, roles
  <2>2. QED
    BY <1>1, <1>2, <1>3, <2>1, EnterExitStep
<1>7. ASSUME NEW pid \in (Procs \ {idleproc}) \cup {NULL}, SysWait(p, pid) PROVE IInv'
  <2>1. SameButSlices(sched, sched') /\ RoleTypes' /\ Goto(p, "wait_scan")
        /\ UNCHANGED << clock, family >>
    BY <1>0, <1>7 DEF SysWait, SameButSlices, RoleTypes, roles
  <2>2. QED
    BY <1>1, <1>2, <1>3, <2>1, QuietStep
<1>8. ASSUME NEW q \in KillTargets, SysKill(p, q) PROVE IInv'
  BY <1>8, KillStep
<1>9. CASE SysYield(p)
  <2>1. sched' = [sched EXCEPT !.need_resched = sched.need_resched \cup {p}]
    BY <1>0, <1>9 DEF SysYield, SchedType
  <2>2. SameButSlices(sched, sched')
    BY <1>0, <2>1 DEF SameButSlices, SchedType
  <2>3. RoleTypes' /\ Goto(p, "trapret") /\ UNCHANGED << clock, family >>
    BY <1>0, <1>9 DEF SysYield, RoleTypes, roles
  <2>4. QED
    BY <1>1, <1>2, <1>3, <2>2, <2>3, QuietStep DEF UserPcs
<1>10. ASSUME NEW time \in 0..MaxSleep, SysSleep(p, time) PROVE IInv'
  <2>1. time \in Nat /\ DoSleep(p, time)
    BY <1>10, ProcessAssumption DEF SysSleep
  <2>2. QED
    BY <1>1, <2>1, DoSleepStep
<1>11. QED
  BY <1>4, <1>5, <1>6, <1>7, <1>8, <1>9, <1>10

\* The steps of the kernel.
LEMMA KernelInductive ==
    ASSUME IInv, KernelStep
    PROVE  IInv'
<1>0. sched \in SchedType /\ RoleTypes /\ pc \in [Procs -> Pcs]
  BY DEF IInv, TypeOK, RoleTypes
<1>1. ASSUME NEW p \in Procs, ExitNotify(p) PROVE IInv'
  BY <1>1, ExitNotifyStep
<1>2. ASSUME NEW p \in Procs, WaitReap(p) PROVE IInv'
  BY <1>2, WaitReapStep
<1>3. ASSUME NEW p \in Procs, WaitBlock(p) PROVE IInv'
  <2>1. /\ p = sched.current /\ irq = "none" /\ pc[p] = "wait_scan" /\ irq' = irq
        /\ sched' = [sched EXCEPT !.state[p] = "SLEEPING", !.wait_state[p] = "WT_CHILD"]
        /\ Goto(p, "wait_sched") /\ UNCHANGED << clock, family >> /\ RoleTypes'
    BY <1>0, <1>3 DEF WaitBlock, Running, current, clock, roles, RoleTypes
  <2>2. /\ SchedInv(sched') /\ PcInv' /\ KinInv' /\ ProcessCount'
        /\ sched'.current = p
        /\ "wait_sched" \in Pcs /\ pc' = [pc EXCEPT ![p] = "wait_sched"]
    BY <2>1, BlockStep
  <2>3. TimerInv'
    <3>1. \A r \in Procs : pc'[r] = IF r = p THEN "wait_sched" ELSE pc[r]
      BY <1>0, <2>2
    <3>2. /\ \A r \in Procs : pc[r] \in {"sleep_sched", "sleep_ret"} =>
                                pc'[r] \in {"sleep_sched", "sleep_ret"}
          /\ pc'[sched'.current] # "add_timer"
      BY <2>1, <2>2, <3>1
    <3>3. QED
      BY <2>1, <3>2, SameTimers DEF IInv
  <2>4. TypeOK'
    <3>1. sched' \in SchedType /\ pc' \in [Procs -> Pcs]
      BY <1>0, <2>2 DEF SchedInv
    <3>2. QED
      BY <2>1, <3>1 DEF IInv, TypeOK, RoleTypes, clock, family
  <2>5. QED
    BY <2>2, <2>3, <2>4 DEF IInv
<1>4. ASSUME NEW p \in Procs, WaitResume(p) PROVE IInv'
  <2>1. p = sched.current /\ irq = "none" /\ pc[p] = "wait_ret"
        /\ UNCHANGED << clock, family >> /\ RoleTypes'
    BY <1>0, <1>4 DEF WaitResume, Running, current, RoleTypes, roles
  <2>2. pc[p] \notin ExitPcs \cup SleepPcs \cup {"wait_sched", "idle"} /\ pc[p] \in WaitPcs
    BY <2>1 DEF ExitPcs, SleepPcs, WaitPcs
  <2>3. CASE EnterExit(p)
    BY <2>1, <2>2, <2>3, EnterExitStep
  <2>4. CASE Goto(p, "wait_scan") /\ sched' = sched
    <3>1. SameButSlices(sched, sched')
      BY <1>0, <2>4 DEF SameButSlices
    <3>2. QED
      BY <2>1, <2>2, <2>4, <3>1, QuietStep DEF InitPcs, WaitPcs
  <2>5. QED
    BY <1>4, <2>3, <2>4 DEF WaitResume
<1>5. ASSUME NEW p \in Procs, WaitNone(p) PROVE IInv'
  <2> DEFINE to == IF p = initproc THEN "halted" ELSE ReturnPc(p)
  <2>1. p = sched.current /\ irq = "none" /\ pc[p] = "wait_scan"
        /\ UNCHANGED << clock, family >> /\ RoleTypes' /\ Goto(p, to) /\ sched' = sched
    BY <1>0, <1>5 DEF WaitNone, Running, current, RoleTypes, roles
  <2>2. to \in UserPcs \cup {"kthread", "halted"} /\ (p = initproc => to \in InitPcs)
    BY DEF ReturnPc, UserPcs, InitPcs
  <2>3. SameButSlices(sched, sched')
        /\ pc[p] \notin ExitPcs \cup SleepPcs \cup {"wait_sched", "idle"}
    BY <1>0, <2>1 DEF SameButSlices, ExitPcs, SleepPcs
  <2> HIDE DEF to
  <2>4. QED
    BY <2>1, <2>2, <2>3, QuietStep
<1>6. ASSUME NEW p \in Procs, AddTimer(p) PROVE IInv'
  BY <1>6, AddTimerStep
<1>7. ASSUME NEW p \in Procs, SleepResume(p) PROVE IInv'
  BY <1>7, SleepResumeStep
<1>8. ASSUME NEW p \in Procs, Schedule(p) PROVE IInv'
  <2> DEFINE to == ScheduleCalls[pc[p]]
  <2>1. p = sched.current /\ irq = "none" /\ sched' = schedule(sched)
        /\ pc' = [pc EXCEPT ![p] = to] /\ UNCHANGED << clock, family >> /\ RoleTypes'
    BY <1>0, <1>8 DEF Schedule, current, Goto, RoleTypes, roles
  <2>2. << pc[p], to >> \in ScheduleMoves
    BY <1>8 DEF Schedule, ScheduleCalls, ScheduleMoves
  <2> HIDE DEF to
  <2>3. QED
    BY <2>1, <2>2, ScheduleStep
<1>9. ASSUME NEW p \in Procs, TrapReturn(p) PROVE IInv'
  <2>1. p = sched.current /\ irq = "none" /\ pc[p] = "trapret"
        /\ UNCHANGED << clock, family >> /\ RoleTypes'
    BY <1>0, <1>9 DEF TrapReturn, Running, current, RoleTypes, roles
  <2>2. pc[p] \notin ExitPcs \cup SleepPcs \cup {"wait_sched", "idle"} /\ p # initproc
    BY <2>1 DEF ExitPcs, SleepPcs, IInv, PcInv, InitPcs, WaitPcs
  <2>3. CASE EnterExit(p)
    BY <2>1, <2>2, <2>3, EnterExitStep
  <2>4. CASE sched' = schedule(sched) /\ Goto(p, "user")
    <3>1. << pc[p], "user" >> \in ScheduleMoves /\ pc' = [pc EXCEPT ![p] = "user"]
      BY <2>1, <2>4 DEF ScheduleMoves, Goto
    <3>2. QED
      BY <2>1, <2>4, <3>1, ScheduleStep
  <2>5. CASE sched' = sched /\ Goto(p, "user")
    <3>1. SameButSlices(sched, sched')
      BY <1>0, <2>5 DEF SameButSlices
    <3>2. QED
      BY <2>1, <2>2, <2>5, <3>1, QuietStep DEF UserPcs
  <2>6. QED
    BY <1>9, <2>3, <2>4, <2>5 DEF TrapReturn
<1>10. ASSUME NEW q \in Procs, InitMain(q) PROVE IInv'
  <2>1. /\ initproc = sched.current /\ irq = "none" /\ pc[initproc] = "init_main"
        /\ Fork(initproc, q, TRUE) /\ workers' \in Nat /\ initproc \in Procs
        /\ pc' = [pc EXCEPT ![initproc] = "check_sync", ![q] = "user_main"]
    BY <1>0, <1>10, ProcessAssumption DEF InitMain, Running, current, RoleTypes
  <2>2. QED
    BY <2>1, ForkStep
<1>11. ASSUME NEW q \in Procs, CheckSync(q) PROVE IInv'
  <2>1. /\ initproc = sched.current /\ irq = "none" /\ pc[initproc] = "check_sync"
        /\ Fork(initproc, q, TRUE) /\ initproc \in Procs
        /\ pc' = [pc EXCEPT ![q] = "kthread"]
    BY <1>11, ProcessAssumption DEF CheckSync, Running, current
  <2>2. workers' \in Nat
    BY <1>0, <1>11 DEF CheckSync, RoleTypes
  <2>3. pc' = [pc EXCEPT ![initproc] = "check_sync", ![q] = "kthread"]
    BY <1>0, <2>1
  <2>4. QED
    BY <2>1, <2>2, <2>3, ForkStep
<1>12. ASSUME NEW p \in Procs, UserMain(p) PROVE IInv'
  <2>1. p = sched.current /\ irq = "none" /\ pc[p] = "user_main"
        /\ UNCHANGED << clock, family >> /\ RoleTypes'
    BY <1>0, <1>12 DEF UserMain, Running, current, RoleTypes
  <2>2. pc[p] \notin ExitPcs \cup SleepPcs \cup {"wait_sched", "idle"} /\ p # initproc
    BY <2>1 DEF ExitPcs, SleepPcs, IInv, PcInv, InitPcs, WaitPcs
  <2>3. CASE EnterExit(p)
    BY <2>1, <2>2, <2>3, EnterExitStep
  <2>4. CASE sched' = sched /\ Goto(p, "user")
    <3>1. SameButSlices(sched, sched')
      BY <1>0, <2>4 DEF SameButSlices
    <3>2. QED
      BY <2>1, <2>2, <2>4, <3>1, QuietStep DEF UserPcs
  <2>5. QED
    BY <1>12, <2>3, <2>4 DEF UserMain
<1>13. ASSUME NEW p \in Procs, KthreadReturn(p) PROVE IInv'
  <2>1. p = sched.current /\ irq = "none" /\ pc[p] = "kthread" /\ EnterExit(p)
        /\ UNCHANGED << clock, family >> /\ RoleTypes'
    BY <1>0, <1>13 DEF KthreadReturn, Running, current, RoleTypes, roles
  <2>2. pc[p] \notin ExitPcs \cup SleepPcs \cup {"wait_sched", "idle"} /\ p # initproc
    BY <2>1 DEF ExitPcs, SleepPcs, IInv, PcInv, InitPcs, WaitPcs
  <2>3. QED
    BY <2>1, <2>2, EnterExitStep
<1>14. ASSUME NEW p \in Procs, NEW time \in 1..MaxSleep, KthreadSleep(p, time)
       PROVE  IInv'
  <2>1. p = sched.current /\ irq = "none" /\ pc[p] = "kthread"
        /\ time \in Nat /\ DoSleep(p, time)
    BY <1>14, ProcessAssumption DEF KthreadSleep, Running, current
  <2>2. QED
    BY <2>1, DoSleepStep
<1>15. CASE IdleSchedule
  <2>1. /\ idleproc = sched.current /\ irq = "none" /\ pc[idleproc] = "idle"
        /\ sched' = schedule(sched) /\ idleproc \in Procs
        /\ pc' = [pc EXCEPT ![idleproc] = "idle"]
        /\ UNCHANGED << clock, family >> /\ RoleTypes'
    BY <1>0, <1>15, SchedAssumption DEF IdleSchedule, Running, current, RoleTypes, roles
  <2>2. << pc[idleproc], "idle" >> \in ScheduleMoves
    BY <2>1 DEF ScheduleMoves
  <2>3. QED
    BY <2>1, <2>2, ScheduleStep
<1>16. CASE InitWait
  <2>1. /\ initproc = sched.current /\ irq = "none" /\ pc[initproc] = "check_sync"
        /\ initproc \in Procs /\ Goto(initproc, "wait_scan")
        /\ SameButSlices(sched, sched')
        /\ UNCHANGED << clock, family >> /\ RoleTypes'
    BY <1>0, <1>16, ProcessAssumption
       DEF InitWait, Running, current, RoleTypes, roles, SameButSlices
  <2>2. QED
    BY <2>1, QuietStep DEF ExitPcs, SleepPcs, InitPcs, WaitPcs
<1>17. QED
  BY <1>1, <1>2, <1>3, <1>4, <1>5, <1>6, <1>7, <1>8, <1>9, <1>10, <1>11, <1>12,
     <1>13, <1>14, <1>15, <1>16 DEF KernelStep

\* Every step of the kernel, of a user program and of the timer interrupt
\* preserves the invariant.
LEMMA StepIInv == IInv /\ [Next]_vars => IInv'
<1> SUFFICES ASSUME IInv, [Next]_vars PROVE IInv'
  OBVIOUS
<1>1. CASE UNCHANGED vars
  <2>1. UNCHANGED << sched, clock, family, roles, pc, wait_pid, workers >>
    BY <1>1 DEF vars
  <2>2. ProcessCount'
    BY <2>1, SameCount DEF IInv, family
  <2>3. QED
    BY <2>1, <2>2 DEF IInv, TypeOK, PcInv, KinInv, TimerInv, clock, family, roles
<1>2. CASE UserStep
  BY <1>2, UserInductive
<1>3. CASE KernelStep
  BY <1>3, KernelInductive
<1>4. CASE Tick
  BY <1>4, TickStep
<1>5. CASE IrqStep
  BY <1>5, FireTimerStep, TickEndStep DEF IrqStep
<1>6. CASE Halted
  BY <1>6, <1>1 DEF Halted
<1>7. QED
  BY <1>1, <1>2, <1>3, <1>4, <1>5, <1>6 DEF Next

-----------------------------------------------------------------------------
(* The theorems *)

\* IInv holds in every reachable state.
THEOREM Inductive == Spec => []IInv
<1>1. Init => IInv
  BY InitIInv
<1>2. IInv /\ [Next]_vars => IInv'
  BY StepIInv
<1>3. QED
  BY <1>1, <1>2, PTL DEF Spec

\* Type correctness: among others, no time slice of RR_proc_tick goes below 0,
\* no expires of run_timer_list, and remove_links never counts below 0.
THEOREM TypeCorrect == Spec => []TypeOK
<1>1. IInv => TypeOK
  BY DEF IInv
<1>2. QED
  BY <1>1, Inductive, PTL

\* The run queue of sched.c holds exactly the runnable processes that do not
\* own the CPU, each once.
THEOREM QueueExact == Spec => []RunQueueExact
<1>1. IInv => RunQueueExact
  <2> SUFFICES ASSUME IInv PROVE RunQueueExact
    OBVIOUS
  <2>1. sched.run_list \in Seq(Procs)
    BY DEF IInv, TypeOK, SchedType
  <2>2. \A p \in ToSet(sched.run_list) : p \in Procs
    BY <2>1 DEF ToSet
  <2>3. QED
    BY <2>2 DEF IInv, SchedInv, RunQueueExact, current
<1>2. QED
  BY <1>1, Inductive, PTL

\* The asserts of wakeup_proc, RR_enqueue and run_timer_list hold.
THEOREM AssertsHold == Spec => []NoAssertFails
<1>1. IInv => NoAssertFails
  BY DEF IInv, SchedInv, NoAssertFails
<1>2. QED
  BY <1>1, Inductive, PTL

\* No timer outlives the do_sleep whose stack frame holds it.
THEOREM TimersLive == Spec => []NoDanglingTimer
<1>1. IInv => NoDanglingTimer
  <2> SUFFICES ASSUME IInv, NEW i \in DOMAIN timer_list
               PROVE  /\ pc[timer_list[i].proc] \in SleepPcs
                      /\ sched.state[timer_list[i].proc] \in {"SLEEPING", "RUNNABLE"}
                      /\ \A j \in DOMAIN timer_list :
                           timer_list[j].proc = timer_list[i].proc => i = j
    BY DEF NoDanglingTimer
  <2> DEFINE p == timer_list[i].proc
  <2>1. p \in Procs /\ pc[p] \in {"sleep_sched", "sleep_ret"}
    BY TimerOwners DEF IInv, TimerInv
  <2>2. PcAgrees(sched.state[p], sched.wait_state[p], pc[p])
        /\ sched.state[p] \in ProcStates
    BY <2>1 DEF IInv, PcInv, TypeOK, SchedType
  <2>3. sched.state[p] \in {"SLEEPING", "RUNNABLE"}
    BY <2>1, <2>2 DEF PcAgrees, ExitPcs, ProcStates
  <2>4. QED
    BY <2>1, <2>3 DEF IInv, TimerInv, OnePerProc, SleepPcs
<1>2. QED
  BY <1>1, Inductive, PTL

\* fork, exit and wait keep one family tree whose inner nodes are alive.
THEOREM TreeKept == Spec => []FamilyTree
<1>1. IInv => FamilyTree
  <2> SUFFICES ASSUME IInv PROVE FamilyTree
    OBVIOUS
  <2>1. ASSUME NEW q \in Live \ {idleproc}
        PROVE  /\ parent[q] \in Live
               /\ IsZombie(parent[q]) => Notifying(parent[q])
    <3>1. q \in Procs /\ sched.state[q] # "FREE"
      BY <2>1 DEF Live
    <3>2. pc[q] \notin {"none", "idle"}
      BY <2>1, <3>1 DEF IInv, PcInv, PcAgrees
    <3> DEFINE f == parent[q]
    <3>3. f \in Procs /\ pc[f] \notin {"none", "exit_sched", "dead"}
      BY <3>1, <3>2 DEF IInv, KinInv, TypeOK
    <3>4. PcAgrees(sched.state[f], sched.wait_state[f], pc[f])
      BY <3>3 DEF IInv, PcInv
    <3>5. sched.state[f] # "FREE"
      BY <3>3, <3>4 DEF PcAgrees
    <3>6. ASSUME sched.state[f] = "ZOMBIE"
          PROVE  f = sched.current /\ pc[f] = "exit_notify"
      <4>1. pc[f] = "exit_notify"
        BY <3>3, <3>4, <3>6 DEF PcAgrees, ExitPcs
      <4>2. QED
        BY <4>1, <3>3 DEF IInv, PcInv, RestPcs
    <3>7. QED
      BY <3>3, <3>5, <3>6 DEF Live, IsZombie, Notifying, current
  <2>2. QED
    BY <2>1 DEF IInv, KinInv, FamilyTree
<1>2. QED
  BY <1>1, Inductive, PTL

\* nr_process counts the processes, and never passes MAX_PROCESS.
THEOREM CountExact == Spec => []ProcessCount
<1>1. IInv => ProcessCount
  BY DEF IInv
<1>2. QED
  BY <1>1, Inductive, PTL

\* The panic at the end of do_exit is not reached.
THEOREM ExitFinal == Spec => []DeadStaysOff
<1>1. IInv => DeadStaysOff
  BY DEF IInv, PcInv, DeadStaysOff, current
<1>2. QED
  BY <1>1, Inductive, PTL

-----------------------------------------------------------------------------
(* What a step can do to a sleeper and to its family *)

\* The ways a process can change its state.
StateMove(r) ==
    \/ /\ sched'.state[r] = sched.state[r]
       /\ sched'.wait_state[r] = sched.wait_state[r]
    \/ sched.state[r] = "SLEEPING" /\ sched'.state[r] = "RUNNABLE"
    \/ /\ r = current /\ sched.state[r] = "RUNNABLE"
       /\ sched'.state[r] = "ZOMBIE" /\ Notifying(r)'
    \/ /\ r = current /\ sched.state[r] = "RUNNABLE"
       /\ sched'.state[r] = "SLEEPING"
       /\ \/ sched'.wait_state[r] = "WT_TIMER" /\ Running(r, "add_timer")'
          \/ /\ sched'.wait_state[r] = "WT_CHILD"
             /\ Candidates(r) # <<>>
             /\ \A q \in ToSet(Candidates(r)) : ~IsZombie(q)
    \/ sched.state[r] = "FREE" /\ sched'.state[r] = "RUNNABLE"
    \/ /\ sched.state[r] = "ZOMBIE" /\ sched'.state[r] = "FREE"
       /\ current = parent[r] /\ pc[r] = "dead"
       /\ sched'.state[parent[r]] = "RUNNABLE"

\* No slot is taken.
NoneNew == \A r \in Procs : sched.state[r] = "FREE" => sched'.state[r] = "FREE"

\* q is born as a child of p; the zombie q is collected by its parent.
Birth(p, q) ==
    /\ p # idleproc /\ q # initproc /\ p # q
    /\ sched.state[q] = "FREE" /\ sched.state[p] # "FREE"
    /\ sched'.state[p] = "RUNNABLE" /\ sched'.state[q] = "RUNNABLE"
    /\ parent' = [parent EXCEPT ![q] = p]
    /\ \A r \in Procs \ {p, q} : kids'[r] = kids[r]
    /\ \A r \in Procs \ {q} : sched.state[r] = "FREE" => sched'.state[r] = "FREE"

Collection(q) ==
    /\ q # initproc /\ sched.state[q] = "ZOMBIE" /\ sched'.state[q] = "FREE"
    /\ sched'.state[parent[q]] = "RUNNABLE"
    /\ parent' = [parent EXCEPT ![q] = NULL]
    /\ \A r \in Procs \ {parent[q]} : kids'[r] = kids[r]

\* The ways the family can change.
FamilyMove ==
    \/ parent' = parent /\ kids' = kids /\ NoneNew
    \/ \E p, q \in Procs : Birth(p, q)
    \/ \E p \in Procs : ExitNotify(p) /\ NoneNew
    \/ \E q \in Procs : Collection(q) /\ NoneNew

\* What the sleepers of do_sleep, and the parents in do_wait, keep.
TimerMove ==
    \A r \in Procs : sched'.state[r] = "SLEEPING" =>
      /\ HasTimer(timer_list, r) => HasTimer(timer_list', r)
      /\ Running(r, "add_timer") =>
           Running(r, "add_timer")' \/ HasTimer(timer_list', r)

WaitMove ==
    /\ \A r \in Procs : sched'.state[r] = "SLEEPING" => wait_pid'[r] = wait_pid[r]
    /\ wait_pid'[initproc] \in {wait_pid[initproc], NULL}
    /\ \A q \in Procs : Notifying(q) => Notifying(q)' \/ ExitNotify(q)

\* initproc reaches the end of init_main childless, or the panic of do_exit
\* as the target of a kill.
HaltMove ==
    pc'[initproc] = "halted" =>
      \/ initproc \in exiting'
      \/ /\ pc[initproc] = "wait_scan" /\ Candidates(initproc) = <<>>
         /\ UNCHANGED << sched, family >>

Effects ==
    /\ \A r \in Procs : StateMove(r)
    /\ FamilyMove /\ TimerMove /\ WaitMove /\ HaltMove

\* A process that runs is not initproc in its last state, unless it says so.
LEMMA NotHalted ==
    ASSUME IInv, NEW p \in Procs, p = sched.current, pc[p] # "halted"
    PROVE  pc[initproc] # "halted"
BY ProcessAssumption DEF IInv, PcInv, RestPcs

\* Steps that change neither a state nor a timer nor the family.
LEMMA QuietEffects ==
    ASSUME IInv, NEW p \in Procs, p = sched.current, irq = "none",
           pc[p] \notin {"exit_notify", "add_timer", "halted"},
           SchedInv(sched'),
           sched'.state = sched.state, sched'.wait_state = sched.wait_state,
           UNCHANGED << clock, family >>,
           NEW to, pc' = [pc EXCEPT ![p] = to],
           \/ wait_pid' = wait_pid
           \/ /\ sched.state[p] = "RUNNABLE"
              /\ \E w : /\ wait_pid' = [wait_pid EXCEPT ![p] = w]
                        /\ p = initproc => w = NULL,
           p = initproc /\ to = "halted" =>
             /\ pc[initproc] = "wait_scan" /\ Candidates(initproc) = <<>>
             /\ sched' = sched
    PROVE  Effects
<1>0. /\ wait_pid \in [Procs -> Procs \cup {NULL}] /\ pc \in [Procs -> Pcs]
      /\ initproc \in Procs
  BY ProcessAssumption DEF IInv, TypeOK
<1>1. \A r \in Procs : StateMove(r)
  BY DEF StateMove
<1>2. FamilyMove
  BY DEF FamilyMove, NoneNew, family
<1>3. TimerMove
  BY DEF TimerMove, clock, Running, current
<1>4. WaitMove
  BY <1>0 DEF WaitMove, Notifying, current
<1>5. HaltMove
  BY <1>0, NotHalted DEF HaltMove
<1>6. QED
  BY <1>1, <1>2, <1>3, <1>4, <1>5 DEF Effects

\* do_exit up to the point where the relatives are told.
LEMMA EnterExitEffects ==
    ASSUME IInv, NEW p \in Procs, p = sched.current, irq = "none",
           sched.state[p] = "RUNNABLE", p = initproc => p \in exiting',
           pc[p] \notin {"exit_notify", "add_timer", "halted"},
           EnterExit(p), UNCHANGED << clock, family, wait_pid >>
    PROVE  Effects
<1>0. /\ pc \in [Procs -> Pcs] /\ sched \in SchedType /\ initproc \in Procs
  BY ProcessAssumption DEF IInv, TypeOK
<1>1. CASE p = initproc
  <2>1. sched' = sched /\ pc' = [pc EXCEPT ![p] = "halted"]
    BY <1>1 DEF EnterExit, Goto
  <2>2. \A r \in Procs : StateMove(r)
    BY <2>1 DEF StateMove
  <2>3. FamilyMove
    BY <2>1 DEF FamilyMove, NoneNew, family
  <2>4. TimerMove
    BY <2>1, <1>0 DEF TimerMove, clock, Running, current
  <2>5. WaitMove
    BY <1>0, <2>1 DEF WaitMove, Notifying, current
  <2>6. HaltMove
    BY <1>1 DEF HaltMove
  <2>7. QED
    BY <2>2, <2>3, <2>4, <2>5, <2>6 DEF Effects
<1>2. CASE p # initproc
  <2>1. /\ sched' = [sched EXCEPT !.state[p] = "ZOMBIE"]
        /\ pc' = [pc EXCEPT ![p] = "exit_notify"]
    BY <1>2 DEF EnterExit, Goto
  <2>2. /\ sched'.state = [sched.state EXCEPT ![p] = "ZOMBIE"]
        /\ sched'.wait_state = sched.wait_state /\ sched'.current = p
    BY <1>0, <2>1 DEF SchedType
  <2>3. \A r \in Procs : sched'.state[r] = IF r = p THEN "ZOMBIE" ELSE sched.state[r]
    BY <1>0, <2>2 DEF SchedType
  <2>4. \A r \in Procs : StateMove(r)
    BY <1>0, <2>1, <2>2, <2>3 DEF StateMove, Notifying, current
  <2>5. FamilyMove
    BY <2>3 DEF FamilyMove, NoneNew, family
  <2>6. TimerMove
    BY <2>1, <2>2, <1>0 DEF TimerMove, clock, Running, current
  <2>7. WaitMove
    BY <1>0, <2>1, <2>2 DEF WaitMove, Notifying, current
  <2>8. HaltMove
    BY <1>0, <1>2, <2>1, NotHalted DEF HaltMove
  <2>9. QED
    BY <2>4, <2>5, <2>6, <2>7, <2>8 DEF Effects
<1>3. QED
  BY <1>1, <1>2

\* The running process goes to sleep.
LEMMA BlockEffects ==
    ASSUME IInv, NEW p \in Procs, p = sched.current, irq = "none", irq' = irq,
           sched.state[p] = "RUNNABLE",
           pc[p] \notin {"exit_notify", "add_timer", "halted"},
           NEW ws, NEW to,
           \/ ws = "WT_TIMER" /\ to = "add_timer"
           \/ /\ ws = "WT_CHILD" /\ to = "wait_sched"
              /\ Candidates(p) # <<>>
              /\ \A q \in ToSet(Candidates(p)) : ~IsZombie(q),
           sched' = [sched EXCEPT !.state[p] = "SLEEPING", !.wait_state[p] = ws],
           pc' = [pc EXCEPT ![p] = to], timer_list' = timer_list,
           UNCHANGED << family, wait_pid >>
    PROVE  Effects
<1>0. /\ pc \in [Procs -> Pcs] /\ sched \in SchedType /\ initproc \in Procs
  BY ProcessAssumption DEF IInv, TypeOK
<1>1. /\ sched'.state = [sched.state EXCEPT ![p] = "SLEEPING"]
      /\ sched'.wait_state = [sched.wait_state EXCEPT ![p] = ws]
      /\ sched'.current = p
  BY <1>0 DEF SchedType
<1>2. \A r \in Procs :
        /\ sched'.state[r] = IF r = p THEN "SLEEPING" ELSE sched.state[r]
        /\ sched'.wait_state[r] = IF r = p THEN ws ELSE sched.wait_state[r]
        /\ pc'[r] = IF r = p THEN to ELSE pc[r]
  BY <1>0, <1>1 DEF SchedType
<1>3. \A r \in Procs : StateMove(r)
  BY <1>0, <1>1, <1>2 DEF StateMove, Running, current
<1>4. FamilyMove
  BY <1>2 DEF FamilyMove, NoneNew, family
<1>5. TimerMove
  BY <1>1, <1>2 DEF TimerMove, Running, current
<1>6. WaitMove
  BY <1>0, <1>1, <1>2 DEF WaitMove, Notifying, current
<1>7. HaltMove
  BY <1>0, <1>2, NotHalted DEF HaltMove
<1>8. QED
  BY <1>3, <1>4, <1>5, <1>6, <1>7 DEF Effects

\* do_fork: the new process is runnable and the youngest child of p.
LEMMA ForkEffects ==
    ASSUME IInv, NEW p \in Procs, NEW q \in Procs, NEW k \in BOOLEAN,
           p = sched.current, irq = "none",
           pc[p] \in {"user", "init_main", "check_sync"},
           NEW to \in {"trapret", "check_sync"},
           NEW at \in {"user", "user_main", "kthread"},
           Fork(p, q, k), pc' = [pc EXCEPT ![p] = to, ![q] = at]
    PROVE  Effects
<1>0. /\ sched \in SchedType /\ pc \in [Procs -> Pcs]
      /\ kids \in [Procs -> Seq(Procs)] /\ initproc \in Procs /\ idleproc \in Procs
      /\ sched.state \in [Procs -> ProcStates]
      /\ sched.wait_state \in [Procs -> WaitStates]
  BY ProcessAssumption, SchedAssumption DEF IInv, TypeOK, SchedType
<1>1. sched.state[p] = "RUNNABLE" /\ sched.wait_state[p] = "0"
  BY CurrentRuns DEF ExitPcs
<1>2. /\ p # idleproc /\ sched.state[q] = "FREE" /\ p # q /\ pc[q] = "none"
      /\ pc[initproc] # "halted"
  BY <1>1, NotIdle, NotHalted DEF Fork, IInv, PcInv, PcAgrees
<1>3. q # idleproc /\ q # initproc /\ sched.wait_state[q] = "0"
  <2>1. pc[idleproc] = "idle" /\ pc[initproc] \in InitPcs
    BY DEF IInv, PcInv
  <2>2. sched.wait_state[q] = "0"
    BY <1>2 DEF IInv, SchedInv
  <2>3. QED
    BY <2>1, <2>2, <1>2 DEF InitPcs, WaitPcs
<1> DEFINE s == [sched EXCEPT !.state[q] = "UNINIT", !.wait_state[q] = "0",
                              !.wait_state[p] = "0", !.time_slice[q] = 0,
                              !.need_resched = @ \ {q}]
<1>4. /\ s \in SchedType
      /\ s.current = sched.current /\ s.run_list = sched.run_list
      /\ s.fault = sched.fault /\ s.wait_state = sched.wait_state
      /\ s.state = [sched.state EXCEPT ![q] = "UNINIT"]
  <2>1. /\ sched.time_slice \in [Procs -> 0..MAX_TIME_SLICE]
        /\ sched.need_resched \in SUBSET Procs
    BY <1>0 DEF SchedType
  <2> DEFINE st == [sched.state EXCEPT ![q] = "UNINIT"]
             ts == [sched.time_slice EXCEPT ![q] = 0]
             nr == sched.need_resched \ {q}
  <2>2. /\ st \in [Procs -> ProcStates] /\ nr \in SUBSET Procs
        /\ ts \in [Procs -> 0..MAX_TIME_SLICE]
    BY <1>0, <2>1, SchedAssumption DEF ProcStates
  <2>3. [[sched.wait_state EXCEPT ![q] = "0"] EXCEPT ![p] = "0"] = sched.wait_state
    BY <1>0, <1>1, <1>3
  <2>4. s = [sched EXCEPT !.state = st, !.time_slice = ts, !.need_resched = nr]
    BY <1>0, <2>3 DEF SchedType
  <2> HIDE DEF s, st, ts, nr
  <2>5. QED
    BY <1>0, <2>2, <2>4 DEF SchedType, st
<1>5. SchedInv(s)
  <2> HIDE DEF s
  <2>1. s.state[idleproc] = "RUNNABLE"
    BY <1>3, <1>4, <1>0 DEF IInv, SchedInv
  <2>2. \A r \in Procs : r \in ToSet(s.run_list) <=>
          s.state[r] = "RUNNABLE" /\ r # idleproc /\ r # s.current
    BY <1>0, <1>2, <1>4 DEF IInv, SchedInv
  <2>3. \A r \in Procs : s.wait_state[r] # "0" <=> s.state[r] = "SLEEPING"
    BY <1>0, <1>3, <1>4 DEF IInv, SchedInv
  <2>4. QED
    BY <1>4, <2>1, <2>2, <2>3 DEF IInv, SchedInv
<1>6. sched' = wakeup_proc(s, q)
  BY DEF Fork, alloc_proc
<1> HIDE DEF s
<1>7. s.state[q] = "UNINIT" /\ s.state \in [Procs -> ProcStates]
  BY <1>4, <1>0 DEF SchedType
<1>8. /\ sched'.current = p
      /\ sched'.state = [s.state EXCEPT ![q] = "RUNNABLE"]
      /\ sched'.wait_state = [s.wait_state EXCEPT ![q] = "0"]
  BY <1>3, <1>4, <1>5, <1>6, <1>7, WakeupFacts
<1>9. /\ \A r \in Procs : sched'.state[r] = IF r = q THEN "RUNNABLE" ELSE sched.state[r]
      /\ \A r \in Procs : sched'.wait_state[r] = sched.wait_state[r]
      /\ \A r \in Procs : pc'[r] = IF r = q THEN at ELSE IF r = p THEN to ELSE pc[r]
  BY <1>0, <1>3, <1>4, <1>7, <1>8
<1>10. /\ parent' = [parent EXCEPT ![q] = p]
       /\ \A r \in Procs \ {p, q} : kids'[r] = kids[r]
       /\ UNCHANGED clock /\ wait_pid' = wait_pid
  BY <1>0 DEF Fork, set_links
<1>11. \A r \in Procs : StateMove(r)
  BY <1>2, <1>9 DEF StateMove
<1>12. FamilyMove
  <2>1. Birth(p, q)
    BY <1>1, <1>2, <1>3, <1>9, <1>10 DEF Birth
  <2>2. QED
    BY <2>1 DEF FamilyMove
<1>13. TimerMove
  BY <1>8, <1>10 DEF TimerMove, clock, Running, current
<1>14. WaitMove
  BY <1>0, <1>10 DEF WaitMove, Notifying, current
<1>15. HaltMove
  BY <1>0, <1>2, <1>3, <1>9 DEF HaltMove
<1>16. QED
  BY <1>11, <1>12, <1>13, <1>14, <1>15 DEF Effects

\* do_wait collects a zombie.
LEMMA WaitReapEffects ==
    ASSUME IInv, NEW p \in Procs, WaitReap(p)
    PROVE  Effects
<1>0. /\ sched \in SchedType /\ pc \in [Procs -> Pcs]
      /\ kids \in [Procs -> Seq(Procs)] /\ parent \in [Procs -> Procs \cup {NULL}]
      /\ wait_pid \in [Procs -> Procs \cup {NULL}] /\ initproc \in Procs
      /\ sched.state \in [Procs -> ProcStates]
  BY ProcessAssumption DEF IInv, TypeOK, SchedType
<1>1. p = sched.current /\ irq = "none" /\ pc[p] = "wait_scan"
  BY DEF WaitReap, Running, current
<1>2. sched.state[p] = "RUNNABLE" /\ pc[initproc] # "halted"
  BY <1>1, CurrentRuns, NotHalted DEF ExitPcs
<1>3. PICK i \in DOMAIN Candidates(p) :
        LET q == Candidates(p)[i]
        IN  /\ IsZombie(q)
            /\ sched' = [sched EXCEPT !.state[q] = "FREE",
                                      !.time_slice[q] = 0,
                                      !.need_resched = @ \ {q}]
            /\ parent' = [parent EXCEPT ![q] = NULL]
            /\ kids' = [kids EXCEPT ![p] = RemoveFirst(@, q)]
            /\ pc' = [pc EXCEPT ![p] = ReturnPc(p), ![q] = "none"]
            /\ wait_pid' = [wait_pid EXCEPT ![p] = NULL, ![q] = NULL]
  BY DEF WaitReap, remove_links
<1> DEFINE q == Candidates(p)[i]
<1>4. q \in Procs /\ parent[q] = p
  <2>1. CASE wait_pid[p] = NULL
    <3>1. q \in ToSet(kids[p]) /\ kids[p] \in Seq(Procs)
      BY <1>0, <1>3, <2>1 DEF Candidates, ToSet
    <3>2. q \in Procs
      BY <3>1 DEF ToSet
    <3>3. QED
      BY <3>1, <3>2 DEF IInv, KinInv
  <2>2. CASE wait_pid[p] # NULL
    <3>1. wait_pid[p] \in Procs
      BY <1>0, <2>2
    <3>2. Candidates(p) = << wait_pid[p] >> /\ parent[wait_pid[p]] = p
      BY <1>3, <2>2 DEF Candidates
    <3>3. q = wait_pid[p]
      BY <1>3, <3>2
    <3>4. QED
      BY <3>1, <3>2, <3>3
  <2>3. QED
    BY <2>1, <2>2
<1>5. sched.state[q] = "ZOMBIE"
  BY <1>3 DEF IsZombie
<1>6. q # p /\ q # initproc /\ pc[q] = "dead"
  <2>1. pc[q] \in ExitPcs
    BY <1>4, <1>5 DEF IInv, PcInv, PcAgrees
  <2>2. q # p
    BY <1>2, <1>5
  <2>3. QED
    BY <2>1, <2>2, <1>1, <1>4 DEF IInv, PcInv, InitPcs, WaitPcs, ExitPcs, RestPcs
<1>7. /\ sched' = [sched EXCEPT !.state[q] = "FREE", !.time_slice[q] = 0,
                                !.need_resched = @ \ {q}]
      /\ parent' = [parent EXCEPT ![q] = NULL]
      /\ kids' = [kids EXCEPT ![p] = RemoveFirst(kids[p], q)]
      /\ pc' = [[pc EXCEPT ![p] = ReturnPc(p)] EXCEPT ![q] = "none"]
      /\ wait_pid' = [[wait_pid EXCEPT ![p] = NULL] EXCEPT ![q] = NULL]
      /\ UNCHANGED << clock, workers >>
  BY <1>0, <1>3 DEF WaitReap
<1> HIDE DEF q
<1>8. /\ sched'.current = p
      /\ sched'.state = [sched.state EXCEPT ![q] = "FREE"]
      /\ sched'.wait_state = sched.wait_state
  BY <1>0, <1>1, <1>7 DEF SchedType
<1>9. /\ \A r \in Procs : sched'.state[r] = IF r = q THEN "FREE" ELSE sched.state[r]
      /\ \A r \in Procs \ {p} : kids'[r] = kids[r]
      /\ \A r \in Procs \ {p, q} : wait_pid'[r] = wait_pid[r]
      /\ wait_pid'[p] = NULL /\ wait_pid'[q] = NULL
      /\ \A r \in Procs \ {p, q} : pc'[r] = pc[r]
      /\ pc'[p] = ReturnPc(p)
  BY <1>0, <1>4, <1>6, <1>7, <1>8
<1>10. \A r \in Procs : StateMove(r)
  BY <1>1, <1>2, <1>4, <1>5, <1>6, <1>8, <1>9 DEF StateMove, current
<1>11. FamilyMove
  <2>1. Collection(q) /\ NoneNew
    BY <1>2, <1>4, <1>5, <1>6, <1>7, <1>9 DEF Collection, NoneNew
  <2>2. QED
    BY <1>4, <2>1 DEF FamilyMove
<1>12. TimerMove
  BY <1>7, <1>8, <1>9, <1>1, <1>2 DEF TimerMove, clock, Running, current
<1>13. WaitMove
  <2>1. \A r \in Procs : sched'.state[r] = "SLEEPING" => wait_pid'[r] = wait_pid[r]
    BY <1>2, <1>5, <1>6, <1>9
  <2>2. wait_pid'[initproc] \in {wait_pid[initproc], NULL}
    BY <1>0, <1>9
  <2>3. \A r \in Procs : ~Notifying(r)
    BY <1>1 DEF Notifying, current
  <2>4. QED
    BY <2>1, <2>2, <2>3 DEF WaitMove
<1>14. HaltMove
  BY <1>0, <1>2, <1>6, <1>9 DEF HaltMove, ReturnPc
<1>15. QED
  BY <1>10, <1>11, <1>12, <1>13, <1>14 DEF Effects

\* Wakeups leave everybody's children alone.
LEMMA WokenMoves ==
    ASSUME Woken(sched, sched')
    PROVE  (\A r \in Procs : StateMove(r)) /\ NoneNew
BY DEF Woken, StateMove, NoneNew

\* do_exit wakes the parent, and initproc for a zombie it inherits.
LEMMA ExitWakes ==
    ASSUME IInv, NEW p \in Procs, ExitNotify(p)
    PROVE  /\ Woken(sched, sched')
           /\ sched.wait_state[parent[p]] = "WT_CHILD" =>
                sched'.state[parent[p]] = "RUNNABLE"
           /\ \A c \in ToSet(kids[p]) :
                sched'.state[c] = "ZOMBIE" => sched'.wait_state[initproc] # "WT_CHILD"
<1> DEFINE f == parent[p]
           told == IF sched.wait_state[f] = "WT_CHILD"
                     THEN wakeup_proc(sched, f) ELSE sched
           zombies == {c \in ToSet(kids[p]) : told.state[c] = "ZOMBIE"}
<1>0. /\ parent \in [Procs -> Procs \cup {NULL}] /\ initproc \in Procs
      /\ kids[p] \in Seq(Procs)
  BY ProcessAssumption DEF IInv, TypeOK
<1>1. pc[p] = "exit_notify"
  BY DEF ExitNotify, Running
<1>2. f \in Procs
  BY <1>0, <1>1 DEF IInv, KinInv
<1>3. /\ Woken(sched, told)
      /\ sched.wait_state[f] = "WT_CHILD" => told.state[f] = "RUNNABLE"
  <2>1. CASE sched.wait_state[f] = "WT_CHILD"
    BY <2>1, <1>2, WakeWaiter DEF IInv
  <2>2. CASE sched.wait_state[f] # "WT_CHILD"
    BY <2>2 DEF IInv, Woken
  <2>3. QED
    BY <2>1, <2>2
<1>4. sched' = IF zombies # {} /\ told.wait_state[initproc] = "WT_CHILD"
                 THEN wakeup_proc(told, initproc) ELSE told
  BY DEF ExitNotify
<1> HIDE DEF told
<1>5. CASE zombies # {} /\ told.wait_state[initproc] = "WT_CHILD"
  <2>1. Woken(told, sched') /\ sched'.state[initproc] = "RUNNABLE"
    BY <1>0, <1>3, <1>4, <1>5, WakeWaiter DEF Woken
  <2>2. sched'.wait_state[initproc] # "WT_CHILD"
    BY <1>0, <2>1 DEF Woken, SchedInv
  <2>3. QED
    BY <1>2, <1>3, <2>1, <2>2 DEF Woken
<1>6. CASE ~(zombies # {} /\ told.wait_state[initproc] = "WT_CHILD")
  BY <1>3, <1>4, <1>6
<1>7. QED
  BY <1>5, <1>6

\* The second half of do_exit.
LEMMA ExitNotifyEffects ==
    ASSUME IInv, NEW p \in Procs, ExitNotify(p)
    PROVE  Effects
<1>0. pc \in [Procs -> Pcs] /\ initproc \in Procs
  BY ProcessAssumption DEF IInv, TypeOK
<1>1. p = sched.current /\ irq = "none" /\ pc[p] = "exit_notify"
      /\ pc' = [pc EXCEPT ![p] = "exit_sched"]
      /\ UNCHANGED << clock, wait_pid >>
  BY DEF ExitNotify, Running, current, Goto
<1>2. pc[initproc] # "halted"
  BY <1>1, NotHalted
<1>3. (\A r \in Procs : StateMove(r)) /\ NoneNew /\ sched'.current = sched.current
  BY ExitWakes, WokenMoves DEF Woken
<1>4. FamilyMove
  BY <1>3 DEF FamilyMove
<1>5. TimerMove
  BY <1>1 DEF TimerMove, clock, Running, current
<1>6. WaitMove
  BY <1>1 DEF WaitMove, Notifying, current
<1>7. HaltMove
  BY <1>0, <1>1, <1>2 DEF HaltMove
<1>8. QED
  BY <1>3, <1>4, <1>5, <1>6, <1>7 DEF Effects

\* do_kill.
LEMMA KillEffects ==
    ASSUME IInv, NEW p \in Procs, NEW q \in KillTargets, SysKill(p, q)
    PROVE  Effects
<1>0. pc \in [Procs -> Pcs] /\ initproc \in Procs /\ q \in Procs
  BY ProcessAssumption DEF IInv, TypeOK
<1>1. p = sched.current /\ irq = "none" /\ pc[p] = "user"
      /\ pc' = [pc EXCEPT ![p] = "trapret"]
      /\ UNCHANGED << clock, family, wait_pid >>
  BY DEF SysKill, Running, current, Goto
<1>2. pc[initproc] # "halted"
  BY <1>1, NotHalted
<1>3. Woken(sched, sched')
  <2>1. CASE sched' = sched
    BY <2>1 DEF IInv, Woken
  <2>2. CASE sched' = wakeup_proc(sched, q) /\ sched.wait_state[q] \in WT_INTERRUPTED
    BY <2>2, <1>0, WakeWaiter DEF IInv, WT_INTERRUPTED
  <2>3. QED
    BY <2>1, <2>2 DEF SysKill
<1>4. (\A r \in Procs : StateMove(r)) /\ NoneNew
  BY <1>3, WokenMoves
<1>5. FamilyMove
  BY <1>1, <1>4 DEF FamilyMove, family
<1>6. TimerMove
  BY <1>1 DEF TimerMove, clock, Running, current
<1>7. WaitMove
  BY <1>1 DEF WaitMove, Notifying, current
<1>8. HaltMove
  BY <1>0, <1>1, <1>2 DEF HaltMove
<1>9. QED
  BY <1>4, <1>5, <1>6, <1>7, <1>8 DEF Effects

\* Steps that touch timers, time slices and pc.
LEMMA ClockEffects ==
    ASSUME IInv, SameButSlices(sched, sched'),
           pc[initproc] # "halted", pc'[initproc] # "halted",
           \A q \in Procs : pc[q] = "exit_notify" => pc'[q] = "exit_notify",
           TimerMove, UNCHANGED << family, wait_pid >>
    PROVE  Effects
<1>1. \A r \in Procs : StateMove(r)
  BY DEF StateMove, SameButSlices
<1>2. FamilyMove
  BY DEF FamilyMove, NoneNew, family, SameButSlices
<1>3. WaitMove
  BY DEF WaitMove, Notifying, current, SameButSlices
<1>4. HaltMove
  BY DEF HaltMove
<1>5. QED
  BY <1>1, <1>2, <1>3, <1>4 DEF Effects

\* add_timer: when its loop ends the sleeper has its timer.
LEMMA AddTimerEffects ==
    ASSUME IInv, NEW p \in Procs, AddTimer(p)
    PROVE  Effects
<1>0. /\ sched \in SchedType /\ pc \in [Procs -> Pcs] /\ initproc \in Procs
      /\ timer_list \in Seq(TimersOf(Procs)) /\ cursor \in [at : Nat, left : Nat]
  BY TimerOwners, ProcessAssumption DEF IInv, TypeOK
<1>1. p = sched.current /\ irq = "none" /\ pc[p] = "add_timer"
      /\ irq' = irq /\ sched' = sched
      /\ UNCHANGED << family, roles, wait_pid, workers >>
  BY DEF AddTimer, Running, current
<1>2. /\ cursor.at \in 1..Len(timer_list) + 1
      /\ pc[initproc] # "halted" /\ p # initproc
      /\ SameButSlices(sched, sched')
  BY <1>0, <1>1, NotHalted DEF IInv, TimerInv, PcInv, InitPcs, WaitPcs, SameButSlices
<1>3. CASE WalkDone(timer_list, cursor)
  <2> DEFINE new == insert_timer(timer_list, cursor, p)
  <2>1. timer_list' = new /\ pc' = [pc EXCEPT ![p] = "sleep_sched"]
    BY <1>3 DEF AddTimer, Goto
  <2>2. /\ new \in Seq(TimersOf(Procs))
        /\ Len(new) = Len(timer_list) + 1
        /\ new[cursor.at].proc = p
        /\ \A i \in 1..cursor.at - 1 : new[i].proc = timer_list[i].proc
        /\ \A i \in cursor.at + 1..Len(new) : new[i].proc = timer_list[i - 1].proc
    BY <1>0, <1>2, <1>3, InsertFacts
  <2> HIDE DEF new
  <2>3. HasTimer(new, p)
    BY <1>0, <1>2, <2>2 DEF HasTimer
  <2>4. ASSUME NEW r \in Procs, HasTimer(timer_list, r) PROVE HasTimer(new, r)
    <3>1. PICK i \in 1..Len(timer_list) : timer_list[i].proc = r
      BY <2>4, <1>0 DEF HasTimer
    <3>2. CASE i < cursor.at
      <4>1. i \in 1..cursor.at - 1 /\ i \in DOMAIN new
        BY <1>0, <1>2, <2>2, <3>2
      <4>2. QED
        BY <4>1, <2>2, <3>1 DEF HasTimer
    <3>3. CASE i >= cursor.at
      <4>1. i + 1 \in cursor.at + 1..Len(new) /\ i + 1 \in DOMAIN new /\ i + 1 - 1 = i
        BY <1>0, <1>2, <2>2, <3>3
      <4>2. new[i + 1].proc = r
        BY <4>1, <2>2, <3>1
      <4>3. QED
        BY <4>1, <4>2 DEF HasTimer
    <3>4. QED
      BY <3>2, <3>3, <1>0, <1>2
  <2>5. TimerMove
    BY <1>1, <2>1, <2>3, <2>4 DEF TimerMove, Running, current
  <2>6. /\ pc'[initproc] # "halted"
        /\ \A q \in Procs : pc[q] = "exit_notify" => pc'[q] = "exit_notify"
    BY <1>0, <1>1, <1>2, <2>1
  <2>7. QED
    BY <1>1, <1>2, <2>5, <2>6, ClockEffects
<1>4. CASE ~WalkDone(timer_list, cursor)
  <2>1. timer_list' = timer_list /\ pc' = pc
    BY <1>4 DEF AddTimer
  <2>2. TimerMove
    BY <1>1, <2>1 DEF TimerMove, Running, current
  <2>3. QED
    BY <1>1, <1>2, <2>1, <2>2, ClockEffects
<1>5. QED
  BY <1>3, <1>4

\* The end of do_sleep: the process takes its own timer out, nobody else's.
LEMMA SleepResumeEffects ==
    ASSUME IInv, NEW p \in Procs, SleepResume(p)
    PROVE  Effects
<1>0. /\ sched \in SchedType /\ pc \in [Procs -> Pcs] /\ initproc \in Procs
      /\ timer_list \in Seq(TimersOf(Procs)) /\ OnePerProc(timer_list)
  BY TimerOwners, ProcessAssumption DEF IInv, TypeOK, TimerInv
<1>1. /\ p = sched.current /\ irq = "none" /\ pc[p] = "sleep_ret"
      /\ irq' = irq /\ sched' = sched
      /\ timer_list' = del_timer(timer_list, p)
      /\ pc' = [pc EXCEPT ![p] = ReturnPc(p)]
      /\ UNCHANGED << family, roles, wait_pid, workers >>
  BY DEF SleepResume, Running, current, Goto
<1>2. /\ pc[initproc] # "halted" /\ p # initproc
      /\ SameButSlices(sched, sched') /\ sched.state[p] = "RUNNABLE"
  BY <1>0, <1>1, NotHalted DEF IInv, PcInv, InitPcs, WaitPcs, SameButSlices
<1>3. \A r \in Procs \ {p} : HasTimer(timer_list, r) => HasTimer(timer_list', r)
  BY <1>0, <1>1, DeleteFacts
<1>4. TimerMove
  BY <1>1, <1>2, <1>3 DEF TimerMove, Running, current
<1>5. /\ pc'[initproc] # "halted"
      /\ \A q \in Procs : pc[q] = "exit_notify" => pc'[q] = "exit_notify"
  BY <1>0, <1>1, <1>2
<1>6. QED
  BY <1>1, <1>2, <1>4, <1>5, ClockEffects

\* The tick counts the head of the list down.
LEMMA TickEffects ==
    ASSUME IInv, Tick
    PROVE  Effects
<1>0. /\ sched \in SchedType /\ pc \in [Procs -> Pcs] /\ initproc \in Procs
      /\ sched.current \in Procs /\ timer_list \in Seq(TimersOf(Procs))
  BY TimerOwners, ProcessAssumption DEF IInv, TypeOK, SchedType
<1>1. /\ irq = "none" /\ pc[sched.current] \notin {"halted", "add_timer"}
      /\ timer_list' = tick_timer(timer_list)
      /\ UNCHANGED << family, roles, pc, wait_pid, workers >>
  BY DEF Tick, InterruptsOn, current
<1>2. ~HeadExpired(timer_list)
  BY <1>1 DEF IInv, TimerInv
<1>3. /\ Len(timer_list') = Len(timer_list)
      /\ \A i \in 1..Len(timer_list) : timer_list'[i].proc = timer_list[i].proc
      /\ timer_list' \in Seq(TimersOf(Procs))
  BY <1>0, <1>1, <1>2, TickFacts
<1>4. sched' = sched
  <2>1. sched' = Checked(sched, ~HeadExpired(timer_list'), "run_timer_list") \/ sched' = sched
    BY <1>2 DEF Tick, Checked
  <2>2. QED
    BY <1>2 DEF Tick, Checked
<1>5. SameButSlices(sched, sched') /\ pc[initproc] # "halted"
  BY <1>0, <1>1, <1>4, NotHalted DEF SameButSlices
<1>6. TimerMove
  BY <1>0, <1>1, <1>3 DEF TimerMove, Running, current, HasTimer
<1>7. QED
  BY <1>1, <1>5, <1>6, ClockEffects

\* A timer that fires wakes its process.
LEMMA FireTimerEffects ==
    ASSUME IInv, FireTimer
    PROVE  Effects
<1> DEFINE p == timer_list[1].proc
<1>0. /\ timer_list \in Seq(TimersOf(Procs)) /\ timer_list # <<>>
      /\ \A i \in DOMAIN timer_list : timer_list[i].proc \in Procs
      /\ irq = "timer" /\ OnePerProc(timer_list) /\ sched.current \in Procs
  BY TimerOwners DEF IInv, TimerInv, FireTimer, HeadExpired, TypeOK, SchedType
<1>1. 1 \in DOMAIN timer_list /\ p \in Procs
      /\ pc[p] \in {"sleep_sched", "sleep_ret"}
  BY <1>0 DEF IInv, TimerInv
<1>2. /\ p # idleproc /\ sched.state[p] \in {"SLEEPING", "RUNNABLE"}
      /\ sched.wait_state[p] \in WT_INTERRUPTED \cup {"0"}
  <2>1. PcAgrees(sched.state[p], sched.wait_state[p], pc[p])
    BY <1>1 DEF IInv, PcInv
  <2>2. sched.state[p] \in ProcStates /\ sched.wait_state[p] \in WaitStates
    BY <1>1 DEF IInv, TypeOK, SchedType
  <2>3. QED
    BY <1>1, <2>1, <2>2 DEF IInv, PcInv, PcAgrees, ExitPcs, ProcStates,
                            WaitStates, WT_INTERRUPTED
<1>3. /\ sched' = wakeup_proc(sched, p)
      /\ timer_list' = del_timer(timer_list, p)
      /\ UNCHANGED << cursor, irq, family, roles, pc, wait_pid, workers >>
  BY <1>2 DEF FireTimer, Checked
<1> HIDE DEF p
<1>4. Woken(sched, sched') /\ sched'.state[p] = "RUNNABLE"
  BY <1>1, <1>2, <1>3, WakeSleeper DEF IInv
<1>5. \A r \in Procs \ {p} : HasTimer(timer_list, r) => HasTimer(timer_list', r)
  BY <1>0, <1>1, <1>3, DeleteFacts
<1>6. (\A r \in Procs : StateMove(r)) /\ NoneNew
  BY <1>4, WokenMoves
<1>7. FamilyMove
  BY <1>3, <1>6 DEF FamilyMove, family
<1>8. TimerMove
  BY <1>0, <1>3, <1>4, <1>5 DEF TimerMove, Running, current
<1>9. WaitMove
  BY <1>3, <1>4 DEF WaitMove, Notifying, current, Woken
<1>10. HaltMove
  <2>1. pc[sched.current] # "halted"
    BY <1>0 DEF IInv, PcInv
  <2>2. pc[initproc] # "halted"
    BY <1>0, <2>1, NotHalted
  <2>3. QED
    BY <1>3, <2>2 DEF HaltMove
<1>11. QED
  BY <1>6, <1>7, <1>8, <1>9, <1>10 DEF Effects

\* The end of the timer interrupt.
LEMMA TickEndEffects ==
    ASSUME IInv, TickEnd
    PROVE  Effects
<1>0. /\ sched \in SchedType /\ pc \in [Procs -> Pcs] /\ initproc \in Procs
      /\ sched.current \in Procs
  BY ProcessAssumption DEF IInv, TypeOK, SchedType
<1>1. /\ irq = "timer" /\ timer_list' = timer_list
      /\ UNCHANGED << family, roles, wait_pid, workers >>
      /\ SameButSlices(sched, sched')
  BY <1>0, ProcTickFacts DEF TickEnd, current
<1>2. pc[sched.current] # "halted" /\ pc[initproc] # "halted"
  BY <1>0, <1>1, NotHalted DEF IInv, PcInv
<1>3. \A q \in Procs : pc'[q] = IF pc[sched.current] = "user" /\ q = sched.current
                                  THEN "trapret" ELSE pc[q]
  BY <1>0 DEF TickEnd, Goto, current
<1>4. TimerMove
  BY <1>1 DEF TimerMove, Running
<1>5. QED
  BY <1>0, <1>1, <1>2, <1>3, <1>4, ClockEffects

\* do_sleep.
LEMMA DoSleepEffects ==
    ASSUME IInv, NEW p \in Procs, NEW time,
           p = sched.current, irq = "none", pc[p] \in {"user", "kthread"},
           DoSleep(p, time)
    PROVE  Effects
<1>1. /\ p # initproc /\ sched.state[p] = "RUNNABLE"
      /\ pc[p] \notin {"exit_notify", "add_timer", "halted"}
  BY CurrentRuns DEF ExitPcs, IInv, PcInv, InitPcs, WaitPcs
<1>2. CASE time = 0
  <2>1. sched' = sched /\ pc' = [pc EXCEPT ![p] = ReturnPc(p)]
        /\ UNCHANGED << clock, family >> /\ wait_pid' = wait_pid
    BY <1>2 DEF DoSleep, Goto, clock
  <2>2. SchedInv(sched')
    BY <2>1 DEF IInv
  <2>3. QED
    BY <1>1, <2>1, <2>2, QuietEffects
<1>3. CASE time # 0
  <2>1. /\ sched' = [sched EXCEPT !.state[p] = "SLEEPING", !.wait_state[p] = "WT_TIMER"]
        /\ pc' = [pc EXCEPT ![p] = "add_timer"] /\ timer_list' = timer_list
        /\ irq' = irq /\ UNCHANGED << family, wait_pid >>
    BY <1>3 DEF DoSleep, Goto
  <2>2. QED
    BY <1>1, <2>1, BlockEffects
<1>4. QED
  BY <1>2, <1>3

\* The system calls of a user program.
LEMMA UserEffects ==
    ASSUME IInv, UserStep
    PROVE  Effects
<1> PICK p \in Procs :
      \/ \E q \in Procs : SysFork(p, q)
      \/ SysForkFails(p)
      \/ SysExit(p)
      \/ \E pid \in (Procs \ {idleproc}) \cup {NULL} : SysWait(p, pid)
      \/ \E q \in KillTargets : SysKill(p, q)
      \/ SysYield(p)
      \/ \E time \in 0..MaxSleep : SysSleep(p, time)
  BY DEF UserStep
<1>0. sched \in SchedType /\ SchedInv(sched)
  BY DEF IInv, TypeOK
<1>1. SUFFICES ASSUME p = sched.current, irq = "none", pc[p] = "user" PROVE Effects
  BY DEF SysFork, SysForkFails, SysExit, SysWait, SysKill, SysYield, SysSleep,
         Running, current
<1>2. p # initproc /\ sched.state[p] = "RUNNABLE"
  BY <1>1, CurrentRuns DEF IInv, PcInv, InitPcs, WaitPcs, ExitPcs
<1>3. ASSUME NEW q \in Procs, SysFork(p, q) PROVE Effects
  <2>1. Fork(p, q, FALSE) /\ pc' = [pc EXCEPT ![p] = "trapret", ![q] = "user"]
    BY <1>3 DEF SysFork
  <2>2. QED
    BY <1>1, <2>1, ForkEffects
<1>4. CASE SysForkFails(p)
  <2>1. sched' = sched /\ pc' = [pc EXCEPT ![p] = "trapret"]
        /\ UNCHANGED << clock, family >> /\ wait_pid' = wait_pid
    BY <1>4 DEF SysForkFails, Goto
  <2>2. QED
    BY <1>0, <1>1, <1>2, <2>1, QuietEffects
<1>5. CASE SysExit(p)
  <2>1. EnterExit(p) /\ UNCHANGED << clock, family, wait_pid >>
    BY <1>5 DEF SysExit
  <2>2. QED
    BY <1>1, <1>2, <2>1, EnterExitEffects
<1>6. ASSUME NEW pid, SysWait(p, pid) PROVE Effects
  <2>1. sched' = sched /\ pc' = [pc EXCEPT ![p] = "wait_scan"]
        /\ wait_pid' = [wait_pid EXCEPT ![p] = pid] /\ UNCHANGED << clock, family >>
    BY <1>6 DEF SysWait, Goto
  <2>2. QED
    BY <1>0, <1>1, <1>2, <2>1, QuietEffects
<1>7. ASSUME NEW q \in KillTargets, SysKill(p, q) PROVE Effects
  BY <1>7, KillEffects
<1>8. CASE SysYield(p)
  <2>1. sched' = [sched EXCEPT !.need_resched = sched.need_resched \cup {p}]
    BY <1>0, <1>8 DEF SysYield, SchedType
  <2>2. /\ sched'.state = sched.state /\ sched'.wait_state = sched.wait_state
        /\ SchedInv(sched')
    <3>1. /\ sched' \in SchedType /\ sched'.current = sched.current
          /\ sched'.state = sched.state /\ sched'.wait_state = sched.wait_state
          /\ sched'.run_list = sched.run_list /\ sched'.fault = sched.fault
      BY <1>0, <2>1 DEF SchedType
    <3>2. QED
      BY <1>0, <3>1 DEF SchedInv
  <2>3. pc' = [pc EXCEPT ![p] = "trapret"]
        /\ UNCHANGED << clock, family >> /\ wait_pid' = wait_pid
    BY <1>8 DEF SysYield, Goto
  <2>4. QED
    BY <1>1, <1>2, <2>2, <2>3, QuietEffects
<1>9. ASSUME NEW time, SysSleep(p, time) PROVE Effects
  <2>1. DoSleep(p, time)
    BY <1>9 DEF SysSleep
  <2>2. QED
    BY <1>1, <2>1, DoSleepEffects
<1>10. QED
  BY <1>3, <1>4, <1>5, <1>6, <1>7, <1>8, <1>9

\* The steps of the kernel.
LEMMA KernelEffects ==
    ASSUME IInv, KernelStep
    PROVE  Effects
<1>0. /\ sched \in SchedType /\ SchedInv(sched) /\ pc \in [Procs -> Pcs]
      /\ initproc \in Procs /\ idleproc \in Procs /\ initproc # idleproc
  BY ProcessAssumption, SchedAssumption DEF IInv, TypeOK
<1>a. \A p \in Procs : p = initproc =>
        pc[p] \notin {"user", "trapret", "kthread", "user_main", "idle", "exit_sched"}
  BY DEF IInv, PcInv, InitPcs, WaitPcs
<1>b. /\ SchedInv(schedule(sched))
      /\ schedule(sched).state = sched.state
      /\ schedule(sched).wait_state = sched.wait_state
  BY <1>0, ScheduleFacts
<1>1. ASSUME NEW p \in Procs, ExitNotify(p) PROVE Effects
  BY <1>1, ExitNotifyEffects
<1>2. ASSUME NEW p \in Procs, WaitReap(p) PROVE Effects
  BY <1>2, WaitReapEffects
<1>3. ASSUME NEW p \in Procs, WaitBlock(p) PROVE Effects
  <2>1. /\ p = sched.current /\ irq = "none" /\ pc[p] = "wait_scan" /\ irq' = irq
        /\ sched' = [sched EXCEPT !.state[p] = "SLEEPING", !.wait_state[p] = "WT_CHILD"]
        /\ pc' = [pc EXCEPT ![p] = "wait_sched"] /\ timer_list' = timer_list
        /\ UNCHANGED << family, wait_pid >>
    BY <1>3 DEF WaitBlock, Running, current, clock, Goto
  <2>2. Candidates(p) # <<>> /\ \A q \in ToSet(Candidates(p)) : ~IsZombie(q)
    BY <1>3 DEF WaitBlock, ToSet
  <2>3. sched.state[p] = "RUNNABLE"
    BY <2>1, CurrentRuns DEF ExitPcs
  <2>4. QED
    BY <2>1, <2>2, <2>3, BlockEffects
<1>4. ASSUME NEW p \in Procs, WaitResume(p) PROVE Effects
  <2>1. p = sched.current /\ irq = "none" /\ pc[p] = "wait_ret"
        /\ UNCHANGED << clock, family, wait_pid, exiting >>
    BY <1>4 DEF WaitResume, Running, current, roles
  <2>2. sched.state[p] = "RUNNABLE"
    BY <2>1, CurrentRuns DEF ExitPcs
  <2>3. CASE p \in exiting /\ EnterExit(p)
    BY <2>1, <2>2, <2>3, EnterExitEffects
  <2>4. CASE Goto(p, "wait_scan") /\ sched' = sched
    BY <1>0, <2>1, <2>4, QuietEffects DEF Goto
  <2>5. QED
    BY <1>4, <2>3, <2>4 DEF WaitResume
<1>5. ASSUME NEW p \in Procs, WaitNone(p) PROVE Effects
  <2> DEFINE to == IF p = initproc THEN "halted" ELSE ReturnPc(p)
  <2>1. /\ p = sched.current /\ irq = "none" /\ pc[p] = "wait_scan"
        /\ Candidates(p) = <<>> /\ sched' = sched
        /\ pc' = [pc EXCEPT ![p] = to] /\ wait_pid' = [wait_pid EXCEPT ![p] = NULL]
        /\ UNCHANGED << clock, family >>
    BY <1>5 DEF WaitNone, Running, current, Goto
  <2>2. sched.state[p] = "RUNNABLE"
    BY <2>1, CurrentRuns DEF ExitPcs
  <2> HIDE DEF to
  <2>3. QED
    BY <1>0, <2>1, <2>2, QuietEffects
<1>6. ASSUME NEW p \in Procs, AddTimer(p) PROVE Effects
  BY <1>6, AddTimerEffects
<1>7. ASSUME NEW p \in Procs, SleepResume(p) PROVE Effects
  BY <1>7, SleepResumeEffects
<1>8. ASSUME NEW p \in Procs, Schedule(p) PROVE Effects
  <2> DEFINE to == ScheduleCalls[pc[p]]
  <2>1. p = sched.current /\ irq = "none" /\ sched' = schedule(sched)
        /\ pc' = [pc EXCEPT ![p] = to] /\ UNCHANGED << clock, family >>
        /\ wait_pid' = wait_pid
    BY <1>8 DEF Schedule, current, Goto
  <2>2. /\ pc[p] \notin {"exit_notify", "add_timer", "halted"} /\ to # "halted"
    BY <1>8 DEF Schedule, ScheduleCalls
  <2> HIDE DEF to
  <2>3. QED
    BY <1>b, <2>1, <2>2, QuietEffects
<1>9. ASSUME NEW p \in Procs, TrapReturn(p) PROVE Effects
  <2>1. p = sched.current /\ irq = "none" /\ pc[p] = "trapret" /\ p # initproc
        /\ UNCHANGED << clock, family, wait_pid >>
    BY <1>9, <1>a DEF TrapReturn, Running, current
  <2>2. sched.state[p] = "RUNNABLE"
    BY <2>1, CurrentRuns DEF ExitPcs
  <2>3. CASE EnterExit(p)
    BY <2>1, <2>2, <2>3, EnterExitEffects
  <2>4. CASE sched' \in {sched, schedule(sched)} /\ Goto(p, "user")
    <3>1. /\ SchedInv(sched') /\ sched'.state = sched.state
          /\ sched'.wait_state = sched.wait_state /\ pc' = [pc EXCEPT ![p] = "user"]
          /\ wait_pid' = wait_pid
      BY <1>0, <1>b, <2>1, <2>4 DEF Goto
    <3>2. QED
      BY <2>1, <3>1, QuietEffects
  <2>5. QED
    BY <1>9, <2>3, <2>4 DEF TrapReturn
<1>10. ASSUME NEW q \in Procs, InitMain(q) PROVE Effects
  <2>1. /\ initproc = sched.current /\ irq = "none" /\ pc[initproc] = "init_main"
        /\ Fork(initproc, q, TRUE)
        /\ pc' = [pc EXCEPT ![initproc] = "check_sync", ![q] = "user_main"]
    BY <1>10 DEF InitMain, Running, current
  <2>2. QED
    BY <1>0, <2>1, ForkEffects
<1>11. ASSUME NEW q \in Procs, CheckSync(q) PROVE Effects
  <2>1. /\ initproc = sched.current /\ irq = "none" /\ pc[initproc] = "check_sync"
        /\ Fork(initproc, q, TRUE)
        /\ pc' = [pc EXCEPT ![q] = "kthread"]
    BY <1>11 DEF CheckSync, Running, current
  <2>2. pc' = [pc EXCEPT ![initproc] = "check_sync", ![q] = "kthread"]
    BY <1>0, <2>1
  <2>3. QED
    BY <1>0, <2>1, <2>2, ForkEffects
<1>12. ASSUME NEW p \in Procs, UserMain(p) PROVE Effects
  <2>1. p = sched.current /\ irq = "none" /\ pc[p] = "user_main" /\ p # initproc
        /\ UNCHANGED << clock, family, wait_pid >>
    BY <1>12, <1>a DEF UserMain, Running, current
  <2>2. sched.state[p] = "RUNNABLE"
    BY <2>1, CurrentRuns DEF ExitPcs
  <2>3. CASE EnterExit(p)
    BY <2>1, <2>2, <2>3, EnterExitEffects
  <2>4. CASE sched' = sched /\ Goto(p, "user")
    BY <1>0, <2>1, <2>4, QuietEffects DEF Goto
  <2>5. QED
    BY <1>12, <2>3, <2>4 DEF UserMain
<1>13. ASSUME NEW p \in Procs, KthreadReturn(p) PROVE Effects
  <2>1. p = sched.current /\ irq = "none" /\ pc[p] = "kthread" /\ EnterExit(p)
        /\ p # initproc /\ UNCHANGED << clock, family, wait_pid >>
    BY <1>13, <1>a DEF KthreadReturn, Running, current
  <2>2. sched.state[p] = "RUNNABLE"
    BY <2>1, CurrentRuns DEF ExitPcs
  <2>3. QED
    BY <2>1, <2>2, EnterExitEffects
<1>14. ASSUME NEW p \in Procs, NEW time, KthreadSleep(p, time) PROVE Effects
  <2>1. p = sched.current /\ irq = "none" /\ pc[p] = "kthread" /\ DoSleep(p, time)
    BY <1>14 DEF KthreadSleep, Running, current
  <2>2. QED
    BY <2>1, DoSleepEffects
<1>15. CASE IdleSchedule
  <2>1. /\ idleproc = sched.current /\ irq = "none" /\ pc[idleproc] = "idle"
        /\ sched' = schedule(sched) /\ pc' = [pc EXCEPT ![idleproc] = "idle"]
        /\ UNCHANGED << clock, family >> /\ wait_pid' = wait_pid
    BY <1>0, <1>15 DEF IdleSchedule, Running, current
  <2>2. QED
    BY <1>0, <1>b, <2>1, QuietEffects
<1>16. CASE InitWait
  <2>1. /\ initproc = sched.current /\ irq = "none" /\ pc[initproc] = "check_sync"
        /\ sched' = sched /\ pc' = [pc EXCEPT ![initproc] = "wait_scan"]
        /\ UNCHANGED << clock, family >> /\ wait_pid' = wait_pid
    BY <1>16 DEF InitWait, Running, current, Goto
  <2>2. QED
    BY <1>0, <2>1, QuietEffects
<1>17. QED
  BY <1>1, <1>2, <1>3, <1>4, <1>5, <1>6, <1>7, <1>8, <1>9, <1>10, <1>11, <1>12,
     <1>13, <1>14, <1>15, <1>16 DEF KernelStep

\* Every step.
LEMMA StepEffects ==
    ASSUME IInv, [Next]_vars
    PROVE  Effects \/ UNCHANGED vars
BY UserEffects, KernelEffects, TickEffects, FireTimerEffects, TickEndEffects
   DEF Next, IrqStep, Halted

-----------------------------------------------------------------------------
(* Theorems that follow from the effects *)

\* The state diagram of proc.c, whatever the interleaving.
THEOREM DiagramKept == Spec => StateDiagram
<1> DEFINE Diagram == \A p \in Procs : sched'.state[p] # sched.state[p] =>
         CASE sched.state[p] = "FREE"     -> sched'.state[p] = "RUNNABLE"
           [] sched.state[p] = "RUNNABLE" -> /\ current = p
                                             /\ sched'.state[p] \in
                                                  {"SLEEPING", "ZOMBIE"}
           [] sched.state[p] = "SLEEPING" -> sched'.state[p] = "RUNNABLE"
           [] sched.state[p] = "ZOMBIE"   -> /\ sched'.state[p] = "FREE"
                                             /\ current = parent[p]
                                             /\ pc[p] = "dead"
           [] OTHER -> FALSE
<1>1. IInv /\ [Next]_vars => [Diagram]_vars
  <2>1. SUFFICES ASSUME IInv, Effects PROVE Diagram
    BY StepEffects
  <2>2. \A p \in Procs : StateMove(p)
    BY <2>1 DEF Effects
  <2>3. SUFFICES ASSUME NEW p \in Procs, sched'.state[p] # sched.state[p]
                 PROVE  CASE sched.state[p] = "FREE"     -> sched'.state[p] = "RUNNABLE"
           [] sched.state[p] = "RUNNABLE" -> /\ current = p
                                             /\ sched'.state[p] \in
                                                  {"SLEEPING", "ZOMBIE"}
           [] sched.state[p] = "SLEEPING" -> sched'.state[p] = "RUNNABLE"
           [] sched.state[p] = "ZOMBIE"   -> /\ sched'.state[p] = "FREE"
                                             /\ current = parent[p]
                                             /\ pc[p] = "dead"
           [] OTHER -> FALSE
    OBVIOUS
  <2>4. QED
    BY <2>2, <2>3 DEF StateMove
<1>2. QED
  BY <1>1, Inductive, PTL DEF Spec, StateDiagram

-----------------------------------------------------------------------------
(* No lost wakeup *)

\* A parent in do_wait has a child it waits for, and has missed no zombie.
Fed(p) ==
    /\ Candidates(p) # <<>>
    /\ \A q \in ToSet(Candidates(p)) : IsZombie(q) => Notifying(q)

\* The children do_wait looks at are children.
LEMMA CandidateFacts ==
    ASSUME IInv, NEW p \in Procs
    PROVE  \A q \in ToSet(Candidates(p)) : q \in Procs /\ parent[q] = p
<1>0. kids[p] \in Seq(Procs)
  BY DEF IInv, TypeOK
<1>1. SUFFICES ASSUME NEW q \in ToSet(Candidates(p)) PROVE q \in Procs /\ parent[q] = p
  OBVIOUS
<1>2. CASE wait_pid[p] = NULL
  <2>1. q \in ToSet(kids[p])
    BY <1>2 DEF Candidates
  <2>2. q \in Procs
    BY <1>0, <2>1 DEF ToSet
  <2>3. QED
    BY <2>1, <2>2 DEF IInv, KinInv
<1>3. CASE wait_pid[p] # NULL
  <2>1. CASE wait_pid[p] \in Live /\ parent[wait_pid[p]] = p
    <3>1. q \in ToSet(<< wait_pid[p] >>)
      BY <1>3, <2>1 DEF Candidates
    <3>2. q = wait_pid[p]
      BY <3>1 DEF ToSet
    <3>3. QED
      BY <2>1, <3>2 DEF Live
  <2>2. CASE ~(wait_pid[p] \in Live /\ parent[wait_pid[p]] = p)
    <3>1. Candidates(p) = <<>>
      BY <1>3, <2>2 DEF Candidates
    <3>2. QED
      BY <3>1 DEF ToSet
  <2>3. QED
    BY <2>1, <2>2
<1>4. QED
  BY <1>2, <1>3

\* A parent that sleeps through a step keeps the children it waits for, unless
\* it is initproc and a dying process hands it more.
LEMMA CandidatesKept ==
    ASSUME IInv, Effects, NEW p \in Procs, Candidates(p) # <<>>,
           sched.state[p] \in {"SLEEPING", "RUNNABLE"}, sched'.state[p] = "SLEEPING"
    PROVE  \/ ToSet(Candidates(p)') = ToSet(Candidates(p)) /\ Candidates(p)' # <<>>
           \/ \E x \in Procs : /\ ExitNotify(x) /\ p = initproc
                               /\ ToSet(Candidates(p)') =
                                    ToSet(kids[x]) \cup ToSet(Candidates(p))
                               /\ Candidates(p)' # <<>>
<1>0. /\ kids \in [Procs -> Seq(Procs)] /\ wait_pid'[p] = wait_pid[p]
      /\ \A r \in Procs : StateMove(r)
      /\ wait_pid \in [Procs -> Procs \cup {NULL}] /\ initproc \in Procs
      /\ parent \in [Procs -> Procs \cup {NULL}] /\ NULL \notin Procs
  BY ProcessAssumption DEF IInv, TypeOK, Effects, WaitMove
<1>1. CASE wait_pid[p] = NULL
  <2>1. Candidates(p) = kids[p] /\ Candidates(p)' = kids'[p]
    BY <1>0, <1>1 DEF Candidates
  <2>2. CASE kids'[p] = kids[p]
    BY <2>1, <2>2
  <2>3. CASE \E x \in Procs : ExitNotify(x)
    <3>1. PICK x \in Procs : ExitNotify(x)
      BY <2>3
    <3>2. /\ pc[x] = "exit_notify" /\ x # initproc
          /\ kids' = [[kids EXCEPT ![initproc] = Reverse(kids[x]) \o kids[initproc]]
                        EXCEPT ![x] = <<>>]
      BY <1>0, <3>1 DEF ExitNotify, Running, IInv, PcInv, InitPcs, WaitPcs
    <3>3. p # x
      <4>1. sched.state[x] = "ZOMBIE"
        BY <3>2 DEF IInv, PcInv, PcAgrees, ExitPcs
      <4>2. QED
        BY <4>1
    <3>4. CASE p # initproc
      BY <1>0, <2>2, <3>2, <3>3, <3>4
    <3>5. CASE p = initproc
      <4>1. kids'[p] = Reverse(kids[x]) \o kids[p]
        BY <1>0, <3>2, <3>3, <3>5
      <4>2. ToSet(kids[x]) \cap ToSet(kids[p]) = {}
        <5>1. ASSUME NEW q \in ToSet(kids[x]), q \in ToSet(kids[p]) PROVE FALSE
          <6>1. q \in Procs
            BY <5>1, <1>0 DEF ToSet
          <6>2. parent[q] = x /\ parent[q] = p
            BY <5>1, <6>1 DEF IInv, KinInv
          <6>3. QED
            BY <6>2, <3>3
        <5>2. QED
          BY <5>1
      <4>3. /\ kids'[p] \in Seq(Procs)
            /\ ToSet(kids'[p]) = ToSet(kids[x]) \cup ToSet(kids[p])
        BY <1>0, <4>1, <4>2, HandOver DEF IInv, KinInv
      <4>4. kids[p] # <<>> /\ ToSet(kids[p]) # {}
        <5>1. kids[p] # <<>> /\ kids[p] \in Seq(Procs)
          BY <2>1, <1>0
        <5>2. 1 \in DOMAIN kids[p]
          BY <5>1
        <5>3. QED
          BY <5>1, <5>2 DEF ToSet
      <4>5. kids'[p] # <<>>
        BY <4>3, <4>4 DEF ToSet
      <4>6. QED
        BY <2>1, <3>1, <3>5, <4>3, <4>5
    <3>6. QED
      BY <3>4, <3>5
  <2>4. CASE \E x, y \in Procs : Birth(x, y)
    <3>1. PICK x, y \in Procs : Birth(x, y)
      BY <2>4
    <3>2. p # x /\ p # y
      BY <3>1 DEF Birth
    <3>3. QED
      BY <3>1, <3>2, <2>2 DEF Birth
  <2>5. CASE \E y \in Procs : Collection(y)
    <3>1. PICK y \in Procs : Collection(y)
      BY <2>5
    <3>2. p # parent[y]
      BY <3>1 DEF Collection
    <3>3. QED
      BY <3>1, <3>2, <2>2 DEF Collection
  <2>6. QED
    BY <2>2, <2>3, <2>4, <2>5 DEF Effects, FamilyMove
<1>2. CASE wait_pid[p] # NULL
  <2> DEFINE w == wait_pid[p]
  <2>1. /\ w \in Live /\ parent[w] = p /\ w \in Procs
        /\ Candidates(p) = << w >>
    BY <1>2 DEF Candidates, Live
  <2>2. w \in Live'
    <3>1. StateMove(w) /\ sched.state[w] # "FREE"
      BY <1>0, <2>1 DEF Live
    <3>2. sched'.state[w] # "FREE"
      BY <3>1, <2>1 DEF StateMove, Live
    <3>3. QED
      BY <2>1, <3>2 DEF Live
  <2>3. parent'[w] = p
    <3>1. CASE parent' = parent
      BY <2>1, <3>1
    <3>2. CASE \E x \in Procs : ExitNotify(x)
      <4>1. PICK x \in Procs : ExitNotify(x)
        BY <3>2
      <4>2. /\ pc[x] = "exit_notify"
            /\ parent'[w] = IF w \in ToSet(kids[x]) THEN initproc ELSE parent[w]
        BY <4>1, <2>1 DEF ExitNotify, Running
      <4>3. p # x
        BY <4>2 DEF IInv, PcInv, PcAgrees, ExitPcs
      <4>4. w \notin ToSet(kids[x])
        BY <2>1, <4>3 DEF IInv, KinInv
      <4>5. QED
        BY <2>1, <4>2, <4>4
    <3>3. CASE \E x, y \in Procs : Birth(x, y)
      <4>1. PICK x, y \in Procs : Birth(x, y)
        BY <3>3
      <4>2. w # y
        BY <4>1, <2>1 DEF Birth, Live
      <4>3. QED
        BY <4>1, <4>2, <2>1, <1>0 DEF Birth
    <3>4. CASE \E y \in Procs : Collection(y)
      <4>1. PICK y \in Procs : Collection(y)
        BY <3>4
      <4>2. w # y
        BY <4>1, <2>1, <2>2 DEF Collection, Live
      <4>3. QED
        BY <4>1, <4>2, <2>1, <1>0 DEF Collection
    <3>5. QED
      BY <3>1, <3>2, <3>3, <3>4 DEF Effects, FamilyMove
  <2>4. Candidates(p)' = << w >>
    BY <1>0, <1>2, <2>2, <2>3 DEF Candidates
  <2>5. QED
    BY <2>1, <2>4
<1>3. QED
  BY <1>1, <1>2

\* A parent that sleeps through a step stays fed: the child that becomes a
\* zombie has not told it yet, and telling wakes it.
LEMMA StaysFed ==
    ASSUME IInv, Effects, NEW p \in Procs, Fed(p),
           sched.state[p] \in {"SLEEPING", "RUNNABLE"}, sched'.state[p] = "SLEEPING",
           sched'.wait_state[p] = "WT_CHILD",
           sched.state[p] = "SLEEPING" => sched.wait_state[p] = "WT_CHILD",
           sched.state[p] = "RUNNABLE" => p = current
    PROVE  Fed(p)'
<1>0. \A r \in Procs : StateMove(r)
  BY DEF Effects
<1>1. /\ Candidates(p)' # <<>>
      /\ \A q \in ToSet(Candidates(p)') :
           \/ q \in ToSet(Candidates(p))
           \/ \E x \in Procs : ExitNotify(x) /\ p = initproc /\ q \in ToSet(kids[x])
  BY CandidatesKept DEF Fed
<1>2. SUFFICES ASSUME NEW q \in ToSet(Candidates(p)'), sched'.state[q] = "ZOMBIE"
               PROVE  Notifying(q)'
  BY <1>1 DEF Fed, IsZombie
<1>3. CASE q \in ToSet(Candidates(p))
  <2>1. q \in Procs /\ parent[q] = p
    BY <1>3, CandidateFacts
  <2>2. CASE sched.state[q] = "ZOMBIE"
    <3>1. Notifying(q)
      BY <1>3, <2>2 DEF Fed, IsZombie
    <3>2. Notifying(q)' \/ ExitNotify(q)
      BY <2>1, <3>1 DEF Effects, WaitMove
    <3>3. ASSUME ExitNotify(q) PROVE FALSE
      <4>1. sched.wait_state[p] = "WT_CHILD" => sched'.state[p] = "RUNNABLE"
        BY <2>1, <3>3, ExitWakes
      <4>2. sched.state[p] = "RUNNABLE"
        BY <4>1
      <4>3. p = q
        BY <4>2, <3>1 DEF Notifying
      <4>4. QED
        BY <2>2, <4>2, <4>3
    <3>4. QED
      BY <3>2, <3>3
  <2>3. CASE sched.state[q] # "ZOMBIE"
    BY <1>0, <1>2, <2>1, <2>3 DEF StateMove
  <2>4. QED
    BY <2>2, <2>3
<1>4. CASE \E x \in Procs : ExitNotify(x) /\ p = initproc /\ q \in ToSet(kids[x])
  BY <1>2, <1>4, ExitWakes
<1>5. QED
  BY <1>1, <1>3, <1>4

\* NoLostWakeup is inductive given IInv.
LEMMA WakeupStep ==
    ASSUME IInv, NoLostWakeup, Effects
    PROVE  NoLostWakeup'
<1>0. \A r \in Procs : StateMove(r)
  BY DEF Effects
<1> SUFFICES ASSUME NEW p \in Procs, sched'.state[p] = "SLEEPING"
             PROVE  \/ /\ sched'.wait_state[p] = "WT_TIMER"
                       /\ HasTimer(timer_list', p) \/ Running(p, "add_timer")'
                    \/ sched'.wait_state[p] = "WT_CHILD" /\ Fed(p)'
  BY DEF NoLostWakeup, Fed
<1>1. CASE sched.state[p] = "SLEEPING"
  <2>1. sched'.wait_state[p] = sched.wait_state[p]
    BY <1>0, <1>1 DEF StateMove
  <2>2. CASE sched.wait_state[p] = "WT_TIMER"
    <3>1. HasTimer(timer_list, p) \/ Running(p, "add_timer")
      BY <1>1, <2>2 DEF NoLostWakeup
    <3>2. HasTimer(timer_list', p) \/ Running(p, "add_timer")'
      BY <3>1 DEF Effects, TimerMove
    <3>3. QED
      BY <2>1, <2>2, <3>2
  <2>3. CASE sched.wait_state[p] # "WT_TIMER"
    <3>1. sched.wait_state[p] = "WT_CHILD" /\ Fed(p)
      BY <1>1, <2>3 DEF NoLostWakeup, Fed
    <3>2. QED
      BY <1>1, <2>1, <3>1, StaysFed
  <2>4. QED
    BY <2>2, <2>3
<1>2. CASE sched.state[p] # "SLEEPING"
  <2>1. /\ p = current /\ sched.state[p] = "RUNNABLE"
        /\ \/ sched'.wait_state[p] = "WT_TIMER" /\ Running(p, "add_timer")'
           \/ /\ sched'.wait_state[p] = "WT_CHILD" /\ Candidates(p) # <<>>
              /\ \A q \in ToSet(Candidates(p)) : ~IsZombie(q)
    BY <1>0, <1>2 DEF StateMove
  <2>2. CASE sched'.wait_state[p] = "WT_CHILD"
    BY <1>2, <2>1, <2>2, StaysFed DEF Fed
  <2>3. QED
    BY <2>1, <2>2
<1>3. QED
  BY <1>1, <1>2

\* The definition of NoLostWakeup reads these variables and no others.
LEMMA WakeupStutter ==
    ASSUME NoLostWakeup, UNCHANGED vars
    PROVE  NoLostWakeup'
BY DEF NoLostWakeup, vars, clock, family, roles, Candidates, IsZombie, Notifying,
       Running, Live, current

\* Nobody sleeps without something left to wake it, in do_wait and do_sleep,
\* whatever exits, inheritances, kills and ticks come between.
THEOREM WakeupsKept == Spec => []NoLostWakeup
<1>1. Init => NoLostWakeup
  BY DEF Init, NoLostWakeup
<1>2. IInv /\ NoLostWakeup /\ [Next]_vars => NoLostWakeup'
  BY StepEffects, WakeupStep, WakeupStutter
<1>3. QED
  BY <1>1, <1>2, Inductive, PTL DEF Spec

-----------------------------------------------------------------------------
(* initproc quits last *)

\* Every set of processes has a member whose parent is outside it: no chain of
\* parents goes round. idleproc has one child, and initproc waits for any.
TreeInv ==
    /\ \A S \in SUBSET (Live \ {idleproc}) : S # {} => \E p \in S : parent[p] \notin S
    /\ \A q \in Procs : parent[q] = idleproc <=> q = initproc
    /\ wait_pid[initproc] = NULL

\* proc_init: init is the child of idleproc and has not called do_wait.
LEMMA InitTree == Init => TreeInv
<1> SUFFICES ASSUME Init PROVE TreeInv
  OBVIOUS
<1>1. Live \ {idleproc} = {initproc} /\ idleproc # initproc /\ idleproc # NULL
      /\ initproc \in Procs
  BY ProcessAssumption, SchedAssumption DEF Init, Live
<1>2. parent[initproc] = idleproc
  BY <1>1 DEF Init
<1>3. \A q \in Procs : parent[q] = idleproc <=> q = initproc
  BY <1>1 DEF Init
<1>4. wait_pid[initproc] = NULL
  BY <1>1 DEF Init
<1>5. QED
  BY <1>1, <1>2, <1>3, <1>4 DEF TreeInv

\* A birth hangs a leaf on, a death hands children to initproc, a collection
\* takes a leaf off.
LEMMA TreeStep ==
    ASSUME IInv, TreeInv, Effects
    PROVE  TreeInv'
<1>0. /\ parent \in [Procs -> Procs \cup {NULL}] /\ initproc \in Procs
      /\ initproc # idleproc /\ idleproc \in Procs /\ NULL \notin Procs
      /\ \A r \in Procs : StateMove(r)
  BY ProcessAssumption, SchedAssumption DEF IInv, TypeOK, Effects
<1>1. wait_pid'[initproc] = NULL
  BY DEF TreeInv, Effects, WaitMove
<1>2. NoneNew => Live' \subseteq Live
  BY DEF NoneNew, Live
<1>3. CASE parent' = parent /\ NoneNew
  BY <1>1, <1>2, <1>3 DEF TreeInv
<1>4. CASE \E x, y \in Procs : Birth(x, y)
  <2>1. PICK x, y \in Procs : Birth(x, y)
    BY <1>4
  <2>2. /\ x # idleproc /\ y # initproc /\ x # y /\ sched.state[y] = "FREE"
        /\ \A r \in Procs : parent'[r] = IF r = y THEN x ELSE parent[r]
        /\ Live' \subseteq Live \cup {y}
    BY <2>1, <1>0 DEF Birth, Live
  <2>3. \A q \in Procs : parent'[q] = idleproc <=> q = initproc
    BY <2>2 DEF TreeInv
  <2>4. \A q \in Live \ {idleproc} : parent[q] # y
    <3>1. SUFFICES ASSUME NEW q \in Live \ {idleproc} PROVE parent[q] # y
      OBVIOUS
    <3>2. q \in Procs /\ pc[q] # "idle" /\ sched.state[q] # "FREE"
      BY <3>1 DEF Live, IInv, PcInv
    <3>3. pc[y] = "none"
      BY <2>2 DEF IInv, PcInv, PcAgrees
    <3>4. QED
      BY <1>0, <3>2, <3>3 DEF IInv, KinInv
  <2>5. ASSUME NEW S \in SUBSET (Live' \ {idleproc}), S # {}
        PROVE  \E p \in S : parent'[p] \notin S
    <3>1. CASE S \ {y} = {}
      <4>1. S = {y}
        BY <2>5, <3>1
      <4>2. parent'[y] = x
        BY <2>2
      <4>3. QED
        BY <2>2, <4>1, <4>2
    <3>2. CASE S \ {y} # {}
      <4>1. S \ {y} \in SUBSET (Live \ {idleproc})
        BY <2>2
      <4>2. PICK p \in S \ {y} : parent[p] \notin S \ {y}
        BY <3>2, <4>1 DEF TreeInv
      <4>3. p \in Live \ {idleproc} /\ p \in Procs
        BY <4>1, <4>2 DEF Live
      <4>4. parent[p] \notin S
        BY <2>4, <4>2, <4>3
      <4>5. QED
        BY <2>2, <4>2, <4>3, <4>4
    <3>3. QED
      BY <3>1, <3>2
  <2>6. QED
    BY <1>1, <2>3, <2>5 DEF TreeInv
<1>5. CASE \E x \in Procs : ExitNotify(x) /\ NoneNew
  <2>1. PICK x \in Procs : ExitNotify(x) /\ NoneNew
    BY <1>5
  <2> DEFINE orphans == ToSet(kids[x])
  <2>2. /\ x # idleproc /\ x # initproc
        /\ \A r \in Procs : parent'[r] = IF r \in orphans THEN initproc ELSE parent[r]
    BY <2>1 DEF ExitNotify, Running, IInv, PcInv, InitPcs, WaitPcs
  <2>3. \A r \in Procs : r \in orphans <=> parent[r] = x
    BY <2>1 DEF IInv, KinInv
  <2>4. initproc \notin orphans
    BY <1>0, <2>2, <2>3 DEF TreeInv
  <2> HIDE DEF orphans
  <2>5. \A q \in Procs : parent'[q] = idleproc <=> q = initproc
    BY <1>0, <2>2, <2>3, <2>4 DEF TreeInv
  <2>6. ASSUME NEW S \in SUBSET (Live' \ {idleproc}), S # {}
        PROVE  \E p \in S : parent'[p] \notin S
    <3>1. S \in SUBSET (Live \ {idleproc}) /\ S \subseteq Procs
      BY <1>2, <2>1 DEF Live
    <3>2. CASE initproc \in S
      <4>1. parent'[initproc] = idleproc
        BY <1>0, <2>5
      <4>2. QED
        BY <3>1, <3>2, <4>1
    <3>3. CASE initproc \notin S
      <4>1. PICK p \in S : parent[p] \notin S
        BY <2>6, <3>1 DEF TreeInv
      <4>2. parent'[p] \in {initproc, parent[p]}
        BY <2>2, <3>1
      <4>3. QED
        BY <3>3, <4>1, <4>2
    <3>4. QED
      BY <3>2, <3>3
  <2>7. QED
    BY <1>1, <2>5, <2>6 DEF TreeInv
<1>6. CASE \E y \in Procs : Collection(y) /\ NoneNew
  <2>1. PICK y \in Procs : Collection(y) /\ NoneNew
    BY <1>6
  <2>2. /\ y # initproc /\ y \notin Live'
        /\ \A r \in Procs : parent'[r] = IF r = y THEN NULL ELSE parent[r]
    BY <2>1, <1>0 DEF Collection, Live
  <2>3. \A q \in Procs : parent'[q] = idleproc <=> q = initproc
    BY <1>0, <2>2 DEF TreeInv
  <2>4. ASSUME NEW S \in SUBSET (Live' \ {idleproc}), S # {}
        PROVE  \E p \in S : parent'[p] \notin S
    <3>1. S \in SUBSET (Live \ {idleproc}) /\ S \subseteq Procs /\ y \notin S
      BY <1>2, <2>1, <2>2 DEF Live
    <3>2. PICK p \in S : parent[p] \notin S
      BY <2>4, <3>1 DEF TreeInv
    <3>3. QED
      BY <2>2, <3>1, <3>2
  <2>5. QED
    BY <1>1, <2>3, <2>4 DEF TreeInv
<1>7. QED
  BY <1>3, <1>4, <1>5, <1>6 DEF Effects, FamilyMove

\* The tree depends on these variables and no others.
LEMMA TreeStutter ==
    ASSUME TreeInv, UNCHANGED vars
    PROVE  TreeInv'
BY DEF TreeInv, vars, clock, family, roles, Live

\* An initproc without children is alone with idleproc.
LEMMA AloneFacts ==
    ASSUME IInv, TreeInv, kids[initproc] = <<>>
    PROVE  Live = {idleproc, initproc} /\ nr_process = 2
<1> DEFINE S == Live \ {idleproc, initproc}
<1>0. /\ initproc \in Procs /\ idleproc \in Procs /\ initproc # idleproc
      /\ NULL \notin Procs /\ parent \in [Procs -> Procs \cup {NULL}]
  BY ProcessAssumption, SchedAssumption DEF IInv, TypeOK
<1>1. S = {}
  <2>1. SUFFICES ASSUME S # {} PROVE FALSE
    OBVIOUS
  <2>2. PICK p \in S : parent[p] \notin S
    BY <2>1 DEF TreeInv
  <2>3. p \in Procs /\ pc[p] \notin {"none", "idle"}
    BY <2>2 DEF Live, IInv, PcInv, PcAgrees
  <2>4. parent[p] \in Procs /\ pc[parent[p]] # "none"
    BY <1>0, <2>3 DEF IInv, KinInv
  <2>5. sched.state[parent[p]] # "FREE"
    BY <2>4 DEF IInv, PcInv, PcAgrees
  <2>6. parent[p] \in {idleproc, initproc}
    BY <2>2, <2>4, <2>5 DEF Live
  <2>7. parent[p] # idleproc
    BY <2>2, <2>3 DEF TreeInv
  <2>8. p \in ToSet(kids[initproc])
    BY <1>0, <2>3, <2>6, <2>7 DEF IInv, KinInv
  <2>9. QED
    BY <2>8 DEF ToSet
<1>2. idleproc \in Live /\ initproc \in Live
  BY <1>0 DEF Live, IInv, PcInv, PcAgrees, InitPcs, WaitPcs
<1>3. Live = {idleproc} \cup {initproc}
  BY <1>1, <1>2
<1>4. Cardinality({idleproc} \cup {initproc}) = 2
  <2>1. Cardinality({idleproc}) = 1 /\ IsFiniteSet({idleproc})
    BY FS_Singleton
  <2>2. Cardinality({idleproc} \cup {initproc}) = Cardinality({idleproc}) + 1
    BY <1>0, <2>1, FS_AddElement, Zenon
  <2>3. QED
    BY <2>1, <2>2
<1>5. QED
  BY <1>3, <1>4 DEF IInv, ProcessCount

\* Once initproc has halted nothing moves.
LEMMA HaltedStays ==
    ASSUME IInv, pc[initproc] = "halted", [Next]_vars
    PROVE  UNCHANGED vars
<1>1. sched.current = initproc /\ irq = "none" /\ initproc # idleproc
  <2>1. sched.current = initproc
    BY ProcessAssumption DEF IInv, PcInv, RestPcs
  <2>2. QED
    BY <2>1, ProcessAssumption DEF IInv, PcInv, TypeOK
<1>2. ~UserStep
  BY <1>1 DEF UserStep, SysFork, SysForkFails, SysExit, SysWait, SysKill, SysYield,
              SysSleep, Running, current
<1>3. ~KernelStep
  BY <1>1 DEF KernelStep, ExitNotify, WaitReap, WaitBlock, WaitResume, WaitNone,
              AddTimer, SleepResume, Schedule, ScheduleCalls, TrapReturn, InitMain,
              CheckSync, UserMain, KthreadReturn, KthreadSleep, IdleSchedule,
              InitWait, Running, current
<1>4. ~Tick /\ ~IrqStep
  BY <1>1 DEF Tick, InterruptsOn, IrqStep, FireTimer, TickEnd, current
<1>5. QED
  BY <1>2, <1>3, <1>4 DEF Next, Halted

\* The asserts at the end of init_main: initproc returns from its loop only
\* when it has no child left, and then nobody else exists.
THEOREM InitLast == Spec => []InitQuitsLast
<1>1. Init => TreeInv /\ InitQuitsLast
  BY InitTree, ProcessAssumption DEF Init, InitQuitsLast
<1>2. IInv /\ IInv' /\ TreeInv /\ InitQuitsLast /\ [Next]_vars
        => TreeInv' /\ InitQuitsLast'
  <2> SUFFICES ASSUME IInv, IInv', TreeInv, InitQuitsLast, [Next]_vars
               PROVE  TreeInv' /\ InitQuitsLast'
    OBVIOUS
  <2>1. CASE UNCHANGED vars
    <3>1. InitQuitsLast'
      BY <2>1 DEF InitQuitsLast, vars, clock, family, roles, Live
    <3>2. QED
      BY <2>1, <3>1, TreeStutter
  <2>2. CASE ~UNCHANGED vars
    <3>1. Effects /\ pc[initproc] # "halted"
      BY <2>2, StepEffects, HaltedStays
    <3>2. TreeInv'
      BY <3>1, TreeStep
    <3>3. ASSUME pc'[initproc] = "halted", initproc \notin exiting'
          PROVE  /\ kids'[initproc] = <<>> /\ nr_process' = 2
                 /\ Live' = {idleproc, initproc}
      <4>1. Candidates(initproc) = <<>> /\ UNCHANGED << sched, family >>
        BY <3>1, <3>3 DEF Effects, HaltMove
      <4>2. kids[initproc] = <<>>
        BY <4>1 DEF Candidates, TreeInv
      <4>3. Live = {idleproc, initproc} /\ nr_process = 2
        BY <4>2, AloneFacts
      <4>4. QED
        BY <4>1, <4>2, <4>3 DEF family, Live
    <3>4. QED
      BY <3>2, <3>3 DEF InitQuitsLast
  <2>3. QED
    BY <2>1, <2>2
<1>3. QED
  BY <1>1, <1>2, Inductive, PTL DEF Spec
=============================================================================
