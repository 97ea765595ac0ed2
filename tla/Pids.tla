-------------------------------- MODULE Pids --------------------------------
(***************************************************************************)
(* get_pid() of lab8/kern/process/proc.c: how do_fork finds a pid that no  *)
(* process on proc_list has. The function remembers in static variables    *)
(* the last pid it gave and a next_safe up to which, as far as it knows,   *)
(* every pid is free; only when it gets there it scans the list again.     *)
(*                                                                         *)
(* The scan is modelled turn by turn of its loop. do_fork runs it with     *)
(* interrupts off, so the list does not change meanwhile. The order of     *)
(* the list is left open: each turn may look at any process not yet seen.  *)
(***************************************************************************)
EXTENDS Integers, FiniteSets

CONSTANTS
    Proc,       \* the process structures on the heap
    MAX_PID,
    None

\* static_assert(MAX_PID > MAX_PROCESS); idleproc is not on the list, and the
\* process that is being forked is not on it yet.
ASSUME PidsAssumption ==
    /\ MAX_PID \in Nat /\ MAX_PID > 2
    /\ IsFiniteSet(Proc) /\ Cardinality(Proc) < MAX_PID - 1
    /\ None \notin Proc

VARIABLES
    last_pid, next_safe,    \* static variables of get_pid
    pid,                    \* of each process; 0 unless it is on proc_list
    forking,                \* the new process of the do_fork that runs, or None
    todo                    \* the processes the scan has still to look at

vars == << last_pid, next_safe, pid, forking, todo >>

Pid == 1..MAX_PID - 1

proc_list == {p \in Proc : pid[p] # 0}

Init ==
    /\ last_pid = MAX_PID /\ next_safe = MAX_PID
    /\ pid = [p \in Proc |-> 0]
    /\ forking = None
    /\ todo = {}

-----------------------------------------------------------------------------

\* get_pid returns n, and set_links puts the new process on the list.
Listed(p, n) ==
    /\ pid' = [pid EXCEPT ![p] = n]
    /\ forking' = None
    /\ todo' = {}

\* Mutant: the pids up to next_safe are used up, and one more.
ForkFast_one_more(p) ==
    /\ forking = None /\ pid[p] = 0
    /\ last_pid + 1 < MAX_PID /\ last_pid + 1 <= next_safe
    /\ last_pid' = last_pid + 1
    /\ Listed(p, last_pid + 1)
    /\ UNCHANGED next_safe

\* The next pid is known to be free.
ForkFast(p) ==
    /\ forking = None /\ pid[p] = 0
    /\ last_pid + 1 < MAX_PID /\ last_pid + 1 < next_safe
    /\ last_pid' = last_pid + 1
    /\ Listed(p, last_pid + 1)
    /\ UNCHANGED next_safe

\* The label inside: the list has to be scanned.
ForkScan(p) ==
    /\ forking = None /\ pid[p] = 0
    /\ last_pid + 1 >= MAX_PID \/ last_pid + 1 >= next_safe
    /\ last_pid' = IF last_pid + 1 >= MAX_PID THEN 1 ELSE last_pid + 1
    /\ next_safe' = MAX_PID
    /\ forking' = p
    /\ todo' = proc_list
    /\ UNCHANGED pid

\* Mutant: every new start is from pid 1.
ScanTaken_from_one(q) ==
    /\ forking # None /\ q \in todo
    /\ pid[q] = last_pid
    /\ IF last_pid + 1 < next_safe
         THEN /\ last_pid' = last_pid + 1
              /\ todo' = todo \ {q}
              /\ UNCHANGED next_safe
         ELSE /\ last_pid' = 1
              /\ next_safe' = MAX_PID
              /\ todo' = proc_list
    /\ UNCHANGED << pid, forking >>

\* The candidate is taken: try the next one, and start again if that is not
\* known to be free.
ScanTaken(q) ==
    /\ forking # None /\ q \in todo
    /\ pid[q] = last_pid
    /\ IF last_pid + 1 < next_safe
         THEN /\ last_pid' = last_pid + 1
              /\ todo' = todo \ {q}
              /\ UNCHANGED next_safe
         ELSE /\ last_pid' = IF last_pid + 1 >= MAX_PID THEN 1 ELSE last_pid + 1
              /\ next_safe' = MAX_PID
              /\ todo' = proc_list
    /\ UNCHANGED << pid, forking >>

\* Mutant: next_safe is overwritten by a larger pid.
ScanOther_overwrites(q) ==
    /\ forking # None /\ q \in todo
    /\ pid[q] # last_pid
    /\ next_safe' = IF pid[q] > last_pid THEN pid[q] ELSE next_safe
    /\ todo' = todo \ {q}
    /\ UNCHANGED << last_pid, pid, forking >>

\* Another pid: it may be the next one that is not free.
ScanOther(q) ==
    /\ forking # None /\ q \in todo
    /\ pid[q] # last_pid
    /\ next_safe' = IF pid[q] > last_pid /\ next_safe > pid[q] THEN pid[q]
                    ELSE next_safe
    /\ todo' = todo \ {q}
    /\ UNCHANGED << last_pid, pid, forking >>

\* The scan is back at the list head.
ScanEnd ==
    /\ forking # None /\ todo = {}
    /\ Listed(forking, last_pid)
    /\ UNCHANGED << last_pid, next_safe >>

\* do_wait: remove_links, and the process structure is freed.
Collect(p) ==
    /\ forking = None /\ pid[p] # 0
    /\ pid' = [pid EXCEPT ![p] = 0]
    /\ UNCHANGED << last_pid, next_safe, forking, todo >>

Scan == (\E q \in todo : ScanTaken(q) \/ ScanOther(q)) \/ ScanEnd

Next ==
    \/ \E p \in Proc : ForkFast(p) \/ ForkScan(p) \/ Collect(p)
    \/ \E q \in todo : ScanTaken(q) \/ ScanOther(q)
    \/ ScanEnd

\* get_pid is not interrupted.
Spec == Init /\ [][Next]_vars /\ WF_vars(Scan)

-----------------------------------------------------------------------------
(* Properties *)

TypeOK ==
    /\ last_pid \in 1..MAX_PID
    /\ next_safe \in 1..MAX_PID
    /\ pid \in [Proc -> 0..MAX_PID - 1]
    /\ forking \in Proc \cup {None}
    /\ forking # None => last_pid \in Pid /\ pid[forking] = 0
    /\ todo \subseteq proc_list
    /\ forking = None => todo = {}

\* A pid names one process: do_kill, do_wait and find_proc rely on it.
UniquePids ==
    \A p, q \in proc_list : pid[p] = pid[q] => p = q

\* What get_pid keeps from call to call and builds up in a scan: of the
\* processes looked at none has the candidate, and none a pid between it and
\* next_safe. Between two calls that is every process but the last one made.
SafeRange ==
    \A p \in proc_list \ todo :
      /\ ~(last_pid < pid[p] /\ pid[p] < next_safe)
      /\ forking # None => pid[p] # last_pid

\* The scan starts again only a bounded number of times: there is a free pid,
\* and the candidate gets there.
ForkReturns == (forking # None) ~> (forking = None)
=============================================================================
