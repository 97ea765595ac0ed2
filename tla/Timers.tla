------------------------------ MODULE Timers --------------------------------
(***************************************************************************)
(* The sleep timers of lab8/kern/schedule/sched.c. timer_list is a delta   *)
(* list: the expires field of a timer counts the ticks from the expiry of  *)
(* the timer before it. A timer_t lives on the kernel stack of the process *)
(* that sleeps on it, so a process has at most one.                        *)
(*                                                                         *)
(* The loops of add_timer and run_timer_list run with interrupts off; the  *)
(* modules that use these operators take one step per turn of a loop. The  *)
(* loop of add_timer keeps a cursor: the position it looks at and the      *)
(* ticks that are left of the request.                                     *)
(***************************************************************************)
EXTENDS Integers, SequencesExt

StartOfList(time) == [at |-> 1, left |-> time]

NoCursor == [at |-> 0, left |-> 0]

\* The loop ends at the end of the list, or at a timer that is due later.
WalkDone(list, cursor) ==
    cursor.at > Len(list) \/ cursor.left < list[cursor.at].expires

WalkOn(list, cursor) ==
    [at |-> cursor.at + 1, left |-> cursor.left - list[cursor.at].expires]

\* Insert before the cursor; the timer there is now relative to the new one,
\* so it gives up the ticks the new one waits.
insert_timer(list, cursor, p) ==
    LET shifted == IF cursor.at <= Len(list)
                     THEN [list EXCEPT ![cursor.at].expires = @ - cursor.left]
                     ELSE list
    IN  InsertAt(shifted, cursor.at, [proc |-> p, expires |-> cursor.left])

HasTimer(list, p) == \E i \in DOMAIN list : list[i].proc = p

PositionOf(list, p) == CHOOSE i \in DOMAIN list : list[i].proc = p

\* The timer after an unexpired one inherits its ticks. A timer that is not
\* linked any more is left alone.
del_timer(list, p) ==
    LET i     == PositionOf(list, p)
        given == IF i < Len(list)
                   THEN [list EXCEPT ![i + 1].expires = @ + list[i].expires]
                   ELSE list
    IN  IF HasTimer(list, p) THEN RemoveAt(given, i) ELSE list

\* The head of the list loses one tick, run_timer_list.
tick_timer(list) ==
    IF list = <<>> THEN list ELSE [list EXCEPT ![1].expires = @ - 1]

\* The loop condition of run_timer_list.
HeadExpired(list) == list # <<>> /\ list[1].expires = 0
=============================================================================
