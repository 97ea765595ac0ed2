----------------------------- MODULE CheckSync ------------------------------
(***************************************************************************)
(* check_sync() of lab8/kern/sync/check_sync.c: it starts the philosophers *)
(* of PhilosophersSem and those of PhilosophersMon, who have nothing to    *)
(* share. A behaviour looks at one of the two tables.                      *)
(***************************************************************************)
EXTENDS PhilosophersSem

VARIABLES
    half,                                   \* the table looked at
    state_condvar, next, next_count, cv     \* of the monitor

\* Its mutex and what a philosopher is at are in the variables of the semaphores.
Mon == INSTANCE PhilosophersMon

OfSem == << state_sema, s >>
OfMon == << state_condvar, next, next_count, cv >>
allvars == << half, vars, OfMon >>

SyncInit ==
    \/ /\ half = "sem" /\ Init
       /\ state_condvar = 0 /\ next = 0 /\ next_count = 0 /\ cv = 0
    \/ /\ half = "mon" /\ Mon!Init
       /\ state_sema = 0 /\ s = 0

SyncNext ==
    \/ half = "sem" /\ Next /\ UNCHANGED << half, OfMon >>
    \/ half = "mon" /\ Mon!Next /\ UNCHANGED << half, OfSem >>

\* While a thread is awake, some thread runs: nobody waits in a loop, so it
\* does not matter which.
SyncSpec == SyncInit /\ [][SyncNext]_allvars /\ WF_allvars(SyncNext)

-----------------------------------------------------------------------------
(* Properties *)

\* The right to run in the section, or in the monitor, is held once: never
\* doubled and never lost between the semaphores it travels through.
SectionExact ==
    /\ half = "sem" => TypeOK /\ MutexExact
    /\ half = "mon" => Mon!TypeOK /\ Mon!OneToken

\* Nobody eats on a stale permit; the counts the monitor decides by say who
\* waits; a signal reaches the philosopher it was meant for.
PermitsExact ==
    /\ half = "sem" => PermitExact
    /\ half = "mon" => Mon!CountersExact /\ Mon!SignalReaches

EitherTable == INSTANCE Dining WITH
    phase <- IF half = "sem" THEN phase ELSE Mon!phase,
    meals <- IF half = "sem" THEN meals ELSE Mon!meals

\* Both implement the dining table: neighbours never eat at the same time, and
\* every philosopher gets its TIMES meals and quits.
ImplementsDining == EitherTable!Spec
=============================================================================
