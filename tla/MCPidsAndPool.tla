--------------------------- MODULE MCPidsAndPool ----------------------------
(***************************************************************************)
(* The two structures that number and order the processes: the pids of     *)
(* get_pid and the run pool of the stride class. A behaviour is about one  *)
(* part and leaves the others alone:                                       *)
(*   pids     four processes and five pids                                 *)
(*   heap     a skew heap of six entries, two with the same key            *)
(*   steady   the class of lab6: processes that compute and set priorities *)
(*   fresh    the class of lab8, whose priority 0 adds 2 * HALF - 1:       *)
(*            processes that come, sleep and go                            *)
(***************************************************************************)
EXTENDS Pids, HeapQueue, Stride

VARIABLE part

SixKeys == << 1, 2, 3, 4, 2, 6 >>

\* Not in the order of the names, so that the pool is not sorted by them.
Three == << 3, 1, 2 >>

\* The same pool under the class of lab8.
Lab8 == INSTANCE Stride WITH
          HALF <- 2, PASS_0 <- 3, Priorities <- {1}, Starters <- << >>

allvars == << part, vars, heapvars, stridevars >>

MCInit ==
    /\ Init /\ HeapInit
    /\ \/ part \in {"pids", "heap", "steady"} /\ StrideInit
       \/ part = "fresh" /\ Lab8!StrideInit

Compute == Switch \/ \E n \in Priorities : lab6_set_priority(n)

MCNext ==
    \/ part = "pids" /\ Next /\ UNCHANGED << part, heapvars, stridevars >>
    \/ part = "heap" /\ HeapNext /\ UNCHANGED << part, vars, stridevars >>
    \/ part = "steady" /\ steady /\ Compute /\ UNCHANGED << part, vars, heapvars >>
    \/ part = "fresh" /\ Lab8!StrideNext /\ UNCHANGED << part, vars, heapvars >>

\* get_pid is not interrupted.
MCSpec == MCInit /\ [][MCNext]_allvars /\ WF_vars(Scan)

\* States that differ only in links or a history nobody reads are the same.
View == << part, vars, QueuedView, PoolView >>
=============================================================================
