----------------------------- MODULE EitherFit ------------------------------
(***************************************************************************)
(* The first-fit or the best-fit page allocator, two of the managers that  *)
(* init_pmm_manager chooses from (lab8/kern/mm/pmm.c:40 and                *)
(* lab2/kern/mm/pmm.c:38-39). A behaviour is about one of them, and ends   *)
(* when a block is put behind the last of the list.                        *)
(***************************************************************************)
EXTENDS BestFit

VARIABLE part       \* "first", "best", or an allocator of another module

EitherInit == part \in {"first", "best"} /\ FitInit

EitherNext ==
    /\ ~appended /\ UNCHANGED part
    /\ \/ part = "first" /\ FitNext
       \/ part = "best" /\ BestNext

EitherSpec == EitherInit /\ [][EitherNext]_<< part, fitvars >>

-----------------------------------------------------------------------------
(* Properties *)

\* First fit takes the lowest place there is, best fit the smallest.
FitsRight ==
    [][/\ part = "first" => LowestFit
       /\ part = "best" => ShortestFit]_<< part, fitvars >>
=============================================================================
