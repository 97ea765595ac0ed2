------------------------------- MODULE Dining -------------------------------
(***************************************************************************)
(* What the philosophers of lab8/kern/sync/check_sync.c promise, whatever  *)
(* they synchronise with: a philosopher eats only while neither neighbour  *)
(* does, goes through thinking, being hungry and eating in this order, and *)
(* quits after its meals. PhilosophersSem and PhilosophersMon implement    *)
(* this specification.                                                     *)
(***************************************************************************)
EXTENDS Philosophers

VARIABLES
    phase,          \* what a philosopher does at the table
    meals           \* meals it has finished

Phases == {"thinking", "hungry", "eating", "gone"}

Init == /\ phase = [i \in Phil |-> "thinking"]
        /\ meals = [i \in Phil |-> 0]

Hunger(i) ==
    /\ phase[i] = "thinking" /\ meals[i] < TIMES
    /\ phase' = [phase EXCEPT ![i] = "hungry"]
    /\ UNCHANGED meals

Eat(i) ==
    /\ phase[i] = "hungry"
    /\ phase[LEFT(i)] # "eating" /\ phase[RIGHT(i)] # "eating"
    /\ phase' = [phase EXCEPT ![i] = "eating"]
    /\ UNCHANGED meals

Think(i) ==
    /\ phase[i] = "eating"
    /\ phase' = [phase EXCEPT ![i] = "thinking"]
    /\ meals' = [meals EXCEPT ![i] = @ + 1]

Leave(i) ==
    /\ phase[i] = "thinking" /\ meals[i] = TIMES
    /\ phase' = [phase EXCEPT ![i] = "gone"]
    /\ UNCHANGED meals

Next == \E i \in Phil : Hunger(i) \/ Eat(i) \/ Think(i) \/ Leave(i)

Safety == Init /\ [][Next]_<< phase, meals >>

\* Everybody gets all their meals: neither deadlock nor starvation.
Spec == Safety /\ WF_<< phase, meals >>(Next)
=============================================================================
