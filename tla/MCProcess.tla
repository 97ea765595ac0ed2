----------------------------- MODULE MCProcess ------------------------------
(* Instances of Process for TLC: idleproc, initproc and a few slots. *)
EXTENDS Process

CONSTANTS u1, u2, u3

\* User programs may kill any process, or any but init.
KillAll == Procs \ {idleproc}
KillUsers == Procs \ {idleproc, initproc}

UserSymmetry == Permutations(Procs \ {idleproc, initproc})
=============================================================================
