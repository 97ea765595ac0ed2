CONSTANTS
    idleproc = idleproc
    initproc = initproc
    u1 = u1
    u2 = u2
    u3 = u3
    NULL = NULL
    Procs = {idleproc, initproc, u1, u2, u3}
    MAX_TIME_SLICE = 1
    MAX_PROCESS = 5
    KillTargets <- KillAll
    Workers = 1
    MaxSleep = 2
SYMMETRY UserSymmetry
SPECIFICATION Spec
INVARIANTS
    TypeOK
    RunQueueExact
    NoAssertFails
    NoDanglingTimer
    NoLostWakeup
    FamilyTree
    ProcessCount
    InitQuitsLast
    DeadStaysOff
