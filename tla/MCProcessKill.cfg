CONSTANTS
    idleproc = idleproc
    initproc = initproc
    u1 = u1
    u2 = u2
    u3 = u3
    NULL = NULL
    Procs = {idleproc, initproc, u1, u2}
    MAX_TIME_SLICE = 1
    MAX_PROCESS = 4
    KillTargets <- KillUsers
    Workers = 0
    MaxSleep = 1
SPECIFICATION Spec
PROPERTY KilledDies
