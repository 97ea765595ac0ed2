SPECIFICATION Spec
CONSTANTS
    Procs = {"p", "q"}
    MMs = {1, 2}
    NPAGE = 24
    Programs <- All
    STACK <- MCStack
    Budgets = {6}
    NULL = NULL
INVARIANT
    NothingLost
CHECK_DEADLOCK FALSE
