CONSTANTS
    MAX_PID = 6
    Proc = {p1, p2, p3, p4}
    None = None
    NULL = 0
    Item = {1, 2, 3, 4, 5, 6}
    key <- SixKeys
    Entry = {1, 2, 3}
    idleproc = 4
    HALF = 4
    Priorities = {0, 2, 3}
    PASS_0 = 3
    Starters <- Three
    MAX_TOTAL = 18
SPECIFICATION MCSpec
VIEW View
INVARIANTS
    UniquePids
    SafeRange
    TreeExact
    PoolExact
    SpreadBounded
PROPERTIES
    ForkReturns
    IsPriorityQueue
    PicksMinimum
CHECK_DEADLOCK FALSE
