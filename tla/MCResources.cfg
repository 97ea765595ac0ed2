CONSTANTS
    p1 = p1
    p2 = p2
    t1 = t1
    t2 = t2
    f1 = f1
    d1 = d1
    Procs = {p1, p2}
    Tables = {t1, t2}
    NFD = 2
    Files = {f1}
    Dirs = {d1}
    Stdins = {}
    root = d1
    NULL = NULL
    NoVma = NoVma
    CloneFlags <- ForkOrClone
    OpenFlags <- MCOpenFlags
    MAX_LOST = 1
    MAX_COUNT = 2
    PGSIZE = 2
    USERBASE = 2
    USERTOP = 10
    Flags <- ToReadAndStacks
SPECIFICATION MCSpec
SYMMETRY Symmetry
INVARIANTS
    FilesExact
    FilesAssertsHold
    AreasExact
    PagesOnce
    NothingLost
CHECK_DEADLOCK FALSE
