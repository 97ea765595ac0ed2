CONSTANTS
    N = 4
    TIMES = 2
SPECIFICATION SyncSpec
INVARIANTS
    SectionExact
    PermitsExact
PROPERTY ImplementsDining
