CONSTANT NPAGES = 8
SPECIFICATION AllocatorsSpec
VIEW View
INVARIANTS
    ListsExact
    MemoryOnce
    FailsOnlyWhenFull
PROPERTIES
    FitsRight
    HandsOutFree
CHECK_DEADLOCK FALSE
