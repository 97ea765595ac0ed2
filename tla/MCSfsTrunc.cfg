CONSTANTS
    Files = {f}
    Descriptors = {d1, d2}
    NBLK = 4
    BLKSIZE = 2
    NDIRECT = 1
    NENTRY = 3
    Texts <- MCTexts
    Positions <- MCPositions
    SHARED_TRUNC = TRUE
    CLOSED = CLOSED
    JUNK = JUNK
SPECIFICATION Spec
CHECK_DEADLOCK FALSE
INVARIANT LoadInRange
