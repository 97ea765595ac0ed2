CONSTANTS
    CONSBUFSIZE = 3
    STDIN_BUFSIZE = 2
    Reader = {r1, r2}
    MaxLen = 2
    MaxTyped = 5
    CLOSED = CLOSED
    JUNK = JUNK
SPECIFICATION MCSpec
CHECK_DEADLOCK FALSE
INVARIANTS
    CharsExact
    ReadersWoken
    BlocksExact
PROPERTIES
    TypedIsRead
    ImplementsContents
