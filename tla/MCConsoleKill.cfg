CONSTANTS
    CONSBUFSIZE = 2
    STDIN_BUFSIZE = 2
    Reader = {r1}
    MaxLen = 2
    MaxTyped = 2
SPECIFICATION Spec
CHECK_DEADLOCK FALSE
PROPERTY KilledReaderDies
