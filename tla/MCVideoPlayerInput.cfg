SPECIFICATION Spec
CONSTANTS
    Files <- MCFiles
    Delay = 1
    MaxInits = 2
INVARIANT InputIsClosed
CHECK_DEADLOCK FALSE
