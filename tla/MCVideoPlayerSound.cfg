SPECIFICATION Spec
CONSTANTS
    Files <- MCFiles
    Delay = 1
    MaxInits = 2
INVARIANT NonzeroIsPicture
CHECK_DEADLOCK FALSE
