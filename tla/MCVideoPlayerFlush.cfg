SPECIFICATION Spec
CONSTANTS
    Files <- MCFiles
    Delay = 1
    MaxInits = 2
PROPERTY FlushedWhenSeeking
CHECK_DEADLOCK FALSE
