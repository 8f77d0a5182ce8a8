SPECIFICATION FairSpec
CONSTANTS
    Sockets = {s1, s2}
    MaxGames = 3
INVARIANTS
    NoDanglingTimer
    NoStaleCallback
    ConnectedIsPolled
PROPERTIES
    OldGameIsLeft
    ClosedIsFreed
CHECK_DEADLOCK FALSE
