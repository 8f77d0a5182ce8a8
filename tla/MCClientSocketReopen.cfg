SPECIFICATION FairSpec
CONSTANTS
    Handler = 1
    Kinds <- AllKinds
    MaxSend = 2
    MaxRecv = 2
    MaxReopen = 1
INVARIANTS
    EventOrder
    FreedOnlyWhenIdle
PROPERTIES
    SilentAfterClose
    ClosedIsFreed
    SendsSettle
    FailureCloses
\* The system stops once the object is freed.
CHECK_DEADLOCK FALSE
