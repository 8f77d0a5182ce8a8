SPECIFICATION Spec
CONSTANTS
    Handler = 1
    Kinds <- AllKinds
    MaxSend = 1
    MaxRecv = 1
    MaxReopen = 1
PROPERTIES
    NoResetWhilePolling
\* The system stops once the object is freed.
CHECK_DEADLOCK FALSE
