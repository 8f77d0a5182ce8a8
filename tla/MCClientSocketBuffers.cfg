SPECIFICATION Spec
CONSTANTS
    Handler = 1
    Kinds <- AllKinds
    MaxSend = 1
    MaxRecv = 1
    MaxReopen = 0
INVARIANTS
    WriteBuffersValid
\* The system stops once the object is freed.
CHECK_DEADLOCK FALSE
