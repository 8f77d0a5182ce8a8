SPECIFICATION Spec
CONSTANTS
    Handler = 1
    Kinds <- AllKinds
    MaxSend = 3
    MaxRecv = 3
    MaxReopen = 0
INVARIANTS
    TypeOK
    DeliveredInOrder
    Framed
    OneOpPerDirection
    WireInOrder
    WriterBusy
    LiveSocketListens
PROPERTIES
    ImplementsContract
\* The system stops once the object is freed.
CHECK_DEADLOCK FALSE
