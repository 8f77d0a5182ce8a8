SPECIFICATION Spec
CONSTANTS
    STATIC_BUF_SIZE = 3
    BodyLengths = {1, 2, 3, 4, 5, 6, 7, 8, 9, 12, 13, 30}
    SIZE_TCP_BUFFER = 1024
    Sent = {0, 1, 2, 1004, 1005, 1016, 1017, 65535}
    Received = {8, 9, 1024, 5125, 5128, 5129, 10240, 10241, 65535}
    MaxPack = 3
    WordMod = 22
    AUTO_LEN = 1
    DIGEST = 2
    Byte = {0, 1, 2}
    Limit = 5
    Sizes = {0, 3, 22, 25}
    Lengths = {0, 1, 2, 11}
    Payloads <- MCPayloads
    a_u8 <- Doubled
INVARIANTS
    ReadFits
    OneLiveBlock
    InBounds
    NothingIsKept
    CursorInBuffer
    GrowthIsSafe
PROPERTIES
    NoCallAfterClose
    IsTape
CHECK_DEADLOCK FALSE
