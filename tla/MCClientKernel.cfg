SPECIFICATION Spec
CONSTANTS
    ByteSize = 4
    BlockSize = 2
    g_SendByteMap <- MCSendByteMap
    g_RecvByteMap <- MCRecvByteMap
    Xor <- MCXor
    NextKey <- MCNextKey
    InitialKey <- MCInitialKey
    FirstKey <- MCFirstKey
    HeartBeat <- MCHeartBeat
    Outgoing <- MCOutgoing
    Incoming <- MCIncoming
    MaxPack = 3
    MaxServe = 3
INVARIANTS
    ServerReadsWhatWasPacked
    LuaIsGivenWhatWasSent
    EndsInStep
CHECK_DEADLOCK FALSE
