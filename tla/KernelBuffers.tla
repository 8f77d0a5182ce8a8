---------------------------- MODULE KernelBuffers ----------------------------
(***************************************************************************)
(* The fixed buffers of CClientKernel (Classes/plazz/ClientKernel.cpp):    *)
(* what pack and unpack write to them, padding and inserted key included,  *)
(* and the loop of OnSocketDataEvent that takes packets out of             *)
(* mBufRecieve and calls Lua, which packs, or closes the socket, inside.   *)
(* No size is checked anywhere.  What the program does once it has written *)
(* beyond a buffer is undefined, so a behaviour ends there.  What the      *)
(* bytes are is in ClientKernel.                                           *)
(***************************************************************************)
EXTENDS Integers, Sequences

CONSTANTS SIZE_TCP_BUFFER,
          Sent,        \* sizes of the data Lua sends
          Received,    \* sizes of the packets the server sends, header included
          MaxPack      \* bound: packets packed

WORD == 0 .. 65535
SIZE_CMD_HEADER == 8

\* Any WORD may be sent; the socket keeps headers that announce less than a header.
ASSUME BufferAssumption ==
    /\ SIZE_TCP_BUFFER \in Nat /\ SIZE_TCP_BUFFER >= 20 /\ SIZE_TCP_BUFFER % 4 = 0
    /\ 10 * SIZE_TCP_BUFFER < 65262
    /\ Sent \subseteq WORD
    /\ Received \subseteq {n \in WORD : n >= SIZE_CMD_HEADER}
    /\ MaxPack \in Nat

VARIABLES
    mBufRevLength,
    queued,              \* the sizes of the packets in mBufRecieve
    m_dwSendPacketCount,
    nHandler,            \* the socket is open and has its Lua function
    pc,                  \* in OnSocketDataEvent: before the test, in Lua
    used,                \* the bytes of each buffer the last use of it reached
    most                 \* history: the largest size sent first, later, received

kernelVars == <<mBufRevLength, queued, m_dwSendPacketCount, nHandler, pc, used, most>>

Capacity == [mBufRecieve |-> 10 * SIZE_TCP_BUFFER,
             cbDataBuffer |-> 5 * SIZE_TCP_BUFFER + SIZE_CMD_HEADER,
             mBufUnPack |-> 5 * SIZE_TCP_BUFFER,
             pack |-> SIZE_TCP_BUFFER]

KernelTypeOK ==
    /\ mBufRevLength \in WORD
    /\ queued \in Seq(Received)
    /\ m_dwSendPacketCount \in 0 .. MaxPack
    /\ nHandler \in BOOLEAN
    /\ pc \in {"idle", "loop", "lua"}
    /\ used \in [DOMAIN Capacity -> Nat]
    /\ most \in [{"first", "later", "received"} -> WORD]

KernelInit ==
    /\ mBufRevLength = 0 /\ queued = <<>>
    /\ m_dwSendPacketCount = 0
    /\ nHandler = TRUE
    /\ pc = "idle"
    /\ used = [b \in DOMAIN Capacity |-> 0]
    /\ most = [w \in {"first", "later", "received"} |-> 0]

\* A buffer was written beyond its end.
Overrun == \E b \in DOMAIN Capacity : used[b] > Capacity[b]

Larger(m, n) == IF n > m THEN n ELSE m

-----------------------------------------------------------------------------
\* Variant: whole blocks are padded too.
wSnapCount_Always(n) == 4 - (n % 4)

\* What is missing to whole DWORDs.
wSnapCount(n) == (4 - (n % 4)) % 4

\* EncryptBuffer, called by sendData: padding behind the packet, and for the first
\* packet the key, for which as many bytes as the packet has are moved.
pack(size) ==
    /\ ~Overrun /\ nHandler /\ pc # "loop"
    /\ m_dwSendPacketCount < MaxPack
    /\ m_dwSendPacketCount' = m_dwSendPacketCount + 1
    /\ LET wDataSize == SIZE_CMD_HEADER + size
           padded == wDataSize + wSnapCount(wDataSize - 4)
           moved == SIZE_CMD_HEADER + 4 + wDataSize
       IN  used' = [used EXCEPT !.pack = IF m_dwSendPacketCount = 0 /\ moved > padded
                                         THEN moved ELSE padded]
    /\ most' = [most EXCEPT ![IF m_dwSendPacketCount = 0 THEN "first" ELSE "later"]
                    = Larger(@, size)]
    /\ UNCHANGED <<mBufRevLength, queued, nHandler, pc>>

StopServer ==
    /\ ~Overrun /\ nHandler /\ pc # "loop"
    /\ nHandler' = FALSE
    /\ UNCHANGED <<mBufRevLength, queued, m_dwSendPacketCount, pc, used, most>>

\* The socket hands over one packet, header and body.
OnSocketDataEvent(n) ==
    /\ ~Overrun /\ nHandler /\ pc = "idle"
    /\ mBufRevLength' = mBufRevLength + n
    /\ queued' = Append(queued, n)
    /\ used' = [used EXCEPT !.mBufRecieve = mBufRevLength + n]
    /\ most' = [most EXCEPT !["received"] = Larger(@, n)]
    /\ pc' = "loop"
    /\ UNCHANGED <<m_dwSendPacketCount, nHandler>>

\* Variant: a packet that is a header only waits for more.
WholePacket_Strict ==
    /\ mBufRevLength > SIZE_CMD_HEADER /\ mBufRevLength < 65262
    /\ Head(queued) <= mBufRevLength

WholePacket ==
    /\ mBufRevLength >= SIZE_CMD_HEADER /\ mBufRevLength < 65262
    /\ Head(queued) <= mBufRevLength

\* unpack works on the copy, which CrevasseBuffer pads. A heartbeat ends the call,
\* the body of any other packet goes to mBufUnPack and Lua is called.
Take(isMapped, isBeat) ==
    /\ ~Overrun /\ pc = "loop" /\ queued # <<>> /\ WholePacket
    /\ LET iDstLength == Head(queued) IN
         /\ mBufRevLength' = mBufRevLength - iDstLength
         /\ queued' = Tail(queued)
         /\ used' = [used EXCEPT
                !.cbDataBuffer = iDstLength + (IF isMapped THEN wSnapCount(iDstLength) ELSE 0),
                !.mBufUnPack = IF isBeat THEN @ ELSE iDstLength - SIZE_CMD_HEADER]
    /\ pc' = IF isBeat THEN "idle" ELSE "lua"
    /\ UNCHANGED <<m_dwSendPacketCount, nHandler, most>>

LoopEnds ==
    /\ ~Overrun /\ pc = "loop" /\ ~(queued # <<>> /\ WholePacket)
    /\ pc' = "idle"
    /\ UNCHANGED <<mBufRevLength, queued, m_dwSendPacketCount, nHandler, used, most>>

LuaReturns ==
    /\ ~Overrun /\ pc = "lua"
    /\ pc' = "loop"
    /\ UNCHANGED <<mBufRevLength, queued, m_dwSendPacketCount, nHandler, used, most>>

KernelNext ==
    \/ \E n \in Sent : pack(n)
    \/ \E n \in Received : OnSocketDataEvent(n)
    \/ \E isMapped, isBeat \in BOOLEAN : Take(isMapped, isBeat)
    \/ StopServer \/ LoopEnds \/ LuaReturns

KernelSpec == KernelInit /\ [][KernelNext]_kernelVars

-----------------------------------------------------------------------------
\* What the buffers have room for: the first packet with the key inserted, a later
\* one with its padding, and a received packet with its padding.
WithinLimits ==
    /\ most["first"] <= SIZE_TCP_BUFFER - 20
    /\ most["later"] <= SIZE_TCP_BUFFER - 8
    /\ most["received"] <= 5 * SIZE_TCP_BUFFER + SIZE_CMD_HEADER

\* The four buffers hold every sequence of packets within these limits, wherever
\* Lua packs or closes in between, and none beyond them: the first larger size is
\* written over the end of one (EncryptBuffer, CrevasseBuffer, unpack and
\* OnSocketDataEvent, which do not look at the size).
InBounds ==
    /\ Overrun => ~WithinLimits
    /\ pc # "loop" /\ ~WithinLimits => Overrun

\* Every packet is taken out in the call that brought it: nothing stays in
\* mBufRecieve, and the loop has no second packet to take (OnSocketDataEvent).
NothingIsKept ==
    /\ pc # "loop" => mBufRevLength = 0 /\ queued = <<>>
    /\ Len(queued) <= 1

\* The loop goes on with the function it was called with, and yet never calls it
\* for a socket that Lua closed in the meantime (OnSocketDataEvent).
NoCallAfterClose == [][pc = "loop" /\ pc' = "lua" => nHandler]_kernelVars
=============================================================================
