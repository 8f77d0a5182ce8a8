---------------------------- MODULE ClientKernel ----------------------------
(***************************************************************************)
(* The packet cipher of CClientKernel (Classes/plazz/ClientKernel.cpp,     *)
(* QPCipher.cpp): pack and unpack with the rounds of the byte map and the  *)
(* two key chains, between Lua and a server that mirrors them.             *)
(*                                                                         *)
(* A message is the command followed by the body, what CMD_Command and the *)
(* data are in the code; the command is exactly one block.  A packet is a  *)
(* message on the wire.  Every block is keyed by the one before it, and    *)
(* the last key of a packet is the first of the next, so one wrong byte in *)
(* the chain garbles everything after it.  Only whole bytes of the message *)
(* travel: the rest of the last block is known to both ends.               *)
(*                                                                         *)
(* The server is not in this repository.  Its half is what the client's    *)
(* half needs: it takes the key from the first packet it reads and sends   *)
(* packets in the clear until then.                                        *)
(***************************************************************************)
EXTENDS Integers, Sequences, SequencesExt

CONSTANTS ByteSize,        \* the number of values of a BYTE (256)
          BlockSize,       \* the bytes of a DWORD (4)
          g_SendByteMap,
          g_RecvByteMap,
          Xor(_, _),       \* of two bytes
          NextKey(_),      \* SeedRandMap of both words, xor g_dwPacketKey
          InitialKey,      \* 0x12345678
          FirstKey,        \* the key made from the fixed seed
          HeartBeat,       \* the command (0, 1)
          Outgoing,        \* the messages Lua sends
          Incoming,        \* the messages the server sends
          MaxPack,         \* bound: packets from Lua
          MaxServe         \* bound: packets from the server

Byte == 0 .. ByteSize - 1
Block == [1 .. BlockSize -> Byte]
Message == {s \in Seq(Byte) : Len(s) >= BlockSize}

ASSUME KernelAssumption ==
    /\ ByteSize \in Nat \ {0} /\ BlockSize \in Nat \ {0}
    /\ InitialKey \in Block /\ FirstKey \in Block
    /\ Outgoing \subseteq Message /\ Incoming \subseteq Message
    /\ MaxPack \in Nat /\ MaxServe \in Nat

\* The two tables of QPCipher.cpp are inverse permutations; xor is its own
\* inverse and has 0 as neutral element.
ASSUME CipherAssumption ==
    /\ g_SendByteMap \in [Byte -> Byte] /\ g_RecvByteMap \in [Byte -> Byte]
    /\ \A b \in Byte : g_RecvByteMap[g_SendByteMap[b]] = b
    /\ \A a, b \in Byte : Xor(a, b) \in Byte /\ Xor(Xor(a, b), b) = a
    /\ \A b \in Byte : Xor(0, b) = b
    /\ \A c \in Block : NextKey(c) \in Block

VARIABLES
    m_cbSendRound, m_cbRecvRound,     \* the rounds of the byte map
    m_dwSendXorKey, m_dwRecvXorKey,   \* the next keys
    m_dwSendPacketCount,
    server,         \* the other end: the same four, and whether it has a key
    up, down,       \* the packets under way to and from the server
    packed,         \* history: the messages Lua sent
    served,         \* history: the messages the server read
    told,           \* history: the messages the server sent
    delivered       \* history: what Lua was given, with its number in told

kernel == <<m_cbSendRound, m_cbRecvRound, m_dwSendXorKey, m_dwRecvXorKey,
            m_dwSendPacketCount>>
vars == <<kernel, server, up, down, packed, served, told, delivered>>

Packet == [mapped : BOOLEAN, key : Seq(Block), bytes : Message]

TypeOK ==
    /\ m_cbSendRound \in Byte /\ m_cbRecvRound \in Byte
    /\ m_dwSendXorKey \in Block /\ m_dwRecvXorKey \in Block
    /\ m_dwSendPacketCount \in 0 .. MaxPack
    /\ server \in [sendRound : Byte, recvRound : Byte,
                   sendKey : Block, recvKey : Block, keyed : BOOLEAN]
    /\ up \in Seq(Packet) /\ down \in Seq(Packet)
    /\ packed \in Seq(Outgoing) /\ served \in Seq(Message)
    /\ told \in Seq(Incoming)
    /\ delivered \in Seq([no : 1 .. MaxServe, msg : Message])

\* OnInit, and a server that has just accepted the connection.
Init ==
    /\ m_cbSendRound = 0 /\ m_cbRecvRound = 0
    /\ m_dwSendXorKey = InitialKey /\ m_dwRecvXorKey = InitialKey
    /\ m_dwSendPacketCount = 0
    /\ server = [sendRound |-> 0, recvRound |-> 0, sendKey |-> InitialKey,
                 recvKey |-> InitialKey, keyed |-> FALSE]
    /\ up = <<>> /\ down = <<>>
    /\ packed = <<>> /\ served = <<>> /\ told = <<>> /\ delivered = <<>>

-----------------------------------------------------------------------------
(* The byte map.  Every byte advances the round by 3.                        *)

MapSendByte(b, round) == g_SendByteMap[(b + round) % ByteSize]
MapRecvByte(b, round) == (g_RecvByteMap[b] - round) % ByteSize

MapSend(msg, round) ==
    [i \in 1 .. Len(msg) |-> MapSendByte(msg[i], round + 3 * (i - 1))]
MapRecv(bytes, round) ==
    [i \in 1 .. Len(bytes) |-> MapRecvByte(bytes[i], round + 3 * (i - 1))]

RoundAfter(round, n) == (round + 3 * n) % ByteSize

-----------------------------------------------------------------------------
(* Blocks, keys and padding.                                                 *)

BlockOf(i) == ((i - 1) \div BlockSize) + 1
OffsetOf(i) == ((i - 1) % BlockSize) + 1
Position(j, k) == (j - 1) * BlockSize + k

\* The bytes in blocks; fill[j][k] stands where the last block is not full.
InBlocks(bytes, fill(_, _)) ==
    [j \in 1 .. BlockOf(Len(bytes)) |->
        [k \in 1 .. BlockSize |-> IF Position(j, k) <= Len(bytes)
                                  THEN bytes[Position(j, k)]
                                  ELSE fill(j, k)]]

\* Variant: without ZeroMemory the padding is whatever was there.
Padded_Dirty(bytes) == InBlocks(bytes, LAMBDA j, k : ByteSize - 1)

Padded(bytes) == InBlocks(bytes, LAMBDA j, k : 0)

\* The key of block j of the cipher text c.
KeyOf(c, j, key) == IF j = 1 THEN key ELSE NextKey(c[j - 1])

\* The missing bytes of the last block are padding, 0 before the key went in.
Restored(bytes, key) ==
    InBlocks(bytes, LAMBDA j, k : KeyOf(Padded(bytes), j, key)[k])

\* What EncryptBuffer makes of a message: the bytes to send and the key that
\* the next packet starts with.  The loop fixes the cipher text block by block.
EncryptBuffer(msg, round, key) ==
    LET plain == Padded(MapSend(msg, round))
        Chained(c) == \A j \in DOMAIN plain : \A k \in 1 .. BlockSize :
                          c[j][k] = Xor(plain[j][k], KeyOf(c, j, key)[k])
    IN  {[bytes |-> [i \in 1 .. Len(msg) |-> c[BlockOf(i)][OffsetOf(i)]],
          next |-> NextKey(c[BlockOf(Len(msg))])] :
            c \in {d \in [DOMAIN plain -> Block] : Chained(d)}}

\* What CrevasseBuffer makes of the bytes of a packet.
CrevasseBuffer(bytes, round, key) ==
    LET c == Restored(bytes, key)
        plain == [i \in 1 .. Len(bytes) |->
                    Xor(bytes[i], KeyOf(c, BlockOf(i), key)[OffsetOf(i)])]
    IN  [msg |-> MapRecv(plain, round), next |-> NextKey(c[BlockOf(Len(bytes))])]

-----------------------------------------------------------------------------
(* The client.                                                               *)

\* Variant: the first packet starts the send chain only.
pack_SendKeyOnly(msg) ==
    LET first == m_dwSendPacketCount = 0
        key == IF first THEN FirstKey ELSE m_dwSendXorKey
    IN  /\ Len(packed) < MaxPack
        /\ \E e \in EncryptBuffer(msg, m_cbSendRound, key) :
             /\ up' = Append(up, [mapped |-> TRUE, bytes |-> e.bytes,
                                  key |-> IF first THEN <<key>> ELSE <<>>])
             /\ m_dwSendXorKey' = e.next
        /\ m_cbSendRound' = RoundAfter(m_cbSendRound, Len(msg))
        /\ m_dwSendPacketCount' = m_dwSendPacketCount + 1
        /\ packed' = Append(packed, msg)
        /\ UNCHANGED <<m_dwRecvXorKey, m_cbRecvRound, server, down, served,
                       told, delivered>>

\* The first packet starts both chains, and carries their key in the clear
\* behind the command.
pack(msg) ==
    LET first == m_dwSendPacketCount = 0
        key == IF first THEN FirstKey ELSE m_dwSendXorKey
    IN  /\ Len(packed) < MaxPack
        /\ \E e \in EncryptBuffer(msg, m_cbSendRound, key) :
             /\ up' = Append(up, [mapped |-> TRUE, bytes |-> e.bytes,
                                  key |-> IF first THEN <<key>> ELSE <<>>])
             /\ m_dwSendXorKey' = e.next
        /\ m_cbSendRound' = RoundAfter(m_cbSendRound, Len(msg))
        /\ m_dwRecvXorKey' = IF first THEN key ELSE m_dwRecvXorKey
        /\ m_dwSendPacketCount' = m_dwSendPacketCount + 1
        /\ packed' = Append(packed, msg)
        /\ UNCHANGED <<m_cbRecvRound, server, down, served, told, delivered>>

Command(msg) == SubSeq(msg, 1, BlockSize)

\* The number in told of the packet that arrives next.
Arriving == Len(told) - Len(down) + 1

Give(msg) ==
    delivered' = IF Command(msg) = HeartBeat
                 THEN delivered
                 ELSE Append(delivered, [no |-> Arriving, msg |-> msg])

\* Variant: a heartbeat is recognised by its bytes on the wire.
unpack_BeatFirst ==
    /\ down # <<>>
    /\ down' = Tail(down)
    /\ LET p == Head(down)
           d == CrevasseBuffer(p.bytes, m_cbRecvRound, m_dwRecvXorKey)
       IN  IF p.mapped /\ Command(p.bytes) # HeartBeat
           THEN /\ delivered' = Append(delivered,
                                       [no |-> Arriving, msg |-> d.msg])
                /\ m_dwRecvXorKey' = d.next
                /\ m_cbRecvRound' = RoundAfter(m_cbRecvRound, Len(p.bytes))
           ELSE Give(p.bytes) /\ UNCHANGED <<m_dwRecvXorKey, m_cbRecvRound>>
    /\ UNCHANGED <<m_cbSendRound, m_dwSendXorKey, m_dwSendPacketCount, server,
                   up, packed, served, told>>

\* A packet that is not mapped goes as it is.  The heartbeat is recognised
\* when the packet is in the clear, and goes no further.
unpack ==
    /\ down # <<>>
    /\ down' = Tail(down)
    /\ LET p == Head(down)
           d == CrevasseBuffer(p.bytes, m_cbRecvRound, m_dwRecvXorKey)
       IN  IF p.mapped
           THEN /\ Give(d.msg)
                /\ m_dwRecvXorKey' = d.next
                /\ m_cbRecvRound' = RoundAfter(m_cbRecvRound, Len(p.bytes))
           ELSE Give(p.bytes) /\ UNCHANGED <<m_dwRecvXorKey, m_cbRecvRound>>
    /\ UNCHANGED <<m_cbSendRound, m_dwSendXorKey, m_dwSendPacketCount, server,
                   up, packed, served, told>>

-----------------------------------------------------------------------------
(* The server.                                                               *)

ServerReads ==
    /\ up # <<>>
    /\ up' = Tail(up)
    /\ LET p == Head(up)
           key == IF p.key # <<>> THEN p.key[1] ELSE server.recvKey
           d == CrevasseBuffer(p.bytes, server.recvRound, key)
       IN  /\ served' = Append(served, d.msg)
           /\ server' = [server EXCEPT
                  !.recvKey = d.next,
                  !.recvRound = RoundAfter(@, Len(p.bytes)),
                  !.sendKey = IF p.key # <<>> THEN key ELSE @,
                  !.keyed = @ \/ p.key # <<>>]
    /\ UNCHANGED <<kernel, down, packed, told, delivered>>

ServerSendsClear(msg) ==
    /\ Len(told) < MaxServe
    /\ down' = Append(down, [mapped |-> FALSE, key |-> <<>>, bytes |-> msg])
    /\ told' = Append(told, msg)
    /\ UNCHANGED <<kernel, server, up, packed, served, delivered>>

ServerSendsMapped(msg) ==
    /\ Len(told) < MaxServe
    /\ server.keyed
    /\ \E e \in EncryptBuffer(msg, server.sendRound, server.sendKey) :
         /\ down' = Append(down, [mapped |-> TRUE, key |-> <<>>,
                                  bytes |-> e.bytes])
         /\ server' = [server EXCEPT !.sendKey = e.next,
                                     !.sendRound = RoundAfter(@, Len(msg))]
    /\ told' = Append(told, msg)
    /\ UNCHANGED <<kernel, up, packed, served, delivered>>

Next == \/ \E msg \in Outgoing : pack(msg)
        \/ unpack
        \/ ServerReads
        \/ \E msg \in Incoming : ServerSendsClear(msg) \/ ServerSendsMapped(msg)

Spec == Init /\ [][Next]_vars

-----------------------------------------------------------------------------
\* The server reads exactly what Lua sent, in order, whatever the lengths:
\* EncryptBuffer and its inverse keep the chain and the round in step.
ServerReadsWhatWasPacked ==
    served = SubSeq(packed, 1, Len(packed) - Len(up))

\* Lua is given every message of the server that has arrived, in order and
\* as it was sent, the heartbeats excepted (OnSocketDataEvent, unpack).
LuaIsGivenWhatWasSent ==
    /\ \A n \in DOMAIN delivered :
          LET d == delivered[n] IN
          /\ d.no < Arriving /\ d.msg = told[d.no]
          /\ Command(d.msg) # HeartBeat
          /\ n > 1 => delivered[n - 1].no < d.no
    /\ \A i \in 1 .. Arriving - 1 :
          Command(told[i]) # HeartBeat => \E n \in DOMAIN delivered :
                                              delivered[n].no = i

\* With nothing under way both ends hold the same keys and rounds, so that
\* either may send next (EncryptBuffer, CrevasseBuffer).
EndsInStep ==
    /\ up = <<>> /\ m_dwSendPacketCount > 0 =>
          /\ server.recvKey = m_dwSendXorKey
          /\ server.recvRound = m_cbSendRound
    /\ down = <<>> /\ server.keyed =>
          /\ server.sendKey = m_dwRecvXorKey
          /\ server.sendRound = m_cbRecvRound

=============================================================================
