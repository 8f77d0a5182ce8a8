------------------------- MODULE KernelBuffersProofs -------------------------
(***************************************************************************)
(* KernelBuffers for every buffer size and all sizes of packets: which of  *)
(* them the buffers hold, and which run over.                              *)
(***************************************************************************)
EXTENDS KernelBuffers, TLAPS

\* mBufRecieve holds the packet of this call until it is taken, and nothing then;
\* a packet that is still there was brought to an open socket, is the largest yet
\* or smaller, and is the only reason for the limit to be passed without an overrun.
LoopInv ==
    \/ mBufRevLength = 0 /\ queued = <<>>
    \/ \E n \in Received :
           /\ pc = "loop" /\ nHandler /\ queued = <<n>> /\ mBufRevLength = n
           /\ n <= most["received"] /\ used["mBufRecieve"] = n

\* Whatever is beyond the limits has been written beyond a buffer, unless it is
\* the packet that waits in mBufRecieve.
LimitInv ==
    \/ Overrun
    \/ WithinLimits
    \/ /\ most["first"] <= SIZE_TCP_BUFFER - 20
       /\ most["later"] <= SIZE_TCP_BUFFER - 8
       /\ pc = "loop" /\ queued = <<most["received"]>>

IInv == KernelTypeOK /\ (Overrun => ~WithinLimits) /\ LoopInv /\ LimitInv

LEMMA Limits ==
    /\ SIZE_TCP_BUFFER \in Nat /\ SIZE_TCP_BUFFER >= 20 /\ 10 * SIZE_TCP_BUFFER < 65262
    /\ \A n \in Sent : n \in Nat /\ n \in WORD
    /\ \A n \in Received : n \in Nat /\ n \in WORD /\ 8 <= n
    /\ MaxPack \in Nat
  <1>1. /\ SIZE_TCP_BUFFER \in Nat /\ SIZE_TCP_BUFFER >= 20 /\ 10 * SIZE_TCP_BUFFER < 65262
        /\ MaxPack \in Nat
        /\ \A n \in Sent : n \in WORD
        /\ \A n \in Received : n \in WORD /\ n >= 8
    BY BufferAssumption DEF BufferAssumption, SIZE_CMD_HEADER
  <1>2. \A n \in WORD : n \in Nat
    BY DEF WORD
  <1> QED
    BY <1>1, <1>2

LEMMA Multiple ==
    ASSUME NEW x \in Nat, x % 4 = 0
    PROVE  x \div 4 \in Nat /\ x = 4 * (x \div 4)
  OBVIOUS

LEMMA Padding ==
    ASSUME NEW n \in Int
    PROVE  /\ wSnapCount(n) \in 0 .. 3
           /\ (n + wSnapCount(n)) % 4 = 0
  BY DEF wSnapCount

LEMMA Buffers ==
    /\ DOMAIN Capacity = {"mBufRecieve", "cbDataBuffer", "mBufUnPack", "pack"}
    /\ Capacity["mBufRecieve"] = 10 * SIZE_TCP_BUFFER
    /\ Capacity["cbDataBuffer"] = 5 * SIZE_TCP_BUFFER + 8
    /\ Capacity["mBufUnPack"] = 5 * SIZE_TCP_BUFFER
    /\ Capacity["pack"] = SIZE_TCP_BUFFER
  BY DEF Capacity, SIZE_CMD_HEADER

LEMMA Words == 0 \in WORD /\ \A n \in WORD : n \in Nat /\ n \in Int
  BY DEF WORD

LEMMA LargerIs ==
    ASSUME NEW m \in WORD, NEW n \in WORD
    PROVE  /\ Larger(m, n) \in WORD
           /\ \A l \in Int : Larger(m, n) <= l <=> m <= l /\ n <= l
           /\ n <= Larger(m, n)
           /\ Larger(m, n) \in {m, n}
  <1>1. m \in Int /\ n \in Int
    BY Words
  <1>2. CASE n > m
    BY <1>1, <1>2 DEF Larger
  <1>3. CASE ~(n > m)
    BY <1>1, <1>3 DEF Larger
  <1> QED
    BY <1>2, <1>3

\* Padding up to whole DWORDs stays below a limit that is one of whole DWORDs.
LEMMA PadFits ==
    ASSUME NEW n \in Nat, NEW top \in Nat, top % 4 = 0
    PROVE  n + wSnapCount(n) <= top <=> n <= top
  <1> DEFINE s == wSnapCount(n)
             x == n + s
             k == top \div 4
             m == x \div 4
  <1>1. s \in 0 .. 3 /\ x % 4 = 0 /\ x \in Nat
    BY Padding
  <1> HIDE DEF s
  <1>2. x = n + s
    OBVIOUS
  <1> HIDE DEF x
  <1>3. k \in Nat /\ top = 4 * k
    BY Multiple
  <1>4. m \in Nat /\ x = 4 * m
    BY <1>1, Multiple
  <1> HIDE DEF k, m
  <1>5. n <= top => x <= top
    <2> SUFFICES ASSUME n <= top PROVE x <= top
      OBVIOUS
    <2>1. 4 * m <= 4 * k + 3
      BY <1>1, <1>2, <1>3, <1>4
    <2>2. m <= k
      BY <2>1, <1>3, <1>4
    <2> QED
      BY <2>2, <1>3, <1>4
  <1>6. x <= top => n <= top
    BY <1>1, <1>2
  <1> QED
    BY <1>5, <1>6 DEF x, s

LEMMA Multiples ==
    /\ SIZE_TCP_BUFFER - 4 \in Nat /\ (SIZE_TCP_BUFFER - 4) % 4 = 0
    /\ 5 * SIZE_TCP_BUFFER + 8 \in Nat /\ (5 * SIZE_TCP_BUFFER + 8) % 4 = 0
  <1>1. SIZE_TCP_BUFFER % 4 = 0 /\ SIZE_TCP_BUFFER \in Nat /\ SIZE_TCP_BUFFER >= 20
    BY BufferAssumption DEF BufferAssumption
  <1>2. PICK k \in Nat : SIZE_TCP_BUFFER = 4 * k
    BY <1>1, Multiple
  <1> QED
    BY <1>1, <1>2

\* Where no buffer is overrun, a use overruns one if it reaches beyond its own.
LEMMA UseIs ==
    ASSUME KernelTypeOK, ~Overrun, NEW b \in DOMAIN Capacity, NEW n \in Nat,
           used' = [used EXCEPT ![b] = n]
    PROVE  /\ used' \in [DOMAIN Capacity -> Nat] /\ used'[b] = n
           /\ Overrun' <=> n > Capacity[b]
  <1>1. used \in [DOMAIN Capacity -> Nat]
    BY DEF KernelTypeOK
  <1>2. used' \in [DOMAIN Capacity -> Nat] /\ used'[b] = n
    BY <1>1
  <1>3. \A c \in DOMAIN Capacity : c # b => used'[c] = used[c] /\ used[c] \in Nat
    BY <1>1
  <1>4. \A c \in DOMAIN Capacity : Capacity[c] \in Nat /\ (used[c] <= Capacity[c])
    BY <1>1, Buffers, Limits DEF Overrun
  <1>5. Overrun' <=> \E c \in DOMAIN Capacity : used'[c] > Capacity[c]
    BY DEF Overrun, Capacity
  <1>6. \A c \in DOMAIN Capacity : c # b => ~(used'[c] > Capacity[c])
    BY <1>3, <1>4
  <1> QED
    BY <1>2, <1>5, <1>6

-----------------------------------------------------------------------------
LEMMA InitInv == KernelInit => IInv
  <1> SUFFICES ASSUME KernelInit PROVE IInv
    OBVIOUS
  <1>1. KernelTypeOK
    BY Limits, Words DEF KernelInit, KernelTypeOK
  <1>2. ~Overrun
    BY Limits, Buffers DEF KernelInit, Overrun
  <1>3. LoopInv
    BY DEF KernelInit, LoopInv
  <1>4. LimitInv
    BY Limits DEF KernelInit, LimitInv, WithinLimits, SIZE_CMD_HEADER
  <1> QED
    BY <1>1, <1>2, <1>3, <1>4 DEF IInv

\* The first packet is written up to 20 bytes beyond its data, a later one up to
\* the next whole DWORD.
LEMMA PackedIs ==
    ASSUME KernelTypeOK, NEW size \in Sent, pack(size)
    PROVE  \E n \in Nat :
              /\ used' = [used EXCEPT !["pack"] = n]
              /\ n > SIZE_TCP_BUFFER <=>
                    size > SIZE_TCP_BUFFER - (IF m_dwSendPacketCount = 0 THEN 20 ELSE 8)
  <1> DEFINE wDataSize == SIZE_CMD_HEADER + size
             padded == wDataSize + wSnapCount(wDataSize - 4)
             moved == SIZE_CMD_HEADER + 4 + wDataSize
             n == IF m_dwSendPacketCount = 0 /\ moved > padded THEN moved ELSE padded
  <1>1. size \in Nat /\ SIZE_TCP_BUFFER \in Nat /\ SIZE_TCP_BUFFER >= 20
    BY Limits
  <1>2. used' = [used EXCEPT !["pack"] = n]
    BY DEF pack
  <1>3. size + 4 \in Nat /\ wDataSize - 4 = size + 4 /\ wDataSize = size + 8
    BY <1>1 DEF SIZE_CMD_HEADER
  <1>4. wSnapCount(size + 4) \in 0 .. 3
    BY <1>3, Padding
  <1>5. padded = (size + 4 + wSnapCount(size + 4)) + 4 /\ moved = size + 20
    BY <1>1, <1>3, <1>4 DEF SIZE_CMD_HEADER
  <1>6. padded \in Nat /\ moved \in Nat /\ moved > padded
    BY <1>1, <1>4, <1>5
  <1>7. padded > SIZE_TCP_BUFFER <=> size > SIZE_TCP_BUFFER - 8
    <2>1. size + 4 + wSnapCount(size + 4) <= SIZE_TCP_BUFFER - 4
            <=> size + 4 <= SIZE_TCP_BUFFER - 4
      BY <1>3, Multiples, PadFits
    <2> QED
      BY <2>1, <1>1, <1>4, <1>5
  <1> HIDE DEF wDataSize, padded, moved
  <1>8. CASE m_dwSendPacketCount = 0
    <2>1. n = moved
      BY <1>6, <1>8
    <2>2. moved > SIZE_TCP_BUFFER <=> size > SIZE_TCP_BUFFER - 20
      BY <1>1, <1>5
    <2> QED
      BY <1>2, <1>6, <1>8, <2>1, <2>2
  <1>9. CASE m_dwSendPacketCount # 0
    BY <1>2, <1>6, <1>7, <1>9
  <1> QED
    BY <1>8, <1>9

LEMMA PackInv ==
    ASSUME IInv, NEW size \in Sent, pack(size)
    PROVE  IInv'
  <1> DEFINE w == IF m_dwSendPacketCount = 0 THEN "first" ELSE "later"
  <1>1. /\ KernelTypeOK /\ ~Overrun /\ nHandler /\ pc # "loop"
        /\ UNCHANGED <<mBufRevLength, queued, nHandler, pc>>
        /\ most' = [most EXCEPT ![w] = Larger(@, size)]
        /\ m_dwSendPacketCount' \in 0 .. MaxPack
    BY Limits DEF IInv, KernelTypeOK, pack
  <1>2. PICK n \in Nat :
              /\ used' = [used EXCEPT !["pack"] = n]
              /\ n > SIZE_TCP_BUFFER <=>
                    size > SIZE_TCP_BUFFER - (IF m_dwSendPacketCount = 0 THEN 20 ELSE 8)
    BY <1>1, PackedIs
  <1>3. used' \in [DOMAIN Capacity -> Nat] /\ (Overrun' <=> n > SIZE_TCP_BUFFER)
    BY <1>1, <1>2, UseIs, Buffers
  <1>4. most \in [{"first", "later", "received"} -> WORD] /\ size \in WORD
    BY Limits DEF IInv, KernelTypeOK
  <1>5. /\ most' \in [{"first", "later", "received"} -> WORD]
        /\ most'[w] = Larger(most[w], size)
        /\ \A v \in {"first", "later", "received"} : v # w => most'[v] = most[v]
    BY <1>1, <1>4, LargerIs
  <1>6. queued = <<>> /\ mBufRevLength = 0 /\ WithinLimits
    BY <1>1 DEF IInv, LoopInv, LimitInv
  <1>7. KernelTypeOK'
    BY <1>1, <1>3, <1>5 DEF KernelTypeOK, Capacity
  <1>8. LoopInv'
    BY <1>1, <1>6 DEF LoopInv
  <1>9. WithinLimits' <=> ~Overrun'
    <2>1. /\ most["first"] \in WORD /\ most["later"] \in WORD
          /\ SIZE_TCP_BUFFER - 20 \in Int /\ SIZE_TCP_BUFFER - 8 \in Int /\ size \in Int
      BY <1>4, Limits
    <2>2. CASE m_dwSendPacketCount = 0
      <3>1. most'["first"] <= SIZE_TCP_BUFFER - 20
              <=> most["first"] <= SIZE_TCP_BUFFER - 20 /\ size <= SIZE_TCP_BUFFER - 20
        <4>1. most'["first"] = Larger(most["first"], size)
          BY <2>2, <1>5
        <4>2. \A l \in Int : Larger(most["first"], size) <= l <=> most["first"] <= l /\ size <= l
          BY <2>1, <1>4, LargerIs
        <4> QED
          BY <4>1, <4>2, <2>1
      <3> QED
        BY <3>1, <2>1, <2>2, <1>2, <1>3, <1>5, <1>6, Limits DEF WithinLimits
    <2>3. CASE m_dwSendPacketCount # 0
      <3>1. most'["later"] <= SIZE_TCP_BUFFER - 8
              <=> most["later"] <= SIZE_TCP_BUFFER - 8 /\ size <= SIZE_TCP_BUFFER - 8
        <4>1. most'["later"] = Larger(most["later"], size)
          BY <2>3, <1>5
        <4>2. \A l \in Int : Larger(most["later"], size) <= l <=> most["later"] <= l /\ size <= l
          BY <2>1, <1>4, LargerIs
        <4> QED
          BY <4>1, <4>2, <2>1
      <3> QED
        BY <3>1, <2>1, <2>3, <1>2, <1>3, <1>5, <1>6, Limits DEF WithinLimits
    <2> QED
      BY <2>2, <2>3
  <1> QED
    BY <1>7, <1>8, <1>9 DEF IInv, LimitInv

LEMMA DataInv ==
    ASSUME IInv, NEW n \in Received, OnSocketDataEvent(n)
    PROVE  IInv'
  <1>1. n \in Nat /\ n \in WORD /\ 8 <= n
    BY Limits
  <1>2. /\ KernelTypeOK /\ ~Overrun /\ nHandler /\ pc = "idle"
        /\ mBufRevLength = 0 /\ queued = <<>> /\ WithinLimits
    BY DEF IInv, LoopInv, LimitInv, OnSocketDataEvent
  <1>3. mBufRevLength' = n /\ queued' = <<n>> /\ pc' = "loop"
    BY <1>1, <1>2 DEF OnSocketDataEvent
  <1>4. used' = [used EXCEPT !["mBufRecieve"] = n]
    BY <1>1, <1>2 DEF OnSocketDataEvent
  <1>5. /\ used' \in [DOMAIN Capacity -> Nat] /\ used'["mBufRecieve"] = n
        /\ Overrun' <=> n > 10 * SIZE_TCP_BUFFER
    <2>1. "mBufRecieve" \in DOMAIN Capacity /\ Capacity["mBufRecieve"] = 10 * SIZE_TCP_BUFFER
      BY Buffers
    <2> QED
      BY <1>1, <1>2, <1>4, <2>1, UseIs
  <1>6. most' = [most EXCEPT !["received"] = Larger(@, n)]
    BY DEF OnSocketDataEvent
  <1>7. most \in [{"first", "later", "received"} -> WORD]
    BY <1>2 DEF KernelTypeOK
  <1>8. /\ most' \in [{"first", "later", "received"} -> WORD]
        /\ most'["received"] = Larger(most["received"], n)
        /\ most'["first"] = most["first"] /\ most'["later"] = most["later"]
    BY <1>1, <1>6, <1>7, LargerIs
  <1>9. n <= most'["received"] /\ most'["received"] \in {most["received"], n}
        /\ most["received"] \in WORD
    <2>1. most["received"] \in WORD
      BY <1>7
    <2>2. /\ n <= Larger(most["received"], n)
          /\ Larger(most["received"], n) \in {most["received"], n}
      BY <1>1, <2>1, LargerIs
    <2> QED
      BY <1>8, <2>1, <2>2
  <1>10. UNCHANGED <<m_dwSendPacketCount, nHandler>>
    BY DEF OnSocketDataEvent
  <1>11. KernelTypeOK'
    <2>1. queued' \in Seq(Received)
      BY <1>3
    <2> QED
      BY <2>1, <1>1, <1>2, <1>3, <1>5, <1>8, <1>10 DEF KernelTypeOK, Capacity
  <1>12. LoopInv'
    BY <1>2, <1>3, <1>5, <1>9, <1>10 DEF LoopInv
  <1>13. Overrun' => ~WithinLimits'
    <2>1. most'["received"] \in Nat /\ n > 10 * SIZE_TCP_BUFFER
            => most'["received"] > 5 * SIZE_TCP_BUFFER + 8
      BY <1>1, <1>9, Limits
    <2>2. most'["received"] \in Nat
      BY <1>1, <1>9, Words
    <2> QED
      BY <2>1, <2>2, <1>5, Limits DEF WithinLimits, SIZE_CMD_HEADER
  <1>14. LimitInv'
    <2>1. CASE most'["received"] = n
      BY <2>1, <1>2, <1>3, <1>8 DEF LimitInv, WithinLimits
    <2>2. CASE most'["received"] = most["received"]
      BY <2>2, <1>2, <1>8 DEF LimitInv, WithinLimits
    <2> QED
      BY <2>1, <2>2, <1>9
  <1> QED
    BY <1>11, <1>12, <1>13, <1>14 DEF IInv

\* The copy is padded up to whole DWORDs, of which cbDataBuffer and the body's
\* mBufUnPack have a whole number.
LEMMA TakenIs ==
    ASSUME NEW n \in Received, NEW isMapped \in BOOLEAN
    PROVE  LET c == n + (IF isMapped THEN wSnapCount(n) ELSE 0) IN
           /\ c \in Nat /\ n - SIZE_CMD_HEADER \in Nat
           /\ c > 5 * SIZE_TCP_BUFFER + 8 <=> n > 5 * SIZE_TCP_BUFFER + 8
           /\ n - SIZE_CMD_HEADER > 5 * SIZE_TCP_BUFFER <=> n > 5 * SIZE_TCP_BUFFER + 8
  <1>1. n \in Nat /\ 8 <= n /\ SIZE_TCP_BUFFER \in Nat
    BY Limits
  <1>2. wSnapCount(n) \in 0 .. 3
    BY <1>1, Padding
  <1>3. n + wSnapCount(n) <= 5 * SIZE_TCP_BUFFER + 8 <=> n <= 5 * SIZE_TCP_BUFFER + 8
    BY <1>1, Multiples, PadFits
  <1> QED
    BY <1>1, <1>2, <1>3 DEF SIZE_CMD_HEADER

LEMMA TakeInv ==
    ASSUME IInv, NEW isMapped \in BOOLEAN, NEW isBeat \in BOOLEAN,
           Take(isMapped, isBeat)
    PROVE  IInv' /\ nHandler
  <1>1. PICK n \in Received :
              nHandler /\ queued = <<n>> /\ mBufRevLength = n /\ n <= most["received"]
    BY DEF IInv, LoopInv, Take
  <1>2. Head(queued) = n /\ Tail(queued) = <<>> /\ n \in Nat /\ n \in WORD
    BY <1>1, Limits
  <1> DEFINE c == n + (IF isMapped THEN wSnapCount(n) ELSE 0)
             u == IF isBeat THEN used.mBufUnPack ELSE n - SIZE_CMD_HEADER
  <1>3. mBufRevLength' = 0 /\ queued' = <<>> /\ pc' \in {"idle", "lua"}
    BY <1>1, <1>2 DEF Take
  <1>4. used' = [used EXCEPT !["cbDataBuffer"] = c, !["mBufUnPack"] = u]
    BY <1>2 DEF Take
  <1>5. used \in [DOMAIN Capacity -> Nat] /\ KernelTypeOK /\ ~Overrun
    BY DEF IInv, KernelTypeOK, Take
  <1>6. /\ c \in Nat /\ n - SIZE_CMD_HEADER \in Nat
        /\ c > 5 * SIZE_TCP_BUFFER + 8 <=> n > 5 * SIZE_TCP_BUFFER + 8
        /\ n - SIZE_CMD_HEADER > 5 * SIZE_TCP_BUFFER <=> n > 5 * SIZE_TCP_BUFFER + 8
    BY TakenIs
  <1>7. u \in Nat /\ (u > 5 * SIZE_TCP_BUFFER => n > 5 * SIZE_TCP_BUFFER + 8)
    <2>1. used.mBufUnPack \in Nat /\ used.mBufUnPack <= 5 * SIZE_TCP_BUFFER
      BY <1>5, Buffers, Limits DEF Overrun
    <2> QED
      BY <2>1, <1>6, Limits
  <1> HIDE DEF c, u
  <1>8. /\ used' \in [DOMAIN Capacity -> Nat]
        /\ used'["cbDataBuffer"] = c /\ used'["mBufUnPack"] = u
        /\ used'["mBufRecieve"] = used["mBufRecieve"] /\ used'["pack"] = used["pack"]
    BY <1>4, <1>5, <1>6, <1>7, Buffers
  <1>9. Overrun' <=> n > 5 * SIZE_TCP_BUFFER + 8
    <2>1. Overrun' <=> \E b \in DOMAIN Capacity : used'[b] > Capacity[b]
      BY DEF Overrun, Capacity
    <2>2. ~(used["mBufRecieve"] > Capacity["mBufRecieve"]) /\ ~(used["pack"] > Capacity["pack"])
      BY <1>5, Buffers DEF Overrun
    <2>3. Overrun' <=> c > 5 * SIZE_TCP_BUFFER + 8 \/ u > 5 * SIZE_TCP_BUFFER
      BY <2>1, <2>2, <1>8, Buffers
    <2> QED
      BY <2>3, <1>6, <1>7
  <1>10. UNCHANGED <<m_dwSendPacketCount, nHandler, most>>
    BY DEF Take
  <1>11. KernelTypeOK'
    <2>1. queued' \in Seq(Received) /\ mBufRevLength' \in WORD
      BY <1>3 DEF WORD
    <2> QED
      BY <2>1, <1>3, <1>5, <1>8, <1>10 DEF KernelTypeOK, Capacity
  <1>12. LoopInv'
    BY <1>3 DEF LoopInv
  <1>13. WithinLimits' <=> WithinLimits
    BY <1>10 DEF WithinLimits
  <1>14. most["received"] \in WORD
    BY <1>5 DEF KernelTypeOK
  <1>15. Overrun' => ~WithinLimits'
    <2>1. n > 5 * SIZE_TCP_BUFFER + 8 => most["received"] > 5 * SIZE_TCP_BUFFER + 8
      <3>1. most["received"] \in Nat
        BY <1>14, Words
      <3> QED
        BY <3>1, <1>1, <1>2, Limits
    <2>2. most["received"] > 5 * SIZE_TCP_BUFFER + 8 => ~WithinLimits
      BY <1>14, Words, Limits DEF WithinLimits, SIZE_CMD_HEADER
    <2> QED
      BY <2>1, <2>2, <1>9, <1>13
  <1>16. LimitInv'
    <2>1. CASE WithinLimits
      BY <2>1, <1>13 DEF LimitInv
    <2>2. CASE ~WithinLimits
      <3>1. /\ most["first"] <= SIZE_TCP_BUFFER - 20
            /\ most["later"] <= SIZE_TCP_BUFFER - 8
            /\ queued = <<most["received"]>>
        BY <2>2, <1>5 DEF IInv, LimitInv
      <3>2. n = most["received"]
        BY <3>1, <1>1
      <3>3. n > 5 * SIZE_TCP_BUFFER + 8
        BY <2>2, <3>1, <3>2, <1>2, Limits DEF WithinLimits, SIZE_CMD_HEADER
      <3> QED
        BY <3>3, <1>9 DEF LimitInv
    <2> QED
      BY <2>1, <2>2
  <1> QED
    BY <1>1, <1>11, <1>12, <1>15, <1>16 DEF IInv

\* The packet of this call can always be taken, so the loop only ends without it.
LEMMA LoopEndsInv ==
    ASSUME IInv, LoopEnds
    PROVE  IInv'
  <1>1. mBufRevLength = 0 /\ queued = <<>> /\ ~Overrun /\ WithinLimits
    <2>1. ASSUME NEW n \in Received, queued = <<n>>, mBufRevLength = n,
                 used["mBufRecieve"] = n
          PROVE  FALSE
      <3>1. queued # <<>> /\ Head(queued) = n /\ n \in Nat /\ 8 <= n
        BY <2>1, Limits
      <3>2. n < 65262
        <4>1. ~(used["mBufRecieve"] > 10 * SIZE_TCP_BUFFER)
          BY Buffers DEF LoopEnds, Overrun
        <4> QED
          BY <2>1, <3>1, <4>1, Limits
      <3>3. WholePacket
        BY <2>1, <3>1, <3>2 DEF WholePacket, SIZE_CMD_HEADER
      <3> QED
        BY <3>1, <3>3 DEF LoopEnds
    <2>2. mBufRevLength = 0 /\ queued = <<>>
      BY <2>1 DEF IInv, LoopInv
    <2> QED
      BY <2>2 DEF IInv, LimitInv, LoopEnds
  <1>2. UNCHANGED <<mBufRevLength, queued, m_dwSendPacketCount, nHandler, used, most>>
    BY DEF LoopEnds
  <1>3. pc' = "idle"
    BY DEF LoopEnds
  <1>4. (Overrun' <=> Overrun) /\ (WithinLimits' <=> WithinLimits)
    BY <1>2 DEF Overrun, WithinLimits, Capacity
  <1>5. KernelTypeOK'
    BY <1>2, <1>3 DEF IInv, KernelTypeOK, Capacity
  <1> QED
    BY <1>1, <1>2, <1>4, <1>5 DEF IInv, LoopInv, LimitInv

LEMMA QuietInv ==
    ASSUME IInv, StopServer \/ LuaReturns \/ UNCHANGED kernelVars
    PROVE  IInv'
  <1>1. UNCHANGED <<mBufRevLength, queued, m_dwSendPacketCount, used, most>>
    BY DEF StopServer, LuaReturns, kernelVars
  <1>2. (Overrun' <=> Overrun) /\ (WithinLimits' <=> WithinLimits)
    BY <1>1 DEF Overrun, WithinLimits, Capacity
  <1>3. CASE StopServer \/ LuaReturns
    <2>1. KernelTypeOK'
      BY <1>1, <1>3 DEF IInv, KernelTypeOK, StopServer, LuaReturns, Capacity
    <2>2. mBufRevLength = 0 /\ queued = <<>> /\ ~Overrun /\ WithinLimits
      BY <1>3 DEF IInv, LoopInv, LimitInv, StopServer, LuaReturns
    <2> QED
      BY <1>1, <1>2, <2>1, <2>2 DEF IInv, LoopInv, LimitInv
  <1>4. CASE UNCHANGED kernelVars
    BY <1>2, <1>4 DEF IInv, KernelTypeOK, LoopInv, LimitInv, kernelVars, Capacity
  <1> QED
    BY <1>3, <1>4

LEMMA StepInv == IInv /\ [KernelNext]_kernelVars => IInv'
  BY PackInv, DataInv, TakeInv, LoopEndsInv, QuietInv DEF KernelNext

\* The inductive invariant holds of every execution.
THEOREM BuffersInvariant == KernelSpec => []IInv
  BY InitInv, StepInv, PTL DEF KernelSpec

\* Whatever Lua and the server send, EncryptBuffer, CrevasseBuffer, unpack and
\* OnSocketDataEvent stay inside their buffers as long as every size is within
\* the limits, and have run over one as soon as a size beyond them is handled.
THEOREM BuffersAreLargeEnough == KernelSpec => [](KernelTypeOK /\ InBounds)
  <1>1. IInv => KernelTypeOK /\ InBounds
    BY DEF IInv, InBounds, LimitInv
  <1> QED
    BY <1>1, BuffersInvariant, PTL

\* OnSocketDataEvent takes every packet out in the call that brought it.
THEOREM OnePacketACall == KernelSpec => []NothingIsKept
  <1>1. IInv => NothingIsKept
    <2> SUFFICES ASSUME IInv PROVE NothingIsKept
      OBVIOUS
    <2>1. pc # "loop" => mBufRevLength = 0 /\ queued = <<>>
      BY DEF IInv, LoopInv
    <2>2. Len(queued) <= 1
      <3>1. CASE queued = <<>>
        BY <3>1
      <3>2. ASSUME NEW n \in Received, queued = <<n>>
            PROVE  Len(queued) <= 1
        BY <3>2
      <3> QED
        BY <3>1, <3>2 DEF IInv, LoopInv
    <2> QED
      BY <2>1, <2>2 DEF NothingIsKept
  <1> QED
    BY <1>1, BuffersInvariant, PTL

\* The loop of OnSocketDataEvent never calls Lua for a socket that was closed.
THEOREM ClosedIsNotCalled == KernelSpec => NoCallAfterClose
  <1>1. IInv /\ [KernelNext]_kernelVars => [pc = "loop" /\ pc' = "lua" => nHandler]_kernelVars
    <2> SUFFICES ASSUME IInv, KernelNext, pc = "loop", pc' = "lua"
                 PROVE  nHandler
      BY DEF kernelVars
    <2> QED
      BY TakeInv DEF KernelNext, pack, StopServer, OnSocketDataEvent, LoopEnds, LuaReturns
  <1> QED
    BY <1>1, BuffersInvariant, PTL DEF KernelSpec, NoCallAfterClose
=============================================================================
