------------------------- MODULE ClientKernelProofs -------------------------
(***************************************************************************)
(* Proofs about ClientKernel.  First the arithmetic of rounds and blocks,  *)
(* then that CrevasseBuffer undoes EncryptBuffer and that EncryptBuffer    *)
(* makes one packet of every message, then the invariant that ties the     *)
(* packets under way to the keys and rounds of the two ends.               *)
(***************************************************************************)
EXTENDS ClientKernel, WellFoundedInduction, TLAPS

-----------------------------------------------------------------------------
(* Division.                                                                 *)

LEMMA DivMod ==
    ASSUME NEW n \in Nat \ {0}, NEW a \in Int
    PROVE  /\ a \div n \in Int /\ a % n \in 0 .. n - 1
           /\ a = n * (a \div n) + (a % n)
OBVIOUS

LEMMA NoMultipleBetween ==
    ASSUME NEW n \in Nat \ {0}, NEW k \in Int, n * k < n, -n < n * k
    PROVE  k = 0
<1>1. CASE k >= 1
  <2>1. n * k >= n  BY <1>1
  <2> QED  BY <2>1
<1>2. CASE k <= -1
  <2>1. n * k <= -n  BY <1>2
  <2> QED  BY <2>1
<1> QED  BY <1>1, <1>2

LEMMA DivisionUnique ==
    ASSUME NEW n \in Nat \ {0}, NEW q \in Int, NEW s \in 0 .. n - 1,
           NEW a \in Int, a = n * q + s
    PROVE  a \div n = q /\ a % n = s
<1> DEFINE d == a \div n
           r == a % n
<1>1. d \in Int /\ r \in 0 .. n - 1 /\ a = n * d + r  BY DivMod
<1> HIDE DEF d, r
<1>2. n * (q - d) = r - s  BY <1>1
<1>3. n * (q - d) < n /\ -n < n * (q - d)  BY <1>1, <1>2
<1>4. q - d \in Int  BY <1>1
<1>5. q - d = 0  BY <1>3, <1>4, NoMultipleBetween
<1>6. d = q /\ r = s  BY <1>1, <1>5
<1> QED  BY <1>6 DEF d, r

LEMMA TurnBack ==
    ASSUME NEW n \in Nat \ {0}, NEW b \in 0 .. n - 1, NEW r \in Nat
    PROVE  (((b + r) % n) - r) % n = b
<1> DEFINE d == (b + r) \div n
           s == (b + r) % n
<1>1. b + r \in Int  OBVIOUS
<1>2. d \in Int /\ s \in 0 .. n - 1 /\ b + r = n * d + s  BY <1>1, DivMod
<1> HIDE DEF d, s
<1>3. s - r = n * (-d) + b /\ -d \in Int /\ s - r \in Int  BY <1>2
<1>4. (s - r) % n = b  BY <1>3, DivisionUnique
<1> QED  BY <1>4 DEF s

-----------------------------------------------------------------------------
(* Positions and blocks.                                                     *)

LEMMA BlockOfByte ==
    ASSUME NEW i \in Nat \ {0}
    PROVE  /\ BlockOf(i) \in Nat \ {0} /\ OffsetOf(i) \in 1 .. BlockSize
           /\ Position(BlockOf(i), OffsetOf(i)) = i
<1> DEFINE d == (i - 1) \div BlockSize
           r == (i - 1) % BlockSize
<1>0. BlockSize \in Nat \ {0} /\ i - 1 \in Int  BY KernelAssumption
<1>1. d \in Int /\ r \in 0 .. BlockSize - 1 /\ i - 1 = BlockSize * d + r
  BY <1>0, DivMod
<1>2. BlockOf(i) = d + 1 /\ OffsetOf(i) = r + 1  BY DEF BlockOf, OffsetOf
<1> HIDE DEF d, r
<1>3. d >= 0
  <2>1. SUFFICES ASSUME d <= -1 PROVE FALSE  BY <1>1
  <2>2. BlockSize * d <= -BlockSize  BY <1>0, <1>1, <2>1
  <2> QED  BY <1>0, <1>1, <2>2
<1>4. Position(d + 1, r + 1) = i  BY <1>0, <1>1 DEF Position
<1> QED  BY <1>0, <1>1, <1>2, <1>3, <1>4

LEMMA ByteOfBlock ==
    ASSUME NEW j \in Nat \ {0}, NEW k \in 1 .. BlockSize
    PROVE  /\ Position(j, k) \in Nat \ {0}
           /\ BlockOf(Position(j, k)) = j /\ OffsetOf(Position(j, k)) = k
<1>0. BlockSize \in Nat \ {0}  BY KernelAssumption
<1> DEFINE p == Position(j, k)
           a == p - 1
           q == j - 1
           r == k - 1
<1>1. p \in Int /\ a \in Int /\ q \in Nat /\ r \in 0 .. BlockSize - 1
  BY <1>0 DEF Position
<1>2. a = BlockSize * q + r
  <2>1. q * BlockSize = BlockSize * q  BY <1>0, <1>1
  <2> QED  BY <1>0, <2>1 DEF Position
<1>3. p = a + 1 /\ j = q + 1 /\ k = r + 1  BY <1>1
<1> HIDE DEF p, a, q, r
<1>4. a \div BlockSize = q /\ a % BlockSize = r
  BY <1>0, <1>1, <1>2, DivisionUnique
<1>5. BlockSize * q >= 0  BY <1>0, <1>1
<1>6. p \in Nat \ {0}  BY <1>0, <1>1, <1>2, <1>3, <1>5
<1>7. p - 1 = a  BY <1>1, <1>3
<1>8. BlockOf(p) = j /\ OffsetOf(p) = k
  BY <1>3, <1>4, <1>7 DEF BlockOf, OffsetOf
<1> QED  BY <1>6, <1>8 DEF p

LEMMA BlocksAscend ==
    ASSUME NEW n \in Nat \ {0}, NEW i \in 1 .. n
    PROVE  BlockOf(i) \in 1 .. BlockOf(n)
<1>0. BlockSize \in Nat \ {0}  BY KernelAssumption
<1>1. /\ BlockOf(i) \in Nat \ {0} /\ OffsetOf(i) \in 1 .. BlockSize
      /\ i = (BlockOf(i) - 1) * BlockSize + OffsetOf(i)
  BY BlockOfByte DEF Position
<1>2. /\ BlockOf(n) \in Nat \ {0} /\ OffsetOf(n) \in 1 .. BlockSize
      /\ n = (BlockOf(n) - 1) * BlockSize + OffsetOf(n)
  BY BlockOfByte DEF Position
<1>3. SUFFICES ASSUME BlockOf(i) >= BlockOf(n) + 1 PROVE FALSE
  BY <1>1, <1>2
<1> DEFINE a == BlockOf(i) - 1
           b == BlockOf(n) - 1
<1>4. a \in Nat /\ b \in Nat /\ a >= b + 1  BY <1>1, <1>2, <1>3
<1>5. i = a * BlockSize + OffsetOf(i) /\ n = b * BlockSize + OffsetOf(n)
  BY <1>1, <1>2
<1> HIDE DEF a, b
<1>6. a * BlockSize >= b * BlockSize + BlockSize
  <2>1. (a - b - 1) * BlockSize >= 0  BY <1>0, <1>4
  <2> QED  BY <1>0, <1>4, <2>1
<1> QED  BY <1>0, <1>1, <1>2, <1>4, <1>5, <1>6

\* Only the last block can be short.
LEMMA EarlierBlocksFull ==
    ASSUME NEW n \in Nat \ {0}, NEW j \in Nat \ {0}, NEW k \in 1 .. BlockSize,
           j < BlockOf(n)
    PROVE  Position(j, k) \in 1 .. n
<1>1. Position(j, k) \in Nat \ {0} /\ BlockOf(Position(j, k)) = j
  BY ByteOfBlock
<1>2. SUFFICES ASSUME n \in 1 .. Position(j, k) PROVE FALSE  BY <1>1
<1>3. BlockOf(n) \in 1 .. j  BY <1>1, <1>2, BlocksAscend
<1>4. BlockOf(n) \in Nat  BY BlockOfByte
<1> QED  BY <1>3, <1>4

-----------------------------------------------------------------------------
(* Bytes in blocks.                                                          *)

LEMMA PaddedBlocks ==
    ASSUME NEW bytes \in Message
    PROVE  /\ Len(bytes) \in Nat \ {0} /\ BlockOf(Len(bytes)) \in Nat \ {0}
           /\ Padded(bytes) \in [1 .. BlockOf(Len(bytes)) -> Block]
           /\ \A j \in 1 .. BlockOf(Len(bytes)), k \in 1 .. BlockSize :
                 Padded(bytes)[j][k] = IF Position(j, k) <= Len(bytes)
                                       THEN bytes[Position(j, k)] ELSE 0
<1>0. BlockSize \in Nat \ {0} /\ ByteSize \in Nat \ {0}  BY KernelAssumption
<1>1. bytes \in Seq(Byte) /\ Len(bytes) >= BlockSize  BY DEF Message
<1>2. Len(bytes) \in Nat \ {0}  BY <1>0, <1>1
<1>3. BlockOf(Len(bytes)) \in Nat \ {0}  BY <1>2, BlockOfByte
<1>4. \A j \in 1 .. BlockOf(Len(bytes)), k \in 1 .. BlockSize :
         Position(j, k) <= Len(bytes) => bytes[Position(j, k)] \in Byte
  <2> TAKE j \in 1 .. BlockOf(Len(bytes)), k \in 1 .. BlockSize
  <2>1. j \in Nat \ {0}  BY <1>3
  <2>2. Position(j, k) \in Nat \ {0}  BY <2>1, ByteOfBlock
  <2> QED  BY <1>1, <2>2
<1>5. 0 \in Byte  BY <1>0 DEF Byte
<1> QED  BY <1>2, <1>3, <1>4, <1>5 DEF Padded, InBlocks, Block
LEMMA KeyIsBlock ==
    ASSUME NEW n \in Nat \ {0}, NEW c \in [1 .. n -> Block],
           NEW key \in Block, NEW j \in 1 .. n
    PROVE  KeyOf(c, j, key) \in Block
<1>1. CASE j = 1  BY <1>1 DEF KeyOf
<1>2. CASE j # 1
  <2>1. c[j - 1] \in Block  BY <1>2
  <2> QED  BY <1>2, <2>1, CipherAssumption DEF KeyOf
<1> QED  BY <1>1, <1>2

LEMMA RestoredBlocks ==
    ASSUME NEW bytes \in Message, NEW key \in Block
    PROVE  /\ Restored(bytes, key) \in [1 .. BlockOf(Len(bytes)) -> Block]
           /\ \A j \in 1 .. BlockOf(Len(bytes)), k \in 1 .. BlockSize :
                 Restored(bytes, key)[j][k] =
                     IF Position(j, k) <= Len(bytes)
                     THEN bytes[Position(j, k)]
                     ELSE KeyOf(Padded(bytes), j, key)[k]
<1> DEFINE n == BlockOf(Len(bytes))
           z == Padded(bytes)
<1>1. n \in Nat \ {0} /\ z \in [1 .. n -> Block]  BY PaddedBlocks
<1>2. bytes \in Seq(Byte)  BY DEF Message
<1>3. \A j \in 1 .. n, k \in 1 .. BlockSize :
         Position(j, k) <= Len(bytes) => bytes[Position(j, k)] \in Byte
  <2> TAKE j \in 1 .. n, k \in 1 .. BlockSize
  <2>1. j \in Nat \ {0}  BY <1>1
  <2>2. Position(j, k) \in Nat \ {0}  BY <2>1, ByteOfBlock
  <2> QED  BY <1>2, <2>2
<1>4. \A j \in 1 .. n, k \in 1 .. BlockSize : KeyOf(z, j, key)[k] \in Byte
  <2> TAKE j \in 1 .. n, k \in 1 .. BlockSize
  <2> HIDE DEF n, z
  <2>1. KeyOf(z, j, key) \in Block  BY <1>1, KeyIsBlock
  <2> QED  BY <2>1 DEF Block
<1> QED  BY <1>3, <1>4 DEF Restored, InBlocks, Block

LEMMA MapRoundTrip ==
    ASSUME NEW b \in Byte, NEW r \in Nat
    PROVE  MapSendByte(b, r) \in Byte /\ MapRecvByte(MapSendByte(b, r), r) = b
<1>0. ByteSize \in Nat \ {0}  BY KernelAssumption
<1>1. b \in 0 .. ByteSize - 1  BY DEF Byte
<1>2. (b + r) \in Int  BY <1>1
<1>3. (b + r) % ByteSize \in Byte  BY <1>0, <1>2, DivMod DEF Byte
<1>4. (((b + r) % ByteSize) - r) % ByteSize = b  BY <1>0, <1>1, TurnBack
<1> QED  BY <1>3, <1>4, CipherAssumption DEF MapSendByte, MapRecvByte

LEMMA MapSendMessage ==
    ASSUME NEW msg \in Message, NEW round \in Nat
    PROVE  MapSend(msg, round) \in Message /\ Len(MapSend(msg, round)) = Len(msg)
<1>1. msg \in Seq(Byte) /\ Len(msg) >= BlockSize  BY DEF Message
<1>2. \A i \in 1 .. Len(msg) :
         MapSendByte(msg[i], round + 3 * (i - 1)) \in Byte
  <2> TAKE i \in 1 .. Len(msg)
  <2>1. msg[i] \in Byte /\ round + 3 * (i - 1) \in Nat  BY <1>1
  <2> QED  BY <2>1, MapRoundTrip
<1>3. Len(msg) \in Nat  BY <1>1
<1> QED  BY <1>1, <1>2, <1>3 DEF MapSend, Message

-----------------------------------------------------------------------------
(* CrevasseBuffer undoes EncryptBuffer.                                      *)

\* What EncryptBuffer's loop establishes, with its cipher text c.
LEMMA EncryptedBlocks ==
    ASSUME NEW msg \in Message, NEW round \in Nat, NEW key \in Block,
           NEW e \in EncryptBuffer(msg, round, key)
    PROVE  \E c \in [1 .. BlockOf(Len(msg)) -> Block] :
             /\ \A j \in 1 .. BlockOf(Len(msg)), k \in 1 .. BlockSize :
                   c[j][k] = Xor(Padded(MapSend(msg, round))[j][k],
                                 KeyOf(c, j, key)[k])
             /\ e = [bytes |-> [i \in 1 .. Len(msg) |->
                                   c[BlockOf(i)][OffsetOf(i)]],
                     next |-> NextKey(c[BlockOf(Len(msg))])]
<1> DEFINE plain == Padded(MapSend(msg, round))
<1>1. DOMAIN plain = 1 .. BlockOf(Len(msg))
  BY MapSendMessage, PaddedBlocks
<1> HIDE DEF plain
<1>2. PICK c \in {d \in [DOMAIN plain -> Block] :
                     \A j \in DOMAIN plain : \A k \in 1 .. BlockSize :
                        d[j][k] = Xor(plain[j][k], KeyOf(d, j, key)[k])} :
         e = [bytes |-> [i \in 1 .. Len(msg) |-> c[BlockOf(i)][OffsetOf(i)]],
              next |-> NextKey(c[BlockOf(Len(msg))])]
  BY DEF EncryptBuffer, plain
<1> QED  BY <1>1, <1>2 DEF plain

\* Every packet is read as it was written, and leaves the reader with the key
\* that the writer goes on with (EncryptBuffer, CrevasseBuffer).
THEOREM RoundTrip ==
    ASSUME NEW msg \in Message, NEW round \in Nat, NEW key \in Block,
           NEW e \in EncryptBuffer(msg, round, key)
    PROVE  /\ e.bytes \in Message /\ Len(e.bytes) = Len(msg)
           /\ e.next \in Block
           /\ CrevasseBuffer(e.bytes, round, key) =
                [msg |-> msg, next |-> e.next]
<1> DEFINE L == Len(msg)
           nb == BlockOf(L)
           M == MapSend(msg, round)
           plain == Padded(M)
<1>1. /\ msg \in Seq(Byte) /\ L >= BlockSize /\ L \in Nat \ {0}
      /\ nb \in Nat \ {0}
  BY PaddedBlocks DEF Message
<1>2. M \in Message /\ Len(M) = L /\ M \in Seq(Byte)
  BY MapSendMessage DEF Message
<1>3. /\ plain \in [1 .. nb -> Block]
      /\ \A j \in 1 .. nb, k \in 1 .. BlockSize :
            plain[j][k] = IF Position(j, k) <= L THEN M[Position(j, k)] ELSE 0
  BY <1>2, PaddedBlocks
<1>4. PICK c \in [1 .. nb -> Block] :
             /\ \A j \in 1 .. nb, k \in 1 .. BlockSize :
                   c[j][k] = Xor(plain[j][k], KeyOf(c, j, key)[k])
             /\ e = [bytes |-> [i \in 1 .. L |-> c[BlockOf(i)][OffsetOf(i)]],
                     next |-> NextKey(c[nb])]
  BY EncryptedBlocks
<1> DEFINE bytes == e.bytes
           z == Padded(bytes)
           d == Restored(bytes, key)
<1>5. bytes = [i \in 1 .. L |-> c[BlockOf(i)][OffsetOf(i)]]
      /\ e.next = NextKey(c[nb])
  BY <1>4
<1>6. \A i \in 1 .. L : /\ BlockOf(i) \in 1 .. nb
                        /\ OffsetOf(i) \in 1 .. BlockSize
                        /\ Position(BlockOf(i), OffsetOf(i)) = i
                        /\ bytes[i] = c[BlockOf(i)][OffsetOf(i)]
                        /\ bytes[i] \in Byte
  <2> TAKE i \in 1 .. L
  <2>1. i \in Nat \ {0}  BY <1>1
  <2>2. /\ BlockOf(i) \in 1 .. nb /\ OffsetOf(i) \in 1 .. BlockSize
        /\ Position(BlockOf(i), OffsetOf(i)) = i
    BY <1>1, <2>1, BlockOfByte, BlocksAscend
  <2> HIDE DEF nb, bytes
  <2>3. c[BlockOf(i)][OffsetOf(i)] \in Byte  BY <2>2 DEF Block
  <2>4. bytes[i] = c[BlockOf(i)][OffsetOf(i)]  BY <1>5
  <2> QED  BY <2>2, <2>3, <2>4
<1>7. bytes \in Message /\ Len(bytes) = L
  <2> HIDE DEF L, bytes
  <2>1. bytes \in Seq(Byte) /\ Len(bytes) = L  BY <1>1, <1>5, <1>6
  <2> QED  BY <1>1, <2>1 DEF Message
<1>8. e.next \in Block
  <2>1. c[nb] \in Block  BY <1>1
  <2> QED  BY <1>5, <2>1, CipherAssumption
<1>9. /\ z \in [1 .. nb -> Block]
      /\ \A j \in 1 .. nb, k \in 1 .. BlockSize :
            z[j][k] = IF Position(j, k) <= L THEN bytes[Position(j, k)] ELSE 0
  <2> HIDE DEF bytes, L
  <2> QED  BY <1>7, PaddedBlocks DEF L
<1>10. /\ d \in [1 .. nb -> Block]
       /\ \A j \in 1 .. nb, k \in 1 .. BlockSize :
             d[j][k] = IF Position(j, k) <= L THEN bytes[Position(j, k)]
                       ELSE KeyOf(z, j, key)[k]
  <2> HIDE DEF bytes, L
  <2> QED  BY <1>7, RestoredBlocks DEF L
<1>11. \A j \in 1 .. nb, k \in 1 .. BlockSize :
          Position(j, k) <= L => bytes[Position(j, k)] = c[j][k]
  <2> TAKE j \in 1 .. nb, k \in 1 .. BlockSize
  <2>1. j \in Nat \ {0}  BY <1>1
  <2>2. /\ Position(j, k) \in Nat \ {0}
        /\ BlockOf(Position(j, k)) = j /\ OffsetOf(Position(j, k)) = k
    BY <2>1, ByteOfBlock
  <2> HIDE DEF L, bytes, nb
  <2> QED  BY <1>1, <1>6, <2>2
<1> HIDE DEF L, nb, M, plain, bytes, z, d
\* All blocks but the last are as they were sent, so the keys are too.
<1>12. \A j \in 1 .. nb : j < nb => z[j] = c[j]
  <2> SUFFICES ASSUME NEW j \in 1 .. nb, j < nb PROVE z[j] = c[j]
    OBVIOUS
  <2>1. \A k \in 1 .. BlockSize : z[j][k] = c[j][k]
    <3> TAKE k \in 1 .. BlockSize
    <3>1. Position(j, k) \in 1 .. L
      BY <1>1, EarlierBlocksFull DEF nb
    <3> QED  BY <1>1, <1>9, <1>11, <3>1
  <2>2. z[j] \in Block /\ c[j] \in Block  BY <1>9
  <2>3. /\ z[j] = [k \in 1 .. BlockSize |-> z[j][k]]
        /\ c[j] = [k \in 1 .. BlockSize |-> c[j][k]]
    BY <2>2 DEF Block
  <2> QED  BY <2>1, <2>3
<1>13. \A j \in 1 .. nb : KeyOf(z, j, key) = KeyOf(c, j, key)
  <2> TAKE j \in 1 .. nb
  <2>1. CASE j = 1  BY <2>1 DEF KeyOf
  <2>2. CASE j # 1
    <3>1. j - 1 \in 1 .. nb /\ j - 1 < nb  BY <1>1, <2>2
    <3>2. z[j - 1] = c[j - 1]  BY <1>12, <3>1
    <3> QED  BY <2>2, <3>2 DEF KeyOf
  <2> QED  BY <2>1, <2>2
\* The padding was 0 before the key went in: the key itself completes it.
<1>14. d = c
  <2>1. \A j \in 1 .. nb, k \in 1 .. BlockSize : d[j][k] = c[j][k]
    <3> TAKE j \in 1 .. nb, k \in 1 .. BlockSize
    <3>1. CASE Position(j, k) <= L  BY <1>10, <1>11, <3>1
    <3>2. CASE ~(Position(j, k) <= L)
      <4>1. KeyOf(c, j, key)[k] \in Byte
        <5>1. KeyOf(c, j, key) \in Block  BY <1>1, KeyIsBlock
        <5> QED  BY <5>1 DEF Block
      <4>2. c[j][k] = Xor(0, KeyOf(c, j, key)[k])  BY <1>3, <1>4, <3>2
      <4>3. c[j][k] = KeyOf(c, j, key)[k]  BY <4>1, <4>2, CipherAssumption
      <4> QED  BY <1>10, <1>13, <3>2, <4>3
    <3> QED  BY <3>1, <3>2
  <2>2. \A j \in 1 .. nb : d[j] = c[j]
    <3> TAKE j \in 1 .. nb
    <3>1. d[j] \in Block /\ c[j] \in Block  BY <1>10
    <3>2. /\ d[j] = [k \in 1 .. BlockSize |-> d[j][k]]
          /\ c[j] = [k \in 1 .. BlockSize |-> c[j][k]]
      BY <3>1 DEF Block
    <3>3. \A k \in 1 .. BlockSize : d[j][k] = c[j][k]  BY <2>1
    <3> QED  BY <3>2, <3>3
  <2>3. d = [j \in 1 .. nb |-> d[j]] /\ c = [j \in 1 .. nb |-> c[j]]
    BY <1>10
  <2> QED  BY <2>2, <2>3
<1> DEFINE open == [i \in 1 .. L |-> Xor(bytes[i],
                                     KeyOf(d, BlockOf(i), key)[OffsetOf(i)])]
<1>15. open = M
  <2>1. \A i \in 1 .. L : open[i] = M[i]
    <3> TAKE i \in 1 .. L
    <3> DEFINE j == BlockOf(i)
               k == OffsetOf(i)
    <3>1. j \in 1 .. nb /\ k \in 1 .. BlockSize /\ Position(j, k) = i
          /\ bytes[i] = c[j][k]
      BY <1>6
    <3>2. open[i] = Xor(c[j][k], KeyOf(c, j, key)[k])  BY <1>14, <3>1
    <3> HIDE DEF j, k, open
    <3>3. c[j][k] = Xor(plain[j][k], KeyOf(c, j, key)[k])  BY <1>4, <3>1
    <3>4. plain[j][k] = M[i]  BY <1>1, <1>3, <3>1
    <3>5. M[i] \in Byte /\ KeyOf(c, j, key)[k] \in Byte
      <4>1. KeyOf(c, j, key) \in Block  BY <1>1, <3>1, KeyIsBlock
      <4> QED  BY <1>1, <1>2, <3>1, <4>1 DEF Block
    <3> QED  BY <3>2, <3>3, <3>4, <3>5, CipherAssumption
  <2>2. DOMAIN open = 1 .. L /\ open = [i \in DOMAIN open |-> open[i]]
    OBVIOUS
  <2>3. DOMAIN M = 1 .. L /\ M = [i \in DOMAIN M |-> M[i]]
    BY <1>1, <1>2
  <2> HIDE DEF open
  <2> QED  BY <2>1, <2>2, <2>3
<1>16. MapRecv(M, round) = msg
  <2>1. \A i \in 1 .. L :
           MapRecvByte(M[i], round + 3 * (i - 1)) = msg[i]
    <3> TAKE i \in 1 .. L
    <3>1. M[i] = MapSendByte(msg[i], round + 3 * (i - 1))
      BY DEF M, L, MapSend
    <3>2. msg[i] \in Byte /\ round + 3 * (i - 1) \in Nat  BY <1>1 DEF L
    <3> QED  BY <3>1, <3>2, MapRoundTrip
  <2>2. msg = [i \in 1 .. L |-> msg[i]]  BY <1>1 DEF L
  <2>3. MapRecv(M, round) = [i \in 1 .. L |->
                                MapRecvByte(M[i], round + 3 * (i - 1))]
    BY <1>2 DEF MapRecv
  <2> QED  BY <2>1, <2>2, <2>3
<1>17. CrevasseBuffer(bytes, round, key) =
          [msg |-> MapRecv(open, round), next |-> NextKey(d[nb])]
  BY <1>7 DEF CrevasseBuffer, d, nb, L
<1> HIDE DEF open
<1>18. CrevasseBuffer(bytes, round, key) = [msg |-> msg, next |-> e.next]
  BY <1>5, <1>14, <1>15, <1>16, <1>17
<1> QED  BY <1>7, <1>8, <1>18 DEF bytes, L

-----------------------------------------------------------------------------
(* EncryptBuffer makes one packet of every message.                          *)

\* A set of natural numbers that has 0 and each number's successor has them all.
LEMMA Induction ==
    ASSUME NEW S, 0 \in S, \A n \in Nat : n \in S => n + 1 \in S
    PROVE  \A n \in Nat : n \in S
<1> DEFINE less == {ss \in Nat \X Nat : ss[1] < ss[2]}
           Rest == Nat \ S
<1>1. SUFFICES ASSUME Rest # {} PROVE FALSE  OBVIOUS
<1>2. OpToRel(<, Nat) = less  BY Zenon DEF OpToRel
<1>3. IsWellFoundedOn(less, Nat)  BY <1>2, NatLessThanWellFounded
<1>4. PICK n \in Rest : \A m \in Rest : ~(<<m, n>> \in less)
  BY <1>1, <1>3, WFMin, Zenon
<1>5. n \in Nat /\ n # 0 /\ n \notin S  BY <1>4
<1>6. n - 1 \in Nat /\ (n - 1) + 1 = n  BY <1>5
<1>7. n - 1 \notin S
  <2>1. n - 1 \in S => (n - 1) + 1 \in S  BY <1>6
  <2> QED  BY <1>5, <1>6, <2>1
<1>8. <<n - 1, n>> \in less
  <2>1. n - 1 < n  BY <1>5
  <2> QED  BY <1>5, <1>6, <2>1
<1> QED  BY <1>4, <1>6, <1>7, <1>8

\* c is keyed as the loop does it, as far as block n.
ChainedTo(c, n, plain, key) ==
    \A j \in 1 .. n : \A k \in 1 .. BlockSize :
        c[j][k] = Xor(plain[j][k], KeyOf(c, j, key)[k])

\* The loop's next round leaves the blocks before it as they are.
LEMMA NextBlock ==
    ASSUME NEW N \in Nat \ {0}, NEW plain \in [1 .. N -> Block],
           NEW key \in Block, NEW n \in Nat, n < N,
           NEW c \in [1 .. N -> Block], ChainedTo(c, n, plain, key)
    PROVE  \E d \in [1 .. N -> Block] : ChainedTo(d, n + 1, plain, key)
<1> DEFINE K == KeyOf(c, n + 1, key)
           b == [k \in 1 .. BlockSize |-> Xor(plain[n + 1][k], K[k])]
           d == [c EXCEPT ![n + 1] = b]
<1>1. n + 1 \in 1 .. N  OBVIOUS
<1>2. K \in Block /\ plain[n + 1] \in Block  BY <1>1, KeyIsBlock
<1> HIDE DEF K
<1>3. b \in Block /\ \A k \in 1 .. BlockSize : b[k] = Xor(plain[n + 1][k], K[k])
  BY <1>2, CipherAssumption DEF Block
<1> HIDE DEF b
<1>4. /\ d \in [1 .. N -> Block] /\ d[n + 1] = b
      /\ \A j \in 1 .. n : d[j] = c[j]
  BY <1>1, <1>3
<1> HIDE DEF d
<1>5. \A j \in 1 .. n + 1 : KeyOf(d, j, key) = KeyOf(c, j, key)
  <2> TAKE j \in 1 .. n + 1
  <2>1. CASE j = 1  BY <2>1 DEF KeyOf
  <2>2. CASE j # 1
    <3>1. j - 1 \in 1 .. n  BY <2>2
    <3> QED  BY <1>4, <2>2, <3>1 DEF KeyOf
  <2> QED  BY <2>1, <2>2
<1>6. ASSUME NEW j \in 1 .. n + 1, NEW k \in 1 .. BlockSize
      PROVE  d[j][k] = Xor(plain[j][k], KeyOf(d, j, key)[k])
  <2>1. KeyOf(d, j, key) = KeyOf(c, j, key)  BY <1>5
  <2>2. CASE j = n + 1  BY <1>3, <1>4, <2>1, <2>2 DEF K
  <2>3. CASE j # n + 1
    <3>1. j \in 1 .. n  BY <2>3
    <3>2. d[j] = c[j]  BY <1>4, <3>1
    <3>3. c[j][k] = Xor(plain[j][k], KeyOf(c, j, key)[k])
      BY <3>1 DEF ChainedTo
    <3> QED  BY <2>1, <3>2, <3>3
  <2> QED  BY <2>2, <2>3
<1> QED  BY <1>4, <1>6 DEF ChainedTo

LEMMA ChainExists ==
    ASSUME NEW N \in Nat \ {0}, NEW plain \in [1 .. N -> Block], NEW key \in Block
    PROVE  \E c \in [1 .. N -> Block] : ChainedTo(c, N, plain, key)
<1> DEFINE S == {n \in Nat : n <= N =>
                   \E c \in [1 .. N -> Block] : ChainedTo(c, n, plain, key)}
<1>1. 0 \in S
  <2> DEFINE c == [j \in 1 .. N |-> key]
  <2>1. c \in [1 .. N -> Block]  OBVIOUS
  <2>2. ChainedTo(c, 0, plain, key)  BY DEF ChainedTo
  <2> HIDE DEF c
  <2> QED  BY <2>1, <2>2
<1>2. ASSUME NEW n \in Nat, n \in S PROVE n + 1 \in S
  <2>1. CASE n + 1 <= N
    <3>1. n < N  BY <2>1
    <3>2. PICK c \in [1 .. N -> Block] : ChainedTo(c, n, plain, key)
      BY <1>2, <3>1
    <3> QED  BY <3>1, <3>2, NextBlock
  <2>2. CASE ~(n + 1 <= N)  BY <2>2
  <2> QED  BY <2>1, <2>2
<1> HIDE DEF S
<1>3. N \in S  BY <1>1, <1>2, Induction
<1> QED  BY <1>3 DEF S

\* Every block is fixed by those before it.
LEMMA ChainUnique ==
    ASSUME NEW N \in Nat \ {0}, NEW plain \in [1 .. N -> Block], NEW key \in Block,
           NEW c \in [1 .. N -> Block], NEW d \in [1 .. N -> Block],
           ChainedTo(c, N, plain, key), ChainedTo(d, N, plain, key)
    PROVE  c = d
<1> DEFINE S == {n \in Nat : \A j \in 1 .. N : j <= n => c[j] = d[j]}
<1>1. 0 \in S  OBVIOUS
<1>2. ASSUME NEW n \in Nat, n \in S PROVE n + 1 \in S
  <2>1. SUFFICES ASSUME n + 1 \in 1 .. N PROVE c[n + 1] = d[n + 1]
    BY <1>2
  <2>2. KeyOf(c, n + 1, key) = KeyOf(d, n + 1, key)
    <3>1. CASE n = 0  BY <3>1 DEF KeyOf
    <3>2. CASE n # 0
      <4>1. n \in 1 .. N /\ (n + 1) - 1 = n /\ n + 1 # 1  BY <2>1, <3>2
      <4>2. c[n] = d[n]  BY <1>2, <4>1
      <4> QED  BY <4>1, <4>2 DEF KeyOf
    <3> QED  BY <3>1, <3>2
  <2> DEFINE f == c[n + 1]
             g == d[n + 1]
  <2>3. \A k \in 1 .. BlockSize : f[k] = g[k]
    BY <2>1, <2>2 DEF ChainedTo
  <2>4. f \in Block /\ g \in Block  BY <2>1
  <2>5. f = g
    <3> HIDE DEF f, g
    <3>1. f = [k \in 1 .. BlockSize |-> f[k]]  BY <2>4 DEF Block
    <3>2. g = [k \in 1 .. BlockSize |-> g[k]]  BY <2>4 DEF Block
    <3> QED  BY <2>3, <3>1, <3>2, Zenon
  <2> QED  BY <2>5
<1> HIDE DEF S
<1>3. N \in S  BY <1>1, <1>2, Induction
<1> QED  BY <1>3 DEF S

\* EncryptBuffer is a function: whatever Lua or the server sends, there is
\* exactly one packet and one next key, so no message is ever held back
\* (pack, EncryptBuffer).
THEOREM OnePacket ==
    ASSUME NEW msg \in Message, NEW round \in Nat, NEW key \in Block
    PROVE  \E e : EncryptBuffer(msg, round, key) = {e}
<1> DEFINE N == BlockOf(Len(msg))
           plain == Padded(MapSend(msg, round))
           Sent(c) == [bytes |-> [i \in 1 .. Len(msg) |-> c[BlockOf(i)][OffsetOf(i)]],
                       next |-> NextKey(c[BlockOf(Len(msg))])]
           All == {d \in [1 .. N -> Block] : ChainedTo(d, N, plain, key)}
<1>1. N \in Nat \ {0} /\ plain \in [1 .. N -> Block] /\ DOMAIN plain = 1 .. N
  BY MapSendMessage, PaddedBlocks
<1>2. EncryptBuffer(msg, round, key) = {Sent(c) : c \in All}
  <2> HIDE DEF N, plain
  <2>1. EncryptBuffer(msg, round, key) =
          {Sent(c) : c \in {d \in [DOMAIN plain -> Block] :
             \A j \in DOMAIN plain : \A k \in 1 .. BlockSize :
                d[j][k] = Xor(plain[j][k], KeyOf(d, j, key)[k])}}
    BY Zenon DEF EncryptBuffer, plain
  <2>2. {d \in [DOMAIN plain -> Block] :
             \A j \in DOMAIN plain : \A k \in 1 .. BlockSize :
                d[j][k] = Xor(plain[j][k], KeyOf(d, j, key)[k])} = All
    BY <1>1 DEF ChainedTo
  <2> HIDE DEF All
  <2> QED  BY <2>1, <2>2
<1> HIDE DEF N, plain, Sent
<1>3. PICK c \in [1 .. N -> Block] : ChainedTo(c, N, plain, key)
  BY <1>1, ChainExists
<1>4. All = {c}
  <2>1. \A d \in All : d = c  BY <1>1, <1>3, ChainUnique
  <2> QED  BY <1>3, <2>1
<1> HIDE DEF All
<1>5. {Sent(d) : d \in All} = {Sent(c)}  BY <1>4
<1> QED  BY <1>2, <1>5

-----------------------------------------------------------------------------
(* Sequences.                                                                *)

LEMMA AppendFacts ==
    ASSUME NEW S, NEW s \in Seq(S), NEW x \in S
    PROVE  /\ Append(s, x) \in Seq(S) /\ Len(Append(s, x)) = Len(s) + 1
           /\ \A i \in 1 .. Len(s) : Append(s, x)[i] = s[i]
           /\ Append(s, x)[Len(s) + 1] = x
OBVIOUS

LEMMA TailFacts ==
    ASSUME NEW S, NEW s \in Seq(S), s # <<>>
    PROVE  /\ Len(s) \in Nat \ {0} /\ Head(s) = s[1] /\ s[1] \in S
           /\ Tail(s) \in Seq(S) /\ Len(Tail(s)) = Len(s) - 1
           /\ \A i \in 1 .. Len(s) - 1 : Tail(s)[i] = s[i + 1]
OBVIOUS

LEMMA ElementOfSeq ==
    ASSUME NEW S, NEW s \in Seq(S), NEW n \in DOMAIN s
    PROVE  s[n] \in S
OBVIOUS

LEMMA LongerPrefix ==
    ASSUME NEW S, NEW s \in Seq(S), NEW n \in 0 .. Len(s) - 1
    PROVE  Append(SubSeq(s, 1, n), s[n + 1]) = SubSeq(s, 1, n + 1)
OBVIOUS

LEMMA PrefixOfAppend ==
    ASSUME NEW S, NEW s \in Seq(S), NEW n \in 0 .. Len(s), NEW x \in S
    PROVE  SubSeq(Append(s, x), 1, n) = SubSeq(s, 1, n)
OBVIOUS

-----------------------------------------------------------------------------
(* A wire from a sender to a receiver.                                       *)

\* A receiver holding (key, round) reads msg from packet p and then holds
\* (key2, round2).
Reads(p, msg, key, round, key2, round2) ==
    IF p.mapped
    THEN /\ CrevasseBuffer(p.bytes, round, key) = [msg |-> msg, next |-> key2]
         /\ round2 = RoundAfter(round, Len(p.bytes))
    ELSE p.bytes = msg /\ key2 = key /\ round2 = round

\* Reading the packets of the wire w one by one, a receiver that holds
\* (key, round) finds the last messages of hist and ends with (key2, round2).
Chain(w, hist, key, round, key2, round2) ==
    \E ks \in [1 .. Len(w) + 1 -> Block], rs \in [1 .. Len(w) + 1 -> Byte] :
       /\ ks[1] = key /\ rs[1] = round
       /\ ks[Len(w) + 1] = key2 /\ rs[Len(w) + 1] = round2
       /\ \A i \in 1 .. Len(w) :
             Reads(w[i], hist[Len(hist) - Len(w) + i],
                   ks[i], rs[i], ks[i + 1], rs[i + 1])

\* Packets in the clear are read as they are, with any key.
LEMMA ChainOfClear ==
    ASSUME NEW w \in Seq(Packet), NEW hist,
           NEW key \in Block, NEW round \in Byte,
           \A i \in 1 .. Len(w) : /\ ~w[i].mapped
                                  /\ w[i].bytes = hist[Len(hist) - Len(w) + i]
    PROVE  Chain(w, hist, key, round, key, round)
<1> DEFINE n == Len(w)
           ks == [i \in 1 .. n + 1 |-> key]
           rs == [i \in 1 .. n + 1 |-> round]
<1>1. n \in Nat  OBVIOUS
<1>2. ks \in [1 .. n + 1 -> Block] /\ rs \in [1 .. n + 1 -> Byte]  OBVIOUS
<1>3. \A i \in 1 .. n + 1 : ks[i] = key /\ rs[i] = round  OBVIOUS
<1> HIDE DEF ks, rs
<1>4. \A i \in 1 .. n : Reads(w[i], hist[Len(hist) - n + i],
                              ks[i], rs[i], ks[i + 1], rs[i + 1])
  BY <1>1, <1>3 DEF Reads
<1>5. /\ ks[1] = key /\ rs[1] = round
      /\ ks[n + 1] = key /\ rs[n + 1] = round
  BY <1>1, <1>3
<1> QED  BY <1>2, <1>4, <1>5 DEF Chain

LEMMA ChainDone ==
    ASSUME NEW hist, NEW key, NEW round, NEW key2, NEW round2,
           Chain(<<>>, hist, key, round, key2, round2)
    PROVE  key = key2 /\ round = round2
BY DEF Chain

LEMMA ChainAppend ==
    ASSUME NEW w \in Seq(Packet), NEW hist \in Seq(Message),
           Len(w) <= Len(hist),
           NEW key, NEW round, NEW key2, NEW round2,
           Chain(w, hist, key, round, key2, round2),
           NEW p \in Packet, NEW msg \in Message,
           NEW key3 \in Block, NEW round3 \in Byte,
           Reads(p, msg, key2, round2, key3, round3)
    PROVE  Chain(Append(w, p), Append(hist, msg), key, round, key3, round3)
<1> DEFINE n == Len(w)
           m == Len(hist)
           w2 == Append(w, p)
           h2 == Append(hist, msg)
<1>1. /\ n \in Nat /\ m \in Nat /\ n <= m
      /\ Len(w2) = n + 1 /\ \A i \in 1 .. n : w2[i] = w[i]
      /\ w2[n + 1] = p
      /\ Len(h2) = m + 1 /\ \A i \in 1 .. m : h2[i] = hist[i]
      /\ h2[m + 1] = msg
  BY AppendFacts
<1>2. PICK ks \in [1 .. n + 1 -> Block], rs \in [1 .. n + 1 -> Byte] :
         /\ ks[1] = key /\ rs[1] = round
         /\ ks[n + 1] = key2 /\ rs[n + 1] = round2
         /\ \A i \in 1 .. n : Reads(w[i], hist[m - n + i],
                                    ks[i], rs[i], ks[i + 1], rs[i + 1])
  BY DEF Chain
<1> DEFINE ks2 == [i \in 1 .. (n + 1) + 1 |-> IF i <= n + 1 THEN ks[i] ELSE key3]
           rs2 == [i \in 1 .. (n + 1) + 1 |-> IF i <= n + 1 THEN rs[i] ELSE round3]
<1> HIDE DEF n, m, w2, h2
<1>3. /\ ks2 \in [1 .. (n + 1) + 1 -> Block]
      /\ rs2 \in [1 .. (n + 1) + 1 -> Byte]
  BY <1>1, <1>2
<1>4. /\ \A i \in 1 .. n + 1 : ks2[i] = ks[i] /\ rs2[i] = rs[i]
      /\ ks2[(n + 1) + 1] = key3 /\ rs2[(n + 1) + 1] = round3
  BY <1>1
<1> HIDE DEF ks2, rs2
<1>5. /\ ks2[1] = key /\ rs2[1] = round  BY <1>1, <1>2, <1>4
<1>6. \A i \in 1 .. n + 1 :
         Reads(w2[i], h2[(m + 1) - (n + 1) + i],
               ks2[i], rs2[i], ks2[i + 1], rs2[i + 1])
  <2> TAKE i \in 1 .. n + 1
  <2>1. CASE i = n + 1
    <3>1. (m + 1) - (n + 1) + i = m + 1  BY <1>1, <2>1
    <3>2. ks2[i] = key2 /\ rs2[i] = round2  BY <1>1, <1>2, <1>4, <2>1
    <3>3. ks2[i + 1] = key3 /\ rs2[i + 1] = round3  BY <1>4, <2>1
    <3> QED  BY <1>1, <2>1, <3>1, <3>2, <3>3
  <2>2. CASE i # n + 1
    <3>1. i \in 1 .. n /\ i + 1 \in 1 .. n + 1 /\ m - n + i \in 1 .. m
          /\ (m + 1) - (n + 1) + i = m - n + i
      BY <1>1, <2>2
    <3>2. /\ ks2[i] = ks[i] /\ rs2[i] = rs[i]
          /\ ks2[i + 1] = ks[i + 1] /\ rs2[i + 1] = rs[i + 1]
      BY <1>4, <3>1
    <3>3. w2[i] = w[i] /\ h2[m - n + i] = hist[m - n + i]  BY <1>1, <3>1
    <3> QED  BY <1>2, <3>1, <3>2, <3>3
  <2> QED  BY <2>1, <2>2
<1>7. Len(w2) = n + 1 /\ Len(h2) = m + 1  BY <1>1
<1>8. Chain(w2, h2, key, round, key3, round3)
  BY <1>3, <1>4, <1>5, <1>6, <1>7 DEF Chain
<1> QED  BY <1>8 DEF w2, h2

LEMMA ChainTail ==
    ASSUME NEW w \in Seq(Packet), w # <<>>, NEW hist \in Seq(Message),
           Len(w) <= Len(hist),
           NEW key, NEW round, NEW key2, NEW round2,
           Chain(w, hist, key, round, key2, round2)
    PROVE  \E k \in Block, r \in Byte :
              /\ Reads(Head(w), hist[Len(hist) - Len(w) + 1], key, round, k, r)
              /\ Chain(Tail(w), hist, k, r, key2, round2)
<1> DEFINE n == Len(w)
           m == Len(hist)
           t == Tail(w)
<1>1. /\ n \in Nat \ {0} /\ m \in Nat /\ n <= m /\ Head(w) = w[1]
      /\ Len(t) = n - 1 /\ \A i \in 1 .. n - 1 : t[i] = w[i + 1]
  BY TailFacts
<1>2. PICK ks \in [1 .. n + 1 -> Block], rs \in [1 .. n + 1 -> Byte] :
         /\ ks[1] = key /\ rs[1] = round
         /\ ks[n + 1] = key2 /\ rs[n + 1] = round2
         /\ \A i \in 1 .. n : Reads(w[i], hist[m - n + i],
                                    ks[i], rs[i], ks[i + 1], rs[i + 1])
  BY DEF Chain
<1> DEFINE ks2 == [i \in 1 .. (n - 1) + 1 |-> ks[i + 1]]
           rs2 == [i \in 1 .. (n - 1) + 1 |-> rs[i + 1]]
<1> HIDE DEF n, m, t
<1>3. /\ ks2 \in [1 .. (n - 1) + 1 -> Block]
      /\ rs2 \in [1 .. (n - 1) + 1 -> Byte]
  BY <1>1, <1>2
<1>4. \A i \in 1 .. (n - 1) + 1 : ks2[i] = ks[i + 1] /\ rs2[i] = rs[i + 1]
  OBVIOUS
<1> HIDE DEF ks2, rs2
<1>5. ks[2] \in Block /\ rs[2] \in Byte /\ ks2[1] = ks[2] /\ rs2[1] = rs[2]
  BY <1>1, <1>2, <1>4
<1>6. ks2[(n - 1) + 1] = key2 /\ rs2[(n - 1) + 1] = round2
  BY <1>1, <1>2, <1>4
<1>7. \A i \in 1 .. n - 1 :
         Reads(t[i], hist[m - (n - 1) + i],
               ks2[i], rs2[i], ks2[i + 1], rs2[i + 1])
  <2> TAKE i \in 1 .. n - 1
  <2>1. i + 1 \in 1 .. n /\ m - (n - 1) + i = m - n + (i + 1)
        /\ i \in 1 .. (n - 1) + 1 /\ i + 1 \in 1 .. (n - 1) + 1
    BY <1>1
  <2>2. /\ ks2[i] = ks[i + 1] /\ rs2[i] = rs[i + 1]
        /\ ks2[i + 1] = ks[(i + 1) + 1] /\ rs2[i + 1] = rs[(i + 1) + 1]
    BY <1>4, <2>1
  <2> QED  BY <1>1, <1>2, <2>1, <2>2
<1>8. Chain(t, hist, ks[2], rs[2], key2, round2)
  <2>1. Len(t) = n - 1 /\ Len(hist) = m  BY <1>1 DEF m
  <2> QED  BY <1>3, <1>5, <1>6, <1>7, <2>1 DEF Chain
<1>9. Reads(w[1], hist[m - n + 1], key, round, ks[2], rs[2])
  <2>1. 1 \in 1 .. n /\ 1 + 1 = 2  BY <1>1
  <2> QED  BY <1>2, <2>1
<1> QED  BY <1>1, <1>5, <1>8, <1>9 DEF n, m, t

-----------------------------------------------------------------------------
(* The invariant.                                                            *)

\* The key with which the server reads the next packet: the one the first
\* packet carries, as long as the server has read none.
UpKey == IF m_dwSendPacketCount > 0 /\ ~server.keyed
         THEN FirstKey ELSE server.recvKey

UpInv ==
    /\ Len(up) <= Len(packed)
    /\ m_dwSendPacketCount = Len(packed)
    /\ server.keyed <=> Len(up) < Len(packed)
    /\ \A i \in 1 .. Len(up) :
          /\ up[i].mapped
          /\ up[i].key = IF i = 1 /\ ~server.keyed THEN <<FirstKey>> ELSE <<>>
    /\ IF m_dwSendPacketCount > 0
       THEN Chain(up, packed, UpKey, server.recvRound,
                  m_dwSendXorKey, m_cbSendRound)
       ELSE m_cbSendRound = server.recvRound

DownInv ==
    /\ Len(down) <= Len(told) /\ Len(told) <= MaxServe
    /\ server.keyed => Chain(down, told, m_dwRecvXorKey, m_cbRecvRound,
                             server.sendKey, server.sendRound)
    /\ ~server.keyed =>
          /\ m_cbRecvRound = server.sendRound
          /\ m_dwSendPacketCount > 0 => m_dwRecvXorKey = FirstKey
          /\ \A i \in 1 .. Len(down) :
                /\ ~down[i].mapped
                /\ down[i].bytes = told[Len(told) - Len(down) + i]

KernelInv == /\ TypeOK /\ UpInv /\ DownInv
             /\ ServerReadsWhatWasPacked /\ LuaIsGivenWhatWasSent

\* What Lua is given.
Gift == [no : 1 .. MaxServe, msg : Message]

LEMMA RoundInByte ==
    ASSUME NEW r \in Byte, NEW n \in Nat
    PROVE  RoundAfter(r, n) \in Byte
<1>1. ByteSize \in Nat \ {0} /\ r + 3 * n \in Int
  BY KernelAssumption DEF Byte
<1> QED  BY <1>1, DivMod DEF RoundAfter, Byte

LEMMA Histories ==
    ASSUME TypeOK
    PROVE  packed \in Seq(Message) /\ told \in Seq(Message)
<1>1. \A S : S \subseteq Message => Seq(S) \subseteq Seq(Message)
  <2> SUFFICES ASSUME NEW S, S \subseteq Message, NEW s \in Seq(S)
               PROVE  s \in Seq(Message)
    OBVIOUS
  <2> QED  OBVIOUS
<1> QED  BY <1>1, KernelAssumption DEF TypeOK

LEMMA InitHolds ==
    ASSUME Init
    PROVE  KernelInv
<1>0. /\ ByteSize \in Nat \ {0} /\ InitialKey \in Block
      /\ MaxPack \in Nat /\ MaxServe \in Nat
  BY KernelAssumption
<1>1. 0 \in Byte /\ 0 \in 0 .. MaxPack  BY <1>0 DEF Byte
<1>2. \A S : <<>> \in Seq(S)  OBVIOUS
<1>3. TypeOK  BY <1>0, <1>1, <1>2 DEF Init, TypeOK
<1>4. UpInv  BY DEF Init, UpInv
<1>5. DownInv  BY <1>0 DEF Init, DownInv
<1>6. ServerReadsWhatWasPacked  BY DEF Init, ServerReadsWhatWasPacked
<1>7. LuaIsGivenWhatWasSent  BY DEF Init, LuaIsGivenWhatWasSent, Arriving
<1> QED  BY <1>3, <1>4, <1>5, <1>6, <1>7 DEF KernelInv

\* What Lua was given is judged by told and by what has arrived alone.
LEMMA GivenKept ==
    ASSUME LuaIsGivenWhatWasSent, told' = told, Len(down') = Len(down),
           delivered' = delivered
    PROVE  LuaIsGivenWhatWasSent'
BY DEF LuaIsGivenWhatWasSent, Arriving, Command

LEMMA GivenWhenToldMore ==
    ASSUME TypeOK, LuaIsGivenWhatWasSent, Len(down) <= Len(told),
           NEW msg \in Message, NEW p \in Packet,
           told' = Append(told, msg), down' = Append(down, p),
           delivered' = delivered
    PROVE  LuaIsGivenWhatWasSent'
<1>1. told \in Seq(Message) /\ down \in Seq(Packet)
      /\ delivered \in Seq(Gift)
  BY Histories DEF TypeOK, Gift
<1>2. /\ Len(told) \in Nat /\ Len(down) \in Nat
      /\ Len(told') = Len(told) + 1 /\ Len(down') = Len(down) + 1
      /\ \A i \in 1 .. Len(told) : told'[i] = told[i]
  BY <1>1, AppendFacts
<1>3. Arriving' = Arriving /\ Arriving - 1 \in 0 .. Len(told)
      /\ Arriving \in Nat
  BY <1>2 DEF Arriving
<1>4. \A n \in DOMAIN delivered : delivered[n].no \in Nat \ {0}
  <2> TAKE n \in DOMAIN delivered
  <2>1. delivered[n] \in Gift  BY <1>1, ElementOfSeq
  <2> QED  BY <2>1, KernelAssumption DEF Gift
<1>5. \A n \in DOMAIN delivered' :
         LET d == delivered'[n] IN
         /\ d.no < Arriving' /\ d.msg = told'[d.no]
         /\ Command(d.msg) # HeartBeat
         /\ n > 1 => delivered'[n - 1].no < d.no
  <2> TAKE n \in DOMAIN delivered'
  <2> DEFINE d == delivered[n]
  <2>1. /\ d.no < Arriving /\ d.msg = told[d.no]
        /\ Command(d.msg) # HeartBeat
        /\ n > 1 => delivered[n - 1].no < d.no
    BY DEF LuaIsGivenWhatWasSent
  <2>2. d.no \in 1 .. Len(told)  BY <1>2, <1>3, <1>4, <2>1
  <2> QED  BY <1>2, <1>3, <2>1, <2>2
<1>6. \A i \in 1 .. Arriving' - 1 :
         Command(told'[i]) # HeartBeat =>
             \E n \in DOMAIN delivered' : delivered'[n].no = i
  <2> TAKE i \in 1 .. Arriving' - 1
  <2>1. i \in 1 .. Arriving - 1 /\ i \in 1 .. Len(told)  BY <1>2, <1>3
  <2>2. told'[i] = told[i]  BY <1>2, <2>1
  <2> QED  BY <2>1, <2>2 DEF LuaIsGivenWhatWasSent
<1> QED  BY <1>5, <1>6 DEF LuaIsGivenWhatWasSent, Command

LEMMA GivenWhenUnpacked ==
    ASSUME TypeOK, LuaIsGivenWhatWasSent, Len(down) <= Len(told), down # <<>>,
           NEW msg, msg = told[Arriving],
           told' = told, down' = Tail(down), Give(msg)
    PROVE  LuaIsGivenWhatWasSent'
<1>1. told \in Seq(Message) /\ down \in Seq(Packet)
      /\ delivered \in Seq(Gift)
  BY Histories DEF TypeOK, Gift
<1>2. /\ Len(told) \in Nat /\ Len(down) \in Nat \ {0}
      /\ Len(down') = Len(down) - 1
  BY <1>1, TailFacts
<1>3. Arriving \in 1 .. Len(told) /\ Arriving' = Arriving + 1
  BY <1>2 DEF Arriving
<1>4. \A n \in DOMAIN delivered :
         /\ delivered[n].no < Arriving
         /\ delivered[n].msg = told[delivered[n].no]
         /\ Command(delivered[n].msg) # HeartBeat
         /\ n > 1 => delivered[n - 1].no < delivered[n].no
         /\ delivered[n].no \in Nat
  <2> TAKE n \in DOMAIN delivered
  <2>1. delivered[n] \in Gift  BY <1>1, ElementOfSeq
  <2>2. delivered[n].no \in Nat  BY <2>1, KernelAssumption DEF Gift
  <2> QED  BY <2>2 DEF LuaIsGivenWhatWasSent
<1>5. \A i \in 1 .. Arriving - 1 : Command(told[i]) # HeartBeat =>
         \E n \in DOMAIN delivered : delivered[n].no = i
  BY DEF LuaIsGivenWhatWasSent
<1>6. CASE Command(msg) = HeartBeat
  <2>1. delivered' = delivered  BY <1>6 DEF Give
  <2>2. \A i \in 1 .. Arriving' - 1 : Command(told[i]) # HeartBeat =>
           \E n \in DOMAIN delivered : delivered[n].no = i
    <3> TAKE i \in 1 .. Arriving' - 1
    <3>1. CASE i = Arriving  BY <1>6, <3>1
    <3>2. CASE i # Arriving
      <4>1. i \in 1 .. Arriving - 1  BY <1>3, <3>2
      <4> QED  BY <1>5, <4>1
    <3> QED  BY <3>1, <3>2
  <2>3. \A n \in DOMAIN delivered : delivered[n].no < Arriving'
    BY <1>3, <1>4
  <2> QED  BY <1>4, <2>1, <2>2, <2>3 DEF LuaIsGivenWhatWasSent, Command
<1>7. CASE Command(msg) # HeartBeat
  <2> DEFINE N == Len(delivered)
             new == [no |-> Arriving, msg |-> msg]
             del == Append(delivered, new)
  <2>1. delivered' = del  BY <1>7 DEF Give
  <2>2. /\ N \in Nat /\ DOMAIN del = 1 .. N + 1 /\ DOMAIN delivered = 1 .. N
        /\ \A n \in 1 .. N : del[n] = delivered[n]
        /\ del[N + 1] = new
    BY <1>1
  <2> HIDE DEF N, del
  <2>3. \A n \in 1 .. N + 1 :
           /\ del[n].no < Arriving' /\ del[n].msg = told[del[n].no]
           /\ Command(del[n].msg) # HeartBeat
           /\ n > 1 => del[n - 1].no < del[n].no
    <3> TAKE n \in 1 .. N + 1
    <3>1. CASE n = N + 1
      <4>1. n > 1 => n - 1 \in 1 .. N  BY <2>2, <3>1
      <4>2. n > 1 => del[n - 1].no < Arriving  BY <1>4, <2>2, <4>1
      <4> QED  BY <1>3, <1>7, <2>2, <3>1, <4>2
    <3>2. CASE n # N + 1
      <4>1. n \in 1 .. N /\ (n > 1 => n - 1 \in 1 .. N)  BY <2>2, <3>2
      <4>2. del[n] = delivered[n] /\ (n > 1 => del[n - 1] = delivered[n - 1])
        BY <2>2, <4>1
      <4>3. del[n].no < Arriving'  BY <1>3, <1>4, <2>2, <4>1, <4>2
      <4> QED  BY <1>4, <2>2, <4>1, <4>2, <4>3
    <3> QED  BY <3>1, <3>2
  <2>4. \A i \in 1 .. Arriving' - 1 : Command(told[i]) # HeartBeat =>
           \E n \in 1 .. N + 1 : del[n].no = i
    <3> TAKE i \in 1 .. Arriving' - 1
    <3>1. CASE i = Arriving
      <4>1. N + 1 \in 1 .. N + 1 /\ del[N + 1].no = i  BY <2>2, <3>1
      <4> QED  BY <4>1
    <3>2. CASE i # Arriving
      <4>1. i \in 1 .. Arriving - 1  BY <1>3, <3>2
      <4>2. \A n \in 1 .. N : n \in 1 .. N + 1  BY <2>2
      <4> QED  BY <1>5, <2>2, <4>1, <4>2
    <3> QED  BY <3>1, <3>2
  <2> QED  BY <2>1, <2>2, <2>3, <2>4 DEF LuaIsGivenWhatWasSent, Command
<1> QED  BY <1>6, <1>7

-----------------------------------------------------------------------------
(* One lemma per action.                                                     *)

LEMMA Types ==
    ASSUME TypeOK
    PROVE  /\ m_cbSendRound \in Byte /\ m_cbSendRound \in Nat
           /\ m_cbRecvRound \in Byte /\ m_cbRecvRound \in Nat
           /\ m_dwSendXorKey \in Block /\ m_dwRecvXorKey \in Block
           /\ server.sendRound \in Byte /\ server.sendRound \in Nat
           /\ server.recvRound \in Byte /\ server.recvRound \in Nat
           /\ server.sendKey \in Block /\ server.recvKey \in Block
           /\ server.keyed \in BOOLEAN
           /\ up \in Seq(Packet) /\ down \in Seq(Packet)
           /\ packed \in Seq(Message) /\ told \in Seq(Message)
           /\ FirstKey \in Block
<1>1. \A b \in Byte : b \in Nat  BY KernelAssumption DEF Byte
<1> QED  BY <1>1, Histories, KernelAssumption DEF TypeOK

LEMMA PackStep ==
    ASSUME KernelInv, NEW msg \in Outgoing, pack(msg)
    PROVE  KernelInv'
<1> DEFINE first == m_dwSendPacketCount = 0
           key == IF first THEN FirstKey ELSE m_dwSendXorKey
           r2 == RoundAfter(m_cbSendRound, Len(msg))
           Sent(e) == [mapped |-> TRUE, bytes |-> e.bytes,
                       key |-> IF first THEN <<key>> ELSE <<>>]
<1>0. TypeOK /\ UpInv /\ DownInv /\ ServerReadsWhatWasPacked
      /\ LuaIsGivenWhatWasSent
  BY DEF KernelInv
<1>1. PICK e \in EncryptBuffer(msg, m_cbSendRound, key) :
         up' = Append(up, Sent(e)) /\ m_dwSendXorKey' = e.next
  BY DEF pack
<1>2. /\ Len(packed) < MaxPack /\ m_cbSendRound' = r2
      /\ m_dwRecvXorKey' = IF first THEN key ELSE m_dwRecvXorKey
      /\ m_dwSendPacketCount' = m_dwSendPacketCount + 1
      /\ packed' = Append(packed, msg)
      /\ UNCHANGED <<m_cbRecvRound, server, down, served, told, delivered>>
  BY DEF pack
<1> DEFINE p == Sent(e)
<1>3. /\ msg \in Message /\ key \in Block /\ MaxPack \in Nat
      /\ Len(msg) \in Nat
  BY <1>0, Types, KernelAssumption DEF Message
<1>4. r2 \in Byte  BY <1>0, <1>3, Types, RoundInByte
<1>5. /\ e.bytes \in Message /\ Len(e.bytes) = Len(msg) /\ e.next \in Block
      /\ CrevasseBuffer(e.bytes, m_cbSendRound, key) =
            [msg |-> msg, next |-> e.next]
  <2> HIDE DEF key
  <2> QED  BY <1>0, <1>3, Types, RoundTrip
<1>6. /\ p \in Packet /\ p.mapped /\ p.bytes = e.bytes
      /\ p.key = IF first THEN <<FirstKey>> ELSE <<>>
  <2>1. (IF first THEN <<key>> ELSE <<>>) \in Seq(Block)  BY <1>3
  <2> HIDE DEF key
  <2>2. p \in Packet  BY <1>5, <2>1 DEF Packet
  <2> QED  BY <2>2 DEF key
<1>7. Reads(p, msg, key, m_cbSendRound, e.next, r2)
  BY <1>5, <1>6 DEF Reads
<1> HIDE DEF key, r2, p
<1>8. /\ Len(up) \in Nat /\ Len(packed) \in Nat /\ Len(up) <= Len(packed)
      /\ m_dwSendPacketCount = Len(packed)
      /\ server.keyed <=> Len(up) < Len(packed)
  BY <1>0, Types DEF UpInv
<1>9. /\ Len(up') = Len(up) + 1 /\ Len(packed') = Len(packed) + 1
      /\ \A i \in 1 .. Len(up) : up'[i] = up[i]
      /\ up'[Len(up) + 1] = p
      /\ up' \in Seq(Packet) /\ packed' \in Seq(Message)
  BY <1>0, <1>1, <1>2, <1>3, <1>6, Types, AppendFacts DEF p
<1>10. UpKey' = IF ~server.keyed THEN FirstKey ELSE server.recvKey
  BY <1>2, <1>8 DEF UpKey
<1>11. Chain(up, packed, UpKey', server.recvRound, key, m_cbSendRound)
  <2>1. CASE first
    <3>1. /\ Len(up) = 0 /\ ~server.keyed /\ UpKey' = FirstKey
          /\ key = FirstKey /\ m_cbSendRound = server.recvRound
      BY <1>0, <1>8, <1>10, <2>1 DEF UpInv, key
    <3>2. key \in Block /\ up \in Seq(Packet) /\ m_cbSendRound \in Byte
      BY <1>0, <1>3, Types
    <3>3. \A i \in 1 .. Len(up) : FALSE  BY <3>1
    <3>4. Chain(up, packed, key, m_cbSendRound, key, m_cbSendRound)
      BY <3>2, <3>3, ChainOfClear
    <3> QED  BY <3>1, <3>4
  <2>2. CASE ~first
    <3>1. m_dwSendPacketCount > 0 /\ UpKey' = UpKey
          /\ key = m_dwSendXorKey
      BY <1>8, <1>10, <2>2 DEF UpKey, key
    <3> QED  BY <1>0, <3>1 DEF UpInv
  <2> QED  BY <2>1, <2>2
<1>12. Chain(up', packed', UpKey', server.recvRound, e.next, r2)
  <2>1. up \in Seq(Packet) /\ packed \in Seq(Message)  BY <1>0, Types
  <2> QED  BY <1>1, <1>2, <1>3, <1>4, <1>5, <1>6, <1>7, <1>8, <1>11, <2>1,
              ChainAppend DEF p
<1>13. UpInv'
  <2>1. \A i \in 1 .. Len(up') :
           /\ up'[i].mapped
           /\ up'[i].key = IF i = 1 /\ ~server.keyed
                           THEN <<FirstKey>> ELSE <<>>
    <3> TAKE i \in 1 .. Len(up')
    <3>1. CASE i = Len(up) + 1
      <4>1. first <=> i = 1 /\ ~server.keyed  BY <1>8, <3>1
      <4> QED  BY <1>6, <1>9, <3>1, <4>1
    <3>2. CASE i # Len(up) + 1
      <4>1. i \in 1 .. Len(up)  BY <1>8, <1>9, <3>2
      <4> QED  BY <1>0, <1>9, <4>1 DEF UpInv
    <3> QED  BY <3>1, <3>2
  <2>2. server.keyed <=> Len(up') < Len(packed')  BY <1>8, <1>9
  <2> QED  BY <1>1, <1>2, <1>8, <1>9, <1>12, <2>1, <2>2 DEF UpInv, r2
<1>14. TypeOK'
  <2>1. m_dwSendPacketCount' \in 0 .. MaxPack  BY <1>2, <1>3, <1>8
  <2>2. packed' \in Seq(Outgoing)
    <3>1. packed \in Seq(Outgoing)  BY <1>0 DEF TypeOK
    <3> QED  BY <1>2, <3>1, AppendFacts
  <2>3. m_dwRecvXorKey' \in Block  BY <1>0, <1>2, <1>3, Types
  <2> QED  BY <1>0, <1>1, <1>2, <1>4, <1>5, <1>9, <2>1, <2>2, <2>3
           DEF TypeOK, r2
<1>15. DownInv'
  <2>1. CASE first
    <3>1. ~server.keyed /\ m_dwRecvXorKey' = FirstKey
      BY <1>2, <1>8, <2>1 DEF key
    <3> QED  BY <1>0, <1>2, <3>1 DEF DownInv
  <2>2. CASE ~first
    <3>1. m_dwSendPacketCount > 0 /\ m_dwRecvXorKey' = m_dwRecvXorKey
      BY <1>2, <1>8, <2>2
    <3> QED  BY <1>0, <1>2, <3>1 DEF DownInv
  <2> QED  BY <2>1, <2>2
<1>16. ServerReadsWhatWasPacked'
  <2>1. /\ Len(packed) - Len(up) \in 0 .. Len(packed)
        /\ Len(packed') - Len(up') = Len(packed) - Len(up)
    BY <1>8, <1>9
  <2>2. SubSeq(packed', 1, Len(packed) - Len(up)) =
           SubSeq(packed, 1, Len(packed) - Len(up))
    <3> DEFINE n == Len(packed) - Len(up)
    <3>1. packed \in Seq(Message) /\ n \in 0 .. Len(packed)
      BY <1>0, <2>1, Types
    <3> HIDE DEF n
    <3>2. SubSeq(packed', 1, n) = SubSeq(packed, 1, n)
      BY <1>2, <1>3, <3>1, PrefixOfAppend
    <3> QED  BY <3>2 DEF n
  <2> QED  BY <1>0, <1>2, <2>1, <2>2 DEF ServerReadsWhatWasPacked
<1>17. LuaIsGivenWhatWasSent'  BY <1>0, <1>2, GivenKept
<1> QED  BY <1>13, <1>14, <1>15, <1>16, <1>17 DEF KernelInv


LEMMA UnpackStep ==
    ASSUME KernelInv, unpack
    PROVE  KernelInv'
<1> DEFINE p == Head(down)
           d == CrevasseBuffer(p.bytes, m_cbRecvRound, m_dwRecvXorKey)
           msg == told[Arriving]
<1>0. TypeOK /\ UpInv /\ DownInv /\ ServerReadsWhatWasPacked
      /\ LuaIsGivenWhatWasSent
  BY DEF KernelInv
<1>1. /\ down # <<>> /\ down' = Tail(down)
      /\ p.mapped => /\ Give(d.msg) /\ m_dwRecvXorKey' = d.next
                     /\ m_cbRecvRound' = RoundAfter(m_cbRecvRound, Len(p.bytes))
      /\ ~p.mapped => Give(p.bytes)
                      /\ UNCHANGED <<m_dwRecvXorKey, m_cbRecvRound>>
      /\ UNCHANGED <<m_cbSendRound, m_dwSendXorKey, m_dwSendPacketCount,
                     server, up, packed, served, told>>
  BY DEF unpack
<1>2. /\ down \in Seq(Packet) /\ told \in Seq(Message)
      /\ Len(down) <= Len(told)
  BY <1>0, Types DEF DownInv
<1>3. /\ Len(down) \in Nat \ {0} /\ Len(told) \in Nat /\ p = down[1]
      /\ down' \in Seq(Packet) /\ Len(down') = Len(down) - 1
      /\ \A i \in 1 .. Len(down) - 1 : down'[i] = down[i + 1]
  BY <1>1, <1>2, TailFacts
<1>4. /\ Arriving = Len(told) - Len(down) + 1 /\ Arriving \in 1 .. Len(told)
  BY <1>2, <1>3 DEF Arriving
<1>5. msg \in Message  BY <1>2, <1>4, ElementOfSeq
<1> HIDE DEF p, msg
\* The receiver reads the message that arrives.
<1>6. /\ Give(msg)
      /\ m_dwRecvXorKey' \in Block /\ m_cbRecvRound' \in Byte
      /\ server.keyed => Chain(down', told, m_dwRecvXorKey', m_cbRecvRound',
                               server.sendKey, server.sendRound)
      /\ ~server.keyed => UNCHANGED <<m_dwRecvXorKey, m_cbRecvRound>>
  <2>1. CASE server.keyed
    <3>1. PICK k \in Block, r \in Byte :
             /\ Reads(p, msg, m_dwRecvXorKey, m_cbRecvRound, k, r)
             /\ Chain(Tail(down), told, k, r, server.sendKey, server.sendRound)
      <4>1. Chain(down, told, m_dwRecvXorKey, m_cbRecvRound,
                  server.sendKey, server.sendRound)
        BY <1>0, <2>1 DEF DownInv
      <4>2. \E k \in Block, r \in Byte :
               /\ Reads(Head(down), told[Len(told) - Len(down) + 1],
                        m_dwRecvXorKey, m_cbRecvRound, k, r)
               /\ Chain(Tail(down), told, k, r,
                        server.sendKey, server.sendRound)
        BY <1>1, <1>2, <4>1, ChainTail
      <4> QED  BY <1>4, <4>2 DEF p, msg
    <3>2. CASE p.mapped
      <4>1. d.msg = msg /\ d.next = k
            /\ r = RoundAfter(m_cbRecvRound, Len(p.bytes))
        BY <3>1, <3>2 DEF Reads
      <4> HIDE DEF d
      <4> QED  BY <1>1, <2>1, <3>1, <3>2, <4>1
    <3>3. CASE ~p.mapped
      <4>1. p.bytes = msg /\ k = m_dwRecvXorKey /\ r = m_cbRecvRound
        BY <3>1, <3>3 DEF Reads
      <4> HIDE DEF d
      <4> QED  BY <1>1, <2>1, <3>1, <3>3, <4>1
    <3> QED  BY <3>2, <3>3
  <2>2. CASE ~server.keyed
    <3>1. ~p.mapped /\ p.bytes = msg
      BY <1>0, <1>3, <1>4, <2>2 DEF DownInv, msg
    <3> QED  BY <1>0, <1>1, <2>2, <3>1, Types
  <2> QED  BY <1>0, <2>1, <2>2, Types
<1>7. LuaIsGivenWhatWasSent'
  BY <1>0, <1>1, <1>2, <1>6, GivenWhenUnpacked DEF msg
<1>8. DownInv'
  <2>1. ~server.keyed =>
           \A i \in 1 .. Len(down') :
              /\ ~down'[i].mapped
              /\ down'[i].bytes = told[Len(told) - Len(down') + i]
    <3> SUFFICES ASSUME ~server.keyed, NEW i \in 1 .. Len(down')
                 PROVE  /\ ~down'[i].mapped
                        /\ down'[i].bytes = told[Len(told) - Len(down') + i]
      OBVIOUS
    <3>1. /\ i \in 1 .. Len(down) - 1 /\ i + 1 \in 1 .. Len(down)
          /\ Len(told) - Len(down') + i = Len(told) - Len(down) + (i + 1)
      BY <1>3
    <3>2. /\ ~down[i + 1].mapped
          /\ down[i + 1].bytes = told[Len(told) - Len(down) + (i + 1)]
      BY <1>0, <3>1 DEF DownInv
    <3> QED  BY <1>3, <3>1, <3>2
  <2>2. Len(down') <= Len(told)  BY <1>2, <1>3
  <2> QED  BY <1>0, <1>1, <1>6, <2>1, <2>2 DEF DownInv
<1>9. UpInv'  BY <1>0, <1>1 DEF UpInv, UpKey
<1>10. ServerReadsWhatWasPacked'
  BY <1>0, <1>1 DEF ServerReadsWhatWasPacked
<1>11. TypeOK'
  <2>1. delivered' \in Seq([no : 1 .. MaxServe, msg : Message])
    <3>1. delivered \in Seq(Gift)  BY <1>0 DEF TypeOK, Gift
    <3>2. Arriving \in 1 .. MaxServe
      BY <1>0, <1>3, <1>4, KernelAssumption DEF DownInv
    <3>3. [no |-> Arriving, msg |-> msg] \in Gift  BY <1>5, <3>2 DEF Gift
    <3>4. delivered' \in Seq(Gift)
      BY <1>6, <3>1, <3>3, AppendFacts DEF Give
    <3> QED  BY <3>4 DEF Gift
  <2> QED  BY <1>0, <1>1, <1>3, <1>6, <2>1 DEF TypeOK
<1> QED  BY <1>7, <1>8, <1>9, <1>10, <1>11 DEF KernelInv

LEMMA ServerReadsStep ==
    ASSUME KernelInv, ServerReads
    PROVE  KernelInv'
<1> DEFINE p == Head(up)
           key == IF p.key # <<>> THEN p.key[1] ELSE server.recvKey
           d == CrevasseBuffer(p.bytes, server.recvRound, key)
           n == Len(packed) - Len(up)
           msg == packed[n + 1]
<1>0. TypeOK /\ UpInv /\ DownInv /\ ServerReadsWhatWasPacked
      /\ LuaIsGivenWhatWasSent
  BY DEF KernelInv
<1>1. /\ up # <<>> /\ up' = Tail(up)
      /\ served' = Append(served, d.msg)
      /\ server' = [server EXCEPT
             !.recvKey = d.next,
             !.recvRound = RoundAfter(server.recvRound, Len(p.bytes)),
             !.sendKey = IF p.key # <<>> THEN key ELSE server.sendKey,
             !.keyed = server.keyed \/ p.key # <<>>]
      /\ UNCHANGED <<kernel, down, packed, told, delivered>>
  BY DEF ServerReads
<1>2. /\ up \in Seq(Packet) /\ packed \in Seq(Message)
      /\ Len(up) <= Len(packed)
  BY <1>0, Types DEF UpInv
<1>3. /\ Len(up) \in Nat \ {0} /\ Len(packed) \in Nat /\ p = up[1]
      /\ up' \in Seq(Packet) /\ Len(up') = Len(up) - 1
      /\ \A i \in 1 .. Len(up) - 1 : up'[i] = up[i + 1]
  BY <1>1, <1>2, TailFacts
<1>4. /\ n \in 0 .. Len(packed) - 1 /\ n + 1 \in 1 .. Len(packed)
      /\ Len(packed) - Len(up') = n + 1
      /\ m_dwSendPacketCount = Len(packed) /\ m_dwSendPacketCount > 0
  BY <1>0, <1>2, <1>3 DEF UpInv
<1>5. msg \in Message  BY <1>2, <1>4, ElementOfSeq
\* The first packet brings the key, the others do not.
<1>6. p.mapped /\ p.key = IF ~server.keyed THEN <<FirstKey>> ELSE <<>>
  BY <1>0, <1>3 DEF UpInv
<1>7. key = UpKey  BY <1>4, <1>6 DEF UpKey
<1>8. /\ server \in [sendRound : Byte, recvRound : Byte, sendKey : Block,
                     recvKey : Block, keyed : BOOLEAN]
  BY <1>0 DEF TypeOK
<1> HIDE DEF p, key, d, n, msg
<1>9. PICK k \in Block, r \in Byte :
         /\ Reads(p, msg, key, server.recvRound, k, r)
         /\ Chain(Tail(up), packed, k, r, m_dwSendXorKey, m_cbSendRound)
  <2>1. Chain(up, packed, key, server.recvRound,
              m_dwSendXorKey, m_cbSendRound)
    BY <1>0, <1>4, <1>7 DEF UpInv
  <2>2. \E k \in Block, r \in Byte :
           /\ Reads(Head(up), packed[Len(packed) - Len(up) + 1],
                    key, server.recvRound, k, r)
           /\ Chain(Tail(up), packed, k, r, m_dwSendXorKey, m_cbSendRound)
    BY <1>1, <1>2, <2>1, ChainTail
  <2> QED  BY <2>2 DEF p, msg, n
<1>10. /\ d.msg = msg /\ d.next = k
       /\ r = RoundAfter(server.recvRound, Len(p.bytes))
  BY <1>6, <1>9 DEF Reads, d
<1>11. /\ server'.recvKey = k /\ server'.recvRound = r /\ server'.keyed
       /\ server'.sendRound = server.sendRound
       /\ server'.sendKey = IF ~server.keyed THEN FirstKey ELSE server.sendKey
       /\ server' \in [sendRound : Byte, recvRound : Byte, sendKey : Block,
                       recvKey : Block, keyed : BOOLEAN]
  <2>1. FirstKey \in Block  BY KernelAssumption
  <2>2. p.key # <<>> <=> ~server.keyed  BY <1>6
  <2>3. ~server.keyed => key = FirstKey  BY <1>4, <1>7 DEF UpKey
  <2>4. server.keyed \/ p.key # <<>>  BY <2>2
  <2>5. server' = [server EXCEPT
             !.recvKey = k, !.recvRound = r,
             !.sendKey = IF ~server.keyed THEN FirstKey ELSE server.sendKey,
             !.keyed = TRUE]
    BY <1>1, <1>10, <2>2, <2>3, <2>4
  <2> QED  BY <1>8, <1>9, <2>1, <2>5
<1>12. UpInv'
  <2>1. UpKey' = k  BY <1>11 DEF UpKey
  <2>2. Chain(up', packed', UpKey', server'.recvRound,
              m_dwSendXorKey', m_cbSendRound')
    BY <1>1, <1>9, <1>11, <2>1 DEF kernel
  <2>3. \A i \in 1 .. Len(up') :
           /\ up'[i].mapped
           /\ up'[i].key = IF i = 1 /\ ~server'.keyed
                           THEN <<FirstKey>> ELSE <<>>
    <3> TAKE i \in 1 .. Len(up')
    <3>1. i \in 1 .. Len(up) - 1 /\ i + 1 \in 1 .. Len(up) /\ i + 1 # 1
      BY <1>3
    <3>2. up[i + 1].mapped /\ up[i + 1].key = <<>>
      BY <1>0, <3>1 DEF UpInv
    <3> QED  BY <1>3, <1>11, <3>1, <3>2
  <2>4. Len(up') < Len(packed)  BY <1>2, <1>3
  <2>5. m_dwSendPacketCount' = Len(packed') /\ packed' = packed
    BY <1>1, <1>4 DEF kernel
  <2>6. Len(up') <= Len(packed')  BY <1>2, <1>3, <2>5
  <2>7. server'.keyed <=> Len(up') < Len(packed')  BY <1>11, <2>4, <2>5
  <2>8. m_dwSendPacketCount' > 0  BY <1>1, <1>4 DEF kernel
  <2> QED  BY <2>2, <2>3, <2>5, <2>6, <2>7, <2>8 DEF UpInv
<1>13. DownInv'
  <2>1. Chain(down, told, m_dwRecvXorKey, m_cbRecvRound,
              server'.sendKey, server'.sendRound)
    <3>1. CASE server.keyed  BY <1>0, <1>11, <3>1 DEF DownInv
    <3>2. CASE ~server.keyed
      <4>1. /\ m_dwRecvXorKey = FirstKey /\ m_cbRecvRound = server.sendRound
            /\ \A i \in 1 .. Len(down) :
                  /\ ~down[i].mapped
                  /\ down[i].bytes = told[Len(told) - Len(down) + i]
        BY <1>0, <1>4, <3>2 DEF DownInv
      <4>2. /\ down \in Seq(Packet)
            /\ m_dwRecvXorKey \in Block /\ m_cbRecvRound \in Byte
        BY <1>0, Types
      <4>3. Chain(down, told, m_dwRecvXorKey, m_cbRecvRound,
                  m_dwRecvXorKey, m_cbRecvRound)
        BY <4>1, <4>2, ChainOfClear
      <4> QED  BY <1>11, <3>2, <4>1, <4>3
    <3> QED  BY <3>1, <3>2
  <2> QED  BY <1>0, <1>1, <1>11, <2>1 DEF DownInv, kernel
<1>14. ServerReadsWhatWasPacked'
  <2>1. served' = Append(SubSeq(packed, 1, n), packed[n + 1])
    BY <1>0, <1>1, <1>10 DEF ServerReadsWhatWasPacked, n, msg
  <2>2. served' = SubSeq(packed, 1, n + 1)
    BY <1>2, <1>4, <2>1, LongerPrefix
  <2>3. Len(packed') - Len(up') = n + 1 /\ packed' = packed  BY <1>1, <1>4
  <2> QED  BY <2>2, <2>3 DEF ServerReadsWhatWasPacked
<1>15. TypeOK'
  <2>1. served' \in Seq(Message)
    <3>1. served \in Seq(Message)  BY <1>0 DEF TypeOK
    <3> QED  BY <1>1, <1>5, <1>10, <3>1, AppendFacts
  <2> QED  BY <1>0, <1>1, <1>3, <1>11, <2>1 DEF TypeOK, kernel
<1>16. LuaIsGivenWhatWasSent'  BY <1>0, <1>1, GivenKept
<1> QED  BY <1>12, <1>13, <1>14, <1>15, <1>16 DEF KernelInv


\* What both ways of sending share.
LEMMA ServerSendsTypes ==
    ASSUME KernelInv, NEW msg \in Incoming, NEW p \in Packet,
           Len(told) < MaxServe,
           told' = Append(told, msg), down' = Append(down, p),
           UNCHANGED <<kernel, up, packed, served, delivered>>,
           server' \in [sendRound : Byte, recvRound : Byte, sendKey : Block,
                        recvKey : Block, keyed : BOOLEAN],
           server'.keyed = server.keyed, server'.recvKey = server.recvKey,
           server'.recvRound = server.recvRound
    PROVE  /\ TypeOK' /\ UpInv' /\ ServerReadsWhatWasPacked'
           /\ LuaIsGivenWhatWasSent'
           /\ Len(down') <= Len(told') /\ Len(told') <= MaxServe
           /\ Len(told') - Len(down') = Len(told) - Len(down)
<1>0. TypeOK /\ UpInv /\ DownInv /\ ServerReadsWhatWasPacked
      /\ LuaIsGivenWhatWasSent
  BY DEF KernelInv
<1>1. msg \in Message /\ MaxServe \in Nat  BY KernelAssumption
<1>2. /\ told \in Seq(Message) /\ down \in Seq(Packet)
      /\ Len(down) <= Len(told)
  BY <1>0, Types DEF DownInv
<1>3. /\ Len(told) \in Nat /\ Len(down) \in Nat
      /\ Len(told') = Len(told) + 1 /\ Len(down') = Len(down) + 1
      /\ down' \in Seq(Packet)
  BY <1>1, <1>2, AppendFacts
<1>4. TypeOK'
  <2>1. told' \in Seq(Incoming)
    <3>1. told \in Seq(Incoming)  BY <1>0 DEF TypeOK
    <3> QED  BY <3>1, AppendFacts
  <2> QED  BY <1>0, <1>3, <2>1 DEF TypeOK, kernel
<1>5. UpInv'  BY <1>0 DEF UpInv, UpKey, kernel
<1>6. ServerReadsWhatWasPacked'  BY <1>0 DEF ServerReadsWhatWasPacked
<1>7. LuaIsGivenWhatWasSent'
  BY <1>0, <1>1, <1>2, GivenWhenToldMore
<1> QED  BY <1>1, <1>2, <1>3, <1>4, <1>5, <1>6, <1>7

LEMMA ServerSendsClearStep ==
    ASSUME KernelInv, NEW msg \in Incoming, ServerSendsClear(msg)
    PROVE  KernelInv'
<1> DEFINE p == [mapped |-> FALSE, key |-> <<>>, bytes |-> msg]
<1>0. TypeOK /\ DownInv  BY DEF KernelInv
<1>1. /\ Len(told) < MaxServe /\ down' = Append(down, p)
      /\ told' = Append(told, msg)
      /\ UNCHANGED <<kernel, server, up, packed, served, delivered>>
  BY DEF ServerSendsClear
<1>2. msg \in Message  BY KernelAssumption
<1>3. p \in Packet /\ ~p.mapped /\ p.bytes = msg
  <2>1. <<>> \in Seq(Block)  OBVIOUS
  <2> QED  BY <1>2, <2>1 DEF Packet
<1> HIDE DEF p
<1>4. server' \in [sendRound : Byte, recvRound : Byte, sendKey : Block,
                   recvKey : Block, keyed : BOOLEAN]
  BY <1>0, <1>1 DEF TypeOK
<1>5. /\ TypeOK' /\ UpInv' /\ ServerReadsWhatWasPacked'
      /\ LuaIsGivenWhatWasSent'
      /\ Len(down') <= Len(told') /\ Len(told') <= MaxServe
      /\ Len(told') - Len(down') = Len(told) - Len(down)
  BY <1>1, <1>3, <1>4, ServerSendsTypes
<1>6. DownInv'
  <2>1. /\ told \in Seq(Message) /\ down \in Seq(Packet)
        /\ Len(down) <= Len(told)
        /\ server.sendKey \in Block /\ server.sendRound \in Byte
    BY <1>0, Types DEF DownInv
  <2>2. CASE server.keyed
    <3>1. Reads(p, msg, server.sendKey, server.sendRound,
                server.sendKey, server.sendRound)
      BY <1>3 DEF Reads
    <3>2. Chain(down, told, m_dwRecvXorKey, m_cbRecvRound,
                server.sendKey, server.sendRound)
      BY <1>0, <2>2 DEF DownInv
    <3>3. Chain(down', told', m_dwRecvXorKey, m_cbRecvRound,
                server.sendKey, server.sendRound)
      BY <1>1, <1>2, <1>3, <2>1, <3>1, <3>2, ChainAppend
    <3> QED  BY <1>1, <1>5, <2>2, <3>3 DEF DownInv, kernel
  <2>3. CASE ~server.keyed
    <3>1. /\ Len(told) \in Nat /\ Len(down) \in Nat
          /\ Len(told') = Len(told) + 1 /\ Len(down') = Len(down) + 1
          /\ \A i \in 1 .. Len(down) : down'[i] = down[i]
          /\ \A i \in 1 .. Len(told) : told'[i] = told[i]
          /\ down'[Len(down) + 1] = p /\ told'[Len(told) + 1] = msg
      BY <1>1, <1>2, <1>3, <2>1, AppendFacts
    <3>2. \A i \in 1 .. Len(down') :
             /\ ~down'[i].mapped
             /\ down'[i].bytes = told'[Len(told') - Len(down') + i]
      <4> TAKE i \in 1 .. Len(down')
      <4>1. CASE i = Len(down) + 1
        <5>1. Len(told') - Len(down') + i = Len(told) + 1  BY <3>1, <4>1
        <5> QED  BY <1>3, <3>1, <4>1, <5>1
      <4>2. CASE i # Len(down) + 1
        <5>1. /\ i \in 1 .. Len(down)
              /\ Len(told) - Len(down) + i \in 1 .. Len(told)
              /\ Len(told') - Len(down') + i = Len(told) - Len(down) + i
          BY <2>1, <3>1, <4>2
        <5>2. /\ ~down[i].mapped
              /\ down[i].bytes = told[Len(told) - Len(down) + i]
          BY <1>0, <2>3, <5>1 DEF DownInv
        <5> QED  BY <3>1, <5>1, <5>2
      <4> QED  BY <4>1, <4>2
    <3> QED  BY <1>0, <1>1, <1>5, <2>3, <3>2 DEF DownInv, kernel
  <2> QED  BY <2>2, <2>3
<1> QED  BY <1>5, <1>6 DEF KernelInv

LEMMA ServerSendsMappedStep ==
    ASSUME KernelInv, NEW msg \in Incoming, ServerSendsMapped(msg)
    PROVE  KernelInv'
<1> DEFINE r2 == RoundAfter(server.sendRound, Len(msg))
           Sent(e) == [mapped |-> TRUE, key |-> <<>>, bytes |-> e.bytes]
<1>0. TypeOK /\ DownInv  BY DEF KernelInv
<1>1. PICK e \in EncryptBuffer(msg, server.sendRound, server.sendKey) :
         /\ down' = Append(down, Sent(e))
         /\ server' = [server EXCEPT !.sendKey = e.next, !.sendRound = r2]
  BY DEF ServerSendsMapped
<1> DEFINE p == Sent(e)
<1>2. /\ Len(told) < MaxServe /\ server.keyed /\ told' = Append(told, msg)
      /\ UNCHANGED <<kernel, up, packed, served, delivered>>
  BY DEF ServerSendsMapped
<1>3. msg \in Message /\ Len(msg) \in Nat
  BY KernelAssumption DEF Message
<1>4. /\ server.sendRound \in Byte /\ server.sendRound \in Nat
      /\ server.sendKey \in Block
      /\ told \in Seq(Message) /\ down \in Seq(Packet)
      /\ Len(down) <= Len(told)
  BY <1>0, Types DEF DownInv
<1>5. r2 \in Byte  BY <1>3, <1>4, RoundInByte
<1>6. /\ e.bytes \in Message /\ Len(e.bytes) = Len(msg) /\ e.next \in Block
      /\ CrevasseBuffer(e.bytes, server.sendRound, server.sendKey) =
            [msg |-> msg, next |-> e.next]
  BY <1>3, <1>4, RoundTrip
<1>7. p \in Packet /\ p.mapped /\ p.bytes = e.bytes
  <2>1. <<>> \in Seq(Block)  OBVIOUS
  <2> QED  BY <1>6, <2>1 DEF Packet
<1>8. Reads(p, msg, server.sendKey, server.sendRound, e.next, r2)
  BY <1>6, <1>7 DEF Reads
<1> HIDE DEF p, r2
<1>9. /\ server' \in [sendRound : Byte, recvRound : Byte, sendKey : Block,
                      recvKey : Block, keyed : BOOLEAN]
      /\ server'.sendKey = e.next /\ server'.sendRound = r2
      /\ server'.keyed = server.keyed /\ server'.recvKey = server.recvKey
      /\ server'.recvRound = server.recvRound
  <2>1. server \in [sendRound : Byte, recvRound : Byte, sendKey : Block,
                    recvKey : Block, keyed : BOOLEAN]
    BY <1>0 DEF TypeOK
  <2> QED  BY <1>1, <1>5, <1>6, <2>1
<1>10. /\ TypeOK' /\ UpInv' /\ ServerReadsWhatWasPacked'
       /\ LuaIsGivenWhatWasSent'
       /\ Len(down') <= Len(told') /\ Len(told') <= MaxServe
  BY <1>1, <1>2, <1>7, <1>9, ServerSendsTypes DEF p
<1>11. DownInv'
  <2>1. Chain(down, told, m_dwRecvXorKey, m_cbRecvRound,
              server.sendKey, server.sendRound)
    BY <1>0, <1>2 DEF DownInv
  <2>2. Chain(down', told', m_dwRecvXorKey, m_cbRecvRound, e.next, r2)
    BY <1>1, <1>2, <1>3, <1>4, <1>5, <1>6, <1>7, <1>8, <2>1, ChainAppend
    DEF p
  <2> QED  BY <1>2, <1>9, <1>10, <2>2 DEF DownInv, kernel
<1> QED  BY <1>10, <1>11 DEF KernelInv

-----------------------------------------------------------------------------
(* The theorems.                                                             *)

\* Through every step of Lua, of the kernel and of the server the wires hold
\* what the receiving ends' keys and rounds open (pack, unpack).
THEOREM KernelInvariant == Spec => []KernelInv
<1>1. Init => KernelInv  BY InitHolds
<1>2. KernelInv /\ [Next]_vars => KernelInv'
  <2> SUFFICES ASSUME KernelInv, [Next]_vars PROVE KernelInv'
    OBVIOUS
  <2>1. CASE \E msg \in Outgoing : pack(msg)  BY <2>1, PackStep
  <2>2. CASE unpack  BY <2>2, UnpackStep
  <2>3. CASE ServerReads  BY <2>3, ServerReadsStep
  <2>4. CASE \E msg \in Incoming : ServerSendsClear(msg)
    BY <2>4, ServerSendsClearStep
  <2>5. CASE \E msg \in Incoming : ServerSendsMapped(msg)
    BY <2>5, ServerSendsMappedStep
  <2>6. CASE UNCHANGED vars
    BY <2>6 DEF vars, kernel, KernelInv, TypeOK, UpInv, UpKey, DownInv,
                ServerReadsWhatWasPacked, LuaIsGivenWhatWasSent, Arriving,
                Command
  <2> QED  BY <2>1, <2>2, <2>3, <2>4, <2>5, <2>6 DEF Next
<1> QED  BY <1>1, <1>2, PTL DEF Spec

\* Keys are whole blocks, rounds are bytes, and the messages on the wires and in
\* the histories are messages, through every step (CClientKernel's fields).
THEOREM KernelTypes == Spec => []TypeOK
<1>1. KernelInv => TypeOK  BY DEF KernelInv
<1> QED  BY <1>1, KernelInvariant, PTL

\* The server reads every message Lua sent as it was, whatever the lengths,
\* the tables, the keys and the key generator (EncryptBuffer).
THEOREM ServerReadsLua == Spec => []ServerReadsWhatWasPacked
<1>1. KernelInv => ServerReadsWhatWasPacked  BY DEF KernelInv
<1> QED  BY <1>1, KernelInvariant, PTL

\* Lua is given every message of the server but the heartbeats, once, in
\* order and as it was sent, before and after the keys are set (unpack).
THEOREM LuaReadsServer == Spec => []LuaIsGivenWhatWasSent
<1>1. KernelInv => LuaIsGivenWhatWasSent  BY DEF KernelInv
<1> QED  BY <1>1, KernelInvariant, PTL

\* Whenever a wire is empty its two ends agree on the next key and round.
THEOREM KeysInStep == Spec => []EndsInStep
<1>1. KernelInv => EndsInStep
  <2> SUFFICES ASSUME KernelInv PROVE EndsInStep
    OBVIOUS
  <2>1. ASSUME up = <<>>, m_dwSendPacketCount > 0
        PROVE  /\ server.recvKey = m_dwSendXorKey
               /\ server.recvRound = m_cbSendRound
    <3>1. UpInv /\ packed \in Seq(Message)  BY Types DEF KernelInv
    <3>2. Len(up) = 0 /\ Len(packed) > 0 /\ server.keyed
      BY <2>1, <3>1 DEF UpInv
    <3>3. Chain(<<>>, packed, server.recvKey, server.recvRound,
                m_dwSendXorKey, m_cbSendRound)
      BY <2>1, <3>1, <3>2 DEF UpInv, UpKey
    <3> QED  BY <3>3, ChainDone
  <2>2. ASSUME down = <<>>, server.keyed
        PROVE  /\ server.sendKey = m_dwRecvXorKey
               /\ server.sendRound = m_cbRecvRound
    <3>1. Chain(<<>>, told, m_dwRecvXorKey, m_cbRecvRound,
                server.sendKey, server.sendRound)
      BY <2>2 DEF KernelInv, DownInv
    <3> QED  BY <3>1, ChainDone
  <2> QED  BY <2>1, <2>2 DEF EndsInStep
<1> QED  BY <1>1, KernelInvariant, PTL

=============================================================================
