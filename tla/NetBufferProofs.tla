--------------------------- MODULE NetBufferProofs --------------------------
(***************************************************************************)
(* The properties of NetBuffer, for every size of the static area and      *)
(* every set of body lengths.                                              *)
(***************************************************************************)
EXTENDS NetBuffer, TLAPS

BufferInv == NetTypeOK /\ OneLiveBlock /\ ReadFits /\ (reading # NoRead => reading.block = m_dbuf)

\* The branch that allocates keeps every other block as it is.
LEMMA ExpandShape ==
    ASSUME NetTypeOK, OneLiveBlock, NEW len \in Nat \ {0}, ExpandBuffer(len)
    PROVE  /\ heap' \in Seq(Nat) /\ Len(heap') >= Len(heap)
           /\ m_dbuf' \in 0 .. Len(heap') /\ m_capacity' \in Nat
           /\ freed' \in [1 .. Len(heap') -> {0, 1}]
           /\ OneLiveBlock'
           /\ len <= m_capacity'
  <1> USE NetBufferAssumption DEF NetTypeOK, OneLiveBlock, SizeOf
  <1>1. CASE Enough(len)
    BY <1>1 DEF Enough
  <1>2. CASE m_capacity < len
    <2> DEFINE size == IF m_dbuf # 0 THEN 2 * len ELSE len
               new == Len(heap) + 1
    <2>1. size \in Nat /\ len <= size
      OBVIOUS
    <2>2. /\ heap' = Append(heap, size) /\ m_dbuf' = new /\ m_capacity' = size
          /\ freed' = Given(m_dbuf, new)
      BY <1>2 DEF ExpandBuffer, Enough, Allocate
    <2> HIDE DEF size
    <2>3. /\ Len(heap) \in Nat /\ heap' \in Seq(Nat) /\ Len(heap') = new
          /\ heap'[new] = size
          /\ \A b \in 1 .. Len(heap) : heap'[b] = heap[b]
      BY <2>1, <2>2
    <2>4. DOMAIN heap = 1 .. Len(heap) /\ DOMAIN freed = 1 .. Len(heap)
      OBVIOUS
    <2>5. \A b \in 1 .. Len(heap) : freed[b] + (IF b = m_dbuf THEN 1 ELSE 0) = 1
      BY <2>4
    <2>6. ~ new \in 1 .. Len(heap) /\ m_dbuf # new
          /\ \A b \in 1 .. new : b \in 1 .. Len(heap) \/ b = new
      BY <2>3
    <2>7. freed' = [b \in 1 .. new |-> IF b = new THEN 0 ELSE 1]
      <3> HIDE DEF new
      <3> QED  BY <2>2, <2>4, <2>5, <2>6 DEF Given
    <2>8. freed' \in [1 .. new -> {0, 1}]
      <3> HIDE DEF new
      <3> QED  BY <2>7
    <2>9. OneLiveBlock'
      <3>1. DOMAIN heap' = 1 .. new
        BY <2>3
      <3>2. \A b \in 1 .. new : freed'[b] = IF b = m_dbuf' THEN 0 ELSE 1
        BY <2>2, <2>3, <2>7
      <3>3. m_capacity' = (IF m_dbuf' = 0 THEN STATIC_BUF_SIZE ELSE heap'[m_dbuf'])
        BY <2>2, <2>3
      <3> QED  BY <3>1, <3>2, <3>3
    <2> QED  BY <2>1, <2>2, <2>3, <2>8, <2>9
  <1> QED  BY <1>1, <1>2 DEF ExpandBuffer, Enough

LEMMA BufferInit == NetInit => BufferInv
  BY NetBufferAssumption
     DEF NetInit, BufferInv, NetTypeOK, OneLiveBlock, ReadFits, NoRead, SizeOf

LEMMA BufferStep == BufferInv /\ [NetNext]_netVars => BufferInv'
  <1> SUFFICES ASSUME BufferInv, [NetNext]_netVars
               PROVE  BufferInv'
    OBVIOUS
  <1> USE NetBufferAssumption
  <1>1. ASSUME NEW len \in BodyLengths, ReadBody(len)
        PROVE  BufferInv'
    <2>1. len \in Nat \ {0}
      OBVIOUS
    <2>2. ExpandBuffer(len) /\ m_datalen' = len
          /\ reading' = [block |-> m_dbuf', len |-> len] /\ alive' = alive
      BY <1>1 DEF ReadBody, Resize
    <2>3. /\ heap' \in Seq(Nat)
          /\ m_dbuf' \in 0 .. Len(heap') /\ m_capacity' \in Nat
          /\ freed' \in [1 .. Len(heap') -> {0, 1}]
          /\ OneLiveBlock' /\ len <= m_capacity'
      BY <2>1, <2>2, ExpandShape DEF BufferInv
    <2>4. NetTypeOK'
      BY <2>1, <2>2, <2>3 DEF BufferInv, NetTypeOK
    <2>5. ReadFits'
      BY <2>1, <2>2, <2>3 DEF ReadFits, OneLiveBlock, SizeOf
    <2> QED  BY <2>2, <2>3, <2>4, <2>5 DEF BufferInv
  <1>2. CASE ReadEnds
    BY <1>2 DEF ReadEnds, BufferInv, NetTypeOK, OneLiveBlock, ReadFits, SizeOf, NoRead, buffer
  <1>3. CASE Destroy
    <2>1. NetTypeOK /\ OneLiveBlock
      BY DEF BufferInv
    <2>2. DOMAIN heap = 1 .. Len(heap) /\ DOMAIN freed = 1 .. Len(heap)
      BY <2>1 DEF NetTypeOK
    <2>3. \A b \in 1 .. Len(heap) : freed[b] = IF b = m_dbuf THEN 0 ELSE 1
      BY <2>1, <2>2 DEF OneLiveBlock
    <2>4. \A b \in 1 .. Len(heap) : freed[b] + (IF b = m_dbuf THEN 1 ELSE 0) = 1
      BY <2>3
    <2>5. freed' = [b \in 1 .. Len(heap) |-> 1]
      <3>1. freed' = Given(m_dbuf, Len(heap))
        BY <1>3 DEF Destroy
      <3> QED  BY <2>2, <2>4, <3>1 DEF Given
    <2>6. /\ m_dbuf' = 0 /\ m_datalen' = 0 /\ m_capacity' = STATIC_BUF_SIZE
          /\ heap' = heap /\ reading' = NoRead /\ alive' = FALSE
      BY <1>3 DEF Destroy
    <2>7. NetTypeOK'
      <3>1. heap \in Seq(Nat) /\ Len(heap) \in Nat /\ STATIC_BUF_SIZE \in Nat
        BY <2>1 DEF NetTypeOK
      <3>2. freed' \in [1 .. Len(heap) -> {0, 1}]
        BY <2>5
      <3>3. 0 \in 0 .. Len(heap) /\ NoRead \in [block : 0 .. Len(heap), len : Nat]
        BY <3>1 DEF NoRead
      <3> QED  BY <2>6, <3>1, <3>2, <3>3 DEF NetTypeOK
    <2>8. OneLiveBlock'
      <3>1. \A b \in DOMAIN heap' : b # 0 /\ freed'[b] = 1
        BY <2>2, <2>5, <2>6
      <3> QED  BY <2>6, <3>1 DEF OneLiveBlock, SizeOf
    <2>9. ReadFits'
      BY <2>6 DEF ReadFits, NoRead
    <2> QED  BY <2>6, <2>7, <2>8, <2>9 DEF BufferInv, NoRead
  <1>4. CASE UNCHANGED netVars
    BY <1>4 DEF netVars, buffer, BufferInv, NetTypeOK, OneLiveBlock, ReadFits, SizeOf, NoRead
  <1> QED  BY <1>1, <1>2, <1>3, <1>4 DEF NetNext

\* In every reachable state the types hold, the reads fit and one block lives.
THEOREM BufferInvariant == NetSpec => []BufferInv
  BY BufferInit, BufferStep, PTL DEF NetSpec

\* The type invariant of NetBuffer.
THEOREM BufferTypes == NetSpec => []NetTypeOK
  <1>1. BufferInv => NetTypeOK
    BY DEF BufferInv
  <1> QED  BY <1>1, BufferInvariant, PTL

\* asio only fills memory that is allocated and large enough (do_read_body).
THEOREM ReadsFit == NetSpec => []ReadFits
  <1>1. BufferInv => ReadFits
    BY DEF BufferInv
  <1> QED  BY <1>1, BufferInvariant, PTL

\* No heap block leaks or is freed twice (ExpandBuffer, ~NetBuffer).
THEOREM FreedOnce == NetSpec => []OneLiveBlock
  <1>1. BufferInv => OneLiveBlock
    BY DEF BufferInv
  <1> QED  BY <1>1, BufferInvariant, PTL

\* A heap buffer more than doubles when it grows (the comment in ExpandBuffer).
THEOREM Doubles == NetSpec => GrowthDoubles
  <1>1. ASSUME BufferInv, [NetNext]_netVars
        PROVE  [m_dbuf # 0 /\ Len(heap') > Len(heap) => m_capacity' > 2 * m_capacity]_netVars
    <2>1. ASSUME NEW len \in BodyLengths, ReadBody(len), m_dbuf # 0, Len(heap') > Len(heap)
          PROVE  m_capacity' > 2 * m_capacity
      BY <1>1, <2>1, NetBufferAssumption
         DEF ReadBody, Resize, ExpandBuffer, Enough, Allocate, BufferInv, NetTypeOK
    <2>2. ReadEnds \/ Destroy \/ UNCHANGED netVars => heap' = heap
      BY DEF ReadEnds, Destroy, netVars
    <2>3. Len(heap) \in Nat
      BY <1>1 DEF BufferInv, NetTypeOK
    <2> QED  BY <1>1, <2>1, <2>2, <2>3 DEF NetNext
  <1> QED  BY <1>1, BufferInvariant, PTL DEF NetSpec, GrowthDoubles

=============================================================================
