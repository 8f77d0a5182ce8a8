---------------------------- MODULE CmdDataProofs ---------------------------
(***************************************************************************)
(* The properties of CmdData for every width of a WORD, every Limit below  *)
(* a quarter of it and all payloads: the bounds, and that a packet is the  *)
(* tape of PacketTape.                                                     *)
(***************************************************************************)
EXTENDS CmdData, TLAPS

DataInv ==
    /\ CmdTypeOK /\ CursorInBuffer /\ GrowthIsSafe
    /\ ~over => pushed <= m_wMaxLenght

\* What PushSTRING and PushMD5 hand over, and PushValue too.
Pushed(data, n) ==
    /\ data \in Seq(Byte) /\ n \in Word
    /\ data # <<>> => data \in Payloads /\ Len(data) = n

LEMMA ModFacts ==
    ASSUME NEW x \in Nat
    PROVE  x % WordMod \in Word /\ (x < WordMod => x % WordMod = x)
  <1>1. WordMod \in Nat \ {0}
    BY CmdDataAssumption
  <1> QED  BY <1>1 DEF Word

LEMMA PushedData ==
    ASSUME NEW data \in Payloads \cup {<<>>}, NEW n \in Word, data = <<>> \/ Len(data) = n
    PROVE  Pushed(data, n)
  <1>1. Payloads \subseteq Seq(Byte) /\ <<>> \in Seq(Byte)
    BY CmdDataAssumption
  <1> QED  BY <1>1 DEF Pushed

\* The copied buffer: its bytes, and that they are bytes.
LEMMA CopiedType ==
    ASSUME CmdTypeOK, NEW size \in Nat, NEW data \in Seq(Byte)
    PROVE  Copied(size, data) \in [0 .. size - 1 -> Byte]
  <1>1. ASSUME NEW i \in 0 .. size - 1, i - m_wCurIndex \in 0 .. Len(data) - 1
        PROVE  data[i - m_wCurIndex + 1] \in Byte
    BY <1>1 DEF CmdTypeOK, Word
  <1>2. ASSUME NEW i \in 0 .. size - 1, i < m_wMaxLenght
        PROVE  m_pBuffer[i] \in Byte
    BY <1>2 DEF CmdTypeOK, Word
  <1>3. 0 \in Byte
    BY CmdDataAssumption
  <1> QED  BY <1>1, <1>2, <1>3 DEF Copied

\* The three outcomes of a push.
Beyond(op) ==
    /\ fault' = op /\ got' = <<>> /\ UNCHANGED <<packet, pushed>>
    /\ over' = (m_bAutoLen /\ over')
    /\ op = "push" => over'

Stored(data, n) ==
    \E size \in Word :
        /\ n > 0
        /\ m_wMaxLenght' = size
        /\ m_pBuffer' = Copied(size, data)
        /\ m_wCurIndex' = (m_wCurIndex + n) % WordMod
        /\ pushed' = IF m_wCurIndex + n > pushed THEN m_wCurIndex + n ELSE pushed
        /\ got' = <<>> /\ UNCHANGED <<m_bAutoLen, fault>>
        /\ over' = (m_bAutoLen /\ m_wCurIndex + n > Limit)
        /\ ~over' => /\ size >= m_wMaxLenght /\ m_wCurIndex + n <= size
                     /\ m_bAutoLen => size < 4 * Limit /\ m_wCurIndex + n <= Limit
                     /\ ~m_bAutoLen => size = m_wMaxLenght

LEMMA PushOutcome ==
    ASSUME DataInv, Working, NEW data, NEW n, Pushed(data, n), PushByteData(data, n)
    PROVE  \/ Nothing /\ (n = 0 \/ (~m_bAutoLen /\ m_wCurIndex + n > m_wMaxLenght))
           \/ Beyond("push") /\ m_bAutoLen /\ m_wCurIndex + n > Limit
           \/ Stored(data, n)
  <1> DEFINE fits == m_wCurIndex + n <= m_wMaxLenght
             size == IF fits THEN m_wMaxLenght ELSE Grown(n)
             bad == size < m_wMaxLenght \/ (Len(data) > 0 /\ size < m_wCurIndex + Len(data))
  <1>1. /\ n \in Nat /\ m_wCurIndex \in Nat /\ m_wMaxLenght \in Word /\ m_wMaxLenght \in Nat
        /\ m_bAutoLen \in BOOLEAN /\ ~over /\ m_wCurIndex <= m_wMaxLenght
        /\ m_bAutoLen => m_wMaxLenght < 4 * Limit
        /\ Limit \in Nat /\ 4 * Limit < WordMod /\ WordMod \in Nat
    BY CmdDataAssumption
       DEF DataInv, CmdTypeOK, Working, CursorInBuffer, GrowthIsSafe, Pushed, Word
  <1>2. Grown(n) \in Word /\ ((m_wMaxLenght + n) * 2 < WordMod => Grown(n) = (m_wMaxLenght + n) * 2)
    <2>1. (m_wMaxLenght + n) * 2 \in Nat
      BY <1>1
    <2> QED  BY <2>1, ModFacts DEF Grown
  <1>3. size \in Word /\ size \in Nat
    BY <1>1, <1>2 DEF Word
  <1>4. Len(data) = 0 \/ Len(data) = n
    BY DEF Pushed
  <1>5. ASSUME m_bAutoLen, m_wCurIndex + n <= Limit
        PROVE  size >= m_wMaxLenght /\ m_wCurIndex + n <= size /\ size < 4 * Limit
    <2>1. CASE fits
      BY <1>1, <1>5, <2>1
    <2>2. CASE ~fits
      <3>1. (m_wMaxLenght + n) * 2 < 4 * Limit
        BY <1>1, <1>5, <2>2
      <3> QED  BY <1>1, <1>2, <1>5, <2>2, <3>1
    <2> QED  BY <2>1, <2>2
  <1>6. CASE n = 0 \/ (~fits /\ ~m_bAutoLen)
    BY <1>1, <1>6 DEF PushByteData
  <1>7. CASE ~(n = 0 \/ (~fits /\ ~m_bAutoLen))
    <2>1. over' = (m_bAutoLen /\ m_wCurIndex + n > Limit)
      BY <1>7 DEF PushByteData
    <2>2. ~over' /\ m_bAutoLen => m_wCurIndex + n <= Limit
      <3>1. m_wCurIndex + n > Limit \/ m_wCurIndex + n <= Limit
        BY <1>1
      <3> QED  BY <2>1, <3>1, Zenon
    <2>3. ~m_bAutoLen => size = m_wMaxLenght /\ m_wCurIndex + n <= size
      BY <1>1, <1>7
    <2> HIDE DEF size
    <2>4. CASE bad
      <3>1. over'
        BY <1>1, <1>3, <1>4, <1>5, <2>2, <2>3, <2>4
      <3>2. Leaves("push")
        BY <1>7, <2>4 DEF PushByteData, size
      <3>3. m_bAutoLen /\ m_wCurIndex + n > Limit
        BY <2>1, <3>1
      <3> QED  BY <2>1, <3>1, <3>2, <3>3 DEF Leaves, Beyond
    <2>5. CASE ~bad
      <3>1. /\ m_wMaxLenght' = size
            /\ m_pBuffer' = Copied(size, data)
            /\ m_wCurIndex' = (m_wCurIndex + n) % WordMod
            /\ pushed' = IF m_wCurIndex + n > pushed THEN m_wCurIndex + n ELSE pushed
            /\ got' = <<>> /\ UNCHANGED <<m_bAutoLen, fault>>
        BY <1>7, <2>5 DEF PushByteData, size
      <3>2. n > 0
        BY <1>1, <1>7
      <3>3. ~over' => /\ size >= m_wMaxLenght /\ m_wCurIndex + n <= size
                      /\ m_bAutoLen => size < 4 * Limit /\ m_wCurIndex + n <= Limit
                      /\ ~m_bAutoLen => size = m_wMaxLenght
        BY <1>1, <1>3, <1>5, <2>2, <2>3
      <3> QED  BY <1>3, <2>1, <3>1, <3>2, <3>3 DEF Stored
    <2> QED  BY <2>4, <2>5
  <1> QED  BY <1>6, <1>7

-----------------------------------------------------------------------------
\* The outcomes of all calls: a push's, a read's, a call that leaves its
\* buffer, one that does nothing, and resetread.
ReadOf(n, result) ==
    /\ n \in Nat /\ m_wCurIndex + n <= m_wMaxLenght
    /\ got' = <<result>>
    /\ m_wCurIndex' = MovedTo((m_wCurIndex + n) % WordMod)
    /\ UNCHANGED <<m_bAutoLen, m_wMaxLenght, m_pBuffer, pushed, over, fault>>

BadCall == \E op \in Faults \ {"none", "push"} : Leaves(op) /\ UNCHANGED over

LEMMA Lua ==
    /\ Lengths \subseteq Word /\ Payloads \subseteq Seq(Byte) /\ <<>> \in Seq(Byte)
    /\ \A data \in Payloads : Len(data) \in Word /\ data # <<>>
    /\ Word \subseteq Nat /\ {0, 1, 2} \subseteq Word
    /\ WordMod \in Nat /\ Limit \in Nat /\ 4 * Limit < WordMod
  BY CmdDataAssumption DEF Word

LEMMA Lengths_ ==
    ASSUME DataInv
    PROVE  /\ m_wCurIndex \in Nat /\ m_wMaxLenght \in Nat /\ m_wMaxLenght < WordMod
           /\ m_bAutoLen \in BOOLEAN /\ pushed \in Nat /\ GetBufferLenght \in Nat
           /\ Working => /\ m_wCurIndex <= m_wMaxLenght
                         /\ m_wCurIndex <= GetBufferLenght
                         /\ GetBufferLenght <= m_wMaxLenght
                         /\ Rest \in Nat /\ m_wCurIndex + Rest = GetBufferLenght
                         /\ pushed <= m_wMaxLenght
  <1>1. /\ m_wCurIndex \in Word /\ m_wMaxLenght \in Word /\ m_bAutoLen \in BOOLEAN
        /\ pushed \in Nat
        /\ Working => m_wCurIndex <= m_wMaxLenght /\ pushed <= m_wMaxLenght
    BY DEF DataInv, CmdTypeOK, CursorInBuffer, Working
  <1>2. m_wCurIndex \in Nat /\ m_wMaxLenght \in Nat /\ m_wMaxLenght < WordMod
    BY <1>1, Lua DEF Word
  <1> QED  BY <1>1, <1>2 DEF GetBufferLenght, Rest

\* What the bytes of the readers are.
LEMMA Fitting ==
    ASSUME DataInv, Working, NEW n \in Nat
    PROVE  /\ Fits(n) \in BOOLEAN
           /\ Fits(n) => m_wCurIndex + n <= m_wMaxLenght
           /\ Fits(0)
           /\ Rest \in Nat /\ m_wCurIndex + Rest <= m_wMaxLenght
           /\ (m_wCurIndex < GetBufferLenght) = (Rest > 0)
  BY Lengths_ DEF Fits, Rest

\* What each of the functions of Lua can come to.
Outcome ==
    /\ Working
    /\ call' \in [op : Ops, data : Payloads \cup {<<>>}, len : Word]
    /\ \/ Nothing \/ Beyond("push") \/ BadCall \/ ResetCurrentIndex
       \/ \E data, n : Pushed(data, n) /\ Stored(data, n)
       \/ \E n, result : ReadOf(n, result)

LEMMA AskedType ==
    ASSUME NEW op \in Ops, NEW data \in Payloads \cup {<<>>}, NEW n \in Word, Asked(op, data, n)
    PROVE  Working /\ call' \in [op : Ops, data : Payloads \cup {<<>>}, len : Word]
  BY DEF Asked

LEMMA PushComesTo ==
    ASSUME DataInv, Working, NEW data, NEW n, Pushed(data, n), PushByteData(data, n)
    PROVE  \/ Nothing \/ Beyond("push")
           \/ \E d, k : Pushed(d, k) /\ Stored(d, k)
  BY PushOutcome

LEMMA Outcomes ==
    ASSUME DataInv, CmdNext
    PROVE  Outcome
  <1>1. ASSUME NEW data \in Payloads, PushValue(data)
        PROVE  Outcome
    <2>1. Pushed(data, Len(data)) /\ Len(data) \in Word
      BY Lua, PushedData
    <2>2. Working /\ call' \in [op : Ops, data : Payloads \cup {<<>>}, len : Word]
      BY <1>1, <2>1, AskedType DEF PushValue, Ops
    <2> QED  BY <1>1, <2>1, <2>2, PushComesTo DEF PushValue, Outcome
  <1>2. ASSUME NEW data \in Payloads \cup {<<>>}, NEW n \in Lengths, PushSTRING(data, n)
        PROVE  Outcome
    <2>1. Pushed(data, n) /\ n \in Word
      BY <1>2, Lua, PushedData DEF PushSTRING
    <2>2. Working /\ call' \in [op : Ops, data : Payloads \cup {<<>>}, len : Word]
      BY <1>2, <2>1, AskedType DEF PushSTRING, Ops
    <2> QED  BY <1>2, <2>1, <2>2, PushComesTo DEF PushSTRING, Outcome
  <1>3. ASSUME NEW data \in Payloads \cup {<<>>}, NEW n \in Lengths, PushMD5(data, n)
        PROVE  Outcome
    <2>1. Pushed(data, n) /\ n \in Word
      BY <1>3, Lua, PushedData DEF PushMD5
    <2>2. Working /\ call' \in [op : Ops, data : Payloads \cup {<<>>}, len : Word]
      BY <1>3, <2>1, AskedType DEF PushMD5, Ops
    <2>3. CASE data # <<>> /\ n < DIGEST
      BY <1>3, <2>2, <2>3 DEF PushMD5, BadCall, Faults, Outcome
    <2>4. CASE ~(data # <<>> /\ n < DIGEST)
      BY <1>3, <2>1, <2>2, <2>4, PushComesTo DEF PushMD5, Outcome
    <2> QED  BY <2>3, <2>4
  <1>4. ASSUME NEW n \in Lengths, ReadValue(n)
        PROVE  Outcome
    <2>1. n \in Word /\ n \in Nat
      BY Lua
    <2>2. Working /\ call' \in [op : Ops, data : Payloads \cup {<<>>}, len : Word]
      BY <1>4, <2>1, AskedType DEF ReadValue, Ops
    <2>3. Fits(n) \in BOOLEAN /\ (Fits(n) => m_wCurIndex + n <= m_wMaxLenght)
      BY <2>1, <2>2, Fitting
    <2>4. ReadOf(n, Bytes(n)) \/ Nothing
      BY <1>4, <2>1, <2>3 DEF ReadValue, Read, ReadOf
    <2> QED  BY <2>2, <2>4 DEF Outcome
  <1>5. ASSUME NEW n \in Lengths, ReadSTRING(n)
        PROVE  Outcome
    <2>1. n \in Word /\ n \in Nat
      BY Lua
    <2>2. Working /\ call' \in [op : Ops, data : Payloads \cup {<<>>}, len : Word]
      BY <1>5, <2>1, AskedType DEF ReadSTRING, Ops
    <2>3. Fits(n) \in BOOLEAN /\ (Fits(n) => m_wCurIndex + n <= m_wMaxLenght)
      BY <2>1, <2>2, Fitting
    <2>4. ReadOf(n, a_u8(lua_pushstring(Bytes(n)))) \/ Nothing
      BY <1>5, <2>1, <2>3 DEF ReadSTRING, Read, ReadOf
    <2> QED  BY <2>2, <2>4 DEF Outcome
  <1>6. ASSUME NEW n \in Lengths, ReadCHAR(n)
        PROVE  Outcome
    <2> DEFINE len == IF n > 0 /\ Fits(n) THEN Rest ELSE n
    <2>1. n \in Word /\ n \in Nat
      BY Lua
    <2>2. Working /\ call' \in [op : Ops, data : Payloads \cup {<<>>}, len : Word]
      BY <1>6, <2>1, AskedType DEF ReadCHAR, Ops
    <2>3. len \in Nat /\ m_wCurIndex \in Nat /\ m_wMaxLenght \in Nat
      BY <2>1, <2>2, Fitting, Lengths_
    <2>4. CASE m_wCurIndex + len > m_wMaxLenght
      BY <1>6, <2>2, <2>4 DEF ReadCHAR, BadCall, Faults, Outcome
    <2>5. CASE ~(m_wCurIndex + len > m_wMaxLenght)
      <3>1. Read(TRUE, len, lua_pushstring(Bytes(len)))
        BY <1>6, <2>5 DEF ReadCHAR
      <3> HIDE DEF len
      <3>2. m_wCurIndex + len <= m_wMaxLenght
        BY <2>3, <2>5
      <3>3. ReadOf(len, lua_pushstring(Bytes(len)))
        BY <2>3, <3>1, <3>2 DEF Read, ReadOf
      <3> QED  BY <2>2, <3>3 DEF Outcome
    <2> QED  BY <2>4, <2>5
  <1>7. ASSUME ReadBOOL PROVE Outcome
    <2>1. Working /\ call' \in [op : Ops, data : Payloads \cup {<<>>}, len : Word]
      BY <1>7, Lua, AskedType DEF ReadBOOL, Ops
    <2>2. Fits(1) \in BOOLEAN /\ (Fits(1) => m_wCurIndex + 1 <= m_wMaxLenght)
      BY <2>1, Fitting
    <2>3. ReadOf(1, IF m_pBuffer[m_wCurIndex] = 0 THEN 0 ELSE 1) \/ Nothing
      BY <1>7, <2>2 DEF ReadBOOL, Read, ReadOf
    <2> QED  BY <2>1, <2>3 DEF Outcome
  <1>8. ASSUME ReadSHORT PROVE Outcome
    <2>1. Working /\ call' \in [op : Ops, data : Payloads \cup {<<>>}, len : Word]
      BY <1>8, Lua, AskedType DEF ReadSHORT, Ops
    <2>2. CASE m_wCurIndex >= WordMod \div 2
      BY <1>8, <2>1, <2>2 DEF ReadSHORT, BadCall, Faults, Outcome
    <2>3. CASE ~(m_wCurIndex >= WordMod \div 2)
      <3>1. Fits(2) \in BOOLEAN /\ (Fits(2) => m_wCurIndex + 2 <= m_wMaxLenght)
        BY <2>1, Fitting
      <3>2. ReadOf(2, Bytes(2)) \/ Nothing
        BY <1>8, <2>3, <3>1 DEF ReadSHORT, Read, ReadOf
      <3> QED  BY <2>1, <3>2 DEF Outcome
    <2> QED  BY <2>2, <2>3
  <1>9. ASSUME ReadRestSTRING PROVE Outcome
    <2>1. Working /\ call' \in [op : Ops, data : Payloads \cup {<<>>}, len : Word]
      BY <1>9, Lua, AskedType DEF ReadRestSTRING, Ops
    <2>2. Rest \in Nat /\ m_wCurIndex + Rest <= m_wMaxLenght
      BY <2>1, Fitting
    <2>3. ReadOf(Rest, lua_pushstring(Bytes(Rest))) \/ Nothing
      BY <1>9, <2>2 DEF ReadRestSTRING, Read, ReadOf
    <2> QED  BY <2>1, <2>3 DEF Outcome
  <1>10. ASSUME ReadRestCHAR PROVE Outcome
    <2>1. Working /\ call' \in [op : Ops, data : Payloads \cup {<<>>}, len : Word]
      BY <1>10, Lua, AskedType DEF ReadRestCHAR, Ops
    <2>2. Rest \in Nat /\ m_wCurIndex + Rest <= m_wMaxLenght /\ Fits(0) \in BOOLEAN
      BY <2>1, Fitting
    <2>3. ReadOf(Rest, lua_pushstring(Bytes(Rest))) \/ Nothing
      BY <1>10, <2>2 DEF ReadRestCHAR, Read, ReadOf
    <2> QED  BY <2>1, <2>3 DEF Outcome
  <1>11. ASSUME ResetCurrentIndex PROVE Outcome
    <2>1. Working /\ call' \in [op : Ops, data : Payloads \cup {<<>>}, len : Word]
      BY <1>11, Lua, AskedType DEF ResetCurrentIndex, Ops
    <2> QED  BY <1>11, <2>1 DEF Outcome
  <1> QED
    BY <1>1, <1>2, <1>3, <1>4, <1>5, <1>6, <1>7, <1>8, <1>9, <1>10, <1>11 DEF CmdNext

-----------------------------------------------------------------------------
LEMMA DataInit == CmdInit => DataInv
  <1> SUFFICES ASSUME NEW n \in Sizes, Create(n)
               PROVE  DataInv
    BY DEF CmdInit
  <1>1. n \in Nat /\ WordMod \in Nat /\ AUTO_LEN \in 1 .. Limit /\ 4 * Limit < WordMod
        /\ Limit \in Nat /\ 0 \in Byte
    BY CmdDataAssumption
  <1>2. n % WordMod \in Word
    BY <1>1, ModFacts
  <1>3. AUTO_LEN \in Word /\ 0 \in Word /\ (n % WordMod > 0 \/ n % WordMod = 0)
    BY <1>1, <1>2 DEF Word
  <1>4. /\ m_wMaxLenght = (IF n % WordMod > 0 THEN n % WordMod ELSE AUTO_LEN)
        /\ m_bAutoLen = (n % WordMod = 0) /\ m_wCurIndex = 0
        /\ m_pBuffer = [i \in 0 .. m_wMaxLenght - 1 |-> 0]
        /\ pushed = 0 /\ call = [op |-> "create", data |-> <<>>, len |-> 0]
        /\ got = <<>> /\ over = FALSE /\ fault = "none"
    BY DEF Create
  <1>5. m_wMaxLenght \in Word /\ m_bAutoLen \in BOOLEAN
    BY <1>2, <1>3, <1>4
  <1>6. m_bAutoLen => m_wMaxLenght = AUTO_LEN
    BY <1>2, <1>4, Lua
  <1>7. m_pBuffer \in [0 .. m_wMaxLenght - 1 -> Byte]
    BY <1>1, <1>4
  <1>8. fault \in Faults /\ call \in [op : Ops, data : Payloads \cup {<<>>}, len : Word]
    BY <1>3, <1>4 DEF Faults, Ops
  <1>9. CmdTypeOK
    BY <1>3, <1>4, <1>5, <1>7, <1>8 DEF CmdTypeOK
  <1> QED  BY <1>1, <1>4, <1>5, <1>6, <1>9 DEF DataInv, CursorInBuffer, GrowthIsSafe, Word

LEMMA DataStep == DataInv /\ [CmdNext]_cmdVars => DataInv'
  <1> SUFFICES ASSUME DataInv, [CmdNext]_cmdVars
               PROVE  DataInv'
    OBVIOUS
  <1>1. CASE UNCHANGED cmdVars
    BY <1>1 DEF DataInv, cmdVars, packet, CmdTypeOK, CursorInBuffer, GrowthIsSafe
  <1> SUFFICES ASSUME CmdNext PROVE DataInv'
    BY <1>1
  <1>0. Outcome
    BY Outcomes
  <1> USE DEF DataInv
  <1>2. /\ Working /\ WordMod \in Nat /\ Limit \in Nat /\ 4 * Limit < WordMod
        /\ call' \in [op : Ops, data : Payloads \cup {<<>>}, len : Word]
    BY <1>0, Lua DEF Outcome
  <1>3. CASE Nothing
    BY <1>2, <1>3 DEF Nothing, packet, CmdTypeOK, CursorInBuffer, GrowthIsSafe
  <1>4. CASE Beyond("push")
    <2>1. over' = TRUE
      BY <1>4 DEF Beyond, CmdTypeOK
    <2> QED  BY <1>2, <1>4, <2>1
             DEF Beyond, packet, CmdTypeOK, CursorInBuffer, GrowthIsSafe, Faults
  <1>5. CASE BadCall
    BY <1>2, <1>5 DEF BadCall, Leaves, packet, CmdTypeOK, CursorInBuffer, GrowthIsSafe, Faults
  <1>6. CASE ResetCurrentIndex
    BY <1>2, <1>6 DEF ResetCurrentIndex, CmdTypeOK, CursorInBuffer, GrowthIsSafe, Word
  <1>7. ASSUME NEW data, NEW n, Pushed(data, n), Stored(data, n)
        PROVE  DataInv'
    <2>1. PICK size \in Word :
            /\ m_wMaxLenght' = size
            /\ m_pBuffer' = Copied(size, data)
            /\ m_wCurIndex' = (m_wCurIndex + n) % WordMod
            /\ pushed' = (IF m_wCurIndex + n > pushed THEN m_wCurIndex + n ELSE pushed)
            /\ got' = <<>> /\ UNCHANGED <<m_bAutoLen, fault>>
            /\ over' \in BOOLEAN
            /\ ~over' => /\ size >= m_wMaxLenght /\ m_wCurIndex + n <= size
                         /\ m_bAutoLen => size < 4 * Limit
      BY <1>7 DEF Stored
    <2>2. /\ size \in Nat /\ size < WordMod /\ m_wCurIndex \in Nat /\ n \in Nat
          /\ pushed \in Nat /\ m_wMaxLenght \in Nat /\ pushed <= m_wMaxLenght
      BY <1>2, <1>7, Lengths_ DEF Word, Pushed
    <2>3. m_wCurIndex' \in Word /\ (~over' => m_wCurIndex' = m_wCurIndex + n)
      <3>1. m_wCurIndex + n \in Nat
        BY <2>2
      <3>2. m_wCurIndex' \in Word
            /\ (m_wCurIndex + n < WordMod => m_wCurIndex' = m_wCurIndex + n)
        BY <2>1, <3>1, ModFacts
      <3> QED  BY <1>2, <2>1, <2>2, <3>2
    <2>4. m_pBuffer' \in [0 .. size - 1 -> Byte]
      BY <1>7, <2>1, <2>2, CopiedType DEF Pushed
    <2>5. fault' = "none" /\ pushed' \in Nat /\ (~over' => pushed' <= size)
      BY <1>2, <2>1, <2>2 DEF Working
    <2>6. CmdTypeOK'
      BY <1>2, <2>1, <2>3, <2>4, <2>5 DEF CmdTypeOK, Faults
    <2> QED  BY <2>1, <2>2, <2>3, <2>5, <2>6 DEF CursorInBuffer, GrowthIsSafe
  <1>8. ASSUME NEW n, NEW result, ReadOf(n, result)
        PROVE  DataInv'
    <2>1. n \in Nat /\ m_wCurIndex + n <= m_wMaxLenght /\ m_wCurIndex \in Nat
          /\ m_wMaxLenght \in Nat /\ m_wMaxLenght < WordMod
      BY <1>8, Lengths_ DEF ReadOf
    <2>2. /\ got' = <<result>>
          /\ m_wCurIndex' = MovedTo((m_wCurIndex + n) % WordMod)
          /\ UNCHANGED <<m_bAutoLen, m_wMaxLenght, m_pBuffer, pushed, over, fault>>
      BY <1>8 DEF ReadOf
    <2>3. got' = <<got'[1]>>
      BY <2>2
    <2>4. m_wCurIndex' \in Word /\ m_wCurIndex' <= m_wMaxLenght
      <3>1. (m_wCurIndex + n) % WordMod = m_wCurIndex + n
        <4>1. m_wCurIndex + n \in Nat /\ m_wCurIndex + n < WordMod
          BY <1>2, <2>1
        <4> QED  BY <4>1, ModFacts
      <3>2. m_wCurIndex' = m_wCurIndex + n
        BY <2>1, <2>2, <3>1 DEF MovedTo
      <3> QED  BY <1>2, <2>1, <3>2 DEF Word
    <2> QED  BY <1>2, <2>2, <2>3, <2>4 DEF CmdTypeOK, CursorInBuffer, GrowthIsSafe
  <1> QED  BY <1>0, <1>3, <1>4, <1>5, <1>6, <1>7, <1>8 DEF Outcome

\* In every reachable state the types and the two bounds hold.
THEOREM DataInvariant == CmdSpec => []DataInv
  BY DataInit, DataStep, PTL DEF CmdSpec

\* The type invariant of CmdData.
THEOREM DataTypes == CmdSpec => []CmdTypeOK
  <1>1. DataInv => CmdTypeOK
    BY DEF DataInv
  <1> QED  BY <1>1, DataInvariant, PTL

\* The cursor of a packet stays in its buffer (PushByteData, SetCurrentIndex).
THEOREM CursorStays == CmdSpec => []CursorInBuffer
  <1>1. DataInv => CursorInBuffer
    BY DEF DataInv
  <1> QED  BY <1>1, DataInvariant, PTL

\* Pushes up to a quarter of a WORD never write outside the buffer, however it
\* grew (PushByteData).
THEOREM GrowthStaysSafe == CmdSpec => []GrowthIsSafe
  <1>1. DataInv => GrowthIsSafe
    BY DEF DataInv
  <1> QED  BY <1>1, DataInvariant, PTL

-----------------------------------------------------------------------------
(* A packet is a tape.                                                       *)

LEMMA TapeInit == CmdInit => Tape!Init
  <1> SUFFICES ASSUME NEW n \in Sizes, Create(n)
               PROVE  Tape!Init
    BY DEF CmdInit
  <1>1. DataInv
    BY DataInit DEF CmdInit
  <1>2. /\ fault = "none" /\ ~over /\ got = <<>> /\ m_wCurIndex = 0 /\ pushed = 0
        /\ m_pBuffer = [i \in 0 .. m_wMaxLenght - 1 |-> 0]
        /\ call = [op |-> "create", data |-> <<>>, len |-> 0]
    BY DEF Create
  <1>3. Broken = FALSE
    BY <1>2 DEF Broken
  <1>4. WordMod \in Nat /\ m_wMaxLenght \in Word
    BY <1>1, CmdDataAssumption DEF DataInv, CmdTypeOK
  <1>5. TapeCells = [i \in Word |-> 0]
    <2>1. ASSUME NEW i \in Word, i < m_wMaxLenght PROVE m_pBuffer[i] = 0
      BY <1>2, <1>4, <2>1 DEF Word
    <2> QED  BY <2>1 DEF TapeCells
  <1>6. TapeEnd \in Word \cup {-1}
    BY <1>4 DEF TapeEnd
  <1> QED
    BY <1>2, <1>3, <1>5, <1>6
       DEF Tape!Init, Tape!Blank, Tape!Cells, Tape!Endless, Word, TapePosition, TapeGot,
           TapePushed

\* A packet that works, as a tape.
LEMMA TapeNow ==
    ASSUME Working
    PROVE  /\ Broken = FALSE /\ TapePosition = m_wCurIndex /\ TapePushed = pushed
           /\ TapeCells = [i \in Word |-> IF i < m_wMaxLenght THEN m_pBuffer[i] ELSE 0]
           /\ \A op, data, n : Asked(op, data, n) => Tape!Asked(op, data, n)
  BY DEF Working, Broken, TapeCells, TapePosition, TapePushed, Asked, Tape!Asked

LEMMA TapeLengths ==
    ASSUME DataInv, Working
    PROVE  /\ \A n \in Nat : n > 0 => (Tape!There(n) <=> Fits(n))
           /\ Tape!Rest = Rest
  <1>1. /\ m_wCurIndex \in Nat /\ m_wMaxLenght \in Nat /\ m_bAutoLen \in BOOLEAN
        /\ TapePosition = m_wCurIndex
    BY Lengths_, TapeNow
  <1> QED
    BY <1>1 DEF Tape!There, Tape!Rest, Tape!Endless, TapeEnd, Fits, Rest, GetBufferLenght

LEMMA TapeBytes ==
    ASSUME DataInv, Working, NEW n \in Nat, m_wCurIndex + n <= m_wMaxLenght
    PROVE  Tape!Bytes(n) = Bytes(n)
  <1>1. /\ m_wCurIndex \in Nat /\ m_wMaxLenght \in Nat /\ m_wMaxLenght < WordMod
        /\ WordMod \in Nat
    BY Lengths_, Lua
  <1>2. \A i \in 1 .. n : TapeCells[m_wCurIndex + i - 1] = m_pBuffer[m_wCurIndex + i - 1]
    <2> TAKE i \in 1 .. n
    <2>1. m_wCurIndex + i - 1 \in Word /\ m_wCurIndex + i - 1 < m_wMaxLenght
      BY <1>1 DEF Word
    <2> QED  BY <2>1, TapeNow
  <1> QED  BY <1>2, TapeNow DEF Tape!Bytes, Bytes

LEMMA TapeText == \A s : Tape!Text(s) = lua_pushstring(s)
  BY DEF Tape!Text, lua_pushstring, Min, Tape!Min

-----------------------------------------------------------------------------
\* Steps that leave the limits break the tape.
LEMMA StepBreaks ==
    ASSUME DataInv, Working, Broken', m_bAutoLen' = m_bAutoLen,
           ~m_bAutoLen => m_wMaxLenght' = m_wMaxLenght,
           NEW op, NEW data, NEW n, Asked(op, data, n), Tape!Breaks(op, data, n)
    PROVE  Tape!Break(op, data, n)
  <1>1. TapeCells' = [i \in Word |-> 0] /\ Broken' = TRUE
    BY DEF TapeCells, Broken
  <1>2. TapePosition' = 0 /\ TapeGot' = <<>> /\ TapePushed' = 0 /\ TapeEnd' = TapeEnd
    BY DEF TapePosition, TapeGot, TapeEnd, TapePushed, DataInv, CmdTypeOK
  <1> QED  BY <1>1, <1>2, TapeNow DEF Tape!Break, Tape!Blank, Tape!Cells, Word

\* Steps that keep the buffer keep the tape.
LEMMA StepKeeps ==
    ASSUME Working, UNCHANGED <<m_bAutoLen, m_wMaxLenght, m_pBuffer, pushed, over, fault>>
    PROVE  /\ TapeCells' = TapeCells /\ TapeEnd' = TapeEnd /\ TapePushed' = TapePushed
           /\ Broken' = Broken /\ TapePosition = m_wCurIndex
           /\ TapePosition' = m_wCurIndex' /\ TapeGot' = got'
  BY DEF Working, Broken, TapeCells, TapeEnd, TapePosition, TapeGot, TapePushed, Word

LEMMA StepIsNothing ==
    ASSUME Working, Nothing
    PROVE  Tape!Nothing
  BY StepKeeps DEF Nothing, packet, Tape!Nothing

LEMMA StepReads ==
    ASSUME DataInv, Working, NEW n, NEW result, ReadOf(n, result)
    PROVE  Tape!Read(TRUE, n, result)
  <1>1. /\ n \in Nat /\ m_wCurIndex \in Nat /\ m_wMaxLenght \in Nat
        /\ m_wCurIndex + n <= m_wMaxLenght /\ m_wMaxLenght < WordMod /\ WordMod \in Nat
    BY Lua, Lengths_ DEF ReadOf
  <1>2. (m_wCurIndex + n) % WordMod = m_wCurIndex + n
    <2>1. m_wCurIndex + n \in Nat /\ m_wCurIndex + n < WordMod
      BY <1>1
    <2> QED  BY <2>1, ModFacts
  <1>3. /\ got' = <<result>>
        /\ m_wCurIndex' = MovedTo((m_wCurIndex + n) % WordMod)
        /\ UNCHANGED <<m_bAutoLen, m_wMaxLenght, m_pBuffer, pushed, over, fault>>
    BY DEF ReadOf
  <1>4. m_wCurIndex' = m_wCurIndex + n
    BY <1>1, <1>2, <1>3 DEF MovedTo
  <1> QED  BY <1>3, <1>4, StepKeeps DEF Tape!Read

\* A reader that finds its bytes, or does not, on the tape too.
LEMMA ReadIsRead ==
    ASSUME DataInv, Working, NEW n, NEW result, NEW there,
           there \in BOOLEAN,
           \/ there /\ ReadOf(n, result)
           \/ ~there /\ Nothing
    PROVE  Tape!Read(there, n, result)
  <1>1. CASE there /\ ReadOf(n, result)
    BY <1>1, StepReads DEF Tape!Read
  <1>2. CASE ~there /\ Nothing
    BY <1>2, StepIsNothing DEF Tape!Read
  <1> QED  BY <1>1, <1>2

LEMMA StoreIsPush ==
    ASSUME DataInv, Working, NEW op \in {"push", "pushmd5"}, NEW data, NEW n, Pushed(data, n),
           Asked(op, data, n), Stored(data, n)
    PROVE  Tape!Push(op, data, n) \/ Tape!Break(op, data, n)
  <1>0. PICK size \in Word :
            /\ n > 0
            /\ m_wMaxLenght' = size
            /\ m_pBuffer' = Copied(size, data)
            /\ m_wCurIndex' = (m_wCurIndex + n) % WordMod
            /\ pushed' = (IF m_wCurIndex + n > pushed THEN m_wCurIndex + n ELSE pushed)
            /\ got' = <<>> /\ UNCHANGED <<m_bAutoLen, fault>>
            /\ over' = (m_bAutoLen /\ m_wCurIndex + n > Limit)
            /\ ~over' => /\ size >= m_wMaxLenght /\ m_wCurIndex + n <= size
                         /\ m_bAutoLen => size < 4 * Limit /\ m_wCurIndex + n <= Limit
                         /\ ~m_bAutoLen => size = m_wMaxLenght
    BY DEF Stored
  <1>1. CASE over'
    <2>1. m_bAutoLen /\ m_wCurIndex + n > Limit
      BY <1>0, <1>1
    <2>2. Tape!Breaks(op, data, n)
      BY <2>1, TapeNow DEF Tape!Breaks, TapeEnd, Tape!Endless
    <2> QED  BY <1>0, <1>1, <2>1, <2>2, StepBreaks DEF Broken
  <1>2. CASE ~over'
    <2>1. /\ n \in Nat /\ m_wCurIndex \in Nat /\ m_wMaxLenght \in Nat
          /\ size \in Nat /\ size < WordMod /\ WordMod \in Nat
          /\ m_bAutoLen \in BOOLEAN /\ data \in Seq(Byte)
      BY Lua, Lengths_ DEF Pushed, Word
    <2>2. m_wCurIndex' = m_wCurIndex + n
      <3>1. m_wCurIndex + n \in Nat /\ m_wCurIndex + n < WordMod
        BY <1>0, <1>2, <2>1
      <3> QED  BY <1>0, <3>1, ModFacts
    <2>3. Broken = FALSE /\ Broken' = FALSE
      BY <1>0, <1>2 DEF Working, Broken
    <2>4. /\ TapePosition = m_wCurIndex /\ TapePosition' = m_wCurIndex + n
          /\ TapePushed = pushed /\ TapePushed' = pushed'
          /\ TapeGot' = <<>> /\ TapeEnd' = TapeEnd
      BY <1>0, <1>2, <2>2, <2>3 DEF TapePosition, TapeGot, TapeEnd, TapePushed
    <2>5. Tape!Room(n)
      BY <1>0, <1>2, <2>1, <2>4 DEF Tape!Room, TapeEnd, Tape!Endless
    <2>6. Len(data) \in Nat /\ m_wCurIndex + Len(data) <= size
      BY <1>0, <1>2, <2>1 DEF Pushed
    <2>7. TapeCells' = [i \in Word |->
              IF i - m_wCurIndex \in 0 .. Len(data) - 1
              THEN data[i - m_wCurIndex + 1] ELSE TapeCells[i]]
      <3>1. ASSUME NEW i \in Word
            PROVE  (IF i < size THEN Copied(size, data)[i] ELSE 0)
                     = IF i - m_wCurIndex \in 0 .. Len(data) - 1
                       THEN data[i - m_wCurIndex + 1] ELSE TapeCells[i]
        <4>1. i \in Nat
          BY <2>1 DEF Word
        <4>2. TapeCells[i] = IF i < m_wMaxLenght THEN m_pBuffer[i] ELSE 0
          BY <2>3 DEF TapeCells
        <4>3. CASE i < size
          <5>1. i \in 0 .. size - 1
            BY <2>1, <4>1, <4>3
          <5> QED  BY <4>2, <4>3, <5>1 DEF Copied
        <4>4. CASE ~(i < size)
          <5>1. ~(i - m_wCurIndex \in 0 .. Len(data) - 1) /\ ~(i < m_wMaxLenght)
            BY <1>0, <1>2, <2>1, <2>6, <4>1, <4>4
          <5> QED  BY <4>2, <4>4, <5>1
        <4> QED  BY <4>3, <4>4
      <3>2. TapeCells' = [i \in Word |-> IF i < size THEN Copied(size, data)[i] ELSE 0]
        BY <1>0, <2>3 DEF TapeCells, Word
      <3> QED  BY <3>1, <3>2
    <2>8. Tape!Asked(op, data, n)
      BY TapeNow
    <2> QED
      BY <1>0, <2>3, <2>4, <2>5, <2>7, <2>8 DEF Tape!Push, Tape!Cells, Word
  <1> QED  BY <1>1, <1>2

\* Whatever a push comes to, the tape allows it.
LEMMA PushIsPush ==
    ASSUME DataInv, Working, NEW op \in {"push", "pushmd5"}, NEW data, NEW n, Pushed(data, n),
           Asked(op, data, n), PushByteData(data, n)
    PROVE  Tape!Push(op, data, n) \/ Tape!Refuse(op, data, n) \/ Tape!Break(op, data, n)
  <1>1. CASE Nothing /\ (n = 0 \/ (~m_bAutoLen /\ m_wCurIndex + n > m_wMaxLenght))
    <2>1. n = 0 \/ (TapeEnd # Tape!Endless /\ ~Tape!Room(n))
      <3>1. m_wMaxLenght \in Nat /\ m_wCurIndex \in Nat /\ n \in Nat
        BY Lengths_, Lua DEF Pushed
      <3> QED  BY <1>1, <3>1, TapeNow DEF TapeEnd, Tape!Endless, Tape!Room
    <2> QED  BY <1>1, <2>1, StepIsNothing, TapeNow DEF Tape!Refuse
  <1>2. CASE Beyond("push") /\ m_bAutoLen /\ m_wCurIndex + n > Limit
    <2>1. Broken' /\ UNCHANGED packet
      BY <1>2 DEF Beyond, Broken
    <2>2. Tape!Breaks(op, data, n)
      BY <1>2, TapeNow DEF Tape!Breaks, TapeEnd, Tape!Endless
    <2> QED  BY <2>1, <2>2, StepBreaks DEF packet
  <1>3. CASE Stored(data, n)
    BY <1>3, StoreIsPush
  <1> QED  BY <1>1, <1>2, <1>3, PushOutcome

-----------------------------------------------------------------------------
(* Action by action.                                                         *)

LEMMA PushRefines ==
    ASSUME DataInv, NEW op \in {"push", "pushmd5"}, NEW data \in Payloads \cup {<<>>},
           NEW n \in TapeAsks,
           Tape!Push(op, data, n) \/ Tape!Refuse(op, data, n) \/ Tape!Break(op, data, n)
    PROVE  Tape!Next
  BY DEF Tape!Next

LEMMA PushesRefine ==
    /\ \A data \in Payloads : DataInv /\ PushValue(data) => Tape!Next
    /\ \A data \in Payloads \cup {<<>>}, n \in Lengths :
          DataInv /\ (PushSTRING(data, n) \/ PushMD5(data, n)) => Tape!Next
  <1>1. ASSUME NEW data \in Payloads, DataInv, PushValue(data)
        PROVE  Tape!Next
    <2>1. Pushed(data, Len(data)) /\ Len(data) \in TapeAsks
      BY Lua, PushedData DEF TapeAsks
    <2>2. Working /\ Asked("push", data, Len(data)) /\ PushByteData(data, Len(data))
      BY <1>1 DEF PushValue, Asked
    <2> QED  BY <1>1, <2>1, <2>2, PushIsPush, PushRefines
  <1>2. ASSUME NEW data \in Payloads \cup {<<>>}, NEW n \in Lengths, DataInv, PushSTRING(data, n)
        PROVE  Tape!Next
    <2>1. Pushed(data, n) /\ n \in TapeAsks
      BY <1>2, Lua, PushedData DEF PushSTRING, TapeAsks
    <2>2. Working /\ Asked("push", data, n) /\ PushByteData(data, n)
      BY <1>2 DEF PushSTRING, Asked
    <2> QED  BY <1>2, <2>1, <2>2, PushIsPush, PushRefines
  <1>3. ASSUME NEW data \in Payloads \cup {<<>>}, NEW n \in Lengths, DataInv, PushMD5(data, n)
        PROVE  Tape!Next
    <2>1. Pushed(data, n) /\ n \in TapeAsks
      BY <1>3, Lua, PushedData DEF PushMD5, TapeAsks
    <2>2. Working /\ Asked("pushmd5", data, n)
      BY <1>3 DEF PushMD5, Asked
    <2>3. CASE data # <<>> /\ n < DIGEST
      <3>1. Broken' /\ UNCHANGED packet
        BY <1>3, <2>3 DEF PushMD5, Leaves, Broken
      <3>2. Tape!Breaks("pushmd5", data, n)
        BY <2>3 DEF Tape!Breaks
      <3> QED  BY <1>3, <2>1, <2>2, <3>1, <3>2, StepBreaks, PushRefines DEF packet
    <2>4. CASE ~(data # <<>> /\ n < DIGEST)
      BY <1>3, <2>1, <2>2, <2>4, PushIsPush, PushRefines DEF PushMD5
    <2> QED  BY <2>3, <2>4
  <1> QED  BY <1>1, <1>2, <1>3

LEMMA ValuesRefine ==
    ASSUME DataInv, NEW n \in Lengths, ReadValue(n)
    PROVE  Tape!ReadValue(n)
  <1>1. n \in Nat /\ n > 0 /\ Working /\ Asked("value", <<>>, n)
        /\ Read(Fits(n), n, Bytes(n))
    BY Lua DEF ReadValue, Asked
  <1>2. Tape!There(n) \in BOOLEAN /\ (Tape!There(n) <=> Fits(n))
    BY <1>1, TapeLengths DEF Tape!There
  <1>3. CASE Fits(n)
    <2>1. ReadOf(n, Bytes(n)) /\ m_wCurIndex + n <= m_wMaxLenght
      BY <1>1, <1>3, Fitting DEF Read, ReadOf
    <2>2. Tape!Read(Tape!There(n), n, Tape!Bytes(n))
      BY <1>1, <1>2, <1>3, <2>1, TapeBytes, ReadIsRead
    <2> QED  BY <1>1, <2>2, TapeNow DEF Tape!ReadValue
  <1>4. CASE ~Fits(n)
    <2>1. Nothing
      BY <1>1, <1>4 DEF Read
    <2>2. Tape!Read(Tape!There(n), n, Tape!Bytes(n))
      BY <1>1, <1>2, <1>4, <2>1, StepIsNothing DEF Tape!Read
    <2> QED  BY <1>1, <2>2, TapeNow DEF Tape!ReadValue
  <1> QED  BY <1>3, <1>4

LEMMA BoolRefines ==
    ASSUME DataInv, ReadBOOL
    PROVE  Tape!ReadBOOL
  <1> DEFINE bool == IF m_pBuffer[m_wCurIndex] = 0 THEN 0 ELSE 1
             tbool == IF TapeCells[TapePosition] = 0 THEN 0 ELSE 1
  <1>1. Working /\ Asked("bool", <<>>, 1) /\ Read(Fits(1), 1, bool)
    BY DEF ReadBOOL, Asked
  <1>2. Tape!There(1) <=> Fits(1)
    BY <1>1, TapeLengths
  <1>3. Fits(1) => tbool = bool
    <2> SUFFICES ASSUME Fits(1) PROVE TapeCells[m_wCurIndex] = m_pBuffer[m_wCurIndex]
      BY <1>1, TapeNow
    <2>1. m_wCurIndex + 1 <= m_wMaxLenght
      BY <1>1, Fitting
    <2>2. m_wCurIndex \in Word /\ m_wCurIndex < m_wMaxLenght
      BY <2>1, Lengths_, Lua DEF Word
    <2> QED  BY <1>1, <2>2, TapeNow
  <1> HIDE DEF bool, tbool
  <1>4. CASE Fits(1)
    <2>1. ReadOf(1, bool)
      BY <1>1, <1>4, Fitting DEF Read, ReadOf
    <2>2. Tape!Read(TRUE, 1, bool)
      BY <1>1, <2>1, StepReads
    <2>3. Tape!Read(Tape!There(1), 1, tbool)
      BY <1>2, <1>3, <1>4, <2>2 DEF Tape!Read
    <2> QED  BY <1>1, <2>3, TapeNow DEF Tape!ReadBOOL, tbool
  <1>5. CASE ~Fits(1)
    <2>1. Tape!Read(Tape!There(1), 1, tbool)
      BY <1>1, <1>2, <1>5, StepIsNothing DEF Read, Tape!Read
    <2> QED  BY <1>1, <2>1, TapeNow DEF Tape!ReadBOOL, tbool
  <1> QED  BY <1>4, <1>5

LEMMA ShortRefines ==
    ASSUME DataInv, ReadSHORT
    PROVE  Tape!ReadSHORT \/ Tape!Break("short", <<>>, 2)
  <1>1. Working /\ Asked("short", <<>>, 2) /\ WordMod \in Nat /\ m_wCurIndex \in Nat
    BY Lua, Lengths_ DEF ReadSHORT, Asked
  <1>2. CASE m_wCurIndex >= WordMod \div 2
    <2>1. Broken' /\ UNCHANGED packet
      BY <1>2 DEF ReadSHORT, Leaves, Broken
    <2>2. Tape!Breaks("short", <<>>, 2)
      BY <1>1, <1>2, TapeNow DEF Tape!Breaks
    <2> QED  BY <1>1, <2>1, <2>2, StepBreaks DEF packet
  <1>3. CASE ~(m_wCurIndex >= WordMod \div 2)
    <2>1. Read(Fits(2), 2, Bytes(2)) /\ TapePosition < WordMod \div 2
      <3>1. WordMod \div 2 \in Int
        BY <1>1
      <3> QED  BY <1>1, <1>3, <3>1, TapeNow DEF ReadSHORT
    <2>2. Tape!There(2) <=> Fits(2)
      BY <1>1, TapeLengths
    <2>3. Tape!Read(Tape!There(2), 2, Tape!Bytes(2))
      <3>1. CASE Fits(2)
        <4>1. ReadOf(2, Bytes(2)) /\ Bytes(2) = Tape!Bytes(2)
          BY <1>1, <2>1, <3>1, Fitting, TapeBytes DEF Read, ReadOf
        <4> QED  BY <1>1, <2>2, <3>1, <4>1, StepReads DEF Tape!Read
      <3>2. CASE ~Fits(2)
        BY <1>1, <2>1, <2>2, <3>2, StepIsNothing DEF Read, Tape!Read
      <3> QED  BY <3>1, <3>2
    <2> QED  BY <1>1, <2>1, <2>3, TapeNow DEF Tape!ReadSHORT
  <1> QED  BY <1>2, <1>3

LEMMA StringsRefine ==
    ASSUME DataInv, NEW n \in Lengths, ReadSTRING(n)
    PROVE  Tape!ReadSTRING(n)
  <1> DEFINE text == a_u8(lua_pushstring(Bytes(n)))
             ttext == a_u8(Tape!Text(Tape!Bytes(n)))
  <1>1. n \in Nat /\ Working /\ Asked("string", <<>>, n) /\ Read(n > 0 /\ Fits(n), n, text)
    BY Lua DEF ReadSTRING, Asked
  <1>2. (n > 0 /\ Tape!There(n)) <=> (n > 0 /\ Fits(n))
    BY <1>1, TapeLengths
  <1>3. Fits(n) => ttext = text
    BY <1>1, Fitting, TapeBytes, TapeText
  <1> HIDE DEF text, ttext
  <1>4. Tape!Read(n > 0 /\ Tape!There(n), n, ttext)
    <2>1. CASE n > 0 /\ Fits(n)
      <3>1. ReadOf(n, text)
        BY <1>1, <2>1, Fitting DEF Read, ReadOf
      <3> QED  BY <1>1, <1>2, <1>3, <2>1, <3>1, StepReads DEF Tape!Read
    <2>2. CASE ~(n > 0 /\ Fits(n))
      BY <1>1, <1>2, <2>2, StepIsNothing DEF Read, Tape!Read
    <2> QED  BY <2>1, <2>2
  <1> QED  BY <1>1, <1>4, TapeNow DEF Tape!ReadSTRING, ttext

LEMMA RestsRefine ==
    /\ DataInv /\ ReadRestSTRING => Tape!ReadRestSTRING
    /\ DataInv /\ ReadRestCHAR => Tape!ReadRestCHAR
  <1> DEFINE text == lua_pushstring(Bytes(Rest))
             ttext == Tape!Text(Tape!Bytes(Tape!Rest))
  <1>1. DataInv /\ Working => ttext = text /\ Tape!Rest = Rest /\ Rest \in Nat
    BY Fitting, TapeLengths, TapeBytes, TapeText
  <1>2. ASSUME DataInv, Working, Read(TRUE, Rest, text)
        PROVE  Tape!Read(TRUE, Tape!Rest, ttext)
    <2> HIDE DEF text, ttext
    <2>1. ReadOf(Rest, text)
      BY <1>2, Fitting DEF Read, ReadOf
    <2> QED  BY <1>1, <1>2, <2>1, StepReads
  <1>3. ASSUME DataInv, ReadRestSTRING
        PROVE  Tape!ReadRestSTRING
    <2>1. Working /\ Asked("rest string", <<>>, 0)
          /\ Read(m_wCurIndex < GetBufferLenght, Rest, text)
      BY <1>3 DEF ReadRestSTRING, Asked
    <2>2. (m_wCurIndex < GetBufferLenght) <=> (Tape!Rest > 0)
      BY <1>1, <1>3, <2>1, Fitting
    <2> HIDE DEF text, ttext
    <2>3. Tape!Read(Tape!Rest > 0, Tape!Rest, ttext)
      <3>1. CASE m_wCurIndex < GetBufferLenght
        BY <1>2, <1>3, <2>1, <2>2, <3>1 DEF Read, Tape!Read
      <3>2. CASE ~(m_wCurIndex < GetBufferLenght)
        BY <2>1, <2>2, <3>2, StepIsNothing DEF Read, Tape!Read
      <3> QED  BY <3>1, <3>2
    <2> QED  BY <2>1, <2>3, TapeNow DEF Tape!ReadRestSTRING, ttext
  <1>4. ASSUME DataInv, ReadRestCHAR
        PROVE  Tape!ReadRestCHAR
    <2>1. Working /\ Asked("rest char", <<>>, 0) /\ Read(Fits(0), Rest, text)
      BY <1>4 DEF ReadRestCHAR, Asked
    <2> HIDE DEF text, ttext
    <2>2. Tape!Read(TRUE, Tape!Rest, ttext)
      BY <1>2, <1>4, <2>1, Fitting DEF Read
    <2> QED  BY <2>1, <2>2, TapeNow DEF Tape!ReadRestCHAR, ttext
  <1> QED  BY <1>3, <1>4

LEMMA CharsRefine ==
    ASSUME DataInv, NEW n \in Lengths, ReadCHAR(n)
    PROVE  Tape!ReadCHAR(n) \/ Tape!Break("char", <<>>, n)
  <1> DEFINE len == IF n > 0 /\ Fits(n) THEN Rest ELSE n
             tlen == IF n > 0 /\ Tape!There(n) THEN Tape!Rest ELSE n
             tmost == IF TapeEnd = Tape!Endless THEN WordMod ELSE TapeEnd
  <1>1. /\ n \in Nat /\ Working /\ Asked("char", <<>>, n)
        /\ m_wCurIndex \in Nat /\ m_wMaxLenght \in Nat /\ m_wMaxLenght < WordMod
        /\ m_bAutoLen \in BOOLEAN /\ WordMod \in Nat /\ pushed \in Nat
        /\ m_wCurIndex <= m_wMaxLenght /\ pushed <= m_wMaxLenght /\ Rest \in Nat
        /\ m_wCurIndex + Rest <= m_wMaxLenght
    BY Lua, Lengths_, Fitting DEF ReadCHAR, Asked
  <1>2. tlen = len /\ len \in Nat
    BY <1>1, TapeLengths
  <1>3. CASE m_wCurIndex + len > m_wMaxLenght
    <2>1. Broken' /\ UNCHANGED packet
      BY <1>3 DEF ReadCHAR, Leaves, Broken
    <2>2. len = n
      BY <1>1, <1>3
    <2>3. Tape!Breaks("char", <<>>, n)
      <3> HIDE DEF len
      <3>1. m_wCurIndex + n > (IF TapeEnd = Tape!Endless THEN pushed ELSE TapeEnd)
        BY <1>1, <1>3, <2>2 DEF TapeEnd, Tape!Endless
      <3> QED  BY <1>1, <3>1, TapeNow DEF Tape!Breaks
    <2> QED  BY <1>1, <2>1, <2>3, StepBreaks DEF packet
  <1>4. CASE ~(m_wCurIndex + len > m_wMaxLenght)
    <2>1. Read(TRUE, len, lua_pushstring(Bytes(len)))
      BY <1>4 DEF ReadCHAR
    <2> HIDE DEF len, tlen
    <2>2. m_wCurIndex + len <= m_wMaxLenght
      BY <1>1, <1>2, <1>4
    <2>3. ReadOf(len, lua_pushstring(Bytes(len)))
      BY <1>2, <2>1, <2>2 DEF Read, ReadOf
    <2>4. Tape!Read(TRUE, tlen, Tape!Text(Tape!Bytes(tlen)))
      BY <1>1, <1>2, <2>2, <2>3, StepReads, TapeBytes, TapeText
    <2>5. TapePosition + tlen <= tmost
      BY <1>1, <1>2, <2>2, TapeNow DEF TapeEnd, Tape!Endless
    <2> QED  BY <1>1, <2>4, <2>5, TapeNow DEF Tape!ReadCHAR, tlen
  <1> QED  BY <1>3, <1>4

LEMMA TapeStep == DataInv /\ [CmdNext]_cmdVars => [Tape!Next]_(Tape!vars)
  <1> SUFFICES ASSUME DataInv, [CmdNext]_cmdVars
               PROVE  Tape!Next \/ UNCHANGED Tape!vars
    OBVIOUS
  <1>1. CASE UNCHANGED cmdVars
    BY <1>1 DEF cmdVars, packet, Tape!vars, TapeCells, TapePosition, TapeEnd, TapePushed,
                TapeGot, Broken, Word
  <1>2. Lengths \subseteq TapeAsks
    BY DEF TapeAsks
  <1>3. ASSUME NEW n \in Lengths, ReadValue(n) \/ ReadSTRING(n) \/ ReadCHAR(n)
        PROVE  Tape!Next
    <2>1. \/ Tape!ReadValue(n) \/ Tape!ReadSTRING(n) \/ Tape!ReadCHAR(n)
          \/ Tape!Break("char", <<>>, n)
      BY <1>3, ValuesRefine, StringsRefine, CharsRefine
    <2> QED  BY <1>2, <2>1 DEF Tape!Next
  <1>4. ASSUME ReadBOOL \/ ReadSHORT \/ ReadRestSTRING \/ ReadRestCHAR
        PROVE  Tape!Next
    BY <1>4, BoolRefines, ShortRefines, RestsRefine DEF Tape!Next
  <1>5. ASSUME ResetCurrentIndex PROVE Tape!Next
    <2>1. /\ Working /\ Asked("rewind", <<>>, 0) /\ m_wCurIndex' = 0 /\ got' = <<>>
          /\ UNCHANGED <<m_bAutoLen, m_wMaxLenght, m_pBuffer, pushed, over, fault>>
      BY <1>5 DEF ResetCurrentIndex, Asked
    <2>2. Tape!Rewind
      BY <2>1, StepKeeps, TapeNow DEF Tape!Rewind
    <2> QED  BY <2>2 DEF Tape!Next
  <1> QED  BY <1>1, <1>3, <1>4, <1>5, PushesRefine DEF CmdNext

\* A CCmd_Data is a tape to Lua, whatever its buffer does: what is asked for
\* decides whether it is done, refused or out of the packet's limits
\* (PushByteData and the toLua_Cmd_Data_ functions).
THEOREM PacketIsTape == CmdSpec => IsTape
  BY TapeInit, TapeStep, DataInvariant, PTL DEF CmdSpec, IsTape, Tape!Spec

=============================================================================
