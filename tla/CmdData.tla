------------------------------ MODULE CmdData -------------------------------
(***************************************************************************)
(* CCmd_Data (Classes/common/CMD_Data.h and .cpp): the packet that Lua     *)
(* fills and reads through the functions toLua_Cmd_Data_*.  Lengths and    *)
(* cursor are WORDs, wrapping at WordMod.  A call that touches memory      *)
(* outside its buffers sets fault and ends the behaviour: anything may     *)
(* follow, so nothing is said of it.  A packet without a length is         *)
(* followed to the first push beyond Limit, that push included.            *)
(***************************************************************************)
EXTENDS Integers, Sequences, FiniteSetsExt

CONSTANTS WordMod,      \* the values of a WORD (65536)
          AUTO_LEN,     \* the first buffer of a packet created without a length (512)
          DIGEST,       \* the bytes EncryptData writes: 32 digits and a 0
          Byte,
          Sizes,        \* the lengths packets are created with
          Lengths,      \* the lengths Lua passes to pushstring, pushmd5 and the reads
          Payloads,     \* and the byte sequences, as pushed: see PushSTRING
          Limit,        \* how far packets created without a length are followed
          a_u8(_)       \* external: the text that iconv makes of one (LuaAssert.h)

ASSUME CmdDataAssumption ==
    /\ WordMod \in Nat /\ WordMod % 2 = 0
    /\ AUTO_LEN \in 1 .. Limit /\ DIGEST \in Nat
    /\ Byte \subseteq Nat /\ 0 \in Byte
    /\ Sizes \subseteq Nat /\ Lengths \subseteq 0 .. WordMod - 1
    /\ Payloads \subseteq Seq(Byte) /\ \A data \in Payloads : Len(data) < WordMod
    /\ <<>> \notin Payloads
    /\ Limit \in Nat /\ 4 * Limit < WordMod

VARIABLES
    m_bAutoLen, m_wMaxLenght, m_wCurIndex, m_pBuffer,
    pushed,     \* history: how far anything was pushed
    call,       \* history: what Lua asked for
    got,        \* what Lua got of it: nothing, or one result
    over,       \* a push has asked for more than Limit
    fault       \* the operation that left its buffer

packet == <<m_bAutoLen, m_wMaxLenght, m_wCurIndex, m_pBuffer>>
cmdVars == <<packet, pushed, call, got, over, fault>>

Working == fault = "none" /\ ~over

Word == 0 .. WordMod - 1
Faults == {"none", "push", "readshort", "readtchar", "pushmd5"}
Ops == {"create", "push", "pushmd5", "bool", "value", "short", "string", "rest string",
        "rest char", "char", "rewind"}

CmdTypeOK ==
    /\ m_bAutoLen \in BOOLEAN
    /\ m_wMaxLenght \in Word /\ m_wCurIndex \in Word
    /\ m_pBuffer \in [0 .. m_wMaxLenght - 1 -> Byte]
    /\ pushed \in Nat
    /\ call \in [op : Ops, data : Payloads \cup {<<>>}, len : Word]
    /\ got = <<>> \/ got = <<got[1]>>
    /\ over \in BOOLEAN /\ fault \in Faults

\* create(nLenght); the argument is cut to a WORD by the constructor.
Create(nLenght) ==
    LET size == IF nLenght % WordMod > 0 THEN nLenght % WordMod ELSE AUTO_LEN IN
    /\ m_bAutoLen = (nLenght % WordMod = 0)
    /\ m_wMaxLenght = size /\ m_wCurIndex = 0
    /\ m_pBuffer = [i \in 0 .. size - 1 |-> 0]
    /\ pushed = 0 /\ call = [op |-> "create", data |-> <<>>, len |-> 0]
    /\ got = <<>> /\ over = FALSE /\ fault = "none"

CmdInit == \E n \in Sizes : Create(n)

-----------------------------------------------------------------------------
GetBufferLenght == IF m_bAutoLen THEN m_wCurIndex ELSE m_wMaxLenght

Asked(op, data, n) == Working /\ call' = [op |-> op, data |-> data, len |-> n]

Leaves(op) == fault' = op /\ got' = <<>> /\ UNCHANGED <<packet, pushed>>

Nothing == got' = <<>> /\ UNCHANGED <<packet, pushed, over, fault>>

\* Variant: the old bytes stay behind.
Copied_Loses(size, data) ==
    [i \in 0 .. size - 1 |->
        IF i - m_wCurIndex \in 0 .. Len(data) - 1 THEN data[i - m_wCurIndex + 1]
        ELSE IF i < m_wMaxLenght /\ size = m_wMaxLenght THEN m_pBuffer[i] ELSE 0]

\* A buffer of size bytes, the old one copied into it, and data at the cursor.
Copied(size, data) ==
    [i \in 0 .. size - 1 |->
        IF i - m_wCurIndex \in 0 .. Len(data) - 1 THEN data[i - m_wCurIndex + 1]
        ELSE IF i < m_wMaxLenght THEN m_pBuffer[i] ELSE 0]

\* Variant: just too small for the new bytes.
Grown_OffByOne(wLenght) == (m_wCurIndex + wLenght - 1) % WordMod

\* Variant: the new length leaves the new bytes out.
Grown_Forgets(wLenght) == (m_wMaxLenght * 2) % WordMod

\* wNewLen, cut to a WORD.
Grown(wLenght) == ((m_wMaxLenght + wLenght) * 2) % WordMod

\* data is empty for NULL, and else has wLenght bytes.
PushByteData(data, wLenght) ==
    LET fits == m_wCurIndex + wLenght <= m_wMaxLenght
        size == IF fits THEN m_wMaxLenght ELSE Grown(wLenght)
        last == m_wCurIndex + Len(data)
    IN
    IF wLenght = 0 \/ (~fits /\ ~m_bAutoLen)
    THEN Nothing
    ELSE /\ over' = (m_bAutoLen /\ m_wCurIndex + wLenght > Limit)
         /\ IF size < m_wMaxLenght \/ (Len(data) > 0 /\ size < last)
            THEN Leaves("push")
            ELSE /\ m_wMaxLenght' = size
                 /\ m_pBuffer' = Copied(size, data)
                 /\ m_wCurIndex' = (m_wCurIndex + wLenght) % WordMod
                 /\ pushed' = IF m_wCurIndex + wLenght > pushed
                              THEN m_wCurIndex + wLenght ELSE pushed
                 /\ got' = <<>>
                 /\ UNCHANGED <<m_bAutoLen, fault>>

\* SetCurrentIndex ignores an index behind the buffer.
MovedTo(index) == IF index <= m_wMaxLenght THEN index ELSE m_wCurIndex

\* n bytes at the cursor; a reader behind its buffer's end returns what lies there.
Bytes(n) == [i \in 1 .. n |-> m_pBuffer[m_wCurIndex + i - 1]]

\* Lua gets a C string up to its first 0.
lua_pushstring(s) ==
    LET zeros == {i \in DOMAIN s : s[i] = 0}
    IN  IF zeros = {} THEN s ELSE SubSeq(s, 1, Min(zeros) - 1)

\* Every reader: n bytes are used up and Lua gets result, or the test fails.
Read(test, n, result) ==
    IF test
    THEN /\ got' = <<result>>
         /\ m_wCurIndex' = MovedTo((m_wCurIndex + n) % WordMod)
         /\ UNCHANGED <<m_bAutoLen, m_wMaxLenght, m_pBuffer, pushed, over, fault>>
    ELSE Nothing

Fits(n) == m_wCurIndex + n <= GetBufferLenght
Rest == GetBufferLenght - m_wCurIndex

-----------------------------------------------------------------------------
\* pushbool .. pushscore push a value of 1, 2, 4 or 8 bytes.
PushValue(data) == Asked("push", data, Len(data)) /\ PushByteData(data, Len(data))

\* pushstring(szData, wDstLen): as many bytes as asked for, from the string, its
\* terminator and whatever lies behind; an empty string only moves the cursor.
PushSTRING(data, wDstLen) ==
    /\ Asked("push", data, wDstLen)
    /\ data = <<>> \/ Len(data) = wDstLen
    /\ PushByteData(data, wDstLen)

\* pushmd5: EncryptData writes the digest whatever wDstLen is; what follows it
\* in a longer one was never initialised.
PushMD5(data, wDstLen) ==
    /\ Asked("pushmd5", data, wDstLen)
    /\ data = <<>> \/ Len(data) = wDstLen
    /\ IF data # <<>> /\ wDstLen < DIGEST
       THEN Leaves("pushmd5") /\ UNCHANGED over
       ELSE PushByteData(data, wDstLen)

\* readbool: any byte but 0 is true.
ReadBOOL ==
    /\ Asked("bool", <<>>, 1)
    /\ Read(Fits(1), 1, IF m_pBuffer[m_wCurIndex] = 0 THEN 0 ELSE 1)

\* readbyte .. readscore but readshort: n bytes or nothing.
ReadValue(n) ==
    /\ Asked("value", <<>>, n) /\ n > 0
    /\ Read(Fits(n), n, Bytes(n))

\* readshort: its cursor is a SHORT, negative from the middle of a WORD on.
ReadSHORT ==
    /\ Asked("short", <<>>, 2)
    /\ IF m_wCurIndex >= WordMod \div 2
       THEN Leaves("readshort") /\ UNCHANGED over
       ELSE Read(Fits(2), 2, Bytes(2))

\* readstring(n): the text in n bytes, converted, or nothing.
ReadSTRING(n) ==
    /\ Asked("string", <<>>, n)
    /\ Read(n > 0 /\ Fits(n), n, a_u8(lua_pushstring(Bytes(n))))

\* readstring() and readtchar(): the text in the rest, which may be empty for
\* readtchar.
ReadRestSTRING ==
    /\ Asked("rest string", <<>>, 0)
    /\ Read(m_wCurIndex < GetBufferLenght, Rest, lua_pushstring(Bytes(Rest)))

ReadRestCHAR ==
    /\ Asked("rest char", <<>>, 0)
    /\ Read(Fits(0), Rest, lua_pushstring(Bytes(Rest)))

\* readtchar(n): the rest when n bytes are there, and n bytes when they are not.
ReadCHAR(n) ==
    LET wMaxLen == IF n > 0 /\ Fits(n) THEN Rest ELSE n IN
    /\ Asked("char", <<>>, n)
    /\ IF m_wCurIndex + wMaxLen > m_wMaxLenght
       THEN Leaves("readtchar") /\ UNCHANGED over
       ELSE Read(TRUE, wMaxLen, lua_pushstring(Bytes(wMaxLen)))

\* resetread
ResetCurrentIndex ==
    /\ Asked("rewind", <<>>, 0)
    /\ m_wCurIndex' = 0 /\ got' = <<>>
    /\ UNCHANGED <<m_bAutoLen, m_wMaxLenght, m_pBuffer, pushed, over, fault>>

CmdNext ==
    \/ \E data \in Payloads : PushValue(data)
    \/ \E data \in Payloads \cup {<<>>}, n \in Lengths :
          PushSTRING(data, n) \/ PushMD5(data, n)
    \/ \E n \in Lengths : ReadValue(n) \/ ReadSTRING(n) \/ ReadCHAR(n)
    \/ ReadBOOL \/ ReadSHORT \/ ReadRestSTRING \/ ReadRestCHAR \/ ResetCurrentIndex

CmdSpec == CmdInit /\ [][CmdNext]_cmdVars

-----------------------------------------------------------------------------
\* However a packet grew, rewound and was read, its cursor is in its buffer as
\* long as no push has asked for more than Limit bytes (SetCurrentIndex and
\* PushByteData; wNewLen is a WORD).
CursorInBuffer == ~over => m_wCurIndex <= m_wMaxLenght

\* A push within Limit never writes outside the buffer, and the buffer takes
\* less than four times Limit (PushByteData).
GrowthIsSafe ==
    /\ fault = "push" => over
    /\ m_bAutoLen /\ ~over => m_wMaxLenght < 4 * Limit

\* The contract of a packet.
Broken == fault # "none" \/ over

TapeCells == [i \in Word |-> IF ~Broken /\ i < m_wMaxLenght THEN m_pBuffer[i] ELSE 0]
TapePosition == IF Broken THEN 0 ELSE m_wCurIndex
TapeEnd == IF m_bAutoLen THEN -1 ELSE m_wMaxLenght
TapePushed == IF Broken THEN 0 ELSE pushed
TapeGot == IF Broken THEN <<>> ELSE got

TapeAsks == Lengths \cup {Len(data) : data \in Payloads}

Tape == INSTANCE PacketTape WITH
    Most <- WordMod, Asks <- TapeAsks, tape <- TapeCells, position <- TapePosition,
    end <- TapeEnd, pushed <- TapePushed, got <- TapeGot, broken <- Broken

\* Lua sees a tape: what it pushed is where it pushed it, however often the
\* buffer grew in between, untouched bytes are 0, a text ends at its first 0 and
\* yet all its bytes are used up, and a call fails only for want of room, and then
\* changes nothing (PushByteData and the toLua_Cmd_Data_ functions).
IsTape == Tape!Spec

=============================================================================
