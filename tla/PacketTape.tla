----------------------------- MODULE PacketTape -----------------------------
(***************************************************************************)
(* What a CCmd_Data promises Lua: a tape of bytes, all 0 at first, with a  *)
(* position.  A packet created with a length ends there; one created       *)
(* without has no end, and nothing behind its position to read.  Pushing   *)
(* writes at the position, reading reads there, and both move it, or do    *)
(* nothing at all when the bytes do not fit.  Which of them happens is     *)
(* settled by what was asked for.  Buffers, their growth and 16-bit        *)
(* lengths are not seen.  The calls of Breaks are outside the limits of    *)
(* the packet: they break it, and then nothing is promised.                *)
(***************************************************************************)
EXTENDS Integers, Sequences, FiniteSetsExt

CONSTANTS Payloads,          \* what is pushed
          Asks,              \* the lengths that are asked for
          Most,              \* the numbers of positions
          Limit,             \* what a packet without an end holds for certain
          DIGEST,            \* the size of a digest
          a_u8(_)            \* the conversion of texts to UTF-8

VARIABLES tape, position,
          end,               \* the length, or Endless
          pushed,            \* how far anything was pushed
          call,              \* what was asked for
          got,               \* what Lua got: nothing, or one result
          broken

vars == <<tape, position, end, pushed, call, got, broken>>

Endless == -1
Cells == 0 .. Most - 1
Blank == [i \in Cells |-> 0]

Room(n) == position + n <= (IF end = Endless THEN Limit ELSE end)
There(n) == end # Endless /\ position + n <= end
Rest == IF end = Endless THEN 0 ELSE end - position

Asked(op, data, n) == ~broken /\ call' = [op |-> op, data |-> data, len |-> n]

Init ==
    /\ tape = Blank /\ position = 0
    /\ end \in Cells \cup {Endless}
    /\ pushed = 0
    /\ call = [op |-> "create", data |-> <<>>, len |-> 0]
    /\ got = <<>> /\ broken = FALSE

Nothing == got' = <<>> /\ UNCHANGED <<tape, position, end, pushed, broken>>

-----------------------------------------------------------------------------
\* data is written, or the position moves on alone when there is none.
Push(op, data, n) ==
    /\ Asked(op, data, n)
    /\ n > 0 /\ Room(n)
    /\ tape' = [i \in Cells |-> IF i - position \in 0 .. Len(data) - 1
                                THEN data[i - position + 1] ELSE tape[i]]
    /\ position' = position + n
    /\ pushed' = IF position + n > pushed THEN position + n ELSE pushed
    /\ got' = <<>>
    /\ UNCHANGED <<end, broken>>

Refuse(op, data, n) ==
    /\ Asked(op, data, n)
    /\ n = 0 \/ (end # Endless /\ ~Room(n))
    /\ Nothing

Rewind ==
    /\ Asked("rewind", <<>>, 0)
    /\ position' = 0 /\ got' = <<>>
    /\ UNCHANGED <<tape, end, pushed, broken>>

Bytes(n) == [i \in 1 .. n |-> tape[position + i - 1]]

\* A text ends before its first 0.
Text(s) ==
    LET zeros == {i \in DOMAIN s : s[i] = 0}
    IN  IF zeros = {} THEN s ELSE SubSeq(s, 1, Min(zeros) - 1)

\* n bytes are read as result, if that is possible.
Read(possible, n, result) ==
    IF possible
    THEN /\ got' = <<result>> /\ position' = position + n
         /\ UNCHANGED <<tape, end, pushed, broken>>
    ELSE Nothing

ReadBOOL ==
    /\ Asked("bool", <<>>, 1)
    /\ Read(There(1), 1, IF tape[position] = 0 THEN 0 ELSE 1)

ReadValue(n) ==
    /\ Asked("value", <<>>, n) /\ n > 0
    /\ Read(There(n), n, Bytes(n))

ReadSHORT ==
    /\ Asked("short", <<>>, 2) /\ position < Most \div 2
    /\ Read(There(2), 2, Bytes(2))

\* The bytes are used up, whatever text is in them.
ReadSTRING(n) ==
    /\ Asked("string", <<>>, n)
    /\ Read(n > 0 /\ There(n), n, a_u8(Text(Bytes(n))))

ReadRestSTRING ==
    /\ Asked("rest string", <<>>, 0)
    /\ Read(Rest > 0, Rest, Text(Bytes(Rest)))

ReadRestCHAR ==
    /\ Asked("rest char", <<>>, 0)
    /\ Read(TRUE, Rest, Text(Bytes(Rest)))

\* With a length, all of the rest is read.
ReadCHAR(n) ==
    LET length == IF n > 0 /\ There(n) THEN Rest ELSE n IN
    /\ Asked("char", <<>>, n)
    /\ position + length <= (IF end = Endless THEN Most ELSE end)
    /\ Read(TRUE, length, Text(Bytes(length)))

\* A packet without an end holds Limit bytes; a digest needs its room; half of the
\* positions are too far for a short; and a text of n bytes must be there.
Breaks(op, data, n) ==
    \/ op \in {"push", "pushmd5"} /\ end = Endless /\ position + n > Limit
    \/ op = "pushmd5" /\ data # <<>> /\ n < DIGEST
    \/ op = "short" /\ position >= Most \div 2
    \/ op = "char" /\ position + n > (IF end = Endless THEN pushed ELSE end)

Break(op, data, n) ==
    /\ Asked(op, data, n) /\ Breaks(op, data, n)
    /\ broken' = TRUE
    /\ tape' = Blank /\ position' = 0 /\ pushed' = 0 /\ got' = <<>> /\ UNCHANGED end

Next ==
    \/ \E op \in {"push", "pushmd5"}, data \in Payloads \cup {<<>>}, n \in Asks :
          Push(op, data, n) \/ Refuse(op, data, n) \/ Break(op, data, n)
    \/ \E n \in Asks : ReadValue(n) \/ ReadSTRING(n) \/ ReadCHAR(n) \/ Break("char", <<>>, n)
    \/ Break("short", <<>>, 2)
    \/ ReadBOOL \/ ReadSHORT \/ ReadRestSTRING \/ ReadRestCHAR \/ Rewind

Spec == Init /\ [][Next]_vars
=============================================================================
