------------------------------- MODULE Base64 -------------------------------
(***************************************************************************)
(* base64 as Lua uses it through Client (Client.cpp, common/base64.cpp):   *)
(* the loops that take one byte or one character at a time, collect a      *)
(* group, and treat the last, incomplete group on their own. A character   *)
(* of a text is its number in base64_chars, Pad or Foreign.                *)
(***************************************************************************)
EXTENDS Integers, Sequences, SequencesExt, FiniteSetsExt

CONSTANTS Bytes,       \* the byte values Lua encodes
          Digits,      \* the characters of texts that Lua decodes
          MaxBytes,    \* bound: bytes of a string to encode
          MaxText      \* bound: characters of a text to decode

Base64Assumption ==
    /\ Bytes \subseteq 0 .. 255 /\ Digits \subseteq 0 .. 63
    /\ MaxBytes \in Nat /\ MaxText \in Nat

VARIABLES
    pc,          \* the function that runs, or has returned
    argument,    \* the string it was given
    in_,         \* how much of it was taken
    char_array,  \* the group that is being collected: char_array_3 or char_array_4
    ret,         \* the string it appends to and returns
    encoded      \* the string whose encoding Lua holds, with that encoding

vars == <<pc, argument, in_, char_array, ret, encoded>>

Pad == 64                       \* '='
Foreign == 65                   \* any character that is neither
npos == 255                     \* base64_chars.find of a zero, as a byte
Texts == BoundedSeq(Digits \cup {Pad, Foreign}, MaxText)
Nothing == [string |-> <<>>, text |-> <<>>]

TypeOK ==
    /\ pc \in {"idle", "encode", "encoded", "decode", "decoded"}
    /\ in_ \in 0 .. Len(argument)
    /\ char_array \in Seq(IF pc = "encode" THEN 0 .. 255 ELSE 0 .. 63)
    /\ Len(char_array) < IF pc = "encode" THEN 3 ELSE 4
    /\ \A k \in 1 .. Len(ret) : ret[k] \in 0 .. 255

Init ==
    /\ pc = "idle"
    /\ argument = <<>> /\ in_ = 0 /\ char_array = <<>> /\ ret = <<>>
    /\ encoded = Nothing

-----------------------------------------------------------------------------
\* Three bytes as four characters.
Chars4(a) ==
    <<a[1] \div 4, (a[1] % 4) * 16 + (a[2] \div 16),
      (a[2] % 16) * 4 + (a[3] \div 64), a[3] % 64>>

\* Four characters as three bytes. The sums are stored in bytes.
Bytes3(a) ==
    <<(a[1] * 4 + ((a[2] \div 16) % 4)) % 256,
      ((a[2] % 16) * 16 + ((a[3] \div 4) % 16)) % 256,
      ((a[3] % 4) * 64 + a[4]) % 256>>

is_base64_string(s) ==
    Len(s) % 4 = 0 /\ \A k \in 1 .. Len(s) : s[k] # Foreign

IsGroup(a, n) == Len(a) = n

-----------------------------------------------------------------------------
base64Encode(str) ==
    /\ pc = "idle"
    /\ pc' = IF Len(str) > 0 THEN "encode" ELSE "encoded"
    /\ argument' = str
    /\ UNCHANGED <<in_, char_array, ret, encoded>>

EncodeByte ==
    /\ pc = "encode" /\ in_ < Len(argument)
    /\ in_' = in_ + 1
    /\ LET i == Append(char_array, argument[in_ + 1]) IN
         IF IsGroup(i, 3)
         THEN char_array' = <<>> /\ ret' = ret \o Chars4(i)
         ELSE char_array' = i /\ UNCHANGED ret
    /\ UNCHANGED <<pc, argument, encoded>>

\* The rest of one or two bytes, and the end of the call.
EncodeTail ==
    /\ pc = "encode" /\ in_ = Len(argument)
    /\ LET i == Len(char_array)
           whole == char_array \o [k \in 1 .. 3 - i |-> 0]
       IN  ret' = IF i = 0 THEN ret
                  ELSE ret \o SubSeq(Chars4(whole), 1, i + 1) \o [k \in 1 .. 3 - i |-> Pad]
    /\ encoded' = [string |-> argument, text |-> ret']
    /\ pc' = "encoded" /\ char_array' = <<>>
    /\ UNCHANGED <<argument, in_>>

\* Any text, or the one that Lua was given just now.
base64Decode(str) ==
    /\ pc = "idle" \/ (pc = "encoded" /\ str = encoded.text)
    /\ pc' = IF is_base64_string(str) THEN "decode" ELSE "decoded"
    /\ argument' = str /\ in_' = 0 /\ char_array' = <<>> /\ ret' = <<>>
    /\ UNCHANGED encoded

AtDigit == in_ < Len(argument) /\ argument[in_ + 1] < Pad

DecodeChar ==
    /\ pc = "decode" /\ AtDigit
    /\ in_' = in_ + 1
    /\ LET i == Append(char_array, argument[in_ + 1]) IN
         IF IsGroup(i, 4)
         THEN char_array' = <<>> /\ ret' = ret \o Bytes3(i)
         ELSE char_array' = i /\ UNCHANGED ret
    /\ UNCHANGED <<pc, argument, encoded>>

\* Variant: as many bytes as characters.
DecodeTail_Long ==
    /\ pc = "decode" /\ ~AtDigit
    /\ LET i == Len(char_array)
           whole == char_array \o [k \in 1 .. 4 - i |-> npos]
       IN  ret' = ret \o SubSeq(Bytes3(whole), 1, i)
    /\ pc' = "decoded" /\ char_array' = <<>>
    /\ UNCHANGED <<argument, in_, encoded>>

\* The rest of up to three characters. The missing ones are looked up too, as zero
\* bytes that base64_chars does not have.
DecodeTail ==
    /\ pc = "decode" /\ ~AtDigit
    /\ LET i == Len(char_array)
           whole == char_array \o [k \in 1 .. 4 - i |-> npos]
       IN  ret' = ret \o SubSeq(Bytes3(whole), 1, i - 1)
    /\ pc' = "decoded" /\ char_array' = <<>>
    /\ UNCHANGED <<argument, in_, encoded>>

Next ==
    \/ \E str \in BoundedSeq(Bytes, MaxBytes) : base64Encode(str)
    \/ \E str \in IF pc = "idle" THEN Texts ELSE {encoded.text} : base64Decode(str)
    \/ EncodeByte \/ EncodeTail \/ DecodeChar \/ DecodeTail

Spec == Init /\ [][Next]_vars

-----------------------------------------------------------------------------
\* What RFC 4648 says: a string of bytes, or of characters, is a string of bits.
Weight == <<128, 64, 32, 16, 8, 4, 2, 1>>
Bit(n, width, k) == (n \div Weight[8 - width + k]) % 2
Bits(s, width) ==
    [k \in 1 .. width * Len(s) |->
        Bit(s[(k - 1) \div width + 1], width, ((k - 1) % width) + 1)]

\* The characters up to the first '='.
DigitsOf(s) == SubSeq(s, 1, Min({Len(s)} \cup {k - 1 : k \in {j \in 1 .. Len(s) : s[j] = Pad}}))

\* What Lua is given for a string: the string's bits, filled up with zeros to a
\* whole character, in a text that isBase64String accepts (base64_encode,
\* is_base64_string).
EncodedIsAccepted ==
    pc = "encoded" =>
        LET digits == Bits(DigitsOf(ret), 6)
            bits == Bits(argument, 8)
        IN  /\ is_base64_string(ret)
            /\ Len(digits) - Len(bits) \in {0, 2, 4}
            /\ \A k \in 1 .. Len(digits) :
                   digits[k] = IF k <= Len(bits) THEN bits[k] ELSE 0

\* Whatever text Lua decodes, wherever its '=' stand: all along the loop the result
\* holds the bits of the groups that were taken, and at the end every whole byte of
\* the characters before the first '=', and nothing of what the missing characters
\* of the last group were looked up as; a text that is not accepted gives nothing
\* (base64_decode, Client::base64Decode).
DecodedIsThePrefix ==
    pc \in {"decode", "decoded"} =>
        LET digits == DigitsOf(argument)
            whole == CASE ~is_base64_string(argument) -> 0
                       [] pc = "decode" -> 3 * (in_ \div 4)
                       [] OTHER -> (6 * Len(digits)) \div 8
        IN  /\ Len(ret) = whole
            /\ \A k \in 1 .. 8 * whole : Bits(ret, 8)[k] = Bits(digits, 6)[k]

\* Decoding gives back what was encoded (Client::base64Encode, base64Decode).
ReadsBack == pc = "decoded" /\ argument = encoded.text => ret = encoded.string
=============================================================================
