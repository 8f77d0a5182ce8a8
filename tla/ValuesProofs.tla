---------------------------- MODULE ValuesProofs ----------------------------
(***************************************************************************)
(* Proofs about the values Lua computes with.  What is encoded in base64   *)
(* is accepted and reads back, and decoding gives the whole bytes before   *)
(* the first '=', for strings of any length over any bytes and characters. *)
(* A message that comes to an MD5 in pieces of any length is transformed   *)
(* once and in order, for blocks of any size and words of any width.       *)
(* Integers compute modulo the size, in any width of whole digits in base  *)
(* 16, and their strings read back.                                        *)
(***************************************************************************)
EXTENDS MCValues, Sequences, FiniteSetsExt, WellFoundedInduction, TLAPS

-----------------------------------------------------------------------------
(* What the loops of base64.cpp have built.                                  *)

Octets == 0 .. 255
Sextets == 0 .. 63
Alphabet == 0 .. 64
Characters == 0 .. 65

\* Byte i of a string to encode, or the zero that fills up its last group.
ByteAt(s, i) == IF i <= Len(s) THEN s[i] ELSE 0
Three(s, g) == <<ByteAt(s, 3 * g + 1), ByteAt(s, 3 * g + 2), ByteAt(s, 3 * g + 3)>>

\* Character n of the encoding of s.
CharAt(s, n) ==
    LET g == (n - 1) \div 4
        j == (n - 1) % 4
    IN  IF 3 * g + j <= Len(s) THEN Text!Chars4(Three(s, g))[j + 1] ELSE Text!Pad

IsEncoding(s, t) ==
    /\ Len(t) = 4 * ((Len(s) + 2) \div 3)
    /\ \A n \in 1 .. Len(t) : t[n] = CharAt(s, n)

\* The first m characters of the encoding, and the four of group g.
CharsAre(s, t, m) ==
    /\ t \in Seq(Octets) /\ Len(t) = m
    /\ \A n \in 1 .. Len(t) : t[n] = CharAt(s, n)

GroupIs(s, g, c) ==
    /\ c \in Seq(Octets) /\ Len(c) = 4
    /\ \A j \in 0 .. 3 : c[j + 1] = CharAt(s, 4 * g + j + 1)

\* Byte j of a group of characters is made of two of them.
ByteOf(j, x, y) ==
    CASE j = 0 -> (x * 4 + ((y \div 16) % 4)) % 256
      [] j = 1 -> ((x % 16) * 16 + ((y \div 4) % 16)) % 256
      [] j = 2 -> ((x % 4) * 64 + y) % 256

\* Byte n of what s decodes to.
DecodedByte(s, n) ==
    LET g == (n - 1) \div 3
        j == (n - 1) % 3
    IN  ByteOf(j, s[4 * g + j + 1], s[4 * g + j + 2])

\* The l bytes that follow the first m.
BytesFrom(s, m, t, l) ==
    /\ t \in Seq(Octets) /\ Len(t) = l
    /\ \A n \in 1 .. l : t[n] = DecodedByte(s, m + n)

\* The group that is being collected is what was taken last.
Collected(w) ==
    /\ Len(char_array) = in_ % w
    /\ \A k \in 1 .. Len(char_array) : char_array[k] = argument[w * (in_ \div w) + k]

Encoding ==
    /\ Collected(3)
    /\ Len(ret) = 4 * (in_ \div 3)
    /\ \A n \in 1 .. Len(ret) : ret[n] = CharAt(argument, n)

DigitsTaken == \A k \in 1 .. in_ : argument[k] \in Sextets
BytesAre(m) == Len(ret) = m /\ \A n \in 1 .. m : ret[n] = DecodedByte(argument, n)

Decoding ==
    /\ Text!is_base64_string(argument)
    /\ Collected(4) /\ DigitsTaken /\ BytesAre(3 * (in_ \div 4))

Decoded ==
    /\ Text!is_base64_string(argument) =>
        /\ DigitsTaken /\ BytesAre((6 * in_) \div 8)
        /\ in_ = Len(argument) \/ argument[in_ + 1] = Text!Pad
    /\ ~Text!is_base64_string(argument) => ret = <<>>

\* What Lua holds is an encoding, whatever was done since.
Held ==
    /\ encoded.string \in Seq(Octets) /\ encoded.text \in Seq(Alphabet)
    /\ IsEncoding(encoded.string, encoded.text)

TextTypes ==
    /\ pc \in {"idle", "encode", "encoded", "decode", "decoded"}
    /\ argument \in Seq(IF pc \in {"decode", "decoded"} THEN Characters ELSE Octets)
    /\ in_ \in 0 .. Len(argument)
    /\ char_array \in Seq(IF pc = "encode" THEN Octets ELSE Sextets)
    /\ ret \in Seq(Octets)

TextInv ==
    /\ TextTypes /\ Held
    /\ pc = "idle" => in_ = 0 /\ ret = <<>> /\ encoded = Text!Nothing
    /\ pc \notin {"encode", "decode"} => char_array = <<>>
    /\ pc = "encode" => Encoding
    /\ pc = "encoded" => encoded = [string |-> argument, text |-> ret]
    /\ pc = "decode" => Decoding
    /\ pc = "decoded" => Decoded

-----------------------------------------------------------------------------
(* The smallest number of a set, and the bits of bytes.                      *)

\* A set of natural numbers has a smallest one.
LEMMA HasMin ==
  ASSUME NEW S, S \subseteq Nat, S # {}
  PROVE  Min(S) \in S /\ \A m \in S : Min(S) <= m
<1> DEFINE less == {ss \in Nat \X Nat : ss[1] < ss[2]}
<1>1. OpToRel(<, Nat) = less
  BY Zenon DEF OpToRel
<1>2. IsWellFoundedOn(less, Nat)
  BY <1>1, NatLessThanWellFounded
<1>3. PICK n \in S : \A m \in S : ~(<<m, n>> \in less)
  BY <1>2, WFMin, Zenon
<1>4. ASSUME NEW m \in S
      PROVE  n <= m
  <2> DEFINE p == <<m, n>>
  <2>1. p \in Nat \X Nat /\ p[1] = m /\ p[2] = n
    OBVIOUS
  <2>2. p \in less <=> m < n
    <3> HIDE DEF p
    <3>1. QED
      BY <2>1
  <2>3. ~(p \in less)
    BY <1>3, Zenon
  <2>4. QED
    BY <2>2, <2>3
<1>5. QED
  BY <1>4 DEF Min

\* Bytes are bits that change their grouping.
LEMMA GroupBits ==
  ASSUME NEW x \in Octets, NEW y \in Octets, NEW z \in Octets, NEW r \in 0 .. 23
  PROVE  LET a == <<x, y, z>> IN
           Text!Bit(Text!Chars4(a)[(r \div 6) + 1], 6, (r % 6) + 1)
             = Text!Bit(a[(r \div 8) + 1], 8, (r % 8) + 1)
<1> USE DEF Octets, Text!Bit, Text!Weight, Text!Chars4
<1>1. CASE r = 0 BY <1>1, SMTT(30)
<1>2. CASE r = 1 BY <1>2, SMTT(30)
<1>3. CASE r = 2 BY <1>3, SMTT(30)
<1>4. CASE r = 3 BY <1>4, SMTT(30)
<1>5. CASE r = 4 BY <1>5, SMTT(30)
<1>6. CASE r = 5 BY <1>6, SMTT(30)
<1>7. CASE r = 6 BY <1>7, SMTT(30)
<1>8. CASE r = 7 BY <1>8, SMTT(30)
<1>9. CASE r = 8 BY <1>9, SMTT(30)
<1>10. CASE r = 9 BY <1>10, SMTT(30)
<1>11. CASE r = 10 BY <1>11, SMTT(30)
<1>12. CASE r = 11 BY <1>12, SMTT(30)
<1>13. CASE r = 12 BY <1>13, SMTT(30)
<1>14. CASE r = 13 BY <1>14, SMTT(30)
<1>15. CASE r = 14 BY <1>15, SMTT(30)
<1>16. CASE r = 15 BY <1>16, SMTT(30)
<1>17. CASE r = 16 BY <1>17, SMTT(30)
<1>18. CASE r = 17 BY <1>18, SMTT(30)
<1>19. CASE r = 18 BY <1>19, SMTT(30)
<1>20. CASE r = 19 BY <1>20, SMTT(30)
<1>21. CASE r = 20 BY <1>21, SMTT(30)
<1>22. CASE r = 21 BY <1>22, SMTT(30)
<1>23. CASE r = 22 BY <1>23, SMTT(30)
<1>24. CASE r = 23 BY <1>24, SMTT(30)
<1>25. QED
  BY <1>1, <1>2, <1>3, <1>4, <1>5, <1>6, <1>7, <1>8, <1>9, <1>10, <1>11, <1>12,
     <1>13, <1>14, <1>15, <1>16, <1>17, <1>18, <1>19, <1>20, <1>21, <1>22, <1>23, <1>24

\* The same the other way: the bits of a byte are those of its two characters.
LEMMA ByteBits ==
  ASSUME NEW x \in Sextets, NEW y \in Sextets, NEW j \in 0 .. 2, NEW k \in 0 .. 7
  PROVE  LET r == 8 * j + k IN
           Text!Bit(ByteOf(j, x, y), 8, k + 1)
             = Text!Bit(IF r \div 6 = j THEN x ELSE y, 6, (r % 6) + 1)
<1> USE DEF Sextets, Text!Bit, Text!Weight, ByteOf
<1>1. CASE j = 0 /\ k = 0 BY <1>1
<1>2. CASE j = 0 /\ k = 1 BY <1>2
<1>3. CASE j = 0 /\ k = 2 BY <1>3
<1>4. CASE j = 0 /\ k = 3 BY <1>4
<1>5. CASE j = 0 /\ k = 4 BY <1>5
<1>6. CASE j = 0 /\ k = 5 BY <1>6
<1>7. CASE j = 0 /\ k = 6 BY <1>7
<1>8. CASE j = 0 /\ k = 7 BY <1>8
<1>9. CASE j = 1 /\ k = 0 BY <1>9
<1>10. CASE j = 1 /\ k = 1 BY <1>10
<1>11. CASE j = 1 /\ k = 2 BY <1>11
<1>12. CASE j = 1 /\ k = 3 BY <1>12
<1>13. CASE j = 1 /\ k = 4 BY <1>13
<1>14. CASE j = 1 /\ k = 5 BY <1>14
<1>15. CASE j = 1 /\ k = 6 BY <1>15
<1>16. CASE j = 1 /\ k = 7 BY <1>16
<1>17. CASE j = 2 /\ k = 0 BY <1>17
<1>18. CASE j = 2 /\ k = 1 BY <1>18
<1>19. CASE j = 2 /\ k = 2 BY <1>19
<1>20. CASE j = 2 /\ k = 3 BY <1>20
<1>21. CASE j = 2 /\ k = 4 BY <1>21
<1>22. CASE j = 2 /\ k = 5 BY <1>22
<1>23. CASE j = 2 /\ k = 6 BY <1>23
<1>24. CASE j = 2 /\ k = 7 BY <1>24
<1>25. QED
  BY <1>1, <1>2, <1>3, <1>4, <1>5, <1>6, <1>7, <1>8, <1>9, <1>10, <1>11, <1>12,
     <1>13, <1>14, <1>15, <1>16, <1>17, <1>18, <1>19, <1>20, <1>21, <1>22, <1>23, <1>24

LEMMA ByteTypes ==
  ASSUME NEW x \in Sextets, NEW y \in Sextets, NEW j \in 0 .. 2
  PROVE  ByteOf(j, x, y) \in Octets
BY DEF ByteOf, Sextets, Octets

\* A group of characters is decoded into bytes of two characters each, of which
\* the last byte may be made of what is none.
LEMMA DecodedGroup ==
  ASSUME NEW a, NEW b, NEW c, NEW d
  PROVE  Text!Bytes3(<<a, b, c, d>>) = <<ByteOf(0, a, b), ByteOf(1, b, c), ByteOf(2, c, d)>>
BY DEF Text!Bytes3, ByteOf

\* A group that was encoded decodes to its bytes.
LEMMA GroupReadsBack ==
  ASSUME NEW x \in Octets, NEW y \in Octets, NEW z \in Octets, NEW j \in 0 .. 2
  PROVE  LET c == Text!Chars4(<<x, y, z>>) IN
           /\ ByteOf(j, c[j + 1], c[j + 2]) = <<x, y, z>>[j + 1]
           /\ c[1] \in Sextets /\ c[2] \in Sextets /\ c[3] \in Sextets /\ c[4] \in Sextets
<1> USE DEF Octets, Sextets, Text!Chars4, ByteOf
<1>1. CASE j = 0
  BY <1>1
<1>2. CASE j = 1
  BY <1>2
<1>3. CASE j = 2
  BY <1>3
<1>4. QED
  BY <1>1, <1>2, <1>3

-----------------------------------------------------------------------------
(* Texts                                                                     *)

\* The characters before the first '=', which may be all.
LEMMA DigitsAre ==
  ASSUME NEW s \in Seq(Characters), NEW d \in 0 .. Len(s),
         \A k \in 1 .. d : s[k] # Text!Pad,
         d = Len(s) \/ s[d + 1] = Text!Pad
  PROVE  Text!DigitsOf(s) = SubSeq(s, 1, d)
<1> DEFINE ends == {Len(s)} \cup {k - 1 : k \in {j \in 1 .. Len(s) : s[j] = Text!Pad}}
<1>1. Len(s) \in Nat /\ ends \subseteq Nat /\ ends # {}
  OBVIOUS
<1>2. d \in ends
  OBVIOUS
<1>3. \A e \in ends : d <= e
  <2>1. \A k \in 1 .. Len(s) : s[k] = Text!Pad => d <= k - 1
    OBVIOUS
  <2>2. QED
    BY <2>1
<1>4. Min(ends) = d
  <2>1. Min(ends) \in ends /\ \A e \in ends : Min(ends) <= e
    BY <1>1, HasMin
  <2> HIDE DEF ends
  <2>2. Min(ends) <= d /\ d <= Min(ends) /\ Min(ends) \in Nat
    BY <1>1, <1>2, <1>3, <2>1
  <2>3. QED
    BY <2>2
<1>5. Text!Min(ends) = Min(ends)
  BY DEF Text!Min, Min
<1>6. QED
  BY <1>4, <1>5 DEF Text!DigitsOf

\* There always is such a place.
LEMMA DigitsExist ==
  ASSUME NEW s \in Seq(Characters)
  PROVE  \E d \in 0 .. Len(s) :
            /\ \A k \in 1 .. d : s[k] # Text!Pad
            /\ d = Len(s) \/ s[d + 1] = Text!Pad
<1> DEFINE ends == {e \in 0 .. Len(s) : e = Len(s) \/ s[e + 1] = Text!Pad}
<1>1. Len(s) \in Nat /\ ends \subseteq Nat /\ Len(s) \in ends
  OBVIOUS
<1>2. Min(ends) \in ends /\ \A e \in ends : Min(ends) <= e
  BY <1>1, HasMin
<1>3. Min(ends) \in 0 .. Len(s) /\ (Min(ends) = Len(s) \/ s[Min(ends) + 1] = Text!Pad)
  BY <1>2
<1>4. ASSUME NEW k \in 1 .. Min(ends), s[k] = Text!Pad
      PROVE  FALSE
  <2>1. k - 1 \in ends
    BY <1>1, <1>3, <1>4
  <2>2. Min(ends) <= k - 1
    BY <1>2, <2>1
  <2> HIDE DEF ends
  <2>3. QED
    BY <1>1, <1>3, <2>2
<1>5. QED
  BY <1>3, <1>4

\* Where bit q of a text stands in its group.
LEMMA PlaceOfBit ==
  ASSUME NEW q \in Nat
  PROVE  LET g == q \div 24
             r == q % 24
         IN  /\ g \in Nat /\ r \in 0 .. 23 /\ q = 24 * g + r
             /\ q \div 6 = 4 * g + (r \div 6) /\ q % 6 = r % 6
             /\ q \div 8 = 3 * g + (r \div 8) /\ q % 8 = r % 8
OBVIOUS

-----------------------------------------------------------------------------
(* Encodings                                                                 *)

DigitCount(s) == (4 * Len(s) + 2) \div 3

LEMMA ThreeTypes ==
  ASSUME NEW s \in Seq(Octets), NEW g \in Nat
  PROVE  /\ \A i \in Nat \ {0} : ByteAt(s, i) \in Octets
         /\ Three(s, g) = <<ByteAt(s, 3 * g + 1), ByteAt(s, 3 * g + 2), ByteAt(s, 3 * g + 3)>>
         /\ \A j \in 0 .. 2 : Three(s, g)[j + 1] = ByteAt(s, 3 * g + j + 1)
<1>1. ASSUME NEW i \in Nat \ {0}
      PROVE  ByteAt(s, i) \in Octets
  <2>1. i <= Len(s) => s[i] \in Octets
    OBVIOUS
  <2>2. 0 \in Octets
    BY DEF Octets
  <2>3. QED
    BY <2>1, <2>2 DEF ByteAt
<1>2. Three(s, g) = <<ByteAt(s, 3 * g + 1), ByteAt(s, 3 * g + 2), ByteAt(s, 3 * g + 3)>>
  BY DEF Three
<1>3. ASSUME NEW j \in 0 .. 2
      PROVE  Three(s, g)[j + 1] = ByteAt(s, 3 * g + j + 1)
  <2>1. CASE j = 0 BY <1>2, <2>1
  <2>2. CASE j = 1 BY <1>2, <2>2
  <2>3. CASE j = 2 BY <1>2, <2>3
  <2>4. QED
    BY <2>1, <2>2, <2>3
<1>4. QED
  BY <1>1, <1>2, <1>3

\* Character 4 * g + j + 1 of an encoding.
LEMMA CharOfGroup ==
  ASSUME NEW s \in Seq(Octets), NEW g \in Nat, NEW j \in 0 .. 3
  PROVE  LET c == CharAt(s, 4 * g + j + 1) IN
           IF 3 * g + j <= Len(s) THEN c = Text!Chars4(Three(s, g))[j + 1] /\ c \in Sextets
           ELSE c = Text!Pad
<1>1. (4 * g + j + 1 - 1) \div 4 = g /\ (4 * g + j + 1 - 1) % 4 = j
  OBVIOUS
<1>2. CharAt(s, 4 * g + j + 1) = IF 3 * g + j <= Len(s)
                                 THEN Text!Chars4(Three(s, g))[j + 1] ELSE Text!Pad
  BY <1>1 DEF CharAt
<1>3. Text!Chars4(Three(s, g))[j + 1] \in Sextets
  <2>1. /\ ByteAt(s, 3 * g + 1) \in Octets /\ ByteAt(s, 3 * g + 2) \in Octets
        /\ ByteAt(s, 3 * g + 3) \in Octets
    <3>1. 3 * g + 1 \in Nat \ {0} /\ 3 * g + 2 \in Nat \ {0} /\ 3 * g + 3 \in Nat \ {0}
      OBVIOUS
    <3>2. QED
      BY <3>1, ThreeTypes
  <2>2. LET c == Text!Chars4(Three(s, g)) IN
          c[1] \in Sextets /\ c[2] \in Sextets /\ c[3] \in Sextets /\ c[4] \in Sextets
    BY <2>1, GroupReadsBack DEF Three
  <2>3. j + 1 \in {1, 2, 3, 4}
    OBVIOUS
  <2>4. QED
    BY <2>2, <2>3
<1>4. QED
  BY <1>2, <1>3

\* Where character n of an encoding stands.
LEMMA PlaceOfChar ==
  ASSUME NEW s \in Seq(Octets), NEW n \in 1 .. 4 * ((Len(s) + 2) \div 3)
  PROVE  \E g \in Nat, j \in 0 .. 3 :
            /\ n = 4 * g + j + 1 /\ 3 * g < Len(s)
            /\ 3 * g + j <= Len(s) <=> n <= DigitCount(s)
<1>1. Len(s) \in Nat
  OBVIOUS
<1>2. PICK g \in Nat, j \in 0 .. 3 : n = 4 * g + j + 1
  <2> WITNESS (n - 1) \div 4 \in Nat, (n - 1) % 4 \in 0 .. 3
  <2>1. QED
    OBVIOUS
<1>3. 3 * g < Len(s)
  BY <1>1, <1>2
<1>4. 3 * g + j <= Len(s) <=> n <= DigitCount(s)
  BY <1>1, <1>2, <1>3 DEF DigitCount
<1>5. QED
  BY <1>2, <1>3, <1>4

LEMMA EncodingDigits ==
  ASSUME NEW s \in Seq(Octets), NEW t \in Seq(Alphabet), IsEncoding(s, t)
  PROVE  /\ DigitCount(s) \in 0 .. Len(t)
         /\ \A n \in 1 .. Len(t) : IF n <= DigitCount(s) THEN t[n] \in Sextets
                                   ELSE t[n] = Text!Pad
         /\ Text!DigitsOf(t) = SubSeq(t, 1, DigitCount(s))
         /\ Text!is_base64_string(t)
<1>1. Len(s) \in Nat /\ Len(t) = 4 * ((Len(s) + 2) \div 3)
  BY DEF IsEncoding
<1>2. DigitCount(s) \in 0 .. Len(t)
  BY <1>1 DEF DigitCount
<1>3. ASSUME NEW n \in 1 .. Len(t)
      PROVE  IF n <= DigitCount(s) THEN t[n] \in Sextets ELSE t[n] = Text!Pad
  <2>1. PICK g \in Nat, j \in 0 .. 3 :
            /\ n = 4 * g + j + 1 /\ 3 * g < Len(s)
            /\ 3 * g + j <= Len(s) <=> n <= DigitCount(s)
    BY <1>1, PlaceOfChar
  <2>2. t[n] = CharAt(s, 4 * g + j + 1)
    BY <2>1 DEF IsEncoding
  <2>3. QED
    BY <2>1, <2>2, CharOfGroup
<1>4. t \in Seq(Characters)
  <2>1. Alphabet \subseteq Characters
    BY DEF Alphabet, Characters
  <2>2. QED
    BY <2>1
<1>5. /\ \A k \in 1 .. DigitCount(s) : t[k] # Text!Pad
      /\ DigitCount(s) = Len(t) \/ t[DigitCount(s) + 1] = Text!Pad
  <2>1. DigitCount(s) \in Nat /\ Len(t) \in Nat /\ DigitCount(s) <= Len(t)
    BY <1>1, <1>2
  <2>2. \A c \in Sextets : c # Text!Pad
    BY DEF Sextets, Text!Pad
  <2>3. DigitCount(s) # Len(t) => DigitCount(s) + 1 \in 1 .. Len(t)
    BY <2>1
  <2>4. QED
    BY <1>3, <2>1, <2>2, <2>3
<1>6. Text!is_base64_string(t)
  <2>1. Len(t) % 4 = 0
    BY <1>1
  <2>2. \A c \in Alphabet : c # Text!Foreign
    BY DEF Alphabet, Text!Foreign
  <2>3. QED
    BY <2>1, <2>2 DEF Text!is_base64_string
<1>7. QED
  BY <1>2, <1>3, <1>4, <1>5, <1>6, DigitsAre

LEMMA BitOfSeq ==
  ASSUME NEW S, NEW s \in Seq(S), NEW w \in Nat \ {0}, NEW k \in 1 .. w * Len(s)
  PROVE  Text!Bits(s, w)[k] = Text!Bit(s[((k - 1) \div w) + 1], w, ((k - 1) % w) + 1)
BY DEF Text!Bits

\* What Lua gets for a string are the string's bits, filled up with zeros.
LEMMA EncodedBits ==
  ASSUME NEW s \in Seq(Octets), NEW t \in Seq(Alphabet), IsEncoding(s, t),
         NEW k \in 1 .. 6 * DigitCount(s)
  PROVE  Text!Bits(SubSeq(t, 1, DigitCount(s)), 6)[k]
           = IF k <= 8 * Len(s) THEN Text!Bits(s, 8)[k] ELSE 0
<1> DEFINE q == k - 1
           g == q \div 24
           r == q % 24
           j == r \div 6
           b == r \div 8
           digits == SubSeq(t, 1, DigitCount(s))
<1>1. DigitCount(s) \in Nat /\ DigitCount(s) <= Len(t) /\ Len(s) \in Nat /\ Len(t) \in Nat
  BY EncodingDigits
<1>2. /\ q \in Nat /\ g \in Nat /\ r \in 0 .. 23 /\ j \in 0 .. 3 /\ b \in 0 .. 2
      /\ q \div 6 = 4 * g + j /\ q % 6 = r % 6
      /\ q \div 8 = 3 * g + b /\ q % 8 = r % 8
  <2>1. q \in Nat
    BY <1>1
  <2> HIDE DEF q
  <2>2. /\ g \in Nat /\ r \in 0 .. 23
        /\ q \div 6 = 4 * g + j /\ q % 6 = r % 6
        /\ q \div 8 = 3 * g + b /\ q % 8 = r % 8
    BY <2>1, PlaceOfBit
  <2> HIDE DEF r, g
  <2>3. QED
    BY <2>1, <2>2
<1>3. 4 * g + j + 1 \in 1 .. DigitCount(s)
  BY <1>1, <1>2
<1>4. /\ digits \in Seq(Alphabet) /\ Len(digits) = DigitCount(s)
      /\ digits[4 * g + j + 1] = t[4 * g + j + 1]
  <2> HIDE DEF g, j
  <2>1. QED
    BY <1>1, <1>3
<1>5. Text!Bits(digits, 6)[k] = Text!Bit(t[4 * g + j + 1], 6, (r % 6) + 1)
  <2> HIDE DEF digits, g, r, j
  <2>1. Text!Bits(digits, 6)[k] = Text!Bit(digits[(q \div 6) + 1], 6, (q % 6) + 1)
    <3>1. k \in 1 .. 6 * Len(digits) /\ 6 \in Nat \ {0}
      BY <1>4
    <3>2. QED
      BY <1>4, <3>1, BitOfSeq
  <2>2. QED
    BY <1>2, <1>4, <2>1
<1>6. t[4 * g + j + 1] = Text!Chars4(Three(s, g))[j + 1]
  <2> HIDE DEF g, j
  <2>1. t[4 * g + j + 1] = CharAt(s, 4 * g + j + 1) /\ t[4 * g + j + 1] \in Sextets
    BY <1>1, <1>3, EncodingDigits, SMTT(30) DEF IsEncoding
  <2>2. t[4 * g + j + 1] # Text!Pad
    <3>1. \A c \in Sextets : c # Text!Pad
      BY DEF Sextets, Text!Pad
    <3>2. QED
      BY <2>1, <3>1
  <2>3. QED
    BY <1>2, <2>1, <2>2, CharOfGroup
<1>7. /\ Text!Bit(Text!Chars4(Three(s, g))[j + 1], 6, (r % 6) + 1)
           = Text!Bit(ByteAt(s, 3 * g + b + 1), 8, (r % 8) + 1)
      /\ ByteAt(s, 3 * g + b + 1) \in Octets
  <2> DEFINE x == ByteAt(s, 3 * g + 1)
             y == ByteAt(s, 3 * g + 2)
             z == ByteAt(s, 3 * g + 3)
  <2> HIDE DEF g, r
  <2>1. /\ x \in Octets /\ y \in Octets /\ z \in Octets /\ ByteAt(s, 3 * g + b + 1) \in Octets
        /\ Three(s, g) = <<x, y, z>> /\ Three(s, g)[b + 1] = ByteAt(s, 3 * g + b + 1)
    <3>1. /\ 3 * g + 1 \in Nat \ {0} /\ 3 * g + 2 \in Nat \ {0} /\ 3 * g + 3 \in Nat \ {0}
          /\ 3 * g + b + 1 \in Nat \ {0}
      BY <1>2
    <3>2. QED
      BY <1>2, <3>1, ThreeTypes
  <2> HIDE DEF x, y, z
  <2>2. QED
    BY <1>2, <2>1, GroupBits, SMTT(30)
<1>8. CASE k <= 8 * Len(s)
  <2>1. k \in 1 .. 8 * Len(s) /\ 3 * g + b + 1 <= Len(s)
    BY <1>1, <1>2, <1>8
  <2> HIDE DEF g, r, b
  <2>2. Text!Bits(s, 8)[k] = Text!Bit(s[(q \div 8) + 1], 8, (q % 8) + 1)
    BY <2>1, BitOfSeq
  <2>3. ByteAt(s, 3 * g + b + 1) = s[3 * g + b + 1]
    BY <2>1 DEF ByteAt
  <2>4. QED
    BY <1>2, <1>5, <1>6, <1>7, <1>8, <2>2, <2>3
<1>9. CASE ~(k <= 8 * Len(s))
  <2>1. ~(3 * g + b + 1 <= Len(s)) /\ r % 8 \in 0 .. 7
    BY <1>1, <1>2, <1>9
  <2>2. ByteAt(s, 3 * g + b + 1) = 0
    BY <2>1 DEF ByteAt
  <2>3. \A i \in 0 .. 7 : Text!Bit(0, 8, i + 1) = 0
    BY DEF Text!Bit, Text!Weight
  <2>4. QED
    BY <1>5, <1>6, <1>7, <1>9, <2>1, <2>2, <2>3
<1>10. QED
  BY <1>8, <1>9

-----------------------------------------------------------------------------
(* Decodings                                                                 *)

\* Where byte n of a decoding comes from.
LEMMA PlaceOfByte ==
  ASSUME NEW n \in Nat \ {0}
  PROVE  LET g == (n - 1) \div 3
             j == (n - 1) % 3
         IN  /\ g \in Nat /\ j \in 0 .. 2 /\ n = 3 * g + j + 1
             /\ \A d \in Nat : 8 * n <= 6 * d => 4 * g + j + 2 <= d
OBVIOUS

LEMMA DecodedTypes ==
  ASSUME NEW s \in Seq(Characters), NEW d \in 0 .. Len(s),
         \A i \in 1 .. d : s[i] \in Sextets,
         NEW n \in Nat \ {0}, 8 * n <= 6 * d
  PROVE  LET g == (n - 1) \div 3
             j == (n - 1) % 3
         IN  /\ 4 * g + j + 1 \in 1 .. d /\ 4 * g + j + 2 \in 1 .. d
             /\ s[4 * g + j + 1] \in Sextets /\ s[4 * g + j + 2] \in Sextets
             /\ DecodedByte(s, n) = ByteOf(j, s[4 * g + j + 1], s[4 * g + j + 2])
             /\ DecodedByte(s, n) \in Octets
<1> DEFINE g == (n - 1) \div 3
           j == (n - 1) % 3
<1>1. d \in Nat /\ Len(s) \in Nat
  OBVIOUS
<1>2. g \in Nat /\ j \in 0 .. 2 /\ 4 * g + j + 2 <= d
  BY <1>1, PlaceOfByte
<1>3. DecodedByte(s, n) = ByteOf(j, s[4 * g + j + 1], s[4 * g + j + 2])
  BY DEF DecodedByte
<1> HIDE DEF g, j
<1>4. 4 * g + j + 1 \in 1 .. d /\ 4 * g + j + 2 \in 1 .. d
  BY <1>1, <1>2
<1>5. s[4 * g + j + 1] \in Sextets /\ s[4 * g + j + 2] \in Sextets
  BY <1>4
<1>6. DecodedByte(s, n) \in Octets
  BY <1>2, <1>3, <1>5, ByteTypes
<1>7. QED
  BY <1>3, <1>4, <1>5, <1>6 DEF g, j

\* The bits of what was decoded are those of the characters.
LEMMA DecodedBits ==
  ASSUME NEW s \in Seq(Characters), NEW d \in 0 .. Len(s),
         \A i \in 1 .. d : s[i] \in Sextets,
         NEW o \in Seq(Octets), 8 * Len(o) <= 6 * d,
         \A n \in 1 .. Len(o) : o[n] = DecodedByte(s, n),
         NEW k \in 1 .. 8 * Len(o)
  PROVE  Text!Bits(o, 8)[k] = Text!Bits(SubSeq(s, 1, d), 6)[k]
<1> DEFINE q == k - 1
           g == q \div 24
           r == q % 24
           j == r \div 8
           n == (q \div 8) + 1
           digits == SubSeq(s, 1, d)
           x == s[4 * g + j + 1]
           y == s[4 * g + j + 2]
<1>1. d \in Nat /\ d <= Len(s) /\ Len(s) \in Nat /\ Len(o) \in Nat /\ q \in Nat
  OBVIOUS
<1>2. /\ g \in Nat /\ r \in 0 .. 23 /\ q \div 6 = 4 * g + (r \div 6) /\ q % 6 = r % 6
      /\ q \div 8 = 3 * g + j /\ q % 8 = r % 8
  <2> HIDE DEF q
  <2>1. QED
    BY <1>1, PlaceOfBit
<1>3. n \in 1 .. Len(o) /\ 8 * n <= 6 * d
  BY <1>1
<1>4. /\ j \in 0 .. 2 /\ r % 8 \in 0 .. 7 /\ r = 8 * j + (r % 8)
      /\ r \div 6 = j \/ r \div 6 = j + 1
  <2> HIDE DEF r
  <2>1. QED
    BY <1>2
<1>5. (n - 1) \div 3 = g /\ (n - 1) % 3 = j
  <2>1. n - 1 = 3 * g + j
    BY <1>1, <1>2
  <2>2. \A e \in Nat, f \in 0 .. 2 : (3 * e + f) \div 3 = e /\ (3 * e + f) % 3 = f
    OBVIOUS
  <2> HIDE DEF n, g, j
  <2>3. (3 * g + j) \div 3 = g /\ (3 * g + j) % 3 = j
    BY <1>2, <1>4, <2>2
  <2>4. QED
    BY <2>1, <2>3
<1>6. /\ 4 * g + j + 1 \in 1 .. d /\ 4 * g + j + 2 \in 1 .. d
      /\ x \in Sextets /\ y \in Sextets /\ o[n] = ByteOf(j, x, y)
  <2> HIDE DEF n, g, j
  <2>1. n \in Nat \ {0} /\ o[n] = DecodedByte(s, n)
    BY <1>3
  <2>2. QED
    BY <1>3, <1>5, <2>1, DecodedTypes
<1>7. Text!Bits(o, 8)[k] = Text!Bit(o[n], 8, (r % 8) + 1)
  <2>1. Text!Bits(o, 8)[k] = Text!Bit(o[((k - 1) \div 8) + 1], 8, ((k - 1) % 8) + 1)
    <3>1. 8 \in Nat \ {0}
      OBVIOUS
    <3>2. QED
      BY <3>1, BitOfSeq
  <2>2. QED
    BY <1>2, <2>1
<1>8. /\ digits \in Seq(Characters) /\ Len(digits) = d
      /\ digits[4 * g + j + 1] = x /\ digits[4 * g + j + 2] = y
  <2> HIDE DEF g, j
  <2>1. QED
    BY <1>1, <1>6, SMTT(30)
<1>9. Text!Bits(digits, 6)[k] = Text!Bit(digits[4 * g + (r \div 6) + 1], 6, (r % 6) + 1)
  <2>1. k \in 1 .. 6 * Len(digits) /\ 6 \in Nat \ {0}
    <3> HIDE DEF digits
    <3>1. QED
      BY <1>1, <1>8
  <2>2. Text!Bits(digits, 6)[k] = Text!Bit(digits[((k - 1) \div 6) + 1], 6, ((k - 1) % 6) + 1)
    <3> HIDE DEF digits
    <3>1. QED
      BY <1>8, <2>1, BitOfSeq
  <2>3. QED
    BY <1>2, <2>2
<1>10. Text!Bit(ByteOf(j, x, y), 8, (r % 8) + 1)
         = Text!Bit(IF r \div 6 = j THEN x ELSE y, 6, (r % 6) + 1)
  <2> DEFINE i == r % 8
  <2> HIDE DEF x, y, j, r, i
  <2>1. Text!Bit(ByteOf(j, x, y), 8, i + 1)
          = Text!Bit(IF (8 * j + i) \div 6 = j THEN x ELSE y, 6, ((8 * j + i) % 6) + 1)
    BY <1>4, <1>6, ByteBits, ZenonT(30) DEF i
  <2>2. QED
    BY <1>4, <2>1 DEF i
<1>11. digits[4 * g + (r \div 6) + 1] = IF r \div 6 = j THEN x ELSE y
  <2> HIDE DEF digits, x, y, j, g, r
  <2>1. CASE r \div 6 = j
    BY <1>8, <2>1
  <2>2. CASE r \div 6 = j + 1
    <3>1. 4 * g + (r \div 6) + 1 = 4 * g + j + 2 /\ r \div 6 # j
      BY <1>2, <1>4, <2>2
    <3>2. QED
      BY <1>8, <3>1
  <2>3. QED
    BY <1>4, <2>1, <2>2
<1>12. QED
  <2> HIDE DEF digits, x, y, j, g, r, n
  <2>1. QED
    BY <1>6, <1>7, <1>9, <1>10, <1>11 DEF digits

\* What was encoded decodes to itself.
LEMMA EncodingReadsBack ==
  ASSUME NEW s \in Seq(Octets), NEW t \in Seq(Alphabet), IsEncoding(s, t)
  PROVE  /\ (6 * DigitCount(s)) \div 8 = Len(s)
         /\ \A n \in 1 .. Len(s) : DecodedByte(t, n) = s[n]
<1>1. Len(s) \in Nat /\ DigitCount(s) \in 0 .. Len(t)
  BY EncodingDigits
<1>2. (6 * DigitCount(s)) \div 8 = Len(s)
  BY <1>1 DEF DigitCount
<1>3. ASSUME NEW n \in 1 .. Len(s)
      PROVE  DecodedByte(t, n) = s[n]
  <2> DEFINE g == (n - 1) \div 3
             j == (n - 1) % 3
  <2>1. /\ n \in Nat \ {0} /\ g \in Nat /\ j \in 0 .. 2 /\ n = 3 * g + j + 1
        /\ 4 * g + j + 2 <= DigitCount(s)
    <3>1. n \in Nat \ {0} /\ 8 * n <= 6 * DigitCount(s) /\ DigitCount(s) \in Nat
      BY <1>1 DEF DigitCount
    <3>2. QED
      BY <3>1, PlaceOfByte
  <2>2. DecodedByte(t, n) = ByteOf(j, t[4 * g + j + 1], t[4 * g + j + 2])
    BY DEF DecodedByte
  <2> HIDE DEF g, j
  <2>3. /\ t[4 * g + j + 1] = Text!Chars4(Three(s, g))[j + 1]
        /\ t[4 * g + j + 2] = Text!Chars4(Three(s, g))[j + 2]
    <3>1. /\ 4 * g + j + 1 \in 1 .. Len(t) /\ 4 * g + j + 2 \in 1 .. Len(t)
          /\ 4 * g + j + 2 = 4 * g + (j + 1) + 1
      BY <1>1, <2>1
    <3>2. /\ t[4 * g + j + 1] = CharAt(s, 4 * g + j + 1)
          /\ t[4 * g + j + 2] = CharAt(s, 4 * g + (j + 1) + 1)
      BY <3>1 DEF IsEncoding
    <3>3. 3 * g + j <= Len(s) /\ 3 * g + (j + 1) <= Len(s) /\ j \in 0 .. 3 /\ j + 1 \in 0 .. 3
      BY <1>1, <2>1
    <3>4. /\ CharAt(s, 4 * g + j + 1) = Text!Chars4(Three(s, g))[j + 1]
          /\ CharAt(s, 4 * g + (j + 1) + 1) = Text!Chars4(Three(s, g))[(j + 1) + 1]
      BY <2>1, <3>3, CharOfGroup
    <3>5. (j + 1) + 1 = j + 2
      BY <2>1
    <3>6. QED
      BY <3>2, <3>4, <3>5
  <2> DEFINE x == ByteAt(s, 3 * g + 1)
             y == ByteAt(s, 3 * g + 2)
             z == ByteAt(s, 3 * g + 3)
  <2>4. /\ x \in Octets /\ y \in Octets /\ z \in Octets
        /\ Three(s, g) = <<x, y, z>> /\ Three(s, g)[j + 1] = ByteAt(s, n)
    <3>1. 3 * g + 1 \in Nat \ {0} /\ 3 * g + 2 \in Nat \ {0} /\ 3 * g + 3 \in Nat \ {0}
      BY <2>1
    <3>2. QED
      BY <2>1, <3>1, ThreeTypes
  <2> HIDE DEF x, y, z
  <2>5. ByteOf(j, Text!Chars4(Three(s, g))[j + 1], Text!Chars4(Three(s, g))[j + 2])
          = Three(s, g)[j + 1]
    BY <2>1, <2>4, GroupReadsBack
  <2>6. ByteAt(s, n) = s[n]
    BY DEF ByteAt
  <2>7. QED
    BY <2>2, <2>3, <2>4, <2>5, <2>6
<1>4. QED
  BY <1>2, <1>3

-----------------------------------------------------------------------------
(* The loops of base64.cpp keep TextInv.                                     *)

LEMMA ElementsType ==
  ASSUME NEW S, NEW T, NEW s \in Seq(S), \A i \in 1 .. Len(s) : s[i] \in T
  PROVE  s \in Seq(T)
OBVIOUS

LEMMA EncodingType ==
  ASSUME NEW s \in Seq(Octets), NEW t \in Seq(Octets), IsEncoding(s, t)
  PROVE  t \in Seq(Alphabet)
<1>1. ASSUME NEW n \in 1 .. Len(t)
      PROVE  t[n] \in Alphabet
  <2>1. PICK g \in Nat, j \in 0 .. 3 :
            /\ n = 4 * g + j + 1 /\ 3 * g < Len(s)
            /\ 3 * g + j <= Len(s) <=> n <= DigitCount(s)
    <3>1. n \in 1 .. 4 * ((Len(s) + 2) \div 3)
      BY DEF IsEncoding
    <3>2. QED
      BY <3>1, PlaceOfChar
  <2>2. t[n] = CharAt(s, 4 * g + j + 1)
    BY <2>1 DEF IsEncoding
  <2>3. t[n] \in Sextets \/ t[n] = Text!Pad
    BY <2>2, CharOfGroup
  <2>4. Sextets \subseteq Alphabet /\ Text!Pad \in Alphabet
    BY DEF Sextets, Alphabet, Text!Pad
  <2>5. QED
    BY <2>3, <2>4
<1>2. QED
  BY <1>1, ElementsType

LEMMA NothingIsEncoded == IsEncoding(<<>>, <<>>)
<1>1. Len(<<>>) = 0
  OBVIOUS
<1>2. QED
  BY <1>1 DEF IsEncoding

LEMMA BoundedType ==
  ASSUME NEW S, NEW T, S \subseteq T, NEW n, NEW s \in Text!BoundedSeq(S, n), n \in Nat
  PROVE  s \in Seq(T)
<1>1. PICK m \in 0 .. n : s \in [1 .. m -> S]
  BY DEF Text!BoundedSeq, Text!SeqOf
<1>2. m \in Nat /\ s \in [1 .. m -> T]
  BY <1>1
<1>3. QED
  BY <1>2

\* base64Encode
LEMMA EncodeText ==
  ASSUME TextInv, NEW str \in Seq(Octets), Text!base64Encode(str)
  PROVE  TextInv'
<1>1. /\ pc = "idle" /\ in_ = 0 /\ ret = <<>> /\ char_array = <<>> /\ encoded = Text!Nothing
      /\ in_' = 0 /\ ret' = <<>> /\ char_array' = <<>> /\ encoded' = encoded
      /\ argument' = str /\ pc' = IF Len(str) > 0 THEN "encode" ELSE "encoded"
  BY DEF Text!base64Encode, TextInv
<1>2. Len(<<>>) = 0 /\ Len(str) \in Nat
  OBVIOUS
<1>3. TextTypes' /\ Held'
  <2>1. Held'
    BY <1>1 DEF TextInv, Held
  <2>2. pc' \in {"encode", "encoded"} /\ argument' \in Seq(Octets) /\ in_' \in 0 .. Len(argument')
    BY <1>1, <1>2
  <2>3. \A S : char_array' \in Seq(S) /\ ret' \in Seq(S)
    BY <1>1
  <2>4. QED
    BY <2>1, <2>2, <2>3 DEF TextTypes
<1>4. Encoding'
  <2>1. Collected(3)'
    BY <1>1, <1>2 DEF Collected
  <2>2. QED
    BY <1>1, <1>2, <2>1 DEF Encoding
<1>5. pc' = "encoded" => encoded' = [string |-> argument', text |-> ret']
  <2>1. pc' = "encoded" => str = <<>>
    BY <1>1, <1>2
  <2>2. QED
    BY <1>1, <2>1 DEF Text!Nothing
<1>6. QED
  BY <1>1, <1>3, <1>4, <1>5 DEF TextInv

\* base64Decode
LEMMA DecodeText ==
  ASSUME TextInv, NEW str \in Seq(Characters), Text!base64Decode(str)
  PROVE  TextInv'
<1>1. /\ in_' = 0 /\ ret' = <<>> /\ char_array' = <<>> /\ encoded' = encoded
      /\ argument' = str
      /\ pc' = IF Text!is_base64_string(str) THEN "decode" ELSE "decoded"
  BY DEF Text!base64Decode
<1>2. Len(<<>>) = 0 /\ Len(str) \in Nat
  OBVIOUS
<1>3. TextTypes' /\ Held'
  <2>1. Held'
    BY <1>1 DEF TextInv, Held
  <2>2. /\ pc' \in {"decode", "decoded"} /\ argument' \in Seq(Characters)
        /\ in_' \in 0 .. Len(argument')
    BY <1>1, <1>2
  <2>3. \A S : char_array' \in Seq(S) /\ ret' \in Seq(S)
    BY <1>1
  <2>4. QED
    BY <2>1, <2>2, <2>3 DEF TextTypes
<1>4. Text!is_base64_string(str) => Decoding'
  <2>1. Collected(4)'
    BY <1>1, <1>2 DEF Collected
  <2>2. DigitsTaken' /\ BytesAre(3 * (in_ \div 4))'
    BY <1>1, <1>2 DEF DigitsTaken, BytesAre
  <2>3. Text!is_base64_string(str) => Text!is_base64_string(argument)'
    BY <1>1 DEF Text!is_base64_string
  <2>4. QED
    BY <2>1, <2>2, <2>3 DEF Decoding
<1>5. ~Text!is_base64_string(str) => Decoded'
  <2>1. ~Text!is_base64_string(str) => ~Text!is_base64_string(argument)'
    BY <1>1 DEF Text!is_base64_string
  <2>2. QED
    BY <1>1, <2>1 DEF Decoded
<1>6. QED
  BY <1>1, <1>3, <1>4, <1>5 DEF TextInv

\* One more byte or character was taken and does not complete its group.
LEMMA CollectMore ==
  ASSUME NEW w \in {3, 4}, NEW S, argument \in Seq(S), in_ \in Nat, in_ < Len(argument),
         NEW T, char_array \in Seq(T), argument[in_ + 1] \in T,
         Collected(w), in_' = in_ + 1, argument' = argument,
         Len(char_array) + 1 # w, char_array' = Append(char_array, argument[in_ + 1])
  PROVE  Collected(w)' /\ in_' \div w = in_ \div w /\ char_array' \in Seq(T)
<1>1. Len(char_array) = in_ % w /\ in_ = w * (in_ \div w) + (in_ % w) /\ in_ \div w \in Nat
  <2>1. CASE w = 3
    BY <2>1 DEF Collected
  <2>2. CASE w = 4
    BY <2>2 DEF Collected
  <2>3. QED
    BY <2>1, <2>2
<1>2. in_' \div w = in_ \div w /\ in_' % w = (in_ % w) + 1
  <2>1. CASE w = 3
    BY <1>1, <2>1
  <2>2. CASE w = 4
    BY <1>1, <2>2
  <2>3. QED
    BY <2>1, <2>2
<1>3. /\ Len(char_array') = Len(char_array) + 1
      /\ char_array' \in Seq(T)
      /\ \A k \in 1 .. Len(char_array) : char_array'[k] = char_array[k]
      /\ char_array'[Len(char_array) + 1] = argument[in_ + 1]
  OBVIOUS
<1>4. ASSUME NEW k \in 1 .. Len(char_array')
      PROVE  char_array'[k] = argument[w * (in_ \div w) + k]
  <2>1. CASE k = Len(char_array) + 1
    <3>1. w * (in_ \div w) + k = in_ + 1
      BY <1>1, <2>1
    <3>2. QED
      BY <1>3, <2>1, <3>1
  <2>2. CASE k # Len(char_array) + 1
    <3>1. k \in 1 .. Len(char_array)
      BY <1>1, <1>3, <2>2
    <3>2. QED
      BY <1>3, <3>1 DEF Collected
  <2>3. QED
    BY <2>1, <2>2
<1>5. QED
  BY <1>1, <1>2, <1>3, <1>4 DEF Collected

\* What completes a group leaves nothing of it.
LEMMA CollectLast ==
  ASSUME NEW w \in {3, 4}, in_ \in Nat, Collected(w), in_' = in_ + 1,
         NEW T, char_array \in Seq(T), Len(char_array) + 1 = w, char_array' = <<>>
  PROVE  /\ Collected(w)' /\ in_' \div w = (in_ \div w) + 1 /\ in_' = w * ((in_ \div w) + 1)
         /\ \A k \in 1 .. Len(char_array) : char_array[k] = argument[w * (in_ \div w) + k]
         /\ in_ \div w \in Nat
<1>1. Len(char_array) = in_ % w /\ in_ \div w \in Nat /\ Len(<<>>) = 0
  <2>1. Len(<<>>) = 0
    OBVIOUS
  <2>2. CASE w = 3
    BY <2>1, <2>2 DEF Collected
  <2>3. CASE w = 4
    BY <2>1, <2>3 DEF Collected
  <2>4. QED
    BY <2>2, <2>3
<1>2. /\ in_' \div w = (in_ \div w) + 1 /\ in_' % w = 0
      /\ in_' = w * ((in_ \div w) + 1)
  <2>1. CASE w = 3
    BY <1>1, <2>1
  <2>2. CASE w = 4
    BY <1>1, <2>2
  <2>3. QED
    BY <2>1, <2>2
<1>3. Collected(w)'
  BY <1>1, <1>2 DEF Collected
<1>4. QED
  BY <1>1, <1>2, <1>3 DEF Collected

LEMMA Concatenated ==
  ASSUME NEW S, NEW s \in Seq(S), NEW t \in Seq(S)
  PROVE  /\ s \o t \in Seq(S) /\ Len(s \o t) = Len(s) + Len(t)
         /\ \A n \in 1 .. Len(s) : (s \o t)[n] = s[n]
         /\ \A n \in Len(s) + 1 .. Len(s) + Len(t) : (s \o t)[n] = t[n - Len(s)]
OBVIOUS

LEMMA Appended ==
  ASSUME NEW S, NEW s \in Seq(S), NEW e \in S
  PROVE  /\ Append(s, e) \in Seq(S) /\ Len(Append(s, e)) = Len(s) + 1
         /\ \A n \in 1 .. Len(s) : Append(s, e)[n] = s[n]
         /\ Append(s, e)[Len(s) + 1] = e
OBVIOUS

\* Characters that are appended where the encoding has a group.
LEMMA AppendGroup ==
  ASSUME NEW s, NEW g \in Nat, NEW t, NEW c, CharsAre(s, t, 4 * g), GroupIs(s, g, c)
  PROVE  CharsAre(s, t \o c, 4 * (g + 1))
<1> DEFINE u == t \o c
<1> USE DEF CharsAre, GroupIs
<1>1. /\ u \in Seq(Octets) /\ Len(u) = 4 * (g + 1)
      /\ \A n \in 1 .. Len(t) : u[n] = t[n]
      /\ \A n \in 4 * g + 1 .. 4 * g + 4 : u[n] = c[n - 4 * g]
  <2>1. /\ u \in Seq(Octets) /\ Len(u) = Len(t) + Len(c)
        /\ \A n \in 1 .. Len(t) : u[n] = t[n]
        /\ \A n \in Len(t) + 1 .. Len(t) + Len(c) : u[n] = c[n - Len(t)]
    BY Concatenated
  <2> HIDE DEF u
  <2>2. QED
    BY <2>1, SMTT(30)
<1>2. ASSUME NEW n \in 1 .. Len(u)
      PROVE  u[n] = CharAt(s, n)
  <2>1. CASE n <= 4 * g
    BY <1>1, <2>1
  <2>2. CASE ~(n <= 4 * g)
    <3> DEFINE j == n - 4 * g - 1
    <3>1. j \in 0 .. 3 /\ n = 4 * g + j + 1 /\ n - 4 * g = j + 1 /\ n \in 4 * g + 1 .. 4 * g + 4
      BY <1>1, <2>2
    <3> HIDE DEF j, u
    <3>2. c[j + 1] = CharAt(s, n)
      BY <3>1
    <3>3. QED
      BY <1>1, <3>1, <3>2
  <2>3. QED
    BY <2>1, <2>2
<1>3. QED
  BY <1>1, <1>2

LEMMA ByteTaken ==
  ASSUME TextInv, Text!EncodeByte
  PROVE  TextInv'
<1> DEFINE i == Append(char_array, argument[in_ + 1])
           g == in_ \div 3
<1>1. /\ pc = "encode" /\ in_ < Len(argument) /\ in_' = in_ + 1
      /\ pc' = pc /\ argument' = argument /\ encoded' = encoded
      /\ IF Text!IsGroup(i, 3) THEN char_array' = <<>> /\ ret' = ret \o Text!Chars4(i)
         ELSE char_array' = i /\ ret' = ret
  BY DEF Text!EncodeByte
<1>2. /\ argument \in Seq(Octets) /\ in_ \in Nat /\ Len(argument) \in Nat
      /\ char_array \in Seq(Octets) /\ ret \in Seq(Octets)
      /\ argument[in_ + 1] \in Octets
      /\ in_' \in 0 .. Len(argument')
  BY <1>1 DEF TextInv, TextTypes
<1>3. Encoding
  BY <1>1 DEF TextInv
<1>4. Held'
  BY <1>1 DEF TextInv, Held
<1>5. Text!IsGroup(i, 3) <=> Len(char_array) + 1 = 3
  <2>1. Len(i) = Len(char_array) + 1 /\ Len(char_array) \in Nat
    BY <1>2
  <2> HIDE DEF i
  <2>2. Text!IsGroup(i, 3) <=> Len(i) = 3
    BY DEF Text!IsGroup
  <2>3. QED
    BY <2>1, <2>2
<1>6. CASE ~Text!IsGroup(i, 3)
  <2>1. /\ Len(char_array) + 1 # 3 /\ char_array' = i /\ ret' = ret
    <3>1. char_array' = i /\ ret' = ret
      BY <1>1, <1>6, Zenon
    <3>2. QED
      BY <1>5, <1>6, <3>1
  <2>2. Collected(3)' /\ in_' \div 3 = in_ \div 3 /\ char_array' \in Seq(Octets)
    BY <1>1, <1>2, <1>3, <2>1, CollectMore DEF Encoding
  <2>3. Encoding'
    BY <1>1, <1>3, <2>1, <2>2 DEF Encoding
  <2>4. TextTypes'
    BY <1>1, <1>2, <2>1, <2>2 DEF TextTypes
  <2>5. QED
    BY <1>1, <1>4, <2>3, <2>4 DEF TextInv
<1>7. CASE Text!IsGroup(i, 3)
  <2>1. /\ Len(char_array) + 1 = 3 /\ char_array' = <<>> /\ ret' = ret \o Text!Chars4(i)
    <3>1. char_array' = <<>> /\ ret' = ret \o Text!Chars4(i)
      BY <1>1, <1>7, Zenon
    <3>2. QED
      BY <1>5, <1>7, <3>1
  <2>2. /\ Collected(3)' /\ in_' \div 3 = g + 1 /\ in_ + 1 = 3 * g + 3
        /\ \A k \in 1 .. 2 : char_array[k] = argument[3 * g + k]
        /\ g \in Nat
    <3>1. /\ Collected(3)' /\ in_' \div 3 = g + 1 /\ in_' = 3 * (g + 1)
          /\ \A k \in 1 .. Len(char_array) : char_array[k] = argument[3 * g + k]
          /\ g \in Nat
      BY <1>1, <1>2, <1>3, <2>1, CollectLast DEF Encoding
    <3> HIDE DEF g
    <3>2. \A k \in 1 .. 2 : k \in 1 .. Len(char_array)
      BY <1>2, <2>1
    <3>3. QED
      BY <1>1, <1>2, <3>1, <3>2
  <2> HIDE DEF g
  <2>3. Text!Chars4(i) = Text!Chars4(Three(argument, g))
    <3>1. i[1] = argument[3 * g + 1] /\ i[2] = argument[3 * g + 2] /\ i[3] = argument[3 * g + 3]
      <4>1. /\ \A n \in 1 .. Len(char_array) : i[n] = char_array[n]
            /\ i[Len(char_array) + 1] = argument[in_ + 1]
        BY <1>2, Appended
      <4> HIDE DEF i
      <4>2. i[1] = char_array[1] /\ i[2] = char_array[2] /\ i[3] = argument[in_ + 1]
        <5>1. Len(char_array) \in Nat
          BY <1>2
        <5> HIDE DEF i
        <5>2. 1 \in 1 .. Len(char_array) /\ 2 \in 1 .. Len(char_array)
          BY <1>2, <2>1
        <5>3. QED
          BY <2>1, <4>1, <5>2
      <4>3. QED
        BY <2>2, <4>2
    <3>2. 3 * g + 3 <= Len(argument)
      BY <1>1, <1>2, <2>2
    <3>3. Three(argument, g) = <<argument[3 * g + 1], argument[3 * g + 2], argument[3 * g + 3]>>
      BY <1>2, <2>2, <3>2 DEF Three, ByteAt
    <3> HIDE DEF i
    <3>4. QED
      BY <3>1, <3>3 DEF Text!Chars4
  <2> DEFINE c == Text!Chars4(i)
  <2>4. \A j \in 0 .. 3 : c[j + 1] = CharAt(argument, 4 * g + j + 1) /\ c[j + 1] \in Sextets
    <3>1. ASSUME NEW j \in 0 .. 3
          PROVE  c[j + 1] = CharAt(argument, 4 * g + j + 1) /\ c[j + 1] \in Sextets
      <4>1. 3 * g + j <= Len(argument)
        BY <1>1, <1>2, <2>2, SMTT(30)
      <4> HIDE DEF i
      <4>2. QED
        BY <1>2, <2>2, <2>3, <4>1, CharOfGroup
    <3> HIDE DEF c
    <3>2. QED
      BY <3>1
  <2>5. c \in Seq(Octets) /\ Len(c) = 4
    <3>1. Sextets \subseteq Octets
      BY DEF Sextets, Octets
    <3>2. c[0 + 1] \in Sextets /\ c[1 + 1] \in Sextets /\ c[2 + 1] \in Sextets /\ c[3 + 1] \in Sextets
      <4> HIDE DEF c
      <4>1. QED
        BY <2>4
    <3>3. c = <<c[1], c[2], c[3], c[4]>>
      BY DEF Text!Chars4
    <3>4. \A x, y, z, v \in Octets : <<x, y, z, v>> \in Seq(Octets) /\ Len(<<x, y, z, v>>) = 4
      OBVIOUS
    <3> HIDE DEF c
    <3>5. c[1] \in Octets /\ c[2] \in Octets /\ c[3] \in Octets /\ c[4] \in Octets
      BY <3>1, <3>2
    <3>6. <<c[1], c[2], c[3], c[4]>> \in Seq(Octets) /\ Len(<<c[1], c[2], c[3], c[4]>>) = 4
      BY <3>4, <3>5
    <3>7. QED
      BY <3>3, <3>6, Zenon
  <2> HIDE DEF c
  <2>6. /\ ret' \in Seq(Octets) /\ Len(ret') = 4 * (g + 1)
        /\ \A n \in 1 .. Len(ret') : ret'[n] = CharAt(argument, n)
    <3>1. CharsAre(argument, ret, 4 * g)
      BY <1>2, <1>3 DEF Encoding, CharsAre, g
    <3>2. ret' = ret \o c
      BY <2>1 DEF c
    <3>3. GroupIs(argument, g, c)
      BY <2>4, <2>5 DEF GroupIs
    <3>4. CharsAre(argument, ret', 4 * (g + 1))
      BY <2>2, <3>1, <3>2, <3>3, AppendGroup
    <3>5. QED
      BY <3>4 DEF CharsAre
  <2>7. Encoding'
    BY <1>1, <2>2, <2>6 DEF Encoding
  <2>8. char_array' \in Seq(Octets)
    BY <2>1
  <2>9. TextTypes'
    BY <1>1, <1>2, <2>6, <2>8 DEF TextTypes
  <2>10. QED
    BY <1>1, <1>4, <2>7, <2>9 DEF TextInv
<1>8. QED
  BY <1>6, <1>7

LEMMA Associative ==
  ASSUME NEW S, NEW s \in Seq(S), NEW t \in Seq(S), NEW u \in Seq(S)
  PROVE  (s \o t) \o u = s \o (t \o u)
OBVIOUS

\* The characters of the group after g of them.
EndsWith(s, g, digits, pads) ==
    /\ digits \in Seq(Octets) /\ pads \in Seq(Octets) /\ Len(digits \o pads) = 4
    /\ \A j \in 0 .. 3 : (digits \o pads)[j + 1] = CharAt(s, 4 * g + j + 1)

\* a is the i bytes of s after its whole groups.
LastOf(s, g, i, a) ==
    /\ s \in Seq(Octets) /\ g \in Nat /\ i \in 1 .. 2 /\ Len(s) = 3 * g + i
    /\ a \in Seq(Octets) /\ Len(a) = i /\ \A k \in 1 .. i : a[k] = s[3 * g + k]

\* The characters of a last group of i bytes, with the '=' that fill it up.
LEMMA LastGroup ==
  ASSUME NEW s, NEW g, NEW i, NEW a, LastOf(s, g, i, a)
  PROVE  LET whole == a \o [k \in 1 .. 3 - i |-> 0]
             digits == SubSeq(Text!Chars4(whole), 1, i + 1)
             pads == [k \in 1 .. 3 - i |-> Text!Pad]
         IN  EndsWith(s, g, digits, pads)
<1> DEFINE zeros == [k \in 1 .. 3 - i |-> 0]
           whole == a \o zeros
           c == Text!Chars4(whole)
           digits == SubSeq(c, 1, i + 1)
           pads == [k \in 1 .. 3 - i |-> Text!Pad]
<1>0. /\ s \in Seq(Octets) /\ g \in Nat /\ i \in 1 .. 2 /\ Len(s) = 3 * g + i
      /\ a \in Seq(Octets) /\ Len(a) = i /\ \A k \in 1 .. i : a[k] = s[3 * g + k]
  BY DEF LastOf
<1> USE <1>0
<1>1. 0 \in Octets /\ Text!Pad \in Octets /\ Sextets \subseteq Octets
  BY DEF Octets, Sextets, Text!Pad
<1>2. /\ zeros \in Seq(Octets) /\ Len(zeros) = 3 - i /\ \A k \in 1 .. 3 - i : zeros[k] = 0
      /\ pads \in Seq(Octets) /\ Len(pads) = 3 - i /\ \A k \in 1 .. 3 - i : pads[k] = Text!Pad
  BY <1>1
<1>3. \A k \in 1 .. 3 : whole[k] = ByteAt(s, 3 * g + k)
  <2>1. /\ \A k \in 1 .. Len(a) : whole[k] = a[k]
        /\ \A k \in Len(a) + 1 .. Len(a) + Len(zeros) : whole[k] = zeros[k - Len(a)]
    BY <1>2, Concatenated
  <2> HIDE DEF whole, zeros
  <2>2. ASSUME NEW k \in 1 .. 3
        PROVE  whole[k] = ByteAt(s, 3 * g + k)
    <3>1. CASE k <= i
      <4>1. whole[k] = s[3 * g + k] /\ 3 * g + k <= Len(s)
        BY <2>1, <3>1
      <4>2. QED
        BY <4>1 DEF ByteAt
    <3>2. CASE ~(k <= i)
      <4>1. whole[k] = 0
        <5>1. k \in i + 1 .. i + (3 - i) /\ k - i \in 1 .. 3 - i
          BY <3>2
        <5>2. QED
          BY <1>2, <2>1, <5>1
      <4>2. ~(3 * g + k <= Len(s))
        BY <3>2
      <4>3. QED
        BY <4>1, <4>2 DEF ByteAt
    <3>3. QED
      BY <3>1, <3>2
  <2>3. QED
    BY <2>2
<1>4. c = Text!Chars4(Three(s, g))
  <2>1. /\ whole[1] = ByteAt(s, 3 * g + 1) /\ whole[2] = ByteAt(s, 3 * g + 2)
        /\ whole[3] = ByteAt(s, 3 * g + 3)
    <3> HIDE DEF whole
    <3>1. QED
      BY <1>3
  <2> HIDE DEF whole
  <2>2. QED
    BY <2>1 DEF Three, Text!Chars4
<1>5. ASSUME NEW j \in 0 .. 3
      PROVE  /\ j <= i => CharAt(s, 4 * g + j + 1) = c[j + 1] /\ c[j + 1] \in Octets
             /\ ~(j <= i) => CharAt(s, 4 * g + j + 1) = Text!Pad
  <2>1. 3 * g + j <= Len(s) <=> j <= i
    OBVIOUS
  <2> HIDE DEF c
  <2>2. QED
    BY <1>1, <1>4, <2>1, CharOfGroup
<1>6. digits \in Seq(Octets) /\ Len(digits) = i + 1 /\ \A j \in 0 .. i : digits[j + 1] = c[j + 1]
  <2>1. Len(c) = 4 /\ c \in Seq({c[1], c[2], c[3], c[4]})
    <3>1. \A x, y, z, v : Len(<<x, y, z, v>>) = 4 /\ <<x, y, z, v>> \in Seq({x, y, z, v})
      OBVIOUS
    <3>2. c = <<c[1], c[2], c[3], c[4]>>
      BY DEF Text!Chars4
    <3> HIDE DEF c
    <3>3. /\ Len(<<c[1], c[2], c[3], c[4]>>) = 4
          /\ <<c[1], c[2], c[3], c[4]>> \in Seq({c[1], c[2], c[3], c[4]})
      BY <3>1, Zenon
    <3>4. QED
      BY <3>2, <3>3, Zenon
  <2> HIDE DEF c
  <2>2. /\ digits \in Seq({c[1], c[2], c[3], c[4]}) /\ Len(digits) = i + 1
        /\ \A n \in 1 .. i + 1 : digits[n] = c[n]
    BY <2>1
  <2>3. \A n \in 1 .. i + 1 : digits[n] \in Octets
    <3> HIDE DEF digits
    <3>1. \A j \in 0 .. i : c[j + 1] \in Octets
      BY <1>5
    <3>2. \A n \in 1 .. i + 1 : n - 1 \in 0 .. i /\ (n - 1) + 1 = n
      OBVIOUS
    <3>3. QED
      BY <2>2, <3>1, <3>2
  <2>4. \A j \in 0 .. i : j + 1 \in 1 .. i + 1
    OBVIOUS
  <2> HIDE DEF digits
  <2>5. digits \in Seq(Octets)
    BY <2>2, <2>3, ElementsType
  <2>6. QED
    BY <2>2, <2>4, <2>5
<1>7. /\ Len(digits \o pads) = 4
      /\ \A n \in 1 .. i + 1 : (digits \o pads)[n] = digits[n]
      /\ \A n \in i + 2 .. 4 : (digits \o pads)[n] = pads[n - (i + 1)]
  <2> HIDE DEF digits, pads
  <2>1. /\ Len(digits \o pads) = Len(digits) + Len(pads)
        /\ \A n \in 1 .. Len(digits) : (digits \o pads)[n] = digits[n]
        /\ \A n \in Len(digits) + 1 .. Len(digits) + Len(pads) :
               (digits \o pads)[n] = pads[n - Len(digits)]
    <3>1. digits \in Seq(Octets) /\ pads \in Seq(Octets)
      BY <1>2, <1>6
    <3>2. QED
      BY <3>1, Concatenated, SMTT(30)
  <2>2. (i + 1) + (3 - i) = 4 /\ (i + 1) + 1 = i + 2
    OBVIOUS
  <2>3. QED
    BY <1>2, <1>6, <2>1, <2>2
<1>8. ASSUME NEW j \in 0 .. 3
      PROVE  (digits \o pads)[j + 1] = CharAt(s, 4 * g + j + 1)
  <2> DEFINE d == digits \o pads
  <2> HIDE DEF d, digits, pads, c
  <2>1. /\ \A n \in 1 .. i + 1 : d[n] = digits[n]
        /\ \A n \in i + 2 .. 4 : d[n] = pads[n - (i + 1)]
    BY <1>7 DEF d
  <2>2. CASE j <= i
    <3>1. j + 1 \in 1 .. i + 1 /\ j \in 0 .. i
      BY <2>2
    <3>2. QED
      BY <1>5, <1>6, <2>1, <2>2, <3>1 DEF d
  <2>3. CASE ~(j <= i)
    <3>1. j + 1 \in i + 2 .. 4 /\ (j + 1) - (i + 1) \in 1 .. 3 - i
      BY <2>3
    <3>2. d[j + 1] = Text!Pad
      BY <1>2, <2>1, <3>1
    <3>3. QED
      BY <1>5, <2>3, <3>2 DEF d
  <2>4. QED
    BY <2>2, <2>3
<1> HIDE DEF digits, pads
<1>9. EndsWith(s, g, digits, pads)
  BY <1>2, <1>6, <1>7, <1>8 DEF EndsWith
<1>10. QED
  BY <1>9 DEF digits, pads

\* The end of base64_encode: the text is the encoding, and Lua holds both.
LEMMA TextTaken ==
  ASSUME TextInv, Text!EncodeTail
  PROVE  TextInv'
<1> DEFINE g == in_ \div 3
           i == Len(char_array)
           whole == char_array \o [k \in 1 .. 3 - i |-> 0]
           digits == SubSeq(Text!Chars4(whole), 1, i + 1)
           pads == [k \in 1 .. 3 - i |-> Text!Pad]
<1>1. /\ pc = "encode" /\ in_ = Len(argument) /\ in_' = in_ /\ argument' = argument
      /\ ret' = IF i = 0 THEN ret ELSE ret \o digits \o pads
      /\ encoded' = [string |-> argument, text |-> ret']
      /\ pc' = "encoded" /\ char_array' = <<>>
  BY DEF Text!EncodeTail
<1>2. /\ argument \in Seq(Octets) /\ in_ \in Nat /\ char_array \in Seq(Octets)
      /\ ret \in Seq(Octets) /\ Encoding
  BY <1>1 DEF TextInv, TextTypes
<1>3. g \in Nat /\ i \in 0 .. 2 /\ Len(argument) = 3 * g + i
  <2>1. i = in_ % 3
    BY <1>2 DEF Encoding, Collected
  <2> HIDE DEF i
  <2>2. QED
    BY <1>1, <1>2, <2>1, SMTT(30)
<1>4. /\ Len(ret) = 4 * g /\ \A n \in 1 .. Len(ret) : ret[n] = CharAt(argument, n)
      /\ \A k \in 1 .. i : char_array[k] = argument[3 * g + k]
  BY <1>2 DEF Encoding, Collected
<1>5. ret' \in Seq(Octets) /\ IsEncoding(argument, ret')
  <2>1. CASE i = 0
    <3>1. ret' = ret
      BY <1>1, <2>1, Zenon
    <3> HIDE DEF g, i
    <3>2. Len(ret) = 4 * ((Len(argument) + 2) \div 3)
      BY <1>3, <1>4, <2>1
    <3>3. IsEncoding(argument, ret)
      BY <1>4, <3>2 DEF IsEncoding
    <3>4. QED
      BY <1>2, <3>1, <3>3
  <2>2. CASE i # 0
    <3> DEFINE d == digits \o pads
    <3>1. /\ digits \in Seq(Octets) /\ pads \in Seq(Octets) /\ Len(d) = 4
          /\ \A j \in 0 .. 3 : d[j + 1] = CharAt(argument, 4 * g + j + 1)
      <4>1. i \in 1 .. 2
        BY <1>3, <2>2
      <4>2. Len(char_array) = i
        OBVIOUS
      <4> HIDE DEF g, i
      <4>3. QED
        <5>1. LastOf(argument, g, i, char_array)
          BY <1>2, <1>3, <1>4, <4>1, <4>2 DEF LastOf
        <5>2. EndsWith(argument, g, digits, pads)
          BY <5>1, LastGroup, ZenonT(30)
        <5> HIDE DEF digits, pads
        <5>3. QED
          BY <5>2 DEF EndsWith
    <3> HIDE DEF digits, pads
    <3>2. ret' = ret \o d
      <4>1. ret' = (ret \o digits) \o pads
        BY <1>1, <2>2, Zenon
      <4>2. (ret \o digits) \o pads = ret \o (digits \o pads)
        <5>1. ret \in Seq(Octets) /\ digits \in Seq(Octets) /\ pads \in Seq(Octets)
          BY <1>2, <3>1
        <5>2. \A x, y, z \in Seq(Octets) : (x \o y) \o z = x \o (y \o z)
          BY Associative
        <5>3. QED
          BY <5>1, <5>2, Zenon
      <4>3. QED
        BY <4>1, <4>2
    <3>3. GroupIs(argument, g, d)
      <4>1. d \in Seq(Octets)
        BY <3>1
      <4> HIDE DEF d
      <4>2. QED
        BY <3>1, <4>1 DEF GroupIs
    <3> HIDE DEF d, g, i
    <3>4. CharsAre(argument, ret, 4 * g)
      BY <1>2, <1>4 DEF CharsAre
    <3>5. CharsAre(argument, ret', 4 * (g + 1))
      BY <1>3, <3>2, <3>3, <3>4, AppendGroup
    <3>6. ret' \in Seq(Octets)
      BY <3>5 DEF CharsAre
    <3>7. g + 1 = (Len(argument) + 2) \div 3
      BY <1>3, <2>2
    <3>8. IsEncoding(argument, ret')
      BY <3>5, <3>7 DEF IsEncoding, CharsAre
    <3>9. QED
      BY <3>6, <3>8, Zenon
  <2>3. QED
    BY <2>1, <2>2
<1>6. Held'
  <2>1. ret' \in Seq(Alphabet)
    BY <1>2, <1>5, EncodingType
  <2>2. encoded'.string = argument /\ encoded'.text = ret'
    BY <1>1
  <2>3. Held' <=> /\ encoded'.string \in Seq(Octets) /\ encoded'.text \in Seq(Alphabet)
                  /\ IsEncoding(encoded'.string, encoded'.text)
    BY DEF Held, IsEncoding, CharAt, Three, ByteAt
  <2>4. QED
    BY <1>2, <1>5, <2>1, <2>2, <2>3
<1>7. TextTypes'
  <2>1. \A S : char_array' \in Seq(S)
    BY <1>1
  <2>2. in_' \in 0 .. Len(argument')
    BY <1>1, <1>2
  <2> HIDE DEF digits, pads, i
  <2>3. QED
    BY <1>1, <1>2, <1>5, <2>1, <2>2 DEF TextTypes
<1>8. QED
  <2> HIDE DEF digits, pads, i
  <2>1. QED
    BY <1>1, <1>6, <1>7 DEF TextInv

\* The bytes of a group of which i characters are there.
LEMMA GroupBytes ==
  ASSUME NEW s \in Seq(Characters), NEW g \in Nat, NEW i \in 0 .. 4, NEW a,
         \A k \in 1 .. i : a[k] = s[4 * g + k] /\ a[k] \in Sextets,
         NEW j \in 0 .. 2, j + 2 <= i
  PROVE  /\ Text!Bytes3(a)[j + 1] = DecodedByte(s, 3 * g + j + 1)
         /\ Text!Bytes3(a)[j + 1] \in Octets
<1>1. Text!Bytes3(a)[j + 1] = ByteOf(j, a[j + 1], a[j + 2])
  <2>1. /\ Text!Bytes3(a)[1] = ByteOf(0, a[1], a[2]) /\ Text!Bytes3(a)[2] = ByteOf(1, a[2], a[3])
        /\ Text!Bytes3(a)[3] = ByteOf(2, a[3], a[4])
    BY DEF Text!Bytes3, ByteOf
  <2>2. j = 0 \/ j = 1 \/ j = 2
    OBVIOUS
  <2>3. QED
    BY <2>1, <2>2
<1>2. j + 1 \in 1 .. i /\ j + 2 \in 1 .. i
  OBVIOUS
<1>3. ByteOf(j, a[j + 1], a[j + 2]) \in Octets
  BY <1>2, ByteTypes
<1>4. DecodedByte(s, 3 * g + j + 1) = ByteOf(j, s[4 * g + j + 1], s[4 * g + j + 2])
  <2>1. ((3 * g + j + 1) - 1) \div 3 = g /\ ((3 * g + j + 1) - 1) % 3 = j
    OBVIOUS
  <2>2. QED
    BY <2>1 DEF DecodedByte
<1>5. a[j + 1] = s[4 * g + j + 1] /\ a[j + 2] = s[4 * g + j + 2]
  <2>1. 4 * g + (j + 1) = 4 * g + j + 1 /\ 4 * g + (j + 2) = 4 * g + j + 2
    OBVIOUS
  <2>2. QED
    BY <1>2, <2>1
<1>6. QED
  BY <1>1, <1>3, <1>4, <1>5

\* Bytes that are appended where the decoding has them.
LEMMA AppendBytes ==
  ASSUME NEW s, NEW m \in Nat, NEW l \in Nat, NEW t, NEW c,
         BytesFrom(s, 0, t, m), BytesFrom(s, m, c, l)
  PROVE  BytesFrom(s, 0, t \o c, m + l)
<1> DEFINE u == t \o c
<1>1. /\ u \in Seq(Octets) /\ Len(u) = m + l
      /\ \A n \in 1 .. m : u[n] = t[n]
      /\ \A n \in m + 1 .. m + l : u[n] = c[n - m]
  <2>1. t \in Seq(Octets) /\ Len(t) = m /\ c \in Seq(Octets) /\ Len(c) = l
    BY DEF BytesFrom
  <2>2. /\ u \in Seq(Octets) /\ Len(u) = Len(t) + Len(c)
        /\ \A n \in 1 .. Len(t) : u[n] = t[n]
        /\ \A n \in Len(t) + 1 .. Len(t) + Len(c) : u[n] = c[n - Len(t)]
    BY <2>1, Concatenated
  <2> HIDE DEF u
  <2>3. QED
    BY <2>1, <2>2, SMTT(30)
<1> HIDE DEF u
<1>2. ASSUME NEW n \in 1 .. m + l
      PROVE  u[n] = DecodedByte(s, 0 + n)
  <2>1. CASE n <= m
    <3>1. n \in 1 .. m
      BY <2>1
    <3>2. QED
      BY <1>1, <3>1 DEF BytesFrom
  <2>2. CASE ~(n <= m)
    <3>1. n \in m + 1 .. m + l /\ n - m \in 1 .. l /\ m + (n - m) = 0 + n
      BY <2>2
    <3>2. c[n - m] = DecodedByte(s, m + (n - m))
      BY <3>1 DEF BytesFrom
    <3>3. QED
      BY <1>1, <3>1, <3>2
  <2>3. QED
    BY <2>1, <2>2
<1>3. QED
  BY <1>1, <1>2 DEF u, BytesFrom

\* BytesAre in these words.
LEMMA BytesSoFar ==
  ASSUME NEW m \in Nat, ret \in Seq(Octets)
  PROVE  BytesAre(m) <=> BytesFrom(argument, 0, ret, m)
<1>1. \A n \in 1 .. m : 0 + n = n
  OBVIOUS
<1>2. QED
  BY <1>1 DEF BytesAre, BytesFrom

\* DecodeChar
LEMMA CharTaken ==
  ASSUME TextInv, Text!DecodeChar
  PROVE  TextInv'
<1> DEFINE e == argument[in_ + 1]
           i == Append(char_array, e)
           g == in_ \div 4
<1>1. /\ pc = "decode" /\ in_ < Len(argument) /\ e < Text!Pad /\ in_' = in_ + 1
      /\ pc' = pc /\ argument' = argument /\ encoded' = encoded
      /\ IF Text!IsGroup(i, 4) THEN char_array' = <<>> /\ ret' = ret \o Text!Bytes3(i)
         ELSE char_array' = i /\ ret' = ret
  BY DEF Text!DecodeChar, Text!AtDigit
<1>2. /\ argument \in Seq(Characters) /\ in_ \in Nat /\ Len(argument) \in Nat
      /\ char_array \in Seq(Sextets) /\ ret \in Seq(Octets)
      /\ e \in Characters /\ in_' \in 0 .. Len(argument')
  BY <1>1 DEF TextInv, TextTypes
<1>3. e \in Sextets
  <2>1. e \in 0 .. 65 /\ e < 64
    BY <1>1, <1>2 DEF Characters, Text!Pad
  <2> HIDE DEF e
  <2>2. e \in 0 .. 63
    BY <2>1
  <2>3. QED
    BY <2>2 DEF Sextets
<1>4. Decoding
  BY <1>1 DEF TextInv
<1>5. Held'
  BY <1>1 DEF TextInv, Held
<1>6. Text!is_base64_string(argument)' /\ DigitsTaken'
  <2>1. Text!is_base64_string(argument)'
    BY <1>1, <1>4 DEF Decoding, Text!is_base64_string
  <2>2. \A k \in 1 .. in_ + 1 : k \in 1 .. in_ \/ k = in_ + 1
    BY <1>2
  <2>3. QED
    BY <1>1, <1>3, <1>4, <2>1, <2>2 DEF Decoding, DigitsTaken
<1>7. Text!IsGroup(i, 4) <=> Len(char_array) + 1 = 4
  <2>1. Len(i) = Len(char_array) + 1 /\ Len(char_array) \in Nat
    BY <1>2, <1>3
  <2> HIDE DEF i
  <2>2. Text!IsGroup(i, 4) <=> Len(i) = 4
    BY DEF Text!IsGroup
  <2>3. QED
    BY <2>1, <2>2
<1> HIDE DEF e
<1>8. CASE ~Text!IsGroup(i, 4)
  <2>1. /\ Len(char_array) + 1 # 4 /\ char_array' = i /\ ret' = ret
    <3>1. char_array' = i /\ ret' = ret
      BY <1>1, <1>8, Zenon
    <3>2. QED
      BY <1>7, <1>8, <3>1
  <2>2. Collected(4)' /\ in_' \div 4 = in_ \div 4 /\ char_array' \in Seq(Sextets)
    BY <1>1, <1>2, <1>3, <1>4, <2>1, CollectMore DEF Decoding, e
  <2>3. BytesAre(3 * (in_ \div 4))'
    BY <1>1, <1>4, <2>1, <2>2 DEF Decoding, BytesAre
  <2>4. Decoding'
    BY <1>6, <2>2, <2>3 DEF Decoding
  <2>5. TextTypes'
    BY <1>1, <1>2, <2>1, <2>2 DEF TextTypes
  <2>6. QED
    BY <1>1, <1>5, <2>4, <2>5 DEF TextInv
<1>9. CASE Text!IsGroup(i, 4)
  <2>1. Len(char_array) + 1 = 4 /\ char_array' = <<>> /\ ret' = ret \o Text!Bytes3(i)
    <3>1. char_array' = <<>> /\ ret' = ret \o Text!Bytes3(i)
      BY <1>1, <1>9, Zenon
    <3>2. QED
      BY <1>7, <1>9, <3>1
  <2>2. /\ Collected(4)' /\ in_' \div 4 = g + 1 /\ in_ + 1 = 4 * (g + 1)
        /\ \A k \in 1 .. Len(char_array) : char_array[k] = argument[4 * g + k]
        /\ g \in Nat
    BY <1>1, <1>2, <1>4, <2>1, CollectLast DEF Decoding
  <2>3. BytesAre(3 * (in_ \div 4)) /\ 3 * (in_ \div 4) = 3 * g
    BY <1>4 DEF Decoding
  <2> HIDE DEF g
  <2>4. \A k \in 1 .. 4 : i[k] = argument[4 * g + k] /\ i[k] \in Sextets
    <3>1. /\ \A n \in 1 .. Len(char_array) : i[n] = char_array[n] /\ char_array[n] \in Sextets
          /\ i[Len(char_array) + 1] = e
      BY <1>2, <1>3, Appended
    <3>2. Len(char_array) \in Nat
      BY <1>2
    <3> HIDE DEF i
    <3>3. ASSUME NEW k \in 1 .. 4
          PROVE  i[k] = argument[4 * g + k] /\ i[k] \in Sextets
      <4>1. CASE k = 4
        <5>1. i[k] = e /\ 4 * g + k = in_ + 1
          BY <1>2, <2>1, <2>2, <3>1, <4>1
        <5>2. QED
          BY <1>3, <5>1 DEF e
      <4>2. CASE k # 4
        <5>1. k \in 1 .. Len(char_array)
          BY <2>1, <3>2, <4>2
        <5>2. QED
          BY <2>2, <3>1, <5>1
      <4>3. QED
        BY <4>1, <4>2
    <3>4. QED
      BY <3>3
  <2> DEFINE c == Text!Bytes3(i)
  <2>5. \A j \in 0 .. 2 : c[j + 1] = DecodedByte(argument, 3 * g + j + 1) /\ c[j + 1] \in Octets
    <3> HIDE DEF i
    <3>1. ASSUME NEW j \in 0 .. 2
          PROVE  /\ Text!Bytes3(i)[j + 1] = DecodedByte(argument, 3 * g + j + 1)
                 /\ Text!Bytes3(i)[j + 1] \in Octets
      <4>1. 4 \in 0 .. 4 /\ j + 2 <= 4
        OBVIOUS
      <4>2. QED
        BY <1>2, <2>2, <2>4, <4>1, GroupBytes
    <3>2. QED
      BY <3>1
  <2>6. c \in Seq(Octets) /\ Len(c) = 3
    <3>1. \A x, y, z \in Octets : <<x, y, z>> \in Seq(Octets) /\ Len(<<x, y, z>>) = 3
      OBVIOUS
    <3>2. c = <<c[1], c[2], c[3]>>
      BY DEF Text!Bytes3
    <3> HIDE DEF c
    <3>3. c[0 + 1] \in Octets /\ c[1 + 1] \in Octets /\ c[2 + 1] \in Octets
      BY <2>5
    <3>4. c[1] \in Octets /\ c[2] \in Octets /\ c[3] \in Octets
      BY <3>3
    <3>5. <<c[1], c[2], c[3]>> \in Seq(Octets) /\ Len(<<c[1], c[2], c[3]>>) = 3
      BY <3>1, <3>4
    <3>6. QED
      BY <3>2, <3>5, Zenon
  <2> HIDE DEF c, i
  <2>7. \A j \in 1 .. 3 : c[j] = DecodedByte(argument, 3 * g + j)
    <3>1. \A j \in 1 .. 3 : j - 1 \in 0 .. 2 /\ (j - 1) + 1 = j /\ 3 * g + (j - 1) + 1 = 3 * g + j
      BY <2>2
    <3>2. QED
      BY <2>5, <3>1
  <2>8. 3 * g \in Nat /\ 3 \in Nat /\ 3 * (in_' \div 4) = 3 * g + 3 /\ 3 * g + 3 \in Nat
    BY <2>2
  <2>9. BytesFrom(argument, 0, ret, 3 * g) /\ BytesFrom(argument, 3 * g, c, 3)
    <3>1. BytesFrom(argument, 0, ret, 3 * g)
      BY <1>2, <2>3, <2>8, BytesSoFar
    <3>2. QED
      BY <2>6, <2>7, <3>1 DEF BytesFrom
  <2>10. BytesFrom(argument, 0, ret \o c, 3 * g + 3)
    BY <2>8, <2>9, AppendBytes, Zenon
  <2>11. ret' = ret \o c /\ ret' \in Seq(Octets)
    BY <2>1, <2>10 DEF c, BytesFrom
  <2>12. BytesAre(3 * (in_ \div 4))'
    <3>1. PICK k, r : k = 3 * g + 3 /\ r = ret \o c
      OBVIOUS
    <3>2. BytesFrom(argument, 0, r, k)
      BY <2>10, <3>1
    <3>3. Len(r) = k /\ \A n \in 1 .. k : r[n] = DecodedByte(argument, n)
      BY <2>8, <3>1, <3>2 DEF BytesFrom
    <3>4. ret' = r /\ 3 * (in_' \div 4) = k /\ argument' = argument
      BY <1>1, <2>8, <2>11, <3>1
    <3>5. QED
      BY <3>3, <3>4 DEF BytesAre, DecodedByte
  <2>13. Decoding'
    BY <1>6, <2>2, <2>12 DEF Decoding
  <2>14. char_array' \in Seq(Sextets)
    BY <2>1
  <2>15. TextTypes'
    BY <1>1, <1>2, <2>11, <2>14 DEF TextTypes
  <2>16. QED
    BY <1>1, <1>5, <2>13, <2>15 DEF TextInv
<1>10. QED
  BY <1>8, <1>9

\* The end of base64_decode.
LEMMA BytesTaken ==
  ASSUME TextInv, Text!DecodeTail
  PROVE  TextInv'
<1> DEFINE g == in_ \div 4
           i == Len(char_array)
           npos == [k \in 1 .. 4 - i |-> Text!npos]
           whole == char_array \o npos
           c == Text!Bytes3(whole)
           l == IF i = 0 THEN 0 ELSE i - 1
           rest == SubSeq(c, 1, i - 1)
<1>1. /\ pc = "decode" /\ ~Text!AtDigit /\ in_' = in_ /\ argument' = argument
      /\ ret' = ret \o rest
      /\ encoded' = encoded /\ pc' = "decoded" /\ char_array' = <<>>
  BY DEF Text!DecodeTail
<1>2. /\ argument \in Seq(Characters) /\ in_ \in 0 .. Len(argument) /\ in_ \in Nat
      /\ Len(argument) \in Nat
      /\ char_array \in Seq(Sextets) /\ ret \in Seq(Octets) /\ Decoding
  BY <1>1 DEF TextInv, TextTypes
<1>3. g \in Nat /\ i \in 0 .. 3 /\ in_ = 4 * g + i /\ 4 * g + i <= Len(argument)
  <2>1. i = in_ % 4
    BY <1>2 DEF Decoding, Collected
  <2> HIDE DEF i
  <2>2. QED
    BY <1>2, <2>1
<1>4. /\ Len(ret) = 3 * g /\ \A n \in 1 .. 3 * g : ret[n] = DecodedByte(argument, n)
      /\ \A k \in 1 .. i : char_array[k] = argument[4 * g + k] /\ char_array[k] \in Sextets
  <2>1. BytesAre(3 * g) /\ Collected(4)
    BY <1>2 DEF Decoding
  <2>2. \A k \in 1 .. i : char_array[k] \in Sextets
    BY <1>2
  <2>3. QED
    BY <2>1, <2>2 DEF BytesAre, Collected
<1>5. \A k \in 1 .. i : whole[k] = char_array[k]
  <2>1. npos \in Seq(Octets) /\ char_array \in Seq(Octets)
    <3>1. Sextets \subseteq Octets /\ Text!npos \in Octets
      BY DEF Sextets, Octets, Text!npos
    <3>2. npos \in Seq(Octets)
      <4> HIDE DEF i
      <4>1. QED
        BY <1>3, <3>1
    <3>3. QED
      BY <1>2, <3>1, <3>2
  <2> HIDE DEF npos
  <2>2. QED
    BY <2>1, Concatenated
<1> HIDE DEF g
<1>6. \A j \in 0 .. 2 : j + 2 <= i =>
          /\ c[j + 1] = DecodedByte(argument, 3 * g + j + 1) /\ c[j + 1] \in Octets
  <2>1. \A k \in 1 .. i : whole[k] = argument[4 * g + k] /\ whole[k] \in Sextets
    BY <1>4, <1>5
  <2>2. i \in 0 .. 4
    BY <1>3
  <2> HIDE DEF i, whole
  <2>3. QED
    BY <1>2, <1>3, <2>1, <2>2, GroupBytes
<1>7. /\ rest \in Seq(Octets) /\ Len(rest) = l /\ l \in Nat
      /\ \A j \in 1 .. l : rest[j] = DecodedByte(argument, 3 * g + j)
  <2>1. Len(c) = 3 /\ c \in Seq({c[1], c[2], c[3]})
    <3>1. \A x, y, z : Len(<<x, y, z>>) = 3 /\ <<x, y, z>> \in Seq({x, y, z})
      OBVIOUS
    <3>2. c = <<c[1], c[2], c[3]>>
      BY DEF Text!Bytes3
    <3> HIDE DEF c
    <3>3. QED
      BY <3>1, <3>2, Zenon
  <2>2. l \in Nat /\ \A j \in 1 .. l : j - 1 \in 0 .. 2 /\ (j - 1) + 2 <= i
                       /\ (j - 1) + 1 = j /\ 3 * g + (j - 1) + 1 = 3 * g + j
    <3> HIDE DEF i
    <3>1. QED
      BY <1>3
  <2> HIDE DEF c, i
  <2>3. Len(rest) = l /\ rest \in Seq({c[1], c[2], c[3]}) /\ \A j \in 1 .. l : rest[j] = c[j]
    BY <1>3, <2>1
  <2> HIDE DEF rest, l
  <2>4. \A j \in 1 .. l : c[j] = DecodedByte(argument, 3 * g + j) /\ c[j] \in Octets
    BY <1>6, <2>2
  <2>5. rest \in Seq(Octets)
    BY <2>3, <2>4, ElementsType
  <2>6. QED
    BY <2>2, <2>3, <2>4, <2>5
<1>8. 3 * g + l = (6 * in_) \div 8
  <2> HIDE DEF i
  <2>1. i = 0 \/ i = 1 \/ i = 2 \/ i = 3
    BY <1>3
  <2>2. QED
    BY <1>3, <2>1
<1> HIDE DEF i, rest, l, c, whole, npos
<1>9. 3 * g \in Nat /\ \A n \in Nat : 0 + n = n
  BY <1>3
<1>10. BytesFrom(argument, 0, ret, 3 * g) /\ BytesFrom(argument, 3 * g, rest, l)
  <2>1. BytesFrom(argument, 0, ret, 3 * g)
    BY <1>2, <1>4, <1>9 DEF BytesFrom
  <2>2. QED
    BY <1>7, <2>1 DEF BytesFrom
<1>11. BytesFrom(argument, 0, ret \o rest, 3 * g + l) /\ ret \o rest \in Seq(Octets)
  <2>1. BytesFrom(argument, 0, ret \o rest, 3 * g + l)
    BY <1>7, <1>9, <1>10, AppendBytes, Zenon
  <2>2. QED
    BY <2>1 DEF BytesFrom
<1>12. Decoded'
  <2>1. BytesAre((6 * in_) \div 8)'
    <3>1. \A n \in 1 .. (6 * in_) \div 8 : 0 + n = n
      OBVIOUS
    <3>2. QED
      BY <1>1, <1>8, <1>11, <3>1 DEF BytesAre, BytesFrom, DecodedByte
  <2>2. Text!is_base64_string(argument)' /\ DigitsTaken'
    BY <1>1, <1>2 DEF Decoding, Text!is_base64_string, DigitsTaken
  <2>3. in_ = Len(argument) \/ argument[in_ + 1] = Text!Pad
    <3>1. SUFFICES ASSUME in_ < Len(argument)
                   PROVE  argument[in_ + 1] = Text!Pad
      BY <1>2
    <3>2. argument[in_ + 1] \in Characters /\ ~(argument[in_ + 1] < Text!Pad)
      BY <1>1, <1>2, <3>1 DEF Text!AtDigit
    <3>3. argument[in_ + 1] # Text!Foreign
      <4>1. in_ + 1 \in 1 .. Len(argument)
        BY <1>2, <3>1
      <4>2. QED
        BY <1>2, <4>1 DEF Decoding, Text!is_base64_string
    <3>4. QED
      BY <3>2, <3>3 DEF Characters, Text!Pad, Text!Foreign
  <2>4. QED
    BY <1>1, <2>1, <2>2, <2>3 DEF Decoded
<1>13. Held'
  BY <1>1 DEF TextInv, Held
<1>14. TextTypes'
  <2>1. \A S : char_array' \in Seq(S)
    BY <1>1
  <2>2. ret' \in Seq(Octets)
    BY <1>1, <1>11
  <2>3. in_' \in 0 .. Len(argument')
    BY <1>1, <1>2
  <2>4. QED
    BY <1>1, <1>2, <2>1, <2>2, <2>3 DEF TextTypes
<1>15. QED
  BY <1>1, <1>12, <1>13, <1>14 DEF TextInv

LEMMA TextInit ==
  ASSUME Init
  PROVE  TextInv
<1>1. /\ pc = "idle" /\ argument = <<>> /\ in_ = 0 /\ char_array = <<>> /\ ret = <<>>
      /\ encoded = [string |-> <<>>, text |-> <<>>]
  BY DEF Init, Text!Init, Text!Nothing
<1>2. TextTypes
  <2>1. Len(<<>>) = 0 /\ \A S : <<>> \in Seq(S)
    OBVIOUS
  <2>2. QED
    BY <1>1, <2>1 DEF TextTypes
<1>3. Held
  <2>1. encoded.string = <<>> /\ encoded.text = <<>> /\ \A S : <<>> \in Seq(S)
    BY <1>1
  <2>2. QED
    BY <2>1, NothingIsEncoded DEF Held
<1>4. QED
  BY <1>1, <1>2, <1>3 DEF TextInv, Text!Nothing

LEMMA TextUnchanged ==
  ASSUME TextInv, UNCHANGED textVars
  PROVE  TextInv'
<1>1. /\ pc' = pc /\ argument' = argument /\ in_' = in_ /\ char_array' = char_array
      /\ ret' = ret /\ encoded' = encoded
  BY DEF textVars
<1>2. QED
  BY <1>1 DEF TextInv, TextTypes, Held, Encoding, Decoding, Decoded, DigitsTaken, BytesAre,
              Collected, Text!is_base64_string

LEMMA TextNext ==
  ASSUME TextInv, [Next]_vars
  PROVE  TextInv'
<1>1. Bytes \subseteq Octets /\ Digits \subseteq Sextets /\ MaxBytes \in Nat /\ MaxText \in Nat
  BY ValuesAssumption DEF Text!Base64Assumption, Octets, Sextets
<1>2. CASE UNCHANGED textVars
  BY <1>2, TextUnchanged
<1>3. CASE Text!Next
  <2>1. ASSUME NEW str \in Text!BoundedSeq(Bytes, MaxBytes), Text!base64Encode(str)
        PROVE  TextInv'
    <3>1. str \in Seq(Octets)
      BY <1>1, BoundedType
    <3>2. QED
      BY <2>1, <3>1, EncodeText
  <2>2. ASSUME NEW str \in IF pc = "idle" THEN Text!Texts ELSE {encoded.text},
               Text!base64Decode(str)
        PROVE  TextInv'
    <3>1. str \in Seq(Characters)
      <4>1. CASE pc = "idle"
        <5>1. str \in Text!BoundedSeq(Digits \cup {Text!Pad, Text!Foreign}, MaxText)
          BY <4>1 DEF Text!Texts
        <5>2. Digits \cup {Text!Pad, Text!Foreign} \subseteq Characters
          BY <1>1 DEF Sextets, Characters, Text!Pad, Text!Foreign
        <5>3. QED
          BY <1>1, <5>1, <5>2, BoundedType
      <4>2. CASE pc # "idle"
        <5>1. str \in Seq(Alphabet)
          BY <4>2 DEF TextInv, Held
        <5>2. Alphabet \subseteq Characters
          BY DEF Alphabet, Characters
        <5>3. QED
          BY <5>1, <5>2
      <4>3. QED
        BY <4>1, <4>2
    <3>2. QED
      BY <2>2, <3>1, DecodeText
  <2>3. QED
    BY <1>3, <2>1, <2>2, ByteTaken, TextTaken, CharTaken, BytesTaken DEF Text!Next
<1>4. QED
  BY <1>2, <1>3 DEF Next, OfNumbers, OfDigests, OfTexts, vars

-----------------------------------------------------------------------------
(* What TextInv says of the texts that Lua gets.                             *)

LEMMA TextType ==
  ASSUME TextInv
  PROVE  Text!TypeOK
<1>1. /\ pc \in {"idle", "encode", "encoded", "decode", "decoded"}
      /\ in_ \in 0 .. Len(argument) /\ char_array \in Seq(IF pc = "encode" THEN Octets ELSE Sextets)
      /\ ret \in Seq(Octets)
  BY DEF TextInv, TextTypes
<1>2. Len(char_array) < IF pc = "encode" THEN 3 ELSE 4
  <2>1. in_ \in Nat
    <3>1. Len(argument) \in Nat
      BY DEF TextInv, TextTypes
    <3>2. QED
      BY <1>1, <3>1
  <2>2. CASE pc = "encode"
    <3>1. Len(char_array) = in_ % 3
      BY <2>2 DEF TextInv, Encoding, Collected
    <3>2. QED
      BY <2>1, <2>2, <3>1
  <2>3. CASE pc = "decode"
    <3>1. Len(char_array) = in_ % 4
      BY <2>3 DEF TextInv, Decoding, Collected
    <3>2. QED
      BY <2>1, <2>3, <3>1
  <2>4. CASE pc \notin {"encode", "decode"}
    <3>1. Len(char_array) = 0
      BY <2>4 DEF TextInv
    <3>2. QED
      BY <2>4, <3>1
  <2>5. QED
    BY <2>2, <2>3, <2>4
<1>3. \A k \in 1 .. Len(ret) : ret[k] \in 0 .. 255
  <2>1. \A k \in 1 .. Len(ret) : ret[k] \in Octets
    BY <1>1
  <2>2. QED
    BY <2>1 DEF Octets
<1>4. char_array \in Seq(IF pc = "encode" THEN 0 .. 255 ELSE 0 .. 63)
  BY <1>1 DEF Octets, Sextets
<1>5. QED
  BY <1>1, <1>2, <1>3, <1>4 DEF Text!TypeOK

LEMMA TextIsAccepted ==
  ASSUME TextInv
  PROVE  Text!EncodedIsAccepted
<1>1. SUFFICES ASSUME pc = "encoded"
               PROVE  LET digits == Text!Bits(Text!DigitsOf(ret), 6)
                          bits == Text!Bits(argument, 8)
                      IN  /\ Text!is_base64_string(ret)
                          /\ Len(digits) - Len(bits) \in {0, 2, 4}
                          /\ \A k \in 1 .. Len(digits) :
                                 digits[k] = IF k <= Len(bits) THEN bits[k] ELSE 0
  BY DEF Text!EncodedIsAccepted
<1> DEFINE d == DigitCount(argument)
           shown == SubSeq(ret, 1, d)
           digits == Text!Bits(shown, 6)
           bits == Text!Bits(argument, 8)
<1>2. argument \in Seq(Octets) /\ ret \in Seq(Alphabet) /\ IsEncoding(argument, ret)
  <2>1. encoded.string = argument /\ encoded.text = ret
    BY <1>1 DEF TextInv
  <2>2. QED
    BY <2>1 DEF TextInv, Held
<1>3. /\ d \in 0 .. Len(ret) /\ Text!DigitsOf(ret) = shown /\ Text!is_base64_string(ret)
  BY <1>2, EncodingDigits
<1>4. d \in Nat /\ Len(argument) \in Nat /\ Len(shown) = d
  <2>1. d \in Nat /\ d <= Len(ret)
    BY <1>2, <1>3
  <2> HIDE DEF d
  <2>2. QED
    BY <1>2, <2>1
<1>5. Len(digits) = 6 * d /\ Len(bits) = 8 * Len(argument)
  <2> HIDE DEF d, shown
  <2>1. QED
    BY <1>4 DEF Text!Bits
<1>6. 6 * d - 8 * Len(argument) \in {0, 2, 4}
  BY <1>4 DEF DigitCount
<1>7. \A k \in 1 .. 6 * d : digits[k] = IF k <= 8 * Len(argument) THEN bits[k] ELSE 0
  BY <1>2, EncodedBits
<1> HIDE DEF digits, bits, d
<1>8. /\ Len(digits) - Len(bits) \in {0, 2, 4}
      /\ \A k \in 1 .. Len(digits) : digits[k] = IF k <= Len(bits) THEN bits[k] ELSE 0
  BY <1>5, <1>6, <1>7
<1>9. QED
  BY <1>3, <1>8 DEF digits, bits

LEMMA TextIsThePrefix ==
  ASSUME TextInv
  PROVE  Text!DecodedIsThePrefix
<1> DEFINE digits == Text!DigitsOf(argument)
           whole == CASE ~Text!is_base64_string(argument) -> 0
                      [] pc = "decode" -> 3 * (in_ \div 4)
                      [] OTHER -> (6 * Len(digits)) \div 8
<1>1. SUFFICES ASSUME pc \in {"decode", "decoded"}
               PROVE  /\ Len(ret) = whole
                      /\ \A k \in 1 .. 8 * whole :
                             Text!Bits(ret, 8)[k] = Text!Bits(digits, 6)[k]
  BY DEF Text!DecodedIsThePrefix
<1>2. /\ argument \in Seq(Characters) /\ in_ \in 0 .. Len(argument) /\ ret \in Seq(Octets)
      /\ in_ \in Nat /\ Len(argument) \in Nat
  BY <1>1 DEF TextInv, TextTypes
<1>3. CASE ~Text!is_base64_string(argument)
  <2>1. ret = <<>>
    BY <1>1, <1>3 DEF TextInv, Decoding, Decoded
  <2>2. whole = 0
    <3>1. pc # "decode"
      BY <1>3 DEF TextInv, Decoding
    <3>2. QED
      BY <1>3, <3>1
  <2> HIDE DEF whole, digits
  <2>3. QED
    BY <2>1, <2>2
<1>4. CASE Text!is_base64_string(argument)
  <2>1. PICK d \in 0 .. Len(argument) :
           /\ \A k \in 1 .. d : argument[k] # Text!Pad
           /\ d = Len(argument) \/ argument[d + 1] = Text!Pad
    BY <1>2, DigitsExist
  <2>2. d \in Nat /\ digits = SubSeq(argument, 1, d) /\ Len(digits) = d
    <3>1. digits = SubSeq(argument, 1, d)
      BY <1>2, <2>1, DigitsAre
    <3> HIDE DEF digits
    <3>2. QED
      BY <1>2, <2>1, <3>1
  <2>3. \A k \in 1 .. d : argument[k] \in Sextets
    <3>1. \A k \in 1 .. d : k \in 1 .. Len(argument)
      BY <1>2, <2>2
    <3>2. \A k \in 1 .. d : argument[k] # Text!Foreign
      BY <1>4, <3>1 DEF Text!is_base64_string
    <3>3. \A x \in Characters : x # Text!Pad /\ x # Text!Foreign => x \in Sextets
      BY DEF Characters, Sextets, Text!Pad, Text!Foreign
    <3>4. QED
      BY <1>2, <2>1, <3>1, <3>2, <3>3
  <2>4. \A x \in Sextets : x # Text!Pad
    BY DEF Sextets, Text!Pad
  <2>5. DigitsTaken /\ in_ <= d
    <3>1. DigitsTaken
      BY <1>1, <1>4 DEF TextInv, Decoding, Decoded
    <3>2. ASSUME ~(in_ <= d)
          PROVE  FALSE
      <4>1. d + 1 \in 1 .. in_ /\ d # Len(argument)
        BY <1>2, <2>2, <3>2
      <4>2. QED
        BY <2>1, <2>4, <3>1, <4>1 DEF DigitsTaken
    <3>3. QED
      BY <3>1, <3>2
  <2>6. /\ whole \in Nat /\ 8 * whole <= 6 * d
        /\ Len(ret) = whole /\ \A n \in 1 .. whole : ret[n] = DecodedByte(argument, n)
    <3>1. CASE pc = "decode"
      <4>1. whole = 3 * (in_ \div 4)
        BY <1>4, <3>1
      <4>2. BytesAre(3 * (in_ \div 4))
        BY <3>1 DEF TextInv, Decoding
      <4> HIDE DEF whole
      <4>3. whole \in Nat /\ 8 * whole <= 6 * d
        BY <1>2, <2>2, <2>5, <4>1
      <4>4. QED
        BY <4>1, <4>2, <4>3 DEF BytesAre
    <3>2. CASE pc = "decoded"
      <4>1. /\ BytesAre((6 * in_) \div 8)
            /\ in_ = Len(argument) \/ argument[in_ + 1] = Text!Pad
        BY <1>4, <3>2 DEF TextInv, Decoded
      <4>2. in_ = d
        <5>1. ASSUME in_ # d
              PROVE  FALSE
          <6>1. in_ + 1 \in 1 .. d /\ in_ # Len(argument)
            BY <1>2, <2>2, <2>5, <5>1
          <6>2. QED
            BY <2>1, <4>1, <6>1
        <5>2. QED
          BY <5>1
      <4>3. whole = (6 * d) \div 8
        <5>1. whole = (6 * Len(digits)) \div 8
          BY <1>4, <3>2
        <5> HIDE DEF whole, digits
        <5>2. QED
          BY <2>2, <5>1
      <4> HIDE DEF whole
      <4>4. whole \in Nat /\ 8 * whole <= 6 * d
        BY <2>2, <4>3
      <4>5. QED
        BY <4>1, <4>2, <4>3, <4>4 DEF BytesAre
    <3>3. QED
      BY <1>1, <3>1, <3>2
  <2> HIDE DEF whole, digits
  <2>7. ASSUME NEW k \in 1 .. 8 * whole
        PROVE  Text!Bits(ret, 8)[k] = Text!Bits(digits, 6)[k]
    <3>1. 8 * Len(ret) <= 6 * d /\ k \in 1 .. 8 * Len(ret)
      BY <2>6
    <3>2. \A n \in 1 .. Len(ret) : ret[n] = DecodedByte(argument, n)
      BY <2>6
    <3>3. QED
      BY <1>2, <2>2, <2>3, <3>1, <3>2, DecodedBits
  <2>8. QED
    BY <2>6, <2>7
<1>5. QED
  BY <1>3, <1>4

LEMMA TextReadsBack ==
  ASSUME TextInv
  PROVE  Text!ReadsBack
<1> DEFINE s == encoded.string
<1>1. SUFFICES ASSUME pc = "decoded", argument = encoded.text
               PROVE  ret = s
  BY DEF Text!ReadsBack
<1>2. /\ s \in Seq(Octets) /\ argument \in Seq(Alphabet) /\ IsEncoding(s, argument)
      /\ ret \in Seq(Octets) /\ in_ \in 0 .. Len(argument) /\ in_ \in Nat /\ Len(argument) \in Nat
  <2>1. s \in Seq(Octets) /\ argument \in Seq(Alphabet) /\ IsEncoding(s, argument)
    BY <1>1 DEF TextInv, Held
  <2>2. ret \in Seq(Octets) /\ in_ \in 0 .. Len(argument)
    BY DEF TextInv, TextTypes
  <2> HIDE DEF s
  <2>3. QED
    BY <2>1, <2>2
<1> HIDE DEF s
<1>3. /\ DigitCount(s) \in 0 .. Len(argument) /\ Text!is_base64_string(argument)
      /\ \A n \in 1 .. Len(argument) :
             IF n <= DigitCount(s) THEN argument[n] \in Sextets ELSE argument[n] = Text!Pad
  BY <1>2, EncodingDigits
<1>4. /\ DigitsTaken /\ BytesAre((6 * in_) \div 8)
      /\ in_ = Len(argument) \/ argument[in_ + 1] = Text!Pad
  BY <1>1, <1>3 DEF TextInv, Decoded
<1>5. in_ = DigitCount(s)
  <2> DEFINE d == DigitCount(s)
  <2>1. d \in Nat /\ d <= Len(argument)
    BY <1>2, <1>3
  <2>2. \A x \in Sextets : x # Text!Pad
    BY DEF Sextets, Text!Pad
  <2> HIDE DEF d
  <2>3. ASSUME in_ < d
        PROVE  FALSE
    <3>1. in_ + 1 \in 1 .. Len(argument) /\ in_ + 1 <= d /\ in_ # Len(argument)
      BY <1>2, <2>1, <2>3
    <3>2. argument[in_ + 1] \in Sextets
      BY <1>3, <3>1 DEF d
    <3>3. QED
      BY <1>4, <2>2, <3>1, <3>2
  <2>4. ASSUME d < in_
        PROVE  FALSE
    <3>1. d + 1 \in 1 .. Len(argument) /\ d + 1 \in 1 .. in_ /\ ~(d + 1 <= d)
      BY <1>2, <2>1, <2>4
    <3>2. argument[d + 1] = Text!Pad
      BY <1>3, <3>1 DEF d
    <3>3. argument[d + 1] \in Sextets
      BY <1>4, <3>1 DEF DigitsTaken
    <3>4. QED
      BY <2>2, <3>2, <3>3
  <2>5. QED
    BY <1>2, <2>1, <2>3, <2>4 DEF d
<1>6. /\ (6 * DigitCount(s)) \div 8 = Len(s)
      /\ \A n \in 1 .. Len(s) : DecodedByte(argument, n) = s[n]
  BY <1>2, EncodingReadsBack
<1>7. Len(ret) = Len(s) /\ \A n \in 1 .. Len(s) : ret[n] = s[n]
  BY <1>4, <1>5, <1>6 DEF BytesAre
<1>8. QED
  <2>1. \A t, u \in Seq(Octets) :
           Len(t) = Len(u) /\ (\A n \in 1 .. Len(u) : t[n] = u[n]) => t = u
    OBVIOUS
  <2>2. QED
    BY <1>2, <1>7, <2>1

\* Lua reads back every string it encodes, whatever its length and its bytes; and
\* of any text the decoder gives the whole bytes before the first '=' and nothing
\* else, one group at a time (base64_encode, base64_decode, is_base64_string and
\* their callers in Client.cpp).
THEOREM EveryTextReadsBack == Spec => []TextsReadBack
<1>1. Init => TextInv
  BY TextInit
<1>2. TextInv /\ [Next]_vars => TextInv'
  BY TextNext
<1>3. TextInv => TextsReadBack
  BY TextType, TextIsAccepted, TextIsThePrefix, TextReadsBack DEF TextsReadBack
<1>4. QED
  BY <1>1, <1>2, <1>3, PTL DEF Spec

-----------------------------------------------------------------------------
(* Division by numbers that are not known.                                   *)

\* Quotient and remainder of an integer.
LEMMA DivMod ==
  ASSUME NEW n \in Nat \ {0}, NEW a \in Int
  PROVE  /\ a \div n \in Int /\ a % n \in 0 .. n - 1
         /\ a = n * (a \div n) + (a % n)
OBVIOUS

\* There is one quotient and one remainder.
LEMMA DivisionUnique ==
  ASSUME NEW n \in Nat \ {0}, NEW q \in Int, NEW s \in 0 .. n - 1,
         NEW a \in Int, a = n * q + s
  PROVE  a \div n = q /\ a % n = s
<1> DEFINE d == a \div n
           r == a % n
<1>1. d \in Int /\ r \in 0 .. n - 1 /\ a = n * d + r
  BY DivMod
<1> HIDE DEF d, r
<1>2. n * (q - d) = r - s /\ q - d \in Int
  BY <1>1
<1>3. ASSUME NEW k \in Int, k # 0, n * k < n, -n < n * k
      PROVE  FALSE
  <2>1. CASE k >= 1
    <3>1. n * k >= n
      BY <2>1
    <3>2. QED
      BY <1>3, <3>1
  <2>2. CASE k <= -1
    <3>1. n * k <= -n
      BY <2>2
    <3>2. QED
      BY <1>3, <3>1
  <2>3. QED
    BY <1>3, <2>1, <2>2
<1>4. n * (q - d) < n /\ -n < n * (q - d)
  BY <1>1, <1>2
<1>5. q - d = 0
  BY <1>2, <1>3, <1>4
<1>6. QED
  BY <1>1, <1>2, <1>5 DEF d, r

Divided(n, q, s, a) ==
    n \in Nat \ {0} /\ q \in Int /\ s \in 0 .. n - 1 /\ a \in Int /\ a = n * q + s

\* The same, of the remainder alone.
LEMMA RemainderOf ==
  ASSUME NEW n, NEW q, NEW s, NEW a, Divided(n, q, s, a)
  PROVE  a % n = s
<1>1. n \in Nat \ {0} /\ q \in Int /\ s \in 0 .. n - 1 /\ a \in Int /\ a = n * q + s
  BY DEF Divided
<1>2. QED
  BY <1>1, DivisionUnique

\* A natural number has a natural quotient.
LEMMA QuotientOfNat ==
  ASSUME NEW n \in Nat \ {0}, NEW a \in Nat
  PROVE  a \div n \in Nat /\ a % n \in 0 .. n - 1 /\ a = n * (a \div n) + (a % n)
<1> DEFINE d == a \div n
           r == a % n
<1>1. d \in Int /\ r \in 0 .. n - 1 /\ a = n * d + r
  BY DivMod
<1> HIDE DEF d, r
<1>2. ASSUME d <= -1
      PROVE  FALSE
  <2>1. n * d <= -n
    BY <1>1, <1>2
  <2>2. QED
    BY <1>1, <2>1
<1>3. QED
  BY <1>1, <1>2 DEF d, r

-----------------------------------------------------------------------------
(* The count.                                                                *)

CountIs(c, n) == c = <<(8 * n) % Word, ((8 * n) \div Word) % Word>>

\* A block is more than the count takes, and blocks divide the bits of a word.
LEMMA DigestSizes == Block \in Nat /\ Block > 2 /\ Block \in Nat \ {0} /\ Word \in Nat \ {0}
                     /\ \E w \in Nat : Word = 8 * (Block * w)
<1>1. Block \in Nat /\ Block > 2 /\ Word \in Nat /\ Word > 0 /\ Word % (8 * Block) = 0
  BY ValuesAssumption DEF MD5!DigestAssumption
<1>2. 8 * Block \in Nat \ {0}
  BY <1>1
<1>3. PICK w \in Nat : Word = (8 * Block) * w + 0
  <2>1. Word \div (8 * Block) \in Nat /\ Word = (8 * Block) * (Word \div (8 * Block)) + 0
    BY <1>1, <1>2, QuotientOfNat
  <2>2. QED
    BY <2>1
<1>4. Word = 8 * (Block * w)
  BY <1>1, <1>3
<1>5. QED
  BY <1>1, <1>4

\* What update adds keeps the count, although its low word overflows.
LEMMA CountedIs ==
  ASSUME NEW l \in Nat, NEW n \in Nat, NEW c, CountIs(c, l)
  PROVE  CountIs(MD5!Counted(c, n), l + n)
<1> DEFINE q == (8 * l) \div Word
           r == (8 * l) % Word
           p == (8 * n) \div Word
           bits == (8 * n) % Word
           carry == IF r + bits < Word THEN 0 ELSE 1
           lo == (r + bits) - Word * carry
<1>1. Word \in Nat \ {0} /\ 8 * l \in Nat /\ 8 * n \in Nat
  BY DigestSizes
<1>2. q \in Nat /\ r \in 0 .. Word - 1 /\ 8 * l = Word * q + r
  BY <1>1, QuotientOfNat
<1>3. p \in Nat /\ bits \in 0 .. Word - 1 /\ 8 * n = Word * p + bits
  BY <1>1, QuotientOfNat
<1>4. c[1] = r /\ c[2] = q % Word
  BY DEF CountIs
<1> HIDE DEF q, r, p, bits
<1>5. /\ carry \in {0, 1} /\ lo \in 0 .. Word - 1 /\ r + bits = Word * carry + lo
      /\ carry = (IF lo < bits THEN 1 ELSE 0)
  BY <1>1, <1>2, <1>3
<1>6. (r + bits) % Word = lo
  <2> HIDE DEF carry, lo
  <2>1. QED
    BY <1>1, <1>2, <1>3, <1>5, DivisionUnique
<1> HIDE DEF carry, lo
<1>7. 8 * (l + n) = Word * (q + p + carry) + lo
  <2>1. 8 * (l + n) = Word * q + Word * p + (r + bits)
    BY <1>1, <1>2, <1>3
  <2>2. Word * (q + p + carry) = Word * q + Word * p + Word * carry
    BY <1>1, <1>2, <1>3, <1>5
  <2> DEFINE a == Word * q
             b == Word * p
             e == Word * carry
             f == Word * (q + p + carry)
  <2>3. a \in Int /\ b \in Int /\ e \in Int
    BY <1>1, <1>2, <1>3, <1>5
  <2>4. 8 * (l + n) = a + b + (r + bits) /\ f = a + b + e /\ r + bits = e + lo
    BY <1>5, <2>1, <2>2
  <2> HIDE DEF a, b, e, f
  <2>5. 8 * (l + n) = f + lo
    BY <1>2, <1>3, <1>5, <2>3, <2>4
  <2>6. QED
    BY <2>5 DEF f
<1>8. (8 * (l + n)) % Word = lo /\ (8 * (l + n)) \div Word = q + p + carry
  <2> DEFINE a == 8 * (l + n)
             d == q + p + carry
  <2>1. a \in Int /\ d \in Int /\ lo \in 0 .. Word - 1 /\ a = Word * d + lo
    BY <1>1, <1>2, <1>3, <1>5, <1>7
  <2> HIDE DEF a, d
  <2>2. a % Word = lo /\ a \div Word = d
    BY <1>1, <2>1, DivisionUnique
  <2>3. QED
    BY <2>2 DEF a, d
<1>9. ((q % Word) + carry + p) % Word = (q + p + carry) % Word
  <2> DEFINE x == q \div Word
             y == q % Word
             z == (y + carry + p) \div Word
             t == (y + carry + p) % Word
  <2>1. x \in Nat /\ y \in 0 .. Word - 1 /\ q = Word * x + y
    BY <1>1, <1>2, QuotientOfNat
  <2> HIDE DEF x, y
  <2>2. z \in Nat /\ t \in 0 .. Word - 1 /\ y + carry + p = Word * z + t
    <3>1. y + carry + p \in Nat
      BY <1>1, <1>3, <1>5, <2>1
    <3>2. QED
      BY <1>1, <3>1, QuotientOfNat
  <2> HIDE DEF z, t
  <2>3. q + p + carry = Word * (x + z) + t
    <3>1. Word * (x + z) = Word * x + Word * z /\ Word * x \in Int /\ Word * z \in Int
      BY <1>1, <2>1, <2>2
    <3>2. QED
      BY <1>1, <1>3, <1>5, <2>1, <2>2, <3>1
  <2>4. (q + p + carry) % Word = t
    <3> DEFINE a == q + p + carry
               d == x + z
    <3>1. a \in Int /\ d \in Int /\ a = Word * d + t
      BY <1>2, <1>3, <1>5, <2>1, <2>2, <2>3
    <3> HIDE DEF a, d
    <3>2. a % Word = t
      BY <1>1, <2>2, <3>1, DivisionUnique
    <3>3. QED
      BY <3>2 DEF a
  <2>5. QED
    BY <2>4 DEF t, y
<1>10. MD5!Counted(c, n) = <<lo, ((q % Word) + carry + p) % Word>>
  <2>1. MD5!Counted(c, n) = <<(r + bits) % Word,
          ((q % Word) + (IF (r + bits) % Word < bits THEN 1 ELSE 0) + p) % Word>>
    BY <1>4 DEF MD5!Counted, bits, p
  <2>2. QED
    BY <1>5, <1>6, <2>1
<1>11. QED
  BY <1>8, <1>9, <1>10 DEF CountIs

\* Where in the buffer the message goes on.
LEMMA IndexIs ==
  ASSUME NEW l \in Nat, NEW c, CountIs(c, l)
  PROVE  MD5!index(c) = l % Block
<1>1. PICK w \in Nat : Word = 8 * (Block * w)
  BY DigestSizes
<1> DEFINE q == (8 * l) \div Word
           r == (8 * l) % Word
           x == l - (Block * w) * q
<1>2. q \in Nat /\ r \in 0 .. Word - 1 /\ 8 * l = Word * q + r
  <2>1. Word \in Nat \ {0} /\ 8 * l \in Nat
    BY DigestSizes
  <2>2. QED
    BY <2>1, QuotientOfNat
<1> HIDE DEF q, r
<1>3. r = 8 * x /\ x \in Int
  <2> DEFINE v == (Block * w) * q
  <2>1. v \in Nat /\ (8 * (Block * w)) * q = 8 * v
    BY <1>2, DigestSizes
  <2> HIDE DEF v
  <2>2. x = l - v
    BY DEF v
  <2>3. QED
    BY <1>1, <1>2, <2>1, <2>2
<1>4. r \div 8 = x /\ r \in Nat
  <2> HIDE DEF x
  <2>1. QED
    BY <1>2, <1>3
<1>5. x % Block = l % Block
  <2> DEFINE y == l \div Block
             z == l % Block
  <2>1. y \in Nat /\ z \in 0 .. Block - 1 /\ l = Block * y + z
    BY DigestSizes, QuotientOfNat
  <2> HIDE DEF y, z
  <2>2. x = Block * (y - w * q) + z /\ y - w * q \in Int
    BY <1>2, <2>1, DigestSizes
  <2>3. x % Block = z
    <3>1. Divided(Block, y - w * q, z, x)
      BY <1>3, <2>1, <2>2, DigestSizes DEF Divided
    <3>2. QED
      BY <3>1, RemainderOf
  <2>4. QED
    BY <2>3 DEF z
<1>6. c[1] = r
  BY DEF CountIs, r
<1>7. QED
  BY <1>4, <1>5, <1>6 DEF MD5!index

\* The two words are the length in bits.
LEMMA CountIsLength ==
  ASSUME NEW l \in Nat, NEW c, CountIs(c, l)
  PROVE  /\ c[1] + Word * c[2] = (8 * l) % (Word * Word)
         /\ c \in (0 .. Word - 1) \X (0 .. Word - 1)
<1> DEFINE q == (8 * l) \div Word
           r == (8 * l) % Word
           x == q \div Word
           y == q % Word
<1>1. Word \in Nat \ {0} /\ 8 * l \in Nat
  BY DigestSizes
<1>2. q \in Nat /\ r \in 0 .. Word - 1 /\ 8 * l = Word * q + r
  BY <1>1, QuotientOfNat
<1> HIDE DEF q, r
<1>3. x \in Nat /\ y \in 0 .. Word - 1 /\ q = Word * x + y
  BY <1>1, <1>2, QuotientOfNat
<1> HIDE DEF x, y
<1>4. 8 * l = (Word * Word) * x + (r + Word * y)
  BY <1>1, <1>2, <1>3
<1>5. r + Word * y \in 0 .. Word * Word - 1 /\ Word * Word \in Nat \ {0}
  <2> DEFINE wy == Word * y
             ww == Word * Word
  <2>1. wy >= 0 /\ wy <= Word * (Word - 1) /\ wy \in Int
    BY <1>1, <1>3
  <2>2. Word * (Word - 1) = ww - Word /\ ww >= 1 /\ ww \in Nat
    BY <1>1
  <2> HIDE DEF wy, ww
  <2>3. r + wy \in 0 .. ww - 1
    BY <1>1, <1>2, <2>1, <2>2
  <2>4. QED
    BY <2>2, <2>3 DEF wy, ww
<1>6. (8 * l) % (Word * Word) = r + Word * y
  <2> DEFINE ww == Word * Word
             s == r + Word * y
             a == 8 * l
  <2>1. s \in 0 .. ww - 1 /\ ww \in Nat \ {0} /\ a = ww * x + s /\ a \in Int /\ x \in Int
    BY <1>1, <1>3, <1>4, <1>5
  <2> HIDE DEF ww, s, a
  <2>2. a % ww = s
    BY <2>1, DivisionUnique
  <2>3. QED
    BY <2>2 DEF ww, s, a
<1>7. c = <<r, y>>
  BY DEF CountIs, r, y, q
<1>8. QED
  BY <1>2, <1>3, <1>6, <1>7

-----------------------------------------------------------------------------
(* The buffer.                                                               *)

BlockOfInts == [1 .. Block -> Int]
Base(j) == Block * j

\* The class has taken the sequence t: whole blocks of it were transformed, the
\* rest waits in the buffer.
Holds(m, t) ==
    LET q == Len(m.blocks)
        at == Len(t) - Base(q)
    IN  /\ m.blocks \in Seq(BlockOfInts) /\ m.buffer \in BlockOfInts
        /\ at \in 0 .. Block - 1
        /\ \A j \in 1 .. q : \A o \in 1 .. Block : m.blocks[j][o] = t[Base(j - 1) + o]
        /\ \A o \in 1 .. at : m.buffer[o] = t[Base(q) + o]
        /\ CountIs(m.count, Len(t))

\* The input does not fill what is left of the buffer.
IsShort(m, input) == Len(input) < Block - MD5!index(m.count)

\* Where blocks begin.
LEMMA BaseIs ==
  /\ Base(0) = 0
  /\ \A j \in Int : Base(j) \in Int /\ Base(j + 1) = Base(j) + Block
  /\ \A j, k \in Int : Base(j + k) = Base(j) + Base(k)
  /\ \A j \in Nat : Base(j) \in Nat
BY DigestSizes DEF Base

\* An earlier block ends before a later one begins.
LEMMA EarlierBase ==
  ASSUME NEW q \in Nat, NEW j \in 1 .. q
  PROVE  Base(j - 1) \in Nat /\ Base(j - 1) + Block <= Base(q)
<1>1. PICK a \in Nat, b \in Nat : a = j - 1 /\ q = (a + 1) + b
  <2> WITNESS j - 1 \in Nat, q - j \in Nat
  <2>1. QED
    OBVIOUS
<1>2. a \in Int /\ b \in Int /\ a + 1 \in Int
  BY <1>1
<1>3. /\ Base(a) \in Nat /\ Base(b) \in Nat /\ Base(a + 1) = Base(a) + Block
      /\ Base((a + 1) + b) = Base(a + 1) + Base(b)
  <2>1. Base(a) \in Nat /\ Base(b) \in Nat
    BY BaseIs
  <2>2. Base(a + 1) = Base(a) + Block
    BY <1>2, BaseIs
  <2>3. Base((a + 1) + b) = Base(a + 1) + Base(b)
    BY <1>2, BaseIs
  <2>4. QED
    BY <2>1, <2>2, <2>3
<1>4. Base(j - 1) = Base(a) /\ Base(q) = Base((a + 1) + b)
  BY <1>1
<1>5. QED
  BY <1>3, <1>4, DigestSizes

\* memcpy leaves what is before it and puts the bytes in order.
LEMMA WrittenIs ==
  ASSUME NEW b \in BlockOfInts, NEW at \in Nat, NEW bytes \in Seq(Int), at + Len(bytes) <= Block
  PROVE  LET f == MD5!Written(b, at, bytes) IN
           /\ f \in BlockOfInts
           /\ \A o \in 1 .. at : f[o] = b[o]
           /\ \A o \in 1 .. Len(bytes) : f[at + o] = bytes[o]
<1>1. Block \in Nat /\ Len(bytes) \in Nat
  BY DigestSizes
<1> DEFINE f == MD5!Written(b, at, bytes)
<1>2. f = [i \in 1 .. Block |-> IF i - at \in 1 .. Len(bytes) THEN bytes[i - at] ELSE b[i]]
  BY DEF MD5!Written
<1>3. \A i \in 1 .. Block : b[i] \in Int /\ (i - at \in 1 .. Len(bytes) => bytes[i - at] \in Int)
  BY <1>1 DEF BlockOfInts
<1>4. f \in BlockOfInts
  BY <1>2, <1>3 DEF BlockOfInts
<1> HIDE DEF f
<1>5. ASSUME NEW o \in 1 .. at
      PROVE  f[o] = b[o]
  <2>1. o \in 1 .. Block /\ ~(o - at \in 1 .. Len(bytes))
    BY <1>1
  <2>2. QED
    BY <1>2, <2>1
<1>6. ASSUME NEW o \in 1 .. Len(bytes)
      PROVE  f[at + o] = bytes[o]
  <2>1. at + o \in 1 .. Block /\ (at + o) - at = o
    BY <1>1
  <2>2. QED
    BY <1>2, <2>1
<1>7. QED
  BY <1>4, <1>5, <1>6 DEF f

\* What is in a concatenation.
LEMMA Joint ==
  ASSUME NEW S, NEW s \in Seq(S), NEW t \in Seq(S)
  PROVE  /\ s \o t \in Seq(S) /\ Len(s \o t) = Len(s) + Len(t)
         /\ \A n \in 1 .. Len(s) : (s \o t)[n] = s[n]
         /\ \A n \in 1 .. Len(t) : (s \o t)[Len(s) + n] = t[n]
<1>1. Len(s) \in Nat /\ Len(t) \in Nat
  OBVIOUS
<1>2. ASSUME NEW n \in 1 .. Len(t)
      PROVE  (s \o t)[Len(s) + n] = t[n]
  OBVIOUS
<1>3. QED
  BY <1>2

\* f is the slice of s of length n after the first a.
IsSlice(f, S, s, a, n) ==
    s \in Seq(S) /\ a \in Nat /\ n \in Nat /\ a + n <= Len(s) /\ f = SubSeq(s, a + 1, a + n)

LEMMA Slice ==
  ASSUME NEW f, NEW S, NEW s, NEW a, NEW n, IsSlice(f, S, s, a, n)
  PROVE  f \in Seq(S) /\ Len(f) = n /\ \A o \in 1 .. n : f[o] = s[a + o]
<1>1. s \in Seq(S) /\ a \in Nat /\ n \in Nat /\ a + n <= Len(s) /\ Len(s) \in Nat
  BY DEF IsSlice
<1>2. f = [o \in 1 .. n |-> s[a + o]]
  BY <1>1 DEF IsSlice
<1>3. \A o \in 1 .. n : s[a + o] \in S
  BY <1>1
<1>4. QED
  BY <1>1, <1>2, <1>3

\* What Holds says, with the place in the buffer that update computes.
LEMMA HoldsIs ==
  ASSUME NEW m, NEW t \in Seq(Int), Holds(m, t)
  PROVE  LET q == Len(m.blocks)
             at == MD5!index(m.count)
         IN  /\ m.blocks \in Seq(BlockOfInts) /\ m.buffer \in BlockOfInts /\ q \in Nat
             /\ Base(q) \in Nat /\ at \in 0 .. Block - 1 /\ Len(t) = Base(q) + at
             /\ \A j \in 1 .. q : \A o \in 1 .. Block : m.blocks[j][o] = t[Base(j - 1) + o]
             /\ \A o \in 1 .. at : m.buffer[o] = t[Base(q) + o]
             /\ CountIs(m.count, Len(t))
<1> DEFINE q == Len(m.blocks)
           at == Len(t) - Base(q)
<1>1. /\ m.blocks \in Seq(BlockOfInts) /\ m.buffer \in BlockOfInts /\ at \in 0 .. Block - 1
      /\ \A j \in 1 .. q : \A o \in 1 .. Block : m.blocks[j][o] = t[Base(j - 1) + o]
      /\ \A o \in 1 .. at : m.buffer[o] = t[Base(q) + o]
      /\ CountIs(m.count, Len(t))
  BY DEF Holds
<1>2. q \in Nat /\ Len(t) \in Nat
  BY <1>1
<1>3. Base(q) \in Nat
  BY <1>2, BaseIs
<1> HIDE DEF q
<1>4. Len(t) = Block * q + at
  <2>1. Len(t) = Base(q) + at
    BY <1>2, <1>3
  <2> HIDE DEF at
  <2>2. QED
    BY <2>1 DEF Base
<1>5. MD5!index(m.count) = Len(t) % Block
  BY <1>1, <1>2, IndexIs
<1>6. Len(t) % Block = at
  <2>1. Block \in Nat \ {0} /\ Len(t) \in Int /\ q \in Int
    BY <1>2, DigestSizes
  <2> HIDE DEF at
  <2>2. QED
    BY <1>1, <1>4, <2>1, DivisionUnique
<1>7. Len(t) = Base(q) + at
  BY <1>2, <1>3
<1> HIDE DEF at
<1>8. QED
  BY <1>1, <1>2, <1>3, <1>5, <1>6, <1>7 DEF q

\* A place in a block that ends by b is one of the first l bytes, when b is at most l.
LEMMA InsideEarlier ==
  ASSUME NEW a \in Nat, NEW b \in Nat, NEW l \in Nat, a + Block <= b, b <= l,
         NEW o \in 1 .. Block
  PROVE  a + o \in 1 .. l
<1>1. Block \in Nat
  BY DigestSizes
<1>2. QED
  BY <1>1

\* A piece that does not fill the buffer is only copied.
LEMMA ShortPiece ==
  ASSUME NEW m, NEW t \in Seq(Int), Holds(m, t), NEW input \in Seq(Int),
         IsShort(m, input)
  PROVE  Holds(MD5!Updated(m, input), t \o input)
<1> DEFINE q == Len(m.blocks)
           at == MD5!index(m.count)
           n == Len(input)
           u == t \o input
           d == MD5!Updated(m, input)
<1>1. /\ m.blocks \in Seq(BlockOfInts) /\ m.buffer \in BlockOfInts
      /\ at \in 0 .. Block - 1 /\ Len(t) = Base(q) + at
      /\ \A j \in 1 .. q : \A o \in 1 .. Block : m.blocks[j][o] = t[Base(j - 1) + o]
      /\ \A o \in 1 .. at : m.buffer[o] = t[Base(q) + o]
      /\ CountIs(m.count, Len(t))
  BY HoldsIs
<1>2. q \in Nat /\ n \in Nat /\ Len(t) \in Nat /\ Block \in Nat \ {0} /\ Base(q) \in Nat
  BY HoldsIs, DigestSizes
<1>3. n < Block - at
  BY DEF IsShort
<1> HIDE DEF at
<1>4. SubSeq(input, 1, n) = input
  OBVIOUS
<1>5. /\ d.blocks = m.blocks /\ d.buffer = MD5!Written(m.buffer, at, input)
      /\ d.count = MD5!Counted(m.count, n)
  <2>1. n < Block - at /\ ~(n >= Block - at)
    BY <1>1, <1>2, <1>3
  <2>2. SubSeq(input, 0 + 1, n) = input
    BY <1>4
  <2> HIDE DEF n, q
  <2>3. QED
    BY <2>1, <2>2 DEF MD5!Updated, n, at
<1>6. /\ u \in Seq(Int) /\ Len(u) = Len(t) + n
      /\ \A i \in 1 .. Len(t) : u[i] = t[i]
      /\ \A i \in 1 .. n : u[Len(t) + i] = input[i]
  BY Joint
<1>7. at + n <= Block - 1 /\ at + n \in 0 .. Block - 1 /\ Len(u) - Base(q) = at + n
  BY <1>1, <1>2, <1>3, <1>6
<1>8. /\ d.buffer \in BlockOfInts
      /\ \A o \in 1 .. at : d.buffer[o] = m.buffer[o]
      /\ \A o \in 1 .. n : d.buffer[at + o] = input[o]
  <2>1. at \in Nat /\ at + Len(input) <= Block
    BY <1>1, <1>2, <1>7
  <2> HIDE DEF at
  <2>2. QED
    BY <1>1, <1>5, <2>1, WrittenIs
<1> HIDE DEF u, d
<1>9. ASSUME NEW o \in 1 .. at + n
      PROVE  d.buffer[o] = u[Base(q) + o]
  <2>1. CASE o <= at
    <3>1. o \in 1 .. at /\ Base(q) + o \in 1 .. Len(t)
      BY <1>1, <1>2, <2>1
    <3>2. QED
      BY <1>1, <1>6, <1>8, <3>1
  <2>2. CASE ~(o <= at)
    <3>1. PICK p : p = o - at
      OBVIOUS
    <3>2. p \in 1 .. n /\ at + p = o /\ Base(q) + o = Len(t) + p
      BY <1>1, <1>2, <2>2, <3>1
    <3>3. d.buffer[at + p] = input[p]
      BY <1>8, <3>2
    <3>4. u[Len(t) + p] = input[p]
      BY <1>6, <3>2
    <3>5. QED
      BY <3>2, <3>3, <3>4
  <2>3. QED
    BY <2>1, <2>2
<1>10. ASSUME NEW j \in 1 .. q, NEW o \in 1 .. Block
       PROVE  d.blocks[j][o] = u[Base(j - 1) + o]
  <2>1. Base(j - 1) + o \in 1 .. Len(t)
    <3>1. Base(j - 1) \in Nat /\ Base(j - 1) + Block <= Base(q)
      BY <1>2, EarlierBase
    <3>2. Base(q) <= Len(t)
      BY <1>1, <1>2
    <3> HIDE DEF q, n
    <3>3. QED
      BY <1>2, <3>1, <3>2, InsideEarlier
  <2>2. QED
    BY <1>1, <1>5, <1>6, <2>1
<1>11. CountIs(d.count, Len(u))
  BY <1>1, <1>2, <1>5, <1>6, CountedIs
<1>12. QED
  <2>1. /\ d.blocks \in Seq(BlockOfInts) /\ Len(d.blocks) = q
        /\ Len(u) - Base(Len(d.blocks)) \in 0 .. Block - 1
    BY <1>1, <1>5, <1>7
  <2>2. /\ \A j \in 1 .. Len(d.blocks) : \A o \in 1 .. Block : d.blocks[j][o] = u[Base(j - 1) + o]
        /\ \A o \in 1 .. Len(u) - Base(Len(d.blocks)) : d.buffer[o] = u[Base(Len(d.blocks)) + o]
    BY <1>7, <1>9, <1>10, <2>1
  <2>3. Holds(d, u)
    BY <1>8, <1>11, <2>1, <2>2 DEF Holds
  <2>4. QED
    BY <2>3 DEF d, u

\* u is the first l of t, then the input.
Extends(u, l, t, input) ==
    /\ \A i \in 1 .. l : u[i] = t[i]
    /\ \A i \in 1 .. Len(input) : u[l + i] = input[i]

\* After q blocks and at bytes, which make l, the first bytes of the input fill the buffer.
Placed(q, at, first, l) ==
    /\ q \in Nat /\ at \in Nat /\ first \in Nat /\ l \in Nat
    /\ at + first = Block /\ l = Base(q) + at

\* whole blocks and left bytes are in the n bytes of the input after the first ones.
Sums(q, at, first, whole, left, n, l) ==
    /\ Placed(q, at, first, l)
    /\ whole \in Nat /\ left \in 0 .. Block - 1 /\ n \in Nat
    /\ n = first + Base(whole) + left

\* The numbers of an update by input.
UpdateNumbers(m, t, input, q, at, first, whole, left, n, l) ==
    /\ Sums(q, at, first, whole, left, n, l)
    /\ q = Len(m.blocks) /\ at = MD5!index(m.count) /\ n = Len(input) /\ l = Len(t)
    /\ whole = (n - first) \div Block

FullBlock(m, input, at, first) == MD5!Written(m.buffer, at, SubSeq(input, 1, first))
MiddleBlock(input, first, k) == SubSeq(input, first + (k - 1) * Block + 1, first + k * Block)
MiddleBlocks(input, first, whole) ==
    [k \in 1 .. whole |-> MiddleBlock(input, first, k)]
Remainder(input, used, n) == SubSeq(input, used + 1, n)

Rest(full, input, first, whole, n) ==
    MD5!Written(full, 0, Remainder(input, first + Base(whole), n))

IsRest(b, full, input, first, whole, n) ==
    full \in BlockOfInts /\ b = Rest(full, input, first, whole, n)

\* u is what is taken once the input is, after t.
Update(u, m, t, input, q, at, first, whole, left, n, l) ==
    /\ t \in Seq(Int) /\ input \in Seq(Int) /\ Extends(u, l, t, input)
    /\ UpdateNumbers(m, t, input, q, at, first, whole, left, n, l)

\* What the numbers of such an update come to.
LEMMA LongSums ==
  ASSUME NEW q, NEW at, NEW first, NEW whole, NEW left, NEW n, NEW l,
         Sums(q, at, first, whole, left, n, l)
  PROVE  /\ q \in Nat /\ at \in Nat /\ first \in Nat /\ whole \in Nat /\ left \in Nat
         /\ n \in Nat /\ l \in Nat /\ left \in 0 .. Block - 1 /\ at + first = Block
         /\ Base(q) \in Nat /\ Base(whole) \in Nat /\ Base(q + 1 + whole) \in Nat
         /\ first <= n /\ Base(q) <= l /\ first + Base(whole) <= n
         /\ first + Base(whole) \in Nat /\ (first + Base(whole)) + left = n
         /\ l + first = Base(q) + Block /\ l = Base(q) + at
         /\ l + n = Base(q + 1 + whole) + left
         /\ \A o \in 1 .. left : /\ (first + Base(whole)) + o \in 1 .. n
                                 /\ l + ((first + Base(whole)) + o) = Base(q + 1 + whole) + o
<1>1. /\ q \in Nat /\ at \in Nat /\ first \in Nat /\ whole \in Nat /\ left \in 0 .. Block - 1
      /\ n \in Nat /\ l \in Nat /\ at + first = Block /\ l = Base(q) + at
      /\ n = first + Base(whole) + left
  BY DEF Sums, Placed
<1>2. Block \in Nat /\ left \in Nat
  BY <1>1, DigestSizes
<1>3. q + 1 \in Nat /\ q + 1 + whole \in Nat /\ q + 1 + whole = (q + 1) + whole
  BY <1>1
<1>4. Base(q) \in Nat /\ Base(whole) \in Nat /\ Base(q + 1 + whole) \in Nat
  BY <1>1, <1>3, BaseIs
<1>5. Base(q + 1) = Base(q) + Block
  BY <1>1, BaseIs
<1>6. Base((q + 1) + whole) = Base(q + 1) + Base(whole)
  BY <1>1, <1>3, BaseIs
<1>7. l + n = Base(q + 1 + whole) + left
  BY <1>1, <1>2, <1>3, <1>4, <1>5, <1>6
<1>8. QED
  BY <1>1, <1>2, <1>4, <1>7

\* The buffer that is filled is the next block.
LEMMA Filled ==
  ASSUME NEW m, NEW t \in Seq(Int), NEW input \in Seq(Int), Holds(m, t), NEW u,
         NEW q, NEW at, NEW first, NEW whole, NEW left, NEW n, NEW l,
         UpdateNumbers(m, t, input, q, at, first, whole, left, n, l), Extends(u, l, t, input)
  PROVE  /\ FullBlock(m, input, at, first) \in BlockOfInts
         /\ \A o \in 1 .. Block : FullBlock(m, input, at, first)[o] = u[Base(q) + o]
<1>1. PICK b, g, f : /\ b = m.buffer /\ g = SubSeq(input, 1, first)
                     /\ f = FullBlock(m, input, at, first)
  OBVIOUS
<1>2. Sums(q, at, first, whole, left, n, l) /\ n = Len(input) /\ l = Len(t)
  BY DEF UpdateNumbers
<1>3. /\ at \in Nat /\ first \in Nat /\ at + first = Block /\ Base(q) \in Nat /\ l \in Nat
      /\ l = Base(q) + at /\ first <= n /\ n \in Nat
  BY <1>2, LongSums
<1>4. b \in BlockOfInts /\ \A o \in 1 .. at : b[o] = t[Base(q) + o]
  <2>1. /\ q = Len(m.blocks) /\ at = MD5!index(m.count)
    BY DEF UpdateNumbers
  <2>2. /\ m.buffer \in BlockOfInts
        /\ \A o \in 1 .. MD5!index(m.count) : m.buffer[o] = t[Base(Len(m.blocks)) + o]
    BY HoldsIs
  <2>3. QED
    BY <1>1, <2>1, <2>2
<1>5. g \in Seq(Int) /\ Len(g) = first /\ \A o \in 1 .. first : g[o] = input[o]
  <2>1. 0 \in Nat /\ 0 + first = first /\ 0 + 1 = 1 /\ \A o \in 1 .. first : 0 + o = o
    BY <1>3
  <2>2. 0 + first <= Len(input)
    BY <1>2, <1>3
  <2>3. SubSeq(input, 0 + 1, 0 + first) = g
    BY <1>1, <2>1
  <2>4. g \in Seq(Int) /\ Len(g) = first /\ \A o \in 1 .. first : g[o] = input[0 + o]
    <3>1. IsSlice(g, Int, input, 0, first)
      BY <1>3, <2>1, <2>2, <2>3 DEF IsSlice
    <3>2. QED
      BY <3>1, Slice
  <2>5. QED
    BY <2>1, <2>4
<1>6. /\ f \in BlockOfInts /\ \A o \in 1 .. at : f[o] = b[o]
      /\ \A o \in 1 .. first : f[at + o] = g[o]
  <2>1. at + Len(g) <= Block
    BY <1>3, <1>5
  <2>2. f = MD5!Written(b, at, g)
    BY <1>1 DEF FullBlock
  <2>3. /\ f \in BlockOfInts /\ \A o \in 1 .. at : f[o] = b[o]
        /\ \A o \in 1 .. Len(g) : f[at + o] = g[o]
    <3>1. b \in BlockOfInts /\ at \in Nat /\ g \in Seq(Int)
      BY <1>3, <1>4, <1>5
    <3>2. /\ MD5!Written(b, at, g) \in BlockOfInts
          /\ \A o \in 1 .. at : MD5!Written(b, at, g)[o] = b[o]
          /\ \A o \in 1 .. Len(g) : MD5!Written(b, at, g)[at + o] = g[o]
      BY <2>1, <3>1, WrittenIs
    <3>3. QED
      BY <2>2, <3>2
  <2>4. QED
    BY <1>5, <2>3
<1>7. ASSUME NEW o \in 1 .. Block
      PROVE  f[o] = u[Base(q) + o]
  <2>1. CASE o <= at
    <3>1. o \in 1 .. at /\ Base(q) + o \in 1 .. l
      BY <1>3, <2>1
    <3>2. QED
      BY <1>4, <1>6, <3>1 DEF Extends
  <2>2. CASE ~(o <= at)
    <3>1. PICK p : p = o - at
      OBVIOUS
    <3>2. p \in 1 .. first /\ at + p = o /\ Base(q) + o = l + p /\ p \in 1 .. n
      BY <1>3, <2>2, <3>1
    <3>3. f[o] = input[p]
      BY <1>5, <1>6, <3>2
    <3>4. u[l + p] = input[p]
      BY <1>2, <3>2 DEF Extends
    <3>5. QED
      BY <3>2, <3>3, <3>4
  <2>3. QED
    BY <1>3, <2>1, <2>2
<1>8. QED
  BY <1>1, <1>6, <1>7

Before(q, at, first, l, whole, k, a) ==
    Placed(q, at, first, l) /\ whole \in Nat /\ k \in 1 .. whole /\ a = first + Base(k - 1)

\* Where one of the whole blocks after it is.
LEMMA MiddleSums ==
  ASSUME NEW q, NEW at, NEW first, NEW l, NEW whole, NEW k, NEW a,
         Before(q, at, first, l, whole, k, a)
  PROVE  /\ a \in Nat /\ a + Block <= first + Base(whole)
         /\ first + (k - 1) * Block + 1 = a + 1 /\ first + k * Block = a + Block
         /\ \A o \in 1 .. Block : Base(q + k) + o = l + (a + o)
<1> DEFINE c == Base(k - 1)
<1>0. /\ q \in Nat /\ at \in Nat /\ first \in Nat /\ l \in Nat /\ whole \in Nat /\ k \in 1 .. whole
      /\ a = first + c /\ at + first = Block /\ l = Base(q) + at
  BY DEF Before, Placed
<1>1. Block \in Nat /\ Base(q) \in Nat /\ Base(whole) \in Nat
  BY <1>0, BaseIs, DigestSizes
<1>2. c \in Nat /\ c + Block <= Base(whole)
  BY <1>0, EarlierBase
<1>3. (k - 1) * Block = c /\ k * Block = c + Block /\ Base(q + k) = Base(q) + c + Block
  <2>1. k \in Int /\ k - 1 \in Int /\ q \in Int /\ (k - 1) + 1 = k
    BY <1>0
  <2>2. (k - 1) * Block = Base(k - 1) /\ k * Block = Base(k)
    BY <1>1, <2>1 DEF Base
  <2>3. Base((k - 1) + 1) = Base(k - 1) + Block
    BY <2>1, BaseIs
  <2>4. Base(q + k) = Base(q) + Base(k)
    BY <2>1, BaseIs
  <2>5. QED
    BY <1>1, <1>2, <2>1, <2>2, <2>3, <2>4
<1> HIDE DEF c
<1>4. QED
  BY <1>0, <1>1, <1>2, <1>3

\* One of the whole blocks after it.
LEMMA OneOfTheMiddle ==
  ASSUME NEW m, NEW t, NEW input, NEW u,
         NEW q, NEW at, NEW first, NEW whole, NEW left, NEW n, NEW l,
         Update(u, m, t, input, q, at, first, whole, left, n, l),
         NEW k \in 1 .. whole, NEW f, f = MiddleBlock(input, first, k)
  PROVE  f \in BlockOfInts /\ \A o \in 1 .. Block : f[o] = u[Base(q + k) + o]
<1>0. /\ t \in Seq(Int) /\ input \in Seq(Int) /\ Extends(u, l, t, input)
      /\ UpdateNumbers(m, t, input, q, at, first, whole, left, n, l)
  BY DEF Update
<1>1. PICK a : a = first + Base(k - 1)
  OBVIOUS
<1>2. /\ Placed(q, at, first, l) /\ Sums(q, at, first, whole, left, n, l)
      /\ whole \in Nat /\ n = Len(input) /\ Block \in Nat
  BY <1>0, DigestSizes DEF UpdateNumbers, Sums
<1>3. first + Base(whole) <= n /\ n \in Nat /\ first + Base(whole) \in Nat
  BY <1>2, LongSums
<1>4. Before(q, at, first, l, whole, k, a)
  BY <1>1, <1>2 DEF Before
<1>5. /\ a \in Nat /\ a + Block <= first + Base(whole)
      /\ first + (k - 1) * Block + 1 = a + 1 /\ first + k * Block = a + Block
      /\ \A o \in 1 .. Block : Base(q + k) + o = l + (a + o)
  BY <1>4, MiddleSums
<1>6. f = SubSeq(input, a + 1, a + Block)
  BY <1>5 DEF MiddleBlock
<1>7. a + Block <= n
  BY <1>2, <1>3, <1>5
<1>8. \A o \in 1 .. Block : a + o \in 1 .. n
  BY <1>2, <1>3, <1>5, <1>7
<1>9. f \in Seq(Int) /\ Len(f) = Block /\ \A o \in 1 .. Block : f[o] = input[a + o]
  <2>1. a \in Nat /\ Block \in Nat /\ a + Block <= Len(input)
    BY <1>2, <1>5, <1>7
  <2>2. IsSlice(f, Int, input, a, Block)
    BY <1>0, <1>6, <2>1 DEF IsSlice
  <2>3. QED
    BY <2>2, Slice
<1>10. f \in BlockOfInts
  BY <1>2, <1>9 DEF BlockOfInts
<1>11. ASSUME NEW o \in 1 .. Block
       PROVE  f[o] = u[Base(q + k) + o]
  <2>1. u[l + (a + o)] = input[a + o]
    BY <1>0, <1>2, <1>8 DEF Extends
  <2>2. QED
    BY <1>5, <1>9, <2>1
<1>12. QED
  BY <1>10, <1>11

\* The blocks transformed: those before, the one that was filled, those of the input.
LEMMA BlocksAfter ==
  ASSUME NEW bs \in Seq(BlockOfInts), NEW full \in BlockOfInts, NEW middle \in Seq(BlockOfInts)
  PROVE  LET q == Len(bs)
             all == bs \o <<full>> \o middle
         IN  /\ all \in Seq(BlockOfInts) /\ Len(all) = q + 1 + Len(middle)
             /\ \A j \in 1 .. q : all[j] = bs[j]
             /\ all[q + 1] = full
             /\ \A k \in 1 .. Len(middle) : all[q + 1 + k] = middle[k]
<1> DEFINE h == bs \o <<full>>
<1>1. <<full>> \in Seq(BlockOfInts) /\ Len(<<full>>) = 1 /\ <<full>>[1] = full
  OBVIOUS
<1>2. /\ h \in Seq(BlockOfInts) /\ Len(h) = Len(bs) + 1
      /\ \A j \in 1 .. Len(bs) : h[j] = bs[j]
      /\ h[Len(bs) + 1] = full
  <2>1. /\ h \in Seq(BlockOfInts) /\ Len(h) = Len(bs) + Len(<<full>>)
        /\ \A j \in 1 .. Len(bs) : h[j] = bs[j]
        /\ \A j \in 1 .. Len(<<full>>) : h[Len(bs) + j] = <<full>>[j]
    BY <1>1, Joint
  <2> HIDE DEF h
  <2>2. QED
    BY <1>1, <2>1
<1> HIDE DEF h
<1>3. /\ h \o middle \in Seq(BlockOfInts) /\ Len(h \o middle) = Len(h) + Len(middle)
      /\ \A j \in 1 .. Len(h) : (h \o middle)[j] = h[j]
      /\ \A j \in 1 .. Len(middle) : (h \o middle)[Len(h) + j] = middle[j]
  <2>1. h \in Seq(BlockOfInts) /\ middle \in Seq(BlockOfInts)
    BY <1>2
  <2>2. QED
    BY <2>1, Joint
<1>4. Len(bs) \in Nat
  OBVIOUS
<1>5. Len(bs) + 1 \in 1 .. Len(h) /\ \A j \in 1 .. Len(bs) : j \in 1 .. Len(h)
  BY <1>2, <1>4
<1>6. QED
  BY <1>2, <1>3, <1>5 DEF h

\* Each of them is its part of what was taken.
Parts(q, whole, l, t, u, bs, full, middle) ==
    /\ q \in Nat /\ whole \in Nat /\ l \in Nat /\ Base(q) <= l
    /\ \A i \in 1 .. l : u[i] = t[i]
    /\ \A j \in 1 .. q : \A o \in 1 .. Block : bs[j][o] = t[Base(j - 1) + o]
    /\ \A o \in 1 .. Block : full[o] = u[Base(q) + o]
    /\ \A k \in 1 .. whole : \A o \in 1 .. Block : middle[k][o] = u[Base(q + k) + o]

Assembled(q, whole, all, bs, full, middle) ==
    /\ \A j \in 1 .. q : all[j] = bs[j]
    /\ all[q + 1] = full
    /\ \A k \in 1 .. whole : all[q + 1 + k] = middle[k]

LEMMA EveryBlockAfter ==
  ASSUME NEW q, NEW whole, NEW l, NEW t, NEW u, NEW bs, NEW full, NEW middle, NEW all,
         Parts(q, whole, l, t, u, bs, full, middle), Assembled(q, whole, all, bs, full, middle)
  PROVE  \A j \in 1 .. q + 1 + whole : \A o \in 1 .. Block : all[j][o] = u[Base(j - 1) + o]
<1> SUFFICES ASSUME NEW j \in 1 .. q + 1 + whole, NEW o \in 1 .. Block
             PROVE  all[j][o] = u[Base(j - 1) + o]
  OBVIOUS
<1>1. q \in Nat /\ whole \in Nat /\ l \in Nat /\ Base(q) <= l /\ Base(q) \in Nat /\ Block \in Nat
  BY BaseIs, DigestSizes DEF Parts
<1>2. CASE j <= q
  <2>1. j \in 1 .. q
    BY <1>1, <1>2
  <2>2. Base(j - 1) \in Nat /\ Base(j - 1) + Block <= Base(q)
    BY <1>1, <2>1, EarlierBase
  <2>3. Base(j - 1) + o \in 1 .. l
    BY <1>1, <2>2
  <2>4. QED
    BY <2>1, <2>3 DEF Parts, Assembled
<1>3. CASE j = q + 1
  <2>1. j - 1 = q
    BY <1>1, <1>3
  <2>2. QED
    BY <1>3, <2>1 DEF Parts, Assembled
<1>4. CASE j > q + 1
  <2>1. PICK k \in 1 .. whole : j = q + 1 + k /\ j - 1 = q + k
    <3>1. j - q - 1 \in 1 .. whole /\ j = q + 1 + (j - q - 1) /\ j - 1 = q + (j - q - 1)
      BY <1>1, <1>4
    <3>2. QED
      BY <3>1
  <2>2. QED
    BY <2>1 DEF Parts, Assembled
<1>5. QED
  BY <1>1, <1>2, <1>3, <1>4

\* An update that fills the buffer has such numbers.
LEMMA LongNumbers ==
  ASSUME NEW m, NEW t \in Seq(Int), Holds(m, t), NEW input \in Seq(Int), ~IsShort(m, input)
  PROVE  \E q, at, first, whole, left, n, l :
           UpdateNumbers(m, t, input, q, at, first, whole, left, n, l)
<1>1. PICK q, at, n, l : /\ q = Len(m.blocks) /\ at = MD5!index(m.count)
                          /\ n = Len(input) /\ l = Len(t)
  OBVIOUS
<1>2. q \in Nat /\ Base(q) \in Nat /\ at \in 0 .. Block - 1 /\ l = Base(q) + at
  <2>1. /\ Len(m.blocks) \in Nat /\ Base(Len(m.blocks)) \in Nat
        /\ MD5!index(m.count) \in 0 .. Block - 1
        /\ Len(t) = Base(Len(m.blocks)) + MD5!index(m.count)
    BY HoldsIs
  <2>2. QED
    BY <1>1, <2>1
<1>3. n \in Nat /\ l \in Nat /\ Block \in Nat \ {0}
  BY <1>1, DigestSizes
<1>4. ~(n < Block - at)
  BY <1>1 DEF IsShort
<1>5. PICK first, r : first = Block - at /\ r = n - first
  OBVIOUS
<1>6. first \in Nat /\ r \in Nat /\ n = first + r /\ at + first = Block
  BY <1>2, <1>3, <1>4, <1>5
<1>7. PICK whole, left : whole = r \div Block /\ left = r % Block
  OBVIOUS
<1>8. whole \in Nat /\ left \in 0 .. Block - 1 /\ r = Block * whole + left
  BY <1>3, <1>6, <1>7, QuotientOfNat
<1>9. r = Base(whole) + left /\ Base(whole) \in Nat
  BY <1>8, BaseIs DEF Base
<1>10. n = first + Base(whole) + left
  BY <1>6, <1>8, <1>9
<1>11. UpdateNumbers(m, t, input, q, at, first, whole, left, n, l)
  <2>1. Placed(q, at, first, l)
    BY <1>2, <1>3, <1>6 DEF Placed
  <2>2. whole = (n - first) \div Block
    BY <1>5, <1>7
  <2>3. QED
    BY <1>1, <1>3, <1>8, <1>10, <2>1, <2>2 DEF UpdateNumbers, Sums
<1>12. QED
  BY <1>11

\* What update does with an input that fills the buffer.
Result(d, m, input, at, first, whole, n) ==
    LET full == FullBlock(m, input, at, first) IN
      /\ d.count = MD5!Counted(m.count, n)
      /\ d.blocks = m.blocks \o <<full>> \o MiddleBlocks(input, first, whole)
      /\ d.buffer = Rest(full, input, first, whole, n)

LEMMA LongUpdate ==
  ASSUME NEW m, NEW t, NEW input, ~IsShort(m, input),
         NEW q, NEW at, NEW first, NEW whole, NEW left, NEW n, NEW l,
         UpdateNumbers(m, t, input, q, at, first, whole, left, n, l)
  PROVE  Result(MD5!Updated(m, input), m, input, at, first, whole, n)
<1> DEFINE d == MD5!Updated(m, input)
           full == FullBlock(m, input, at, first)
<1>1. /\ at = MD5!index(m.count) /\ n = Len(input) /\ first \in Nat /\ at \in Nat
      /\ at + first = Block /\ n \in Nat /\ whole \in Nat /\ Block \in Nat
      /\ whole = (n - first) \div Block
  BY DigestSizes DEF UpdateNumbers, Sums, Placed
<1>2. first = Block - at /\ whole = (n - (Block - at)) \div Block
  BY <1>1
<1>3. ~(n < Block - at)
  BY <1>1 DEF IsShort
<1>4. n >= Block - at
  BY <1>1, <1>3
<1>5. first + whole * Block = first + Base(whole)
  BY <1>1 DEF Base
<1>6. d = LET f == Block - at
              w == (n - f) \div Block
              used == f + w * Block
              g == MD5!Written(m.buffer, at, SubSeq(input, 1, f))
          IN  [count  |-> MD5!Counted(m.count, n),
               blocks |-> m.blocks \o <<g>> \o
                          [k \in 1 .. w |->
                             SubSeq(input, f + (k - 1) * Block + 1, f + k * Block)],
               buffer |-> MD5!Written(g, 0, SubSeq(input, used + 1, n))]
  BY <1>1, <1>3, <1>4 DEF MD5!Updated
<1>7. d = [count  |-> MD5!Counted(m.count, n),
           blocks |-> m.blocks \o <<full>> \o MiddleBlocks(input, first, whole),
           buffer |-> MD5!Written(full, 0, Remainder(input, first + Base(whole), n))]
  BY <1>2, <1>5, <1>6 DEF FullBlock, MiddleBlocks, MiddleBlock, Remainder
<1> HIDE DEF d, full
<1>8. QED
  BY <1>7 DEF d, full, Result, Rest

\* The whole blocks are transformed in order.
LEMMA MiddleIs ==
  ASSUME NEW m, NEW t, NEW input, NEW u,
         NEW q, NEW at, NEW first, NEW whole, NEW left, NEW n, NEW l,
         Update(u, m, t, input, q, at, first, whole, left, n, l),
         NEW middle, middle = MiddleBlocks(input, first, whole)
  PROVE  /\ middle \in Seq(BlockOfInts) /\ Len(middle) = whole
         /\ \A k \in 1 .. whole : \A o \in 1 .. Block : middle[k][o] = u[Base(q + k) + o]
<1>1. ASSUME NEW k \in 1 .. whole
      PROVE  /\ middle[k] \in BlockOfInts
             /\ \A o \in 1 .. Block : middle[k][o] = u[Base(q + k) + o]
  <2>1. PICK f : f = MiddleBlock(input, first, k)
    OBVIOUS
  <2>2. middle[k] = f
    BY <2>1 DEF MiddleBlocks
  <2>3. f \in BlockOfInts /\ \A o \in 1 .. Block : f[o] = u[Base(q + k) + o]
    BY <2>1, OneOfTheMiddle
  <2>4. QED
    BY <2>2, <2>3
<1>2. middle = [k \in 1 .. whole |-> middle[k]] /\ whole \in Nat
  BY DEF MiddleBlocks, Update, UpdateNumbers, Sums
<1>3. middle \in [1 .. whole -> BlockOfInts]
  BY <1>1, <1>2
<1>4. middle \in Seq(BlockOfInts) /\ Len(middle) = whole
  BY <1>2, <1>3
<1>5. QED
  BY <1>1, <1>4

\* What is left waits at the beginning of the buffer.
LEMMA RemainderIs ==
  ASSUME NEW m, NEW t, NEW input, NEW full, NEW b, NEW u,
         NEW q, NEW at, NEW first, NEW whole, NEW left, NEW n, NEW l,
         Update(u, m, t, input, q, at, first, whole, left, n, l),
         IsRest(b, full, input, first, whole, n)
  PROVE  /\ b \in BlockOfInts
         /\ \A o \in 1 .. left : b[o] = u[Base(q + 1 + whole) + o]
<1>0. /\ t \in Seq(Int) /\ input \in Seq(Int) /\ Extends(u, l, t, input)
      /\ UpdateNumbers(m, t, input, q, at, first, whole, left, n, l)
  BY DEF Update
<1>1. PICK used, rest : used = first + Base(whole) /\ rest = Remainder(input, used, n)
  OBVIOUS
<1>2. Sums(q, at, first, whole, left, n, l) /\ n = Len(input) /\ Block \in Nat
  BY <1>0, DigestSizes DEF UpdateNumbers
<1>3. /\ used \in Nat /\ used + left = n /\ left \in 0 .. Block - 1 /\ left \in Nat /\ n \in Nat
      /\ \A o \in 1 .. left : used + o \in 1 .. n /\ l + (used + o) = Base(q + 1 + whole) + o
  <2>1. /\ first + Base(whole) \in Nat /\ (first + Base(whole)) + left = n
        /\ left \in 0 .. Block - 1 /\ left \in Nat /\ n \in Nat
        /\ \A o \in 1 .. left : /\ (first + Base(whole)) + o \in 1 .. n
                                /\ l + ((first + Base(whole)) + o) = Base(q + 1 + whole) + o
    <3>1. Sums(q, at, first, whole, left, n, l)
      BY <1>2
    <3>2. QED
      BY <3>1, LongSums
  <2>2. QED
    BY <1>1, <2>1
<1>4. rest = SubSeq(input, used + 1, used + left)
  BY <1>1, <1>3 DEF Remainder
<1>5. rest \in Seq(Int) /\ Len(rest) = left /\ \A o \in 1 .. left : rest[o] = input[used + o]
  <2>1. used + left <= Len(input)
    BY <1>2, <1>3
  <2>2. IsSlice(rest, Int, input, used, left)
    BY <1>0, <1>3, <1>4, <2>1 DEF IsSlice
  <2>3. QED
    BY <2>2, Slice
<1>6. b \in BlockOfInts /\ \A o \in 1 .. left : b[o] = rest[o]
  <2>1. 0 \in Nat /\ 0 + Len(rest) <= Block
    BY <1>2, <1>3, <1>5
  <2>2. b = MD5!Written(full, 0, rest)
    BY <1>1 DEF IsRest, Rest
  <2>3. b \in BlockOfInts /\ \A o \in 1 .. Len(rest) : b[0 + o] = rest[o]
    <3>1. rest \in Seq(Int) /\ full \in BlockOfInts
      BY <1>5 DEF IsRest
    <3>2. /\ MD5!Written(full, 0, rest) \in BlockOfInts
          /\ \A o \in 1 .. Len(rest) : MD5!Written(full, 0, rest)[0 + o] = rest[o]
      BY <2>1, <3>1, WrittenIs
    <3>3. QED
      BY <2>2, <3>2
  <2>4. \A o \in 1 .. left : 0 + o = o
    BY <1>3
  <2>5. QED
    BY <1>5, <2>3, <2>4
<1>7. ASSUME NEW o \in 1 .. left
      PROVE  b[o] = u[Base(q + 1 + whole) + o]
  <2>1. u[l + (used + o)] = input[used + o]
    BY <1>0, <1>2, <1>3 DEF Extends
  <2>2. QED
    BY <1>3, <1>5, <1>6, <2>1
<1>8. QED
  BY <1>6, <1>7

\* A piece that fills the buffer has it transformed, and whole blocks after it.
LEMMA LongPiece ==
  ASSUME NEW m, NEW t \in Seq(Int), Holds(m, t), NEW input \in Seq(Int), ~IsShort(m, input)
  PROVE  Holds(MD5!Updated(m, input), t \o input)
<1>1. PICK q, at, first, whole, left, n, l :
             UpdateNumbers(m, t, input, q, at, first, whole, left, n, l)
  BY LongNumbers
<1>2. PICK u, d, full, middle :
             /\ u = t \o input /\ d = MD5!Updated(m, input)
             /\ full = FullBlock(m, input, at, first)
             /\ middle = MiddleBlocks(input, first, whole)
  OBVIOUS
<1>3. /\ Sums(q, at, first, whole, left, n, l)
      /\ q = Len(m.blocks) /\ n = Len(input) /\ l = Len(t)
  BY <1>1 DEF UpdateNumbers
<1>4. /\ q \in Nat /\ whole \in Nat /\ left \in 0 .. Block - 1 /\ n \in Nat /\ l \in Nat
      /\ Base(q) <= l /\ Base(q + 1 + whole) \in Nat /\ l + n = Base(q + 1 + whole) + left
  <2>1. Sums(q, at, first, whole, left, n, l)
    BY <1>3
  <2>2. QED
    BY <2>1, LongSums
<1>5. /\ m.blocks \in Seq(BlockOfInts)
      /\ \A j \in 1 .. q : \A o \in 1 .. Block : m.blocks[j][o] = t[Base(j - 1) + o]
      /\ CountIs(m.count, l)
  <2>1. /\ m.blocks \in Seq(BlockOfInts) /\ CountIs(m.count, Len(t))
        /\ \A j \in 1 .. Len(m.blocks) : \A o \in 1 .. Block :
             m.blocks[j][o] = t[Base(j - 1) + o]
    BY DEF Holds
  <2>2. QED
    BY <1>3, <2>1
<1>6. u \in Seq(Int) /\ Len(u) = l + n /\ Extends(u, l, t, input)
  <2>1. /\ u \in Seq(Int) /\ Len(u) = Len(t) + Len(input)
        /\ \A i \in 1 .. Len(t) : u[i] = t[i]
        /\ \A i \in 1 .. Len(input) : u[Len(t) + i] = input[i]
    BY <1>2, Joint
  <2>2. QED
    BY <1>3, <2>1 DEF Extends
<1>u. Update(u, m, t, input, q, at, first, whole, left, n, l)
  BY <1>1, <1>6 DEF Update
<1>7. /\ d.count = MD5!Counted(m.count, n) /\ d.blocks = m.blocks \o <<full>> \o middle
      /\ d.buffer = Rest(full, input, first, whole, n)
  <2>1. Result(MD5!Updated(m, input), m, input, at, first, whole, n)
    BY <1>1, LongUpdate
  <2>2. QED
    BY <1>2, <2>1 DEF Result
<1>8. full \in BlockOfInts /\ \A o \in 1 .. Block : full[o] = u[Base(q) + o]
  <2>1. /\ FullBlock(m, input, at, first) \in BlockOfInts
        /\ \A o \in 1 .. Block : FullBlock(m, input, at, first)[o] = u[Base(q) + o]
    BY <1>1, <1>6, Filled
  <2>2. QED
    BY <1>2, <2>1
<1>9. middle = MiddleBlocks(input, first, whole)
  BY <1>2
<1>10. /\ middle \in Seq(BlockOfInts) /\ Len(middle) = whole
       /\ \A k \in 1 .. whole : \A o \in 1 .. Block : middle[k][o] = u[Base(q + k) + o]
  BY <1>9, <1>u, MiddleIs
<1>11. /\ d.blocks \in Seq(BlockOfInts) /\ Len(d.blocks) = q + 1 + whole
       /\ Assembled(q, whole, d.blocks, m.blocks, full, middle)
  <2>1. /\ m.blocks \o <<full>> \o middle \in Seq(BlockOfInts)
        /\ Len(m.blocks \o <<full>> \o middle) = Len(m.blocks) + 1 + Len(middle)
        /\ \A j \in 1 .. Len(m.blocks) : (m.blocks \o <<full>> \o middle)[j] = m.blocks[j]
        /\ (m.blocks \o <<full>> \o middle)[Len(m.blocks) + 1] = full
        /\ \A k \in 1 .. Len(middle) :
             (m.blocks \o <<full>> \o middle)[Len(m.blocks) + 1 + k] = middle[k]
    <3>1. m.blocks \in Seq(BlockOfInts) /\ full \in BlockOfInts /\ middle \in Seq(BlockOfInts)
      BY <1>5, <1>8, <1>10
    <3>2. QED
      BY <3>1, BlocksAfter
  <2>2. PICK all : all = m.blocks \o <<full>> \o middle
    OBVIOUS
  <2>3. /\ all \in Seq(BlockOfInts) /\ Len(all) = q + 1 + whole
        /\ Assembled(q, whole, all, m.blocks, full, middle)
    BY <1>3, <1>10, <2>1, <2>2 DEF Assembled
  <2>4. QED
    BY <1>7, <2>2, <2>3
<1>12. \A j \in 1 .. q + 1 + whole : \A o \in 1 .. Block : d.blocks[j][o] = u[Base(j - 1) + o]
  <2>1. Parts(q, whole, l, t, u, m.blocks, full, middle)
    BY <1>4, <1>5, <1>6, <1>8, <1>10 DEF Parts, Extends
  <2>2. QED
    BY <1>11, <2>1, EveryBlockAfter
<1>13. /\ d.buffer \in BlockOfInts
       /\ \A o \in 1 .. left : d.buffer[o] = u[Base(q + 1 + whole) + o]
  <2>1. PICK b : b = d.buffer
    OBVIOUS
  <2>2. IsRest(b, full, input, first, whole, n)
    BY <1>7, <1>8, <2>1 DEF IsRest
  <2>3. b \in BlockOfInts /\ \A o \in 1 .. left : b[o] = u[Base(q + 1 + whole) + o]
    BY <1>u, <2>2, RemainderIs
  <2>4. QED
    BY <2>1, <2>3
<1>14. CountIs(d.count, l + n)
  BY <1>4, <1>5, <1>7, CountedIs
<1>15. Holds(d, u)
  <2>1. PICK q2 : q2 = q + 1 + whole
    OBVIOUS
  <2>2. Base(q2) \in Nat /\ l + n = Base(q2) + left /\ left \in 0 .. Block - 1
    BY <1>4, <2>1
  <2>3. (l + n) - Base(q2) = left
    BY <2>2, DigestSizes
  <2>4. Len(d.blocks) = q2 /\ Len(u) = l + n
    BY <1>6, <1>11, <2>1
  <2>5. /\ \A j \in 1 .. q2 : \A o \in 1 .. Block : d.blocks[j][o] = u[Base(j - 1) + o]
        /\ \A o \in 1 .. left : d.buffer[o] = u[Base(q2) + o]
    BY <1>12, <1>13, <2>1
  <2>6. QED
    BY <1>11, <1>13, <1>14, <2>2, <2>3, <2>4, <2>5 DEF Holds
<1>16. QED
  BY <1>2, <1>15

\* Whatever its length, a piece is taken after what was there.
LEMMA UpdatedHolds ==
  ASSUME NEW m, NEW t \in Seq(Int), Holds(m, t), NEW input \in Seq(Int)
  PROVE  Holds(MD5!Updated(m, input), t \o input)
BY ShortPiece, LongPiece

-----------------------------------------------------------------------------
(* The message.                                                              *)

\* A block is a sequence.
LEMMA BlocksAreSequences ==
  ASSUME NEW b \in BlockOfInts
  PROVE  b \in Seq(Int) /\ Len(b) = Block
BY DigestSizes DEF BlockOfInts

\* memset leaves a block.
LEMMA ClearIs == MD5!Clear \in BlockOfInts
BY DigestSizes DEF MD5!Clear, BlockOfInts

\* Sequences of a length with the same elements are the same.
LEMMA SameSequence ==
  ASSUME NEW S, NEW s \in Seq(S), NEW t \in Seq(S), NEW n \in Nat, Len(s) = n, Len(t) = n,
         \A i \in 1 .. n : s[i] = t[i]
  PROVE  s = t
<1>1. s = [i \in 1 .. n |-> s[i]] /\ t = [i \in 1 .. n |-> t[i]]
  OBVIOUS
<1>2. QED
  BY <1>1

\* Nothing is taken at first.
LEMMA NothingHolds ==
  ASSUME NEW m, m.blocks = <<>>, m.buffer \in BlockOfInts, m.count = <<0, 0>>
  PROVE  Holds(m, <<>>)
<1>1. m.blocks \in Seq(BlockOfInts) /\ Len(m.blocks) = 0 /\ Len(<<>>) = 0
  OBVIOUS
<1>2. Base(0) = 0 /\ 0 - 0 = 0 /\ 0 \in 0 .. Block - 1
  <2>1. Base(0) = 0
    BY BaseIs
  <2>2. 0 - 0 = 0 /\ 0 \in 0 .. Block - 1
    BY DigestSizes
  <2>3. QED
    BY <2>1, <2>2
<1>3. (8 * 0) % Word = 0 /\ ((8 * 0) \div Word) % Word = 0
  <2>1. 8 * 0 = 0 /\ 0 \in 0 .. Word - 1 /\ 0 \in Int /\ 0 = Word * 0 + 0 /\ Word \in Nat \ {0}
    BY DigestSizes
  <2>2. 0 \div Word = 0 /\ 0 % Word = 0
    BY <2>1, DivisionUnique
  <2>3. QED
    BY <2>1, <2>2
<1>4. CountIs(m.count, 0)
  BY <1>3 DEF CountIs
<1>5. QED
  BY <1>1, <1>2, <1>4 DEF Holds

\* The message after another piece of it.
LEMMA MessageGrows ==
  ASSUME NEW l \in Nat, NEW n \in Nat, NEW p, p = [i \in 1 .. n |-> l + i]
  PROVE  /\ MD5!Message(l) \in Seq(Int) /\ Len(MD5!Message(l)) = l /\ p \in Seq(Int)
         /\ MD5!Message(l) \o p = MD5!Message(l + n)
<1>1. PICK t, u : t = MD5!Message(l) /\ u = MD5!Message(l + n)
  OBVIOUS
<1>2. t = [i \in 1 .. l |-> i] /\ u = [i \in 1 .. l + n |-> i]
  BY <1>1 DEF MD5!Message
<1>3. t \in Seq(Int) /\ Len(t) = l /\ p \in Seq(Int) /\ Len(p) = n
  BY <1>2
<1>4. u \in Seq(Int) /\ Len(u) = l + n
  BY <1>2
<1>5. /\ t \o p \in Seq(Int) /\ Len(t \o p) = l + n
      /\ \A i \in 1 .. l : (t \o p)[i] = i
      /\ \A i \in 1 .. n : (t \o p)[l + i] = l + i
  BY <1>2, <1>3
<1>6. PICK v : v = t \o p
  OBVIOUS
<1>7. \A i \in 1 .. l + n : v[i] = u[i]
  <2> SUFFICES ASSUME NEW i \in 1 .. l + n
               PROVE  v[i] = i
    BY <1>2
  <2>1. CASE i <= l
    BY <1>5, <1>6, <2>1
  <2>2. CASE ~(i <= l)
    <3>1. i - l \in 1 .. n /\ l + (i - l) = i
      BY <2>2
    <3>2. QED
      BY <1>5, <1>6, <3>1
  <2>3. QED
    BY <2>1, <2>2
<1>8. v = u
  <2>1. v \in Seq(Int) /\ Len(v) = l + n /\ l + n \in Nat
    BY <1>5, <1>6
  <2>2. QED
    BY <1>4, <1>7, <2>1, SameSequence
<1>9. QED
  BY <1>1, <1>3, <1>6, <1>8

\* The blocks, and what waits in the buffer, are what was taken.
BlocksOf(bs, q, t) ==
    /\ bs \in Seq(BlockOfInts) /\ q = Len(bs)
    /\ \A j \in 1 .. q : \A o \in 1 .. Block : bs[j][o] = t[Base(j - 1) + o]

LEMMA JoinedIs ==
  ASSUME NEW bs, NEW q, NEW t, BlocksOf(bs, q, t)
  PROVE  /\ MD5!Joined(bs) \in Seq(Int) /\ Len(MD5!Joined(bs)) = Base(q)
         /\ \A i \in 1 .. Base(q) : MD5!Joined(bs)[i] = t[i]
<1>0. /\ bs \in Seq(BlockOfInts) /\ q = Len(bs)
      /\ \A j \in 1 .. q : \A o \in 1 .. Block : bs[j][o] = t[Base(j - 1) + o]
  BY DEF BlocksOf
<1>1. q \in Nat /\ Block \in Nat \ {0}
  BY <1>0, DigestSizes
<1>2. Base(q) \in Nat
  BY <1>1, BaseIs
<1>3. PICK f : f = MD5!Joined(bs)
  OBVIOUS
<1>4. f = [i \in 1 .. Base(q) |-> bs[(i - 1) \div Block + 1][((i - 1) % Block) + 1]]
  BY <1>0, <1>3 DEF MD5!Joined, Base
<1>5. ASSUME NEW i \in 1 .. Base(q)
      PROVE  f[i] = t[i] /\ f[i] \in Int
  <2>1. PICK j, o : j = (i - 1) \div Block /\ o = (i - 1) % Block
    OBVIOUS
  <2>2. j \in Nat /\ o \in 0 .. Block - 1 /\ i - 1 = Block * j + o
    <3>1. i - 1 \in Nat
      BY <1>2
    <3>2. QED
      BY <1>1, <2>1, <3>1, QuotientOfNat
  <2>3. i = Base(j) + (o + 1) /\ Base(j) \in Nat
    <3>1. Base(j) \in Nat
      BY <2>2, BaseIs
    <3>2. i - 1 = Base(j) + o /\ i \in Nat
      BY <1>2, <2>2 DEF Base
    <3>3. QED
      BY <2>2, <3>1, <3>2
  <2>4. j + 1 \in 1 .. q
    <3>1. ASSUME ~(j + 1 <= q)
          PROVE  FALSE
      <4>1. PICK k \in Nat : j = q + k
        <5>1. j - q \in Nat /\ j = q + (j - q)
          BY <1>1, <2>2, <3>1
        <5>2. QED
          BY <5>1
      <4>2. Base(j) = Base(q) + Base(k) /\ Base(k) \in Nat
        <5>1. q \in Int /\ k \in Int
          BY <1>1
        <5>2. Base(q + k) = Base(q) + Base(k)
          BY <5>1, BaseIs
        <5>3. QED
          BY <4>1, <5>2, BaseIs
      <4>3. Base(j) >= Base(q)
        BY <1>2, <4>2
      <4>4. QED
        BY <1>1, <1>2, <2>2, <2>3, <4>3
    <3>2. QED
      BY <1>1, <2>2, <3>1
  <2>5. o + 1 \in 1 .. Block /\ (j + 1) - 1 = j
    BY <1>1, <2>2
  <2>6. f[i] = bs[j + 1][o + 1]
    BY <1>4, <2>1
  <2>7. bs[j + 1][o + 1] = t[Base(j) + (o + 1)]
    BY <1>0, <2>4, <2>5
  <2>8. bs[j + 1] \in BlockOfInts
    BY <1>0, <1>1, <2>4
  <2>9. bs[j + 1][o + 1] \in Int
    BY <2>5, <2>8 DEF BlockOfInts
  <2>10. QED
    BY <2>3, <2>6, <2>7, <2>9
<1>6. f = [i \in 1 .. Base(q) |-> f[i]]
  BY <1>4
<1>7. f \in [1 .. Base(q) -> Int]
  BY <1>5, <1>6
<1>8. f \in Seq(Int) /\ Len(f) = Base(q)
  BY <1>2, <1>7
<1>9. QED
  BY <1>3, <1>5, <1>8

\* Blocks and buffer together are what was taken.
LEMMA HeldIsTaken ==
  ASSUME NEW m, NEW t \in Seq(Int), Holds(m, t)
  PROVE  MD5!Joined(m.blocks) \o SubSeq(m.buffer, 1, MD5!index(m.count)) = t
<1>1. PICK q, at, l : q = Len(m.blocks) /\ at = MD5!index(m.count) /\ l = Len(t)
  OBVIOUS
<1>2. /\ m.blocks \in Seq(BlockOfInts) /\ m.buffer \in BlockOfInts /\ q \in Nat
      /\ Base(q) \in Nat /\ at \in 0 .. Block - 1 /\ l = Base(q) + at
      /\ \A j \in 1 .. q : \A o \in 1 .. Block : m.blocks[j][o] = t[Base(j - 1) + o]
      /\ \A o \in 1 .. at : m.buffer[o] = t[Base(q) + o]
  <2>1. /\ m.blocks \in Seq(BlockOfInts) /\ m.buffer \in BlockOfInts /\ Len(m.blocks) \in Nat
        /\ Base(Len(m.blocks)) \in Nat /\ MD5!index(m.count) \in 0 .. Block - 1
        /\ Len(t) = Base(Len(m.blocks)) + MD5!index(m.count)
        /\ \A j \in 1 .. Len(m.blocks) : \A o \in 1 .. Block :
             m.blocks[j][o] = t[Base(j - 1) + o]
        /\ \A o \in 1 .. MD5!index(m.count) : m.buffer[o] = t[Base(Len(m.blocks)) + o]
    BY HoldsIs
  <2>2. QED
    BY <1>1, <2>1
<1>3. PICK f, g : f = MD5!Joined(m.blocks) /\ g = SubSeq(m.buffer, 1, at)
  OBVIOUS
<1>4. f \in Seq(Int) /\ Len(f) = Base(q) /\ \A i \in 1 .. Base(q) : f[i] = t[i]
  <2>1. BlocksOf(m.blocks, q, t)
    BY <1>1, <1>2 DEF BlocksOf
  <2>2. QED
    BY <1>3, <2>1, JoinedIs
<1>5. at \in Nat /\ at <= Block /\ Block \in Nat /\ l \in Nat
  BY <1>1, <1>2, DigestSizes
<1>6. g \in Seq(Int) /\ Len(g) = at /\ \A o \in 1 .. at : g[o] = m.buffer[o]
  <2>1. m.buffer \in Seq(Int) /\ Len(m.buffer) = Block
    BY <1>2, BlocksAreSequences
  <2>2. 0 \in Nat /\ 0 + at = at /\ 0 + 1 = 1 /\ \A o \in 1 .. at : 0 + o = o
    BY <1>5
  <2>3. g = SubSeq(m.buffer, 0 + 1, 0 + at)
    BY <1>3, <2>2
  <2>4. IsSlice(g, Int, m.buffer, 0, at)
    BY <1>5, <2>1, <2>2, <2>3 DEF IsSlice
  <2>5. g \in Seq(Int) /\ Len(g) = at /\ \A o \in 1 .. at : g[o] = m.buffer[0 + o]
    BY <2>4, Slice
  <2>6. QED
    BY <2>2, <2>5
<1>7. PICK v : v = f \o g
  OBVIOUS
<1>8. /\ v \in Seq(Int) /\ Len(v) = Len(f) + Len(g)
      /\ \A i \in 1 .. Len(f) : v[i] = f[i]
      /\ \A i \in 1 .. Len(g) : v[Len(f) + i] = g[i]
  <2>1. f \in Seq(Int) /\ g \in Seq(Int)
    BY <1>4, <1>6
  <2>2. QED
    BY <1>7, <2>1, Joint
<1>9. Len(v) = l
  BY <1>2, <1>4, <1>6, <1>8
<1>10. ASSUME NEW i \in 1 .. l
       PROVE  v[i] = t[i]
  <2>1. CASE i <= Base(q)
    <3>1. i \in 1 .. Base(q)
      BY <1>2, <2>1
    <3>2. QED
      BY <1>4, <1>8, <3>1
  <2>2. CASE ~(i <= Base(q))
    <3>1. PICK o : o = i - Base(q)
      OBVIOUS
    <3>2. o \in 1 .. at /\ i = Base(q) + o
      BY <1>2, <1>5, <2>2, <3>1
    <3>3. v[i] = g[o]
      BY <1>4, <1>6, <1>8, <3>2
    <3>4. QED
      BY <1>2, <1>6, <3>2, <3>3
  <2>3. QED
    BY <2>1, <2>2
<1>11. v = t
  BY <1>1, <1>5, <1>8, <1>9, <1>10, SameSequence
<1>12. QED
  BY <1>1, <1>3, <1>7, <1>11

-----------------------------------------------------------------------------
(* The padding.                                                              *)

PaddingLength(at) == IF at < Block - 2 THEN Block - 2 - at ELSE 2 * Block - 2 - at

\* What padding adds is a one and the zeros of RFC 1321, up to two short of a block.
LEMMA PaddingFits ==
  ASSUME NEW l \in Nat, NEW n, n = PaddingLength(l % Block)
  PROVE  /\ n \in Nat /\ n >= 1 /\ (Block - 2 - 1 - l) % Block = n - 1
         /\ \E q \in Nat : l + n + 2 = Base(q)
<1>1. Block \in Nat \ {0} /\ Block > 2
  BY DigestSizes
<1>2. PICK k, at : k = l \div Block /\ at = l % Block
  OBVIOUS
<1>3. k \in Nat /\ at \in 0 .. Block - 1 /\ l = Block * k + at
  BY <1>1, <1>2, QuotientOfNat
<1>4. PICK c : c = Base(k)
  OBVIOUS
<1>5. c \in Nat /\ l = c + at
  BY <1>3, <1>4, BaseIs DEF Base
<1>6. k + 1 \in Nat /\ k + 2 \in Nat /\ -k \in Int /\ -k - 1 \in Int /\ k \in Int
  BY <1>3
<1>7. Base(k + 1) = c + Block /\ Base(k + 2) = c + Block + Block
  <2>1. Base(k + 1) = Base(k) + Block
    BY <1>6, BaseIs
  <2>2. Base((k + 1) + 1) = Base(k + 1) + Block
    BY <1>6, BaseIs
  <2>3. (k + 1) + 1 = k + 2
    BY <1>3
  <2>4. QED
    BY <1>1, <1>4, <1>5, <2>1, <2>2, <2>3
<1>8. \E d \in Int : Block * d = 0 - c
  <2>1. PICK d \in Int : d = 0 - k
    BY <1>6
  <2>2. Base(d + k) = Base(d) + Base(k) /\ Base(d) \in Int
    BY <1>6, BaseIs
  <2>3. d + k = 0 /\ Base(0) = 0
    BY <1>6, <2>1, BaseIs
  <2>4. PICK e \in Int : e = Base(d)
    BY <2>2
  <2>5. 0 = e + c
    BY <1>4, <2>2, <2>3, <2>4
  <2>6. e = 0 - c
    BY <1>5, <2>5
  <2>7. QED
    BY <2>4, <2>6 DEF Base
<1>d. PICK d \in Int : Block * d = 0 - c
  BY <1>8
<1>e. d - 1 \in Int /\ Block * (d - 1) = 0 - c - Block
  <2>1. Base((d - 1) + 1) = Base(d - 1) + Block /\ (d - 1) + 1 = d /\ Base(d - 1) \in Int
        /\ d - 1 \in Int
    <3>1. d - 1 \in Int /\ (d - 1) + 1 = d
      OBVIOUS
    <3>2. Base((d - 1) + 1) = Base(d - 1) + Block /\ Base(d - 1) \in Int
      BY <3>1, BaseIs
    <3>3. QED
      BY <3>1, <3>2
  <2>2. Base(d) = 0 - c
    BY <1>d DEF Base
  <2>3. PICK e : e = Base(d - 1)
    OBVIOUS
  <2>4. e \in Int /\ 0 - c = e + Block
    BY <2>1, <2>2, <2>3
  <2>5. e = 0 - c - Block
    BY <1>1, <1>5, <2>4
  <2>6. QED
    BY <2>1, <2>3, <2>5 DEF Base
<1>9. n = PaddingLength(at)
  BY <1>2
<1>10. CASE at < Block - 2
  <2>1. n = Block - 2 - at
    BY <1>9, <1>10 DEF PaddingLength
  <2>2. n \in Nat /\ n >= 1 /\ n - 1 \in 0 .. Block - 1 /\ l + n + 2 = c + Block
    BY <1>1, <1>3, <1>5, <1>10, <2>1
  <2>3. PICK a, x, z : a = Block - 2 - 1 - l /\ x = 0 - c /\ z = n - 1
    OBVIOUS
  <2>4. a = x + z /\ a \in Int
    BY <1>1, <1>3, <1>5, <2>1, <2>3
  <2>5. PICK e \in Int : Block * e = x
    BY <1>d, <1>e, <2>3
  <2>6. Divided(Block, e, z, a)
    BY <1>1, <2>2, <2>3, <2>4, <2>5 DEF Divided
  <2>7. a % Block = z
    BY <2>6, RemainderOf
  <2>8. QED
    BY <1>6, <1>7, <2>2, <2>3, <2>7
<1>11. CASE ~(at < Block - 2)
  <2>1. n = 2 * Block - 2 - at
    BY <1>9, <1>11 DEF PaddingLength
  <2>2. n \in Nat /\ n >= 1 /\ n - 1 \in 0 .. Block - 1 /\ l + n + 2 = c + Block + Block
    BY <1>1, <1>3, <1>5, <1>11, <2>1
  <2>3. PICK a, x, z : a = Block - 2 - 1 - l /\ x = 0 - c - Block /\ z = n - 1
    OBVIOUS
  <2>4. a = x + z /\ a \in Int
    BY <1>1, <1>3, <1>5, <2>1, <2>3
  <2>5. PICK e \in Int : Block * e = x
    BY <1>d, <1>e, <2>3
  <2>6. Divided(Block, e, z, a)
    BY <1>1, <2>2, <2>3, <2>4, <2>5 DEF Divided
  <2>7. a % Block = z
    BY <2>6, RemainderOf
  <2>8. QED
    BY <1>6, <1>7, <2>2, <2>3, <2>7
<1>12. QED
  BY <1>10, <1>11

\* The padding is a one and zeros.
LEMMA PaddingIs ==
  ASSUME NEW at, NEW n \in Nat, n >= 1, n = PaddingLength(at)
  PROVE  /\ MD5!padding(at) \in Seq(Int) /\ Len(MD5!padding(at)) = n
         /\ MD5!padding(at) = <<-1>> \o [i \in 1 .. n - 1 |-> 0]
<1>1. PICK p, z : p = MD5!padding(at) /\ z = [i \in 1 .. n - 1 |-> 0]
  OBVIOUS
<1>2. p = [i \in 1 .. n |-> IF i = 1 THEN -1 ELSE 0]
  BY <1>1 DEF MD5!padding, MD5!CountBytes, PaddingLength
<1>3. p \in Seq(Int) /\ Len(p) = n
  BY <1>2
<1>4. z \in Seq(Int) /\ Len(z) = n - 1 /\ <<-1>> \in Seq(Int) /\ Len(<<-1>>) = 1 /\ <<-1>>[1] = -1
  <2>1. n - 1 \in Nat
    OBVIOUS
  <2>2. QED
    BY <1>1, <2>1
<1>5. PICK v : v = <<-1>> \o z
  OBVIOUS
<1>6. /\ v \in Seq(Int) /\ Len(v) = n /\ v[1] = -1
      /\ \A i \in 1 .. n - 1 : v[1 + i] = z[i]
  <2>1. /\ v \in Seq(Int) /\ Len(v) = Len(<<-1>>) + Len(z)
        /\ \A i \in 1 .. Len(<<-1>>) : v[i] = <<-1>>[i]
        /\ \A i \in 1 .. Len(z) : v[Len(<<-1>>) + i] = z[i]
    <3>1. <<-1>> \in Seq(Int) /\ z \in Seq(Int)
      BY <1>4
    <3>2. QED
      BY <1>5, <3>1, Joint
  <2>2. QED
    BY <1>4, <2>1
<1>7. ASSUME NEW i \in 1 .. n
      PROVE  v[i] = p[i]
  <2>1. CASE i = 1
    BY <1>2, <1>6, <2>1
  <2>2. CASE i # 1
    <3>1. i - 1 \in 1 .. n - 1 /\ 1 + (i - 1) = i
      BY <2>2
    <3>2. v[i] = z[i - 1]
      BY <1>6, <3>1
    <3>3. z[i - 1] = 0 /\ p[i] = 0
      BY <1>1, <1>2, <2>2, <3>1
    <3>4. QED
      BY <3>2, <3>3
  <2>3. QED
    BY <2>1, <2>2
<1>8. v = p
  BY <1>3, <1>6, <1>7, SameSequence
<1>9. QED
  BY <1>1, <1>3, <1>5, <1>8

InThree(S, r, s, t) == r \in Seq(S) /\ s \in Seq(S) /\ t \in Seq(S)

LEMMA Associated ==
  ASSUME NEW S, NEW r, NEW s, NEW t, InThree(S, r, s, t)
  PROVE  (r \o s) \o t = r \o (s \o t)
<1>0. r \in Seq(S) /\ s \in Seq(S) /\ t \in Seq(S)
  BY DEF InThree
<1>1. PICK a, b, c, x, y : /\ a = Len(r) /\ b = Len(s) /\ c = Len(t)
                           /\ x = (r \o s) \o t /\ y = r \o (s \o t)
  OBVIOUS
<1>2. a \in Nat /\ b \in Nat /\ c \in Nat
  BY <1>0, <1>1
<1>3. /\ x \in Seq(S) /\ Len(x) = a + b + c
      /\ \A i \in 1 .. a : x[i] = r[i]
      /\ \A i \in 1 .. b : x[a + i] = s[i]
      /\ \A i \in 1 .. c : x[(a + b) + i] = t[i]
  <2>1. PICK h : h = r \o s
    OBVIOUS
  <2>2. /\ h \in Seq(S) /\ Len(h) = a + b /\ \A i \in 1 .. a : h[i] = r[i]
        /\ \A i \in 1 .. b : h[a + i] = s[i]
    BY <1>0, <1>1, <2>1, Joint
  <2>3. /\ h \o t \in Seq(S) /\ Len(h \o t) = Len(h) + Len(t)
        /\ \A i \in 1 .. Len(h) : (h \o t)[i] = h[i]
        /\ \A i \in 1 .. Len(t) : (h \o t)[Len(h) + i] = t[i]
    <3>1. h \in Seq(S)
      BY <2>2
    <3>2. QED
      BY <1>0, <3>1, Joint
  <2>4. x = h \o t
    BY <1>1, <2>1
  <2>5. /\ x \in Seq(S) /\ Len(x) = (a + b) + c /\ \A i \in 1 .. a + b : x[i] = h[i]
        /\ \A i \in 1 .. c : x[(a + b) + i] = t[i]
    BY <1>1, <2>2, <2>3, <2>4
  <2>6. /\ \A i \in 1 .. a : i \in 1 .. a + b
        /\ \A i \in 1 .. b : a + i \in 1 .. a + b
    BY <1>2
  <2>7. QED
    BY <1>2, <2>2, <2>5, <2>6
<1>4. /\ y \in Seq(S) /\ Len(y) = a + b + c
      /\ \A i \in 1 .. a : y[i] = r[i]
      /\ \A i \in 1 .. b : y[a + i] = s[i]
      /\ \A i \in 1 .. c : y[(a + b) + i] = t[i]
  <2>1. PICK h : h = s \o t
    OBVIOUS
  <2>2. /\ h \in Seq(S) /\ Len(h) = b + c /\ \A i \in 1 .. b : h[i] = s[i]
        /\ \A i \in 1 .. c : h[b + i] = t[i]
    BY <1>0, <1>1, <2>1, Joint
  <2>3. /\ r \o h \in Seq(S) /\ Len(r \o h) = Len(r) + Len(h)
        /\ \A i \in 1 .. Len(r) : (r \o h)[i] = r[i]
        /\ \A i \in 1 .. Len(h) : (r \o h)[Len(r) + i] = h[i]
    <3>1. h \in Seq(S)
      BY <2>2
    <3>2. QED
      BY <1>0, <3>1, Joint
  <2>4. y = r \o h
    BY <1>1, <2>1
  <2>5. /\ y \in Seq(S) /\ Len(y) = a + (b + c) /\ \A i \in 1 .. a : y[i] = r[i]
        /\ \A i \in 1 .. b + c : y[a + i] = h[i]
    BY <1>1, <2>2, <2>3, <2>4
  <2>6. /\ \A i \in 1 .. b : i \in 1 .. b + c
        /\ \A i \in 1 .. c : b + i \in 1 .. b + c /\ a + (b + i) = (a + b) + i
        /\ a + (b + c) = a + b + c
    BY <1>2
  <2>7. QED
    BY <2>2, <2>5, <2>6
<1>5. ASSUME NEW i \in 1 .. a + b + c
      PROVE  x[i] = y[i]
  <2>1. CASE i <= a
    <3>1. i \in 1 .. a
      BY <1>2, <2>1
    <3>2. QED
      BY <1>3, <1>4, <3>1
  <2>2. CASE ~(i <= a) /\ i <= a + b
    <3>1. PICK j : j = i - a
      OBVIOUS
    <3>2. j \in 1 .. b /\ i = a + j
      BY <1>2, <2>2, <3>1
    <3>3. QED
      BY <1>3, <1>4, <3>2
  <2>3. CASE ~(i <= a + b)
    <3>1. PICK j : j = i - (a + b)
      OBVIOUS
    <3>2. j \in 1 .. c /\ i = (a + b) + j
      BY <1>2, <2>3, <3>1
    <3>3. QED
      BY <1>3, <1>4, <3>2
  <2>4. QED
    BY <2>1, <2>2, <2>3
<1>6. a + b + c \in Nat
  BY <1>2
<1>7. x = y
  BY <1>3, <1>4, <1>5, <1>6, SameSequence
<1>8. QED
  BY <1>1, <1>7

\* The blocks after padding are the padded message.
LEMMA PaddedIs ==
  ASSUME NEW m, NEW l \in Nat, Holds(m, MD5!Message(l))
  PROVE  /\ MD5!Padded(m).blocks \in Seq(BlockOfInts)
         /\ MD5!Joined(MD5!Padded(m).blocks) = MD5!PaddedMessage(l)
<1>1. PICK t : t = MD5!Message(l)
  OBVIOUS
<1>2. t \in Seq(Int) /\ Len(t) = l
  <2>1. 0 \in Nat
    OBVIOUS
  <2>2. PICK p : p = [i \in 1 .. 0 |-> l + i]
    OBVIOUS
  <2>3. QED
    BY <1>1, <2>1, <2>2, MessageGrows
<1>3. CountIs(m.count, l)
  <2>1. CountIs(m.count, Len(t))
    BY <1>1, <1>2, HoldsIs
  <2>2. QED
    BY <1>2, <2>1
<1>4. PICK at, n, c : at = l % Block /\ n = PaddingLength(at) /\ c = m.count
  OBVIOUS
<1>5. MD5!index(m.count) = at
  BY <1>3, <1>4, IndexIs
<1>6. PICK p, z, w : /\ p = MD5!padding(at) /\ z = [i \in 1 .. n - 1 |-> 0]
                     /\ w = <<MD5!Lo(c[1]), MD5!Hi(c[2])>>
  OBVIOUS
<1>7. n \in Nat /\ n >= 1 /\ (Block - 2 - 1 - l) % Block = n - 1
  BY <1>4, PaddingFits
<1>8. PICK k \in Nat : l + n + 2 = Base(k)
  BY <1>4, PaddingFits
<1>9. p \in Seq(Int) /\ Len(p) = n /\ p = <<-1>> \o z
  BY <1>4, <1>6, <1>7, PaddingIs
<1>10. c[1] = (8 * l) % Word /\ c[2] = ((8 * l) \div Word) % Word /\ c[1] \in Int /\ c[2] \in Int
  <2>1. c[1] = (8 * l) % Word /\ c[2] = ((8 * l) \div Word) % Word
    BY <1>3, <1>4 DEF CountIs
  <2>2. c \in (0 .. Word - 1) \X (0 .. Word - 1)
    BY <1>3, <1>4, CountIsLength
  <2>3. QED
    BY <2>1, <2>2, DigestSizes
<1>11. w \in Seq(Int) /\ Len(w) = 2
  BY <1>6, <1>10 DEF MD5!Lo, MD5!Hi
<1>12. PICK s, d : s = (t \o p) \o w /\ d = MD5!Padded(m)
  OBVIOUS
<1>13. t \o p \in Seq(Int) /\ s \in Seq(Int) /\ Len(s) = l + n + 2
  <2>1. t \o p \in Seq(Int) /\ Len(t \o p) = Len(t) + Len(p)
    BY <1>2, <1>9, Joint
  <2>2. (t \o p) \o w \in Seq(Int) /\ Len((t \o p) \o w) = Len(t \o p) + Len(w)
    BY <1>11, <2>1, Joint
  <2>3. QED
    BY <1>2, <1>9, <1>11, <1>12, <2>1, <2>2
<1>14. Holds(d, s)
  <2>1. d = MD5!Updated(MD5!Updated(m, p), w)
    BY <1>4, <1>5, <1>6, <1>12 DEF MD5!Padded
  <2>2. PICK e : e = MD5!Updated(m, p)
    OBVIOUS
  <2>3. Holds(e, t \o p)
    BY <1>1, <1>2, <1>9, <2>2, UpdatedHolds
  <2>4. Holds(MD5!Updated(e, w), (t \o p) \o w)
    BY <1>11, <1>13, <2>3, UpdatedHolds
  <2>5. QED
    BY <1>12, <2>1, <2>2, <2>4
<1>15. PICK q, r : q = Len(d.blocks) /\ r = MD5!index(d.count)
  OBVIOUS
<1>16. /\ d.blocks \in Seq(BlockOfInts) /\ q \in Nat /\ r \in 0 .. Block - 1
       /\ Base(k) = Base(q) + r
       /\ \A j \in 1 .. q : \A o \in 1 .. Block : d.blocks[j][o] = s[Base(j - 1) + o]
  <2>1. /\ d.blocks \in Seq(BlockOfInts) /\ Len(d.blocks) \in Nat
        /\ MD5!index(d.count) \in 0 .. Block - 1
        /\ Len(s) = Base(Len(d.blocks)) + MD5!index(d.count)
        /\ \A j \in 1 .. Len(d.blocks) : \A o \in 1 .. Block : d.blocks[j][o] = s[Base(j - 1) + o]
    BY <1>13, <1>14, HoldsIs
  <2>2. QED
    BY <1>8, <1>13, <1>15, <2>1
<1>17. Base(k) = Base(q)
  <2>1. PICK a, b : a = Base(k) /\ b = Base(q)
    OBVIOUS
  <2>2. a \in Nat /\ b \in Nat /\ a = b + r /\ Block \in Nat \ {0} /\ 0 \in 0 .. Block - 1
    BY <1>16, <2>1, BaseIs, DigestSizes
  <2>3. Divided(Block, k, 0, a)
    BY <2>1, <2>2 DEF Divided, Base
  <2>4. Divided(Block, q, r, a)
    BY <1>16, <2>1, <2>2 DEF Divided, Base
  <2>5. a % Block = 0 /\ a % Block = r
    BY <2>3, <2>4, RemainderOf
  <2>6. QED
    BY <2>1, <2>2, <2>5
<1>18. PICK j : j = MD5!Joined(d.blocks)
  OBVIOUS
<1>19. j = s
  <2>1. BlocksOf(d.blocks, q, s)
    BY <1>15, <1>16 DEF BlocksOf
  <2>2. j \in Seq(Int) /\ Len(j) = Base(q) /\ \A i \in 1 .. Base(q) : j[i] = s[i]
    BY <1>18, <2>1, JoinedIs
  <2>3. PICK b : b = Base(q)
    OBVIOUS
  <2>4. b \in Nat /\ Len(s) = b
    BY <1>8, <1>13, <1>16, <1>17, <2>3, BaseIs
  <2>5. j \in Seq(Int) /\ s \in Seq(Int) /\ Len(j) = b /\ \A i \in 1 .. b : j[i] = s[i]
    BY <1>13, <2>2, <2>3
  <2>6. QED
    BY <2>4, <2>5, SameSequence
<1>20. MD5!PaddedMessage(l) = s
  <2>1. MD5!PaddedMessage(l) = ((t \o <<-1>>) \o z) \o w
    <3>1. MD5!PaddedMessage(l) =
            ((t \o <<-1>>) \o [i \in 1 .. (Block - 2 - 1 - l) % Block |-> 0])
               \o <<MD5!Lo((8 * l) % Word), MD5!Hi(((8 * l) \div Word) % Word)>>
      BY <1>1 DEF MD5!PaddedMessage, MD5!CountBytes
    <3>2. QED
      BY <1>6, <1>7, <1>10, <3>1
  <2>2. <<-1>> \in Seq(Int) /\ z \in Seq(Int)
    <3>1. n - 1 \in Nat
      BY <1>7
    <3>2. QED
      BY <1>6, <3>1
  <2>3. (t \o <<-1>>) \o z = t \o (<<-1>> \o z)
    <3>1. InThree(Int, t, <<-1>>, z)
      BY <1>2, <2>2 DEF InThree
    <3>2. QED
      BY <3>1, Associated
  <2>4. QED
    BY <1>9, <1>12, <2>1, <2>3
<1>21. QED
  BY <1>12, <1>16, <1>18, <1>19, <1>20

-----------------------------------------------------------------------------
(* The invariant.                                                            *)

SameFields(m, e) == m.count = e.count /\ m.blocks = e.blocks /\ m.buffer = e.buffer

\* Nothing but count, blocks and buffer matters.
LEMMA HoldsTheSame ==
  ASSUME NEW m, NEW e, NEW t, SameFields(m, e), Holds(e, t)
  PROVE  Holds(m, t)
BY DEF SameFields, Holds

\* m is e, after bs was transformed already.
IsAfter(m, bs, e) ==
    /\ bs \in Seq(BlockOfInts)
    /\ m.count = e.count /\ m.buffer = e.buffer /\ m.blocks = bs \o e.blocks

\* Blocks that were transformed before make no difference to update.
LEMMA UpdatedAfter ==
  ASSUME NEW m, NEW bs, NEW e, IsAfter(m, bs, e), NEW t \in Seq(Int), Holds(e, t),
         NEW input \in Seq(Int)
  PROVE  IsAfter(MD5!Updated(m, input), bs, MD5!Updated(e, input))
<1>1. PICK d, f : d = MD5!Updated(m, input) /\ f = MD5!Updated(e, input)
  OBVIOUS
<1>2. /\ bs \in Seq(BlockOfInts) /\ m.count = e.count /\ m.buffer = e.buffer
      /\ m.blocks = bs \o e.blocks /\ e.blocks \in Seq(BlockOfInts)
  BY DEF IsAfter, Holds
<1>3. d.count = f.count /\ d.buffer = f.buffer
  BY <1>1, <1>2 DEF MD5!Updated
<1>4. CASE IsShort(e, input)
  <2>1. Len(input) < Block - MD5!index(m.count) /\ Len(input) < Block - MD5!index(e.count)
    BY <1>2, <1>4 DEF IsShort
  <2>2. d.blocks = m.blocks /\ f.blocks = e.blocks
    BY <1>1, <2>1 DEF MD5!Updated
  <2>3. QED
    BY <1>1, <1>2, <1>3, <2>2 DEF IsAfter
<1>5. CASE ~IsShort(e, input)
  <2>1. PICK q, at, first, whole, left, n, l :
               UpdateNumbers(e, t, input, q, at, first, whole, left, n, l)
    BY <1>5, LongNumbers
  <2>2. PICK u, full, middle :
               /\ u = t \o input /\ full = FullBlock(e, input, at, first)
               /\ middle = MiddleBlocks(input, first, whole)
    OBVIOUS
  <2>3. Extends(u, l, t, input)
    <3>1. /\ \A i \in 1 .. Len(t) : u[i] = t[i]
          /\ \A i \in 1 .. Len(input) : u[Len(t) + i] = input[i]
      BY <2>2, Joint
    <3>2. l = Len(t)
      BY <2>1 DEF UpdateNumbers
    <3>3. QED
      BY <3>1, <3>2 DEF Extends
  <2>4. Update(u, e, t, input, q, at, first, whole, left, n, l)
    BY <2>1, <2>3 DEF Update
  <2>5. middle \in Seq(BlockOfInts)
    BY <2>2, <2>4, MiddleIs
  <2>6. full \in BlockOfInts
    <3>1. FullBlock(e, input, at, first) \in BlockOfInts
      BY <2>1, <2>3, Filled
    <3>2. QED
      BY <2>2, <3>1
  <2>7. f.blocks = e.blocks \o <<full>> \o middle
    <3>1. Result(MD5!Updated(e, input), e, input, at, first, whole, n)
      BY <1>5, <2>1, LongUpdate
    <3>2. QED
      BY <1>1, <2>2, <3>1 DEF Result
  <2>8. d.blocks = m.blocks \o <<full>> \o middle
    <3>1. /\ at = MD5!index(m.count) /\ at = MD5!index(e.count) /\ n = Len(input)
          /\ first = Block - at /\ whole = (n - first) \div Block
      <4>1. /\ at = MD5!index(e.count) /\ n = Len(input) /\ at \in Nat /\ first \in Nat
            /\ at + first = Block /\ whole = (n - first) \div Block /\ Block \in Nat
        BY <2>1, DigestSizes DEF UpdateNumbers, Sums, Placed
      <4>2. first = Block - at
        BY <4>1
      <4>3. QED
        BY <1>2, <4>1, <4>2
    <3>2. ~(n < first)
      BY <1>5, <3>1 DEF IsShort
    <3>3. d.blocks = m.blocks \o <<MD5!Written(m.buffer, at, SubSeq(input, 1, first))>> \o
            [k \in 1 .. whole |-> SubSeq(input, first + (k - 1) * Block + 1, first + k * Block)]
      BY <1>1, <3>1, <3>2 DEF MD5!Updated
    <3>4. QED
      BY <1>2, <2>2, <3>3 DEF FullBlock, MiddleBlocks, MiddleBlock
  <2>9. /\ <<full>> \in Seq(BlockOfInts)
        /\ e.blocks \o <<full>> \in Seq(BlockOfInts)
    BY <1>2, <2>6
  <2>10. ((bs \o e.blocks) \o <<full>>) \o middle = bs \o ((e.blocks \o <<full>>) \o middle)
    <3>1. PICK x, y, z : x = e.blocks /\ y = <<full>> /\ z = x \o y
      OBVIOUS
    <3>2. x \in Seq(BlockOfInts) /\ y \in Seq(BlockOfInts) /\ z \in Seq(BlockOfInts)
      BY <1>2, <2>9, <3>1
    <3>3. (bs \o x) \o y = bs \o (x \o y)
      <4>1. InThree(BlockOfInts, bs, x, y)
        BY <1>2, <3>2 DEF InThree
      <4>2. QED
        BY <4>1, Associated
    <3>4. (bs \o z) \o middle = bs \o (z \o middle)
      <4>1. InThree(BlockOfInts, bs, z, middle)
        BY <1>2, <2>5, <3>2 DEF InThree
      <4>2. QED
        BY <4>1, Associated
    <3>5. QED
      BY <3>1, <3>3, <3>4
  <2>11. d.blocks = bs \o f.blocks
    BY <1>2, <2>7, <2>8, <2>10
  <2>12. QED
    BY <1>1, <1>2, <1>3, <2>11 DEF IsAfter
<1>6. QED
  BY <1>4, <1>5

\* What the class holds follows some blocks that were transformed before: none, or
\* those of the digest once an MD5 is finalised, for the state is not started afresh.
Follows(m) == \E bs, t, e : t \in Seq(Int) /\ Holds(e, t) /\ IsAfter(m, bs, e)

DigestInv ==
    /\ class \in {"MD5", "CMD5"} /\ finalized \in BOOLEAN
    /\ length \in 0 .. MaxLength /\ finals \in 0 .. MaxFinals
    /\ class = "CMD5" => ~finalized
    /\ Follows(MD5!Now)
    /\ ~finalized => Holds(MD5!Now, MD5!Message(length))

\* A message is a sequence.
LEMMA MessageIs ==
  ASSUME NEW l \in Nat
  PROVE  MD5!Message(l) \in Seq(Int) /\ Len(MD5!Message(l)) = l
<1>1. PICK p : p = [i \in 1 .. 0 |-> l + i]
  OBVIOUS
<1>2. 0 \in Nat
  OBVIOUS
<1>3. QED
  BY <1>1, <1>2, MessageGrows

\* After Init or finalisation nothing is taken.
LEMMA Fresh ==
  ASSUME NEW m, m.count = <<0, 0>>, m.buffer = MD5!Clear
  PROVE  /\ m.blocks \in Seq(BlockOfInts) => Follows(m)
         /\ m.blocks = <<>> => Holds(m, MD5!Message(0))
<1>1. ASSUME m.blocks = <<>>
      PROVE  Holds(m, MD5!Message(0))
  <2>1. Holds(m, <<>>)
    BY <1>1, ClearIs, NothingHolds
  <2>2. MD5!Message(0) = <<>>
    BY DEF MD5!Message
  <2>3. QED
    BY <2>1, <2>2
<1>2. ASSUME m.blocks \in Seq(BlockOfInts)
      PROVE  Follows(m)
  <2>1. PICK e : e = [count |-> <<0, 0>>, blocks |-> <<>>, buffer |-> MD5!Clear]
    OBVIOUS
  <2>2. e.count = <<0, 0>> /\ e.blocks = <<>> /\ e.buffer = MD5!Clear
    BY <2>1
  <2>3. Holds(e, <<>>)
    BY <2>2, ClearIs, NothingHolds
  <2>4. m.blocks = m.blocks \o e.blocks
    BY <1>2, <2>2
  <2>5. IsAfter(m, m.blocks, e)
    BY <1>2, <2>2, <2>4 DEF IsAfter
  <2>6. <<>> \in Seq(Int)
    OBVIOUS
  <2>7. QED
    BY <2>3, <2>5, <2>6 DEF Follows
<1>3. QED
  BY <1>1, <1>2

\* An update goes on from what is held.
LEMMA FollowsUpdate ==
  ASSUME NEW m, Follows(m), NEW input \in Seq(Int)
  PROVE  Follows(MD5!Updated(m, input))
<1>1. PICK bs, t, e : t \in Seq(Int) /\ Holds(e, t) /\ IsAfter(m, bs, e)
  BY DEF Follows
<1>2. IsAfter(MD5!Updated(m, input), bs, MD5!Updated(e, input))
  BY <1>1, UpdatedAfter
<1>3. Holds(MD5!Updated(e, input), t \o input) /\ t \o input \in Seq(Int)
  <2>1. t \o input \in Seq(Int)
    BY <1>1, Joint
  <2>2. QED
    BY <1>1, <2>1, UpdatedHolds
<1>4. QED
  BY <1>2, <1>3 DEF Follows

\* Again nothing but count, blocks and buffer matters.
LEMMA FollowsTheSame ==
  ASSUME NEW m, NEW e, SameFields(m, e), Follows(e)
  PROVE  Follows(m)
<1>1. PICK bs, t, f : t \in Seq(Int) /\ Holds(f, t) /\ IsAfter(e, bs, f)
  BY DEF Follows
<1>2. IsAfter(m, bs, f)
  BY <1>1 DEF IsAfter, SameFields
<1>3. QED
  BY <1>1, <1>2 DEF Follows

\* The types follow.
LEMMA DigestType == DigestInv => MD5!TypeOK
<1> SUFFICES ASSUME DigestInv
             PROVE  MD5!TypeOK
  OBVIOUS
<1>1. PICK m : m = MD5!Now
  OBVIOUS
<1>2. m.count = count /\ m.buffer = buffer /\ m.blocks = blocks
  BY <1>1 DEF MD5!Now
<1>3. PICK bs, t, e : t \in Seq(Int) /\ Holds(e, t) /\ IsAfter(m, bs, e)
  BY <1>1 DEF DigestInv, Follows
<1>4. e.blocks \in Seq(BlockOfInts) /\ e.buffer \in BlockOfInts /\ CountIs(e.count, Len(t))
  BY <1>3 DEF Holds
<1>5. count = e.count /\ buffer = e.buffer /\ blocks = bs \o e.blocks /\ bs \in Seq(BlockOfInts)
  BY <1>2, <1>3 DEF IsAfter
<1>6. count \in (0 .. Word - 1) \X (0 .. Word - 1)
  <2>1. Len(t) \in Nat
    BY <1>3
  <2>2. QED
    BY <1>4, <1>5, <2>1, CountIsLength
<1>7. Len(buffer) = Block
  BY <1>4, <1>5, BlocksAreSequences
<1>8. blocks \in Seq(BlockOfInts)
  BY <1>4, <1>5, Joint
<1>9. \A i \in 1 .. Len(blocks) : Len(blocks[i]) = Block
  BY <1>8, BlocksAreSequences
<1>10. QED
  BY <1>6, <1>7, <1>9 DEF DigestInv, MD5!TypeOK

\* What is assumed of the bounds.
LEMMA DigestStatic ==
  /\ MaxLength \in Nat /\ MaxFinals \in Nat /\ Pieces \subseteq Nat
BY ValuesAssumption DEF MD5!DigestAssumption

\* Init establishes the invariant.
LEMMA DigestInit == Init => DigestInv
<1> SUFFICES ASSUME MD5!Init
             PROVE  DigestInv
  BY DEF Init
<1>1. PICK m : m = MD5!Now
  OBVIOUS
<1>2. m.count = <<0, 0>> /\ m.buffer = MD5!Clear /\ m.blocks = <<>>
  BY <1>1 DEF MD5!Now, MD5!Init
<1>3. m.blocks \in Seq(BlockOfInts)
  BY <1>2
<1>4. Follows(m) /\ Holds(m, MD5!Message(0))
  BY <1>2, <1>3, Fresh
<1>5. QED
  <2>1. /\ class \in {"MD5", "CMD5"} /\ finalized = FALSE /\ length = 0 /\ finals = 0
    BY DEF MD5!Init
  <2>2. 0 \in 0 .. MaxLength /\ 0 \in 0 .. MaxFinals
    BY DigestStatic
  <2>3. Follows(MD5!Now) /\ Holds(MD5!Now, MD5!Message(length))
    BY <1>1, <1>4, <2>1
  <2>4. QED
    BY <2>1, <2>2, <2>3 DEF DigestInv

\* update keeps the invariant.
LEMMA DigestUpdates ==
  ASSUME DigestInv, NEW n \in Pieces, MD5!update(n)
  PROVE  DigestInv'
<1>1. PICK m, d, e, p : /\ m = MD5!Now /\ p = MD5!Piece(n) /\ d = MD5!Updated(m, p)
                        /\ e = MD5!Now'
  OBVIOUS
<1>2. n \in Nat /\ length \in Nat
  BY DigestStatic DEF DigestInv
<1>3. /\ length + n <= MaxLength /\ length' = length + n
      /\ class' = class /\ finalized' = finalized /\ finals' = finals
  BY DEF MD5!update
<1>4. count' = d.count /\ blocks' = d.blocks /\ buffer' = d.buffer
  BY <1>1 DEF MD5!update
<1>5. SameFields(e, d)
  BY <1>1, <1>4 DEF SameFields, MD5!Now
<1>6. p \in Seq(Int) /\ MD5!Message(length) \o p = MD5!Message(length + n)
      /\ MD5!Message(length) \in Seq(Int)
  BY <1>1, <1>2, MessageGrows DEF MD5!Piece
<1>7. Follows(e)
  <2>1. Follows(m)
    BY <1>1 DEF DigestInv
  <2>2. Follows(d)
    BY <1>1, <1>6, <2>1, FollowsUpdate
  <2>3. QED
    BY <1>5, <2>2, FollowsTheSame
<1>8. ASSUME ~finalized
      PROVE  Holds(e, MD5!Message(length + n))
  <2>1. Holds(m, MD5!Message(length))
    BY <1>1, <1>8 DEF DigestInv
  <2>2. Holds(d, MD5!Message(length) \o p)
    BY <1>1, <1>6, <2>1, UpdatedHolds
  <2>3. Holds(d, MD5!Message(length + n))
    BY <1>6, <2>2
  <2>4. QED
    BY <1>5, <2>3, HoldsTheSame
<1>9. length' \in 0 .. MaxLength
  BY <1>2, <1>3, DigestStatic
<1>10. Follows(MD5!Now')
  BY <1>1, <1>7
<1>11. ~finalized' => Holds(MD5!Now', MD5!Message(length'))
  BY <1>1, <1>3, <1>8
<1>12. QED
  <2>1. /\ class' \in {"MD5", "CMD5"} /\ finalized' \in BOOLEAN
        /\ finals' \in 0 .. MaxFinals /\ (class' = "CMD5" => ~finalized')
    BY <1>3 DEF DigestInv
  <2>2. Follows(MD5!Now)' /\ (~finalized => Holds(MD5!Now, MD5!Message(length)))'
    BY <1>10, <1>11
  <2>3. QED
    BY <1>9, <2>1, <2>2 DEF DigestInv

\* finalize keeps it.
LEMMA DigestFinalizes ==
  ASSUME DigestInv, MD5!finalize
  PROVE  DigestInv'
<1>1. class' = class /\ length' = length /\ class = "MD5" /\ finals < MaxFinals
      /\ finals' = finals + 1
  BY DEF MD5!finalize
<1>2. finals' \in 0 .. MaxFinals
  BY <1>1, DigestStatic DEF DigestInv
<1>3. CASE finalized
  <2>1. finalized' = finalized /\ MD5!Now' = MD5!Now
    BY <1>3 DEF MD5!finalize, MD5!Now
  <2>2. Follows(MD5!Now)'
    BY <2>1 DEF DigestInv
  <2>3. QED
    BY <1>1, <1>2, <1>3, <2>1, <2>2 DEF DigestInv
<1>4. CASE ~finalized
  <2>1. PICK e : e = MD5!Now'
    OBVIOUS
  <2>2. /\ finalized' = TRUE /\ e.count = <<0, 0>> /\ e.buffer = MD5!Clear
        /\ e.blocks = MD5!Padded(MD5!Now).blocks
    BY <1>4, <2>1 DEF MD5!finalize, MD5!Now
  <2>3. e.blocks \in Seq(BlockOfInts)
    <3>1. length \in Nat /\ Holds(MD5!Now, MD5!Message(length))
      BY <1>4, DigestStatic DEF DigestInv
    <3>2. QED
      BY <2>2, <3>1, PaddedIs
  <2>4. Follows(e)
    BY <2>2, <2>3, Fresh
  <2>5. Follows(MD5!Now)'
    BY <2>1, <2>4
  <2>6. QED
    BY <1>1, <1>2, <2>2, <2>5 DEF DigestInv
<1>5. QED
  BY <1>3, <1>4

\* MD5Final keeps it.
LEMMA DigestStartsAfresh ==
  ASSUME DigestInv, MD5!MD5Final
  PROVE  DigestInv'
<1>1. /\ class' = class /\ finalized' = finalized /\ length' = 0 /\ finals < MaxFinals
      /\ finals' = finals + 1
  BY DEF MD5!MD5Final
<1>2. finals' \in 0 .. MaxFinals /\ length' \in 0 .. MaxLength
  BY <1>1, DigestStatic DEF DigestInv
<1>3. PICK e : e = MD5!Now'
  OBVIOUS
<1>4. e.count = <<0, 0>> /\ e.buffer = MD5!Clear /\ e.blocks = <<>>
  BY <1>3 DEF MD5!MD5Final, MD5!Now
<1>5. e.blocks \in Seq(BlockOfInts)
  BY <1>4
<1>6. Follows(e) /\ Holds(e, MD5!Message(0))
  BY <1>4, <1>5, Fresh
<1>7. Follows(MD5!Now)' /\ Holds(MD5!Now, MD5!Message(length))'
  BY <1>1, <1>3, <1>6
<1>8. QED
  BY <1>1, <1>2, <1>7 DEF DigestInv

\* So does a step of one of the other two.
LEMMA DigestRests ==
  ASSUME DigestInv, UNCHANGED MD5!vars
  PROVE  DigestInv'
BY DEF MD5!vars, DigestInv, MD5!Now

\* Every step does.
LEMMA DigestNext == DigestInv /\ [MD5!Next]_MD5!vars => DigestInv'
BY DigestUpdates, DigestFinalizes, DigestStartsAfresh, DigestRests DEF MD5!Next

\* A step of the whole is a step of the digests or leaves them alone.
LEMMA EveryStepOfDigests == [Next]_vars => [MD5!Next]_MD5!vars
BY DEF Next, OfNumbers, OfDigests, OfTexts, vars, digestVars, MD5!vars

\* The bytes taken are those of the message, and the count is its length.
LEMMA DigestIsTheMessage ==
  DigestInv => MD5!BlocksAreTheMessage /\ MD5!CountIsTheLength
<1> SUFFICES ASSUME DigestInv, ~finalized
             PROVE  /\ MD5!Joined(blocks) \o SubSeq(buffer, 1, MD5!index(count))
                         = MD5!Message(length)
                    /\ count[1] + Word * count[2] = (8 * length) % (Word * Word)
  BY DEF MD5!BlocksAreTheMessage, MD5!CountIsTheLength
<1>1. PICK m : m = MD5!Now
  OBVIOUS
<1>2. m.count = count /\ m.buffer = buffer /\ m.blocks = blocks
  BY <1>1 DEF MD5!Now
<1>3. length \in Nat /\ Holds(m, MD5!Message(length))
  BY <1>1, DigestStatic DEF DigestInv
<1>4. PICK t : t = MD5!Message(length) /\ t \in Seq(Int) /\ Len(t) = length
  BY <1>3, MessageIs
<1>5. Holds(m, t) /\ CountIs(m.count, length)
  <2>1. CountIs(m.count, Len(t))
    BY <1>3, <1>4 DEF Holds
  <2>2. QED
    BY <1>3, <1>4, <2>1
<1>6. MD5!Joined(m.blocks) \o SubSeq(m.buffer, 1, MD5!index(m.count)) = t
  BY <1>4, <1>5, HeldIsTaken
<1>7. count[1] + Word * count[2] = (8 * length) % (Word * Word)
  BY <1>2, <1>3, <1>5, CountIsLength
<1>8. QED
  BY <1>2, <1>4, <1>6, <1>7

\* A step that makes a digest makes that of the message.
LEMMA DigestStep ==
  ASSUME DigestInv, MD5!Next, digest' # digest
  PROVE  MD5!Joined(digest') = MD5!PaddedMessage(length)
<1>1. length \in Nat
  BY DigestStatic DEF DigestInv
<1>2. ~finalized /\ digest' = MD5!Padded(MD5!Now).blocks
  BY DEF MD5!Next, MD5!finalize, MD5!MD5Final, MD5!update, DigestInv
<1>3. Holds(MD5!Now, MD5!Message(length))
  BY <1>2 DEF DigestInv
<1>4. QED
  BY <1>1, <1>2, <1>3, PaddedIs

\* A finalised MD5 keeps its digest.
LEMMA DigestKept ==
  ASSUME DigestInv, [MD5!Next]_MD5!vars, finalized
  PROVE  digest' = digest
BY DEF MD5!Next, MD5!vars, MD5!finalize, MD5!MD5Final, MD5!update, DigestInv

\* However a message comes in pieces of any length, every byte of it is transformed or
\* waits in the buffer, once and in order; the two words of the count are its length
\* although the low one overflows; a digest is that of the padded message, and stays
\* what it is once an MD5 is finalised (update, finalize, MD5Final of MD5.cpp).
THEOREM EveryDigestIsOfTheMessage == Spec => DigestsAreOfTheMessage
<1>1. Init => DigestInv
  BY DigestInit
<1>2. DigestInv /\ [Next]_vars => DigestInv'
  BY DigestNext, EveryStepOfDigests
<1>3. DigestInv => MD5!TypeOK /\ MD5!BlocksAreTheMessage /\ MD5!CountIsTheLength
  BY DigestType, DigestIsTheMessage
<1>4. DigestInv /\ [Next]_vars
        => [digest' # digest => MD5!Joined(digest') = MD5!PaddedMessage(length)]_MD5!vars
  BY DigestStep, EveryStepOfDigests
<1>5. DigestInv /\ [Next]_vars => [finalized => digest' = digest]_MD5!vars
  BY DigestKept, EveryStepOfDigests
<1>6. QED
  BY <1>1, <1>2, <1>3, <1>4, <1>5, PTL
     DEF Spec, DigestsAreOfTheMessage, MD5!DigestIsOfTheMessage, MD5!DigestIsKept

-----------------------------------------------------------------------------
(* Induction and recursion.                                                  *)

\* What a set of numbers has if it has each number that follows those below.
LEMMA StrongInduction ==
  ASSUME NEW S, \A n \in Nat : (\A m \in Nat : m < n => m \in S) => n \in S
  PROVE  \A n \in Nat : n \in S
<1> DEFINE T == Nat \ S
<1>1. SUFFICES ASSUME T # {}
               PROVE  FALSE
  OBVIOUS
<1>2. Min(T) \in T /\ \A m \in T : Min(T) <= m
  BY <1>1, HasMin
<1>3. PICK n : n = Min(T)
  OBVIOUS
<1>4. n \in Nat /\ n \notin S /\ \A m \in Nat : m < n => m \in S
  BY <1>2, <1>3
<1>5. QED
  BY <1>4

LEMMA Induction ==
  ASSUME NEW S, 0 \in S, \A n \in Nat : n \in S => n + 1 \in S
  PROVE  \A n \in Nat : n \in S
<1>1. ASSUME NEW n \in Nat, \A m \in Nat : m < n => m \in S
      PROVE  n \in S
  <2>1. CASE n = 0
    BY <2>1
  <2>2. CASE n # 0
    <3>1. n - 1 \in Nat /\ n - 1 < n /\ (n - 1) + 1 = n
      BY <2>2
    <3>2. n - 1 \in S
      BY <1>1, <3>1
    <3>3. (n - 1) + 1 \in S
      BY <3>1, <3>2
    <3>4. QED
      BY <3>1, <3>3
  <2>3. QED
    BY <2>1, <2>2
<1>2. QED
  BY <1>1, StrongInduction

\* What g says of a function at a place depends on smaller places only.
LooksDown(D, S, size, g) ==
    /\ size \in [D -> Nat] /\ g \in [D -> [[D -> S] -> S]]
    /\ \A d \in D : \A e, f \in [D -> S] :
          (\A c \in D : size[c] < size[d] => e[c] = f[c]) => g[d][e] = g[d][f]

\* f is what g says, as far as n.
FollowsTo(D, S, size, g, f, n) ==
    f \in [D -> S] /\ \A d \in D : size[d] < n => f[d] = g[d][f]

LEMMA FollowsFurther ==
  ASSUME NEW D, NEW S, NEW size, NEW g, LooksDown(D, S, size, g),
         NEW n \in Nat, NEW f, FollowsTo(D, S, size, g, f, n)
  PROVE  \E h : FollowsTo(D, S, size, g, h, n + 1)
<1>1. /\ size \in [D -> Nat] /\ g \in [D -> [[D -> S] -> S]] /\ f \in [D -> S]
      /\ \A d \in D : \A e, h \in [D -> S] :
            (\A c \in D : size[c] < size[d] => e[c] = h[c]) => g[d][e] = g[d][h]
      /\ \A d \in D : size[d] < n => f[d] = g[d][f]
  BY DEF LooksDown, FollowsTo
<1> DEFINE h == [d \in D |-> g[d][f]]
<1>2. h \in [D -> S] /\ \A d \in D : h[d] = g[d][f]
  BY <1>1
<1> HIDE DEF h
<1>3. ASSUME NEW d \in D, size[d] < n + 1
      PROVE  h[d] = g[d][h]
  <2>1. ASSUME NEW c \in D, size[c] < size[d]
        PROVE  f[c] = h[c]
    <3>1. size[c] < n
      BY <1>1, <1>3, <2>1
    <3>2. QED
      BY <1>1, <1>2, <3>1
  <2>2. g[d][f] = g[d][h]
    BY <1>1, <1>2, <2>1
  <2>3. QED
    BY <1>2, <2>2
<1>4. QED
  BY <1>2, <1>3 DEF FollowsTo

\* Two functions that follow g as far as n and m are the same below both.
LEMMA FollowersAgree ==
  ASSUME NEW D, NEW S, NEW size, NEW g, LooksDown(D, S, size, g),
         NEW n \in Nat, NEW f, FollowsTo(D, S, size, g, f, n),
         NEW m \in Nat, NEW h, FollowsTo(D, S, size, g, h, m),
         NEW d \in D, size[d] < n, size[d] < m
  PROVE  f[d] = h[d]
<1>1. /\ size \in [D -> Nat] /\ f \in [D -> S] /\ h \in [D -> S]
      /\ \A c \in D : \A e, k \in [D -> S] :
            (\A b \in D : size[b] < size[c] => e[b] = k[b]) => g[c][e] = g[c][k]
      /\ \A c \in D : size[c] < n => f[c] = g[c][f]
      /\ \A c \in D : size[c] < m => h[c] = g[c][h]
  BY DEF LooksDown, FollowsTo
<1> DEFINE T == {k \in Nat : \A c \in D : size[c] = k /\ k < n /\ k < m => f[c] = h[c]}
<1>2. ASSUME NEW k \in Nat, \A l \in Nat : l < k => l \in T
      PROVE  k \in T
  <2>1. ASSUME NEW c \in D, size[c] = k, k < n, k < m
        PROVE  f[c] = h[c]
    <3>1. ASSUME NEW b \in D, size[b] < size[c]
          PROVE  f[b] = h[b]
      <4>1. size[b] \in Nat /\ size[b] < k /\ size[b] < n /\ size[b] < m
        BY <1>1, <2>1, <3>1
      <4>2. size[b] \in T
        BY <1>2, <4>1
      <4>3. QED
        BY <4>1, <4>2
    <3>2. g[c][f] = g[c][h]
      BY <1>1, <3>1
    <3>3. QED
      BY <1>1, <2>1, <3>2
  <2>2. QED
    BY <2>1
<1> HIDE DEF T
<1>3. \A k \in Nat : k \in T
  BY <1>2, StrongInduction
<1>4. size[d] \in Nat /\ size[d] \in T
  BY <1>1, <1>3
<1>5. QED
  BY <1>4 DEF T

\* A function that is defined by its smaller places exists.
LEMMA Recursion ==
  ASSUME NEW D, NEW S, S # {}, NEW size, NEW g, LooksDown(D, S, size, g)
  PROVE  \E f \in [D -> S] : \A d \in D : f[d] = g[d][f]
<1> DEFINE T == {n \in Nat : \E f : FollowsTo(D, S, size, g, f, n)}
<1>1. 0 \in T
  <2>1. PICK s : s \in S
    OBVIOUS
  <2>2. [d \in D |-> s] \in [D -> S]
    BY <2>1
  <2>3. \A d \in D : ~(size[d] < 0)
    BY DEF LooksDown
  <2>4. QED
    BY <2>2, <2>3 DEF FollowsTo
<1>2. ASSUME NEW n \in Nat, n \in T
      PROVE  n + 1 \in T
  <2>1. PICK f : FollowsTo(D, S, size, g, f, n)
    BY <1>2
  <2>2. QED
    BY <2>1, FollowsFurther
<1>3. ASSUME NEW n \in Nat
      PROVE  \E f : FollowsTo(D, S, size, g, f, n)
  <2>1. n \in T
    <3> HIDE DEF T
    <3>1. QED
      BY <1>1, <1>2, Induction
  <2>2. QED
    BY <2>1
<1> DEFINE F(n) == CHOOSE f : FollowsTo(D, S, size, g, f, n)
           h == [d \in D |-> F(size[d] + 1)[d]]
<1>4. ASSUME NEW n \in Nat
      PROVE  FollowsTo(D, S, size, g, F(n), n)
  BY <1>3
<1> HIDE DEF T, F
<1>5. /\ size \in [D -> Nat]
      /\ \A c \in D : \A e, f \in [D -> S] :
            (\A b \in D : size[b] < size[c] => e[b] = f[b]) => g[c][e] = g[c][f]
  BY DEF LooksDown
<1>6. ASSUME NEW d \in D
      PROVE  /\ size[d] + 1 \in Nat /\ size[d] \in Nat /\ F(size[d] + 1) \in [D -> S]
             /\ FollowsTo(D, S, size, g, F(size[d] + 1), size[d] + 1)
             /\ h[d] = F(size[d] + 1)[d] /\ h[d] = g[d][F(size[d] + 1)]
             /\ h[d] \in S
  <2>1. size[d] + 1 \in Nat /\ size[d] \in Nat /\ size[d] < size[d] + 1
    BY <1>5
  <2>2. FollowsTo(D, S, size, g, F(size[d] + 1), size[d] + 1)
    BY <1>4, <2>1
  <2>3. /\ F(size[d] + 1) \in [D -> S]
        /\ F(size[d] + 1)[d] = g[d][F(size[d] + 1)]
    BY <2>1, <2>2 DEF FollowsTo
  <2>4. QED
    BY <2>1, <2>2, <2>3
<1>7. h \in [D -> S]
  BY <1>6
<1> HIDE DEF h
<1>8. ASSUME NEW d \in D
      PROVE  h[d] = g[d][h]
  <2>1. PICK f : f = F(size[d] + 1)
    OBVIOUS
  <2>2. ASSUME NEW c \in D, size[c] < size[d]
        PROVE  f[c] = h[c]
    <3>1. /\ size[d] + 1 \in Nat /\ FollowsTo(D, S, size, g, f, size[d] + 1)
          /\ size[c] + 1 \in Nat /\ FollowsTo(D, S, size, g, F(size[c] + 1), size[c] + 1)
          /\ h[c] = F(size[c] + 1)[c]
      BY <1>6, <2>1
    <3>2. size[c] < size[d] + 1 /\ size[c] < size[c] + 1
      BY <1>6, <2>2
    <3>3. f[c] = F(size[c] + 1)[c]
      BY <3>1, <3>2, FollowersAgree
    <3>4. QED
      BY <3>1, <3>3
  <2>3. f \in [D -> S]
    BY <1>6, <2>1
  <2>4. g[d][f] = g[d][h]
    BY <1>5, <1>7, <2>2, <2>3
  <2>5. QED
    BY <1>6, <2>1, <2>4
<1>9. QED
  BY <1>7, <1>8

-----------------------------------------------------------------------------
(* Powers of two and the width.                                              *)

LEMMA Power2Is ==
  /\ Number!Power2 \in [Nat -> Nat \ {0}]
  /\ Number!Power2[0] = 1
  /\ \A n \in Nat : Number!Power2[n + 1] = 2 * Number!Power2[n]
<1> DEFINE F == [Nat -> Nat \ {0}]
           g == [n \in Nat |-> [f \in F |-> IF n = 0 THEN 1 ELSE 2 * f[n - 1]]]
           size == [n \in Nat |-> n]
<1>1. \A n \in Nat : \A f \in F : /\ g[n][f] = IF n = 0 THEN 1 ELSE 2 * f[n - 1]
                                  /\ g[n][f] \in Nat \ {0}
  OBVIOUS
<1>2. g \in [Nat -> [F -> Nat \ {0}]]
  <2>1. \A n \in Nat : g[n] \in [F -> Nat \ {0}]
    BY <1>1
  <2> HIDE DEF F
  <2>2. QED
    BY <2>1
<1>3. LooksDown(Nat, Nat \ {0}, size, g)
  <2>1. size \in [Nat -> Nat] /\ \A n \in Nat : size[n] = n
    OBVIOUS
  <2>2. ASSUME NEW n \in Nat, NEW e \in F, NEW f \in F,
               \A m \in Nat : size[m] < size[n] => e[m] = f[m]
        PROVE  g[n][e] = g[n][f]
    <3>1. n # 0 => n - 1 \in Nat /\ size[n - 1] < size[n]
      OBVIOUS
    <3>2. n # 0 => e[n - 1] = f[n - 1]
      BY <2>2, <3>1
    <3> HIDE DEF g, F
    <3>3. QED
      BY <1>1, <3>2
  <2> HIDE DEF size, g
  <2>3. QED
    BY <1>2, <2>1, <2>2 DEF LooksDown
<1>4. PICK f \in F : \A n \in Nat : f[n] = IF n = 0 THEN 1 ELSE 2 * f[n - 1]
  <2> HIDE DEF g, size
  <2>1. PICK f \in F : \A n \in Nat : f[n] = g[n][f]
    <3> DEFINE S == Nat \ {0}
    <3>1. S # {}
      OBVIOUS
    <3>2. LooksDown(Nat, S, size, g)
      BY <1>3
    <3> HIDE DEF S
    <3>3. \E f \in [Nat -> S] : \A n \in Nat : f[n] = g[n][f]
      BY <3>1, <3>2, Recursion
    <3>4. QED
      BY <3>3 DEF S
  <2>2. QED
    BY <1>1, <2>1
<1>5. f = [n \in Nat |-> IF n = 0 THEN 1 ELSE 2 * f[n - 1]]
  BY <1>4
<1>6. Number!Power2 = [n \in Nat |-> IF n = 0 THEN 1 ELSE 2 * Number!Power2[n - 1]]
  BY <1>5 DEF Number!Power2
<1>7. \A n \in Nat : Number!Power2[n] = IF n = 0 THEN 1 ELSE 2 * Number!Power2[n - 1]
  BY <1>6
<1>8. Number!Power2[0] = 1 /\ \A n \in Nat : Number!Power2[n + 1] = 2 * Number!Power2[n]
  BY <1>7
<1>9. \A n \in Nat : Number!Power2[n] \in Nat \ {0}
  <2> DEFINE T == {n \in Nat : Number!Power2[n] \in Nat \ {0}}
  <2>1. 0 \in T /\ \A n \in Nat : n \in T => n + 1 \in T
    BY <1>8
  <2> HIDE DEF T
  <2>2. \A n \in Nat : n \in T
    BY <2>1, Induction
  <2>3. QED
    BY <2>2 DEF T
<1>10. Number!Power2 \in [Nat -> Nat \ {0}]
  BY <1>6, <1>9
<1>11. QED
  BY <1>8, <1>10

LEMMA Power2Adds ==
  ASSUME NEW m \in Nat, NEW n \in Nat
  PROVE  Number!Power2[m + n] = Number!Power2[m] * Number!Power2[n]
<1> DEFINE P == Number!Power2
           T == {k \in Nat : P[m + k] = P[m] * P[k]}
<1>1. P \in [Nat -> Nat \ {0}] /\ P[0] = 1 /\ \A k \in Nat : P[k + 1] = 2 * P[k]
  BY Power2Is
<1> HIDE DEF P
<1>2. 0 \in T
  <2>1. P[m + 0] = P[m] * P[0]
    BY <1>1
  <2>2. QED
    BY <2>1
<1>3. ASSUME NEW k \in Nat, k \in T
      PROVE  k + 1 \in T
  <2>1. P[m + (k + 1)] = 2 * P[m + k]
    <3>1. m + k \in Nat /\ m + (k + 1) = (m + k) + 1
      OBVIOUS
    <3>2. QED
      BY <1>1, <3>1
  <2>2. P[m + k] = P[m] * P[k] /\ P[k + 1] = 2 * P[k]
    BY <1>1, <1>3
  <2>3. \A a, b \in Nat : 2 * (a * b) = a * (2 * b)
    OBVIOUS
  <2>4. P[m] \in Nat /\ P[k] \in Nat
    BY <1>1
  <2>5. P[m + (k + 1)] = P[m] * P[k + 1]
    BY <2>1, <2>2, <2>3, <2>4
  <2>6. QED
    BY <2>5
<1> HIDE DEF T
<1>4. n \in T
  BY <1>2, <1>3, Induction
<1>5. QED
  BY <1>4 DEF T, P

LEMMA WidthIs ==
  /\ W \in Nat \ {0} /\ W >= 4 /\ W % 4 = 0
  /\ Numbers \subseteq Number!Int64 /\ MaxMethods \in Nat /\ MaxExponent \in Nat
  /\ Number!Half \in Nat \ {0} /\ Number!Half >= 2
  /\ Number!Size \in Nat \ {0} /\ Number!Size = 2 * Number!Half
  /\ Number!Least = -Number!Half
  /\ Number!Int64 = -Number!Half .. Number!Half - 1
<1>1. /\ W \in Nat \ {0} /\ W % 4 = 0
      /\ Numbers \subseteq Number!Int64 /\ MaxMethods \in Nat /\ MaxExponent \in Nat
  BY ValuesAssumption DEF Number!IntegerAssumption
<1>2. W >= 4
  BY <1>1
<1>3. /\ Number!Power2[W - 1] \in Nat \ {0} /\ Number!Power2[W - 1] >= 2
      /\ Number!Power2[W] = 2 * Number!Power2[W - 1]
  <2>1. W - 1 \in Nat /\ W - 2 \in Nat /\ W = (W - 1) + 1 /\ W - 1 = (W - 2) + 1
    BY <1>1, <1>2
  <2>2. /\ Number!Power2[W - 1] \in Nat \ {0} /\ Number!Power2[W - 2] \in Nat \ {0}
        /\ Number!Power2[(W - 1) + 1] = 2 * Number!Power2[W - 1]
        /\ Number!Power2[(W - 2) + 1] = 2 * Number!Power2[W - 2]
    BY <2>1, Power2Is
  <2>3. QED
    BY <2>1, <2>2
<1>4. QED
  BY <1>1, <1>2, <1>3 DEF Number!Half, Number!Size, Number!Least, Number!Int64

-----------------------------------------------------------------------------
(* Arithmetic modulo the size.                                               *)

Congruent(a, b) == \E k \in Int : a - b = k * Number!Size

LEMMA WrapIs ==
  ASSUME NEW n \in Int
  PROVE  Number!Wrap(n) \in Number!Int64 /\ Number!Wrap(n) \in Int /\ Congruent(Number!Wrap(n), n)
<1> DEFINE h == Number!Half
           s == Number!Size
           d == (n + h) \div s
           r == (n + h) % s
<1>1. h \in Nat /\ s \in Nat \ {0} /\ s = 2 * h
  BY WidthIs
<1>2. d \in Int /\ r \in 0 .. s - 1 /\ n + h = s * d + r
  <2> HIDE DEF h, s
  <2>1. n + h \in Int
    BY <1>1
  <2>2. QED
    BY <1>1, <2>1, DivMod
<1>3. Number!Wrap(n) = r - h
  BY DEF Number!Wrap
<1> HIDE DEF h, s, d, r
<1>4. r - h \in -h .. h - 1
  BY <1>1, <1>2
<1>5. (r - h) - n = (-d) * s /\ -d \in Int
  BY <1>1, <1>2
<1>6. Number!Int64 = -h .. h - 1
  BY WidthIs DEF h
<1>7. Congruent(Number!Wrap(n), n)
  BY <1>3, <1>5 DEF Congruent, s
<1>8. QED
  BY <1>3, <1>4, <1>6, <1>7

LEMMA WrapUnique ==
  ASSUME NEW n \in Int, NEW x \in Number!Int64, Congruent(x, n)
  PROVE  Number!Wrap(n) = x
<1> DEFINE h == Number!Half
           s == Number!Size
<1>1. h \in Nat /\ s \in Nat \ {0} /\ s = 2 * h /\ x \in -h .. h - 1
  BY WidthIs
<1>2. PICK k \in Int : x - n = k * s
  BY DEF Congruent
<1> HIDE DEF h, s
<1>3. n + h = s * (-k) + (x + h) /\ x + h \in 0 .. s - 1 /\ -k \in Int /\ n + h \in Int
  BY <1>1, <1>2
<1>4. (n + h) % s = x + h
  <2>1. Divided(s, -k, x + h, n + h)
    BY <1>1, <1>3 DEF Divided
  <2>2. QED
    BY <2>1, RemainderOf
<1>5. QED
  BY <1>1, <1>4 DEF Number!Wrap, h, s

LEMMA CongruentRemainder ==
  ASSUME NEW a \in Int, NEW b \in Int, Congruent(a, b)
  PROVE  (a - b) % Number!Size = 0
<1> DEFINE s == Number!Size
<1>1. s \in Nat \ {0}
  BY WidthIs
<1>2. PICK k \in Int : a - b = k * s
  BY DEF Congruent
<1> HIDE DEF s
<1>3. a - b \in Int /\ a - b = s * k + 0 /\ 0 \in 0 .. s - 1
  BY <1>1, <1>2
<1>4. (a - b) % s = 0
  <2>1. Divided(s, k, 0, a - b)
    BY <1>1, <1>3 DEF Divided
  <2>2. QED
    BY <2>1, RemainderOf
<1>5. QED
  BY <1>4 DEF s

LEMMA CongruentSelf ==
  ASSUME NEW a \in Int
  PROVE  Congruent(a, a)
<1>1. 0 \in Int /\ a - a = 0 * Number!Size
  BY WidthIs
<1>2. QED
  BY <1>1 DEF Congruent

LEMMA CongruentBack ==
  ASSUME NEW a \in Int, NEW b \in Int, Congruent(a, b)
  PROVE  Congruent(b, a)
<1> DEFINE s == Number!Size
<1>1. s \in Nat \ {0}
  BY WidthIs
<1>2. PICK k \in Int : a - b = k * s
  BY DEF Congruent
<1> HIDE DEF s
<1>3. -k \in Int /\ b - a = (-k) * s
  BY <1>1, <1>2
<1>4. QED
  BY <1>3 DEF Congruent, s

LEMMA CongruentTwice ==
  ASSUME NEW a \in Int, NEW b \in Int, NEW c \in Int, Congruent(a, b), Congruent(b, c)
  PROVE  Congruent(a, c)
<1> DEFINE s == Number!Size
<1>1. s \in Nat \ {0}
  BY WidthIs
<1>2. PICK k \in Int : a - b = k * s
  BY DEF Congruent
<1>3. PICK l \in Int : b - c = l * s
  BY DEF Congruent
<1> HIDE DEF s
<1>4. k + l \in Int /\ a - c = (k + l) * s
  BY <1>1, <1>2, <1>3
<1>5. QED
  BY <1>4 DEF Congruent, s

LEMMA CongruentProduct ==
  ASSUME NEW a \in Int, NEW b \in Int, NEW c \in Int, NEW d \in Int,
         Congruent(a, b), Congruent(c, d)
  PROVE  Congruent(a * c, b * d)
<1> DEFINE s == Number!Size
<1>1. s \in Nat \ {0}
  BY WidthIs
<1>2. PICK k \in Int : a - b = k * s
  BY DEF Congruent
<1>3. PICK l \in Int : c - d = l * s
  BY DEF Congruent
<1> HIDE DEF s
<1>4. a * c - b * d = (a - b) * c + b * (c - d)
  OBVIOUS
<1>5. (k * s) * c + b * (l * s) = (k * c + b * l) * s
  BY <1>1
<1>6. k * c + b * l \in Int /\ a * c - b * d = (k * c + b * l) * s
  BY <1>2, <1>3, <1>4, <1>5
<1>7. QED
  BY <1>6 DEF Congruent, s

-----------------------------------------------------------------------------
(* Powers.                                                                   *)

LEMMA PowerIs ==
  ASSUME NEW x \in Number!Int64
  PROVE  /\ Number!Power(x, 0) = 1
         /\ \A n \in Nat : /\ Number!Power(x, n) \in Number!Int64
                           /\ Number!Power(x, n + 1) = Number!Wrap(Number!Power(x, n) * x)
<1> DEFINE S == Number!Int64
           F == [Nat -> S]
           g == [n \in Nat |-> [f \in F |-> IF n = 0 THEN 1 ELSE Number!Wrap(f[n - 1] * x)]]
           size == [n \in Nat |-> n]
<1>1. 1 \in S /\ S \subseteq Int /\ x \in Int /\ \A a \in S : Number!Wrap(a * x) \in S
  <2>1. 1 \in S /\ S \subseteq Int
    BY WidthIs
  <2>2. ASSUME NEW a \in S
        PROVE  Number!Wrap(a * x) \in S
    <3>1. a * x \in Int
      BY <2>1
    <3>2. QED
      BY <3>1, WrapIs
  <2>3. QED
    BY <2>1, <2>2
<1> HIDE DEF S
<1>2. \A n \in Nat : \A f \in F : /\ g[n][f] = IF n = 0 THEN 1 ELSE Number!Wrap(f[n - 1] * x)
                                  /\ g[n][f] \in S
  <2>1. ASSUME NEW n \in Nat, NEW f \in F
        PROVE  g[n][f] = IF n = 0 THEN 1 ELSE Number!Wrap(f[n - 1] * x)
    OBVIOUS
  <2>2. ASSUME NEW n \in Nat, NEW f \in F
        PROVE  g[n][f] \in S
    <3>1. n # 0 => f[n - 1] \in S
      OBVIOUS
    <3> HIDE DEF g
    <3>2. QED
      BY <1>1, <2>1, <3>1
  <2> HIDE DEF g
  <2>3. QED
    BY <2>1, <2>2
<1>3. g \in [Nat -> [F -> S]]
  <2>1. \A n \in Nat : g[n] \in [F -> S]
    BY <1>2
  <2> HIDE DEF F
  <2>2. QED
    BY <2>1
<1>4. LooksDown(Nat, S, size, g)
  <2>1. size \in [Nat -> Nat] /\ \A n \in Nat : size[n] = n
    OBVIOUS
  <2>2. ASSUME NEW n \in Nat, NEW e \in F, NEW f \in F,
               \A m \in Nat : size[m] < size[n] => e[m] = f[m]
        PROVE  g[n][e] = g[n][f]
    <3>1. n # 0 => n - 1 \in Nat /\ size[n - 1] < size[n]
      OBVIOUS
    <3>2. n # 0 => e[n - 1] = f[n - 1]
      BY <2>2, <3>1
    <3> HIDE DEF g, F
    <3>3. QED
      BY <1>2, <3>2
  <2> HIDE DEF size, g
  <2>3. QED
    BY <1>3, <2>1, <2>2 DEF LooksDown
<1>5. PICK f \in F : \A n \in Nat : f[n] = IF n = 0 THEN 1 ELSE Number!Wrap(f[n - 1] * x)
  <2> HIDE DEF g, size
  <2>1. PICK f \in F : \A n \in Nat : f[n] = g[n][f]
    BY <1>1, <1>4, Recursion
  <2>2. QED
    BY <1>2, <2>1
<1> DEFINE p == CHOOSE power :
                  power = [n \in Nat |-> IF n = 0 THEN 1 ELSE Number!Wrap(power[n - 1] * x)]
<1>6. p = [n \in Nat |-> IF n = 0 THEN 1 ELSE Number!Wrap(p[n - 1] * x)]
  <2>1. f = [n \in Nat |-> IF n = 0 THEN 1 ELSE Number!Wrap(f[n - 1] * x)]
    BY <1>5
  <2>2. QED
    BY <2>1
<1>7. \A n \in Nat : Number!Power(x, n) = p[n]
  BY DEF Number!Power
<1> HIDE DEF p
<1>8. \A n \in Nat : p[n] = IF n = 0 THEN 1 ELSE Number!Wrap(p[n - 1] * x)
  BY <1>6
<1>9. p[0] = 1 /\ \A n \in Nat : p[n + 1] = Number!Wrap(p[n] * x)
  BY <1>8
<1>10. \A n \in Nat : p[n] \in S
  <2> DEFINE T == {n \in Nat : p[n] \in S}
  <2>1. p[0] \in S /\ \A n \in Nat : p[n] \in S => p[n + 1] \in S
    BY <1>1, <1>9
  <2>2. 0 \in T /\ \A n \in Nat : n \in T => n + 1 \in T
    BY <2>1
  <2> HIDE DEF T
  <2>3. \A n \in Nat : n \in T
    BY <2>2, Induction
  <2>4. QED
    BY <2>3 DEF T
<1>11. QED
  BY <1>7, <1>9, <1>10 DEF S

\* The square's powers are the even ones.
LEMMA PowerOfSquare ==
  ASSUME NEW x \in Number!Int64, NEW n \in Nat
  PROVE  Number!Power(Number!Wrap(x * x), n) = Number!Power(x, 2 * n)
<1> DEFINE y == Number!Wrap(x * x)
           P(k) == Number!Power(x, k)
           Q(k) == Number!Power(y, k)
           T == {k \in Nat : Q(k) = P(2 * k)}
<1>1. x \in Int /\ x * x \in Int /\ Number!Int64 \subseteq Int
  BY WidthIs
<1>2. y \in Number!Int64 /\ y \in Int /\ Congruent(y, x * x)
  BY <1>1, WrapIs
<1> HIDE DEF y
<1>3. /\ P(0) = 1 /\ \A k \in Nat : P(k) \in Int /\ P(k + 1) = Number!Wrap(P(k) * x)
      /\ Q(0) = 1 /\ \A k \in Nat : /\ Q(k) \in Int /\ Q(k) \in Number!Int64
                                    /\ Q(k + 1) = Number!Wrap(Q(k) * y)
  BY <1>1, <1>2, PowerIs
<1> HIDE DEF P, Q
<1>4. 0 \in T
  BY <1>3
<1>5. ASSUME NEW k \in Nat, k \in T
      PROVE  k + 1 \in T
  <2>1. PICK a \in Int : a = P(2 * k) /\ a = Q(k)
    BY <1>3, <1>5
  <2>2. P(2 * k + 1) = Number!Wrap(a * x) /\ P(2 * (k + 1)) = Number!Wrap(P(2 * k + 1) * x)
    <3>1. 2 * k \in Nat /\ 2 * k + 1 \in Nat /\ 2 * (k + 1) = (2 * k + 1) + 1
      OBVIOUS
    <3>2. QED
      BY <1>3, <2>1, <3>1
  <2>3. PICK b \in Int : b = Number!Wrap(a * x)
    BY <1>1, WrapIs
  <2>4. Congruent(b, a * x) /\ a * x \in Int
    BY <1>1, <2>3, WrapIs
  <2>5. Congruent(b * x, (a * x) * x)
    BY <1>1, <2>4, CongruentProduct, CongruentSelf
  <2>6. Congruent(a * y, a * (x * x))
    BY <1>1, <1>2, CongruentProduct, CongruentSelf
  <2>7. (a * x) * x = a * (x * x) /\ b * x \in Int /\ a * y \in Int /\ a * (x * x) \in Int
    BY <1>1, <1>2
  <2>8. Congruent(a * y, b * x)
    <3>1. Congruent(a * (x * x), b * x)
      BY <2>5, <2>7, CongruentBack
    <3>2. QED
      BY <2>6, <2>7, <3>1, CongruentTwice
  <2>9. Number!Wrap(a * y) \in Number!Int64 /\ Congruent(Number!Wrap(a * y), b * x)
    <3>1. /\ Number!Wrap(a * y) \in Number!Int64 /\ Number!Wrap(a * y) \in Int
          /\ Congruent(Number!Wrap(a * y), a * y)
      BY <2>7, WrapIs
    <3>2. QED
      BY <2>7, <2>8, <3>1, CongruentTwice
  <2>10. Number!Wrap(b * x) = Number!Wrap(a * y)
    BY <2>7, <2>9, WrapUnique
  <2>11. Q(k + 1) = Number!Wrap(a * y)
    BY <1>3, <2>1
  <2>12. QED
    BY <2>2, <2>3, <2>10, <2>11
<1> HIDE DEF T
<1>6. n \in T
  BY <1>4, <1>5, Induction
<1>7. QED
  BY <1>6 DEF T, P, Q, y

\* Square and multiply gives the power.
LEMMA PowIsPower ==
  ASSUME NEW x \in Number!Int64, NEW n \in Nat \ {0}
  PROVE  Number!pow64(x, n) = Number!Power(x, n)
<1> DEFINE D == Nat \ {0}
           I == Number!Int64
           S == [I -> I]
           F == [D -> S]
           B(f, k, a) == IF k = 1 THEN a
                         ELSE IF k % 2 = 1
                              THEN Number!Wrap(f[k \div 2][Number!Wrap(a * a)] * a)
                              ELSE f[k \div 2][Number!Wrap(a * a)]
           g == [k \in D |-> [f \in F |-> [a \in I |-> B(f, k, a)]]]
           size == [k \in D |-> k]
<1>1. I \subseteq Int /\ \A a, b \in I : Number!Wrap(b * a) \in I
  <2>1. I \subseteq Int
    BY WidthIs
  <2>2. \A a, b \in I : b * a \in Int
    BY <2>1
  <2>3. QED
    BY <2>1, <2>2, WrapIs
<1>2. \A k \in D : k # 1 => k \div 2 \in D /\ k \div 2 < k
  OBVIOUS
<1> HIDE DEF I, D
<1>3. \A k \in D : \A f \in F : \A a \in I : B(f, k, a) \in I
  <2> SUFFICES ASSUME NEW k \in D, NEW f \in F, NEW a \in I
               PROVE  B(f, k, a) \in I
    OBVIOUS
  <2>1. k # 1 => f[k \div 2][Number!Wrap(a * a)] \in I
    BY <1>1, <1>2
  <2>2. QED
    BY <1>1, <2>1
<1>4. \A k \in D : \A f \in F : /\ g[k][f] = [a \in I |-> B(f, k, a)]
                                /\ g[k][f] \in S
  <2>1. \A k \in D : \A f \in F : g[k][f] = [a \in I |-> B(f, k, a)]
    OBVIOUS
  <2>2. \A k \in D : \A f \in F : [a \in I |-> B(f, k, a)] \in S
    <3> HIDE DEF B
    <3>1. QED
      BY <1>3
  <2> HIDE DEF g, B, S
  <2>3. QED
    BY <2>1, <2>2
<1>5. g \in [D -> [F -> S]]
  <2>1. \A k \in D : g[k] \in [F -> S]
    <3> HIDE DEF B, S
    <3>1. QED
      BY <1>4
  <2> HIDE DEF F
  <2>2. QED
    BY <2>1
<1>6. LooksDown(D, S, size, g)
  <2>1. size \in [D -> Nat] /\ \A k \in D : size[k] = k
    BY DEF D
  <2>2. ASSUME NEW k \in D, NEW e \in F, NEW f \in F,
               \A m \in D : size[m] < size[k] => e[m] = f[m]
        PROVE  g[k][e] = g[k][f]
    <3>1. k # 1 => k \div 2 \in D /\ size[k \div 2] < size[k]
      BY <1>2, <2>1
    <3>2. k # 1 => e[k \div 2] = f[k \div 2]
      BY <2>2, <3>1
    <3>3. \A a \in I : B(e, k, a) = B(f, k, a)
      BY <3>2
    <3> HIDE DEF g, F, B
    <3>4. [a \in I |-> B(e, k, a)] = [a \in I |-> B(f, k, a)]
      BY <3>3
    <3>5. g[k][e] = [a \in I |-> B(e, k, a)] /\ g[k][f] = [a \in I |-> B(f, k, a)]
      BY <1>4
    <3>6. QED
      BY <3>4, <3>5
  <2> HIDE DEF size, g, S
  <2>3. QED
    BY <1>5, <2>1, <2>2 DEF LooksDown
<1>7. PICK f \in F : \A k \in D : f[k] = [a \in I |-> B(f, k, a)]
  <2> HIDE DEF g, size, B
  <2>1. S # {}
    <3>1. [a \in I |-> a] \in S
      OBVIOUS
    <3>2. QED
      BY <3>1
  <2>2. PICK f \in F : \A k \in D : f[k] = g[k][f]
    <3> HIDE DEF S
    <3>1. QED
      BY <1>6, <2>1, Recursion
  <2>3. QED
    BY <1>4, <2>2
<1> DEFINE p == CHOOSE pow : pow = [k \in D |-> [a \in I |-> B(pow, k, a)]]
<1>8. p = [k \in D |-> [a \in I |-> B(p, k, a)]]
  <2> HIDE DEF B
  <2>1. f = [k \in D |-> [a \in I |-> B(f, k, a)]]
    BY <1>7
  <2>2. QED
    BY <2>1
<1>9. Number!pow64(x, n) = p[n][x]
  BY Zenon DEF Number!pow64, D, I
<1> HIDE DEF p
<1>10. \A k \in D : \A a \in I : p[k][a] = B(p, k, a)
  <2> HIDE DEF B
  <2>1. QED
    BY <1>8
<1> DEFINE T == {k \in Nat : k \in D => \A a \in I : p[k][a] = Number!Power(a, k)}
<1>11. ASSUME NEW k \in Nat, \A m \in Nat : m < k => m \in T
       PROVE  k \in T
  <2> SUFFICES ASSUME k \in D, NEW a \in I
               PROVE  p[k][a] = Number!Power(a, k)
    OBVIOUS
  <2>1. /\ Number!Power(a, 0) = 1
        /\ \A m \in Nat : /\ Number!Power(a, m) \in I
                          /\ Number!Power(a, m + 1) = Number!Wrap(Number!Power(a, m) * a)
    BY PowerIs DEF I
  <2>2. CASE k = 1
    <3>1. Number!Power(a, 0 + 1) = Number!Wrap(1 * a)
      BY <2>1
    <3>2. Number!Wrap(a) = a
      BY <1>1, CongruentSelf, WrapUnique DEF I
    <3>3. a \in Int /\ 1 * a = a /\ 0 + 1 = 1
      BY <1>1
    <3>4. p[k][a] = a
      BY <1>10, <2>2
    <3>5. QED
      BY <2>2, <3>1, <3>2, <3>3, <3>4
  <2>3. CASE k # 1
    <3>1. PICK h : h = k \div 2
      OBVIOUS
    <3>2. h \in Nat /\ h \in D /\ h < k
      BY <1>2, <2>3, <3>1 DEF D
    <3>3. PICK b \in I : b = Number!Wrap(a * a)
      BY <1>1
    <3>4. p[h][b] = Number!Power(a, 2 * h)
      <4>1. h \in T
        BY <1>11, <3>2
      <4>2. p[h][b] = Number!Power(b, h)
        BY <3>2, <4>1
      <4>3. Number!Power(Number!Wrap(a * a), h) = Number!Power(a, 2 * h)
        BY <3>2, PowerOfSquare DEF I
      <4>4. QED
        BY <3>3, <4>2, <4>3
    <3>5. CASE k % 2 = 1
      <4>1. k = 2 * h + 1 /\ 2 * h \in Nat
        BY <3>1, <3>2, <3>5
      <4>2. p[k][a] = Number!Wrap(p[h][b] * a)
        BY <1>10, <2>3, <3>1, <3>3, <3>5
      <4>3. QED
        BY <2>1, <3>4, <4>1, <4>2
    <3>6. CASE k % 2 # 1
      <4>1. k = 2 * h
        BY <3>1, <3>2, <3>6
      <4>2. p[k][a] = p[h][b]
        BY <1>10, <2>3, <3>1, <3>3, <3>6
      <4>3. QED
        BY <3>4, <4>1, <4>2
    <3>7. QED
      BY <3>5, <3>6
  <2>4. QED
    BY <2>2, <2>3
<1> HIDE DEF T
<1>12. n \in T
  BY <1>11, StrongInduction
<1>13. n \in D /\ x \in I
  BY DEF D, I
<1>14. p[n][x] = Number!Power(x, n)
  BY <1>12, <1>13 DEF T
<1>15. QED
  BY <1>9, <1>14

-----------------------------------------------------------------------------
(* Quotients and shifts.                                                     *)

\* x is q times y and r, r is smaller than y and has the sign of x; q is no greater
\* than x, and is it only if y is 1 or -1.
Truncates(x, y, q, r) ==
    /\ q \in Int /\ r \in Int /\ x = y * q + r
    /\ Number!Magnitude(r) < Number!Magnitude(y)
    /\ (r > 0 => x > 0) /\ (r < 0 => x < 0)

LEMMA QuotientOfSizes ==
  ASSUME NEW a \in Nat, NEW b \in Nat \ {0}
  PROVE  /\ a \div b \in Nat /\ a - b * (a \div b) \in 0 .. b - 1 /\ a \div b <= a
         /\ b >= 2 /\ a > 0 => a \div b < a
<1> DEFINE d == a \div b
<1>1. d \in Nat /\ a % b \in 0 .. b - 1 /\ a = b * d + (a % b)
  BY QuotientOfNat
<1>2. PICK r : r = a % b
  OBVIOUS
<1> HIDE DEF d
<1>3. d <= b * d /\ (b >= 2 => d + d <= b * d)
  BY <1>1
<1>4. b * d \in Nat /\ a = b * d + r /\ r \in 0 .. b - 1
  BY <1>1, <1>2
<1>5. d <= a /\ a - b * d \in 0 .. b - 1
  BY <1>1, <1>3, <1>4
<1>6. b >= 2 /\ a > 0 => d < a
  BY <1>1, <1>3, <1>4
<1>7. QED
  BY <1>1, <1>5, <1>6 DEF d

LEMMA QuotientIs ==
  ASSUME NEW x \in Int, NEW y \in Int, y # 0
  PROVE  Truncates(x, y, Number!Quotient(x, y), Number!Remainder(x, y))
<1> DEFINE a == Number!Magnitude(x)
           b == Number!Magnitude(y)
           d == a \div b
           q == Number!Quotient(x, y)
           r == Number!Remainder(x, y)
<1>1. /\ a \in Nat /\ b \in Nat \ {0} /\ (x < 0 => x = -a) /\ (~(x < 0) => x = a)
      /\ (y < 0 => y = -b) /\ (~(y < 0) => y = b)
  BY DEF Number!Magnitude
<1>2. q = IF (x < 0) = (y < 0) THEN d ELSE -d
  BY DEF Number!Quotient
<1>3. r = x - y * q
  BY DEF Number!Remainder
<1> HIDE DEF a, b, q, r
<1>4. d \in Nat /\ a - b * d \in 0 .. b - 1
  BY <1>1, QuotientOfSizes
<1> HIDE DEF d
<1>5. PICK e : e = b * d
  OBVIOUS
<1>6. e \in Nat /\ a - e \in 0 .. b - 1
  BY <1>1, <1>4, <1>5
<1>7. (x < 0 => y * q = -e) /\ (~(x < 0) => y * q = e)
  <2>1. b * d = e /\ (-b) * (-d) = e /\ (-b) * d = -e /\ b * (-d) = -e
    BY <1>1, <1>4, <1>5
  <2>2. CASE x < 0 /\ y < 0
    BY <1>1, <1>2, <2>1, <2>2
  <2>3. CASE x < 0 /\ ~(y < 0)
    BY <1>1, <1>2, <2>1, <2>3
  <2>4. CASE ~(x < 0) /\ y < 0
    BY <1>1, <1>2, <2>1, <2>4
  <2>5. CASE ~(x < 0) /\ ~(y < 0)
    BY <1>1, <1>2, <2>1, <2>5
  <2>6. QED
    BY <2>2, <2>3, <2>4, <2>5
<1>8. q \in Int /\ y * q \in Int /\ r \in Int /\ x = y * q + r
  BY <1>1, <1>2, <1>3, <1>4
<1>9. (x < 0 => r = -(a - e)) /\ (~(x < 0) => r = a - e)
  BY <1>1, <1>3, <1>6, <1>7
<1>10. Number!Magnitude(r) < b /\ (r > 0 => x > 0) /\ (r < 0 => x < 0)
  <2>1. CASE x < 0
    BY <1>1, <1>6, <1>8, <1>9, <2>1 DEF Number!Magnitude
  <2>2. CASE ~(x < 0)
    BY <1>1, <1>6, <1>8, <1>9, <2>2 DEF Number!Magnitude
  <2>3. QED
    BY <2>1, <2>2
<1>11. QED
  BY <1>8, <1>10 DEF Truncates, b, q, r

\* What fits: the quotient of two numbers of the width but for the one that traps.
LEMMA QuotientFits ==
  ASSUME NEW x \in Number!Int64, NEW y \in Number!Int64, y # 0,
         ~(x = Number!Least /\ y = -1)
  PROVE  Number!Quotient(x, y) \in Number!Int64 /\ Number!Remainder(x, y) \in Number!Int64
<1> DEFINE h == Number!Half
           a == Number!Magnitude(x)
           b == Number!Magnitude(y)
           d == a \div b
           q == Number!Quotient(x, y)
           r == Number!Remainder(x, y)
<1>1. /\ h \in Nat \ {0} /\ Number!Int64 = -h .. h - 1 /\ Number!Least = -h
  BY WidthIs
<1> HIDE DEF h
<1>2. /\ x \in -h .. h - 1 /\ y \in -h .. h - 1 /\ ~(x = -h /\ y = -1)
      /\ a \in Nat /\ b \in Nat \ {0} /\ a <= h /\ b <= h
      /\ (~(x = -h) => a < h) /\ (x = -h => a = h /\ x < 0) /\ (b = 1 => y = 1 \/ y = -1)
  BY <1>1 DEF Number!Magnitude
<1>3. q = IF (x < 0) = (y < 0) THEN d ELSE -d
  BY DEF Number!Quotient
<1> HIDE DEF a, b, q
<1>4. d \in Nat /\ d <= a /\ (b >= 2 /\ a > 0 => d < a)
  BY <1>2, QuotientOfSizes
<1> HIDE DEF d
<1>5. q \in -h .. h - 1
  <2>1. CASE d < h
    BY <1>1, <1>3, <1>4, <2>1
  <2>2. CASE ~(d < h)
    <3>1. d = h /\ a = h /\ x = -h /\ x < 0 /\ ~(b >= 2)
      BY <1>1, <1>2, <1>4, <2>2
    <3>2. b = 1 /\ y = 1
      BY <1>2, <3>1
    <3>3. q = -h
      BY <1>3, <3>1, <3>2
    <3>4. QED
      BY <1>1, <3>3
  <2>3. QED
    BY <2>1, <2>2
<1>6. r \in -h .. h - 1
  <2>1. x \in Int /\ y \in Int
    BY <1>1, <1>2
  <2>2. r \in Int /\ Number!Magnitude(r) < b
    BY <2>1, QuotientIs DEF Truncates, b
  <2> HIDE DEF r
  <2>3. QED
    BY <1>1, <1>2, <2>2 DEF Number!Magnitude
<1>7. QED
  BY <1>1, <1>5, <1>6 DEF q, r

LEMMA DivisionIs ==
  ASSUME NEW x \in Int, NEW y \in Int, y # 0, NEW q, NEW r, Truncates(x, y, q, r)
  PROVE  /\ (x - r) % Number!Magnitude(y) = 0
         /\ x - q * y = r
<1> DEFINE b == Number!Magnitude(y)
<1>1. q \in Int /\ r \in Int /\ x = y * q + r
  BY DEF Truncates
<1>2. b \in Nat \ {0} /\ (y = b \/ y = -b)
  BY DEF Number!Magnitude
<1> HIDE DEF b
<1>3. PICK k \in Int : y * q = b * k
  <2>1. y * q = b * q \/ y * q = b * (-q)
    BY <1>1, <1>2
  <2>2. QED
    BY <1>1, <2>1
<1>4. x - r = b * k + 0 /\ x - r \in Int /\ 0 \in 0 .. b - 1
  BY <1>1, <1>2, <1>3
<1>5. (x - r) % b = 0
  <2>1. Divided(b, k, 0, x - r)
    BY <1>2, <1>4 DEF Divided
  <2>2. QED
    BY <2>1, RemainderOf
<1>6. q * y = y * q /\ y * q \in Int
  BY <1>1
<1>7. x - q * y = r
  BY <1>1, <1>6
<1>8. QED
  BY <1>5, <1>7 DEF b

LEMMA ShiftedLeft ==
  ASSUME NEW x \in Number!Int64, NEW n \in 0 .. W - 1
  PROVE  LET r == Number!Wrap((x % Number!Power2[W - n]) * Number!Power2[n])
         IN  r \in Number!Int64 /\ Congruent(r, x * Number!Power2[n])
<1> DEFINE l == Number!Power2[W - n]
           m == Number!Power2[n]
           s == Number!Size
           d == x \div l
           e == x % l
           r == Number!Wrap(e * m)
<1>1. W - n \in Nat /\ n \in Nat /\ (W - n) + n = W /\ x \in Int
  BY WidthIs
<1>2. l \in Nat \ {0} /\ m \in Nat \ {0} /\ s = l * m
  <2>1. Number!Power2[(W - n) + n] = l * m
    BY <1>1, Power2Adds
  <2>2. QED
    BY <1>1, <2>1, Power2Is DEF Number!Size
<1> HIDE DEF l, m, s
<1>3. d \in Int /\ e \in Int /\ x = l * d + e
  <2>1. d \in Int /\ e \in 0 .. l - 1 /\ x = l * d + e
    BY <1>1, <1>2, DivMod
  <2> HIDE DEF d, e
  <2>2. QED
    BY <1>2, <2>1
<1> HIDE DEF d, e
<1>4. e * m - x * m = (-d) * s
  <2>1. x * m = (l * d) * m + e * m
    BY <1>2, <1>3
  <2>2. (l * d) * m = d * (l * m) /\ (-d) * (l * m) = -(d * (l * m)) /\ d * (l * m) \in Int
    BY <1>2, <1>3
  <2>3. e * m \in Int
    BY <1>2, <1>3
  <2>4. QED
    BY <1>2, <2>1, <2>2, <2>3
<1>5. -d \in Int /\ e * m \in Int /\ x * m \in Int
  BY <1>1, <1>2, <1>3
<1>6. Congruent(e * m, x * m)
  BY <1>4, <1>5 DEF Congruent, s
<1>7. r \in Number!Int64 /\ r \in Int /\ Congruent(r, e * m)
  BY <1>5, WrapIs
<1> HIDE DEF r
<1>8. Congruent(r, x * m)
  BY <1>5, <1>6, <1>7, CongruentTwice
<1>9. QED
  BY <1>7, <1>8 DEF r, e, m, l

\* A quotient that rounds down is no further from zero.
LEMMA ShiftedRight ==
  ASSUME NEW x \in Number!Int64, NEW n \in 0 .. W
  PROVE  x \div Number!Power2[n] \in Number!Int64
<1> DEFINE h == Number!Half
           m == Number!Power2[n]
           d == x \div m
<1>1. h \in Nat \ {0} /\ Number!Int64 = -h .. h - 1 /\ m \in Nat \ {0}
  <2>1. n \in Nat
    BY WidthIs
  <2>2. QED
    BY <2>1, WidthIs, Power2Is
<1> HIDE DEF h, m
<1>2. x \in Int /\ -h <= x /\ x < h
  BY <1>1
<1>3. PICK e : e = x % m
  OBVIOUS
<1>4. d \in Int /\ e \in 0 .. m - 1 /\ x = m * d + e
  BY <1>1, <1>2, <1>3, DivMod
<1> HIDE DEF d
<1>5. d >= -h
  <2>1. ASSUME d <= -h - 1
        PROVE  FALSE
    <3>1. m * d <= m * (-h - 1)
      BY <1>1, <1>4, <2>1
    <3>2. m * (-h - 1) = -(m * h) - m /\ m * h >= h
      BY <1>1
    <3>3. m * d \in Int /\ m * h \in Int
      BY <1>1, <1>4
    <3>4. QED
      BY <1>1, <1>2, <1>4, <3>1, <3>2, <3>3
  <2>2. QED
    BY <1>1, <1>4, <2>1
<1>6. d < h
  <2>1. ASSUME d >= h
        PROVE  FALSE
    <3>1. m * d >= d
      BY <1>1, <1>4, <2>1
    <3>2. m * d \in Int
      BY <1>1, <1>4
    <3>3. QED
      BY <1>1, <1>2, <1>4, <2>1, <3>1, <3>2
  <2>2. QED
    BY <1>1, <1>4, <2>1
<1>7. QED
  BY <1>1, <1>4, <1>5, <1>6 DEF d, m

-----------------------------------------------------------------------------
(* Strings of digits.                                                        *)

\* u is what a reader has after each digit.
Reads(u, s, base) ==
    /\ u \in [0 .. Len(s) -> Int] /\ u[0] = 0
    /\ \A i \in 1 .. Len(s) : u[i] = u[i - 1] * base + s[i]

LEMMA ReadsOnce ==
  ASSUME NEW s \in Seq(Int), NEW base \in Int, NEW u, Reads(u, s, base), NEW v, Reads(v, s, base)
  PROVE  u[Len(s)] = v[Len(s)]
<1> DEFINE T == {i \in Nat : i <= Len(s) => u[i] = v[i]}
<1>1. /\ u[0] = 0 /\ \A i \in 1 .. Len(s) : u[i] = u[i - 1] * base + s[i]
      /\ v[0] = 0 /\ \A i \in 1 .. Len(s) : v[i] = v[i - 1] * base + s[i]
      /\ Len(s) \in Nat
  BY DEF Reads
<1>2. 0 \in T
  BY <1>1
<1>3. ASSUME NEW i \in Nat, i \in T
      PROVE  i + 1 \in T
  <2>1. CASE i + 1 <= Len(s)
    <3>1. u[i] = v[i] /\ i + 1 \in 1 .. Len(s) /\ (i + 1) - 1 = i
      BY <1>1, <1>3, <2>1
    <3>2. u[i + 1] = u[i] * base + s[i + 1] /\ v[i + 1] = v[i] * base + s[i + 1]
      BY <1>1, <3>1
    <3>3. QED
      BY <3>1, <3>2
  <2>2. CASE ~(i + 1 <= Len(s))
    BY <2>2
  <2>3. QED
    BY <2>1, <2>2
<1> HIDE DEF T
<1>4. Len(s) \in T
  BY <1>1, <1>2, <1>3, Induction
<1>5. QED
  BY <1>1, <1>4 DEF T

LEMMA SomethingReads ==
  ASSUME NEW s \in Seq(Int), NEW base \in Int
  PROVE  \E u : Reads(u, s, base)
<1> DEFINE D == 0 .. Len(s)
           F == [D -> Int]
           g == [i \in D |-> [f \in F |-> IF i = 0 THEN 0 ELSE f[i - 1] * base + s[i]]]
           size == [i \in D |-> i]
<1>1. D \subseteq Nat /\ Len(s) \in Nat /\ 0 \in D
      /\ \A i \in D : i # 0 => i - 1 \in D /\ s[i] \in Int
  OBVIOUS
<1> HIDE DEF D
<1>2. \A i \in D : \A f \in F : /\ g[i][f] = IF i = 0 THEN 0 ELSE f[i - 1] * base + s[i]
                                /\ g[i][f] \in Int
  <2> SUFFICES ASSUME NEW i \in D, NEW f \in F
               PROVE  /\ g[i][f] = IF i = 0 THEN 0 ELSE f[i - 1] * base + s[i]
                      /\ g[i][f] \in Int
    OBVIOUS
  <2>1. g[i][f] = IF i = 0 THEN 0 ELSE f[i - 1] * base + s[i]
    OBVIOUS
  <2>2. i # 0 => f[i - 1] \in Int /\ s[i] \in Int
    BY <1>1
  <2> HIDE DEF g
  <2>3. QED
    BY <2>1, <2>2
<1>3. g \in [D -> [F -> Int]]
  <2>1. \A i \in D : g[i] \in [F -> Int]
    BY <1>2
  <2> HIDE DEF F
  <2>2. QED
    BY <2>1
<1>4. LooksDown(D, Int, size, g)
  <2>1. size \in [D -> Nat] /\ \A i \in D : size[i] = i
    BY <1>1
  <2>2. ASSUME NEW i \in D, NEW e \in F, NEW f \in F,
               \A m \in D : size[m] < size[i] => e[m] = f[m]
        PROVE  g[i][e] = g[i][f]
    <3>1. i # 0 => i - 1 \in D /\ size[i - 1] < size[i]
      BY <1>1, <2>1
    <3>2. i # 0 => e[i - 1] = f[i - 1]
      BY <2>2, <3>1
    <3> HIDE DEF g, F
    <3>3. QED
      BY <1>2, <3>2
  <2> HIDE DEF size, g
  <2>3. QED
    BY <1>3, <2>1, <2>2 DEF LooksDown
<1>5. PICK f \in F : \A i \in D : f[i] = IF i = 0 THEN 0 ELSE f[i - 1] * base + s[i]
  <2> HIDE DEF g, size
  <2>1. PICK f \in F : \A i \in D : f[i] = g[i][f]
    <3>1. Int # {}
      OBVIOUS
    <3>2. QED
      BY <1>4, <3>1, Recursion
  <2>2. QED
    BY <1>2, <2>1
<1>6. \A i \in 1 .. Len(s) : i \in D /\ i # 0
  BY DEF D
<1>7. Reads(f, s, base)
  <2>1. f[0] = 0 /\ \A i \in 1 .. Len(s) : f[i] = f[i - 1] * base + s[i]
    BY <1>1, <1>5, <1>6
  <2>2. QED
    BY <2>1 DEF Reads, D
<1>8. QED
  BY <1>7

\* Whatever reads the digits gives the value.
LEMMA ValueIs ==
  ASSUME NEW s \in Seq(Int), NEW base \in Int, NEW u, Reads(u, s, base)
  PROVE  Number!Value(s, base) = u[Len(s)]
<1> DEFINE D == 0 .. Len(s)
           v == CHOOSE value :
                  value = [i \in D |-> IF i = 0 THEN 0 ELSE value[i - 1] * base + s[i]]
<1>1. Number!Value(s, base) = v[Len(s)]
  BY Zenon DEF Number!Value
<1>2. \A i \in D : u[i] = IF i = 0 THEN 0 ELSE u[i - 1] * base + s[i]
  BY DEF Reads
<1>3. u = [i \in D |-> IF i = 0 THEN 0 ELSE u[i - 1] * base + s[i]]
  <2>1. u \in [D -> Int]
    BY DEF Reads
  <2> HIDE DEF D
  <2>2. QED
    BY <1>2, <2>1
<1>4. v = [i \in D |-> IF i = 0 THEN 0 ELSE v[i - 1] * base + s[i]]
  <2> HIDE DEF D
  <2>1. QED
    BY <1>3
<1> HIDE DEF v
<1>5. v[0] = 0 /\ \A i \in 1 .. Len(s) : v[i] = v[i - 1] * base + s[i]
  <2>1. \A i \in D : v[i] = IF i = 0 THEN 0 ELSE v[i - 1] * base + s[i]
    <3> HIDE DEF D
    <3>1. QED
      BY <1>4
  <2>2. 0 \in D /\ \A i \in 1 .. Len(s) : i \in D /\ i # 0
    OBVIOUS
  <2> HIDE DEF D
  <2>3. QED
    BY <2>1, <2>2
<1> DEFINE T == {i \in Nat : i <= Len(s) => v[i] \in Int}
<1>6. 0 \in T
  BY <1>5
<1>7. ASSUME NEW i \in Nat, i \in T
      PROVE  i + 1 \in T
  <2> SUFFICES ASSUME i + 1 <= Len(s)
               PROVE  v[i + 1] \in Int
    OBVIOUS
  <2>1. i + 1 \in 1 .. Len(s) /\ (i + 1) - 1 = i /\ s[i + 1] \in Int
    OBVIOUS
  <2>2. v[i] \in Int
    BY <1>7
  <2>3. v[i + 1] = v[i] * base + s[i + 1]
    BY <1>5, <2>1
  <2>4. QED
    BY <2>1, <2>2, <2>3
<1> HIDE DEF T
<1>8. \A i \in Nat : i \in T
  BY <1>6, <1>7, Induction
<1>9. \A i \in D : v[i] \in Int
  BY <1>8 DEF T
<1>10. v \in [D -> Int]
  <2> HIDE DEF D
  <2>1. QED
    BY <1>4, <1>9
<1>11. Reads(v, s, base)
  BY <1>5, <1>10 DEF Reads
<1>12. QED
  BY <1>1, <1>11, ReadsOnce

\* One digit more.
LEMMA ValueOfMore ==
  ASSUME NEW s \in Seq(Int), NEW base \in Int, NEW d \in Int
  PROVE  Number!Value(s \o <<d>>, base) = Number!Value(s, base) * base + d
<1> DEFINE t == s \o <<d>>
           n == Len(s)
<1>1. /\ n \in Nat /\ t \in Seq(Int) /\ Len(t) = n + 1 /\ t[n + 1] = d
      /\ \A i \in 1 .. n : t[i] = s[i]
  OBVIOUS
<1>2. PICK u : Reads(u, s, base)
  BY SomethingReads
<1>3. PICK v : Reads(v, t, base)
  <2> HIDE DEF t
  <2>1. QED
    BY <1>1, SomethingReads
<1> HIDE DEF t
<1> DEFINE w == [i \in 0 .. n |-> v[i]]
<1>4. /\ v \in [0 .. n + 1 -> Int] /\ v[0] = 0
      /\ \A i \in 1 .. n + 1 : v[i] = v[i - 1] * base + t[i]
  BY <1>1, <1>3 DEF Reads
<1>5. \A i \in 0 .. n : w[i] = v[i] /\ v[i] \in Int
  <2>1. \A i \in 0 .. n : w[i] = v[i]
    OBVIOUS
  <2>2. \A i \in 0 .. n : i \in 0 .. n + 1
    BY <1>1
  <2> HIDE DEF w
  <2>3. QED
    BY <1>4, <2>1, <2>2
<1>6. w \in [0 .. n -> Int]
  BY <1>5
<1> HIDE DEF w
<1>7. \A i \in 1 .. n : w[i] = w[i - 1] * base + s[i]
  <2> SUFFICES ASSUME NEW i \in 1 .. n
               PROVE  w[i] = w[i - 1] * base + s[i]
    OBVIOUS
  <2>1. i \in 0 .. n /\ i - 1 \in 0 .. n /\ i \in 1 .. n + 1
    BY <1>1
  <2>2. QED
    BY <1>1, <1>4, <1>5, <2>1
<1>8. Reads(w, s, base)
  <2>1. w[0] = 0
    BY <1>1, <1>4, <1>5
  <2>2. QED
    BY <1>6, <1>7, <2>1 DEF Reads
<1>9. Number!Value(s, base) = v[n]
  <2>1. Number!Value(s, base) = w[n]
    BY <1>8, ValueIs
  <2>2. n \in 0 .. n
    BY <1>1
  <2>3. QED
    BY <1>5, <2>1, <2>2
<1>10. Number!Value(t, base) = v[n + 1]
  BY <1>1, <1>3, ValueIs
<1>11. v[n + 1] = v[n] * base + d
  <2>1. n + 1 \in 1 .. n + 1 /\ (n + 1) - 1 = n
    BY <1>1
  <2>2. QED
    BY <1>1, <1>4, <2>1
<1>12. QED
  BY <1>9, <1>10, <1>11 DEF t

LEMMA ValueOfOne ==
  ASSUME NEW base \in Int, NEW d \in Int
  PROVE  Number!Value(<<d>>, base) = d
<1>1. <<d>> \in Seq(Int) /\ Len(<<d>>) = 1 /\ <<d>>[1] = d
  OBVIOUS
<1>2. PICK u : Reads(u, <<d>>, base)
  BY <1>1, SomethingReads
<1>3. Number!Value(<<d>>, base) = u[1]
  BY <1>1, <1>2, ValueIs
<1>4. u[1] = u[1 - 1] * base + d /\ u[0] = 0
  <2>1. u[0] = 0 /\ \A i \in 1 .. 1 : u[i] = u[i - 1] * base + <<d>>[i]
    BY <1>1, <1>2 DEF Reads
  <2>2. 1 \in 1 .. 1
    OBVIOUS
  <2>3. QED
    BY <1>1, <2>1, <2>2
<1>5. QED
  BY <1>3, <1>4

LEMMA TenthIsSmaller ==
  ASSUME NEW m \in Int, NEW q \in Int \ {0}, NEW r \in Int, Truncates(m, 10, q, r)
  PROVE  Number!Magnitude(q) < Number!Magnitude(m)
<1>1. m = 10 * q + r /\ r < 10 /\ -r < 10 /\ (r > 0 => m > 0) /\ (r < 0 => m < 0)
  BY DEF Truncates, Number!Magnitude
<1>2. QED
  BY <1>1 DEF Number!Magnitude

\* The digits in base 10 of any number, with its sign.
LEMMA DecimalsRead ==
  ASSUME NEW x \in Int
  PROVE  Number!Decimals(x) \in Seq(Int) /\ Number!Value(Number!Decimals(x), 10) = x
<1> DEFINE S == Seq(Int)
           F == [Int -> S]
           Q(m) == Number!Quotient(m, 10)
           R(m) == Number!Remainder(m, 10)
           B(f, m) == IF Q(m) = 0 THEN <<R(m)>> ELSE f[Q(m)] \o <<R(m)>>
           g == [m \in Int |-> [f \in F |-> B(f, m)]]
           size == [m \in Int |-> Number!Magnitude(m)]
<1>1. ASSUME NEW m \in Int
      PROVE  /\ Q(m) \in Int /\ R(m) \in Int /\ m = 10 * Q(m) + R(m)
             /\ Number!Magnitude(m) \in Nat
             /\ Q(m) # 0 => Number!Magnitude(Q(m)) < Number!Magnitude(m)
  <2>1. Truncates(m, 10, Q(m), R(m))
    BY QuotientIs
  <2> HIDE DEF Q, R
  <2>2. Q(m) \in Int /\ R(m) \in Int /\ m = 10 * Q(m) + R(m)
    BY <2>1 DEF Truncates
  <2>3. Q(m) # 0 => Number!Magnitude(Q(m)) < Number!Magnitude(m)
    BY <2>1, <2>2, TenthIsSmaller
  <2>4. Number!Magnitude(m) \in Nat
    BY DEF Number!Magnitude
  <2>5. QED
    BY <2>2, <2>3, <2>4
<1> HIDE DEF Q, R
<1>2. \A s \in S : \A d \in Int : s \o <<d>> \in S /\ <<d>> \in S
  OBVIOUS
<1> HIDE DEF S
<1>3. \A m \in Int : \A f \in F : B(f, m) \in S
  <2> SUFFICES ASSUME NEW m \in Int, NEW f \in F
               PROVE  B(f, m) \in S
    OBVIOUS
  <2>1. f[Q(m)] \in S /\ R(m) \in Int
    BY <1>1
  <2>2. QED
    BY <1>2, <2>1
<1>4. \A m \in Int : \A f \in F : g[m][f] = B(f, m)
  <2> HIDE DEF B
  <2>1. QED
    OBVIOUS
<1>5. g \in [Int -> [F -> S]]
  <2>1. \A m \in Int : g[m] \in [F -> S]
    <3> HIDE DEF B, F
    <3>1. QED
      BY <1>3
  <2> HIDE DEF F, B
  <2>2. QED
    BY <2>1
<1>6. LooksDown(Int, S, size, g)
  <2>1. size \in [Int -> Nat] /\ \A m \in Int : size[m] = Number!Magnitude(m)
    BY <1>1
  <2>2. ASSUME NEW m \in Int, NEW e \in F, NEW f \in F,
               \A l \in Int : size[l] < size[m] => e[l] = f[l]
        PROVE  g[m][e] = g[m][f]
    <3>1. Q(m) # 0 => e[Q(m)] = f[Q(m)]
      BY <1>1, <2>1, <2>2
    <3>2. B(e, m) = B(f, m)
      BY <3>1
    <3> HIDE DEF B, g, F
    <3>3. QED
      BY <1>4, <3>2
  <2> HIDE DEF size, g, B
  <2>3. QED
    BY <1>5, <2>1, <2>2 DEF LooksDown
<1>7. PICK f \in F : \A m \in Int : f[m] = B(f, m)
  <2> HIDE DEF g, size, B
  <2>1. S # {}
    <3>1. <<>> \in S
      BY DEF S
    <3>2. QED
      BY <3>1
  <2>2. PICK f \in F : \A m \in Int : f[m] = g[m][f]
    <3> DEFINE D == Int
    <3>1. LooksDown(D, S, size, g)
      BY <1>6
    <3> HIDE DEF D
    <3>2. \E f \in [D -> S] : \A m \in D : f[m] = g[m][f]
      BY <2>1, <3>1, Recursion
    <3>3. QED
      BY <3>2 DEF D
  <2>3. QED
    BY <1>4, <2>2
<1> DEFINE p == CHOOSE decimals : decimals = [m \in Int |-> B(decimals, m)]
<1>8. p = [m \in Int |-> B(p, m)]
  <2> HIDE DEF B
  <2>1. f = [m \in Int |-> B(f, m)]
    BY <1>7
  <2>2. QED
    BY <2>1
<1>9. Number!Decimals(x) = p[x]
  BY Zenon DEF Number!Decimals, Q, R
<1> HIDE DEF p
<1>10. \A m \in Int : p[m] = B(p, m)
  <2> HIDE DEF B
  <2>1. QED
    BY <1>8
<1> DEFINE T == {n \in Nat : \A m \in Int : Number!Magnitude(m) = n
                     => p[m] \in Seq(Int) /\ Number!Value(p[m], 10) = m}
<1>11. ASSUME NEW n \in Nat, \A l \in Nat : l < n => l \in T
       PROVE  n \in T
  <2> SUFFICES ASSUME NEW m \in Int, Number!Magnitude(m) = n
               PROVE  p[m] \in Seq(Int) /\ Number!Value(p[m], 10) = m
    OBVIOUS
  <2>1. R(m) \in Int /\ Q(m) \in Int /\ m = 10 * Q(m) + R(m)
    BY <1>1
  <2>2. CASE Q(m) = 0
    <3>1. R(m) = m
      BY <2>1, <2>2
    <3>2. p[m] = <<m>>
      BY <1>10, <2>2, <3>1
    <3>3. <<m>> \in Seq(Int) /\ Number!Value(<<m>>, 10) = m
      BY ValueOfOne
    <3>4. QED
      BY <3>2, <3>3
  <2>3. CASE Q(m) # 0
    <3>1. Number!Magnitude(Q(m)) \in Nat /\ Number!Magnitude(Q(m)) < n
      BY <1>1, <2>1, <2>3
    <3>2. Number!Magnitude(Q(m)) \in T
      BY <1>11, <3>1
    <3>3. p[Q(m)] \in Seq(Int) /\ Number!Value(p[Q(m)], 10) = Q(m)
      BY <2>1, <3>2
    <3>4. p[m] = p[Q(m)] \o <<R(m)>>
      BY <1>10, <2>3
    <3>5. p[m] \in Seq(Int)
      BY <2>1, <3>3, <3>4
    <3>6. Number!Value(p[m], 10) = Q(m) * 10 + R(m)
      BY <2>1, <3>3, <3>4, ValueOfMore
    <3>7. QED
      BY <2>1, <3>5, <3>6
  <2>4. QED
    BY <2>2, <2>3
<1> HIDE DEF T
<1>12. Number!Magnitude(x) \in Nat /\ Number!Magnitude(x) \in T
  BY <1>1, <1>11, StrongInduction
<1>13. p[x] \in Seq(Int) /\ Number!Value(p[x], 10) = x
  BY <1>12 DEF T
<1>14. QED
  BY <1>9, <1>13

LEMMA QuotientOf ==
  ASSUME NEW n, NEW q, NEW s, NEW a, Divided(n, q, s, a)
  PROVE  a \div n = q
<1>1. n \in Nat \ {0} /\ q \in Int /\ s \in 0 .. n - 1 /\ a \in Int /\ a = n * q + s
  BY DEF Divided
<1>2. QED
  BY <1>1, DivisionUnique

\* n is m and some multiple of what has a below, a digit of size b, and c above.
SameAbove(a, b, c, q, m, n) ==
    /\ a \in Nat \ {0} /\ b \in Nat \ {0} /\ c \in Nat \ {0} /\ q \in Int /\ m \in Nat
    /\ n \in Int /\ n = (a * b * c) * q + m

\* A digit is taken from the middle of a number.
LEMMA NextDigit ==
  ASSUME NEW a, NEW b, NEW c, NEW q, NEW m, NEW n, SameAbove(a, b, c, q, m, n)
  PROVE  m \div a = (m \div (a * b)) * b + ((n \div a) % b)
<1> DEFINE u == m \div (a * b)
           e == m % (a * b)
           f == e \div a
           r == e % a
<1>0. /\ a \in Nat \ {0} /\ b \in Nat \ {0} /\ c \in Nat \ {0} /\ q \in Int /\ m \in Nat
      /\ n \in Int /\ n = (a * b * c) * q + m
  BY DEF SameAbove
<1> USE <1>0
<1>1. a * b \in Nat \ {0}
  OBVIOUS
<1>2. u \in Nat /\ e \in 0 .. a * b - 1 /\ m = (a * b) * u + e
  BY <1>1, QuotientOfNat
<1> HIDE DEF u, e
<1>3. f \in Nat /\ r \in 0 .. a - 1 /\ e = a * f + r
  <2>1. e \in Nat
    BY <1>1, <1>2
  <2>2. QED
    BY <2>1, QuotientOfNat
<1> HIDE DEF f, r
<1>4. f < b
  <2>1. ASSUME f >= b
        PROVE  FALSE
    <3>1. a * f >= a * b
      BY <2>1, <1>3
    <3>2. a * f \in Nat
      BY <1>3
    <3>3. QED
      BY <1>1, <1>2, <1>3, <3>1, <3>2
  <2>2. QED
    BY <1>3, <2>1
<1>5. m \div a = b * u + f
  <2>1. (a * b) * u = a * (b * u) /\ a * (b * u) + a * f = a * (b * u + f) /\ b * u \in Nat
    BY <1>2, <1>3
  <2>2. m = a * (b * u + f) + r /\ b * u + f \in Int
    BY <1>2, <1>3, <2>1
  <2>3. Divided(a, b * u + f, r, m)
    BY <1>3, <2>2 DEF Divided
  <2>4. QED
    BY <2>3, QuotientOf
<1>6. (n \div a) % b = f
  <2>1. PICK k \in Int : k = c * q + u
    BY <1>2
  <2>2. (a * b * c) * q + (a * b) * u = a * (b * k)
    <3>1. (a * b * c) * q = a * (b * (c * q)) /\ (a * b) * u = a * (b * u)
      BY <1>2
    <3>2. a * (b * (c * q)) + a * (b * u) = a * (b * (c * q + u))
      BY <1>2
    <3>3. QED
      BY <2>1, <3>1, <3>2
  <2>3. n = a * (b * k + f) + r /\ b * k + f \in Int
    <3>1. a * (b * k) + a * f = a * (b * k + f)
      BY <1>3, <2>1
    <3>2. n = (a * (b * k) + a * f) + r
      <4>1. PICK j \in Int : j = (a * b * c) * q
        OBVIOUS
      <4>2. PICK l \in Int : l = (a * b) * u
        BY <1>2
      <4>3. a * f \in Int /\ n = j + (l + (a * f + r))
        BY <1>2, <1>3, <4>1, <4>2
      <4>4. QED
        BY <1>3, <2>2, <4>1, <4>2, <4>3
    <3>3. QED
      BY <1>3, <2>1, <3>1, <3>2
  <2>4. n \div a = b * k + f
    <3>1. Divided(a, b * k + f, r, n)
      BY <1>3, <2>3 DEF Divided
    <3>2. QED
      BY <3>1, QuotientOf
  <2>5. Divided(b, k, f, b * k + f)
    BY <1>3, <1>4, <2>1, <2>3 DEF Divided
  <2>6. QED
    BY <2>4, <2>5, RemainderOf
<1>7. u * b = b * u
  BY <1>2
<1>8. QED
  BY <1>5, <1>6, <1>7 DEF u

\* Digits of some bits each, from the top: what is left below the last is not shown.
LEMMA DigitsRead ==
  ASSUME NEW n \in Number!Int64, NEW bits \in Nat \ {0}
  PROVE  /\ W - bits * (W \div bits) = W % bits /\ W % bits \in Nat
         /\ Number!Value(Number!digits(n, bits), Number!Power2[bits])
              = (n % Number!Size) \div Number!Power2[W % bits]
<1> DEFINE P == Number!Power2
           s == Number!digits(n, bits)
           z == Number!Size
           c == W \div bits
           m == n % z
           u == [i \in 0 .. c |-> m \div P[W - bits * i]]
<1>1. /\ c \in Nat /\ W % bits \in 0 .. bits - 1 /\ W = bits * c + (W % bits) /\ W \in Nat
  <2>1. W \in Nat
    BY WidthIs
  <2>2. QED
    BY <2>1, QuotientOfNat
<1> HIDE DEF c
<1>2. /\ n \in Int /\ z \in Nat \ {0} /\ z = P[W] /\ P \in [Nat -> Nat \ {0}] /\ P[0] = 1
  <2>1. z = P[W]
    BY DEF Number!Size
  <2> HIDE DEF z, P
  <2>2. n \in Int
    BY WidthIs
  <2>3. z \in Nat \ {0}
    BY WidthIs DEF z
  <2>4. P \in [Nat -> Nat \ {0}] /\ P[0] = 1
    BY Power2Is DEF P
  <2>5. QED
    BY <2>1, <2>2, <2>3, <2>4
<1>3. \A i, j \in Nat : P[i + j] = P[i] * P[j]
  BY Power2Adds
<1> HIDE DEF P, z
<1>4. PICK q \in Int : m \in Nat /\ m < z /\ n = z * q + m
  <2>1. n \div z \in Int /\ m \in 0 .. z - 1 /\ n = z * (n \div z) + m
    BY <1>2, DivMod
  <2> HIDE DEF m
  <2>2. m \in Nat /\ m < z
    BY <1>2, <2>1
  <2>3. QED
    BY <2>1, <2>2
<1> HIDE DEF m
<1>5. \A i \in 0 .. c : bits * i \in Nat /\ W - bits * i \in Nat /\ bits * i <= bits * c
  <2> SUFFICES ASSUME NEW i \in 0 .. c
               PROVE  bits * i \in Nat /\ W - bits * i \in Nat /\ bits * i <= bits * c
    OBVIOUS
  <2>1. bits * i <= bits * c /\ bits * i \in Nat /\ bits * c \in Nat
    BY <1>1
  <2>2. QED
    BY <1>1, <2>1
<1>6. s = [k \in 1 .. c |-> (n \div P[W - bits * k]) % P[bits]]
  BY DEF Number!digits, P, c
<1> HIDE DEF s
<1>7. \A k \in 1 .. c : /\ s[k] = (n \div P[W - bits * k]) % P[bits]
                        /\ s[k] \in Int
  <2> SUFFICES ASSUME NEW k \in 1 .. c
               PROVE  /\ s[k] = (n \div P[W - bits * k]) % P[bits]
                      /\ s[k] \in Int
    OBVIOUS
  <2>1. s[k] = (n \div P[W - bits * k]) % P[bits]
    BY <1>6
  <2>2. k \in 0 .. c
    BY <1>1
  <2>3. P[W - bits * k] \in Nat \ {0} /\ P[bits] \in Nat \ {0}
    BY <1>2, <1>5, <2>2
  <2>4. PICK d \in Int : d = n \div P[W - bits * k]
    BY <1>2, <2>3, DivMod
  <2>5. d % P[bits] \in 0 .. P[bits] - 1
    BY <2>3, DivMod
  <2>6. d % P[bits] \in Int
    BY <2>3, <2>5
  <2>7. QED
    BY <2>1, <2>4, <2>6
<1>8. s \in Seq(Int) /\ Len(s) = c
  <2>1. s \in [1 .. c -> Int]
    BY <1>6, <1>7
  <2>2. QED
    BY <1>1, <2>1
<1>9. \A i \in 0 .. c : u[i] = m \div P[W - bits * i] /\ u[i] \in Int
  <2> SUFFICES ASSUME NEW i \in 0 .. c
               PROVE  u[i] = m \div P[W - bits * i] /\ u[i] \in Int
    OBVIOUS
  <2>1. u[i] = m \div P[W - bits * i]
    OBVIOUS
  <2>2. P[W - bits * i] \in Nat \ {0}
    BY <1>2, <1>5
  <2>3. m \div P[W - bits * i] \in Int
    <3>1. PICK l \in Nat \ {0} : l = P[W - bits * i]
      BY <2>2
    <3>2. m \div l \in Int
      BY <1>4, QuotientOfNat
    <3>3. QED
      BY <3>1, <3>2
  <2>4. QED
    BY <2>1, <2>3
<1>10. u \in [0 .. c -> Int]
  BY <1>9
<1> HIDE DEF u
<1>11. u[0] = 0
  <2>1. 0 \in 0 .. c /\ W - bits * 0 = W
    BY <1>1
  <2>2. u[0] = m \div z
    BY <1>2, <1>9, <2>1
  <2>3. Divided(z, 0, m, m)
    BY <1>2, <1>4 DEF Divided
  <2>4. m \div z = 0
    BY <2>3, QuotientOf
  <2>5. QED
    BY <2>2, <2>4
<1>12. ASSUME NEW i \in 1 .. c
       PROVE  u[i] = u[i - 1] * P[bits] + s[i]
  <2>1. i \in 0 .. c /\ i - 1 \in 0 .. c
    BY <1>1
  <2>2. PICK j : j = W - bits * i
    OBVIOUS
  <2>3. PICK k : k = bits * (i - 1)
    OBVIOUS
  <2>4. j \in Nat /\ k \in Nat /\ j + bits = W - bits * (i - 1) /\ W = (j + bits) + k
    <3>1. bits * i = bits * (i - 1) + bits /\ bits * (i - 1) \in Nat /\ bits * i \in Nat
      BY <2>1
    <3>2. j \in Nat
      BY <1>5, <2>1, <2>2
    <3>3. QED
      BY <1>1, <2>2, <2>3, <3>1, <3>2
  <2>5. P[j + bits] = P[j] * P[bits] /\ z = (P[j] * P[bits]) * P[k]
    <3>1. j + bits \in Nat /\ bits \in Nat
      BY <2>4
    <3>2. P[j + bits] = P[j] * P[bits]
      BY <1>3, <2>4
    <3>3. P[(j + bits) + k] = P[j + bits] * P[k]
      BY <1>3, <2>4, <3>1
    <3>4. z = P[(j + bits) + k]
      BY <1>2, <2>4
    <3>5. QED
      BY <3>2, <3>3, <3>4
  <2>6. P[j] \in Nat \ {0} /\ P[bits] \in Nat \ {0} /\ P[k] \in Nat \ {0}
    BY <1>2, <2>4
  <2>7. n = (P[j] * P[bits] * P[k]) * q + m
    BY <1>4, <2>5
  <2>8. m \div P[j] = (m \div (P[j] * P[bits])) * P[bits] + ((n \div P[j]) % P[bits])
    <3>1. PICK a, b, e : a = P[j] /\ b = P[bits] /\ e = P[k]
      OBVIOUS
    <3>2. /\ a \in Nat \ {0} /\ b \in Nat \ {0} /\ e \in Nat \ {0}
          /\ n = (a * b * e) * q + m
      BY <2>6, <2>7, <3>1
    <3>3. SameAbove(a, b, e, q, m, n)
      BY <1>2, <1>4, <3>2 DEF SameAbove
    <3>4. m \div a = (m \div (a * b)) * b + ((n \div a) % b)
      BY <3>3, NextDigit
    <3>5. QED
      BY <3>1, <3>4
  <2>9. u[i] = m \div P[j] /\ u[i - 1] = m \div (P[j] * P[bits])
    BY <1>9, <2>1, <2>2, <2>4, <2>5
  <2>10. s[i] = (n \div P[j]) % P[bits]
    BY <1>7, <2>2
  <2>11. QED
    BY <2>8, <2>9, <2>10
<1>13. Reads(u, s, P[bits])
  BY <1>8, <1>10, <1>11, <1>12 DEF Reads
<1>14. Number!Value(s, P[bits]) = u[c]
  <2>1. P[bits] \in Int
    BY <1>2
  <2>2. QED
    BY <1>8, <1>13, <2>1, ValueIs
<1>15. W - bits * c = W % bits
  BY <1>1
<1>16. u[c] = m \div P[W % bits]
  <2>1. c \in 0 .. c
    BY <1>1
  <2>2. QED
    BY <1>9, <1>15, <2>1
<1>17. QED
  BY <1>1, <1>14, <1>15, <1>16 DEF P, s, c, m, z

-----------------------------------------------------------------------------
(* What an operation on integers answers.                                    *)

AnswerType == [op : Number!Ops, x : Number!Int64, y : Number!Int64, r : Number!Int64,
               fault : Number!Faults]

Sound ==
    /\ answer \in AnswerType
    /\ Number!ArithmeticIsModular /\ Number!DivisionTruncates
    /\ answer.fault = "null" => answer.op \in {"set", "tostring"}

\* A step answers soundly for the operands x and y.
Answers(x, y) == Sound' /\ answer'.x = x /\ answer'.y = y

LEMMA Constants64 ==
  /\ 0 \in Number!Int64 /\ 1 \in Number!Int64 /\ Number!Int64 \subseteq Int
  /\ Number!Size \in Nat \ {0}
BY WidthIs

LEMMA AnswersFault ==
  ASSUME NEW op \in Number!Ops, NEW x \in Number!Int64, NEW y \in Number!Int64,
         NEW f \in Number!Faults \ {"none"}, f = "null" => op \in {"set", "tostring"},
         answer' = Number!Fault(op, x, y, f)
  PROVE  Answers(x, y)
<1>1. /\ answer' = [op |-> op, x |-> x, y |-> y, r |-> 0, fault |-> f]
  BY DEF Number!Fault
<1>2. answer' \in AnswerType
  BY <1>1, Constants64 DEF AnswerType
<1>3. answer'.fault = f /\ answer'.op = op /\ answer'.x = x /\ answer'.y = y
  BY <1>1
<1>4. Number!ArithmeticIsModular' /\ Number!DivisionTruncates'
  BY <1>3 DEF Number!ArithmeticIsModular, Number!DivisionTruncates
<1>5. QED
  BY <1>2, <1>3, <1>4 DEF Answers, Sound

LEMMA AnswerIs ==
  ASSUME NEW op \in Number!Ops, NEW x \in Number!Int64, NEW y \in Number!Int64,
         NEW r \in Number!Int64, answer' = Number!Answer(op, x, y, r)
  PROVE  /\ answer' \in AnswerType /\ answer'.op = op /\ answer'.x = x /\ answer'.y = y
         /\ answer'.r = r /\ answer'.fault = "none"
<1>1. answer' = [op |-> op, x |-> x, y |-> y, r |-> r, fault |-> "none"]
  BY DEF Number!Answer
<1>2. QED
  BY <1>1 DEF AnswerType, Number!Faults

Plain == Number!Ops \ {"add", "addfun", "sub", "subfun", "mul", "unm", "pow", "lshift",
                       "div", "mod"}

\* Comparisons, values and shifts to the right.
LEMMA AnswersPlain ==
  ASSUME NEW op \in Plain, NEW x \in Number!Int64, NEW y \in Number!Int64,
         NEW r \in Number!Int64, answer' = Number!Answer(op, x, y, r)
  PROVE  Answers(x, y)
<1>1. /\ answer' \in AnswerType /\ answer'.op = op /\ answer'.x = x /\ answer'.y = y
      /\ answer'.r = r /\ answer'.fault = "none"
  BY AnswerIs DEF Plain
<1>2. Number!ArithmeticIsModular'
  BY <1>1 DEF Number!ArithmeticIsModular, Plain
<1>3. Number!DivisionTruncates'
  BY <1>1 DEF Number!DivisionTruncates, Plain
<1>4. QED
  BY <1>1, <1>2, <1>3 DEF Answers, Sound

\* Sums and differences, of operators and of methods.
LEMMA AnswersSum ==
  ASSUME NEW x \in Number!Int64, NEW y \in Number!Int64, NEW op \in {"add", "addfun"},
         answer' = Number!Answer(op, x, y, Number!Wrap(x + y))
  PROVE  Answers(x, y)
<1>1. PICK r : r = Number!Wrap(x + y)
  OBVIOUS
<1>2. x \in Int /\ y \in Int /\ x + y \in Int
  BY Constants64
<1>3. r \in Number!Int64 /\ (r - (x + y)) % Number!Size = 0
  BY <1>1, <1>2, WrapIs, CongruentRemainder
<1>4. /\ answer' \in AnswerType /\ answer'.op = op /\ answer'.x = x /\ answer'.y = y
      /\ answer'.r = r /\ answer'.fault = "none"
  BY <1>1, <1>3, AnswerIs DEF Number!Ops
<1>5. Number!ArithmeticIsModular' /\ Number!DivisionTruncates'
  BY <1>3, <1>4 DEF Number!ArithmeticIsModular, Number!DivisionTruncates
<1>6. QED
  BY <1>4, <1>5 DEF Answers, Sound

LEMMA AnswersDifference ==
  ASSUME NEW x \in Number!Int64, NEW y \in Number!Int64, NEW op \in {"sub", "subfun"},
         answer' = Number!Answer(op, x, y, Number!Wrap(x - y))
  PROVE  Answers(x, y)
<1>1. PICK r : r = Number!Wrap(x - y)
  OBVIOUS
<1>2. x \in Int /\ y \in Int /\ x - y \in Int
  BY Constants64
<1>3. r \in Number!Int64 /\ (r - (x - y)) % Number!Size = 0
  BY <1>1, <1>2, WrapIs, CongruentRemainder
<1>4. /\ answer' \in AnswerType /\ answer'.op = op /\ answer'.x = x /\ answer'.y = y
      /\ answer'.r = r /\ answer'.fault = "none"
  BY <1>1, <1>3, AnswerIs DEF Number!Ops
<1>5. Number!ArithmeticIsModular' /\ Number!DivisionTruncates'
  BY <1>3, <1>4 DEF Number!ArithmeticIsModular, Number!DivisionTruncates
<1>6. QED
  BY <1>4, <1>5 DEF Answers, Sound

LEMMA AnswersProduct ==
  ASSUME NEW x \in Number!Int64, NEW y \in Number!Int64, Number!Mul(x, y)
  PROVE  Answers(x, y)
<1>1. PICK r : r = Number!Wrap(x * y)
  OBVIOUS
<1>2. x \in Int /\ y \in Int /\ x * y \in Int
  BY Constants64
<1>3. r \in Number!Int64 /\ (r - x * y) % Number!Size = 0
  BY <1>1, <1>2, WrapIs, CongruentRemainder
<1>4. /\ answer' \in AnswerType /\ answer'.op = "mul" /\ answer'.x = x /\ answer'.y = y
      /\ answer'.r = r /\ answer'.fault = "none"
  BY <1>1, <1>3, AnswerIs DEF Number!Ops, Number!Mul
<1>5. Number!ArithmeticIsModular' /\ Number!DivisionTruncates'
  BY <1>3, <1>4 DEF Number!ArithmeticIsModular, Number!DivisionTruncates
<1>6. QED
  BY <1>4, <1>5 DEF Answers, Sound

LEMMA AnswersOpposite ==
  ASSUME NEW x \in Number!Int64, NEW y \in Number!Int64, Number!Unm(x, y)
  PROVE  Answers(x, y)
<1>1. PICK r : r = Number!Wrap(-x)
  OBVIOUS
<1>2. x \in Int /\ -x \in Int
  BY Constants64
<1>3. r \in Number!Int64 /\ r \in Int /\ (r - (-x)) % Number!Size = 0
  BY <1>1, <1>2, WrapIs, CongruentRemainder
<1>4. (r + x) % Number!Size = 0
  <2>1. r - (-x) = r + x
    BY <1>2, <1>3
  <2>2. QED
    BY <1>3, <2>1
<1>5. /\ answer' \in AnswerType /\ answer'.op = "unm" /\ answer'.x = x /\ answer'.y = y
      /\ answer'.r = r /\ answer'.fault = "none"
  BY <1>1, <1>3, AnswerIs DEF Number!Ops, Number!Unm
<1>6. Number!ArithmeticIsModular' /\ Number!DivisionTruncates'
  BY <1>4, <1>5 DEF Number!ArithmeticIsModular, Number!DivisionTruncates
<1>7. QED
  BY <1>5, <1>6 DEF Answers, Sound

LEMMA AnswersPower ==
  ASSUME NEW x \in Number!Int64, NEW y \in Number!Int64, Number!Pow(x, y)
  PROVE  Answers(x, y)
<1>1. CASE y < 0 /\ Number!Raises("pow", x, y)
  BY <1>1, AnswersFault DEF Number!Raises, Number!Ops, Number!Faults
<1>2. CASE \E r \in Number!Int64 : /\ answer' = Number!Answer("pow", x, y, r)
                                   /\ r = Number!Power(x, y)
  <2>1. PICK r \in Number!Int64 : /\ answer' = Number!Answer("pow", x, y, r)
                                  /\ r = Number!Power(x, y)
    BY <1>2
  <2>2. /\ answer' \in AnswerType /\ answer'.op = "pow" /\ answer'.x = x /\ answer'.y = y
        /\ answer'.r = r /\ answer'.fault = "none"
    BY <2>1, AnswerIs DEF Number!Ops
  <2>3. answer'.r = Number!Power(answer'.x, answer'.y)
    BY <2>1, <2>2
  <2>4. Number!ArithmeticIsModular' /\ Number!DivisionTruncates'
    BY <2>2, <2>3 DEF Number!ArithmeticIsModular, Number!DivisionTruncates
  <2>5. QED
    BY <2>2, <2>4 DEF Answers, Sound
<1>3. CASE y = 0 /\ answer' = Number!Answer("pow", x, y, 1)
  <2>1. 1 \in Number!Int64 /\ Number!Power(x, y) = 1
    BY <1>3, Constants64, PowerIs
  <2>2. QED
    BY <1>2, <1>3, <2>1
<1>4. CASE y > 0 /\ answer' = Number!Answer("pow", x, y, Number!pow64(x, y))
  <2>1. y \in Nat \ {0}
    BY <1>4, Constants64
  <2>2. /\ Number!pow64(x, y) = Number!Power(x, y)
        /\ Number!Power(x, y) \in Number!Int64
    BY <2>1, PowIsPower, PowerIs
  <2>3. QED
    BY <1>2, <1>4, <2>2
<1>5. QED
  BY <1>1, <1>3, <1>4 DEF Number!Pow

LEMMA AnswersQuotient ==
  ASSUME NEW x \in Number!Int64, NEW y \in Number!Int64, NEW op \in {"div", "mod"},
         y # 0, ~(x = Number!Least /\ y = -1),
         answer' = Number!Answer(op, x, y, IF op = "div" THEN Number!Quotient(x, y)
                                                         ELSE Number!Remainder(x, y))
  PROVE  Answers(x, y)
<1>1. PICK q, r : q = Number!Quotient(x, y) /\ r = Number!Remainder(x, y)
  OBVIOUS
<1>2. x \in Int /\ y \in Int
  BY Constants64
<1>3. q \in Number!Int64 /\ r \in Number!Int64 /\ Truncates(x, y, q, r)
  BY <1>1, <1>2, QuotientFits, QuotientIs
<1>4. /\ (x - r) % Number!Magnitude(y) = 0 /\ x - q * y = r
      /\ Number!Magnitude(r) < Number!Magnitude(y)
      /\ (r > 0 => x > 0) /\ (r < 0 => x < 0)
  <2>1. (x - r) % Number!Magnitude(y) = 0 /\ x - q * y = r
    BY <1>2, <1>3, DivisionIs
  <2>2. QED
    BY <1>3, <2>1 DEF Truncates
<1>5. /\ answer' \in AnswerType /\ answer'.op = op /\ answer'.x = x /\ answer'.y = y
      /\ answer'.r = (IF op = "div" THEN q ELSE r) /\ answer'.fault = "none"
  <2>1. (IF op = "div" THEN q ELSE r) \in Number!Int64 /\ op \in Number!Ops
    BY <1>3 DEF Number!Ops
  <2>2. answer' = Number!Answer(op, x, y, IF op = "div" THEN q ELSE r)
    BY <1>1
  <2>3. QED
    BY <2>1, <2>2, AnswerIs
<1>6. (IF answer'.op = "mod" THEN answer'.r ELSE answer'.x - answer'.r * answer'.y) = r
  BY <1>4, <1>5
<1>7. Number!DivisionTruncates'
  BY <1>4, <1>5, <1>6 DEF Number!DivisionTruncates
<1>8. Number!ArithmeticIsModular'
  BY <1>5 DEF Number!ArithmeticIsModular
<1>9. QED
  BY <1>5, <1>7, <1>8 DEF Answers, Sound

LEMMA AnswersDivision ==
  ASSUME NEW x \in Number!Int64, NEW y \in Number!Int64, Number!Div(x, y) \/ Number!Mod(x, y)
  PROVE  Answers(x, y)
<1>1. ASSUME NEW op \in {"div", "mod"}, NEW f \in {"error", "trap"},
             answer' = Number!Fault(op, x, y, f)
      PROVE  Answers(x, y)
  BY <1>1, AnswersFault DEF Number!Ops, Number!Faults
<1>2. CASE Number!Div(x, y)
  <2>1. CASE \E f \in {"error", "trap"} : answer' = Number!Fault("div", x, y, f)
    BY <1>1, <2>1
  <2>2. CASE /\ y # 0 /\ ~(x = Number!Least /\ y = -1)
             /\ answer' = Number!Answer("div", x, y, Number!Quotient(x, y))
    BY <2>2, AnswersQuotient
  <2>3. QED
    BY <1>2, <2>1, <2>2 DEF Number!Div, Number!Raises
<1>3. CASE Number!Mod(x, y)
  <2>1. CASE \E f \in {"error", "trap"} : answer' = Number!Fault("mod", x, y, f)
    BY <1>1, <2>1
  <2>2. CASE /\ y # 0 /\ ~(x = Number!Least /\ y = -1)
             /\ answer' = Number!Answer("mod", x, y, Number!Remainder(x, y))
    BY <2>2, AnswersQuotient
  <2>3. QED
    BY <1>3, <2>1, <2>2 DEF Number!Mod, Number!Raises
<1>4. QED
  BY <1>2, <1>3

LEMMA CountIsShift ==
  ASSUME NEW y \in Number!Int64, NEW n \in Number!Counts(y)
  PROVE  n \in 0 .. W /\ (y \in 0 .. W - 1 => n = y)
<1>1. W \in Nat \ {0} /\ y \in Int
  BY WidthIs, Constants64
<1>2. y % W \in 0 .. W - 1
  BY <1>1, DivMod
<1>3. n \in (IF y \in 0 .. W - 1 THEN {y} ELSE {y % W, W})
  BY DEF Number!Counts
<1>4. CASE y \in 0 .. W - 1
  BY <1>1, <1>3, <1>4
<1>5. CASE y \notin 0 .. W - 1
  <2>1. n = y % W \/ n = W
    BY <1>3, <1>5
  <2>2. QED
    BY <1>1, <1>2, <1>5, <2>1
<1>6. QED
  BY <1>4, <1>5

LEMMA AnswersShift ==
  ASSUME NEW x \in Number!Int64, NEW y \in Number!Int64,
         Number!Lshift(x, y) \/ Number!Rshift(x, y)
  PROVE  Answers(x, y)
<1>1. CASE Number!Rshift(x, y)
  <2>1. PICK n \in Number!Counts(y) :
           answer' = Number!Answer("rshift", x, y, x \div Number!Power2[n])
    BY <1>1 DEF Number!Rshift
  <2>2. x \div Number!Power2[n] \in Number!Int64
    BY CountIsShift, ShiftedRight
  <2>3. "rshift" \in Plain
    BY DEF Plain, Number!Ops
  <2>4. QED
    BY <2>1, <2>2, <2>3, AnswersPlain
<1>2. CASE Number!Lshift(x, y)
  <2> DEFINE r(n) == IF n = W THEN 0
                     ELSE Number!Wrap((x % Number!Power2[W - n]) * Number!Power2[n])
  <2>1. PICK n \in Number!Counts(y) : answer' = Number!Answer("lshift", x, y, r(n))
    BY <1>2 DEF Number!Lshift
  <2>2. n \in 0 .. W /\ (y \in 0 .. W - 1 => n = y) /\ W \in Nat
    BY CountIsShift, WidthIs
  <2>3. r(n) \in Number!Int64
    <3>1. CASE n = W
      BY <3>1, Constants64
    <3>2. CASE n # W
      <4>1. n \in 0 .. W - 1
        BY <2>2, <3>2
      <4>2. QED
        BY <3>2, <4>1, ShiftedLeft
    <3>3. QED
      BY <3>1, <3>2
  <2>4. ASSUME y \in 0 .. W - 1
        PROVE  (r(n) - x * Number!Power2[y]) % Number!Size = 0
    <3>1. n = y /\ n # W
      BY <2>2, <2>4
    <3>2. Congruent(r(n), x * Number!Power2[y])
      BY <2>4, <3>1, ShiftedLeft
    <3>3. r(n) \in Int /\ x * Number!Power2[y] \in Int
      <4> HIDE DEF r
      <4>1. y \in Nat
        BY <2>2, <2>4
      <4>2. x \in Int /\ r(n) \in Int
        BY <2>3, Constants64
      <4>3. Number!Power2[y] \in Nat
        BY <4>1, Power2Is
      <4>4. QED
        BY <4>2, <4>3
    <3> HIDE DEF r
    <3>4. QED
      BY <3>2, <3>3, CongruentRemainder
  <2> HIDE DEF r
  <2>5. /\ answer' \in AnswerType /\ answer'.op = "lshift" /\ answer'.x = x /\ answer'.y = y
        /\ answer'.r = r(n) /\ answer'.fault = "none"
    BY <2>1, <2>3, AnswerIs DEF Number!Ops
  <2>6. Number!ArithmeticIsModular' /\ Number!DivisionTruncates'
    BY <2>4, <2>5 DEF Number!ArithmeticIsModular, Number!DivisionTruncates
  <2>7. QED
    BY <2>5, <2>6 DEF Answers, Sound
<1>3. QED
  BY <1>1, <1>2

-----------------------------------------------------------------------------
(* Every step answers soundly.                                               *)

\* Holds of all three kinds of behaviours: in two of them the numbers rest.
NumberInv ==
    /\ m_val \in [Number!Cells -> Number!Int64]
    /\ alive \subseteq Number!Cells
    /\ methods \in 0 .. MaxMethods
    /\ Sound
    /\ alive = {} => answer.x = 0 /\ answer.y = 0

LEMMA ReadsInt64 ==
  ASSUME NumberInv, NEW c \in Number!Cells
  PROVE  Number!toint64(c) \in Number!Int64 /\ (alive = {} => Number!toint64(c) = 0)
BY Constants64 DEF NumberInv, Number!toint64

LEMMA AnswersOperator ==
  ASSUME NumberInv, NEW c \in Number!Cells, NEW d \in Number!Cells, Number!Operator(c, d)
  PROVE  NumberInv'
<1>1. PICK x, y : x = Number!toint64(c) /\ y = Number!toint64(d)
  OBVIOUS
<1>2. x \in Number!Int64 /\ y \in Number!Int64 /\ (alive = {} => x = 0 /\ y = 0)
  BY <1>1, ReadsInt64
<1>3. /\ \/ Number!Add(x, y) \/ Number!Sub(x, y) \/ Number!Mul(x, y) \/ Number!Div(x, y)
         \/ Number!Mod(x, y) \/ Number!Unm(x, y) \/ Number!Pow(x, y)
         \/ Number!Lshift(x, y) \/ Number!Rshift(x, y)
      /\ UNCHANGED <<m_val, alive, methods>>
  BY <1>1, Zenon DEF Number!Operator
<1>4. Answers(x, y)
  <2>1. Number!Add(x, y) => Answers(x, y)
    BY <1>2, AnswersSum DEF Number!Add
  <2>2. Number!Sub(x, y) => Answers(x, y)
    BY <1>2, AnswersDifference DEF Number!Sub
  <2>3. QED
    BY <1>2, <1>3, <2>1, <2>2, AnswersProduct, AnswersOpposite, AnswersDivision,
       AnswersPower, AnswersShift
<1>5. QED
  BY <1>2, <1>3, <1>4 DEF NumberInv, Answers

LEMMA AnswersCompare ==
  ASSUME NumberInv, NEW c \in Number!Cells, NEW d \in Number!Cells,
         NEW op \in {"eq", "lt", "le", "less", "lessex", "more", "moreex"},
         Number!Compare(op, c, d)
  PROVE  NumberInv'
<1>1. PICK x, y : x = Number!toint64(c) /\ y = Number!toint64(d)
  OBVIOUS
<1>2. x \in Number!Int64 /\ y \in Number!Int64 /\ (alive = {} => x = 0 /\ y = 0)
  BY <1>1, ReadsInt64
<1>3. PICK r : r = IF Number!Holds(op, x, y) THEN 1 ELSE 0
  OBVIOUS
<1>4. r \in Number!Int64 /\ 0 \in Number!Int64 /\ op \in Plain
  BY <1>3, Constants64 DEF Plain, Number!Ops
<1>5. UNCHANGED <<m_val, alive, methods>>
  BY DEF Number!Compare
<1>6. CASE c \notin alive /\ op \in {"less", "lessex", "more", "moreex"}
  <2>1. answer' = Number!Fault(op, 0, y, "nothing")
    BY <1>1, <1>6 DEF Number!Compare
  <2>2. Answers(0, y)
    BY <1>2, <1>4, <2>1, AnswersFault DEF Plain, Number!Faults
  <2>3. QED
    BY <1>2, <1>5, <2>2 DEF NumberInv, Answers
<1>7. CASE ~(c \notin alive /\ op \in {"less", "lessex", "more", "moreex"})
  <2>1. answer' = Number!Answer(op, x, y, r)
    BY <1>1, <1>3, <1>7 DEF Number!Compare
  <2>2. Answers(x, y)
    BY <1>2, <1>4, <2>1, AnswersPlain
  <2>3. QED
    BY <1>2, <1>5, <2>2 DEF NumberInv, Answers
<1>8. QED
  BY <1>6, <1>7

LEMMA AnswersMethod ==
  ASSUME NumberInv, NEW c \in Number!Cells, NEW d \in Number!Cells,
         NEW op \in {"addfun", "subfun"}, Number!Method(op, c, d)
  PROVE  NumberInv'
<1>1. PICK x, y : x = m_val[c] /\ y = Number!toint64(d)
  OBVIOUS
<1>2. x \in Number!Int64 /\ y \in Number!Int64
  BY <1>1, ReadsInt64 DEF NumberInv
<1>3. PICK r : r = Number!Wrap(IF op = "addfun" THEN x + y ELSE x - y)
  OBVIOUS
<1>4. /\ methods < MaxMethods /\ c \in alive /\ m_val' = [m_val EXCEPT ![c] = r]
      /\ answer' = Number!Answer(op, x, y, r) /\ methods' = methods + 1 /\ alive' = alive
  BY <1>1, <1>3 DEF Number!Method
<1>5. r \in Number!Int64
  <2>1. x \in Int /\ y \in Int
    BY <1>2, Constants64
  <2>2. x + y \in Int /\ x - y \in Int
    BY <2>1
  <2>3. QED
    BY <1>3, <2>2, WrapIs
<1>6. Answers(x, y)
  <2>1. CASE op = "addfun"
    BY <1>2, <1>3, <1>4, <2>1, AnswersSum
  <2>2. CASE op = "subfun"
    BY <1>2, <1>3, <1>4, <2>2, AnswersDifference
  <2>3. QED
    BY <2>1, <2>2
<1>7. m_val' \in [Number!Cells -> Number!Int64] /\ methods' \in 0 .. MaxMethods
  <2>1. MaxMethods \in Nat
    BY WidthIs
  <2>2. QED
    BY <1>4, <1>5, <2>1 DEF NumberInv
<1>8. QED
  BY <1>4, <1>6, <1>7 DEF NumberInv, Answers

LEMMA AnswersSet ==
  ASSUME NumberInv, NEW c \in Number!Cells, NEW d \in Number!Cells, Number!setvalue(c, d)
  PROVE  NumberInv'
<1>1. PICK y : y = Number!toint64(d)
  OBVIOUS
<1>2. y \in Number!Int64 /\ (alive = {} => y = 0)
  BY <1>1, ReadsInt64
<1>3. methods < MaxMethods /\ methods' = methods + 1 /\ alive' = alive
  BY DEF Number!setvalue
<1>4. methods' \in 0 .. MaxMethods
  <2>1. MaxMethods \in Nat
    BY WidthIs
  <2>2. QED
    BY <1>3, <2>1 DEF NumberInv
<1>5. CASE c \in alive
  <2>1. m_val' = [m_val EXCEPT ![c] = y] /\ answer' = Number!Answer("set", m_val[c], y, y)
    BY <1>1, <1>5 DEF Number!setvalue
  <2>2. m_val[c] \in Number!Int64 /\ "set" \in Plain
    BY DEF NumberInv, Plain, Number!Ops
  <2>3. Answers(m_val[c], y)
    BY <1>2, <2>1, <2>2, AnswersPlain
  <2>4. m_val' \in [Number!Cells -> Number!Int64]
    BY <1>2, <2>1 DEF NumberInv
  <2>5. QED
    BY <1>3, <1>4, <1>5, <2>3, <2>4 DEF NumberInv, Answers
<1>6. CASE c \notin alive
  <2>1. m_val' = m_val /\ answer' = Number!Fault("set", 0, y, "null")
    BY <1>1, <1>6 DEF Number!setvalue
  <2>2. Answers(0, y)
    BY <1>2, <2>1, Constants64, AnswersFault DEF Number!Ops, Number!Faults
  <2>3. QED
    BY <1>2, <1>3, <1>4, <2>1, <2>2 DEF NumberInv, Answers
<1>7. QED
  BY <1>5, <1>6

LEMMA AnswersTostring ==
  ASSUME NumberInv, NEW c \in Number!Cells, Number!tostringfun(c)
  PROVE  NumberInv'
<1>1. UNCHANGED <<m_val, alive, methods>>
  BY DEF Number!tostringfun
<1>2. CASE c \in alive
  <2>1. answer' = Number!Answer("tostring", m_val[c], 0, m_val[c])
    BY <1>2 DEF Number!tostringfun
  <2>2. m_val[c] \in Number!Int64 /\ "tostring" \in Plain
    BY DEF NumberInv, Plain, Number!Ops
  <2>3. Answers(m_val[c], 0)
    BY <2>1, <2>2, Constants64, AnswersPlain
  <2>4. QED
    BY <1>1, <1>2, <2>3 DEF NumberInv, Answers
<1>3. CASE c \notin alive
  <2>1. answer' = Number!Fault("tostring", 0, 0, "null")
    BY <1>3 DEF Number!tostringfun
  <2>2. Answers(0, 0)
    BY <2>1, Constants64, AnswersFault DEF Number!Ops, Number!Faults
  <2>3. QED
    BY <1>1, <2>2 DEF NumberInv, Answers
<1>4. QED
  BY <1>2, <1>3

LEMMA AnswersFrameEnds ==
  ASSUME NumberInv, Number!FrameEnds
  PROVE  NumberInv'
<1>1. /\ alive' = {} /\ m_val' = m_val /\ methods' = methods
      /\ answer' = Number!Answer("none", 0, 0, 0)
  BY DEF Number!FrameEnds
<1>2. "none" \in Plain
  BY DEF Plain, Number!Ops
<1>3. Answers(0, 0)
  BY <1>1, <1>2, Constants64, AnswersPlain
<1>4. QED
  BY <1>1, <1>3 DEF NumberInv, Answers

LEMMA NumbersInit ==
  ASSUME Init
  PROVE  NumberInv
<1>1. /\ m_val \in [Number!Cells -> Numbers] /\ alive = Number!Cells /\ methods = 0
      /\ answer = [op |-> "none", x |-> 0, y |-> 0, r |-> 0, fault |-> "none"]
  BY DEF Init, Number!Init, Number!Answer
<1>2. m_val \in [Number!Cells -> Number!Int64] /\ methods \in 0 .. MaxMethods
  <2>1. Numbers \subseteq Number!Int64 /\ MaxMethods \in Nat
    BY WidthIs
  <2>2. QED
    BY <1>1, <2>1
<1>3. answer \in AnswerType
  BY <1>1, Constants64 DEF AnswerType, Number!Ops, Number!Faults
<1>4. Sound
  BY <1>1, <1>3 DEF Sound, Number!ArithmeticIsModular, Number!DivisionTruncates
<1>5. QED
  BY <1>1, <1>2, <1>4 DEF NumberInv, Number!Cells

LEMMA NumbersNext ==
  ASSUME NumberInv, [Next]_vars
  PROVE  NumberInv'
<1>1. CASE UNCHANGED numberVars
  BY <1>1 DEF numberVars, NumberInv, Sound, Number!ArithmeticIsModular,
              Number!DivisionTruncates
<1>2. CASE Number!Next
  <2>1. CASE Number!FrameEnds
    BY <2>1, AnswersFrameEnds
  <2>4. CASE \E c \in Number!Cells : Number!tostringfun(c)
    BY <2>4, AnswersTostring
  <2>2. ASSUME NEW c \in Number!Cells, NEW d \in Number!Cells,
               \/ Number!Operator(c, d) \/ Number!setvalue(c, d)
               \/ \E op \in {"addfun", "subfun"} : Number!Method(op, c, d)
               \/ \E op \in {"eq", "lt", "le", "less", "lessex", "more", "moreex"} :
                     Number!Compare(op, c, d)
        PROVE  NumberInv'
    BY <2>2, AnswersOperator, AnswersSet, AnswersMethod, AnswersCompare
  <2>3. QED
    BY <1>2, <2>1, <2>2, <2>4 DEF Number!Next
<1>3. QED
  BY <1>1, <1>2 DEF Next, OfNumbers, OfDigests, OfTexts, vars

LEMMA NumbersAre ==
  NumberInv => /\ Number!TypeOK /\ Number!ArithmeticIsModular
               /\ Number!DivisionTruncates /\ Number!FreedIsZero
BY DEF NumberInv, Sound, AnswerType, Number!TypeOK, Number!FreedIsZero

\* Whatever two 64-bit numbers and whatever methods changed them before, in any width
\* of whole hexadecimal digits: sums, products, opposites, powers and shifts to the
\* left are those of arithmetic modulo the size, quotient and remainder go together,
\* and what is kept beyond its frame reads as zero and faults only in setvalue and
\* tostring (Integer64.h, every operator and method).
THEOREM EveryNumberIsModular == Spec => []NumbersAreModular
<1>1. Init => NumberInv
  BY NumbersInit
<1>2. NumberInv /\ [Next]_vars => NumberInv'
  BY NumbersNext
<1>3. NumberInv => NumbersAreModular
  BY NumbersAre DEF NumbersAreModular
<1>4. QED
  BY <1>1, <1>2, <1>3, PTL DEF Spec

\* In base 10.
LEMMA DecimalReadsBack ==
  ASSUME NEW n \in Number!Int64, n # Number!Least
  PROVE  /\ Number!Value(Number!decimal(n).digits, 10) = Number!Magnitude(n)
         /\ Number!decimal(n).neg = (n < 0)
<1>1. n \in Int /\ (n < 0 => -n \in Number!Int64)
  BY WidthIs
<1>2. n < 0 => Number!Wrap(-n) = -n
  <2>1. -n \in Int
    BY <1>1
  <2>2. QED
    BY <1>1, <2>1, CongruentSelf, WrapUnique
<1>3. (IF n < 0 THEN Number!Wrap(-n) ELSE n) = Number!Magnitude(n)
  BY <1>2 DEF Number!Magnitude
<1>4. /\ Number!decimal(n).digits = Number!Decimals(Number!Magnitude(n))
      /\ Number!decimal(n).neg = (n < 0)
  BY <1>3 DEF Number!decimal
<1>5. Number!Magnitude(n) \in Int
  BY <1>1 DEF Number!Magnitude
<1>6. QED
  BY <1>4, <1>5, DecimalsRead

\* In a base whose digits fill the width.
LEMMA WholeDigitsReadBack ==
  ASSUME NEW n \in Number!Int64, NEW bits \in Nat \ {0}, W % bits = 0
  PROVE  Number!Wrap(Number!Value(Number!digits(n, bits), Number!Power2[bits])) = n
<1> DEFINE z == Number!Size
           m == n % z
<1>1. z \in Nat \ {0} /\ n \in Int
  BY WidthIs
<1>2. n \div z \in Int /\ m \in 0 .. z - 1 /\ n = z * (n \div z) + m
  <2> HIDE DEF z
  <2>1. QED
    BY <1>1, DivMod
<1>3. PICK q \in Int : q = n \div z
  BY <1>2
<1> HIDE DEF m, z
<1>4. m \in Nat /\ n - m = q * z
  BY <1>1, <1>2, <1>3
<1>5. m \div Number!Power2[0] = m
  BY <1>4, Power2Is
<1>6. Number!Value(Number!digits(n, bits), Number!Power2[bits]) = m
  BY <1>5, DigitsRead DEF m, z
<1>7. Congruent(n, m)
  BY <1>4 DEF Congruent, z
<1>8. Number!Wrap(m) = n
  BY <1>4, <1>7, WrapUnique
<1>9. QED
  BY <1>6, <1>8

\* A string names the number it was made from, whatever the width: in base 10 all but
\* the smallest number, in bases 2 and 16 every number, and in base 8 every bit above
\* the last whole digit (toLua_Integer64_tostring).
THEOREM EveryNumberReadsBack == Spec => []StringsReadBack
<1>1. ASSUME NEW n \in Number!Int64
      PROVE  /\ n # Number!Least =>
                   /\ Number!Value(Number!decimal(n).digits, 10) = Number!Magnitude(n)
                   /\ Number!decimal(n).neg = (n < 0)
             /\ \A bits \in {1, 4} :
                   Number!Wrap(Number!Value(Number!digits(n, bits), Number!Power2[bits])) = n
             /\ Number!Value(Number!digits(n, 3), 8)
                   = (n % Number!Size) \div Number!Power2[W % 3]
  <2>1. W % 1 = 0 /\ W % 4 = 0
    BY WidthIs
  <2>2. \A bits \in {1, 4} :
           Number!Wrap(Number!Value(Number!digits(n, bits), Number!Power2[bits])) = n
    <3>1. \A bits \in {1, 4} : bits \in Nat \ {0} /\ W % bits = 0
      BY <2>1
    <3>2. QED
      BY <3>1, WholeDigitsReadBack
  <2>3. Number!Power2[3] = 8
    <3>1. /\ Number!Power2[0] = 1 /\ Number!Power2[0 + 1] = 2 * Number!Power2[0]
          /\ Number!Power2[1 + 1] = 2 * Number!Power2[1]
          /\ Number!Power2[2 + 1] = 2 * Number!Power2[2]
      BY Power2Is
    <3>2. QED
      BY <3>1
  <2>4. Number!Value(Number!digits(n, 3), Number!Power2[3])
           = (n % Number!Size) \div Number!Power2[W % 3]
    <3>1. 3 \in Nat \ {0}
      OBVIOUS
    <3>2. QED
      BY <3>1, DigitsRead
  <2>5. QED
    BY <2>2, <2>3, <2>4, DecimalReadsBack
<1>2. NumberInv => Number!StringsReadBack
  BY <1>1, ReadsInt64 DEF Number!StringsReadBack
<1>3. Init => NumberInv
  BY NumbersInit
<1>4. NumberInv /\ [Next]_vars => NumberInv'
  BY NumbersNext
<1>5. NumberInv => StringsReadBack
  BY <1>2 DEF StringsReadBack
<1>6. QED
  BY <1>3, <1>4, <1>5, PTL DEF Spec
=============================================================================
