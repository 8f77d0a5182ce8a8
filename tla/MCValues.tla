------------------------------ MODULE MCValues ------------------------------
(***************************************************************************)
(* The three kinds of values Lua computes with, for TLC. They share        *)
(* nothing, so a behaviour is one of Integer64, MD5Digest or Base64 while  *)
(* the other two rest: sixteen bits leave one over in base 8, as sixty-    *)
(* four do.                                                                *)
(***************************************************************************)
EXTENDS Integers

CONSTANTS W, Numbers, MaxMethods, MaxExponent,
          Block, Word, Pieces, MaxLength, MaxFinals,
          Bytes, Digits, MaxBytes, MaxText

VARIABLES
    kind,                          \* which of the three the behaviour is of
    m_val, alive, methods, answer,
    class, count, buffer, blocks, finalized, digest, length, finals,
    pc, argument, in_, char_array, ret, encoded

\* The value of Numbers for TLC.
Edges == {-2^(W - 1), 1 - 2^(W - 1), -300, -1, 0, 3, 10, 255, 2^(W - 1) - 1}

Number == INSTANCE Integer64
MD5 == INSTANCE MD5Digest
Text == INSTANCE Base64

ASSUME ValuesAssumption ==
    Number!IntegerAssumption /\ MD5!DigestAssumption /\ Text!Base64Assumption

numberVars == <<m_val, alive, methods, answer>>
digestVars == <<class, count, buffer, blocks, finalized, digest, length, finals>>
textVars == <<pc, argument, in_, char_array, ret, encoded>>
vars == <<kind, numberVars, digestVars, textVars>>

Init ==
    /\ kind \in {"number", "digest", "text"}
    /\ Number!Init /\ MD5!Init /\ Text!Init
    /\ kind # "number" => m_val = [c \in Number!Cells |-> 0]
    /\ kind # "digest" => class = "MD5"

OfNumbers == kind = "number" /\ Number!Next /\ UNCHANGED <<kind, digestVars, textVars>>
OfDigests == kind = "digest" /\ MD5!Next /\ UNCHANGED <<kind, numberVars, textVars>>
OfTexts == kind = "text" /\ Text!Next /\ UNCHANGED <<kind, numberVars, digestVars>>

Next == OfNumbers \/ OfDigests \/ OfTexts

Spec == Init /\ [][Next]_vars

-----------------------------------------------------------------------------
\* Whatever two numbers and whatever was done to them before, a result is that of
\* arithmetic modulo 2^64, quotient and remainder go together, and a number kept
\* beyond its frame reads as zero and faults nowhere but in setvalue and tostring
\* (the operators and methods of Integer64.h).
NumbersAreModular ==
    kind = "number" =>
        /\ Number!TypeOK
        /\ Number!ArithmeticIsModular
        /\ Number!DivisionTruncates
        /\ Number!FreedIsZero

\* A string of digits names the number it was made from, in every base, with the
\* two exceptions that the code has (toLua_Integer64_tostring).
StringsReadBack == kind = "number" => Number!StringsReadBack

\* However a message comes in pieces no byte of it is lost, repeated or out of
\* order, and the two words of the count are its length although the low one
\* overflows; a digest is that of the padded message, of this message alone, and
\* kept once it is made (update, finalize, MD5Final, hexdigest).
DigestsAreOfTheMessage ==
    /\ [](MD5!TypeOK /\ MD5!BlocksAreTheMessage /\ MD5!CountIsTheLength)
    /\ MD5!DigestIsOfTheMessage
    /\ MD5!DigestIsKept

\* What Lua encodes is accepted and reads back; of any other text, wherever its
\* '=' stand, decoding gives the whole bytes before the first one and no more
\* (Client::base64Encode, base64Decode, base64_encode, base64_decode).
TextsReadBack ==
    kind = "text" =>
        /\ Text!TypeOK
        /\ Text!EncodedIsAccepted
        /\ Text!DecodedIsThePrefix
        /\ Text!ReadsBack
=============================================================================
