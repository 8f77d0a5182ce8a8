------------------------------ MODULE MD5Digest ------------------------------
(***************************************************************************)
(* The block buffering of the two MD5 classes (Classes/common/MD5.cpp):    *)
(* update in pieces of any length, the two-word bit count, padding and     *)
(* finalisation.  The transformation of a block is left abstract: what is  *)
(* followed is which blocks are transformed, in order.  Byte i of a        *)
(* message is the number i; what padding adds is not positive or large.    *)
(***************************************************************************)
EXTENDS Integers, Sequences

CONSTANTS Block,      \* bytes of a block: 64
          Word,       \* values of a word of the count: 2^32
          Pieces,     \* lengths that update is called with
          MaxLength,  \* bound: bytes of a message
          MaxFinals   \* bound: calls of finalize

\* The count is two words, so a block has room for more; blocks divide a word's bits.
DigestAssumption ==
    /\ Block \in Nat /\ Block > 2 /\ Word \in Nat /\ Word > 0 /\ Word % (8 * Block) = 0
    /\ Pieces \subseteq Nat /\ MaxLength \in Nat /\ MaxFinals \in Nat

VARIABLES
    class,              \* "MD5" or "CMD5"
    count, buffer,      \* count is <<lo, hi>>
    blocks,             \* what has been transformed into state
    finalized, digest,
    length,             \* history: bytes of the message so far
    finals

vars == <<class, count, buffer, blocks, finalized, digest, length, finals>>

CountBytes == 2
Lo(n) == 1000 + n
Hi(n) == 2000 + n
Clear == [i \in 1 .. Block |-> 0]

TypeOK ==
    /\ class \in {"MD5", "CMD5"}
    /\ count \in (0 .. Word - 1) \X (0 .. Word - 1)
    /\ Len(buffer) = Block
    /\ \A i \in 1 .. Len(blocks) : Len(blocks[i]) = Block
    /\ finalized \in BOOLEAN
    /\ length \in 0 .. MaxLength /\ finals \in 0 .. MaxFinals

Init ==
    /\ class \in {"MD5", "CMD5"}
    /\ count = <<0, 0>> /\ buffer = Clear /\ blocks = <<>>
    /\ finalized = FALSE /\ digest = <<>>
    /\ length = 0 /\ finals = 0

-----------------------------------------------------------------------------
index(c) == (c[1] \div 8) % Block

\* The carry is seen by the sum being less than what was added.
Counted(c, n) ==
    LET bits == (8 * n) % Word
        lo == (c[1] + bits) % Word
    IN  <<lo, (c[2] + (IF lo < bits THEN 1 ELSE 0) + (8 * n) \div Word) % Word>>

\* memcpy of bytes into b from offset at.
Written(b, at, bytes) ==
    [i \in 1 .. Block |-> IF i - at \in 1 .. Len(bytes) THEN bytes[i - at] ELSE b[i]]

\* update: fill the buffer and transform it, then whole blocks of the input, and
\* keep the rest.
Updated(m, input) ==
    LET n == Len(input)
        at == index(m.count)
        first == Block - at
        whole == (n - first) \div Block
        used == IF n >= first THEN first + whole * Block ELSE 0
        full == Written(m.buffer, at, SubSeq(input, 1, first))
        rest == SubSeq(input, used + 1, n)
    IN  [count  |-> Counted(m.count, n),
         blocks |-> IF n < first THEN m.blocks
                    ELSE m.blocks \o <<full>> \o
                         [k \in 1 .. whole |->
                            SubSeq(input, first + (k - 1) * Block + 1, first + k * Block)],
         buffer |-> IF n < first THEN Written(m.buffer, at, rest) ELSE Written(full, 0, rest)]

\* Variant: no block is added when the count just does not fit.
padding_Short(at) ==
    LET n == IF at <= Block - CountBytes THEN Block - CountBytes - at
             ELSE 2 * Block - CountBytes - at
    IN  [i \in 1 .. n |-> IF i = 1 THEN -1 ELSE 0]

padding(at) ==
    LET n == IF at < Block - CountBytes THEN Block - CountBytes - at
             ELSE 2 * Block - CountBytes - at
    IN  [i \in 1 .. n |-> IF i = 1 THEN -1 ELSE 0]

Padded(m) ==
    Updated(Updated(m, padding(index(m.count))), <<Lo(m.count[1]), Hi(m.count[2])>>)

Now == [count |-> count, blocks |-> blocks, buffer |-> buffer]
Piece(n) == [i \in 1 .. n |-> length + i]

update(n) ==
    /\ length + n <= MaxLength
    /\ LET m == Updated(Now, Piece(n)) IN
         count' = m.count /\ blocks' = m.blocks /\ buffer' = m.buffer
    /\ length' = length + n
    /\ UNCHANGED <<class, finalized, digest, finals>>

\* MD5::finalize works once: the digest is kept, the state is not started afresh.
finalize ==
    /\ class = "MD5" /\ finals < MaxFinals
    /\ finals' = finals + 1
    /\ IF finalized THEN UNCHANGED <<count, buffer, blocks, finalized, digest>>
       ELSE /\ digest' = Padded(Now).blocks
            /\ blocks' = digest'
            /\ buffer' = Clear /\ count' = <<0, 0>>
            /\ finalized' = TRUE
    /\ UNCHANGED <<class, length>>

\* CMD5::MD5Final starts afresh.
MD5Final ==
    /\ class = "CMD5" /\ finals < MaxFinals
    /\ finals' = finals + 1
    /\ digest' = Padded(Now).blocks
    /\ blocks' = <<>> /\ buffer' = Clear /\ count' = <<0, 0>>
    /\ length' = 0
    /\ UNCHANGED <<class, finalized>>

Next == finalize \/ MD5Final \/ \E n \in Pieces : update(n)

Spec == Init /\ [][Next]_vars

-----------------------------------------------------------------------------
Message(n) == [i \in 1 .. n |-> i]

\* The bytes of a sequence of blocks.
Joined(bs) ==
    [i \in 1 .. Block * Len(bs) |-> bs[(i - 1) \div Block + 1][((i - 1) % Block) + 1]]

\* The padding of RFC 1321: a one, zeros to just short of a block, the length in bits.
PaddedMessage(n) ==
    LET zeros == (Block - CountBytes - 1 - n) % Block
    IN  Message(n) \o <<-1>> \o [i \in 1 .. zeros |-> 0]
            \o <<Lo((8 * n) % Word), Hi(((8 * n) \div Word) % Word)>>

\* The blocks transformed and what waits in the buffer are the message, every byte
\* of it once and in order, however it came in pieces (update, MD5Update).
BlocksAreTheMessage ==
    ~finalized => Joined(blocks) \o SubSeq(buffer, 1, index(count)) = Message(length)

\* The two words are the length in bits although the low one overflows (update).
CountIsTheLength ==
    ~finalized => count[1] + Word * count[2] = (8 * length) % (Word * Word)

\* A digest is that of the padded message, the same for every way to cut it into
\* pieces, and of this message alone (finalize, MD5Final).
DigestIsOfTheMessage ==
    [][digest' # digest => Joined(digest') = PaddedMessage(length)]_vars

\* Once an MD5 is finalised neither further text nor another finalize changes what
\* hexdigest returns (update, finalize, hexdigest).
DigestIsKept == [][finalized => digest' = digest]_vars
=============================================================================
