----------------------------- MODULE NetBuffer ------------------------------
(***************************************************************************)
(* The NetBuffer of a socket (Classes/plazz/ClientSocket.h) and the reads  *)
(* that go through it (do_read_body in ClientSocket.cpp): the fixed area   *)
(* m_sbuf, the heap buffer that replaces it, and which of them asio is     *)
(* filling.  A heap block is known by the number of its allocation, and    *)
(* block 0 is m_sbuf.  malloc is taken to succeed.                         *)
(***************************************************************************)
EXTENDS Integers, Sequences

CONSTANTS STATIC_BUF_SIZE,   \* the bytes of m_sbuf (1024)
          BodyLengths        \* the body lengths the server's headers announce

ASSUME NetBufferAssumption ==
    STATIC_BUF_SIZE \in Nat \ {0} /\ BodyLengths \subseteq Nat \ {0}

VARIABLES
    m_dbuf,        \* the heap block in use, 0 for none
    m_datalen, m_capacity,
    heap,          \* the sizes of the blocks allocated so far
    freed,         \* how often each of them was given back
    reading,       \* the body read outstanding: its block and length
    alive          \* the destructor has not run

buffer == <<m_dbuf, m_datalen, m_capacity>>
netVars == <<buffer, heap, freed, reading, alive>>

NoRead == [block |-> 0, len |-> 0]

NetTypeOK ==
    /\ heap \in Seq(Nat)
    /\ m_dbuf \in 0 .. Len(heap)
    /\ m_datalen \in Nat /\ m_capacity \in Nat
    /\ freed \in [1 .. Len(heap) -> {0, 1}]
    /\ reading \in [block : 0 .. Len(heap), len : Nat]
    /\ alive \in BOOLEAN

NetInit ==
    /\ m_dbuf = 0 /\ m_datalen = 0
    /\ m_capacity = STATIC_BUF_SIZE
    /\ heap = <<>> /\ freed = <<>>
    /\ reading = NoRead
    /\ alive = TRUE

-----------------------------------------------------------------------------
SizeOf(b) == IF b = 0 THEN STATIC_BUF_SIZE ELSE heap[b]

\* freed, for n blocks, once block b is given back; m_sbuf (0) never is.
Given(b, n) ==
    [i \in 1 .. n |-> (IF i \in DOMAIN freed THEN freed[i] ELSE 0) + (IF i = b THEN 1 ELSE 0)]

Enough(needSize) ==
    /\ m_capacity >= needSize
    /\ UNCHANGED <<m_dbuf, m_capacity, heap, freed>>

Allocate(size) ==
    /\ heap' = Append(heap, size)
    /\ m_dbuf' = Len(heap) + 1
    /\ m_capacity' = size

\* Variant: the sufficient capacity is off by one.
ExpandBuffer_OffByOne(needSize) ==
    \/ Enough(needSize - 1)
    \/ /\ m_capacity < needSize - 1
       /\ Allocate(IF m_dbuf # 0 THEN 2 * needSize ELSE needSize)
       /\ freed' = Given(m_dbuf, Len(heap) + 1)

\* Variant: the old buffer is not given back.
ExpandBuffer_Keeps(needSize) ==
    \/ Enough(needSize)
    \/ /\ m_capacity < needSize
       /\ Allocate(IF m_dbuf # 0 THEN 2 * needSize ELSE needSize)
       /\ freed' = Given(0, Len(heap) + 1)

\* Resize has cleared m_datalen, so there are no bytes to copy.
ExpandBuffer(needSize) ==
    \/ Enough(needSize)
    \/ /\ m_capacity < needSize
       /\ Allocate(IF m_dbuf # 0 THEN 2 * needSize ELSE needSize)
       /\ freed' = Given(m_dbuf, Len(heap) + 1)

Resize(len) == ExpandBuffer(len) /\ m_datalen' = len

\* do_read_body, when the handler of a header has set m_bodyLength.
ReadBody(len) ==
    /\ alive /\ reading = NoRead
    /\ Resize(len)
    /\ reading' = [block |-> m_dbuf', len |-> len]
    /\ UNCHANGED alive

\* The read is done, failed or aborted; OnSocketDataEvent copies what it got.
ReadEnds ==
    /\ alive /\ reading # NoRead
    /\ reading' = NoRead
    /\ UNCHANGED <<buffer, heap, freed, alive>>

\* The socket is deleted, closed and with no read left (ClientSocket).
Destroy ==
    /\ alive /\ reading = NoRead
    /\ alive' = FALSE
    /\ freed' = Given(m_dbuf, Len(heap))
    /\ m_dbuf' = 0 /\ m_datalen' = 0 /\ m_capacity' = STATIC_BUF_SIZE
    /\ UNCHANGED <<heap, reading>>

NetNext == (\E len \in BodyLengths : ReadBody(len)) \/ ReadEnds \/ Destroy

NetSpec == NetInit /\ [][NetNext]_netVars

-----------------------------------------------------------------------------
\* asio fills memory that is still allocated and large enough, however the
\* sizes of successive packets grow and shrink (GetBuffer and m_bodyLength in
\* do_read_body).
ReadFits ==
    reading # NoRead =>
        /\ reading.len <= SizeOf(reading.block)
        /\ reading.block # 0 => freed[reading.block] = 0

\* Every heap block but the one in use has been given back exactly once, and
\* that one not at all: nothing leaks, nothing is freed twice, m_sbuf never;
\* and m_capacity is the size of what GetBuffer returns (ExpandBuffer, ~NetBuffer).
OneLiveBlock ==
    /\ \A b \in DOMAIN heap : freed[b] = IF b = m_dbuf THEN 0 ELSE 1
    /\ m_capacity = SizeOf(m_dbuf)

\* Once on the heap the buffer more than doubles when it grows, so however long
\* the connection it is reallocated only a logarithmic number of times
\* (the comment at ClientSocket.h:74).
GrowthDoubles ==
    [][m_dbuf # 0 /\ Len(heap') > Len(heap) => m_capacity' > 2 * m_capacity]_netVars

=============================================================================
