--------------------------- MODULE MCClientKernel ---------------------------
(***************************************************************************)
(* ClientKernel with blocks of two bytes of two bits.                      *)
(***************************************************************************)
EXTENDS ClientKernel, TLC

MCSendByteMap == (0 :> 2) @@ (1 :> 0) @@ (2 :> 3) @@ (3 :> 1)
MCRecvByteMap == (0 :> 1) @@ (1 :> 3) @@ (2 :> 0) @@ (3 :> 2)

MCXor(a, b) == ((a + b) % 2) + 2 * (((a \div 2) + (b \div 2)) % 2)

\* Each half of a key comes from its half of the block.
MCNextKey(c) == <<MCXor((3 * c[1] + 2) % 4, 1), MCXor((3 * c[2] + 1) % 4, 2)>>

MCInitialKey == <<1, 2>>
MCFirstKey == <<3, 1>>
MCHeartBeat == <<0, 1>>

\* A command alone, one with half a block of body, one with a whole block;
\* from the server also the heartbeat.
MCOutgoing == {<<2, 0>>, <<1, 3, 2>>, <<0, 2, 1, 3>>}
MCIncoming == {<<0, 1>>, <<3, 0, 1>>, <<1, 2, 2, 0>>}
=============================================================================
