--------------------------- MODULE MCClientSocket ---------------------------
(* ClientSocket for TLC: the server sends every kind of packet. *)
EXTENDS ClientSocketInvariants

AllKinds == PacketKinds
=============================================================================
