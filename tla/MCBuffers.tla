----------------------------- MODULE MCBuffers ------------------------------
(***************************************************************************)
(* The three ways in which the program keeps bytes in memory of a size of  *)
(* its own, for TLC: the receive buffer of a socket, the fixed buffers of  *)
(* the kernel, and a packet of Lua.  They share nothing, so a behaviour is *)
(* one of NetBuffer, KernelBuffers or CmdData while the others rest.       *)
(***************************************************************************)
EXTENDS NetBuffer, KernelBuffers, CmdData

VARIABLE kind        \* which of the three the behaviour is of

buffersVars == <<kind, netVars, kernelVars, cmdVars>>

Init ==
    /\ kind \in {"net", "kernel", "data"}
    /\ NetInit /\ KernelInit /\ CmdInit
    /\ kind # "data" => Create(3)

OfNet == kind = "net" /\ NetNext /\ UNCHANGED <<kind, kernelVars, cmdVars>>
OfKernel == kind = "kernel" /\ KernelNext /\ UNCHANGED <<kind, netVars, cmdVars>>
OfData == kind = "data" /\ CmdNext /\ UNCHANGED <<kind, netVars, kernelVars>>

Next == OfNet \/ OfKernel \/ OfData

Spec == Init /\ [][Next]_buffersVars

\* Values and texts, which have the lengths of Lengths.
MCPayloads == {<<2>>, <<0, 1>>}

\* A conversion that makes two bytes of each.
Doubled(s) == [i \in 1 .. 2 * Len(s) |-> s[(i + 1) \div 2]]
=============================================================================
