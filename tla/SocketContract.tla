--------------------------- MODULE SocketContract ---------------------------
(***************************************************************************)
(* What a CClientSocket promises the two parties that use it.  Lua sees    *)
(* "connect", then the server's packets in order, then at most one         *)
(* "error", and nothing after a close; the server sees the packets Lua     *)
(* sent, in the order it sent them, up to some point.  There are no        *)
(* queues, handlers, buffers, frames or reference counts here.             *)
(***************************************************************************)
EXTENDS Naturals, Sequences

CONSTANT Kinds          \* the kinds of packet the server sends

VARIABLES phase,        \* the life of the channel
          accepted,     \* how many packets Lua has sent
          wire,         \* those the network has taken
          received,     \* the packets the server has sent
          events        \* the calls of the Lua function

vars == <<phase, accepted, wire, received, events>>

Working == phase \in {"opening", "open", "failed"}

\* Heartbeats and headers with a bad size are not for Lua.
ForLua(k) == k \in {"data", "empty"}

DataEvent(p) == [type |-> "data", head |-> p,
                 body |-> IF received[p] = "data" THEN p ELSE 0]

Delivered(p) == \E i \in DOMAIN events : events[i] = DataEvent(p)

TypeOK ==
    /\ phase \in {"idle", "opening", "open", "failed", "closed"}
    /\ accepted \in Nat
    /\ wire \in Seq(Nat)
    /\ received \in Seq(Kinds)

Init ==
    /\ phase = "idle"
    /\ accepted = 0
    /\ wire = <<>> /\ received = <<>>
    /\ events = <<>>

Open ==
    /\ phase = "idle"
    /\ phase' = "opening"
    /\ UNCHANGED <<accepted, wire, received, events>>

Opened ==
    /\ phase = "opening"
    /\ phase' = "open"
    /\ events' = <<[type |-> "connect", head |-> 0, body |-> 0]>>
    /\ UNCHANGED <<accepted, wire, received>>

Accept ==
    /\ Working
    /\ accepted' = accepted + 1
    /\ UNCHANGED <<phase, wire, received, events>>

Transmit ==
    /\ Working
    /\ Len(wire) < accepted
    /\ wire' = Append(wire, Len(wire) + 1)
    /\ UNCHANGED <<phase, accepted, received, events>>

Receive ==
    /\ phase \in {"open", "failed"}
    /\ \E k \in Kinds : received' = Append(received, k)
    /\ UNCHANGED <<phase, accepted, wire, events>>

\* The first packet for Lua that it has not had.
Deliver ==
    /\ phase = "open"
    /\ \E p \in DOMAIN received :
        /\ ForLua(received[p]) /\ ~Delivered(p)
        /\ \A q \in 1..(p - 1) : ForLua(received[q]) => Delivered(q)
        /\ events' = Append(events, DataEvent(p))
    /\ UNCHANGED <<phase, accepted, wire, received>>

Break ==
    /\ phase \in {"opening", "open"}
    /\ phase' = "failed"
    /\ events' = Append(events, [type |-> "error", head |-> 0, body |-> 0])
    /\ UNCHANGED <<accepted, wire, received>>

Close ==
    /\ phase # "closed"
    /\ phase' = "closed"
    /\ UNCHANGED <<accepted, wire, received, events>>

Next == \/ Open \/ Opened \/ Accept \/ Transmit
        \/ Receive \/ Deliver \/ Break \/ Close

Spec == Init /\ [][Next]_vars

=============================================================================
