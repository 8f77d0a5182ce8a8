----------------------- MODULE ClientSocketProperties -----------------------
(***************************************************************************)
(* What makes a CClientSocket correct, as seen by Lua, by the server and   *)
(* by asio, and the contract it implements (module SocketContract).        *)
(***************************************************************************)
EXTENDS ClientSocket

-----------------------------------------------------------------------------
(* Safety.  A socket object is meant for one connection; the properties that *)
(* need it say SingleUse, the others hold even when Lua reconnects.          *)

SingleUse == reopens = 0

IsRead(c) == c.op \in Reads
IsWrite(c) == c.op = "write"
Pending(P(_)) == \E i \in DOMAIN ready : P(ready[i])

\* Lua hears "connect" first, "error" last, and data only in between, however
\* completions, sends and closes interleave (OnSocket*Event, do_close).
EventOrder ==
    \A i \in DOMAIN events :
        /\ events[i].type = "connect" => i = 1
        /\ events[i].type = "data" => i > 1 /\ events[1].type = "connect"
        /\ events[i].type = "error" => i = Len(events)

\* After a close, whoever asked for it, handlers that were already queued and
\* handlers of aborted operations never reach Lua again (m_nHandle = 0).
SilentAfterClose == [][m_bClosed => events' = events]_vars

\* Lua gets the server's packets in order, none twice, none skipped except the
\* heartbeats unpack keeps, each with its own body: the one NetBuffer is never
\* refilled or cleared before OnSocketDataEvent has used it.
DeliveredInOrder ==
    LET data == {i \in DOMAIN events : events[i].type = "data"} IN
    /\ \A i \in data :
        /\ events[i].head \in DOMAIN received
        /\ Deliverable(received[events[i].head])
        /\ events[i].body = IF HasBody(received[events[i].head])
                            THEN events[i].head ELSE 0
    /\ \A i, j \in data : i < j => events[i].head < events[j].head
    /\ \A i \in data : \A p \in 1..events[i].head :
        Deliverable(received[p]) => \E j \in data : j <= i /\ events[j].head = p

\* A body read is outstanding exactly when a body is due, and no header read
\* is then: reads stay in step with the server's framing (do_read_*).
Framed ==
    SingleUse /\ readOps # <<>> => (Head(readOps) = "body" <=> BodyDue)

\* asio allows one composed read and one composed write at a time on a socket;
\* counting those whose handler is still to run, there is never a second
\* (do_read_*, write_in_progress in SendSocketData).
OneOpPerDirection ==
    SingleUse =>
        /\ Len(readOps) <= 1 /\ Len(writeOps) <= 1
        /\ Pending(IsRead) => readOps = <<>>
        /\ Pending(IsWrite) => writeOps = <<>>
        /\ \A i, j \in DOMAIN ready :
            \/ IsRead(ready[i]) /\ IsRead(ready[j])
            \/ IsWrite(ready[i]) /\ IsWrite(ready[j])
            => i = j

\* The network takes the packets in the order they were packed, the order the
\* key chain of EncryptBuffer needs, each once; and as long as the socket is
\* alive a packet that is not on the wire is still in m_pendingList.
WireInOrder ==
    SingleUse =>
        /\ wire = [i \in 1..Len(wire) |-> i]
        /\ m_bIsAlive => 1..packCount \subseteq ToSet(wire) \cup ToSet(m_pendingList)

\* A packet never waits in m_pendingList of a live socket without a write in
\* flight whose handler will send it, and the other way round, unless a
\* failed handler is about to close: no lost wake-up between SendSocketData
\* and the write handler.
WriterBusy ==
    SingleUse /\ m_bIsAlive =>
        /\ m_pendingList # <<>> =>
            writeOps # <<>> \/ Pending(IsWrite) \/ cont = "close"
        /\ writeOps # <<>> \/ Pending(IsWrite) => m_pendingList # <<>>

\* A live socket always has a connect or a read outstanding, or its completion
\* queued, or is about to start one: it can never go deaf while
\* IsAliveServer says true.
LiveSocketListens ==
    SingleUse /\ m_bIsAlive =>
        \/ sock = "connecting"
        \/ readOps # <<>>
        \/ Pending(LAMBDA c : ~IsWrite(c))
        \/ pc = "callback"

\* The object is freed only when closed and with none of its functions on the
\* stack, and the scheduler holds no pointer to it (Poll, ~CClientSocket).
FreedOnlyWhenIdle ==
    ~Exists => m_bClosed /\ ~scheduled /\ pc = "frame"

\* asio's contract for async_write (write.hpp:374-387): the buffers stay valid
\* until the handler is called, so the packet being written, or whose handler
\* is queued, is in m_pendingList.
WriteBuffersValid ==
    Exists =>
        /\ \A i \in DOMAIN writeOps : writeOps[i] \in ToSet(m_pendingList)
        /\ \A i \in DOMAIN ready :
            IsWrite(ready[i]) => ready[i].pkt \in ToSet(m_pendingList)

\* asio's contract for io_service::reset (io_service.hpp:69-70): it is not
\* called while a poll is unfinished; Connect calls it.
NoResetWhilePolling == [][Connect => pc = "frame"]_vars

-----------------------------------------------------------------------------
(* Liveness, under FairSpec.                                                 *)

\* A closed socket whose Poll is scheduled is freed, unless the undefined
\* pop_front ends the program first.
ClosedIsFreed == m_bClosed /\ scheduled ~> ~Exists \/ pc = "dead"

\* Every packet sendData accepted reaches the wire, or the socket closes.
SendsSettle ==
    \A p \in 1..MaxSend : packCount >= p ~> Len(wire) >= p \/ m_bClosed

\* A failed operation never leaves the socket open.
FailureCloses == Pending(LAMBDA c : c.res = "failed") ~> m_bClosed

-----------------------------------------------------------------------------
(* Refinement: a socket used for one connection is a SocketContract channel. *)

Phase ==
    IF m_bClosed THEN "closed"
    ELSE IF ~m_bIsAlive THEN "idle"
    ELSE IF events = <<>> THEN "opening"
    ELSE IF Last(events).type = "error" THEN "failed"
    ELSE "open"

Contract == INSTANCE SocketContract WITH phase <- Phase, accepted <- packCount

\* The socket, its queues and its handlers do nothing a channel would not do:
\* whatever the interleaving, Lua and the server see what the contract allows.
ImplementsContract == Contract!Spec

=============================================================================
