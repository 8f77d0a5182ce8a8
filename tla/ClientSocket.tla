---------------------------- MODULE ClientSocket ----------------------------
(***************************************************************************)
(* One CClientSocket object (Classes/plazz/ClientSocket.cpp and .h): its   *)
(* asio socket, the completion handlers queued in its io_service, the Lua  *)
(* code that calls it, and the cocos2d-x scheduler and autorelease pool    *)
(* that run and free it.                                                   *)
(*                                                                         *)
(* Everything the program does happens on the main thread.  Between two    *)
(* frames' work (pc = "frame") Lua timers and input handlers may call the  *)
(* object; once per frame the scheduler calls Poll, which runs the ready   *)
(* handlers one by one (pc = "poll"); a handler may call back into Lua     *)
(* (pc = "callback"), where the same API is available, and goes on with    *)
(* what cont names when Lua returns.  The operating system completes the   *)
(* outstanding operations at any moment.                                   *)
(***************************************************************************)
EXTENDS Integers, Sequences, SequencesExt

CONSTANTS Handler,     \* the Lua function reference given to createSocket
          Kinds,       \* the kinds of packet the server sends
          MaxSend,     \* bound: packets Lua hands to sendData
          MaxRecv,     \* bound: packets the server sends
          MaxReopen    \* bound: calls of connectSocket on a closed socket

PacketKinds == {"data", "empty", "beat", "short"}

ASSUME SocketAssumption ==
    /\ Handler \in Nat \ {0}
    /\ Kinds \subseteq PacketKinds
    /\ MaxSend \in Nat /\ MaxRecv \in Nat /\ MaxReopen \in Nat

VARIABLES
    m_nHandle,      \* the Lua function, 0 once closed
    m_bClosed,
    m_bIsAlive,
    m_pendingList,  \* packed packets not yet written, by pack number
    headBuf,        \* the packet whose header NetBuffer holds, 0 for none
    bodyBuf,        \* the packet whose body NetBuffer holds, 0 for none
    packCount       \* kernel.m_dwSendPacketCount

object == <<m_nHandle, m_bClosed, m_bIsAlive, m_pendingList>>
buffers == <<headBuf, bodyBuf>>

VARIABLES
    sock,           \* the descriptor behind m_socket
    readOps,        \* reads outstanding on it, oldest first
    writeOps,       \* writes outstanding on it, oldest first
    ready,          \* m_ios: completed operations whose handler has not run
    received,       \* history: the server's packets whose header was read
    wire            \* history: the packets the network has taken

asio == <<sock, readOps, writeOps, ready>>
network == <<received, wire>>

VARIABLES
    pc,             \* what the main thread is doing
    cont,           \* what the interrupted handler does when Lua returns
    events,         \* history: the calls of the Lua function
    refs,           \* the reference count of the object
    pooled,         \* the autorelease of createSocket is still to come
    scheduled,      \* Poll is registered with the scheduler
    reopens         \* history: connectSocket calls on the closed socket

thread == <<pc, cont, events>>
lifetime == <<refs, pooled, scheduled>>

vars == <<object, buffers, packCount, asio, network, thread, lifetime, reopens>>

-----------------------------------------------------------------------------
Exists == refs > 0
Packets == 1..MaxSend   \* a packet is known by the number pack gave it
Reads == {"header", "body"}
Ops == Reads \cup {"connect", "write"}
Completion == [op : Ops, res : {"done", "failed"}, pkt : Nat]
Event == [type : {"connect", "data", "error"}, head : Nat, body : Nat]

Completed(op, res, pkt) == [op |-> op, res |-> res, pkt |-> pkt]

\* wPacketSize > sizeof(CMD_Head): a body follows the header.
HasBody(k) == k = "data"
\* unpack keeps the (0,1) heartbeat to itself; a size below 8 is no packet.
Deliverable(k) == k \in {"data", "empty"}

ObjectType ==
    /\ m_nHandle \in {0, Handler}
    /\ m_bClosed \in BOOLEAN
    /\ m_bIsAlive \in BOOLEAN
    /\ m_pendingList \in Seq(Packets)

BuffersType == headBuf \in 0..MaxRecv /\ bodyBuf \in 0..MaxRecv

AsioType ==
    /\ sock \in {"closed", "connecting", "connected"}
    /\ readOps \in Seq(Reads)
    /\ writeOps \in Seq(Packets)
    /\ ready \in Seq(Completion)

NetworkType ==
    /\ received \in Seq(Kinds)
    /\ Len(received) <= MaxRecv
    /\ wire \in Seq(Packets)

ThreadType ==
    /\ pc \in {"frame", "poll", "callback", "dead"}
    /\ cont \in {"none", "read_header", "close"}
    /\ events \in Seq(Event)

LifetimeType ==
    /\ refs \in 0..2
    /\ pooled \in BOOLEAN
    /\ scheduled \in BOOLEAN

TypeOK ==
    /\ ObjectType /\ BuffersType /\ packCount \in 0..MaxSend
    /\ AsioType /\ NetworkType /\ ThreadType /\ LifetimeType
    /\ reopens \in 0..MaxReopen

\* createSocket has returned: new, autorelease and retain.
Init ==
    /\ m_nHandle = Handler
    /\ m_bClosed = FALSE
    /\ m_bIsAlive = FALSE
    /\ m_pendingList = <<>>
    /\ headBuf = 0 /\ bodyBuf = 0
    /\ packCount = 0
    /\ sock = "closed"
    /\ readOps = <<>> /\ writeOps = <<>> /\ ready = <<>>
    /\ received = <<>> /\ wire = <<>>
    /\ pc = "frame" /\ cont = "none"
    /\ events = <<>>
    /\ refs = 2 /\ pooled = TRUE
    /\ scheduled = FALSE
    /\ reopens = 0

-----------------------------------------------------------------------------
(* Starting operations.  q is the handler queue as the step found it.  An    *)
(* operation on a closed descriptor fails at once: its handler is posted,    *)
(* never called from within the call that starts it.                         *)

StartRead(op, q) ==
    \/ /\ sock = "closed"
       /\ ready' = Append(q, Completed(op, "failed", 0))
       /\ UNCHANGED readOps
    \/ /\ sock # "closed"
       /\ readOps' = Append(readOps, op)
       /\ ready' = q

do_read_header(q) ==
    /\ headBuf' = 0
    /\ StartRead("header", q)
    /\ UNCHANGED <<bodyBuf, sock, writeOps>>

do_read_body(q) ==
    /\ StartRead("body", q)
    /\ UNCHANGED <<buffers, sock, writeOps>>

\* list is m_pendingList as the caller leaves it; its front is written.
do_write(list, q) ==
    \/ /\ ~m_bIsAlive
       /\ ready' = q
       /\ UNCHANGED writeOps
    \/ /\ m_bIsAlive /\ sock = "closed"
       /\ ready' = Append(q, Completed("write", "failed", Head(list)))
       /\ UNCHANGED writeOps
    \/ /\ m_bIsAlive /\ sock # "closed"
       /\ writeOps' = Append(writeOps, Head(list))
       /\ ready' = q

\* m_socket.close() ends every outstanding operation with operation_aborted.
Aborted ==
    LET reads == [i \in 1..Len(readOps) |-> Completed(readOps[i], "failed", 0)]
        connect == IF sock = "connecting"
                   THEN <<Completed("connect", "failed", 0)>> ELSE <<>>
        writes == [i \in 1..Len(writeOps) |-> Completed("write", "failed", writeOps[i])]
    IN  reads \o connect \o writes

CloseSocket(q) ==
    /\ sock' = "closed"
    /\ readOps' = <<>>
    /\ writeOps' = <<>>
    /\ ready' = q \o Aborted

\* Variant: m_nHandle is not reset.
do_close_KeepsHandle(q) ==
    \/ /\ m_bClosed
       /\ ready' = q
       /\ UNCHANGED <<object, sock, readOps, writeOps>>
    \/ /\ ~m_bClosed
       /\ m_bClosed' = TRUE
       /\ m_bIsAlive' = FALSE
       /\ m_pendingList' = <<>>
       /\ UNCHANGED m_nHandle
       /\ CloseSocket(q)

do_close(q) ==
    \/ /\ m_bClosed
       /\ ready' = q
       /\ UNCHANGED <<object, sock, readOps, writeOps>>
    \/ /\ ~m_bClosed
       /\ m_bClosed' = TRUE
       /\ m_bIsAlive' = FALSE
       /\ m_pendingList' = <<>>
       /\ m_nHandle' = 0
       /\ CloseSocket(q)

-----------------------------------------------------------------------------
(* The Lua API, callable between frames' work and inside a callback.  Once   *)
(* the object is freed its userdata is NULL and the bindings do nothing.     *)

InLua == Exists /\ pc \in {"frame", "callback"}

Connect ==
    /\ InLua
    /\ ~m_bIsAlive
    /\ \/ ~m_bClosed /\ UNCHANGED reopens
       \/ m_bClosed /\ reopens < MaxReopen /\ reopens' = reopens + 1
    /\ scheduled' = TRUE
    /\ \/ /\ sock' = "connecting"              \* the address resolves
          /\ m_bIsAlive' = TRUE
          /\ UNCHANGED <<m_nHandle, m_bClosed, m_pendingList, readOps, writeOps, ready>>
       \/ /\ ~m_bClosed                        \* it does not: do_close
          /\ do_close(ready)
       \/ /\ m_bClosed                         \* ... which returns early
          /\ m_bIsAlive' = TRUE
          /\ UNCHANGED <<m_nHandle, m_bClosed, m_pendingList, asio>>
    /\ UNCHANGED <<buffers, packCount, network, thread, refs, pooled>>

\* Variant: write_in_progress is not looked at.
SendSocketData_AlwaysWrites ==
    /\ InLua /\ m_bIsAlive /\ packCount < MaxSend
    /\ packCount' = packCount + 1
    /\ m_pendingList' = Append(m_pendingList, packCount + 1)
    /\ do_write(<<packCount + 1>>, ready)
    /\ UNCHANGED <<m_nHandle, m_bClosed, m_bIsAlive, buffers, sock, readOps,
                   network, thread, lifetime, reopens>>

\* Variant: a packet packed while another is being written is not queued.
SendSocketData_DropsWhenBusy ==
    /\ InLua /\ m_bIsAlive /\ packCount < MaxSend
    /\ packCount' = packCount + 1
    /\ \/ /\ m_pendingList = <<>>
          /\ m_pendingList' = <<packCount + 1>>
          /\ do_write(<<packCount + 1>>, ready)
       \/ /\ m_pendingList # <<>>
          /\ UNCHANGED <<m_pendingList, writeOps, ready>>
    /\ UNCHANGED <<m_nHandle, m_bClosed, m_bIsAlive, buffers, sock, readOps,
                   network, thread, lifetime, reopens>>

SendSocketData ==
    /\ InLua
    /\ m_bIsAlive
    /\ packCount < MaxSend
    /\ packCount' = packCount + 1              \* kernel.pack
    /\ m_pendingList' = Append(m_pendingList, packCount + 1)
    /\ \/ /\ m_pendingList = <<>>
          /\ do_write(<<packCount + 1>>, ready)
       \/ /\ m_pendingList # <<>>              \* write_in_progress
          /\ UNCHANGED <<writeOps, ready>>
    /\ UNCHANGED <<m_nHandle, m_bClosed, m_bIsAlive, buffers, sock, readOps,
                   network, thread, lifetime, reopens>>

\* Variant: relaseSocket also releases the reference that Lua holds.
StopServer_Releases ==
    /\ InLua
    /\ do_close(ready)
    /\ refs' = refs - 1
    /\ UNCHANGED <<buffers, packCount, network, thread, pooled, scheduled,
                   reopens>>

\* closeSocket and relaseSocket are both StopServer.
StopServer ==
    /\ InLua
    /\ do_close(ready)
    /\ UNCHANGED <<buffers, packCount, network, thread, lifetime, reopens>>

-----------------------------------------------------------------------------
(* The completion handlers, run by m_ios.poll() in the order in which the    *)
(* operations completed.                                                     *)

Handling(op, res) ==
    /\ pc = "poll"
    /\ ready # <<>>
    /\ Head(ready).op = op
    /\ Head(ready).res = res

\* The kernel calls the Lua function, if there still is one; then go on.
CallLua(event, continuation) ==
    /\ m_nHandle # 0
    /\ events' = Append(events, event)
    /\ pc' = "callback"
    /\ cont' = continuation
    /\ ready' = Tail(ready)
    /\ UNCHANGED <<object, buffers, sock, readOps, writeOps>>

\* Variant: the handler goes on reading after an error.
Fail_ReadsOn ==
    \/ CallLua([type |-> "error", head |-> 0, body |-> 0], "read_header")
    \/ /\ m_nHandle = 0
       /\ do_read_header(Tail(ready))
       /\ UNCHANGED <<object, thread>>

\* OnSocketErrorEvent, then do_close.
Fail ==
    \/ CallLua([type |-> "error", head |-> 0, body |-> 0], "close")
    \/ /\ m_nHandle = 0
       /\ do_close(Tail(ready))
       /\ UNCHANGED <<buffers, thread>>

ReadOn ==
    /\ do_read_header(Tail(ready))
    /\ UNCHANGED <<object, thread>>

ConnectHandler ==
    /\ \/ /\ Handling("connect", "done")         \* do_connect
          /\ \/ CallLua([type |-> "connect", head |-> 0, body |-> 0], "read_header")
             \/ m_nHandle = 0 /\ ReadOn
       \/ Handling("connect", "failed") /\ Fail
    /\ UNCHANGED <<packCount, network, lifetime, reopens>>

\* A header buffer ResetHead has zeroed reads as a packet of size 0.
HeadKind == IF headBuf = 0 THEN "short" ELSE received[headBuf]

\* Variant: do_read_header comes first and clears the header buffer.
Dispatch_ReadsFirst(body) ==
    \/ /\ Deliverable(HeadKind) /\ m_nHandle # 0
       /\ do_read_header(Tail(ready))
       /\ events' = Append(events, [type |-> "data", head |-> 0, body |-> body])
       /\ UNCHANGED <<object, pc, cont>>
    \/ /\ ~Deliverable(HeadKind) \/ m_nHandle = 0
       /\ ReadOn

\* Variant: unpack hands the heartbeat to Lua as well.
Dispatch_Heartbeat(body) ==
    \/ CallLua([type |-> "data", head |-> headBuf, body |-> body], "read_header")
    \/ m_nHandle = 0 /\ ReadOn

\* OnSocketDataEvent, then do_read_header.
Dispatch(body) ==
    \/ /\ Deliverable(HeadKind)
       /\ CallLua([type |-> "data", head |-> headBuf, body |-> body], "read_header")
    \/ /\ ~Deliverable(HeadKind) \/ m_nHandle = 0
       /\ ReadOn

\* Variant: m_bodyLength >= 0 instead of > 0.
HeaderHandler_AlwaysBody ==
    /\ \/ /\ Handling("header", "done")
          /\ \/ HeadKind = "short" /\ ReadOn
             \/ /\ HeadKind # "short"
                /\ do_read_body(Tail(ready))
                /\ UNCHANGED <<object, thread>>
       \/ Handling("header", "failed") /\ Fail
    /\ UNCHANGED <<packCount, network, lifetime, reopens>>

\* Variant: a header with a bad size is dropped without reading on.
HeaderHandler_StopsAtShort ==
    /\ \/ /\ Handling("header", "done")
          /\ \/ /\ HeadKind = "short"
                /\ ready' = Tail(ready)
                /\ UNCHANGED <<object, buffers, sock, readOps, writeOps, thread>>
             \/ /\ HasBody(HeadKind)
                /\ do_read_body(Tail(ready))
                /\ UNCHANGED <<object, thread>>
             \/ HeadKind # "short" /\ ~HasBody(HeadKind) /\ Dispatch(0)
       \/ Handling("header", "failed") /\ Fail
    /\ UNCHANGED <<packCount, network, lifetime, reopens>>

HeaderHandler ==
    /\ \/ /\ Handling("header", "done")
          /\ \/ HeadKind = "short" /\ ReadOn
             \/ /\ HasBody(HeadKind)
                /\ do_read_body(Tail(ready))
                /\ UNCHANGED <<object, thread>>
             \/ HeadKind # "short" /\ ~HasBody(HeadKind) /\ Dispatch(0)
       \/ Handling("header", "failed") /\ Fail
    /\ UNCHANGED <<packCount, network, lifetime, reopens>>

\* m_bodyLength is not 0 here: the header that set it asked for this body.
\* A body whose header buffer has been zeroed meanwhile (two reads outstanding
\* after a reconnect) makes the unpacking loop of OnSocketDataEvent consume
\* nothing: it may never end.
BodyHandler ==
    /\ \/ Handling("body", "done") /\ Dispatch(bodyBuf)
       \/ /\ Handling("body", "done") /\ headBuf = 0
          /\ pc' = "dead"
          /\ ready' = Tail(ready)
          /\ UNCHANGED <<object, buffers, sock, readOps, writeOps, cont, events>>
       \/ Handling("body", "failed") /\ Fail
    /\ UNCHANGED <<packCount, network, lifetime, reopens>>

\* Variant: the next packet is not written when one is done.
PopWritten_NoRestart ==
    /\ m_pendingList' = IF m_pendingList = <<>> THEN <<>> ELSE Tail(m_pendingList)
    /\ ready' = Tail(ready)
    /\ UNCHANGED <<pc, writeOps>>

\* pop_front of an empty deque is undefined: it may go unnoticed, as the
\* list of a closed socket is not looked at again, or end the program.
PopWritten ==
    \/ /\ m_pendingList # <<>>
       /\ m_pendingList' = Tail(m_pendingList)
       /\ \/ /\ Tail(m_pendingList) # <<>>
             /\ do_write(Tail(m_pendingList), Tail(ready))
          \/ /\ Tail(m_pendingList) = <<>>
             /\ ready' = Tail(ready)
             /\ UNCHANGED writeOps
       /\ UNCHANGED pc
    \/ /\ m_pendingList = <<>>
       /\ ready' = Tail(ready)
       /\ pc' \in {"poll", "dead"}
       /\ UNCHANGED <<m_pendingList, writeOps>>

WriteHandler ==
    /\ \/ /\ Handling("write", "done")
          /\ PopWritten
          /\ UNCHANGED <<m_nHandle, m_bClosed, m_bIsAlive, buffers, sock,
                         readOps, cont, events>>
       \/ Handling("write", "failed") /\ Fail
    /\ UNCHANGED <<packCount, network, lifetime, reopens>>

\* The Lua function returns into the handler that called it.
Return ==
    /\ pc = "callback"
    /\ pc' = "poll"
    /\ cont' = "none"
    /\ \/ cont = "read_header" /\ do_read_header(ready) /\ UNCHANGED object
       \/ cont = "close" /\ do_close(ready) /\ UNCHANGED buffers
    /\ UNCHANGED <<packCount, network, events, lifetime, reopens>>

-----------------------------------------------------------------------------
(* The scheduler and the autorelease pool.  The pool is drained at the end   *)
(* of every frame, and a timer's first update only starts its clock, so the  *)
(* pool has been drained when Poll is first called.                          *)

\* Variant: no return after the release.
PollStart_NoReturn ==
    /\ Exists /\ pc = "frame" /\ scheduled /\ ~pooled
    /\ \/ /\ m_bClosed
          /\ refs' = refs - 1
          /\ scheduled' = (refs # 1)
          /\ m_nHandle' = 0
       \/ /\ ~m_bClosed
          /\ UNCHANGED <<refs, scheduled, m_nHandle>>
    /\ pc' = "poll"
    /\ UNCHANGED <<m_bClosed, m_bIsAlive, m_pendingList, buffers, packCount,
                   asio, network, cont, events, pooled, reopens>>

\* Variant: a closed socket is no longer polled, but not released either.
PollStart_NoRelease ==
    /\ Exists /\ pc = "frame" /\ scheduled /\ ~pooled
    /\ ~m_bClosed
    /\ pc' = "poll"
    /\ UNCHANGED <<object, buffers, packCount, asio, network, cont, events,
                   lifetime, reopens>>

PollStart ==
    /\ Exists /\ pc = "frame" /\ scheduled /\ ~pooled
    /\ \/ /\ m_bClosed                         \* CC_SAFE_RELEASE(this)
          /\ refs' = refs - 1
          \* The last release deletes it; the destructor unschedules Poll.
          /\ scheduled' = (refs # 1)
          /\ m_nHandle' = 0
          /\ UNCHANGED pc
       \/ /\ ~m_bClosed
          /\ pc' = "poll"
          /\ UNCHANGED <<refs, scheduled, m_nHandle>>
    /\ UNCHANGED <<m_bClosed, m_bIsAlive, m_pendingList, buffers, packCount,
                   asio, network, cont, events, pooled, reopens>>

PollEnd ==
    /\ pc = "poll" /\ ready = <<>>
    /\ pc' = "frame"
    /\ UNCHANGED <<object, buffers, packCount, asio, network, cont, events,
                   lifetime, reopens>>

DrainPool ==
    /\ pc = "frame" /\ pooled
    /\ pooled' = FALSE
    /\ refs' = refs - 1
    /\ UNCHANGED <<object, buffers, packCount, asio, network, thread,
                   scheduled, reopens>>

RunHandler == ConnectHandler \/ HeaderHandler \/ BodyHandler \/ WriteHandler

-----------------------------------------------------------------------------
(* The operating system and the server.  An operation may fail at any time;  *)
(* it succeeds only on a connected descriptor.                               *)

Live == Exists /\ pc # "dead"

Post(op, res, pkt) == ready' = Append(ready, Completed(op, res, pkt))

OthersIdle == UNCHANGED <<object, packCount, thread, lifetime, reopens>>

CompleteConnect ==
    /\ Live /\ sock = "connecting"
    /\ \/ sock' = "connected" /\ Post("connect", "done", 0)
       \/ sock' = "closed" /\ Post("connect", "failed", 0)
    /\ UNCHANGED <<readOps, writeOps, buffers, network>>
    /\ OthersIdle

\* The body of the last packet whose header was read is still to be read.
BodyDue ==
    /\ received # <<>>
    /\ HasBody(Last(received))
    /\ bodyBuf # Len(received)

CompleteHeader ==
    /\ Live /\ sock = "connected"
    /\ readOps # <<>> /\ Head(readOps) = "header"
    /\ ~BodyDue
    /\ Len(received) < MaxRecv
    /\ \E k \in Kinds : received' = Append(received, k)
    /\ headBuf' = Len(received) + 1
    /\ Post("header", "done", 0)
    /\ readOps' = Tail(readOps)
    /\ UNCHANGED <<sock, writeOps, bodyBuf, wire>>
    /\ OthersIdle

CompleteBody ==
    /\ Live /\ sock = "connected"
    /\ readOps # <<>> /\ Head(readOps) = "body"
    /\ BodyDue
    /\ bodyBuf' = Len(received)
    /\ Post("body", "done", 0)
    /\ readOps' = Tail(readOps)
    /\ UNCHANGED <<sock, writeOps, headBuf, network>>
    /\ OthersIdle

FailRead ==
    /\ Live /\ readOps # <<>>
    /\ Post(Head(readOps), "failed", 0)
    /\ readOps' = Tail(readOps)
    /\ UNCHANGED <<sock, writeOps, buffers, network>>
    /\ OthersIdle

CompleteWrite ==
    /\ Live /\ sock = "connected" /\ writeOps # <<>>
    /\ wire' = Append(wire, Head(writeOps))
    /\ Post("write", "done", Head(writeOps))
    /\ writeOps' = Tail(writeOps)
    /\ UNCHANGED <<sock, readOps, buffers, received>>
    /\ OthersIdle

FailWrite ==
    /\ Live /\ writeOps # <<>>
    /\ Post("write", "failed", Head(writeOps))
    /\ writeOps' = Tail(writeOps)
    /\ UNCHANGED <<sock, readOps, buffers, network>>
    /\ OthersIdle

Network == \/ CompleteConnect
           \/ CompleteHeader \/ CompleteBody \/ FailRead
           \/ CompleteWrite \/ FailWrite

-----------------------------------------------------------------------------
Lua == Connect \/ SendSocketData \/ StopServer

MainThread == RunHandler \/ Return \/ PollStart \/ PollEnd \/ DrainPool

Next == Lua \/ MainThread \/ Network

Spec == Init /\ [][Next]_vars

\* The frame loop goes on, Lua functions return, and the operating system
\* ends every connection attempt and every write, one way or the other.  Reads
\* may wait for ever, and Lua need not call anything.
Fairness ==
    /\ WF_vars(RunHandler) /\ WF_vars(Return)
    /\ WF_vars(PollStart) /\ WF_vars(PollEnd) /\ WF_vars(DrainPool)
    /\ WF_vars(CompleteConnect)
    /\ WF_vars(CompleteWrite \/ FailWrite)

FairSpec == Spec /\ Fairness

=============================================================================
