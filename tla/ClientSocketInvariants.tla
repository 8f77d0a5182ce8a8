------------------------ MODULE ClientSocketInvariants ------------------------
(***************************************************************************)
(* Why a CClientSocket is correct: the inductive invariants behind the     *)
(* properties of ClientSocketProperties.  Each part says what is in flight *)
(* (outstanding in asio, queued for a handler, or about to be started when *)
(* Lua returns) and how that fits the object, its buffers and what the     *)
(* two parties have seen.  Nothing here is part of the model.              *)
(***************************************************************************)
EXTENDS ClientSocketProperties

-----------------------------------------------------------------------------
(* Queues of completions *)

Queued(q, S) == \E i \in DOMAIN q : q[i] \in S
AtMostOne(q, S) == \A i, j \in DOMAIN q : q[i] \in S /\ q[j] \in S => i = j

Writes == {c \in Completion : c.op = "write"}
Listens == {c \in Completion : c.op # "write"}
Connects == {c \in Completion : c.op = "connect"}
Sent == {c \in Writes : c.res = "done"}
HeadersDone == {c \in Listens : c.op = "header" /\ c.res = "done"}
BodiesDone == {c \in Listens : c.op = "body" /\ c.res = "done"}

-----------------------------------------------------------------------------
(* The life of the object.  It is Open between connectSocket and the close;  *)
(* a closed object that is not reconnected stays at rest.                    *)

Open == m_bIsAlive /\ ~m_bClosed

AtRest ==
    /\ sock = "closed" /\ readOps = <<>> /\ writeOps = <<>>
    /\ m_pendingList = <<>>

Unused ==
    /\ packCount = 0 /\ ready = <<>> /\ events = <<>>
    /\ received = <<>> /\ wire = <<>> /\ headBuf = 0 /\ bodyBuf = 0
    /\ cont = "none"

ObjectLife ==
    /\ ~m_bClosed => m_nHandle # 0 /\ reopens = 0
    /\ SingleUse /\ m_bClosed => ~m_bIsAlive
    /\ SingleUse /\ ~m_bIsAlive => AtRest
    /\ ~m_bClosed /\ ~m_bIsAlive => Unused

LifeInv == ObjectLife /\ (pc = "callback" => cont # "none")

-----------------------------------------------------------------------------
(* Writes.  At most one is in flight; it carries the front of m_pendingList, *)
(* and the list holds exactly the packets that are packed and not yet known  *)
(* to be written.                                                            *)

OneWrite ==
    /\ Len(writeOps) <= 1
    /\ AtMostOne(ready, Writes)
    /\ writeOps # <<>> => ~Queued(ready, Writes)

FrontInFlight ==
    /\ writeOps # <<>> => m_pendingList # <<>> /\ Head(writeOps) = Head(m_pendingList)
    /\ Queued(ready, Writes) => m_pendingList # <<>>
    /\ m_pendingList # <<>> =>
        writeOps # <<>> \/ Queued(ready, Writes) \/ cont = "close"

Written == packCount - Len(m_pendingList)

Backlog ==
    /\ Len(m_pendingList) <= packCount
    /\ \A i \in DOMAIN m_pendingList : m_pendingList[i] = Written + i
    /\ Len(wire) = IF Queued(ready, Sent) THEN Written + 1 ELSE Written

WireOrdered == \A i \in DOMAIN wire : wire[i] = i

WriteInv ==
    /\ SingleUse => OneWrite /\ WireOrdered
    /\ Open => FrontInFlight /\ Backlog

-----------------------------------------------------------------------------
(* Reads.  From the connect on exactly one thing is in flight that ends in   *)
(* the next read, and it tells what the NetBuffer holds and what is due.     *)

OneListen ==
    /\ Len(readOps) <= 1
    /\ AtMostOne(ready, Listens)
    /\ Queued(ready, Listens) => readOps = <<>>
    /\ sock = "connecting" => readOps = <<>> /\ ~Queued(ready, Listens)
    /\ cont = "read_header" =>
        readOps = <<>> /\ ~Queued(ready, Listens) /\ sock # "connecting"

Listening ==
    \/ sock = "connecting" \/ readOps # <<>> \/ Queued(ready, Listens)
    \/ cont # "none"

HeaderHeld == received # <<>> /\ headBuf = Len(received)

Framing ==
    /\ bodyBuf <= Len(received)
    /\ sock = "connecting" \/ Queued(ready, Connects) => received = <<>>
    /\ cont = "read_header" => ~BodyDue
    /\ readOps # <<>> => (Head(readOps) = "body" <=> BodyDue)
    /\ readOps # <<>> /\ BodyDue => HeaderHeld
    /\ Queued(ready, HeadersDone) => HeaderHeld /\ bodyBuf # Len(received)
    /\ Queued(ready, BodiesDone) =>
        HeaderHeld /\ bodyBuf = Len(received) /\ HasBody(Last(received))

ReadInv ==
    /\ SingleUse => OneListen
    /\ Open => Listening /\ Framing

-----------------------------------------------------------------------------
(* Deliveries.  Every packet before the last one the server sent is dealt    *)
(* with; the last one is too, unless its handlers are still to run.          *)

IsData(i) == events[i].type = "data"
Given(p) == \E i \in DOMAIN events : IsData(i) /\ events[i].head = p
DealtWith(n) == \A p \in 1..n : Deliverable(received[p]) => Given(p)

InProgress ==
    \/ Queued(ready, HeadersDone) \/ Queued(ready, BodiesDone)
    \/ readOps # <<>> /\ BodyDue

Deliveries ==
    /\ DealtWith(Len(received) - 1)
    /\ cont = "read_header" \/ (readOps # <<>> /\ ~BodyDue) => DealtWith(Len(received))
    /\ InProgress => ~Given(Len(received))

DeliveryInv == DeliveredInOrder /\ (Open => Deliveries)

-----------------------------------------------------------------------------
(* What Lua has heard.  While the object has its Lua function and is not     *)
(* about to close, what is queued or outstanding tells how much Lua has      *)
(* heard.  A close ends this for good: nothing sets m_nHandle again.         *)

\* A closed object has no Lua function; only a callback has a continuation.
Quiet ==
    /\ m_bClosed => m_nHandle = 0
    /\ pc # "callback" => cont = "none"

QueuedConnect(q) == \E i \in DOMAIN q : q[i].op = "connect"
QueuedRead(q) == \E i \in DOMAIN q : q[i].op \in Reads
OneConnect(q) ==
    \A i, j \in DOMAIN q : q[i].op = "connect" /\ q[j].op = "connect" => i = j

NoError == \A i \in DOMAIN events : events[i].type # "error"
Connected == events # <<>> /\ events[1].type = "connect"
Untouched ==
    /\ sock = "closed" /\ readOps = <<>> /\ writeOps = <<>> /\ ready = <<>>
    /\ events = <<>>

Heard ==
    /\ NoError
    /\ m_bIsAlive \/ Untouched
    /\ sock = "connecting" => ~QueuedConnect(ready)
    /\ sock = "connecting" \/ QueuedConnect(ready) => events = <<>>
    /\ OneConnect(ready)
    /\ readOps # <<>> \/ QueuedRead(ready) \/ cont = "read_header" => Connected

Hearing == m_nHandle # 0 /\ cont # "close"

EventInv == EventOrder /\ Quiet /\ (Hearing => Heard)

\* The callback after which the handler closes is the one that reported an error.
SaidError == events # <<>> /\ Last(events).type = "error"
ErrorInv == ~m_bClosed /\ cont = "close" => SaidError

-----------------------------------------------------------------------------
(* All of it, as TLC can check it beside the properties.                     *)

SocketInv ==
    LifeInv /\ WriteInv /\ ReadInv /\ DeliveryInv /\ EventInv /\ ErrorInv

=============================================================================
