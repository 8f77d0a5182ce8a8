------------------------- MODULE ClientSocketProofs -------------------------
(***************************************************************************)
(* Proofs about ClientSocket, for every handler, every set of packet kinds *)
(* and every bound.                                                        *)
(***************************************************************************)
EXTENDS ClientSocketInvariants, SequenceTheorems, TLAPS

-----------------------------------------------------------------------------
(* Typing: first the pieces the actions are made of. *)

LEMMA FunctionIsSeq ==
  ASSUME NEW n \in Nat, NEW S, NEW f \in [1..n -> S]
  PROVE  f \in Seq(S)
OBVIOUS

LEMMA PacketsAreNat == Packets \subseteq Nat
BY SocketAssumption DEF Packets

LEMMA AbortedReadsType ==
  ASSUME NEW r \in Seq(Reads)
  PROVE  [i \in 1..Len(r) |-> Completed(r[i], "failed", 0)] \in Seq(Completion)
<1> DEFINE f == [i \in 1..Len(r) |-> Completed(r[i], "failed", 0)]
<1>1. f \in [1..Len(r) -> Completion]
  BY DEF Completed, Completion, Ops, Reads
<1>2. Len(r) \in Nat
  OBVIOUS
<1> HIDE DEF f
<1>3. f \in Seq(Completion)
  BY <1>1, <1>2, FunctionIsSeq
<1>4. QED
  BY <1>3 DEF f

LEMMA AbortedWritesType ==
  ASSUME NEW w \in Seq(Packets)
  PROVE  [i \in 1..Len(w) |-> Completed("write", "failed", w[i])] \in Seq(Completion)
<1> DEFINE f == [i \in 1..Len(w) |-> Completed("write", "failed", w[i])]
<1>1. f \in [1..Len(w) -> Completion]
  <2>1. w \in Seq(Nat)
    BY PacketsAreNat, SeqMonotonic
  <2>2. QED
    BY <2>1 DEF Completed, Completion, Ops, Reads
<1>2. Len(w) \in Nat
  OBVIOUS
<1> HIDE DEF f
<1>3. f \in Seq(Completion)
  BY <1>1, <1>2, FunctionIsSeq
<1>4. QED
  BY <1>3 DEF f

LEMMA AbortedConnectType ==
  (IF sock = "connecting" THEN <<Completed("connect", "failed", 0)>> ELSE <<>>)
    \in Seq(Completion)
<1>1. Completed("connect", "failed", 0) \in Completion
  BY DEF Completed, Completion, Ops, Reads
<1>2. CASE sock = "connecting"
  BY <1>1, <1>2
<1>3. CASE sock # "connecting"
  BY <1>3
<1>4. QED
  BY <1>2, <1>3

\* The handlers queued for the operations a close aborts are completions.
LEMMA AbortedType ==
  ASSUME AsioType
  PROVE  Aborted \in Seq(Completion)
<1>1. readOps \in Seq(Reads) /\ writeOps \in Seq(Packets)
  BY DEF AsioType
<1>2. QED
  BY <1>1, AbortedReadsType, AbortedWritesType, AbortedConnectType DEF Aborted

LEMMA CloseType ==
  ASSUME ObjectType, AsioType, NEW q \in Seq(Completion), do_close(q)
  PROVE  ObjectType' /\ AsioType'
<1>1. q \o Aborted \in Seq(Completion)
  BY AbortedType
<1>2. <<>> \in Seq(Packets) /\ <<>> \in Seq(Reads)
  OBVIOUS
<1>3. QED
  BY <1>1, <1>2 DEF ObjectType, AsioType, do_close, CloseSocket, object

LEMMA StartReadType ==
  ASSUME AsioType, NEW q \in Seq(Completion), NEW op \in Reads,
         StartRead(op, q)
  PROVE  readOps' \in Seq(Reads) /\ ready' \in Seq(Completion)
<1>1. Completed(op, "failed", 0) \in Completion
  BY DEF Completed, Completion, Ops, Reads
<1>2. Append(q, Completed(op, "failed", 0)) \in Seq(Completion)
  BY <1>1
<1>3. Append(readOps, op) \in Seq(Reads)
  BY DEF AsioType
<1>4. QED
  BY <1>2, <1>3 DEF StartRead, AsioType

LEMMA ReadHeaderType ==
  ASSUME BuffersType, AsioType, NEW q \in Seq(Completion), do_read_header(q)
  PROVE  BuffersType' /\ AsioType'
<1>1. "header" \in Reads
  BY DEF Reads
<1>2. readOps' \in Seq(Reads) /\ ready' \in Seq(Completion)
  BY <1>1, StartReadType DEF do_read_header
<1>3. BuffersType'
  BY SocketAssumption DEF do_read_header, BuffersType
<1>4. AsioType'
  BY <1>2 DEF do_read_header, AsioType
<1>5. QED
  BY <1>3, <1>4

LEMMA ReadBodyType ==
  ASSUME BuffersType, AsioType, NEW q \in Seq(Completion), do_read_body(q)
  PROVE  BuffersType' /\ AsioType'
<1>1. "body" \in Reads
  BY DEF Reads
<1>2. readOps' \in Seq(Reads) /\ ready' \in Seq(Completion)
  BY <1>1, StartReadType DEF do_read_body
<1>3. BuffersType'
  BY DEF do_read_body, BuffersType, buffers
<1>4. AsioType'
  BY <1>2 DEF do_read_body, AsioType
<1>5. QED
  BY <1>3, <1>4

LEMMA WriteType ==
  ASSUME AsioType, NEW q \in Seq(Completion), NEW list \in Seq(Packets),
         list # <<>>, do_write(list, q)
  PROVE  writeOps' \in Seq(Packets) /\ ready' \in Seq(Completion)
<1>1. Head(list) \in Packets
  OBVIOUS
<1>2. Completed("write", "failed", Head(list)) \in Completion
  BY <1>1, PacketsAreNat DEF Completed, Completion, Ops, Reads
<1>3. Append(q, Completed("write", "failed", Head(list))) \in Seq(Completion)
  BY <1>2
<1>4. Append(writeOps, Head(list)) \in Seq(Packets)
  BY <1>1 DEF AsioType
<1>5. QED
  BY <1>3, <1>4 DEF do_write, AsioType

LEMMA EventType ==
  ASSUME NEW t \in {"connect", "data", "error"}, NEW h \in Nat, NEW b \in Nat
  PROVE  [type |-> t, head |-> h, body |-> b] \in Event
BY DEF Event

LEMMA TailType ==
  ASSUME AsioType, ready # <<>>
  PROVE  Tail(ready) \in Seq(Completion)
BY DEF AsioType

LEMMA CallLuaType ==
  ASSUME ObjectType, BuffersType, AsioType, ThreadType, ready # <<>>,
         NEW e \in Event, NEW c \in {"read_header", "close"}, CallLua(e, c)
  PROVE  ObjectType' /\ BuffersType' /\ AsioType' /\ ThreadType'
<1>1. Append(events, e) \in Seq(Event)
  BY DEF ThreadType
<1>2. ThreadType'
  BY <1>1 DEF CallLua, ThreadType
<1>3. AsioType'
  BY TailType DEF CallLua, AsioType
<1>4. ObjectType' /\ BuffersType'
  BY DEF CallLua, ObjectType, BuffersType, object, buffers
<1>5. QED
  BY <1>2, <1>3, <1>4

LEMMA FailType ==
  ASSUME ObjectType, BuffersType, AsioType, ThreadType, ready # <<>>, Fail
  PROVE  ObjectType' /\ BuffersType' /\ AsioType' /\ ThreadType'
<1>1. CASE CallLua([type |-> "error", head |-> 0, body |-> 0], "close")
  BY <1>1, CallLuaType, EventType
<1>2. CASE do_close(Tail(ready)) /\ UNCHANGED <<buffers, thread>>
  <2>1. ObjectType' /\ AsioType'
    BY <1>2, TailType, CloseType
  <2>2. QED
    BY <1>2, <2>1 DEF BuffersType, ThreadType, buffers, thread
<1>3. QED
  BY <1>1, <1>2 DEF Fail

LEMMA ReadOnType ==
  ASSUME ObjectType, BuffersType, AsioType, ThreadType, ready # <<>>, ReadOn
  PROVE  ObjectType' /\ BuffersType' /\ AsioType' /\ ThreadType'
<1>1. BuffersType' /\ AsioType'
  BY TailType, ReadHeaderType DEF ReadOn
<1>2. QED
  BY <1>1 DEF ReadOn, ObjectType, ThreadType, object, thread

LEMMA DispatchType ==
  ASSUME ObjectType, BuffersType, AsioType, ThreadType, ready # <<>>,
         NEW b \in Nat, Dispatch(b)
  PROVE  ObjectType' /\ BuffersType' /\ AsioType' /\ ThreadType'
<1>1. CASE CallLua([type |-> "data", head |-> headBuf, body |-> b], "read_header")
  <2>1. headBuf \in Nat
    BY SocketAssumption DEF BuffersType
  <2>2. QED
    BY <1>1, <2>1, CallLuaType, EventType
<1>2. CASE ReadOn
  BY <1>2, ReadOnType
<1>3. QED
  BY <1>1, <1>2 DEF Dispatch

-----------------------------------------------------------------------------
(* Typing of the actions *)

\* The types of what a handler and the code it runs can change.
HandlerTypes == ObjectType /\ BuffersType /\ AsioType /\ ThreadType

LEMMA ConnectHandlerType == HandlerTypes /\ ConnectHandler => HandlerTypes'
<1> SUFFICES ASSUME HandlerTypes, ConnectHandler PROVE HandlerTypes'
  OBVIOUS
<1> USE DEF HandlerTypes
<1>1. ready # <<>>
  BY DEF ConnectHandler, Handling
<1>2. CASE CallLua([type |-> "connect", head |-> 0, body |-> 0], "read_header")
  BY <1>1, <1>2, CallLuaType, EventType
<1>3. CASE ReadOn
  BY <1>1, <1>3, ReadOnType
<1>4. CASE Fail
  BY <1>1, <1>4, FailType
<1>5. QED
  BY <1>2, <1>3, <1>4 DEF ConnectHandler

LEMMA HeaderHandlerType == HandlerTypes /\ HeaderHandler => HandlerTypes'
<1> SUFFICES ASSUME HandlerTypes, HeaderHandler PROVE HandlerTypes'
  OBVIOUS
<1> USE DEF HandlerTypes
<1>1. ready # <<>>
  BY DEF HeaderHandler, Handling
<1>2. CASE ReadOn
  BY <1>1, <1>2, ReadOnType
<1>3. CASE do_read_body(Tail(ready)) /\ UNCHANGED <<object, thread>>
  <2>1. BuffersType' /\ AsioType'
    BY <1>1, <1>3, TailType, ReadBodyType
  <2>2. QED
    BY <1>3, <2>1 DEF ObjectType, ThreadType, object, thread
<1>4. CASE Dispatch(0)
  BY <1>1, <1>4, DispatchType
<1>5. CASE Fail
  BY <1>1, <1>5, FailType
<1>6. QED
  BY <1>2, <1>3, <1>4, <1>5 DEF HeaderHandler

LEMMA BodyHandlerType == HandlerTypes /\ BodyHandler => HandlerTypes'
<1> SUFFICES ASSUME HandlerTypes, BodyHandler PROVE HandlerTypes'
  OBVIOUS
<1> USE DEF HandlerTypes
<1>1. ready # <<>>
  BY DEF BodyHandler, Handling
<1>2. CASE Dispatch(bodyBuf)
  <2>1. bodyBuf \in Nat
    BY SocketAssumption DEF BuffersType
  <2>2. QED
    BY <1>1, <1>2, <2>1, DispatchType
<1>3. CASE /\ pc' = "dead" /\ ready' = Tail(ready)
           /\ UNCHANGED <<object, buffers, sock, readOps, writeOps, cont, events>>
  <2>1. AsioType'
    BY <1>1, <1>3, TailType DEF AsioType
  <2>2. QED
    BY <1>3, <2>1 DEF ObjectType, BuffersType, ThreadType, object, buffers
<1>4. CASE Fail
  BY <1>1, <1>4, FailType
<1>5. QED
  BY <1>2, <1>3, <1>4 DEF BodyHandler

LEMMA WriteHandlerType == HandlerTypes /\ WriteHandler => HandlerTypes'
<1> SUFFICES ASSUME HandlerTypes, WriteHandler PROVE HandlerTypes'
  OBVIOUS
<1> USE DEF HandlerTypes
<1>1. ready # <<>>
  BY DEF WriteHandler, Handling
<1>2. CASE /\ PopWritten
           /\ UNCHANGED <<m_nHandle, m_bClosed, m_bIsAlive, buffers, sock,
                          readOps, cont, events>>
  <2>1. /\ m_pendingList' \in Seq(Packets) /\ writeOps' \in Seq(Packets)
        /\ ready' \in Seq(Completion) /\ pc' \in {pc, "poll", "dead"}
    <3>1. CASE m_pendingList # <<>>
      <4>1. Tail(m_pendingList) \in Seq(Packets)
        BY <3>1 DEF ObjectType
      <4>2. m_pendingList' = Tail(m_pendingList) /\ pc' = pc
        BY <1>2, <3>1 DEF PopWritten
      <4>3. CASE /\ Tail(m_pendingList) # <<>>
                 /\ do_write(Tail(m_pendingList), Tail(ready))
        <5>1. writeOps' \in Seq(Packets) /\ ready' \in Seq(Completion)
          BY <1>1, <4>1, <4>3, TailType, WriteType
        <5>2. QED
          BY <4>1, <4>2, <5>1
      <4>4. CASE ready' = Tail(ready) /\ UNCHANGED writeOps
        BY <1>1, <4>1, <4>2, <4>4, TailType DEF AsioType
      <4>5. QED
        BY <1>2, <3>1, <4>3, <4>4 DEF PopWritten
    <3>2. CASE m_pendingList = <<>>
      BY <1>1, <1>2, <3>2, TailType DEF PopWritten, ObjectType, AsioType
    <3>3. QED
      BY <3>1, <3>2
  <2>2. QED
    BY <1>2, <2>1 DEF ObjectType, BuffersType, AsioType, ThreadType, buffers
<1>3. CASE Fail
  BY <1>1, <1>3, FailType
<1>4. QED
  BY <1>2, <1>3 DEF WriteHandler

LEMMA ReturnType == HandlerTypes /\ Return => HandlerTypes'
<1> SUFFICES ASSUME HandlerTypes, Return PROVE HandlerTypes'
  OBVIOUS
<1> USE DEF HandlerTypes
<1>1. ready \in Seq(Completion)
  BY DEF AsioType
<1>2. ThreadType'
  BY DEF Return, ThreadType
<1>3. CASE do_read_header(ready) /\ UNCHANGED object
  <2>1. BuffersType' /\ AsioType'
    BY <1>1, <1>3, ReadHeaderType
  <2>2. QED
    BY <1>2, <1>3, <2>1 DEF ObjectType, object
<1>4. CASE do_close(ready) /\ UNCHANGED buffers
  <2>1. ObjectType' /\ AsioType'
    BY <1>1, <1>4, CloseType
  <2>2. QED
    BY <1>2, <1>4, <2>1 DEF BuffersType, buffers
<1>5. QED
  BY <1>3, <1>4 DEF Return

LEMMA ConnectType == TypeOK /\ Connect => TypeOK'
<1> SUFFICES ASSUME TypeOK, Connect PROVE TypeOK'
  OBVIOUS
<1> USE DEF TypeOK
<1>1. reopens' \in 0..MaxReopen
  BY SocketAssumption DEF Connect
<1>2. BuffersType' /\ NetworkType' /\ ThreadType' /\ packCount' = packCount
  BY DEF Connect, BuffersType, NetworkType, ThreadType, buffers, network, thread
<1>3. LifetimeType'
  BY DEF Connect, LifetimeType
<1>4. ObjectType' /\ AsioType'
  <2>1. CASE do_close(ready)
    BY <2>1, CloseType DEF AsioType
  <2>2. CASE /\ sock' = "connecting" /\ m_bIsAlive' = TRUE
             /\ UNCHANGED <<m_nHandle, m_bClosed, m_pendingList, readOps, writeOps, ready>>
    BY <2>2 DEF ObjectType, AsioType
  <2>3. CASE m_bIsAlive' = TRUE /\ UNCHANGED <<m_nHandle, m_bClosed, m_pendingList, asio>>
    BY <2>3 DEF ObjectType, AsioType, asio
  <2>4. QED
    BY <2>1, <2>2, <2>3 DEF Connect
<1>5. QED
  BY <1>1, <1>2, <1>3, <1>4

LEMMA SendSocketDataType == TypeOK /\ SendSocketData => TypeOK'
<1> SUFFICES ASSUME TypeOK, SendSocketData PROVE TypeOK'
  OBVIOUS
<1> USE DEF TypeOK
<1>1. packCount' \in 0..MaxSend /\ packCount + 1 \in Packets
  BY SocketAssumption DEF SendSocketData, Packets
<1>2. Append(m_pendingList, packCount + 1) \in Seq(Packets)
  BY <1>1 DEF ObjectType
<1>3. ObjectType'
  BY <1>2 DEF SendSocketData, ObjectType
<1>4. writeOps' \in Seq(Packets) /\ ready' \in Seq(Completion)
  <2>1. <<packCount + 1>> \in Seq(Packets) /\ <<packCount + 1>> # <<>>
    BY <1>1
  <2>2. ready \in Seq(Completion)
    BY DEF AsioType
  <2>3. CASE do_write(<<packCount + 1>>, ready)
    BY <2>1, <2>2, <2>3, WriteType
  <2>4. CASE UNCHANGED <<writeOps, ready>>
    BY <2>4 DEF AsioType
  <2>5. QED
    BY <2>3, <2>4 DEF SendSocketData
<1>5. AsioType'
  BY <1>4 DEF SendSocketData, AsioType
<1>6. BuffersType' /\ NetworkType' /\ ThreadType' /\ LifetimeType' /\ reopens' = reopens
  BY DEF SendSocketData, BuffersType, NetworkType, ThreadType, LifetimeType,
     buffers, network, thread, lifetime
<1>7. QED
  BY <1>1, <1>3, <1>5, <1>6

LEMMA StopServerType == TypeOK /\ StopServer => TypeOK'
<1> SUFFICES ASSUME TypeOK, StopServer PROVE TypeOK'
  OBVIOUS
<1> USE DEF TypeOK
<1>1. ObjectType' /\ AsioType'
  BY CloseType DEF StopServer, AsioType
<1>2. QED
  BY <1>1 DEF StopServer, BuffersType, NetworkType, ThreadType, LifetimeType,
     buffers, network, thread, lifetime

\* The reference the autorelease pool will drop is still counted; without it
\* the count would not be known to stay in 0..2.
PoolCounted == pooled => refs = 2

LEMMA PollStartType == TypeOK /\ PollStart => TypeOK'
<1> SUFFICES ASSUME TypeOK, PollStart PROVE TypeOK'
  OBVIOUS
<1> USE DEF TypeOK
<1>1. ObjectType'
  BY DEF PollStart, ObjectType
<1>2. BuffersType' /\ AsioType' /\ NetworkType' /\ packCount' = packCount /\ reopens' = reopens
  BY DEF PollStart, BuffersType, AsioType, NetworkType, buffers, asio, network
<1>3. ThreadType'
  BY DEF PollStart, ThreadType
<1>4. refs' \in 0..2 /\ pooled' = pooled
  <2>1. refs > 0 /\ refs' \in {refs - 1, refs} /\ pooled' = pooled
    BY Zenon DEF PollStart, Exists
  <2>2. QED
    BY <2>1 DEF LifetimeType
<1>5. scheduled' \in BOOLEAN
  BY DEF PollStart, LifetimeType
<1>6. QED
  BY <1>1, <1>2, <1>3, <1>4, <1>5 DEF LifetimeType

LEMMA FrameType == TypeOK /\ PoolCounted /\ (PollEnd \/ DrainPool) => TypeOK'
<1> SUFFICES ASSUME TypeOK, PoolCounted, PollEnd \/ DrainPool PROVE TypeOK'
  OBVIOUS
<1> USE DEF TypeOK
<1>1. /\ ObjectType' /\ BuffersType' /\ AsioType' /\ NetworkType'
      /\ packCount' = packCount /\ reopens' = reopens
  BY DEF PollEnd, DrainPool, ObjectType, BuffersType, AsioType, NetworkType,
     object, buffers, asio, network
<1>2. ThreadType'
  BY DEF PollEnd, DrainPool, ThreadType, thread
<1>3. LifetimeType'
  <2>1. CASE PollEnd
    BY <2>1 DEF PollEnd, LifetimeType, lifetime
  <2>2. CASE DrainPool
    <3>1. refs = 2
      BY <2>2, Zenon DEF DrainPool, PoolCounted
    <3>2. refs' \in 0..2
      BY <2>2, <3>1 DEF DrainPool
    <3>3. QED
      BY <2>2, <3>2 DEF DrainPool, LifetimeType
  <2>3. QED
    BY <2>1, <2>2
<1>4. QED
  BY <1>1, <1>2, <1>3

LEMMA NetworkActionsType == TypeOK /\ Network => TypeOK'
<1> SUFFICES ASSUME TypeOK, Network PROVE TypeOK'
  OBVIOUS
<1> USE DEF TypeOK
<1>1. /\ ObjectType' /\ ThreadType' /\ LifetimeType'
      /\ packCount' = packCount /\ reopens' = reopens
  BY DEF Network, CompleteConnect, CompleteHeader, CompleteBody, FailRead,
     CompleteWrite, FailWrite, OthersIdle, ObjectType, ThreadType, LifetimeType,
     object, thread, lifetime
<1>2. ASSUME NEW op \in Ops, NEW res \in {"done", "failed"}, NEW pkt \in Nat,
             Post(op, res, pkt)
      PROVE  ready' \in Seq(Completion)
  <2>1. Completed(op, res, pkt) \in Completion
    BY DEF Completed, Completion
  <2>2. QED
    BY <1>2, <2>1 DEF Post, AsioType
<1>3. "connect" \in Ops /\ "write" \in Ops /\ Reads \subseteq Ops /\ 0 \in Nat
  BY DEF Ops
<1>4. CASE CompleteConnect
  <2>1. ready' \in Seq(Completion)
    BY <1>2, <1>3, <1>4 DEF CompleteConnect
  <2>2. QED
    BY <1>1, <1>4, <2>1 DEF CompleteConnect, AsioType, BuffersType, NetworkType, buffers, network
<1>5. CASE CompleteHeader
  <2>1. "header" \in Ops
    BY DEF Ops, Reads
  <2>2. ready' \in Seq(Completion)
    BY <1>2, <1>5, <2>1 DEF CompleteHeader
  <2>3. readOps' \in Seq(Reads)
    BY <1>5 DEF CompleteHeader, AsioType
  <2>4. PICK k \in Kinds : received' = Append(received, k)
    BY <1>5 DEF CompleteHeader
  <2>5. received' \in Seq(Kinds) /\ Len(received') <= MaxRecv /\ headBuf' \in 0..MaxRecv
    BY <1>5, <2>4, SocketAssumption DEF CompleteHeader, NetworkType
  <2>6. QED
    BY <1>1, <1>5, <2>2, <2>3, <2>5 DEF CompleteHeader, AsioType, BuffersType, NetworkType
<1>6. CASE CompleteBody
  <2>1. "body" \in Ops
    BY DEF Ops, Reads
  <2>2. ready' \in Seq(Completion)
    BY <1>2, <1>6, <2>1 DEF CompleteBody
  <2>3. readOps' \in Seq(Reads)
    BY <1>6 DEF CompleteBody, AsioType
  <2>4. bodyBuf' \in 0..MaxRecv
    BY <1>6, SocketAssumption DEF CompleteBody, NetworkType
  <2>5. QED
    BY <1>1, <1>6, <2>2, <2>3, <2>4 DEF CompleteBody, AsioType, BuffersType, NetworkType, network
<1>7. CASE FailRead
  <2>1. Head(readOps) \in Reads /\ Tail(readOps) \in Seq(Reads)
    BY <1>7 DEF FailRead, AsioType
  <2>2. ready' \in Seq(Completion)
    BY <1>2, <1>3, <1>7, <2>1 DEF FailRead
  <2>3. QED
    BY <1>1, <1>7, <2>1, <2>2 DEF FailRead, AsioType, BuffersType, NetworkType, buffers, network
<1>8. CASE CompleteWrite
  <2>1. Head(writeOps) \in Packets /\ Tail(writeOps) \in Seq(Packets)
    BY <1>8 DEF CompleteWrite, AsioType
  <2>2. ready' \in Seq(Completion)
    BY <1>2, <1>3, <1>8, <2>1, PacketsAreNat DEF CompleteWrite
  <2>3. Append(wire, Head(writeOps)) \in Seq(Packets)
    BY <2>1 DEF NetworkType
  <2>4. QED
    BY <1>1, <1>8, <2>1, <2>2, <2>3 DEF CompleteWrite, AsioType, BuffersType, NetworkType, buffers
<1>9. CASE FailWrite
  <2>1. Head(writeOps) \in Packets /\ Tail(writeOps) \in Seq(Packets)
    BY <1>9 DEF FailWrite, AsioType
  <2>2. ready' \in Seq(Completion)
    BY <1>2, <1>3, <1>9, <2>1, PacketsAreNat DEF FailWrite
  <2>3. QED
    BY <1>1, <1>9, <2>1, <2>2 DEF FailWrite, AsioType, BuffersType, NetworkType, buffers, network
<1>10. QED
  BY <1>4, <1>5, <1>6, <1>7, <1>8, <1>9 DEF Network

-----------------------------------------------------------------------------
(* The type invariant *)

LEMMA InitType == Init => TypeOK /\ PoolCounted
<1> SUFFICES ASSUME Init PROVE TypeOK /\ PoolCounted
  OBVIOUS
<1>1. \A S : <<>> \in Seq(S)
  OBVIOUS
<1>2. ObjectType /\ AsioType
  <2>1. ObjectType
    BY <1>1, Zenon DEF Init, ObjectType
  <2>2. AsioType
    BY <1>1, Zenon DEF Init, AsioType
  <2>3. QED
    BY <2>1, <2>2
<1>3. BuffersType /\ packCount \in 0..MaxSend /\ reopens \in 0..MaxReopen
  BY SocketAssumption DEF Init, BuffersType
<1>4. NetworkType
  BY <1>1, SocketAssumption DEF Init, NetworkType
<1>5. ThreadType
  BY <1>1 DEF Init, ThreadType
<1>6. LifetimeType /\ PoolCounted
  <2>1. 2 \in 0..2
    OBVIOUS
  <2>2. QED
    BY <2>1, Zenon DEF Init, LifetimeType, PoolCounted
<1>7. QED
  BY <1>2, <1>3, <1>4, <1>5, <1>6 DEF TypeOK

LEMMA NextType == TypeOK /\ PoolCounted /\ [Next]_vars => TypeOK'
<1> SUFFICES ASSUME TypeOK, PoolCounted, [Next]_vars PROVE TypeOK'
  OBVIOUS
<1>1. CASE RunHandler
  <2>1. HandlerTypes'
    BY <1>1, ConnectHandlerType, HeaderHandlerType, BodyHandlerType, WriteHandlerType
    DEF RunHandler, HandlerTypes, TypeOK
  <2>2. UNCHANGED <<packCount, network, lifetime, reopens>>
    BY <1>1 DEF RunHandler, ConnectHandler, HeaderHandler, BodyHandler, WriteHandler
  <2>3. QED
    BY <2>1, <2>2 DEF HandlerTypes, TypeOK, NetworkType, LifetimeType, network, lifetime
<1>2. CASE Return
  <2>1. HandlerTypes'
    BY <1>2, ReturnType DEF HandlerTypes, TypeOK
  <2>2. QED
    BY <1>2, <2>1 DEF Return, HandlerTypes, TypeOK, NetworkType, LifetimeType, network, lifetime
<1>3. CASE UNCHANGED vars
  BY <1>3 DEF vars, TypeOK, ObjectType, BuffersType, AsioType, NetworkType, ThreadType,
     LifetimeType, object, buffers, asio, network, thread, lifetime
<1>4. QED
  BY <1>1, <1>2, <1>3, ConnectType, SendSocketDataType, StopServerType, PollStartType,
     FrameType, NetworkActionsType
  DEF Next, Lua, MainThread

LEMMA NextPoolCounted == PoolCounted /\ [Next]_vars => PoolCounted'
<1> SUFFICES ASSUME PoolCounted, [Next]_vars PROVE PoolCounted'
  OBVIOUS
<1>1. CASE Connect
  BY <1>1 DEF Connect, PoolCounted
<1>2. CASE PollStart
  BY <1>2 DEF PollStart, PoolCounted
<1>3. CASE DrainPool
  BY <1>3 DEF DrainPool, PoolCounted
<1>4. CASE UNCHANGED lifetime
  BY <1>4 DEF PoolCounted, lifetime
<1>5. QED
  BY <1>1, <1>2, <1>3, <1>4
  DEF Next, Lua, MainThread, Network, RunHandler, SendSocketData, StopServer, Return,
      ConnectHandler, HeaderHandler, BodyHandler, WriteHandler, PollEnd, vars,
      CompleteConnect, CompleteHeader, CompleteBody, FailRead, CompleteWrite,
      FailWrite, OthersIdle

\* Every variable keeps its type: in particular the reference count stays
\* between 0 and 2 and no packet or completion of an unknown kind appears.
THEOREM TypeCorrect == Spec => []TypeOK
<1>1. TypeOK /\ PoolCounted /\ [Next]_vars => (TypeOK /\ PoolCounted)'
  BY NextType, NextPoolCounted
<1>2. QED
  BY InitType, <1>1, PTL DEF Spec

-----------------------------------------------------------------------------
(* Lifetime *)

LEMMA NextFreed ==
  TypeOK /\ PoolCounted /\ FreedOnlyWhenIdle /\ [Next]_vars => FreedOnlyWhenIdle'
<1> SUFFICES ASSUME TypeOK, PoolCounted, FreedOnlyWhenIdle, [Next]_vars
             PROVE  FreedOnlyWhenIdle'
  OBVIOUS
<1>1. CASE ~Exists
  <2>1. pc = "frame" /\ ~pooled
    BY <1>1 DEF FreedOnlyWhenIdle, PoolCounted, Exists
  <2>2. UNCHANGED vars
    BY <1>1, <2>1
    DEF Next, Lua, MainThread, Network, RunHandler, InLua, Handling, Live, Connect,
        SendSocketData, StopServer, ConnectHandler, HeaderHandler, BodyHandler,
        WriteHandler, Return, PollStart, PollEnd, DrainPool, CompleteConnect,
        CompleteHeader, CompleteBody, FailRead, CompleteWrite, FailWrite
  <2>3. QED
    BY <2>2 DEF FreedOnlyWhenIdle, Exists, vars, object, lifetime, thread
<1>2. CASE Exists
  <2>1. CASE PollStart
    <3>1. CASE m_bClosed /\ refs' = refs - 1
      <4>1. m_bClosed' /\ pc' = "frame" /\ scheduled' = (refs # 1)
        BY <2>1, <3>1, Zenon DEF PollStart
      <4>2. refs \in 0..2
        BY DEF TypeOK, LifetimeType
      <4>3. ~Exists' => refs = 1
        BY <1>2, <3>1, <4>2 DEF Exists
      <4>4. QED
        BY <4>1, <4>3, Zenon DEF FreedOnlyWhenIdle
    <3>2. CASE refs' = refs
      BY <1>2, <3>2 DEF FreedOnlyWhenIdle, Exists
    <3>3. QED
      BY <2>1, <3>1, <3>2 DEF PollStart
  <2>2. CASE DrainPool
    BY <2>2 DEF DrainPool, PoolCounted, FreedOnlyWhenIdle, Exists
  <2>3. CASE refs' = refs
    BY <1>2, <2>3 DEF FreedOnlyWhenIdle, Exists
  <2>4. QED
    BY <2>1, <2>2, <2>3
    DEF Next, Lua, MainThread, Network, RunHandler, Connect, SendSocketData, StopServer,
        Return, ConnectHandler, HeaderHandler, BodyHandler, WriteHandler, PollEnd, vars,
        CompleteConnect, CompleteHeader, CompleteBody, FailRead, CompleteWrite,
        FailWrite, OthersIdle, lifetime
<1>3. QED
  BY <1>1, <1>2

\* The object is deleted only once it is closed, between two calls of its
\* functions, and with no Poll left in the scheduler.
THEOREM FreedIdle == Spec => []FreedOnlyWhenIdle
<1>1. Init => FreedOnlyWhenIdle
  BY DEF Init, FreedOnlyWhenIdle, Exists
<1>2. /\ TypeOK /\ PoolCounted /\ FreedOnlyWhenIdle /\ [Next]_vars
      => (TypeOK /\ PoolCounted /\ FreedOnlyWhenIdle)'
  BY NextType, NextPoolCounted, NextFreed
<1>3. QED
  BY InitType, <1>1, <1>2, PTL DEF Spec

-----------------------------------------------------------------------------
(* What Lua hears: nothing after a close, "connect" first, "error" last.    *)
(* First the queue of completions. *)

LEMMA TailOfQueue ==
  ASSUME NEW q \in Seq(Completion), q # <<>>
  PROVE  /\ QueuedConnect(Tail(q)) => QueuedConnect(q)
         /\ QueuedRead(Tail(q)) => QueuedRead(q)
         /\ OneConnect(q) => OneConnect(Tail(q))
         /\ Head(q).op = "connect" => QueuedConnect(q)
         /\ Head(q).op \in Reads => QueuedRead(q)
         /\ OneConnect(q) /\ Head(q).op = "connect" => ~QueuedConnect(Tail(q))
<1>1. /\ \A i \in DOMAIN Tail(q) : i + 1 \in DOMAIN q /\ Tail(q)[i] = q[i + 1]
      /\ \A i \in DOMAIN Tail(q) : i \in Nat /\ i # 0
      /\ 1 \in DOMAIN q /\ Head(q) = q[1]
  OBVIOUS
<1>2. QueuedConnect(Tail(q)) => QueuedConnect(q)
  BY <1>1 DEF QueuedConnect
<1>3. QueuedRead(Tail(q)) => QueuedRead(q)
  BY <1>1 DEF QueuedRead
<1>4. OneConnect(q) => OneConnect(Tail(q))
  BY <1>1 DEF OneConnect
<1>5. OneConnect(q) /\ Head(q).op = "connect" => ~QueuedConnect(Tail(q))
  BY <1>1 DEF OneConnect, QueuedConnect
<1>6. QED
  BY <1>1, <1>2, <1>3, <1>4, <1>5 DEF QueuedConnect, QueuedRead

LEMMA AppendToQueue ==
  ASSUME NEW q \in Seq(Completion), NEW c
  PROVE  /\ QueuedConnect(Append(q, c)) => QueuedConnect(q) \/ c.op = "connect"
         /\ QueuedRead(Append(q, c)) => QueuedRead(q) \/ c.op \in Reads
         /\ OneConnect(q) /\ (c.op # "connect" \/ ~QueuedConnect(q))
              => OneConnect(Append(q, c))
<1>1. \A i \in DOMAIN Append(q, c) :
         \/ i \in DOMAIN q /\ Append(q, c)[i] = q[i]
         \/ i = Len(q) + 1 /\ Append(q, c)[i] = c
  OBVIOUS
<1>2. QueuedConnect(Append(q, c)) => QueuedConnect(q) \/ c.op = "connect"
  BY <1>1 DEF QueuedConnect
<1>3. QueuedRead(Append(q, c)) => QueuedRead(q) \/ c.op \in Reads
  BY <1>1 DEF QueuedRead
<1>4. OneConnect(q) /\ (c.op # "connect" \/ ~QueuedConnect(q))
        => OneConnect(Append(q, c))
  BY <1>1 DEF OneConnect, QueuedConnect
<1>5. QED
  BY <1>2, <1>3, <1>4

LEMMA QueueOps ==
  ASSUME NEW op \in Ops, NEW res, NEW pkt
  PROVE  /\ Completed(op, res, pkt).op = op
         /\ op \in Reads => op # "connect"
BY DEF Completed, Reads

\* A call of Lua keeps the order of events if its type fits what was heard.
LEMMA AppendEvent ==
  ASSUME events \in Seq(Event), EventOrder, NoError, NEW e \in Event,
         e.type = "connect" => events = <<>>,
         e.type = "data" => Connected,
         events' = Append(events, e)
  PROVE  EventOrder'
<1>1. \A i \in DOMAIN events' :
         \/ i \in DOMAIN events /\ events'[i] = events[i]
         \/ i = Len(events) + 1 /\ events'[i] = e
  OBVIOUS
<1>2. Len(events') = Len(events) + 1 /\ Len(events) \in Nat
  OBVIOUS
<1>3. events = <<>> => Len(events) = 0
  OBVIOUS
<1>4. events # <<>> => Len(events) > 0 /\ events'[1] = events[1]
  OBVIOUS
<1>5. SUFFICES ASSUME NEW i \in DOMAIN events'
               PROVE  /\ events'[i].type = "connect" => i = 1
                      /\ events'[i].type = "data" => i > 1 /\ events'[1].type = "connect"
                      /\ events'[i].type = "error" => i = Len(events')
  BY DEF EventOrder
<1>6. CASE i \in DOMAIN events /\ events'[i] = events[i]
  BY <1>4, <1>6 DEF EventOrder, NoError
<1>7. CASE i = Len(events) + 1 /\ events'[i] = e
  BY <1>2, <1>3, <1>4, <1>7 DEF Connected
<1>8. QED
  BY <1>1, <1>6, <1>7

-----------------------------------------------------------------------------
(* The pieces of the actions and the events *)

LEMMA SameEvents ==
  ASSUME EventOrder, events' = events
  PROVE  EventOrder'
BY DEF EventOrder

\* A close ends Hearing, whatever the rest of the step does.
LEMMA CloseSilences ==
  ASSUME Quiet, NEW q, do_close(q)
  PROVE  m_nHandle' = 0
BY DEF Quiet, do_close, object

\* Without its Lua function the object cannot disturb the invariant.
LEMMA DeafStep ==
  ASSUME EventInv, m_nHandle' = 0, events' = events,
         pc' # "callback" => cont' = "none"
  PROVE  EventInv'
<1>1. EventOrder'
  BY SameEvents DEF EventInv
<1>2. Quiet' /\ ~Hearing'
  BY DEF Quiet, Hearing
<1>3. QED
  BY <1>1, <1>2 DEF EventInv

\* Steps that only take completions from the queue, or add writes to it.
LEMMA QueueStep ==
  ASSUME EventInv,
         UNCHANGED <<m_nHandle, m_bClosed, m_bIsAlive, sock, readOps, cont, events>>,
         m_bIsAlive \/ UNCHANGED <<ready, writeOps>>,
         QueuedConnect(ready') => QueuedConnect(ready),
         QueuedRead(ready') => QueuedRead(ready),
         OneConnect(ready) => OneConnect(ready'),
         pc' = pc \/ cont = "none"
  PROVE  EventInv'
<1>1. EventOrder' /\ Quiet'
  BY SameEvents, Zenon DEF EventInv, Quiet
<1>2. Hearing' => Hearing
  BY Zenon DEF Hearing
<1>3. Heard => Heard'
  BY Zenon DEF Heard, NoError, Untouched, Connected
<1>4. QED
  BY <1>1, <1>2, <1>3 DEF EventInv

\* Starting a read, in a handler or after a callback, once Lua is connected.
LEMMA ReadStep ==
  ASSUME AsioType, EventInv, NEW q \in Seq(Completion),
         QueuedConnect(q) => QueuedConnect(ready),
         OneConnect(ready) => OneConnect(q),
         NEW op \in Reads, StartRead(op, q),
         UNCHANGED <<m_nHandle, m_bClosed, m_bIsAlive, sock, events>>,
         cont' = "none",
         m_nHandle # 0 => Hearing /\ Connected
  PROVE  EventInv'
<1>1. EventOrder' /\ Quiet'
  BY SameEvents, Zenon DEF EventInv, Quiet
<1>2. SUFFICES ASSUME Hearing' PROVE Heard'
  BY <1>1 DEF EventInv
<1>3. Heard /\ Connected
  BY <1>2, Zenon DEF Hearing, EventInv
<1>4. sock # "connecting" /\ ~QueuedConnect(ready) /\ OneConnect(ready) /\ m_bIsAlive
  BY <1>3, Zenon DEF Heard, Connected, Untouched
<1>5. op \in Ops /\ op # "connect"
  BY DEF Ops, Reads
<1>6. ~QueuedConnect(ready') /\ OneConnect(ready')
  <2>1. CASE ready' = q
    BY <1>4, <2>1
  <2>2. CASE ready' = Append(q, Completed(op, "failed", 0))
    BY <1>4, <1>5, <2>2, AppendToQueue, QueueOps
  <2>3. QED
    BY <2>1, <2>2 DEF StartRead
<1>7. NoError' /\ Connected'
  BY <1>3, Zenon DEF Heard, NoError, Connected
<1>8. QED
  BY <1>4, <1>6, <1>7, Zenon DEF Heard

\* A handler calls Lua.
LEMMA CallStep ==
  ASSUME AsioType, ThreadType, EventInv, pc = "poll", ready # <<>>,
         NEW e \in Event, NEW c \in {"read_header", "close"}, CallLua(e, c),
         e.type = "connect" => Head(ready).op = "connect",
         e.type = "data" => Head(ready).op \in Reads,
         e.type = "error" => c = "close"
  PROVE  EventInv'
<1>1. Hearing /\ Heard
  <2>1. m_nHandle # 0
    BY DEF CallLua
  <2>2. cont = "none"
    BY DEF EventInv, Quiet
  <2>3. QED
    BY <2>1, <2>2 DEF Hearing, EventInv
<1>2. ready \in Seq(Completion)
  BY DEF AsioType
<1>3. /\ e.type = "connect" => events = <<>>
      /\ e.type = "data" => Connected
  BY <1>1, <1>2, TailOfQueue, Zenon DEF Heard
<1>4. events' = Append(events, e) /\ events \in Seq(Event)
  BY DEF CallLua, ThreadType
<1>5. EventOrder'
  BY <1>1, <1>3, <1>4, AppendEvent DEF EventInv, Heard
<1>6. Quiet'
  BY Zenon DEF CallLua, EventInv, Quiet, object
<1>7. ASSUME Hearing' PROVE Heard'
  <2>1. e.type # "error" /\ e.type \in {"connect", "data"}
    <3>1. c # "close"
      BY <1>7 DEF Hearing, CallLua
    <3>2. QED
      BY <3>1 DEF Event
  <2>2. NoError'
    BY <1>1, <1>4, <2>1 DEF Heard, NoError
  <2>3. m_bIsAlive'
    BY <1>1, Zenon DEF Heard, Untouched, CallLua, object
  <2>4. sock # "connecting" /\ ~QueuedConnect(Tail(ready))
    <3>1. CASE e.type = "connect"
      BY <1>1, <1>2, <3>1, TailOfQueue, Zenon DEF Heard
    <3>2. CASE e.type = "data"
      BY <1>1, <1>2, <1>3, <3>2, TailOfQueue, Zenon DEF Heard, Connected
    <3>3. QED
      BY <2>1, <3>1, <3>2
  <2>5. OneConnect(Tail(ready))
    BY <1>1, <1>2, TailOfQueue, Zenon DEF Heard
  <2>6. Connected'
    <3>1. CASE e.type = "connect"
      BY <1>3, <1>4, <3>1 DEF Connected
    <3>2. CASE e.type = "data"
      BY <1>3, <1>4, <3>2 DEF Connected
    <3>3. QED
      BY <2>1, <3>1, <3>2
  <2>7. sock' = sock /\ ready' = Tail(ready)
    BY DEF CallLua
  <2>8. QED
    BY <2>2, <2>3, <2>4, <2>5, <2>6, <2>7, Zenon DEF Heard
<1>8. QED
  BY <1>5, <1>6, <1>7 DEF EventInv

-----------------------------------------------------------------------------
(* The actions and the events *)

ErrorEvent == [type |-> "error", head |-> 0, body |-> 0]

LEMMA FailStep ==
  ASSUME AsioType, ThreadType, EventInv, pc = "poll", ready # <<>>, Fail
  PROVE  EventInv'
<1>1. ErrorEvent \in Event /\ ErrorEvent.type = "error"
  BY DEF ErrorEvent, Event
<1>2. CASE CallLua(ErrorEvent, "close")
  BY <1>1, <1>2, CallStep
<1>3. CASE do_close(Tail(ready)) /\ UNCHANGED <<buffers, thread>>
  <2>1. events' = events /\ (pc' # "callback" => cont' = "none")
    BY <1>3 DEF thread, EventInv, Quiet
  <2>2. m_nHandle' = 0
    BY <1>3, CloseSilences DEF EventInv
  <2>3. QED
    BY <2>1, <2>2, DeafStep
<1>4. QED
  BY <1>2, <1>3 DEF Fail, ErrorEvent

\* A handler that reads on: deaf, or of a completed read.
LEMMA ReadOnStep ==
  ASSUME AsioType, EventInv, pc = "poll", ready # <<>>, ReadOn,
         m_nHandle = 0 \/ Head(ready).op \in Reads
  PROVE  EventInv'
<1>1. /\ StartRead("header", Tail(ready)) /\ "header" \in Reads
      /\ UNCHANGED <<m_nHandle, m_bClosed, m_bIsAlive, sock, events, pc, cont>>
  BY DEF ReadOn, do_read_header, Reads, object, thread
<1>2. cont = "none"
  BY DEF EventInv, Quiet
<1>3. ready \in Seq(Completion) /\ Tail(ready) \in Seq(Completion)
  BY DEF AsioType
<1>4. m_nHandle # 0 => Hearing /\ Connected
  BY <1>2, <1>3, TailOfQueue, Zenon DEF EventInv, Hearing, Heard
<1>5. /\ QueuedConnect(Tail(ready)) => QueuedConnect(ready)
      /\ OneConnect(ready) => OneConnect(Tail(ready))
  BY <1>3, TailOfQueue
<1>6. cont' = "none"
  BY <1>1, <1>2
<1>7. QED
  BY <1>1, <1>3, <1>4, <1>5, <1>6, ReadStep

LEMMA DispatchStep ==
  ASSUME BuffersType, AsioType, ThreadType, EventInv, pc = "poll", ready # <<>>,
         Head(ready).op \in Reads, NEW b \in Nat, Dispatch(b)
  PROVE  EventInv'
<1> DEFINE e == [type |-> "data", head |-> headBuf, body |-> b]
<1>1. e \in Event /\ e.type = "data"
  BY SocketAssumption DEF Event, BuffersType
<1> HIDE DEF e
<1>2. CASE CallLua(e, "read_header")
  BY <1>1, <1>2, CallStep
<1>3. CASE ReadOn
  BY <1>3, ReadOnStep
<1>4. QED
  BY <1>2, <1>3 DEF Dispatch, e

LEMMA ConnectHandlerStep == TypeOK /\ EventInv /\ ConnectHandler => EventInv'
<1> SUFFICES ASSUME TypeOK, EventInv, ConnectHandler PROVE EventInv'
  OBVIOUS
<1>1. pc = "poll" /\ ready # <<>> /\ Head(ready).op = "connect"
  BY DEF ConnectHandler, Handling
<1>2. AsioType /\ ThreadType
  BY DEF TypeOK
<1> DEFINE e == [type |-> "connect", head |-> 0, body |-> 0]
<1>3. e \in Event /\ e.type = "connect"
  BY DEF Event
<1> HIDE DEF e
<1>4. CASE CallLua(e, "read_header")
  BY <1>1, <1>2, <1>3, <1>4, CallStep
<1>5. CASE m_nHandle = 0 /\ ReadOn
  BY <1>1, <1>2, <1>5, ReadOnStep
<1>6. CASE Fail
  BY <1>1, <1>2, <1>6, FailStep
<1>7. QED
  BY <1>4, <1>5, <1>6 DEF ConnectHandler, e

LEMMA HeaderHandlerStep == TypeOK /\ EventInv /\ HeaderHandler => EventInv'
<1> SUFFICES ASSUME TypeOK, EventInv, HeaderHandler PROVE EventInv'
  OBVIOUS
<1>1. pc = "poll" /\ ready # <<>> /\ Head(ready).op \in Reads
  BY DEF HeaderHandler, Handling, Reads
<1>2. BuffersType /\ AsioType /\ ThreadType
  BY DEF TypeOK
<1>3. CASE ReadOn
  BY <1>1, <1>2, <1>3, ReadOnStep
<1>4. CASE do_read_body(Tail(ready)) /\ UNCHANGED <<object, thread>>
  <2>1. /\ StartRead("body", Tail(ready)) /\ "body" \in Reads
        /\ UNCHANGED <<m_nHandle, m_bClosed, m_bIsAlive, sock, events, pc, cont>>
    BY <1>4 DEF do_read_body, Reads, object, thread
  <2>2. cont = "none" /\ cont' = "none"
    BY <1>1, <2>1 DEF EventInv, Quiet
  <2>3. ready \in Seq(Completion) /\ Tail(ready) \in Seq(Completion)
    BY <1>1, <1>2 DEF AsioType
  <2>4. m_nHandle # 0 => Hearing /\ Connected
    BY <1>1, <2>2, <2>3, TailOfQueue, Zenon DEF EventInv, Hearing, Heard
  <2>5. /\ QueuedConnect(Tail(ready)) => QueuedConnect(ready)
        /\ OneConnect(ready) => OneConnect(Tail(ready))
    BY <1>1, <2>3, TailOfQueue
  <2>6. QED
    BY <1>2, <2>1, <2>2, <2>3, <2>4, <2>5, ReadStep
<1>5. CASE Dispatch(0)
  BY <1>1, <1>2, <1>5, DispatchStep
<1>6. CASE Fail
  BY <1>1, <1>2, <1>6, FailStep
<1>7. QED
  BY <1>3, <1>4, <1>5, <1>6 DEF HeaderHandler

\* A handler that only drops its completion, or starts the next write.
LEMMA DropStep ==
  ASSUME AsioType, EventInv, pc = "poll", ready # <<>>,
         UNCHANGED <<m_nHandle, m_bClosed, m_bIsAlive, sock, readOps, cont, events>>,
         \/ ready' = Tail(ready)
         \/ \E p : ready' = Append(Tail(ready), Completed("write", "failed", p))
  PROVE  EventInv'
<1>1. ready \in Seq(Completion) /\ Tail(ready) \in Seq(Completion)
  BY DEF AsioType
<1>2. cont = "none"
  BY DEF EventInv, Quiet
<1>3. "write" \in Ops /\ "write" # "connect" /\ "write" \notin Reads
  BY DEF Ops, Reads
<1>4. /\ QueuedConnect(ready') => QueuedConnect(ready)
      /\ QueuedRead(ready') => QueuedRead(ready)
      /\ OneConnect(ready) => OneConnect(ready')
  <2>1. CASE ready' = Tail(ready)
    BY <1>1, <2>1, TailOfQueue
  <2>2. CASE \E p : ready' = Append(Tail(ready), Completed("write", "failed", p))
    <3>1. PICK p : ready' = Append(Tail(ready), Completed("write", "failed", p))
      BY <2>2
    <3> DEFINE c == Completed("write", "failed", p)
    <3>2. c.op = "write"
      BY <1>3, QueueOps
    <3> HIDE DEF c
    <3>3. ready' = Append(Tail(ready), c)
      BY <3>1 DEF c
    <3>4. c.op # "connect" /\ c.op \notin Reads
      BY <1>3, <3>2
    <3>5. /\ QueuedConnect(ready') => QueuedConnect(Tail(ready))
          /\ QueuedRead(ready') => QueuedRead(Tail(ready))
          /\ OneConnect(Tail(ready)) => OneConnect(ready')
      BY <1>1, <3>3, <3>4, AppendToQueue
    <3>6. QED
      BY <1>1, <3>5, TailOfQueue
  <2>3. QED
    BY <2>1, <2>2
<1>5. CASE m_bIsAlive
  BY <1>2, <1>4, <1>5, QueueStep
<1>6. CASE ~m_bIsAlive
  <2>1. m_nHandle = 0
    BY <1>2, <1>6, Zenon DEF EventInv, Hearing, Heard, Untouched
  <2>2. m_nHandle' = 0 /\ events' = events /\ cont' = "none"
    BY <1>2, <2>1
  <2>3. QED
    BY <2>2, DeafStep
<1>7. QED
  BY <1>5, <1>6

LEMMA BodyHandlerStep == TypeOK /\ EventInv /\ BodyHandler => EventInv'
<1> SUFFICES ASSUME TypeOK, EventInv, BodyHandler PROVE EventInv'
  OBVIOUS
<1>1. pc = "poll" /\ ready # <<>> /\ Head(ready).op \in Reads
  BY DEF BodyHandler, Handling, Reads
<1>2. BuffersType /\ AsioType /\ ThreadType
  BY DEF TypeOK
<1>3. CASE Dispatch(bodyBuf)
  <2>1. bodyBuf \in Nat
    BY <1>2, SocketAssumption DEF BuffersType
  <2>2. QED
    BY <1>1, <1>2, <1>3, <2>1, DispatchStep
<1>4. CASE /\ ready' = Tail(ready)
           /\ UNCHANGED <<object, buffers, sock, readOps, writeOps, cont, events>>
  BY <1>1, <1>2, <1>4, DropStep DEF object
<1>5. CASE Fail
  BY <1>1, <1>2, <1>5, FailStep
<1>6. QED
  BY <1>3, <1>4, <1>5 DEF BodyHandler

LEMMA WriteHandlerStep == TypeOK /\ EventInv /\ WriteHandler => EventInv'
<1> SUFFICES ASSUME TypeOK, EventInv, WriteHandler PROVE EventInv'
  OBVIOUS
<1>1. pc = "poll" /\ ready # <<>>
  BY DEF WriteHandler, Handling
<1>2. AsioType /\ ThreadType
  BY DEF TypeOK
<1>3. CASE /\ PopWritten
           /\ UNCHANGED <<m_nHandle, m_bClosed, m_bIsAlive, buffers, sock,
                          readOps, cont, events>>
  <2>1. \/ ready' = Tail(ready)
        \/ \E p : ready' = Append(Tail(ready), Completed("write", "failed", p))
    BY <1>3 DEF PopWritten, do_write
  <2>2. QED
    BY <1>1, <1>2, <1>3, <2>1, DropStep
<1>4. CASE Fail
  BY <1>1, <1>2, <1>4, FailStep
<1>5. QED
  BY <1>3, <1>4 DEF WriteHandler

LEMMA ReturnStep == TypeOK /\ EventInv /\ Return => EventInv'
<1> SUFFICES ASSUME TypeOK, EventInv, Return PROVE EventInv'
  OBVIOUS
<1>1. AsioType /\ ready \in Seq(Completion)
  BY DEF TypeOK, AsioType
<1>2. cont' = "none" /\ events' = events
  BY DEF Return
<1>3. CASE cont = "read_header" /\ do_read_header(ready) /\ UNCHANGED object
  <2>1. /\ StartRead("header", ready) /\ "header" \in Reads
        /\ UNCHANGED <<m_nHandle, m_bClosed, m_bIsAlive, sock, events>>
    BY <1>2, <1>3 DEF do_read_header, Reads, object
  <2>2. m_nHandle # 0 => Hearing /\ Connected
    BY <1>3 DEF EventInv, Hearing, Heard
  <2>3. QED
    BY <1>1, <1>2, <2>1, <2>2, ReadStep
<1>4. CASE do_close(ready) /\ UNCHANGED buffers
  <2>1. m_nHandle' = 0
    BY <1>4, CloseSilences DEF EventInv
  <2>2. QED
    BY <1>2, <2>1, DeafStep
<1>5. QED
  BY <1>3, <1>4 DEF Return

LEMMA ConnectStep == TypeOK /\ EventInv /\ Connect => EventInv'
<1> SUFFICES ASSUME TypeOK, EventInv, Connect PROVE EventInv'
  OBVIOUS
<1>1. UNCHANGED <<pc, cont, events>> /\ ~m_bIsAlive
  BY DEF Connect, thread
<1>2. pc' # "callback" => cont' = "none"
  BY <1>1 DEF EventInv, Quiet
<1>3. CASE do_close(ready)
  <2>1. m_nHandle' = 0
    BY <1>3, CloseSilences DEF EventInv
  <2>2. QED
    BY <1>1, <1>2, <2>1, DeafStep
<1>4. CASE m_bClosed /\ UNCHANGED m_nHandle
  <2>1. m_nHandle' = 0
    BY <1>4 DEF EventInv, Quiet
  <2>2. QED
    BY <1>1, <1>2, <2>1, DeafStep
<1>5. CASE /\ sock' = "connecting" /\ m_bIsAlive' = TRUE
           /\ UNCHANGED <<m_nHandle, m_bClosed, m_pendingList, readOps, writeOps, ready>>
  <2>1. EventOrder' /\ Quiet'
    BY <1>1, <1>5, SameEvents, Zenon DEF EventInv, Quiet
  <2>2. ASSUME Hearing' PROVE Heard'
    <3>1. Heard /\ Untouched
      BY <1>1, <1>5, <2>2, Zenon DEF Hearing, EventInv, Heard
    <3>2. ~QueuedConnect(ready)
      BY <3>1 DEF Untouched, QueuedConnect
    <3>3. NoError'
      BY <1>1, <3>1, Zenon DEF Heard, NoError
    <3>4. QED
      BY <1>1, <1>5, <3>1, <3>2, <3>3, Zenon DEF Heard, Untouched, Connected
  <2>3. QED
    BY <2>1, <2>2 DEF EventInv
<1>6. QED
  BY <1>3, <1>4, <1>5 DEF Connect

LEMMA SendStep == TypeOK /\ EventInv /\ SendSocketData => EventInv'
<1> SUFFICES ASSUME TypeOK, EventInv, SendSocketData PROVE EventInv'
  OBVIOUS
<1>1. /\ UNCHANGED <<m_nHandle, m_bClosed, m_bIsAlive, sock, readOps, cont, events, pc>>
      /\ m_bIsAlive
  BY DEF SendSocketData, thread
<1>2. ready \in Seq(Completion)
  BY DEF TypeOK, AsioType
<1>3. ready' = ready \/ \E p : ready' = Append(ready, Completed("write", "failed", p))
  BY DEF SendSocketData, do_write
<1>4. /\ QueuedConnect(ready') => QueuedConnect(ready)
      /\ QueuedRead(ready') => QueuedRead(ready)
      /\ OneConnect(ready) => OneConnect(ready')
  <2>1. CASE \E p : ready' = Append(ready, Completed("write", "failed", p))
    <3>1. PICK p : ready' = Append(ready, Completed("write", "failed", p))
      BY <2>1
    <3> DEFINE c == Completed("write", "failed", p)
    <3>2. c.op # "connect" /\ c.op \notin Reads
      BY QueueOps DEF Ops, Reads
    <3> HIDE DEF c
    <3>3. ready' = Append(ready, c)
      BY <3>1 DEF c
    <3>4. QED
      BY <1>2, <3>2, <3>3, AppendToQueue
  <2>2. QED
    BY <1>3, <2>1
<1>5. QED
  BY <1>1, <1>4, QueueStep

\* The operating system completes an operation: what is added to the queue is
\* of the operation's own kind.
LEMMA CompleteStep ==
  ASSUME AsioType, EventInv, NEW op \in Ops, NEW res, NEW pkt, Post(op, res, pkt),
         UNCHANGED <<m_nHandle, m_bClosed, m_bIsAlive, pc, cont, events>>,
         sock' \in {sock, "connected", "closed"},
         Hearing => m_bIsAlive,
         op = "connect" => sock = "connecting" /\ sock' # "connecting",
         op # "connect" => sock' = sock,
         op \in Reads => readOps # <<>>,
         readOps' # <<>> => readOps # <<>>
  PROVE  EventInv'
<1>1. EventOrder' /\ Quiet'
  BY SameEvents, Zenon DEF EventInv, Quiet
<1>2. SUFFICES ASSUME Hearing' PROVE Heard'
  BY <1>1 DEF EventInv
<1>3. Hearing /\ Heard
  BY <1>2, Zenon DEF Hearing, EventInv
<1> DEFINE c == Completed(op, res, pkt)
<1>4. c.op = op /\ (op \in Reads => op # "connect")
  BY QueueOps
<1> HIDE DEF c
<1>5. ready \in Seq(Completion) /\ ready' = Append(ready, c)
  BY DEF AsioType, Post, c
<1>6. NoError' /\ (Connected => Connected') /\ m_bIsAlive'
  BY <1>3, Zenon DEF Heard, NoError, Connected
<1>7. CASE op = "connect"
  <2>1. op \notin Reads
    BY <1>4, <1>7
  <2>2. events = <<>> /\ ~QueuedConnect(ready) /\ OneConnect(ready) /\ sock' # "connecting"
    BY <1>3, <1>7 DEF Heard
  <2>3. OneConnect(ready') /\ (QueuedRead(ready') => QueuedRead(ready))
    BY <1>4, <1>5, <2>1, <2>2, AppendToQueue
  <2>4. QED
    BY <1>3, <1>6, <2>2, <2>3, Zenon DEF Heard
<1>8. CASE op # "connect"
  <2>1. /\ QueuedConnect(ready') => QueuedConnect(ready)
        /\ OneConnect(ready) => OneConnect(ready')
        /\ QueuedRead(ready') => QueuedRead(ready) \/ readOps # <<>>
    BY <1>4, <1>5, <1>8, AppendToQueue
  <2>2. QED
    BY <1>3, <1>6, <1>8, <2>1, Zenon DEF Heard
<1>9. QED
  BY <1>7, <1>8

LEMMA NetworkStep == TypeOK /\ EventInv /\ Network => EventInv'
<1> SUFFICES ASSUME TypeOK, EventInv, Network PROVE EventInv'
  OBVIOUS
<1>1. AsioType /\ UNCHANGED <<m_nHandle, m_bClosed, m_bIsAlive, pc, cont, events>>
  BY DEF TypeOK, Network, CompleteConnect, CompleteHeader, CompleteBody, FailRead,
     CompleteWrite, FailWrite, OthersIdle, object, thread
<1>2. Hearing => m_bIsAlive \/ Untouched
  BY Zenon DEF EventInv, Heard
<1>3. CASE CompleteConnect
  <2>1. Hearing => m_bIsAlive
    BY <1>2, <1>3 DEF CompleteConnect, Untouched
  <2>2. \E res : Post("connect", res, 0)
    BY <1>3 DEF CompleteConnect
  <2>3. /\ sock = "connecting" /\ sock' \in {"connected", "closed"}
        /\ readOps' = readOps
    BY <1>3 DEF CompleteConnect
  <2>4. "connect" \in Ops /\ "connect" \notin Reads
    BY DEF Ops, Reads
  <2>5. QED
    BY <1>1, <2>1, <2>2, <2>3, <2>4, CompleteStep
<1>4. CASE CompleteHeader \/ CompleteBody \/ FailRead
  <2>1. readOps # <<>> /\ readOps' = Tail(readOps) /\ sock' = sock
    BY <1>4 DEF CompleteHeader, CompleteBody, FailRead
  <2>2. Hearing => m_bIsAlive
    BY <1>2, <2>1 DEF Untouched
  <2>3. Head(readOps) \in Reads
    BY <1>1, <2>1 DEF AsioType
  <2>4. \E op \in Reads : \E res : Post(op, res, 0)
    BY <1>4, <2>3 DEF CompleteHeader, CompleteBody, FailRead, Reads
  <2>5. \A op \in Reads : op \in Ops /\ op # "connect"
    BY DEF Ops, Reads
  <2>6. QED
    BY <1>1, <2>1, <2>2, <2>4, <2>5, CompleteStep
<1>5. CASE CompleteWrite \/ FailWrite
  <2>1. writeOps # <<>> /\ sock' = sock /\ readOps' = readOps
    BY <1>5 DEF CompleteWrite, FailWrite, network
  <2>2. \E res, pkt : Post("write", res, pkt)
    BY <1>5 DEF CompleteWrite, FailWrite
  <2>3. "write" \in Ops /\ "write" \notin Reads /\ "write" # "connect"
    BY DEF Ops, Reads
  <2>4. Hearing => m_bIsAlive
    BY <1>2, <2>1 DEF Untouched
  <2>5. QED
    BY <1>1, <2>1, <2>2, <2>3, <2>4, CompleteStep
<1>6. QED
  BY <1>3, <1>4, <1>5 DEF Network

\* The scheduler's steps leave queues and events alone.
LEMMA FrameStep ==
  ASSUME TypeOK, EventInv, PollStart \/ PollEnd \/ DrainPool \/ UNCHANGED vars
  PROVE  EventInv'
<1>1. UNCHANGED <<m_bClosed, m_bIsAlive, asio, cont, events>>
  BY DEF PollStart, PollEnd, DrainPool, vars, object, thread
<1>2. pc = "callback" => pc' = pc
  BY DEF PollStart, PollEnd, DrainPool, vars, thread
<1>3. pc' = pc \/ cont = "none"
  BY <1>2 DEF EventInv, Quiet
<1>4. CASE m_nHandle' = m_nHandle
  BY <1>1, <1>3, <1>4, QueueStep DEF asio
<1>5. CASE m_nHandle' = 0
  <2>1. pc' # "callback" => cont' = "none"
    BY <1>1, <1>3 DEF EventInv, Quiet
  <2>2. QED
    BY <1>1, <1>5, <2>1, DeafStep
<1>6. QED
  BY <1>4, <1>5 DEF PollStart, PollEnd, DrainPool, vars, object

-----------------------------------------------------------------------------
(* The order of the events *)

LEMMA InitEvents == Init => EventInv
<1> SUFFICES ASSUME Init PROVE EventInv
  OBVIOUS
<1>1. EventOrder /\ Quiet
  <2>1. EventOrder
    BY DEF Init, EventOrder
  <2>2. Quiet
    BY Zenon DEF Init, Quiet
  <2>3. QED
    BY <2>1, <2>2
<1>2. ~QueuedConnect(ready) /\ ~QueuedRead(ready) /\ OneConnect(ready) /\ NoError
  BY DEF Init, QueuedConnect, QueuedRead, OneConnect, NoError
<1>3. Heard
  BY <1>2 DEF Init, Heard, Untouched
<1>4. QED
  BY <1>1, <1>3 DEF EventInv

LEMMA NextEvents == TypeOK /\ EventInv /\ [Next]_vars => EventInv'
<1> SUFFICES ASSUME TypeOK, EventInv, [Next]_vars PROVE EventInv'
  OBVIOUS
<1>1. CASE Lua
  <2>1. CASE StopServer
    <3>1. m_nHandle' = 0 /\ UNCHANGED <<pc, cont, events>>
      BY <2>1, CloseSilences DEF StopServer, EventInv, thread
    <3>2. pc' # "callback" => cont' = "none"
      BY <3>1 DEF EventInv, Quiet
    <3>3. QED
      BY <3>1, <3>2, DeafStep
  <2>2. QED
    BY <1>1, <2>1, ConnectStep, SendStep DEF Lua
<1>2. CASE MainThread
  BY <1>2, ConnectHandlerStep, HeaderHandlerStep, BodyHandlerStep, WriteHandlerStep,
     ReturnStep, FrameStep
  DEF MainThread, RunHandler
<1>3. CASE Network
  BY <1>3, NetworkStep
<1>4. CASE UNCHANGED vars
  BY <1>4, FrameStep
<1>5. QED
  BY <1>1, <1>2, <1>3, <1>4 DEF Next

\* The inductive invariant holds in every reachable state.
THEOREM EventsInvariant == Spec => []EventInv
<1>1. TypeOK /\ EventInv /\ [Next]_vars => EventInv'
  BY NextEvents
<1>2. QED
  BY InitEvents, TypeCorrect, <1>1, PTL DEF Spec

\* Lua hears "connect" first and "error" last, and data in between, however
\* API calls, completions and closes interleave, reconnects included.
THEOREM EventsInOrder == Spec => []EventOrder
<1>1. EventInv => EventOrder
  BY DEF EventInv
<1>2. QED
  BY EventsInvariant, <1>1, PTL

\* The Lua function is called only while the object has one.
LEMMA EventsNeedHandle == [Next]_vars /\ m_nHandle = 0 => events' = events
<1> SUFFICES ASSUME [Next]_vars, m_nHandle = 0 PROVE events' = events
  OBVIOUS
<1>1. ~CallLua([type |-> "error", head |-> 0, body |-> 0], "close")
  BY DEF CallLua
<1>2. Fail => events' = events
  BY <1>1 DEF Fail, thread
<1>3. \A b : Dispatch(b) => events' = events
  BY DEF Dispatch, CallLua, ReadOn, thread
<1>4. CASE RunHandler
  <2>1. CASE ConnectHandler
    BY <1>2, <2>1 DEF ConnectHandler, CallLua, ReadOn, thread
  <2>2. CASE HeaderHandler
    BY <1>2, <1>3, <2>2 DEF HeaderHandler, ReadOn, thread
  <2>3. CASE BodyHandler
    BY <1>2, <1>3, <2>3 DEF BodyHandler
  <2>4. CASE WriteHandler
    BY <1>2, <2>4 DEF WriteHandler
  <2>5. QED
    BY <1>4, <2>1, <2>2, <2>3, <2>4 DEF RunHandler
<1>5. QED
  BY <1>4
  DEF Next, Lua, MainThread, Network, Connect, SendSocketData, StopServer, Return,
      PollStart, PollEnd, DrainPool, CompleteConnect, CompleteHeader, CompleteBody,
      FailRead, CompleteWrite, FailWrite, OthersIdle, vars, thread

\* Once the socket is closed, by whatever path, no handler still queued and no
\* handler of an aborted operation reaches Lua again.
THEOREM NothingAfterClose == Spec => SilentAfterClose
<1>1. EventInv /\ [Next]_vars => [m_bClosed => events' = events]_vars
  <2>1. SUFFICES ASSUME EventInv, [Next]_vars, m_bClosed PROVE events' = events
    OBVIOUS
  <2>2. m_nHandle = 0
    BY <2>1 DEF EventInv, Quiet
  <2>3. QED
    BY <2>1, <2>2, EventsNeedHandle
<1>2. QED
  BY EventsInvariant, <1>1, PTL DEF Spec, SilentAfterClose

-----------------------------------------------------------------------------
(* The two directions of a socket: one operation in flight each way, packets *)
(* written in the order they were packed, reads in step with the server's    *)
(* framing, and deliveries in order.                                         *)

(* Queues of completions, for any set S of them. *)

LEMMA EmptyQueue ==
  ASSUME NEW S
  PROVE  ~Queued(<<>>, S) /\ AtMostOne(<<>>, S)
BY DEF Queued, AtMostOne

LEMMA TailQueue ==
  ASSUME NEW q \in Seq(Completion), q # <<>>, NEW S
  PROVE  /\ Queued(Tail(q), S) => Queued(q, S)
         /\ Queued(q, S) => Queued(Tail(q), S) \/ Head(q) \in S
         /\ Head(q) \in S => Queued(q, S)
         /\ AtMostOne(q, S) => AtMostOne(Tail(q), S)
         /\ AtMostOne(q, S) /\ Head(q) \in S => ~Queued(Tail(q), S)
<1>1. /\ \A i \in DOMAIN Tail(q) : i + 1 \in DOMAIN q /\ Tail(q)[i] = q[i + 1]
      /\ \A i \in DOMAIN Tail(q) : i \in Nat /\ i # 0
      /\ 1 \in DOMAIN q /\ Head(q) = q[1]
  OBVIOUS
<1>2. \A i \in DOMAIN q : i = 1 \/ (i - 1 \in DOMAIN Tail(q) /\ Tail(q)[i - 1] = q[i])
  OBVIOUS
<1>3. Queued(Tail(q), S) => Queued(q, S)
  BY <1>1 DEF Queued
<1>4. Queued(q, S) => Queued(Tail(q), S) \/ Head(q) \in S
  BY <1>1, <1>2 DEF Queued
<1>5. AtMostOne(q, S) => AtMostOne(Tail(q), S)
  BY <1>1 DEF AtMostOne
<1>6. AtMostOne(q, S) /\ Head(q) \in S => ~Queued(Tail(q), S)
  BY <1>1 DEF AtMostOne, Queued
<1>7. QED
  BY <1>1, <1>3, <1>4, <1>5, <1>6 DEF Queued

LEMMA AppendQueue ==
  ASSUME NEW q \in Seq(Completion), NEW c, NEW S
  PROVE  /\ Queued(Append(q, c), S) <=> Queued(q, S) \/ c \in S
         /\ AtMostOne(q, S) /\ (c \notin S \/ ~Queued(q, S))
              => AtMostOne(Append(q, c), S)
<1>1. /\ \A i \in DOMAIN q : i \in DOMAIN Append(q, c) /\ Append(q, c)[i] = q[i]
      /\ Len(q) + 1 \in DOMAIN Append(q, c) /\ Append(q, c)[Len(q) + 1] = c
  OBVIOUS
<1>2. \A i \in DOMAIN Append(q, c) :
         \/ i \in DOMAIN q /\ Append(q, c)[i] = q[i]
         \/ i = Len(q) + 1 /\ Append(q, c)[i] = c
  OBVIOUS
<1>3. Queued(Append(q, c), S) <=> Queued(q, S) \/ c \in S
  BY <1>1, <1>2 DEF Queued
<1>4. AtMostOne(q, S) /\ (c \notin S \/ ~Queued(q, S))
        => AtMostOne(Append(q, c), S)
  BY <1>2 DEF AtMostOne, Queued
<1>5. QED
  BY <1>3, <1>4

LEMMA ConcatQueue ==
  ASSUME NEW q \in Seq(Completion), NEW r \in Seq(Completion), NEW S
  PROVE  /\ q \o r \in Seq(Completion)
         /\ Queued(q \o r, S) <=> Queued(q, S) \/ Queued(r, S)
         /\ AtMostOne(q, S) /\ AtMostOne(r, S) /\ ~(Queued(q, S) /\ Queued(r, S))
              => AtMostOne(q \o r, S)
<1>1. /\ \A i \in DOMAIN q : i \in DOMAIN (q \o r) /\ (q \o r)[i] = q[i]
      /\ \A i \in DOMAIN r :
            Len(q) + i \in DOMAIN (q \o r) /\ (q \o r)[Len(q) + i] = r[i]
  OBVIOUS
<1>2. \A i \in DOMAIN (q \o r) :
         \/ i \in DOMAIN q /\ (q \o r)[i] = q[i]
         \/ i - Len(q) \in DOMAIN r /\ (q \o r)[i] = r[i - Len(q)]
  OBVIOUS
<1>3. Queued(q \o r, S) <=> Queued(q, S) \/ Queued(r, S)
  BY <1>1, <1>2 DEF Queued
<1>4. \A i, j \in DOMAIN (q \o r) : i \in Int /\ j \in Int /\ Len(q) \in Int
  OBVIOUS
<1>5. AtMostOne(q, S) /\ AtMostOne(r, S) /\ ~(Queued(q, S) /\ Queued(r, S))
        => AtMostOne(q \o r, S)
  BY <1>2, <1>4 DEF AtMostOne, Queued
<1>6. QED
  BY <1>3, <1>5

LEMMA SingletonQueue ==
  ASSUME NEW c, NEW S
  PROVE  (Queued(<<c>>, S) <=> c \in S) /\ AtMostOne(<<c>>, S)
BY DEF Queued, AtMostOne

LEMMA SubQueue ==
  ASSUME NEW q, NEW S, NEW T, S \subseteq T, Queued(q, S)
  PROVE  Queued(q, T)
BY DEF Queued

\* To which of the sets a completion belongs.
LEMMA KindsOfCompletion ==
  ASSUME NEW op \in Ops, NEW res \in {"done", "failed"}, NEW pkt \in Nat
  PROVE  LET c == Completed(op, res, pkt) IN
         /\ c \in Completion /\ c.op = op /\ c.res = res
         /\ c \in Writes <=> op = "write"
         /\ c \in Listens <=> op # "write"
         /\ c \in Connects <=> op = "connect"
         /\ c \in Sent <=> op = "write" /\ res = "done"
         /\ c \in HeadersDone <=> op = "header" /\ res = "done"
         /\ c \in BodiesDone <=> op = "body" /\ res = "done"
BY DEF Completed, Completion, Writes, Listens, Connects, Sent, HeadersDone, BodiesDone

LEMMA KindsOfMember ==
  ASSUME NEW c \in Completion
  PROVE  /\ c \in Writes <=> c.op = "write"
         /\ c \in Listens <=> c.op # "write"
         /\ c \in Connects <=> c.op = "connect"
         /\ c \in Sent <=> c.op = "write" /\ c.res = "done"
         /\ c \in HeadersDone <=> c.op = "header" /\ c.res = "done"
         /\ c \in BodiesDone <=> c.op = "body" /\ c.res = "done"
BY DEF Writes, Listens, Connects, Sent, HeadersDone, BodiesDone

LEMMA SubKinds ==
  Sent \subseteq Writes /\ Connects \subseteq Listens
    /\ HeadersDone \subseteq Listens /\ BodiesDone \subseteq Listens
BY DEF Writes, Listens, Connects, Sent, HeadersDone, BodiesDone

-----------------------------------------------------------------------------
(* The life of the object *)

LEMMA CloseLife ==
  ASSUME ObjectLife, NEW q, do_close(q), reopens' = reopens
  PROVE  ObjectLife'
<1>1. CASE m_bClosed
  <2>1. UNCHANGED <<m_bClosed, m_bIsAlive, m_pendingList, sock, readOps, writeOps>>
    BY <1>1 DEF do_close, object
  <2>2. QED
    BY <1>1, <2>1, Zenon DEF ObjectLife, SingleUse, AtRest
<1>2. CASE ~m_bClosed
  <2>1. m_bClosed' /\ ~m_bIsAlive' /\ AtRest'
    BY <1>2 DEF AtRest, do_close, CloseSocket
  <2>2. QED
    BY <2>1, Zenon DEF ObjectLife
<1>3. QED
  BY <1>1, <1>2

\* A step of an object that is alive or has been reconnected.
LEMMA AliveLife ==
  ASSUME ObjectLife, m_bIsAlive \/ ~SingleUse,
         UNCHANGED <<m_nHandle, m_bClosed, m_bIsAlive, reopens>>
  PROVE  ObjectLife'
BY Zenon DEF ObjectLife, SingleUse

\* A step of an object at rest, once it is closed.
LEMMA RestLife ==
  ASSUME ObjectLife, m_bClosed,
         UNCHANGED <<m_bClosed, m_bIsAlive, m_pendingList, sock, readOps, writeOps, reopens>>
  PROVE  ObjectLife'
BY Zenon DEF ObjectLife, SingleUse, AtRest

\* Whoever has a handler to run, or a callback to return from, was connected.
LEMMA BusyIsConnected ==
  ASSUME ObjectLife, ready # <<>> \/ cont # "none"
  PROVE  m_bClosed \/ m_bIsAlive
BY Zenon DEF ObjectLife, Unused

LEMMA ReadLife ==
  ASSUME ObjectLife, ready # <<>> \/ cont # "none", NEW op, NEW q, StartRead(op, q),
         UNCHANGED <<object, sock, writeOps, reopens>>
  PROVE  ObjectLife'
<1>1. CASE m_bIsAlive \/ ~SingleUse
  BY <1>1, AliveLife DEF object
<1>2. CASE ~m_bIsAlive /\ SingleUse
  <2>1. m_bClosed /\ sock = "closed"
    BY <1>2, BusyIsConnected, Zenon DEF ObjectLife, AtRest
  <2>2. readOps' = readOps
    BY <2>1 DEF StartRead
  <2>3. QED
    BY <2>1, <2>2, RestLife DEF object
<1>3. QED
  BY <1>1, <1>2

LEMMA CallLife ==
  ASSUME ObjectLife, Quiet, ready # <<>>, NEW e, NEW c, CallLua(e, c), reopens' = reopens
  PROVE  ObjectLife' /\ Open
<1>1. Open
  BY BusyIsConnected, Zenon DEF Quiet, CallLua, Open
<1>2. QED
  BY <1>1, AliveLife DEF CallLua, Open, object

LEMMA FailLife ==
  ASSUME ObjectLife, Quiet, ready # <<>>, Fail, reopens' = reopens
  PROVE  ObjectLife'
BY CallLife, CloseLife DEF Fail

LEMMA ReadOnLife ==
  ASSUME ObjectLife, ready # <<>>, ReadOn, reopens' = reopens
  PROVE  ObjectLife'
BY ReadLife DEF ReadOn, do_read_header

LEMMA DispatchLife ==
  ASSUME ObjectLife, Quiet, ready # <<>>, NEW b, Dispatch(b), reopens' = reopens
  PROVE  ObjectLife'
BY CallLife, ReadOnLife DEF Dispatch

LEMMA HandlerLife ==
  ASSUME ObjectLife, Quiet, RunHandler
  PROVE  ObjectLife'
<1>1. reopens' = reopens /\ ready # <<>>
  BY DEF RunHandler, ConnectHandler, HeaderHandler, BodyHandler, WriteHandler, Handling
<1>2. CASE ConnectHandler
  BY <1>1, <1>2, CallLife, ReadOnLife, FailLife DEF ConnectHandler
<1>3. CASE HeaderHandler
  <2>1. do_read_body(Tail(ready)) /\ UNCHANGED <<object, thread>> => ObjectLife'
    BY <1>1, ReadLife DEF do_read_body
  <2>2. QED
    BY <1>1, <1>3, <2>1, ReadOnLife, DispatchLife, FailLife DEF HeaderHandler
<1>4. CASE BodyHandler
  <2>1. CASE UNCHANGED <<object, buffers, sock, readOps, writeOps, cont, events>>
    <3>1. CASE m_bIsAlive
      BY <1>1, <2>1, <3>1, AliveLife DEF object
    <3>2. CASE ~m_bIsAlive
      BY <1>1, <2>1, <3>2, BusyIsConnected, RestLife DEF object
    <3>3. QED
      BY <3>1, <3>2
  <2>2. QED
    BY <1>1, <1>4, <2>1, DispatchLife, FailLife DEF BodyHandler
<1>5. CASE WriteHandler
  <2>1. CASE /\ PopWritten
             /\ UNCHANGED <<m_nHandle, m_bClosed, m_bIsAlive, buffers, sock,
                            readOps, cont, events>>
    <3>1. CASE m_bIsAlive \/ ~SingleUse
      BY <1>1, <2>1, <3>1, AliveLife
    <3>2. CASE ~m_bIsAlive /\ SingleUse
      <4>1. m_bClosed /\ m_pendingList = <<>>
        BY <1>1, <3>2, BusyIsConnected, Zenon DEF ObjectLife, AtRest
      <4>2. UNCHANGED <<m_pendingList, writeOps>>
        BY <2>1, <4>1 DEF PopWritten
      <4>3. QED
        BY <1>1, <2>1, <4>1, <4>2, RestLife
    <3>3. QED
      BY <3>1, <3>2
  <2>2. QED
    BY <1>1, <1>5, <2>1, FailLife DEF WriteHandler
<1>6. QED
  BY <1>2, <1>3, <1>4, <1>5 DEF RunHandler

LEMMA ReturnLife ==
  ASSUME LifeInv, Return
  PROVE  ObjectLife'
<1>1. cont # "none" /\ reopens' = reopens
  BY DEF LifeInv, Return
<1>2. QED
  BY <1>1, ReadLife, CloseLife DEF Return, LifeInv, do_read_header

LEMMA LuaLife ==
  ASSUME TypeOK, ObjectLife, Lua
  PROVE  ObjectLife'
<1>1. CASE Connect
  <2>1. CASE m_bClosed
    <3>1. reopens \in Nat /\ reopens' = reopens + 1
      BY <1>1, <2>1, SocketAssumption DEF Connect, TypeOK
    <3>2. ~SingleUse'
      BY <3>1 DEF SingleUse
    <3>3. m_bClosed'
      BY <1>1, <2>1 DEF Connect
    <3>4. QED
      BY <3>2, <3>3, Zenon DEF ObjectLife
  <2>2. CASE ~m_bClosed /\ do_close(ready)
    BY <1>1, <2>2, CloseLife DEF Connect
  <2>3. CASE /\ ~m_bClosed /\ m_bIsAlive' = TRUE
             /\ UNCHANGED <<m_nHandle, m_bClosed, m_pendingList, readOps, writeOps, ready>>
    <3>1. reopens' = reopens
      BY <1>1, <2>3 DEF Connect
    <3>2. QED
      BY <2>3, <3>1, Zenon DEF ObjectLife, SingleUse
  <2>4. QED
    BY <1>1, <2>1, <2>2, <2>3 DEF Connect
<1>2. CASE SendSocketData
  BY <1>2, AliveLife DEF SendSocketData
<1>3. CASE StopServer
  BY <1>3, CloseLife DEF StopServer
<1>4. QED
  BY <1>1, <1>2, <1>3 DEF Lua

LEMMA NetworkLife ==
  ASSUME ObjectLife, Network
  PROVE  ObjectLife'
<1>1. UNCHANGED <<m_nHandle, m_bClosed, m_bIsAlive, m_pendingList, reopens>>
  BY DEF Network, CompleteConnect, CompleteHeader, CompleteBody, FailRead,
     CompleteWrite, FailWrite, OthersIdle, object
<1>2. ~AtRest
  BY DEF Network, CompleteConnect, CompleteHeader, CompleteBody, FailRead,
     CompleteWrite, FailWrite, AtRest
<1>3. m_bIsAlive \/ ~SingleUse
  BY <1>2 DEF ObjectLife
<1>4. QED
  BY <1>1, <1>3, AliveLife

LEMMA FrameLife ==
  ASSUME ObjectLife, PollStart \/ PollEnd \/ DrainPool \/ UNCHANGED vars
  PROVE  ObjectLife'
<1>1. /\ UNCHANGED <<m_bClosed, m_bIsAlive, m_pendingList, buffers, packCount, asio,
                     network, cont, events, reopens>>
      /\ ~m_bClosed => m_nHandle' = m_nHandle
  BY DEF PollStart, PollEnd, DrainPool, vars, object, thread
<1>2. QED
  BY <1>1, Zenon DEF ObjectLife, SingleUse, AtRest, Unused, asio, network, buffers

LEMMA NextLife == TypeOK /\ Quiet /\ LifeInv /\ [Next]_vars => LifeInv'
<1> SUFFICES ASSUME TypeOK, Quiet, LifeInv, [Next]_vars PROVE LifeInv'
  OBVIOUS
<1>1. ObjectLife'
  BY HandlerLife, ReturnLife, LuaLife, NetworkLife, FrameLife
  DEF LifeInv, Next, MainThread
<1>2. pc' = "callback" => cont' # "none"
  <2>1. CASE RunHandler
    <3>1. pc' = "callback" => cont' \in {"read_header", "close"}
      BY <2>1
      DEF RunHandler, ConnectHandler, HeaderHandler, BodyHandler, WriteHandler, Handling,
          CallLua, Fail, ReadOn, Dispatch, PopWritten, thread
    <3>2. QED
      BY <3>1
  <2>2. CASE ~RunHandler
    <3>1. pc' = "callback" => pc = "callback" /\ cont' = cont
      BY <2>2
      DEF Next, Lua, MainThread, Network, Connect, SendSocketData, StopServer, Return,
          PollStart, PollEnd, DrainPool, CompleteConnect, CompleteHeader, CompleteBody,
          FailRead, CompleteWrite, FailWrite, OthersIdle, vars, thread
    <3>2. QED
      BY <3>1 DEF LifeInv
  <2>3. QED
    BY <2>1, <2>2
<1>3. QED
  BY <1>1, <1>2 DEF LifeInv

LEMMA InitLife == Init => LifeInv
<1>1. Handler # 0
  BY SocketAssumption
<1>2. QED
  BY <1>1, Zenon DEF Init, LifeInv, ObjectLife, SingleUse, AtRest, Unused

-----------------------------------------------------------------------------
(* What a close queues *)

LEMMA AbortedReads ==
  ASSUME AsioType, Len(readOps) <= 1
  PROVE  LET reads == [i \in 1..Len(readOps) |-> Completed(readOps[i], "failed", 0)] IN
         /\ reads \in Seq(Completion)
         /\ ~Queued(reads, Writes) /\ AtMostOne(reads, Writes)
         /\ Queued(reads, Listens) => readOps # <<>>
         /\ AtMostOne(reads, Listens)
<1> DEFINE reads == [i \in 1..Len(readOps) |-> Completed(readOps[i], "failed", 0)]
<1>1. readOps \in Seq(Reads)
  BY DEF AsioType
<1>2. reads \in Seq(Completion)
  BY <1>1, AbortedReadsType
<1>3. DOMAIN reads = 1..Len(readOps) /\ Len(readOps) \in Nat
  BY <1>1
<1>4. \A i \in DOMAIN reads : reads[i] \notin Writes
  <2>1. TAKE i \in DOMAIN reads
  <2>2. readOps[i] \in Reads /\ reads[i] = Completed(readOps[i], "failed", 0)
    BY <1>1, <1>3
  <2>3. QED
    BY <2>2, KindsOfCompletion DEF Ops, Reads
<1>5. \A i, j \in DOMAIN reads : i = j
  BY <1>3
<1>6. DOMAIN reads # {} => readOps # <<>>
  BY <1>1, <1>3
<1> HIDE DEF reads
<1>7. ~Queued(reads, Writes) /\ AtMostOne(reads, Writes) /\ AtMostOne(reads, Listens)
  BY <1>4, <1>5 DEF Queued, AtMostOne
<1>8. Queued(reads, Listens) => readOps # <<>>
  BY <1>6 DEF Queued
<1>9. QED
  BY <1>2, <1>7, <1>8 DEF reads

LEMMA AbortedConnect ==
  LET connect == IF sock = "connecting"
                 THEN <<Completed("connect", "failed", 0)>> ELSE <<>> IN
  /\ connect \in Seq(Completion)
  /\ ~Queued(connect, Writes) /\ AtMostOne(connect, Writes)
  /\ Queued(connect, Listens) => sock = "connecting"
  /\ AtMostOne(connect, Listens)
<1> DEFINE c == Completed("connect", "failed", 0)
<1>1. c \in Completion /\ c \notin Writes /\ c \in Listens
  BY KindsOfCompletion DEF Ops
<1> HIDE DEF c
<1>2. <<c>> \in Seq(Completion) /\ <<>> \in Seq(Completion)
  BY <1>1
<1>3. CASE sock = "connecting"
  BY <1>1, <1>2, <1>3, SingletonQueue DEF c
<1>4. CASE sock # "connecting"
  BY <1>2, <1>4, EmptyQueue
<1>5. QED
  BY <1>3, <1>4

LEMMA AbortedWrites ==
  ASSUME AsioType, Len(writeOps) <= 1
  PROVE  LET writes == [i \in 1..Len(writeOps) |->
                           Completed("write", "failed", writeOps[i])] IN
         /\ writes \in Seq(Completion)
         /\ ~Queued(writes, Listens) /\ AtMostOne(writes, Listens)
         /\ Queued(writes, Writes) => writeOps # <<>>
         /\ AtMostOne(writes, Writes)
<1> DEFINE writes == [i \in 1..Len(writeOps) |-> Completed("write", "failed", writeOps[i])]
<1>1. writeOps \in Seq(Packets)
  BY DEF AsioType
<1>2. writes \in Seq(Completion)
  BY <1>1, AbortedWritesType
<1>3. DOMAIN writes = 1..Len(writeOps) /\ Len(writeOps) \in Nat
  BY <1>1
<1>4. \A i \in DOMAIN writes : writes[i] \notin Listens
  <2>1. TAKE i \in DOMAIN writes
  <2>2. writeOps \in Seq(Nat)
    BY <1>1, PacketsAreNat, SeqMonotonic
  <2>3. writeOps[i] \in Nat /\ writes[i] = Completed("write", "failed", writeOps[i])
    BY <1>3, <2>2
  <2>4. QED
    BY <2>3, KindsOfCompletion DEF Ops
<1>5. \A i, j \in DOMAIN writes : i = j
  BY <1>3
<1>6. DOMAIN writes # {} => writeOps # <<>>
  BY <1>1, <1>3
<1> HIDE DEF writes
<1>7. ~Queued(writes, Listens) /\ AtMostOne(writes, Writes) /\ AtMostOne(writes, Listens)
  BY <1>4, <1>5 DEF Queued, AtMostOne
<1>8. Queued(writes, Writes) => writeOps # <<>>
  BY <1>6 DEF Queued
<1>9. QED
  BY <1>2, <1>7, <1>8 DEF writes

\* A close queues at most one completion for each direction: that of the
\* operation outstanding there.
LEMMA AbortedQueue ==
  ASSUME AsioType, Len(readOps) <= 1, Len(writeOps) <= 1,
         sock = "connecting" => readOps = <<>>
  PROVE  /\ Aborted \in Seq(Completion)
         /\ AtMostOne(Aborted, Writes)
         /\ Queued(Aborted, Writes) => writeOps # <<>>
         /\ AtMostOne(Aborted, Listens)
         /\ Queued(Aborted, Listens) => readOps # <<>> \/ sock = "connecting"
<1> DEFINE reads == [i \in 1..Len(readOps) |-> Completed(readOps[i], "failed", 0)]
           connect == IF sock = "connecting"
                      THEN <<Completed("connect", "failed", 0)>> ELSE <<>>
           writes == [i \in 1..Len(writeOps) |-> Completed("write", "failed", writeOps[i])]
<1>1. Aborted = (reads \o connect) \o writes
  BY DEF Aborted
<1>2. /\ reads \in Seq(Completion)
      /\ ~Queued(reads, Writes) /\ AtMostOne(reads, Writes)
      /\ Queued(reads, Listens) => readOps # <<>>
      /\ AtMostOne(reads, Listens)
  BY AbortedReads
<1>3. /\ connect \in Seq(Completion)
      /\ ~Queued(connect, Writes) /\ AtMostOne(connect, Writes)
      /\ Queued(connect, Listens) => sock = "connecting"
      /\ AtMostOne(connect, Listens)
  BY AbortedConnect
<1>4. /\ writes \in Seq(Completion)
      /\ ~Queued(writes, Listens) /\ AtMostOne(writes, Listens)
      /\ Queued(writes, Writes) => writeOps # <<>>
      /\ AtMostOne(writes, Writes)
  BY AbortedWrites
<1> HIDE DEF reads, connect, writes
<1>5. reads \o connect \in Seq(Completion)
  BY <1>2, <1>3, ConcatQueue
<1>6. /\ ~Queued(reads \o connect, Writes) /\ AtMostOne(reads \o connect, Writes)
      /\ Queued(reads \o connect, Listens) => readOps # <<>> \/ sock = "connecting"
      /\ AtMostOne(reads \o connect, Listens)
  BY <1>2, <1>3, ConcatQueue
<1>7. QED
  BY <1>1, <1>4, <1>5, <1>6, ConcatQueue

-----------------------------------------------------------------------------
(* Writes: the pieces of the actions *)

\* A step leaves the completions in S as they were.
Keeps(S) ==
    /\ Queued(ready', S) <=> Queued(ready, S)
    /\ AtMostOne(ready, S) => AtMostOne(ready', S)

LEMMA DropKeeps ==
  ASSUME AsioType, ready # <<>>, NEW S, Head(ready) \notin S,
         \/ ready' = Tail(ready)
         \/ \E c : c \notin S /\ ready' = Append(Tail(ready), c)
  PROVE  Keeps(S)
<1>1. ready \in Seq(Completion) /\ Tail(ready) \in Seq(Completion)
  BY DEF AsioType
<1>2. CASE ready' = Tail(ready)
  BY <1>1, <1>2, TailQueue DEF Keeps
<1>3. ASSUME NEW c, c \notin S, ready' = Append(Tail(ready), c)
      PROVE  Keeps(S)
  <2>1. /\ Queued(ready', S) <=> Queued(Tail(ready), S)
        /\ AtMostOne(Tail(ready), S) => AtMostOne(ready', S)
    BY <1>1, <1>3, AppendQueue
  <2>2. QED
    BY <1>1, <2>1, TailQueue DEF Keeps
<1>4. QED
  BY <1>2, <1>3

LEMMA AddKeeps ==
  ASSUME AsioType, NEW S,
         \/ ready' = ready
         \/ \E c : c \notin S /\ ready' = Append(ready, c)
  PROVE  Keeps(S)
<1>1. ready \in Seq(Completion)
  BY DEF AsioType
<1>2. CASE ready' = ready
  BY <1>2 DEF Keeps
<1>3. ASSUME NEW c, c \notin S, ready' = Append(ready, c)
      PROVE  Keeps(S)
  BY <1>1, <1>3, AppendQueue DEF Keeps
<1>4. QED
  BY <1>2, <1>3

\* Steps that have nothing to do with writes.
LEMMA WriteFrame ==
  ASSUME WriteInv, Keeps(Writes), Keeps(Sent),
         UNCHANGED <<m_bClosed, m_pendingList, writeOps, packCount, wire, reopens>>,
         m_bIsAlive' => m_bIsAlive,
         cont = "close" => cont' = "close"
  PROVE  WriteInv'
<1>1. SingleUse' => OneWrite' /\ WireOrdered'
  BY Zenon DEF WriteInv, SingleUse, OneWrite, WireOrdered, Keeps
<1>2. ASSUME Open' PROVE FrontInFlight'
  BY <1>2, Zenon DEF WriteInv, Open, FrontInFlight, Keeps
<1>3. ASSUME Open' PROVE Backlog'
  <2>1. Backlog /\ (Queued(ready', Sent) <=> Queued(ready, Sent))
    BY <1>3, Zenon DEF WriteInv, Open, Keeps
  <2>2. QED
    BY <2>1 DEF Backlog, Written
<1>4. QED
  BY <1>1, <1>2, <1>3 DEF WriteInv

\* A close, which a handler runs with its own completion taken from the queue.
LEMMA WriteClose ==
  ASSUME AsioType, WriteInv, ReadInv, NEW q \in Seq(Completion), do_close(q),
         Queued(q, Writes) => Queued(ready, Writes),
         AtMostOne(ready, Writes) => AtMostOne(q, Writes),
         UNCHANGED <<wire, reopens>>
  PROVE  WriteInv'
<1>1. ~Open'
  BY DEF do_close, Open, object
<1>2. SUFFICES ASSUME SingleUse' PROVE OneWrite' /\ WireOrdered'
  BY <1>1 DEF WriteInv
<1>3. OneWrite /\ WireOrdered /\ OneListen
  BY <1>2 DEF WriteInv, ReadInv, SingleUse
<1>4. WireOrdered'
  BY <1>3 DEF WireOrdered
<1>5. CASE ready' = q /\ writeOps' = writeOps
  <2>1. Len(writeOps') <= 1
    BY <1>3, <1>5 DEF OneWrite
  <2>2. AtMostOne(q, Writes) /\ (writeOps' # <<>> => ~Queued(q, Writes))
    BY <1>3, <1>5, Zenon DEF OneWrite
  <2>3. OneWrite'
    BY <1>5, <2>1, <2>2, Zenon DEF OneWrite
  <2>4. QED
    BY <1>4, <2>3
<1>6. CASE CloseSocket(q)
  <2>1. writeOps' = <<>> /\ ready' = q \o Aborted
    BY <1>6 DEF CloseSocket
  <2>2. AtMostOne(q \o Aborted, Writes)
    BY <1>3, AbortedQueue, ConcatQueue DEF OneWrite, OneListen
  <2>3. Len(writeOps') <= 1
    BY <2>1
  <2>4. OneWrite'
    BY <2>1, <2>2, <2>3, Zenon DEF OneWrite
  <2>5. QED
    BY <1>4, <2>4
<1>7. QED
  BY <1>4, <1>5, <1>6 DEF do_close

\* A read that a step starts, on a queue with the same writes.
LEMMA StartReadQueue ==
  ASSUME NEW op \in Reads, NEW q, StartRead(op, q)
  PROVE  \/ ready' = q
         \/ \E c : /\ c \in Completion /\ c.op = op /\ c.res = "failed"
                  /\ ready' = Append(q, c)
<1>1. op \in Ops
  BY DEF Ops
<1>2. LET c == Completed(op, "failed", 0) IN
        c \in Completion /\ c.op = op /\ c.res = "failed"
  BY <1>1, KindsOfCompletion
<1>3. QED
  BY <1>2 DEF StartRead

LEMMA ReadKeepsWrites ==
  ASSUME AsioType, NEW op \in Reads,
         \/ StartRead(op, ready)
         \/ ready # <<>> /\ Head(ready).op # "write" /\ StartRead(op, Tail(ready))
  PROVE  Keeps(Writes) /\ Keeps(Sent)
<1>1. \A c \in Completion : c.op = op => c \notin Writes /\ c \notin Sent
  BY KindsOfMember DEF Reads
<1>2. CASE StartRead(op, ready)
  BY <1>1, <1>2, StartReadQueue, AddKeeps
<1>3. CASE ready # <<>> /\ Head(ready).op # "write" /\ StartRead(op, Tail(ready))
  <2>1. Head(ready) \notin Writes /\ Head(ready) \notin Sent
    BY <1>3 DEF Writes, Sent
  <2>2. \/ ready' = Tail(ready)
        \/ \E c : /\ c \in Completion /\ c.op = op /\ c.res = "failed"
                 /\ ready' = Append(Tail(ready), c)
    BY <1>3, StartReadQueue, Zenon
  <2>3. \/ ready' = Tail(ready)
        \/ \E c : c \notin Writes /\ c \notin Sent /\ ready' = Append(Tail(ready), c)
    BY <1>1, <2>2, Zenon
  <2>4. QED
    BY <1>3, <2>1, <2>3, DropKeeps
<1>4. QED
  BY <1>2, <1>3

\* What a handler finds: the object is polled, so no callback is unfinished.
Polled == TypeOK /\ LifeInv /\ Quiet /\ WriteInv /\ ReadInv /\ pc = "poll" /\ ready # <<>>

LEMMA ReadOnWrites ==
  ASSUME Polled, Head(ready).op # "write", NEW op \in Reads, StartRead(op, Tail(ready)),
         UNCHANGED <<object, writeOps, packCount, wire, cont, reopens>>
  PROVE  WriteInv'
<1>1. Keeps(Writes) /\ Keeps(Sent)
  BY ReadKeepsWrites DEF Polled, TypeOK
<1>2. QED
  BY <1>1, WriteFrame DEF Polled, object

LEMMA CallWrites ==
  ASSUME Polled, Head(ready).op # "write", NEW e, CallLua(e, "read_header"),
         UNCHANGED <<packCount, wire, reopens>>
  PROVE  WriteInv'
<1>1. Head(ready) \notin Writes /\ Head(ready) \notin Sent /\ ready' = Tail(ready)
  BY DEF Writes, Sent, CallLua
<1>2. Keeps(Writes) /\ Keeps(Sent)
  BY <1>1, DropKeeps DEF Polled, TypeOK
<1>3. cont # "close"
  BY DEF Polled, Quiet
<1>4. QED
  BY <1>2, <1>3, WriteFrame DEF Polled, CallLua, object

LEMMA FailWrites ==
  ASSUME Polled, Head(ready).res = "failed", Fail, UNCHANGED <<packCount, wire, reopens>>
  PROVE  WriteInv'
<1>1. AsioType /\ ready \in Seq(Completion) /\ Tail(ready) \in Seq(Completion)
  BY DEF Polled, TypeOK, AsioType
<1>2. /\ Queued(Tail(ready), Writes) => Queued(ready, Writes)
      /\ AtMostOne(ready, Writes) => AtMostOne(Tail(ready), Writes)
  BY <1>1, TailQueue DEF Polled
<1>3. CASE CallLua([type |-> "error", head |-> 0, body |-> 0], "close")
  <2>1. /\ UNCHANGED <<m_bClosed, m_bIsAlive, m_pendingList, writeOps, packCount, wire, reopens>>
        /\ ready' = Tail(ready) /\ cont' = "close"
    BY <1>3 DEF CallLua, object
  <2>2. Head(ready) \notin Sent
    BY DEF Sent
  <2>3. Keeps(Sent)
    BY <1>1, <2>1, <2>2, DropKeeps DEF Polled
  <2>4. SingleUse' => OneWrite' /\ WireOrdered'
    BY <1>2, <2>1, Zenon DEF Polled, WriteInv, SingleUse, OneWrite, WireOrdered
  <2>5. Open' => FrontInFlight'
    BY <1>2, <2>1, Zenon DEF Polled, WriteInv, Open, FrontInFlight
  <2>6. ASSUME Open' PROVE Backlog'
    <3>1. Backlog /\ (Queued(ready', Sent) <=> Queued(ready, Sent))
      BY <2>1, <2>3, <2>6, Zenon DEF Polled, WriteInv, Open, Keeps
    <3>2. QED
      BY <2>1, <3>1 DEF Backlog, Written
  <2>7. QED
    BY <2>4, <2>5, <2>6 DEF WriteInv
<1>4. CASE do_close(Tail(ready))
  BY <1>1, <1>2, <1>4, WriteClose DEF Polled
<1>5. QED
  BY <1>3, <1>4 DEF Fail

LEMMA DispatchWrites ==
  ASSUME Polled, Head(ready).op # "write", NEW b, Dispatch(b),
         UNCHANGED <<packCount, wire, reopens>>
  PROVE  WriteInv'
<1>1. CASE CallLua([type |-> "data", head |-> headBuf, body |-> b], "read_header")
  BY <1>1, CallWrites
<1>2. CASE ReadOn
  BY <1>2, ReadOnWrites DEF ReadOn, do_read_header, Reads, thread
<1>3. QED
  BY <1>1, <1>2 DEF Dispatch

LEMMA ReadHandlerWrites ==
  ASSUME Polled, ConnectHandler \/ HeaderHandler \/ BodyHandler
  PROVE  WriteInv'
<1>1. UNCHANGED <<packCount, wire, reopens>> /\ Head(ready).op # "write"
  BY DEF ConnectHandler, HeaderHandler, BodyHandler, Handling, network
<1>2. Fail /\ Head(ready).res = "failed" => WriteInv'
  BY <1>1, FailWrites
<1>3. ReadOn => WriteInv'
  BY <1>1, ReadOnWrites DEF ReadOn, do_read_header, Reads, thread
<1>4. \A b : Dispatch(b) => WriteInv'
  BY <1>1, DispatchWrites
<1>5. CASE ConnectHandler
  BY <1>1, <1>2, <1>3, <1>5, CallWrites DEF ConnectHandler, Handling
<1>6. CASE HeaderHandler
  <2>1. do_read_body(Tail(ready)) /\ UNCHANGED <<object, thread>> => WriteInv'
    BY <1>1, ReadOnWrites DEF do_read_body, Reads, thread
  <2>2. QED
    BY <1>2, <1>3, <1>4, <1>6, <2>1 DEF HeaderHandler, Handling
<1>7. CASE BodyHandler
  <2>1. CASE /\ ready' = Tail(ready)
             /\ UNCHANGED <<object, buffers, sock, readOps, writeOps, cont, events>>
    <3>1. Head(ready) \notin Writes /\ Head(ready) \notin Sent
      BY <1>1 DEF Writes, Sent
    <3>2. Keeps(Writes) /\ Keeps(Sent)
      BY <2>1, <3>1, DropKeeps DEF Polled, TypeOK
    <3>3. QED
      BY <1>1, <2>1, <3>2, WriteFrame DEF Polled, object
  <2>2. QED
    BY <1>2, <1>4, <1>7, <2>1 DEF BodyHandler, Handling
<1>8. QED
  BY <1>5, <1>6, <1>7

\* Starting a write when none is in flight, of the front of list.
LEMMA StartWrite ==
  ASSUME AsioType, NEW q \in Seq(Completion), NEW list \in Seq(Packets), list # <<>>,
         do_write(list, q), writeOps = <<>>, ~Queued(q, Writes), AtMostOne(q, Writes)
  PROVE  /\ OneWrite'
         /\ ~Queued(ready', Sent)
         /\ writeOps' # <<>> => Head(writeOps') = Head(list)
         /\ m_bIsAlive => writeOps' # <<>> \/ Queued(ready', Writes)
<1> DEFINE c == Completed("write", "failed", Head(list))
<1>1. c \in Writes /\ c \notin Sent
  <2>1. Head(list) \in Packets
    OBVIOUS
  <2>2. Head(list) \in Nat
    BY <2>1, PacketsAreNat
  <2>3. QED
    BY <2>2, KindsOfCompletion DEF Ops
<1> HIDE DEF c
<1>2. ~Queued(q, Sent)
  BY SubKinds, SubQueue
<1>3. CASE ready' = q /\ writeOps' = writeOps /\ ~m_bIsAlive
  <2>1. Len(writeOps') <= 1
    BY <1>3
  <2>2. QED
    BY <1>2, <1>3, <2>1, Zenon DEF OneWrite
<1>4. CASE ready' = Append(q, c) /\ writeOps' = writeOps
  <2>1. Len(writeOps') <= 1
    BY <1>4
  <2>2. AtMostOne(ready', Writes) /\ Queued(ready', Writes) /\ ~Queued(ready', Sent)
    BY <1>1, <1>2, <1>4, AppendQueue
  <2>3. QED
    BY <1>4, <2>1, <2>2, Zenon DEF OneWrite
<1>5. CASE ready' = q /\ writeOps' = Append(writeOps, Head(list))
  <2>1. Len(writeOps') <= 1 /\ writeOps' # <<>> /\ Head(writeOps') = Head(list)
    BY <1>5
  <2>2. QED
    BY <1>2, <1>5, <2>1, Zenon DEF OneWrite
<1>6. QED
  BY <1>3, <1>4, <1>5 DEF do_write, c

\* Between connectSocket and the close the object is used for one connection.
LEMMA OpenIsSingleUse ==
  ASSUME ObjectLife
  PROVE  /\ Open => SingleUse
         /\ SingleUse /\ m_bIsAlive => Open
         /\ SingleUse /\ ~AtRest => Open
BY Zenon DEF ObjectLife, Open, SingleUse

-----------------------------------------------------------------------------
(* Writes: the actions *)

\* A packet has been written: the next one is started.
LEMMA PopWrites ==
  ASSUME Polled, Head(ready).op = "write", Head(ready).res = "done", PopWritten,
         UNCHANGED <<m_bClosed, m_bIsAlive, packCount, wire, cont, reopens>>
  PROVE  WriteInv'
<1>1. /\ AsioType /\ ObjectType
      /\ ready \in Seq(Completion) /\ Tail(ready) \in Seq(Completion)
      /\ m_pendingList \in Seq(Packets)
  BY DEF Polled, TypeOK, AsioType, ObjectType
<1>2. Head(ready) \in Sent /\ Head(ready) \in Writes
  BY <1>1 DEF Polled, Sent, Writes
<1>3. Queued(ready, Writes) /\ Queued(ready, Sent)
  BY <1>1, <1>2, TailQueue DEF Polled
<1>4. Open => SingleUse
  BY OpenIsSingleUse DEF Polled, LifeInv
<1>5. ASSUME SingleUse
      PROVE  /\ writeOps = <<>> /\ WireOrdered'
             /\ ~Queued(Tail(ready), Writes) /\ AtMostOne(Tail(ready), Writes)
  <2>1. OneWrite /\ WireOrdered
    BY <1>5 DEF Polled, WriteInv
  <2>2. writeOps = <<>> /\ AtMostOne(ready, Writes)
    BY <1>3, <2>1 DEF OneWrite
  <2>3. QED
    BY <1>1, <1>2, <2>1, <2>2, TailQueue DEF Polled, WireOrdered
<1>6. CASE m_pendingList # <<>> /\ Tail(m_pendingList) # <<>>
  <2> DEFINE list == Tail(m_pendingList)
  <2>1. /\ m_pendingList' = list /\ do_write(list, Tail(ready))
        /\ list \in Seq(Packets) /\ list # <<>>
    BY <1>1, <1>6 DEF PopWritten
  <2>2. ASSUME SingleUse
        PROVE  /\ OneWrite' /\ ~Queued(ready', Sent)
               /\ writeOps' # <<>> => Head(writeOps') = Head(list)
               /\ m_bIsAlive => writeOps' # <<>> \/ Queued(ready', Writes)
    <3> HIDE DEF list
    <3>1. QED
      BY <1>1, <1>5, <2>1, <2>2, StartWrite
  <2>3. ASSUME Open' PROVE FrontInFlight' /\ Backlog'
    <3>1. Open /\ FrontInFlight /\ Backlog /\ SingleUse
      BY <1>4, <2>3 DEF Open, Polled, WriteInv
    <3>2. FrontInFlight'
      BY <2>1, <2>2, <3>1, Zenon DEF Open, FrontInFlight
    <3>3. ~Queued(ready', Sent)
      BY <2>2, <3>1
    <3>4. packCount \in Nat /\ Len(wire) \in Nat /\ Len(m_pendingList) \in Nat
      BY <1>1 DEF Polled, TypeOK, NetworkType
    <3>5. Written' = Written + 1
      BY <1>1, <1>6, <2>1, <3>4 DEF Written
    <3>6. Len(wire) = Written + 1
      BY <1>3, <3>1 DEF Backlog
    <3>7. /\ Len(m_pendingList') <= packCount
          /\ \A i \in DOMAIN m_pendingList' : m_pendingList'[i] = Written + 1 + i
      <4>1. /\ Len(list) = Len(m_pendingList) - 1
            /\ \A i \in DOMAIN list : /\ i \in Nat /\ i + 1 \in DOMAIN m_pendingList
                                      /\ list[i] = m_pendingList[i + 1]
        BY <1>1, <1>6
      <4> HIDE DEF list
      <4>2. Len(list) <= packCount
        BY <3>1, <3>4, <4>1 DEF Backlog
      <4>3. \A i \in DOMAIN list : list[i] = Written + 1 + i
        BY <3>1, <3>4, <4>1 DEF Backlog, Written
      <4>4. QED
        BY <2>1, <4>2, <4>3
    <3>8. Backlog'
      BY <3>3, <3>5, <3>6, <3>7 DEF Backlog
    <3>9. QED
      BY <3>2, <3>8
  <2>4. QED
    BY <1>5, <2>2, <2>3 DEF WriteInv, SingleUse
<1>7. CASE m_pendingList # <<>> /\ Tail(m_pendingList) = <<>>
  <2>1. m_pendingList' = <<>> /\ ready' = Tail(ready) /\ writeOps' = writeOps
    BY <1>7 DEF PopWritten
  <2>2. ASSUME SingleUse PROVE OneWrite'
    <3>1. Len(writeOps') <= 1
      BY <1>5, <2>1, <2>2
    <3>2. QED
      BY <1>5, <2>1, <2>2, <3>1, Zenon DEF OneWrite
  <2>3. ASSUME Open' PROVE FrontInFlight' /\ Backlog'
    <3>1. Open /\ FrontInFlight /\ Backlog /\ SingleUse
      BY <1>4, <2>3 DEF Open, Polled, WriteInv
    <3>2. FrontInFlight'
      BY <1>5, <2>1, <3>1, Zenon DEF FrontInFlight
    <3>3. ~Queued(ready', Sent)
      BY <1>5, <2>1, <3>1, SubKinds, SubQueue
    <3>4. packCount \in Nat /\ Len(wire) \in Nat /\ Len(m_pendingList) = 1
      <4>1. Len(Tail(m_pendingList)) = Len(m_pendingList) - 1
        BY <1>1, <1>7
      <4>2. Len(m_pendingList) \in Nat
        BY <1>1
      <4>3. Len(Tail(m_pendingList)) = Len(<<>>)
        BY <1>7, Zenon
      <4>4. Len(<<>>) = 0
        OBVIOUS
      <4>5. QED
        BY <4>1, <4>2, <4>3, <4>4 DEF Polled, TypeOK, NetworkType
    <3>5. Len(wire) = Written + 1
      BY <1>3, <3>1 DEF Backlog
    <3>6. Backlog'
      BY <2>1, <3>3, <3>4, <3>5 DEF Backlog, Written
    <3>7. QED
      BY <3>2, <3>6
  <2>4. QED
    BY <1>5, <2>2, <2>3 DEF WriteInv, SingleUse
<1>8. CASE m_pendingList = <<>>
  <2>1. m_pendingList' = <<>> /\ ready' = Tail(ready) /\ writeOps' = writeOps
    BY <1>8 DEF PopWritten
  <2>2. ~Open
    BY <1>3, <1>8 DEF Polled, WriteInv, FrontInFlight
  <2>3. ASSUME SingleUse PROVE OneWrite'
    <3>1. Len(writeOps') <= 1
      BY <1>5, <2>1, <2>3
    <3>2. QED
      BY <1>5, <2>1, <2>3, <3>1, Zenon DEF OneWrite
  <2>4. QED
    BY <1>5, <2>2, <2>3 DEF WriteInv, SingleUse, Open
<1>9. QED
  BY <1>6, <1>7, <1>8

LEMMA WriteHandlerWrites ==
  ASSUME Polled, WriteHandler
  PROVE  WriteInv'
<1>1. UNCHANGED <<packCount, wire, reopens>> /\ Head(ready).op = "write"
  BY DEF WriteHandler, Handling, network
<1>2. CASE /\ Handling("write", "done") /\ PopWritten
           /\ UNCHANGED <<m_nHandle, m_bClosed, m_bIsAlive, buffers, sock,
                          readOps, cont, events>>
  BY <1>1, <1>2, PopWrites DEF Handling
<1>3. CASE Handling("write", "failed") /\ Fail
  BY <1>1, <1>3, FailWrites DEF Handling
<1>4. QED
  BY <1>2, <1>3 DEF WriteHandler

\* A packet is packed: it is queued behind the one in flight, or written.
LEMMA SendWrites ==
  ASSUME TypeOK, LifeInv, WriteInv, SendSocketData
  PROVE  WriteInv'
<1>1. /\ UNCHANGED <<m_bClosed, m_bIsAlive, wire, cont, reopens>> /\ m_bIsAlive
      /\ packCount' = packCount + 1
      /\ m_pendingList' = Append(m_pendingList, packCount + 1)
  BY DEF SendSocketData, network, thread
<1>2. /\ AsioType /\ ready \in Seq(Completion) /\ m_pendingList \in Seq(Packets)
      /\ packCount \in Nat /\ Len(wire) \in Nat /\ packCount + 1 \in Packets
  BY SocketAssumption
  DEF TypeOK, AsioType, ObjectType, NetworkType, SendSocketData, Packets
<1>3. SingleUse <=> Open
  BY <1>1, OpenIsSingleUse DEF LifeInv
<1>4. Open' => Open
  BY <1>1 DEF Open
<1>5. SUFFICES ASSUME SingleUse PROVE OneWrite' /\ WireOrdered' /\ FrontInFlight' /\ Backlog'
  BY <1>1, <1>3, <1>4 DEF WriteInv, SingleUse
<1>6. OneWrite /\ WireOrdered /\ FrontInFlight /\ Backlog
  BY <1>3, <1>5 DEF WriteInv
<1>7. WireOrdered'
  BY <1>1, <1>6 DEF WireOrdered
<1>8. m_pendingList' # <<>> /\ Written' = Written
  BY <1>1, <1>2 DEF Written
<1>9. /\ Len(m_pendingList') <= packCount'
      /\ \A i \in DOMAIN m_pendingList' : m_pendingList'[i] = Written + i
  BY <1>1, <1>2, <1>6 DEF Backlog, Written
<1>10. CASE m_pendingList = <<>>
  <2>1. do_write(<<packCount + 1>>, ready)
    BY <1>10 DEF SendSocketData
  <2>2. writeOps = <<>> /\ ~Queued(ready, Writes) /\ AtMostOne(ready, Writes)
    BY <1>6, <1>10 DEF FrontInFlight, OneWrite
  <2>3. <<packCount + 1>> \in Seq(Packets) /\ <<packCount + 1>> # <<>>
    BY <1>2
  <2>4. /\ OneWrite' /\ ~Queued(ready', Sent)
        /\ writeOps' # <<>> => Head(writeOps') = Head(<<packCount + 1>>)
        /\ writeOps' # <<>> \/ Queued(ready', Writes)
    BY <1>1, <1>2, <2>1, <2>2, <2>3, StartWrite
  <2>5. Head(m_pendingList') = Head(<<packCount + 1>>)
    BY <1>1, <1>2, <1>10
  <2>6. FrontInFlight'
    BY <1>8, <2>4, <2>5, Zenon DEF FrontInFlight
  <2>7. ~Queued(ready, Sent)
    BY <2>2, SubKinds, SubQueue
  <2>8. Backlog'
    BY <1>1, <1>6, <1>8, <1>9, <2>4, <2>7 DEF Backlog
  <2>9. QED
    BY <1>7, <2>4, <2>6, <2>8
<1>11. CASE m_pendingList # <<>>
  <2>1. ready' = ready /\ writeOps' = writeOps
    BY <1>11 DEF SendSocketData
  <2>2. Head(m_pendingList') = Head(m_pendingList)
    BY <1>1, <1>2, <1>11
  <2>3. OneWrite'
    BY <1>6, <2>1 DEF OneWrite
  <2>4. FrontInFlight'
    BY <1>1, <1>6, <1>8, <1>11, <2>1, <2>2, Zenon DEF FrontInFlight
  <2>5. Backlog'
    BY <1>1, <1>6, <1>8, <1>9, <2>1 DEF Backlog
  <2>6. QED
    BY <1>7, <2>3, <2>4, <2>5
<1>12. QED
  BY <1>10, <1>11

\* The network takes the packet being written, or fails to.
LEMMA EndWrites ==
  ASSUME TypeOK, LifeInv, WriteInv, CompleteWrite \/ FailWrite
  PROVE  WriteInv'
<1>1. /\ UNCHANGED <<m_bClosed, m_bIsAlive, m_pendingList, packCount, cont, reopens>>
      /\ writeOps # <<>> /\ writeOps' = Tail(writeOps)
  BY DEF CompleteWrite, FailWrite, OthersIdle, object, thread
<1>2. /\ AsioType /\ ready \in Seq(Completion) /\ writeOps \in Seq(Packets)
      /\ packCount \in Nat /\ wire \in Seq(Packets) /\ m_pendingList \in Seq(Packets)
  BY DEF TypeOK, AsioType, ObjectType, NetworkType
<1>3. SingleUse <=> Open
  BY <1>1, OpenIsSingleUse DEF LifeInv, AtRest
<1>4. Open' => Open
  BY <1>1 DEF Open
<1>5. SUFFICES ASSUME SingleUse PROVE OneWrite' /\ WireOrdered' /\ FrontInFlight' /\ Backlog'
  BY <1>1, <1>3, <1>4 DEF WriteInv, SingleUse
<1>6. OneWrite /\ WireOrdered /\ FrontInFlight /\ Backlog
  BY <1>3, <1>5 DEF WriteInv
<1>7. writeOps' = <<>> /\ Len(writeOps') <= 1
  BY <1>1, <1>2, <1>6 DEF OneWrite
<1>8. ~Queued(ready, Writes) /\ AtMostOne(ready, Writes) /\ ~Queued(ready, Sent)
  BY <1>1, <1>6, SubKinds, SubQueue DEF OneWrite
<1>9. /\ m_pendingList # <<>> /\ Len(wire) = Written
      /\ Head(writeOps) = Written + 1
  <2>1. m_pendingList # <<>> /\ Head(writeOps) = Head(m_pendingList) /\ Len(wire) = Written
    BY <1>1, <1>6, <1>8 DEF FrontInFlight, Backlog
  <2>2. Head(m_pendingList) = m_pendingList[1] /\ 1 \in DOMAIN m_pendingList
    BY <1>2, <2>1
  <2>3. QED
    BY <1>6, <2>1, <2>2 DEF Backlog
<1>10. PICK c : /\ c \in Writes /\ ready' = Append(ready, c)
                /\ \/ c \in Sent /\ wire' = Append(wire, Head(writeOps))
                   \/ c \notin Sent /\ wire' = wire
  <2>1. Head(writeOps) \in Packets
    BY <1>1, <1>2
  <2>2. Head(writeOps) \in Nat
    BY <2>1, PacketsAreNat
  <2>3. \A res \in {"done", "failed"} :
          LET c == Completed("write", res, Head(writeOps)) IN
          c \in Writes /\ (c \in Sent <=> res = "done")
    BY <2>2, KindsOfCompletion DEF Ops
  <2>4. QED
    BY <2>3 DEF CompleteWrite, FailWrite, Post, network
<1>11. /\ AtMostOne(ready', Writes) /\ Queued(ready', Writes)
       /\ Queued(ready', Sent) <=> c \in Sent
  BY <1>2, <1>8, <1>10, AppendQueue
<1>12. OneWrite'
  BY <1>7, <1>11, Zenon DEF OneWrite
<1>13. FrontInFlight'
  BY <1>1, <1>7, <1>9, <1>11, Zenon DEF FrontInFlight
<1>14. Written' = Written
  BY <1>1 DEF Written
<1>15. CASE c \in Sent
  <2>1. wire' = Append(wire, Written + 1) /\ Len(wire') = Written + 1
    BY <1>2, <1>9, <1>10, <1>15
  <2>2. WireOrdered'
    BY <1>2, <1>6, <1>9, <2>1 DEF WireOrdered
  <2>3. Backlog'
    BY <1>1, <1>6, <1>11, <1>14, <1>15, <2>1 DEF Backlog
  <2>4. QED
    BY <1>12, <1>13, <2>2, <2>3
<1>16. CASE c \notin Sent
  <2>1. WireOrdered'
    BY <1>6, <1>10, <1>16 DEF WireOrdered
  <2>2. Backlog'
    BY <1>1, <1>6, <1>8, <1>10, <1>11, <1>14, <1>16 DEF Backlog
  <2>3. QED
    BY <1>12, <1>13, <2>1, <2>2
<1>17. QED
  BY <1>15, <1>16

LEMMA ConnectWrites ==
  ASSUME TypeOK, LifeInv, WriteInv, ReadInv, Connect
  PROVE  WriteInv'
<1>1. /\ UNCHANGED <<packCount, wire, cont>>
      /\ AsioType /\ ready \in Seq(Completion)
  BY DEF Connect, TypeOK, AsioType, network, thread
<1>2. CASE m_bClosed
  <2>1. reopens \in Nat /\ reopens' = reopens + 1
    BY <1>2, SocketAssumption DEF Connect, TypeOK
  <2>2. m_bClosed'
    BY <1>2 DEF Connect
  <2>3. reopens' # 0
    BY <2>1
  <2>4. QED
    BY <2>2, <2>3, Zenon DEF WriteInv, SingleUse, Open
<1>3. CASE ~m_bClosed /\ do_close(ready)
  <2>1. reopens' = reopens
    BY <1>3 DEF Connect
  <2>2. QED
    BY <1>1, <1>3, <2>1, WriteClose
<1>4. CASE /\ ~m_bClosed
           /\ UNCHANGED <<m_nHandle, m_bClosed, m_pendingList, readOps, writeOps, ready>>
  <2>1. reopens' = reopens /\ ~m_bIsAlive
    BY <1>4 DEF Connect
  <2>2. Unused /\ AtRest
    BY <1>4, <2>1 DEF LifeInv, ObjectLife, SingleUse
  <2>3. SingleUse' => OneWrite' /\ WireOrdered'
    BY <1>1, <1>4, <2>1, Zenon DEF WriteInv, SingleUse, OneWrite, WireOrdered
  <2>4. ~Queued(ready, Writes) /\ ~Queued(ready, Sent)
    BY <2>2, EmptyQueue DEF Unused
  <2>5. FrontInFlight'
    BY <1>4, <2>2, <2>4, Zenon DEF AtRest, FrontInFlight
  <2>6. Backlog'
    <3>1. /\ packCount' = 0 /\ Len(m_pendingList') = 0 /\ Len(wire') = 0
          /\ m_pendingList' = <<>>
      BY <1>1, <1>4, <2>2 DEF AtRest, Unused
    <3>2. ~Queued(ready', Sent)
      BY <1>4, <2>4
    <3>3. QED
      BY <3>1, <3>2 DEF Backlog, Written
  <2>7. QED
    BY <2>3, <2>5, <2>6 DEF WriteInv
<1>5. QED
  BY <1>2, <1>3, <1>4 DEF Connect

LEMMA ReturnWrites ==
  ASSUME TypeOK, WriteInv, ReadInv, Return
  PROVE  WriteInv'
<1>1. UNCHANGED <<packCount, wire, reopens>> /\ AsioType /\ ready \in Seq(Completion)
  BY DEF Return, TypeOK, AsioType, network
<1>2. CASE cont = "read_header" /\ do_read_header(ready) /\ UNCHANGED object
  <2>1. Keeps(Writes) /\ Keeps(Sent)
    BY <1>1, <1>2, ReadKeepsWrites DEF do_read_header, Reads
  <2>2. QED
    BY <1>1, <1>2, <2>1, WriteFrame DEF do_read_header, object
<1>3. CASE do_close(ready)
  BY <1>1, <1>3, WriteClose
<1>4. QED
  BY <1>2, <1>3 DEF Return

LEMMA NetworkWrites ==
  ASSUME TypeOK, LifeInv, WriteInv, Network
  PROVE  WriteInv'
<1>1. CASE CompleteConnect \/ CompleteHeader \/ CompleteBody \/ FailRead
  <2>1. UNCHANGED <<m_bClosed, m_bIsAlive, m_pendingList, writeOps, packCount, wire, cont, reopens>>
    BY <1>1 DEF CompleteConnect, CompleteHeader, CompleteBody, FailRead, OthersIdle,
       object, network, thread
  <2>2. AsioType
    BY DEF TypeOK
  <2>3. readOps # <<>> => Head(readOps) \in Reads
    BY <2>2 DEF AsioType
  <2>4. \E op \in Ops \ {"write"} : \E res \in {"done", "failed"} : Post(op, res, 0)
    BY <1>1, <2>3
    DEF CompleteConnect, CompleteHeader, CompleteBody, FailRead, Ops, Reads
  <2>5. \E c : c \notin Writes /\ c \notin Sent /\ ready' = Append(ready, c)
    BY <2>4, KindsOfCompletion DEF Post
  <2>6. Keeps(Writes) /\ Keeps(Sent)
    BY <2>2, <2>5, AddKeeps
  <2>7. QED
    BY <2>1, <2>6, WriteFrame
<1>2. QED
  BY <1>1, EndWrites DEF Network

LEMMA FrameWrites ==
  ASSUME TypeOK, WriteInv, PollStart \/ PollEnd \/ DrainPool \/ UNCHANGED vars
  PROVE  WriteInv'
<1>1. /\ UNCHANGED <<m_bClosed, m_bIsAlive, m_pendingList, writeOps, packCount, wire,
                     cont, reopens>>
      /\ ready' = ready
  BY DEF PollStart, PollEnd, DrainPool, vars, object, asio, network, thread
<1>2. Keeps(Writes) /\ Keeps(Sent)
  BY <1>1 DEF Keeps
<1>3. QED
  BY <1>1, <1>2, WriteFrame

LEMMA NextWrites ==
  TypeOK /\ Quiet /\ LifeInv /\ WriteInv /\ ReadInv /\ [Next]_vars => WriteInv'
<1> SUFFICES ASSUME TypeOK, Quiet, LifeInv, WriteInv, ReadInv, [Next]_vars PROVE WriteInv'
  OBVIOUS
<1>1. CASE RunHandler
  <2>1. Polled
    BY <1>1 DEF RunHandler, ConnectHandler, HeaderHandler, BodyHandler, WriteHandler,
       Handling, Polled
  <2>2. QED
    BY <1>1, <2>1, ReadHandlerWrites, WriteHandlerWrites DEF RunHandler
<1>2. CASE StopServer
  <2>1. AsioType /\ ready \in Seq(Completion)
    BY DEF TypeOK, AsioType
  <2>2. QED
    BY <1>2, <2>1, WriteClose DEF StopServer, network
<1>3. QED
  BY <1>1, <1>2, ConnectWrites, SendWrites, ReturnWrites, FrameWrites, NetworkWrites
  DEF Next, Lua, MainThread

LEMMA InitWrites == Init => WriteInv
<1> SUFFICES ASSUME Init PROVE WriteInv
  OBVIOUS
<1>1. OneWrite /\ WireOrdered
  BY EmptyQueue DEF Init, OneWrite, WireOrdered
<1>2. ~Open
  BY DEF Init, Open
<1>3. QED
  BY <1>1, <1>2 DEF WriteInv

-----------------------------------------------------------------------------
(* Reads: the pieces of the actions *)

\* A step adds no completion in S.
Shrinks(S) ==
    /\ Queued(ready', S) => Queued(ready, S)
    /\ AtMostOne(ready, S) => AtMostOne(ready', S)

ListensShrink ==
    /\ Shrinks(Listens) /\ Shrinks(Connects)
    /\ Shrinks(HeadersDone) /\ Shrinks(BodiesDone)

\* Steps that start and end no read.
LEMMA ReadFrame ==
  ASSUME ReadInv, ListensShrink,
         UNCHANGED <<m_bClosed, readOps, sock, received, buffers, reopens>>,
         m_bIsAlive' => m_bIsAlive,
         cont' \in {cont, "none", "close"},
         Open' => Listening'
  PROVE  ReadInv'
<1>1. SingleUse' => OneListen'
  <2>1. SUFFICES ASSUME SingleUse' PROVE OneListen'
    OBVIOUS
  <2>2. OneListen
    BY <2>1 DEF ReadInv, SingleUse
  <2>3. cont' = "read_header" => cont = "read_header"
    OBVIOUS
  <2>4. QED
    BY <2>2, <2>3, Zenon DEF OneListen, ListensShrink, Shrinks
<1>2. ASSUME Open' PROVE Framing'
  <2>1. Framing
    BY <1>2 DEF ReadInv, Open
  <2>2. /\ BodyDue' <=> BodyDue
        /\ HeaderHeld' <=> HeaderHeld
        /\ UNCHANGED <<bodyBuf, received, readOps, sock>>
    BY DEF BodyDue, HeaderHeld, buffers
  <2>3. cont' = "read_header" => cont = "read_header"
    OBVIOUS
  <2>4. QED
    BY <2>1, <2>2, <2>3, Zenon DEF Framing, ListensShrink, Shrinks
<1>3. QED
  BY <1>1, <1>2 DEF ReadInv

\* A queue with a completion less, or with another write.
LEMMA DropShrinks ==
  ASSUME AsioType, ready # <<>>, ready' = Tail(ready)
  PROVE  ListensShrink
<1>1. ready \in Seq(Completion)
  BY DEF AsioType
<1>2. \A S : Shrinks(S)
  BY <1>1, TailQueue DEF Shrinks
<1>3. QED
  BY <1>2, Zenon DEF ListensShrink

LEMMA AddWriteKeeps ==
  ASSUME AsioType,
         \/ \E c \in Writes : ready' = Append(ready, c)
         \/ ready' = ready
         \/ /\ ready # <<>> /\ Head(ready).op = "write"
            /\ \/ ready' = Tail(ready)
               \/ \E c \in Writes : ready' = Append(Tail(ready), c)
  PROVE  ListensShrink /\ Keeps(Listens)
<1>1. ASSUME NEW S \in {Listens, Connects, HeadersDone, BodiesDone}
      PROVE  Keeps(S)
  <2>1. \A c \in Writes : c \notin S
    BY DEF Writes, Listens, Connects, HeadersDone, BodiesDone
  <2>2. CASE \/ \E c \in Writes : ready' = Append(ready, c)
             \/ ready' = ready
    BY <2>1, <2>2, AddKeeps
  <2>3. CASE /\ ready # <<>> /\ Head(ready).op = "write"
             /\ \/ ready' = Tail(ready)
                \/ \E c \in Writes : ready' = Append(Tail(ready), c)
    <3>1. Head(ready) \notin S
      BY <2>3 DEF Listens, Connects, HeadersDone, BodiesDone
    <3>2. QED
      BY <2>1, <2>3, <3>1, DropKeeps
  <2>4. QED
    BY <2>2, <2>3
<1>2. QED
  BY <1>1, Zenon DEF ListensShrink, Shrinks, Keeps

LEMMA ReadClose ==
  ASSUME AsioType, WriteInv, ReadInv, NEW q \in Seq(Completion), do_close(q),
         Queued(q, Listens) => Queued(ready, Listens),
         AtMostOne(ready, Listens) => AtMostOne(q, Listens),
         cont' \in {cont, "none"}, reopens' = reopens
  PROVE  ReadInv'
<1>1. ~Open'
  BY DEF do_close, Open, object
<1>2. SUFFICES ASSUME SingleUse' PROVE OneListen'
  BY <1>1 DEF ReadInv
<1>3. OneWrite /\ OneListen
  BY <1>2 DEF WriteInv, ReadInv, SingleUse
<1>4. cont' = "read_header" => cont = "read_header"
  OBVIOUS
<1>5. CASE ready' = q /\ UNCHANGED <<sock, readOps>>
  BY <1>3, <1>4, <1>5, Zenon DEF OneListen
<1>6. CASE CloseSocket(q)
  <2>1. readOps' = <<>> /\ sock' = "closed" /\ ready' = q \o Aborted
    BY <1>6 DEF CloseSocket
  <2>2. /\ AtMostOne(q \o Aborted, Listens)
        /\ Queued(q \o Aborted, Listens) =>
             Queued(ready, Listens) \/ readOps # <<>> \/ sock = "connecting"
    BY <1>3, AbortedQueue, ConcatQueue DEF OneWrite, OneListen
  <2>3. Len(readOps') <= 1 /\ sock' # "connecting"
    BY <2>1
  <2>4. cont' = "read_header" => ~Queued(q \o Aborted, Listens)
    BY <1>3, <1>4, <2>2, Zenon DEF OneListen
  <2>5. QED
    BY <2>1, <2>2, <2>3, <2>4, Zenon DEF OneListen
<1>7. QED
  BY <1>5, <1>6 DEF do_close

\* Starting a read when nothing else is in flight.
LEMMA StartReadReads ==
  ASSUME AsioType, NEW q \in Seq(Completion), NEW op \in Reads, StartRead(op, q),
         SingleUse => /\ readOps = <<>> /\ sock # "connecting"
                      /\ ~Queued(q, Listens) /\ AtMostOne(q, Listens),
         ObjectLife,
         Open => /\ bodyBuf <= Len(received)
                 /\ op = "body" <=> BodyDue
                 /\ BodyDue => HeaderHeld /\ headBuf' = headBuf,
         UNCHANGED <<m_bClosed, m_bIsAlive, sock, received, bodyBuf, reopens>>,
         cont' = "none"
  PROVE  ReadInv'
<1>1. PICK c : /\ c \in Listens /\ c \notin Connects
               /\ c \notin HeadersDone /\ c \notin BodiesDone
               /\ \/ readOps' = readOps /\ ready' = Append(q, c)
                  \/ readOps' = Append(readOps, op) /\ ready' = q
  <2>1. op \in Ops /\ op # "write" /\ op # "connect"
    BY DEF Ops, Reads
  <2>2. QED
    BY <2>1, KindsOfCompletion DEF StartRead
<1>2. Open => SingleUse
  BY OpenIsSingleUse
<1>3. ASSUME SingleUse
      PROVE  /\ OneListen'
             /\ readOps' # <<>> \/ Queued(ready', Listens)
             /\ \A S \in {Connects, HeadersDone, BodiesDone} : ~Queued(ready', S)
             /\ readOps' # <<>> => Head(readOps') = op
  <2>1. \A S \in {Connects, HeadersDone, BodiesDone} : ~Queued(q, S)
    BY <1>3, SubKinds, SubQueue
  <2>2. CASE readOps' = readOps /\ ready' = Append(q, c)
    <3>1. /\ AtMostOne(ready', Listens) /\ Queued(ready', Listens)
          /\ \A S \in {Connects, HeadersDone, BodiesDone} : ~Queued(ready', S)
      BY <1>1, <1>3, <2>1, <2>2, AppendQueue
    <3>2. Len(readOps') <= 1 /\ readOps' = <<>> /\ cont' # "read_header"
      BY <1>3, <2>2
    <3>3. QED
      BY <1>3, <3>1, <3>2, Zenon DEF OneListen
  <2>3. CASE readOps' = Append(readOps, op) /\ ready' = q
    <3>1. Len(readOps') <= 1 /\ readOps' # <<>> /\ Head(readOps') = op /\ cont' # "read_header"
      BY <1>3, <2>3
    <3>2. QED
      BY <1>3, <2>1, <2>3, <3>1, Zenon DEF OneListen
  <2>4. QED
    BY <1>1, <2>2, <2>3
<1>4. ASSUME Open' PROVE Listening' /\ Framing'
  <2>1. Open /\ SingleUse
    BY <1>2, <1>4 DEF Open
  <2>2. Listening'
    BY <1>3, <2>1, Zenon DEF Listening
  <2>3. /\ bodyBuf' <= Len(received') /\ (BodyDue' <=> BodyDue)
        /\ BodyDue => HeaderHeld'
    BY <2>1 DEF BodyDue, HeaderHeld
  <2>4. /\ sock' # "connecting" /\ cont' # "read_header"
        /\ ~Queued(ready', Connects) /\ ~Queued(ready', HeadersDone)
        /\ ~Queued(ready', BodiesDone)
        /\ readOps' # <<>> => (Head(readOps') = "body" <=> BodyDue)
    BY <1>3, <2>1
  <2>5. Framing'
    BY <2>3, <2>4, Zenon DEF Framing
  <2>6. QED
    BY <2>2, <2>5
<1>5. QED
  BY <1>3, <1>4 DEF ReadInv, SingleUse

\* A handler of a read or a connect finds nothing else in flight.
LEMMA PolledReads ==
  ASSUME Polled, Head(ready).op # "write", SingleUse
  PROVE  /\ Head(ready) \in Listens /\ Queued(ready, Listens)
         /\ readOps = <<>> /\ sock # "connecting"
         /\ ~Queued(Tail(ready), Listens) /\ AtMostOne(Tail(ready), Listens)
<1>1. ready \in Seq(Completion)
  BY DEF Polled, TypeOK, AsioType
<1>2. Head(ready) \in Listens
  BY <1>1 DEF Polled, Listens
<1>3. OneListen
  BY DEF Polled, ReadInv
<1>4. Queued(ready, Listens)
  BY <1>1, <1>2, TailQueue DEF Polled
<1>5. readOps = <<>> /\ sock # "connecting" /\ AtMostOne(ready, Listens)
  BY <1>3, <1>4 DEF OneListen
<1>6. QED
  BY <1>1, <1>2, <1>4, <1>5, TailQueue DEF Polled

-----------------------------------------------------------------------------
(* Reads: the actions *)

LEMMA CallReads ==
  ASSUME Polled, Head(ready).op # "write", NEW e, CallLua(e, "read_header"),
         UNCHANGED <<received, reopens>>, Open => ~BodyDue
  PROVE  ReadInv'
<1>1. /\ UNCHANGED <<m_bClosed, m_bIsAlive, readOps, sock, received, headBuf, bodyBuf, reopens>>
      /\ ready' = Tail(ready) /\ cont' = "read_header"
  BY DEF CallLua, object, buffers
<1>2. SingleUse => /\ readOps = <<>> /\ sock # "connecting"
                   /\ ~Queued(Tail(ready), Listens) /\ AtMostOne(Tail(ready), Listens)
  BY PolledReads
<1>3. ASSUME SingleUse PROVE OneListen'
  <2>1. Len(readOps') <= 1
    BY <1>1, <1>2, <1>3
  <2>2. QED
    BY <1>1, <1>2, <1>3, <2>1, Zenon DEF OneListen
<1>4. ASSUME Open' PROVE Listening' /\ Framing'
  <2>1. Open /\ SingleUse
    BY <1>1, <1>4, OpenIsSingleUse DEF Open, Polled, LifeInv
  <2>2. ~BodyDue' /\ bodyBuf' <= Len(received')
    BY <1>1, <2>1 DEF BodyDue, Polled, ReadInv, Framing
  <2>3. ~Queued(ready', Connects) /\ ~Queued(ready', HeadersDone) /\ ~Queued(ready', BodiesDone)
    BY <1>1, <1>2, <2>1, SubKinds, SubQueue
  <2>4. readOps' = <<>> /\ sock' # "connecting"
    BY <1>1, <1>2, <2>1
  <2>5. Framing'
    BY <2>2, <2>3, <2>4, Zenon DEF Framing
  <2>6. QED
    BY <1>1, <2>5 DEF Listening
<1>5. QED
  BY <1>1, <1>3, <1>4 DEF ReadInv, SingleUse

LEMMA FailReads ==
  ASSUME Polled, Fail, UNCHANGED <<received, reopens>>
  PROVE  ReadInv'
<1>1. AsioType /\ ready \in Seq(Completion) /\ Tail(ready) \in Seq(Completion) /\ ready # <<>>
  BY DEF Polled, TypeOK, AsioType
<1>2. CASE CallLua([type |-> "error", head |-> 0, body |-> 0], "close")
  <2>1. /\ UNCHANGED <<m_bClosed, m_bIsAlive, readOps, sock, received, buffers, reopens>>
        /\ ready' = Tail(ready) /\ cont' = "close"
    BY <1>2 DEF CallLua, object
  <2>2. ListensShrink
    BY <1>1, <2>1, DropShrinks
  <2>3. Listening'
    BY <2>1 DEF Listening
  <2>4. QED
    BY <2>1, <2>2, <2>3, ReadFrame DEF Polled
<1>3. CASE do_close(Tail(ready)) /\ UNCHANGED <<buffers, thread>>
  <2>1. /\ Queued(Tail(ready), Listens) => Queued(ready, Listens)
        /\ AtMostOne(ready, Listens) => AtMostOne(Tail(ready), Listens)
    BY <1>1, TailQueue
  <2>2. cont' = cont
    BY <1>3 DEF thread
  <2>3. QED
    BY <1>1, <1>3, <2>1, <2>2, ReadClose DEF Polled
<1>4. QED
  BY <1>2, <1>3 DEF Fail

LEMMA StartReads ==
  ASSUME Polled, Head(ready).op # "write", NEW op \in Reads, StartRead(op, Tail(ready)),
         UNCHANGED <<object, sock, thread, received, bodyBuf, reopens>>,
         Open => /\ op = "body" <=> BodyDue
                 /\ BodyDue => HeaderHeld /\ headBuf' = headBuf
  PROVE  ReadInv'
<1>1. AsioType /\ Tail(ready) \in Seq(Completion) /\ ObjectLife /\ cont = "none"
  BY DEF Polled, TypeOK, AsioType, LifeInv, Quiet
<1>2. SingleUse => /\ readOps = <<>> /\ sock # "connecting"
                   /\ ~Queued(Tail(ready), Listens) /\ AtMostOne(Tail(ready), Listens)
  BY PolledReads
<1>3. Open => bodyBuf <= Len(received)
  BY DEF Polled, ReadInv, Framing
<1>4. UNCHANGED <<m_bClosed, m_bIsAlive, sock, received, bodyBuf, reopens>> /\ cont' = "none"
  BY <1>1 DEF object, thread
<1>5. QED
  BY <1>1, <1>2, <1>3, <1>4, StartReadReads

LEMMA ReadOnReads ==
  ASSUME Polled, Head(ready).op # "write", ReadOn, UNCHANGED <<received, reopens>>,
         Open => ~BodyDue
  PROVE  ReadInv'
BY StartReads DEF ReadOn, do_read_header, Reads

LEMMA DispatchReads ==
  ASSUME Polled, Head(ready).op # "write", NEW b, Dispatch(b),
         UNCHANGED <<received, reopens>>, Open => ~BodyDue
  PROVE  ReadInv'
BY CallReads, ReadOnReads DEF Dispatch

\* What a handler of a completed read finds in the NetBuffer.
LEMMA HeaderBuffered ==
  ASSUME Polled, Handling("header", "done"), Open
  PROVE  /\ HeaderHeld /\ HeadKind = Last(received)
         /\ BodyDue <=> HasBody(HeadKind)
<1>1. ready \in Seq(Completion) /\ received \in Seq(Kinds)
  BY DEF Polled, TypeOK, AsioType, NetworkType
<1>2. Head(ready) \in HeadersDone
  BY <1>1 DEF Polled, Handling, HeadersDone, Listens
<1>3. Queued(ready, HeadersDone) /\ Framing
  BY <1>1, <1>2, TailQueue DEF Polled, ReadInv
<1>4. HeaderHeld /\ bodyBuf # Len(received)
  BY <1>3 DEF Framing
<1>5. headBuf = Len(received) /\ received # <<>> /\ Len(received) # 0
  BY <1>1, <1>4 DEF HeaderHeld
<1>6. HeadKind = Last(received)
  BY <1>5 DEF HeadKind, Last
<1>7. QED
  BY <1>4, <1>5, <1>6 DEF BodyDue

LEMMA BodyBuffered ==
  ASSUME Polled, Handling("body", "done"), Open
  PROVE  /\ HeaderHeld /\ HeadKind = Last(received) /\ headBuf # 0
         /\ bodyBuf = Len(received) /\ HasBody(HeadKind) /\ ~BodyDue
<1>1. ready \in Seq(Completion) /\ received \in Seq(Kinds)
  BY DEF Polled, TypeOK, AsioType, NetworkType
<1>2. Head(ready) \in BodiesDone
  BY <1>1 DEF Polled, Handling, BodiesDone, Listens
<1>3. Queued(ready, BodiesDone) /\ Framing
  BY <1>1, <1>2, TailQueue DEF Polled, ReadInv
<1>4. HeaderHeld /\ bodyBuf = Len(received) /\ HasBody(Last(received))
  BY <1>3 DEF Framing
<1>5. headBuf = Len(received) /\ received # <<>> /\ Len(received) # 0
  BY <1>1, <1>4 DEF HeaderHeld
<1>6. HeadKind = Last(received)
  BY <1>5 DEF HeadKind, Last
<1>7. QED
  BY <1>4, <1>5, <1>6 DEF BodyDue

LEMMA HandlerReads ==
  ASSUME Polled, RunHandler
  PROVE  ReadInv'
<1>1. UNCHANGED <<packCount, received, reopens>>
  BY DEF RunHandler, ConnectHandler, HeaderHandler, BodyHandler, WriteHandler, network
<1>2. Fail => ReadInv'
  BY <1>1, FailReads
<1>3. CASE ConnectHandler
  <2>1. ~Handling("connect", "failed") => Head(ready).op # "write" /\ (Open => ~BodyDue)
    <3>1. SUFFICES ASSUME Handling("connect", "done")
                   PROVE  Head(ready).op # "write" /\ (Open => ~BodyDue)
      BY <1>3 DEF ConnectHandler
    <3>2. ready \in Seq(Completion)
      BY DEF Polled, TypeOK, AsioType
    <3>3. Head(ready) \in Connects
      BY <3>1, <3>2 DEF Polled, Handling, Connects
    <3>4. Queued(ready, Connects)
      BY <3>2, <3>3, TailQueue DEF Polled
    <3>5. Open => received = <<>>
      BY <3>4 DEF Polled, ReadInv, Framing
    <3>6. QED
      BY <3>1, <3>5 DEF Handling, BodyDue
  <2>2. QED
    BY <1>1, <1>2, <1>3, <2>1, CallReads, ReadOnReads DEF ConnectHandler, Handling
<1>4. CASE HeaderHandler
  <2>1. CASE Handling("header", "failed") /\ Fail
    BY <1>2, <2>1
  <2>2. CASE Handling("header", "done") /\ HeadKind = "short" /\ ReadOn
    <3>1. Open => ~BodyDue
      BY <2>2, HeaderBuffered DEF HasBody
    <3>2. QED
      BY <1>1, <2>2, <3>1, ReadOnReads DEF Handling
  <2>3. CASE /\ Handling("header", "done") /\ HasBody(HeadKind)
             /\ do_read_body(Tail(ready)) /\ UNCHANGED <<object, thread>>
    <3>1. Open => BodyDue /\ HeaderHeld
      BY <2>3, HeaderBuffered
    <3>2. QED
      BY <1>1, <2>3, <3>1, StartReads DEF Handling, do_read_body, Reads, buffers
  <2>4. CASE Handling("header", "done") /\ ~HasBody(HeadKind) /\ Dispatch(0)
    <3>1. Open => ~BodyDue
      BY <2>4, HeaderBuffered
    <3>2. QED
      BY <1>1, <2>4, <3>1, DispatchReads DEF Handling
  <2>5. QED
    BY <1>4, <2>1, <2>2, <2>3, <2>4 DEF HeaderHandler
<1>5. CASE BodyHandler
  <2>1. CASE Handling("body", "failed") /\ Fail
    BY <1>2, <2>1
  <2>2. CASE Handling("body", "done") /\ Dispatch(bodyBuf)
    <3>1. Open => ~BodyDue
      BY <2>2, BodyBuffered
    <3>2. QED
      BY <1>1, <2>2, <3>1, DispatchReads DEF Handling
  <2>3. CASE /\ Handling("body", "done") /\ headBuf = 0 /\ ready' = Tail(ready)
             /\ UNCHANGED <<object, buffers, sock, readOps, writeOps, cont, events>>
    <3>1. ~Open
      BY <2>3, BodyBuffered
    <3>2. ListensShrink
      BY <2>3, DropShrinks DEF Polled, TypeOK
    <3>3. QED
      BY <1>1, <2>3, <3>1, <3>2, ReadFrame DEF Polled, object, Open
  <2>4. QED
    BY <1>5, <2>1, <2>2, <2>3 DEF BodyHandler
<1>6. CASE WriteHandler
  <2>1. CASE /\ Handling("write", "done") /\ PopWritten
             /\ UNCHANGED <<m_nHandle, m_bClosed, m_bIsAlive, buffers, sock,
                            readOps, cont, events>>
    <3>1. \/ ready' = Tail(ready)
          \/ \E c \in Writes : ready' = Append(Tail(ready), c)
      <4>1. \/ ready' = Tail(ready)
            \/ /\ m_pendingList # <<>> /\ Tail(m_pendingList) # <<>>
               /\ do_write(Tail(m_pendingList), Tail(ready))
        BY <2>1 DEF PopWritten
      <4>2. CASE /\ m_pendingList # <<>> /\ Tail(m_pendingList) # <<>>
                 /\ do_write(Tail(m_pendingList), Tail(ready))
        <5>1. Tail(m_pendingList) \in Seq(Packets)
          BY <4>2 DEF Polled, TypeOK, ObjectType
        <5>2. Head(Tail(m_pendingList)) \in Packets
          BY <4>2, <5>1
        <5>3. Head(Tail(m_pendingList)) \in Nat
          BY <5>2, PacketsAreNat
        <5>4. Completed("write", "failed", Head(Tail(m_pendingList))) \in Writes
          BY <5>3, KindsOfCompletion DEF Ops
        <5>5. QED
          BY <4>2, <5>4 DEF do_write
      <4>3. QED
        BY <4>1, <4>2
    <3>2. ListensShrink /\ Keeps(Listens)
      BY <2>1, <3>1, AddWriteKeeps DEF Polled, TypeOK, Handling
    <3>3. Open' => Listening'
      BY <2>1, <3>2, Zenon DEF Polled, ReadInv, Open, Listening, Keeps
    <3>4. QED
      BY <1>1, <2>1, <3>2, <3>3, ReadFrame DEF Polled
  <2>2. CASE Handling("write", "failed") /\ Fail
    BY <1>2, <2>2
  <2>3. QED
    BY <1>6, <2>1, <2>2 DEF WriteHandler
<1>7. QED
  BY <1>3, <1>4, <1>5, <1>6 DEF RunHandler

LEMMA ReturnReads ==
  ASSUME TypeOK, LifeInv, WriteInv, ReadInv, Return
  PROVE  ReadInv'
<1>1. /\ AsioType /\ ready \in Seq(Completion) /\ ObjectLife
      /\ UNCHANGED <<received, reopens>> /\ cont' = "none"
  BY DEF Return, TypeOK, AsioType, LifeInv, network
<1>2. CASE cont = "read_header" /\ do_read_header(ready) /\ UNCHANGED object
  <2>1. SingleUse => /\ readOps = <<>> /\ sock # "connecting"
                     /\ ~Queued(ready, Listens) /\ AtMostOne(ready, Listens)
    BY <1>2 DEF ReadInv, OneListen
  <2>2. Open => bodyBuf <= Len(received) /\ ~BodyDue
    BY <1>2 DEF ReadInv, Framing
  <2>3. /\ StartRead("header", ready) /\ "header" \in Reads
        /\ UNCHANGED <<m_bClosed, m_bIsAlive, sock, received, bodyBuf, reopens>>
    BY <1>1, <1>2 DEF do_read_header, Reads, object
  <2>4. QED
    BY <1>1, <2>1, <2>2, <2>3, StartReadReads
<1>3. CASE do_close(ready)
  BY <1>1, <1>3, ReadClose
<1>4. QED
  BY <1>2, <1>3 DEF Return

LEMMA ConnectReads ==
  ASSUME TypeOK, LifeInv, WriteInv, ReadInv, Connect
  PROVE  ReadInv'
<1>1. /\ UNCHANGED <<received, bodyBuf, headBuf, cont>>
      /\ AsioType /\ ready \in Seq(Completion)
  BY DEF Connect, TypeOK, AsioType, network, thread, buffers
<1>2. CASE m_bClosed
  <2>1. reopens \in Nat /\ reopens' = reopens + 1
    BY <1>2, SocketAssumption DEF Connect, TypeOK
  <2>2. m_bClosed'
    BY <1>2 DEF Connect
  <2>3. reopens' # 0
    BY <2>1
  <2>4. QED
    BY <2>2, <2>3, Zenon DEF ReadInv, SingleUse, Open
<1>3. CASE ~m_bClosed /\ do_close(ready)
  <2>1. reopens' = reopens
    BY <1>3 DEF Connect
  <2>2. QED
    BY <1>1, <1>3, <2>1, ReadClose
<1>4. CASE /\ ~m_bClosed /\ sock' = "connecting"
           /\ UNCHANGED <<m_nHandle, m_bClosed, m_pendingList, readOps, writeOps, ready>>
  <2>1. reopens' = reopens /\ ~m_bIsAlive
    BY <1>4 DEF Connect
  <2>2. Unused /\ AtRest
    BY <1>4, <2>1 DEF LifeInv, ObjectLife, SingleUse
  <2>3. \A S : ~Queued(ready', S) /\ AtMostOne(ready', S)
    BY <1>4, <2>2, EmptyQueue DEF Unused
  <2>4. readOps' = <<>> /\ Len(readOps') <= 1 /\ cont' = "none"
    BY <1>1, <1>4, <2>2 DEF AtRest, Unused
  <2>5. received' = <<>> /\ bodyBuf' <= Len(received') /\ cont' # "read_header"
    BY <1>1, <2>2 DEF Unused
  <2>6. OneListen'
    BY <2>3, <2>4, <2>5, Zenon DEF OneListen
  <2>7. Listening'
    BY <1>4 DEF Listening
  <2>8. Framing'
    BY <2>3, <2>4, <2>5, Zenon DEF Framing
  <2>9. QED
    BY <2>6, <2>7, <2>8 DEF ReadInv
<1>5. QED
  BY <1>2, <1>3, <1>4 DEF Connect

LEMMA SendReads ==
  ASSUME TypeOK, ReadInv, SendSocketData
  PROVE  ReadInv'
<1>1. /\ UNCHANGED <<m_bClosed, m_bIsAlive, readOps, sock, received, buffers, cont, reopens>>
      /\ AsioType
  BY DEF SendSocketData, TypeOK, network, thread
<1>2. packCount + 1 \in Nat
  BY SocketAssumption DEF TypeOK
<1>3. Completed("write", "failed", packCount + 1) \in Writes
  BY <1>2, KindsOfCompletion DEF Ops
<1>4. ready' = ready \/ \E c \in Writes : ready' = Append(ready, c)
  BY <1>3 DEF SendSocketData, do_write
<1>5. ListensShrink /\ Keeps(Listens)
  BY <1>1, <1>4, AddWriteKeeps
<1>6. Open' => Listening'
  BY <1>1, <1>5, Zenon DEF ReadInv, Open, Listening, Keeps
<1>7. QED
  BY <1>1, <1>5, <1>6, ReadFrame

\* The network ends the write in flight: reads do not notice.
LEMMA EndWriteReads ==
  ASSUME TypeOK, ReadInv, CompleteWrite \/ FailWrite
  PROVE  ReadInv'
<1>1. /\ UNCHANGED <<m_bClosed, m_bIsAlive, readOps, sock, received, buffers, cont, reopens>>
      /\ AsioType /\ writeOps \in Seq(Packets) /\ writeOps # <<>>
  BY DEF CompleteWrite, FailWrite, OthersIdle, TypeOK, AsioType, network, thread, object
<1>2. Head(writeOps) \in Packets
  BY <1>1
<1>3. Head(writeOps) \in Nat
  BY <1>2, PacketsAreNat
<1>4. \A res \in {"done", "failed"} : Completed("write", res, Head(writeOps)) \in Writes
  BY <1>3, KindsOfCompletion DEF Ops
<1>5. \E c \in Writes : ready' = Append(ready, c)
  BY <1>4 DEF CompleteWrite, FailWrite, Post
<1>6. ListensShrink /\ Keeps(Listens)
  BY <1>1, <1>5, AddWriteKeeps
<1>7. Open' => Listening'
  BY <1>1, <1>6, Zenon DEF ReadInv, Open, Listening, Keeps
<1>8. QED
  BY <1>1, <1>6, <1>7, ReadFrame

\* The network ends the connect or the read in flight: its completion is the
\* only one of its direction.
LEMMA EndReads ==
  ASSUME TypeOK, LifeInv, ReadInv,
         CompleteConnect \/ CompleteHeader \/ CompleteBody \/ FailRead
  PROVE  ReadInv'
<1>1. /\ UNCHANGED <<m_bClosed, m_bIsAlive, cont, reopens>>
      /\ sock = "connecting" \/ readOps # <<>>
      /\ AsioType /\ ready \in Seq(Completion) /\ readOps \in Seq(Reads)
      /\ received \in Seq(Kinds) /\ bodyBuf \in Nat
  BY SocketAssumption
  DEF CompleteConnect, CompleteHeader, CompleteBody, FailRead, OthersIdle, object, thread,
      TypeOK, AsioType, NetworkType, BuffersType
<1>2. SingleUse <=> Open
  BY <1>1, OpenIsSingleUse DEF LifeInv, AtRest
<1>3. SUFFICES ASSUME SingleUse PROVE OneListen' /\ Listening' /\ Framing'
  BY <1>1, <1>2 DEF ReadInv, SingleUse, Open
<1>4. OneListen /\ Framing
  BY <1>2, <1>3 DEF ReadInv
<1>5. /\ ~Queued(ready, Listens) /\ AtMostOne(ready, Listens) /\ cont # "read_header"
      /\ \A S \in {Connects, HeadersDone, BodiesDone} : ~Queued(ready, S)
  <2>1. ~Queued(ready, Listens) /\ AtMostOne(ready, Listens) /\ cont # "read_header"
    BY <1>1, <1>4 DEF OneListen
  <2>2. QED
    BY <2>1, SubKinds, SubQueue
<1>6. ASSUME NEW c \in Listens, ready' = Append(ready, c),
             readOps' = <<>>, sock' # "connecting"
      PROVE  /\ OneListen' /\ Listening'
             /\ \A S \in {Connects, HeadersDone, BodiesDone} :
                  Queued(ready', S) <=> c \in S
  <2>1. AtMostOne(ready', Listens) /\ Queued(ready', Listens)
    BY <1>1, <1>5, <1>6, AppendQueue
  <2>2. Len(readOps') <= 1 /\ cont' # "read_header"
    BY <1>1, <1>5, <1>6
  <2>3. OneListen'
    BY <1>6, <2>1, <2>2, Zenon DEF OneListen
  <2>4. Listening'
    BY <2>1, Zenon DEF Listening
  <2>5. QED
    BY <1>1, <1>5, <1>6, <2>3, <2>4, AppendQueue
<1>7. cont' # "read_header"
  BY <1>1, <1>5
<1>8. readOps # <<>> => Tail(readOps) = <<>>
  BY <1>1, <1>4 DEF OneListen
<1>9. CASE CompleteConnect
  <2>1. PICK res \in {"done", "failed"} : ready' = Append(ready, Completed("connect", res, 0))
    BY <1>9 DEF CompleteConnect, Post
  <2>2. /\ readOps' = <<>> /\ sock' # "connecting"
        /\ UNCHANGED <<received, bodyBuf>> /\ received = <<>>
    BY <1>4, <1>9 DEF CompleteConnect, OneListen, Framing, network, buffers
  <2>3. LET c == Completed("connect", res, 0) IN
          c \in Listens /\ c \notin HeadersDone /\ c \notin BodiesDone
    BY KindsOfCompletion DEF Ops
  <2>4. /\ OneListen' /\ Listening'
        /\ ~Queued(ready', HeadersDone) /\ ~Queued(ready', BodiesDone)
    BY <1>6, <2>1, <2>2, <2>3
  <2>5. bodyBuf' <= Len(received')
    BY <1>4, <2>2 DEF Framing
  <2>6. Framing'
    BY <1>7, <2>2, <2>4, <2>5, Zenon DEF Framing
  <2>7. QED
    BY <2>4, <2>6
<1>10. CASE CompleteHeader
  <2>1. ready' = Append(ready, Completed("header", "done", 0))
    BY <1>10 DEF CompleteHeader, Post
  <2>2. LET c == Completed("header", "done", 0) IN
          c \in Listens /\ c \notin Connects /\ c \notin BodiesDone
    BY KindsOfCompletion DEF Ops, Reads
  <2>3. PICK k \in Kinds : received' = Append(received, k)
    BY <1>10 DEF CompleteHeader
  <2>4. /\ readOps' = <<>> /\ sock' = "connected" /\ bodyBuf' = bodyBuf
        /\ headBuf' = Len(received) + 1
    BY <1>8, <1>10 DEF CompleteHeader
  <2>5. /\ OneListen' /\ Listening'
        /\ ~Queued(ready', Connects) /\ ~Queued(ready', BodiesDone)
    BY <1>6, <2>1, <2>2, <2>4
  <2>6. Len(received') = Len(received) + 1 /\ received' # <<>>
    BY <1>1, <2>3
  <2>7. HeaderHeld' /\ bodyBuf' <= Len(received') /\ bodyBuf' # Len(received')
    BY <1>1, <1>4, <2>4, <2>6 DEF HeaderHeld, Framing
  <2>8. sock' # "connecting"
    BY <2>4
  <2>9. Framing'
    BY <1>7, <2>4, <2>5, <2>7, <2>8, Zenon DEF Framing
  <2>10. QED
    BY <2>5, <2>9
<1>11. CASE CompleteBody
  <2>1. ready' = Append(ready, Completed("body", "done", 0))
    BY <1>11 DEF CompleteBody, Post
  <2>2. LET c == Completed("body", "done", 0) IN
          c \in Listens /\ c \notin Connects /\ c \notin HeadersDone
    BY KindsOfCompletion DEF Ops, Reads
  <2>3. /\ readOps' = <<>> /\ sock' # "connecting" /\ BodyDue
        /\ bodyBuf' = Len(received) /\ UNCHANGED <<headBuf, received>> /\ readOps # <<>>
    BY <1>8, <1>11 DEF CompleteBody, network
  <2>4. /\ OneListen' /\ Listening'
        /\ ~Queued(ready', Connects) /\ ~Queued(ready', HeadersDone)
    BY <1>6, <2>1, <2>2, <2>3
  <2>5. HeaderHeld
    BY <1>4, <2>3 DEF Framing
  <2>6. HeaderHeld' /\ bodyBuf' <= Len(received') /\ bodyBuf' = Len(received')
    BY <1>1, <2>3, <2>5 DEF HeaderHeld
  <2>7. HasBody(Last(received'))
    BY <2>3 DEF BodyDue
  <2>8. Framing'
    BY <1>7, <2>3, <2>4, <2>6, <2>7, Zenon DEF Framing
  <2>9. QED
    BY <2>4, <2>8
<1>12. CASE FailRead
  <2>1. Head(readOps) \in Reads /\ ready' = Append(ready, Completed(Head(readOps), "failed", 0))
    BY <1>1, <1>12 DEF FailRead, Post
  <2>2. LET c == Completed(Head(readOps), "failed", 0) IN
          c \in Listens /\ c \notin Connects /\ c \notin HeadersDone /\ c \notin BodiesDone
    BY <2>1, KindsOfCompletion DEF Ops, Reads
  <2>3. /\ readOps' = <<>> /\ sock' = sock /\ readOps # <<>>
        /\ UNCHANGED <<headBuf, bodyBuf, received>>
    BY <1>8, <1>12 DEF FailRead, network, buffers
  <2>4. sock' # "connecting"
    BY <1>4, <2>3 DEF OneListen
  <2>5. /\ OneListen' /\ Listening'
        /\ ~Queued(ready', Connects) /\ ~Queued(ready', HeadersDone)
        /\ ~Queued(ready', BodiesDone)
    BY <1>6, <2>1, <2>2, <2>3, <2>4
  <2>6. bodyBuf' <= Len(received')
    BY <1>4, <2>3 DEF Framing
  <2>7. Framing'
    BY <1>7, <2>3, <2>4, <2>5, <2>6, Zenon DEF Framing
  <2>8. QED
    BY <2>5, <2>7
<1>13. QED
  BY <1>9, <1>10, <1>11, <1>12

LEMMA FrameReads ==
  ASSUME ReadInv, PollStart \/ PollEnd \/ DrainPool \/ UNCHANGED vars
  PROVE  ReadInv'
<1>1. /\ UNCHANGED <<m_bClosed, m_bIsAlive, readOps, sock, received, buffers, cont, reopens>>
      /\ ready' = ready
  BY DEF PollStart, PollEnd, DrainPool, vars, object, asio, network, thread
<1>2. ListensShrink
  BY <1>1 DEF ListensShrink, Shrinks
<1>3. Open' => Listening'
  BY <1>1 DEF ReadInv, Open, Listening
<1>4. QED
  BY <1>1, <1>2, <1>3, ReadFrame

LEMMA NextReads ==
  TypeOK /\ Quiet /\ LifeInv /\ WriteInv /\ ReadInv /\ [Next]_vars => ReadInv'
<1> SUFFICES ASSUME TypeOK, Quiet, LifeInv, WriteInv, ReadInv, [Next]_vars PROVE ReadInv'
  OBVIOUS
<1>1. CASE RunHandler
  <2>1. Polled
    BY <1>1 DEF RunHandler, ConnectHandler, HeaderHandler, BodyHandler, WriteHandler,
       Handling, Polled
  <2>2. QED
    BY <1>1, <2>1, HandlerReads
<1>2. CASE StopServer
  <2>1. AsioType /\ ready \in Seq(Completion)
    BY DEF TypeOK, AsioType
  <2>2. QED
    BY <1>2, <2>1, ReadClose DEF StopServer, thread
<1>3. QED
  BY <1>1, <1>2, ConnectReads, SendReads, ReturnReads, FrameReads, EndReads, EndWriteReads
  DEF Next, Lua, MainThread, Network

LEMMA InitReads == Init => ReadInv
<1> SUFFICES ASSUME Init PROVE ReadInv
  OBVIOUS
<1>1. OneListen
  BY EmptyQueue DEF Init, OneListen
<1>2. ~Open
  BY DEF Init, Open
<1>3. QED
  BY <1>1, <1>2 DEF ReadInv

-----------------------------------------------------------------------------
(* Both directions *)

\* The invariants of the object's life and of both directions hold together.
THEOREM DirectionsInvariant == Spec => [](LifeInv /\ WriteInv /\ ReadInv)
<1>1. Init => LifeInv /\ WriteInv /\ ReadInv
  BY InitLife, InitWrites, InitReads
<1>2. /\ TypeOK /\ EventInv /\ LifeInv /\ WriteInv /\ ReadInv /\ [Next]_vars
      => (LifeInv /\ WriteInv /\ ReadInv)'
  BY NextLife, NextWrites, NextReads DEF EventInv
<1>3. QED
  BY <1>1, <1>2, TypeCorrect, EventsInvariant, PTL DEF Spec

\* Used for one connection, the socket never has two reads or two writes in
\* flight, those whose handlers are still to run included.
THEOREM OneOperationEachWay == Spec => []OneOpPerDirection
<1>1. TypeOK /\ WriteInv /\ ReadInv => OneOpPerDirection
  <2> SUFFICES ASSUME TypeOK, WriteInv, ReadInv, SingleUse
               PROVE  /\ Len(readOps) <= 1 /\ Len(writeOps) <= 1
                      /\ Pending(IsRead) => readOps = <<>>
                      /\ Pending(IsWrite) => writeOps = <<>>
                      /\ \A i, j \in DOMAIN ready :
                          \/ IsRead(ready[i]) /\ IsRead(ready[j])
                          \/ IsWrite(ready[i]) /\ IsWrite(ready[j])
                          => i = j
    BY DEF OneOpPerDirection
  <2>1. OneWrite /\ OneListen
    BY DEF WriteInv, ReadInv
  <2>2. /\ \A i \in DOMAIN ready : IsRead(ready[i]) => ready[i] \in Listens
        /\ \A i \in DOMAIN ready : IsWrite(ready[i]) => ready[i] \in Writes
    BY DEF TypeOK, AsioType, IsRead, IsWrite, Listens, Writes, Reads
  <2>3. (\E i \in DOMAIN ready : IsRead(ready[i])) => Queued(ready, Listens)
    BY <2>2, Zenon DEF Queued
  <2>4. (\E i \in DOMAIN ready : IsWrite(ready[i])) => Queued(ready, Writes)
    BY <2>2, Zenon DEF Queued
  <2>5. Pending(IsRead) => readOps = <<>>
    BY <2>1, <2>3, Zenon DEF Pending, OneListen
  <2>6. Pending(IsWrite) => writeOps = <<>>
    BY <2>1, <2>4, Zenon DEF Pending, OneWrite
  <2>7. \A i, j \in DOMAIN ready :
            \/ IsRead(ready[i]) /\ IsRead(ready[j])
            \/ IsWrite(ready[i]) /\ IsWrite(ready[j])
            => i = j
    BY <2>1, <2>2, Zenon DEF OneWrite, OneListen, AtMostOne
  <2>8. QED
    BY <2>1, <2>5, <2>6, <2>7, Zenon DEF OneWrite, OneListen
<1>2. QED
  BY <1>1, TypeCorrect, DirectionsInvariant, PTL

\* The network takes the packets in the order in which they were packed, each
\* once, and a live socket has lost none.
THEOREM WiredInOrder == Spec => []WireInOrder
<1>1. TypeOK /\ LifeInv /\ WriteInv => WireInOrder
  <2> SUFFICES ASSUME TypeOK, LifeInv, WriteInv, SingleUse
               PROVE  /\ wire = [i \in 1..Len(wire) |-> i]
                      /\ m_bIsAlive =>
                           1..packCount \subseteq ToSet(wire) \cup ToSet(m_pendingList)
    BY DEF WireInOrder
  <2>1. wire \in Seq(Packets) /\ m_pendingList \in Seq(Packets) /\ packCount \in Nat
    BY SocketAssumption DEF TypeOK, NetworkType, ObjectType
  <2>2. WireOrdered
    BY DEF WriteInv
  <2>3. wire = [i \in 1..Len(wire) |-> i]
    BY <2>1, <2>2 DEF WireOrdered
  <2>4. ASSUME m_bIsAlive, NEW p \in 1..packCount
        PROVE  p \in ToSet(wire) \cup ToSet(m_pendingList)
    <3>1. Backlog
      BY <2>4, OpenIsSingleUse DEF LifeInv, WriteInv
    <3>2. Written \in Nat /\ p \in Nat /\ Len(m_pendingList) = packCount - Written
      BY <2>1, <3>1 DEF Backlog, Written
    <3>3. CASE p <= Written
      <4>1. p \in DOMAIN wire
        BY <2>1, <3>1, <3>2, <3>3 DEF Backlog
      <4>2. wire[p] = p
        BY <2>2, <4>1 DEF WireOrdered
      <4>3. QED
        BY <4>1, <4>2 DEF ToSet
    <3>4. CASE p > Written
      <4>1. p - Written \in DOMAIN m_pendingList
        BY <2>1, <3>2, <3>4
      <4>2. m_pendingList[p - Written] = p
        BY <3>1, <3>2, <4>1 DEF Backlog
      <4>3. QED
        BY <4>1, <4>2 DEF ToSet
    <3>5. QED
      BY <3>2, <3>3, <3>4 DEF Written
  <2>5. QED
    BY <2>3, <2>4
<1>2. QED
  BY <1>1, TypeCorrect, DirectionsInvariant, PTL

\* No packet waits in a live socket without a write whose handler sends it.
THEOREM NoLostWakeUp == Spec => []WriterBusy
<1>1. TypeOK /\ LifeInv /\ WriteInv => WriterBusy
  <2> SUFFICES ASSUME TypeOK, LifeInv, WriteInv, SingleUse, m_bIsAlive
               PROVE  /\ m_pendingList # <<>> =>
                           writeOps # <<>> \/ Pending(IsWrite) \/ cont = "close"
                      /\ writeOps # <<>> \/ Pending(IsWrite) => m_pendingList # <<>>
    BY DEF WriterBusy
  <2>1. FrontInFlight
    BY OpenIsSingleUse DEF LifeInv, WriteInv
  <2>2. \A i \in DOMAIN ready : IsWrite(ready[i]) <=> ready[i] \in Writes
    BY DEF TypeOK, AsioType, IsWrite, Writes
  <2>3. Pending(IsWrite) <=> Queued(ready, Writes)
    BY <2>2 DEF Pending, Queued
  <2>4. QED
    BY <2>1, <2>3 DEF FrontInFlight
<1>2. QED
  BY <1>1, TypeCorrect, DirectionsInvariant, PTL

\* Reads stay in step with the server's framing.
THEOREM ReadsAreFramed == Spec => []Framed
<1>1. LifeInv /\ ReadInv => Framed
  <2> SUFFICES ASSUME LifeInv, ReadInv, SingleUse, readOps # <<>>
               PROVE  Head(readOps) = "body" <=> BodyDue
    BY DEF Framed
  <2>1. Open
    BY OpenIsSingleUse DEF LifeInv, AtRest
  <2>2. QED
    BY <2>1 DEF ReadInv, Framing
<1>2. QED
  BY <1>1, DirectionsInvariant, PTL

\* A live socket always has a connect or a read in flight, or is about to
\* start one: it cannot go deaf.
THEOREM NeverDeaf == Spec => []LiveSocketListens
<1>1. TypeOK /\ Quiet /\ LifeInv /\ ReadInv => LiveSocketListens
  <2> SUFFICES ASSUME TypeOK, Quiet, LifeInv, ReadInv, SingleUse, m_bIsAlive
               PROVE  \/ sock = "connecting" \/ readOps # <<>>
                      \/ Pending(LAMBDA c : ~IsWrite(c)) \/ pc = "callback"
    BY DEF LiveSocketListens
  <2>1. Listening
    BY OpenIsSingleUse DEF LifeInv, ReadInv
  <2>2. Queued(ready, Listens) => Pending(LAMBDA c : ~IsWrite(c))
    BY DEF Queued, Pending, IsWrite, Listens
  <2>3. cont # "none" => pc = "callback"
    BY DEF Quiet
  <2>4. QED
    BY <2>1, <2>2, <2>3 DEF Listening
<1>2. EventInv => Quiet
  BY DEF EventInv
<1>3. QED
  BY <1>1, <1>2, TypeCorrect, EventsInvariant, DirectionsInvariant, PTL

-----------------------------------------------------------------------------
(* Deliveries: the history of the events *)

\* Lua was only ever given packets the server sent.
LEMMA GivenWithin ==
  ASSUME DeliveredInOrder, NEW p, Given(p)
  PROVE  p \in DOMAIN received
BY DEF DeliveredInOrder, Given, IsData

\* A step that tells Lua nothing, even when the server sends a packet.
LEMMA SameDeliveries ==
  ASSUME DeliveredInOrder, events' = events, received \in Seq(Kinds),
         received' = received \/ \E k : received' = Append(received, k)
  PROVE  DeliveredInOrder' /\ \A p : Given(p)' <=> Given(p)
<1>1. \A p \in DOMAIN received : p \in DOMAIN received' /\ received'[p] = received[p]
  OBVIOUS
<1>2. DeliveredInOrder'
  <2>1. ASSUME NEW i \in DOMAIN events, events[i].type = "data"
        PROVE  /\ events[i].head \in DOMAIN received
               /\ \A p \in 1..events[i].head : p \in DOMAIN received
    BY <2>1 DEF DeliveredInOrder
  <2>2. QED
    BY <1>1, <2>1 DEF DeliveredInOrder
<1>3. QED
  BY <1>2 DEF Given, IsData

\* A step that tells Lua something other than a packet.
LEMMA OtherEvent ==
  ASSUME DeliveredInOrder, events \in Seq(Event), received' = received,
         NEW e, events' = Append(events, e), e.type # "data"
  PROVE  DeliveredInOrder' /\ \A p : Given(p)' <=> Given(p)
<1>1. /\ \A i \in DOMAIN events : i \in DOMAIN events' /\ events'[i] = events[i]
      /\ \A i \in DOMAIN events' :
            \/ i \in DOMAIN events /\ events'[i] = events[i]
            \/ events'[i] = e
  OBVIOUS
<1>2. \A i \in DOMAIN events' : events'[i].type = "data" => i \in DOMAIN events
  BY <1>1
<1>3. DeliveredInOrder'
  BY <1>1, <1>2 DEF DeliveredInOrder
<1>4. QED
  BY <1>1, <1>2, <1>3 DEF Given, IsData

\* A step that gives Lua the last packet, all before it being dealt with.
LEMMA NextData ==
  ASSUME DeliveredInOrder, events \in Seq(Event), received \in Seq(Kinds),
         received' = received, received # <<>>,
         NEW e, events' = Append(events, e), e.type = "data", e.head = Len(received),
         Deliverable(received[Len(received)]),
         e.body = IF HasBody(received[Len(received)]) THEN Len(received) ELSE 0,
         DealtWith(Len(received) - 1), ~Given(Len(received))
  PROVE  DeliveredInOrder' /\ \A p : Given(p)' <=> Given(p) \/ p = Len(received)
<1> DEFINE n == Len(received)
<1>1. /\ \A i \in DOMAIN events : i \in DOMAIN events' /\ events'[i] = events[i]
      /\ \A i \in DOMAIN events' :
            \/ i \in DOMAIN events /\ events'[i] = events[i]
            \/ i = Len(events) + 1 /\ events'[i] = e
      /\ Len(events) + 1 \in DOMAIN events' /\ events'[Len(events) + 1] = e
      /\ \A i \in DOMAIN events : i \in Nat /\ i < Len(events) + 1
      /\ Len(events) \in Nat
      /\ n \in Nat /\ n \in DOMAIN received /\ DOMAIN received = 1..n
  OBVIOUS
<1>2. \A p : Given(p)' <=> Given(p) \/ p = n
  BY <1>1 DEF Given, IsData
<1>3. ASSUME NEW i \in DOMAIN events, events[i].type = "data"
      PROVE  events[i].head \in 1..n /\ events[i].head < n
  <2>1. Given(events[i].head)
    BY <1>3 DEF Given, IsData
  <2>2. events[i].head \in DOMAIN received /\ events[i].head # n
    BY <2>1, GivenWithin
  <2>3. QED
    BY <1>1, <2>2
<1>4. \A i \in DOMAIN events' : events'[i].type = "data" =>
        /\ events'[i].head \in DOMAIN received
        /\ Deliverable(received[events'[i].head])
        /\ events'[i].body = IF HasBody(received[events'[i].head])
                             THEN events'[i].head ELSE 0
  BY <1>1 DEF DeliveredInOrder
<1>5. \A i, j \in DOMAIN events' :
        events'[i].type = "data" /\ events'[j].type = "data" /\ i < j
          => events'[i].head < events'[j].head
  BY <1>1, <1>3 DEF DeliveredInOrder
<1>6. ASSUME NEW i \in DOMAIN events', events'[i].type = "data",
             NEW p \in 1..events'[i].head, Deliverable(received[p])
      PROVE  \E j \in DOMAIN events' :
               events'[j].type = "data" /\ j <= i /\ events'[j].head = p
  <2>1. CASE i \in DOMAIN events
    <3>1. \E j \in DOMAIN events :
            events[j].type = "data" /\ j <= i /\ events[j].head = p
      BY <1>1, <1>6, <2>1 DEF DeliveredInOrder
    <3>2. QED
      BY <1>1, <3>1
  <2>2. CASE i = Len(events) + 1 /\ p = n
    BY <1>1, <2>2
  <2>3. CASE i = Len(events) + 1 /\ p # n
    <3>1. p \in 1..(n - 1)
      <4>1. events'[i].head = n /\ n \in Nat /\ p # n
        BY <1>1, <2>3
      <4>2. p \in 1..n
        BY <1>6, <4>1
      <4> HIDE DEF n
      <4>3. QED
        BY <4>1, <4>2
    <3>2. Given(p)
      BY <1>6, <3>1 DEF DealtWith
    <3>3. PICK j \in DOMAIN events : events[j].type = "data" /\ events[j].head = p
      BY <3>2 DEF Given, IsData
    <3>4. j < i /\ j \in Nat /\ i \in Nat
      <4>1. j \in Nat /\ j < Len(events) + 1 /\ Len(events) \in Nat
        BY <1>1, Zenon
      <4>2. QED
        BY <2>3, <4>1
    <3>5. QED
      BY <1>1, <3>3, <3>4
  <2>4. QED
    BY <1>1, <2>1, <2>2, <2>3
<1>7. \A i \in {k \in DOMAIN events' : events'[k].type = "data"} :
        \A p \in 1..events'[i].head : Deliverable(received[p]) =>
          \E j \in {k \in DOMAIN events' : events'[k].type = "data"} :
            j <= i /\ events'[j].head = p
  BY <1>6
<1>8. DeliveredInOrder'
  BY <1>4, <1>5, <1>7 DEF DeliveredInOrder
<1>9. QED
  BY <1>2, <1>8

-----------------------------------------------------------------------------
(* Deliveries: the actions *)

\* What keeps the last packet's state, when Lua is not given it.
LEMMA DeliveriesFrame ==
  ASSUME Deliveries, received' = received, \A p : Given(p)' <=> Given(p),
         cont' = "read_header" \/ (readOps' # <<>> /\ ~BodyDue')
           => \/ cont = "read_header" \/ (readOps # <<>> /\ ~BodyDue)
              \/ DealtWith(Len(received)),
         InProgress' => InProgress \/ ~Given(Len(received))
  PROVE  Deliveries'
<1>1. \A n : DealtWith(n)' <=> DealtWith(n)
  BY DEF DealtWith
<1>2. QED
  BY <1>1, Zenon DEF Deliveries

LEMMA ClosedDeliveries ==
  ASSUME DeliveredInOrder, events' = events, received \in Seq(Kinds),
         received' = received, ~Open'
  PROVE  DeliveryInv'
BY SameDeliveries DEF DeliveryInv

LEMMA FailDeliveries ==
  ASSUME Polled, DeliveryInv, Fail, received' = received
  PROVE  DeliveryInv'
<1>1. ready \in Seq(Completion) /\ received \in Seq(Kinds) /\ events \in Seq(Event)
  BY DEF Polled, TypeOK, AsioType, NetworkType, ThreadType
<1>2. CASE CallLua([type |-> "error", head |-> 0, body |-> 0], "close")
  <2>1. /\ UNCHANGED <<m_bClosed, m_bIsAlive, readOps, bodyBuf>>
        /\ ready' = Tail(ready) /\ cont' = "close"
        /\ events' = Append(events, [type |-> "error", head |-> 0, body |-> 0])
    BY <1>2 DEF CallLua, object, buffers
  <2>2. DeliveredInOrder' /\ \A p : Given(p)' <=> Given(p)
    BY <1>1, <2>1, OtherEvent DEF DeliveryInv
  <2>3. BodyDue' = BodyDue
    BY <2>1 DEF BodyDue
  <2>4. InProgress' => InProgress
    <3>1. \A S : Queued(Tail(ready), S) => Queued(ready, S)
      BY <1>1, TailQueue DEF Polled
    <3>2. QED
      BY <2>1, <2>3, <3>1 DEF InProgress
  <2>5. Open' => Open
    BY <2>1 DEF Open
  <2>6. Open => Deliveries'
    BY <2>1, <2>2, <2>3, <2>4, DeliveriesFrame DEF DeliveryInv
  <2>7. QED
    BY <2>2, <2>5, <2>6 DEF DeliveryInv
<1>3. CASE do_close(Tail(ready)) /\ UNCHANGED thread
  BY <1>1, <1>3, ClosedDeliveries DEF do_close, Open, object, thread, DeliveryInv
<1>4. QED
  BY <1>2, <1>3 DEF Fail

\* A header read is started: the last packet is dealt with, or not for Lua.
LEMMA ReadOnDeliveries ==
  ASSUME Polled, DeliveryInv, Head(ready).op # "write", ReadOn, received' = received,
         Open => ~BodyDue /\ DealtWith(Len(received))
  PROVE  DeliveryInv'
<1>1. ready \in Seq(Completion) /\ received \in Seq(Kinds) /\ events \in Seq(Event)
  BY DEF Polled, TypeOK, AsioType, NetworkType, ThreadType
<1>2. /\ UNCHANGED <<m_bClosed, m_bIsAlive, bodyBuf, events, cont>>
      /\ StartRead("header", Tail(ready)) /\ "header" \in Reads
  BY DEF ReadOn, do_read_header, object, thread, Reads
<1>3. DeliveredInOrder' /\ \A p : Given(p)' <=> Given(p)
  BY <1>1, <1>2, SameDeliveries DEF DeliveryInv
<1>4. BodyDue' = BodyDue
  BY <1>2 DEF BodyDue
<1>5. Queued(ready', HeadersDone) \/ Queued(ready', BodiesDone) => InProgress
  <2>1. \A S : Queued(Tail(ready), S) => Queued(ready, S)
    BY <1>1, TailQueue DEF Polled
  <2>2. Tail(ready) \in Seq(Completion)
    BY <1>1 DEF Polled
  <2>3. CASE ready' = Tail(ready)
    BY <2>1, <2>3 DEF InProgress
  <2>4. ASSUME NEW c \in Completion, c.res = "failed", ready' = Append(Tail(ready), c)
        PROVE  Queued(ready', HeadersDone) \/ Queued(ready', BodiesDone) => InProgress
    <3>1. c \notin HeadersDone /\ c \notin BodiesDone
      BY <2>4, KindsOfMember
    <3>2. /\ Queued(ready', HeadersDone) => Queued(Tail(ready), HeadersDone)
          /\ Queued(ready', BodiesDone) => Queued(Tail(ready), BodiesDone)
      BY <2>2, <2>4, <3>1, AppendQueue
    <3>3. QED
      BY <2>1, <3>2 DEF InProgress
  <2>5. QED
    BY <1>2, <2>3, <2>4, StartReadQueue
<1>6. Open' => Open
  BY <1>2 DEF Open
<1>7. ASSUME Open PROVE Deliveries'
  <2>1. InProgress' => InProgress
    BY <1>4, <1>5, <1>7 DEF InProgress
  <2>2. QED
    BY <1>3, <1>7, <2>1, DeliveriesFrame DEF DeliveryInv
<1>8. QED
  BY <1>3, <1>6, <1>7 DEF DeliveryInv

\* Lua is given the last packet.
LEMMA GiveDeliveries ==
  ASSUME Polled, DeliveryInv, Open, Head(ready).op # "write", received' = received,
         NEW b, CallLua([type |-> "data", head |-> headBuf, body |-> b], "read_header"),
         HeaderHeld, ~BodyDue, InProgress, Deliverable(Last(received)),
         b = IF HasBody(Last(received)) THEN Len(received) ELSE 0
  PROVE  DeliveryInv'
<1> DEFINE n == Len(received)
<1> DEFINE e == [type |-> "data", head |-> headBuf, body |-> b]
<1>1. /\ ready \in Seq(Completion) /\ received \in Seq(Kinds) /\ events \in Seq(Event)
      /\ n \in Nat /\ received # <<>> /\ Last(received) = received[n]
  BY DEF Polled, TypeOK, AsioType, NetworkType, ThreadType, HeaderHeld, Last
<1>2. /\ UNCHANGED <<readOps, bodyBuf>> /\ ready' = Tail(ready)
      /\ events' = Append(events, e)
  BY DEF CallLua, object, buffers
<1>3. e.type = "data" /\ e.head = n /\ e.body = IF HasBody(received[n]) THEN n ELSE 0
  BY <1>1 DEF HeaderHeld
<1>4. DealtWith(n - 1) /\ ~Given(n)
  BY DEF DeliveryInv, Deliveries
<1> HIDE DEF e, n
<1>5. DeliveredInOrder' /\ \A p : Given(p)' <=> Given(p) \/ p = n
  BY <1>1, <1>2, <1>3, <1>4, NextData DEF DeliveryInv, n
<1>6. \A p \in 1..n : Deliverable(received[p]) => Given(p)'
  <2>1. \A p \in 1..n : p \in 1..(n - 1) \/ p = n
    BY <1>1 DEF n
  <2>2. QED
    BY <1>4, <1>5, <2>1 DEF DealtWith
<1>7. DealtWith(n)' /\ DealtWith(n - 1)'
  <2>1. 1..(n - 1) \subseteq 1..n
    BY <1>1 DEF n
  <2>2. n' = n
    BY DEF n
  <2>3. QED
    BY <1>6, <2>1, <2>2 DEF DealtWith
<1>8. ~InProgress'
  <2>1. SingleUse
    BY OpenIsSingleUse DEF Polled, LifeInv
  <2>2. readOps = <<>> /\ ~Queued(Tail(ready), Listens)
    BY <2>1, PolledReads
  <2>3. ~Queued(Tail(ready), HeadersDone) /\ ~Queued(Tail(ready), BodiesDone)
    BY <2>2, SubQueue, SubKinds
  <2>4. QED
    BY <1>2, <2>2, <2>3 DEF InProgress
<1>9. Deliveries'
  BY <1>7, <1>8, Zenon DEF Deliveries, n
<1>10. QED
  BY <1>5, <1>9 DEF DeliveryInv

LEMMA DispatchDeliveries ==
  ASSUME Polled, DeliveryInv, Head(ready).op # "write", received' = received,
         NEW b, Dispatch(b),
         Open => /\ HeaderHeld /\ HeadKind = Last(received) /\ ~BodyDue /\ InProgress
                 /\ b = IF HasBody(Last(received)) THEN Len(received) ELSE 0
  PROVE  DeliveryInv'
<1>1. CASE /\ Deliverable(HeadKind)
           /\ CallLua([type |-> "data", head |-> headBuf, body |-> b], "read_header")
  <2>1. Open
    BY <1>1, BusyIsConnected, Zenon DEF Polled, LifeInv, Quiet, CallLua, Open
  <2>2. QED
    BY <1>1, <2>1, GiveDeliveries
<1>2. CASE (~Deliverable(HeadKind) \/ m_nHandle = 0) /\ ReadOn
  <2>1. ASSUME Open PROVE ~BodyDue /\ DealtWith(Len(received))
    <3>1. ~Deliverable(Last(received))
      BY <1>2, <2>1, Zenon DEF Polled, LifeInv, ObjectLife, Open
    <3>2. DealtWith(Len(received) - 1)
      BY <2>1 DEF DeliveryInv, Deliveries
    <3>3. received \in Seq(Kinds) /\ Last(received) = received[Len(received)]
      BY DEF Polled, TypeOK, NetworkType, Last
    <3>4. \A p \in 1..Len(received) : p \in 1..(Len(received) - 1) \/ p = Len(received)
      BY <3>3
    <3>5. QED
      BY <2>1, <3>1, <3>2, <3>3, <3>4 DEF DealtWith
  <2>2. QED
    BY <1>2, <2>1, ReadOnDeliveries
<1>3. QED
  BY <1>1, <1>2 DEF Dispatch

\* Steps whose completions and reads leave the last packet's state alone.
LEMMA QuietDeliveries ==
  ASSUME DeliveryInv, received \in Seq(Kinds),
         UNCHANGED <<events, received, bodyBuf>>,
         Open' => Open \/ received = <<>>,
         readOps' \in {readOps, <<>>},
         cont' = "read_header" => cont = "read_header",
         Queued(ready', HeadersDone) => Queued(ready, HeadersDone),
         Queued(ready', BodiesDone) => Queued(ready, BodiesDone)
  PROVE  DeliveryInv'
<1>1. DeliveredInOrder' /\ \A p : Given(p)' <=> Given(p)
  BY SameDeliveries DEF DeliveryInv
<1>2. BodyDue' = BodyDue
  BY DEF BodyDue
<1>3. ASSUME Open PROVE Deliveries'
  <2>1. readOps' # <<>> => readOps' = readOps
    OBVIOUS
  <2>2. InProgress' => InProgress
    BY <1>2, <2>1 DEF InProgress
  <2>3. QED
    BY <1>1, <1>2, <1>3, <2>1, <2>2, DeliveriesFrame DEF DeliveryInv
<1>4. ASSUME received = <<>> PROVE Deliveries'
  <2>1. Len(received') = 0
    BY <1>4
  <2>2. ~Given(0)'
    <3>1. 0 \notin DOMAIN received
      OBVIOUS
    <3>2. ~Given(0)
      BY <3>1, GivenWithin DEF DeliveryInv
    <3>3. QED
      BY <1>1, <3>2
  <2>3. DealtWith(0)' /\ DealtWith(0 - 1)'
    BY DEF DealtWith
  <2>4. QED
    BY <2>1, <2>2, <2>3 DEF Deliveries
<1>5. QED
  BY <1>1, <1>3, <1>4 DEF DeliveryInv

LEMMA HandlerDeliveries ==
  ASSUME Polled, DeliveryInv, RunHandler
  PROVE  DeliveryInv'
<1>1. received' = received /\ received \in Seq(Kinds) /\ cont = "none"
  BY DEF RunHandler, ConnectHandler, HeaderHandler, BodyHandler, WriteHandler, network,
     Polled, TypeOK, NetworkType, Quiet
<1>2. Fail => DeliveryInv'
  BY <1>1, FailDeliveries
<1>3. AsioType /\ ready \in Seq(Completion) /\ ready # <<>>
  BY DEF Polled, TypeOK, AsioType
<1>4. CASE ConnectHandler
  <2>1. CASE Handling("connect", "failed") /\ Fail
    BY <1>2, <2>1
  <2>2. CASE /\ Handling("connect", "done")
             /\ CallLua([type |-> "connect", head |-> 0, body |-> 0], "read_header")
    <3>1. /\ UNCHANGED <<m_bClosed, m_bIsAlive, readOps, bodyBuf>>
          /\ ready' = Tail(ready)
          /\ events' = Append(events, [type |-> "connect", head |-> 0, body |-> 0])
      BY <2>2 DEF CallLua, object, buffers
    <3>2. events \in Seq(Event)
      BY DEF Polled, TypeOK, ThreadType
    <3>3. DeliveredInOrder' /\ \A p : Given(p)' <=> Given(p)
      BY <1>1, <3>1, <3>2, OtherEvent DEF DeliveryInv
    <3>4. ASSUME Open PROVE received = <<>>
      <4>1. Head(ready) \in Connects
        BY <1>3, <2>2 DEF Handling, Connects
      <4>2. Queued(ready, Connects)
        BY <1>3, <4>1, TailQueue
      <4>3. QED
        BY <3>4, <4>2 DEF Polled, ReadInv, Framing
    <3>5. Open => DealtWith(Len(received))
      BY <3>4 DEF DealtWith
    <3>6. BodyDue' = BodyDue
      BY <1>1, <3>1 DEF BodyDue
    <3>7. InProgress' => InProgress
      <4>1. \A S : Queued(Tail(ready), S) => Queued(ready, S)
        BY <1>3, TailQueue
      <4>2. QED
        BY <3>1, <3>6, <4>1 DEF InProgress
    <3>8. Open => Deliveries'
      BY <1>1, <3>3, <3>5, <3>7, DeliveriesFrame DEF DeliveryInv
    <3>9. QED
      BY <3>1, <3>3, <3>8 DEF DeliveryInv, Open
  <2>3. CASE Handling("connect", "done") /\ ReadOn /\ m_nHandle = 0
    <3>1. ~Open
      BY <2>3, Zenon DEF Polled, LifeInv, ObjectLife, Open
    <3>2. QED
      BY <1>1, <2>3, <3>1, ReadOnDeliveries DEF Handling
  <2>4. QED
    BY <1>4, <2>1, <2>2, <2>3 DEF ConnectHandler
<1>5. CASE HeaderHandler
  <2>1. Handling("header", "done") => InProgress
    <3>1. SUFFICES ASSUME Handling("header", "done") PROVE InProgress
      OBVIOUS
    <3>2. Head(ready) \in HeadersDone
      BY <1>3, <3>1 DEF Handling, HeadersDone, Listens
    <3>3. QED
      BY <1>3, <3>2, TailQueue DEF InProgress
  <2>2. CASE Handling("header", "done") /\ HeadKind = "short" /\ ReadOn
    <3>1. ASSUME Open PROVE ~BodyDue /\ DealtWith(Len(received))
      <4>1. /\ Last(received) = "short" /\ ~BodyDue /\ Last(received) = received[Len(received)]
        BY <2>2, <3>1, HeaderBuffered DEF HasBody, Last
      <4>2. DealtWith(Len(received) - 1) /\ ~Deliverable(received[Len(received)])
        BY <3>1, <4>1 DEF DeliveryInv, Deliveries, Deliverable
      <4>3. \A p \in 1..Len(received) : p \in 1..(Len(received) - 1) \/ p = Len(received)
        BY <1>1
      <4>4. QED
        BY <4>1, <4>2, <4>3 DEF DealtWith
    <3>2. QED
      BY <1>1, <2>2, <3>1, ReadOnDeliveries DEF Handling
  <2>3. CASE /\ Handling("header", "done") /\ HasBody(HeadKind)
             /\ do_read_body(Tail(ready)) /\ UNCHANGED <<object, thread>>
    <3>1. /\ UNCHANGED <<m_bClosed, m_bIsAlive, bodyBuf, events, cont>>
      BY <2>3 DEF do_read_body, object, thread, buffers
    <3>2. DeliveredInOrder' /\ \A p : Given(p)' <=> Given(p)
      BY <1>1, <3>1, SameDeliveries DEF DeliveryInv
    <3>3. Open => BodyDue'
      BY <1>1, <2>3, <3>1, HeaderBuffered DEF BodyDue
    <3>4. Open => Deliveries'
      BY <1>1, <2>1, <2>3, <3>1, <3>2, <3>3, DeliveriesFrame DEF DeliveryInv
    <3>5. QED
      BY <3>1, <3>2, <3>4 DEF DeliveryInv, Open
  <2>4. CASE Handling("header", "done") /\ ~HasBody(HeadKind) /\ Dispatch(0)
    <3>1. Open => /\ HeaderHeld /\ HeadKind = Last(received) /\ ~BodyDue
                  /\ ~HasBody(Last(received))
      BY <2>4, HeaderBuffered
    <3>2. QED
      BY <1>1, <2>1, <2>4, <3>1, DispatchDeliveries DEF Handling
  <2>5. QED
    BY <1>2, <1>5, <2>2, <2>3, <2>4 DEF HeaderHandler
<1>6. CASE BodyHandler
  <2>1. CASE Handling("body", "done") /\ Dispatch(bodyBuf)
    <3>1. Head(ready) \in BodiesDone
      BY <1>3, <2>1 DEF Handling, BodiesDone, Listens
    <3>2. InProgress
      BY <1>3, <3>1, TailQueue DEF InProgress
    <3>3. Open => /\ HeaderHeld /\ HeadKind = Last(received) /\ ~BodyDue
                  /\ bodyBuf = Len(received) /\ HasBody(Last(received))
      BY <2>1, BodyBuffered
    <3>4. QED
      BY <1>1, <2>1, <3>2, <3>3, DispatchDeliveries DEF Handling
  <2>2. CASE /\ Handling("body", "done") /\ headBuf = 0 /\ ready' = Tail(ready)
             /\ UNCHANGED <<object, buffers, sock, readOps, writeOps, cont, events>>
    <3>1. ~Open
      BY <2>2, BodyBuffered
    <3>2. QED
      BY <1>1, <2>2, <3>1, ClosedDeliveries DEF DeliveryInv, object, Open
  <2>3. QED
    BY <1>2, <1>6, <2>1, <2>2 DEF BodyHandler
<1>7. CASE WriteHandler
  <2>1. CASE /\ Handling("write", "done") /\ PopWritten
             /\ UNCHANGED <<m_nHandle, m_bClosed, m_bIsAlive, buffers, sock,
                            readOps, cont, events>>
    <3>1. ready' = Tail(ready) \/ \E p : ready' = Append(Tail(ready), Completed("write", "failed", p))
      BY <2>1 DEF PopWritten, do_write
    <3>2. \A p : /\ Completed("write", "failed", p) \notin HeadersDone
                 /\ Completed("write", "failed", p) \notin BodiesDone
      BY DEF Completed, HeadersDone, BodiesDone
    <3>3. Head(ready) \notin HeadersDone /\ Head(ready) \notin BodiesDone
      BY <2>1 DEF Handling, HeadersDone, BodiesDone
    <3>4. Keeps(HeadersDone) /\ Keeps(BodiesDone)
      BY <1>3, <3>1, <3>2, <3>3, DropKeeps
    <3>5. UNCHANGED <<events, received, bodyBuf, readOps, cont, m_bClosed, m_bIsAlive>>
      BY <1>1, <2>1 DEF buffers
    <3>6. QED
      BY <1>1, <3>4, <3>5, QuietDeliveries DEF Keeps, Open
  <2>2. QED
    BY <1>2, <1>7, <2>1 DEF WriteHandler
<1>8. QED
  BY <1>4, <1>5, <1>6, <1>7 DEF RunHandler

LEMMA ReturnDeliveries ==
  ASSUME TypeOK, ReadInv, DeliveryInv, Return
  PROVE  DeliveryInv'
<1>1. /\ ready \in Seq(Completion) /\ received \in Seq(Kinds)
      /\ received' = received /\ events' = events /\ cont' = "none"
  BY DEF Return, TypeOK, AsioType, NetworkType, network
<1>2. CASE cont = "read_header" /\ do_read_header(ready) /\ UNCHANGED object
  <2>1. /\ StartRead("header", ready) /\ "header" \in Reads
        /\ UNCHANGED <<m_bClosed, m_bIsAlive, bodyBuf>>
    BY <1>2 DEF do_read_header, Reads, object
  <2>2. DeliveredInOrder' /\ \A p : Given(p)' <=> Given(p)
    BY <1>1, SameDeliveries DEF DeliveryInv
  <2>3. BodyDue' = BodyDue
    BY <1>1, <2>1 DEF BodyDue
  <2>4. Open => ~BodyDue
    BY <1>2 DEF ReadInv, Framing
  <2>5. /\ Queued(ready', HeadersDone) => Queued(ready, HeadersDone)
        /\ Queued(ready', BodiesDone) => Queued(ready, BodiesDone)
    <3>1. ready' = ready \/ \E c \in Completion :
                              c.res = "failed" /\ ready' = Append(ready, c)
      BY <2>1, StartReadQueue
    <3>2. \A c \in Completion : c.res = "failed" => c \notin HeadersDone /\ c \notin BodiesDone
      BY DEF HeadersDone, BodiesDone
    <3>3. CASE ready' = ready
      BY <3>3
    <3>4. ASSUME NEW c \in Completion, c.res = "failed", ready' = Append(ready, c)
          PROVE  /\ Queued(ready', HeadersDone) => Queued(ready, HeadersDone)
                 /\ Queued(ready', BodiesDone) => Queued(ready, BodiesDone)
      <4>1. c \notin HeadersDone /\ c \notin BodiesDone
        BY <3>2, <3>4
      <4>2. Queued(Append(ready, c), HeadersDone) <=> Queued(ready, HeadersDone)
        BY <1>1, <4>1, AppendQueue
      <4>3. Queued(Append(ready, c), BodiesDone) <=> Queued(ready, BodiesDone)
        BY <1>1, <4>1, AppendQueue
      <4>4. QED
        BY <3>4, <4>2, <4>3
    <3>5. QED
      BY <3>1, <3>3, <3>4, Zenon
  <2>6. Open => (InProgress' => InProgress)
    BY <2>3, <2>4, <2>5 DEF InProgress
  <2>7. Open => Deliveries'
    BY <1>1, <1>2, <2>2, <2>6, DeliveriesFrame DEF DeliveryInv
  <2>8. QED
    BY <2>1, <2>2, <2>7 DEF DeliveryInv, Open
<1>3. CASE do_close(ready)
  <2>1. ~Open'
    BY <1>3 DEF do_close, Open, object
  <2>2. QED
    BY <1>1, <2>1, ClosedDeliveries DEF DeliveryInv
<1>4. QED
  BY <1>2, <1>3 DEF Return

LEMMA LuaDeliveries ==
  ASSUME TypeOK, LifeInv, DeliveryInv, Lua
  PROVE  DeliveryInv'
<1>1. /\ ready \in Seq(Completion) /\ received \in Seq(Kinds)
      /\ UNCHANGED <<events, received, bodyBuf, cont>>
  BY DEF Lua, Connect, SendSocketData, StopServer, TypeOK, AsioType, NetworkType,
     network, thread, buffers
<1>2. CASE Connect
  <2>1. CASE m_bClosed \/ do_close(ready)
    <3>1. ~Open'
      BY <1>2, <2>1 DEF Connect, do_close, Open, object
    <3>2. QED
      BY <1>1, <3>1, ClosedDeliveries DEF DeliveryInv
  <2>2. CASE /\ ~m_bClosed /\ UNCHANGED <<readOps, ready>>
    <3>1. received = <<>>
      BY <1>2, <2>2 DEF Connect, LifeInv, ObjectLife, Unused
    <3>2. QED
      BY <1>1, <2>2, <3>1, QuietDeliveries
  <2>3. QED
    BY <1>2, <2>1, <2>2 DEF Connect
<1>3. CASE SendSocketData
  <2>1. ready' = ready \/ \E p : ready' = Append(ready, Completed("write", "failed", p))
    BY <1>3 DEF SendSocketData, do_write
  <2>2. \A p : /\ Completed("write", "failed", p) \notin HeadersDone
               /\ Completed("write", "failed", p) \notin BodiesDone
    BY DEF Completed, HeadersDone, BodiesDone
  <2>3. Keeps(HeadersDone) /\ Keeps(BodiesDone)
    BY <2>1, <2>2, AddKeeps DEF TypeOK
  <2>4. UNCHANGED <<readOps, m_bClosed, m_bIsAlive>>
    BY <1>3 DEF SendSocketData
  <2>5. QED
    BY <1>1, <2>3, <2>4, QuietDeliveries DEF Keeps, Open
<1>4. CASE StopServer
  <2>1. ~Open'
    BY <1>4 DEF StopServer, do_close, Open, object
  <2>2. QED
    BY <1>1, <2>1, ClosedDeliveries DEF DeliveryInv
<1>5. QED
  BY <1>2, <1>3, <1>4 DEF Lua

LEMMA NetworkDeliveries ==
  ASSUME TypeOK, LifeInv, ReadInv, DeliveryInv, Network
  PROVE  DeliveryInv'
<1>1. /\ UNCHANGED <<m_bClosed, m_bIsAlive, cont, events>>
      /\ AsioType /\ ready \in Seq(Completion) /\ readOps \in Seq(Reads)
      /\ received \in Seq(Kinds)
  BY DEF Network, CompleteConnect, CompleteHeader, CompleteBody, FailRead, CompleteWrite,
     FailWrite, OthersIdle, object, thread, TypeOK, AsioType, NetworkType
<1>2. Open' <=> Open
  BY <1>1 DEF Open
<1>3. Open => OneListen /\ Framing
  BY OpenIsSingleUse DEF LifeInv, ReadInv
<1>4. readOps # <<>> /\ Len(readOps) <= 1 => Tail(readOps) = <<>>
  BY <1>1
<1>5. CASE CompleteConnect \/ CompleteWrite \/ FailWrite
  <2>1. UNCHANGED <<readOps, received, bodyBuf>>
    BY <1>5 DEF CompleteConnect, CompleteWrite, FailWrite, buffers, network
  <2>2. \E op \in {"connect", "write"} : \E res, pkt : Post(op, res, pkt)
    BY <1>5 DEF CompleteConnect, CompleteWrite, FailWrite
  <2>3. \A op \in {"connect", "write"} : \A res, pkt :
          Completed(op, res, pkt) \notin HeadersDone /\ Completed(op, res, pkt) \notin BodiesDone
    BY DEF Completed, HeadersDone, BodiesDone
  <2>4. Keeps(HeadersDone) /\ Keeps(BodiesDone)
    BY <1>1, <2>2, <2>3, AddKeeps DEF Post
  <2>5. QED
    BY <1>1, <1>2, <2>1, <2>4, QuietDeliveries DEF Keeps
<1>6. CASE FailRead
  <2>1. /\ UNCHANGED <<received, bodyBuf>> /\ readOps # <<>>
        /\ ready' = Append(ready, Completed(Head(readOps), "failed", 0))
        /\ readOps' = Tail(readOps)
    BY <1>6 DEF FailRead, Post, buffers, network
  <2>2. \A op : /\ Completed(op, "failed", 0) \notin HeadersDone
                /\ Completed(op, "failed", 0) \notin BodiesDone
    BY DEF Completed, HeadersDone, BodiesDone
  <2>3. Keeps(HeadersDone) /\ Keeps(BodiesDone)
    BY <1>1, <2>1, <2>2, AddKeeps
  <2>4. CASE Open
    <3>1. readOps' = <<>>
      BY <1>3, <1>4, <2>1, <2>4 DEF OneListen
    <3>2. QED
      BY <1>1, <1>2, <2>1, <2>3, <3>1, QuietDeliveries DEF Keeps
  <2>5. CASE ~Open
    BY <1>1, <1>2, <2>1, <2>5, ClosedDeliveries DEF DeliveryInv
  <2>6. QED
    BY <2>4, <2>5
<1>7. CASE CompleteBody
  <2>1. /\ received' = received /\ readOps # <<>> /\ BodyDue
        /\ readOps' = Tail(readOps)
    BY <1>7 DEF CompleteBody, network
  <2>2. DeliveredInOrder' /\ \A p : Given(p)' <=> Given(p)
    BY <1>1, <2>1, SameDeliveries DEF DeliveryInv
  <2>3. ASSUME Open PROVE Deliveries'
    <3>1. readOps' = <<>> /\ InProgress
      BY <1>3, <1>4, <2>1, <2>3 DEF OneListen, InProgress
    <3>2. QED
      BY <1>1, <2>1, <2>2, <2>3, <3>1, DeliveriesFrame DEF DeliveryInv
  <2>4. QED
    BY <1>2, <2>2, <2>3 DEF DeliveryInv
<1>8. CASE CompleteHeader
  <2>1. PICK k : received' = Append(received, k)
    BY <1>8 DEF CompleteHeader
  <2>2. /\ readOps # <<>> /\ ~BodyDue /\ readOps' = Tail(readOps)
    BY <1>8 DEF CompleteHeader
  <2>3. DeliveredInOrder' /\ \A p : Given(p)' <=> Given(p)
    BY <1>1, <2>1, SameDeliveries DEF DeliveryInv
  <2>4. ASSUME Open PROVE Deliveries'
    <3>1. readOps' = <<>> /\ cont' # "read_header"
      BY <1>1, <1>3, <1>4, <2>2, <2>4 DEF OneListen
    <3>2. DealtWith(Len(received))
      BY <2>2, <2>4 DEF DeliveryInv, Deliveries
    <3>3. /\ Len(received') - 1 = Len(received)
          /\ \A p \in 1..Len(received) : received'[p] = received[p]
          /\ Len(received') \notin DOMAIN received
      BY <1>1, <2>1
    <3>4. DealtWith(Len(received) - 1)'
      BY <2>3, <3>2, <3>3 DEF DealtWith
    <3>5. ~Given(Len(received))'
      <4>1. ~Given(Len(received'))
        BY <3>3, GivenWithin DEF DeliveryInv
      <4>2. QED
        BY <2>3, <4>1
    <3>6. QED
      BY <3>1, <3>4, <3>5 DEF Deliveries
  <2>5. QED
    BY <1>2, <2>3, <2>4 DEF DeliveryInv
<1>9. QED
  BY <1>5, <1>6, <1>7, <1>8 DEF Network

LEMMA FrameDeliveries ==
  ASSUME TypeOK, DeliveryInv, PollStart \/ PollEnd \/ DrainPool \/ UNCHANGED vars
  PROVE  DeliveryInv'
<1>1. UNCHANGED <<m_bClosed, m_bIsAlive, readOps, ready, received, bodyBuf, cont, events>>
  BY DEF PollStart, PollEnd, DrainPool, vars, object, asio, network, thread, buffers
<1>2. received \in Seq(Kinds)
  BY DEF TypeOK, NetworkType
<1>3. QED
  BY <1>1, <1>2, QuietDeliveries DEF Open

LEMMA NextDeliveries ==
  TypeOK /\ Quiet /\ LifeInv /\ WriteInv /\ ReadInv /\ DeliveryInv /\ [Next]_vars
    => DeliveryInv'
<1> SUFFICES ASSUME TypeOK, Quiet, LifeInv, WriteInv, ReadInv, DeliveryInv, [Next]_vars
             PROVE  DeliveryInv'
  OBVIOUS
<1>1. CASE RunHandler
  <2>1. Polled
    BY <1>1 DEF RunHandler, ConnectHandler, HeaderHandler, BodyHandler, WriteHandler,
       Handling, Polled
  <2>2. QED
    BY <1>1, <2>1, HandlerDeliveries
<1>2. QED
  BY <1>1, LuaDeliveries, ReturnDeliveries, NetworkDeliveries, FrameDeliveries
  DEF Next, MainThread

LEMMA InitDeliveries == Init => DeliveryInv
<1> SUFFICES ASSUME Init PROVE DeliveryInv
  OBVIOUS
<1>1. DeliveredInOrder
  BY DEF Init, DeliveredInOrder
<1>2. ~Open
  BY DEF Init, Open
<1>3. QED
  BY <1>1, <1>2 DEF DeliveryInv

\* The invariant behind the deliveries, which needs those of both directions.
THEOREM DeliveriesInvariant == Spec => []DeliveryInv
<1>1. /\ TypeOK /\ EventInv /\ LifeInv /\ WriteInv /\ ReadInv /\ DeliveryInv /\ [Next]_vars
      => DeliveryInv'
  BY NextDeliveries DEF EventInv
<1>2. QED
  BY <1>1, InitDeliveries, TypeCorrect, EventsInvariant, DirectionsInvariant, PTL DEF Spec

\* Lua gets the server's packets in order, each once, none left out that is
\* for Lua, and each with its own body, reconnects included.
THEOREM PacketsInOrder == Spec => []DeliveredInOrder
<1>1. DeliveryInv => DeliveredInOrder
  BY DEF DeliveryInv
<1>2. QED
  BY <1>1, DeliveriesInvariant, PTL

-----------------------------------------------------------------------------
(* Errors: the object closes after the callback that reported one *)

LEMMA NextErrors == TypeOK /\ Quiet /\ ErrorInv /\ [Next]_vars => ErrorInv'
<1> SUFFICES ASSUME TypeOK, Quiet, ErrorInv, [Next]_vars PROVE ErrorInv'
  OBVIOUS
<1> DEFINE E == [type |-> "error", head |-> 0, body |-> 0]
<1>1. m_bClosed => m_bClosed'
  BY Zenon DEF Next, Lua, MainThread, RunHandler, Network, Connect, SendSocketData, StopServer,
     ConnectHandler, HeaderHandler, BodyHandler, WriteHandler, Return, PollStart, PollEnd,
     DrainPool, CompleteConnect, CompleteHeader, CompleteBody, FailRead, CompleteWrite,
     FailWrite, OthersIdle, vars, object, Fail, CallLua, ReadOn, Dispatch, do_close
<1>2. CASE CallLua(E, "close")
  <2>1. events' = Append(events, E) /\ events \in Seq(Event)
    BY <1>2 DEF CallLua, TypeOK, ThreadType
  <2>2. events' # <<>> /\ Last(events') = E
    BY <2>1 DEF Last
  <2>3. QED
    BY <2>2 DEF ErrorInv, SaidError
<1>3. CASE cont' # "close"
  BY <1>3, Zenon DEF ErrorInv
<1>4. CASE UNCHANGED <<cont, events>>
  BY <1>1, <1>4 DEF ErrorInv, SaidError
<1>5. CASE RunHandler
  <2>1. pc = "poll"
    BY <1>5 DEF RunHandler, ConnectHandler, HeaderHandler, BodyHandler, WriteHandler, Handling
  <2>2. cont = "none"
    BY <2>1 DEF Quiet
  <2>3. \/ CallLua(E, "close") \/ cont' # "close" \/ UNCHANGED cont
    BY <1>5 DEF RunHandler, ConnectHandler, HeaderHandler, BodyHandler, WriteHandler, Fail,
       CallLua, Dispatch, ReadOn, thread
  <2>4. QED
    BY <1>2, <1>3, <2>2, <2>3
<1>6. CASE Return
  BY <1>3, <1>6 DEF Return
<1>7. QED
  BY <1>4, <1>5, <1>6
  DEF Next, Lua, MainThread, Network, Connect, SendSocketData, StopServer, PollStart,
      PollEnd, DrainPool, CompleteConnect, CompleteHeader, CompleteBody, FailRead,
      CompleteWrite, FailWrite, OthersIdle, vars, thread

\* A socket that is about to close has told Lua why.
THEOREM ErrorsAreReported == Spec => []ErrorInv
<1>1. Init => ErrorInv
  BY DEF Init, ErrorInv
<1>2. TypeOK /\ EventInv /\ ErrorInv /\ [Next]_vars => ErrorInv'
  BY NextErrors DEF EventInv
<1>3. QED
  BY <1>1, <1>2, TypeCorrect, EventsInvariant, PTL DEF Spec

-----------------------------------------------------------------------------
(* Refinement: every step is one of the contract's, or none *)

\* Every inductive invariant, for a socket used for one connection.
ContractInv ==
    /\ TypeOK /\ SingleUse
    /\ LifeInv /\ WriteInv /\ ReadInv /\ DeliveryInv /\ EventInv /\ ErrorInv

LEMMA PhaseOf ==
  /\ m_bClosed => Phase = "closed"
  /\ ~m_bClosed /\ ~m_bIsAlive => Phase = "idle"
  /\ Open /\ events = <<>> => Phase = "opening"
  /\ Open /\ events # <<>> /\ Last(events).type = "error" => Phase = "failed"
  /\ Open /\ events # <<>> /\ Last(events).type # "error" => Phase = "open"
  /\ Open => Phase \in {"opening", "open", "failed"}
BY DEF Phase, Open

LEMMA SamePhase ==
  ASSUME UNCHANGED <<m_bClosed, m_bIsAlive, events>>
  PROVE  Phase' = Phase
BY DEF Phase

\* Steps that neither party sees.
LEMMA StutterStep ==
  ASSUME UNCHANGED <<m_bClosed, m_bIsAlive, events, packCount, wire, received>>
  PROVE  UNCHANGED Contract!vars
BY SamePhase DEF Contract!vars

LEMMA CloseStep ==
  ASSUME NEW q, do_close(q), UNCHANGED <<events, packCount, wire, received>>
  PROVE  [Contract!Next]_(Contract!vars)
<1>1. CASE m_bClosed
  <2>1. UNCHANGED <<m_bClosed, m_bIsAlive>>
    BY <1>1 DEF do_close, object
  <2>2. QED
    BY <2>1, StutterStep
<1>2. CASE ~m_bClosed
  <2>1. m_bClosed'
    BY <1>2 DEF do_close
  <2>2. Phase # "closed" /\ Phase' = "closed"
    BY <1>2, <2>1 DEF Phase
  <2>3. QED
    BY <2>2 DEF Contract!Next, Contract!Close
<1>3. QED
  BY <1>1, <1>2

\* A handler that may call Lua finds it listening, and the object open.
LEMMA CallFinds ==
  ASSUME ContractInv, pc = "poll", ready # <<>>, m_nHandle # 0
  PROVE  /\ Open /\ Heard /\ NoError
         /\ Phase = IF events = <<>> THEN "opening" ELSE "open"
<1>1. Open
  BY BusyIsConnected, Zenon DEF ContractInv, LifeInv, EventInv, Quiet, Open
<1>2. Heard /\ NoError
  BY DEF ContractInv, EventInv, Quiet, Hearing, Heard
<1>3. events # <<>> => Last(events).type # "error"
  <2>1. events \in Seq(Event)
    BY DEF ContractInv, TypeOK, ThreadType
  <2>2. events # <<>> => Len(events) \in DOMAIN events
    BY <2>1
  <2>3. QED
    BY <1>2, <2>2 DEF NoError, Last
<1>4. QED
  BY <1>1, <1>2, <1>3, PhaseOf

LEMMA FailRefines ==
  ASSUME ContractInv, pc = "poll", ready # <<>>, Fail,
         UNCHANGED <<packCount, wire, received>>
  PROVE  [Contract!Next]_(Contract!vars)
<1> DEFINE E == [type |-> "error", head |-> 0, body |-> 0]
<1>1. CASE CallLua(E, "close")
  <2>1. /\ UNCHANGED <<m_bClosed, m_bIsAlive>> /\ m_nHandle # 0
        /\ events' = Append(events, E) /\ events \in Seq(Event)
    BY <1>1 DEF CallLua, object, ContractInv, TypeOK, ThreadType
  <2>2. Open /\ Phase \in {"opening", "open"}
    BY <2>1, CallFinds
  <2>3. events' # <<>> /\ Last(events').type = "error"
    BY <2>1 DEF Last
  <2>4. Phase' = "failed"
    BY <2>1, <2>2, <2>3 DEF Phase, Open
  <2>5. QED
    BY <2>1, <2>2, <2>4 DEF Contract!Next, Contract!Break
<1>2. CASE do_close(Tail(ready)) /\ UNCHANGED thread
  BY <1>2, CloseStep DEF thread
<1>3. QED
  BY <1>1, <1>2 DEF Fail

LEMMA ReadOnRefines ==
  ASSUME ReadOn \/ (do_read_body(Tail(ready)) /\ UNCHANGED <<object, thread>>),
         UNCHANGED <<packCount, wire, received>>
  PROVE  [Contract!Next]_(Contract!vars)
BY StutterStep DEF ReadOn, object, thread

LEMMA ConnectedRefines ==
  ASSUME ContractInv, Handling("connect", "done"),
         CallLua([type |-> "connect", head |-> 0, body |-> 0], "read_header"),
         UNCHANGED <<packCount, wire, received>>
  PROVE  [Contract!Next]_(Contract!vars)
<1> DEFINE c == [type |-> "connect", head |-> 0, body |-> 0]
<1>1. /\ UNCHANGED <<m_bClosed, m_bIsAlive>> /\ m_nHandle # 0
      /\ events' = Append(events, c) /\ pc = "poll" /\ ready # <<>>
      /\ ready \in Seq(Completion)
  BY DEF CallLua, object, Handling, ContractInv, TypeOK, AsioType
<1>2. QueuedConnect(ready)
  BY <1>1, TailOfQueue DEF Handling
<1>3. Open /\ events = <<>> /\ Phase = "opening"
  BY <1>1, <1>2, CallFinds DEF Heard
<1>4. events' = <<c>>
  BY <1>1, <1>3
<1>5. events' # <<>> /\ Last(events').type # "error"
  BY <1>4 DEF Last
<1>6. Phase' = "open"
  BY <1>1, <1>3, <1>5 DEF Phase, Open
<1>7. QED
  BY <1>3, <1>4, <1>6 DEF Contract!Next, Contract!Opened

\* What Lua was given is what the contract says of a delivered packet.
LEMMA GivenIsDelivered ==
  ASSUME DeliveredInOrder, events \in Seq(Event), NEW p
  PROVE  Given(p) <=> p \in DOMAIN received /\ Contract!Delivered(p)
<1>1. ASSUME NEW i \in DOMAIN events, events[i].type = "data", events[i].head = p
      PROVE  p \in DOMAIN received /\ events[i] = Contract!DataEvent(p)
  <2>1. events[i] \in Event
    BY <1>1
  <2>2. /\ p \in DOMAIN received
        /\ events[i].body = IF received[p] = "data" THEN p ELSE 0
    BY <1>1 DEF DeliveredInOrder, HasBody
  <2>3. QED
    BY <1>1, <2>1, <2>2 DEF Event, Contract!DataEvent
<1>2. Contract!DataEvent(p).type = "data" /\ Contract!DataEvent(p).head = p
  BY DEF Contract!DataEvent
<1>3. QED
  BY <1>1, <1>2 DEF Given, IsData, Contract!Delivered

LEMMA GiveRefines ==
  ASSUME ContractInv, pc = "poll", ready # <<>>, NEW b, Head(ready).op \in Reads,
         CallLua([type |-> "data", head |-> headBuf, body |-> b], "read_header"),
         HeaderHeld, InProgress, Deliverable(Last(received)),
         b = IF HasBody(Last(received)) THEN Len(received) ELSE 0,
         UNCHANGED <<packCount, wire, received>>
  PROVE  [Contract!Next]_(Contract!vars)
<1> DEFINE n == Len(received)
<1>1. /\ UNCHANGED <<m_bClosed, m_bIsAlive>> /\ m_nHandle # 0
      /\ events' = Append(events, [type |-> "data", head |-> headBuf, body |-> b])
      /\ ready \in Seq(Completion) /\ events \in Seq(Event) /\ received \in Seq(Kinds)
  BY DEF CallLua, object, ContractInv, TypeOK, AsioType, ThreadType, NetworkType
<1>2. n \in DOMAIN received /\ Last(received) = received[n] /\ headBuf = n
  BY <1>1 DEF HeaderHeld, Last
<1>3. Open /\ Heard /\ Phase = IF events = <<>> THEN "opening" ELSE "open"
  BY <1>1, CallFinds
<1>4. events # <<>> /\ Phase = "open"
  <2>1. QueuedRead(ready)
    BY <1>1, TailOfQueue
  <2>2. Connected
    BY <1>3, <2>1 DEF Heard
  <2>3. QED
    BY <1>3, <2>2 DEF Connected
<1>5. [type |-> "data", head |-> headBuf, body |-> b] = Contract!DataEvent(n)
  BY <1>2 DEF Contract!DataEvent, HasBody
<1>6. DealtWith(n - 1) /\ ~Given(n) /\ DeliveredInOrder
  BY <1>3 DEF ContractInv, DeliveryInv, Deliveries
<1>7. /\ Contract!ForLua(received[n]) /\ ~Contract!Delivered(n)
      /\ \A q \in 1..(n - 1) : Contract!ForLua(received[q]) => Contract!Delivered(q)
  <2>1. \A k : Contract!ForLua(k) <=> Deliverable(k)
    BY DEF Contract!ForLua, Deliverable
  <2>2. Contract!ForLua(received[n]) /\ ~Contract!Delivered(n)
    BY <1>1, <1>2, <1>6, <2>1, GivenIsDelivered
  <2>3. ASSUME NEW q \in 1..(n - 1), Contract!ForLua(received[q])
        PROVE  Contract!Delivered(q)
    <3>1. Given(q)
      BY <1>6, <2>1, <2>3 DEF DealtWith
    <3>2. QED
      BY <1>1, <1>6, <3>1, GivenIsDelivered
  <2>4. QED
    BY <2>2, <2>3
<1>8. Phase' = "open"
  <2>1. events' # <<>> /\ Last(events').type = "data"
    BY <1>1 DEF Last
  <2>2. Open'
    BY <1>1, <1>3 DEF Open
  <2>3. QED
    BY <2>1, <2>2 DEF Phase, Open
<1>9. events' = Append(events, Contract!DataEvent(n))
  BY <1>1, <1>5
<1> HIDE DEF n
<1>10. QED
  BY <1>2, <1>4, <1>7, <1>8, <1>9 DEF Contract!Next, Contract!Deliver

LEMMA DispatchRefines ==
  ASSUME ContractInv, pc = "poll", ready # <<>>, NEW b, Head(ready).op \in Reads,
         Dispatch(b), UNCHANGED <<packCount, wire, received>>,
         Open => /\ HeaderHeld /\ HeadKind = Last(received) /\ InProgress
                 /\ b = IF HasBody(Last(received)) THEN Len(received) ELSE 0
  PROVE  [Contract!Next]_(Contract!vars)
<1>1. CASE /\ Deliverable(HeadKind)
           /\ CallLua([type |-> "data", head |-> headBuf, body |-> b], "read_header")
  <2>1. Open
    BY <1>1, CallFinds DEF CallLua
  <2>2. QED
    BY <1>1, <2>1, GiveRefines
<1>2. CASE ReadOn
  BY <1>2, ReadOnRefines
<1>3. QED
  BY <1>1, <1>2 DEF Dispatch

LEMMA HandlerRefines ==
  ASSUME ContractInv, RunHandler
  PROVE  [Contract!Next]_(Contract!vars)
<1>1. /\ UNCHANGED <<packCount, received>> /\ pc = "poll" /\ ready # <<>>
      /\ UNCHANGED wire
  BY DEF RunHandler, ConnectHandler, HeaderHandler, BodyHandler, WriteHandler, network,
     Handling
<1>2. Polled /\ ready \in Seq(Completion)
  BY <1>1 DEF Polled, ContractInv, EventInv, TypeOK, AsioType
<1>3. Fail => [Contract!Next]_(Contract!vars)
  BY <1>1, FailRefines
<1>4. ReadOn => [Contract!Next]_(Contract!vars)
  BY <1>1, ReadOnRefines
<1>5. CASE ConnectHandler
  BY <1>1, <1>3, <1>4, <1>5, ConnectedRefines DEF ConnectHandler
<1>6. CASE HeaderHandler
  <2>1. CASE Handling("header", "done") /\ ~HasBody(HeadKind) /\ Dispatch(0)
    <3>1. Head(ready).op \in Reads /\ Head(ready) \in HeadersDone
      BY <1>1, <1>2, <2>1 DEF Handling, HeadersDone, Listens, Reads
    <3>2. InProgress
      BY <1>1, <1>2, <3>1, TailQueue DEF InProgress
    <3>3. Open => HeaderHeld /\ HeadKind = Last(received) /\ ~HasBody(Last(received))
      BY <1>2, <2>1, HeaderBuffered
    <3>4. QED
      BY <1>1, <2>1, <3>1, <3>2, <3>3, DispatchRefines
  <2>2. CASE do_read_body(Tail(ready)) /\ UNCHANGED <<object, thread>>
    BY <1>1, <2>2, ReadOnRefines
  <2>3. QED
    BY <1>3, <1>4, <1>6, <2>1, <2>2 DEF HeaderHandler
<1>7. CASE BodyHandler
  <2>1. CASE Handling("body", "done") /\ Dispatch(bodyBuf)
    <3>1. Head(ready).op \in Reads /\ Head(ready) \in BodiesDone
      BY <1>1, <1>2, <2>1 DEF Handling, BodiesDone, Listens, Reads
    <3>2. InProgress
      BY <1>1, <1>2, <3>1, TailQueue DEF InProgress
    <3>3. Open => /\ HeaderHeld /\ HeadKind = Last(received)
                  /\ bodyBuf = Len(received) /\ HasBody(Last(received))
      BY <1>2, <2>1, BodyBuffered
    <3>4. QED
      BY <1>1, <2>1, <3>1, <3>2, <3>3, DispatchRefines
  <2>2. CASE UNCHANGED <<object, buffers, sock, readOps, writeOps, cont, events>>
    BY <1>1, <2>2, StutterStep DEF object
  <2>3. QED
    BY <1>3, <1>7, <2>1, <2>2 DEF BodyHandler
<1>8. CASE WriteHandler
  <2>1. CASE UNCHANGED <<m_nHandle, m_bClosed, m_bIsAlive, buffers, sock,
                         readOps, cont, events>>
    BY <1>1, <2>1, StutterStep
  <2>2. QED
    BY <1>3, <1>8, <2>1 DEF WriteHandler
<1>9. QED
  BY <1>5, <1>6, <1>7, <1>8 DEF RunHandler

LEMMA LuaRefines ==
  ASSUME ContractInv, SingleUse', Lua
  PROVE  [Contract!Next]_(Contract!vars)
<1>1. UNCHANGED <<events, wire, received>> /\ ObjectLife
  BY DEF Lua, Connect, SendSocketData, StopServer, network, thread, ContractInv, LifeInv
<1>2. CASE Connect
  <2>1. ~m_bClosed /\ ~m_bIsAlive /\ packCount' = packCount
    <3>1. reopens \in Nat
      BY SocketAssumption DEF ContractInv, TypeOK
    <3>2. reopens' # reopens + 1
      BY <3>1 DEF SingleUse
    <3>3. QED
      BY <1>2, <3>2 DEF Connect
  <2>2. CASE do_close(ready)
    BY <1>1, <2>1, <2>2, CloseStep
  <2>3. CASE m_bIsAlive' /\ UNCHANGED m_bClosed
    <3>1. events = <<>> /\ Phase = "idle"
      BY <2>1, PhaseOf DEF ContractInv, LifeInv, ObjectLife, Unused
    <3>2. Phase' = "opening"
      BY <1>1, <2>1, <2>3, <3>1 DEF Phase
    <3>3. QED
      BY <1>1, <2>1, <3>1, <3>2 DEF Contract!Next, Contract!Open
  <2>4. QED
    BY <1>2, <2>1, <2>2, <2>3 DEF Connect
<1>3. CASE SendSocketData
  <2>1. m_bIsAlive /\ UNCHANGED <<m_bClosed, m_bIsAlive>> /\ packCount' = packCount + 1
    BY <1>3 DEF SendSocketData
  <2>2. Open
    BY <1>1, <2>1, OpenIsSingleUse DEF ContractInv
  <2>3. Phase \in {"opening", "open", "failed"} /\ Phase' = Phase
    BY <1>1, <2>1, <2>2, PhaseOf, SamePhase
  <2>4. QED
    BY <1>1, <2>1, <2>3 DEF Contract!Next, Contract!Accept, Contract!Working
<1>4. CASE StopServer
  BY <1>1, <1>4, CloseStep DEF StopServer
<1>5. QED
  BY <1>2, <1>3, <1>4 DEF Lua

LEMMA NetworkRefines ==
  ASSUME ContractInv, Network
  PROVE  [Contract!Next]_(Contract!vars)
<1>1. /\ UNCHANGED <<m_bClosed, m_bIsAlive, events, packCount>>
      /\ Phase' = Phase /\ ObjectLife /\ SingleUse
  <2>1. UNCHANGED <<m_bClosed, m_bIsAlive, events, packCount>>
    BY DEF Network, CompleteConnect, CompleteHeader, CompleteBody, FailRead, CompleteWrite,
       FailWrite, OthersIdle, object, thread
  <2>2. QED
    BY <2>1, SamePhase DEF ContractInv, LifeInv
<1>2. CASE CompleteConnect \/ CompleteBody \/ FailRead \/ FailWrite
  <2>1. UNCHANGED <<wire, received>>
    BY <1>2 DEF CompleteConnect, CompleteBody, FailRead, FailWrite, network
  <2>2. QED
    BY <1>1, <2>1, StutterStep
<1>3. CASE CompleteHeader
  <2>1. readOps # <<>> /\ wire' = wire /\ \E k \in Kinds : received' = Append(received, k)
    BY <1>3 DEF CompleteHeader
  <2>2. Open
    BY <1>1, <2>1, OpenIsSingleUse DEF AtRest
  <2>3. events # <<>>
    <3>1. CASE cont = "close"
      BY <2>2, <3>1, Zenon DEF ContractInv, ErrorInv, SaidError, Open
    <3>2. CASE cont # "close"
      <4>1. Hearing
        BY <1>1, <2>2, <3>2, Zenon DEF ObjectLife, Hearing, Open
      <4>2. Connected
        BY <2>1, <4>1, Zenon DEF ContractInv, EventInv, Heard
      <4>3. QED
        BY <4>2 DEF Connected
    <3>3. QED
      BY <3>1, <3>2
  <2>4. Phase \in {"open", "failed"}
    BY <2>2, <2>3, PhaseOf
  <2>5. QED
    BY <1>1, <2>1, <2>4 DEF Contract!Next, Contract!Receive
<1>4. CASE CompleteWrite
  <2>1. /\ writeOps # <<>> /\ wire' = Append(wire, Head(writeOps))
        /\ received' = received
    BY <1>4 DEF CompleteWrite
  <2>2. Open
    BY <1>1, <2>1, OpenIsSingleUse DEF AtRest
  <2>3. OneWrite /\ FrontInFlight /\ Backlog
    BY <1>1, <2>2 DEF ContractInv, WriteInv
  <2>4. ~Queued(ready, Sent)
    BY <2>1, <2>3, SubQueue, SubKinds DEF OneWrite
  <2>5. /\ m_pendingList \in Seq(Packets) /\ packCount \in Nat /\ wire \in Seq(Packets)
    BY SocketAssumption DEF ContractInv, TypeOK, ObjectType, NetworkType
  <2>6. /\ m_pendingList # <<>> /\ Head(writeOps) = Head(m_pendingList)
        /\ Len(wire) = Written
    BY <2>1, <2>3, <2>4 DEF FrontInFlight, Backlog
  <2>7. 1 \in DOMAIN m_pendingList /\ Head(m_pendingList) = m_pendingList[1]
        /\ Len(m_pendingList) > 0
    BY <2>5, <2>6
  <2>8. Head(writeOps) = Len(wire) + 1 /\ Len(wire) < packCount
    BY <2>3, <2>5, <2>6, <2>7 DEF Backlog, Written
  <2>9. Phase \in {"opening", "open", "failed"}
    BY <2>2, PhaseOf
  <2>10. QED
    BY <1>1, <2>1, <2>8, <2>9 DEF Contract!Next, Contract!Transmit, Contract!Working
<1>5. QED
  BY <1>2, <1>3, <1>4 DEF Network

LEMMA ReturnRefines ==
  ASSUME Return
  PROVE  [Contract!Next]_(Contract!vars)
<1>1. UNCHANGED <<packCount, wire, received, events>>
  BY DEF Return, network
<1>2. QED
  BY <1>1, CloseStep, StutterStep DEF Return, object

LEMMA NextRefines ==
  ContractInv /\ SingleUse' /\ [Next]_vars => [Contract!Next]_(Contract!vars)
<1> SUFFICES ASSUME ContractInv, SingleUse', [Next]_vars
             PROVE  [Contract!Next]_(Contract!vars)
  OBVIOUS
<1>1. CASE PollStart \/ PollEnd \/ DrainPool \/ UNCHANGED vars
  <2>1. UNCHANGED <<m_bClosed, m_bIsAlive, events, packCount, wire, received>>
    BY <1>1 DEF PollStart, PollEnd, DrainPool, vars, object, network, thread
  <2>2. QED
    BY <2>1, StutterStep
<1>2. QED
  BY <1>1, HandlerRefines, ReturnRefines, LuaRefines, NetworkRefines DEF Next, MainThread

LEMMA InitRefines == Init => Contract!Init
<1> SUFFICES ASSUME Init PROVE Contract!Init
  OBVIOUS
<1>1. ~m_bClosed /\ ~m_bIsAlive
  BY Zenon DEF Init
<1>2. Phase = "idle"
  BY <1>1, PhaseOf
<1>3. QED
  BY <1>2 DEF Init, Contract!Init

\* A socket object that is used for one connection is a channel: whatever Lua,
\* the handlers, the network and the frame loop do, what Lua hears and what
\* the server gets is a behaviour of SocketContract.
THEOREM SocketImplementsContract == Spec /\ []SingleUse => ImplementsContract
<1>1. /\ TypeOK /\ LifeInv /\ WriteInv /\ ReadInv /\ DeliveryInv /\ EventInv /\ ErrorInv
      /\ SingleUse /\ SingleUse' /\ [Next]_vars
      => [Contract!Next]_(Contract!vars)
  BY NextRefines DEF ContractInv
<1>2. QED
  BY <1>1, InitRefines, TypeCorrect, DirectionsInvariant, DeliveriesInvariant,
     EventsInvariant, ErrorsAreReported, PTL
  DEF Spec, ImplementsContract, Contract!Spec

\* With no reconnects allowed that is every behaviour of the model.
THEOREM OneConnectionImplementsContract ==
  ASSUME MaxReopen = 0
  PROVE  Spec => ImplementsContract
<1>1. TypeOK => SingleUse
  BY DEF TypeOK, SingleUse
<1>2. QED
  BY <1>1, TypeCorrect, SocketImplementsContract, PTL

=============================================================================
