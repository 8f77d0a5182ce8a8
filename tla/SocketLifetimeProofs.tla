------------------------- MODULE SocketLifetimeProofs -----------------------
(***************************************************************************)
(* The safety properties of SocketLifetime, for every set of sockets and   *)
(* every number of games.                                                  *)
(***************************************************************************)
EXTENDS SocketLifetime, TLAPS

\* What is known of one socket.  The pool is drained between the update that
\* starts a timer's clock and the one that calls it.
SocketInv(s) ==
    /\ game[s] <= engine
    /\ game[s] = 0 => refs[s] = 0 /\ ~connected[s]
    /\ timer[s] # "off" => refs[s] > 0 /\ game[s] = engine
    /\ s \in todo => timer[s] # "off"
    /\ pooled[s] => refs[s] = 2
    /\ timer[s] = "on" /\ (pc = "frame" \/ s \in todo) => ~pooled[s]
    /\ connected[s] /\ game[s] = engine /\ refs[s] > 0 => timer[s] # "off"

ThreadInv ==
    /\ pc = "frame" => todo = {}
    /\ restart # "none" => engine < MaxGames
    /\ Restart \in todo => restart = "due"
    /\ pc = "callback" => cur \in Sockets /\ refs[cur] > 0 /\ game[cur] = engine

LifeInv == TypeOK /\ ThreadInv /\ \A s \in Sockets : SocketInv(s)

USE LifetimeAssumption DEF Restart, Games, LifeInv, flags, counts, thread

\* do_close changes the flags of one socket, and keeps their types.
LEMMA ClosedFlags ==
    ASSUME TypeOK, NEW s \in Sockets, Closed(s)
    PROVE  /\ m_bClosed' \in [Sockets -> BOOLEAN] /\ m_bIsAlive' \in [Sockets -> BOOLEAN]
           /\ \A t \in Sockets \ {s} :
                 m_bClosed'[t] = m_bClosed[t] /\ m_bIsAlive'[t] = m_bIsAlive[t]
  BY DEF TypeOK, Closed

LEMMA ScheduledTimer ==
    ASSUME TypeOK, ThreadInv, NEW s \in Sockets, Scheduled(s)
    PROVE  /\ timer' \in [Sockets -> {"off", "new", "on"}] /\ timer'[s] # "off"
           /\ timer[s] # "off" => timer'[s] = timer[s] /\ todo' = todo
           /\ timer[s] = "off" => timer'[s] = "new"
           /\ \A t \in Sockets \ {s} : timer'[t] = timer[t]
           /\ todo' = todo \/ (todo' = todo \cup {s} /\ pc # "frame")
  BY DEF TypeOK, ThreadInv, Scheduled

LEMMA LifeInit == Init => LifeInv
  BY DEF Init, TypeOK, ThreadInv, SocketInv

LEMMA CreateStep ==
    ASSUME LifeInv, NEW s \in Sockets, createSocket(s)
    PROVE  LifeInv'
  <1>1. TypeOK'
    BY DEF createSocket, TypeOK
  <1>2. ThreadInv'
    BY DEF createSocket, TypeOK, ThreadInv, SocketInv
  <1>3. ASSUME NEW t \in Sockets PROVE SocketInv(t)'
    BY DEF createSocket, TypeOK, SocketInv
  <1> QED  BY <1>1, <1>2, <1>3

LEMMA ConnectStep ==
    ASSUME LifeInv, NEW s \in Sockets, Connect(s)
    PROVE  LifeInv'
  <1>1. Scheduled(s) /\ UNCHANGED <<game, refs, pooled, engine, restart, pc, cur, foreground>>
        /\ connected' = [connected EXCEPT ![s] = TRUE] /\ refs[s] > 0 /\ game[s] = engine
    BY DEF Connect, Usable
  <1>2. /\ timer' \in [Sockets -> {"off", "new", "on"}] /\ timer'[s] # "off"
        /\ timer[s] # "off" => timer'[s] = timer[s] /\ todo' = todo
        /\ timer[s] = "off" => timer'[s] = "new"
        /\ \A t \in Sockets \ {s} : timer'[t] = timer[t]
        /\ todo' = todo \/ (todo' = todo \cup {s} /\ pc # "frame")
    BY <1>1, ScheduledTimer
  <1>3. m_bClosed' \in [Sockets -> BOOLEAN] /\ m_bIsAlive' \in [Sockets -> BOOLEAN]
    BY ClosedFlags DEF Connect, TypeOK
  <1>4. TypeOK'
    BY <1>1, <1>2, <1>3 DEF TypeOK
  <1>5. ThreadInv'
    BY <1>1, <1>2 DEF ThreadInv
  <1>6. ASSUME NEW t \in Sockets PROVE SocketInv(t)'
    BY <1>1, <1>2 DEF SocketInv, TypeOK
  <1> QED  BY <1>4, <1>5, <1>6

LEMMA StopStep ==
    ASSUME LifeInv, NEW s \in Sockets, StopServer(s)
    PROVE  LifeInv'
  <1>1. TypeOK'
    BY ClosedFlags DEF StopServer, TypeOK
  <1> QED  BY <1>1 DEF StopServer, ThreadInv, SocketInv

LEMMA PollStep ==
    ASSUME LifeInv, NEW s \in Sockets,
           FirstUpdate(s) \/ PollClosed(s) \/ PollQuiet(s) \/ PollCallsLua(s)
    PROVE  LifeInv'
  <1>1. CASE FirstUpdate(s)
    BY <1>1 DEF FirstUpdate, TypeOK, ThreadInv, SocketInv
  <1>2. CASE PollClosed(s)
    <2>1. refs[s] \in {1, 2} /\ ~pooled[s] /\ refs[s] - 1 \in 0 .. 2
      BY <1>2 DEF PollClosed, TypeOK, SocketInv
    <2>2. TypeOK'
      BY <1>2, <2>1 DEF PollClosed, TypeOK
    <2>3. ThreadInv'
      BY <1>2 DEF PollClosed, TypeOK, ThreadInv
    <2>4. ASSUME NEW t \in Sockets PROVE SocketInv(t)'
      BY <1>2, <2>1 DEF PollClosed, TypeOK, SocketInv
    <2> QED  BY <2>2, <2>3, <2>4
  <1>3. CASE PollQuiet(s)
    BY <1>3 DEF PollQuiet, TypeOK, ThreadInv, SocketInv
  <1>4. CASE PollCallsLua(s)
    BY <1>4 DEF PollCallsLua, TypeOK, ThreadInv, SocketInv
  <1> QED  BY <1>1, <1>2, <1>3, <1>4

LEMMA ReturnStep == LifeInv /\ CallbackReturns => LifeInv'
  <1> SUFFICES ASSUME LifeInv, CallbackReturns PROVE LifeInv'
    OBVIOUS
  <1>1. cur \in Sockets
    BY DEF CallbackReturns, ThreadInv
  <1>2. m_bClosed' \in [Sockets -> BOOLEAN] /\ m_bIsAlive' \in [Sockets -> BOOLEAN]
    BY <1>1, ClosedFlags DEF CallbackReturns, TypeOK
  <1>3. TypeOK'
    BY <1>2 DEF CallbackReturns, TypeOK
  <1> QED  BY <1>3 DEF CallbackReturns, ThreadInv, SocketInv

LEMMA RestartStep == LifeInv /\ RestartFires => LifeInv'
  <1> SUFFICES ASSUME LifeInv, RestartFires PROVE LifeInv'
    OBVIOUS
  <1>1. engine \in Nat /\ engine < MaxGames /\ engine' = engine + 1
    BY DEF RestartFires, ThreadInv, TypeOK
  <1>2. TypeOK'
    BY <1>1 DEF RestartFires, TypeOK
  <1>3. ThreadInv'
    BY <1>1 DEF RestartFires, ThreadInv
  <1>4. ASSUME NEW s \in Sockets PROVE SocketInv(s)'
    <2>1. game[s] \in Nat /\ game[s] <= engine
      BY DEF TypeOK, SocketInv
    <2>2. game'[s] # engine' /\ game'[s] <= engine'
      BY <1>1, <2>1 DEF RestartFires
    <2>3. timer'[s] = "off"
      BY DEF RestartFires
    <2> QED  BY <2>2, <2>3 DEF RestartFires, SocketInv
  <1> QED  BY <1>2, <1>3, <1>4

LEMMA EndStep == LifeInv /\ UpdateEnd => LifeInv'
  <1> SUFFICES ASSUME LifeInv, UpdateEnd PROVE LifeInv'
    OBVIOUS
  <1>1. \A s \in Sockets : pooled[s] => refs[s] = 2 /\ refs[s] - 1 = 1
    BY DEF SocketInv
  <1>2. /\ refs' = [s \in Sockets |-> IF pooled[s] THEN 1 ELSE refs[s]]
        /\ pooled' = [s \in Sockets |-> FALSE]
    BY <1>1 DEF UpdateEnd
  <1>3. TypeOK'
    BY <1>2 DEF UpdateEnd, TypeOK
  <1>4. ThreadInv'
    BY DEF UpdateEnd, ThreadInv
  <1>5. ASSUME NEW s \in Sockets PROVE SocketInv(s)'
    BY <1>1, <1>2 DEF UpdateEnd, SocketInv
  <1> QED  BY <1>3, <1>4, <1>5

\* The steps that move no socket.
LEMMA OtherStep ==
    ASSUME LifeInv,
           \/ RestartGame \/ UpdateStart \/ DelayOver
           \/ SceneReplaced \/ BackgroundOrForeground \/ UNCHANGED vars
    PROVE  LifeInv'
  <1>1. CASE RestartGame
    BY <1>1 DEF RestartGame, TypeOK, ThreadInv, SocketInv
  <1>2. CASE UpdateStart
    BY <1>2 DEF UpdateStart, TypeOK, ThreadInv, SocketInv
  <1>3. CASE DelayOver
    BY <1>3 DEF DelayOver, TypeOK, ThreadInv, SocketInv
  <1>4. CASE SceneReplaced
    BY <1>4 DEF SceneReplaced, TypeOK, ThreadInv, SocketInv
  <1>5. CASE BackgroundOrForeground
    BY <1>5 DEF BackgroundOrForeground, TypeOK, ThreadInv, SocketInv
  <1>6. CASE UNCHANGED vars
    BY <1>6 DEF vars, TypeOK, ThreadInv, SocketInv
  <1> QED  BY <1>1, <1>2, <1>3, <1>4, <1>5, <1>6

LEMMA LifeStep == LifeInv /\ [Next]_vars => LifeInv'
  BY CreateStep, ConnectStep, StopStep, PollStep, ReturnStep, RestartStep, EndStep, OtherStep
     DEF Next, Lua, Frame, Update

\* What the scheduler holds is counted and of the running game, always.
THEOREM LifeInvariant == Spec => []LifeInv
  BY LifeInit, LifeStep, PTL DEF Spec

\* The type invariant of SocketLifetime.
THEOREM LifetimeTypes == Spec => []TypeOK
  <1>1. LifeInv => TypeOK
    OBVIOUS
  <1> QED  BY <1>1, LifeInvariant, PTL

\* The scheduler never holds a freed socket (Poll, ~CClientSocket).
THEOREM NothingDangles == Spec => []NoDanglingTimer
  <1>1. LifeInv => NoDanglingTimer
    BY DEF NoDanglingTimer, SocketInv, TypeOK
  <1> QED  BY <1>1, LifeInvariant, PTL

\* No callback ever reaches a socket of a game that is over (RestartGame).
THEOREM CallbacksAreCurrent == Spec => []NoStaleCallback
  <1>1. LifeInv => NoStaleCallback
    BY DEF NoStaleCallback, ThreadInv
  <1> QED  BY <1>1, LifeInvariant, PTL

\* No socket of the running game is lost from the scheduler (Connect, Poll).
THEOREM ConnectedStaysPolled == Spec => []ConnectedIsPolled
  <1>1. LifeInv => ConnectedIsPolled
    BY DEF ConnectedIsPolled, SocketInv
  <1> QED  BY <1>1, LifeInvariant, PTL

\* The autorelease pool never takes the last reference (createSocket, Poll).
THEOREM DrainNeverFrees == Spec => []DrainIsFirst
  <1>1. LifeInv => DrainIsFirst
    BY DEF DrainIsFirst, SocketInv
  <1> QED  BY <1>1, LifeInvariant, PTL

\* Nothing touches the sockets of a game that is over (RestartGame).
THEOREM OldGamesRest == Spec => OldGameIsLeft
  <1> DEFINE Left(s) == /\ timer'[s] = "off"
                        /\ m_bClosed'[s] = m_bClosed[s] /\ m_bIsAlive'[s] = m_bIsAlive[s]
  <1>1. ASSUME LifeInv, [Next]_vars, NEW s \in Sockets, game[s] \notin {0, engine}
        PROVE  Left(s)
    <2>1. timer[s] = "off"
      BY <1>1 DEF SocketInv
    <2>2. ASSUME NEW t \in Sockets, createSocket(t) PROVE Left(s)
      BY <2>1, <2>2 DEF createSocket
    <2>3. ASSUME NEW t \in Sockets, Connect(t) PROVE Left(s)
      <3>1. t # s /\ Scheduled(t)
        BY <1>1, <2>3 DEF Connect, Usable
      <3>2. timer'[s] = "off"
        BY <1>1, <2>1, <3>1, ScheduledTimer
      <3>3. m_bClosed'[s] = m_bClosed[s] /\ m_bIsAlive'[s] = m_bIsAlive[s]
        BY <1>1, <2>3, <3>1, ClosedFlags DEF Connect, TypeOK
      <3> QED  BY <3>2, <3>3
    <2>4. ASSUME NEW t \in Sockets, StopServer(t) PROVE Left(s)
      BY <1>1, <2>1, <2>4, ClosedFlags DEF StopServer, Usable
    <2>5. ASSUME NEW t \in Sockets,
                 FirstUpdate(t) \/ PollClosed(t) \/ PollQuiet(t) \/ PollCallsLua(t)
          PROVE  Left(s)
      BY <1>1, <2>1, <2>5 DEF FirstUpdate, PollClosed, PollQuiet, PollCallsLua, TypeOK
    <2>6. CASE CallbackReturns
      <3>1. cur \in Sockets /\ cur # s
        BY <1>1, <2>6 DEF CallbackReturns, ThreadInv
      <3> QED  BY <1>1, <2>1, <2>6, <3>1, ClosedFlags DEF CallbackReturns
    <2>7. CASE RestartFires
      BY <2>7 DEF RestartFires
    <2>8. CASE \/ RestartGame \/ UpdateStart \/ UpdateEnd \/ DelayOver
               \/ SceneReplaced \/ BackgroundOrForeground \/ UNCHANGED vars
      BY <2>1, <2>8
         DEF RestartGame, UpdateStart, UpdateEnd, DelayOver, SceneReplaced,
             BackgroundOrForeground, vars
    <2> HIDE DEF Left
    <2> QED  BY <1>1, <2>2, <2>3, <2>4, <2>5, <2>6, <2>7, <2>8 DEF Next, Lua, Frame, Update
  <1>2. LifeInv /\ [Next]_vars =>
            [\A s \in Sockets : game[s] \notin {0, engine} => Left(s)]_vars
    BY <1>1
  <1> QED  BY <1>2, LifeInvariant, PTL DEF Spec, OldGameIsLeft

=============================================================================
