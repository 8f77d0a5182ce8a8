--------------------------- MODULE SocketLifetime ---------------------------
(***************************************************************************)
(* The sockets of a game, the cocos2d-x scheduler that polls and frees     *)
(* them, and the restart that replaces the Lua engine under them           *)
(* (Classes/plazz/ClientSocket.cpp and .h, Client.cpp, AppDelegate.cpp).   *)
(* Games are numbered; engine is the number of the one that runs, and a    *)
(* socket belongs to the game whose Lua created it.  What a socket sends   *)
(* and receives is in ClientSocket.                                        *)
(***************************************************************************)
EXTENDS Integers

CONSTANTS Sockets,
          MaxGames      \* bound: games started

ASSUME LifetimeAssumption == MaxGames \in Nat \ {0} /\ "restart" \notin Sockets

VARIABLES
    game,          \* the game that created a socket, 0 before
    m_bClosed, m_bIsAlive,
    connected,     \* history: connectSocket has been called on it
    refs, pooled,  \* the reference count; the autorelease to come
    timer,         \* its Poll in the scheduler; "new" until the first update
    engine,
    restart,       \* the timer of RestartGame; "due" when its delay is over
    pc, cur,       \* the main thread, and the socket whose Poll is running
    todo,          \* what the scheduler has still to update in this frame
    foreground

flags == <<m_bClosed, m_bIsAlive, connected>>
counts == <<refs, pooled>>
thread == <<pc, cur, todo>>
vars == <<game, flags, counts, timer, engine, restart, thread, foreground>>

Restart == "restart"
Games == 1 .. MaxGames

TypeOK ==
    /\ game \in [Sockets -> 0 .. MaxGames]
    /\ m_bClosed \in [Sockets -> BOOLEAN] /\ m_bIsAlive \in [Sockets -> BOOLEAN]
    /\ connected \in [Sockets -> BOOLEAN]
    /\ refs \in [Sockets -> 0 .. 2] /\ pooled \in [Sockets -> BOOLEAN]
    /\ timer \in [Sockets -> {"off", "new", "on"}]
    /\ engine \in Games
    /\ restart \in {"none", "waiting", "due"}
    /\ pc \in {"frame", "update", "callback"}
    /\ cur \in Sockets \cup {Restart}
    /\ todo \subseteq Sockets \cup {Restart}
    /\ foreground \in BOOLEAN

\* applicationDidFinishLaunching has loaded the first game.
Init ==
    /\ game = [s \in Sockets |-> 0]
    /\ m_bClosed = [s \in Sockets |-> FALSE] /\ m_bIsAlive = m_bClosed
    /\ connected = m_bClosed
    /\ refs = [s \in Sockets |-> 0] /\ pooled = m_bClosed
    /\ timer = [s \in Sockets |-> "off"]
    /\ engine = 1 /\ restart = "none"
    /\ pc = "frame" /\ cur = Restart /\ todo = {}
    /\ foreground = TRUE

-----------------------------------------------------------------------------
(* Lua runs between frames, in timers of its own during the update, and in   *)
(* the callbacks of a Poll, the one place where pc names a socket.           *)

\* Variant: Lua of one game holds sockets of another.
Usable_AnyGame(s) == refs[s] > 0

\* The userdata of a freed object is void, and that of an earlier game is gone.
Usable(s) == refs[s] > 0 /\ game[s] = engine

createSocket(s) ==
    /\ game[s] = 0
    /\ game' = [game EXCEPT ![s] = engine]
    /\ refs' = [refs EXCEPT ![s] = 2] /\ pooled' = [pooled EXCEPT ![s] = TRUE]
    /\ UNCHANGED <<flags, timer, engine, restart, thread, foreground>>

\* do_close
Closed(s) ==
    IF m_bClosed[s] THEN UNCHANGED <<m_bClosed, m_bIsAlive>>
    ELSE m_bClosed' = [m_bClosed EXCEPT ![s] = TRUE] /\ m_bIsAlive' = [m_bIsAlive EXCEPT ![s] = FALSE]

\* A timer put into the scheduler while it updates may have its turn at once.
Scheduled(s) ==
    IF timer[s] # "off" THEN UNCHANGED <<timer, todo>>
    ELSE /\ timer' = [timer EXCEPT ![s] = "new"]
         /\ todo' \in {todo} \cup {todo \cup {s} : p \in {pc} \ {"frame"}}

\* Variant: Poll is scheduled when the name has been resolved.
Connect_SchedulesLate(s) ==
    /\ Usable(s) /\ ~m_bIsAlive[s]
    /\ connected' = [connected EXCEPT ![s] = TRUE]
    /\ \/ Scheduled(s) /\ m_bIsAlive' = [m_bIsAlive EXCEPT ![s] = TRUE] /\ UNCHANGED m_bClosed
       \/ ~m_bClosed[s] /\ Closed(s) /\ UNCHANGED <<timer, todo>>
    /\ UNCHANGED <<game, counts, engine, restart, pc, cur, foreground>>

\* The second case is a name that does not resolve.
Connect(s) ==
    /\ Usable(s) /\ ~m_bIsAlive[s]
    /\ connected' = [connected EXCEPT ![s] = TRUE]
    /\ Scheduled(s)
    /\ \/ m_bIsAlive' = [m_bIsAlive EXCEPT ![s] = TRUE] /\ UNCHANGED m_bClosed
       \/ ~m_bClosed[s] /\ Closed(s)
    /\ UNCHANGED <<game, counts, engine, restart, pc, cur, foreground>>

StopServer(s) ==
    /\ Usable(s)
    /\ Closed(s)
    /\ UNCHANGED <<game, connected, counts, timer, engine, restart, thread, foreground>>

\* Scheduled for the running scene, 0.1s from now.
RestartGame ==
    /\ engine < MaxGames
    /\ restart' = "waiting" /\ todo' = todo \ {Restart}
    /\ UNCHANGED <<game, flags, counts, timer, engine, pc, cur, foreground>>

Lua == RestartGame \/ \E s \in Sockets : createSocket(s) \/ Connect(s) \/ StopServer(s)

-----------------------------------------------------------------------------
\* The scheduler's update of one frame; none while the app is in the background.
UpdateStart ==
    /\ pc = "frame" /\ foreground
    /\ pc' = "update"
    /\ todo' = {s \in Sockets : timer[s] # "off"} \cup {r \in {Restart} : restart = "due"}
    /\ UNCHANGED <<game, flags, counts, timer, engine, restart, cur, foreground>>

\* A timer's first update only starts its clock.
FirstUpdate(s) ==
    /\ pc = "update" /\ s \in todo /\ timer[s] = "new"
    /\ timer' = [timer EXCEPT ![s] = "on"]
    /\ todo' = todo \ {s}
    /\ UNCHANGED <<game, flags, counts, engine, restart, pc, cur, foreground>>

\* Variant: a closed socket is left alone.
PollClosed_Leaves(s) ==
    /\ pc = "update" /\ s \in todo /\ timer[s] = "on" /\ m_bClosed[s]
    /\ todo' = todo \ {s}
    /\ UNCHANGED <<game, flags, counts, timer, engine, restart, pc, cur, foreground>>

\* Variant: the destructor does not unschedule Poll.
PollClosed_StaysScheduled(s) ==
    /\ pc = "update" /\ s \in todo /\ timer[s] = "on" /\ m_bClosed[s]
    /\ todo' = todo \ {s}
    /\ refs' = [refs EXCEPT ![s] = refs[s] - 1]
    /\ UNCHANGED <<game, flags, pooled, timer, engine, restart, pc, cur, foreground>>

\* Poll of a closed socket releases it; the destructor unschedules Poll.
PollClosed(s) ==
    /\ pc = "update" /\ s \in todo /\ timer[s] = "on" /\ m_bClosed[s]
    /\ todo' = todo \ {s}
    /\ refs' = [refs EXCEPT ![s] = refs[s] - 1]
    /\ timer' = IF refs[s] = 1 THEN [timer EXCEPT ![s] = "off"] ELSE timer
    /\ UNCHANGED <<game, flags, pooled, engine, restart, pc, cur, foreground>>

\* Poll runs the handlers.  Several that call Lua are one whose Lua does it all.
PollQuiet(s) ==
    /\ pc = "update" /\ s \in todo /\ timer[s] = "on" /\ ~m_bClosed[s]
    /\ todo' = todo \ {s}
    /\ UNCHANGED <<game, flags, counts, timer, engine, restart, pc, cur, foreground>>

PollCallsLua(s) ==
    /\ pc = "update" /\ s \in todo /\ timer[s] = "on" /\ ~m_bClosed[s]
    /\ pc' = "callback" /\ cur' = s
    /\ todo' = todo \ {s}
    /\ UNCHANGED <<game, flags, counts, timer, engine, restart, foreground>>

\* The handler of a failed operation closes the socket after Lua has heard.
CallbackReturns ==
    /\ pc = "callback"
    /\ pc' = "update" /\ cur' = Restart
    /\ Closed(cur) \/ UNCHANGED <<m_bClosed, m_bIsAlive>>
    /\ UNCHANGED <<game, connected, counts, timer, engine, restart, todo, foreground>>

\* Variant: the timers of the old game stay.
RestartFires_KeepsTimers ==
    /\ pc = "update" /\ Restart \in todo
    /\ restart' = "none" /\ engine' = engine + 1
    /\ todo' = todo \ {Restart}
    /\ UNCHANGED <<game, flags, counts, timer, pc, cur, foreground>>

\* The lambda of RestartGame: every timer is unscheduled and the engine removed,
\* LoadGame makes a new one.
RestartFires ==
    /\ pc = "update" /\ Restart \in todo
    /\ restart' = "none" /\ engine' = engine + 1
    /\ timer' = [s \in Sockets |-> "off"]
    /\ todo' = {}
    /\ UNCHANGED <<game, flags, counts, pc, cur, foreground>>

\* The end of the frame drains the autorelease pool.
UpdateEnd ==
    /\ pc = "update" /\ todo = {}
    /\ pc' = "frame"
    /\ refs' = [s \in Sockets |-> IF pooled[s] THEN refs[s] - 1 ELSE refs[s]]
    /\ pooled' = [s \in Sockets |-> FALSE]
    /\ UNCHANGED <<game, flags, timer, engine, restart, cur, todo, foreground>>

DelayOver ==
    /\ restart = "waiting"
    /\ restart' = "due"
    /\ UNCHANGED <<game, flags, counts, timer, engine, thread, foreground>>

\* Lua puts another scene in place of the running one, whose timers go with it.
SceneReplaced ==
    /\ pc = "frame" /\ restart # "none"
    /\ restart' = "none"
    /\ UNCHANGED <<game, flags, counts, timer, engine, thread, foreground>>

\* applicationDidEnterBackground, applicationWillEnterForeground
BackgroundOrForeground ==
    /\ pc = "frame"
    /\ foreground' = ~foreground
    /\ UNCHANGED <<game, flags, counts, timer, engine, restart, thread>>

Update ==
    \/ \E s \in Sockets : \/ FirstUpdate(s) \/ PollClosed(s)
                          \/ PollQuiet(s) \/ PollCallsLua(s)
    \/ RestartFires

Frame == UpdateStart \/ Update \/ CallbackReturns \/ UpdateEnd

Next == Lua \/ Frame \/ DelayOver \/ SceneReplaced \/ BackgroundOrForeground

Spec == Init /\ [][Next]_vars

\* Frames go on while the app is in the foreground, and Lua functions return.
FairSpec == Spec /\ WF_vars(Frame)

-----------------------------------------------------------------------------
\* The scheduler holds no freed object, so no Poll runs on one (Poll, ~CClientSocket).
NoDanglingTimer ==
    /\ \A s \in Sockets : timer[s] # "off" => refs[s] > 0
    /\ \A s \in todo \ {Restart} : timer[s] # "off"

\* Lua is called only for sockets of the game that runs: an earlier game's engine
\* and the function references into it are gone (RestartGame, Poll).
NoStaleCallback == pc = "callback" => refs[cur] > 0 /\ game[cur] = engine

\* A socket that was ever connected is in the scheduler until it is freed or its
\* game ends: it is heard of, and freed once closed (Connect, Poll, RestartGame).
ConnectedIsPolled ==
    \A s \in Sockets :
        connected[s] /\ game[s] = engine /\ refs[s] > 0 => timer[s] # "off"

\* Poll does not release an object before the pool has given up its reference:
\* the drain never takes the last one (createSocket, Poll).
DrainIsFirst == \A s \in Sockets : pooled[s] => refs[s] = 2

\* Once its game is over a socket is left as it is, open or closed: nothing runs
\* that would touch it (RestartGame).
OldGameIsLeft ==
    [][\A s \in Sockets : game[s] \notin {0, engine} =>
           /\ timer'[s] = "off"
           /\ m_bClosed'[s] = m_bClosed[s] /\ m_bIsAlive'[s] = m_bIsAlive[s]]_vars

\* A closed socket that is in the scheduler is freed, unless its game ends, once
\* the app stays in the foreground (Poll, StopServer, stopAnimation).
ClosedIsFreed ==
    <>[]foreground =>
        \A s \in Sockets :
            (m_bClosed[s] /\ timer[s] # "off") ~> (refs[s] = 0 \/ game[s] # engine)
=============================================================================
