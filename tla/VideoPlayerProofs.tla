-------------------------- MODULE VideoPlayerProofs --------------------------
(***************************************************************************)
(* What VideoPlayer promises of its handles, of the end of a file and of   *)
(* the order of its pictures, for any files, any delay of the decoder and  *)
(* any number of calls of init.                                            *)
(***************************************************************************)
EXTENDS VideoPlayer, TLAPS

USE VideoAssumption

\* The handles: what is pointed to, what is left, and that a player that can be
\* drawn has a picture.
Owned ==
    /\ ptr \subseteq live
    /\ live \subseteq Handles \X (1 .. inits)
    /\ \A h \in live \ ptr : h[2] < inits \/ (~Exists /\ h[1] \notin Freed)
    /\ ~Exists => ptr = {}
    /\ Exists /\ ready => Has("picture")

\* How a player comes to be, and to be without a completed init.
Objects ==
    /\ file \in Files \cup {<<>>}
    /\ made \in {"none", "new", "create", "gone"}
    /\ ready \in BOOLEAN /\ m_bLoop \in BOOLEAN /\ keeps \in BOOLEAN
    /\ inits \in 0 .. MaxInits
    /\ (made = "none" => pc = "idle" /\ ~ready /\ inits = 0)
    /\ (made = "create" => inits > 0 /\ (ready \/ inits > 1))
    /\ (made \in {"none", "gone"} => ~scheduled)
    /\ scheduled \in BOOLEAN /\ onStage \in BOOLEAN

\* Where updateTimer is, and what it has read by then.
Ticks ==
    /\ pc \in {"idle", "read", "scale", "end", "dead"}
    /\ got \in {-1, 0, 1}
    /\ pos \in 0 .. Len(file)
    /\ failed \in {"none", "read", "seek"} /\ cut \in BOOLEAN
    /\ (pc \in {"read", "scale", "end"} => Exists /\ ready)
    /\ NoMissingHandle
    /\ (pc = "read" => got \in {-1, 0})
    /\ (pc = "scale" /\ Silent => got = 1)
    /\ (pc = "end" /\ Silent => got = 1 \/ pos = Len(file) \/ failed = "read")

VideoInv == Owned /\ Objects /\ Ticks

\* The steps that open nothing and read nothing.
Quiet == play \/ stop \/ EnterStage \/ LeaveStage

LEMMA FilesAreFinite == ASSUME NEW f \in Files \cup {<<>>}
                        PROVE  f \in Seq({"pic", "bad", "audio"}) /\ Len(f) \in Nat
<1>1. <<>> \in Seq({"pic", "bad", "audio"}) /\ Len(<<>>) \in Nat
  OBVIOUS
<1>2. f \in Files => f \in Seq({"pic", "bad", "audio"}) /\ Len(f) \in Nat
  OBVIOUS
<1> QED BY <1>1, <1>2

LEMMA SilentHasNoSound == ASSUME file \in Files \cup {<<>>}, Silent, NEW i \in 1 .. Len(file)
                          PROVE  file[i] # "audio"
  BY FilesAreFinite DEF Silent, SilentFile

\* What an init leaves that has opened a file.
Starts ==
    /\ file' \in Files
    /\ pos' = 0 /\ decoder' = <<>> /\ frame' = 0 /\ shown' = 0
    /\ cut' = FALSE /\ failed' = "none" /\ pc' = "read" /\ got' = -1

\* A file is left only by an init that opens another, at its start.
LEMMA FileKept ==
    ASSUME [Next]_vars
    PROVE  keeps' = keeps /\ (file' = file \/ Starts)
<1>1. ASSUME NEW o \in Outcomes, LuaInit(o) \/ create(o)
      PROVE  keeps' = keeps /\ (FirstTick(o) \/ file' = file)
  BY <1>1 DEF LuaInit, create, init
<1>2. ASSUME NEW o \in Outcomes, FirstTick(o)
      PROVE  file' = file \/ Starts
  BY <1>2 DEF FirstTick, Starts
<1>3. ASSUME UNCHANGED vars PROVE keeps' = keeps /\ file' = file
  BY <1>3 DEF vars, player
<1>4. ASSUME new \/ Quiet \/ destroy \/ DrawUnready \/ updateTimer
      PROVE  keeps' = keeps /\ file' = file
  BY <1>4 DEF new, Quiet, play, stop, EnterStage, LeaveStage, destroy, DrawUnready, Tick,
     ReadVideo, ReadOther, ReadEnds, ReadFails, Scale, TickEnd, updateTimer, player
<1> QED
  <2>1. CASE \E o \in Outcomes : LuaInit(o) \/ create(o)
    BY <1>1, <1>2, <2>1
  <2>2. CASE ~ \E o \in Outcomes : LuaInit(o) \/ create(o)
    <3>1. new \/ Quiet \/ destroy \/ DrawUnready \/ updateTimer \/ UNCHANGED vars
      BY <2>2 DEF Next, Lua, Scene, Quiet
    <3> QED BY <1>3, <1>4, <3>1
  <2> QED BY <2>1, <2>2

-----------------------------------------------------------------------------
LEMMA InitHolds == Init => VideoInv
<1> SUFFICES ASSUME Init PROVE VideoInv
  OBVIOUS
<1>0. 0 \in 0 .. MaxInits
  OBVIOUS
<1>1. Objects
  BY <1>0 DEF Init, Objects
<1>4. Owned
  BY DEF Init, Owned
<1>2. Len(file) = 0 /\ 0 \in 0 .. 0
  BY DEF Init
<1>3. Ticks
  BY <1>2 DEF Init, Ticks, NoMissingHandle
<1> QED BY <1>1, <1>3, <1>4 DEF VideoInv

\* init gives up what it overwrites to the earlier handles, and adds its own.
LEMMA InitOwns ==
    ASSUME VideoInv, NEW o \in Outcomes, init(o), Exists'
    PROVE  Owned'
<1>1. /\ inits \in Nat /\ inits' = inits + 1
      /\ ptr' = {h \in ptr : h[1] \notin Overwritten(o)} \cup Acquires(o)
      /\ live' = live \cup Acquires(o)
      /\ ready' = (o \in Completed)
  BY DEF init, Opens, VideoInv, Objects
<1>2. Acquired(o) \subseteq Handles
  BY DEF Acquired, Outcomes, Completed, Handles
<1>3. /\ Acquires(o) \subseteq Handles \X (1 .. inits')
      /\ Handles \X (1 .. inits) \subseteq Handles \X (1 .. inits')
  <2>1. 1 .. inits \subseteq 1 .. inits' /\ inits + 1 \in 1 .. inits'
    BY <1>1
  <2> QED BY <1>2, <2>1 DEF Acquires
<1>4. ptr' \subseteq live' /\ live' \subseteq Handles \X (1 .. inits')
  BY <1>1, <1>3 DEF VideoInv, Owned
<1>5. ASSUME NEW h \in live' \ ptr' PROVE h[2] < inits'
  <2>1. h \in live
    BY <1>1
  <2>2. h[2] \in 1 .. inits
    BY <2>1 DEF VideoInv, Owned
  <2> QED BY <1>1, <2>2
<1>6. ready' => Has("picture")'
  <2>1. ASSUME ready' PROVE <<"picture", inits + 1>> \in ptr'
    <3>1. "picture" \in Acquired(o)
      BY <1>1, <2>1 DEF Completed, Acquired, Handles
    <3> QED BY <1>1, <3>1 DEF Acquires
  <2>2. inits + 1 \in 1 .. inits'
    BY <1>1
  <2> QED BY <2>1, <2>2 DEF Has
<1>7. ASSUME NEW h \in live' \ ptr'
      PROVE  h[2] < inits' \/ (~Exists /\ h[1] \notin Freed)'
  BY <1>5, <1>7
<1> QED BY <1>4, <1>6, <1>7 DEF Owned

LEMMA OwnedStep == ASSUME VideoInv, [Next]_vars PROVE Owned'
<1> USE DEF VideoInv
<1>1. CASE new
  <2>1. /\ UNCHANGED <<ready, inits, ptr, live>> /\ inits = 0 /\ ~ready
        /\ ptr \subseteq live /\ live \subseteq Handles \X (1 .. inits)
    BY <1>1 DEF new, handles, Owned, Objects
  <2>2. live = {} /\ ptr = {}
    BY <2>1
  <2> QED BY <2>1, <2>2 DEF Owned
<1>2. CASE Quiet \/ DrawUnready \/ updateTimer \/ UNCHANGED vars
  <2>1. UNCHANGED <<made, ready, inits, ptr, live>>
    BY <1>2 DEF Quiet, play, stop, EnterStage, LeaveStage, DrawUnready, updateTimer, Tick,
       ReadVideo, ReadOther, ReadEnds, ReadFails, Scale, TickEnd, vars, player, object, handles
  <2> QED BY <2>1 DEF Owned, Exists, Has
<1>3. ASSUME NEW o \in Outcomes, LuaInit(o) PROVE Owned'
  BY <1>3, InitOwns DEF LuaInit, Exists
<1>4. ASSUME NEW o \in Outcomes, create(o) PROVE Owned'
  <2>1. CASE init(o) /\ made' = "create"
    BY <2>1, InitOwns DEF Exists
  <2>2. CASE /\ made' = "gone" /\ Opens(o) /\ o \notin Completed
             /\ ptr' = {} /\ live' = {h \in Acquires(o) : h[1] \notin Freed}
    <3>0. ready' = (o \in Completed) /\ o \notin Completed /\ inits' = inits + 1
      BY <2>2 DEF Opens
    <3>1. inits \in Nat /\ inits' = inits + 1
      BY <3>0 DEF Objects
    <3>2. Acquires(o) \subseteq Handles \X (1 .. inits')
      <4>1. Acquired(o) \subseteq Handles /\ inits + 1 \in 1 .. inits'
        BY <3>1 DEF Acquired, Outcomes, Completed, Handles
      <4> QED BY <4>1 DEF Acquires
    <3> QED BY <2>2, <3>1, <3>2 DEF Owned, Exists
  <2> QED BY <1>4, <2>1, <2>2 DEF create
<1>5. CASE destroy
  <2>1. /\ Exists /\ made' = "gone" /\ ptr' = {} /\ inits' = inits
        /\ live' = live \ {h \in ptr : h[1] \in Freed} /\ ~Exists'
    BY <1>5 DEF destroy, Exists
  <2> QED BY <2>1 DEF Owned, Exists
<1> QED BY <1>1, <1>2, <1>3, <1>4, <1>5 DEF Next, Lua, Scene, Quiet

LEMMA ObjectStep == ASSUME VideoInv, [Next]_vars PROVE Objects'
<1>0. file' \in Files \cup {<<>>} /\ keeps' \in BOOLEAN
  BY FileKept DEF Starts, VideoInv, Objects
<1>1. ASSUME NEW o \in Outcomes, LuaInit(o) \/ create(o) PROVE Objects'
  <2>1. /\ inits' \in 0 .. MaxInits /\ inits' = inits + 1 /\ inits \in Nat
        /\ m_bLoop' \in BOOLEAN /\ UNCHANGED timer
    BY <1>1 DEF LuaInit, create, init, Opens, VideoInv, Objects
  <2>4. ready' = (o \in Completed)
    BY <1>1 DEF LuaInit, create, init, Opens
  <2>5. ready' \in BOOLEAN /\ (o \in Completed => ready')
    <3>1. CASE o \in Completed
      BY <2>4, <3>1
    <3>2. CASE o \notin Completed
      BY <2>4, <3>2
    <3> QED BY <3>1, <3>2
  <2>2. CASE LuaInit(o)
    <3>1. made' = made /\ made \in {"new", "create"}
      BY <2>2 DEF LuaInit, Exists
    <3> QED BY <1>0, <2>1, <2>5, <3>1 DEF VideoInv, Objects, timer
  <2>3. CASE create(o)
    <3>1. /\ made = "none" /\ made' \in {"create", "gone"}
          /\ (made' = "create" => o \in Completed)
      BY <2>3 DEF create
    <3> QED BY <1>0, <2>1, <2>5, <3>1 DEF VideoInv, Objects, timer
  <2> QED BY <1>1, <2>2, <2>3
<1>2. CASE new
  BY <1>0, <1>2 DEF new, handles, timer, VideoInv, Objects
<1>3. CASE destroy
  BY <1>0, <1>3 DEF destroy, VideoInv, Objects
<1>4. CASE Quiet
  BY <1>0, <1>4 DEF Quiet, play, stop, EnterStage, LeaveStage, player, object, handles,
     Exists, VideoInv, Objects
<1>5. CASE DrawUnready \/ updateTimer \/ UNCHANGED vars
  <2>1. /\ UNCHANGED <<made, ready, m_bLoop, inits, onStage>>
        /\ (scheduled' = scheduled \/ scheduled' = FALSE)
    BY <1>5 DEF DrawUnready, updateTimer, Tick, ReadVideo, ReadOther, ReadEnds, ReadFails,
       ReadsA, Scale, TickEnd, vars, player, object, handles, timer
  <2>3. made = "none" => pc' = "idle"
    BY <1>5 DEF DrawUnready, updateTimer, Tick, ReadVideo, ReadOther, ReadEnds, ReadFails,
       ReadsA, Scale, TickEnd, vars, Exists, VideoInv, Objects
  <2>2. scheduled' \in BOOLEAN /\ (made \in {"none", "gone"} => ~scheduled')
    <3>1. CASE scheduled' = scheduled
      BY <3>1 DEF VideoInv, Objects
    <3>2. CASE scheduled' = FALSE
      BY <3>2
    <3> QED BY <2>1, <3>1, <3>2
  <2> QED BY <1>0, <2>1, <2>2, <2>3 DEF VideoInv, Objects
<1>6. CASE \E o \in Outcomes : LuaInit(o) \/ create(o)
  BY <1>1, <1>6
<1> QED
  <2>1. CASE ~ \E o \in Outcomes : LuaInit(o) \/ create(o)
    <3>1. new \/ Quiet \/ destroy \/ DrawUnready \/ updateTimer \/ UNCHANGED vars
      BY <2>1 DEF Next, Lua, Scene, Quiet
    <3> QED BY <1>2, <1>3, <1>4, <1>5, <3>1
  <2> QED BY <1>6, <2>1

\* The handles stay, so a player that lacks one still lacks it.
LEMMA HandlesKept ==
    ASSUME UNCHANGED <<made, ready, inits, ptr>>
    PROVE  (pc' = pc /\ NoMissingHandle => NoMissingHandle') /\ Has("picture")' = Has("picture")
  BY DEF NoMissingHandle, Has

LEMMA TickStep == ASSUME VideoInv, [Next]_vars PROVE Ticks'
<1> USE DEF VideoInv
<1>0. Len(file) \in Nat /\ (file' = file => Silent' = Silent)
  BY FilesAreFinite DEF Objects, Silent
<1>1. ASSUME NEW o \in Outcomes, LuaInit(o) \/ create(o) PROVE Ticks'
  <2>1. pc = "idle"
    BY <1>1 DEF LuaInit, create, Objects
  <2>2. CASE o \in Completed /\ FirstTick(o)
    <3>1. file' \in Files /\ pos' = 0 /\ failed' = "none" /\ cut' = FALSE
          /\ pc' = "read" /\ got' = -1
      BY <2>2 DEF FirstTick
    <3>2. Len(file') \in Nat
      BY <3>1, FilesAreFinite
    <3>3. Exists' /\ ready'
      BY <1>1, <2>2 DEF LuaInit, create, init, Opens, Exists
    <3>4. 0 \in 0 .. Len(file') /\ NoMissingHandle'
      BY <3>1, <3>2 DEF NoMissingHandle
    <3> QED BY <3>1, <3>3, <3>4 DEF Ticks
  <2>3. CASE UNCHANGED <<file, pc, got, pos, failed, cut>>
    BY <1>0, <2>1, <2>3 DEF Ticks, NoMissingHandle
  <2>4. (o \in Completed /\ FirstTick(o)) \/ UNCHANGED <<file, pc, got, pos, failed, cut>>
    BY <1>1 DEF LuaInit, create, init, FirstTick, stream
  <2> QED BY <2>2, <2>3, <2>4
<1>2. CASE new \/ Quiet \/ destroy
  <2>1. pc = "idle" /\ UNCHANGED <<file, pc, got, pos, failed, cut>>
    BY <1>2 DEF new, Quiet, play, stop, EnterStage, LeaveStage, destroy, player, stream, Objects
  <2> QED BY <1>0, <2>1 DEF Ticks, NoMissingHandle
<1>3. CASE DrawUnready
  <2>1. /\ UNCHANGED <<file, made, ready, inits, ptr, got, pos, failed, cut>>
        /\ pc' = "dead" /\ Exists /\ ~Has("picture")
    BY <1>3 DEF DrawUnready, player, object, handles, stream
  <2>2. ~ready /\ (made = "new" \/ inits > 1)
    BY <2>1 DEF Owned, Objects, Exists
  <2> QED BY <1>0, <2>1, <2>2 DEF Ticks, NoMissingHandle
<1>4. CASE Tick
  <2>1. /\ UNCHANGED <<file, made, ready, inits, ptr, pos, cut>> /\ Exists /\ failed' = "none"
        /\ \/ ready /\ pc' = "read" /\ got' = -1
           \/ ~ready /\ pc' = "dead" /\ got' = got
    BY <1>4 DEF Tick, player, object, handles, stream
  <2>2. ready \/ made = "new" \/ inits > 1
    BY <2>1 DEF Objects, Exists
  <2> QED BY <1>0, <2>1, <2>2 DEF Ticks, NoMissingHandle, Exists
<1>5. CASE ReadVideo \/ ReadOther
  <2>1. /\ UNCHANGED <<file, made, ready, failed, cut>> /\ pc = "read" /\ Exists /\ ready
        /\ pos' = pos + 1 /\ pos < Len(file) /\ pc' \in {"read", "scale"}
        /\ got' \in {-1, 0, 1} /\ (pc' = "read" => got' \in {-1, 0})
    BY <1>5 DEF ReadVideo, ReadOther, ReadsA, player, object, Ticks
  <2>2. Silent /\ pc' = "scale" => got' = 1
    <3>1. CASE ReadVideo
      BY <3>1 DEF ReadVideo
    <3>2. CASE ReadOther
      <4>1. pos + 1 \in 1 .. Len(file) /\ file[pos + 1] = "audio"
        BY <1>0, <3>2 DEF ReadOther, ReadsA, Ticks
      <4> QED BY <4>1, SilentHasNoSound DEF Objects
    <3> QED BY <1>5, <3>1, <3>2
  <2> QED BY <1>0, <2>1, <2>2 DEF Ticks, NoMissingHandle, Exists
<1>6. CASE ReadEnds \/ ReadFails
  <2>1. /\ UNCHANGED <<file, made, ready, got, pos, cut>> /\ pc = "read" /\ pc' = "end"
        /\ ((pos = Len(file) /\ failed' = failed) \/ failed' = "read")
    BY <1>6 DEF ReadEnds, ReadFails, player, object, stream
  <2> QED BY <1>0, <2>1 DEF Ticks, NoMissingHandle, Exists
<1>7. CASE Scale
  <2>1. UNCHANGED <<file, made, ready, inits, ptr, got, pos, failed, cut>> /\ pc = "scale"
    BY <1>7 DEF Scale, player, object, handles, stream
  <2>3. pc' = "end" \/ (pc' = "dead" /\ ~(Has("scaler") /\ Has("pixels")))
    BY <1>7 DEF Scale
  <2>2. ~(Has("scaler") /\ Has("pixels")) => ~(Has("scaler") /\ Has("pixels"))'
    BY <2>1 DEF Has
  <2> QED BY <1>0, <2>1, <2>2, <2>3 DEF Ticks, NoMissingHandle, Exists
<1>8. CASE TickEnd
  <2>1. UNCHANGED <<file, made, ready, got>> /\ pc = "end" /\ pc' = "idle"
    BY <1>8 DEF TickEnd, player, object
  <2>2. pos' \in {0, pos} /\ failed' \in {failed, "seek"} /\ cut' \in BOOLEAN
    BY <1>0, <1>8 DEF TickEnd, Rewinds, Ticks
  <2> QED BY <1>0, <2>1, <2>2 DEF Ticks, NoMissingHandle
<1>9. CASE UNCHANGED vars
  <2>1. UNCHANGED <<file, made, ready, inits, ptr, pc, got, pos, failed, cut>>
    BY <1>9 DEF vars, player, object, handles, stream
  <2>2. NoMissingHandle'
    BY <2>1, HandlesKept DEF Ticks
  <2> QED BY <1>0, <2>1, <2>2 DEF Ticks, Exists
<1>10. CASE \E o \in Outcomes : LuaInit(o) \/ create(o)
  BY <1>1, <1>10
<1> QED
  <2>1. CASE ~ \E o \in Outcomes : LuaInit(o) \/ create(o)
    <3>1. \/ new \/ Quiet \/ destroy \/ DrawUnready \/ UNCHANGED vars
          \/ Tick \/ ReadVideo \/ ReadOther \/ ReadEnds \/ ReadFails \/ Scale \/ TickEnd
      BY <2>1 DEF Next, Lua, Scene, Quiet, updateTimer
    <3> QED BY <1>2, <1>3, <1>4, <1>5, <1>6, <1>7, <1>8, <1>9, <3>1
  <2> QED BY <1>10, <2>1

-----------------------------------------------------------------------------
\* What the decoder holds and what is shown are pictures of the file.
Stream ==
    /\ decoder \in Seq(Pics(file)) /\ Len(decoder) <= Delay
    /\ frame \in {0} \cup Pics(file) /\ shown \in {0} \cup Pics(file)

\* The steps that neither read a packet of video, nor show, nor rewind.
LEMMA OthersKeepStream ==
    ASSUME [Next]_vars, file' = file, ~Starts, ~ReadVideo, ~Scale, ~TickEnd
    PROVE  UNCHANGED <<decoder, frame, shown, cut>> /\ (ReadOther \/ pos' = pos)
<1>1. ASSUME NEW o \in Outcomes, LuaInit(o) \/ create(o)
      PROVE  UNCHANGED <<decoder, frame, shown, cut, pos>>
  BY <1>1 DEF LuaInit, create, init, FirstTick, Starts, stream
<1>2. CASE \E o \in Outcomes : LuaInit(o) \/ create(o)
  BY <1>1, <1>2
<1>3. CASE ~ \E o \in Outcomes : LuaInit(o) \/ create(o)
  BY <1>3 DEF Next, Lua, Scene, updateTimer, new, play, stop, EnterStage, LeaveStage,
     destroy, DrawUnready, Tick, ReadOther, ReadEnds, ReadFails, vars, stream
<1> QED BY <1>2, <1>3

LEMMA OthersKeepPlace ==
    ASSUME [Next]_vars, ~ReadVideo, ~ReadOther, ~Scale, ~TickEnd, ~Starts,
           made = "none" => pc = "idle"
    PROVE  pc' = pc \/ pc' = "dead" \/ (pc # "scale" /\ pc # "dead" /\ pc' # "scale")
<1>1. ASSUME NEW o \in Outcomes, LuaInit(o) \/ create(o)
      PROVE  pc # "scale" /\ pc # "dead" /\ pc' # "scale"
  BY <1>1 DEF LuaInit, create, init, FirstTick
<1>2. CASE \E o \in Outcomes : LuaInit(o) \/ create(o)
  BY <1>1, <1>2
<1>3. CASE ~ \E o \in Outcomes : LuaInit(o) \/ create(o)
  BY <1>3 DEF Next, Lua, Scene, updateTimer, new, play, stop, EnterStage, LeaveStage,
     destroy, DrawUnready, Tick, ReadEnds, ReadFails, vars
<1> QED BY <1>2, <1>3

LEMMA StreamStep == ASSUME VideoInv, Stream, [Next]_vars PROVE Stream'
<1> USE DEF VideoInv
<1>0. Len(file) \in Nat /\ (Starts \/ file' = file)
  BY FilesAreFinite, FileKept DEF Objects
<1>5. CASE Starts
  <2>1. decoder' \in Seq(Pics(file')) /\ Len(decoder') <= Delay /\ frame' = 0 /\ shown' = 0
    BY <1>5 DEF Starts
  <2> QED BY <2>1 DEF Stream
<1> SUFFICES ASSUME file' = file, ~Starts PROVE Stream'
  BY <1>0, <1>5
<1>1. Pics(file)' = Pics(file)
  OBVIOUS
<1>2. CASE ReadVideo
  <2> DEFINE fed == decoder \o (IF file[pos'] = "pic" THEN <<pos'>> ELSE <<>>)
  <2>1. pos' \in 1 .. Len(file)
    BY <1>0, <1>2 DEF ReadVideo, ReadsA, Ticks
  <2>2. fed \in Seq(Pics(file)) /\ Len(fed) \in Nat /\ Len(fed) <= Delay + 1
    <3>1. CASE file[pos'] = "pic"
      <4>1. pos' \in Pics(file)
        BY <2>1, <3>1 DEF Pics
      <4> QED BY <3>1, <4>1 DEF Stream
    <3>2. CASE file[pos'] # "pic"
      BY <3>2 DEF Stream
    <3> QED BY <3>1, <3>2
  <2>3. CASE Len(fed) > Delay
    <3>1. decoder' = Tail(fed) /\ frame' = Head(fed)
      BY <1>2, <2>3 DEF ReadVideo
    <3>2. fed # <<>>
      BY <2>3
    <3>3. Tail(fed) \in Seq(Pics(file)) /\ Len(Tail(fed)) = Len(fed) - 1
          /\ Head(fed) \in Pics(file)
      BY <2>2, <3>2
    <3>4. decoder' \in Seq(Pics(file)) /\ Len(decoder') <= Delay /\ frame' \in Pics(file)
      <4> HIDE DEF fed
      <4> QED BY <2>2, <3>1, <3>3
    <3>5. shown' = shown
      BY <1>2 DEF ReadVideo
    <3> QED BY <1>1, <3>4, <3>5 DEF Stream
  <2>4. CASE ~(Len(fed) > Delay)
    <3>1. decoder' = fed /\ frame' = frame
      BY <1>2, <2>4 DEF ReadVideo
    <3> HIDE DEF fed
    <3> QED BY <1>1, <1>2, <2>2, <2>4, <3>1 DEF ReadVideo, Stream
  <2> QED BY <2>3, <2>4
<1>3. CASE Scale
  BY <1>1, <1>3 DEF Scale, Stream, stream
<1>4. CASE TickEnd
  <2>1. decoder' \in {decoder, <<>>} /\ UNCHANGED <<frame, shown>>
    BY <1>4 DEF TickEnd, Rewinds
  <2>2. <<>> \in Seq(Pics(file)) /\ Len(<<>>) <= Delay
    OBVIOUS
  <2>3. decoder' \in Seq(Pics(file)) /\ Len(decoder') <= Delay
    BY <2>1, <2>2 DEF Stream
  <2> QED BY <1>1, <2>1, <2>3 DEF Stream
<1>6. CASE ~ReadVideo /\ ~Scale /\ ~TickEnd
  BY <1>1, <1>6, OthersKeepStream DEF Stream
<1> QED BY <1>2, <1>3, <1>4, <1>6

-----------------------------------------------------------------------------
(* The pictures of a file without sound, in order.                           *)

\* The last picture that the decoder was given, or the one it gave last.
Latest == IF decoder = <<>> THEN frame ELSE decoder[Len(decoder)]

\* Where the next pass may begin before the last one is complete.
Loose == cut \/ ~keeps

Follows(i, n) == n = NextPic(i) \/ (Loose /\ n = First(Pics(file)))

\* The pictures on their way follow one another.
Consecutive(first, s) ==
    \A i \in 1 .. Len(s) : Follows(IF i = 1 THEN first ELSE s[i - 1], s[i])

\* No picture was left out: between the latest one and the place in the file
\* there is none, or the file was rewound after the latest one, its last, or a new
\* pass has begun with no picture so far.
NoneSkipped(last, p) ==
    \/ last <= p /\ \A j \in Pics(file) : j > last => j > p
    \/ \A j \in Pics(file) : j <= last /\ j > p
    \/ Loose /\ \A j \in Pics(file) : j > p

Pictures ==
    Silent =>
        /\ pc = "scale" => Follows(shown, frame)
        /\ pc \in {"idle", "read", "end"} => frame = shown
        /\ Consecutive(frame, decoder)
        /\ NoneSkipped(Latest, pos)

\* The first of a set of numbers is the smallest.
LEMMA FirstIsSmallest ==
  ASSUME NEW S, S \subseteq Nat, NEW n \in S, \A k \in S : n <= k
  PROVE  First(S) = n
<1>1. \A j \in S : (\A k \in S : j <= k) => j = n
  OBVIOUS
<1>2. First(S) = CHOOSE j \in S : \A k \in S : j <= k
  BY DEF First
<1> QED BY <1>1, <1>2

\* The first picture that the reader meets is the next of the latest one.
LEMMA ReadIsNext ==
  ASSUME file \in Files, NEW last \in {0} \cup Pics(file), NEW p \in Nat,
         p + 1 \in Pics(file), NoneSkipped(last, p)
  PROVE  Follows(last, p + 1)
<1> DEFINE later == {j \in Pics(file) : j > last}
           from == IF later = {} THEN Pics(file) ELSE later
<1>0. NextPic(last) = First(from)
  BY DEF NextPic
<1>1. Pics(file) \subseteq Nat /\ last \in Nat
  BY FilesAreFinite DEF Pics
<1>2. CASE last <= p /\ \A j \in Pics(file) : j > last => j > p
  <2>1. p + 1 \in later /\ \A k \in later : p + 1 <= k
    BY <1>1, <1>2
  <2>2. from = later /\ later \subseteq Nat
    BY <1>1, <2>1
  <2> QED BY <1>0, <2>1, <2>2, FirstIsSmallest DEF Follows
<1>3. CASE \A j \in Pics(file) : j <= last /\ j > p
  <2>1. later = {} /\ \A k \in Pics(file) : p + 1 <= k
    BY <1>1, <1>3
  <2> QED BY <1>0, <1>1, <2>1, FirstIsSmallest DEF Follows
<1>4. CASE Loose /\ \A j \in Pics(file) : j > p
  <2>1. \A k \in Pics(file) : p + 1 <= k
    BY <1>1, <1>4
  <2>2. First(Pics(file)) = p + 1
    BY <1>1, <2>1, FirstIsSmallest
  <2> QED BY <1>4, <2>2 DEF Follows
<1> QED BY <1>2, <1>3, <1>4 DEF NoneSkipped

\* One more packet is read: a picture becomes the latest, any other is passed.
LEMMA ReadSkipsNone ==
  ASSUME file \in Files, NEW last \in {0} \cup Pics(file), NEW p \in Nat,
         NoneSkipped(last, p)
  PROVE  /\ NoneSkipped(p + 1, p + 1)
         /\ p + 1 \notin Pics(file) => NoneSkipped(last, p + 1)
<1>1. Pics(file) \subseteq Nat /\ last \in Nat
  BY FilesAreFinite DEF Pics
<1> QED BY <1>1 DEF NoneSkipped

\* At the end of the file the latest picture is its last one.
LEMMA RewindSkipsNone ==
  ASSUME file \in Files, NEW last \in {0} \cup Pics(file), NoneSkipped(last, Len(file))
  PROVE  NoneSkipped(last, 0)
<1>1. \A j \in Pics(file) : j \in Nat /\ j > 0 /\ j <= Len(file) /\ Len(file) \in Nat
  BY FilesAreFinite DEF Pics
<1> QED BY <1>1 DEF NoneSkipped, Pics

LEMMA LatestIsPicture ==
  ASSUME file \in Files, Stream
  PROVE  Latest \in {0} \cup Pics(file)
<1>1. decoder # <<>> => decoder[Len(decoder)] \in Pics(file)
  BY DEF Stream
<1> QED BY <1>1 DEF Latest, Stream

\* A picture for the decoder goes on where its queue ends.
LEMMA FeedConsecutive ==
  ASSUME NEW first, NEW S, NEW s \in Seq(S), NEW n \in S, Consecutive(first, s),
         Follows(IF s = <<>> THEN first ELSE s[Len(s)], n)
  PROVE  Consecutive(first, Append(s, n))
<1>1. /\ Len(Append(s, n)) = Len(s) + 1 /\ Append(s, n)[Len(s) + 1] = n
      /\ \A i \in 1 .. Len(s) : Append(s, n)[i] = s[i]
      /\ Len(s) \in Nat /\ (s = <<>> <=> Len(s) = 0)
  OBVIOUS
<1>2. ASSUME NEW i \in 1 .. Len(s) + 1
      PROVE  Follows(IF i = 1 THEN first ELSE Append(s, n)[i - 1], Append(s, n)[i])
  <2>1. CASE i = Len(s) + 1
    <3>1. CASE Len(s) = 0
      <4>1. i = 1 /\ s = <<>> /\ Append(s, n)[i] = n
        BY <1>1, <2>1, <3>1
      <4> QED BY <4>1
    <3>2. CASE Len(s) # 0
      <4>1. i # 1 /\ s # <<>> /\ Append(s, n)[i - 1] = s[Len(s)] /\ Append(s, n)[i] = n
        BY <1>1, <2>1, <3>2
      <4> QED BY <4>1
    <3> QED BY <3>1, <3>2
  <2>2. CASE i # Len(s) + 1
    <3>1. i \in 1 .. Len(s) /\ (i # 1 => i - 1 \in 1 .. Len(s))
      BY <1>1, <1>2, <2>2
    <3>2. Follows(IF i = 1 THEN first ELSE s[i - 1], s[i])
      BY <3>1 DEF Consecutive
    <3>3. Append(s, n)[i] = s[i] /\ (i # 1 => Append(s, n)[i - 1] = s[i - 1])
      BY <1>1, <3>1
    <3> QED BY <3>2, <3>3
  <2> QED BY <2>1, <2>2
<1> QED BY <1>1, <1>2 DEF Consecutive

\* What the decoder gives is the next picture, and the queue goes on from it.
LEMMA GiveConsecutive ==
  ASSUME NEW first, NEW S, NEW s \in Seq(S), s # <<>>, Consecutive(first, s)
  PROVE  Follows(first, Head(s)) /\ Consecutive(Head(s), Tail(s))
<1>1. /\ 1 \in 1 .. Len(s) /\ Head(s) = s[1] /\ Len(Tail(s)) = Len(s) - 1
      /\ \A i \in 1 .. Len(Tail(s)) : i \in Nat /\ i + 1 \in 1 .. Len(s) /\ Tail(s)[i] = s[i + 1]
      /\ \A i \in 1 .. Len(Tail(s)) : i # 1 => i - 1 \in 1 .. Len(Tail(s))
  OBVIOUS
<1>2. Follows(first, Head(s))
  BY <1>1 DEF Consecutive
<1>3. ASSUME NEW i \in 1 .. Len(Tail(s))
      PROVE  Follows(IF i = 1 THEN Head(s) ELSE Tail(s)[i - 1], Tail(s)[i])
  <2>1. i + 1 # 1 /\ (i + 1) - 1 = i
    BY <1>1
  <2>2. Follows(s[i], s[i + 1])
    BY <1>1, <2>1 DEF Consecutive
  <2>3. s[i] = IF i = 1 THEN Head(s) ELSE Tail(s)[i - 1]
    BY <1>1
  <2> QED BY <1>1, <2>2, <2>3
<1> QED BY <1>2, <1>3 DEF Consecutive

\* What a step has to show: the file stays, and what is said of it too.
LEMMA PicturesAfter ==
  ASSUME file' = file, Loose => Loose',
         Silent => /\ pc' = "scale" => Follows(shown', frame')
                   /\ pc' \in {"idle", "read", "end"} => frame' = shown'
                   /\ Consecutive(frame', decoder')
                   /\ NoneSkipped(Latest', pos')
                        \/ (Loose' /\ \A j \in Pics(file) : j > pos')
  PROVE  Pictures'
<1> SUFFICES ASSUME Silent
             PROVE  /\ (pc = "scale" => Follows(shown, frame))'
                    /\ (pc \in {"idle", "read", "end"} => frame = shown)'
                    /\ Consecutive(frame, decoder)'
                    /\ NoneSkipped(Latest, pos)'
  <2>1. Silent' = Silent
    BY DEF Silent
  <2> QED BY <2>1 DEF Pictures
<1>1. \A i, n : Follows(i, n) => Follows(i, n)'
  BY DEF Follows, NextPic, First, Pics
<1>2. (pc = "scale" => Follows(shown, frame))'
  BY DEF Follows, NextPic, First, Pics
<1>3. Consecutive(frame, decoder)'
  BY <1>1 DEF Consecutive
<1>4. NoneSkipped(Latest, pos)'
  BY DEF NoneSkipped, Pics
<1> QED BY <1>2, <1>3, <1>4

LEMMA ReadPictures ==
  ASSUME VideoInv, Stream, Pictures, Silent, ReadVideo
  PROVE  /\ pc' = "scale" => Follows(shown', frame')
         /\ pc' \in {"idle", "read", "end"} => frame' = shown'
         /\ Consecutive(frame', decoder') /\ NoneSkipped(Latest', pos')
<1>1. /\ file \in Files /\ Len(file) \in Nat /\ pos \in Nat /\ pos' = pos + 1
      /\ pos' \in 1 .. Len(file) /\ file' = file /\ shown' = shown
  <2>1. Len(file) \in Nat /\ (pos < Len(file) => file \in Files)
    BY FilesAreFinite DEF VideoInv, Objects, Ticks
  <2> QED BY <2>1 DEF VideoInv, Ticks, ReadVideo, ReadsA, player
<1>2. /\ frame = shown /\ Consecutive(frame, decoder) /\ NoneSkipped(Latest, pos)
      /\ Latest \in {0} \cup Pics(file)
  BY <1>1, LatestIsPicture DEF ReadVideo, ReadsA, Pictures
<1> DEFINE fed == decoder \o (IF file[pos'] = "pic" THEN <<pos'>> ELSE <<>>)
<1> DEFINE last == IF fed = <<>> THEN frame ELSE fed[Len(fed)]
<1>3. fed \in Seq(Pics(file)) /\ Consecutive(frame, fed) /\ NoneSkipped(last, pos')
  <2>1. decoder \in Seq(Pics(file))
    BY DEF Stream
  <2>2. CASE file[pos'] = "pic"
    <3>1. pos' \in Pics(file) /\ pos + 1 \in Pics(file)
      BY <1>1, <2>2 DEF Pics
    <3>2. Follows(Latest, pos')
      BY <1>1, <1>2, <3>1, ReadIsNext
    <3>3. fed = Append(decoder, pos')
      BY <2>1, <2>2
    <3>4. Consecutive(frame, Append(decoder, pos'))
      BY <1>2, <2>1, <3>1, <3>2, FeedConsecutive DEF Latest
    <3>5. Append(decoder, pos') \in Seq(Pics(file)) /\ Append(decoder, pos') # <<>>
          /\ Append(decoder, pos')[Len(Append(decoder, pos'))] = pos'
      BY <2>1, <3>1
    <3>6. last = pos'
      BY <3>3, <3>5
    <3>7. NoneSkipped(pos', pos')
      BY <1>1, <1>2, ReadSkipsNone
    <3> QED BY <3>3, <3>4, <3>5, <3>6, <3>7
  <2>3. CASE file[pos'] # "pic"
    <3>1. pos + 1 \notin Pics(file)
      BY <1>1, <2>3 DEF Pics
    <3>2. NoneSkipped(Latest, pos')
      BY <1>1, <1>2, <3>1, ReadSkipsNone
    <3>3. fed = decoder
      BY <2>1, <2>3
    <3>4. last = Latest
      BY <3>3 DEF Latest
    <3> QED BY <1>2, <2>1, <3>2, <3>3, <3>4
  <2> QED BY <2>2, <2>3
<1>4. CASE Len(fed) > Delay
  <2>0. decoder' = Tail(fed) /\ frame' = Head(fed) /\ got' = 1
    BY <1>4, Zenon DEF ReadVideo
  <2>5. pc' = "scale"
    BY <2>0 DEF ReadVideo
  <2>1. decoder' = Tail(fed) /\ frame' = Head(fed) /\ pc' = "scale"
    BY <2>0, <2>5
  <2> HIDE DEF fed
  <2>2. fed # <<>>
    BY <1>3, <1>4
  <2>3. Follows(frame, Head(fed)) /\ Consecutive(Head(fed), Tail(fed))
    BY <1>3, <2>2, GiveConsecutive
  <2>4. Latest' = last
    <3>1. Tail(fed) = <<>> => Len(fed) = 1
      <4>1. Len(Tail(fed)) = Len(fed) - 1 /\ Len(fed) \in Nat
        BY <1>3, <2>2
      <4>2. Len(<<>>) = 0
        OBVIOUS
      <4>3. Tail(fed) = <<>> => Len(Tail(fed)) = 0
        BY <4>2, Zenon
      <4> QED BY <4>1, <4>3
    <3>2. Tail(fed) # <<>> => Tail(fed)[Len(Tail(fed))] = fed[Len(fed)]
      BY <1>3, <2>2
    <3>3. Head(fed) = fed[1]
      BY <1>3, <2>2
    <3> QED BY <2>1, <2>2, <3>1, <3>2, <3>3 DEF Latest
  <2> QED BY <1>1, <1>2, <1>3, <2>1, <2>3, <2>4
<1>5. CASE ~(Len(fed) > Delay)
  <2>1. decoder' = fed /\ frame' = frame /\ pc' = "read"
    BY <1>5 DEF ReadVideo
  <2>2. Latest' = last
    BY <2>1 DEF Latest
  <2> QED BY <1>1, <1>2, <1>3, <2>1, <2>2
<1> QED BY <1>4, <1>5

\* At the end of a tick the file goes back to its start, or stays where it is.
LEMMA EndPictures ==
  ASSUME VideoInv, Stream, Pictures, Silent, TickEnd, file \in Files
  PROVE  /\ pc' # "scale" /\ frame' = shown'
         /\ Consecutive(frame', decoder')
         /\ NoneSkipped(Latest', pos') \/ (Loose' /\ \A j \in Pics(file) : j > pos')
<1>1. /\ frame = shown /\ Consecutive(frame, decoder) /\ NoneSkipped(Latest, pos)
      /\ UNCHANGED <<frame, shown, keeps>> /\ pc' = "idle"
  BY DEF TickEnd, Pictures, player
<1>2. CASE UNCHANGED <<pos, decoder>>
  BY <1>1, <1>2 DEF Latest
<1>3. CASE Rewinds
  <2>1. Len(file) \in Nat /\ pos \in Nat /\ pos <= Len(file) /\ \A j \in Pics(file) : j > 0
    BY FilesAreFinite DEF VideoInv, Ticks, Pics
  <2>2. pos' = 0 /\ Consecutive(frame', decoder')
    BY <1>1, <1>3 DEF Rewinds, Consecutive
  <2>3. CASE keeps /\ pos = Len(file)
    <3>1. decoder' = decoder /\ Latest' = Latest
      BY <1>1, <1>3, <2>3 DEF Rewinds, Latest
    <3>2. NoneSkipped(Latest, 0)
      BY <1>1, <2>3, LatestIsPicture, RewindSkipsNone
    <3> QED BY <1>1, <2>2, <3>1, <3>2
  <2>4. CASE ~keeps \/ pos < Len(file)
    BY <1>1, <1>3, <2>1, <2>2, <2>4 DEF Rewinds, Loose
  <2> QED BY <2>1, <2>3, <2>4
<1> QED BY <1>2, <1>3 DEF TickEnd

\* A file that has just been opened: nothing was read of it.
LEMMA StartPictures == ASSUME VideoInv', Starts PROVE Pictures'
<1>1. Len(<<>>) = 0 /\ Latest' = 0
  BY DEF Starts, Latest
<1>2. Consecutive(frame, decoder)'
  BY <1>1 DEF Starts, Consecutive
<1>3. \A j \in Pics(file') : j \in Nat /\ j > 0
  BY FilesAreFinite DEF Starts, Pics
<1>4. NoneSkipped(Latest, pos)'
  BY <1>1, <1>3 DEF Starts, NoneSkipped
<1> QED BY <1>2, <1>4 DEF Starts, Pictures

LEMMA PicturesStep == ASSUME VideoInv, Stream, Pictures, [Next]_vars PROVE Pictures'
<1>0. keeps' = keeps /\ (file' = file \/ Starts) /\ VideoInv'
  BY FileKept, OwnedStep, ObjectStep, TickStep DEF VideoInv
<1> SUFFICES ASSUME file' = file, ~Starts, Silent PROVE Pictures'
  <2>1. CASE Starts
    BY <1>0, <2>1, StartPictures
  <2>2. CASE file' = file /\ ~Silent
    BY <2>2 DEF Pictures, Silent
  <2> QED BY <1>0, <2>1, <2>2
<1>2. /\ (pc = "scale" => Follows(shown, frame))
      /\ (pc \in {"idle", "read", "end"} => frame = shown)
      /\ Consecutive(frame, decoder) /\ NoneSkipped(Latest, pos)
  BY DEF Pictures
<1>3. CASE ReadVideo
  <2>1. Loose => Loose'
    BY <1>0, <1>3 DEF ReadVideo, Loose
  <2> QED BY <1>3, <2>1, ReadPictures, PicturesAfter
<1>4. CASE Scale
  <2>1. (Loose => Loose') /\ UNCHANGED <<frame, decoder, pos>> /\ Latest' = Latest
    BY <1>0, <1>4 DEF Scale, Loose, stream, Latest
  <2>2. pc' # "scale" /\ (pc' \in {"idle", "read", "end"} => frame' = shown')
    BY <1>4 DEF Scale, stream
  <2> QED BY <1>2, <2>1, <2>2, PicturesAfter
<1>5. CASE TickEnd
  <2>1. Loose => Loose'
    BY <1>0, <1>5 DEF TickEnd, Rewinds, Loose
  <2>2. CASE file \in Files
    BY <1>5, <2>1, <2>2, EndPictures, PicturesAfter
  <2>3. CASE file = <<>>
    <3>1. Pics(file) = {} /\ Len(file) = 0
      BY <2>3 DEF Pics
    <3>2. decoder = <<>> /\ frame = 0 /\ shown = 0 /\ pos = 0
      BY <2>3, <3>1 DEF Stream, VideoInv, Ticks
    <3>3. decoder' = <<>> /\ frame' = 0 /\ shown' = 0 /\ pos' = 0 /\ pc' = "idle"
      BY <1>5, <3>2 DEF TickEnd, Rewinds
    <3>4. Consecutive(frame', decoder') /\ NoneSkipped(Latest', pos')
      BY <3>1, <3>3 DEF Consecutive, NoneSkipped
    <3> QED BY <2>1, <3>3, <3>4, PicturesAfter
  <2> QED BY <2>2, <2>3 DEF VideoInv, Objects
<1>6. CASE ~ReadVideo /\ ~Scale /\ ~TickEnd
  <2>1. ~ReadOther
    <3>1. Len(file) \in Nat /\ pos \in Nat
      BY FilesAreFinite DEF VideoInv, Objects, Ticks
    <3>2. ReadOther => pos + 1 \in 1 .. Len(file) /\ file[pos + 1] = "audio"
      BY <3>1 DEF ReadOther, ReadsA
    <3> QED BY <3>2, SilentHasNoSound DEF VideoInv, Objects
  <2>2. UNCHANGED <<decoder, frame, shown, cut, pos>>
    BY <1>6, <2>1, OthersKeepStream
  <2>3. pc' = pc \/ pc' = "dead" \/ (pc # "scale" /\ pc # "dead" /\ pc' # "scale")
    BY <1>6, <2>1, OthersKeepPlace DEF VideoInv, Objects
  <2>4. (Loose => Loose') /\ Latest' = Latest
    BY <1>0, <2>2 DEF Loose, Latest
  <2>5. /\ (pc' = "scale" => Follows(shown', frame'))
        /\ (pc' \in {"idle", "read", "end"} => frame' = shown')
    BY <1>2, <2>2, <2>3 DEF VideoInv, Ticks
  <2> QED BY <1>2, <2>2, <2>4, <2>5, PicturesAfter
<1> QED BY <1>3, <1>4, <1>5, <1>6

LEMMA InitPictures == Init => Stream /\ Pictures
<1> SUFFICES ASSUME Init PROVE Stream /\ Pictures
  OBVIOUS
<1>1. /\ decoder = <<>> /\ <<>> \in Seq(Pics(file)) /\ Len(<<>>) = 0 /\ 0 <= Delay
      /\ frame = 0 /\ shown = 0 /\ pos = 0 /\ pc = "idle"
  BY DEF Init, VideoAssumption
<1>2. Stream
  BY <1>1 DEF Stream
<1>3. Consecutive(frame, decoder)
  BY <1>1 DEF Consecutive
<1>4. \A j \in Pics(file) : j > 0
  BY FilesAreFinite DEF Init, Pics
<1>5. NoneSkipped(Latest, pos)
  BY <1>1, <1>4 DEF NoneSkipped, Latest
<1> QED BY <1>1, <1>2, <1>3, <1>5 DEF Pictures

-----------------------------------------------------------------------------
\* What the player points to is allocated and belongs to it, only a player whose
\* last init returned true reads, and it ends a tick without a picture only where
\* the file ended or a read failed.
THEOREM VideoInvariant == Spec => []VideoInv
<1>1. VideoInv /\ [Next]_vars => VideoInv'
  BY OwnedStep, ObjectStep, TickStep DEF VideoInv
<1> QED BY InitHolds, <1>1, PTL DEF Spec

\* Type correctness: with the handles and the places of updateTimer, the decoder
\* never holds more than it lags behind, and only pictures of the file are shown.
THEOREM VideoTypes == Spec => []TypeOK
<1>1. Init => Stream
  BY InitPictures
<1>2. VideoInv /\ Stream /\ [Next]_vars => Stream'
  BY StreamStep
<1>3. VideoInv /\ Stream => TypeOK
  <2> SUFFICES ASSUME VideoInv, Stream PROVE TypeOK
    OBVIOUS
  <2>1. ptr \subseteq Handles \X (1 .. inits) /\ live \subseteq Handles \X (1 .. inits)
    BY DEF VideoInv, Owned
  <2> QED BY <2>1 DEF VideoInv, Objects, Ticks, Stream, TypeOK
<1> QED BY VideoInvariant, <1>1, <1>2, <1>3, PTL DEF Spec

\* A handle is missing only after an init that returned false, or where init did
\* not look at the result of sws_getContext or avpicture_alloc.
THEOREM HandlesAreThere == Spec => []NoMissingHandle
<1>1. VideoInv => NoMissingHandle
  BY DEF VideoInv, Ticks
<1> QED BY VideoInvariant, <1>1, PTL

\* Nothing that was freed is pointed to, and nothing is left behind but what an
\* earlier init acquired or the destructor never frees.
THEOREM HandlesFreedOnce == Spec => []HandlesAreOwned
<1>1. VideoInv => HandlesAreOwned
  BY DEF VideoInv, Owned, HandlesAreOwned
<1> QED BY VideoInvariant, <1>1, PTL

\* No file without sound is left before its end, unless a read failed.
THEOREM EndIsReached == Spec => PlayedToTheEnd
<1> DEFINE Left == Silent /\ pc = "end" /\ (pos' # pos \/ scheduled' # scheduled)
                     => pos = Len(file) \/ failed = "read"
<1>1. VideoInv /\ [Next]_vars => [Left]_vars
  <2> SUFFICES ASSUME VideoInv, Next, Silent, pc = "end",
                      pos' # pos \/ scheduled' # scheduled
               PROVE  pos = Len(file) \/ failed = "read"
    OBVIOUS
  <2>0. ~ \E o \in Outcomes : LuaInit(o) \/ create(o)
    BY DEF LuaInit, create, VideoInv, Objects
  <2>1. TickEnd
    BY <2>0 DEF VideoInv, Objects, Next, Lua, Scene, updateTimer, new, play, stop,
       EnterStage, LeaveStage, destroy, DrawUnready, Tick, ReadVideo, ReadOther, ReadEnds,
       ReadFails, Scale, ReadsA
  <2>2. got <= 0
    BY <2>1 DEF TickEnd
  <2> QED BY <2>2 DEF VideoInv, Ticks
<1> QED BY VideoInvariant, <1>1, PTL DEF Spec, PlayedToTheEnd

\* No picture of a file without sound is skipped, repeated or out of order, over
\* stops, rewinds and failures, however far the decoder lags behind; only where the
\* file was rewound early, or the decoder lost what it held, does a new pass begin
\* before the last one is complete.
THEOREM PicturesAreInOrder == Spec => PicturesInOrder
<1> DEFINE InOrder == Silent /\ shown' # shown /\ shown' # 0 =>
                         \/ shown' = NextPic(shown)
                         \/ (cut \/ ~keeps) /\ shown' = First(Pics(file))
<1>1. VideoInv /\ Stream /\ Pictures /\ [Next]_vars => (Stream /\ Pictures)'
  BY StreamStep, PicturesStep
<1>2. VideoInv /\ Pictures /\ [Next]_vars => [InOrder]_vars
  <2> SUFFICES ASSUME VideoInv, Pictures, Next, Silent, shown' # shown, shown' # 0
               PROVE  \/ shown' = NextPic(shown)
                      \/ (cut \/ ~keeps) /\ shown' = First(Pics(file))
    OBVIOUS
  <2>1. file' = file /\ ~Starts
    BY FileKept DEF Starts
  <2>2. Scale
    BY <2>1, OthersKeepStream DEF ReadVideo, TickEnd
  <2> QED BY <2>2 DEF Scale, Pictures, Follows, Loose
<1> QED BY VideoInvariant, InitPictures, <1>1, <1>2, PTL DEF Spec, PicturesInOrder
=============================================================================
