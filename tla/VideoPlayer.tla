----------------------------- MODULE VideoPlayer -----------------------------
(***************************************************************************)
(* A video player (Classes/FFmpegVideoPlayer.cpp): the handles that init   *)
(* acquires, overwrites and the destructor frees, and the timer that reads *)
(* packets, decodes and shows pictures, and rewinds or stops at the end.   *)
(* A file is the sequence of its packets; a picture is the number of the   *)
(* packet that holds it; a handle is its kind and the call of init that    *)
(* acquired it.  libav is modelled from how the player uses it.            *)
(***************************************************************************)
EXTENDS Integers, Sequences, FiniteSets

CONSTANTS Files,
          Delay,     \* packets a decoder takes before it gives its first picture
          MaxInits   \* bound: calls of init

ASSUME VideoAssumption ==
    /\ Files \subseteq Seq({"pic", "bad", "audio"})
    /\ Delay \in Nat /\ MaxInits \in Nat

VARIABLES
    file,               \* the one the player has opened
    made, ready,        \* how it was constructed; what init returned last
    m_bLoop,
    inits,              \* the calls of init so far
    ptr, live,          \* the handles the player points to; those allocated
    scheduled, onStage, \* updateTimer in the scheduler; the node is running
    pc, got,            \* where updateTimer is; got_picture
    pos, decoder,       \* packets read; the pictures the decoder has not given yet
    frame, shown,       \* the picture in m_pFrame, in m_pAvpicture
    keeps,              \* the decoder keeps what it holds over a seek
    failed, cut         \* history: what failed in the last tick; rewound too early

object == <<made, ready, m_bLoop>>
handles == <<inits, ptr, live>>
timer == <<scheduled, onStage>>
stream == <<pos, decoder, frame>>
player == <<file, object, handles, keeps>>
vars == <<player, timer, pc, got, stream, shown, failed, cut>>

\* The context and what is opened in it, the opened codec, the memory of the
\* picture, and the texture, which the sprite and init both count.
Handles == {"format", "input", "codec", "frame", "scaler", "picture", "pixels", "texture"}
Freed == {"format", "frame", "scaler", "picture", "pixels"}
Pics(f) == {i \in 1 .. Len(f) : f[i] = "pic"}

TypeOK ==
    /\ file \in Files \cup {<<>>}
    /\ made \in {"none", "new", "create", "gone"}
    /\ ready \in BOOLEAN /\ m_bLoop \in BOOLEAN /\ keeps \in BOOLEAN
    /\ inits \in 0 .. MaxInits
    /\ ptr \subseteq Handles \X (1 .. inits) /\ live \subseteq Handles \X (1 .. inits)
    /\ scheduled \in BOOLEAN /\ onStage \in BOOLEAN
    /\ pc \in {"idle", "read", "scale", "end", "dead"}
    /\ got \in {-1, 0, 1}
    /\ pos \in 0 .. Len(file)
    /\ decoder \in Seq(Pics(file)) /\ Len(decoder) <= Delay
    /\ frame \in {0} \cup Pics(file) /\ shown \in {0} \cup Pics(file)
    /\ failed \in {"none", "read", "seek"} /\ cut \in BOOLEAN

Init ==
    /\ file = <<>>
    /\ made = "none" /\ ready = FALSE /\ m_bLoop = TRUE
    /\ inits = 0 /\ ptr = {} /\ live = {}
    /\ scheduled = FALSE /\ onStage = FALSE
    /\ pc = "idle" /\ got = 0
    /\ pos = 0 /\ decoder = <<>> /\ frame = 0 /\ shown = 0
    /\ keeps \in BOOLEAN /\ failed = "none" /\ cut = FALSE

Exists == made \in {"new", "create"}
Has(h) == \E n \in 1 .. inits : <<h, n>> \in ptr

-----------------------------------------------------------------------------
\* The constructor, called by Lua's new.
new ==
    /\ made = "none"
    /\ made' = "new"
    /\ UNCHANGED <<file, ready, m_bLoop, handles, keeps, timer, pc, got, stream, shown,
                   failed, cut>>

\* How init ends. The result of sws_getContext and of avpicture_alloc is not looked at.
Completed == {"noScaler", "noPixels", "done"}
Outcomes == {"noInput", "noStream", "noCodec", "noFrame"} \cup Completed

\* avformat_open_input frees the context it cannot open, and clears its pointer.
Acquired(o) ==
    CASE o = "noInput" -> {}
      [] o \in {"noStream", "noCodec"} -> {"format", "input"}
      [] o = "noFrame" -> {"format", "input", "codec"}
      [] o = "noScaler" -> Handles \ {"scaler"}
      [] o = "noPixels" -> Handles \ {"pixels"}
      [] o = "done" -> Handles

\* The pointers that init has set by then, or that went with the context.
Overwritten(o) ==
    CASE o \in {"noInput", "noStream"} -> {"format", "input"}
      [] o = "noCodec" -> {"format", "input", "codec"}
      [] o = "noFrame" -> {"format", "input", "codec", "frame"}
      [] o \in Completed -> Handles

Acquires(o) == Acquired(o) \X {inits + 1}

\* Whatever the player pointed to before is forgotten.
Opens(o) ==
    /\ inits < MaxInits /\ inits' = inits + 1
    /\ m_bLoop' \in BOOLEAN
    /\ ready' = (o \in Completed)

\* The first updateTimer ends an init that returns true.
FirstTick(o) ==
    IF o \in Completed
    THEN /\ file' \in Files
         /\ pos' = 0 /\ decoder' = <<>> /\ frame' = 0 /\ shown' = 0
         /\ failed' = "none" /\ cut' = FALSE
         /\ pc' = "read" /\ got' = -1
    ELSE UNCHANGED <<file, stream, shown, failed, cut, pc, got>>

\* Variant: a context that could not be opened is kept.
init_KeepsContext(o) ==
    /\ Opens(o)
    /\ ptr' = {h \in ptr : h[1] \notin Overwritten(o)} \cup Acquires(o)
              \cup {<<"format", inits + 1>>}
    /\ live' = live \cup Acquires(o)
    /\ FirstTick(o)

init(o) ==
    /\ Opens(o)
    /\ ptr' = {h \in ptr : h[1] \notin Overwritten(o)} \cup Acquires(o)
    /\ live' = live \cup Acquires(o)
    /\ FirstTick(o)

\* Lua's init, at any time and as often as it likes.
LuaInit(o) ==
    /\ Exists /\ pc = "idle"
    /\ init(o)
    /\ UNCHANGED <<made, timer, keeps>>

\* Variant: a player that could not be opened is handed to Lua all the same.
create_Unchecked(o) ==
    /\ made = "none"
    /\ made' = "create" /\ init(o)
    /\ UNCHANGED <<timer, keeps>>

\* A player that cannot be opened is deleted.
create(o) ==
    /\ made = "none"
    /\ \/ o \in Completed /\ made' = "create" /\ init(o)
       \/ /\ o \notin Completed /\ made' = "gone" /\ Opens(o)
          /\ ptr' = {} /\ live' = {h \in Acquires(o) : h[1] \notin Freed}
          /\ UNCHANGED <<file, pc, got, stream, shown, failed, cut>>
    /\ UNCHANGED <<timer, keeps>>

play ==
    /\ Exists /\ pc = "idle"
    /\ scheduled' = TRUE
    /\ UNCHANGED <<player, onStage, pc, got, stream, shown, failed, cut>>

stop ==
    /\ Exists /\ pc = "idle"
    /\ scheduled' = FALSE
    /\ UNCHANGED <<player, onStage, pc, got, stream, shown, failed, cut>>

\* The destructor closes neither input nor codec.
destroy ==
    /\ Exists /\ pc = "idle"
    /\ made' = "gone" /\ scheduled' = FALSE /\ onStage' = FALSE
    /\ ptr' = {} /\ live' = live \ {h \in ptr : h[1] \in Freed}
    /\ UNCHANGED <<file, ready, m_bLoop, inits, keeps, pc, got, stream, shown, failed, cut>>

\* The node is put under a running scene; leaving it may unschedule for good.
EnterStage ==
    /\ Exists /\ pc = "idle" /\ ~onStage
    /\ onStage' = TRUE
    /\ UNCHANGED <<player, scheduled, pc, got, stream, shown, failed, cut>>

LeaveStage ==
    /\ Exists /\ pc = "idle" /\ onStage
    /\ onStage' = FALSE
    /\ scheduled' \in {scheduled, FALSE}
    /\ UNCHANGED <<player, pc, got, stream, shown, failed, cut>>

-----------------------------------------------------------------------------
\* After an init that failed updateTimer uses handles that are missing, or some of
\* the new file and some of the old: this is not followed.
Tick ==
    /\ Exists /\ scheduled /\ onStage /\ pc = "idle"
    /\ IF ready THEN pc' = "read" /\ got' = -1 ELSE pc' = "dead" /\ UNCHANGED got
    /\ failed' = "none"
    /\ UNCHANGED <<player, timer, stream, shown, cut>>

\* draw uses the picture and the texture, which are set together.
DrawUnready ==
    /\ Exists /\ onStage /\ pc = "idle" /\ ~Has("picture")
    /\ pc' = "dead"
    /\ UNCHANGED <<player, timer, got, stream, shown, failed, cut>>

ReadsA(kind) == pc = "read" /\ pos < Len(file) /\ file[pos + 1] \in kind

\* Variant: the loop goes on to the end of the file, and only the last is shown.
ReadVideo_NoBreak ==
    /\ ReadsA({"pic", "bad"})
    /\ pos' = pos + 1
    /\ LET fed == decoder \o (IF file[pos'] = "pic" THEN <<pos'>> ELSE <<>>) IN
       IF Len(fed) > Delay
       THEN decoder' = Tail(fed) /\ frame' = Head(fed) /\ got' = 1
       ELSE decoder' = fed /\ got' = 0 /\ UNCHANGED frame
    /\ pc' = IF got' # 0 /\ pos' = Len(file) THEN "scale" ELSE "read"
    /\ UNCHANGED <<player, timer, shown, failed, cut>>

\* The decoder gives the picture of a packet when it has taken Delay more.
ReadVideo ==
    /\ ReadsA({"pic", "bad"})
    /\ pos' = pos + 1
    /\ LET fed == decoder \o (IF file[pos'] = "pic" THEN <<pos'>> ELSE <<>>) IN
       IF Len(fed) > Delay
       THEN decoder' = Tail(fed) /\ frame' = Head(fed) /\ got' = 1
       ELSE decoder' = fed /\ got' = 0 /\ UNCHANGED frame
    /\ pc' = IF got' # 0 THEN "scale" ELSE "read"
    /\ UNCHANGED <<player, timer, shown, failed, cut>>

\* got_picture keeps its value, which is -1 before the first video packet.
ReadOther ==
    /\ ReadsA({"audio"})
    /\ pos' = pos + 1
    /\ pc' = IF got # 0 THEN "scale" ELSE "read"
    /\ UNCHANGED <<player, timer, got, decoder, frame, shown, failed, cut>>

\* Variant: the end of the file is recognised by the first packet without a picture.
ReadEnds_Early ==
    /\ pc = "read" /\ (pos = Len(file) \/ got = 0)
    /\ pc' = "end"
    /\ UNCHANGED <<player, timer, got, stream, shown, failed, cut>>

ReadEnds ==
    /\ pc = "read" /\ pos = Len(file)
    /\ pc' = "end"
    /\ UNCHANGED <<player, timer, got, stream, shown, failed, cut>>

\* An error of av_read_frame ends the loop as the end of the file does.
ReadFails ==
    /\ pc = "read" /\ pos < Len(file)
    /\ pc' = "end" /\ failed' = "read"
    /\ UNCHANGED <<player, timer, got, stream, shown, cut>>

\* sws_scale needs its context and memory for the picture.
Scale ==
    /\ pc = "scale"
    /\ IF Has("scaler") /\ Has("pixels")
       THEN shown' = frame /\ pc' = "end"
       ELSE pc' = "dead" /\ UNCHANGED shown
    /\ UNCHANGED <<player, timer, got, stream, failed, cut>>

\* Variant: a tick without a picture never rewinds.
TickEnd_NoSeek ==
    /\ pc = "end"
    /\ scheduled' = IF got <= 0 /\ ~m_bLoop THEN FALSE ELSE scheduled
    /\ pc' = "idle"
    /\ UNCHANGED <<player, onStage, got, stream, shown, failed, cut>>

\* The file goes back to its start; the decoder is not told.
Rewinds ==
    /\ pos' = 0
    /\ decoder' = IF keeps THEN decoder ELSE <<>>
    /\ cut' = (cut \/ pos < Len(file))
    /\ UNCHANGED failed

\* Variant: a player that does not loop stays scheduled.
TickEnd_NoStop ==
    /\ pc = "end"
    /\ IF got <= 0 /\ m_bLoop THEN Rewinds ELSE UNCHANGED <<pos, decoder, cut, failed>>
    /\ pc' = "idle"
    /\ UNCHANGED <<player, timer, got, frame, shown>>

\* Without a picture the tick rewinds, which may fail unnoticed, or the player stops
\* itself.
TickEnd ==
    /\ pc = "end"
    /\ IF got <= 0 /\ m_bLoop
       THEN Rewinds \/ (failed' = "seek" /\ UNCHANGED <<pos, decoder, cut>>)
       ELSE UNCHANGED <<pos, decoder, cut, failed>>
    /\ scheduled' = IF got <= 0 /\ ~m_bLoop THEN FALSE ELSE scheduled
    /\ pc' = "idle"
    /\ UNCHANGED <<player, onStage, got, frame, shown>>

Lua == new \/ play \/ stop \/ \E o \in Outcomes : LuaInit(o) \/ create(o)
Scene == EnterStage \/ LeaveStage \/ destroy \/ DrawUnready
updateTimer == Tick \/ ReadVideo \/ ReadOther \/ ReadEnds \/ ReadFails \/ Scale \/ TickEnd

Next == Lua \/ Scene \/ updateTimer

Spec == Init /\ [][Next]_vars

\* The scheduler of a running node goes on, and libav's functions return.
FairSpec == Spec /\ WF_vars(updateTimer)

-----------------------------------------------------------------------------
\* A handle that is missing is used only by a player whose last init returned
\* false, and create returns none of these, or because of the two calls in init
\* whose result is not looked at (create, init, updateTimer, draw; a NULL of
\* sws_getContext, or of avpicture_alloc).
NoMissingHandle ==
    pc = "dead" =>
        \/ ~ready /\ (made = "new" \/ inits > 1)
        \/ ready /\ ~(Has("scaler") /\ Has("pixels"))

\* The player points to nothing that was freed, so the destructor frees nothing
\* twice; and nothing is left behind, wherever init fails, but what an earlier init
\* acquired and, of a player that is gone, what the destructor never frees: the
\* opened input, the opened codec and the texture (init, ~CFFmpegVideoPlayer).
HandlesAreOwned ==
    /\ ptr \subseteq live
    /\ \A h \in live \ ptr : h[2] < inits \/ (~Exists /\ h[1] \notin Freed)

\* "The stream must be closed with avformat_close_input()": no input stays open when
\* the player is gone (~CFFmpegVideoPlayer).
InputIsClosed == made = "gone" => \A h \in live : h[1] # "input"

SilentFile(f) == "audio" \notin {f[i] : i \in 1 .. Len(f)}
Silent == SilentFile(file)
First(S) == CHOOSE i \in S : \A j \in S : i <= j
NextPic(i) ==
    LET later == {j \in Pics(file) : j > i}
    IN  First(IF later = {} THEN Pics(file) ELSE later)

\* In a file without sound no picture is skipped, repeated or out of order, over
\* any stops, failed reads and seeks and a decoder that lags behind; only where the
\* file was rewound before its end, or the decoder lost what it held, does the next
\* pass begin before the last one is complete (updateTimer).
PicturesInOrder ==
    [][Silent /\ shown' # shown /\ shown' # 0 =>
          \/ shown' = NextPic(shown)
          \/ (cut \/ ~keeps) /\ shown' = First(Pics(file))]_vars

\* Should be called "when seeking": a decoder is flushed at the rewind, and holds no
\* picture of the pass before (avcodec_flush_buffers, updateTimer).
FlushedWhenSeeking == [][pc = "end" /\ pos' < pos => decoder' = <<>>]_vars

\* A file without sound is not left before its end: the player rewinds or stops
\* itself only when every packet has been read, or a read has failed (updateTimer).
PlayedToTheEnd ==
    [][Silent /\ pc = "end" /\ (pos' # pos \/ scheduled' # scheduled)
         => pos = Len(file) \/ failed = "read"]_vars

\* A looping player left running, whose reads and seeks fail no more, shows every
\* picture of a file without sound again and again, even those that the decoder
\* holds back at the end, if it keeps them over the rewind (updateTimer).
LoopsForever ==
    \A f \in Files : \A i \in Pics(f) :
        (/\ SilentFile(f)
         /\ keeps \/ Cardinality({j \in Pics(f) : j > i}) >= Delay
         /\ <>[](/\ file = f /\ scheduled /\ onStage /\ ready /\ m_bLoop
                 /\ failed = "none" /\ pc # "dead"))
           => []<>(shown = i)

\* A player that does not loop comes to its end and stops itself, whatever fails
\* (updateTimer).
EndsWhenNotLooping ==
    <>[](onStage /\ ready /\ pc # "dead") =>
        ((ready /\ scheduled /\ ~m_bLoop) ~> (~scheduled \/ m_bLoop))

\* "Zero if no frame could be decompressed, otherwise, it is nonzero": a picture is
\* taken out of m_pFrame only when one was decompressed (updateTimer).
NonzeroIsPicture == pc = "scale" => got = 1
=============================================================================
