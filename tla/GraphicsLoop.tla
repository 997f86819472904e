---------------------------- MODULE GraphicsLoop ----------------------------
(***************************************************************************)
(* The graphics thread of Core (obs-video.c) and the video output it feeds *)
(* (VideoOutput).  A turn of the loop renders one picture, stages it in a  *)
(* texture, fetches the picture staged in the turn before, gives it to the *)
(* output with the time and the count noted at the end of that turn, and   *)
(* sleeps until the next frame interval: when it wakes late, the picture   *)
(* stands for all the intervals that have gone by.  Pictures are also      *)
(* queued, in textures, for encoders that read them from there.            *)
(*                                                                         *)
(* A picture is named by the time it was rendered for.  A step that only   *)
(* the graphics thread can see belongs to the action before it.  The       *)
(* devices do not fail: a picture that was staged can be fetched.  Effects *)
(* on displays, sources and statistics are left out.                       *)
(***************************************************************************)
EXTENDS VideoOutput, CircleBuf

CONSTANTS NumTextures,      \* NUM_TEXTURES
          EncodeTextures,   \* NUM_ENCODE_TEXTURES
          MaxLag,           \* bound on the intervals slept through
          MaxTime,          \* bound on the frame intervals
          MaxGpuTime        \* and on those with an encoder of textures

(* One texture is written while another is read.  Of the textures for      *)
(* encoders there are three: with two, the queue may have room for one     *)
(* element when the last one is put back at the front, where the next one  *)
(* put at the back overwrites it.                                          *)
ASSUME TexturesAssumption ==
    /\ NumTextures \in Nat /\ NumTextures > 1
    /\ EncodeTextures \in Nat /\ EncodeTextures > 2

VARIABLES
    loop,           \* where the graphics thread is
    stopRequested,  \* stop_requested of the turn
    rawWasActive,   \* raw_was_active; raw_active within a turn
    gpuWasActive,   \* gpu_was_active; gpu_active within a turn
    videoTime,      \* video_time
    session,        \* how often raw frames were begun to be asked for
    curTexture,     \* cur_texture
    copied,         \* textures_copied, and the picture staged; 0 for none
    vframeInfo,     \* vframe_info_buffer: [time, count]
    frame,          \* the frame fetched, with its count
    gpuActive,      \* gpu_encoder_active
    vframeInfoGpu,  \* vframe_info_buffer_gpu, the counts only
    gpuQueue,       \* gpu_encoder_queue: textures [picture, count]
    gpuAvail,       \* textures in gpu_encoder_avail_queue
    gpuHeld,        \* the texture being encoded
    gpuPosts,       \* the value of gpu_encode_semaphore
    gpuOwed,        \* frames the encoders were promised less those encoded
    gpuStarts       \* counter

turnVars == <<loop, stopRequested, rawWasActive, gpuWasActive, videoTime>>
rawVars == <<session, curTexture, copied, vframeInfo, frame>>
gpuEncoder == <<gpuQueue, gpuAvail, gpuHeld, gpuPosts, gpuOwed>>
gpuVars == <<gpuActive, gpuStarts, vframeInfoGpu, gpuEncoder>>
graphicsVars == <<turnVars, rawVars, gpuVars>>
vars == <<outputVars, graphicsVars>>

Textures == 0..(NumTextures - 1)
NoPicture == [t \in Textures |-> 0]
NoPending == [time |-> 0, picture |-> 0, session |-> 0, count |-> 0]
NoTexture == Unwritten

Init ==
    /\ OutputInit
    /\ \E encoder \in BOOLEAN :
        /\ starts = IF encoder THEN MaxStarts - 1 ELSE 0
        /\ gpuStarts = IF encoder THEN 0 ELSE 1
    /\ loop = "start" /\ stopRequested = FALSE
    /\ rawWasActive = FALSE /\ gpuWasActive = FALSE
    /\ videoTime = 1 /\ session = 0
    /\ curTexture = 0 /\ copied = NoPicture
    /\ vframeInfo = <<>> /\ frame = NoPending
    /\ gpuActive = FALSE /\ vframeInfoGpu = <<>>
    /\ gpuQueue = EmptyBuf /\ gpuAvail = EncodeTextures
    /\ gpuHeld = NoTexture /\ gpuPosts = 0 /\ gpuOwed = 0
-----------------------------------------------------------------------------
WasActive == rawWasActive \/ gpuWasActive

(* Variant: what is left of the last session is kept.                      *)
ClearForgotten(raw, active) ==
    /\ curTexture' = IF ~WasActive /\ active THEN 0 ELSE curTexture
    /\ UNCHANGED <<copied, vframeInfo>>

(* clear_base_frame_data and clear_raw_frame_data, when frames begin to be *)
(* asked for.                                                              *)
ClearFrameData(raw, active) ==
    /\ curTexture' = IF ~WasActive /\ active THEN 0 ELSE curTexture
    /\ copied' = IF ~rawWasActive /\ raw THEN NoPicture ELSE copied
    /\ vframeInfo' = IF \/ ~WasActive /\ active
                        \/ ~rawWasActive /\ raw
                     THEN <<>> ELSE vframeInfo

(* The turn begins: what it does is decided here.                          *)
LoopStart ==
    /\ loop = "start"
    /\ LET raw == rawActive > 0 IN
       /\ ClearFrameData(raw, raw \/ gpuActive)
       /\ session' = IF ~rawWasActive /\ raw THEN session + 1 ELSE session
       /\ vframeInfoGpu' = IF ~gpuWasActive /\ gpuActive
                           THEN <<>> ELSE vframeInfoGpu
       /\ rawWasActive' = raw
       /\ gpuWasActive' = gpuActive
    /\ stopRequested' = (stop # "no")
    /\ loop' = "render"
    /\ UNCHANGED <<outputVars, videoTime, frame, gpuActive, gpuStarts, gpuEncoder>>
-----------------------------------------------------------------------------
(* queue_frame, called until the count is used up: while the picture       *)
(* stands for several intervals, or has no texture to go to, the one       *)
(* queued before it is lengthened.  With no texture and nothing queued the *)
(* picture is given up.                                                    *)
Lengthened(queue, count) ==
    IF count = 0 THEN queue
    ELSE [queue EXCEPT !.data[Place(queue, queue.size - 1)].count = @ + count]

NewTexture == [picture |-> videoTime, count |-> 1]

QueuedBehind(queue, avail, count) ==
    IF count = 0 \/ avail = 0
    THEN [queue |-> Lengthened(queue, count), avail |-> avail]
    ELSE [queue |-> PushBack(Lengthened(queue, count - 1), NewTexture),
          avail |-> avail - 1]

Queued(queue, avail, count) ==
    IF queue.size # 0 THEN QueuedBehind(queue, avail, count)
    ELSE QueuedBehind(PushBack(queue, NewTexture), avail - 1, count - 1)

QueueFrames(count) ==
    IF gpuAvail = 0 /\ gpuQueue.size = 0
    THEN UNCHANGED <<gpuQueue, gpuAvail, gpuPosts>>
    ELSE LET queued == Queued(gpuQueue, gpuAvail, count) IN
         /\ gpuQueue' = queued.queue
         /\ gpuAvail' = queued.avail
         /\ gpuPosts' = gpuPosts + count

(* output_gpu_encoders.                                                    *)
OutputGpu ==
    IF gpuWasActive /\ vframeInfoGpu # <<>>
    THEN /\ QueueFrames(Head(vframeInfoGpu))
         /\ gpuOwed' = gpuOwed + Head(vframeInfoGpu)
         /\ vframeInfoGpu' = Tail(vframeInfoGpu)
         /\ UNCHANGED <<gpuActive, gpuStarts, gpuHeld>>
    ELSE UNCHANGED gpuVars

PrevTexture == IF curTexture = 0 THEN NumTextures - 1 ELSE curTexture - 1

FrameReady == rawWasActive /\ copied[PrevTexture] # 0

(* output_frame up to the call of the output: the picture is rendered,     *)
(* staged, and the one before is fetched.                                  *)
OutputFrame ==
    /\ loop = "render"
    /\ OutputGpu
    /\ copied' = IF rawWasActive
                 THEN [copied EXCEPT ![curTexture] = videoTime] ELSE copied
    /\ IF FrameReady
       THEN /\ frame' = [time |-> Head(vframeInfo).time, picture |-> copied[PrevTexture],
                         session |-> session, count |-> Head(vframeInfo).count]
            /\ vframeInfo' = Tail(vframeInfo)
            /\ loop' = "output"
       ELSE loop' = "sleep" /\ UNCHANGED <<frame, vframeInfo>>
    /\ curTexture' = (curTexture + 1) % NumTextures
    /\ UNCHANGED <<outputVars, session, stopRequested, rawWasActive,
                   gpuWasActive, videoTime>>

(* output_video_data: a slot is filled, or the last frame lengthened.      *)
LockFrame ==
    /\ loop = "output"
    /\ frame' = NoPending
    /\ \/ MergeFrame(frame.count) /\ loop' = "sleep"
       \/ ClaimFrame(frame, frame.count) /\ loop' = "unlock"
    /\ UNCHANGED <<firstAdded, available, posts, stop, videoThread, inputOwner,
                   inputs, users, seen, session, curTexture, copied, vframeInfo,
                   gpuVars, stopRequested, rawWasActive, gpuWasActive, videoTime>>

UnlockOutput ==
    /\ loop = "unlock"
    /\ UnlockFrame
    /\ loop' = "sleep"
    /\ UNCHANGED <<cache, firstAdded, lastAdded, stop, videoThread, inputOwner,
                   inputs, users, seen, rawVars, gpuVars,
                   stopRequested, rawWasActive, gpuWasActive, videoTime>>

(* video_sleep.                                                            *)
Sleep ==
    /\ loop = "sleep"
    /\ \E lag \in 1..MaxLag :
        /\ \/ stop # "no" /\ lag = 1
           \/ videoTime + lag <= IF gpuActive THEN MaxGpuTime ELSE MaxTime
        /\ videoTime' = videoTime + lag
        /\ vframeInfo' =
               IF rawWasActive
               THEN Append(vframeInfo, [time |-> videoTime, count |-> lag])
               ELSE vframeInfo
        /\ vframeInfoGpu' = IF gpuWasActive
                            THEN Append(vframeInfoGpu, lag)
                            ELSE vframeInfoGpu
    /\ loop' = IF stopRequested THEN "ended" ELSE "start"
    /\ UNCHANGED <<outputVars, session, curTexture, copied, frame, gpuActive, gpuStarts,
                   gpuEncoder, stopRequested, rawWasActive, gpuWasActive>>

Graphics == LoopStart \/ OutputFrame \/ LockFrame \/ UnlockOutput \/ Sleep
-----------------------------------------------------------------------------
(* An encoder that reads textures is started.                              *)
StartGpu ==
    /\ gpuStarts < 1
    /\ gpuStarts' = 1
    /\ gpuActive' = TRUE
    /\ UNCHANGED <<outputVars, turnVars, rawVars, vframeInfoGpu, gpuEncoder>>

(* The thread of these encoders takes a texture when it is told of a frame *)
(* and encodes it; the texture is given back, or stands for more frames.   *)
TakeTexture ==
    /\ gpuHeld = NoTexture /\ gpuPosts > 0 /\ gpuQueue.size # 0
    /\ gpuPosts' = gpuPosts - 1
    /\ gpuHeld' = PeekFront(gpuQueue)
    /\ gpuQueue' = PopFront(gpuQueue)
    /\ UNCHANGED <<outputVars, turnVars, rawVars, gpuActive, gpuStarts,
                   vframeInfoGpu, gpuAvail, gpuOwed>>

GiveBackTexture ==
    /\ gpuHeld # NoTexture
    /\ gpuHeld' = NoTexture
    /\ gpuOwed' = gpuOwed - 1
    /\ IF gpuHeld.count = 1
       THEN gpuAvail' = gpuAvail + 1 /\ UNCHANGED gpuQueue
       ELSE /\ gpuQueue' = PushFront(gpuQueue, [gpuHeld EXCEPT !.count = @ - 1])
            /\ UNCHANGED gpuAvail
    /\ UNCHANGED <<outputVars, turnVars, rawVars, gpuActive, gpuStarts,
                   vframeInfoGpu, gpuPosts>>

Next ==
    \/ Graphics
    \/ StartGpu \/ TakeTexture \/ GiveBackTexture
    \/ (VideoThread \/ StopOutput \/ Joined \/ \E c \in Consumers : User(c))
           /\ UNCHANGED graphicsVars

Spec == Init /\ [][Next]_vars
-----------------------------------------------------------------------------
(* The fields hold what their declarations allow.                          *)
TypeOK ==
    /\ available \in 0..CacheSize /\ {firstAdded, lastAdded, frameInfo} \subseteq Slots
    /\ posts \in Nat /\ rawActive \in 0..Cardinality(Consumers)
    /\ thread \in {"waiting", "calling", "sameFrame", "gone"}
    /\ loop \in {"start", "render", "output", "unlock", "sleep", "ended"}
    /\ inputOwner = "videoThread" <=> thread = "calling"
    /\ curTexture \in Textures /\ {gpuAvail, gpuPosts} \subseteq Nat

(* A consumer that stays connected while frames are asked for without a    *)
(* break is called once for every frame interval, in order: none is left   *)
(* out because the output was behind, none is handed out twice, and after  *)
(* a break the times go on rising.                                         *)
EveryIntervalOnce ==
    [][\A c \in Consumers :
          seen'[c] # seen[c] /\ seen[c] # NoFrame /\ seen'[c] # NoFrame =>
              /\ seen'[c].time > seen[c].time
              /\ seen'[c].session = seen[c].session =>
                     seen'[c].time = seen[c].time + 1]_vars

(* A picture is given to the output with the time it was rendered for,     *)
(* however often the consumers came and went while textures were on their  *)
(* way, and never is a picture fetched for which no time is noted.         *)
PictureOfItsTime ==
    /\ loop = "output" => frame.picture = frame.time
    /\ loop = "render" /\ FrameReady => vframeInfo # <<>>
    /\ \A c \in Consumers : seen[c].picture <= seen[c].time

(* The semaphore of the encoders and the counts of the textures agree: a   *)
(* frame an encoder is woken for is there, and no frame is left behind.    *)
(* The pictures wait in the order they were rendered in, while the circle  *)
(* of the queue wraps around, is put back to at its front, and grows.      *)
GpuFramesKept ==
    LET held == IF gpuHeld = NoTexture THEN 0 ELSE 1
        waiting == Elements(gpuQueue)
        textures == IF held = 1 THEN <<gpuHeld>> \o waiting ELSE waiting
    IN  /\ gpuPosts = FoldLeft(LAMBDA n, t : n + t.count, -held, textures)
        /\ gpuOwed = gpuPosts + held
        /\ gpuAvail + Len(textures) = EncodeTextures
        /\ \A i \in 1..(Len(textures) - 1) :
               textures[i].picture <= textures[i + 1].picture

(* The video thread does not sleep through the request to stop, however    *)
(* many of its wake-ups were for frames.                                   *)
StopIsHeard == stop = "requested" /\ thread = "waiting" => posts > 0

(* The frames that are ready stand for one interval at least, and for more *)
(* than were skipped: the last one, which counts no skip, loses none.      *)
SkipsAreCounted ==
    \A i \in 0..(CacheSize - available - 1) :
        LET ready == cache[(firstAdded + i) % CacheSize]
        IN  ready.count > ready.skipped

(* The wake-ups and counts of the video thread and of the encoders are in  *)
(* step with the frames they are for.                                      *)
CountsInStep == TypeOK /\ StopIsHeard /\ SkipsAreCounted /\ GpuFramesKept

(* The frame intervals of the frames that are ready.                       *)
Owed ==
    UNION {LET ready == cache[(firstAdded + i) % CacheSize]
           IN  ready.time..(ready.time + ready.count - 1)
           : i \in 0..(CacheSize - available - 1)}

(* The output implements the promise of FrameClock.  A frame counts as     *)
(* given when it is unlocked, or lengthens another one, and an interval as *)
(* handed out when the video thread has called all its consumers.          *)
Clock == INSTANCE FrameClock WITH owed <- Owed

ImplementsFrameClock == Clock!Spec
=============================================================================
