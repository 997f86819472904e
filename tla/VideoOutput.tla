----------------------------- MODULE VideoOutput -----------------------------
(***************************************************************************)
(* The video output of Core (media-io/video-io.c): a ring of frames filled *)
(* by the graphics thread and emptied by a thread of its own, which calls  *)
(* every connected consumer once for every frame interval.  A frame that   *)
(* stands for several intervals is handed out several times.               *)
(*                                                                         *)
(* A critical section of data_mutex is one action.  input_mutex is held    *)
(* over the calls of the consumers, which are actions of their own, and is *)
(* modelled.  Times are counted in frame intervals.  Scaling a frame for a *)
(* consumer succeeds.                                                      *)
(***************************************************************************)
EXTENDS Integers, FiniteSets, SequencesExt

CONSTANTS Consumers,        \* those who may ask for raw frames
          CacheSize,        \* info.cache_size, at most MAX_CACHE_SIZE
          MaxStarts         \* bound on the calls of start_raw_video

ASSUME OutputAssumption == CacheSize \in 1..16 /\ IsFiniteSet(Consumers)

VARIABLES
    cache,          \* the frames: [time, picture, session, count, skipped]
    firstAdded,     \* first_added
    lastAdded,      \* last_added
    available,      \* available_frames
    posts,          \* the value of update_semaphore
    stop,           \* stop
    thread,         \* where the video thread is
    frameInfo,      \* frame_info, the slot of the frame being handed out
    turn,           \* the input that is called next
    inputOwner,     \* who holds input_mutex
    inputs,         \* inputs, the connected consumers in order
    rawActive,      \* obs->video.raw_active
    user,           \* where each consumer is in its calls
    seen,           \* per consumer the last frame it was given
    starts          \* counter

ring == <<cache, firstAdded, lastAdded, available>>
videoThread == <<thread, frameInfo, turn>>
users == <<rawActive, user, starts>>
outputVars == <<ring, posts, stop, videoThread, inputOwner, inputs, users, seen>>

Slots == 0..(CacheSize - 1)
NoFrame == [time |-> 0, picture |-> 0, session |-> 0]
EmptySlot == [time |-> 0, picture |-> 0, session |-> 0,
              count |-> 0, skipped |-> 0]
Following(s) == (s + 1) % CacheSize

(* video_output_open has succeeded.                                        *)
OutputInit ==
    /\ cache = [s \in Slots |-> EmptySlot]
    /\ firstAdded = 0 /\ lastAdded = 0 /\ available = CacheSize
    /\ posts = 0 /\ stop = "no"
    /\ thread = "waiting" /\ frameInfo = 0 /\ turn = 1
    /\ inputOwner = "none" /\ inputs = <<>>
    /\ rawActive = 0 /\ user = [c \in Consumers |-> "idle"]
    /\ seen = [c \in Consumers |-> NoFrame]
-----------------------------------------------------------------------------
(* video_output_lock_frame.  The ring is full: the last frame stands for   *)
(* count intervals more.                                                   *)
MergeFrame(count) ==
    /\ available = 0
    /\ cache' = [cache EXCEPT ![lastAdded].count = @ + count,
                              ![lastAdded].skipped = @ + count]
    /\ UNCHANGED lastAdded

(* The slot a new frame goes to.                                           *)
FreeSlot == IF available # CacheSize THEN Following(lastAdded) ELSE lastAdded

ClaimFrame(frame, count) ==
    /\ available # 0
    /\ lastAdded' = FreeSlot
    /\ cache' = [cache EXCEPT ![FreeSlot] =
           [time |-> frame.time, picture |-> frame.picture,
            session |-> frame.session, count |-> count, skipped |-> 0]]

(* video_output_unlock_frame.                                              *)
UnlockFrame ==
    /\ available' = available - 1
    /\ posts' = posts + 1
-----------------------------------------------------------------------------
(* The video thread finds its frame and locks the inputs: nobody else      *)
(* moves first_added, and the others hold input_mutex for one action only. *)
BeginCalls ==
    /\ frameInfo' = firstAdded
    /\ inputOwner' = "videoThread"
    /\ thread' = "calling"

Woken ==
    /\ thread = "waiting" /\ posts > 0
    /\ posts' = posts - 1
    /\ IF stop = "no" THEN BeginCalls
       ELSE thread' = "gone" /\ UNCHANGED <<frameInfo, inputOwner>>
    /\ UNCHANGED <<ring, stop, turn, inputs, users, seen>>

(* The frame stands for another interval; has the output been stopped, the *)
(* loop is left.                                                           *)
SameFrame ==
    /\ thread = "sameFrame"
    /\ IF stop = "no" THEN BeginCalls
       ELSE thread' = "waiting" /\ UNCHANGED <<frameInfo, inputOwner>>
    /\ UNCHANGED <<ring, posts, stop, turn, inputs, users, seen>>

(* One consumer is called.                                                 *)
CallInput ==
    /\ thread = "calling" /\ turn <= Len(inputs)
    /\ LET frame == cache[frameInfo] IN
       seen' = [seen EXCEPT ![inputs[turn]] =
           [time |-> frame.time, picture |-> frame.picture,
            session |-> frame.session]]
    /\ turn' = turn + 1
    /\ UNCHANGED <<ring, posts, stop, thread, frameInfo, inputOwner, inputs, users>>

(* Variant: the time stays that of the first interval.                     *)
SameTimeRemaining(frame) ==
    [frame EXCEPT
        !.count = @ - 1,
        !.skipped = IF frame.count # 1 /\ @ > 0 THEN @ - 1 ELSE @]

(* The frame after it has been handed out: it stands for one interval less *)
(* and, if it goes on, for the interval that follows.                      *)
Remaining(frame) ==
    [frame EXCEPT
        !.time = @ + 1,
        !.count = @ - 1,
        !.skipped = IF frame.count # 1 /\ @ > 0 THEN @ - 1 ELSE @]

(* Variant: the writer is not told where an empty ring begins.             *)
ReleaseSlotOnly ==
    /\ firstAdded' = Following(firstAdded)
    /\ available' = available + 1
    /\ UNCHANGED lastAdded

(* The frame is complete: its slot is free again.                          *)
ReleaseSlot ==
    /\ firstAdded' = Following(firstAdded)
    /\ available' = available + 1
    /\ lastAdded' = IF available + 1 = CacheSize THEN firstAdded' ELSE lastAdded

(* All consumers have been called.  What a free slot holds is not read     *)
(* again.                                                                  *)
FinishFrame ==
    /\ thread = "calling" /\ turn > Len(inputs)
    /\ inputOwner' = "none" /\ turn' = 1
    /\ LET remaining == Remaining(cache[frameInfo]) IN
       IF remaining.count = 0
       THEN /\ cache' = [cache EXCEPT ![frameInfo] = EmptySlot]
            /\ thread' = "waiting"
            /\ ReleaseSlot
       ELSE /\ cache' = [cache EXCEPT ![frameInfo] = remaining]
            /\ thread' = "sameFrame"
            /\ UNCHANGED <<firstAdded, lastAdded, available>>
    /\ UNCHANGED <<posts, stop, frameInfo, inputs, users, seen>>

VideoThread == Woken \/ SameFrame \/ CallInput \/ FinishFrame
-----------------------------------------------------------------------------
(* The consumers.  start_raw_video first counts the consumer and then      *)
(* connects it, stop_raw_video gives both back.                            *)
StartRaw(c) ==
    /\ user[c] = "idle" /\ starts < MaxStarts
    /\ starts' = starts + 1
    /\ rawActive' = rawActive + 1
    /\ user' = [user EXCEPT ![c] = "connecting"]
    /\ UNCHANGED <<ring, posts, stop, videoThread, inputOwner, inputs, seen>>

(* video_output_connect, which may fail for want of a scaler; its result   *)
(* is not looked at.                                                       *)
Connect(c) ==
    /\ user[c] = "connecting" /\ inputOwner = "none"
    /\ inputs' \in {inputs, Append(inputs, c)}
    /\ user' = [user EXCEPT ![c] = "started"]
    /\ UNCHANGED <<ring, posts, stop, videoThread, inputOwner, rawActive, starts,
                   seen>>

(* stop_raw_video.                                                         *)
StopRaw(c) ==
    /\ user[c] = "started"
    /\ rawActive' = rawActive - 1
    /\ user' = [user EXCEPT ![c] = "disconnecting"]
    /\ UNCHANGED <<ring, posts, stop, videoThread, inputOwner, inputs, starts, seen>>

(* video_output_disconnect.                                                *)
Disconnect(c) ==
    /\ user[c] = "disconnecting" /\ inputOwner = "none"
    /\ \/ \E i \in DOMAIN inputs :
              inputs[i] = c /\ inputs' = RemoveAt(inputs, i)
       \/ c \notin ToSet(inputs) /\ UNCHANGED inputs
    /\ user' = [user EXCEPT ![c] = "idle"]
    /\ seen' = [seen EXCEPT ![c] = NoFrame]
    /\ UNCHANGED <<ring, posts, stop, videoThread, inputOwner, rawActive, starts>>

(* video_output_stop tells the thread, and then waits for its end.         *)
StopOutput ==
    /\ stop = "no"
    /\ stop' = "requested"
    /\ posts' = posts + 1
    /\ UNCHANGED <<ring, videoThread, inputOwner, inputs, users, seen>>

Joined ==
    /\ stop = "requested" /\ thread = "gone"
    /\ stop' = "joined"
    /\ UNCHANGED <<ring, posts, videoThread, inputOwner, inputs, users, seen>>

User(c) == StartRaw(c) \/ Connect(c) \/ StopRaw(c) \/ Disconnect(c)
=============================================================================
