------------------------ MODULE GraphicsLoop_proofs ------------------------
(***************************************************************************)
(* Proofs about the frames of Core, for every number of consumers, slots   *)
(* of the ring, textures and intervals slept through.                      *)
(***************************************************************************)
EXTENDS GraphicsLoop, SequenceTheorems, FiniteSetTheorems, WellFoundedInduction, TLAPS

Frame == [time : Nat, picture : Nat, session : Nat, count : Int, skipped : Int]
Pending == [time : Nat, picture : Nat, session : Nat, count : Nat]
Given == [time : Nat, picture : Nat, session : Nat]
Note == [time : Nat, count : Nat \ {0}]

RingTypes ==
    /\ cache \in [Slots -> Frame]
    /\ firstAdded \in Slots /\ lastAdded \in Slots /\ frameInfo \in Slots
    /\ available \in 0..CacheSize

SeenTypes == seen \in [Consumers -> Given]

ThreadTypes ==
    /\ posts \in Nat /\ turn \in Nat \ {0}
    /\ stop \in {"no", "requested", "joined"}
    /\ thread \in {"waiting", "calling", "sameFrame", "gone"}
    /\ inputOwner \in {"none", "videoThread"}

(* Those who ask for raw frames.                                           *)
Asking == {c \in Consumers : user[c] \in {"connecting", "started"}}

UserTypes ==
    /\ inputs \in Seq(Consumers)
    /\ user \in [Consumers -> {"idle", "connecting", "started", "disconnecting"}]
    /\ rawActive = Cardinality(Asking)

TurnTypes ==
    /\ loop \in {"start", "render", "output", "unlock", "sleep", "ended"}
    /\ stopRequested \in BOOLEAN /\ rawWasActive \in BOOLEAN /\ gpuWasActive \in BOOLEAN
    /\ videoTime \in Nat \ {0}

GpuTypes ==
    /\ gpuActive \in BOOLEAN
    /\ vframeInfoGpu \in Seq(Nat \ {0})
    /\ gpuAvail \in Nat /\ gpuPosts \in Nat

RawTypes ==
    /\ session \in Nat /\ curTexture \in Textures
    /\ copied \in [Textures -> Nat]
    /\ vframeInfo \in Seq(Note)
    /\ frame \in Pending

ControlTypes == ThreadTypes /\ UserTypes /\ TurnTypes /\ GpuTypes

(* The picture staged in the turn before is the one whose time was noted   *)
(* last, up to the present time.                                           *)
Noted ==
    /\ Len(vframeInfo) = 1
    /\ vframeInfo[1].time = copied[PrevTexture] /\ copied[PrevTexture] > 0
    /\ vframeInfo[1].time + vframeInfo[1].count = videoTime

RawInStep ==
    /\ loop = "start" /\ rawWasActive => Noted
    /\ loop = "render" /\ rawWasActive =>
           Noted \/ (vframeInfo = <<>> /\ copied = NoPicture)
    /\ loop \in {"output", "unlock", "sleep"} /\ rawWasActive =>
           vframeInfo = <<>> /\ copied[PrevTexture] = videoTime
    /\ loop \in {"output", "unlock"} => rawWasActive
    /\ loop = "output" =>
           /\ frame.picture = frame.time /\ frame.session = session
           /\ frame.count > 0 /\ frame.time + frame.count = videoTime

SeenOfTheirTime == \A c \in Consumers : seen[c].picture <= seen[c].time

(* The video thread.                                                       *)
Busy == thread \in {"calling", "sameFrame"}
Ready == CacheSize - available

ThreadInStep ==
    /\ Busy => Ready > 0
    /\ thread = "calling" => frameInfo = firstAdded
    /\ thread = "calling" <=> inputOwner = "videoThread"
    /\ thread # "calling" => turn = 1
    /\ stop = "no" => thread # "gone" /\ posts = (IF Busy THEN Ready - 1 ELSE Ready)
    /\ stop = "requested" /\ thread # "gone" => posts > 0

(* The slots in use, the one included that has been claimed and not yet    *)
(* been given.                                                             *)
At(first, i) == (first + i) % CacheSize
Filled == Ready + (IF loop = "unlock" THEN 1 ELSE 0)
InUse(i) == cache[At(firstAdded, i)]
End(f) == f.time + f.count

RingInStep ==
    /\ Filled <= CacheSize
    /\ lastAdded = IF Filled = 0 THEN firstAdded ELSE At(firstAdded, Filled - 1)

(* A frame in use is not older than its picture and stands for more        *)
(* intervals than were skipped.                                            *)
Sound(f) == f.picture <= f.time /\ f.skipped >= 0 /\ f.count > f.skipped

FramesSound == \A i \in 0..(Filled - 1) : Sound(InUse(i))

(* The time of the frame that is given next.                               *)
NextTime ==
    IF loop = "output" THEN frame.time
    ELSE IF rawWasActive /\ vframeInfo # <<>> THEN vframeInfo[1].time
    ELSE videoTime

(* The frames in use are of the sessions so far, follow each other in time,*)
(* without a gap within a session, and so does the one given next.         *)
SessionsKnown == \A i \in 0..(Filled - 1) : InUse(i).session <= session
InTimeOrder ==
    \A i, j \in 0..(Filled - 1) : i < j => End(InUse(i)) <= InUse(j).time
WithoutGap ==
    \A i, j \in 0..(Filled - 1) :
        j = i + 1 /\ InUse(i).session = InUse(j).session => End(InUse(i)) = InUse(j).time
EndBeforeNext == \A i \in 0..(Filled - 1) : End(InUse(i)) <= NextTime
LastMeetsNext ==
    \A i \in 0..(Filled - 1) :
        i = Filled - 1 /\ rawWasActive /\ InUse(i).session = session =>
            End(InUse(i)) = NextTime

FramesFollow ==
    SessionsKnown /\ InTimeOrder /\ WithoutGap /\ EndBeforeNext /\ LastMeetsNext

(* A consumer is in the list once, and only from its connection to its     *)
(* disconnection; who was given a frame is in it.                          *)
NoneTwice == \A i, j \in 1..Len(inputs) : inputs[i] = inputs[j] => i = j
ConnectedOnly == \A i \in 1..Len(inputs) : user[inputs[i]] \in {"started", "disconnecting"}
GivenAreInputs ==
    \A c \in Consumers : seen[c] # NoFrame => \E i \in 1..Len(inputs) : inputs[i] = c

InputsOnce == NoneTwice /\ ConnectedOnly /\ GivenAreInputs

(* Who has been called for the present interval has been given it, and who *)
(* has not waits for the interval after its last one.                      *)
Called(c) == \E k \in 1..(turn - 1) : k <= Len(inputs) /\ inputs[k] = c

GivenFirst(c) ==
    /\ Filled > 0
    /\ seen[c].time = InUse(0).time /\ seen[c].session = InUse(0).session

WaitsForFirst(c) ==
    Filled > 0 =>
        /\ seen[c].time + 1 <= InUse(0).time
        /\ seen[c].session = InUse(0).session => seen[c].time + 1 = InUse(0).time

WaitsForNext(c) ==
    Filled = 0 =>
        /\ seen[c].time + 1 <= NextTime
        /\ rawWasActive /\ seen[c].session = session => seen[c].time + 1 = NextTime

InStep(c) ==
    /\ seen[c].session <= session
    /\ IF Called(c) THEN GivenFirst(c) ELSE WaitsForFirst(c) /\ WaitsForNext(c)

SeenInStep == \A c \in Consumers : seen[c] # NoFrame => InStep(c)

-----------------------------------------------------------------------------
(* The control of the threads.                                             *)
LEMMA ThreadTyped ==
    ASSUME ThreadTypes, [Next]_vars
    PROVE  ThreadTypes'
<1> USE DEF ThreadTypes
<1>1. CASE Graphics
  BY <1>1 DEF Graphics, LoopStart, OutputFrame, LockFrame, UnlockOutput, UnlockFrame,
       Sleep, outputVars, videoThread
<1>2. CASE StartGpu \/ TakeTexture \/ GiveBackTexture
  BY <1>2 DEF StartGpu, TakeTexture, GiveBackTexture, outputVars, videoThread
<1>3. CASE VideoThread \/ StopOutput \/ Joined
  BY <1>3 DEF VideoThread, Woken, SameFrame, CallInput, FinishFrame, BeginCalls,
       StopOutput, Joined, videoThread
<1>4. CASE \E c \in Consumers : User(c)
  BY <1>4 DEF User, StartRaw, Connect, StopRaw, Disconnect, videoThread
<1>5. CASE UNCHANGED vars
  BY <1>5 DEF vars, outputVars, videoThread
<1> QED
  BY <1>1, <1>2, <1>3, <1>4, <1>5 DEF Next

LEMMA TurnTyped ==
    ASSUME TurnTypes, GpuTypes, [Next]_vars
    PROVE  TurnTypes'
<1> USE DEF TurnTypes, GpuTypes
<1>1. CASE LoopStart
  BY <1>1 DEF LoopStart
<1>2. CASE OutputFrame \/ LockFrame \/ UnlockOutput
  BY <1>2 DEF OutputFrame, LockFrame, UnlockOutput
<1>3. CASE Sleep
  BY <1>3 DEF Sleep
<1>4. CASE StartGpu \/ TakeTexture \/ GiveBackTexture
  BY <1>4 DEF StartGpu, TakeTexture, GiveBackTexture, turnVars
<1>5. CASE UNCHANGED graphicsVars
  BY <1>5 DEF graphicsVars, turnVars
<1> QED
  BY <1>1, <1>2, <1>3, <1>4, <1>5 DEF Next, Graphics, vars

LEMMA FramesQueued ==
    ASSUME NEW count \in Nat \ {0}, GpuTypes, QueueFrames(count)
    PROVE  gpuAvail' \in Nat /\ gpuPosts' \in Nat
<1>1. CASE gpuAvail = 0 /\ gpuQueue.size = 0
  BY <1>1 DEF QueueFrames, GpuTypes
<1>2. CASE ~(gpuAvail = 0 /\ gpuQueue.size = 0)
  <2>1. gpuPosts' = gpuPosts + count /\ gpuAvail' = Queued(gpuQueue, gpuAvail, count).avail
    BY <1>2 DEF QueueFrames
  <2>2. \A queue, avail, n : QueuedBehind(queue, avail, n).avail =
                                 IF n = 0 \/ avail = 0 THEN avail ELSE avail - 1
    BY DEF QueuedBehind
  <2>3. gpuQueue.size # 0 => Queued(gpuQueue, gpuAvail, count).avail \in Nat
    BY <2>2 DEF Queued, GpuTypes
  <2>4. gpuQueue.size = 0 => Queued(gpuQueue, gpuAvail, count).avail \in Nat
    BY <1>2, <2>2 DEF Queued, GpuTypes
  <2> QED
    BY <2>1, <2>3, <2>4 DEF GpuTypes
<1> QED
  BY <1>1, <1>2

LEMMA GpuTyped ==
    ASSUME TurnTypes, GpuTypes, [Next]_vars
    PROVE  GpuTypes'
<1>1. CASE LoopStart
  BY <1>1, EmptySeq DEF LoopStart, GpuTypes, gpuEncoder
<1>2. CASE OutputFrame
  <2>1. CASE gpuWasActive /\ vframeInfoGpu # <<>>
    <3>1. Head(vframeInfoGpu) \in Nat \ {0} /\ Tail(vframeInfoGpu) \in Seq(Nat \ {0})
      BY <2>1, HeadTailProperties DEF GpuTypes
    <3>2. /\ QueueFrames(Head(vframeInfoGpu)) /\ vframeInfoGpu' = Tail(vframeInfoGpu)
          /\ gpuActive' = gpuActive
      BY <1>2, <2>1 DEF OutputFrame, OutputGpu
    <3> QED
      BY <3>1, <3>2, FramesQueued DEF GpuTypes
  <2>2. CASE ~(gpuWasActive /\ vframeInfoGpu # <<>>)
    BY <1>2, <2>2 DEF OutputFrame, OutputGpu, GpuTypes, gpuVars, gpuEncoder
  <2> QED
    BY <2>1, <2>2
<1>3. CASE LockFrame \/ UnlockOutput
  BY <1>3 DEF LockFrame, UnlockOutput, GpuTypes, gpuVars, gpuEncoder
<1>4. CASE Sleep
  <2>1. PICK lag \in 1..MaxLag :
            vframeInfoGpu' = IF gpuWasActive THEN Append(vframeInfoGpu, lag) ELSE vframeInfoGpu
    BY <1>4 DEF Sleep
  <2>2. lag \in Nat \ {0}
    OBVIOUS
  <2>3. Append(vframeInfoGpu, lag) \in Seq(Nat \ {0})
    BY <2>2, AppendProperties DEF GpuTypes
  <2> QED
    BY <1>4, <2>1, <2>3 DEF Sleep, GpuTypes, gpuEncoder
<1>5. CASE StartGpu
  BY <1>5 DEF StartGpu, GpuTypes, gpuEncoder
<1>6. CASE TakeTexture
  BY <1>6 DEF TakeTexture, GpuTypes
<1>7. CASE GiveBackTexture
  BY <1>7 DEF GiveBackTexture, GpuTypes
<1>8. CASE UNCHANGED graphicsVars
  BY <1>8 DEF graphicsVars, gpuVars, gpuEncoder, GpuTypes
<1> QED
  BY <1>1, <1>2, <1>3, <1>4, <1>5, <1>6, <1>7, <1>8 DEF Next, Graphics, vars

(* What da_erase leaves of the inputs.                                     *)
LEMMA InputErased ==
    ASSUME NEW S, NEW s \in Seq(S), NEW n \in 1..Len(s)
    PROVE  /\ RemoveAt(s, n) \in Seq(S)
           /\ Len(RemoveAt(s, n)) = Len(s) - 1
           /\ \A i \in 1..(Len(s) - 1) :
                  RemoveAt(s, n)[i] = IF i < n THEN s[i] ELSE s[i + 1]
<1> DEFINE front == SubSeq(s, 1, n - 1)
           back == SubSeq(s, n + 1, Len(s))
<1>0. Len(s) \in Nat /\ n \in Nat /\ \A i \in 1..Len(s) : s[i] \in S
  OBVIOUS
<1>1. /\ front \in Seq(S) /\ Len(front) = n - 1
      /\ \A i \in 1..(n - 1) : front[i] = s[i]
  <2>1. /\ front \in Seq(S) /\ Len(front) = (IF 1 <= n - 1 THEN n - 1 - 1 + 1 ELSE 0)
        /\ \A i \in 1..(n - 1 - 1 + 1) : front[i] = s[1 + i - 1]
    <3>1. 1 \in Int /\ n - 1 \in Int /\ \A i \in 1..(n - 1) : s[i] \in S
      BY <1>0
    <3> QED
      BY <3>1, SubSeqProperties
  <2> HIDE DEF front
  <2>2. Len(front) = n - 1
    BY <1>0, <2>1
  <2>3. \A i \in 1..(n - 1) : i \in 1..(n - 1 - 1 + 1) /\ 1 + i - 1 = i
    BY <1>0
  <2> QED
    BY <2>1, <2>2, <2>3
<1>2. /\ back \in Seq(S) /\ Len(back) = Len(s) - n
      /\ \A i \in 1..(Len(s) - n) : back[i] = s[n + i]
  <2>1. /\ back \in Seq(S)
        /\ Len(back) = (IF n + 1 <= Len(s) THEN Len(s) - (n + 1) + 1 ELSE 0)
        /\ \A i \in 1..(Len(s) - (n + 1) + 1) : back[i] = s[n + 1 + i - 1]
    <3>1. n + 1 \in Int /\ Len(s) \in Int /\ \A i \in (n + 1)..Len(s) : s[i] \in S
      BY <1>0
    <3> QED
      BY <3>1, SubSeqProperties
  <2> HIDE DEF back
  <2>2. Len(back) = Len(s) - n
    BY <1>0, <2>1
  <2>3. \A i \in 1..(Len(s) - n) :
            i \in 1..(Len(s) - (n + 1) + 1) /\ n + 1 + i - 1 = n + i
    BY <1>0
  <2> QED
    BY <2>1, <2>2, <2>3
<1>3. RemoveAt(s, n) = front \o back
  BY DEF RemoveAt
<1> HIDE DEF front, back
<1>4. /\ front \o back \in Seq(S) /\ Len(front \o back) = Len(front) + Len(back)
      /\ \A i \in 1..(Len(front) + Len(back)) :
             (front \o back)[i] = IF i <= Len(front) THEN front[i] ELSE back[i - Len(front)]
  BY <1>1, <1>2, ConcatProperties
<1>5. Len(front) + Len(back) = Len(s) - 1
  BY <1>0, <1>1, <1>2
<1>6. \A i \in 1..(Len(s) - 1) :
          (front \o back)[i] = IF i < n THEN s[i] ELSE s[i + 1]
  <2> TAKE i \in 1..(Len(s) - 1)
  <2>1. CASE i < n
    BY <1>0, <1>1, <1>4, <1>5, <2>1
  <2>2. CASE ~(i < n)
    <3>1. i - (n - 1) \in 1..(Len(s) - n) /\ n + (i - (n - 1)) = i + 1 /\ ~(i <= n - 1)
      BY <1>0, <2>2
    <3>2. (front \o back)[i] = back[i - (n - 1)]
      BY <1>1, <1>4, <1>5, <3>1
    <3>3. back[i - (n - 1)] = s[n + (i - (n - 1))]
      BY <1>2, <3>1
    <3> QED
      BY <3>1, <3>2, <3>3, <2>2
  <2> QED
    BY <2>1, <2>2
<1> QED
  BY <1>3, <1>4, <1>5, <1>6

LEMMA UserTyped ==
    ASSUME UserTypes, [Next]_vars
    PROVE  UserTypes'
<1>1. CASE Graphics \/ StartGpu \/ TakeTexture \/ GiveBackTexture
  BY <1>1 DEF Graphics, LoopStart, OutputFrame, LockFrame, UnlockOutput, Sleep,
       StartGpu, TakeTexture, GiveBackTexture, outputVars, users, UserTypes, Asking
<1>2. CASE VideoThread \/ StopOutput \/ Joined
  BY <1>2 DEF VideoThread, Woken, SameFrame, CallInput, FinishFrame, StopOutput, Joined,
       users, UserTypes, Asking
<1>3. CASE \E c \in Consumers : User(c)
  <2>1. PICK c \in Consumers : User(c)
    BY <1>3
  <2>0. /\ IsFiniteSet(Asking)
        /\ Cardinality(Asking \cup {c}) =
               IF c \in Asking THEN Cardinality(Asking) ELSE Cardinality(Asking) + 1
        /\ Cardinality(Asking \ {c}) =
               IF c \in Asking THEN Cardinality(Asking) - 1 ELSE Cardinality(Asking)
    <3>1. IsFiniteSet(Asking)
      BY OutputAssumption, FS_Subset DEF Asking
    <3> QED
      BY <3>1, FS_AddElement, FS_RemoveElement
  <2>2. CASE StartRaw(c)
    <3>1. user[c] = "idle" /\ user' = [user EXCEPT ![c] = "connecting"]
          /\ rawActive' = rawActive + 1 /\ inputs' = inputs
      BY <2>2 DEF StartRaw
    <3>2. c \notin Asking /\ Asking' = Asking \cup {c}
      BY <3>1 DEF UserTypes, Asking
    <3> QED
      BY <2>0, <3>1, <3>2 DEF UserTypes
  <2>3. CASE Connect(c)
    <3>1. user[c] = "connecting" /\ user' = [user EXCEPT ![c] = "started"]
          /\ rawActive' = rawActive /\ inputs' \in {inputs, Append(inputs, c)}
      BY <2>3 DEF Connect
    <3>2. Asking' = Asking
      BY <3>1 DEF UserTypes, Asking
    <3>3. Append(inputs, c) \in Seq(Consumers)
      BY AppendProperties DEF UserTypes
    <3> QED
      BY <3>1, <3>2, <3>3 DEF UserTypes
  <2>4. CASE StopRaw(c)
    <3>1. user[c] = "started" /\ user' = [user EXCEPT ![c] = "disconnecting"]
          /\ rawActive' = rawActive - 1 /\ inputs' = inputs
      BY <2>4 DEF StopRaw
    <3>2. c \in Asking /\ Asking' = Asking \ {c}
      BY <3>1 DEF UserTypes, Asking
    <3> QED
      BY <2>0, <3>1, <3>2 DEF UserTypes
  <2>5. CASE Disconnect(c)
    <3>0. user[c] = "disconnecting" /\ user' = [user EXCEPT ![c] = "idle"]
      BY <2>5 DEF Disconnect
    <3>1. user' \in [Consumers -> {"idle", "connecting", "started", "disconnecting"}]
      BY <3>0 DEF UserTypes
    <3>2. \A d \in Consumers : user'[d] \in {"connecting", "started"}
                                   <=> user[d] \in {"connecting", "started"}
      BY <3>0 DEF UserTypes
    <3>3. Asking' = Asking
      BY <3>2 DEF Asking
    <3>4. inputs' \in Seq(Consumers)
      <4>1. DOMAIN inputs = 1..Len(inputs) /\ inputs \in Seq(Consumers)
        BY DEF UserTypes
      <4>2. inputs' = inputs \/ \E i \in 1..Len(inputs) : inputs' = RemoveAt(inputs, i)
        BY <2>5, <4>1 DEF Disconnect
      <4> QED
        BY <4>1, <4>2, InputErased
    <3>5. rawActive' = rawActive /\ rawActive = Cardinality(Asking)
      BY <2>5 DEF Disconnect, UserTypes
    <3>6. rawActive' = Cardinality(Asking')
      BY <3>3, <3>5
    <3> QED
      BY <3>1, <3>4, <3>6 DEF UserTypes
  <2> QED
    BY <2>1, <2>2, <2>3, <2>4, <2>5 DEF User
<1>4. CASE UNCHANGED vars
  BY <1>4 DEF vars, outputVars, users, UserTypes, Asking
<1> QED
  BY <1>1, <1>2, <1>3, <1>4 DEF Next

LEMMA InitControl == ASSUME Init PROVE ControlTypes
<1>1. /\ posts = 0 /\ stop = "no" /\ thread = "waiting" /\ turn = 1 /\ inputOwner = "none"
      /\ loop = "start" /\ ~stopRequested /\ ~rawWasActive /\ ~gpuWasActive
      /\ videoTime = 1
  BY DEF Init, OutputInit
<1>4. stopRequested \in BOOLEAN /\ rawWasActive \in BOOLEAN /\ gpuWasActive \in BOOLEAN
  BY DEF Init
<1>2. GpuTypes
  BY TexturesAssumption, EmptySeq DEF Init, GpuTypes
<1>3. UserTypes
  <2>1. Asking = {}
    BY DEF Init, OutputInit, Asking
  <2> QED
    BY <2>1, EmptySeq, FS_EmptySet DEF Init, OutputInit, UserTypes
<1> QED
  BY <1>1, <1>2, <1>3, <1>4 DEF ControlTypes, ThreadTypes, TurnTypes

LEMMA ControlHolds == Spec => []ControlTypes
<1>1. ControlTypes /\ [Next]_vars => ControlTypes'
  BY ThreadTyped, UserTyped, TurnTyped, GpuTyped DEF ControlTypes
<1> QED
  BY InitControl, <1>1, PTL DEF Spec

-----------------------------------------------------------------------------
(* The pictures on their way to the output.                                *)
LEMMA NextTexture ==
    ASSUME NEW t \in Textures
    PROVE  /\ (t + 1) % NumTextures \in Textures
           /\ (IF (t + 1) % NumTextures = 0 THEN NumTextures - 1
               ELSE ((t + 1) % NumTextures) - 1) = t
<1>1. NumTextures \in Nat /\ NumTextures > 1 /\ t \in Nat /\ t < NumTextures
  BY TexturesAssumption DEF Textures
<1>2. (t + 1) % NumTextures = IF t + 1 = NumTextures THEN 0 ELSE t + 1
  BY <1>1
<1> QED
  BY <1>1, <1>2 DEF Textures

LEMMA TextureBefore == ASSUME curTexture \in Textures PROVE PrevTexture \in Textures
  BY TexturesAssumption DEF Textures, PrevTexture

RawInv == RawTypes /\ RawInStep

LEMMA RawKept ==
    ASSUME RawInv, UNCHANGED <<loop, rawWasActive, videoTime, rawVars>>
    PROVE  RawInv'
  BY DEF RawInv, RawTypes, RawInStep, Noted, PrevTexture, rawVars

LEMMA LoopStartRaw ==
    ASSUME TurnTypes, RawInv, LoopStart
    PROVE  RawInv'
<1> USE DEF RawInv, RawTypes
<1>0. /\ NoPicture \in [Textures -> Nat] /\ 0 \in Textures /\ <<>> \in Seq(Note)
  BY TexturesAssumption, EmptySeq DEF NoPicture, Textures
<1>1. /\ loop = "start" /\ loop' = "render" /\ rawWasActive' = (rawActive > 0)
      /\ session' \in {session, session + 1} /\ frame' = frame /\ videoTime' = videoTime
      /\ ClearFrameData(rawActive > 0, rawActive > 0 \/ gpuActive)
  BY DEF LoopStart
<1>2. /\ copied' = IF ~rawWasActive /\ rawActive > 0 THEN NoPicture ELSE copied
      /\ ~rawWasActive /\ rawActive > 0 => vframeInfo' = <<>>
      /\ rawWasActive => vframeInfo' = vframeInfo /\ curTexture' = curTexture
      /\ vframeInfo' \in {<<>>, vframeInfo} /\ curTexture' \in {0, curTexture}
  BY <1>1 DEF ClearFrameData, WasActive
<1>3. RawTypes'
  <2>1. session' \in Nat
    BY <1>1
  <2>2. curTexture' \in Textures /\ copied' \in [Textures -> Nat] /\ frame' \in Pending
    BY <1>0, <1>1, <1>2
  <2>3. vframeInfo' \in Seq(Note)
    BY <1>0, <1>2
  <2> QED
    BY <2>1, <2>2, <2>3
<1>4. RawInStep'
  <2>1. CASE rawWasActive /\ rawActive > 0
    BY <1>1, <1>2, <2>1 DEF RawInStep, Noted, PrevTexture
  <2>2. CASE ~rawWasActive /\ rawActive > 0
    BY <1>1, <1>2, <2>2 DEF RawInStep, Noted
  <2>3. CASE ~(rawActive > 0)
    BY <1>1, <2>3 DEF RawInStep
  <2> QED
    BY <2>1, <2>2, <2>3
<1> QED
  BY <1>3, <1>4

LEMMA OutputFrameRaw ==
    ASSUME TurnTypes, RawInv, OutputFrame
    PROVE  RawInv'
<1> USE DEF RawInv, RawTypes
<1>1. /\ loop = "render" /\ curTexture' = (curTexture + 1) % NumTextures
      /\ session' = session /\ rawWasActive' = rawWasActive /\ videoTime' = videoTime
      /\ copied' = IF rawWasActive THEN [copied EXCEPT ![curTexture] = videoTime] ELSE copied
  BY DEF OutputFrame
<1>2. curTexture' \in Textures /\ PrevTexture' = curTexture
  BY <1>1, NextTexture DEF PrevTexture
<1>3. copied' \in [Textures -> Nat] /\ (rawWasActive => copied'[PrevTexture'] = videoTime)
  BY <1>1, <1>2 DEF TurnTypes
<1>4. CASE FrameReady
  <2>1. /\ frame' = [time |-> Head(vframeInfo).time, picture |-> copied[PrevTexture],
                     session |-> session, count |-> Head(vframeInfo).count]
        /\ vframeInfo' = Tail(vframeInfo) /\ loop' = "output"
    BY <1>4 DEF OutputFrame
  <2>2. rawWasActive /\ Noted
    BY <1>1, <1>4, TextureBefore DEF FrameReady, RawInStep, NoPicture
  <2>3. vframeInfo # <<>> /\ Head(vframeInfo) = vframeInfo[1] /\ vframeInfo[1] \in Note
    <3>1. vframeInfo \in Seq(Note) /\ Len(vframeInfo) = 1
      BY <2>2 DEF Noted
    <3>0. Len(<<>>) = 0
      BY EmptySeq
    <3>2. vframeInfo # <<>>
      <4> SUFFICES ASSUME vframeInfo = <<>> PROVE FALSE
        OBVIOUS
      <4>1. Len(vframeInfo) = 0
        BY <3>0, Zenon
      <4> QED
        BY <3>1, <4>1
    <3>3. 1 \in 1..Len(vframeInfo)
      BY <3>1
    <3> QED
      BY <3>1, <3>2, <3>3, HeadTailProperties, ElementOfSeq
  <2>4. vframeInfo' \in Seq(Note) /\ Len(vframeInfo') = 0
    BY <2>1, <2>2, <2>3, HeadTailProperties DEF Noted
  <2>5. vframeInfo' = <<>>
    BY <2>4, EmptySeq
  <2>6. frame' \in Pending
    BY <2>1, <2>3, TextureBefore DEF Pending, Note
  <2>7. /\ frame'.picture = frame'.time /\ frame'.session = session
        /\ frame'.count > 0 /\ frame'.time + frame'.count = videoTime
    BY <2>1, <2>2, <2>3 DEF Noted, Note
  <2> QED
    BY <1>1, <1>2, <1>3, <2>1, <2>2, <2>4, <2>5, <2>6, <2>7 DEF RawInStep
<1>5. CASE ~FrameReady
  <2>1. loop' = "sleep" /\ UNCHANGED <<frame, vframeInfo>>
    BY <1>5 DEF OutputFrame
  <2>2. rawWasActive => vframeInfo = <<>>
    <3>1. ASSUME rawWasActive, Noted PROVE FALSE
      BY <1>1, <1>5, <3>1 DEF FrameReady, Noted, Note
    <3> QED
      BY <1>1, <3>1 DEF RawInStep
  <2> QED
    BY <1>1, <1>2, <1>3, <2>1, <2>2 DEF RawInStep
<1> QED
  BY <1>4, <1>5

LEMMA SleepRaw ==
    ASSUME TurnTypes, RawInv, Sleep
    PROVE  RawInv'
<1> USE DEF RawInv, RawTypes
<1>1. PICK lag \in 1..MaxLag :
          /\ videoTime' = videoTime + lag
          /\ vframeInfo' = IF rawWasActive
                           THEN Append(vframeInfo, [time |-> videoTime, count |-> lag])
                           ELSE vframeInfo
  BY DEF Sleep
<1>2. /\ loop = "sleep" /\ loop' \in {"ended", "start"}
      /\ UNCHANGED <<rawWasActive, session, curTexture, copied, frame>>
  BY DEF Sleep
<1>3. lag \in Nat \ {0} /\ [time |-> videoTime, count |-> lag] \in Note
  BY DEF TurnTypes, Note
<1>4. CASE rawWasActive
  <2>1. vframeInfo = <<>> /\ copied[PrevTexture] = videoTime
    BY <1>2, <1>4 DEF RawInStep
  <2>2. /\ vframeInfo' \in Seq(Note) /\ Len(vframeInfo') = 1
        /\ vframeInfo'[1] = [time |-> videoTime, count |-> lag]
    BY <1>1, <1>3, <1>4, <2>1, AppendProperties
  <2>3. vframeInfo'[1].time = videoTime /\ vframeInfo'[1].count = lag
    BY <2>2
  <2>4. PrevTexture' = PrevTexture /\ copied' = copied
    BY <1>2 DEF PrevTexture
  <2>5. Noted'
    BY <1>1, <1>3, <2>1, <2>2, <2>3, <2>4 DEF Noted, TurnTypes
  <2>6. loop' \in {"ended", "start"} /\ session' \in Nat /\ curTexture' \in Textures
        /\ copied' \in [Textures -> Nat] /\ frame' \in Pending
    BY <1>2
  <2> QED
    BY <2>2, <2>5, <2>6 DEF RawInStep
<1>5. CASE ~rawWasActive
  BY <1>1, <1>2, <1>5 DEF RawInStep
<1> QED
  BY <1>4, <1>5 DEF TurnTypes

LEMMA RawStep ==
    ASSUME TurnTypes, RawInv, [Next]_vars
    PROVE  RawInv'
<1>1. CASE LockFrame
  <2>1. /\ frame' = NoPending /\ loop' \in {"sleep", "unlock"} /\ loop = "output"
        /\ UNCHANGED <<session, curTexture, copied, vframeInfo, rawWasActive, videoTime>>
    BY <1>1 DEF LockFrame
  <2>2. frame' \in Pending
    BY <2>1 DEF NoPending, Pending
  <2> QED
    BY <2>1, <2>2 DEF RawInv, RawTypes, RawInStep, PrevTexture
<1>2. CASE UnlockOutput
  <2>1. loop' = "sleep" /\ loop = "unlock" /\ UNCHANGED <<rawVars, rawWasActive, videoTime>>
    BY <1>2 DEF UnlockOutput
  <2> QED
    BY <2>1 DEF RawInv, RawTypes, RawInStep, PrevTexture, rawVars
<1>3. CASE StartGpu \/ TakeTexture \/ GiveBackTexture
  BY <1>3, RawKept DEF StartGpu, TakeTexture, GiveBackTexture, turnVars
<1>4. CASE UNCHANGED graphicsVars
  BY <1>4, RawKept DEF graphicsVars, turnVars
<1> QED
  BY <1>1, <1>2, <1>3, <1>4, LoopStartRaw, OutputFrameRaw, SleepRaw DEF Next, Graphics, vars

LEMMA RawHolds == Spec => []RawInv
<1>1. Init => RawInv
  <2> SUFFICES ASSUME Init PROVE RawInv
    OBVIOUS
  <2>1. RawTypes
    BY TexturesAssumption, EmptySeq
       DEF Init, RawTypes, NoPicture, Textures, NoPending, Pending
  <2>2. RawInStep
    BY DEF Init, RawInStep
  <2> QED
    BY <2>1, <2>2 DEF RawInv
<1>2. ControlTypes /\ RawInv /\ [Next]_vars => RawInv'
  BY RawStep DEF ControlTypes
<1> QED
  BY <1>1, <1>2, ControlHolds, PTL DEF Spec

-----------------------------------------------------------------------------
(* Places in the ring.                                                     *)
LEMMA AtPlace ==
    ASSUME NEW f \in Slots, NEW i \in 0..CacheSize
    PROVE  /\ At(f, i) \in Slots
           /\ At(f, i) = IF f + i < CacheSize THEN f + i ELSE f + i - CacheSize
<1>1. CacheSize \in Nat /\ CacheSize > 0 /\ f \in Nat /\ f < CacheSize /\ i \in Nat
  BY OutputAssumption DEF Slots
<1>2. f + i < CacheSize => (f + i) % CacheSize = f + i
  BY <1>1
<1>3. f + i >= CacheSize => (f + i) % CacheSize = f + i - CacheSize
  BY <1>1
<1> QED
  BY <1>1, <1>2, <1>3 DEF At, Slots

LEMMA AtFirst == ASSUME NEW f \in Slots PROVE At(f, 0) = f
  BY AtPlace, OutputAssumption DEF Slots

LEMMA AtNext ==
    ASSUME NEW f \in Slots
    PROVE  /\ Following(f) = At(f, 1) /\ Following(f) \in Slots
           /\ \A i \in 0..(CacheSize - 1) :
                 /\ At(At(f, 1), i) = At(f, i + 1)
                 /\ Following(At(f, i)) = At(f, i + 1)
<1>0. CacheSize \in Nat /\ CacheSize > 0 /\ f \in Nat /\ f < CacheSize
  BY OutputAssumption DEF Slots
<1>1. \A g \in Slots : Following(g) = At(g, 1)
  BY DEF Following, At
<1>2. At(f, 1) \in Slots /\ At(f, 1) = IF f + 1 < CacheSize THEN f + 1 ELSE f + 1 - CacheSize
  BY <1>0, AtPlace
<1>3. ASSUME NEW i \in 0..(CacheSize - 1)
      PROVE  At(At(f, 1), i) = At(f, i + 1) /\ At(At(f, i), 1) = At(f, i + 1)
             /\ At(f, i) \in Slots
  <2>0. i \in Nat /\ i < CacheSize
    BY <1>0
  <2>1. At(f, i) \in Slots /\ At(f, i) = IF f + i < CacheSize THEN f + i ELSE f + i - CacheSize
    BY <1>0, AtPlace
  <2>2. At(f, i + 1) = IF f + i + 1 < CacheSize THEN f + i + 1 ELSE f + i + 1 - CacheSize
    BY <1>0, <2>0, AtPlace
  <2>3. At(At(f, 1), i) = IF At(f, 1) + i < CacheSize THEN At(f, 1) + i
                          ELSE At(f, 1) + i - CacheSize
    BY <1>0, <1>2, <2>0, AtPlace
  <2>4. At(At(f, i), 1) = IF At(f, i) + 1 < CacheSize THEN At(f, i) + 1
                          ELSE At(f, i) + 1 - CacheSize
    BY <1>0, <2>1, AtPlace
  <2>5. At(At(f, 1), i) = At(f, i + 1)
    BY <1>0, <1>2, <2>0, <2>2, <2>3
  <2>6. At(At(f, i), 1) = At(f, i + 1)
    BY <1>0, <2>0, <2>1, <2>2, <2>4
  <2> QED
    BY <2>1, <2>5, <2>6
<1> QED
  BY <1>1, <1>2, <1>3

LEMMA AtDistinct ==
    ASSUME NEW f \in Slots, NEW i \in 0..(CacheSize - 1), NEW j \in 0..(CacheSize - 1),
           At(f, i) = At(f, j)
    PROVE  i = j
<1>0. /\ CacheSize \in Nat /\ f \in Nat /\ f < CacheSize
      /\ i \in Nat /\ i < CacheSize /\ j \in Nat /\ j < CacheSize
  BY OutputAssumption DEF Slots
<1>1. /\ At(f, i) = IF f + i < CacheSize THEN f + i ELSE f + i - CacheSize
      /\ At(f, j) = IF f + j < CacheSize THEN f + j ELSE f + j - CacheSize
  BY <1>0, AtPlace
<1>2. (IF f + i < CacheSize THEN f + i ELSE f + i - CacheSize)
          = (IF f + j < CacheSize THEN f + j ELSE f + j - CacheSize)
  BY <1>1, Zenon
<1>3. CASE f + i < CacheSize
  BY <1>0, <1>2, <1>3
<1>4. CASE ~(f + i < CacheSize)
  BY <1>0, <1>2, <1>4
<1> QED
  BY <1>3, <1>4

(* The slot that is claimed is the one behind those in use.                *)
LEMMA FreeSlotIsNext ==
    ASSUME RingTypes, RingInStep, loop # "unlock", available # 0
    PROVE  /\ FreeSlot = At(firstAdded, Ready) /\ FreeSlot \in Slots
           /\ Ready \in 0..(CacheSize - 1) /\ Filled = Ready
<1>0. /\ firstAdded \in Slots /\ CacheSize \in Nat /\ available \in 1..CacheSize
      /\ Ready = CacheSize - available
  BY OutputAssumption DEF RingTypes, Ready
<1>1. Ready \in 0..(CacheSize - 1) /\ Filled = Ready
  BY <1>0 DEF Filled
<1>2. CASE available = CacheSize
  <2>1. Ready = 0 /\ lastAdded = firstAdded
    BY <1>0, <1>1, <1>2 DEF RingInStep
  <2> QED
    BY <1>0, <1>1, <1>2, <2>1, AtFirst DEF FreeSlot
<1>3. CASE available # CacheSize
  <2>1. Ready - 1 \in 0..(CacheSize - 1) /\ Ready # 0
    BY <1>0, <1>1, <1>3
  <2>2. lastAdded = At(firstAdded, Ready - 1)
    BY <1>1, <2>1 DEF RingInStep
  <2>3. Following(lastAdded) = At(firstAdded, Ready - 1 + 1) /\ Ready - 1 + 1 = Ready
    BY <1>0, <2>1, <2>2, AtNext
  <2>4. lastAdded \in Slots
    BY DEF RingTypes
  <2> QED
    BY <1>1, <1>3, <2>3, <2>4, AtNext DEF FreeSlot
<1> QED
  BY <1>2, <1>3

(* What becomes of a frame when it is lengthened and when it is handed out.*)
LEMMA FrameLengthened ==
    ASSUME NEW f \in Frame, NEW n \in Int, NEW g,
           g = [f EXCEPT !.count = @ + n, !.skipped = @ + n]
    PROVE  /\ g \in Frame /\ g.time = f.time /\ g.picture = f.picture
           /\ g.session = f.session /\ g.count = f.count + n /\ g.skipped = f.skipped + n
<1>1. f.count + n \in Int /\ f.skipped + n \in Int
  BY DEF Frame
<1>2. /\ g.time = f.time /\ g.picture = f.picture
      /\ g.session = f.session /\ g.count = f.count + n /\ g.skipped = f.skipped + n
  BY DEF Frame
<1>3. g = [time |-> f.time, picture |-> f.picture, session |-> f.session,
           count |-> f.count + n, skipped |-> f.skipped + n]
  BY DEF Frame
<1> QED
  BY <1>1, <1>2, <1>3 DEF Frame

LEMMA FrameRemaining ==
    ASSUME NEW f \in Frame, NEW g, g = Remaining(f)
    PROVE  /\ g \in Frame /\ g.time = f.time + 1 /\ g.picture = f.picture
           /\ g.session = f.session /\ g.count = f.count - 1
           /\ g.skipped = IF f.count # 1 /\ f.skipped > 0 THEN f.skipped - 1 ELSE f.skipped
<1> DEFINE skips == IF f.count # 1 /\ f.skipped > 0 THEN f.skipped - 1 ELSE f.skipped
<1>1. f.time + 1 \in Nat /\ f.count - 1 \in Int /\ skips \in Int
  BY DEF Frame
<1>2. g = [time |-> f.time + 1, picture |-> f.picture, session |-> f.session,
           count |-> f.count - 1, skipped |-> skips]
  BY DEF Frame, Remaining
<1> HIDE DEF skips
<1>3. /\ g \in Frame /\ g.time = f.time + 1 /\ g.picture = f.picture
      /\ g.session = f.session /\ g.count = f.count - 1 /\ g.skipped = skips
  BY <1>1, <1>2 DEF Frame
<1> QED
  BY <1>3 DEF skips

RingInv == RingTypes /\ ThreadInStep /\ RingInStep

LEMMA RingKept ==
    ASSUME RingInv, UNCHANGED <<ring, posts, stop, videoThread, inputOwner>>,
           loop' = "unlock" <=> loop = "unlock"
    PROVE  RingInv'
<1>1. Filled' = Filled /\ Ready' = Ready /\ RingTypes' /\ Busy' = Busy
  BY DEF Filled, Ready, ring, videoThread, RingInv, RingTypes, Busy
<1>2. ThreadInStep'
  BY <1>1 DEF RingInv, ThreadInStep, ring, videoThread, Busy
<1>3. RingInStep'
  BY <1>1 DEF RingInv, RingInStep, ring, At
<1> QED
  BY <1>1, <1>2, <1>3 DEF RingInv

LEMMA LockFrameRing ==
    ASSUME ThreadTypes, RawTypes, RawInStep, RingInv, LockFrame
    PROVE  RingInv'
<1> USE DEF RingInv
<1>0. /\ loop = "output" /\ frame \in Pending
      /\ UNCHANGED <<firstAdded, available, posts, stop, thread, frameInfo, turn, inputOwner>>
  BY DEF LockFrame, RawTypes, videoThread
<1>1. Ready' = Ready /\ ThreadInStep'
  BY <1>0 DEF Ready, ThreadInStep, Busy
<1>2. CASE MergeFrame(frame.count) /\ loop' = "sleep"
  <2>1. lastAdded' = lastAdded /\ lastAdded \in Slots
    BY <1>2 DEF MergeFrame, RingTypes
  <2>2. cache' = [cache EXCEPT ![lastAdded] =
                     [cache[lastAdded] EXCEPT !.count = @ + frame.count,
                                              !.skipped = @ + frame.count]]
    BY <1>2, <2>1 DEF MergeFrame, RingTypes, Frame
  <2>3. [cache[lastAdded] EXCEPT !.count = @ + frame.count,
                                 !.skipped = @ + frame.count] \in Frame
    <3>1. cache[lastAdded] \in Frame /\ frame.count \in Int
      BY <1>0, <2>1 DEF RingTypes, Pending
    <3> QED
      BY <3>1, FrameLengthened
  <2>4. RingTypes'
    BY <1>0, <2>1, <2>2, <2>3 DEF RingTypes
  <2>5. Filled' = Filled
    BY <1>0, <1>1, <1>2 DEF Filled
  <2>6. RingInStep'
    BY <1>0, <2>1, <2>5 DEF RingInStep, At
  <2> QED
    BY <1>1, <2>4, <2>6
<1>3. CASE ClaimFrame(frame, frame.count) /\ loop' = "unlock"
  <2>1. /\ FreeSlot = At(firstAdded, Ready) /\ FreeSlot \in Slots
        /\ Ready \in 0..(CacheSize - 1) /\ Filled = Ready
    BY <1>0, <1>3, FreeSlotIsNext DEF ClaimFrame
  <2>2. lastAdded' = FreeSlot /\ cache' = [cache EXCEPT ![FreeSlot] =
             [time |-> frame.time, picture |-> frame.picture,
              session |-> frame.session, count |-> frame.count, skipped |-> 0]]
    BY <1>3 DEF ClaimFrame
  <2>3. [time |-> frame.time, picture |-> frame.picture,
         session |-> frame.session, count |-> frame.count, skipped |-> 0] \in Frame
    BY <1>0 DEF Frame, Pending
  <2>4. RingTypes'
    BY <1>0, <2>1, <2>2, <2>3 DEF RingTypes
  <2>5. Filled' = Ready + 1
    BY <1>1, <1>3, <2>1 DEF Filled
  <2>6. CacheSize \in Nat /\ Ready + 1 - 1 = Ready /\ Ready + 1 <= CacheSize /\ Ready + 1 # 0
    BY <2>1, OutputAssumption
  <2>7. RingInStep'
    BY <1>0, <2>1, <2>2, <2>5, <2>6 DEF RingInStep, At
  <2> QED
    BY <1>1, <2>4, <2>7
<1> QED
  BY <1>2, <1>3 DEF LockFrame

LEMMA UnlockOutputRing ==
    ASSUME ThreadTypes, RingInv, UnlockOutput
    PROVE  RingInv'
<1> USE DEF RingInv
<1>0. /\ loop = "unlock" /\ loop' = "sleep" /\ available' = available - 1
      /\ posts' = posts + 1
      /\ UNCHANGED <<cache, firstAdded, lastAdded, stop, thread, frameInfo, turn, inputOwner>>
  BY DEF UnlockOutput, UnlockFrame, videoThread
<1>1. CacheSize \in Nat /\ available \in 0..CacheSize /\ Ready + 1 <= CacheSize
  BY <1>0, OutputAssumption DEF RingTypes, RingInStep, Filled
<1>2. Ready' = Ready + 1 /\ Filled' = Filled /\ available' \in 0..CacheSize
  BY <1>0, <1>1 DEF Ready, Filled
<1>3. Ready \in Nat /\ posts \in Nat
  BY <1>1 DEF Ready, ThreadTypes
<1>4. ThreadInStep'
  BY <1>0, <1>2, <1>3 DEF ThreadInStep, Busy
<1>5. RingTypes'
  BY <1>0, <1>2 DEF RingTypes
<1>6. RingInStep'
  BY <1>0, <1>2 DEF RingInStep, At
<1> QED
  BY <1>4, <1>5, <1>6

LEMMA FinishFrameRing ==
    ASSUME ThreadTypes, RingInv, FinishFrame, loop' = loop
    PROVE  RingInv'
<1> USE DEF RingInv
<1> DEFINE rest == Remaining(cache[frameInfo])
<1>0. /\ thread = "calling" /\ inputOwner' = "none" /\ turn' = 1
      /\ UNCHANGED <<posts, stop, frameInfo>>
      /\ frameInfo = firstAdded /\ firstAdded \in Slots /\ Ready > 0
      /\ inputOwner = "videoThread"
  BY DEF FinishFrame, RingTypes, ThreadInStep, Busy
<1>1. /\ CacheSize \in Nat /\ available \in 0..CacheSize /\ Ready = CacheSize - available
      /\ Filled \in Int /\ Filled <= CacheSize
  BY OutputAssumption DEF RingTypes, Ready, RingInStep, Filled
<1>2. CASE rest.count = 0
  <2>1. /\ cache' = [cache EXCEPT ![frameInfo] = EmptySlot]
        /\ thread' = "waiting" /\ ReleaseSlot
    BY <1>2 DEF FinishFrame
  <2>2. EmptySlot \in Frame
    BY DEF EmptySlot, Frame
  <2>3. cache' \in [Slots -> Frame]
    BY <2>1, <2>2 DEF RingTypes
  <2>4. /\ firstAdded' = At(firstAdded, 1) /\ firstAdded' \in Slots
        /\ available' = available + 1
        /\ lastAdded' = IF available + 1 = CacheSize THEN firstAdded' ELSE lastAdded
    BY <1>0, <2>1, AtNext DEF ReleaseSlot
  <2>5. available' \in 0..CacheSize /\ Ready' = Ready - 1 /\ Filled' = Filled - 1
    BY <1>0, <1>1, <2>4 DEF Ready, Filled
  <2>6. RingTypes'
    BY <1>0, <2>3, <2>4, <2>5 DEF RingTypes
  <2>7. ThreadInStep'
    BY <1>0, <1>1, <2>1, <2>5 DEF ThreadInStep, Busy, ThreadTypes
  <2>8. RingInStep'
    <3>1. Filled' <= CacheSize
      BY <1>0, <1>1, <2>5 DEF RingInStep, Filled
    <3>2. CASE Ready' = 0
      <4>1. lastAdded' = firstAdded' /\ Filled' \in {0, 1}
        BY <1>1, <2>4, <2>5, <3>2 DEF Filled
      <4>2. At(firstAdded', 0) = firstAdded'
        BY <2>4, AtFirst
      <4> QED
        BY <3>1, <4>1, <4>2 DEF RingInStep, At
    <3>3. CASE Ready' # 0
      <4>1. lastAdded' = lastAdded /\ Filled - 1 \in 1..(CacheSize - 1) /\ Filled # 0
        BY <1>0, <1>1, <2>4, <2>5, <3>1, <3>3 DEF Filled
      <4>2. lastAdded = At(firstAdded, Filled - 1)
        BY <4>1 DEF RingInStep
      <4>3. Filled - 2 \in 0..(CacheSize - 1) /\ Filled - 2 + 1 = Filled - 1
            /\ Filled - 1 - 1 = Filled - 2 /\ Filled - 1 # 0
        BY <1>1, <4>1
      <4>4. At(At(firstAdded, 1), Filled - 2) = At(firstAdded, Filled - 1)
        BY <1>0, <4>3, AtNext
      <4> QED
        BY <2>4, <2>5, <3>1, <4>1, <4>2, <4>3, <4>4 DEF RingInStep, At
    <3> QED
      BY <3>2, <3>3
  <2> QED
    BY <2>6, <2>7, <2>8
<1>3. CASE rest.count # 0
  <2>1. /\ cache' = [cache EXCEPT ![frameInfo] = rest]
        /\ thread' = "sameFrame" /\ UNCHANGED <<firstAdded, lastAdded, available>>
    BY <1>3 DEF FinishFrame
  <2>2. rest \in Frame
    BY <1>0, FrameRemaining DEF RingTypes
  <2>3. RingTypes'
    BY <1>0, <2>1, <2>2 DEF RingTypes
  <2>4. Ready' = Ready /\ Filled' = Filled
    BY <2>1 DEF Ready, Filled
  <2>5. ThreadInStep'
    BY <1>0, <2>1, <2>4 DEF ThreadInStep, Busy
  <2>6. RingInStep'
    BY <2>1, <2>4 DEF RingInStep, At
  <2> QED
    BY <2>3, <2>5, <2>6
<1> QED
  BY <1>2, <1>3

LEMMA RingStep ==
    ASSUME ThreadTypes, RawInv, RingInv, [Next]_vars
    PROVE  RingInv'
<1> USE DEF RingInv
<1>1. CASE LoopStart \/ OutputFrame \/ Sleep \/ StartGpu \/ TakeTexture \/ GiveBackTexture
  BY <1>1, RingKept DEF LoopStart, OutputFrame, Sleep, StartGpu, TakeTexture,
       GiveBackTexture, outputVars, turnVars
<1>2. CASE (Woken \/ SameFrame) /\ UNCHANGED graphicsVars
  <2>1. /\ UNCHANGED <<cache, firstAdded, lastAdded, available, loop, stop, turn>>
        /\ Ready' = Ready /\ Filled' = Filled
    BY <1>2 DEF Woken, SameFrame, ring, graphicsVars, turnVars, Ready, Filled
  <2>2. /\ CacheSize \in Nat /\ available \in 0..CacheSize /\ Ready = CacheSize - available
        /\ posts \in Nat
    BY OutputAssumption DEF RingTypes, Ready, ThreadTypes
  <2>3. frameInfo' \in Slots
    BY <1>2 DEF Woken, SameFrame, BeginCalls, RingTypes
  <2>4. RingTypes' /\ RingInStep'
    BY <2>1, <2>3 DEF RingTypes, RingInStep, At
  <2>5. ASSUME Woken PROVE ThreadInStep'
    <3>1. thread = "waiting" /\ posts > 0 /\ posts' = posts - 1
      BY <2>5 DEF Woken
    <3>2. CASE stop = "no"
      <4>1. frameInfo' = firstAdded /\ inputOwner' = "videoThread" /\ thread' = "calling"
        BY <2>5, <3>2 DEF Woken, BeginCalls
      <4>2. Ready = posts /\ turn = 1
        BY <3>1, <3>2 DEF ThreadInStep, Busy
      <4>3. Busy' /\ posts' = Ready' - 1 /\ Ready' > 0 /\ stop' = "no"
        BY <2>1, <2>2, <3>1, <3>2, <4>1, <4>2 DEF Busy
      <4>4. frameInfo' = firstAdded' /\ thread' # "gone" /\ turn' = turn
        BY <2>1, <4>1
      <4> QED
        BY <4>1, <4>3, <4>4 DEF ThreadInStep
    <3>3. CASE stop # "no"
      <4>1. thread' = "gone" /\ UNCHANGED <<frameInfo, inputOwner>>
        BY <2>5, <3>3 DEF Woken
      <4>2. ~Busy' /\ turn' = 1 /\ inputOwner' # "videoThread" /\ stop' # "no"
        BY <2>1, <3>1, <3>3, <4>1 DEF ThreadInStep, Busy
      <4> QED
        BY <4>1, <4>2 DEF ThreadInStep
    <3> QED
      BY <3>2, <3>3
  <2>6. ASSUME SameFrame PROVE ThreadInStep'
    <3>1. thread = "sameFrame" /\ posts' = posts
      BY <2>6 DEF SameFrame
    <3>2. CASE stop = "no"
      <4>1. frameInfo' = firstAdded /\ inputOwner' = "videoThread" /\ thread' = "calling"
        BY <2>6, <3>2 DEF SameFrame, BeginCalls
      <4>2. Busy /\ posts = Ready - 1 /\ Ready > 0
        BY <3>1, <3>2 DEF ThreadInStep, Busy
      <4>3. Busy' /\ posts' = Ready' - 1 /\ Ready' > 0 /\ stop' = "no"
        BY <2>1, <3>1, <3>2, <4>1, <4>2 DEF Busy
      <4>4. frameInfo' = firstAdded' /\ thread' # "gone"
        BY <2>1, <4>1
      <4> QED
        BY <4>1, <4>3, <4>4 DEF ThreadInStep
    <3>3. CASE stop # "no"
      <4>1. thread' = "waiting" /\ UNCHANGED <<frameInfo, inputOwner>>
        BY <2>6, <3>3 DEF SameFrame
      <4>2. /\ ~Busy' /\ turn' = 1 /\ inputOwner' # "videoThread" /\ stop' # "no"
            /\ thread # "gone" /\ stop' = stop
        BY <2>1, <3>1, <3>3, <4>1 DEF ThreadInStep, Busy
      <4>3. stop = "requested" => posts > 0
        BY <4>2 DEF ThreadInStep
      <4> QED
        BY <3>1, <4>1, <4>2, <4>3 DEF ThreadInStep
    <3> QED
      BY <3>2, <3>3
  <2>7. ThreadInStep'
    BY <1>2, <2>5, <2>6
  <2> QED
    BY <2>4, <2>7
<1>3. CASE CallInput /\ UNCHANGED graphicsVars
  <2>1. /\ UNCHANGED <<ring, loop, stop, posts, thread, frameInfo, inputOwner>>
        /\ thread = "calling" /\ Ready' = Ready /\ Filled' = Filled
    BY <1>3 DEF CallInput, ring, graphicsVars, turnVars, Ready, Filled
  <2>2. RingTypes' /\ RingInStep' /\ ThreadInStep'
    BY <2>1 DEF ring, RingTypes, RingInStep, ThreadInStep, Busy, At
  <2> QED
    BY <2>2
<1>4. CASE FinishFrame /\ UNCHANGED graphicsVars
  BY <1>4, FinishFrameRing DEF graphicsVars, turnVars
<1>5. CASE (StopOutput \/ Joined) /\ UNCHANGED graphicsVars
  <2>1. /\ UNCHANGED <<ring, videoThread, inputOwner, loop>>
        /\ Ready' = Ready /\ Filled' = Filled
    BY <1>5 DEF StopOutput, Joined, ring, graphicsVars, turnVars, Ready, Filled
  <2>2. RingTypes' /\ RingInStep'
    BY <2>1 DEF ring, videoThread, RingTypes, RingInStep, At
  <2>3. /\ CacheSize \in Nat /\ available \in 0..CacheSize /\ Ready = CacheSize - available
        /\ posts \in Nat
    BY OutputAssumption DEF RingTypes, Ready, ThreadTypes
  <2>4. ThreadInStep'
    <3>1. /\ UNCHANGED <<thread, frameInfo, turn, inputOwner, firstAdded>>
          /\ Busy' = Busy
      BY <2>1 DEF ring, videoThread, Busy
    <3>2. CASE StopOutput
      <4>1. stop = "no" /\ stop' = "requested" /\ posts' = posts + 1 /\ posts' > 0
        BY <2>3, <3>2 DEF StopOutput
      <4> QED
        BY <2>1, <3>1, <4>1 DEF ThreadInStep
    <3>3. CASE Joined
      <4>1. stop' = "joined"
        BY <3>3 DEF Joined
      <4> QED
        BY <2>1, <3>1, <4>1 DEF ThreadInStep
    <3> QED
      BY <1>5, <3>2, <3>3
  <2> QED
    BY <2>2, <2>4
<1>6. CASE (\E c \in Consumers : User(c)) /\ UNCHANGED graphicsVars
  BY <1>6, RingKept DEF User, StartRaw, Connect, StopRaw, Disconnect, graphicsVars, turnVars
<1>7. CASE UNCHANGED vars
  BY <1>7, RingKept DEF vars, outputVars, graphicsVars, turnVars
<1> QED
  BY <1>1, <1>2, <1>3, <1>4, <1>5, <1>6, <1>7, LockFrameRing, UnlockOutputRing
     DEF Next, Graphics, VideoThread, RawInv

LEMMA RingHolds == Spec => []RingInv
<1>1. Init => RingInv
  <2> SUFFICES ASSUME Init PROVE RingInv
    OBVIOUS
  <2>1. CacheSize \in Nat /\ CacheSize > 0 /\ 0 \in Slots
    BY OutputAssumption DEF Slots
  <2>2. /\ available = CacheSize /\ firstAdded = 0 /\ lastAdded = 0 /\ frameInfo = 0
        /\ posts = 0 /\ stop = "no" /\ thread = "waiting" /\ turn = 1
        /\ inputOwner = "none" /\ loop = "start"
        /\ cache = [s \in Slots |-> EmptySlot]
    BY DEF Init, OutputInit
  <2>3. RingTypes
    BY <2>1, <2>2 DEF RingTypes, EmptySlot, Frame
  <2>4. Ready = 0 /\ Filled = 0
    BY <2>1, <2>2 DEF Ready, Filled
  <2>5. ThreadInStep /\ RingInStep
    <3>1. ~Busy
      BY <2>2 DEF Busy
    <3> QED
      BY <2>1, <2>2, <2>4, <3>1 DEF ThreadInStep, RingInStep
  <2> QED
    BY <2>3, <2>5 DEF RingInv
<1>2. ControlTypes /\ RawInv /\ RingInv /\ [Next]_vars => RingInv'
  BY RingStep DEF ControlTypes
<1> QED
  BY <1>1, <1>2, ControlHolds, RawHolds, PTL DEF Spec

-----------------------------------------------------------------------------
(* What a step does to the frames in use.                                  *)
LEMMA InUseTyped ==
    ASSUME RingTypes, RingInStep, NEW i \in 0..(Filled - 1)
    PROVE  InUse(i) \in Frame /\ i \in 0..(CacheSize - 1) /\ At(firstAdded, i) \in Slots
<1>1. i \in Nat /\ i < CacheSize /\ CacheSize \in Nat
  BY OutputAssumption DEF RingTypes, RingInStep, Filled, Ready
<1>2. At(firstAdded, i) \in Slots
  BY <1>1, AtPlace DEF RingTypes
<1> QED
  BY <1>1, <1>2 DEF InUse, RingTypes

FillCounted ==
    /\ CacheSize \in Nat /\ CacheSize > 0 /\ available \in 0..CacheSize
    /\ Ready = CacheSize - available /\ Ready \in Nat
    /\ Filled \in Nat /\ Filled <= CacheSize
    /\ loop = "unlock" => Filled = Ready + 1
    /\ loop # "unlock" => Filled = Ready

LEMMA FillCounts == ASSUME RingTypes, RingInStep PROVE FillCounted
  BY OutputAssumption DEF RingTypes, RingInStep, Filled, Ready, FillCounted

(* Only the lock of a frame and the end of its calls change the frames.    *)
LEMMA OthersKeepFrames ==
    ASSUME RingTypes, RingInStep, [Next]_vars
    PROVE  \/ LockFrame
           \/ FinishFrame /\ UNCHANGED graphicsVars
           \/ cache' = cache /\ firstAdded' = firstAdded /\ Filled' = Filled
<1>1. CASE LoopStart \/ OutputFrame \/ Sleep \/ StartGpu \/ TakeTexture \/ GiveBackTexture
  BY <1>1 DEF LoopStart, OutputFrame, Sleep, StartGpu, TakeTexture, GiveBackTexture,
       outputVars, turnVars, ring, Filled, Ready
<1>2. CASE UnlockOutput
  BY <1>2, FillCounts DEF UnlockOutput, UnlockFrame, Filled, Ready, FillCounted
<1>3. CASE (Woken \/ SameFrame \/ CallInput \/ StopOutput \/ Joined) /\ UNCHANGED graphicsVars
  BY <1>3 DEF Woken, SameFrame, CallInput, StopOutput, Joined, ring, graphicsVars, turnVars,
       Filled, Ready
<1>4. CASE (\E c \in Consumers : User(c)) /\ UNCHANGED graphicsVars
  BY <1>4 DEF User, StartRaw, Connect, StopRaw, Disconnect, ring, graphicsVars, turnVars,
       Filled, Ready
<1>5. CASE UNCHANGED vars
  BY <1>5 DEF vars, outputVars, ring, graphicsVars, turnVars, Filled, Ready
<1> QED
  BY <1>1, <1>2, <1>3, <1>4, <1>5 DEF Next, Graphics, VideoThread

LEMMA FramesKept ==
    ASSUME cache' = cache, firstAdded' = firstAdded
    PROVE  \A i : InUse(i)' = InUse(i)
  BY DEF InUse, At

Claimed(f) ==
    /\ loop' = "unlock" /\ Filled' = Filled + 1
    /\ \A i \in 0..(Filled - 1) : InUse(i)' = InUse(i)
    /\ \A i \in {Filled} :
          InUse(i)' = [time |-> f.time, picture |-> f.picture, session |-> f.session,
                       count |-> f.count, skipped |-> 0]

Merged(f) ==
    /\ loop' = "sleep" /\ Filled' = Filled /\ Filled = CacheSize
    /\ \A i \in 0..(Filled - 2) : InUse(i)' = InUse(i)
    /\ \A i \in {Filled - 1} :
          InUse(i)' = [InUse(i) EXCEPT !.count = @ + f.count, !.skipped = @ + f.count]

LEMMA LockedFrames ==
    ASSUME RawTypes, RingTypes, RingInStep, LockFrame
    PROVE  (Claimed(frame) \/ Merged(frame)) /\ Ready' = Ready /\ firstAdded' = firstAdded
<1>0. /\ loop = "output" /\ frame \in Pending /\ cache \in [Slots -> Frame]
      /\ firstAdded' = firstAdded /\ available' = available /\ firstAdded \in Slots
      /\ Ready' = Ready
  BY DEF LockFrame, RawTypes, RingTypes, Ready
<1>1. FillCounted /\ Filled = Ready
  BY <1>0, FillCounts DEF FillCounted
<1>2. CASE MergeFrame(frame.count) /\ loop' = "sleep"
  <2>1. Filled = CacheSize /\ Filled' = Filled
    BY <1>0, <1>1, <1>2 DEF MergeFrame, FillCounted, Filled
  <2>2. lastAdded = At(firstAdded, Filled - 1) /\ lastAdded \in Slots
    BY <1>1, <2>1 DEF RingInStep, RingTypes, FillCounted
  <2>3. cache' = [cache EXCEPT ![lastAdded] =
                     [cache[lastAdded] EXCEPT !.count = @ + frame.count,
                                              !.skipped = @ + frame.count]]
    BY <1>0, <1>2, <2>2 DEF MergeFrame, Frame
  <2>4. ASSUME NEW i \in {Filled - 1}
        PROVE  InUse(i)' = [InUse(i) EXCEPT !.count = @ + frame.count,
                                            !.skipped = @ + frame.count]
    <3>1. InUse(i)' = cache'[At(firstAdded, i)]
      BY <1>0 DEF InUse, At
    <3> QED
      BY <1>0, <2>2, <2>3, <3>1 DEF InUse
  <2>5. ASSUME NEW i \in 0..(Filled - 2)
        PROVE  InUse(i)' = InUse(i)
    <3>1. i \in 0..(CacheSize - 1) /\ Filled - 1 \in 0..(CacheSize - 1) /\ i # Filled - 1
      BY <1>1, <2>1 DEF FillCounted
    <3>2. At(firstAdded, i) # lastAdded
      BY <1>0, <2>2, <3>1, AtDistinct
    <3>3. At(firstAdded, i) \in Slots
      BY <1>0, <1>1, <3>1, AtPlace DEF FillCounted
    <3>4. InUse(i)' = cache'[At(firstAdded, i)]
      BY <1>0 DEF InUse, At
    <3> QED
      BY <1>0, <2>3, <3>2, <3>3, <3>4 DEF InUse
  <2> QED
    BY <1>0, <1>2, <2>1, <2>4, <2>5 DEF Merged
<1>3. CASE ClaimFrame(frame, frame.count) /\ loop' = "unlock"
  <2>1. FreeSlot = At(firstAdded, Filled) /\ FreeSlot \in Slots /\ Filled \in 0..(CacheSize - 1)
    BY <1>0, <1>1, <1>3, FreeSlotIsNext DEF ClaimFrame
  <2>2. cache' = [cache EXCEPT ![FreeSlot] =
             [time |-> frame.time, picture |-> frame.picture,
              session |-> frame.session, count |-> frame.count, skipped |-> 0]]
    BY <1>3 DEF ClaimFrame
  <2>3. Filled' = Filled + 1
    BY <1>0, <1>1, <1>3 DEF Filled
  <2>5. \A i : InUse(i)' = cache'[At(firstAdded, i)]
    BY <1>0 DEF InUse, At
  <2>6. ASSUME NEW i \in 0..(Filled - 1)
        PROVE  InUse(i)' = InUse(i)
    <3>1. i \in 0..(CacheSize - 1) /\ i # Filled
      BY <1>1, <2>1 DEF FillCounted
    <3>2. At(firstAdded, i) # FreeSlot
      BY <1>0, <2>1, <3>1, AtDistinct
    <3>3. At(firstAdded, i) \in Slots
      BY <1>0, <1>1, <3>1, AtPlace DEF FillCounted
    <3> QED
      BY <1>0, <2>2, <2>5, <3>2, <3>3 DEF InUse
  <2>7. \A i \in {Filled} :
            InUse(i)' = [time |-> frame.time, picture |-> frame.picture,
                         session |-> frame.session, count |-> frame.count, skipped |-> 0]
    BY <1>0, <2>1, <2>2, <2>5
  <2>8. Claimed(frame)
    BY <1>3, <2>3, <2>6, <2>7 DEF Claimed
  <2> QED
    BY <1>0, <2>8
<1> QED
  BY <1>0, <1>2, <1>3 DEF LockFrame

Released ==
    /\ Filled' = Filled - 1 /\ Ready' = Ready - 1
    /\ InUse(0).count = 1
    /\ \A i \in 0..(Filled - 2) : InUse(i)' = InUse(i + 1)

HandedOut ==
    /\ Filled' = Filled /\ Ready' = Ready
    /\ InUse(0).count # 1 /\ InUse(0)' = Remaining(InUse(0))
    /\ \A i \in 1..(Filled - 1) : InUse(i)' = InUse(i)

LEMMA FinishedFrames ==
    ASSUME RingInv, FinishFrame, loop' = loop
    PROVE  /\ Released \/ HandedOut
           /\ 0 \in 0..(Filled - 1) /\ InUse(0) = cache[frameInfo] /\ Ready > 0
<1>0. /\ thread = "calling" /\ frameInfo = firstAdded /\ firstAdded \in Slots /\ Ready > 0
      /\ cache \in [Slots -> Frame]
  BY DEF FinishFrame, RingInv, RingTypes, ThreadInStep, Busy
<1>1. FillCounted
  BY FillCounts DEF RingInv
<1>2. At(firstAdded, 0) = firstAdded /\ InUse(0) = cache[frameInfo]
  BY <1>0, AtFirst DEF InUse
<1>3. 0 \in 0..(Filled - 1) /\ Filled >= 1
  BY <1>0, <1>1 DEF FillCounted
<1>4. cache[frameInfo] \in Frame
  BY <1>0
<1>5. Remaining(cache[frameInfo]).count = cache[frameInfo].count - 1
      /\ cache[frameInfo].count \in Int
  BY <1>4, FrameRemaining DEF Frame
<1>6. ASSUME NEW i \in 1..(Filled - 1)
      PROVE  /\ At(firstAdded, i) # firstAdded /\ At(firstAdded, i) \in Slots
             /\ i \in 0..(CacheSize - 1)
  <2>1. i \in 0..(CacheSize - 1) /\ 0 \in 0..(CacheSize - 1) /\ i # 0 /\ i \in 0..CacheSize
    BY <1>1 DEF FillCounted
  <2>2. At(firstAdded, i) # firstAdded
    BY <1>0, <1>2, <2>1, AtDistinct
  <2> QED
    BY <1>0, <2>1, <2>2, AtPlace
<1>7. CASE Remaining(cache[frameInfo]).count = 0
  <2>1. /\ cache' = [cache EXCEPT ![frameInfo] = EmptySlot] /\ ReleaseSlot
    BY <1>7 DEF FinishFrame
  <2>2. firstAdded' = At(firstAdded, 1) /\ available' = available + 1
    BY <1>0, <2>1, AtNext DEF ReleaseSlot
  <2>3. Ready' = Ready - 1 /\ Filled' = Filled - 1
    BY <1>1, <2>2 DEF Ready, Filled, FillCounted
  <2>4. ASSUME NEW i \in 0..(Filled - 2)
        PROVE  InUse(i)' = InUse(i + 1)
    <3>1. i + 1 \in 1..(Filled - 1) /\ i \in 0..(CacheSize - 1)
      BY <1>1 DEF FillCounted
    <3>2. InUse(i)' = cache'[At(firstAdded', i)]
      BY DEF InUse, At
    <3>3. At(firstAdded', i) = At(firstAdded, i + 1)
      BY <1>0, <2>2, <3>1, AtNext
    <3>4. cache'[At(firstAdded, i + 1)] = cache[At(firstAdded, i + 1)]
      BY <1>0, <1>6, <2>1, <3>1
    <3> QED
      BY <3>2, <3>3, <3>4 DEF InUse
  <2>5. InUse(0).count = 1
    BY <1>2, <1>5, <1>7
  <2> QED
    BY <1>0, <1>2, <1>3, <2>3, <2>4, <2>5 DEF Released
<1>8. CASE Remaining(cache[frameInfo]).count # 0
  <2>1. /\ cache' = [cache EXCEPT ![frameInfo] = Remaining(cache[frameInfo])]
        /\ UNCHANGED <<firstAdded, available>>
    BY <1>8 DEF FinishFrame
  <2>2. Ready' = Ready /\ Filled' = Filled
    BY <2>1 DEF Ready, Filled
  <2>3. \A i : InUse(i)' = cache'[At(firstAdded, i)]
    BY <2>1 DEF InUse, At
  <2>4. InUse(0)' = Remaining(InUse(0))
    BY <1>0, <1>2, <2>1, <2>3
  <2>5. ASSUME NEW i \in 1..(Filled - 1)
        PROVE  InUse(i)' = InUse(i)
    BY <1>0, <1>6, <2>1, <2>3 DEF InUse
  <2>6. InUse(0).count # 1
    BY <1>2, <1>5, <1>8
  <2>7. HandedOut
    BY <2>2, <2>4, <2>5, <2>6 DEF HandedOut
  <2> QED
    BY <1>0, <1>2, <1>3, <2>7
<1> QED
  BY <1>7, <1>8

-----------------------------------------------------------------------------
(* Times of pictures.                                                      *)
LEMMA SeenMoves ==
    ASSUME [Next]_vars
    PROVE  CallInput \/ (\E c \in Consumers : User(c)) \/ seen' = seen
  BY DEF Next, Graphics, LoopStart, OutputFrame, LockFrame, UnlockOutput, Sleep, StartGpu,
       TakeTexture, GiveBackTexture, VideoThread, Woken, SameFrame, FinishFrame, StopOutput,
       Joined, vars, outputVars

LEMMA SeenTyped ==
    ASSUME SeenTypes, RingTypes, UserTypes, ThreadTypes, [Next]_vars
    PROVE  SeenTypes'
<1>1. CASE CallInput
  <2>1. /\ seen' = [seen EXCEPT ![inputs[turn]] =
                      [time |-> cache[frameInfo].time, picture |-> cache[frameInfo].picture,
                       session |-> cache[frameInfo].session]]
        /\ turn <= Len(inputs)
    BY <1>1 DEF CallInput
  <2>2. cache[frameInfo] \in Frame
    BY DEF RingTypes
  <2>3. [time |-> cache[frameInfo].time, picture |-> cache[frameInfo].picture,
         session |-> cache[frameInfo].session] \in Given
    BY <2>2 DEF Frame, Given
  <2> QED
    BY <2>1, <2>3 DEF SeenTypes
<1>2. CASE \E c \in Consumers : User(c)
  <2>1. PICK c \in Consumers : User(c)
    BY <1>2
  <2>2. seen' = seen \/ seen' = [seen EXCEPT ![c] = NoFrame]
    BY <2>1 DEF User, StartRaw, Connect, StopRaw, Disconnect
  <2> QED
    BY <2>2 DEF SeenTypes, NoFrame, Given
<1>3. CASE seen' = seen
  BY <1>3 DEF SeenTypes
<1> QED
  BY <1>1, <1>2, <1>3, SeenMoves

LEMMA RemainingIsSound ==
    ASSUME NEW f \in Frame, Sound(f), f.count # 1
    PROVE  Sound(Remaining(f))
<1> DEFINE g == Remaining(f)
<1>1. /\ g.time = f.time + 1 /\ g.picture = f.picture /\ g.count = f.count - 1
      /\ g.skipped = IF f.count # 1 /\ f.skipped > 0 THEN f.skipped - 1 ELSE f.skipped
  BY FrameRemaining
<1>2. f.time \in Nat /\ f.picture \in Nat /\ f.count \in Int /\ f.skipped \in Int
  BY DEF Frame
<1> HIDE DEF g
<1>3. g.picture <= g.time /\ g.skipped >= 0 /\ g.count > g.skipped
  BY <1>1, <1>2 DEF Sound
<1> QED
  BY <1>3 DEF Sound, g

LEMMA FramesStaySound ==
    ASSUME RawInv, RingInv, FramesSound, [Next]_vars
    PROVE  FramesSound'
<1> USE DEF RawInv, RingInv
<1>1. FillCounted
  BY FillCounts
<1>2. CASE LockFrame
  <2>0. /\ frame \in Pending /\ frame.picture = frame.time /\ frame.count > 0
    BY <1>2 DEF RawTypes, RawInStep, LockFrame
  <2>1. CASE Claimed(frame)
    <3> SUFFICES ASSUME NEW i \in 0..(Filled' - 1) PROVE Sound(InUse(i)')
      BY DEF FramesSound, Sound
    <3>1. i \in 0..(Filled - 1) \/ i = Filled
      BY <1>1, <2>1 DEF Claimed, FillCounted
    <3>2. CASE i \in 0..(Filled - 1)
      BY <2>1, <3>2 DEF Claimed, FramesSound, Sound
    <3>3. CASE i = Filled
      <4>1. InUse(i)' = [time |-> frame.time, picture |-> frame.picture,
                         session |-> frame.session, count |-> frame.count, skipped |-> 0]
        BY <2>1, <3>3 DEF Claimed
      <4> QED
        BY <2>0, <4>1 DEF Sound, Pending
    <3> QED
      BY <3>1, <3>2, <3>3
  <2>2. CASE Merged(frame)
    <3> SUFFICES ASSUME NEW i \in 0..(Filled' - 1) PROVE Sound(InUse(i)')
      BY DEF FramesSound, Sound
    <3>1. i \in 0..(Filled - 1) /\ (i \in 0..(Filled - 2) \/ i = Filled - 1)
      BY <1>1, <2>2 DEF Merged, FillCounted
    <3>2. CASE i \in 0..(Filled - 2)
      BY <2>2, <3>1, <3>2 DEF Merged, FramesSound, Sound
    <3>3. CASE i = Filled - 1
      <4>0. PICK f, g : f = InUse(i) /\ g = InUse(i)'
        OBVIOUS
      <4>1. g = [f EXCEPT !.count = @ + frame.count, !.skipped = @ + frame.count]
        BY <2>2, <3>3, <4>0 DEF Merged
      <4>2. f \in Frame /\ Sound(f) /\ frame.count \in Int
        BY <2>0, <3>1, <4>0, InUseTyped DEF FramesSound, Pending
      <4>3. /\ g.time = f.time /\ g.picture = f.picture
            /\ g.count = f.count + frame.count
            /\ g.skipped = f.skipped + frame.count
        BY <4>1, <4>2 DEF Frame
      <4>4. f.count \in Int /\ f.skipped \in Int
        BY <4>2 DEF Frame
      <4>5. Sound(g)
        BY <2>0, <4>2, <4>3, <4>4 DEF Sound
      <4> QED
        BY <4>0, <4>5
    <3> QED
      BY <3>1, <3>2, <3>3
  <2> QED
    BY <1>2, <2>1, <2>2, LockedFrames
<1>3. CASE FinishFrame /\ UNCHANGED graphicsVars
  <2>0. /\ Released \/ HandedOut
        /\ 0 \in 0..(Filled - 1)
    BY <1>3, FinishedFrames DEF graphicsVars, turnVars
  <2> SUFFICES ASSUME NEW i \in 0..(Filled' - 1) PROVE Sound(InUse(i)')
    BY DEF FramesSound, Sound
  <2>1. CASE Released
    <3>1. i \in 0..(Filled - 2) /\ i + 1 \in 0..(Filled - 1)
      BY <1>1, <2>1 DEF Released, FillCounted
    <3> QED
      BY <2>1, <3>1 DEF Released, FramesSound
  <2>2. CASE HandedOut
    <3>1. i \in 0..(Filled - 1) /\ (i = 0 \/ i \in 1..(Filled - 1))
      BY <1>1, <2>2 DEF HandedOut, FillCounted
    <3>2. CASE i = 0
      <4>1. InUse(0)' = Remaining(InUse(0)) /\ InUse(0).count # 1
        BY <2>2 DEF HandedOut
      <4>2. InUse(0) \in Frame /\ Sound(InUse(0))
        BY <2>0, InUseTyped DEF FramesSound
      <4> QED
        BY <3>2, <4>1, <4>2, RemainingIsSound
    <3>3. CASE i \in 1..(Filled - 1)
      BY <2>2, <3>1, <3>3 DEF HandedOut, FramesSound
    <3> QED
      BY <3>1, <3>2, <3>3
  <2> QED
    BY <2>0, <2>1, <2>2
<1>4. CASE cache' = cache /\ firstAdded' = firstAdded /\ Filled' = Filled
  BY <1>4, FramesKept DEF FramesSound, Sound
<1> QED
  BY <1>2, <1>3, <1>4, OthersKeepFrames

LEMMA SeenStaysOfItsTime ==
    ASSUME RingInv, UserTypes, ThreadTypes, SeenTypes, FramesSound, SeenOfTheirTime,
           [Next]_vars
    PROVE  SeenOfTheirTime'
<1>1. CASE CallInput
  <2>1. /\ seen' = [seen EXCEPT ![inputs[turn]] =
                      [time |-> cache[frameInfo].time, picture |-> cache[frameInfo].picture,
                       session |-> cache[frameInfo].session]]
        /\ thread = "calling"
    BY <1>1 DEF CallInput
  <2>2. frameInfo = firstAdded /\ Ready > 0 /\ firstAdded \in Slots
    BY <2>1 DEF RingInv, RingTypes, ThreadInStep, Busy
  <2>3. InUse(0) = cache[frameInfo] /\ 0 \in 0..(Filled - 1)
    BY <2>2, AtFirst, FillCounts DEF RingInv, FillCounted, InUse
  <2>4. cache[frameInfo].picture <= cache[frameInfo].time
    BY <2>3 DEF FramesSound, Sound
  <2> QED
    BY <2>1, <2>4 DEF SeenTypes, SeenOfTheirTime
<1>2. CASE \E c \in Consumers : User(c)
  <2>1. PICK c \in Consumers : User(c)
    BY <1>2
  <2>2. seen' = seen \/ seen' = [seen EXCEPT ![c] = NoFrame]
    BY <2>1 DEF User, StartRaw, Connect, StopRaw, Disconnect
  <2> QED
    BY <2>2 DEF SeenTypes, SeenOfTheirTime, NoFrame
<1>3. CASE seen' = seen
  BY <1>3 DEF SeenOfTheirTime
<1> QED
  BY <1>1, <1>2, <1>3, SeenMoves

LEMMA FramesHold == Spec => [](SeenTypes /\ FramesSound /\ SeenOfTheirTime)
<1> DEFINE Inv == SeenTypes /\ FramesSound /\ SeenOfTheirTime
<1>1. Init => Inv
  <2> SUFFICES ASSUME Init PROVE Inv
    OBVIOUS
  <2>1. seen = [c \in Consumers |-> NoFrame] /\ available = CacheSize /\ loop = "start"
    BY DEF Init, OutputInit
  <2>2. SeenTypes /\ SeenOfTheirTime
    BY <2>1 DEF SeenTypes, SeenOfTheirTime, NoFrame, Given
  <2>3. Filled = 0
    BY <2>1, OutputAssumption DEF Filled, Ready
  <2>4. FramesSound
    BY <2>3 DEF FramesSound
  <2> QED
    BY <2>2, <2>4
<1>2. ControlTypes /\ RawInv /\ RingInv /\ Inv /\ [Next]_vars => Inv'
  BY SeenTyped, FramesStaySound, SeenStaysOfItsTime DEF ControlTypes, RingInv
<1> HIDE DEF Inv
<1>3. Spec => []Inv
  BY <1>1, <1>2, ControlHolds, RawHolds, RingHolds, PTL DEF Spec
<1> QED
  BY <1>3 DEF Inv

(* The fields of output and loop hold what their declarations allow, for   *)
(* any number of consumers, slots and textures.                            *)
THEOREM FieldsHoldTheirTypes == Spec => []TypeOK
<1>1. ControlTypes /\ RawInv /\ RingInv => TypeOK
  <2> SUFFICES ASSUME ControlTypes, RawInv, RingInv PROVE TypeOK
    OBVIOUS
  <2>1. available \in 0..CacheSize /\ {firstAdded, lastAdded, frameInfo} \subseteq Slots
    BY DEF RingInv, RingTypes
  <2>2. rawActive \in 0..Cardinality(Consumers)
    <3>1. rawActive = Cardinality(Asking) /\ Asking \subseteq Consumers
      BY DEF ControlTypes, UserTypes, Asking
    <3>2. /\ IsFiniteSet(Asking) /\ Cardinality(Asking) <= Cardinality(Consumers)
          /\ IsFiniteSet(Consumers)
      BY <3>1, OutputAssumption, FS_Subset
    <3>3. Cardinality(Asking) \in Nat /\ Cardinality(Consumers) \in Nat
      BY <3>2, FS_CardinalityType
    <3> QED
      BY <3>1, <3>2, <3>3
  <2>3. /\ posts \in Nat /\ thread \in {"waiting", "calling", "sameFrame", "gone"}
        /\ loop \in {"start", "render", "output", "unlock", "sleep", "ended"}
        /\ {gpuAvail, gpuPosts} \subseteq Nat
    BY DEF ControlTypes, ThreadTypes, TurnTypes, GpuTypes
  <2>4. inputOwner = "videoThread" <=> thread = "calling"
    BY DEF RingInv, ThreadInStep
  <2>5. curTexture \in Textures
    BY DEF RawInv, RawTypes
  <2> QED
    BY <2>1, <2>2, <2>3, <2>4, <2>5 DEF TypeOK
<1> QED
  BY <1>1, ControlHolds, RawHolds, RingHolds, PTL

(* A picture is given to the output with the time it was rendered for.     *)
THEOREM PictureOfItsTimeHolds == Spec => []PictureOfItsTime
<1>1. RawInv /\ SeenOfTheirTime => PictureOfItsTime
  <2> SUFFICES ASSUME RawInv, SeenOfTheirTime PROVE PictureOfItsTime
    OBVIOUS
  <2>1. loop = "output" => frame.picture = frame.time
    BY DEF RawInv, RawInStep
  <2>2. ASSUME loop = "render", FrameReady
        PROVE  vframeInfo # <<>>
    <3>1. rawWasActive /\ copied # NoPicture
      BY <2>2, TextureBefore DEF FrameReady, NoPicture, RawInv, RawTypes
    <3>2. Len(vframeInfo) = 1
      BY <2>2, <3>1 DEF RawInv, RawInStep, Noted
    <3>3. Len(<<>>) = 0
      BY EmptySeq
    <3> SUFFICES ASSUME vframeInfo = <<>> PROVE FALSE
      OBVIOUS
    <3>4. Len(vframeInfo) = 0
      BY <3>3, Zenon
    <3> QED
      BY <3>2, <3>4
  <2> QED
    BY <2>1, <2>2 DEF PictureOfItsTime, SeenOfTheirTime
<1> QED
  BY <1>1, RawHolds, FramesHold, PTL

(* The video thread does not sleep through the request to stop; a part of  *)
(* CountsInStep.                                                           *)
THEOREM StopIsHeardHolds == Spec => []StopIsHeard
<1>1. RingInv => StopIsHeard
  BY DEF RingInv, ThreadInStep, StopIsHeard
<1> QED
  BY <1>1, RingHolds, PTL

(* A frame that is ready stands for more intervals than were skipped, also *)
(* while it is handed out or lengthened; a part of CountsInStep.           *)
THEOREM SkipsAreCountedHolds == Spec => []SkipsAreCounted
<1>1. RingInv /\ FramesSound => SkipsAreCounted
  <2> SUFFICES ASSUME RingInv, FramesSound, NEW i \in 0..(CacheSize - available - 1)
               PROVE  InUse(i).count > InUse(i).skipped
    BY DEF SkipsAreCounted, InUse, At
  <2>1. i \in 0..(Filled - 1)
    BY FillCounts DEF RingInv, FillCounted
  <2> QED
    BY <2>1 DEF FramesSound, Sound
<1> QED
  BY <1>1, RingHolds, FramesHold, PTL

-----------------------------------------------------------------------------
(* The frames follow each other in time.                                   *)
LEMMA NextTimeTyped ==
    ASSUME TurnTypes, RawTypes
    PROVE  NextTime \in Nat
<1>1. rawWasActive /\ vframeInfo # <<>> => vframeInfo[1] \in Note
  <2> SUFFICES ASSUME vframeInfo # <<>> PROVE vframeInfo[1] \in Note
    OBVIOUS
  <2>1. Len(vframeInfo) \in Nat \ {0}
    BY EmptySeq DEF RawTypes
  <2> QED
    BY <2>1, ElementOfSeq DEF RawTypes
<1> QED
  BY <1>1 DEF NextTime, TurnTypes, RawTypes, Pending, Note

(* In a session in which frames are asked for the time goes on where the   *)
(* last frame ends; otherwise it may only rise.                            *)
NextTimeGoesOn ==
    /\ NextTime' \in Nat /\ NextTime' >= NextTime
    /\ session' \in {session, session + 1}
    /\ rawWasActive' /\ session' = session => rawWasActive /\ NextTime' = NextTime

LEMMA LoopStartGoesOn ==
    ASSUME TurnTypes, RawInv, LoopStart
    PROVE  NextTimeGoesOn
<1> USE DEF RawInv, RawTypes, TurnTypes
<1>1. /\ loop = "start" /\ loop' = "render" /\ rawWasActive' = (rawActive > 0)
      /\ session' = (IF ~rawWasActive /\ rawActive > 0 THEN session + 1 ELSE session)
      /\ videoTime' = videoTime
      /\ ClearFrameData(rawActive > 0, rawActive > 0 \/ gpuActive)
  BY DEF LoopStart
<1>2. /\ ~rawWasActive /\ rawActive > 0 => vframeInfo' = <<>>
      /\ rawWasActive => vframeInfo' = vframeInfo
  BY <1>1 DEF ClearFrameData, WasActive
<1>3. rawWasActive => Len(vframeInfo) = 1 /\ vframeInfo[1].time <= videoTime
  <2> SUFFICES ASSUME rawWasActive
               PROVE  Len(vframeInfo) = 1 /\ vframeInfo[1].time <= videoTime
    OBVIOUS
  <2>1. Len(vframeInfo) = 1 /\ vframeInfo[1].time + vframeInfo[1].count = videoTime
    BY <1>1 DEF RawInStep, Noted
  <2>2. vframeInfo[1] \in Note
    <3>1. 1 \in 1..Len(vframeInfo)
      BY <2>1
    <3> QED
      BY <3>1, ElementOfSeq
  <2>3. vframeInfo[1].time \in Nat /\ vframeInfo[1].count \in Nat
    BY <2>2 DEF Note
  <2> QED
    BY <2>1, <2>3
<1>4. CASE rawWasActive /\ rawActive > 0
  <2>1. NextTime' = NextTime
    BY <1>1, <1>2, <1>4 DEF NextTime
  <2> QED
    BY <1>1, <1>4, <2>1, NextTimeTyped DEF NextTimeGoesOn
<1>5. CASE rawWasActive /\ ~(rawActive > 0)
  <2>1. NextTime' = videoTime
    BY <1>1, <1>5 DEF NextTime
  <2>2. NextTime <= videoTime
    BY <1>1, <1>3, <1>5 DEF NextTime
  <2> QED
    BY <1>1, <1>5, <2>1, <2>2 DEF NextTimeGoesOn
<1>6. CASE ~rawWasActive
  <2>1. NextTime' = videoTime /\ NextTime = videoTime
    BY <1>1, <1>2, <1>6 DEF NextTime
  <2> QED
    BY <1>1, <1>6, <2>1 DEF NextTimeGoesOn
<1> QED
  BY <1>4, <1>5, <1>6

LEMMA OutputFrameGoesOn ==
    ASSUME TurnTypes, RawInv, RawInv', OutputFrame
    PROVE  NextTimeGoesOn
<1> USE DEF RawInv, RawTypes, TurnTypes
<1>1. /\ loop = "render" /\ session' = session /\ rawWasActive' = rawWasActive
      /\ videoTime' = videoTime
  BY DEF OutputFrame
<1>2. CASE FrameReady
  <2>1. /\ frame' = [time |-> Head(vframeInfo).time, picture |-> copied[PrevTexture],
                     session |-> session, count |-> Head(vframeInfo).count]
        /\ loop' = "output" /\ rawWasActive
    BY <1>2 DEF OutputFrame, FrameReady
  <2>2. Len(vframeInfo) = 1
    BY <1>1, <1>2, <2>1, TextureBefore DEF FrameReady, RawInStep, NoPicture, Noted
  <2>3. vframeInfo # <<>>
    <3> SUFFICES ASSUME vframeInfo = <<>> PROVE FALSE
      OBVIOUS
    <3>1. Len(<<>>) = 0
      BY EmptySeq
    <3>2. Len(vframeInfo) = 0
      BY <3>1, Zenon
    <3> QED
      BY <2>2, <3>2
  <2>4. Head(vframeInfo) = vframeInfo[1]
    BY <2>3, HeadTailProperties
  <2>5. NextTime' = frame'.time /\ NextTime = vframeInfo[1].time
    BY <1>1, <2>1, <2>3 DEF NextTime
  <2> QED
    BY <1>1, <2>1, <2>4, <2>5, NextTimeTyped DEF NextTimeGoesOn
<1>3. CASE ~FrameReady
  <2>1. loop' = "sleep" /\ vframeInfo' = vframeInfo
    BY <1>3 DEF OutputFrame
  <2>2. NextTime' = NextTime
    BY <1>1, <2>1 DEF NextTime
  <2> QED
    BY <1>1, <2>2, NextTimeTyped DEF NextTimeGoesOn
<1> QED
  BY <1>2, <1>3

LEMMA SleepGoesOn ==
    ASSUME TurnTypes, RawInv, Sleep
    PROVE  NextTimeGoesOn
<1> USE DEF RawInv, RawTypes, TurnTypes
<1>1. PICK lag \in 1..MaxLag :
          /\ videoTime' = videoTime + lag
          /\ vframeInfo' = IF rawWasActive
                           THEN Append(vframeInfo, [time |-> videoTime, count |-> lag])
                           ELSE vframeInfo
  BY DEF Sleep
<1>2. /\ loop = "sleep" /\ loop' \in {"ended", "start"}
      /\ UNCHANGED <<rawWasActive, session>> /\ lag \in Nat
  BY DEF Sleep
<1>3. CASE rawWasActive
  <2>1. vframeInfo = <<>>
    BY <1>2, <1>3 DEF RawInStep
  <2>2. [time |-> videoTime, count |-> lag] \in [time : Nat, count : Nat]
    BY <1>2
  <2>3. /\ Len(vframeInfo') = 1
        /\ vframeInfo'[1] = [time |-> videoTime, count |-> lag]
    BY <1>1, <1>3, <2>1, <2>2, AppendProperties
  <2>4. vframeInfo' # <<>> /\ vframeInfo'[1].time = videoTime
    BY <2>3, AppendProperties, <1>1, <1>3
  <2>5. NextTime' = videoTime /\ NextTime = videoTime
    BY <1>2, <1>3, <2>1, <2>4 DEF NextTime
  <2> QED
    BY <1>2, <1>3, <2>5 DEF NextTimeGoesOn
<1>4. CASE ~rawWasActive
  <2>1. NextTime' = videoTime + lag /\ NextTime = videoTime
    BY <1>1, <1>2, <1>4 DEF NextTime
  <2> QED
    BY <1>2, <1>4, <2>1 DEF NextTimeGoesOn
<1> QED
  BY <1>3, <1>4

LEMMA TimeGoesOn ==
    ASSUME TurnTypes, RawInv, RawInv', [Next]_vars
    PROVE  LockFrame \/ NextTimeGoesOn
<1>1. CASE UnlockOutput
  <2>1. loop = "unlock" /\ loop' = "sleep" /\ UNCHANGED <<rawVars, rawWasActive, videoTime>>
    BY <1>1 DEF UnlockOutput
  <2>2. NextTime' = NextTime
    BY <2>1 DEF NextTime, rawVars
  <2> QED
    BY <2>1, <2>2, NextTimeTyped DEF NextTimeGoesOn, rawVars, RawInv
<1>2. ASSUME UNCHANGED <<turnVars, rawVars>>
      PROVE  NextTimeGoesOn
  <2>1. NextTime' = NextTime
    BY <1>2 DEF NextTime, turnVars, rawVars
  <2> QED
    BY <1>2, <2>1, NextTimeTyped DEF NextTimeGoesOn, turnVars, rawVars, RawInv
<1>3. CASE StartGpu \/ TakeTexture \/ GiveBackTexture
  BY <1>2, <1>3 DEF StartGpu, TakeTexture, GiveBackTexture
<1>4. CASE UNCHANGED graphicsVars
  BY <1>2, <1>4 DEF graphicsVars
<1> QED
  BY <1>1, <1>3, <1>4, LoopStartGoesOn, OutputFrameGoesOn, SleepGoesOn
     DEF Next, Graphics, vars

LEMMA LockFrameTimes ==
    ASSUME TurnTypes, RawInv, LockFrame
    PROVE  /\ NextTime = frame.time /\ NextTime' = frame.time + frame.count
           /\ frame.session = session /\ session' = session
           /\ rawWasActive /\ rawWasActive'
           /\ frame.time \in Nat /\ frame.count \in Nat \ {0} /\ frame \in Pending
<1> USE DEF RawInv, RawTypes
<1>1. /\ loop = "output" /\ loop' \in {"sleep", "unlock"}
      /\ UNCHANGED <<session, vframeInfo, rawWasActive, videoTime>>
  BY DEF LockFrame
<1>2. rawWasActive /\ vframeInfo = <<>> /\ frame.session = session
      /\ frame.count > 0 /\ frame.time + frame.count = videoTime
  BY <1>1 DEF RawInStep
<1>3. NextTime = frame.time /\ NextTime' = videoTime
  BY <1>1, <1>2 DEF NextTime
<1>4. frame.time \in Nat /\ frame.count \in Nat
  BY DEF Pending
<1> QED
  BY <1>1, <1>2, <1>3, <1>4

LEMMA FrameTimes ==
    ASSUME RingInv, NEW i \in 0..(Filled - 1)
    PROVE  /\ InUse(i).time \in Nat /\ InUse(i).count \in Int
           /\ InUse(i).session \in Nat /\ End(InUse(i)) \in Int
           /\ End(InUse(i)) = InUse(i).time + InUse(i).count
<1>1. InUse(i) \in Frame
  BY InUseTyped DEF RingInv
<1> QED
  BY <1>1 DEF Frame, End

LEMMA ClaimedFollows ==
    ASSUME TurnTypes, RawInv, RingInv, FramesFollow, LockFrame, Claimed(frame)
    PROVE  FramesFollow'
<1>1. /\ NextTime = frame.time /\ NextTime' = frame.time + frame.count
      /\ frame.session = session /\ session' = session
      /\ rawWasActive /\ rawWasActive'
      /\ frame.time \in Nat /\ frame.count \in Nat \ {0} /\ frame \in Pending
  BY LockFrameTimes
<1>2. Filled' = Filled + 1 /\ Filled \in Nat
  BY FillCounts DEF Claimed, RingInv, FillCounted
<1>3. ASSUME NEW i \in 0..(Filled - 1)
      PROVE  /\ InUse(i)'.time = InUse(i).time /\ InUse(i)'.session = InUse(i).session
             /\ End(InUse(i)') = End(InUse(i))
  BY DEF Claimed
<1>4. ASSUME NEW i, i = Filled
      PROVE  /\ InUse(i)'.time = NextTime /\ InUse(i)'.session = session
             /\ End(InUse(i)') = NextTime'
  <2>1. InUse(i)' = [time |-> frame.time, picture |-> frame.picture,
                     session |-> frame.session, count |-> frame.count, skipped |-> 0]
    BY <1>4 DEF Claimed
  <2> QED
    BY <1>1, <2>1 DEF End
<1>5. \A i \in 0..(Filled' - 1) : i \in 0..(Filled - 1) \/ i = Filled
  BY <1>2
<1>6. SessionsKnown'
  <2> SUFFICES ASSUME NEW i \in 0..(Filled' - 1)
               PROVE  InUse(i)'.session <= session'
    BY DEF SessionsKnown
  <2>1. CASE i \in 0..(Filled - 1)
    BY <1>1, <1>3, <2>1 DEF FramesFollow, SessionsKnown
  <2>2. CASE i = Filled
    <3>1. session \in Nat
      BY DEF RawInv, RawTypes
    <3> QED
      BY <1>1, <1>4, <2>2, <3>1
  <2> QED
    BY <1>5, <2>1, <2>2
<1>7. InTimeOrder'
  <2> SUFFICES ASSUME NEW i \in 0..(Filled' - 1), NEW j \in 0..(Filled' - 1), i < j
               PROVE  End(InUse(i)') <= InUse(j)'.time
    BY DEF InTimeOrder, End
  <2>1. i \in 0..(Filled - 1)
    BY <1>2
  <2>2. CASE j \in 0..(Filled - 1)
    BY <1>3, <2>1, <2>2 DEF FramesFollow, InTimeOrder
  <2>3. CASE j = Filled
    BY <1>3, <1>4, <2>1, <2>3 DEF FramesFollow, EndBeforeNext
  <2> QED
    BY <1>5, <2>2, <2>3
<1>8. WithoutGap'
  <2> SUFFICES ASSUME NEW i \in 0..(Filled' - 1), NEW j \in 0..(Filled' - 1), j = i + 1,
                      InUse(i)'.session = InUse(j)'.session
               PROVE  End(InUse(i)') = InUse(j)'.time
    BY DEF WithoutGap, End
  <2>1. i \in 0..(Filled - 1)
    BY <1>2
  <2>2. CASE j \in 0..(Filled - 1)
    BY <1>3, <2>1, <2>2 DEF FramesFollow, WithoutGap
  <2>3. CASE j = Filled
    <3>1. i = Filled - 1 /\ InUse(i).session = session
      BY <1>2, <1>3, <1>4, <2>1, <2>3
    <3> QED
      BY <1>1, <1>3, <1>4, <2>1, <2>3, <3>1 DEF FramesFollow, LastMeetsNext
  <2> QED
    BY <1>5, <2>2, <2>3
<1>9. EndBeforeNext'
  <2> SUFFICES ASSUME NEW i \in 0..(Filled' - 1)
               PROVE  End(InUse(i)') <= NextTime'
    BY DEF EndBeforeNext, End
  <2>1. CASE i \in 0..(Filled - 1)
    <3>1. End(InUse(i)') = End(InUse(i)) /\ End(InUse(i)) <= NextTime /\ End(InUse(i)) \in Int
      BY <1>3, <2>1, FrameTimes DEF FramesFollow, EndBeforeNext
    <3> QED
      BY <1>1, <3>1
  <2>2. CASE i = Filled
    BY <1>1, <1>4, <2>2
  <2> QED
    BY <1>5, <2>1, <2>2
<1>10. LastMeetsNext'
  <2> SUFFICES ASSUME NEW i \in 0..(Filled' - 1), i = Filled' - 1
               PROVE  End(InUse(i)') = NextTime'
    BY DEF LastMeetsNext, End
  <2> QED
    BY <1>2, <1>4
<1> QED
  BY <1>6, <1>7, <1>8, <1>9, <1>10 DEF FramesFollow

LEMMA MergedFollows ==
    ASSUME TurnTypes, RawInv, RingInv, FramesFollow, LockFrame, Merged(frame)
    PROVE  FramesFollow'
<1>1. /\ NextTime = frame.time /\ NextTime' = frame.time + frame.count
      /\ frame.session = session /\ session' = session
      /\ rawWasActive /\ rawWasActive'
      /\ frame.time \in Nat /\ frame.count \in Nat \ {0} /\ frame \in Pending
  BY LockFrameTimes
<1>2. Filled' = Filled /\ Filled \in Nat
  BY FillCounts DEF Merged, RingInv, FillCounted
<1>3. ASSUME NEW i \in 0..(Filled - 1)
      PROVE  /\ InUse(i)'.time = InUse(i).time /\ InUse(i)'.session = InUse(i).session
             /\ End(InUse(i)') = IF i = Filled - 1 THEN End(InUse(i)) + frame.count
                                 ELSE End(InUse(i))
  <2>1. CASE i = Filled - 1
    <3>1. PICK f, g : f = InUse(i) /\ g = InUse(i)'
      OBVIOUS
    <3>2. g = [f EXCEPT !.count = @ + frame.count, !.skipped = @ + frame.count]
      BY <2>1, <3>1 DEF Merged
    <3>3. f \in Frame
      BY <3>1, InUseTyped DEF RingInv
    <3>4. /\ g.time = f.time /\ g.session = f.session /\ g.count = f.count + frame.count
          /\ f.time \in Nat /\ f.count \in Int
      BY <3>2, <3>3 DEF Frame
    <3>5. g.time + g.count = f.time + f.count + frame.count
      BY <1>1, <3>4
    <3> QED
      BY <2>1, <3>1, <3>4, <3>5 DEF End
  <2>2. CASE i # Filled - 1
    <3>1. InUse(i)' = InUse(i)
      BY <1>2, <2>2 DEF Merged
    <3> QED
      BY <2>2, <3>1
  <2> QED
    BY <2>1, <2>2
<1>6. SessionsKnown'
  BY <1>1, <1>2, <1>3 DEF FramesFollow, SessionsKnown
<1>7. InTimeOrder'
  <2> SUFFICES ASSUME NEW i \in 0..(Filled - 1), NEW j \in 0..(Filled - 1), i < j
               PROVE  End(InUse(i)') <= InUse(j)'.time
    BY <1>2 DEF InTimeOrder, End
  <2>1. i # Filled - 1
    BY <1>2
  <2> QED
    BY <1>3, <2>1 DEF FramesFollow, InTimeOrder
<1>8. WithoutGap'
  <2> SUFFICES ASSUME NEW i \in 0..(Filled - 1), NEW j \in 0..(Filled - 1), j = i + 1,
                      InUse(i)'.session = InUse(j)'.session
               PROVE  End(InUse(i)') = InUse(j)'.time
    BY <1>2 DEF WithoutGap, End
  <2>1. i # Filled - 1
    BY <1>2
  <2> QED
    BY <1>3, <2>1 DEF FramesFollow, WithoutGap
<1>9. EndBeforeNext'
  <2> SUFFICES ASSUME NEW i \in 0..(Filled - 1)
               PROVE  End(InUse(i)') <= NextTime'
    BY <1>2 DEF EndBeforeNext, End
  <2>1. End(InUse(i)) <= NextTime /\ End(InUse(i)) \in Int
    BY FrameTimes DEF FramesFollow, EndBeforeNext
  <2>2. End(InUse(i)') \in {End(InUse(i)), End(InUse(i)) + frame.count}
    BY <1>3
  <2> QED
    BY <1>1, <2>1, <2>2
<1>10. LastMeetsNext'
  <2> SUFFICES ASSUME NEW i \in 0..(Filled - 1), i = Filled - 1,
                      InUse(i)'.session = session'
               PROVE  End(InUse(i)') = NextTime'
    BY <1>2 DEF LastMeetsNext, End
  <2>1. End(InUse(i)) = NextTime
    BY <1>1, <1>3 DEF FramesFollow, LastMeetsNext
  <2> QED
    BY <1>1, <1>3, <2>1
<1> QED
  BY <1>6, <1>7, <1>8, <1>9, <1>10 DEF FramesFollow

LEMMA FinishedFollows ==
    ASSUME TurnTypes, RawInv, RingInv, FramesSound, FramesFollow,
           FinishFrame, UNCHANGED graphicsVars
    PROVE  FramesFollow'
<1>0. loop' = loop /\ session' = session /\ rawWasActive' = rawWasActive
      /\ NextTime' = NextTime
  BY DEF graphicsVars, turnVars, rawVars, NextTime
<1>1. (Released \/ HandedOut) /\ 0 \in 0..(Filled - 1)
  BY <1>0, FinishedFrames
<1>2. Filled \in Nat
  BY FillCounts DEF RingInv, FillCounted
<1>3. CASE Released
  <2>1. Filled' = Filled - 1
    BY <1>3 DEF Released
  <2>2. ASSUME NEW i \in 0..(Filled' - 1)
        PROVE  /\ InUse(i)' = InUse(i + 1) /\ i + 1 \in 0..(Filled - 1)
               /\ i = Filled' - 1 <=> i + 1 = Filled - 1
    BY <1>2, <1>3, <2>1 DEF Released
  <2>3. SessionsKnown'
    BY <1>0, <2>2 DEF FramesFollow, SessionsKnown
  <2>4. InTimeOrder'
    <3> SUFFICES ASSUME NEW i \in 0..(Filled' - 1), NEW j \in 0..(Filled' - 1), i < j
                 PROVE  End(InUse(i)') <= InUse(j)'.time
      BY DEF InTimeOrder, End
    <3>1. i + 1 < j + 1
      BY <1>2, <2>1
    <3> QED
      BY <2>2, <3>1 DEF FramesFollow, InTimeOrder
  <2>5. WithoutGap'
    <3> SUFFICES ASSUME NEW i \in 0..(Filled' - 1), NEW j \in 0..(Filled' - 1), j = i + 1,
                        InUse(i)'.session = InUse(j)'.session
                 PROVE  End(InUse(i)') = InUse(j)'.time
      BY DEF WithoutGap, End
    <3> QED
      BY <2>2 DEF FramesFollow, WithoutGap
  <2>6. EndBeforeNext'
    <3> SUFFICES ASSUME NEW i \in 0..(Filled' - 1)
                 PROVE  End(InUse(i)') <= NextTime'
      BY DEF EndBeforeNext, End
    <3> QED
      BY <1>0, <2>2 DEF FramesFollow, EndBeforeNext
  <2>7. LastMeetsNext'
    <3> SUFFICES ASSUME NEW i \in 0..(Filled' - 1), i = Filled' - 1, rawWasActive',
                        InUse(i)'.session = session'
                 PROVE  End(InUse(i)') = NextTime'
      BY DEF LastMeetsNext, End
    <3> QED
      BY <1>0, <2>2 DEF FramesFollow, LastMeetsNext
  <2> QED
    BY <2>3, <2>4, <2>5, <2>6, <2>7 DEF FramesFollow
<1>4. CASE HandedOut
  <2>1. Filled' = Filled
    BY <1>4 DEF HandedOut
  <2>2. ASSUME NEW i \in 0..(Filled - 1)
        PROVE  /\ InUse(i)'.session = InUse(i).session
               /\ End(InUse(i)') = End(InUse(i))
               /\ i # 0 => InUse(i)'.time = InUse(i).time
    <3>1. CASE i = 0
      <4>1. PICK f, g : f = InUse(i) /\ g = InUse(i)'
        OBVIOUS
      <4>2. f \in Frame /\ g = Remaining(f)
        BY <1>4, <3>1, <4>1, InUseTyped DEF HandedOut, RingInv
      <4>3. /\ g.session = f.session /\ g.time = f.time + 1 /\ g.count = f.count - 1
            /\ f.time \in Nat /\ f.count \in Int
        BY <4>2, FrameRemaining DEF Frame
      <4>4. g.time + g.count = f.time + f.count
        BY <4>3
      <4> QED
        BY <3>1, <4>1, <4>3, <4>4 DEF End
    <3>2. CASE i # 0
      <4>1. InUse(i)' = InUse(i)
        BY <1>2, <1>4, <3>2 DEF HandedOut
      <4> QED
        BY <4>1
    <3> QED
      BY <3>1, <3>2
  <2>3. SessionsKnown'
    BY <1>0, <2>1, <2>2 DEF FramesFollow, SessionsKnown
  <2>4. InTimeOrder'
    <3> SUFFICES ASSUME NEW i \in 0..(Filled - 1), NEW j \in 0..(Filled - 1), i < j
                 PROVE  End(InUse(i)') <= InUse(j)'.time
      BY <2>1 DEF InTimeOrder, End
    <3>1. j # 0
      BY <1>2
    <3> QED
      BY <2>2, <3>1 DEF FramesFollow, InTimeOrder
  <2>5. WithoutGap'
    <3> SUFFICES ASSUME NEW i \in 0..(Filled - 1), NEW j \in 0..(Filled - 1), j = i + 1,
                        InUse(i)'.session = InUse(j)'.session
                 PROVE  End(InUse(i)') = InUse(j)'.time
      BY <2>1 DEF WithoutGap, End
    <3>1. j # 0
      BY <1>2
    <3> QED
      BY <2>2, <3>1 DEF FramesFollow, WithoutGap
  <2>6. EndBeforeNext'
    <3> SUFFICES ASSUME NEW i \in 0..(Filled - 1)
                 PROVE  End(InUse(i)') <= NextTime'
      BY <2>1 DEF EndBeforeNext, End
    <3> QED
      BY <1>0, <2>2 DEF FramesFollow, EndBeforeNext
  <2>7. LastMeetsNext'
    <3> SUFFICES ASSUME NEW i \in 0..(Filled - 1), i = Filled - 1, rawWasActive',
                        InUse(i)'.session = session'
                 PROVE  End(InUse(i)') = NextTime'
      BY <2>1 DEF LastMeetsNext, End
    <3> QED
      BY <1>0, <2>2 DEF FramesFollow, LastMeetsNext
  <2> QED
    BY <2>3, <2>4, <2>5, <2>6, <2>7 DEF FramesFollow
<1> QED
  BY <1>1, <1>3, <1>4

LEMMA OthersFollow ==
    ASSUME TurnTypes, TurnTypes', RawInv, RawInv', RingInv, FramesFollow, NextTimeGoesOn,
           cache' = cache, firstAdded' = firstAdded, Filled' = Filled
    PROVE  FramesFollow'
<1>1. \A i : InUse(i)' = InUse(i)
  BY FramesKept
<1>2. session \in Nat /\ NextTime \in Nat /\ NextTime' \in Nat
  BY NextTimeTyped DEF RawInv, RawTypes, NextTimeGoesOn
<1>3. SessionsKnown'
  <2> SUFFICES ASSUME NEW i \in 0..(Filled - 1)
               PROVE  InUse(i)'.session <= session'
    BY DEF SessionsKnown
  <2>1. InUse(i).session <= session /\ InUse(i).session \in Nat
    BY FrameTimes DEF FramesFollow, SessionsKnown
  <2> QED
    BY <1>1, <1>2, <2>1 DEF NextTimeGoesOn
<1>4. InTimeOrder' /\ WithoutGap'
  BY <1>1 DEF FramesFollow, InTimeOrder, WithoutGap, End
<1>5. EndBeforeNext'
  <2> SUFFICES ASSUME NEW i \in 0..(Filled - 1)
               PROVE  End(InUse(i)') <= NextTime'
    BY DEF EndBeforeNext, End
  <2>1. End(InUse(i)) <= NextTime /\ End(InUse(i)) \in Int
    BY FrameTimes DEF FramesFollow, EndBeforeNext
  <2>2. End(InUse(i)') = End(InUse(i))
    BY <1>1
  <2> QED
    BY <1>2, <2>1, <2>2 DEF NextTimeGoesOn
<1>6. LastMeetsNext'
  <2> SUFFICES ASSUME NEW i \in 0..(Filled - 1), i = Filled - 1, rawWasActive',
                      InUse(i)'.session = session'
               PROVE  End(InUse(i)') = NextTime'
    BY DEF LastMeetsNext, End
  <2>1. InUse(i).session = session' /\ InUse(i).session <= session
    BY <1>1 DEF FramesFollow, SessionsKnown
  <2>2. session' = session
    BY <1>2, <2>1 DEF NextTimeGoesOn
  <2>3. rawWasActive /\ NextTime' = NextTime
    BY <2>2 DEF NextTimeGoesOn
  <2> QED
    BY <1>1, <2>1, <2>2, <2>3 DEF FramesFollow, LastMeetsNext
<1> QED
  BY <1>3, <1>4, <1>5, <1>6 DEF FramesFollow

LEMMA FramesGoOn ==
    ASSUME TurnTypes, TurnTypes', RawInv, RawInv', RingInv, FramesSound, FramesFollow,
           [Next]_vars
    PROVE  FramesFollow'
<1>1. CASE LockFrame
  BY <1>1, LockedFrames, ClaimedFollows, MergedFollows DEF RawInv, RingInv
<1>2. CASE FinishFrame /\ UNCHANGED graphicsVars
  BY <1>2, FinishedFollows
<1>3. CASE ~LockFrame /\ cache' = cache /\ firstAdded' = firstAdded /\ Filled' = Filled
  <2>1. NextTimeGoesOn
    BY <1>3, TimeGoesOn
  <2> QED
    BY <1>3, <2>1, OthersFollow
<1> QED
  BY <1>1, <1>2, <1>3, OthersKeepFrames DEF RingInv

-----------------------------------------------------------------------------
(* Who is called.                                                          *)
LEMMA InputsMoves ==
    ASSUME [Next]_vars
    PROVE  CallInput \/ (\E c \in Consumers : User(c)) \/ UNCHANGED <<seen, inputs, user>>
  BY DEF Next, Graphics, LoopStart, OutputFrame, LockFrame, UnlockOutput, Sleep, StartGpu,
       TakeTexture, GiveBackTexture, VideoThread, Woken, SameFrame, FinishFrame, StopOutput,
       Joined, vars, outputVars, users

LEMMA DisconnectedInputs ==
    ASSUME UserTypes, SeenTypes, InputsOnce, NEW c \in Consumers, Disconnect(c)
    PROVE  InputsOnce'
<1>0. /\ inputs \in Seq(Consumers) /\ Len(inputs) \in Nat /\ DOMAIN inputs = 1..Len(inputs)
      /\ \A i \in 1..Len(inputs) : inputs[i] \in Consumers
  BY DEF UserTypes
<1>1. /\ user' = [user EXCEPT ![c] = "idle"] /\ seen' = [seen EXCEPT ![c] = NoFrame]
      /\ user \in [Consumers -> {"idle", "connecting", "started", "disconnecting"}]
  BY DEF Disconnect, UserTypes
<1>2. CASE \E n \in 1..Len(inputs) : inputs[n] = c /\ inputs' = RemoveAt(inputs, n)
  <2>1. PICK n \in 1..Len(inputs) : inputs[n] = c /\ inputs' = RemoveAt(inputs, n)
    <3> DEFINE Erased(n) == inputs[n] = c /\ inputs' = RemoveAt(inputs, n)
    <3>1. \E n \in 1..Len(inputs) : Erased(n)
      BY <1>2, Zenon
    <3> HIDE DEF Erased
    <3>2. PICK n \in 1..Len(inputs) : Erased(n)
      BY <3>1, Zenon
    <3> QED
      BY <3>2, Zenon DEF Erased
  <2>2. /\ inputs' \in Seq(Consumers) /\ Len(inputs') = Len(inputs) - 1
        /\ \A i \in 1..(Len(inputs) - 1) :
               inputs'[i] = IF i < n THEN inputs[i] ELSE inputs[i + 1]
    BY <1>0, <2>1, InputErased, Zenon
  <2> DEFINE was(i) == IF i < n THEN i ELSE i + 1
  <2>3. ASSUME NEW i \in 1..Len(inputs')
        PROVE  was(i) \in 1..Len(inputs) /\ was(i) # n /\ inputs'[i] = inputs[was(i)]
    <3>1. i \in 1..(Len(inputs) - 1) /\ inputs'[i] = IF i < n THEN inputs[i] ELSE inputs[i + 1]
      BY <2>2
    <3>2. i \in Nat /\ n \in Nat /\ i >= 1 /\ i + 1 <= Len(inputs) /\ Len(inputs) \in Nat
      BY <1>0, <3>1
    <3>3. CASE i < n
      <4>1. was(i) = i /\ i \in 1..Len(inputs) /\ i # n
        BY <3>2, <3>3
      <4>2. inputs'[i] = inputs[i]
        BY <3>1, <3>3, Zenon
      <4> QED
        BY <4>1, <4>2, Zenon
    <3>4. CASE ~(i < n)
      <4>1. was(i) = i + 1 /\ i + 1 \in 1..Len(inputs) /\ i + 1 # n
        BY <3>2, <3>4
      <4>2. inputs'[i] = inputs[i + 1]
        BY <3>1, <3>4, Zenon
      <4> QED
        BY <4>1, <4>2, Zenon
    <3> QED
      BY <3>3, <3>4
  <2>4. ASSUME NEW i \in 1..Len(inputs'), NEW j \in 1..Len(inputs'), was(i) = was(j)
        PROVE  i = j
    <3>1. i \in Nat /\ j \in Nat /\ n \in Nat
      BY <1>0, <2>2
    <3>2. CASE i < n
      BY <2>4, <3>1, <3>2
    <3>3. CASE ~(i < n)
      BY <2>4, <3>1, <3>3
    <3> QED
      BY <3>2, <3>3
  <2>5. ASSUME NEW k \in 1..Len(inputs), k # n
        PROVE  \E i \in 1..Len(inputs') : inputs'[i] = inputs[k]
    <3>1. CASE k < n
      <4>1. k \in 1..Len(inputs') /\ inputs'[k] = inputs[k]
        BY <1>0, <2>2, <3>1
      <4> QED
        BY <4>1
    <3>2. CASE ~(k < n)
      <4>1. k - 1 \in 1..Len(inputs') /\ k - 1 \in 1..(Len(inputs) - 1)
            /\ ~(k - 1 < n) /\ k - 1 + 1 = k
        BY <1>0, <2>2, <2>5, <3>2
      <4>2. inputs'[k - 1] = inputs[k]
        BY <2>2, <4>1
      <4> QED
        BY <4>1, <4>2
    <3> QED
      BY <3>1, <3>2
  <2> HIDE DEF was
  <2>6. \A i \in 1..Len(inputs') : inputs'[i] # c
    BY <2>1, <2>3 DEF InputsOnce, NoneTwice
  <2>7. NoneTwice'
    BY <2>3, <2>4 DEF InputsOnce, NoneTwice
  <2>8. ConnectedOnly'
    <3> SUFFICES ASSUME NEW i \in 1..Len(inputs')
                 PROVE  user'[inputs'[i]] \in {"started", "disconnecting"}
      BY DEF ConnectedOnly
    <3>1. inputs'[i] # c /\ inputs'[i] = inputs[was(i)] /\ was(i) \in 1..Len(inputs)
      BY <2>3, <2>6
    <3> QED
      BY <1>0, <1>1, <3>1 DEF InputsOnce, ConnectedOnly
  <2>9. GivenAreInputs'
    <3> SUFFICES ASSUME NEW d \in Consumers, seen'[d] # NoFrame
                 PROVE  \E i \in 1..Len(inputs') : inputs'[i] = d
      BY DEF GivenAreInputs, NoFrame
    <3>1. d # c /\ seen[d] # NoFrame
      BY <1>1 DEF SeenTypes
    <3>2. PICK k \in 1..Len(inputs) : inputs[k] = d
      BY <3>1 DEF InputsOnce, GivenAreInputs
    <3> QED
      BY <2>1, <2>5, <3>1, <3>2
  <2> QED
    BY <2>7, <2>8, <2>9 DEF InputsOnce
<1>3. CASE c \notin ToSet(inputs) /\ inputs' = inputs
  <2>1. \A i \in 1..Len(inputs) : inputs[i] # c
    BY <1>0, <1>3 DEF ToSet
  <2>2. NoneTwice'
    BY <1>3 DEF InputsOnce, NoneTwice
  <2>3. ConnectedOnly'
    BY <1>0, <1>1, <1>3, <2>1 DEF InputsOnce, ConnectedOnly
  <2>4. GivenAreInputs'
    BY <1>1, <1>3 DEF InputsOnce, GivenAreInputs, SeenTypes
  <2> QED
    BY <2>2, <2>3, <2>4 DEF InputsOnce
<1> QED
  BY <1>0, <1>2, <1>3 DEF Disconnect

LEMMA InputsStayOnce ==
    ASSUME UserTypes, SeenTypes, ThreadTypes, InputsOnce, [Next]_vars
    PROVE  InputsOnce'
<1>0. /\ inputs \in Seq(Consumers) /\ Len(inputs) \in Nat
      /\ \A i \in 1..Len(inputs) : inputs[i] \in Consumers
  BY DEF UserTypes
<1>1. CASE CallInput
  <2>1. /\ inputs' = inputs /\ user' = user /\ turn \in 1..Len(inputs)
        /\ \A d \in Consumers : seen'[d] # seen[d] => d = inputs[turn]
    BY <1>0, <1>1 DEF CallInput, users, ThreadTypes, SeenTypes
  <2> QED
    BY <2>1 DEF InputsOnce, NoneTwice, ConnectedOnly, GivenAreInputs, NoFrame
<1>2. ASSUME NEW c \in Consumers, User(c)
      PROVE  InputsOnce'
  <2>0. user \in [Consumers -> {"idle", "connecting", "started", "disconnecting"}]
    BY DEF UserTypes
  <2>1. CASE StartRaw(c) \/ StopRaw(c)
    <3>1. /\ inputs' = inputs /\ seen' = seen
          /\ \/ user[c] = "idle" /\ user' = [user EXCEPT ![c] = "connecting"]
             \/ user' = [user EXCEPT ![c] = "disconnecting"]
      BY <2>1 DEF StartRaw, StopRaw
    <3>2. ConnectedOnly'
      BY <1>0, <2>0, <3>1 DEF InputsOnce, ConnectedOnly
    <3> QED
      BY <3>1, <3>2 DEF InputsOnce, NoneTwice, GivenAreInputs, NoFrame
  <2>2. CASE Connect(c)
    <3>1. /\ seen' = seen /\ user' = [user EXCEPT ![c] = "started"] /\ user[c] = "connecting"
          /\ inputs' \in {inputs, Append(inputs, c)}
      BY <2>2 DEF Connect
    <3>2. \A i \in 1..Len(inputs) : inputs[i] # c
      BY <3>1 DEF InputsOnce, ConnectedOnly
    <3>3. CASE inputs' = inputs
      <4>1. ConnectedOnly'
        BY <1>0, <2>0, <3>1, <3>3 DEF InputsOnce, ConnectedOnly
      <4> QED
        BY <3>1, <3>3, <4>1 DEF InputsOnce, NoneTwice, GivenAreInputs, NoFrame
    <3>4. CASE inputs' = Append(inputs, c)
      <4>1. /\ Len(inputs') = Len(inputs) + 1 /\ inputs'[Len(inputs) + 1] = c
            /\ \A i \in 1..Len(inputs) : inputs'[i] = inputs[i]
        BY <1>0, <3>4, AppendProperties
      <4>2. \A i \in 1..Len(inputs') : i \in 1..Len(inputs) \/ i = Len(inputs) + 1
        BY <1>0, <4>1
      <4>3. NoneTwice'
        BY <3>2, <4>1, <4>2 DEF InputsOnce, NoneTwice
      <4>4. ConnectedOnly'
        BY <1>0, <2>0, <3>1, <3>2, <4>1, <4>2 DEF InputsOnce, ConnectedOnly
      <4>5. GivenAreInputs'
        <5> SUFFICES ASSUME NEW d \in Consumers, seen[d] # NoFrame
                     PROVE  \E i \in 1..Len(inputs') : inputs'[i] = d
          BY <3>1 DEF GivenAreInputs, NoFrame
        <5>1. PICK k \in 1..Len(inputs) : inputs[k] = d
          BY DEF InputsOnce, GivenAreInputs
        <5>2. k \in 1..Len(inputs') /\ inputs'[k] = d
          BY <1>0, <4>1, <5>1
        <5> QED
          BY <5>2
      <4> QED
        BY <4>3, <4>4, <4>5 DEF InputsOnce
    <3> QED
      BY <3>1, <3>3, <3>4
  <2> QED
    BY <1>2, <2>1, <2>2, DisconnectedInputs DEF User
<1>3. CASE UNCHANGED <<seen, inputs, user>>
  BY <1>3 DEF InputsOnce, NoneTwice, ConnectedOnly, GivenAreInputs, NoFrame
<1> QED
  BY <1>1, <1>2, <1>3, InputsMoves

LEMMA FollowHold == Spec => [](FramesFollow /\ InputsOnce)
<1> DEFINE Inv == FramesFollow /\ InputsOnce
<1>1. Init => Inv
  <2> SUFFICES ASSUME Init PROVE Inv
    OBVIOUS
  <2>1. /\ seen = [c \in Consumers |-> NoFrame] /\ available = CacheSize /\ loop = "start"
        /\ inputs = <<>>
    BY DEF Init, OutputInit
  <2>2. Filled = 0
    BY <2>1, OutputAssumption DEF Filled, Ready
  <2>3. FramesFollow
    BY <2>2 DEF FramesFollow, SessionsKnown, InTimeOrder, WithoutGap, EndBeforeNext,
         LastMeetsNext
  <2>4. InputsOnce
    BY <2>1, EmptySeq DEF InputsOnce, NoneTwice, ConnectedOnly, GivenAreInputs
  <2> QED
    BY <2>3, <2>4
<1> DEFINE Frames == SeenTypes /\ FramesSound /\ SeenOfTheirTime
<1>2. /\ ControlTypes /\ ControlTypes' /\ RawInv /\ RawInv' /\ RingInv /\ Frames /\ Inv
      /\ [Next]_vars
      => Inv'
  BY FramesGoOn, InputsStayOnce DEF ControlTypes
<1> HIDE DEF Inv, Frames
<1>3. Spec => []Frames
  BY FramesHold DEF Frames
<1>4. Spec => []Inv
  BY <1>1, <1>2, <1>3, ControlHolds, RawHolds, RingHolds, PTL DEF Spec
<1> QED
  BY <1>4 DEF Inv

-----------------------------------------------------------------------------
(* A consumer is in step with the frame that is handed out.                *)
LEMMA FirstLocked ==
    ASSUME RawInv, RingInv, LockFrame, Filled > 0
    PROVE  /\ InUse(0)'.time = InUse(0).time /\ InUse(0)'.session = InUse(0).session
           /\ Filled' > 0
<1>1. FillCounted /\ 0 \in 0..(Filled - 1)
  BY FillCounts DEF RingInv, FillCounted
<1>2. CASE Claimed(frame)
  BY <1>1, <1>2 DEF Claimed, FillCounted
<1>3. CASE Merged(frame)
  <2>1. CASE Filled = 1
    <3>1. PICK f, g : f = InUse(0) /\ g = InUse(0)'
      OBVIOUS
    <3>2. g = [f EXCEPT !.count = @ + frame.count, !.skipped = @ + frame.count]
      BY <1>3, <2>1, <3>1 DEF Merged
    <3>3. f \in Frame
      BY <1>1, <3>1, InUseTyped DEF RingInv
    <3>4. g.time = f.time /\ g.session = f.session
      BY <3>2, <3>3 DEF Frame
    <3> QED
      BY <1>3, <3>1, <3>4 DEF Merged
  <2>2. CASE Filled # 1
    <3>1. 0 \in 0..(Filled - 2)
      BY <1>1, <2>2 DEF FillCounted
    <3> QED
      BY <1>3, <3>1 DEF Merged
  <2> QED
    BY <2>1, <2>2
<1> QED
  BY <1>2, <1>3, LockedFrames DEF RawInv, RingInv

LEMMA LockFrameInStep ==
    ASSUME TurnTypes, RawInv, RingInv, LockFrame, NEW c \in Consumers, InStep(c),
           seen' = seen, inputs' = inputs, turn' = turn
    PROVE  InStep(c)'
<1>1. Called(c)' <=> Called(c)
  BY DEF Called
<1>2. FillCounted
  BY FillCounts DEF RingInv
<1>3. seen'[c].session <= session'
  BY LockFrameTimes DEF InStep
<1>4. CASE Filled > 0
  <2>1. /\ InUse(0)'.time = InUse(0).time /\ InUse(0)'.session = InUse(0).session
        /\ Filled' > 0
    BY <1>4, FirstLocked
  <2>2. Filled' # 0
    BY <2>1
  <2>3. GivenFirst(c) => GivenFirst(c)'
    BY <2>1 DEF GivenFirst
  <2>4. WaitsForFirst(c) => WaitsForFirst(c)'
    BY <1>4, <2>1 DEF WaitsForFirst
  <2>5. WaitsForNext(c)'
    BY <2>2 DEF WaitsForNext
  <2> QED
    BY <1>1, <1>3, <2>3, <2>4, <2>5 DEF InStep
<1>5. CASE ~(Filled > 0)
  <2>1. Filled = 0
    BY <1>2, <1>5 DEF FillCounted
  <2>2. ~Called(c) /\ WaitsForNext(c)
    BY <1>5 DEF InStep, GivenFirst
  <2>3. Claimed(frame)
    BY <1>2, <2>1, LockedFrames DEF Merged, FillCounted, RawInv, RingInv
  <2>4. /\ Filled' = 1
        /\ InUse(0)' = [time |-> frame.time, picture |-> frame.picture,
                        session |-> frame.session, count |-> frame.count, skipped |-> 0]
    BY <2>1, <2>3 DEF Claimed
  <2>5. /\ InUse(0)'.time = NextTime /\ InUse(0)'.session = session
        /\ rawWasActive
    BY <2>4, LockFrameTimes
  <2>6. WaitsForFirst(c)'
    BY <2>1, <2>2, <2>5 DEF WaitsForFirst, WaitsForNext
  <2>7. WaitsForNext(c)'
    BY <2>4 DEF WaitsForNext
  <2> QED
    BY <1>1, <1>3, <2>2, <2>6, <2>7 DEF InStep
<1> QED
  BY <1>4, <1>5

LEMMA FinishFrameInStep ==
    ASSUME ThreadTypes, TurnTypes, UserTypes, SeenTypes, RawInv, RingInv, FramesFollow,
           InputsOnce, FinishFrame, UNCHANGED graphicsVars,
           NEW c \in Consumers, seen[c] # NoFrame, InStep(c)
    PROVE  InStep(c)'
<1>0. /\ turn > Len(inputs) /\ turn' = 1 /\ seen' = seen /\ inputs' = inputs
      /\ turn \in Nat /\ Len(inputs) \in Nat
  BY DEF FinishFrame, ThreadTypes, UserTypes
<1>1. /\ loop' = loop /\ session' = session /\ rawWasActive' = rawWasActive
      /\ NextTime' = NextTime
  BY DEF graphicsVars, turnVars, rawVars, NextTime
<1>2. Called(c) /\ ~Called(c)'
  <2>1. PICK i \in 1..Len(inputs) : inputs[i] = c
    BY DEF InputsOnce, GivenAreInputs
  <2>2. i \in 1..(turn - 1) /\ i <= Len(inputs)
    BY <1>0
  <2>3. Called(c)
    BY <2>1, <2>2 DEF Called
  <2>4. ~Called(c)'
    BY <1>0 DEF Called
  <2> QED
    BY <2>3, <2>4
<1>3. /\ seen[c].time = InUse(0).time /\ seen[c].session = InUse(0).session
      /\ seen[c].session <= session /\ seen[c].time \in Nat
  BY <1>2 DEF InStep, GivenFirst, SeenTypes, Given
<1>4. seen'[c].session <= session'
  BY <1>0, <1>1, <1>3
<1>5. (Released \/ HandedOut) /\ 0 \in 0..(Filled - 1) /\ FillCounted
  BY <1>1, FinishedFrames, FillCounts DEF RingInv
<1>6. InUse(0) \in Frame
  BY <1>5, InUseTyped DEF RingInv
<1>7. CASE HandedOut
  <2>1. PICK f, g : f = InUse(0) /\ g = InUse(0)'
    OBVIOUS
  <2>2. g = Remaining(f) /\ f \in Frame
    BY <1>6, <1>7, <2>1 DEF HandedOut
  <2>3. g.time = f.time + 1 /\ g.session = f.session
    BY <2>2, FrameRemaining
  <2>4. WaitsForFirst(c)'
    BY <1>0, <1>3, <2>1, <2>3 DEF WaitsForFirst
  <2>5. Filled' # 0
    BY <1>5, <1>7 DEF HandedOut, FillCounted
  <2>6. WaitsForNext(c)'
    BY <2>5 DEF WaitsForNext
  <2> QED
    BY <1>2, <1>4, <2>4, <2>6 DEF InStep
<1>8. CASE Released
  <2>1. End(InUse(0)) = seen[c].time + 1 /\ Filled' = Filled - 1
    BY <1>3, <1>8 DEF Released, End
  <2>2. CASE Filled = 1
    <3>1. Filled' = 0 /\ 0 = Filled - 1
      BY <2>1, <2>2
    <3>2. /\ seen[c].time + 1 <= NextTime
          /\ rawWasActive /\ seen[c].session = session => seen[c].time + 1 = NextTime
      BY <1>3, <1>5, <2>1, <3>1 DEF FramesFollow, EndBeforeNext, LastMeetsNext
    <3>3. WaitsForNext(c)'
      BY <1>0, <1>1, <3>2 DEF WaitsForNext
    <3>4. WaitsForFirst(c)'
      BY <3>1 DEF WaitsForFirst
    <3> QED
      BY <1>2, <1>4, <3>3, <3>4 DEF InStep
  <2>3. CASE Filled # 1
    <3>1. 0 \in 0..(Filled - 2) /\ 1 \in 0..(Filled - 1) /\ Filled' # 0
      BY <1>5, <2>1, <2>3 DEF FillCounted
    <3>2. InUse(0)' = InUse(1)
      <4>1. InUse(0)' = InUse(0 + 1)
        BY <1>8, <3>1 DEF Released
      <4> QED
        BY <4>1
    <3>3. /\ End(InUse(0)) <= InUse(1).time
          /\ InUse(0).session = InUse(1).session => End(InUse(0)) = InUse(1).time
      <4>1. InTimeOrder /\ WithoutGap /\ 0 < 1 /\ 1 = 0 + 1
        BY DEF FramesFollow
      <4> QED
        BY <1>5, <3>1, <4>1 DEF InTimeOrder, WithoutGap
    <3>4. WaitsForFirst(c)'
      BY <1>0, <1>3, <2>1, <3>2, <3>3 DEF WaitsForFirst
    <3>5. WaitsForNext(c)'
      BY <3>1 DEF WaitsForNext
    <3> QED
      BY <1>2, <1>4, <3>4, <3>5 DEF InStep
  <2> QED
    BY <2>2, <2>3
<1> QED
  BY <1>5, <1>7, <1>8

LEMMA OthersInStep ==
    ASSUME TurnTypes, SeenTypes, RawInv, NextTimeGoesOn,
           cache' = cache, firstAdded' = firstAdded, Filled' = Filled,
           NEW c \in Consumers, InStep(c), seen'[c] = seen[c], Called(c)' <=> Called(c)
    PROVE  InStep(c)'
<1>1. InUse(0)' = InUse(0)
  BY FramesKept
<1>2. /\ session \in Nat /\ NextTime \in Nat /\ seen[c].session \in Nat
      /\ seen[c].time \in Nat /\ seen[c].session <= session
  BY NextTimeTyped DEF RawInv, RawTypes, SeenTypes, Given, InStep
<1>3. seen'[c].session <= session'
  BY <1>2 DEF NextTimeGoesOn
<1>4. GivenFirst(c) => GivenFirst(c)'
  BY <1>1 DEF GivenFirst
<1>5. WaitsForFirst(c) => WaitsForFirst(c)'
  BY <1>1 DEF WaitsForFirst
<1>6. WaitsForNext(c) => WaitsForNext(c)'
  <2> SUFFICES ASSUME WaitsForNext(c), Filled = 0
               PROVE  /\ seen[c].time + 1 <= NextTime'
                      /\ rawWasActive' /\ seen[c].session = session' =>
                             seen[c].time + 1 = NextTime'
    BY DEF WaitsForNext
  <2>1. /\ seen[c].time + 1 <= NextTime
        /\ rawWasActive /\ seen[c].session = session => seen[c].time + 1 = NextTime
    BY DEF WaitsForNext
  <2>2. seen[c].time + 1 <= NextTime'
    BY <1>2, <2>1 DEF NextTimeGoesOn
  <2>3. ASSUME rawWasActive', seen[c].session = session'
        PROVE  seen[c].time + 1 = NextTime'
    <3>1. session' = session
      BY <1>2, <2>3 DEF NextTimeGoesOn
    <3> QED
      BY <2>1, <2>3, <3>1 DEF NextTimeGoesOn
  <2> QED
    BY <2>2, <2>3
<1> QED
  BY <1>3, <1>4, <1>5, <1>6 DEF InStep

LEMMA CallInputInStep ==
    ASSUME ThreadTypes, UserTypes, SeenTypes, RawInv, RingInv, FramesFollow,
           CallInput, UNCHANGED graphicsVars, NEW c \in Consumers, c = inputs[turn]
    PROVE  InStep(c)'
<1>0. /\ seen' = [seen EXCEPT ![c] =
                    [time |-> cache[frameInfo].time, picture |-> cache[frameInfo].picture,
                     session |-> cache[frameInfo].session]]
      /\ thread = "calling" /\ turn \in 1..Len(inputs) /\ turn' = turn + 1
      /\ inputs' = inputs /\ UNCHANGED ring
  BY DEF CallInput, ThreadTypes, UserTypes
<1>1. frameInfo = firstAdded /\ Ready > 0 /\ firstAdded \in Slots
  BY <1>0 DEF RingInv, RingTypes, ThreadInStep, Busy
<1>2. InUse(0) = cache[frameInfo] /\ 0 \in 0..(Filled - 1) /\ Filled > 0
  BY <1>1, AtFirst, FillCounts DEF RingInv, FillCounted, InUse
<1>3. /\ InUse(0)' = InUse(0) /\ Filled' = Filled /\ session' = session
  BY <1>0, FramesKept DEF ring, graphicsVars, turnVars, rawVars, Filled, Ready
<1>4. seen'[c].time = InUse(0).time /\ seen'[c].session = InUse(0).session
  BY <1>0, <1>2 DEF SeenTypes
<1>5. seen'[c].session <= session'
  BY <1>2, <1>3, <1>4 DEF FramesFollow, SessionsKnown
<1>6. Called(c)'
  <2>1. turn \in 1..(turn' - 1) /\ turn <= Len(inputs') /\ inputs'[turn] = c
    BY <1>0 DEF ThreadTypes
  <2> QED
    BY <2>1 DEF Called
<1>7. GivenFirst(c)'
  BY <1>2, <1>3, <1>4 DEF GivenFirst
<1> QED
  BY <1>5, <1>6, <1>7 DEF InStep

LEMMA CallsKept ==
    ASSUME ThreadTypes, UserTypes, SeenTypes, RingInv, [Next]_vars, ~FinishFrame,
           NEW c \in Consumers, seen'[c] # NoFrame
    PROVE  \/ CallInput /\ UNCHANGED graphicsVars /\ c = inputs[turn]
           \/ seen'[c] = seen[c] /\ (Called(c)' <=> Called(c))
<1>1. CASE CallInput /\ UNCHANGED graphicsVars
  <2>1. /\ turn \in 1..Len(inputs) /\ turn' = turn + 1 /\ inputs' = inputs
        /\ c # inputs[turn] => seen'[c] = seen[c]
    BY <1>1 DEF CallInput, ThreadTypes, UserTypes, SeenTypes
  <2>2. ASSUME c # inputs[turn] PROVE Called(c)' <=> Called(c)
    <3>1. \A k : k \in 1..(turn' - 1) <=> k \in 1..(turn - 1) \/ k = turn
      BY <2>1
    <3> QED
      BY <2>1, <2>2, <3>1 DEF Called
  <2> QED
    BY <1>1, <2>1, <2>2
<1>2. CASE \E d \in Consumers : User(d)
  <2>1. PICK d \in Consumers : User(d)
    BY <1>2
  <2>2. turn' = turn
    BY <2>1 DEF User, StartRaw, Connect, StopRaw, Disconnect, videoThread
  <2>3. CASE StartRaw(d) \/ StopRaw(d)
    BY <2>2, <2>3 DEF StartRaw, StopRaw, Called
  <2>4. CASE Connect(d) \/ Disconnect(d)
    <3>1. turn = 1
      BY <2>4 DEF Connect, Disconnect, RingInv, ThreadInStep
    <3>2. ~Called(c) /\ ~Called(c)'
      BY <2>2, <3>1 DEF Called
    <3>3. seen'[c] = seen[c]
      BY <2>4 DEF Connect, Disconnect, SeenTypes
    <3> QED
      BY <3>2, <3>3
  <2> QED
    BY <2>1, <2>3, <2>4 DEF User
<1>3. CASE UNCHANGED <<seen, inputs, turn>>
  BY <1>3 DEF Called
<1>4. \/ CallInput /\ UNCHANGED graphicsVars
      \/ \E d \in Consumers : User(d)
      \/ UNCHANGED <<seen, inputs, turn>>
  BY DEF Next, Graphics, LoopStart, OutputFrame, LockFrame, UnlockOutput, Sleep, StartGpu,
     TakeTexture, GiveBackTexture, VideoThread, Woken, SameFrame, StopOutput,
     Joined, vars, outputVars, videoThread
<1> QED
  BY <1>1, <1>2, <1>3, <1>4

LEMMA SeenStaysInStep ==
    ASSUME ControlTypes, ControlTypes', SeenTypes, RawInv, RawInv', RingInv, FramesFollow,
           InputsOnce, SeenInStep, [Next]_vars
    PROVE  SeenInStep'
<1> USE DEF ControlTypes
<1> SUFFICES ASSUME NEW c \in Consumers, seen'[c] # NoFrame
             PROVE  InStep(c)'
  BY DEF SeenInStep, NoFrame
<1>1. CASE LockFrame
  <2>1. seen' = seen /\ inputs' = inputs /\ turn' = turn
    BY <1>1 DEF LockFrame, videoThread
  <2> QED
    BY <1>1, <2>1, LockFrameInStep DEF SeenInStep
<1>2. CASE FinishFrame /\ UNCHANGED graphicsVars
  <2>1. seen' = seen
    BY <1>2 DEF FinishFrame
  <2> QED
    BY <1>2, <2>1, FinishFrameInStep DEF SeenInStep
<1>3. CASE /\ ~LockFrame /\ ~FinishFrame
           /\ cache' = cache /\ firstAdded' = firstAdded /\ Filled' = Filled
  <2>1. NextTimeGoesOn
    BY <1>3, TimeGoesOn
  <2>2. CASE CallInput /\ UNCHANGED graphicsVars /\ c = inputs[turn]
    BY <2>2, CallInputInStep
  <2>3. CASE seen'[c] = seen[c] /\ (Called(c)' <=> Called(c))
    <3>1. InStep(c)
      BY <2>3 DEF SeenInStep
    <3> QED
      BY <1>3, <2>1, <2>3, <3>1, OthersInStep
  <2> QED
    BY <1>3, <2>2, <2>3, CallsKept
<1>4. FinishFrame => UNCHANGED graphicsVars
  BY DEF FinishFrame, Next, Graphics, LoopStart, OutputFrame, LockFrame, UnlockOutput, Sleep,
     StartGpu, TakeTexture, GiveBackTexture, vars, outputVars, videoThread, ThreadTypes
<1> QED
  BY <1>1, <1>2, <1>3, <1>4, OthersKeepFrames DEF RingInv

LEMMA SeenHold == Spec => []SeenInStep
<1>1. Init => SeenInStep
  BY DEF Init, OutputInit, SeenInStep
<1> DEFINE Frames == SeenTypes /\ FramesSound /\ SeenOfTheirTime
           Follow == FramesFollow /\ InputsOnce
<1>2. /\ ControlTypes /\ ControlTypes' /\ RawInv /\ RawInv' /\ RingInv /\ Frames /\ Follow
      /\ SeenInStep /\ [Next]_vars
      => SeenInStep'
  BY SeenStaysInStep
<1> HIDE DEF Frames, Follow
<1>3. Spec => []Frames /\ []Follow
  BY FramesHold, FollowHold DEF Frames, Follow
<1> QED
  BY <1>1, <1>2, <1>3, ControlHolds, RawHolds, RingHolds, PTL DEF Spec

LEMMA GivenTheNext ==
    ASSUME ThreadTypes, UserTypes, SeenTypes, RawInv, RingInv, InputsOnce, SeenInStep,
           CallInput, NEW c \in Consumers, seen[c] # NoFrame, seen'[c] # seen[c]
    PROVE  /\ seen'[c].time > seen[c].time
           /\ seen'[c].session = seen[c].session => seen'[c].time = seen[c].time + 1
<1>0. /\ seen' = [seen EXCEPT ![inputs[turn]] =
                    [time |-> cache[frameInfo].time, picture |-> cache[frameInfo].picture,
                     session |-> cache[frameInfo].session]]
      /\ thread = "calling" /\ turn \in 1..Len(inputs) /\ turn \in Nat
  BY DEF CallInput, ThreadTypes, UserTypes
<1>1. c = inputs[turn]
  BY <1>0 DEF SeenTypes
<1>2. ~Called(c)
  BY <1>0, <1>1 DEF Called, InputsOnce, NoneTwice
<1>3. frameInfo = firstAdded /\ Ready > 0 /\ firstAdded \in Slots
  BY <1>0 DEF RingInv, RingTypes, ThreadInStep, Busy
<1>4. InUse(0) = cache[frameInfo] /\ 0 \in 0..(Filled - 1) /\ Filled > 0
  BY <1>3, AtFirst, FillCounts DEF RingInv, FillCounted, InUse
<1>5. seen'[c].time = InUse(0).time /\ seen'[c].session = InUse(0).session
  BY <1>0, <1>1, <1>4 DEF SeenTypes
<1>6. /\ seen[c].time + 1 <= InUse(0).time
      /\ seen[c].session = InUse(0).session => seen[c].time + 1 = InUse(0).time
  BY <1>2, <1>4 DEF SeenInStep, InStep, WaitsForFirst
<1>7. InUse(0).time \in Nat /\ seen[c].time \in Nat
  BY <1>4, FrameTimes DEF SeenTypes, Given
<1> QED
  BY <1>5, <1>6, <1>7

(* A consumer that stays connected is called once for every interval of a  *)
(* session, in order, whatever the output merged and whenever consumers    *)
(* came and went.                                                          *)
THEOREM EveryIntervalOnceHolds == Spec => EveryIntervalOnce
<1> DEFINE Once == \A c \in Consumers :
          seen'[c] # seen[c] /\ seen[c] # NoFrame /\ seen'[c] # NoFrame =>
              /\ seen'[c].time > seen[c].time
              /\ seen'[c].session = seen[c].session =>
                     seen'[c].time = seen[c].time + 1
           Frames == SeenTypes /\ FramesSound /\ SeenOfTheirTime
           Follow == FramesFollow /\ InputsOnce
<1>1. /\ ControlTypes /\ RawInv /\ RingInv /\ Frames /\ Follow /\ SeenInStep /\ [Next]_vars
      => [Once]_vars
  <2> SUFFICES ASSUME ControlTypes, RawInv, RingInv, SeenTypes, InputsOnce, SeenInStep,
                      [Next]_vars, NEW c \in Consumers,
                      seen'[c] # seen[c], seen[c] # NoFrame, seen'[c] # NoFrame
               PROVE  /\ seen'[c].time > seen[c].time
                      /\ seen'[c].session = seen[c].session =>
                             seen'[c].time = seen[c].time + 1
    OBVIOUS
  <2>1. CASE CallInput
    BY <2>1, GivenTheNext DEF ControlTypes
  <2>2. CASE \E d \in Consumers : User(d)
    <3>1. PICK d \in Consumers : User(d)
      BY <2>2
    <3>2. seen' = seen \/ seen' = [seen EXCEPT ![d] = NoFrame]
      BY <3>1 DEF User, StartRaw, Connect, StopRaw, Disconnect
    <3> QED
      BY <3>2 DEF SeenTypes
  <2> QED
    BY <2>1, <2>2, SeenMoves
<1> HIDE DEF Frames, Follow
<1>2. Spec => []Frames /\ []Follow
  BY FramesHold, FollowHold DEF Frames, Follow
<1>3. Spec => [][Once]_vars
  BY <1>1, <1>2, ControlHolds, RawHolds, RingHolds, SeenHold, PTL DEF Spec
<1> QED
  BY <1>3 DEF EveryIntervalOnce

-----------------------------------------------------------------------------
(* The intervals of the frames that are ready, as FrameClock has them.     *)
Stands(f, t) == t \in f.time..(f.time + f.count - 1)

OwedAre == \A t : t \in Owed <=> \E i \in 0..(Ready - 1) : Stands(InUse(i), t)

LEMMA OwedIntervals == OwedAre /\ OwedAre'
  BY DEF OwedAre, Owed, Stands, Ready, InUse, At

LEMMA OwedKept ==
    ASSUME Ready' = Ready, \A i \in 0..(Ready - 1) : InUse(i)' = InUse(i)
    PROVE  Owed' = Owed
<1>1. \A t : t \in Owed' <=> t \in Owed
  BY OwedIntervals DEF OwedAre, Stands
<1>2. Owed \subseteq Int /\ Owed' \subseteq Int
  BY OwedIntervals DEF OwedAre, Stands
<1> QED
  BY <1>1, <1>2

(* A frame that stands for the intervals behind those that are owed is     *)
(* given.                                                                  *)
LEMMA FrameGiven ==
    ASSUME NEW from \in Int, NEW to \in Int,
           \A t : t \in Owed' <=> t \in Owed \/ t \in from..(to - 1),
           \A t \in Owed : t \in Int /\ t < from
    PROVE  Clock!Give
<1>1. Owed \subseteq Owed'
  OBVIOUS
<1>2. ASSUME NEW new \in Owed' \ Owed
      PROVE  /\ \A old \in Owed : old < new
             /\ \A later \in Owed' \ Owed : new..later \subseteq Owed'
  <2>1. new \in from..(to - 1)
    BY <1>2
  <2>2. \A old \in Owed : old < new
    BY <2>1
  <2>3. ASSUME NEW later \in Owed' \ Owed, NEW t \in new..later
        PROVE  t \in Owed'
    <3>1. later \in from..(to - 1)
      BY <2>3
    <3>2. t \in from..(to - 1)
      BY <2>1, <3>1
    <3> QED
      BY <3>2
  <2> QED
    BY <2>2, <2>3
<1> QED
  BY <1>1, <1>2 DEF Clock!Give

(* The earliest interval is handed out.                                    *)
LEMMA IntervalHandedOut ==
    ASSUME NEW now \in Int, now \in Owed,
           \A t \in Owed : t \in Int /\ now <= t,
           \A t : t \in Owed' <=> t \in Owed /\ t # now
    PROVE  Clock!HandOut
<1>1. Owed' = Owed \ {now}
  OBVIOUS
<1> QED
  BY <1>1 DEF Clock!HandOut

(* The frames that are ready stand for at least one interval each.         *)
LEMMA FramesInOrder ==
    ASSUME RingInv, FramesSound, FramesFollow
    PROVE  /\ FillCounted
           /\ \A i \in 0..(Ready - 1) :
                 /\ i \in 0..(Filled - 1)
                 /\ InUse(i).time \in Nat /\ InUse(i).count \in Nat \ {0}
           /\ \A i \in 0..(Filled - 1) :
                 InUse(i).time \in Nat /\ InUse(i).count \in Nat \ {0}
           /\ \A i, j \in 0..(Filled - 1) :
                 i < j => InUse(i).time + InUse(i).count <= InUse(j).time
<1>1. FillCounted
  BY FillCounts DEF RingInv
<1>2. \A i \in 0..(Ready - 1) : i \in 0..(Filled - 1)
  BY <1>1 DEF FillCounted
<1>3. ASSUME NEW i \in 0..(Filled - 1)
      PROVE  InUse(i).time \in Nat /\ InUse(i).count \in Nat \ {0}
  <2>1. InUse(i) \in Frame /\ Sound(InUse(i))
    BY InUseTyped DEF RingInv, FramesSound
  <2>2. PICK f : f = InUse(i)
    OBVIOUS
  <2>3. f.time \in Nat /\ f.count \in Int /\ f.skipped \in Int /\ f.skipped >= 0
        /\ f.count > f.skipped
    BY <2>1, <2>2 DEF Sound, Frame
  <2> QED
    BY <2>2, <2>3
<1>4. \A i, j \in 0..(Filled - 1) :
          i < j => InUse(i).time + InUse(i).count <= InUse(j).time
  BY DEF FramesFollow, InTimeOrder, End
<1> QED
  BY <1>1, <1>2, <1>3, <1>4

LEMMA UnlockGives ==
    ASSUME RingInv, FramesSound, FramesFollow, UnlockOutput
    PROVE  Clock!Give
<1>0. /\ FillCounted
      /\ \A i \in 0..(Filled - 1) :
            InUse(i).time \in Nat /\ InUse(i).count \in Nat \ {0}
      /\ \A i, j \in 0..(Filled - 1) :
            i < j => InUse(i).time + InUse(i).count <= InUse(j).time
  BY FramesInOrder
<1>1. /\ loop = "unlock" /\ available' = available - 1
      /\ UNCHANGED <<cache, firstAdded>>
  BY DEF UnlockOutput, UnlockFrame
<1>2. Ready' = Ready + 1 /\ Filled = Ready + 1 /\ Ready \in Nat
  BY <1>0, <1>1 DEF Ready, FillCounted
<1>3. \A i : InUse(i)' = InUse(i)
  BY <1>1, FramesKept
<1>4. PICK f : f = InUse(Ready)
  OBVIOUS
<1>5. f.time \in Nat /\ f.count \in Nat \ {0}
  BY <1>0, <1>2, <1>4
<1>6. PICK from \in Int, to \in Int : from = f.time /\ to = f.time + f.count
  BY <1>5
<1>7. ASSUME NEW t
      PROVE  t \in Owed' <=> t \in Owed \/ t \in from..(to - 1)
  <2>1. t \in Owed' <=> \E i \in 0..Ready : Stands(InUse(i), t)
    <3>1. t \in Owed' <=> \E i \in 0..(Ready' - 1) : Stands(InUse(i)', t)
      BY OwedIntervals DEF OwedAre, Stands
    <3>2. Ready' - 1 = Ready
      BY <1>2
    <3> QED
      BY <1>3, <3>1, <3>2
  <2>2. t \in Owed <=> \E i \in 0..(Ready - 1) : Stands(InUse(i), t)
    BY OwedIntervals DEF OwedAre
  <2>3. Stands(f, t) <=> t \in from..(to - 1)
    BY <1>5, <1>6 DEF Stands
  <2>4. \A i : i \in 0..Ready <=> i \in 0..(Ready - 1) \/ i = Ready
    BY <1>2
  <2> QED
    BY <1>4, <2>1, <2>2, <2>3, <2>4
<1>8. ASSUME NEW t \in Owed
      PROVE  t \in Int /\ t < from
  <2>1. PICK i \in 0..(Ready - 1) : Stands(InUse(i), t)
    BY OwedIntervals DEF OwedAre
  <2>2. i \in 0..(Filled - 1) /\ Ready \in 0..(Filled - 1) /\ i < Ready
    BY <1>2
  <2>3. /\ InUse(i).time + InUse(i).count <= f.time
        /\ InUse(i).time \in Nat /\ InUse(i).count \in Nat
    BY <1>0, <1>4, <2>2
  <2> QED
    BY <1>5, <1>6, <2>1, <2>3 DEF Stands
<1> QED
  BY <1>6, <1>7, <1>8, FrameGiven

LEMMA MergeGives ==
    ASSUME TurnTypes, RawInv, RingInv, FramesSound, FramesFollow, LockFrame, Merged(frame)
    PROVE  Clock!Give
<1>0. /\ FillCounted
      /\ \A i \in 0..(Filled - 1) :
            InUse(i).time \in Nat /\ InUse(i).count \in Nat \ {0}
      /\ \A i, j \in 0..(Filled - 1) :
            i < j => InUse(i).time + InUse(i).count <= InUse(j).time
  BY FramesInOrder
<1>1. /\ Ready' = Ready /\ loop = "output" /\ Filled = CacheSize
      /\ frame.count \in Nat \ {0}
  BY LockedFrames, LockFrameTimes DEF RawInv, RingInv, LockFrame, Merged
<1>2. PICK last : last = Ready - 1
  OBVIOUS
<1>3. Filled = Ready /\ Ready \in Nat \ {0} /\ last \in 0..(Filled - 1)
  BY <1>0, <1>1, <1>2 DEF FillCounted
<1>4. PICK f, g : f = InUse(last) /\ g = InUse(last)'
  OBVIOUS
<1>5. g.time = f.time /\ g.count = f.count + frame.count
  <2>1. g = [f EXCEPT !.count = @ + frame.count, !.skipped = @ + frame.count]
    BY <1>2, <1>3, <1>4 DEF Merged
  <2>2. f \in Frame
    BY <1>3, <1>4, InUseTyped DEF RingInv
  <2> QED
    BY <2>1, <2>2 DEF Frame
<1>6. f.time \in Nat /\ f.count \in Nat \ {0}
  BY <1>0, <1>3, <1>4
<1>7. PICK from \in Int, to \in Int :
          from = f.time + f.count /\ to = f.time + f.count + frame.count
  BY <1>1, <1>6
<1>8. \A t : Stands(g, t) <=> Stands(f, t) \/ t \in from..(to - 1)
  BY <1>1, <1>5, <1>6, <1>7 DEF Stands
<1>9. \A i : i \in 0..(Ready - 1) <=> i \in 0..(Ready - 2) \/ i = last
  BY <1>2, <1>3
<1>10. \A i \in 0..(Ready - 2) : InUse(i)' = InUse(i)
  BY <1>3 DEF Merged
<1>11. ASSUME NEW t
      PROVE  t \in Owed' <=> t \in Owed \/ t \in from..(to - 1)
  <2>1. t \in Owed' <=> \E i \in 0..(Ready - 1) : Stands(InUse(i)', t)
    <3>1. t \in Owed' <=> \E i \in 0..(Ready' - 1) : Stands(InUse(i)', t)
      BY OwedIntervals DEF OwedAre, Stands
    <3> QED
      BY <1>1, <3>1
  <2>2. t \in Owed <=> \E i \in 0..(Ready - 1) : Stands(InUse(i), t)
    BY OwedIntervals DEF OwedAre
  <2>3. t \in Owed' <=> (\E i \in 0..(Ready - 2) : Stands(InUse(i), t)) \/ Stands(g, t)
    BY <1>4, <1>9, <1>10, <2>1
  <2>4. t \in Owed <=> (\E i \in 0..(Ready - 2) : Stands(InUse(i), t)) \/ Stands(f, t)
    BY <1>4, <1>9, <2>2
  <2> QED
    BY <1>8, <2>3, <2>4
<1>12. ASSUME NEW t \in Owed
      PROVE  t \in Int /\ t < from
  <2>1. PICK i \in 0..(Ready - 1) : Stands(InUse(i), t)
    BY OwedIntervals DEF OwedAre
  <2>2. InUse(i).time \in Nat /\ InUse(i).count \in Nat
    BY <1>0, <1>3
  <2>3. i # last => InUse(i).time + InUse(i).count <= f.time
    <3>1. i # last => i < last
      BY <1>2, <1>3
    <3> QED
      BY <1>0, <1>3, <1>4, <3>1
  <2> QED
    BY <1>4, <1>6, <1>7, <2>1, <2>2, <2>3 DEF Stands
<1> QED
  BY <1>7, <1>11, <1>12, FrameGiven

(* The frame handed out for the interval at which it begins is the first.  *)
LEMMA FinishHandsOut ==
    ASSUME TurnTypes, RawInv, RingInv, FramesSound, FramesFollow,
           FinishFrame, UNCHANGED graphicsVars
    PROVE  Clock!HandOut
<1>0. /\ FillCounted
      /\ \A i \in 0..(Ready - 1) : i \in 0..(Filled - 1)
      /\ \A i \in 0..(Filled - 1) :
            InUse(i).time \in Nat /\ InUse(i).count \in Nat \ {0}
      /\ \A i, j \in 0..(Filled - 1) :
            i < j => InUse(i).time + InUse(i).count <= InUse(j).time
  BY FramesInOrder
<1>1. (Released \/ HandedOut) /\ 0 \in 0..(Filled - 1) /\ Ready > 0 /\ Ready \in Nat
  BY <1>0, FinishedFrames DEF graphicsVars, turnVars, FillCounted
<1>2. PICK f : f = InUse(0)
  OBVIOUS
<1>3. f.time \in Nat /\ f.count \in Nat \ {0} /\ f \in Frame
  BY <1>0, <1>1, <1>2, InUseTyped DEF RingInv
<1>4. PICK now \in Int : now = f.time
  BY <1>3
<1>5. \A i : i \in 0..(Ready - 1) <=> i = 0 \/ i \in 1..(Ready - 1)
  BY <1>1
<1>6. ASSUME NEW i \in 1..(Ready - 1)
      PROVE  /\ InUse(i).time \in Nat /\ InUse(i).count \in Nat
             /\ f.time + f.count <= InUse(i).time
  <2>1. i \in 0..(Filled - 1) /\ 0 < i
    BY <1>0, <1>5
  <2> QED
    BY <1>0, <1>1, <1>2, <2>1
<1>7. \A t : t \in Owed <=> Stands(f, t) \/ \E i \in 1..(Ready - 1) : Stands(InUse(i), t)
  BY <1>2, <1>5, OwedIntervals DEF OwedAre
<1>8. \A t : Stands(f, t) => t \in Int /\ now <= t
  BY <1>3, <1>4 DEF Stands
<1>9. \A t : \A i \in 1..(Ready - 1) : Stands(InUse(i), t) => t \in Int /\ now < t
  BY <1>3, <1>4, <1>6 DEF Stands
<1>10. now \in Owed /\ \A t \in Owed : t \in Int /\ now <= t
  <2>1. Stands(f, now)
    BY <1>3, <1>4 DEF Stands
  <2> QED
    BY <1>7, <1>8, <1>9, <2>1
<1>11. CASE Released
  <2>1. Ready' = Ready - 1 /\ f.count = 1
    BY <1>2, <1>11 DEF Released
  <2>2. \A i \in 0..(Filled - 2) : InUse(i)' = InUse(i + 1)
    BY <1>11 DEF Released
  <2>3. ASSUME NEW t
        PROVE  t \in Owed' <=> \E i \in 1..(Ready - 1) : Stands(InUse(i), t)
    <3>1. t \in Owed' <=> \E i \in 0..(Ready' - 1) : Stands(InUse(i)', t)
      BY OwedIntervals DEF OwedAre, Stands
    <3>2. ASSUME NEW i \in 0..(Ready' - 1), Stands(InUse(i)', t)
          PROVE  \E k \in 1..(Ready - 1) : Stands(InUse(k), t)
      <4>1. i \in 0..(Filled - 2) /\ i + 1 \in 1..(Ready - 1)
        BY <1>0, <1>1, <2>1 DEF FillCounted
      <4>2. InUse(i)' = InUse(i + 1)
        BY <2>2, <4>1
      <4>3. Stands(InUse(i + 1), t)
        BY <3>2, <4>2
      <4> QED
        BY <4>1, <4>3
    <3>3. ASSUME NEW k \in 1..(Ready - 1), Stands(InUse(k), t)
          PROVE  \E i \in 0..(Ready' - 1) : Stands(InUse(i)', t)
      <4>1. PICK i : i = k - 1
        OBVIOUS
      <4>2. i \in 0..(Filled - 2) /\ i \in 0..(Ready' - 1) /\ i + 1 = k
        BY <1>0, <1>1, <2>1, <4>1 DEF FillCounted
      <4>3. InUse(i)' = InUse(k)
        BY <2>2, <4>2
      <4>4. Stands(InUse(i)', t)
        BY <3>3, <4>3
      <4> QED
        BY <4>2, <4>4
    <3> QED
      BY <3>1, <3>2, <3>3
  <2>4. \A t : Stands(f, t) <=> t = now
    BY <1>3, <1>4, <2>1 DEF Stands
  <2>5. \A t : t \in Owed' <=> t \in Owed /\ t # now
    BY <1>7, <1>9, <2>3, <2>4
  <2> QED
    BY <1>10, <2>5, IntervalHandedOut
<1>12. CASE HandedOut
  <2>1. PICK g : g = InUse(0)'
    OBVIOUS
  <2>2. g = Remaining(f) /\ Ready' = Ready
    BY <1>2, <1>12, <2>1 DEF HandedOut
  <2>3. g.time = f.time + 1 /\ g.count = f.count - 1
    BY <1>3, <2>2, FrameRemaining
  <2>4. \A i \in 1..(Ready - 1) : InUse(i)' = InUse(i)
    <3>1. \A i \in 1..(Ready - 1) : i \in 1..(Filled - 1)
      BY <1>0, <1>1 DEF FillCounted
    <3> QED
      BY <1>12, <3>1 DEF HandedOut
  <2>5. ASSUME NEW t
        PROVE  t \in Owed' <=> Stands(g, t) \/ \E i \in 1..(Ready - 1) : Stands(InUse(i), t)
    <3>1. t \in Owed' <=> \E i \in 0..(Ready' - 1) : Stands(InUse(i)', t)
      BY OwedIntervals DEF OwedAre, Stands
    <3>2. t \in Owed' <=> \E i \in 0..(Ready - 1) : Stands(InUse(i)', t)
      BY <2>2, <3>1
    <3> QED
      BY <1>5, <2>1, <2>4, <3>2
  <2>6. \A t : Stands(g, t) <=> Stands(f, t) /\ t # now
    BY <1>3, <1>4, <2>3 DEF Stands
  <2>7. \A t : t \in Owed' <=> t \in Owed /\ t # now
    BY <1>7, <1>9, <2>5, <2>6
  <2> QED
    BY <1>10, <2>7, IntervalHandedOut
<1> QED
  BY <1>1, <1>11, <1>12

LEMMA StepImplements ==
    ASSUME TurnTypes, RawInv, RingInv, FramesSound, FramesFollow, [Next]_vars
    PROVE  [Clock!Next]_Owed
<1>1. CASE LockFrame
  <2>1. CASE Merged(frame)
    BY <1>1, <2>1, MergeGives DEF Clock!Next
  <2>2. CASE Claimed(frame)
    <3>1. Ready' = Ready /\ Filled = Ready
      BY <1>1, LockedFrames, FillCounts DEF RawInv, RingInv, LockFrame, FillCounted
    <3>2. Owed' = Owed
      BY <2>2, <3>1, OwedKept DEF Claimed
    <3> QED
      BY <3>2
  <2> QED
    BY <1>1, <2>1, <2>2, LockedFrames DEF RawInv, RingInv
<1>2. CASE FinishFrame /\ UNCHANGED graphicsVars
  BY <1>2, FinishHandsOut DEF Clock!Next
<1>3. CASE UnlockOutput
  BY <1>3, UnlockGives DEF Clock!Next
<1>4. CASE UNCHANGED <<cache, firstAdded, available>>
  <2>1. Ready' = Ready
    BY <1>4 DEF Ready
  <2>2. Owed' = Owed
    BY <1>4, <2>1, FramesKept, OwedKept
  <2> QED
    BY <2>2
<1>5. CASE LoopStart \/ OutputFrame \/ Sleep \/ StartGpu \/ TakeTexture \/ GiveBackTexture
  BY <1>4, <1>5 DEF LoopStart, OutputFrame, Sleep, StartGpu, TakeTexture, GiveBackTexture,
       outputVars, ring
<1>6. CASE Woken \/ SameFrame \/ CallInput \/ StopOutput \/ Joined
  BY <1>4, <1>6 DEF Woken, SameFrame, CallInput, StopOutput, Joined, ring
<1>7. CASE \E c \in Consumers : User(c)
  BY <1>4, <1>7 DEF User, StartRaw, Connect, StopRaw, Disconnect, ring
<1>8. CASE UNCHANGED vars
  BY <1>4, <1>8 DEF vars, outputVars, ring
<1> QED
  BY <1>1, <1>2, <1>3, <1>5, <1>6, <1>7, <1>8 DEF Next, Graphics, VideoThread

(* The video output with its ring hands out every interval given to it,    *)
(* each once and in order, as FrameClock promises its users.               *)
THEOREM OutputImplementsClock == Spec => ImplementsFrameClock
<1>1. Init => Clock!Init
  <2> SUFFICES ASSUME Init PROVE Owed = {}
    BY DEF Clock!Init
  <2>1. Ready = 0
    BY OutputAssumption DEF Init, OutputInit, Ready
  <2>2. \A t : t \notin Owed
    BY <2>1, OwedIntervals DEF OwedAre
  <2> QED
    BY <2>2
<1> DEFINE Frames == SeenTypes /\ FramesSound /\ SeenOfTheirTime
           Follow == FramesFollow /\ InputsOnce
<1>2. ControlTypes /\ RawInv /\ RingInv /\ Frames /\ Follow /\ [Next]_vars
      => [Clock!Next]_Owed
  BY StepImplements DEF ControlTypes
<1> HIDE DEF Frames, Follow
<1>3. Spec => []Frames /\ []Follow
  BY FramesHold, FollowHold DEF Frames, Follow
<1> QED
  BY <1>1, <1>2, <1>3, ControlHolds, RawHolds, RingHolds, PTL
     DEF Spec, ImplementsFrameClock, Clock!Spec

-----------------------------------------------------------------------------
(* The circular buffer: where its elements are.                            *)
(* The places of a circular buffer.  Where start and end are in it, and    *)
(* how many elements, says where each of them is: the i-th, from 0, is at  *)
(* Spot(start, capacity, i).                                               *)
Texture == [picture : Nat, count : Nat]

Spot(start, capacity, i) ==
    IF start + i < capacity THEN start + i ELSE start + i - capacity

Wraps(start, end, size, capacity) ==
    /\ start < capacity
    /\ end = start + size \/ (start > 0 /\ end = start + size - capacity)

Ring(data, start, end, size, capacity) ==
    /\ start \in Nat /\ end \in Nat /\ size \in Nat /\ capacity \in Nat
    /\ data \in [0..(capacity - 1) -> Texture]
    /\ size <= capacity /\ end <= capacity
    /\ size = 0 => start = 0 /\ end = 0
    /\ size > 0 => Wraps(start, end, size, capacity)

LEMMA RingSays ==
    ASSUME NEW d, NEW s, NEW e, NEW n, NEW c, Ring(d, s, e, n, c)
    PROVE  /\ s \in Nat /\ e \in Nat /\ c \in Nat /\ n \in Nat
           /\ d \in [0..(c - 1) -> Texture] /\ n <= c /\ e <= c
           /\ n > 0 => s < c /\ (e = s + n \/ (s > 0 /\ e = s + n - c))
           /\ n = 0 => s = 0 /\ e = 0
<1>1. n > 0 => Wraps(s, e, n, c)
  BY DEF Ring
<1>2. /\ s \in Nat /\ e \in Nat /\ c \in Nat /\ n \in Nat
      /\ d \in [0..(c - 1) -> Texture] /\ n <= c /\ e <= c
      /\ n = 0 => s = 0 /\ e = 0
  BY DEF Ring
<1> QED
  BY <1>1, <1>2 DEF Wraps

LEMMA RingIs ==
    ASSUME NEW c \in Nat, NEW d \in [0..(c - 1) -> Texture],
           NEW s \in Nat, NEW e \in Nat, NEW n \in Nat, n <= c, e <= c,
           n > 0, s < c, e = s + n \/ (s > 0 /\ e = s + n - c)
    PROVE  Ring(d, s, e, n, c)
<1>1. Wraps(s, e, n, c)
  BY DEF Wraps
<1> QED
  BY <1>1 DEF Ring

LEMMA SpotIs ==
    ASSUME NEW s \in Nat, NEW c \in Nat, s < c, NEW i \in 0..(c - 1)
    PROVE  /\ Spot(s, c, i) \in 0..(c - 1)
           /\ (s + i) % c = Spot(s, c, i)
<1>1. s + i < c => (s + i) % c = s + i
  OBVIOUS
<1>2. s + i >= c => (s + i) % c = s + i - c
  OBVIOUS
<1> QED
  BY <1>1, <1>2 DEF Spot

LEMMA SpotsDiffer ==
    ASSUME NEW s \in Nat, NEW c \in Nat, s < c, NEW i \in 0..(c - 1), NEW j \in 0..(c - 1), i # j
    PROVE  Spot(s, c, i) # Spot(s, c, j)
BY DEF Spot

(* What is at a place once the memory has grown.                           *)
Moved(d, up, first, difference, i) ==
    CASE i < first -> d[i]
      [] i >= first + difference -> d[i - up]
      [] OTHER -> Unwritten

(* Where the elements lie when the part at the end is moved up.            *)
LEMMA SpotMoved ==
    ASSUME NEW s \in Nat, NEW c \in Nat, NEW up \in Nat, NEW c2 \in Nat,
           c2 = c + up, s < c, NEW i \in 0..(c - 1)
    PROVE  /\ s + i < c => /\ Spot(s + up, c2, i) = s + up + i /\ Spot(s, c, i) = s + i
                          /\ s + up + i \in 0..(c2 - 1) /\ s + up + i >= s + up
                          /\ (s + up + i) - up = s + i
           /\ ~(s + i < c) => /\ Spot(s + up, c2, i) = s + i - c
                             /\ Spot(s, c, i) = s + i - c
                             /\ s + i - c \in 0..(c2 - 1) /\ s + i - c < s
<1>1. CASE s + i < c
  <2>1. s + up + i < c2
    BY <1>1
  <2> QED
    BY <1>1, <2>1 DEF Spot
<1>2. CASE ~(s + i < c)
  <2>1. ~(s + up + i < c2) /\ s + up + i - c2 = s + i - c
    BY <1>2
  <2>2. s + i - c \in 0..(c2 - 1) /\ s + i - c < s
    BY <1>2
  <2> QED
    BY <1>2, <2>1, <2>2 DEF Spot
<1> QED
  BY <1>1, <1>2

(* A full buffer grows: the part at its end is moved up.                   *)
LEMMA GrowRing ==
    ASSUME NEW d, NEW s, NEW e, NEW n, NEW c, Ring(d, s, e, n, c), n = c,
           NEW c2 \in Nat, c2 > c,
           NEW up, up = IF s # 0 /\ e <= s THEN c2 - c ELSE 0,
           NEW first, first = IF s # 0 /\ e <= s THEN s ELSE c,
           NEW d2, d2 = [i \in 0..(c2 - 1) |-> d2[i]],
           \A i \in 0..(c2 - 1) : d2[i] = Moved(d, up, first, c2 - c, i)
    PROVE  /\ Ring(d2, s + up, e, n, c2)
           /\ \A i \in 0..(n - 1) : d2[Spot(s + up, c2, i)] = d[Spot(s, c, i)]
<1>0. /\ s \in Nat /\ e \in Nat /\ c \in Nat /\ n \in Nat
      /\ d \in [0..(c - 1) -> Texture] /\ e <= c
      /\ n > 0 => s < c /\ (e = s + n \/ (s > 0 /\ e = s + n - c))
      /\ n = 0 => s = 0 /\ e = 0
  BY RingSays
<1>1. Unwritten \in Texture
  BY DEF Unwritten, Texture
<1>2. ASSUME NEW i \in 0..(c2 - 1)
      PROVE  /\ i < first => d2[i] = d[i]
             /\ i >= first + (c2 - c) => d2[i] = d[i - up]
             /\ ~(i < first) /\ ~(i >= first + (c2 - c)) => d2[i] = Unwritten
  <2>0. c2 - c > 0 /\ first \in Int /\ c2 - c \in Int /\ i \in Int
    <3>1. c2 - c > 0 /\ c2 - c \in Int /\ i \in Int
      <4>1. c2 \in Int /\ c \in Int /\ c2 > c
        BY <1>0
      <4>2. c2 - c > 0
        BY <4>1
      <4>3. c2 - c \in Int
        BY <4>1
      <4>4. i \in Int
        OBVIOUS
      <4> QED
        BY <4>2, <4>3, <4>4
    <3>2. s \in Int /\ c \in Int
      BY <1>0
    <3>3. first \in Int
      BY <3>2
    <3> QED
      BY <3>1, <3>3
  <2>1. d2[i] = CASE i < first -> d[i]
                  [] i >= first + (c2 - c) -> d[i - up]
                  [] OTHER -> Unwritten
    BY DEF Moved
  <2> DEFINE more == c2 - c
  <2>2. ~(i < first /\ i >= first + (c2 - c))
    <3>1. more > 0 /\ first \in Int /\ more \in Int /\ i \in Int
      BY <2>0
    <3> HIDE DEF more
    <3>2. ~(i < first /\ i >= first + more)
      BY <3>1
    <3> QED
      BY <3>2 DEF more
  <2> QED
    BY <2>1, <2>2
<1>3. CASE s # 0 /\ e <= s
  <2>1. up = c2 - c /\ first = s /\ n > 0 /\ e = s /\ s < c /\ up \in Nat
    BY <1>0, <1>3
  <2>2. d2 \in [0..(c2 - 1) -> Texture]
    <3>1. ASSUME NEW i \in 0..(c2 - 1) PROVE d2[i] \in Texture
      <4>0. /\ d \in [0..(c - 1) -> Texture] /\ i \in Nat /\ first < c /\ first \in Nat
            /\ c \in Nat /\ i < c2 /\ c2 - c = up /\ c2 = c + up
        BY <1>0, <2>1
      <4>1. CASE i < first
        <5>1. i \in 0..(c - 1)
          BY <4>0, <4>1
        <5> QED
          BY <1>2, <4>0, <4>1, <5>1
      <4>2. CASE i >= first + up
        <5> DEFINE j == i - up
        <5>1. j \in 0..(c - 1)
          BY <2>1, <4>0, <4>2
        <5>2. d2[i] = d[j]
          BY <1>2, <4>0, <4>2
        <5> HIDE DEF j
        <5> QED
          BY <4>0, <5>1, <5>2
      <4>3. CASE ~(i < first) /\ ~(i >= first + up)
        BY <1>1, <1>2, <4>0, <4>3
      <4> QED
        BY <4>1, <4>2, <4>3
    <3>2. d2 = [i \in 0..(c2 - 1) |-> d2[i]]
      OBVIOUS
    <3> QED
      BY <3>1, <3>2
  <2>3. Ring(d2, s + up, e, n, c2)
    <3>0. n = c /\ n \in Nat /\ e \in Nat /\ c2 \in Nat /\ s \in Nat /\ s > 0 /\ c2 > c
      BY <1>0, <1>3
    <3>1. s + up \in Nat /\ s + up < c2 /\ s + up > 0
      BY <2>1, <3>0
    <3>2. n <= c2 /\ e <= c2
      BY <2>1, <3>0
    <3>3. e = (s + up) + n - c2
      BY <2>1, <3>0
    <3> QED
      BY <1>0, <2>1, <2>2, <3>1, <3>2, <3>3, RingIs
  <2>4. ASSUME NEW i \in 0..(n - 1)
        PROVE  d2[Spot(s + up, c2, i)] = d[Spot(s, c, i)]
    <3>0. /\ i \in 0..(c - 1) /\ c2 = c + up /\ c2 - c = up /\ first = s
          /\ s \in Nat /\ up \in Nat /\ c \in Nat /\ s < c
      BY <1>0, <2>1
    <3>1. CASE s + i < c
      <4> DEFINE j == s + up + i
      <4>1. /\ Spot(s + up, c2, i) = j /\ Spot(s, c, i) = s + i
            /\ j \in 0..(c2 - 1) /\ j >= s + up /\ j - up = s + i
        BY <3>0, <3>1, SpotMoved
      <4> HIDE DEF j
      <4>2. d2[j] = d[j - up]
        BY <1>2, <3>0, <4>1
      <4> QED
        BY <4>1, <4>2
    <3>2. CASE ~(s + i < c)
      <4> DEFINE j == s + i - c
      <4>1. /\ Spot(s + up, c2, i) = j /\ Spot(s, c, i) = j
            /\ j \in 0..(c2 - 1) /\ j < s
        BY <3>0, <3>2, SpotMoved
      <4> HIDE DEF j
      <4>2. d2[j] = d[j]
        BY <1>2, <3>0, <4>1
      <4> QED
        BY <4>1, <4>2
    <3> QED
      BY <3>1, <3>2
  <2> QED
    BY <2>3, <2>4
<1>4. CASE ~(s # 0 /\ e <= s)
  <2>1. up = 0 /\ first = c /\ s = 0 /\ e = n
    BY <1>0, <1>4
  <2>2. d2 \in [0..(c2 - 1) -> Texture]
    <3>1. ASSUME NEW i \in 0..(c2 - 1) PROVE d2[i] \in Texture
      BY <1>0, <1>1, <1>2, <2>1
    <3>2. d2 = [i \in 0..(c2 - 1) |-> d2[i]]
      OBVIOUS
    <3> QED
      BY <3>1, <3>2
  <2>3. Ring(d2, s + up, e, n, c2)
    <3>1. CASE n = 0
      BY <1>0, <2>1, <2>2, <3>1 DEF Ring
    <3>2. CASE n > 0
      <4>1. s + up \in Nat /\ n <= c2 /\ e <= c2 /\ s + up < c2 /\ e = (s + up) + n
        BY <1>0, <2>1, <3>2
      <4> QED
        BY <1>0, <2>2, <3>2, <4>1, RingIs
    <3> QED
      BY <1>0, <3>1, <3>2
  <2>4. ASSUME NEW i \in 0..(n - 1)
        PROVE  d2[Spot(s + up, c2, i)] = d[Spot(s, c, i)]
    <3>1. Spot(s + up, c2, i) = i /\ Spot(s, c, i) = i
      BY <1>0, <2>1 DEF Spot
    <3>2. i \in 0..(c2 - 1) /\ i < first
      BY <1>0, <2>1
    <3> QED
      BY <1>2, <3>1, <3>2
  <2> QED
    BY <2>3, <2>4
<1> QED
  BY <1>3, <1>4

(* An element at the end of a buffer that has room.                        *)
LEMMA BackRing ==
    ASSUME NEW d, NEW s, NEW e, NEW n, NEW c, Ring(d, s, e, n, c), n < c,
           NEW x \in Texture, NEW p, p = IF e = c THEN 0 ELSE e
    PROVE  /\ Ring([d EXCEPT ![p] = x], s, p + 1, n + 1, c)
           /\ [d EXCEPT ![p] = x][Spot(s, c, n)] = x
           /\ \A i \in 0..(n - 1) :
                  [d EXCEPT ![p] = x][Spot(s, c, i)] = d[Spot(s, c, i)]
<1>0. /\ s \in Nat /\ e \in Nat /\ c \in Nat /\ n \in Nat
      /\ d \in [0..(c - 1) -> Texture] /\ e <= c
      /\ n > 0 => s < c /\ (e = s + n \/ (s > 0 /\ e = s + n - c))
      /\ n = 0 => s = 0 /\ e = 0
  BY RingSays
<1>1. s < c /\ p \in 0..(c - 1) /\ p = Spot(s, c, n)
  BY <1>0 DEF Spot
<1>2. \A i \in 0..(n - 1) : Spot(s, c, i) # p /\ Spot(s, c, i) \in 0..(c - 1)
  <2> SUFFICES ASSUME NEW i \in 0..(n - 1) PROVE Spot(s, c, i) # p /\ Spot(s, c, i) \in 0..(c - 1)
    OBVIOUS
  <2>1. i \in 0..(c - 1) /\ n \in 0..(c - 1) /\ i # n
    BY <1>0
  <2>2. Spot(s, c, i) \in 0..(c - 1)
    BY <1>0, <1>1, <2>1, SpotIs
  <2>3. Spot(s, c, i) # Spot(s, c, n)
    BY <1>0, <1>1, <2>1, SpotsDiffer
  <2> QED
    BY <1>1, <2>2, <2>3
<1>3. [d EXCEPT ![p] = x] \in [0..(c - 1) -> Texture]
  BY <1>0
<1>4. Ring([d EXCEPT ![p] = x], s, p + 1, n + 1, c)
  <2>1. \/ p + 1 = s + (n + 1)
        \/ s > 0 /\ p + 1 = s + (n + 1) - c
    BY <1>0, <1>1 DEF Spot
  <2>2. n + 1 \in Nat /\ n + 1 > 0 /\ n + 1 <= c /\ p + 1 \in Nat /\ p + 1 <= c
    BY <1>0, <1>1
  <2> DEFINE new == [d EXCEPT ![p] = x]
  <2>3. new \in [0..(c - 1) -> Texture] /\ c \in Nat /\ p \in Nat /\ s \in Nat /\ e \in Nat
    BY <1>0, <1>1, <1>3
  <2> HIDE DEF new
  <2>4. Wraps(s, p + 1, n + 1, c)
    BY <1>0, <1>1, <2>1 DEF Wraps
  <2>5. ~(n + 1 = 0)
    BY <2>2
  <2>6. Ring(new, s, p + 1, n + 1, c)
    BY <1>0, <1>1, <2>2, <2>3, <2>4, <2>5 DEF Ring
  <2> QED
    BY <2>6 DEF new
<1>5. [d EXCEPT ![p] = x][Spot(s, c, n)] = x
  BY <1>0, <1>1
<1> QED
  BY <1>0, <1>1, <1>2, <1>4, <1>5

(* An element in front.  A buffer that is empty must have more places than *)
(* the one: its end stays where it is.                                     *)
LEMMA FrontRing ==
    ASSUME NEW d, NEW s, NEW e, NEW n, NEW c, Ring(d, s, e, n, c), n < c,
           n > 0 => e > 0, n = 0 => c > 1,
           NEW x \in Texture, NEW p, p = IF s = 0 THEN c - 1 ELSE s - 1
    PROVE  /\ Ring([d EXCEPT ![p] = x], p, e, n + 1, c)
           /\ [d EXCEPT ![p] = x][Spot(p, c, 0)] = x
           /\ \A i \in 0..(n - 1) :
                  [d EXCEPT ![p] = x][Spot(p, c, i + 1)] = d[Spot(s, c, i)]
<1>0. /\ s \in Nat /\ e \in Nat /\ c \in Nat /\ n \in Nat
      /\ d \in [0..(c - 1) -> Texture] /\ e <= c
      /\ n > 0 => s < c /\ (e = s + n \/ (s > 0 /\ e = s + n - c))
      /\ n = 0 => s = 0 /\ e = 0
  BY RingSays
<1>1. s < c /\ p \in 0..(c - 1) /\ p \in Nat /\ p < c /\ Spot(p, c, 0) = p
  BY <1>0 DEF Spot
<1>2. \A i \in 0..(n - 1) : /\ Spot(p, c, i + 1) = Spot(s, c, i)
                            /\ Spot(s, c, i) # p /\ Spot(s, c, i) \in 0..(c - 1)
  <2> SUFFICES ASSUME NEW i \in 0..(n - 1)
               PROVE  /\ Spot(p, c, i + 1) = Spot(s, c, i)
                      /\ Spot(s, c, i) # p /\ Spot(s, c, i) \in 0..(c - 1)
    OBVIOUS
  <2>1. i \in Nat /\ i + 1 <= n
    BY <1>0
  <2>2. Spot(p, c, i + 1) = Spot(s, c, i)
    BY <1>0, <1>1, <2>1 DEF Spot
  <2>3. Spot(s, c, i) # p
    BY <1>0, <1>1, <2>1 DEF Spot
  <2>4. Spot(s, c, i) \in 0..(c - 1)
    BY <1>0, <1>1, <2>1 DEF Spot
  <2> QED
    BY <2>2, <2>3, <2>4
<1>3. [d EXCEPT ![p] = x] \in [0..(c - 1) -> Texture]
  BY <1>0
<1>4. Ring([d EXCEPT ![p] = x], p, e, n + 1, c)
  <2>1. \/ e = p + (n + 1)
        \/ p > 0 /\ e = p + (n + 1) - c
    BY <1>0, <1>1
  <2>2. n + 1 \in Nat /\ n + 1 > 0 /\ n + 1 <= c
    BY <1>0
  <2> DEFINE new == [d EXCEPT ![p] = x]
  <2>3. new \in [0..(c - 1) -> Texture] /\ c \in Nat /\ p \in Nat /\ s \in Nat /\ e \in Nat
    BY <1>0, <1>1, <1>3
  <2> HIDE DEF new
  <2>4. Wraps(p, e, n + 1, c)
    BY <1>0, <1>1, <2>1 DEF Wraps
  <2>5. ~(n + 1 = 0)
    BY <2>2
  <2>6. Ring(new, p, e, n + 1, c)
    BY <1>0, <1>1, <2>2, <2>3, <2>4, <2>5 DEF Ring
  <2> QED
    BY <2>6 DEF new
<1> QED
  BY <1>0, <1>1, <1>2, <1>4

(* The first element is taken from several.                                *)
LEMMA PopRing ==
    ASSUME NEW d, NEW s, NEW e, NEW n, NEW c, Ring(d, s, e, n, c), n > 1,
           NEW p, p = (s + 1) % c
    PROVE  /\ Ring([d EXCEPT ![s] = Unwritten], p, e, n - 1, c)
           /\ \A i \in 0..(n - 2) :
                  [d EXCEPT ![s] = Unwritten][Spot(p, c, i)] = d[Spot(s, c, i + 1)]
<1>0. /\ s \in Nat /\ e \in Nat /\ c \in Nat /\ n \in Nat
      /\ d \in [0..(c - 1) -> Texture] /\ e <= c /\ n <= c /\ s < c
      /\ e = s + n \/ (s > 0 /\ e = s + n - c)
  BY RingSays
<1>1. Unwritten \in Texture
  BY DEF Unwritten, Texture
<1>2. p = Spot(s, c, 1)
  <2>1. 1 \in 0..(c - 1)
    BY <1>0
  <2> QED
    BY <1>0, <2>1, SpotIs
<1>3. p = IF s + 1 < c THEN s + 1 ELSE 0
  BY <1>0, <1>2 DEF Spot
<1>4. p \in Nat /\ p < c
  BY <1>0, <1>3
<1>5. \A i \in 0..(n - 2) : /\ Spot(p, c, i) = Spot(s, c, i + 1)
                            /\ Spot(s, c, i + 1) # s /\ Spot(s, c, i + 1) \in 0..(c - 1)
  <2> SUFFICES ASSUME NEW i \in 0..(n - 2)
               PROVE  /\ Spot(p, c, i) = Spot(s, c, i + 1)
                      /\ Spot(s, c, i + 1) # s /\ Spot(s, c, i + 1) \in 0..(c - 1)
    OBVIOUS
  <2>1. i \in Nat /\ i + 2 <= n
    BY <1>0
  <2>2. Spot(p, c, i) = Spot(s, c, i + 1)
    BY <1>0, <1>3, <2>1 DEF Spot
  <2>3. Spot(s, c, i + 1) # s /\ Spot(s, c, i + 1) \in 0..(c - 1)
    BY <1>0, <2>1 DEF Spot
  <2> QED
    BY <2>2, <2>3
<1>6. [d EXCEPT ![s] = Unwritten] \in [0..(c - 1) -> Texture]
  BY <1>0, <1>1
<1>7. Ring([d EXCEPT ![s] = Unwritten], p, e, n - 1, c)
  <2>1. \/ e = p + (n - 1)
        \/ p > 0 /\ e = p + (n - 1) - c
    <3>1. CASE s + 1 < c
      <4>1. p = s + 1
        BY <1>3, <3>1
      <4> QED
        BY <1>0, <4>1
    <3>2. CASE ~(s + 1 < c)
      <4>1. p = 0 /\ s + 1 = c
        BY <1>0, <1>3, <3>2
      <4> QED
        BY <1>0, <4>1
    <3> QED
      BY <3>1, <3>2
  <2>2. n - 1 \in Nat /\ n - 1 > 0 /\ n - 1 <= c
    BY <1>0
  <2> DEFINE new == [d EXCEPT ![s] = Unwritten]
  <2>3. new \in [0..(c - 1) -> Texture]
    BY <1>6
  <2> HIDE DEF new
  <2>4. Wraps(p, e, n - 1, c)
    BY <1>0, <1>4, <2>1 DEF Wraps
  <2>5. ~(n - 1 = 0)
    BY <2>2
  <2>6. Ring(new, p, e, n - 1, c)
    BY <1>0, <1>4, <2>2, <2>3, <2>4, <2>5 DEF Ring
  <2> QED
    BY <2>6 DEF new
<1>8. \A i \in 0..(n - 2) : [d EXCEPT ![s] = Unwritten][Spot(p, c, i)] = d[Spot(s, c, i + 1)]
  BY <1>0, <1>5
<1> QED
  BY <1>7, <1>8

-----------------------------------------------------------------------------
(* Buffers as they are in memory, and the sequences of their elements.     *)
Places == UNION {[0..(n - 1) -> Texture] : n \in Nat}
Buf == [data : Places, start : Nat, end : Nat, size : Nat, capacity : Nat]
Circle(cb) == cb \in Buf /\ Ring(cb.data, cb.start, cb.end, cb.size, cb.capacity)

(* The i-th element.                                                       *)
Element(cb, i) == cb.data[Spot(cb.start, cb.capacity, i)]

LEMMA EmptyCircle == Circle(EmptyBuf) /\ Elements(EmptyBuf) = <<>>
<1>1. EmptyBuf.data = <<>> /\ <<>> \in [0..(0 - 1) -> Texture]
  <2>1. <<>> = [i \in 0..(0 - 1) |-> Unwritten]
    <3>1. 0..(0 - 1) = {}
      OBVIOUS
    <3> QED
      BY <3>1
  <2>2. Unwritten \in Texture
    BY DEF Unwritten, Texture
  <2> QED
    BY <2>1, <2>2 DEF EmptyBuf
<1>2. EmptyBuf.start = 0 /\ EmptyBuf.end = 0 /\ EmptyBuf.size = 0 /\ EmptyBuf.capacity = 0
  BY DEF EmptyBuf
<1>3. EmptyBuf \in Buf
  <2>1. [0..(0 - 1) -> Texture] \in {[0..(n - 1) -> Texture] : n \in Nat}
    OBVIOUS
  <2>2. EmptyBuf.data \in Places
    BY <1>1, <2>1 DEF Places
  <2> QED
    BY <2>2 DEF EmptyBuf, Buf
<1>4. Ring(EmptyBuf.data, EmptyBuf.start, EmptyBuf.end, EmptyBuf.size, EmptyBuf.capacity)
  BY <1>1, <1>2 DEF Ring
<1>5. Elements(EmptyBuf) = <<>>
  BY <1>2 DEF Elements
<1> QED
  BY <1>3, <1>4, <1>5 DEF Circle

LEMMA CircleSays ==
    ASSUME NEW cb, Circle(cb)
    PROVE  /\ cb.start \in Nat /\ cb.end \in Nat /\ cb.size \in Nat /\ cb.capacity \in Nat
           /\ cb.data \in [0..(cb.capacity - 1) -> Texture]
           /\ cb.size <= cb.capacity /\ (cb.size > 0 => cb.start < cb.capacity)
           /\ cb.size = 0 => cb.start = 0 /\ cb.end = 0
BY RingSays DEF Circle

LEMMA CircleElements ==
    ASSUME NEW cb, Circle(cb)
    PROVE  /\ Elements(cb) \in Seq(Texture) /\ Len(Elements(cb)) = cb.size
           /\ \A i \in 1..cb.size : Elements(cb)[i] = Element(cb, i - 1)
<1>0. /\ cb.start \in Nat /\ cb.size \in Nat /\ cb.capacity \in Nat
      /\ cb.data \in [0..(cb.capacity - 1) -> Texture]
      /\ cb.size <= cb.capacity /\ (cb.size > 0 => cb.start < cb.capacity)
  BY CircleSays
<1>1. ASSUME NEW i \in 1..cb.size
      PROVE  /\ cb.data[Place(cb, i - 1)] = Element(cb, i - 1)
             /\ Element(cb, i - 1) \in Texture
  <2>1. i - 1 \in 0..(cb.capacity - 1) /\ cb.start < cb.capacity
    BY <1>0
  <2>2. /\ Spot(cb.start, cb.capacity, i - 1) \in 0..(cb.capacity - 1)
        /\ (cb.start + (i - 1)) % cb.capacity = Spot(cb.start, cb.capacity, i - 1)
    BY <1>0, <2>1, SpotIs
  <2> QED
    BY <1>0, <2>2 DEF Place, Element
<1>2. Elements(cb) = [i \in 1..cb.size |-> Element(cb, i - 1)]
  BY <1>1 DEF Elements
<1>3. \A i \in 1..cb.size : Element(cb, i - 1) \in Texture
  BY <1>1
<1> HIDE DEF Element
<1>4. [i \in 1..cb.size |-> Element(cb, i - 1)] \in Seq(Texture)
  BY <1>0, <1>3
<1> QED
  BY <1>0, <1>2, <1>4

(* The two ends of a sequence, for elements that are known one by one.     *)
LEMMA SameAsAppend ==
    ASSUME NEW s \in Seq(Texture), NEW t \in Seq(Texture), NEW x \in Texture,
           Len(t) = Len(s) + 1, t[Len(s) + 1] = x,
           \A i \in 1..Len(s) : t[i] = s[i]
    PROVE  t = Append(s, x)
<1>1. /\ Append(s, x) \in Seq(Texture) /\ Len(Append(s, x)) = Len(s) + 1
      /\ Append(s, x)[Len(s) + 1] = x /\ \A i \in 1..Len(s) : Append(s, x)[i] = s[i]
  BY AppendProperties
<1>2. \A i \in 1..Len(t) : t[i] = Append(s, x)[i]
  BY <1>1
<1> QED
  BY <1>1, <1>2, SeqEqual

LEMMA FrontIs ==
    ASSUME NEW s \in Seq(Texture), NEW x \in Texture
    PROVE  /\ <<x>> \o s \in Seq(Texture) /\ Len(<<x>> \o s) = Len(s) + 1
           /\ (<<x>> \o s)[1] = x
           /\ \A i \in 1..Len(s) : (<<x>> \o s)[i + 1] = s[i]
<1> DEFINE u == <<x>> \o s
<1>1. <<x>> \in Seq(Texture) /\ Len(<<x>>) = 1 /\ <<x>>[1] = x
  OBVIOUS
<1>2. u \in Seq(Texture) /\ Len(u) = 1 + Len(s)
  BY <1>1, ConcatProperties
<1>3. \A i \in 1..Len(u) : u[i] = IF i <= 1 THEN <<x>>[i] ELSE s[i - 1]
  BY <1>1, ConcatProperties
<1>4. \A i \in 1..Len(s) : i + 1 \in 1..Len(u) /\ ~(i + 1 <= 1) /\ (i + 1) - 1 = i
  BY <1>2
<1>5. 1 \in 1..Len(u)
  BY <1>2
<1> QED
  BY <1>1, <1>2, <1>3, <1>4, <1>5

LEMMA SameAsFront ==
    ASSUME NEW s \in Seq(Texture), NEW t \in Seq(Texture), NEW x \in Texture,
           Len(t) = Len(s) + 1, t[1] = x,
           \A i \in 1..Len(s) : t[i + 1] = s[i]
    PROVE  t = <<x>> \o s
<1> DEFINE u == <<x>> \o s
<1>1. /\ u \in Seq(Texture) /\ Len(u) = Len(s) + 1 /\ u[1] = x
      /\ \A i \in 1..Len(s) : u[i + 1] = s[i]
  BY FrontIs
<1> HIDE DEF u
<1>2. \A i \in 1..Len(t) : t[i] = u[i]
  <2> SUFFICES ASSUME NEW i \in 1..Len(t) PROVE t[i] = u[i]
    OBVIOUS
  <2>1. CASE i = 1
    BY <1>1, <2>1
  <2>2. CASE i # 1
    <3>1. i - 1 \in 1..Len(s) /\ (i - 1) + 1 = i
      BY <2>2
    <3> QED
      BY <1>1, <3>1
  <2> QED
    BY <2>1, <2>2
<1>3. Len(t) = Len(u)
  BY <1>1
<1>4. t = u
  BY <1>1, <1>2, <1>3, SeqEqual
<1> QED
  BY <1>4 DEF u

LEMMA MakesCircle ==
    ASSUME NEW n \in Nat, NEW d \in [0..(n - 1) -> Texture], NEW s, NEW e, NEW k,
           NEW cb, cb = [data |-> d, start |-> s, end |-> e, size |-> k, capacity |-> n],
           Ring(d, s, e, k, n)
    PROVE  Circle(cb)
<1>1. s \in Nat /\ e \in Nat /\ k \in Nat
  BY RingSays
<1>2. d \in Places
  <2>1. [0..(n - 1) -> Texture] \in {[0..(m - 1) -> Texture] : m \in Nat}
    OBVIOUS
  <2> QED
    BY <2>1 DEF Places
<1>3. cb \in Buf
  BY <1>1, <1>2 DEF Buf
<1> QED
  BY <1>3 DEF Circle

LEMMA BufIs ==
    ASSUME NEW cb \in Buf
    PROVE  cb = [data |-> cb.data, start |-> cb.start, end |-> cb.end,
                 size |-> cb.size, capacity |-> cb.capacity]
BY DEF Buf

(* With one element more there is room for it.                             *)
LEMMA RoomMade ==
    ASSUME NEW cb, Circle(cb), NEW room, room = Ensured([cb EXCEPT !.size = @ + 1])
    PROVE  /\ room = [data |-> room.data, start |-> room.start, end |-> cb.end,
                      size |-> cb.size + 1, capacity |-> room.capacity]
           /\ Ring(room.data, room.start, cb.end, cb.size, room.capacity)
           /\ cb.size < room.capacity /\ cb.capacity <= room.capacity
           /\ \A i \in 0..(cb.size - 1) :
                  room.data[Spot(room.start, room.capacity, i)] = Element(cb, i)
<1> DEFINE more == [cb EXCEPT !.size = @ + 1]
           c == cb.capacity
           n == cb.size
<1>0. /\ cb.start \in Nat /\ cb.end \in Nat /\ n \in Nat /\ c \in Nat
      /\ n <= c /\ Ring(cb.data, cb.start, cb.end, n, c)
  BY CircleSays DEF Circle
<1>1. more = [data |-> cb.data, start |-> cb.start, end |-> cb.end,
              size |-> n + 1, capacity |-> c]
  BY BufIs DEF Circle, Buf
<1>2. CASE n + 1 <= c
  <2>1. room = more
    BY <1>1, <1>2 DEF Ensured
  <2>2. n < c /\ c <= c
    BY <1>0, <1>2
  <2>3. room.data = cb.data /\ room.start = cb.start /\ room.capacity = c
    BY <1>1, <2>1
  <2> QED
    BY <1>0, <1>1, <2>1, <2>2, <2>3 DEF Element
<1>3. CASE ~(n + 1 <= c)
  <2> DEFINE c2 == IF n + 1 > 2 * c THEN n + 1 ELSE 2 * c
  <2>0. /\ more.data = cb.data /\ more.start = cb.start /\ more.end = cb.end
        /\ more.size = n + 1 /\ more.capacity = c
    BY <1>1
  <2>1. n = c /\ c2 \in Nat /\ c2 > c
    BY <1>0, <1>3
  <2> HIDE DEF more
  <2>2. room = Reordered(more, c2)
    BY <1>3, <2>0 DEF Ensured, more
  <2> HIDE DEF c2
  <2> DEFINE wrapped == more.start # 0 /\ more.end <= more.start
             up == IF wrapped THEN c2 - more.capacity ELSE 0
             first == IF wrapped THEN more.start ELSE more.capacity
             d2 == [i \in 0..(c2 - 1) |->
                       CASE i < first -> more.data[i]
                         [] i >= first + (c2 - more.capacity) -> more.data[i - up]
                         [] OTHER -> Unwritten]
  <2>3. room = [more EXCEPT !.data = d2, !.start = @ + up, !.capacity = c2]
    BY <2>2 DEF Reordered
  <2>6. Ring(more.data, more.start, more.end, n, more.capacity) /\ n = more.capacity
    BY <1>0, <2>0, <2>1
  <2>7. /\ Ring(d2, more.start + up, more.end, n, c2)
        /\ \A i \in 0..(n - 1) :
               d2[Spot(more.start + up, c2, i)] = more.data[Spot(more.start, more.capacity, i)]
    <3>1. c2 > more.capacity /\ c2 \in Nat
      BY <2>0, <2>1
    <3>2. up = IF more.start # 0 /\ more.end <= more.start THEN c2 - more.capacity ELSE 0
      OBVIOUS
    <3>3. first = IF more.start # 0 /\ more.end <= more.start
                  THEN more.start ELSE more.capacity
      OBVIOUS
    <3>4. /\ d2 = [i \in 0..(c2 - 1) |-> d2[i]]
          /\ \A i \in 0..(c2 - 1) :
                 d2[i] = Moved(more.data, up, first, c2 - more.capacity, i)
      BY DEF Moved
    <3> HIDE DEF n, up, first, d2
    <3> DEFINE d == more.data
               s == more.start
               e == more.end
               cc == more.capacity
    <3>5. Ring(d, s, e, n, cc) /\ n = cc /\ c2 \in Nat /\ c2 > cc
      BY <2>6, <3>1
    <3>6. /\ up = IF s # 0 /\ e <= s THEN c2 - cc ELSE 0
          /\ first = IF s # 0 /\ e <= s THEN s ELSE cc
      BY <3>2, <3>3
    <3>7. /\ d2 = [i \in 0..(c2 - 1) |-> d2[i]]
          /\ \A i \in 0..(c2 - 1) : d2[i] = Moved(d, up, first, c2 - cc, i)
      BY <3>4
    <3> HIDE DEF d, s, e, cc
    <3>8. /\ Ring(d2, s + up, e, n, c2)
          /\ \A i \in 0..(n - 1) : d2[Spot(s + up, c2, i)] = d[Spot(s, cc, i)]
      BY <3>5, <3>6, <3>7, GrowRing
    <3> QED
      BY <3>8 DEF d, s, e, cc
  <2> HIDE DEF d2, up
  <2>8. room = [data |-> d2, start |-> cb.start + up, end |-> cb.end,
                size |-> n + 1, capacity |-> c2]
    <3> HIDE DEF d2, up
    <3>1. more = [data |-> cb.data, start |-> cb.start, end |-> cb.end,
                  size |-> n + 1, capacity |-> c]
      BY <1>1 DEF more
    <3> HIDE DEF n, c
    <3> DEFINE moved == [more EXCEPT !.data = d2]
               shifted == [moved EXCEPT !.start = @ + up]
    <3>2. moved = [data |-> d2, start |-> cb.start, end |-> cb.end,
                   size |-> n + 1, capacity |-> c]
      BY <3>1
    <3>3. [more EXCEPT !.data = d2, !.start = @ + up, !.capacity = c2]
              = [shifted EXCEPT !.capacity = c2]
      OBVIOUS
    <3> HIDE DEF moved
    <3>4. shifted = [data |-> d2, start |-> cb.start + up, end |-> cb.end,
                     size |-> n + 1, capacity |-> c]
      BY <3>2
    <3> HIDE DEF shifted
    <3>5. [shifted EXCEPT !.capacity = c2]
              = [data |-> d2, start |-> cb.start + up, end |-> cb.end,
                 size |-> n + 1, capacity |-> c2]
      BY <3>4
    <3> QED
      BY <2>3, <3>3, <3>5
  <2>4. room.data = d2 /\ room.start = cb.start + up /\ room.capacity = c2
    BY <2>8
  <2>5. n < c2 /\ c <= c2
    BY <1>0, <2>1
  <2> QED
    BY <2>0, <2>4, <2>5, <2>7, <2>8 DEF Element
<1> QED
  BY <1>2, <1>3

-----------------------------------------------------------------------------
(* To push back is to append, to push in front is to put in front, and to  *)
(* pop is to take the tail.                                                *)
LEMMA BackCircle ==
    ASSUME NEW cb, Circle(cb), NEW x \in Texture
    PROVE  /\ Circle(PushBack(cb, x))
           /\ Elements(PushBack(cb, x)) = Append(Elements(cb), x)
           /\ PushBack(cb, x).size = cb.size + 1 /\ PushBack(cb, x).end > 0
           /\ PushBack(cb, x).capacity >= cb.capacity
<1> DEFINE room == Ensured([cb EXCEPT !.size = @ + 1])
           pushed == PushBack(cb, x)
           d == room.data
           s == room.start
           e == cb.end
           n == cb.size
           c == room.capacity
           p == IF e = c THEN 0 ELSE e
           d2 == [d EXCEPT ![p] = x]
<1>1. /\ room = [data |-> d, start |-> s, end |-> e, size |-> n + 1, capacity |-> c]
      /\ Ring(d, s, e, n, c) /\ n < c /\ cb.capacity <= c
      /\ \A i \in 0..(n - 1) : d[Spot(s, c, i)] = Element(cb, i)
  BY RoomMade
<1>2. pushed = [room EXCEPT !.data[p] = x, !.end = p + 1]
  BY DEF PushBack
<1> HIDE DEF room, pushed, d, s, e, n, c
<1>3. /\ Ring(d2, s, p + 1, n + 1, c) /\ d2[Spot(s, c, n)] = x
      /\ \A i \in 0..(n - 1) : d2[Spot(s, c, i)] = d[Spot(s, c, i)]
  <2>1. p = IF e = c THEN 0 ELSE e
    OBVIOUS
  <2> HIDE DEF p
  <2> QED
    BY <1>1, <2>1, BackRing
<1>4. pushed = [data |-> d2, start |-> s, end |-> p + 1, size |-> n + 1, capacity |-> c]
  BY <1>1, <1>2
<1>5. n \in Nat /\ e \in Nat /\ c \in Nat /\ d2 \in [0..(c - 1) -> Texture]
  BY <1>1, <1>3, RingSays
<1> HIDE DEF d2
<1>6. Circle(pushed)
  <2> DEFINE q == p + 1
             m == n + 1
  <2>1. /\ c \in Nat /\ d2 \in [0..(c - 1) -> Texture] /\ Ring(d2, s, q, m, c)
        /\ pushed = [data |-> d2, start |-> s, end |-> q, size |-> m, capacity |-> c]
    BY <1>3, <1>4, <1>5
  <2> HIDE DEF q, m
  <2> QED
    BY <2>1, MakesCircle
<1>7. pushed.size = n + 1 /\ pushed.end > 0 /\ pushed.capacity >= cb.capacity
  <2>1. p + 1 > 0 /\ cb.capacity \in Nat
    BY <1>5, CircleSays
  <2> QED
    BY <1>1, <1>4, <1>5, <2>1
<1>8. Elements(pushed) = Append(Elements(cb), x)
  <2> DEFINE old == Elements(cb)
             new == Elements(pushed)
  <2>1. /\ old \in Seq(Texture) /\ Len(old) = n
        /\ \A i \in 1..n : old[i] = Element(cb, i - 1)
    BY CircleElements DEF n
  <2>2. /\ new \in Seq(Texture) /\ Len(new) = n + 1
        /\ \A i \in 1..(n + 1) : new[i] = Element(pushed, i - 1)
    BY <1>6, <1>7, CircleElements
  <2>3. \A i \in 0..n : Element(pushed, i) = d2[Spot(s, c, i)]
    BY <1>4 DEF Element
  <2>4. new[n + 1] = x
    <3>1. n + 1 \in 1..(n + 1) /\ (n + 1) - 1 = n /\ n \in 0..n
      BY <1>5
    <3> QED
      BY <1>3, <2>2, <2>3, <3>1
  <2>5. \A i \in 1..n : new[i] = old[i]
    <3> SUFFICES ASSUME NEW i \in 1..n PROVE new[i] = old[i]
      OBVIOUS
    <3>1. i \in 1..(n + 1) /\ i - 1 \in 0..n /\ i - 1 \in 0..(n - 1)
      BY <1>5
    <3> QED
      BY <1>1, <1>3, <2>1, <2>2, <2>3, <3>1
  <2> HIDE DEF old, new
  <2>6. new = Append(old, x)
    BY <2>1, <2>2, <2>4, <2>5, SameAsAppend
  <2> QED
    BY <2>6 DEF old, new
<1> QED
  BY <1>6, <1>7, <1>8 DEF pushed, n

LEMMA FrontCircle ==
    ASSUME NEW cb, Circle(cb), NEW x \in Texture,
           cb.size > 0 => cb.end > 0, cb.size = 0 => cb.capacity > 1
    PROVE  /\ Circle(PushFront(cb, x))
           /\ Elements(PushFront(cb, x)) = <<x>> \o Elements(cb)
           /\ PushFront(cb, x).size = cb.size + 1 /\ PushFront(cb, x).end = cb.end
           /\ PushFront(cb, x).capacity >= cb.capacity
<1> DEFINE room == Ensured([cb EXCEPT !.size = @ + 1])
           pushed == PushFront(cb, x)
           d == room.data
           s == room.start
           e == cb.end
           n == cb.size
           c == room.capacity
           p == IF s = 0 THEN c - 1 ELSE s - 1
           d2 == [d EXCEPT ![p] = x]
<1>1. /\ room = [data |-> d, start |-> s, end |-> e, size |-> n + 1, capacity |-> c]
      /\ Ring(d, s, e, n, c) /\ n < c /\ cb.capacity <= c
      /\ \A i \in 0..(n - 1) : d[Spot(s, c, i)] = Element(cb, i)
  BY RoomMade
<1>2. pushed = [room EXCEPT !.data[p] = x, !.start = p]
  BY DEF PushFront
<1>0. /\ n > 0 => e > 0
      /\ n = 0 => c > 1
  <2>1. cb.capacity \in Nat /\ c \in Nat
    BY <1>1, CircleSays, RingSays
  <2> QED
    BY <1>1, <2>1
<1> HIDE DEF room, pushed, d, s, e, n, c
<1>3. /\ Ring(d2, p, e, n + 1, c) /\ d2[Spot(p, c, 0)] = x
      /\ \A i \in 0..(n - 1) : d2[Spot(p, c, i + 1)] = d[Spot(s, c, i)]
  <2>1. p = IF s = 0 THEN c - 1 ELSE s - 1
    OBVIOUS
  <2> HIDE DEF p
  <2> QED
    BY <1>0, <1>1, <2>1, FrontRing
<1>4. pushed = [data |-> d2, start |-> p, end |-> e, size |-> n + 1, capacity |-> c]
  BY <1>1, <1>2
<1> HIDE DEF p, d2
<1>5. n \in Nat /\ e \in Nat /\ c \in Nat /\ d2 \in [0..(c - 1) -> Texture]
  BY <1>1, <1>3, RingSays
<1>6. Circle(pushed)
  <2> DEFINE m == n + 1
  <2>1. /\ c \in Nat /\ d2 \in [0..(c - 1) -> Texture] /\ Ring(d2, p, e, m, c)
        /\ pushed = [data |-> d2, start |-> p, end |-> e, size |-> m, capacity |-> c]
    BY <1>3, <1>4, <1>5
  <2> HIDE DEF m
  <2> QED
    BY <2>1, MakesCircle
<1>7. pushed.size = n + 1 /\ pushed.end = e /\ pushed.capacity >= cb.capacity
  <2>1. cb.capacity \in Nat
    BY CircleSays
  <2> QED
    BY <1>1, <1>4, <1>5, <2>1
<1>8. Elements(pushed) = <<x>> \o Elements(cb)
  <2> DEFINE old == Elements(cb)
             new == Elements(pushed)
  <2>1. /\ old \in Seq(Texture) /\ Len(old) = n
        /\ \A i \in 1..n : old[i] = Element(cb, i - 1)
    BY CircleElements DEF n
  <2>2. /\ new \in Seq(Texture) /\ Len(new) = n + 1
        /\ \A i \in 1..(n + 1) : new[i] = Element(pushed, i - 1)
    BY <1>6, <1>7, CircleElements
  <2>3. \A i \in 0..n : Element(pushed, i) = d2[Spot(p, c, i)]
    BY <1>4 DEF Element
  <2>4. new[1] = x
    <3>1. 1 \in 1..(n + 1) /\ 1 - 1 = 0 /\ 0 \in 0..n
      BY <1>5
    <3> QED
      BY <1>3, <2>2, <2>3, <3>1
  <2>5. \A i \in 1..n : new[i + 1] = old[i]
    <3> SUFFICES ASSUME NEW i \in 1..n PROVE new[i + 1] = old[i]
      OBVIOUS
    <3>1. /\ i + 1 \in 1..(n + 1) /\ i \in 0..n /\ i - 1 \in 0..(n - 1)
          /\ (i + 1) - 1 = i /\ (i - 1) + 1 = i
      BY <1>5
    <3>2. new[i + 1] = d2[Spot(p, c, i)]
      BY <2>2, <2>3, <3>1
    <3>3. d2[Spot(p, c, (i - 1) + 1)] = d[Spot(s, c, i - 1)]
      BY <1>3, <3>1
    <3> QED
      BY <1>1, <2>1, <3>1, <3>2, <3>3
  <2> HIDE DEF old, new
  <2>6. new = <<x>> \o old
    BY <2>1, <2>2, <2>4, <2>5, SameAsFront
  <2> QED
    BY <2>6 DEF old, new
<1> QED
  BY <1>6, <1>7, <1>8 DEF pushed, n, e

LEMMA SameAsTail ==
    ASSUME NEW s \in Seq(Texture), NEW t \in Seq(Texture), s # <<>>,
           Len(t) = Len(s) - 1, \A i \in 1..Len(t) : t[i] = s[i + 1]
    PROVE  t = Tail(s)
<1>1. /\ Tail(s) \in Seq(Texture) /\ Len(Tail(s)) = Len(s) - 1
      /\ \A i \in 1..Len(Tail(s)) : Tail(s)[i] = s[i + 1]
  BY HeadTailProperties
<1> DEFINE u == Tail(s)
<1>2. u \in Seq(Texture) /\ Len(t) = Len(u) /\ \A i \in 1..Len(t) : t[i] = u[i]
  BY <1>1
<1> HIDE DEF u
<1>3. t = u
  BY <1>2, SeqEqual
<1> QED
  BY <1>3 DEF u

LEMMA PopCircle ==
    ASSUME NEW cb, Circle(cb), cb.size > 0
    PROVE  /\ Circle(PopFront(cb))
           /\ Elements(cb) # <<>> /\ Elements(PopFront(cb)) = Tail(Elements(cb))
           /\ PeekFront(cb) = Elements(cb)[1]
           /\ PopFront(cb).size = cb.size - 1 /\ PopFront(cb).capacity = cb.capacity
           /\ PopFront(cb).size > 0 => PopFront(cb).end = cb.end
<1> DEFINE d == cb.data
           s == cb.start
           e == cb.end
           n == cb.size
           c == cb.capacity
           popped == PopFront(cb)
           d2 == [d EXCEPT ![s] = Unwritten]
           old == Elements(cb)
           new == Elements(popped)
<1>1. /\ s \in Nat /\ e \in Nat /\ n \in Nat /\ c \in Nat
      /\ d \in [0..(c - 1) -> Texture] /\ n <= c /\ s < c
      /\ Ring(d, s, e, n, c)
      /\ cb = [data |-> d, start |-> s, end |-> e, size |-> n, capacity |-> c]
  BY CircleSays, BufIs DEF Circle
<1>2. /\ old \in Seq(Texture) /\ Len(old) = n
      /\ \A i \in 1..n : old[i] = Element(cb, i - 1)
  BY CircleElements
<1>3. old # <<>>
  BY <1>1, <1>2
<1>4. PeekFront(cb) = old[1]
  <2>1. 1 \in 1..n /\ 1 - 1 = 0 /\ s + 0 = s
    BY <1>1
  <2>2. Spot(s, c, 0) = s
    BY <1>1 DEF Spot
  <2> QED
    BY <1>2, <2>1, <2>2 DEF PeekFront, Element
<1>5. d2 \in [0..(c - 1) -> Texture]
  <2>1. Unwritten \in Texture
    BY DEF Unwritten, Texture
  <2> QED
    BY <1>1, <2>1
<1>6. popped = IF n - 1 = 0
               THEN [data |-> d2, start |-> 0, end |-> 0, size |-> n - 1, capacity |-> c]
               ELSE [data |-> d2, start |-> (s + 1) % c, end |-> e,
                     size |-> n - 1, capacity |-> c]
  <2> DEFINE rest == [cb EXCEPT !.size = @ - 1, !.data[cb.start] = Unwritten]
  <2>1. rest = [data |-> d2, start |-> s, end |-> e, size |-> n - 1, capacity |-> c]
    <3>1. rest = [cb EXCEPT !.size = n - 1, !.data[s] = Unwritten] /\ s = cb.start
      OBVIOUS
    <3> HIDE DEF rest, d, s, e, n, c
    <3> QED
      BY <1>1, <3>1
  <2>2. popped = IF rest.size = 0 THEN [rest EXCEPT !.start = 0, !.end = 0]
                 ELSE [rest EXCEPT !.start = (@ + 1) % c]
    BY DEF PopFront
  <2> HIDE DEF rest, d2, d, s, e, n, c, popped
  <2> DEFINE m == n - 1
  <2>3. [rest EXCEPT !.start = 0, !.end = 0]
            = [data |-> d2, start |-> 0, end |-> 0, size |-> m, capacity |-> c]
    <3>1. rest = [data |-> d2, start |-> s, end |-> e, size |-> m, capacity |-> c]
      BY <2>1
    <3> DEFINE first == [rest EXCEPT !.start = 0]
    <3> HIDE DEF m
    <3>2. first = [data |-> d2, start |-> 0, end |-> e, size |-> m, capacity |-> c]
      BY <3>1
    <3>3. [rest EXCEPT !.start = 0, !.end = 0] = [first EXCEPT !.end = 0]
      OBVIOUS
    <3> HIDE DEF first
    <3> QED
      BY <3>2, <3>3
  <2>4. [rest EXCEPT !.start = (@ + 1) % c]
            = [data |-> d2, start |-> (s + 1) % c, end |-> e, size |-> n - 1, capacity |-> c]
    BY <2>1
  <2>5. rest.size = n - 1
    BY <2>1
  <2> QED
    BY <2>2, <2>3, <2>4, <2>5
<1> HIDE DEF d2, popped, d, s, e, n, c, old, new
<1>7. CASE n = 1
  <2>1. n - 1 = 0
    BY <1>7
  <2>2. popped = [data |-> d2, start |-> 0, end |-> 0, size |-> 0, capacity |-> c]
    BY <1>6, <2>1
  <2>3. Ring(d2, 0, 0, 0, c)
    BY <1>1, <1>5 DEF Ring
  <2>4. Circle(popped)
    BY <1>1, <1>5, <2>2, <2>3, MakesCircle
  <2>5. new = Tail(old)
    <3>1. new \in Seq(Texture) /\ Len(new) = 0
      BY <2>2, <2>4, CircleElements DEF new
    <3>2. Len(new) = Len(old) - 1 /\ \A i \in 1..Len(new) : new[i] = old[i + 1]
      BY <1>2, <1>7, <3>1
    <3> QED
      BY <1>2, <1>3, <3>1, <3>2, SameAsTail
  <2>6. popped.size = 0 /\ popped.capacity = c /\ ~(popped.size > 0) /\ popped.size = n - 1
    BY <2>1, <2>2
  <2> QED
    BY <1>3, <1>4, <2>4, <2>5, <2>6 DEF popped, old, new, n, c
<1>8. CASE n > 1
  <2> DEFINE m == n - 1
             p == (s + 1) % c
  <2>1. popped = [data |-> d2, start |-> p, end |-> e, size |-> m, capacity |-> c]
    BY <1>1, <1>6, <1>8
  <2>2. /\ Ring(d2, p, e, m, c)
        /\ \A i \in 0..(n - 2) : d2[Spot(p, c, i)] = d[Spot(s, c, i + 1)]
    <3>1. Ring(d, s, e, n, c) /\ n > 1
      BY <1>1, <1>8
    <3>2. p = (s + 1) % c
      OBVIOUS
    <3> HIDE DEF p, m
    <3>3. /\ Ring(d2, p, e, n - 1, c)
          /\ \A i \in 0..(n - 2) : d2[Spot(p, c, i)] = d[Spot(s, c, i + 1)]
      BY <3>1, <3>2, PopRing DEF d2
    <3> QED
      BY <3>3 DEF m
  <2>3. m \in Nat /\ m = n - 1
    BY <1>1, <1>8
  <2> HIDE DEF p, m
  <2>4. Circle(popped)
    BY <1>1, <1>5, <2>1, <2>2, MakesCircle
  <2>5. new = Tail(old)
    <3>1. /\ new \in Seq(Texture) /\ Len(new) = m
          /\ \A i \in 1..m : new[i] = Element(popped, i - 1)
      BY <2>1, <2>4, CircleElements DEF new
    <3>2. \A i \in 1..m : new[i] = old[i + 1]
      <4> SUFFICES ASSUME NEW i \in 1..m PROVE new[i] = old[i + 1]
        OBVIOUS
      <4>1. /\ i - 1 \in 0..(n - 2) /\ (i - 1) + 1 = i /\ i + 1 \in 1..n /\ (i + 1) - 1 = i
        BY <1>1, <2>3
      <4>2. new[i] = d2[Spot(p, c, i - 1)]
        BY <2>1, <3>1 DEF Element
      <4>3. old[i + 1] = d[Spot(s, c, i)]
        <5>1. old[i + 1] = Element(cb, i)
          BY <1>2, <4>1
        <5> QED
          BY <5>1 DEF Element, d, s, c
      <4>4. d2[Spot(p, c, i - 1)] = d[Spot(s, c, (i - 1) + 1)]
        BY <2>2, <4>1
      <4> QED
        BY <4>1, <4>2, <4>3, <4>4
    <3>3. Len(new) = Len(old) - 1
      BY <1>2, <2>3, <3>1
    <3> QED
      BY <1>2, <1>3, <3>1, <3>2, <3>3, SameAsTail
  <2>6. popped.size = n - 1 /\ popped.capacity = c /\ popped.end = e
    BY <2>1, <2>3
  <2> QED
    BY <1>3, <1>4, <2>4, <2>5, <2>6 DEF popped, old, new, n, c, e
<1> QED
  BY <1>1, <1>7, <1>8 DEF n

(* The count of the last element grows.                                    *)
LEMMA LengthenedCircle ==
    ASSUME NEW cb, Circle(cb), cb.size > 0, NEW k \in Nat
    PROVE  /\ Circle(Lengthened(cb, k))
           /\ Lengthened(cb, k).size = cb.size /\ Lengthened(cb, k).end = cb.end
           /\ Lengthened(cb, k).capacity = cb.capacity
           /\ \A i \in 1..(cb.size - 1) : Elements(Lengthened(cb, k))[i] = Elements(cb)[i]
           /\ Elements(Lengthened(cb, k))[cb.size]
                  = [Elements(cb)[cb.size] EXCEPT !.count = @ + k]
<1> DEFINE d == cb.data
           s == cb.start
           e == cb.end
           n == cb.size
           c == cb.capacity
           t == Lengthened(cb, k)
           old == Elements(cb)
           new == Elements(t)
           p == Place(cb, n - 1)
<1>1. /\ s \in Nat /\ e \in Nat /\ n \in Nat /\ c \in Nat
      /\ d \in [0..(c - 1) -> Texture] /\ n <= c /\ s < c
      /\ Ring(d, s, e, n, c)
      /\ cb = [data |-> d, start |-> s, end |-> e, size |-> n, capacity |-> c]
  BY CircleSays, BufIs DEF Circle
<1>2. /\ old \in Seq(Texture) /\ Len(old) = n
      /\ \A i \in 1..n : old[i] = Element(cb, i - 1)
  BY CircleElements
<1>3. p \in 0..(c - 1) /\ p = Spot(s, c, n - 1) /\ n - 1 \in 0..(c - 1)
  <2>1. n - 1 \in 0..(c - 1)
    BY <1>1
  <2> QED
    BY <1>1, <2>1, SpotIs DEF Place
<1>4. old[n] = d[p] /\ d[p] \in Texture
  <2>1. n \in 1..n
    BY <1>1
  <2> QED
    BY <1>1, <1>2, <1>3, <2>1 DEF Element
<1> DEFINE longer == [d[p] EXCEPT !.count = @ + k]
           d2 == IF k = 0 THEN d ELSE [d EXCEPT ![p] = longer]
<1>5. longer \in Texture /\ (k = 0 => longer = d[p])
  <2>1. d[p] = [picture |-> d[p].picture, count |-> d[p].count]
        /\ d[p].picture \in Nat /\ d[p].count \in Nat
    BY <1>4 DEF Texture
  <2>2. longer = [picture |-> d[p].picture, count |-> d[p].count + k]
    BY <2>1
  <2>3. k = 0 => d[p].count + k = d[p].count
    BY <2>1
  <2> QED
    BY <2>1, <2>2, <2>3 DEF Texture
<1>6. t = [data |-> d2, start |-> s, end |-> e, size |-> n, capacity |-> c]
  BY <1>1 DEF Lengthened
<1>7. /\ d2 \in [0..(c - 1) -> Texture] /\ d2[p] = longer
      /\ \A i \in 0..(c - 1) : i # p => d2[i] = d[i]
  BY <1>1, <1>3, <1>4, <1>5
<1> HIDE DEF d2, longer, t, p
<1>8. Ring(d2, s, e, n, c)
  BY <1>1, <1>7 DEF Ring
<1>9. Circle(t)
  <2> HIDE DEF d, s, e, n, c
  <2> QED
    BY <1>1, <1>6, <1>7, <1>8, MakesCircle
<1>10. /\ t.size = n /\ t.end = e /\ t.capacity = c /\ t.start = s /\ t.data = d2
  BY <1>6
<1>11. \A i \in 1..n : new[i] = d2[Spot(s, c, i - 1)]
  BY <1>9, <1>10, CircleElements DEF Element
<1>12. new[n] = longer
  BY <1>1, <1>3, <1>7, <1>11
<1>13. \A i \in 1..(n - 1) : new[i] = old[i]
  <2> SUFFICES ASSUME NEW i \in 1..(n - 1) PROVE new[i] = old[i]
    OBVIOUS
  <2> DEFINE j == i - 1
             m == n - 1
  <2>1. /\ j \in 0..(c - 1) /\ m \in 0..(c - 1) /\ j # m /\ i \in 1..n
    BY <1>1
  <2>2. new[i] = d2[Spot(s, c, j)] /\ old[i] = d[Spot(s, c, j)]
    BY <1>2, <1>11, <2>1 DEF Element
  <2>3. p = Spot(s, c, m)
    BY <1>3
  <2> HIDE DEF j, m
  <2>4. Spot(s, c, j) # p /\ Spot(s, c, j) \in 0..(c - 1)
    <3>1. s \in Nat /\ c \in Nat /\ s < c
      BY <1>1
    <3>2. Spot(s, c, j) # Spot(s, c, m)
      BY <2>1, <3>1, SpotsDiffer
    <3>3. Spot(s, c, j) \in 0..(c - 1)
      BY <2>1, <3>1, SpotIs
    <3> QED
      BY <2>3, <3>2, <3>3
  <2> QED
    BY <1>7, <2>2, <2>4
<1> QED
  BY <1>4, <1>9, <1>10, <1>12, <1>13 DEF t, longer

-----------------------------------------------------------------------------
(* Sums over sequences.  They are folds, which are recursive, so what they *)
(* are takes an induction; a set that has 0 and with each number its       *)
(* successor has all, as there is no infinite descent in the intervals     *)
(* 0..n - 1.                                                               *)
LEMMA SetInduction ==
    ASSUME NEW S, 0 \in S, \A n \in Nat : n \in S => n + 1 \in S
    PROVE  Nat \subseteq S
<1> SUFFICES ASSUME Nat \ S # {} PROVE FALSE
  OBVIOUS
<1> DEFINE Below(n) == 0..(n - 1)
           T == {Below(n) : n \in Nat \ S}
           R == StrictSubsetOrdering(Nat)
           F == FiniteSubsetsOf(Nat)
<1>1. IsWellFoundedOn(R, F)
  BY FS_StrictSubsetOrderingWellFounded
<1>2. T \subseteq F /\ T # {}
  <2>1. \A n \in Nat : IsFiniteSet(0..(n - 1))
    BY FS_Interval
  <2> QED
    BY <2>1 DEF FiniteSubsetsOf
<1>3. \A x, y \in Nat : y < x => <<Below(y), Below(x)>> \in R
  <2> SUFFICES ASSUME NEW x \in Nat, NEW y \in Nat, y < x
               PROVE  <<Below(y), Below(x)>> \in R
    OBVIOUS
  <2>1. Below(y) \subseteq Below(x) /\ y \in Below(x) /\ y \notin Below(y)
    OBVIOUS
  <2>2. Below(x) \in SUBSET Nat /\ Below(y) \in SUBSET Nat
    OBVIOUS
  <2>3. Below(y) # Below(x)
    BY <2>1
  <2> HIDE DEF Below
  <2> QED
    BY <2>1, <2>2, <2>3 DEF StrictSubsetOrdering
<1> HIDE DEF R, F
<1>4. PICK t \in T : \A u \in T : ~(<<u, t>> \in R)
  <2> HIDE DEF T
  <2> QED BY <1>1, <1>2, WFMin
<1>5. PICK x \in Nat \ S : t = Below(x)
  BY <1>4
<1>6. \A y \in Nat \ S : ~(y < x)
  <2> HIDE DEF Below
  <2> QED BY <1>3, <1>4, <1>5
<1>7. x # 0 /\ x - 1 \in Nat /\ x - 1 \in S
  BY <1>6
<1> QED
  BY <1>5, <1>7


(* The function that FoldLeft chooses sums up, for every set of places in  *)
(* a sequence, the counts there, from the last to the first.               *)
Total(base, s) == FoldLeft(LAMBDA n, t : n + t.count, base, s)

SumAt(base, s, g, S) ==
    IF S = {} THEN base ELSE g[S \ {Max(S)}] + s[Max(S)].count

Summed(base, s, D, g) == g = [S \in SUBSET D |-> SumAt(base, s, g, S)]

LEMMA TotalIs ==
    ASSUME NEW base, NEW s
    PROVE  Total(base, s) = (CHOOSE g : Summed(base, s, DOMAIN s, g))[DOMAIN s]
BY Zenon DEF Total, FoldLeft, MapThenFoldSet, Summed, SumAt

LEMMA MaxIs ==
    ASSUME NEW S, S \subseteq Int, NEW x \in S, \A y \in S : x >= y
    PROVE  Max(S) = x
<1>1. Max(S) \in S /\ \A y \in S : Max(S) >= y
  BY DEF Max
<1>2. Max(S) >= x /\ x >= Max(S) /\ x \in Int /\ Max(S) \in Int
  BY <1>1
<1> QED
  BY <1>2

LEMMA SummedExist ==
    ASSUME NEW base, NEW s, NEW n \in Nat
    PROVE  \E g : Summed(base, s, 1..n, g)
<1> DEFINE Q == {k \in Nat : \E g : Summed(base, s, 1..k, g)}
<1>1. 0 \in Q
  <2>1. 1..0 = {}
    OBVIOUS
  <2> DEFINE g == [S \in SUBSET (1..0) |-> base]
  <2>2. \A S \in SUBSET (1..0) : SumAt(base, s, g, S) = base
    BY <2>1 DEF SumAt
  <2>3. Summed(base, s, 1..0, g)
    BY <2>2 DEF Summed
  <2> QED
    BY <2>3
<1>2. ASSUME NEW k \in Nat, k \in Q
      PROVE  k + 1 \in Q
  <2>1. PICK f : Summed(base, s, 1..k, f)
    BY <1>2
  <2> DEFINE g == [S \in SUBSET (1..(k + 1)) |->
                      IF k + 1 \in S THEN f[S \ {k + 1}] + s[k + 1].count ELSE f[S]]
  <2>2. ASSUME NEW S \in SUBSET (1..(k + 1))
        PROVE  g[S] = SumAt(base, s, g, S)
    <3>0. g[S] = IF k + 1 \in S THEN f[S \ {k + 1}] + s[k + 1].count ELSE f[S]
      OBVIOUS
    <3>1. CASE k + 1 \in S
      <4>1. Max(S) = k + 1
        <5>1. S \subseteq Int /\ \A y \in S : k + 1 >= y
          OBVIOUS
        <5> QED
          BY <3>1, <5>1, MaxIs
      <4> DEFINE R == S \ {k + 1}
      <4>2. R \in SUBSET (1..(k + 1)) /\ k + 1 \notin R
        OBVIOUS
      <4>3. g[R] = f[R]
        <5> HIDE DEF R
        <5> QED
          BY <4>2
      <4> HIDE DEF g
      <4>4. SumAt(base, s, g, S) = g[R] + s[k + 1].count
        BY <3>1, <4>1 DEF SumAt
      <4> QED
        BY <3>0, <3>1, <4>3, <4>4
    <3>2. CASE k + 1 \notin S
      <4>1. S \in SUBSET (1..k)
        BY <3>2
      <4>2. f[S] = SumAt(base, s, f, S)
        BY <2>1, <4>1 DEF Summed
      <4>3. CASE S = {}
        BY <3>0, <3>2, <4>2, <4>3 DEF SumAt
      <4>4. CASE S # {}
        <5> DEFINE R == S \ {Max(S)}
        <5>1. R \in SUBSET (1..(k + 1)) /\ k + 1 \notin R
          BY <3>2
        <5>2. g[R] = f[R]
          <6> HIDE DEF R
          <6> QED
            BY <5>1
        <5> HIDE DEF g
        <5>3. SumAt(base, s, g, S) = g[R] + s[Max(S)].count
          BY <4>4 DEF SumAt
        <5>4. SumAt(base, s, f, S) = f[R] + s[Max(S)].count
          BY <4>4 DEF SumAt
        <5> QED
          BY <3>0, <3>2, <4>2, <5>2, <5>3, <5>4
      <4> QED
        BY <4>3, <4>4
    <3> QED
      BY <3>1, <3>2
  <2>3. Summed(base, s, 1..(k + 1), g)
    <3>1. g = [S \in SUBSET (1..(k + 1)) |-> g[S]]
      OBVIOUS
    <3> HIDE DEF g
    <3> QED
      BY <2>2, <3>1 DEF Summed
  <2> QED
    BY <2>3
<1> HIDE DEF Q
<1>3. Nat \subseteq Q
  BY <1>1, <1>2, SetInduction
<1> QED
  BY <1>3 DEF Q

(* f has the sums of the first counts, and Total is the last of them.      *)
Sums(base, s, f) ==
    /\ f \in [0..Len(s) -> Int]
    /\ f[0] = base
    /\ \A i \in 1..Len(s) : f[i] = f[i - 1] + s[i].count

LEMMA TotalSums ==
    ASSUME NEW base \in Int, NEW s \in Seq(Texture)
    PROVE  \E f : Sums(base, s, f) /\ Total(base, s) = f[Len(s)]
<1> DEFINE g == CHOOSE h : Summed(base, s, DOMAIN s, h)
           n == Len(s)
<1>1. n \in Nat /\ DOMAIN s = 1..n
  OBVIOUS
<1>2. Summed(base, s, 1..n, g)
  BY <1>1, SummedExist
<1>3. Total(base, s) = g[1..n]
  BY <1>1, TotalIs
<1> HIDE DEF g
<1>4. g[{}] = base
  <2>1. {} \in SUBSET (1..n)
    OBVIOUS
  <2>2. g[{}] = SumAt(base, s, g, {})
    BY <1>2, <2>1 DEF Summed
  <2> QED
    BY <2>2 DEF SumAt
<1>5. ASSUME NEW i \in 1..n
      PROVE  g[1..i] = g[1..(i - 1)] + s[i].count
  <2>0. i \in Nat /\ i >= 1 /\ i <= n
    BY <1>1
  <2>1. 1..i \in SUBSET (1..n) /\ i \in 1..i /\ 1..i # {} /\ (1..i) \ {i} = 1..(i - 1)
    <3>1. (1..i) \ {i} = 1..(i - 1)
      <4>1. \A j : j \in (1..i) \ {i} <=> j \in 1..(i - 1)
        BY <2>0
      <4> QED
        BY <4>1
    <3>2. i \in 1..i /\ 1..i # {}
      <4>1. i \in 1..i
        BY <2>0
      <4> QED
        BY <4>1
    <3>3. \A j \in 1..i : j \in 1..n
      BY <1>1, <2>0
    <3> QED
      BY <3>1, <3>2, <3>3
  <2>2. Max(1..i) = i
    <3>1. 1..i \subseteq Int /\ \A y \in 1..i : i >= y
      OBVIOUS
    <3> QED
      BY <2>1, <3>1, MaxIs
  <2>3. g[1..i] = SumAt(base, s, g, 1..i)
    BY <1>2, <2>1 DEF Summed
  <2> QED
    BY <2>1, <2>2, <2>3 DEF SumAt
<1> DEFINE f == [i \in 0..n |-> g[1..i]]
<1>6. f[0] = base
  <2>1. 1..0 = {} /\ 0 \in 0..n
    BY <1>1
  <2> QED
    BY <1>4, <2>1
<1>7. \A i \in 1..n : f[i] = f[i - 1] + s[i].count
  <2> SUFFICES ASSUME NEW i \in 1..n PROVE f[i] = f[i - 1] + s[i].count
    OBVIOUS
  <2>1. i \in 0..n /\ i - 1 \in 0..n
    BY <1>1
  <2>2. f[i] = g[1..i] /\ f[i - 1] = g[1..(i - 1)]
    BY <2>1
  <2> QED
    BY <1>5, <2>2
<1>8. f[n] = g[1..n] /\ DOMAIN f = 0..n /\ f = [i \in 0..n |-> f[i]]
  BY <1>1
<1> HIDE DEF f
<1>9. \A i \in 0..n : f[i] \in Int
  <2> DEFINE Q == {k \in Nat : k <= n => f[k] \in Int}
  <2>1. 0 \in Q
    BY <1>6
  <2>2. ASSUME NEW k \in Nat, k \in Q
        PROVE  k + 1 \in Q
    <3> SUFFICES ASSUME k + 1 <= n PROVE f[k + 1] \in Int
      OBVIOUS
    <3>1. k + 1 \in 1..n /\ (k + 1) - 1 = k /\ f[k] \in Int
      BY <1>1, <2>2
    <3>2. s[k + 1].count \in Nat
      <4> DEFINE a == k + 1
      <4>1. a \in 1..Len(s)
        BY <3>1
      <4> HIDE DEF a
      <4>2. s[a] \in Texture
        BY <4>1, ElementOfSeq
      <4> QED
        BY <4>2 DEF Texture, a
    <3> QED
      BY <1>7, <3>1, <3>2
  <2> HIDE DEF Q
  <2>3. Nat \subseteq Q
    BY <2>1, <2>2, SetInduction
  <2> QED
    BY <1>1, <2>3 DEF Q
<1>10. Sums(base, s, f)
  BY <1>6, <1>7, <1>8, <1>9 DEF Sums
<1> QED
  BY <1>3, <1>8, <1>10

(* The first n counts of s are those of s2 behind the first h.             *)
SameCounts(s, s2, n, h) ==
    /\ n <= Len(s) /\ n + h <= Len(s2)
    /\ \A i \in 1..n : s2[i + h].count = s[i].count

(* Where two sequences have the same counts their sums differ by as much   *)
(* everywhere.                                                             *)
LEMMA SumsRun ==
    ASSUME NEW base, NEW base2, NEW s \in Seq(Texture), NEW s2 \in Seq(Texture),
           NEW f, NEW f2, Sums(base, s, f), Sums(base2, s2, f2),
           NEW n \in Nat, NEW h \in Nat, NEW d \in Int, SameCounts(s, s2, n, h),
           f2[h] = base + d
    PROVE  f2[n + h] = f[n] + d
<1>0. /\ Len(s) \in Nat /\ Len(s2) \in Nat
      /\ f \in [0..Len(s) -> Int] /\ f2 \in [0..Len(s2) -> Int]
      /\ f[0] = base
      /\ \A i \in 1..Len(s) : f[i] = f[i - 1] + s[i].count
      /\ \A i \in 1..Len(s2) : f2[i] = f2[i - 1] + s2[i].count
      /\ n <= Len(s) /\ n + h <= Len(s2)
      /\ \A i \in 1..n : s2[i + h].count = s[i].count
  BY DEF Sums, SameCounts
<1> DEFINE Q == {k \in Nat : k <= n => f2[k + h] = f[k] + d}
<1>1. 0 \in Q
  BY <1>0
<1>2. ASSUME NEW k \in Nat, k \in Q
      PROVE  k + 1 \in Q
  <2> SUFFICES ASSUME k + 1 <= n PROVE f2[(k + 1) + h] = f[k + 1] + d
    OBVIOUS
  <2> DEFINE a == k + 1
             b == (k + 1) + h
  <2>1. /\ a \in 1..n /\ a \in 1..Len(s) /\ b \in 1..Len(s2) /\ a - 1 = k /\ b - 1 = k + h
        /\ a + h = b /\ k \in 0..Len(s) /\ k + h \in 0..Len(s2)
    BY <1>0
  <2>2. f2[k + h] = f[k] + d
    BY <1>2, <2>1
  <2>3. s2[b].count = s[a].count /\ s[a].count \in Nat
    <3>1. s[a] \in Texture
      BY <2>1, ElementOfSeq
    <3>2. s2[a + h].count = s[a].count /\ a + h = b
      BY <1>0, <2>1
    <3> HIDE DEF a, b
    <3>3. s[a].count \in Nat
      BY <3>1 DEF Texture
    <3> QED
      BY <3>2, <3>3
  <2> HIDE DEF a, b
  <2>4. f[a] = f[k] + s[a].count /\ f2[b] = f2[k + h] + s2[b].count
    BY <1>0, <2>1
  <2>5. f[k] \in Int
    BY <1>0, <2>1
  <2>6. f2[b] = f[a] + d
    BY <2>2, <2>3, <2>4, <2>5
  <2> QED
    BY <2>6 DEF a, b
<1> HIDE DEF Q
<1>3. Nat \subseteq Q
  BY <1>1, <1>2, SetInduction
<1> QED
  BY <1>3 DEF Q

LEMMA SumsSame ==
    ASSUME NEW base \in Int, NEW s \in Seq(Texture), NEW t \in Seq(Texture),
           NEW f, NEW g, Sums(base, s, f), Sums(base, t, g),
           NEW n \in Nat, SameCounts(s, t, n, 0)
    PROVE  g[n] = f[n]
<1> DEFINE h == 0
<1>1. h \in Nat /\ h \in Int /\ SameCounts(s, t, n, h) /\ g[h] = base + h
  BY DEF Sums
<1> HIDE DEF h
<1>2. g[n + h] = f[n] + h
  BY <1>1, SumsRun
<1>3. f[n] \in Int
  <2>1. n \in 0..Len(s)
    BY DEF SameCounts
  <2> QED
    BY <2>1 DEF Sums
<1> QED
  BY <1>2, <1>3 DEF h

LEMMA TotalTyped ==
    ASSUME NEW base \in Int, NEW s \in Seq(Texture)
    PROVE  Total(base, s) \in Int
<1>1. PICK f : Sums(base, s, f) /\ Total(base, s) = f[Len(s)]
  BY TotalSums
<1>2. Len(s) \in 0..Len(s)
  OBVIOUS
<1> QED
  BY <1>1, <1>2 DEF Sums

LEMMA TotalNone == ASSUME NEW base \in Int PROVE Total(base, <<>>) = base
<1>0. <<>> \in Seq(Texture) /\ Len(<<>>) = 0
  OBVIOUS
<1>1. PICK f : Sums(base, <<>>, f) /\ Total(base, <<>>) = f[0]
  BY <1>0, TotalSums
<1> QED
  BY <1>1 DEF Sums

LEMMA TotalAppend ==
    ASSUME NEW base \in Int, NEW s \in Seq(Texture), NEW x \in Texture
    PROVE  Total(base, Append(s, x)) = Total(base, s) + x.count
<1> DEFINE t == Append(s, x)
<1>1. /\ t \in Seq(Texture) /\ Len(t) = Len(s) + 1 /\ t[Len(s) + 1] = x
      /\ \A i \in 1..Len(s) : t[i] = s[i]
  BY AppendProperties
<1> HIDE DEF t
<1>2. PICK f : Sums(base, s, f) /\ Total(base, s) = f[Len(s)]
  BY TotalSums
<1>3. PICK g : Sums(base, t, g) /\ Total(base, t) = g[Len(t)]
  BY <1>1, TotalSums
<1>4. g[Len(s)] = f[Len(s)]
  <2> DEFINE n == Len(s)
  <2>1. n \in Nat /\ n <= Len(s) /\ n + 0 = n /\ n <= Len(t)
    BY <1>1
  <2>2. SameCounts(s, t, n, 0)
    BY <1>1, <2>1 DEF SameCounts
  <2> HIDE DEF n
  <2>3. g[n] = f[n]
    BY <1>1, <1>2, <1>3, <2>1, <2>2, SumsSame
  <2> QED
    BY <2>3 DEF n
<1>5. g[Len(s) + 1] = g[(Len(s) + 1) - 1] + t[Len(s) + 1].count /\ (Len(s) + 1) - 1 = Len(s)
  <2>1. Len(s) + 1 \in 1..Len(t) /\ (Len(s) + 1) - 1 = Len(s)
    BY <1>1
  <2> QED
    BY <1>3, <2>1 DEF Sums
<1>6. Total(base, t) = Total(base, s) + x.count
  BY <1>1, <1>2, <1>3, <1>4, <1>5
<1> QED
  BY <1>6 DEF t

(* An element in front counts from the start.                              *)
LEMMA TotalFront ==
    ASSUME NEW base \in Int, NEW base2 \in Int, NEW s \in Seq(Texture), NEW x \in Texture
    PROVE  Total(base2, <<x>> \o s) = Total(base, s) + (base2 - base) + x.count
<1> DEFINE t == <<x>> \o s
<1>1. /\ t \in Seq(Texture) /\ Len(t) = Len(s) + 1 /\ t[1] = x
      /\ \A i \in 1..Len(s) : t[i + 1] = s[i]
  BY FrontIs
<1> HIDE DEF t
<1>2. PICK f : Sums(base, s, f) /\ Total(base, s) = f[Len(s)]
  BY TotalSums
<1>3. PICK g : Sums(base2, t, g) /\ Total(base2, t) = g[Len(t)]
  BY <1>1, TotalSums
<1> DEFINE d == (base2 - base) + x.count
<1>4. d \in Int /\ base + d = base2 + x.count
  BY DEF Texture
<1>5. g[1] = base + d
  <2>1. 1 \in 1..Len(t) /\ 1 - 1 = 0
    BY <1>1
  <2>2. g[1] = g[0] + t[1].count /\ g[0] = base2
    BY <1>3, <2>1 DEF Sums
  <2> QED
    BY <1>1, <1>4, <2>2
<1> HIDE DEF d
<1>6. g[Len(s) + 1] = f[Len(s)] + d
  <2>1. Len(s) \in Nat /\ 1 \in Nat /\ Len(s) <= Len(s) /\ Len(s) + 1 <= Len(t)
    BY <1>1
  <2>2. \A i \in 1..Len(s) : t[i + 1].count = s[i].count
    BY <1>1
  <2> DEFINE n == Len(s)
             h == 1
  <2>3. n \in Nat /\ h \in Nat /\ SameCounts(s, t, n, h) /\ g[h] = base + d
    BY <1>5, <2>1, <2>2 DEF SameCounts
  <2> HIDE DEF n, h
  <2>4. t \in Seq(Texture) /\ Sums(base, s, f) /\ Sums(base2, t, g) /\ d \in Int
    BY <1>1, <1>2, <1>3, <1>4
  <2>5. g[n + h] = f[n] + d
    BY <2>3, <2>4, SumsRun
  <2> QED
    BY <2>5 DEF n, h
<1>7. Total(base2, t) = Total(base, s) + d
  BY <1>1, <1>2, <1>3, <1>6
<1>8. Total(base, s) \in Int
  BY TotalTyped
<1> QED
  BY <1>7, <1>8 DEF t, d, Texture

(* From another start the sum differs by as much.                          *)
LEMMA TotalFrom ==
    ASSUME NEW base \in Int, NEW base2 \in Int, NEW s \in Seq(Texture)
    PROVE  Total(base2, s) = Total(base, s) + (base2 - base)
<1>2. PICK f : Sums(base, s, f) /\ Total(base, s) = f[Len(s)]
  BY TotalSums
<1>3. PICK g : Sums(base2, s, g) /\ Total(base2, s) = g[Len(s)]
  BY TotalSums
<1> DEFINE d == base2 - base
           n == Len(s)
<1>4. d \in Int /\ g[0] = base + d
  BY <1>3 DEF Sums
<1>5. n \in Nat /\ n <= n /\ 0 \in Nat /\ n + 0 = n
  OBVIOUS
<1>6. \A i \in 1..n : s[i + 0].count = s[i].count
  OBVIOUS
<1> HIDE DEF d
<1>7. g[n + 0] = f[n] + d
  <2> DEFINE h == 0
  <2>0. n + h <= Len(s)
    OBVIOUS
  <2>1. n \in Nat /\ h \in Nat /\ d \in Int /\ SameCounts(s, s, n, h) /\ g[h] = base + d
    BY <1>4, <1>5, <1>6, <2>0 DEF SameCounts
  <2>2. Sums(base, s, f) /\ Sums(base2, s, g)
    BY <1>2, <1>3
  <2> HIDE DEF n, h
  <2>3. g[n + h] = f[n] + d
    BY <2>1, <2>2, SumsRun
  <2> QED
    BY <2>3 DEF h
<1> QED
  BY <1>2, <1>3, <1>5, <1>7 DEF d

SameButLast(s, t) == \A i \in 1..(Len(s) - 1) : t[i] = s[i]

(* When the last count grows, the sum grows.                               *)
LEMMA TotalLengthened ==
    ASSUME NEW base \in Int, NEW s \in Seq(Texture), NEW t \in Seq(Texture),
           Len(s) > 0, Len(t) = Len(s), NEW k \in Int,
           SameButLast(s, t),
           t[Len(s)].count = s[Len(s)].count + k
    PROVE  Total(base, t) = Total(base, s) + k
<1> DEFINE n == Len(s)
           m == n - 1
<1>1. n \in Nat /\ m \in Nat /\ m <= n /\ m + 0 = m /\ m <= Len(t) /\ n \in 1..n
      /\ m \in 0..n /\ n = Len(s) /\ m = n - 1
  OBVIOUS
<1>0. \A i \in 1..(Len(s) - 1) : t[i] = s[i]
  BY DEF SameButLast
<1>2. PICK f : Sums(base, s, f) /\ Total(base, s) = f[Len(s)]
  BY TotalSums
<1>3. PICK g : Sums(base, t, g) /\ Total(base, t) = g[Len(t)]
  BY TotalSums
<1>4. \A i \in 1..m : t[i + 0].count = s[i].count
  BY <1>0
<1> HIDE DEF n, m
<1>5. g[m] = f[m]
  <2>1. SameCounts(s, t, m, 0)
    BY <1>1, <1>4 DEF SameCounts
  <2> QED
    BY <1>1, <1>2, <1>3, <2>1, SumsSame
<1>6. /\ f[n] = f[m] + s[n].count /\ g[n] = g[m] + t[n].count /\ f[m] \in Int
  BY <1>1, <1>2, <1>3 DEF Sums
<1>7. s[n].count \in Nat /\ t[n].count = s[n].count + k
  <2>1. s[n] \in Texture
    BY <1>1, ElementOfSeq
  <2> QED
    BY <1>1, <2>1 DEF Texture
<1>8. g[n] = f[n] + k
  <2> DEFINE was == s[n].count
             is == t[n].count
             fn == f[n]
             gn == g[n]
             fm == f[m]
  <2>1. /\ fm \in Int /\ was \in Nat /\ fn = fm + was /\ gn = fm + is /\ is = was + k
        /\ k \in Int
    BY <1>5, <1>6, <1>7
  <2> HIDE DEF was, is, fn, gn, fm
  <2>2. gn = fn + k
    BY <2>1
  <2> QED
    BY <2>2 DEF fn, gn
<1> QED
  BY <1>1, <1>2, <1>3, <1>8

-----------------------------------------------------------------------------
(* The queue of textures.                                                  *)
(* A queue of pictures of increasing times that lie between two, each of   *)
(* which stands for one frame at least.                                    *)
Between(t, low, high) == t.count >= 1 /\ low <= t.picture /\ t.picture <= high

Ascending(s) == \A i \in 1..(Len(s) - 1) : s[i].picture <= s[i + 1].picture

Pictures(s, low, high) == Ascending(s) /\ \A i \in 1..Len(s) : Between(s[i], low, high)

Proper(cb, low, high) == Circle(cb) /\ Pictures(Elements(cb), low, high)

(* While there is but one place no picture stands for more frames: one     *)
(* that does would be put back at the front of an empty buffer.            *)
OnesIfSmall(cb) == cb.capacity <= 1 => \A i \in 1..cb.size : Elements(cb)[i].count = 1

LEMMA BackProper ==
    ASSUME NEW cb, NEW low \in Nat, NEW high \in Nat, Proper(cb, low, high), low <= high,
           NEW x \in Texture, x.count >= 1, x.picture = high
    PROVE  Proper(PushBack(cb, x), low, high)
<1> DEFINE s == Elements(cb)
           t == Elements(PushBack(cb, x))
<1>1. Circle(PushBack(cb, x)) /\ t = Append(s, x) /\ s \in Seq(Texture)
  BY BackCircle, CircleElements DEF Proper
<1>2. Pictures(s, low, high)
  BY DEF Proper
<1> HIDE DEF s, t
<1>3. /\ t \in Seq(Texture) /\ Len(t) = Len(s) + 1 /\ t[Len(s) + 1] = x
      /\ \A i \in 1..Len(s) : t[i] = s[i]
      /\ Len(s) \in Nat
  BY <1>1, AppendProperties
<1>4. Ascending(t)
  <2> SUFFICES ASSUME NEW i \in 1..(Len(t) - 1) PROVE t[i].picture <= t[i + 1].picture
    BY DEF Ascending
  <2>1. i \in 1..Len(s) /\ t[i] = s[i]
    BY <1>3
  <2>2. CASE i = Len(s)
    BY <1>2, <1>3, <2>1, <2>2 DEF Pictures, Between
  <2>3. CASE i # Len(s)
    <3>1. i \in 1..(Len(s) - 1) /\ i + 1 \in 1..Len(s)
      BY <1>3, <2>1, <2>3
    <3> QED
      BY <1>2, <1>3, <2>1, <3>1 DEF Pictures, Ascending
  <2> QED
    BY <2>2, <2>3
<1>5. ASSUME NEW i \in 1..Len(t)
      PROVE  Between(t[i], low, high)
  <2>1. CASE i = Len(s) + 1
    BY <1>3, <2>1 DEF Between
  <2>2. CASE i # Len(s) + 1
    <3>1. i \in 1..Len(s) /\ t[i] = s[i]
      BY <1>3, <2>2
    <3> QED
      BY <1>2, <3>1 DEF Pictures
  <2> QED
    BY <2>1, <2>2
<1> QED
  BY <1>1, <1>4, <1>5 DEF Proper, Pictures, t

LEMMA FrontProper ==
    ASSUME NEW cb, NEW low \in Nat, NEW high \in Nat, NEW x \in Texture,
           Proper(cb, x.picture, high), Between(x, low, high),
           cb.size > 0 => cb.end > 0, cb.size = 0 => cb.capacity > 1
    PROVE  Proper(PushFront(cb, x), low, high)
<1> DEFINE s == Elements(cb)
           t == Elements(PushFront(cb, x))
<1>1. Circle(PushFront(cb, x)) /\ t = <<x>> \o s /\ s \in Seq(Texture)
  BY FrontCircle, CircleElements DEF Proper
<1>2. Pictures(s, x.picture, high)
  BY DEF Proper
<1> HIDE DEF s, t
<1>3. /\ t \in Seq(Texture) /\ Len(t) = Len(s) + 1 /\ t[1] = x
      /\ \A i \in 1..Len(s) : t[i + 1] = s[i]
      /\ Len(s) \in Nat
  BY <1>1, FrontIs
<1>4. Ascending(t)
  <2> SUFFICES ASSUME NEW i \in 1..(Len(t) - 1) PROVE t[i].picture <= t[i + 1].picture
    BY DEF Ascending
  <2>1. i \in 1..Len(s) /\ t[i + 1] = s[i]
    BY <1>3
  <2>2. CASE i = 1
    BY <1>2, <1>3, <2>1, <2>2 DEF Pictures, Between
  <2>3. CASE i # 1
    <3> DEFINE j == i - 1
    <3>1. j \in 1..(Len(s) - 1) /\ j + 1 = i /\ j \in 1..Len(s)
      BY <1>3, <2>1, <2>3
    <3> HIDE DEF j
    <3>2. t[j + 1] = s[j] /\ s[j].picture <= s[j + 1].picture
      BY <1>2, <1>3, <3>1 DEF Pictures, Ascending
    <3> QED
      BY <2>1, <3>1, <3>2
  <2> QED
    BY <2>2, <2>3
<1>5. ASSUME NEW i \in 1..Len(t)
      PROVE  Between(t[i], low, high)
  <2>1. CASE i = 1
    BY <1>3, <2>1
  <2>2. CASE i # 1
    <3> DEFINE j == i - 1
    <3>1. j \in 1..Len(s) /\ j + 1 = i
      BY <1>3, <2>2
    <3> HIDE DEF j
    <3>2. t[i] = s[j] /\ Between(s[j], x.picture, high) /\ s[j] \in Texture
      BY <1>1, <1>2, <1>3, <3>1, ElementOfSeq DEF Pictures
    <3> QED
      BY <3>2 DEF Between, Texture
  <2> QED
    BY <2>1, <2>2
<1> QED
  BY <1>1, <1>4, <1>5 DEF Proper, Pictures, t

LEMMA PopProper ==
    ASSUME NEW cb, NEW low \in Nat, NEW high \in Nat, Proper(cb, low, high), cb.size > 0
    PROVE  /\ PeekFront(cb) \in Texture /\ Between(PeekFront(cb), low, high)
           /\ Proper(PopFront(cb), PeekFront(cb).picture, high)
           /\ Total(0, Elements(cb)) = Total(0, Elements(PopFront(cb))) + PeekFront(cb).count
<1> DEFINE s == Elements(cb)
           t == Elements(PopFront(cb))
           x == PeekFront(cb)
<1>1. Circle(PopFront(cb)) /\ t = Tail(s) /\ s \in Seq(Texture) /\ s # <<>> /\ x = s[1]
  BY PopCircle, CircleElements DEF Proper
<1>2. Pictures(s, low, high)
  BY DEF Proper
<1> HIDE DEF s, t, x
<1>3. /\ t \in Seq(Texture) /\ Len(t) = Len(s) - 1 /\ Len(s) \in Nat /\ Len(s) > 0
      /\ \A i \in 1..Len(t) : t[i] = s[i + 1]
  BY <1>1, HeadTailProperties, EmptySeq
<1>4. x \in Texture /\ Between(x, low, high)
  <2>1. 1 \in 1..Len(s)
    BY <1>3
  <2> QED
    BY <1>1, <1>2, <2>1, ElementOfSeq DEF Pictures
<1>5. s = <<x>> \o t
  <2>1. t \in Seq(Texture) /\ Len(s) = Len(t) + 1 /\ s[1] = x
        /\ \A i \in 1..Len(t) : s[i + 1] = t[i]
    BY <1>1, <1>3
  <2> QED
    BY <1>1, <1>4, <2>1, SameAsFront
<1>6. Total(0, s) = Total(0, t) + x.count
  <2>1. Total(0, <<x>> \o t) = Total(0, t) + (0 - 0) + x.count
    BY <1>3, <1>4, TotalFront
  <2>2. Total(0, t) \in Int /\ x.count \in Int
    BY <1>3, <1>4, TotalTyped DEF Texture
  <2> QED
    BY <1>5, <2>1, <2>2
<1>7. Ascending(t)
  <2> SUFFICES ASSUME NEW i \in 1..(Len(t) - 1) PROVE t[i].picture <= t[i + 1].picture
    BY DEF Ascending
  <2> DEFINE j == i + 1
  <2>1. j \in 1..(Len(s) - 1) /\ i \in 1..Len(t) /\ j \in 1..Len(t)
    BY <1>3
  <2>2. t[i] = s[j] /\ t[j] = s[j + 1]
    BY <1>3, <2>1
  <2> HIDE DEF j
  <2>3. s[j].picture <= s[j + 1].picture
    BY <1>2, <2>1 DEF Pictures, Ascending
  <2> QED
    BY <2>2, <2>3 DEF j
<1>8. \A i \in 1..Len(s) : s[i] \in Texture /\ x.picture <= s[i].picture
  <2> DEFINE Q == {k \in Nat : k + 1 <= Len(s) => x.picture <= s[k + 1].picture}
  <2>1. 0 \in Q
    BY <1>1, <1>4 DEF Texture
  <2>2. ASSUME NEW k \in Nat, k \in Q
        PROVE  k + 1 \in Q
    <3> SUFFICES ASSUME (k + 1) + 1 <= Len(s) PROVE x.picture <= s[(k + 1) + 1].picture
      OBVIOUS
    <3> DEFINE j == k + 1
    <3>1. /\ j \in 1..(Len(s) - 1) /\ j \in 1..Len(s) /\ j + 1 \in 1..Len(s)
          /\ x.picture <= s[j].picture
      BY <1>3, <2>2
    <3> HIDE DEF j
    <3>2. s[j].picture <= s[j + 1].picture /\ s[j] \in Texture /\ s[j + 1] \in Texture
      BY <1>1, <1>2, <3>1, ElementOfSeq DEF Pictures, Ascending
    <3>3. x.picture <= s[j + 1].picture
      <4>1. x.picture \in Nat /\ s[j].picture \in Nat /\ s[j + 1].picture \in Nat
        BY <1>4, <3>2 DEF Texture
      <4>2. \A a, b, c \in Nat : a <= b /\ b <= c => a <= c
        OBVIOUS
      <4> QED
        BY <3>1, <3>2, <4>1, <4>2, Zenon
    <3> QED
      BY <3>3 DEF j
  <2> HIDE DEF Q
  <2>3. Nat \subseteq Q
    BY <2>1, <2>2, SetInduction
  <2>4. ASSUME NEW i \in 1..Len(s)
        PROVE  s[i] \in Texture /\ x.picture <= s[i].picture
    <3>1. i - 1 \in Q /\ (i - 1) + 1 = i /\ i <= Len(s)
      BY <1>3, <2>3
    <3> QED
      BY <1>1, <3>1, ElementOfSeq DEF Q
  <2> QED
    BY <2>4
<1>9. ASSUME NEW i \in 1..Len(t)
      PROVE  Between(t[i], x.picture, high)
  <2> DEFINE j == i + 1
  <2>1. j \in 1..Len(s) /\ t[i] = s[j]
    BY <1>3
  <2> HIDE DEF j
  <2> QED
    BY <1>2, <1>8, <2>1 DEF Pictures, Between
<1> QED
  BY <1>1, <1>4, <1>6, <1>7, <1>9 DEF Proper, Pictures, s, t, x

LEMMA LengthenedProper ==
    ASSUME NEW cb, NEW low \in Nat, NEW high \in Nat, Proper(cb, low, high), cb.size > 0,
           NEW k \in Nat
    PROVE  /\ Proper(Lengthened(cb, k), low, high)
           /\ Total(0, Elements(Lengthened(cb, k))) = Total(0, Elements(cb)) + k
<1> DEFINE s == Elements(cb)
           t == Elements(Lengthened(cb, k))
           n == cb.size
<1>1. /\ Circle(Lengthened(cb, k)) /\ s \in Seq(Texture) /\ t \in Seq(Texture)
      /\ Len(s) = n /\ Len(t) = n /\ n \in Nat /\ n > 0
      /\ \A i \in 1..(n - 1) : t[i] = s[i]
      /\ t[n] = [s[n] EXCEPT !.count = @ + k]
  <2>1. Circle(cb)
    BY DEF Proper
  <2>2. /\ Circle(Lengthened(cb, k)) /\ Lengthened(cb, k).size = n
        /\ \A i \in 1..(n - 1) : t[i] = s[i]
        /\ t[n] = [s[n] EXCEPT !.count = @ + k]
    BY <2>1, LengthenedCircle
  <2>3. s \in Seq(Texture) /\ t \in Seq(Texture) /\ Len(s) = n /\ Len(t) = n
    BY <2>1, <2>2, CircleElements
  <2>4. n \in Nat /\ n > 0
    BY <2>1, CircleSays
  <2> HIDE DEF s, t, n
  <2> QED
    BY <2>2, <2>3, <2>4
<1>2. Pictures(s, low, high)
  BY DEF Proper
<1> HIDE DEF s, t, n
<1>3. n \in 1..n /\ s[n] \in Texture
  BY <1>1, ElementOfSeq
<1>4. t[n].count = s[n].count + k /\ t[n].picture = s[n].picture
  BY <1>1, <1>3 DEF Texture
<1>5. Total(0, t) = Total(0, s) + k
  <2>1. /\ Len(s) > 0 /\ Len(t) = Len(s) /\ k \in Int /\ 0 \in Int
        /\ SameButLast(s, t) /\ t[Len(s)].count = s[Len(s)].count + k
    BY <1>1, <1>4 DEF SameButLast
  <2>2. s \in Seq(Texture) /\ t \in Seq(Texture)
    BY <1>1
  <2> QED
    BY <2>1, <2>2, TotalLengthened
<1>6. \A i \in 1..n : t[i].picture = s[i].picture
  <2> SUFFICES ASSUME NEW i \in 1..n PROVE t[i].picture = s[i].picture
    OBVIOUS
  <2>1. i \in 1..(n - 1) \/ i = n
    BY <1>1
  <2> QED
    BY <1>1, <1>4, <2>1
<1>7. Ascending(t)
  BY <1>1, <1>2, <1>6 DEF Pictures, Ascending
<1>8. ASSUME NEW i \in 1..n
      PROVE  Between(t[i], low, high)
  <2>1. CASE i = n
    <3>1. Between(s[n], low, high)
      BY <1>1, <1>2, <1>3 DEF Pictures
    <3>2. s[n].count \in Nat
      BY <1>3 DEF Texture
    <3> QED
      BY <1>4, <2>1, <3>1, <3>2 DEF Between
  <2>2. CASE i # n
    <3>1. i \in 1..(n - 1)
      BY <1>1, <2>2
    <3> QED
      BY <1>1, <1>2, <3>1 DEF Pictures
  <2> QED
    BY <2>1, <2>2
<1> QED
  BY <1>1, <1>5, <1>7, <1>8 DEF Proper, Pictures, s, t

(* A picture that stands for some frames more is queued behind others.     *)
LEMMA QueuedBehindSound ==
    ASSUME NEW cb, NEW low \in Nat, videoTime \in Nat, low <= videoTime,
           Proper(cb, low, videoTime), cb.size > 0, OnesIfSmall(cb),
           NEW avail \in Nat, NEW k \in Nat, avail = 0 => cb.capacity > 1,
           NEW q, q = QueuedBehind(cb, avail, k)
    PROVE  /\ Proper(q.queue, low, videoTime) /\ OnesIfSmall(q.queue)
           /\ Total(0, Elements(q.queue)) = Total(0, Elements(cb)) + k
           /\ q.avail \in Nat /\ q.avail + q.queue.size = avail + cb.size
           /\ q.queue.size > 0
           /\ q.queue.end > 0 \/ (q.queue.end = cb.end /\ q.queue.size = cb.size)
           /\ q.queue.capacity > 1 \/ k = 0
<1>0. Circle(cb) /\ cb.size \in Nat /\ cb.end \in Nat /\ cb.capacity \in Nat
  BY CircleSays DEF Proper
<1>1. CASE k = 0 \/ avail = 0
  <2> DEFINE l == Lengthened(cb, k)
  <2>1. q = [queue |-> l, avail |-> avail]
    BY <1>1 DEF QueuedBehind
  <2>2. /\ Proper(l, low, videoTime)
        /\ Total(0, Elements(l)) = Total(0, Elements(cb)) + k
        /\ l.size = cb.size /\ l.end = cb.end /\ l.capacity = cb.capacity
    BY <1>0, LengthenedProper, LengthenedCircle
  <2>3. OnesIfSmall(l)
    <3>1. CASE k = 0
      <4>1. l = cb
        BY <3>1 DEF Lengthened
      <4> QED
        BY <4>1
    <3>2. CASE k # 0
      <4>1. ~(l.capacity <= 1)
        BY <1>0, <1>1, <2>2, <3>2
      <4> QED
        BY <4>1 DEF OnesIfSmall
    <3> QED
      BY <3>1, <3>2
  <2>4. l.capacity > 1 \/ k = 0
    BY <1>1, <2>2
  <2> HIDE DEF l
  <2> QED
    BY <1>0, <2>1, <2>2, <2>3, <2>4
<1>2. CASE ~(k = 0 \/ avail = 0)
  <2> DEFINE l == Lengthened(cb, k - 1)
             b == PushBack(l, NewTexture)
  <2>1. q = [queue |-> b, avail |-> avail - 1]
    BY <1>2 DEF QueuedBehind
  <2>2. k - 1 \in Nat /\ avail - 1 \in Nat
    BY <1>2
  <2>3. /\ Proper(l, low, videoTime) /\ Circle(l)
        /\ Total(0, Elements(l)) = Total(0, Elements(cb)) + (k - 1)
        /\ l.size = cb.size
    BY <1>0, <2>2, LengthenedProper, LengthenedCircle
  <2> HIDE DEF l
  <2>4. NewTexture \in Texture /\ NewTexture.count = 1 /\ NewTexture.picture = videoTime
    BY DEF NewTexture, Texture
  <2>5. /\ Proper(b, low, videoTime) /\ Circle(b)
        /\ Elements(b) = Append(Elements(l), NewTexture)
        /\ b.size = cb.size + 1 /\ b.end > 0
    <3>1. Proper(b, low, videoTime)
      BY <2>3, <2>4, BackProper
    <3>2. /\ Circle(b) /\ Elements(b) = Append(Elements(l), NewTexture)
          /\ b.size = l.size + 1 /\ b.end > 0
      BY <2>3, <2>4, BackCircle
    <3> QED
      BY <2>3, <3>1, <3>2
  <2> HIDE DEF b
  <2>6. Total(0, Elements(b)) = Total(0, Elements(cb)) + k
    <3>1. Elements(l) \in Seq(Texture) /\ Elements(cb) \in Seq(Texture)
      BY <1>0, <2>3, CircleElements
    <3>2. Total(0, Elements(b)) = Total(0, Elements(l)) + 1
      BY <2>4, <2>5, <3>1, TotalAppend
    <3>3. Total(0, Elements(cb)) \in Int
      BY <3>1, TotalTyped
    <3> QED
      BY <2>3, <3>2, <3>3
  <2>7. b.capacity > 1
    <3>1. b.size <= b.capacity /\ b.size \in Nat /\ b.capacity \in Nat
      BY <2>5, CircleSays
    <3> QED
      BY <1>0, <2>5, <3>1
  <2>8. OnesIfSmall(b)
    <3>1. b.capacity \in Nat
      BY <2>5, CircleSays
    <3>2. ~(b.capacity <= 1)
      BY <2>7, <3>1
    <3> QED
      BY <3>2 DEF OnesIfSmall
  <2>9. (avail - 1) + b.size = avail + cb.size /\ b.size > 0
    <3>1. b.size = cb.size + 1 /\ cb.size \in Nat
      BY <1>0, <2>5
    <3> QED
      BY <3>1
  <2>10. q.queue = b /\ q.avail = avail - 1
    BY <2>1
  <2>11. q.avail \in Nat /\ q.avail + q.queue.size = avail + cb.size /\ q.queue.size > 0
    BY <2>2, <2>9, <2>10
  <2> QED
    BY <2>5, <2>6, <2>7, <2>8, <2>10, <2>11
<1> QED
  BY <1>1, <1>2

(* Textures, semaphore and debts of the encoders agree.                    *)
Waiting == Elements(gpuQueue)
Held == IF gpuHeld = NoTexture THEN 0 ELSE 1

HeldInv ==
    /\ gpuHeld \in Texture /\ (gpuHeld # NoTexture => gpuHeld.count >= 1)
    /\ gpuHeld.picture <= videoTime
    /\ gpuQueue.capacity <= 1 => gpuHeld.count <= 1
    /\ gpuQueue.size > 0 /\ gpuQueue.end = 0 => gpuQueue.size = 1 /\ gpuHeld = NoTexture

TexturesCounted ==
    /\ gpuOwed \in Int /\ gpuOwed = gpuPosts + Held
    /\ gpuPosts + Held = Total(0, Waiting) + gpuHeld.count
    /\ gpuAvail + Held + gpuQueue.size = EncodeTextures

TexturesInv ==
    /\ Proper(gpuQueue, gpuHeld.picture, videoTime) /\ OnesIfSmall(gpuQueue)
    /\ HeldInv /\ TexturesCounted

LEMMA NoTextureIs == NoTexture \in Texture /\ NoTexture.count = 0 /\ NoTexture.picture = 0
BY DEF NoTexture, Unwritten, Texture

LEMMA InitTextures == ASSUME Init PROVE TexturesInv
<1>1. /\ gpuQueue = EmptyBuf /\ gpuHeld = NoTexture /\ gpuAvail = EncodeTextures
      /\ gpuPosts = 0 /\ gpuOwed = 0 /\ videoTime = 1
  BY DEF Init
<1>2. Circle(gpuQueue) /\ Waiting = <<>> /\ gpuQueue.size = 0 /\ Held = 0
  BY <1>1, EmptyCircle DEF Waiting, EmptyBuf, Held
<1>3. Proper(gpuQueue, gpuHeld.picture, videoTime)
  <2>1. Len(<<>>) = 0
    OBVIOUS
  <2> QED
    BY <1>2, <2>1 DEF Proper, Pictures, Ascending, Waiting
<1>4. OnesIfSmall(gpuQueue)
  BY <1>2 DEF OnesIfSmall
<1>5. HeldInv
  BY <1>1, <1>2, NoTextureIs DEF HeldInv
<1>6. TexturesCounted
  <2>1. Total(0, Waiting) = 0
    BY <1>2, TotalNone
  <2> QED
    BY <1>1, <1>2, <2>1, NoTextureIs, TexturesAssumption DEF TexturesCounted
<1> QED
  BY <1>3, <1>4, <1>5, <1>6 DEF TexturesInv

LEMMA TexturesRest ==
    ASSUME TexturesInv, UNCHANGED gpuEncoder, videoTime \in Nat, videoTime' \in Nat,
           videoTime <= videoTime'
    PROVE  TexturesInv'
<1>1. UNCHANGED <<gpuQueue, gpuAvail, gpuHeld, gpuPosts, gpuOwed>>
  BY DEF gpuEncoder
<1>2. OnesIfSmall(gpuQueue)' /\ TexturesCounted'
  BY <1>1 DEF TexturesInv, OnesIfSmall, TexturesCounted, Held, Waiting
<1>3. HeldInv'
  <2>1. gpuHeld.picture \in Nat
    BY DEF TexturesInv, HeldInv, Texture
  <2> QED
    BY <1>1, <2>1 DEF TexturesInv, HeldInv
<1>4. Proper(gpuQueue, gpuHeld.picture, videoTime)'
  <2>1. ASSUME NEW i \in 1..Len(Waiting)
        PROVE  Between(Waiting[i], gpuHeld.picture, videoTime')
    <3>1. Between(Waiting[i], gpuHeld.picture, videoTime)
      BY DEF TexturesInv, Proper, Pictures, Waiting
    <3>2. Waiting[i] \in Texture
      BY CircleElements, ElementOfSeq DEF TexturesInv, Proper, Waiting
    <3> QED
      BY <3>1, <3>2 DEF Between, Texture
  <2> QED
    BY <1>1, <2>1 DEF TexturesInv, Proper, Pictures, Waiting
<1> QED
  BY <1>2, <1>3, <1>4 DEF TexturesInv

(* What a picture queued for k intervals makes of the queue.               *)
Queues(q, avail, k) ==
    /\ Proper(q, gpuHeld.picture, videoTime) /\ OnesIfSmall(q)
    /\ Total(0, Elements(q)) = Total(0, Waiting) + k
    /\ avail \in Nat /\ avail + Held + q.size = EncodeTextures
    /\ q.capacity <= 1 => gpuHeld.count <= 1
    /\ q.size > 0 /\ q.end = 0 => q.size = 1 /\ gpuHeld = NoTexture

LEMMA QueuedSound ==
    ASSUME TexturesInv, videoTime \in Nat, gpuAvail \in Nat, NEW k \in Nat \ {0},
           NEW q, q = Queued(gpuQueue, gpuAvail, k)
    PROVE  Queues(q.queue, q.avail, k) /\ ~(gpuAvail = 0 /\ gpuQueue.size = 0)
<1>0. /\ Circle(gpuQueue) /\ gpuQueue.size \in Nat /\ gpuQueue.end \in Nat
      /\ gpuQueue.capacity \in Nat /\ gpuQueue.size <= gpuQueue.capacity
  BY CircleSays DEF TexturesInv, Proper
<1>1. gpuHeld.picture \in Nat /\ gpuHeld.picture <= videoTime /\ gpuHeld.count \in Nat
  BY DEF TexturesInv, HeldInv, Texture
<1>2. /\ gpuAvail + Held + gpuQueue.size = EncodeTextures /\ Held \in {0, 1}
      /\ EncodeTextures \in Nat /\ EncodeTextures > 2
  BY TexturesAssumption DEF TexturesInv, TexturesCounted, Held
<1>3. /\ Proper(gpuQueue, gpuHeld.picture, videoTime) /\ OnesIfSmall(gpuQueue)
      /\ gpuQueue.capacity <= 1 => gpuHeld.count <= 1
      /\ gpuQueue.size > 0 /\ gpuQueue.end = 0 => gpuQueue.size = 1 /\ gpuHeld = NoTexture
  BY DEF TexturesInv, HeldInv
<1>4. CASE gpuQueue.size # 0
  <2>1. q = QueuedBehind(gpuQueue, gpuAvail, k)
    BY <1>4 DEF Queued
  <2>2. gpuQueue.size > 0 /\ (gpuAvail = 0 => gpuQueue.capacity > 1) /\ k \in Nat
    BY <1>0, <1>2, <1>4
  <2>3. /\ Proper(q.queue, gpuHeld.picture, videoTime) /\ OnesIfSmall(q.queue)
        /\ Total(0, Elements(q.queue)) = Total(0, Waiting) + k
        /\ q.avail \in Nat /\ q.avail + q.queue.size = gpuAvail + gpuQueue.size
        /\ q.queue.size > 0
        /\ \/ q.queue.end > 0
           \/ q.queue.end = gpuQueue.end /\ q.queue.size = gpuQueue.size
        /\ q.queue.capacity > 1
    BY <1>1, <1>3, <2>1, <2>2, QueuedBehindSound DEF Waiting
  <2>4. q.queue.capacity \in Nat /\ q.queue.end \in Nat /\ q.queue.size \in Nat
    BY <2>3, CircleSays DEF Proper
  <2>5. q.avail + Held + q.queue.size = EncodeTextures
    BY <1>0, <1>2, <2>3, <2>4
  <2>6. ~(q.queue.capacity <= 1)
    BY <2>3, <2>4
  <2>7. q.queue.size > 0 /\ q.queue.end = 0 => q.queue.size = 1 /\ gpuHeld = NoTexture
    BY <1>0, <1>3, <2>2, <2>3, <2>4
  <2> QED
    BY <1>4, <2>3, <2>5, <2>6, <2>7 DEF Queues
<1>5. CASE gpuQueue.size = 0
  <2> DEFINE b == PushBack(gpuQueue, NewTexture)
             l == k - 1
             a == gpuAvail - 1
  <2>1. q = QueuedBehind(b, a, l)
    BY <1>5 DEF Queued
  <2>2. a \in Nat /\ a # 0 /\ l \in Nat /\ k = l + 1 /\ gpuAvail = a + 1
    BY <1>2, <1>5
  <2>3. NewTexture \in Texture /\ NewTexture.count = 1 /\ NewTexture.picture = videoTime
    BY DEF NewTexture, Texture
  <2>4. /\ Proper(b, gpuHeld.picture, videoTime) /\ Circle(b)
        /\ Elements(b) = Append(Waiting, NewTexture)
        /\ b.size = 1 /\ b.end > 0 /\ b.capacity >= gpuQueue.capacity
    <3>1. Proper(b, gpuHeld.picture, videoTime)
      <4>1. Proper(gpuQueue, gpuHeld.picture, videoTime)
        BY <1>3
      <4>2. NewTexture.count >= 1
        BY <2>3
      <4> QED
        BY <1>1, <2>3, <4>1, <4>2, BackProper
    <3>2. /\ Circle(b) /\ Elements(b) = Append(Elements(gpuQueue), NewTexture)
          /\ b.size = gpuQueue.size + 1 /\ b.end > 0 /\ b.capacity >= gpuQueue.capacity
      BY <1>0, <2>3, BackCircle
    <3> HIDE DEF b
    <3>3. b.size = 1
      BY <1>5, <3>2
    <3> QED
      BY <3>1, <3>2, <3>3 DEF Waiting
  <2> HIDE DEF b
  <2>5. b.capacity \in Nat /\ b.end \in Nat
    BY <2>4, CircleSays
  <2>6. Waiting \in Seq(Texture) /\ Len(Waiting) = 0
    BY <1>0, <1>5, CircleElements DEF Waiting
  <2>7. Total(0, Elements(b)) = Total(0, Waiting) + 1 /\ Total(0, Waiting) \in Int
    <3>0. 0 \in Int /\ Waiting \in Seq(Texture) /\ NewTexture \in Texture
      BY <2>3, <2>6
    <3>1. Total(0, Append(Waiting, NewTexture)) = Total(0, Waiting) + NewTexture.count
      BY <3>0, TotalAppend
    <3>2. Total(0, Waiting) \in Int
      BY <3>0, TotalTyped
    <3> QED
      BY <2>3, <2>4, <3>1, <3>2
  <2>8. OnesIfSmall(b)
    <3>1. Elements(b)[1].count = 1
      BY <2>3, <2>4, <2>6, AppendProperties
    <3> QED
      BY <2>4, <3>1 DEF OnesIfSmall
  <2> HIDE DEF l, a
  <2>9. b.size > 0
    BY <2>4
  <2>10. /\ Proper(q.queue, gpuHeld.picture, videoTime) /\ OnesIfSmall(q.queue)
         /\ Total(0, Elements(q.queue)) = Total(0, Elements(b)) + l
         /\ q.avail \in Nat /\ q.avail + q.queue.size = a + b.size
         /\ q.queue.size > 0
         /\ q.queue.end > 0 \/ (q.queue.end = b.end /\ q.queue.size = b.size)
         /\ q.queue.capacity > 1 \/ l = 0
    <3>1. a \in Nat /\ (a = 0 => b.capacity > 1) /\ l \in Nat
      BY <2>2
    <3>2. Proper(b, gpuHeld.picture, videoTime) /\ OnesIfSmall(b) /\ b.size > 0
      BY <2>4, <2>8, <2>9
    <3> QED
      BY <1>1, <2>1, <3>1, <3>2, QueuedBehindSound
  <2>11. q.queue.capacity \in Nat /\ q.queue.end \in Nat /\ q.queue.size \in Nat
    BY <2>10, CircleSays DEF Proper
  <2>12. q.avail + Held + q.queue.size = EncodeTextures
    <3>1. q.avail + q.queue.size = a + 1 /\ gpuAvail = a + 1 /\ a \in Nat
      BY <2>2, <2>4, <2>10
    <3>2. gpuAvail + Held + 0 = EncodeTextures /\ Held \in {0, 1}
      BY <1>2, <1>5
    <3>3. q.avail \in Nat /\ q.queue.size \in Nat
      BY <2>10, <2>11
    <3> QED
      BY <3>1, <3>2, <3>3
  <2>13. Total(0, Elements(q.queue)) = Total(0, Waiting) + k
    BY <2>2, <2>7, <2>10
  <2>14. ~(q.queue.end = 0)
    BY <2>4, <2>5, <2>10, <2>11
  <2>15. q.queue.capacity <= 1 => gpuHeld.count <= 1
    <3>1. SUFFICES ASSUME l = 0, q.queue.capacity <= 1 PROVE gpuHeld.count <= 1
      BY <2>10, <2>11
    <3>2. q.queue = b
      BY <2>1, <3>1 DEF QueuedBehind, Lengthened
    <3> QED
      BY <1>0, <1>3, <2>4, <2>5, <3>1, <3>2
  <2> QED
    BY <2>2, <2>10, <2>12, <2>13, <2>14, <2>15 DEF Queues
<1> QED
  BY <1>4, <1>5

LEMMA QueueFramesKeeps ==
    ASSUME TexturesInv, videoTime \in Nat, GpuTypes, NEW k \in Nat \ {0},
           QueueFrames(k), gpuOwed' = gpuOwed + k, UNCHANGED <<gpuHeld, videoTime>>
    PROVE  TexturesInv'
<1> DEFINE q == Queued(gpuQueue, gpuAvail, k)
<1>1. Queues(q.queue, q.avail, k) /\ ~(gpuAvail = 0 /\ gpuQueue.size = 0)
  BY QueuedSound DEF GpuTypes
<1>2. gpuQueue' = q.queue /\ gpuAvail' = q.avail /\ gpuPosts' = gpuPosts + k
  BY <1>1 DEF QueueFrames
<1> HIDE DEF q
<1>3. Held' = Held /\ Waiting' = Elements(q.queue)
  BY <1>2 DEF Held, Waiting
<1>4. Proper(gpuQueue, gpuHeld.picture, videoTime)' /\ OnesIfSmall(gpuQueue)'
  BY <1>1, <1>2 DEF Queues, OnesIfSmall
<1>5. HeldInv'
  BY <1>1, <1>2 DEF Queues, TexturesInv, HeldInv
<1>6. TexturesCounted'
  <2>1. /\ gpuOwed \in Int /\ gpuOwed = gpuPosts + Held
        /\ gpuPosts + Held = Total(0, Waiting) + gpuHeld.count
        /\ gpuPosts \in Int /\ Held \in Int
    BY DEF TexturesInv, TexturesCounted, GpuTypes, Held
  <2>2. Total(0, Waiting) \in Int /\ gpuHeld.count \in Int
    BY CircleElements, TotalTyped DEF TexturesInv, Proper, Waiting, HeldInv, Texture
  <2>3. gpuOwed' \in Int /\ gpuOwed' = gpuPosts' + Held'
    BY <1>2, <1>3, <2>1
  <2>4. gpuPosts' + Held' = Total(0, Waiting') + gpuHeld'.count
    BY <1>1, <1>2, <1>3, <2>1, <2>2 DEF Queues
  <2>5. gpuAvail' + Held' + gpuQueue'.size = EncodeTextures
    BY <1>1, <1>2, <1>3 DEF Queues
  <2> QED
    BY <2>3, <2>4, <2>5 DEF TexturesCounted
<1> QED
  BY <1>4, <1>5, <1>6 DEF TexturesInv

LEMMA TakeKeeps ==
    ASSUME TexturesInv, videoTime \in Nat, GpuTypes, TakeTexture
    PROVE  TexturesInv'
<1> DEFINE x == PeekFront(gpuQueue)
           b == PopFront(gpuQueue)
<1>0. /\ Circle(gpuQueue) /\ gpuQueue.size \in Nat /\ gpuQueue.size > 0
      /\ gpuQueue.end \in Nat /\ gpuQueue.capacity \in Nat
  BY CircleSays DEF TexturesInv, Proper, TakeTexture
<1>1. /\ gpuHeld = NoTexture /\ gpuPosts > 0
      /\ gpuPosts' = gpuPosts - 1 /\ gpuHeld' = x /\ gpuQueue' = b
      /\ UNCHANGED <<gpuAvail, gpuOwed, videoTime>>
  BY DEF TakeTexture, turnVars
<1>2. gpuHeld.picture = 0 /\ gpuHeld.count = 0 /\ Held = 0
  BY <1>1, NoTextureIs DEF Held
<1>3. /\ x \in Texture /\ Between(x, 0, videoTime) /\ Proper(b, x.picture, videoTime)
      /\ Total(0, Waiting) = Total(0, Elements(b)) + x.count
  <2>1. Proper(gpuQueue, 0, videoTime)
    BY <1>2 DEF TexturesInv
  <2> QED
    BY <1>0, <2>1, PopProper DEF Waiting
<1>4. /\ Circle(b) /\ Elements(b) = Tail(Waiting) /\ x = Waiting[1] /\ Waiting # <<>>
      /\ b.size = gpuQueue.size - 1 /\ b.capacity = gpuQueue.capacity
      /\ b.size > 0 => b.end = gpuQueue.end
  BY <1>0, PopCircle DEF Waiting
<1>5. /\ Waiting \in Seq(Texture) /\ Len(Waiting) = gpuQueue.size
      /\ Len(Elements(b)) = b.size /\ Elements(b) \in Seq(Texture)
  BY <1>0, <1>4, CircleElements DEF Waiting
<1> HIDE DEF x, b
<1>6. x.count >= 1 /\ x.count \in Nat /\ x.picture \in Nat /\ x.picture <= videoTime
      /\ x # NoTexture
  BY <1>3, NoTextureIs DEF Between, Texture
<1>7. Held' = 1 /\ Waiting' = Elements(b)
  BY <1>1, <1>6 DEF Held, Waiting, NoTexture
<1>8. OnesIfSmall(b) /\ (b.capacity <= 1 => x.count <= 1)
  <2> SUFFICES ASSUME b.capacity <= 1
               PROVE  /\ \A i \in 1..b.size : Elements(b)[i].count = 1
                      /\ x.count <= 1
    BY DEF OnesIfSmall
  <2>1. \A i \in 1..gpuQueue.size : Waiting[i].count = 1
    BY <1>4 DEF TexturesInv, OnesIfSmall, Waiting
  <2>2. 1 \in 1..gpuQueue.size
    BY <1>0
  <2>3. ASSUME NEW i \in 1..b.size
        PROVE  Elements(b)[i].count = 1
    <3>1. i + 1 \in 1..gpuQueue.size
      BY <1>0, <1>4
    <3>2. Elements(b)[i] = Waiting[i + 1]
      BY <1>4, <1>5, HeadTailProperties
    <3> QED
      BY <2>1, <3>1, <3>2
  <2>4. x.count = 1
    BY <1>4, <2>1, <2>2
  <2>5. x.count <= 1
    BY <2>4
  <2> QED
    BY <2>3, <2>5
<1>9. b.size > 0 => b.end # 0
  BY <1>0, <1>4 DEF TexturesInv, HeldInv
<1>10. HeldInv'
  BY <1>1, <1>3, <1>6, <1>8, <1>9 DEF HeldInv
<1>11. TexturesCounted'
  <2>1. Total(0, Elements(b)) \in Int
    BY <1>5, TotalTyped
  <2>2. /\ gpuOwed \in Int /\ gpuOwed = gpuPosts + 0 /\ gpuPosts \in Nat
        /\ gpuPosts + 0 = Total(0, Waiting) + 0
        /\ gpuAvail + 0 + gpuQueue.size = EncodeTextures /\ gpuAvail \in Nat
    BY <1>2 DEF TexturesInv, TexturesCounted, GpuTypes
  <2>3. gpuOwed' \in Int /\ gpuOwed' = gpuPosts' + Held'
    BY <1>1, <1>7, <2>2
  <2>4. gpuPosts' + Held' = Total(0, Waiting') + gpuHeld'.count
    BY <1>1, <1>3, <1>6, <1>7, <2>1, <2>2
  <2>5. gpuAvail' + Held' + gpuQueue'.size = EncodeTextures
    <3>1. gpuAvail' = gpuAvail /\ gpuQueue'.size = gpuQueue.size - 1
      BY <1>1, <1>4
    <3> QED
      BY <1>0, <1>7, <2>2, <3>1
  <2> QED
    BY <2>3, <2>4, <2>5 DEF TexturesCounted
<1>12. Proper(gpuQueue, gpuHeld.picture, videoTime)' /\ OnesIfSmall(gpuQueue)'
  BY <1>1, <1>3, <1>8 DEF OnesIfSmall
<1> QED
  BY <1>10, <1>11, <1>12 DEF TexturesInv

(* With no texture held any later picture may be in front.                 *)
LEMMA ProperLower ==
    ASSUME NEW cb, NEW low \in Nat, NEW high, Proper(cb, low, high)
    PROVE  Proper(cb, 0, high)
<1>1. ASSUME NEW i \in 1..Len(Elements(cb))
      PROVE  Between(Elements(cb)[i], 0, high)
  <2>1. Between(Elements(cb)[i], low, high)
    BY DEF Proper, Pictures
  <2>2. Elements(cb)[i] \in Texture
    BY CircleElements, ElementOfSeq DEF Proper
  <2> QED
    BY <2>1, <2>2 DEF Between, Texture
<1> QED
  BY <1>1 DEF Proper, Pictures

LEMMA GiveBackKeeps ==
    ASSUME TexturesInv, videoTime \in Nat, GpuTypes, GiveBackTexture
    PROVE  TexturesInv'
<1> DEFINE x == [gpuHeld EXCEPT !.count = @ - 1]
           b == PushFront(gpuQueue, x)
<1>0. /\ Circle(gpuQueue) /\ gpuQueue.size \in Nat
      /\ gpuQueue.end \in Nat /\ gpuQueue.capacity \in Nat
      /\ Waiting \in Seq(Texture) /\ Len(Waiting) = gpuQueue.size
      /\ Total(0, Waiting) \in Int
  BY CircleSays, CircleElements, TotalTyped DEF TexturesInv, Proper, Waiting
<1>1. /\ gpuHeld # NoTexture /\ gpuHeld' = NoTexture /\ gpuOwed' = gpuOwed - 1
      /\ UNCHANGED <<gpuPosts, videoTime>>
  BY DEF GiveBackTexture, turnVars
<1>2. /\ gpuHeld \in Texture /\ gpuHeld.count >= 1 /\ gpuHeld.count \in Nat
      /\ gpuHeld.picture \in Nat /\ gpuHeld.picture <= videoTime
      /\ gpuQueue.capacity <= 1 => gpuHeld.count <= 1
      /\ ~(gpuQueue.size > 0 /\ gpuQueue.end = 0)
  BY <1>1 DEF TexturesInv, HeldInv, Texture
<1>3. /\ Held = 1 /\ Held' = 0 /\ gpuHeld'.picture = 0 /\ gpuHeld'.count = 0
      /\ gpuHeld' \in Texture
  BY <1>1, NoTextureIs DEF Held, NoTexture
<1>4. /\ gpuOwed \in Int /\ gpuOwed = gpuPosts + 1 /\ gpuPosts \in Nat /\ gpuAvail \in Nat
      /\ gpuPosts + 1 = Total(0, Waiting) + gpuHeld.count
      /\ gpuAvail + 1 + gpuQueue.size = EncodeTextures
  BY <1>3 DEF TexturesInv, TexturesCounted, GpuTypes
<1>5. CASE gpuHeld.count = 1
  <2>1. gpuAvail' = gpuAvail + 1 /\ UNCHANGED gpuQueue
    BY <1>5 DEF GiveBackTexture
  <2>2. Waiting' = Waiting
    BY <2>1 DEF Waiting
  <2>3. Proper(gpuQueue, gpuHeld.picture, videoTime)' /\ OnesIfSmall(gpuQueue)'
    <3>1. Proper(gpuQueue, 0, videoTime) /\ OnesIfSmall(gpuQueue)
      BY <1>2, ProperLower DEF TexturesInv
    <3> QED
      BY <1>1, <1>3, <2>1, <3>1 DEF OnesIfSmall
  <2>4. HeldInv'
    BY <1>1, <1>2, <1>3, <2>1 DEF HeldInv
  <2>5. TexturesCounted'
    BY <1>0, <1>1, <1>3, <1>4, <1>5, <2>1, <2>2 DEF TexturesCounted
  <2> QED
    BY <2>3, <2>4, <2>5 DEF TexturesInv
<1>6. CASE gpuHeld.count # 1
  <2>1. gpuQueue' = b /\ UNCHANGED gpuAvail
    BY <1>6 DEF GiveBackTexture
  <2>2. /\ x \in Texture /\ x.picture = gpuHeld.picture /\ x.count = gpuHeld.count - 1
        /\ x.count >= 1 /\ x.count \in Nat
    <3>1. x = [picture |-> gpuHeld.picture, count |-> gpuHeld.count - 1]
      BY <1>2 DEF Texture
    <3>2. gpuHeld.count - 1 \in Nat /\ gpuHeld.count - 1 >= 1
      BY <1>2, <1>6
    <3> QED
      BY <1>2, <3>1, <3>2 DEF Texture
  <2> HIDE DEF x
  <2>3. /\ gpuQueue.capacity > 1
        /\ gpuQueue.size > 0 => gpuQueue.end > 0
        /\ gpuQueue.size = 0 => gpuQueue.capacity > 1
    BY <1>0, <1>2, <1>6
  <2>4. Proper(b, 0, videoTime)
    <3>1. Proper(gpuQueue, x.picture, videoTime) /\ Between(x, 0, videoTime)
      BY <1>2, <2>2 DEF TexturesInv, Between
    <3> QED
      BY <2>2, <2>3, <3>1, FrontProper
  <2>5. /\ Circle(b) /\ Elements(b) = <<x>> \o Waiting
        /\ b.size = gpuQueue.size + 1 /\ b.end = gpuQueue.end
        /\ b.capacity >= gpuQueue.capacity
    BY <1>0, <2>2, <2>3, FrontCircle DEF Waiting
  <2> HIDE DEF b
  <2>6. ~(b.capacity <= 1)
    <3>1. b.capacity \in Nat
      BY <2>5, CircleSays
    <3> QED
      BY <1>0, <2>3, <2>5, <3>1
  <2>7. Waiting' = Elements(b)
    BY <2>1 DEF Waiting
  <2>8. Total(0, Elements(b)) = Total(0, Waiting) + x.count
    <3>0. 0 \in Int /\ Waiting \in Seq(Texture) /\ x \in Texture
      BY <1>0, <2>2
    <3>1. Total(0, <<x>> \o Waiting) = Total(0, Waiting) + (0 - 0) + x.count
      BY <3>0, TotalFront
    <3> QED
      BY <1>0, <2>2, <2>5, <3>1
  <2>9. Proper(gpuQueue, gpuHeld.picture, videoTime)' /\ OnesIfSmall(gpuQueue)'
    BY <1>1, <1>3, <2>1, <2>4, <2>6 DEF OnesIfSmall
  <2>10. HeldInv'
    <3>1. b.size > 0 /\ b.end = 0 => b.size = 1
      BY <1>0, <2>3, <2>5
    <3> QED
      BY <1>1, <1>3, <2>1, <2>6, <3>1 DEF HeldInv
  <2>11. TexturesCounted'
    <3>1. gpuOwed' \in Int /\ gpuOwed' = gpuPosts' + Held'
      BY <1>1, <1>3, <1>4
    <3>2. gpuPosts' + Held' = Total(0, Waiting') + gpuHeld'.count
      <4>1. gpuPosts' = gpuPosts /\ Held' = 0 /\ gpuHeld'.count = 0
        BY <1>1, <1>3
      <4>2. Total(0, Waiting') = Total(0, Waiting) + (gpuHeld.count - 1)
        BY <2>2, <2>7, <2>8
      <4> DEFINE total == Total(0, Waiting)
                 count == gpuHeld.count
      <4>3. /\ total \in Int /\ count \in Int /\ gpuPosts \in Int
            /\ gpuPosts + 1 = total + count
        BY <1>0, <1>2, <1>4
      <4> HIDE DEF total, count
      <4>4. gpuPosts + 0 = (total + (count - 1)) + 0
        BY <4>3
      <4> QED
        BY <4>1, <4>2, <4>4 DEF total, count
    <3>3. gpuAvail' + Held' + gpuQueue'.size = EncodeTextures
      <4>1. gpuAvail' = gpuAvail /\ gpuQueue'.size = gpuQueue.size + 1 /\ Held' = 0
        BY <1>3, <2>1, <2>5
      <4> QED
        BY <1>0, <1>4, <4>1
    <3> QED
      BY <3>1, <3>2, <3>3 DEF TexturesCounted
  <2> QED
    BY <2>9, <2>10, <2>11 DEF TexturesInv
<1> QED
  BY <1>5, <1>6

LEMMA TexturesKept ==
    ASSUME TurnTypes, GpuTypes, TexturesInv, [Next]_vars, TurnTypes'
    PROVE  TexturesInv'
<1>0. videoTime \in Nat /\ videoTime' \in Nat
  BY DEF TurnTypes
<1>1. ASSUME UNCHANGED gpuEncoder, videoTime <= videoTime'
      PROVE  TexturesInv'
  BY <1>0, <1>1, TexturesRest
<1>2. ASSUME UNCHANGED <<gpuEncoder, videoTime>>
      PROVE  TexturesInv'
  BY <1>0, <1>1, <1>2
<1>3. CASE LoopStart
  BY <1>2, <1>3 DEF LoopStart
<1>4. CASE OutputFrame
  <2>0. OutputGpu /\ videoTime' = videoTime
    BY <1>4 DEF OutputFrame
  <2>1. CASE gpuWasActive /\ vframeInfoGpu # <<>>
    <3>1. Head(vframeInfoGpu) \in Nat \ {0}
      BY <2>1, HeadTailProperties DEF GpuTypes
    <3>2. /\ QueueFrames(Head(vframeInfoGpu)) /\ gpuOwed' = gpuOwed + Head(vframeInfoGpu)
          /\ UNCHANGED <<gpuHeld, videoTime>>
      BY <2>0, <2>1 DEF OutputGpu
    <3> QED
      BY <1>0, <3>1, <3>2, QueueFramesKeeps
  <2>2. CASE ~(gpuWasActive /\ vframeInfoGpu # <<>>)
    BY <1>2, <2>0, <2>2 DEF OutputGpu, gpuVars
  <2> QED
    BY <2>1, <2>2
<1>5. CASE LockFrame \/ UnlockOutput
  BY <1>2, <1>5 DEF LockFrame, UnlockOutput, gpuVars
<1>6. CASE Sleep
  <2>1. PICK lag \in 1..MaxLag : videoTime' = videoTime + lag
    BY <1>6 DEF Sleep
  <2>2. videoTime <= videoTime'
    BY <1>0, <2>1
  <2> QED
    BY <1>1, <1>6, <2>2 DEF Sleep
<1>7. CASE StartGpu
  BY <1>2, <1>7 DEF StartGpu, turnVars
<1>8. CASE TakeTexture
  BY <1>0, <1>8, TakeKeeps
<1>9. CASE GiveBackTexture
  BY <1>0, <1>9, GiveBackKeeps
<1>10. CASE UNCHANGED graphicsVars
  BY <1>2, <1>10 DEF graphicsVars, gpuVars, turnVars
<1> QED
  BY <1>3, <1>4, <1>5, <1>6, <1>7, <1>8, <1>9, <1>10 DEF Next, Graphics, vars

(* What the encoders are to be woken for is in the textures, and these are *)
(* in order.                                                               *)
LEMMA TexturesAgree ==
    ASSUME TexturesInv, GpuTypes, TurnTypes
    PROVE  GpuFramesKept
<1> DEFINE textures == IF Held = 1 THEN <<gpuHeld>> \o Waiting ELSE Waiting
<1>0. /\ Waiting \in Seq(Texture) /\ Len(Waiting) = gpuQueue.size /\ gpuHeld \in Texture
      /\ gpuPosts \in Nat /\ gpuAvail \in Nat /\ gpuQueue.size \in Nat
  BY CircleElements, CircleSays DEF TexturesInv, Proper, HeldInv, GpuTypes, Waiting
<1>1. /\ gpuOwed = gpuPosts + Held
      /\ gpuPosts + Held = Total(0, Waiting) + gpuHeld.count
      /\ gpuAvail + Held + gpuQueue.size = EncodeTextures
  BY DEF TexturesInv, TexturesCounted
<1>2. /\ Pictures(Waiting, gpuHeld.picture, videoTime)
  BY DEF TexturesInv, Proper, Waiting
<1>3. 0 \in Int /\ -Held \in Int /\ Total(0, Waiting) \in Int /\ gpuHeld.count \in Nat
  <2>1. 0 \in Int /\ -Held \in Int
    BY DEF Held
  <2> QED
    BY <1>0, <2>1, TotalTyped DEF Texture
<1>4. /\ gpuPosts = Total(-Held, textures)
      /\ gpuAvail + Len(textures) = EncodeTextures
      /\ Ascending(textures)
  <2>1. CASE Held = 1
    <3>1. /\ textures \in Seq(Texture) /\ Len(textures) = Len(Waiting) + 1
          /\ textures[1] = gpuHeld
          /\ \A i \in 1..Len(Waiting) : textures[i + 1] = Waiting[i]
      BY <1>0, <2>1, FrontIs
    <3>2. Total(-Held, textures) = Total(0, Waiting) + (-Held - 0) + gpuHeld.count
      BY <1>0, <1>3, <2>1, TotalFront
    <3> HIDE DEF textures
    <3>3. gpuPosts = Total(-Held, textures)
      BY <1>0, <1>1, <1>3, <2>1, <3>2, SMTT(60)
    <3>4. gpuAvail + Len(textures) = EncodeTextures
      <4>1. Len(textures) = gpuQueue.size + 1
        BY <1>0, <3>1
      <4>2. gpuAvail + 1 + gpuQueue.size = EncodeTextures
        BY <1>1, <2>1
      <4> QED
        BY <1>0, <4>1, <4>2
    <3>5. Ascending(textures)
      <4> SUFFICES ASSUME NEW i \in 1..(Len(textures) - 1)
                   PROVE  textures[i].picture <= textures[i + 1].picture
        BY DEF Ascending
      <4>1. i \in 1..Len(Waiting) /\ textures[i + 1] = Waiting[i]
        BY <1>0, <3>1
      <4>2. CASE i = 1
        BY <1>2, <3>1, <4>1, <4>2 DEF Pictures, Between
      <4>3. CASE i # 1
        <5> DEFINE j == i - 1
        <5>1. j \in 1..(Len(Waiting) - 1) /\ j + 1 = i /\ j \in 1..Len(Waiting)
          BY <1>0, <4>1, <4>3
        <5> HIDE DEF j
        <5>2. textures[j + 1] = Waiting[j] /\ Waiting[j].picture <= Waiting[j + 1].picture
          BY <1>2, <3>1, <5>1 DEF Pictures, Ascending
        <5> QED
          BY <4>1, <5>1, <5>2
      <4> QED
        BY <4>2, <4>3
    <3> QED
      BY <3>3, <3>4, <3>5
  <2>2. CASE Held # 1
    <3>1. Held = 0 /\ gpuHeld = NoTexture /\ textures = Waiting
      BY <2>2 DEF Held
    <3>2. gpuHeld.count = 0 /\ -Held = 0
      <4>1. gpuHeld.count = 0
        BY <3>1, NoTextureIs
      <4>2. -Held = 0
        <5>1. \A i \in Int : -i = 0 - i
          OBVIOUS
        <5>2. Held \in Int /\ 0 - Held = 0
          BY <3>1
        <5> QED
          BY <5>1, <5>2
      <4> QED
        BY <4>1, <4>2
    <3> QED
      BY <1>0, <1>1, <1>2, <1>3, <3>1, <3>2 DEF Pictures
  <2> QED
    BY <2>1, <2>2
<1>5. gpuPosts = FoldLeft(LAMBDA n, t : n + t.count, -Held, textures)
  BY <1>4, Zenon DEF Total
<1> QED
  BY <1>1, <1>4, <1>5, Zenon DEF GpuFramesKept, Held, Waiting, Ascending

(* What the encoders of textures are woken for.                            *)
LEMMA TexturesHold == Spec => []TexturesInv
<1>1. ControlTypes /\ ControlTypes' /\ TexturesInv /\ [Next]_vars => TexturesInv'
  BY TexturesKept DEF ControlTypes
<1> QED
  BY InitTextures, ControlHolds, <1>1, PTL DEF Spec

(* The counts of the textures, the ones that are free and the semaphore of *)
(* the encoders agree, and the pictures wait in order, for any number of   *)
(* textures from three on and however often the queue has grown.           *)
THEOREM GpuFramesKeptHolds == Spec => []GpuFramesKept
<1>1. TexturesInv /\ ControlTypes => GpuFramesKept
  BY TexturesAgree DEF ControlTypes
<1> QED
  BY <1>1, TexturesHold, ControlHolds, PTL

(* Wake-ups and counts are in step with the frames they are for: those of  *)
(* the video thread and those of the encoders of textures.                 *)
THEOREM CountsInStepHolds == Spec => []CountsInStep
<1>1. TypeOK /\ StopIsHeard /\ SkipsAreCounted /\ GpuFramesKept => CountsInStep
  BY DEF CountsInStep
<1> QED
  BY <1>1, FieldsHoldTheirTypes, StopIsHeardHolds, SkipsAreCountedHolds,
     GpuFramesKeptHolds, PTL
=============================================================================
