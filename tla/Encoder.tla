------------------------------- MODULE Encoder -------------------------------
(***************************************************************************)
(* An encoder of Core (obs-encoder.c) that several outputs share: the      *)
(* first one to start connects it to the video output, the last one to     *)
(* stop disconnects it and shuts its codec down, and an encoder that was   *)
(* destroyed meanwhile goes then.                                          *)
(*                                                                         *)
(* Every output has a thread of its own that initializes, starts and stops *)
(* the encoder.  init_mutex may be held across a wait for the mutex under  *)
(* which the video output calls its consumers, and both are modelled; a    *)
(* critical section of callbacks_mutex is one action.  The codec may fail  *)
(* to be created, may hold frames back and does not fail to encode.        *)
(***************************************************************************)
EXTENDS Naturals

CONSTANTS Outputs,          \* the outputs that use the encoder
          MaxCalls,         \* bound on the calls of obs_encoder_initialize
          MaxFrames         \* bound on the frames encoded

(* Nobody holds the mutex: this is not an output.                          *)
ASSUME OutputsAssumption == "free" \notin Outputs

VARIABLES
    at,             \* where each output is
    owner,          \* where the owner is with obs_encoder_destroy
    initMutex,      \* who holds init_mutex
    codec,          \* context.data: the number of the codec, 0 for none
    initialized,    \* initialized
    active,         \* is the encoder connected to the video output?
    callbacks,      \* callbacks: the outputs registered
    sentFirst,      \* those that were sent their first packet
    curPts,         \* cur_pts
    destroyOnStop,  \* destroy_on_stop
    destroyed,      \* how often the encoder was freed
    frame,          \* the frame in the hands of the encoder, and its packet
    lastPts,        \* the pts last given to the codec
    got,            \* per output the number of the last packet it was sent
    overtaken,      \* outputs whose codec was shut down before they started
    calls, codecs, packets  \* counters

codecVars == <<codec, initialized, lastPts, codecs>>
counters == <<calls, packets>>
vars == <<at, owner, initMutex, codecVars, active, callbacks, sentFirst, curPts,
          destroyOnStop, destroyed, frame, got, overtaken, counters>>

NoFrame == [pts |-> 0, packet |-> 0, keyframe |-> FALSE]
(* Outside the encoder, or after obs_encoder_initialize, obs_encoder_start, *)
(* and inside the calls that wait: an output is at one of these.           *)
Places == {"idle", "initialized", "connecting", "started", "disconnecting",
           "destroying"}

Move(o, place) == at' = [at EXCEPT ![o] = place]

(* obs_video_encoder_create has succeeded.                                 *)
Init ==
    /\ at = [o \in Outputs |-> "idle"] /\ owner = "holding"
    /\ initMutex = "free"
    /\ codec = 0 /\ initialized = FALSE /\ active = FALSE
    /\ callbacks = {} /\ sentFirst = {} /\ curPts = 0
    /\ destroyOnStop = FALSE /\ destroyed = 0
    /\ frame = NoFrame /\ lastPts = 0
    /\ got = [o \in Outputs |-> 0] /\ overtaken = {}
    /\ calls = 0 /\ codecs = 0 /\ packets = 0
-----------------------------------------------------------------------------
(* obs_encoder_shutdown.                                                   *)
ShutdownCodec == codec' = 0 /\ lastPts' = 0

(* obs_encoder_initialize: a codec is created, in place of the one before, *)
(* unless there is one in use.  Nobody begins to use an encoder that its   *)
(* owner has given up.                                                     *)
Initialize(o) ==
    /\ at[o] = "idle" /\ owner = "holding" /\ initMutex = "free"
    /\ calls < MaxCalls
    /\ calls' = calls + 1
    /\ IF active \/ initialized
       THEN Move(o, "initialized") /\ UNCHANGED codecVars
       ELSE \/ /\ ShutdownCodec
               /\ UNCHANGED <<at, initialized, codecs>>
            \/ /\ codecs' = codecs + 1 /\ codec' = codecs + 1 /\ lastPts' = 0
               /\ initialized' = TRUE
               /\ Move(o, "initialized")
    /\ UNCHANGED <<owner, initMutex, active, callbacks, sentFirst, curPts,
                   destroyOnStop, destroyed, frame, got, overtaken, packets>>

(* The output is added; for the first one timestamps begin anew.           *)
Register(o) ==
    /\ callbacks' = callbacks \cup {o}
    /\ curPts' = IF callbacks = {} THEN 0 ELSE curPts

(* obs_encoder_start.  Without a codec it does nothing, and does not tell. *)
Start(o) ==
    /\ at[o] = "initialized" /\ initMutex = "free"
    /\ IF codec = 0
       THEN /\ Move(o, "started")
            /\ UNCHANGED <<initMutex, callbacks, curPts, overtaken>>
       ELSE /\ Register(o)
            /\ overtaken' = overtaken \ {o}
            /\ IF callbacks = {}
               THEN Move(o, "connecting") /\ initMutex' = o
               ELSE Move(o, "started") /\ UNCHANGED initMutex
    /\ UNCHANGED <<owner, codecVars, active, sentFirst, destroyOnStop, destroyed,
                   frame, got, counters>>

(* add_connection: the video output is not calling anybody.                *)
AddConnection(o) ==
    /\ at[o] = "connecting" /\ frame = NoFrame
    /\ active' = TRUE
    /\ initMutex' = "free"
    /\ Move(o, "started")
    /\ UNCHANGED <<owner, codecVars, callbacks, sentFirst, curPts, destroyOnStop,
                   destroyed, frame, got, overtaken, counters>>

(* obs_encoder_stop.                                                       *)
Stop(o) ==
    /\ at[o] = "started" /\ initMutex = "free"
    /\ callbacks' = callbacks \ {o} /\ sentFirst' = sentFirst \ {o}
    /\ IF o \in callbacks /\ callbacks' = {}
       THEN Move(o, "disconnecting") /\ initMutex' = o
       ELSE Move(o, "idle") /\ UNCHANGED initMutex
    /\ got' = [got EXCEPT ![o] = 0]
    /\ overtaken' = overtaken \ {o}
    /\ UNCHANGED <<owner, codecVars, active, curPts, destroyOnStop, destroyed,
                   frame, counters>>

(* remove_connection waits until the video output is not calling, and      *)
(* shuts the codec down; and what follows it.                              *)
RemoveConnection(o) ==
    /\ at[o] = "disconnecting" /\ frame = NoFrame
    /\ ShutdownCodec
    /\ active' = FALSE /\ initialized' = FALSE
    /\ overtaken' = overtaken \cup {p \in Outputs : at[p] = "initialized"}
    /\ initMutex' = "free"
    /\ Move(o, IF destroyOnStop THEN "destroying" ELSE "idle")
    /\ UNCHANGED <<owner, codecs, callbacks, sentFirst, curPts, destroyOnStop,
                   destroyed, frame, got, counters>>
-----------------------------------------------------------------------------
(* Variant: the last output does not learn that the encoder has to go.     *)
DestroyForgotten ==
    /\ owner = "holding" /\ initMutex = "free"
    /\ \A o \in Outputs : at[o] # "initialized"
    /\ owner' = IF callbacks = {} THEN "destroying" ELSE "done"
    /\ UNCHANGED <<at, initMutex, codecVars, active, callbacks, sentFirst, curPts,
                   frame, destroyed, destroyOnStop, got, overtaken, counters>>

(* Variant: the outputs that still use the encoder are not asked after.    *)
DestroyAtOnce ==
    /\ owner = "holding" /\ initMutex = "free"
    /\ \A o \in Outputs : at[o] # "initialized"
    /\ owner' = "destroying"
    /\ UNCHANGED <<at, initMutex, codecVars, active, callbacks, sentFirst, curPts,
                   frame, destroyed, destroyOnStop, got, overtaken, counters>>

(* obs_encoder_destroy, called when no output is about to start.           *)
Destroy ==
    /\ owner = "holding" /\ initMutex = "free"
    /\ \A o \in Outputs : at[o] # "initialized"
    /\ IF callbacks = {}
       THEN owner' = "destroying" /\ UNCHANGED destroyOnStop
       ELSE owner' = "done" /\ destroyOnStop' = TRUE
    /\ UNCHANGED <<at, initMutex, codecVars, active, callbacks, sentFirst, curPts,
                   frame, destroyed, got, overtaken, counters>>

(* obs_encoder_actually_destroy, called by the owner or the last output.   *)
Freed ==
    /\ destroyed' = destroyed + 1
    /\ ShutdownCodec
    /\ UNCHANGED <<initMutex, initialized, codecs, active, callbacks, sentFirst,
                   curPts, destroyOnStop, frame, got, overtaken, counters>>

OwnerDestroys == owner = "destroying" /\ owner' = "done" /\ Freed /\ UNCHANGED at

OutputDestroys(o) ==
    at[o] = "destroying" /\ Move(o, "idle") /\ Freed /\ UNCHANGED owner
-----------------------------------------------------------------------------
(* The video output calls the encoder: the frame goes to the codec, which  *)
(* may return a packet.                                                    *)
DoEncode ==
    /\ active /\ frame = NoFrame /\ packets < MaxFrames
    /\ curPts' = curPts + 1
    /\ lastPts' = curPts + 1
    /\ \/ /\ packets' = packets + 1
          /\ \E key \in BOOLEAN :
                 frame' = [pts |-> curPts + 1, packet |-> packets + 1, keyframe |-> key]
       \/ /\ frame' = [pts |-> curPts + 1, packet |-> 0, keyframe |-> FALSE]
          /\ curPts < MaxFrames
          /\ UNCHANGED packets
    /\ UNCHANGED <<at, owner, initMutex, codec, initialized, codecs, active,
                   callbacks, sentFirst, destroyOnStop, destroyed, got, overtaken,
                   calls>>

(* Variant: the first packet need not be a keyframe.                       *)
AnyPacket(o) == TRUE

(* send_packet: an output is sent nothing before a keyframe.               *)
IsSent(o) == o \in sentFirst \/ frame.keyframe

(* send_off_encoder_packet hands the packet to every callback, and the     *)
(* video output has its thread back.                                       *)
SendPacket ==
    /\ frame # NoFrame
    /\ LET sent == {o \in callbacks : frame.packet # 0 /\ IsSent(o)} IN
       /\ sentFirst' = sentFirst \cup sent
       /\ got' = [o \in Outputs |-> IF o \in sent THEN frame.packet ELSE got[o]]
    /\ frame' = NoFrame
    /\ UNCHANGED <<at, owner, initMutex, codecVars, active, callbacks, curPts,
                   destroyOnStop, destroyed, overtaken, counters>>

Proceed(o) == AddConnection(o) \/ RemoveConnection(o) \/ OutputDestroys(o)

Next ==
    \/ \E o \in Outputs : Initialize(o) \/ Start(o) \/ Stop(o) \/ Proceed(o)
    \/ Destroy \/ OwnerDestroys
    \/ DoEncode \/ SendPacket

Spec == Init /\ [][Next]_vars

(* A call that has begun goes on when it can, and the video output gets    *)
(* its thread back.                                                        *)
FairSpec ==
    /\ Spec
    /\ \A o \in Outputs : SF_vars(Proceed(o))
    /\ WF_vars(OwnerDestroys)
    /\ WF_vars(SendPacket)
-----------------------------------------------------------------------------
(* The fields hold what their declarations allow.                          *)
TypeOK ==
    /\ at \in [Outputs -> Places]
    /\ initMutex \in Outputs \cup {"free"}
    /\ sentFirst \subseteq callbacks /\ callbacks \subseteq Outputs /\ overtaken \subseteq Outputs

(* An output that has started is served, and nobody touches an encoder     *)
(* that was freed, or frees it again: outputs that stop, the owner that    *)
(* destroys and the video output that calls may meet at any point.  The    *)
(* exception is an output that was overtaken: between its calls of         *)
(* obs_encoder_initialize and obs_encoder_start the last other output      *)
(* stopped and took the codec along.  It is not told that it has started   *)
(* in vain, and does not keep the encoder from being freed.                *)
OnlyOvertakenAreLost ==
    /\ TypeOK
    /\ \A o \in Outputs : at[o] = "started" =>
           o \in callbacks \cup overtaken
    /\ destroyed > 0 =>
           /\ destroyed = 1 /\ frame = NoFrame /\ initMutex = "free"
           /\ \A o \in Outputs : at[o] = "idle" \/ o \in overtaken

(* A frame meets a codec, and a codec is given rising timestamps, although *)
(* they begin anew with every first output.                                *)
TimesRiseForCodec ==
    [][frame = NoFrame /\ frame' # NoFrame =>
          codec # 0 /\ frame'.pts > lastPts]_vars

(* What an output is sent begins with a keyframe and goes on without a     *)
(* gap, whenever it joins.                                                 *)
DecodableFromFirst ==
    [][\A o \in Outputs : got'[o] \notin {0, got[o]} =>
          IF got[o] = 0 THEN frame.keyframe ELSE got'[o] = got[o] + 1]_vars

(* So every output gets a stream that can be decoded from its beginning.   *)
OutputsDecode == TimesRiseForCodec /\ DecodableFromFirst

(* "does not actually destroy the encoder until all connections to it have *)
(* been removed", but then it does.                                        *)
DestroyedInTheEnd ==
    owner # "holding" /\ callbacks = {} ~> destroyed = 1
=============================================================================
