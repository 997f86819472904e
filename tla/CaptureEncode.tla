---------------------------- MODULE CaptureEncode ----------------------------
(***************************************************************************)
(* The recorder of the application (VirtualMonitor_S/CaptureEncode.cs): a  *)
(* frame pool announces captured frames on a thread of its own, the        *)
(* transcoder asks for samples one after the other on another one, the     *)
(* captured item may be closed and a timer of the user interface disposes  *)
(* of the recorder.  Nothing is locked: the threads meet in _currentFrame  *)
(* and in two events, and an action is one access to them.                 *)
(*                                                                         *)
(* Frames are numbered as they are captured, the number also stands for    *)
(* SystemRelativeTime.  What is drawn into a sample is left out.           *)
(***************************************************************************)
EXTENDS Naturals, Sequences, FiniteSets

CONSTANTS PoolSize,         \* buffers of the frame pool
          MaxFrames         \* bound on the frames captured

ASSUME PoolAssumption == PoolSize \in Nat \ {0}

VARIABLES
    captured,       \* the number of the last frame captured
    ready,          \* frames announced and not yet fetched
    storing,        \* frame OnFrameArrived has stored and not signalled, or 0
    current,        \* _currentFrame, 0 for null
    open,           \* frames fetched that still hold a buffer of the pool
    frameEvent,     \* _frameEvent
    closedEvent,    \* _closedEvent
    request,        \* where the request of the transcoder is
    started,        \* has the start been answered?
    time,           \* the time read for the sample
    last,           \* the last sample answered: [time, surface]
    disposing,      \* where the timer is in Dispose
    torn,           \* has Dispose or Cleanup taken pool and device away?
    told,           \* history: has the item closed or the recorder been told to end?
    overtaken       \* history: was a frame given up between being stored and signalled?

pool == <<captured, ready, open>>
events == <<frameEvent, closedEvent>>
answers == <<started, time, last>>
history == <<told, overtaken>>
vars == <<pool, storing, current, events, request, answers, disposing, torn, history>>

(* EncodeAsync has begun the capture and the transcoding.                  *)
Init ==
    /\ captured = 0 /\ ready = <<>> /\ open = {}
    /\ storing = 0 /\ current = 0
    /\ frameEvent = FALSE /\ closedEvent = FALSE
    /\ request = "none" /\ started = FALSE
    /\ time = 0 /\ last = [time |-> 0, surface |-> 0]
    /\ disposing = "before" /\ torn = FALSE
    /\ told = FALSE /\ overtaken = FALSE

Held == open \cup {ready[i] : i \in DOMAIN ready}
-----------------------------------------------------------------------------
(* The screen changes and the pool has a buffer.                           *)
Capture ==
    /\ ~torn /\ captured < MaxFrames /\ Cardinality(Held) < PoolSize
    /\ captured' = captured + 1
    /\ ready' = Append(ready, captured + 1)
    /\ UNCHANGED <<open, storing, current, events, request, answers, disposing,
                   torn, history>>

(* OnFrameArrived, first statement: a frame that was there keeps its       *)
(* buffer until it is collected.                                           *)
StoreFrame ==
    /\ ready # <<>> /\ storing = 0 /\ ~torn
    /\ storing' = Head(ready)
    /\ current' = Head(ready)
    /\ ready' = Tail(ready)
    /\ open' = open \cup {Head(ready)}
    /\ UNCHANGED <<captured, events, request, answers, disposing, torn, history>>

(* And its second one.                                                     *)
SignalFrame ==
    /\ storing # 0
    /\ frameEvent' = TRUE
    /\ storing' = 0
    /\ UNCHANGED <<pool, current, closedEvent, request, answers, disposing, torn,
                   history>>

(* The garbage collector finds a frame nobody refers to.                   *)
Collect ==
    /\ \E f \in open \ {current} : open' = open \ {f}
    /\ UNCHANGED <<captured, ready, storing, current, events, request, answers,
                   disposing, torn, history>>
-----------------------------------------------------------------------------
(* Pool and device go, with the frame that is there.                       *)
TearDown ==
    /\ torn' = TRUE
    /\ ready' = <<>>
    /\ open' = open \ {current}

(* The transcoder asks for the start position and then for samples.        *)
Request ==
    /\ request = "none"
    /\ request' = "dispose"
    /\ UNCHANGED <<pool, storing, current, events, answers, disposing, torn,
                   history>>

(* Variant: the last frame is kept until the collector finds it.           *)
KeepFrame ==
    /\ request = "dispose"
    /\ request' = "reset"
    /\ UNCHANGED <<pool, storing, current, events, answers, disposing, torn,
                   history>>

(* WaitForNewFrame gives the last frame back ...                           *)
DisposeCurrent ==
    /\ request = "dispose"
    /\ open' = open \ {current}
    /\ overtaken' = (overtaken \/ storing # 0)
    /\ request' = "reset"
    /\ UNCHANGED <<captured, ready, storing, current, events, answers, disposing,
                   torn, told>>

(* Variant: the last frame's signal is not taken back.                     *)
NoReset ==
    /\ request = "reset"
    /\ request' = "wait"
    /\ UNCHANGED <<pool, storing, current, events, answers, disposing, torn,
                   history>>

(* ... takes its signal back ...                                           *)
ResetEvent ==
    /\ request = "reset"
    /\ frameEvent' = FALSE
    /\ request' = "wait"
    /\ UNCHANGED <<pool, storing, current, closedEvent, answers, disposing, torn,
                   history>>

(* The recording is over: the transcoder is given no sample, and Dispose   *)
(* is called.                                                              *)
Over ==
    /\ request' = "over"
    /\ TearDown
    /\ closedEvent' = TRUE
    /\ UNCHANGED <<captured, storing, current, frameEvent, answers, disposing,
                   history>>

(* Something throws: a request for a sample catches that and ends the      *)
(* recording, the one for the start does not.                              *)
Fail ==
    \/ started /\ Over
    \/ /\ ~started
       /\ request' = "over"
       /\ UNCHANGED <<pool, storing, current, events, answers, disposing, torn,
                      history>>

(* ... and waits for either event.  The end comes first.                   *)
Woken ==
    /\ request = "wait"
    /\ \/ closedEvent /\ Over
       \/ /\ ~closedEvent /\ frameEvent
          /\ request' = "read"
          /\ UNCHANGED <<pool, storing, current, events, answers, disposing,
                         torn, history>>

(* A frame that was disposed of cannot be read, nor can anything be drawn  *)
(* when the device has gone.                                               *)
Readable == current \in open /\ ~torn

ReadTime ==
    /\ request = "read"
    /\ \/ /\ Readable
          /\ time' = current
          /\ request' = "draw"
          /\ UNCHANGED <<pool, storing, current, events, started, last, disposing,
                         torn, history>>
       \/ ~Readable /\ Fail

(* The surface is that of the frame that is there now.                     *)
Draw ==
    /\ request = "draw"
    /\ \/ /\ Readable
          /\ last' = IF started THEN [time |-> time, surface |-> current] ELSE last
          /\ started' = TRUE
          /\ time' = 0
          /\ request' = "none"
          /\ UNCHANGED <<pool, storing, current, events, disposing, torn, history>>
       \/ ~Readable /\ Fail
-----------------------------------------------------------------------------
(* OnClosed.                                                               *)
ItemCloses ==
    /\ ~closedEvent
    /\ closedEvent' = TRUE
    /\ told' = TRUE
    /\ UNCHANGED <<pool, storing, current, frameEvent, request, answers, disposing,
                   torn, overtaken>>

(* Variant: nobody is told.                                                *)
DisposeQuietly ==
    /\ disposing = "before"
    /\ disposing' = "told"
    /\ UNCHANGED <<pool, storing, current, events, request, answers, torn,
                   history>>

(* Time_Tick disposes of the recorder: first everybody is told ...         *)
DisposeTells ==
    /\ disposing = "before"
    /\ disposing' = "told"
    /\ closedEvent' = TRUE
    /\ told' = TRUE
    /\ UNCHANGED <<pool, storing, current, frameEvent, request, answers, torn,
                   overtaken>>

(* ... then what they may be using is taken away.                          *)
DisposeTears ==
    /\ disposing = "told"
    /\ disposing' = "done"
    /\ TearDown
    /\ UNCHANGED <<captured, storing, current, events, request, answers, history>>

Arrival == StoreFrame \/ SignalFrame
Answer == DisposeCurrent \/ ResetEvent \/ Woken \/ ReadTime \/ Draw
Disposal == DisposeTells \/ DisposeTears

Next ==
    Capture \/ Arrival \/ Collect \/ Request \/ Answer \/ ItemCloses \/ Disposal

Spec == Init /\ [][Next]_vars

(* The threads run, the screen changes and garbage is collected.           *)
FairSpec ==
    /\ Spec
    /\ WF_vars(Capture) /\ WF_vars(Arrival) /\ WF_vars(Collect)
    /\ WF_vars(Answer) /\ WF_vars(DisposeTears)
-----------------------------------------------------------------------------
(* The fields hold what their declarations allow.                          *)
TypeOK ==
    /\ captured \in Nat /\ storing \in 0..captured /\ current \in 0..captured
    /\ time \in 0..captured /\ ready \in Seq(Nat) /\ open \subseteq 1..captured
    /\ frameEvent \in BOOLEAN /\ closedEvent \in BOOLEAN /\ started \in BOOLEAN
    /\ torn \in BOOLEAN /\ told \in BOOLEAN /\ overtaken \in BOOLEAN
    /\ request \in {"none", "dispose", "reset", "wait", "read", "draw", "over"}
    /\ disposing \in {"before", "told", "done"}

(* Although nothing is locked, samples go forward in time: the time of a   *)
(* sample is later than both time and picture of the one before, and a     *)
(* picture is never older than its time.  (It may be newer.)               *)
SamplesGoForward ==
    [][last' # last => /\ last'.time > last.time /\ last'.time > last.surface
                       /\ last'.surface >= last'.time]_vars

(* The recording goes on until the item is closed or the recorder is       *)
(* disposed of: no wait, read or draw of a request fails before (an end of *)
(* a request's own making does not count as having been told).  The        *)
(* exception: a frame was stored, not yet signalled, and given up by a     *)
(* request, which then takes the late signal for a new one.                *)
OnlyEndedWhenTold ==
    /\ TypeOK
    /\ request = "over" => overtaken \/ told

(* A request is answered, or ends, while the screen changes.               *)
RequestsEnd == request # "none" ~> request \in {"none", "over"} \/ captured = MaxFrames
=============================================================================
