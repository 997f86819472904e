----------------------------- MODULE StreamSink -----------------------------
(***************************************************************************)
(* One stream of the media sink (StspStreamSink.cpp, CStreamSink).  The    *)
(* pipeline upstream hands it samples, markers and media types; the sink's *)
(* clock starts and stops it; a client connects; what the stream accepted  *)
(* is serialised and sent over the network.  Every method holds _critSec   *)
(* from its first to its last statement, so each is one action.  What a    *)
(* method postpones goes to a serial work queue (OnDispatchWorkItem), and  *)
(* a network send completes later, on another thread, with or without an   *)
(* error: these interleave with everything else.                           *)
(*                                                                         *)
(* Pause and Restart are not modelled: CMediaSink::OnClockPause and        *)
(* OnClockRestart refuse, nothing else calls them, so no stream is ever in *)
(* State_Paused.  Times come from outside: the sink takes the position a   *)
(* clock is started at, the time at which a client connects and the times  *)
(* of samples as they are given (it is MEDIASINK_RATELESS), so none need   *)
(* be later than another.                                                  *)
(***************************************************************************)
EXTENDS Integers, Sequences, FiniteSets

CONSTANTS MaxEntries,   \* bound on samples, markers and types accepted
          MaxStarts,    \* bound on the calls of Start
          MaxStops,     \* bound on the calls of Stop
          MaxTime       \* bound on the times of samples and of the clock

ASSUME BoundsAssumption ==
    /\ MaxEntries \in Nat /\ MaxTime \in Nat
    /\ MaxStarts \in Nat /\ MaxStops \in Nat

VARIABLES
    state,              \* _state
    isVideo,            \* _fIsVideo
    isShutdown,         \* _IsShutdown
    connected,          \* _Connected
    waitingForFirst,    \* _fWaitingForFirstSample
    firstVideoSample,   \* _spFirstVideoSample, NoSample for null
    startTime,          \* _StartTime
    startFromSample,    \* _fGetStartTimeFromSample
    sampleQueue,        \* _SampleQueue, front first
    workItems,          \* operations on the serial work queue, oldest first
    sending,            \* packets whose SendAsync has not completed
    log,                \* what became of the entries accepted, in order
    requests,           \* MEStreamSinkRequestSample events not yet answered
    announced,          \* the last of the events Started and Stopped
    failed,             \* has MEError been queued?
    accepted,           \* entries accepted so far: they are numbered from 1
    starts, stops,      \* calls of Start and Stop so far
    firstOfRun          \* number of the first sample since Start, 0 for none

object == <<state, isVideo, isShutdown, connected, waitingForFirst>>
timing == <<startTime, startFromSample>>
queues == <<sampleQueue, workItems>>
network == <<sending, log>>
events == <<requests, announced, failed>>
ghosts == <<accepted, starts, stops, firstOfRun>>
vars == <<object, firstVideoSample, timing, queues, network, events, ghosts>>

Kinds == {"sample", "marker", "type"}

Times == 0 .. MaxTime

(* A run begins with a Start: an entry belongs to the run it is handed in. *)
(* It also notes the calls of Stop before it.                              *)
Entry == [kind : Kinds, id : Nat, time : Nat, run : Nat, stops : Nat]

NoSample == [kind |-> "none", id |-> 0, time |-> 0, run |-> 0, stops |-> 0]

(* What becomes of an entry: a sample or a type is sent or dropped, the    *)
(* sample kept for the client is sent first, a sample may come too late,   *)
(* a marker is reported.                                                   *)
Fates == {"sent", "first", "late", "dropped", "reported"}
Outcome == [id : Nat, kind : Kinds, time : Nat, run : Nat, fate : Fates,
            ts : Nat, during : Nat]

OnWire(o) == o.fate \in {"sent", "first"}

(* The rows of ValidStateMatrix as State indexes them, without Pause and   *)
(* Restart.  State_Stopped comes before State_Paused, but the row labelled *)
(* "Stop" comes after the one labelled "Pause": a stopped stream has the   *)
(* latter, which allows everything.                                        *)
ValidOperations ==
    [TypeNotSet |-> {"OpSetMediaType"},
     Ready   |-> {"OpSetMediaType", "OpStart", "OpStop", "OpPlaceMarker"},
     Started |-> {"OpSetMediaType", "OpStart", "OpStop", "OpProcessSample",
                  "OpPlaceMarker"},
     Stopped |-> {"OpSetMediaType", "OpStart", "OpStop", "OpProcessSample",
                  "OpPlaceMarker"}]

ValidateOperation(op) == op \in ValidOperations[state]

Operations == UNION {ValidOperations[s] : s \in DOMAIN ValidOperations}

QueueAsyncOperation(op) == workItems' = Append(workItems, op)

(* QueueEvent fails on a stream that is shut down: the event is lost.      *)
RequestSample == requests' = IF isShutdown THEN requests ELSE requests + 1
-----------------------------------------------------------------------------
(* PrepareSample: a sample older than the start time is not sent, unless   *)
(* forced; the first sample after a start without a position defines the   *)
(* start time.                                                             *)
IsLate(e) == e.time < startTime

Timestamp(e) == IF startFromSample THEN 0 ELSE e.time - startTime

Became(e, fate) ==
    [id |-> e.id, kind |-> e.kind, time |-> e.time, run |-> e.run, fate |-> fate,
     ts |-> IF e.kind = "sample" /\ fate = "sent" THEN Timestamp(e) ELSE 0,
     during |-> starts]

(* Variant: the start time stays that of the run before.                   *)
StartTimeForgotten(e) ==
    /\ startFromSample' = FALSE
    /\ UNCHANGED startTime

StartTimeAfter(e) ==
    /\ startTime' = IF startFromSample THEN e.time ELSE startTime
    /\ startFromSample' = FALSE
-----------------------------------------------------------------------------
Init ==
    /\ state = "TypeNotSet"
    /\ isVideo = FALSE
    /\ isShutdown = FALSE
    /\ connected = FALSE
    /\ waitingForFirst = FALSE
    /\ firstVideoSample = NoSample
    /\ startTime = 0
    /\ startFromSample = FALSE
    /\ sampleQueue = <<>>
    /\ workItems = <<>>
    /\ sending = {}
    /\ log = <<>>
    /\ requests = 0
    /\ announced = "none"
    /\ failed = FALSE
    /\ accepted = 0
    /\ starts = 0
    /\ stops = 0
    /\ firstOfRun = 0

(* An entry of the given kind and time, with the next number.              *)
NewEntry(kind, time) ==
    [kind |-> kind, id |-> accepted + 1, time |-> time, run |-> starts,
     stops |-> stops]

(* Only samples have a time.                                               *)
TimesOf(kind) == IF kind = "sample" THEN Times ELSE {0}

(* Variant: entries jump the queue.                                        *)
AcceptInFront(kind, op) ==
    /\ accepted < MaxEntries
    /\ accepted' = accepted + 1
    /\ \E t \in TimesOf(kind) : sampleQueue' = <<NewEntry(kind, t)>> \o sampleQueue
    /\ QueueAsyncOperation(op)

(* Variant: only a stream that runs has its entries processed.             *)
AcceptIfStarted(kind, op) ==
    /\ accepted < MaxEntries
    /\ accepted' = accepted + 1
    /\ \E t \in TimesOf(kind) : sampleQueue' = Append(sampleQueue, NewEntry(kind, t))
    /\ IF state = "Started" THEN QueueAsyncOperation(op) ELSE UNCHANGED workItems

Accept(kind, op) ==
    /\ accepted < MaxEntries
    /\ accepted' = accepted + 1
    /\ \E t \in TimesOf(kind) : sampleQueue' = Append(sampleQueue, NewEntry(kind, t))
    /\ QueueAsyncOperation(op)

(* SetCurrentMediaType: the first type makes the stream ready; a type set  *)
(* while it runs or is stopped is queued like a sample (ProcessFormatChange).*)
SetFirstMediaType ==
    /\ ~isShutdown
    /\ state = "TypeNotSet"
    /\ isVideo' \in BOOLEAN
    /\ state' = "Ready"
    /\ UNCHANGED <<isShutdown, connected, waitingForFirst, firstVideoSample,
                   timing, queues, network, events, ghosts>>

ChangeMediaType ==
    /\ ~isShutdown
    /\ state \in {"Started", "Stopped"}
    /\ ValidateOperation("OpSetMediaType")
    /\ Accept("type", "OpSetMediaType")
    /\ UNCHANGED <<object, firstVideoSample, timing, network, events, starts,
                   stops, firstOfRun>>

(* ProcessSample: the pipeline answers one request for a sample.           *)
RefuseSample ==
    /\ ~isShutdown => ~ValidateOperation("OpProcessSample")
    /\ requests > 0
    /\ requests' = requests - 1
    /\ UNCHANGED <<object, firstVideoSample, timing, queues, network,
                   announced, failed, ghosts>>

(* The first sample of a run is kept for the client that is not there yet, *)
(* and the next one is requested.                                          *)
KeepFirstSample ==
    /\ ~isShutdown /\ ValidateOperation("OpProcessSample")
    /\ requests > 0
    /\ waitingForFirst /\ ~connected
    /\ accepted < MaxEntries
    /\ accepted' = accepted + 1
    /\ \E t \in Times : firstVideoSample' = NewEntry("sample", t)
    /\ waitingForFirst' = FALSE
    /\ firstOfRun' = IF firstOfRun = 0 THEN accepted + 1 ELSE firstOfRun
    /\ UNCHANGED <<state, isVideo, isShutdown, connected, timing, queues,
                   network, events, starts, stops>>

QueueSample ==
    /\ ~isShutdown /\ ValidateOperation("OpProcessSample")
    /\ requests > 0
    /\ ~(waitingForFirst /\ ~connected)
    /\ requests' = requests - 1
    /\ Accept("sample", "OpProcessSample")
    /\ firstOfRun' = IF firstOfRun = 0 THEN accepted + 1 ELSE firstOfRun
    /\ UNCHANGED <<object, firstVideoSample, timing, network, announced,
                   failed, starts, stops>>

(* Variant: a marker without a work item.                                  *)
PlaceMarkerNoItem ==
    /\ ~isShutdown /\ ValidateOperation("OpPlaceMarker")
    /\ accepted < MaxEntries
    /\ accepted' = accepted + 1
    /\ sampleQueue' = Append(sampleQueue, NewEntry("marker", 0))
    /\ UNCHANGED <<object, firstVideoSample, timing, workItems, network, events,
                   starts, stops, firstOfRun>>

PlaceMarker ==
    /\ ~isShutdown /\ ValidateOperation("OpPlaceMarker")
    /\ Accept("marker", "OpPlaceMarker")
    /\ UNCHANGED <<object, firstVideoSample, timing, network, events, starts,
                   stops, firstOfRun>>

(* Variant: the first sample is not awaited.                               *)
StartNotWaiting ==
    /\ ~isShutdown /\ ValidateOperation("OpStart")
    /\ starts < MaxStarts
    /\ starts' = starts + 1
    /\ \/ startTime' \in Times /\ startFromSample' = FALSE
       \/ startFromSample' = TRUE /\ UNCHANGED startTime
    /\ state' = "Started"
    /\ firstOfRun' = 0
    /\ QueueAsyncOperation("OpStart")
    /\ UNCHANGED <<isVideo, isShutdown, connected, waitingForFirst,
                   firstVideoSample, sampleQueue, network, events,
                   accepted, stops>>

(* Start: with the position of the clock, or without one.                  *)
Start ==
    /\ ~isShutdown /\ ValidateOperation("OpStart")
    /\ starts < MaxStarts
    /\ starts' = starts + 1
    /\ \/ startTime' \in Times /\ startFromSample' = FALSE
       \/ startFromSample' = TRUE /\ UNCHANGED startTime
    /\ state' = "Started"
    /\ waitingForFirst' = isVideo
    /\ firstOfRun' = 0
    /\ QueueAsyncOperation("OpStart")
    /\ UNCHANGED <<isVideo, isShutdown, connected, firstVideoSample,
                   sampleQueue, network, events, accepted, stops>>

Stop ==
    /\ ~isShutdown /\ ValidateOperation("OpStop")
    /\ stops < MaxStops
    /\ stops' = stops + 1
    /\ state' = "Stopped"
    /\ QueueAsyncOperation("OpStop")
    /\ UNCHANGED <<isVideo, isShutdown, connected, waitingForFirst,
                   firstVideoSample, timing, sampleQueue, network, events,
                   accepted, starts, firstOfRun>>

(* SetConnected(true), called by the sink once, when its client asks it to *)
(* start: times count from the clock's time now on and the kept sample is  *)
(* sent, whatever its time.                                                *)
SendKeptSample(now) ==
    LET first == firstVideoSample
        ts == IF startFromSample \/ first.time < now THEN 0 ELSE first.time - now
    IN  /\ startTime' = IF startFromSample THEN first.time ELSE now
        /\ startFromSample' = FALSE
        /\ firstVideoSample' = NoSample
        /\ log' = Append(log, [Became(first, "first") EXCEPT !.ts = ts])
        /\ sending' = sending \cup {[id |-> first.id, asks |-> FALSE]}

SetConnected ==
    /\ ~connected
    /\ state # "TypeNotSet" /\ ~isShutdown
    /\ connected' = TRUE
    /\ \E now \in Times :
          IF firstVideoSample = NoSample
          THEN /\ startTime' = now
               /\ UNCHANGED <<startFromSample, firstVideoSample, network>>
          ELSE SendKeptSample(now)
    /\ UNCHANGED <<state, isVideo, isShutdown, waitingForFirst, queues, events,
                   ghosts>>

(* Variant: the queue survives.                                            *)
ShutdownKeepingQueue ==
    /\ ~isShutdown
    /\ isShutdown' = TRUE
    /\ UNCHANGED <<state, isVideo, connected, waitingForFirst,
                   firstVideoSample, timing, queues, network, events, ghosts>>

Shutdown ==
    /\ ~isShutdown
    /\ isShutdown' = TRUE
    /\ sampleQueue' = <<>>
    /\ UNCHANGED <<state, isVideo, connected, waitingForFirst,
                   firstVideoSample, timing, workItems, network, events, ghosts>>
-----------------------------------------------------------------------------
(* ProcessSamplesFromQueue(true): the queue is emptied, its markers are    *)
(* reported and the rest is dropped.                                       *)
DropSamplesFromQueue ==
    /\ sampleQueue' = <<>>
    /\ log' = log \o [i \in DOMAIN sampleQueue |->
                        Became(sampleQueue[i],
                               IF sampleQueue[i].kind = "marker"
                               THEN "reported" ELSE "dropped")]
    /\ UNCHANGED <<sending, timing>>

(* ProcessSamplesFromQueue(false): entries leave the queue until a sample  *)
(* has been sent or the queue is empty.                                    *)
OnTime == {i \in DOMAIN sampleQueue :
             sampleQueue[i].kind = "sample" /\ ~IsLate(sampleQueue[i])}

QueueRanEmpty == OnTime = {}

LastTaken == IF QueueRanEmpty
             THEN Len(sampleQueue)
             ELSE CHOOSE i \in OnTime : \A j \in OnTime : i <= j

SendFate(i) ==
    IF sampleQueue[i].kind = "marker" THEN "reported"
    ELSE IF sampleQueue[i].kind = "type" \/ i \in OnTime THEN "sent"
    ELSE "late"

Sends == {i \in 1 .. LastTaken : SendFate(i) = "sent"}

(* The completion of a sample's send asks for the next sample, that of a   *)
(* type's does not.                                                        *)
SendSampleFromQueue ==
    /\ sampleQueue' = SubSeq(sampleQueue, LastTaken + 1, Len(sampleQueue))
    /\ log' = log \o [i \in 1 .. LastTaken |-> Became(sampleQueue[i], SendFate(i))]
    /\ sending' = sending \cup
          {[id |-> sampleQueue[i].id, asks |-> i \in OnTime] : i \in Sends}
    /\ IF QueueRanEmpty THEN UNCHANGED timing
                        ELSE StartTimeAfter(sampleQueue[LastTaken])

(* Variant: nothing is asked for when samples are dropped.                 *)
NeedMoreIfConnected == connected /\ QueueRanEmpty

(* Dropping always leaves room for more samples.                           *)
NeedMoreSamples == ~connected \/ QueueRanEmpty

SendOrDrop == IF connected THEN SendSampleFromQueue ELSE DropSamplesFromQueue

(* Flush: the markers in the queue are still reported.                     *)
Flush ==
    /\ ~isShutdown
    /\ sampleQueue # <<>>
    /\ DropSamplesFromQueue
    /\ UNCHANGED <<object, firstVideoSample, workItems, events, ghosts>>

(* The cases of OnDispatchWorkItem, for the oldest work item.              *)
Dispatching(ops) ==
    /\ workItems # <<>>
    /\ Head(workItems) \in ops
    /\ workItems' = Tail(workItems)
    /\ UNCHANGED <<object, firstVideoSample, failed, ghosts>>

(* Variant: a start that does not ask for a sample.                         *)
DispatchStartSilent ==
    /\ Dispatching({"OpStart"})
    /\ announced' = IF isShutdown THEN announced ELSE "Started"
    /\ IF isShutdown THEN UNCHANGED <<sampleQueue, network, timing>>
                     ELSE SendOrDrop
    /\ UNCHANGED requests

(* On a stream that is shut down the Started event fails, and the rest of  *)
(* the case is skipped.                                                    *)
DispatchStart ==
    /\ Dispatching({"OpStart"})
    /\ IF isShutdown
       THEN UNCHANGED <<sampleQueue, network, timing, announced, requests>>
       ELSE /\ announced' = "Started"
            /\ SendOrDrop
            /\ IF NeedMoreSamples THEN RequestSample ELSE UNCHANGED requests

DispatchStop ==
    /\ Dispatching({"OpStop"})
    /\ DropSamplesFromQueue
    /\ announced' = IF isShutdown THEN announced ELSE "Stopped"
    /\ UNCHANGED requests

DispatchSample ==
    /\ Dispatching({"OpProcessSample"})
    /\ SendOrDrop
    /\ IF NeedMoreSamples THEN RequestSample ELSE UNCHANGED requests
    /\ UNCHANGED announced

DispatchMarkerOrType ==
    /\ Dispatching({"OpPlaceMarker", "OpSetMediaType"})
    /\ SendOrDrop
    /\ UNCHANGED <<requests, announced>>

DispatchWorkItem ==
    DispatchStart \/ DispatchStop \/ DispatchSample \/ DispatchMarkerOrType

(* The continuation of SendAsync, in the order the network completes.      *)
SendSucceeded(p) ==
    /\ p \in sending
    /\ sending' = sending \ {p}
    /\ IF p.asks /\ state = "Started" THEN RequestSample ELSE UNCHANGED requests
    /\ UNCHANGED <<object, firstVideoSample, timing, queues, log, announced,
                   failed, ghosts>>

SendFailed(p) ==
    /\ p \in sending
    /\ sending' = sending \ {p}
    /\ failed' = (failed \/ ~isShutdown)
    /\ UNCHANGED <<object, firstVideoSample, timing, queues, log, requests,
                   announced, ghosts>>

SendCompleted == \E p \in sending : SendSucceeded(p) \/ SendFailed(p)

Pipeline == \/ SetFirstMediaType \/ ChangeMediaType
            \/ RefuseSample \/ KeepFirstSample \/ QueueSample
            \/ PlaceMarker \/ Flush

Sink == Start \/ Stop \/ SetConnected \/ Shutdown

Next == Pipeline \/ Sink \/ DispatchWorkItem \/ SendCompleted

Spec == Init /\ [][Next]_vars

(* The work queue runs its items, and every send completes or fails.       *)
FairSpec == Spec /\ WF_vars(DispatchWorkItem) /\ WF_vars(SendCompleted)
-----------------------------------------------------------------------------
(* The fields hold what their declarations allow.                          *)
ObjectOK ==
    /\ state \in DOMAIN ValidOperations
    /\ isVideo \in BOOLEAN
    /\ isShutdown \in BOOLEAN
    /\ connected \in BOOLEAN
    /\ waitingForFirst \in BOOLEAN
    /\ firstVideoSample \in Entry \cup {NoSample}
    /\ startTime \in Nat
    /\ startFromSample \in BOOLEAN

QueuesOK ==
    /\ sampleQueue \in Seq(Entry)
    /\ workItems \in Seq(Operations)
    /\ sending \in SUBSET [id : Nat, asks : BOOLEAN]
    /\ log \in Seq(Outcome)

CountersOK ==
    /\ requests \in Nat
    /\ announced \in {"none", "Started", "Stopped"}
    /\ failed \in BOOLEAN
    /\ accepted \in Nat
    /\ starts \in Nat /\ stops \in Nat
    /\ firstOfRun \in Nat

TypeOK == ObjectOK /\ QueuesOK /\ CountersOK

DataItems(items) == {i \in DOMAIN items : items[i] \notin {"OpStart", "OpStop"}}

(* No entry is stranded: a work item that takes an entry from the queue is *)
(* pending for each entry, although an item may take entries other than    *)
(* the one it was queued for.  Otherwise a marker could wait forever.      *)
EntriesHaveItems == Len(sampleQueue) <= Cardinality(DataItems(workItems))

SampleOnWire(o) == OnWire(o) /\ o.kind = "sample"

(* The client receives the samples in the order in which the pipeline      *)
(* handed them in, each at most once.  There is one exception: a Start     *)
(* leaves the samples of earlier runs in the queue, and the first sample   *)
(* of the new run, kept for the client, is sent as soon as it connects.    *)
(* Within a run the kept sample is never late.                             *)
SamplesInOrder ==
    \A i, j \in DOMAIN log :
        i < j /\ SampleOnWire(log[i]) /\ SampleOnWire(log[j])
            => \/ log[i].id < log[j].id
               \/ log[i].fate = "first" /\ log[j].run < log[i].run

(* A marker is reported after everything accepted before it has been       *)
(* processed (comment of PlaceMarker): nothing accepted earlier is taken   *)
(* from the queue later.  The exception is a first sample kept for a       *)
(* client that is not there yet: it is sent after its marker is reported.  *)
MarkerAfterQueuedSamples ==
    \A i, j \in DOMAIN log :
        i < j /\ log[i].fate = "reported" /\ log[j].fate # "first"
            => log[i].id < log[j].id

(* A stream that is running never goes quiet: either the pipeline has been *)
(* asked for a sample, or something pending will ask for one, or an error  *)
(* was reported.                                                           *)
NeverStalls ==
    state = "Started" /\ ~isShutdown =>
        \/ requests > 0
        \/ \E i \in DOMAIN workItems : workItems[i] \in {"OpStart", "OpProcessSample"}
        \/ \E p \in sending : p.asks
        \/ failed

(* The sink does not flood itself: the samples the pipeline has been asked *)
(* for, or will be by what is pending, are at most one for each Start,     *)
(* marker and type, since only these can send a sample that has a work     *)
(* item of its own.                                                        *)
Extra == {i \in 1 .. accepted :
            \/ \E j \in DOMAIN log : log[j].id = i /\ log[j].kind # "sample"
            \/ \E j \in DOMAIN sampleQueue :
                   sampleQueue[j].id = i /\ sampleQueue[j].kind # "sample"}

RequestsBounded ==
    requests + Cardinality({i \in DOMAIN workItems : workItems[i] = "OpProcessSample"})
             + Cardinality({p \in sending : p.asks})
        <= starts + Cardinality(Extra)

(* A stop takes effect at the place of its work item: what was handed in   *)
(* before a Stop is not left over once the Stop has been carried out.  It  *)
(* is no promise that a stopped stream is empty: it takes samples, and the *)
(* next start finds them.                                                  *)
PendingStops == {i \in DOMAIN workItems : workItems[i] = "OpStop"}

StopsDrain ==
    \A i \in DOMAIN sampleQueue :
        sampleQueue[i].stops + Cardinality(PendingStops) >= stops

(* What the rows of ValidStateMatrix say by their labels: the one labelled *)
(* "Stop" refuses samples, so that none waits in a stopped stream once its *)
(* Stop has been carried out.                                              *)
StoppedHoldsNoSample ==
    state = "Stopped" /\ PendingStops = {}
        => \A i \in DOMAIN sampleQueue : sampleQueue[i].kind # "sample"

(* The events reach the pipeline in the order of the calls: when no start  *)
(* or stop is pending, the last one announced is the state of the stream.  *)
AnnouncedIsState ==
    state \in {"Started", "Stopped"} /\ ~isShutdown =>
        \/ \E i \in DOMAIN workItems : workItems[i] \in {"OpStart", "OpStop"}
        \/ announced = state

(* Both ways in order: samples to the client, markers to the pipeline.     *)
InOrder == SamplesInOrder /\ MarkerAfterQueuedSamples

(* Back-pressure: the pipeline is asked often enough and not too often.    *)
Backpressure == NeverStalls /\ RequestsBounded

(* Queue, work items, state and announcements agree in every interleaving. *)
QueueConsistent ==
    TypeOK /\ EntriesHaveItems /\ AnnouncedIsState /\ StopsDrain

(* Times sent to the client count from one start time in a run: samples    *)
(* keep their distance, in whatever order their times are and also across  *)
(* the connection of the client.  Only the sample kept for the client may  *)
(* be older than the start time: it is sent as if it were not.             *)
TimesKeepDistance ==
    \A i, j \in DOMAIN log :
        i < j /\ SampleOnWire(log[i]) /\ SampleOnWire(log[j])
              /\ log[i].during = log[j].during
            => \/ log[j].ts - log[i].ts = log[j].time - log[i].time
               \/ /\ log[i].fate = "first" /\ log[i].ts = 0
                  /\ log[j].ts <= log[j].time - log[i].time

(* A client of a running video stream is sent the first sample of the run, *)
(* which a decoder can start with, as soon as it connects.                 *)
FirstFrameOnConnect ==
    [][~connected /\ connected' /\ isVideo /\ state = "Started" /\ firstOfRun # 0
        => /\ Len(log') = Len(log) + 1
           /\ log'[Len(log')].fate = "first"
           /\ log'[Len(log')].id = firstOfRun]_vars

(* After Shutdown nothing is sent, reported or announced, whatever work    *)
(* items and sends were still pending.                                     *)
SilentAfterShutdown ==
    [][isShutdown => /\ UNCHANGED <<log, announced, failed, sampleQueue>>
                     /\ sending' \subseteq sending
                     /\ requests' <= requests]_vars

(* Every marker is reported, unless the stream is shut down first.         *)
MarkersAreReported ==
    \A m \in 1 .. MaxEntries :
        (\E i \in DOMAIN sampleQueue : sampleQueue[i].id = m)
            ~> \/ isShutdown
               \/ \E i \in DOMAIN log : log[i].id = m

(* A running stream asks for samples again and again until it is stopped,  *)
(* shut down or fails.                                                     *)
RunningAsksForSamples ==
    state = "Started" ~> requests > 0 \/ failed \/ isShutdown \/ state # "Started"
=============================================================================
