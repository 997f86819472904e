----------------------------- MODULE MediaStream -----------------------------
(***************************************************************************)
(* One stream of the media source on the receiving side (CMediaStream in   *)
(* StspMediaStream.cpp), with what CMediaSource does to it.  The pipeline  *)
(* requests samples with tokens and gives advice on quality; the source    *)
(* starts, stops, changes the rate and shuts down; frames come from the    *)
(* server at any time.  Samples are handed over by DeliverSamples, which   *)
(* may throw away several samples before one answers a request.            *)
(*                                                                         *)
(* Every method and every operation of the source holds the source's lock, *)
(* which is recursive, from its first to its last statement.  So each is   *)
(* one action, but for the loop of DeliverSamples: an iteration is a step, *)
(* and no other action is possible until the loop has ended.               *)
(*                                                                         *)
(* Media types are not modelled: ProcessFormatChange has no caller, so no  *)
(* type is ever queued.  CleanSampleQueue always finds an empty queue,     *)
(* since DoSetRate flushes first.                                          *)
(***************************************************************************)
EXTENDS Integers, Sequences, FiniteSets

CONSTANTS Times,        \* timestamps of frames
          Amounts,      \* what DropTime may be asked to drop
          MaxFrames,    \* bound on the frames sent by the server
          MaxRequests,  \* bound on the requests of the pipeline
          MaxCommands,  \* bound on the operations of the source
          MaxAdvice     \* bound on the calls of IMFQualityAdvise

ASSUME ParametersAssumption ==
    /\ Times \subseteq Nat
    /\ Amounts \subseteq Nat \ {0}
    /\ {MaxFrames, MaxRequests, MaxCommands, MaxAdvice} \subseteq Nat

VARIABLES
    state,              \* _eSourceState of the stream
    sourceState,        \* _eSourceState of CMediaSource
    fActive,            \* _fActive: is the stream selected?
    fVideo,             \* _fVideo
    flRate,             \* _flRate of the stream: 1, or 0 for no playback
    samples,            \* _samples, front first
    tokens,             \* _tokens, front first: the numbers of the requests
    dropMode,           \* _eDropMode: MF_DROP_MODE_NONE (0) or _1 (1)
    dropTime,           \* the four fields of the window opened by DropTime
    waiting,            \* _fWaitingForCleanPoint
    discontinuity,      \* _fDiscontinuity
    delivering,         \* is the loop of DeliverSamples running?
    errors,             \* number of MEError events
    delivered,          \* the MEMediaSample events, in order
    dropped,            \* the samples ShouldDropSample refused
    skipped,            \* frames that came while the stream was not selected
    flushes,            \* calls of Flush so far
    frames, requests, commands, advice  \* frames, requests and calls so far

control == <<state, sourceState, fActive, fVideo, flRate>>
quality == <<dropMode, dropTime, waiting>>
queues == <<samples, tokens>>
output == <<delivered, dropped, discontinuity>>
counts == <<frames, requests, commands, advice, flushes>>
vars == <<control, quality, queues, output, counts, delivering, errors, skipped>>

Sample == [id : Nat, key : BOOLEAN, ts : Nat, flush : Nat]
Delivery == [sample : Sample, token : Nat, marked : BOOLEAN, flush : Nat]
DropWindow == [on : BOOLEAN, init : BOOLEAN, start : Nat, amount : Nat]
NoDropTime == [on |-> FALSE, init |-> FALSE, start |-> 0, amount |-> 0]

Init ==
    /\ state = "Stopped"
    /\ sourceState = "Stopped"
    /\ fActive = FALSE
    /\ fVideo \in BOOLEAN
    /\ flRate = 1
    /\ samples = <<>> /\ tokens = <<>>
    /\ dropMode = 0 /\ dropTime = NoDropTime /\ waiting = TRUE
    /\ discontinuity = FALSE
    /\ delivering = FALSE
    /\ errors = 0
    /\ delivered = <<>>
    /\ dropped = {}
    /\ skipped = {}
    /\ flushes = 0
    /\ frames = 0 /\ requests = 0 /\ commands = 0 /\ advice = 0

(* MEError, unless the stream is shut down.                                *)
HandleError == errors' = IF state = "Shutdown" THEN errors ELSE errors + 1
-----------------------------------------------------------------------------
(* ShouldDropSample, for video.  The rate comes first; a sample dropped on *)
(* its account does not open the window.                                   *)
DropForRate(s) == flRate # 1 /\ ~s.key

WindowStart(s) == IF dropTime.init THEN s.ts ELSE dropTime.start

InWindow(s) == dropTime.on /\ s.ts < WindowStart(s) + dropTime.amount

WindowEnds(s) == dropTime.on /\ ~InWindow(s)

OnlyKeyFrames(s) == dropMode = 1 \/ waiting \/ WindowEnds(s)

ShouldDropSample(s) ==
    fVideo /\ \/ DropForRate(s)
              \/ InWindow(s)
              \/ OnlyKeyFrames(s) /\ ~s.key

QualityAfter(s) ==
    /\ UNCHANGED dropMode
    /\ \/ /\ ~fVideo \/ DropForRate(s)
          /\ UNCHANGED <<dropTime, waiting>>
       \/ /\ fVideo /\ ~DropForRate(s) /\ InWindow(s)
          /\ dropTime' = [dropTime EXCEPT !.init = FALSE, !.start = WindowStart(s)]
          /\ UNCHANGED waiting
       \/ /\ fVideo /\ ~DropForRate(s) /\ ~InWindow(s)
          /\ dropTime' = IF dropTime.on THEN NoDropTime ELSE dropTime
          /\ waiting' = (~s.key /\ (waiting \/ WindowEnds(s)))

(* The next sample of the loop; what becomes of it is up to its caller.    *)
TakeSample(s) ==
    /\ delivering
    /\ samples # <<>> /\ tokens # <<>>
    /\ s = Head(samples)
    /\ samples' = Tail(samples)
    /\ QualityAfter(s)
    /\ UNCHANGED <<control, counts, errors, skipped>>

(* Variants: the loop ends after a sample that was dropped; a dropped      *)
(* sample leaves no mark.                                                  *)
DropSampleOnce(s) ==
    /\ TakeSample(s)
    /\ ShouldDropSample(s)
    /\ dropped' = dropped \cup {s}
    /\ discontinuity' = TRUE
    /\ delivering' = FALSE
    /\ UNCHANGED <<tokens, delivered>>

DropSampleUnmarked(s) ==
    /\ TakeSample(s)
    /\ ShouldDropSample(s)
    /\ dropped' = dropped \cup {s}
    /\ UNCHANGED <<tokens, delivered, delivering, discontinuity>>

(* An iteration of DeliverSamples that drops the front sample: the request *)
(* waits for another one, which will be marked.                            *)
DropSample(s) ==
    /\ TakeSample(s)
    /\ ShouldDropSample(s)
    /\ dropped' = dropped \cup {s}
    /\ discontinuity' = TRUE
    /\ UNCHANGED <<tokens, delivered, delivering>>

Deliver(s, token) ==
    /\ delivered' = Append(delivered,
           [sample |-> s, token |-> token, marked |-> discontinuity,
            flush |-> flushes])
    /\ discontinuity' = FALSE
    /\ UNCHANGED dropped

(* Variant: the request stays in the list.                                 *)
DeliverSampleKeepingToken(s) ==
    /\ TakeSample(s)
    /\ ~ShouldDropSample(s)
    /\ Deliver(s, Head(tokens))
    /\ UNCHANGED <<tokens, delivering>>

(* An iteration that answers the front request with the front sample.      *)
DeliverSample(s) ==
    /\ TakeSample(s)
    /\ ~ShouldDropSample(s)
    /\ Deliver(s, Head(tokens))
    /\ tokens' = Tail(tokens)
    /\ UNCHANGED delivering

(* The loop of DeliverSamples ends, and the lock is given up.              *)
DeliverSamplesEnds ==
    /\ delivering
    /\ samples = <<>> \/ tokens = <<>>
    /\ delivering' = FALSE
    /\ UNCHANGED <<control, quality, queues, output, counts, errors, skipped>>
-----------------------------------------------------------------------------
(* RequestSample: refused with an error event unless the stream is         *)
(* started, in silence when it is shut down.                               *)
RequestSample ==
    /\ ~delivering
    /\ requests < MaxRequests
    /\ requests' = requests + 1
    /\ \/ /\ state = "Started"
          /\ tokens' = Append(tokens, requests')
          /\ delivering' = TRUE
          /\ UNCHANGED errors
       \/ /\ state # "Started"
          /\ HandleError
          /\ UNCHANGED <<tokens, delivering>>
    /\ UNCHANGED <<control, quality, output, samples, skipped, frames, commands,
                   advice, flushes>>

(* ProcessServerSample and CMediaStream::ProcessSample.  The source reads  *)
(* frames once it has been started, and goes on after a stop; what comes   *)
(* for a stream not selected is skipped.                                   *)
ProcessSample(key, ts) ==
    /\ ~delivering
    /\ sourceState = "Started"
    /\ frames < MaxFrames
    /\ frames' = frames + 1
    /\ \/ /\ ~fActive
          /\ skipped' = skipped \cup {frames'}
          /\ UNCHANGED <<samples, delivering, errors>>
       \/ /\ fActive /\ state = "Started"
          /\ samples' = Append(samples,
                 [id |-> frames', key |-> key, ts |-> ts, flush |-> flushes])
          /\ delivering' = TRUE
          /\ UNCHANGED <<errors, skipped>>
       \/ /\ fActive /\ state # "Started"
          /\ HandleError
          /\ UNCHANGED <<samples, delivering, skipped>>
    /\ UNCHANGED <<control, quality, output, tokens, requests, commands, advice,
                   flushes>>
-----------------------------------------------------------------------------
Advised == ~delivering /\ state # "Shutdown" /\ advice < MaxAdvice /\ advice' = advice + 1

(* Variant: a change of mode does not wait for a key frame.                *)
ChangeDropModeAtOnce(mode) ==
    /\ dropMode' = mode
    /\ UNCHANGED <<waiting, dropTime>>

ChangeDropMode(mode) ==
    /\ dropMode' = mode
    /\ waiting' = (waiting \/ mode # dropMode)
    /\ UNCHANGED dropTime

Supports(mode) == mode \in {0, 1}

(* SetDropMode, called by the pipeline or, on a report of samples too late *)
(* or ahead of time, by NotifyQualityEvent.  Other modes are refused.      *)
SetDropMode(mode) ==
    /\ Advised
    /\ Supports(mode)
    /\ ChangeDropMode(mode)
    /\ UNCHANGED <<control, queues, output, delivering, errors, skipped, frames,
                   requests, commands, flushes>>

ResetDropTime ==
    /\ dropTime' = NoDropTime
    /\ waiting' = TRUE

(* DropTime opens a window that the next sample begins, or closes it.      *)
DropTime(amount) ==
    /\ Advised
    /\ \/ amount = 0 /\ ResetDropTime
       \/ /\ amount > 0
          /\ dropTime' = [dropTime EXCEPT !.on = TRUE, !.init = TRUE,
                                          !.amount = amount]
          /\ UNCHANGED waiting
    /\ UNCHANGED <<control, queues, output, dropMode, delivering, errors, skipped,
                   frames, requests, commands, flushes>>
-----------------------------------------------------------------------------
(* Variant: samples survive a flush.                                       *)
FlushTokensOnly ==
    /\ tokens' = <<>>
    /\ UNCHANGED samples
    /\ discontinuity' = FALSE
    /\ dropMode' = 0
    /\ ResetDropTime
    /\ flushes' = flushes + 1

Flush ==
    /\ samples' = <<>>
    /\ tokens' = <<>>
    /\ discontinuity' = FALSE
    /\ dropMode' = 0
    /\ ResetDropTime
    /\ flushes' = flushes + 1

Command ==
    /\ ~delivering
    /\ sourceState # "Shutdown"
    /\ commands < MaxCommands
    /\ commands' = commands + 1
    /\ UNCHANGED <<fVideo, delivering, delivered, dropped, skipped, frames,
                   requests, advice>>

(* DoStart and SelectStreams.  A stream already started is started again.  *)
DoStart(selected) ==
    /\ Command
    /\ fActive' = selected
    /\ state' = IF selected THEN "Started" ELSE state
    /\ sourceState' = "Started"
    /\ UNCHANGED <<flRate, quality, queues, discontinuity, errors, flushes>>

(* DoStop flushes and stops the stream when it is selected; a second stop  *)
(* is an error of the stream.  The source itself stays started.            *)
DoStop ==
    /\ Command
    /\ \/ /\ fActive
          /\ Flush
          /\ state' = "Stopped"
          /\ \/ state = "Started" /\ UNCHANGED errors
             \/ state # "Started" /\ HandleError
       \/ /\ ~fActive
          /\ UNCHANGED <<state, quality, queues, discontinuity, errors, flushes>>
    /\ UNCHANGED <<sourceState, fActive, flRate>>

(* DoSetRate: a stream that is not selected does not learn of the rate.    *)
DoSetRate(rate) ==
    /\ Command
    /\ \/ fActive /\ Flush /\ flRate' = rate
       \/ ~fActive /\ UNCHANGED <<flRate, quality, queues, discontinuity, flushes>>
    /\ UNCHANGED <<state, sourceState, fActive, errors>>

Shutdown ==
    /\ Command
    /\ Flush
    /\ state' = "Shutdown"
    /\ sourceState' = "Shutdown"
    /\ UNCHANGED <<fActive, flRate, errors>>

Next ==
    \/ \E s \in {samples[i] : i \in DOMAIN samples} :
           DropSample(s) \/ DeliverSample(s)
    \/ DeliverSamplesEnds
    \/ RequestSample
    \/ \E key \in BOOLEAN, ts \in Times : ProcessSample(key, ts)
    \/ \E mode \in 0 .. 5 : SetDropMode(mode)
    \/ \E amount \in Amounts \cup {0} : DropTime(amount)
    \/ \E selected \in BOOLEAN : DoStart(selected)
    \/ DoStop
    \/ \E rate \in {0, 1} : DoSetRate(rate)
    \/ Shutdown

Spec == Init /\ [][Next]_vars
-----------------------------------------------------------------------------
(* The fields hold what their declarations allow.                          *)
ControlOK ==
    /\ state \in {"Stopped", "Started", "Shutdown"}
    /\ sourceState \in {"Stopped", "Started", "Shutdown"}
    /\ fActive \in BOOLEAN /\ fVideo \in BOOLEAN /\ flRate \in {0, 1}
    /\ delivering \in BOOLEAN
QualityOK == waiting \in BOOLEAN /\ dropMode \in {0, 1} /\ dropTime \in DropWindow
QueuesOK == samples \in Seq(Sample) /\ tokens \in Seq(Nat)
OutputOK ==
    /\ delivered \in Seq(Delivery)
    /\ dropped \in SUBSET Sample
    /\ skipped \in SUBSET Nat
    /\ discontinuity \in BOOLEAN
CountsOK ==
    /\ frames \in Nat /\ requests \in Nat /\ commands \in Nat /\ advice \in Nat
    /\ flushes \in Nat /\ errors \in Nat

TypeOK == ControlOK /\ QualityOK /\ QueuesOK /\ OutputOK /\ CountsOK

(* Nothing waits for nothing: when the lock is free, no sample is held     *)
(* while a request is waiting, whatever was dropped in between.            *)
NothingWaits == delivering \/ samples = <<>> \/ tokens = <<>>

(* A stream that is not started holds no request and no sample, so that    *)
(* none of before a stop is answered after the next start.                 *)
OnlyStartedHolds == state # "Started" => samples = <<>> /\ tokens = <<>>

(* So what waits, waits in a started stream and for the other side only.   *)
OnlyNeededWaits == TypeOK /\ OnlyStartedHolds /\ NothingWaits

(* Requests are answered in order with samples in the order of the server, *)
(* each at most once, however many samples are dropped.                    *)
AnsweredInOrder ==
    \A i, j \in DOMAIN delivered :
        i < j => /\ delivered[i].token < delivered[j].token
                 /\ delivered[i].sample.id < delivered[j].sample.id

(* No sample of before a flush (a stop or a change of rate) is delivered   *)
(* after it.                                                               *)
NothingStale ==
    \A i \in DOMAIN delivered : delivered[i].sample.flush = delivered[i].flush

(* The decoder can use every video frame it is given: it is a key frame,   *)
(* or the frame before it was given to the decoder too.  The exception are *)
(* frames that came while the stream was not selected: DoStart does not    *)
(* make a stream that is selected again wait for a key frame.              *)
Decodable ==
    fVideo => \A i \in DOMAIN delivered :
        LET this == delivered[i].sample
            last == IF i = 1 THEN 0 ELSE delivered[i - 1].sample.id
        IN  \/ this.key
            \/ i > 1 /\ this.id = last + 1
            \/ \E id \in skipped : last < id /\ id < this.id

(* A sample is marked as a discontinuity exactly when a sample was dropped *)
(* since the one delivered before it, unless a flush came in between.      *)
DiscontinuityMarked ==
    \A i \in DOMAIN delivered :
        LET last == IF i = 1 THEN 0 ELSE delivered[i - 1].sample.id
        IN  delivered[i].marked <=>
                \E d \in dropped : /\ last < d.id /\ d.id < delivered[i].sample.id
                                   /\ d.flush = delivered[i].flush

=============================================================================
