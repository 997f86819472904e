----------------------------- MODULE MediaSource -----------------------------
(***************************************************************************)
(* The media source of the receiving side (CMediaSource) over the packet   *)
(* parser: opened by the scheme handler, started, stopped, given a rate    *)
(* and shut down by its pipeline, fed by the server.                       *)
(*                                                                         *)
(* Every handler holds the source's lock.  Only the receive handler is     *)
(* several steps, the turns of the parser; no other action is possible     *)
(* between them.  The operations wait in a queue and are performed in      *)
(* order by work items (modules OpQueue and FifoDispatch).  What a stream  *)
(* does with its samples is in module MediaStream; here a stream is        *)
(* whether it is selected, whether it runs, and its rate.                  *)
(***************************************************************************)
EXTENDS PacketParser

CONSTANTS Streams,    \* the streams the server describes, in order: 1..n
          MaxCalls    \* bound on the operations the pipeline asks for

ASSUME StreamsAssumption ==
    /\ Streams \subseteq Nat
    /\ \E n \in Streams : Streams = 1..n
    /\ MaxCalls \in Nat

(* A server answers the request for the description with it, and the one   *)
(* for the start with samples and format changes.                          *)
ASSUME ServerAssumption ==
    \A plan \in Plans : \A k \in 1..Len(plan) :
        plan[k].op = "ServerDescription" <=> k = 1

VARIABLES
    sourceState,  \* _eSourceState
    opened,       \* _openedEvent: "pending", or how the open ended
    completions,  \* how often CompleteOpen has run
    connecting,   \* is the connection being made?
    describing,   \* is the request for the description being sent?
    starting,     \* number of requests for the start being sent
    opQueue,      \* operations that wait, front first
    answered,     \* history: the events of operations, and whether they failed
    streams,      \* _streams: those that have been created
    active,       \* _fActive of the streams
    running,      \* streams whose state is started
    flRate,       \* _flRate of the source
    asked,        \* history: the rate last asked for
    swallowed,    \* history: was a rate taken for the present one too early?
    errors,       \* number of MEError events
    calls

open == <<opened, completions, connecting, describing>>
operations == <<opQueue, answered, asked, swallowed, calls>>
playback == <<streams, active, running, flRate>>
vars == <<parser, sourceState, open, starting, operations, playback, errors>>

Operation ==
    [type : {"Start"}, streams : SUBSET Streams]
      \cup [type : {"Stop"}]
      \cup [type : {"SetRate"}, rate : {0, 1}]

Init ==
    /\ ParserInit
    /\ sourceState = "Invalid"
    /\ opened = "pending" /\ completions = 0
    /\ connecting = FALSE /\ describing = FALSE
    /\ starting = 0
    /\ opQueue = <<>> /\ answered = <<>> /\ calls = 0
    /\ streams = {} /\ active = {} /\ running = {}
    /\ flRate = 1 /\ asked = 1 /\ swallowed = FALSE
    /\ errors = 0

(* The lock is free when no receive handler is running.                    *)
Unlocked == receiveBuffer = <<>>

-----------------------------------------------------------------------------
CompleteOpen(result) ==
    /\ opened' = IF opened = "pending" THEN result ELSE opened
    /\ completions' = completions + 1

(* An error while opening ends the open, any other is an MEError event.    *)
HandleError ==
    /\ IF sourceState = "Opening" THEN CompleteOpen("failed")
       ELSE UNCHANGED <<opened, completions>>
    /\ errors' = IF sourceState \in {"Opening", "Shutdown"} THEN errors ELSE errors + 1

(* BeginCreateObject: the one call of OpenAsync on a new source.           *)
OpenAsync ==
    /\ sourceState = "Invalid"
    /\ sourceState' = "Opening"
    /\ connecting' = TRUE
    /\ UNCHANGED <<parser, opened, completions, describing, starting,
                   operations, playback, errors>>

(* The continuation of ConnectAsync: it asks for the description.          *)
Connected ==
    /\ connecting
    /\ connecting' = FALSE
    /\ describing' = TRUE
    /\ ResetHeader
    /\ Request(1)
    /\ UNCHANGED <<sourceState, opened, completions, starting,
                   operations, playback, errors>>

(* Variant: the source is shut down before the error is handled.           *)
ConnectFailedShutFirst ==
    /\ connecting
    /\ connecting' = FALSE
    /\ sourceState' = "Shutdown"
    /\ UNCHANGED <<parser, opened, completions, describing, starting,
                   operations, playback, errors>>

(* ... or no connection was made, or the request could not be prepared:    *)
(* the source is shut down once the open has failed.                       *)
ConnectFailed ==
    /\ connecting
    /\ connecting' = FALSE
    /\ HandleError
    /\ sourceState' = "Shutdown"
    /\ UNCHANGED <<parser, describing, starting, operations, playback>>

(* The request has been sent: the source begins to receive.                *)
DescribeSent ==
    /\ describing
    /\ describing' = FALSE
    /\ receiving' = TRUE
    /\ UNCHANGED <<sent, answers, wire, receiveBuffer, packet, header, processed, cutOff,
                   sourceState, opened, completions, connecting, starting,
                   operations, playback, errors>>

DescribeFailed ==
    /\ describing
    /\ describing' = FALSE
    /\ HandleError
    /\ UNCHANGED <<parser, sourceState, connecting, starting, operations,
                   playback>>

-----------------------------------------------------------------------------
(* Bytes the server has sent: after each request what it answers with.     *)
Receive(n) ==
    /\ Unlocked
    /\ sourceState # "Shutdown"
    /\ BytesArrive(n)
    /\ UNCHANGED <<sourceState, open, starting, operations, playback, errors>>

(* Variant: an error while reading goes unnoticed.                         *)
ReceiveFailedQuietly ==
    /\ Unlocked
    /\ receiving
    /\ receiving' = FALSE
    /\ UNCHANGED <<errors, opened, completions>>
    /\ UNCHANGED <<sent, answers, wire, receiveBuffer, packet, header, processed, cutOff,
                   sourceState, connecting, describing, starting,
                   operations, playback>>

(* The connection is lost, or was closed by Shutdown; no read follows.     *)
ReceiveFailed ==
    /\ Unlocked
    /\ receiving
    /\ receiving' = FALSE
    /\ HandleError
    /\ UNCHANGED <<sent, answers, wire, receiveBuffer, packet, header, processed, cutOff,
                   sourceState, connecting, describing, starting,
                   operations, playback>>

Await(h, buffers) ==
    /\ Turn(h, buffers)
    /\ AwaitMore(h, buffers)
    /\ UNCHANGED <<sourceState, open, starting, operations, playback, errors>>

(* A packet that ProcessPacket accepts: a description while opening, which *)
(* ends the open; samples and format changes while started, which go to    *)
(* the streams (a format change goes nowhere).                             *)
ProcessServerDescription(h, buffers) ==
    /\ Turn(h, buffers)
    /\ Complete(h, buffers) /\ h.op = "ServerDescription" /\ sourceState = "Opening"
    /\ streams' = Streams
    /\ sourceState' = "Stopped"
    /\ CompleteOpen("ok")
    /\ PacketDone(h, buffers)
    /\ UNCHANGED <<connecting, describing, starting, operations, active, running,
                   flRate, errors>>

ProcessServerSample(h, buffers) ==
    /\ Turn(h, buffers)
    /\ Complete(h, buffers)
    /\ h.op \in {"ServerSample", "ServerFormatChange"} /\ sourceState = "Started"
    /\ PacketDone(h, buffers)
    /\ UNCHANGED <<sourceState, open, starting, operations, playback, errors>>

Expected(h) ==
    \/ h.op = "ServerDescription" /\ sourceState = "Opening"
    \/ h.op \in {"ServerSample", "ServerFormatChange"} /\ sourceState = "Started"

(* Anything else is refused, and so is a description whose streams cannot  *)
(* all be created; either way the exception ends the receiving.            *)
RefusePacket(h, buffers) ==
    /\ Turn(h, buffers)
    /\ \/ RejectPacket(h, buffers) /\ UNCHANGED streams
       \/ /\ Complete(h, buffers) /\ PacketRefused(h, buffers)
          /\ \/ ~Expected(h) /\ UNCHANGED streams
             \/ /\ h.op = "ServerDescription" /\ sourceState = "Opening"
                /\ \E n \in Streams : streams' = 1..n - 1
    /\ HandleError
    /\ UNCHANGED <<sourceState, connecting, describing, starting, operations, active,
                   running, flRate>>

-----------------------------------------------------------------------------
(* The pipeline has the source once the open has succeeded.  An operation  *)
(* is validated when it is asked for and performed later.                  *)
Called ==
    /\ Unlocked
    /\ opened = "ok" /\ sourceState # "Shutdown"
    /\ calls < MaxCalls
    /\ calls' = calls + 1
    /\ UNCHANGED <<parser, sourceState, open, starting, answered, playback,
                   errors>>

QueueOperation(op) == opQueue' = Append(opQueue, op)

Start(selected) ==
    /\ Called
    /\ sourceState \in {"Stopped", "Started"}
    /\ QueueOperation([type |-> "Start", streams |-> selected])
    /\ UNCHANGED <<asked, swallowed>>

Stop ==
    /\ Called
    /\ QueueOperation([type |-> "Stop"])
    /\ UNCHANGED <<asked, swallowed>>

RateWaits == \E i \in 1..Len(opQueue) : opQueue[i].type = "SetRate"

(* Setting the rate the source has now is a success that does nothing,     *)
(* even when another rate waits to be set.                                 *)
SetRate(rate) ==
    /\ Called
    /\ asked' = rate
    /\ \/ /\ rate # flRate
          /\ QueueOperation([type |-> "SetRate", rate |-> rate])
          /\ UNCHANGED swallowed
       \/ /\ rate = flRate
          /\ swallowed' = (swallowed \/ RateWaits)
          /\ UNCHANGED opQueue

(* A work item takes the operation in front.                               *)
Dispatch(op, failed) ==
    /\ Unlocked
    /\ sourceState # "Shutdown"
    /\ opQueue # <<>> /\ op = Head(opQueue)
    /\ opQueue' = Tail(opQueue)
    /\ answered' = Append(answered, [type |-> op.type, failed |-> failed])

(* DoStart selects the streams, starts the selected ones and sends the     *)
(* request for the start to the server, which may answer at once.          *)
SelectStreams(selected) ==
    /\ active' = selected
    /\ running' = running \cup selected
    /\ UNCHANGED <<streams, flRate>>

DoStart(op) ==
    /\ Dispatch(op, FALSE) /\ op.type = "Start"
    /\ SelectStreams(op.streams)
    /\ ResetHeader
    /\ starting' = starting + 1
    /\ Request(Len(sent))
    /\ sourceState' = "Started"
    /\ UNCHANGED <<open, asked, swallowed, calls,
                   errors>>

(* The request could not be prepared: the source is left starting.         *)
DoStartFails(op) ==
    /\ Dispatch(op, TRUE) /\ op.type = "Start"
    /\ SelectStreams(op.streams)
    /\ ResetHeader
    /\ sourceState' = "Starting"
    /\ UNCHANGED <<answers, wire>>
    /\ UNCHANGED <<open, starting, asked, swallowed, calls,
                   errors>>

(* Variant: only the first stream is stopped.                              *)
DoStopFirst(op) ==
    /\ Dispatch(op, FALSE) /\ op.type = "Stop"
    /\ running' = running \ {s \in active : \A i \in active : s <= i}
    /\ UNCHANGED <<parser, sourceState, open, starting, asked, swallowed, calls,
                   streams, active, flRate, errors>>

(* DoStop stops the selected streams, those that do not run included: each *)
(* reports that as an error of its own and the operation succeeds anyway.  *)
(* A stream that runs and is no longer selected runs on, and the source    *)
(* stays started.                                                          *)
DoStop(op) ==
    /\ Dispatch(op, FALSE) /\ op.type = "Stop"
    /\ running' = running \ active
    /\ UNCHANGED <<parser, sourceState, open, starting, asked, swallowed,
                   calls, streams, active, flRate, errors>>

(* DoSetRate: the rate of the source, and of its selected streams.         *)
DoSetRate(op) ==
    /\ Dispatch(op, FALSE) /\ op.type = "SetRate"
    /\ flRate' = op.rate
    /\ UNCHANGED <<parser, sourceState, open, starting, asked,
                   swallowed, calls, streams, active, running, errors>>

(* The request for the start has been sent, or has not.                    *)
StartSent ==
    /\ Unlocked
    /\ starting > 0
    /\ starting' = starting - 1
    /\ UNCHANGED <<parser, sourceState, open, operations, playback, errors>>

StartNotSent ==
    /\ Unlocked
    /\ starting > 0
    /\ starting' = starting - 1
    /\ HandleError
    /\ UNCHANGED <<parser, sourceState, connecting, describing, operations,
                   playback>>

(* Shutdown by the owner of the source: the channel is closed and the      *)
(* streams are dropped.                                                    *)
Shutdown ==
    /\ Unlocked
    /\ opened = "ok" /\ sourceState # "Shutdown"
    /\ sourceState' = "Shutdown"
    /\ streams' = {} /\ active' = {} /\ running' = {}
    /\ UNCHANGED <<parser, open, starting, operations, flRate, errors>>

-----------------------------------------------------------------------------
Opening == OpenAsync \/ Connected \/ ConnectFailed \/ DescribeSent \/ DescribeFailed

Receiving ==
    \/ \E n \in 1..MaxBuffer : Receive(n)
    \/ ReceiveFailed
    \/ /\ ~Unlocked
       /\ \E h \in Headers, buffers \in {Buffers} :
             \/ Await(h, buffers) \/ ProcessServerDescription(h, buffers)
             \/ ProcessServerSample(h, buffers) \/ RefusePacket(h, buffers)

Performing ==
    \/ \E op \in Operation : DoStart(op) \/ DoStartFails(op) \/ DoStop(op) \/ DoSetRate(op)
    \/ StartSent \/ StartNotSent

Calling ==
    \/ \E selected \in SUBSET Streams : Start(selected)
    \/ Stop
    \/ \E rate \in {0, 1} : SetRate(rate)
    \/ Shutdown

Next == Opening \/ Receiving \/ Performing \/ Calling

Spec == Init /\ [][Next]_vars

(* Connects, sends and reads end one way or another, what the server has   *)
(* sent arrives, and the handlers run.  Nothing is assumed of the pipeline.*)
Fairness ==
    /\ WF_vars(Connected \/ ConnectFailed \/ DescribeSent \/ DescribeFailed)
    /\ WF_vars(Receiving)

FairSpec == Spec /\ Fairness
-----------------------------------------------------------------------------
TypeOK ==
    /\ sourceState \in {"Invalid", "Opening", "Starting", "Started", "Stopped", "Shutdown"}
    /\ opened \in {"pending", "ok", "failed"}
    /\ header \in Header
    /\ receiving \in BOOLEAN /\ connecting \in BOOLEAN /\ describing \in BOOLEAN
    /\ starting \in 0..MaxCalls /\ answers \in 0..Len(sent)
    /\ streams \subseteq Streams /\ active \subseteq Streams /\ running \subseteq Streams
    /\ errors \in Nat /\ calls \in 0..MaxCalls

(* The framing of the parser (FramedAsSent and NothingHeldBack) with the   *)
(* source around it: ParseCurrentBuffer, SendStartRequest.                 *)
PacketsIntact == TypeOK /\ FramedAsSent /\ NothingHeldBack

(* The scheme handler's open ends once (the assertion of CompleteOpen), it *)
(* has not succeeded without streams and not failed with a source that is  *)
(* ready.                                                                  *)
OpenEndsOnce ==
    /\ completions = (IF opened = "pending" THEN 0 ELSE 1)
    /\ opened = "ok" => sourceState \notin {"Invalid", "Opening"}
    /\ opened = "failed" => sourceState \in {"Opening", "Shutdown"}

(* The source is never stuck.  While the open is pending something is      *)
(* under way that will end it; a source that is open has a read            *)
(* outstanding or a handler running, unless it has told of an error; and   *)
(* there is never more than one of them (Receive, HandleError).            *)
NeverSilentlyDeaf ==
    /\ opened = "pending" /\ sourceState # "Invalid"
          => connecting \/ describing \/ receiving \/ receiveBuffer # <<>>
    /\ sourceState \in {"Stopped", "Starting", "Started"}
          => receiving \/ receiveBuffer # <<>> \/ errors > 0
    /\ ~(receiving /\ receiveBuffer # <<>>)
    /\ ~(receiving /\ describing)

OpensAndHears == OpenEndsOnce /\ NeverSilentlyDeaf

(* No packet of a server that keeps to the protocol is refused: samples    *)
(* come only when the source is started, although the server may answer    *)
(* before the request is known to be sent and the streams may be stopped   *)
(* meanwhile.  What can go wrong is a header reset inside a packet and a   *)
(* start that failed after an earlier one had succeeded (ProcessPacket).   *)
StartFailed == \E i \in 1..Len(answered) : answered[i].failed /\ answered[i].type = "Start"

ServerIsUnderstood ==
    ~cutOff /\ ~StartFailed /\ receiveBuffer # <<>> /\ sourceState # "Shutdown" =>
        \A h \in Headers :
            ~Malformed(h, Buffers) /\ (Complete(h, Buffers) => Expected(h))

(* The selected streams are as the last start or stop that was answered    *)
(* left them: all of them run, also after a start that failed, or none     *)
(* does, whatever was selected in between (SelectStreams, DoStop).         *)
StreamsAsAnswered ==
    \A i \in 1..Len(answered) :
        /\ answered[i].type # "SetRate"
        /\ \A j \in i + 1..Len(answered) : answered[j].type = "SetRate"
        => IF answered[i].type = "Start" THEN active \subseteq running
                                         ELSE active \cap running = {}

(* When no rate waits to be set, the source has the rate last asked for,   *)
(* unless SetRate compared a rate with one about to change.                *)
LastRateWins == ~RateWaits /\ ~swallowed /\ sourceState # "Shutdown" => flRate = asked

(* What the operations promise holds in whatever order they are called,    *)
(* carried out and interrupted by packets and failing sends.               *)
OperationsStand == ServerIsUnderstood /\ StreamsAsAnswered /\ LastRateWins

(* Once it has been asked for them, all packets of the server are          *)
(* processed, unless the source told of an error or was shut down.         *)
EverythingIsProcessed ==
    answers = Len(sent) ~> \/ Len(processed) = Len(sent)
                             \/ errors > 0 \/ sourceState = "Shutdown" \/ cutOff

(* To its server, a source that cuts packets from bytes, queues its        *)
(* operations and plays its streams is the source of SourceProtocol: it    *)
(* goes through the same states, and fails in the same way.                *)
Protocol == INSTANCE SourceProtocol
                WITH listening <- receiving \/ receiveBuffer # <<>>,
                     known <- streams, told <- errors > 0, garbled <- cutOff

ImplementsProtocol == Protocol!Spec
=============================================================================
