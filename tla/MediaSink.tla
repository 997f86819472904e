------------------------------ MODULE MediaSink ------------------------------
(***************************************************************************)
(* The connection of the media sink (StspMediaSink.cpp) to its client: the *)
(* network server that accepts it (NetworkServer.cpp, NetworkChannel.cpp), *)
(* the application that decides about it and disposes of the sink          *)
(* (StspMediaSinkProxy.cpp), the requests of the client and the streams    *)
(* that learn of the connection.                                           *)
(*                                                                         *)
(* A handler holds _critSec from its first to its last statement and is    *)
(* one action; tasks and continuations interleave.  AcceptAsync and        *)
(* ReceiveAsync fail through the task they return.  How a stream treats    *)
(* its samples is the subject of StreamSink; here a stream has a media     *)
(* type or not, is connected or not, and runs or not.  What the client     *)
(* sends are whole requests: a read may return several of them, but not    *)
(* part of one.                                                            *)
(***************************************************************************)
EXTENDS Naturals, Sequences, FiniteSets

CONSTANTS Streams,          \* stream identifiers
          MaxClients,       \* bound on the clients that try to connect
          MaxSends,         \* bound on the requests of the client
          MaxCalls          \* bound on the calls of application and pipeline

ASSUME BoundsAssumption ==
    MaxClients \in Nat /\ MaxSends \in Nat /\ MaxCalls \in Nat

VARIABLES
    isShutdown,         \* _IsShutdown
    isConnected,        \* _IsConnected
    waitingConnection,  \* _waitingConnectionId, 0 for none
    tasks,              \* tasks created for accepted and refused connections
    receive,            \* the outstanding calls of ReceiveAsync
    sendingDescription, \* sends of a description not completed
    hasClock,           \* has the sink a presentation clock?
    streams,            \* the streams of the sink
    typed,              \* streams with a current media type
    connected,          \* streams with _Connected set
    running,            \* streams in State_Started
    streamShutdown,     \* streams that have been shut down
    clockRuns,          \* has the clock started, and not stopped since?
    late,               \* streams added or typed since the clock, or client, started
    acceptOperation,    \* does the server hold a CAcceptOperation?
    accepting,          \* the task of AcceptAsync and what follows it
    socket,             \* _socket of the channel, 0 for null
    isClosed,           \* _isClosed of the channel
    unread,             \* requests of the client not yet read
    clientGone,         \* has the connected client gone?
    offered,            \* connections the application was told of
    decided,            \* connections accepted, connections refused
    proxySink,          \* does the proxy hold the sink?
    callbacks,          \* calls of OnShutdown to come and made
    clients, sends, calls \* counters

sink == <<isShutdown, isConnected, waitingConnection, hasClock>>
async == <<tasks, receive, sendingDescription>>
perStream == <<streams, typed, connected, running, streamShutdown, clockRuns, late>>
server == <<acceptOperation, accepting, socket, isClosed>>
client == <<unread, clientGone, clients, sends>>
proxy == <<proxySink, callbacks>>
application == <<offered, decided, calls>>
vars == <<sink, async, perStream, server, client, proxy, application>>

(* RuntimeClassInitialize has run: the streams have their types and the    *)
(* server listens.                                                         *)
Init ==
    /\ isShutdown = FALSE /\ isConnected = FALSE /\ waitingConnection = 0
    /\ hasClock = FALSE
    /\ tasks = [accept |-> 0, refuse |-> 0]
    /\ receive = 0
    /\ sendingDescription = 0
    /\ \E first \in SUBSET Streams : streams = first /\ typed = first
    /\ connected = {} /\ running = {} /\ streamShutdown = {}
    /\ clockRuns = FALSE /\ late = [clock |-> {}, client |-> {}]
    /\ acceptOperation = TRUE /\ accepting = "listening"
    /\ socket = 0 /\ isClosed = FALSE
    /\ unread = <<>> /\ clientGone = FALSE
    /\ offered = {} /\ decided = [accepted |-> {}, refused |-> {}]
    /\ proxySink = TRUE
    /\ callbacks = [due |-> 0, made |-> 0]
    /\ clients = 0 /\ sends = 0 /\ calls = 0
-----------------------------------------------------------------------------
(* What shutting down does, given the state of the task of AcceptAsync:    *)
(* the channel is closed, a listener ends with an error, and the proxy is  *)
(* to be told.                                                             *)
CloseAndReport(acceptTask) ==
    /\ isShutdown' = TRUE
    /\ socket' = 0 /\ isClosed' = TRUE /\ acceptOperation' = FALSE
    /\ accepting' = IF acceptTask = "listening" THEN "failed" ELSE acceptTask
    /\ callbacks' = [callbacks EXCEPT !.due = @ + 1]

ShutdownStreams ==
    /\ streamShutdown' = streamShutdown \cup streams
    /\ streams' = {}
    /\ typed' = typed \ streams

(* Variant: the streams are forgotten, not shut down.                      *)
ShutdownForgettingStreams(acceptTask) ==
    IF isShutdown
    THEN /\ accepting' = acceptTask
         /\ UNCHANGED <<isShutdown, streams, typed, streamShutdown,
                        acceptOperation, socket, isClosed, callbacks>>
    ELSE /\ CloseAndReport(acceptTask)
         /\ streams' = {}
         /\ UNCHANGED <<typed, streamShutdown>>

(* CMediaSink::Shutdown, also called by HandleError.                       *)
ShutdownSink(acceptTask) ==
    IF isShutdown
    THEN /\ accepting' = acceptTask
         /\ UNCHANGED <<isShutdown, streams, typed, streamShutdown,
                        acceptOperation, socket, isClosed, callbacks>>
    ELSE CloseAndReport(acceptTask) /\ ShutdownStreams

(* What becomes of the streams otherwise is left to the pipeline.          *)
Kept == <<connected, running, clockRuns, late>>

HandleError == ShutdownSink(accepting) /\ UNCHANGED Kept

NoError == UNCHANGED <<isShutdown, perStream, server, callbacks>>
-----------------------------------------------------------------------------
(* A client connects to the listening socket (OnConnectionReceived): the   *)
(* listener is given up, the operation object is kept.                     *)
ConnectionReceived ==
    /\ clients < MaxClients
    /\ accepting = "listening"
    /\ clients' = clients + 1
    /\ accepting' = "received"
    /\ UNCHANGED <<sink, async, perStream, acceptOperation, socket, isClosed,
                   unread, clientGone, sends, proxy, application>>

(* The continuation in AcceptAsync sets the socket, without a lock and     *)
(* without a look at _isClosed.                                            *)
SetSocket ==
    /\ accepting = "received"
    /\ accepting' = "accepted"
    /\ socket' = clients
    /\ UNCHANGED <<sink, async, perStream, acceptOperation, isClosed, client,
                   proxy, application>>

(* The continuation in StartListening: the application is told of the      *)
(* connection (FireIncomingConnection).                                    *)
OfferConnection ==
    /\ accepting = "accepted"
    /\ ~isShutdown
    /\ accepting' = "idle"
    /\ waitingConnection' = clients
    /\ offered' = offered \cup {clients}
    /\ UNCHANGED <<isShutdown, isConnected, hasClock, async, perStream, acceptOperation,
                   socket, isClosed, client, proxy, decided, calls>>

(* The same continuation when listening failed or the sink is shut down.   *)
ListeningFails ==
    /\ accepting = "failed" \/ (accepting = "accepted" /\ isShutdown)
    /\ ShutdownSink("idle")
    /\ UNCHANGED <<isConnected, waitingConnection, hasClock, async, Kept, client,
                   proxySink, application>>
-----------------------------------------------------------------------------
ApplicationCalls == calls < MaxCalls /\ calls' = calls + 1

(* Variant: the connection is still waiting once it has been decided.      *)
DecideKeepingConnection(id, which, task) ==
    /\ ApplicationCalls
    /\ id \in offered /\ ~isShutdown
    /\ waitingConnection # 0 /\ id = waitingConnection
    /\ tasks' = [tasks EXCEPT ![task] = @ + 1]
    /\ decided' = [decided EXCEPT ![which] = @ \cup {id}]
    /\ UNCHANGED <<sink, perStream, server, client, proxy, receive,
                   sendingDescription, offered>>

(* TriggerAcceptConnection and TriggerRefuseConnection: the application    *)
(* may decide late, twice or both ways; only its first decision about the  *)
(* waiting connection creates a task.                                      *)
Decide(id, which, task) ==
    /\ ApplicationCalls
    /\ id \in offered /\ ~isShutdown
    /\ waitingConnection # 0 /\ id = waitingConnection
    /\ waitingConnection' = 0
    /\ tasks' = [tasks EXCEPT ![task] = @ + 1]
    /\ decided' = [decided EXCEPT ![which] = @ \cup {id}]
    /\ UNCHANGED <<isShutdown, isConnected, hasClock, perStream, server, client, proxy,
                   receive, sendingDescription, offered>>

TaskBegins(task) ==
    /\ tasks[task] > 0
    /\ tasks' = [tasks EXCEPT ![task] = @ - 1]

(* StartReceiving: ReceiveAsync is called.                                 *)
StartReceiving == receive' = receive + 1

(* The task of TriggerAcceptConnection.                                    *)
AcceptTask ==
    /\ TaskBegins("accept")
    /\ IF isShutdown THEN UNCHANGED receive ELSE StartReceiving
    /\ NoError
    /\ UNCHANGED <<isConnected, waitingConnection, hasClock, sendingDescription, client,
                   proxySink, application>>

(* Variant: the task does not look whether the sink is shut down.          *)
RefuseTaskUnchecked ==
    /\ TaskBegins("refuse")
    /\ socket' = 0
    /\ unread' = <<>>
    /\ accepting' = IF acceptOperation THEN "failed" ELSE "listening"
    /\ acceptOperation' = (~acceptOperation)
    /\ UNCHANGED <<isClosed, sink, perStream, receive, sendingDescription,
                   clientGone, clients, sends, proxy, application>>

(* The task of TriggerRefuseConnection: Disconnect, then StartListening.   *)
(* AcceptAsync refuses, since the operation object of the first connection *)
(* is still there, but drops that object.                                  *)
RefuseTask ==
    /\ TaskBegins("refuse")
    /\ IF isShutdown
       THEN UNCHANGED <<server, unread>>
       ELSE /\ socket' = 0
            /\ unread' = <<>>
            /\ accepting' = IF acceptOperation THEN "failed" ELSE "listening"
            /\ acceptOperation' = (~acceptOperation)
            /\ UNCHANGED isClosed
    /\ UNCHANGED <<sink, perStream, receive, sendingDescription, clientGone,
                   clients, sends, proxy, application>>
-----------------------------------------------------------------------------
(* The client, as CMediaSource behaves: it asks for the description once   *)
(* and, when it has it, for the start, each time it is started.            *)
ClientSends(request) ==
    /\ socket # 0 /\ ~clientGone
    /\ sends < MaxSends
    /\ request = IF sends = 0 THEN "description" ELSE "start"
    /\ sends = 1 => sendingDescription = 0 /\ unread = <<>>
    /\ sends' = sends + 1
    /\ unread' = Append(unread, request)
    /\ UNCHANGED <<sink, async, perStream, server, clientGone, clients, proxy,
                   application>>

ClientGoes ==
    /\ socket # 0 /\ ~clientGone
    /\ clientGone' = TRUE
    /\ UNCHANGED <<sink, async, perStream, server, unread, clients, sends, proxy,
                   application>>

(* Variant: a description that cannot be made is not an error.             *)
SendDescriptionQuietly ==
    IF streams \subseteq typed
    THEN /\ sendingDescription' = sendingDescription + 1
         /\ receive' = (receive - 1) + 1
         /\ NoError
    ELSE /\ NoError
         /\ receive' = receive - 1
         /\ UNCHANGED sendingDescription

(* The read returns a request for the description: the types of all        *)
(* streams are needed.  Once it is on its way the sink receives again.     *)
SendDescription ==
    IF streams \subseteq typed
    THEN /\ sendingDescription' = sendingDescription + 1
         /\ receive' = (receive - 1) + 1
         /\ NoError
    ELSE /\ HandleError
         /\ receive' = receive - 1
         /\ UNCHANGED sendingDescription

(* Variant: the first stream that refuses is the last that is told.        *)
VisitUntilRefused == IF streams \subseteq typed THEN streams ELSE {}

(* ForEach calls every stream, but one without a type refuses; the result  *)
(* of the others is lost.                                                  *)
Visit == streams \cap typed

(* A request for the start: every stream is told that it is connected.     *)
(* The sink does not receive again.                                        *)
StartStreaming ==
    /\ connected' = connected \cup Visit
    /\ late' = [late EXCEPT !.client = {}]
    /\ receive' = receive - 1
    /\ UNCHANGED <<isShutdown, streams, typed, running, streamShutdown, clockRuns,
                   server, callbacks, sendingDescription>>

(* The clock cannot tell the time: an error, but _IsConnected is set.      *)
StartWithoutTime ==
    /\ hasClock
    /\ HandleError
    /\ receive' = receive - 1
    /\ UNCHANGED sendingDescription

(* A read ends with n requests: anything but one is a format error.        *)
ReceiveCompletes(n) ==
    /\ receive > 0 /\ socket # 0
    /\ n \in 1 .. Len(unread)
    /\ unread' = SubSeq(unread, n + 1, Len(unread))
    /\ isConnected' = (isConnected \/ (~isShutdown /\ n = 1 /\ Head(unread) = "start"))
    /\ IF isShutdown \/ n # 1
       THEN HandleError /\ receive' = receive - 1 /\ UNCHANGED sendingDescription
       ELSE IF Head(unread) = "description" THEN SendDescription
       ELSE StartStreaming \/ StartWithoutTime
    /\ UNCHANGED <<waitingConnection, hasClock, tasks, clientGone, clients, sends, proxySink,
                   application>>

Lost == socket = 0 \/ clientGone

(* Variant: an error of a read is ignored.                                 *)
ReceiveFailsSilently ==
    /\ receive > 0 /\ Lost
    /\ receive' = receive - 1
    /\ NoError
    /\ UNCHANGED <<isConnected, waitingConnection, hasClock, tasks, sendingDescription,
                   client, proxySink, application>>

ReceiveFails ==
    /\ receive > 0 /\ Lost
    /\ receive' = receive - 1
    /\ HandleError
    /\ UNCHANGED <<isConnected, waitingConnection, hasClock, tasks, sendingDescription,
                   client, proxySink, application>>

DescriptionSent ==
    /\ sendingDescription > 0
    /\ sendingDescription' = sendingDescription - 1
    /\ IF Lost THEN HandleError ELSE NoError
    /\ UNCHANGED <<isConnected, waitingConnection, hasClock, tasks, receive, client,
                   proxySink, application>>
-----------------------------------------------------------------------------
PipelineCalls ==
    /\ ~isShutdown
    /\ ApplicationCalls
    /\ UNCHANGED <<sink, async, server, client, proxy, offered, decided>>

SetPresentationClock ==
    /\ ~isShutdown
    /\ ApplicationCalls
    /\ hasClock' \in BOOLEAN
    /\ UNCHANGED <<isShutdown, isConnected, waitingConnection, async, perStream,
                   server, client, proxy, offered, decided>>

(* AddStreamSink, with or without a media type.                            *)
AddStreamSink(s, withType) ==
    /\ PipelineCalls
    /\ s \in Streams \ streams
    /\ streams' = streams \cup {s}
    /\ typed' = IF withType THEN typed \cup {s} ELSE typed
    /\ connected' = connected \ {s}
    /\ running' = running \ {s}
    /\ streamShutdown' = streamShutdown \ {s}
    /\ late' = [who \in DOMAIN late |-> late[who] \cup {s}]
    /\ UNCHANGED clockRuns

RemoveStreamSink(s) ==
    /\ PipelineCalls
    /\ s \in streams
    /\ streams' = streams \ {s}
    /\ typed' = typed \ {s}
    /\ streamShutdown' = streamShutdown \cup {s}
    /\ UNCHANGED Kept

SetCurrentMediaType(s) ==
    /\ PipelineCalls
    /\ s \in streams
    /\ typed' = typed \cup {s}
    /\ late' = IF s \in typed THEN late ELSE [who \in DOMAIN late |-> late[who] \cup {s}]
    /\ UNCHANGED <<streams, connected, running, streamShutdown, clockRuns>>

(* The clock the sink is registered with starts or starts again ...        *)
OnClockStart ==
    /\ PipelineCalls
    /\ hasClock
    /\ running' = running \cup Visit
    /\ clockRuns' = TRUE
    /\ late' = [late EXCEPT !.clock = {}]
    /\ UNCHANGED <<streams, typed, connected, streamShutdown>>

(* ... or stops.                                                           *)
OnClockStop ==
    /\ PipelineCalls
    /\ hasClock
    /\ running' = running \ Visit
    /\ clockRuns' = FALSE
    /\ UNCHANGED <<streams, typed, connected, streamShutdown, late>>

(* The pipeline shuts the sink down.                                       *)
Shutdown ==
    /\ HandleError
    /\ UNCHANGED <<isConnected, waitingConnection, hasClock, async, client, proxySink,
                   application>>

(* ~StspMediaSinkProxy: the application disposes of the proxy.             *)
DisposeProxy ==
    /\ proxySink
    /\ proxySink' = FALSE
    /\ HandleError
    /\ UNCHANGED <<isConnected, waitingConnection, hasClock, async, client, application>>

(* StspMediaSinkProxy::OnShutdown.                                         *)
OnShutdown ==
    /\ callbacks.due > 0
    /\ callbacks' = [due |-> callbacks.due - 1, made |-> callbacks.made + 1]
    /\ proxySink' = FALSE
    /\ UNCHANGED <<sink, async, perStream, server, client, application>>

Continuations ==
    \/ SetSocket \/ OfferConnection \/ ListeningFails
    \/ AcceptTask \/ RefuseTask
    \/ \E n \in 1 .. Len(unread) : ReceiveCompletes(n)
    \/ ReceiveFails \/ DescriptionSent
    \/ OnShutdown

Next ==
    \/ Continuations
    \/ ConnectionReceived
    \/ \E id \in offered : \/ Decide(id, "accepted", "accept")
                           \/ Decide(id, "refused", "refuse")
    \/ \E request \in {"description", "start"} : ClientSends(request)
    \/ ClientGoes
    \/ \E s \in Streams : \/ \E withType \in BOOLEAN : AddStreamSink(s, withType)
                          \/ RemoveStreamSink(s)
                          \/ SetCurrentMediaType(s)
    \/ SetPresentationClock \/ OnClockStart \/ OnClockStop
    \/ Shutdown
    \/ DisposeProxy

Spec == Init /\ [][Next]_vars

(* Tasks and continuations run, reads and sends end.                       *)
FairSpec == Spec /\ WF_vars(Continuations)
-----------------------------------------------------------------------------
FlagsOK ==
    /\ isShutdown \in BOOLEAN /\ isConnected \in BOOLEAN /\ hasClock \in BOOLEAN
    /\ clockRuns \in BOOLEAN /\ acceptOperation \in BOOLEAN /\ isClosed \in BOOLEAN
    /\ clientGone \in BOOLEAN /\ proxySink \in BOOLEAN

StreamsOK ==
    /\ streams \subseteq Streams /\ typed \subseteq Streams
    /\ connected \subseteq Streams /\ running \subseteq Streams
    /\ streamShutdown \subseteq Streams
    /\ late \in [{"clock", "client"} -> SUBSET Streams]

ConnectionOK ==
    /\ waitingConnection \in 0 .. MaxClients /\ socket \in 0 .. MaxClients
    /\ clients \in 0 .. MaxClients /\ offered \subseteq 1 .. MaxClients
    /\ decided \in [{"accepted", "refused"} -> SUBSET (1 .. MaxClients)]
    /\ accepting \in {"listening", "received", "accepted", "failed", "idle"}
    /\ unread \in Seq({"description", "start"})

TasksOK ==
    /\ tasks \in [{"accept", "refuse"} -> Nat]
    /\ receive \in Nat /\ sendingDescription \in Nat
    /\ sends \in Nat /\ calls \in Nat
    /\ callbacks \in [{"due", "made"} -> Nat]

(* The fields hold what their declarations allow.                          *)
TypeOK == FlagsOK /\ StreamsOK /\ ConnectionOK /\ TasksOK

(* A connection is accepted or refused, not both, and there is never more  *)
(* than one read into the one receive buffer, however often and from how   *)
(* many threads the application decides; and only a client that it         *)
(* accepted is ever streamed to.                                           *)
DecisionsStand ==
    /\ decided["accepted"] \cap decided["refused"] = {}
    /\ receive + tasks["accept"] <= 1
    /\ isConnected \/ connected # {} => decided["accepted"] # {}

(* A stream without a media type holds no other stream back: all that had  *)
(* their type when the client started are connected, all that had it when  *)
(* the clock started are running, and none runs when it has stopped.  One  *)
(* that comes or gets its type later is told of neither.                   *)
NoStreamHeldBack ==
    ~isShutdown => /\ isConnected => Visit \ late.client \subseteq connected
                   /\ clockRuns => Visit \ late.clock \subseteq running
                   /\ ~clockRuns => running \cap streams = {}

(* Sink, streams and proxy end together: no stream that was told of a      *)
(* client or started is left to itself, none is left in the list, and the  *)
(* proxy is told exactly once, though errors of several continuations and  *)
(* calls may come together.                                                *)
EndTogether ==
    /\ TypeOK
    /\ isShutdown => /\ streams = {} /\ typed = {}
                     /\ connected \cup running \subseteq streamShutdown
    /\ callbacks.due + callbacks.made = IF isShutdown THEN 1 ELSE 0

(* A sink that is shut down does not listen again, also when a refusal was *)
(* under way; and a socket is left open only when a connection came in     *)
(* just then, which the application is never told of.                      *)
ClosedForGood ==
    isShutdown => /\ accepting # "listening" /\ ~acceptOperation
                  /\ socket \notin offered

(* While a read is outstanding, the sink learns that its client has gone.  *)
LossIsNoticed == clientGone /\ receive > 0 ~> isShutdown \/ isConnected

(* TriggerRefuseConnection: "Connection refused disconnect current         *)
(* client", followed by StartListening: a refusal is not the end of it.    *)
ListensAfterRefusal ==
    decided["refused"] # {} /\ tasks["refuse"] = 0 => isShutdown \/ accepting = "listening"
=============================================================================
