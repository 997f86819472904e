--------------------------- MODULE SourceProtocol ---------------------------
(***************************************************************************)
(* The media source as its server sees it (StspMediaSource.cpp): which     *)
(* packets it takes in which state, when it sends its requests, and what   *)
(* it tells its owner when something fails.  The bytes of the packets, the *)
(* queue of operations and the streams' playback are left to MediaSource,  *)
(* which implements this module; Session puts it opposite the media sink.  *)
(***************************************************************************)
EXTENDS Naturals

CONSTANT Streams        \* stream identifiers

VARIABLES
    sourceState,  \* _eSourceState
    opened,       \* _openedEvent
    connecting,   \* is the connection being made?
    describing,   \* is the request for the description being sent?
    starting,     \* number of requests for the start being sent
    listening,    \* is a read outstanding, or its handler running?
    known,        \* the streams it has created
    told,         \* has it told of an error?
    garbled       \* may it have lost its place in the stream of packets?

vars == <<sourceState, opened, connecting, describing, starting, listening, known,
          told, garbled>>

Init ==
    /\ sourceState = "Invalid" /\ opened = "pending"
    /\ connecting = FALSE /\ describing = FALSE /\ starting = 0
    /\ listening = FALSE
    /\ known = {}
    /\ told = FALSE /\ garbled = FALSE

(* HandleError: an error while opening ends the open.                      *)
HandleError ==
    /\ opened' = IF sourceState = "Opening" /\ opened = "pending"
                 THEN "failed" ELSE opened
    /\ told' = (told \/ sourceState \notin {"Opening", "Shutdown"})
-----------------------------------------------------------------------------
OpenAsync ==
    /\ sourceState = "Invalid"
    /\ sourceState' = "Opening" /\ connecting' = TRUE
    /\ UNCHANGED <<opened, describing, starting, listening, known, told, garbled>>

(* Connected, it requests the description.                                 *)
Connected ==
    /\ connecting
    /\ connecting' = FALSE /\ describing' = TRUE
    /\ UNCHANGED <<sourceState, opened, starting, listening, known, told, garbled>>

ConnectFailed ==
    /\ connecting
    /\ connecting' = FALSE /\ sourceState' = "Shutdown"
    /\ HandleError
    /\ UNCHANGED <<describing, starting, listening, known, garbled>>

DescribeSent ==
    /\ describing
    /\ describing' = FALSE /\ listening' = TRUE
    /\ UNCHANGED <<sourceState, opened, connecting, starting, known, told, garbled>>

DescribeFailed ==
    /\ describing
    /\ describing' = FALSE
    /\ HandleError
    /\ UNCHANGED <<sourceState, connecting, starting, listening, known, garbled>>
-----------------------------------------------------------------------------
(* ProcessPacket: what is taken when.                                      *)
Takes(op) ==
    \/ op = "ServerDescription" /\ sourceState = "Opening"
    \/ op \in {"ServerSample", "ServerFormatChange"} /\ sourceState = "Started"

TakeDescription(described) ==
    /\ listening /\ Takes("ServerDescription")
    /\ known' = described
    /\ sourceState' = "Stopped" /\ opened' = "ok"
    /\ UNCHANGED <<connecting, describing, starting, listening, told, garbled>>

TakeSample(s) ==
    /\ listening /\ Takes("ServerSample")
    /\ s \in known \/ garbled
    /\ UNCHANGED vars

(* The exception ends the receiving; some streams of a description may     *)
(* have been created before it.                                            *)
Refuse ==
    /\ listening
    /\ listening' = FALSE
    /\ known' \in IF sourceState = "Opening" THEN SUBSET Streams ELSE {known}
    /\ HandleError
    /\ UNCHANGED <<sourceState, connecting, describing, starting, garbled>>

(* Variant: a read that fails is noticed by nobody.                        *)
ReceiveFailedQuietly ==
    /\ listening
    /\ listening' = FALSE
    /\ UNCHANGED <<sourceState, opened, connecting, describing, starting, known,
                   told, garbled>>

ReceiveFailed ==
    /\ listening
    /\ listening' = FALSE
    /\ HandleError
    /\ UNCHANGED <<sourceState, connecting, describing, starting, known, garbled>>
-----------------------------------------------------------------------------
(* DoStart: the start is requested, or the request cannot be prepared.     *)
(* Either way the packet being received may be cut off.                    *)
Startable ==
    /\ opened = "ok" /\ sourceState # "Shutdown"
    /\ garbled' \in {garbled, TRUE}

(* Variant: the source is started when the request has been sent.          *)
StartWhenSent ==
    /\ Startable
    /\ starting' = starting + 1
    /\ UNCHANGED <<sourceState, opened, connecting, describing, listening, known, told>>

Start ==
    /\ Startable
    /\ starting' = starting + 1
    /\ sourceState' = "Started"
    /\ UNCHANGED <<opened, connecting, describing, listening, known, told>>

StartFails ==
    /\ Startable
    /\ sourceState' = "Starting"
    /\ UNCHANGED <<opened, connecting, describing, starting, listening, known, told>>

StartSent ==
    /\ starting > 0
    /\ starting' = starting - 1
    /\ UNCHANGED <<sourceState, opened, connecting, describing, listening, known,
                   told, garbled>>

StartNotSent ==
    /\ starting > 0
    /\ starting' = starting - 1
    /\ HandleError
    /\ UNCHANGED <<sourceState, connecting, describing, listening, known, garbled>>

Shutdown ==
    /\ opened = "ok" /\ sourceState # "Shutdown"
    /\ sourceState' = "Shutdown" /\ known' = {}
    /\ UNCHANGED <<opened, connecting, describing, starting, listening, told, garbled>>

Opening == OpenAsync \/ Connected \/ ConnectFailed \/ DescribeSent \/ DescribeFailed

Receiving ==
    \/ \E described \in SUBSET Streams : TakeDescription(described)
    \/ \E s \in Streams : TakeSample(s)
    \/ Refuse \/ ReceiveFailed

Starting == Start \/ StartFails \/ StartSent \/ StartNotSent

Next == Opening \/ Receiving \/ Starting \/ Shutdown

Spec == Init /\ [][Next]_vars
=============================================================================
