------------------------------- MODULE Session -------------------------------
(***************************************************************************)
(* A media sink and a media source, connected: the client that MediaSink   *)
(* leaves open is the source of SourceProtocol, and what the sink and its  *)
(* streams send is what the source receives.  Requests wait in unread,     *)
(* packets in wire, both in order; the connection may be lost at any time, *)
(* and a side that closes it ends the reads of the other, once what was    *)
(* sent before has been read.                                              *)
(*                                                                         *)
(* One source connects.  How a stream of the sink treats its samples is    *)
(* in StreamSink: here a stream that is connected and runs may send one.   *)
(***************************************************************************)
EXTENDS MediaSink

CONSTANTS MaxPlays,     \* bound on the starts of the source
          MaxWire       \* bound on the packets on their way

VARIABLES
    sourceState, opened, connecting, describing, starting, listening,
    known, told, garbled,
    wire,           \* packets [op, streams] on their way to the source
    plays,          \* counter
    addedLater,     \* history: streams added since the description was sent
    startFailed     \* history: did a start of the source fail?

Source == INSTANCE SourceProtocol

source == <<sourceState, opened, connecting, describing, starting, listening,
            known, told, garbled>>
session == <<wire, plays, addedLater, startFailed>>
sessionVars == <<vars, source, session>>

SessionInit ==
    /\ Init /\ Source!Init
    /\ wire = <<>> /\ plays = 0 /\ addedLater = {} /\ startFailed = FALSE
-----------------------------------------------------------------------------
(* The sink moves: its continuations, or its application and its pipeline. *)
Calls ==
    \/ \E id \in offered : \/ Decide(id, "accepted", "accept")
                           \/ Decide(id, "refused", "refuse")
    \/ \E s \in Streams : \/ \E withType \in BOOLEAN : AddStreamSink(s, withType)
                          \/ RemoveStreamSink(s)
                          \/ SetCurrentMediaType(s)
    \/ SetPresentationClock \/ OnClockStart \/ OnClockStop
    \/ Shutdown \/ DisposeProxy

(* A description it sends goes onto the wire.                              *)
Described == sendingDescription' > sendingDescription

Transmitted ==
    /\ wire' = IF Described
               THEN Append(wire, [op |-> "ServerDescription", streams |-> streams])
               ELSE wire
    /\ addedLater' = IF Described THEN {} ELSE addedLater \cup (streams' \ streams)
    /\ UNCHANGED <<source, plays, startFailed>>

SinkContinues == Continuations /\ Transmitted
SinkCalled == Calls /\ Transmitted

(* A stream sends a sample, the one kept from before the connection        *)
(* included, or a change of format.                                        *)
SendSample(s) ==
    /\ s \in streams \cap connected \cap running
    /\ ~Lost /\ Len(wire) < MaxWire
    /\ wire' = Append(wire, [op |-> "ServerSample", streams |-> {s}])
    /\ UNCHANGED <<vars, source, plays, addedLater, startFailed>>
-----------------------------------------------------------------------------
(* The source opens, and its connection is received.                       *)
OpenAsync == Source!OpenAsync /\ UNCHANGED <<vars, session>>

Arrive == connecting /\ ConnectionReceived /\ UNCHANGED <<source, session>>

(* Its request is on its way as soon as it is connected.                   *)
SendRequest(request) ==
    /\ unread' = Append(unread, request)
    /\ UNCHANGED <<sink, async, perStream, server, clientGone, clients, sends,
                   proxy, application>>

Connected ==
    /\ Source!Connected /\ clients = 1
    /\ SendRequest("description")
    /\ UNCHANGED session

ConnectFailed ==
    /\ Source!ConnectFailed
    /\ clientGone' = (clients = 1)
    /\ UNCHANGED <<sink, async, perStream, server, unread, clients, sends, proxy,
                   application, session>>

(* The connection is down when it is lost, or when the sink has closed its *)
(* socket.                                                                 *)
SinkClosed == clients = 1 /\ socket = 0 /\ accepting # "received"

Down == clientGone \/ SinkClosed

DescribeEnds ==
    /\ Source!DescribeSent \/ (Down /\ Source!DescribeFailed)
    /\ UNCHANGED <<vars, session>>

(* The connection is lost.                                                 *)
ConnectionLost ==
    /\ clients = 1 /\ ~clientGone
    /\ clientGone' = TRUE
    /\ UNCHANGED <<sink, async, perStream, server, unread, clients, sends, proxy,
                   application, source, session>>
-----------------------------------------------------------------------------
(* Of a description of no stream, and of a sample of a stream it does not  *)
(* know, the source makes nothing.                                         *)
Acceptable(packet) ==
    /\ Source!Takes(packet.op)
    /\ packet.op = "ServerDescription" => packet.streams # {}
    /\ packet.op = "ServerSample" => packet.streams \subseteq known

(* The packet in front is read.  Creating the streams of a description may *)
(* fail.                                                                   *)
ReceivePacket ==
    /\ wire # <<>> /\ wire' = Tail(wire)
    /\ \E packet \in {Head(wire)} :
        \/ /\ packet.op = "ServerDescription" /\ Acceptable(packet)
           /\ Source!TakeDescription(packet.streams)
        \/ /\ packet.op = "ServerSample"
           /\ \E s \in packet.streams : Source!TakeSample(s)
        \/ /\ garbled \/ ~Acceptable(packet) \/ packet.op = "ServerDescription"
           /\ Source!Refuse
    /\ UNCHANGED <<vars, plays, addedLater, startFailed>>

ReadFails ==
    /\ clientGone \/ (SinkClosed /\ wire = <<>>)
    /\ Source!ReceiveFailed
    /\ UNCHANGED <<vars, session>>

(* A start requests the samples; the header of a packet that is being      *)
(* received is lost then.                                                  *)
Play ==
    /\ plays < MaxPlays
    /\ plays' = plays + 1
    /\ \/ /\ Source!Start
          /\ SendRequest("start")
          /\ UNCHANGED startFailed
       \/ /\ Source!StartFails
          /\ startFailed' = TRUE
          /\ UNCHANGED vars
    /\ garbled' => garbled \/ wire # <<>>
    /\ UNCHANGED <<wire, addedLater>>

StartEnds ==
    /\ Source!StartSent \/ (Down /\ Source!StartNotSent)
    /\ UNCHANGED <<vars, session>>

(* The source is shut down and closes the connection.                      *)
Close ==
    /\ Source!Shutdown
    /\ clientGone' = TRUE
    /\ UNCHANGED <<sink, async, perStream, server, unread, clients, sends, proxy,
                   application, session>>

SourceEnds ==
    \/ Connected \/ ConnectFailed \/ DescribeEnds \/ ReceivePacket \/ ReadFails
    \/ StartEnds

SessionNext ==
    \/ SinkContinues \/ SinkCalled \/ \E s \in Streams : SendSample(s)
    \/ OpenAsync \/ Arrive \/ SourceEnds \/ ConnectionLost
    \/ Play \/ Close

SessionSpec ==
    /\ SessionInit /\ [][SessionNext]_sessionVars
    /\ WF_sessionVars(SinkContinues) /\ WF_sessionVars(SourceEnds)
-----------------------------------------------------------------------------
(* Sink and source speak the same protocol: whatever both applications do, *)
(* and however far behind the one is, the source is never sent a packet it *)
(* refuses.  The exceptions are its own, a start that failed; a sink that  *)
(* has no streams to describe; and a stream added to the sink after it has *)
(* been described, whose samples end the source (ProcessServerSample).     *)
Understood ==
    listening /\ wire # <<>> /\ sourceState # "Shutdown" /\ ~startFailed =>
            \/ Acceptable(Head(wire))
            \/ Source!Takes(Head(wire).op) /\ Head(wire).streams \subseteq addedLater

(* The open of the source ends when the application of the sink has        *)
(* decided about its connection, or the sink has closed it: the request is *)
(* answered, or the connection is closed.  Nothing else ends it, as        *)
(* neither side has a timeout.                                             *)
Decided == decided["accepted"] # {} \/ decided["refused"] # {} \/ Down

DecisionEndsOpen == Decided /\ sourceState = "Opening" ~> opened # "pending"
=============================================================================
