-------------------------- MODULE MediaSink_proofs --------------------------
(***************************************************************************)
(* Proofs about the connection of the media sink to its client, for every  *)
(* set of streams and every number of clients, requests and calls: first   *)
(* about MediaSink alone, whose invariant is IInv; then about Session, the *)
(* sink opposite a source, whose invariant SessionInv says what each       *)
(* message on its way was sent for; and about the locks around the         *)
(* shutdown of the sink.                                                   *)
(***************************************************************************)
EXTENDS Session, SinkLocks, SequenceTheorems, TLAPS

(* A stream that was told of the client, or runs, is in the list or has    *)
(* been shut down; one in the list that runs has a media type, so that     *)
(* OnClockStop reaches it.                                                 *)
StreamsAccounted ==
    /\ typed \subseteq streams /\ running \cap streams \subseteq typed
    /\ connected \cup running \subseteq streams \cup streamShutdown
    /\ isShutdown => streams = {}

ReportedOnce == callbacks["due"] + callbacks["made"] = IF isShutdown THEN 1 ELSE 0

(* A task or a read there is only after the decision it belongs to.        *)
TasksFollowDecisions ==
    /\ decided["accepted"] = {} =>
           tasks["accept"] = 0 /\ receive = 0 /\ ~isConnected /\ connected = {}
    /\ decided["refused"] = {} => tasks["refuse"] = 0
    /\ receive + tasks["accept"] <= 1 /\ tasks["refuse"] <= 1

Undecided == decided["accepted"] = {} /\ decided["refused"] = {}

(* The sink lives to see one connection only: it listens again after a     *)
(* refusal alone, the operation object of the first connection makes that  *)
(* fail, and then the sink is shut down.                                   *)
OneConnection ==
    /\ accepting \in {"listening", "received", "accepted"} => offered = {}
    /\ accepting \in {"received", "accepted"} => clients > 0
    /\ offered = {} => Undecided /\ waitingConnection = 0
    /\ waitingConnection # 0 => Undecided
    /\ decided["accepted"] = {} \/ decided["refused"] = {}
    /\ ~isShutdown /\ ~acceptOperation =>
           decided["refused"] # {} /\ tasks["refuse"] = 0

IInv ==
    /\ TypeOK
    /\ StreamsAccounted /\ NoStreamHeldBack
    /\ ReportedOnce /\ ClosedForGood
    /\ TasksFollowDecisions /\ OneConnection

(* What CMediaSink::Shutdown leaves, whoever calls it and however often.   *)
LEMMA ShutdownSinkEffect ==
    ASSUME IInv, NEW t \in {accepting, "idle"}, ShutdownSink(t)
    PROVE  /\ isShutdown' /\ ~acceptOperation' /\ accepting' # "listening"
           /\ streams' = {} /\ typed' = {}
           /\ streams \cup streamShutdown \subseteq streamShutdown'
           /\ streamShutdown' \subseteq streamShutdown \cup streams
           /\ socket' = 0 \/ (isShutdown /\ socket' = socket)
           /\ accepting' \in {accepting, "failed", "idle"}
           /\ isShutdown' \in BOOLEAN /\ acceptOperation' \in BOOLEAN
           /\ isClosed' \in BOOLEAN
           /\ callbacks' \in [{"due", "made"} -> Nat]
           /\ callbacks'["due"] + callbacks'["made"] = 1
<1> USE DEF IInv, TypeOK, TasksOK, FlagsOK
<1>1. CASE isShutdown
  BY <1>1 DEF ShutdownSink, StreamsAccounted, ReportedOnce, ClosedForGood
<1>2. CASE ~isShutdown
  <2>1. callbacks' = [callbacks EXCEPT !["due"] = callbacks["due"] + 1]
    BY <1>2 DEF ShutdownSink, CloseAndReport
  <2>2. callbacks["due"] + callbacks["made"] = 0
        /\ callbacks["due"] \in Nat /\ callbacks["made"] \in Nat
    BY <1>2 DEF ReportedOnce
  <2>3. /\ callbacks' \in [{"due", "made"} -> Nat]
        /\ callbacks'["due"] = callbacks["due"] + 1
        /\ callbacks'["made"] = callbacks["made"]
    BY <2>1, <2>2
  <2>4. callbacks'["due"] + callbacks'["made"] = 1
    BY <2>2, <2>3
  <2>5. streams' = {} /\ typed' = {} /\ streamShutdown' = streamShutdown \cup streams
    BY <1>2 DEF ShutdownSink, ShutdownStreams, StreamsAccounted
  <2>6. /\ isShutdown' /\ ~acceptOperation' /\ socket' = 0 /\ isClosed'
        /\ accepting' = IF t = "listening" THEN "failed" ELSE t
    BY <1>2 DEF ShutdownSink, CloseAndReport
  <2>7. /\ isClosed' \in BOOLEAN /\ isShutdown' \in BOOLEAN
        /\ acceptOperation' \in BOOLEAN
    BY <1>2 DEF ShutdownSink, CloseAndReport
  <2>8. QED  BY <2>3, <2>4, <2>5, <2>6, <2>7
<1>3. QED  BY <1>1, <1>2

(* So an action that shuts the sink down keeps the streams accounted for,  *)
(* and the proxy told.                                                     *)
LEMMA ShutdownKeepsStreams ==
    ASSUME IInv, NEW t \in {accepting, "idle"}, ShutdownSink(t), UNCHANGED Kept
    PROVE  /\ StreamsOK' /\ StreamsAccounted' /\ NoStreamHeldBack' /\ ReportedOnce'
<1> USE ShutdownSinkEffect DEF Kept
<1>1. StreamsOK'
  BY DEF IInv, TypeOK, StreamsOK
<1>2. StreamsAccounted'
  BY DEF IInv, StreamsAccounted
<1>3. NoStreamHeldBack' /\ ReportedOnce'
  BY DEF NoStreamHeldBack, ReportedOnce
<1>4. QED  BY <1>1, <1>2, <1>3

(* What an action does that shuts the sink down, apart from that.          *)
ShutdownStep(t) ==
    /\ ShutdownSink(t)
    /\ UNCHANGED Kept
    /\ UNCHANGED <<hasClock, waitingConnection, tasks, clientGone, offered, decided,
                   clients, sends, calls>>
    /\ proxySink' \in BOOLEAN /\ isConnected' \in BOOLEAN
    /\ isConnected' => isConnected \/ receive > 0
    /\ unread' \in Seq({"description", "start"})
    /\ sendingDescription' \in Nat /\ receive' \in Nat /\ receive' <= receive

LEMMA ShutdownKeepsIInv ==
    ASSUME IInv, NEW t \in {accepting, "idle"}, ShutdownStep(t)
    PROVE  IInv'
<1>0. ShutdownSink(t) /\ UNCHANGED Kept
  BY DEF ShutdownStep
<1>1. StreamsOK' /\ StreamsAccounted' /\ NoStreamHeldBack' /\ ReportedOnce'
  BY <1>0, ShutdownKeepsStreams
<1>2. FlagsOK'
  BY <1>0, ShutdownSinkEffect DEF ShutdownStep, IInv, TypeOK, FlagsOK, Kept
<1>3. TasksOK'
  BY <1>0, ShutdownSinkEffect DEF ShutdownStep, IInv, TypeOK, TasksOK
<1>4. ConnectionOK'
  <2>1. socket' \in 0 .. MaxClients
    BY <1>0, ShutdownSinkEffect, BoundsAssumption DEF IInv, TypeOK, ConnectionOK
  <2>2. accepting' \in {"listening", "received", "accepted", "failed", "idle"}
    BY <1>0, ShutdownSinkEffect DEF IInv, TypeOK, ConnectionOK
  <2>3. QED  BY <2>1, <2>2 DEF ShutdownStep, IInv, TypeOK, ConnectionOK
<1>5. ClosedForGood'
  <2>1. 0 \notin offered  BY DEF IInv, TypeOK, ConnectionOK
  <2>2. offered' = offered  BY DEF ShutdownStep
  <2>3. socket' \notin offered
    BY <1>0, <2>1, ShutdownSinkEffect DEF IInv, ClosedForGood
  <2>4. QED  BY <1>0, <2>2, <2>3, ShutdownSinkEffect DEF ClosedForGood
<1>6. TasksFollowDecisions'
  <2>1. /\ receive \in Nat /\ receive' \in Nat /\ tasks["accept"] \in Nat
        /\ tasks["refuse"] \in Nat /\ receive' <= receive
    BY DEF ShutdownStep, IInv, TypeOK, TasksOK
  <2>2. UNCHANGED <<tasks, decided, connected>>
    BY DEF ShutdownStep, Kept
  <2>3. isConnected' => isConnected \/ receive > 0
    BY DEF ShutdownStep
  <2>4. QED  BY <2>1, <2>2, <2>3 DEF IInv, TasksFollowDecisions
<1>7. OneConnection'
  <2>1. UNCHANGED <<waitingConnection, tasks, offered, decided, clients>>
    BY DEF ShutdownStep
  <2>2. isShutdown' /\ accepting' \in {accepting, "failed", "idle"}
    BY <1>0, ShutdownSinkEffect
  <2>3. QED  BY <2>1, <2>2 DEF IInv, OneConnection, Undecided
<1>8. QED  BY <1>1, <1>2, <1>3, <1>4, <1>5, <1>6, <1>7 DEF IInv, TypeOK

(* IInv is inductive: one step per action, under it the types, the streams *)
(* and the connection.                                                     *)
LEMMA StepKeepsIInv ==
    ASSUME IInv, [Next]_vars
    PROVE  IInv'
<1> USE BoundsAssumption
    DEF vars, sink, async, perStream, server, client, proxy, application, Kept, IInv
<1>1. CASE ConnectionReceived
  <2>1. TypeOK'
    BY <1>1 DEF ConnectionReceived, TypeOK, FlagsOK, StreamsOK, ConnectionOK, TasksOK
  <2>2. StreamsAccounted' /\ NoStreamHeldBack'
    BY <1>1 DEF ConnectionReceived, TypeOK, FlagsOK, StreamsOK, ConnectionOK,
           TasksOK, StreamsAccounted, NoStreamHeldBack, Visit
  <2>3. ReportedOnce' /\ ClosedForGood'
    BY <1>1 DEF ConnectionReceived, TypeOK, FlagsOK, StreamsOK, ConnectionOK,
           TasksOK, ReportedOnce, ClosedForGood, OneConnection
  <2>4. TasksFollowDecisions' /\ OneConnection'
    BY <1>1 DEF ConnectionReceived, TypeOK, FlagsOK, StreamsOK, ConnectionOK,
           TasksOK, TasksFollowDecisions, OneConnection, Undecided
  <2>5. QED  BY <2>1, <2>2, <2>3, <2>4
<1>2. CASE SetSocket
  <2>1. TypeOK'
    BY <1>2 DEF SetSocket, TypeOK, FlagsOK, StreamsOK, ConnectionOK, TasksOK
  <2>2. StreamsAccounted' /\ NoStreamHeldBack'
    BY <1>2 DEF SetSocket, TypeOK, FlagsOK, StreamsOK, ConnectionOK, TasksOK,
           StreamsAccounted, NoStreamHeldBack, Visit
  <2>3. ReportedOnce' /\ ClosedForGood'
    BY <1>2 DEF SetSocket, TypeOK, FlagsOK, StreamsOK, ConnectionOK, TasksOK,
           ReportedOnce, ClosedForGood, OneConnection
  <2>4. TasksFollowDecisions' /\ OneConnection'
    BY <1>2 DEF SetSocket, TypeOK, FlagsOK, StreamsOK, ConnectionOK, TasksOK,
           TasksFollowDecisions, OneConnection, Undecided
  <2>5. QED  BY <2>1, <2>2, <2>3, <2>4
<1>3. CASE OfferConnection
  <2>1. TypeOK'
    <3>1. FlagsOK'  BY <1>3 DEF OfferConnection, TypeOK, FlagsOK, StreamsOK,
           ConnectionOK, TasksOK
    <3>2. StreamsOK'  BY <1>3 DEF OfferConnection, TypeOK, FlagsOK, StreamsOK,
           ConnectionOK, TasksOK
    <3>3. ConnectionOK'
      BY <1>3 DEF OfferConnection, OneConnection, TypeOK, FlagsOK, StreamsOK,
             ConnectionOK, TasksOK
    <3>4. TasksOK'  BY <1>3 DEF OfferConnection, TypeOK, FlagsOK, StreamsOK,
           ConnectionOK, TasksOK
    <3>5. QED  BY <3>1, <3>2, <3>3, <3>4 DEF TypeOK
  <2>2. StreamsAccounted' /\ NoStreamHeldBack'
    BY <1>3 DEF OfferConnection, TypeOK, FlagsOK, StreamsOK, ConnectionOK, TasksOK,
           StreamsAccounted, NoStreamHeldBack, Visit
  <2>3. ReportedOnce' /\ ClosedForGood'
    BY <1>3 DEF OfferConnection, TypeOK, FlagsOK, StreamsOK, ConnectionOK, TasksOK,
           ReportedOnce, ClosedForGood, OneConnection
  <2>4. TasksFollowDecisions' /\ OneConnection'
    BY <1>3 DEF OfferConnection, TypeOK, FlagsOK, StreamsOK, ConnectionOK, TasksOK,
           TasksFollowDecisions, OneConnection, Undecided
  <2>5. QED  BY <2>1, <2>2, <2>3, <2>4
<1>4. CASE ListeningFails
  <2>1. ShutdownStep("idle")
    BY <1>4 DEF ListeningFails, HandleError, ShutdownStep, TypeOK, FlagsOK,
           StreamsOK, ConnectionOK, TasksOK
  <2>2. QED  BY <2>1, ShutdownKeepsIInv
<1>5. ASSUME NEW id \in offered, Decide(id, "accepted", "accept")
      PROVE  IInv'
  <2>1. TypeOK'
    BY <1>5 DEF Decide, ApplicationCalls, TypeOK, FlagsOK, StreamsOK, ConnectionOK,
           TasksOK
  <2>2. StreamsAccounted' /\ NoStreamHeldBack'
    BY <1>5 DEF Decide, ApplicationCalls, TypeOK, FlagsOK, StreamsOK, ConnectionOK,
           TasksOK, StreamsAccounted, NoStreamHeldBack, Visit
  <2>3. ReportedOnce' /\ ClosedForGood'
    BY <1>5 DEF Decide, ApplicationCalls, TypeOK, FlagsOK, StreamsOK, ConnectionOK,
           TasksOK, ReportedOnce, ClosedForGood, OneConnection
  <2>4. TasksFollowDecisions' /\ OneConnection'
    <3>1. Undecided /\ waitingConnection' = 0 /\ offered' = offered /\ offered # {}
      BY <1>5 DEF Decide, OneConnection
    <3>2. /\ tasks["accept"] = 0 /\ tasks["refuse"] = 0 /\ receive = 0
          /\ ~isConnected /\ connected = {}
      BY <3>1 DEF TasksFollowDecisions, Undecided
    <3>3. /\ decided'["accepted"] = {id} /\ decided'["refused"] = {}
          /\ tasks'["accept"] = 1 /\ tasks'["refuse"] = 0
      BY <1>5, <3>1, <3>2 DEF Decide, Undecided, TypeOK, FlagsOK, StreamsOK,
             ConnectionOK, TasksOK
    <3>4. UNCHANGED <<receive, isConnected, connected, isShutdown, acceptOperation,
           accepting>>
      BY <1>5 DEF Decide
    <3>5. ~isShutdown => acceptOperation
      BY <3>1 DEF OneConnection, Undecided
    <3>6. QED  BY <3>1, <3>2, <3>3, <3>4, <3>5 DEF TasksFollowDecisions, OneConnection
  <2>5. QED  BY <2>1, <2>2, <2>3, <2>4
<1>6. ASSUME NEW id \in offered, Decide(id, "refused", "refuse")
      PROVE  IInv'
  <2>1. TypeOK'
    BY <1>6 DEF Decide, ApplicationCalls, TypeOK, FlagsOK, StreamsOK, ConnectionOK,
           TasksOK
  <2>2. StreamsAccounted' /\ NoStreamHeldBack'
    BY <1>6 DEF Decide, ApplicationCalls, TypeOK, FlagsOK, StreamsOK, ConnectionOK,
           TasksOK, StreamsAccounted, NoStreamHeldBack, Visit
  <2>3. ReportedOnce' /\ ClosedForGood'
    BY <1>6 DEF Decide, ApplicationCalls, TypeOK, FlagsOK, StreamsOK, ConnectionOK,
           TasksOK, ReportedOnce, ClosedForGood, OneConnection
  <2>4. TasksFollowDecisions' /\ OneConnection'
    <3>1. Undecided /\ waitingConnection' = 0 /\ offered' = offered /\ offered # {}
      BY <1>6 DEF Decide, OneConnection
    <3>2. /\ tasks["accept"] = 0 /\ tasks["refuse"] = 0 /\ receive = 0
          /\ ~isConnected /\ connected = {}
      BY <3>1 DEF TasksFollowDecisions, Undecided
    <3>3. /\ decided'["refused"] = {id} /\ decided'["accepted"] = {}
          /\ tasks'["refuse"] = 1 /\ tasks'["accept"] = 0
      BY <1>6, <3>1, <3>2 DEF Decide, Undecided, TypeOK, FlagsOK, StreamsOK,
             ConnectionOK, TasksOK
    <3>4. UNCHANGED <<receive, isConnected, connected, isShutdown, acceptOperation,
           accepting>>
      BY <1>6 DEF Decide
    <3>5. ~isShutdown => acceptOperation
      BY <3>1 DEF OneConnection, Undecided
    <3>6. QED  BY <3>1, <3>2, <3>3, <3>4, <3>5 DEF TasksFollowDecisions, OneConnection
  <2>5. QED  BY <2>1, <2>2, <2>3, <2>4
<1>7. CASE AcceptTask
  <2>1. TypeOK'
    BY <1>7, SMTT(60) DEF AcceptTask, TaskBegins, StartReceiving, NoError, TypeOK, FlagsOK,
           StreamsOK, ConnectionOK, TasksOK
  <2>2. StreamsAccounted' /\ NoStreamHeldBack'
    BY <1>7 DEF AcceptTask, TaskBegins, StartReceiving, NoError, TypeOK, FlagsOK,
           StreamsOK, ConnectionOK, TasksOK, StreamsAccounted, NoStreamHeldBack,
           Visit
  <2>3. ReportedOnce' /\ ClosedForGood'
    BY <1>7 DEF AcceptTask, TaskBegins, StartReceiving, NoError, TypeOK, FlagsOK,
           StreamsOK, ConnectionOK, TasksOK, ReportedOnce, ClosedForGood,
           OneConnection
  <2>4. TasksFollowDecisions' /\ OneConnection'
    BY <1>7 DEF AcceptTask, TaskBegins, StartReceiving, NoError, TypeOK, FlagsOK,
           StreamsOK, ConnectionOK, TasksOK, TasksFollowDecisions, OneConnection,
           Undecided
  <2>5. QED  BY <2>1, <2>2, <2>3, <2>4
<1>8. CASE RefuseTask
  <2>0. /\ tasks' \in [{"accept", "refuse"} -> Nat] /\ tasks["refuse"] = 1
        /\ tasks'["accept"] = tasks["accept"] /\ tasks'["refuse"] = 0
    BY <1>8 DEF RefuseTask, TaskBegins, TasksFollowDecisions, TypeOK, FlagsOK,
           StreamsOK, ConnectionOK, TasksOK
  <2>1. TypeOK'
    <3>1. unread' \in Seq({"description", "start"})
      <4>1. <<>> \in Seq({"description", "start"})  OBVIOUS
      <4>2. QED  BY <1>8, <4>1 DEF RefuseTask, TypeOK, FlagsOK, StreamsOK,
             ConnectionOK, TasksOK
    <3>2. ConnectionOK'
      BY <1>8, <3>1 DEF RefuseTask, TypeOK, FlagsOK, StreamsOK, ConnectionOK, TasksOK
    <3>3. FlagsOK' /\ StreamsOK'
      BY <1>8 DEF RefuseTask, TypeOK, FlagsOK, StreamsOK, ConnectionOK, TasksOK
    <3>4. TasksOK'
      BY <1>8, <2>0 DEF RefuseTask, TypeOK, FlagsOK, StreamsOK, ConnectionOK, TasksOK
    <3>5. QED  BY <3>2, <3>3, <3>4 DEF TypeOK
  <2>2. StreamsAccounted' /\ NoStreamHeldBack'
    BY <1>8 DEF RefuseTask, TaskBegins, TypeOK, FlagsOK, StreamsOK, ConnectionOK,
           TasksOK, StreamsAccounted, NoStreamHeldBack, Visit
  <2>3. ReportedOnce' /\ ClosedForGood'
    BY <1>8 DEF RefuseTask, TaskBegins, TypeOK, FlagsOK, StreamsOK, ConnectionOK,
           TasksOK, ReportedOnce, ClosedForGood, OneConnection
  <2>4. TasksFollowDecisions' /\ OneConnection'
    <3>1. decided["refused"] # {} /\ decided["accepted"] = {} /\ waitingConnection = 0
      BY <2>0 DEF TasksFollowDecisions, OneConnection, Undecided
    <3>2. UNCHANGED <<decided, waitingConnection, offered, receive, isConnected,
           connected,
                      isShutdown>>
      BY <1>8 DEF RefuseTask
    <3>3. TasksFollowDecisions'
      BY <2>0, <3>1, <3>2 DEF TasksFollowDecisions
    <3>4. CASE isShutdown
      <4>1. accepting' = accepting /\ clients' = clients /\ isShutdown'
        BY <1>8, <3>4 DEF RefuseTask
      <4>2. UNCHANGED <<decided, waitingConnection, offered>>
        BY <3>2
      <4>3. QED  BY <3>3, <4>1, <4>2 DEF OneConnection, Undecided
    <3>5. CASE ~isShutdown
      <4>1. acceptOperation /\ accepting' = "failed"
        BY <1>8, <2>0, <3>5 DEF RefuseTask, OneConnection
      <4>2. QED  BY <2>0, <3>1, <3>2, <3>3, <4>1 DEF OneConnection, Undecided
    <3>6. QED  BY <3>3, <3>4, <3>5
  <2>5. QED  BY <2>1, <2>2, <2>3, <2>4
<1>9. ASSUME NEW request \in {"description", "start"}, ClientSends(request)
      PROVE  IInv'
  <2>1. TypeOK'
    BY <1>9 DEF ClientSends, TypeOK, FlagsOK, StreamsOK, ConnectionOK, TasksOK
  <2>2. StreamsAccounted' /\ NoStreamHeldBack'
    BY <1>9 DEF ClientSends, TypeOK, FlagsOK, StreamsOK, ConnectionOK, TasksOK,
           StreamsAccounted, NoStreamHeldBack, Visit
  <2>3. ReportedOnce' /\ ClosedForGood'
    BY <1>9 DEF ClientSends, TypeOK, FlagsOK, StreamsOK, ConnectionOK, TasksOK,
           ReportedOnce, ClosedForGood, OneConnection
  <2>4. TasksFollowDecisions' /\ OneConnection'
    BY <1>9 DEF ClientSends, TypeOK, FlagsOK, StreamsOK, ConnectionOK, TasksOK,
           TasksFollowDecisions, OneConnection, Undecided
  <2>5. QED  BY <2>1, <2>2, <2>3, <2>4
<1>10. CASE ClientGoes
  <2>1. TypeOK'
    BY <1>10 DEF ClientGoes, TypeOK, FlagsOK, StreamsOK, ConnectionOK, TasksOK
  <2>2. StreamsAccounted' /\ NoStreamHeldBack'
    BY <1>10 DEF ClientGoes, TypeOK, FlagsOK, StreamsOK, ConnectionOK, TasksOK,
           StreamsAccounted, NoStreamHeldBack, Visit
  <2>3. ReportedOnce' /\ ClosedForGood'
    BY <1>10 DEF ClientGoes, TypeOK, FlagsOK, StreamsOK, ConnectionOK, TasksOK,
           ReportedOnce, ClosedForGood, OneConnection
  <2>4. TasksFollowDecisions' /\ OneConnection'
    BY <1>10 DEF ClientGoes, TypeOK, FlagsOK, StreamsOK, ConnectionOK, TasksOK,
           TasksFollowDecisions, OneConnection, Undecided
  <2>5. QED  BY <2>1, <2>2, <2>3, <2>4
<1>11. ASSUME NEW n \in 1 .. Len(unread), ReceiveCompletes(n)
      PROVE  IInv'
  <2>0. /\ receive \in Nat /\ receive > 0 /\ receive - 1 \in Nat
        /\ decided["accepted"] # {} /\ unread' \in Seq({"description", "start"})
        /\ isConnected' \in BOOLEAN
    <3>1. unread' \in Seq({"description", "start"})
      <4>1. unread \in Seq({"description", "start"}) /\ n \in 1 .. Len(unread)
        BY <1>11 DEF ReceiveCompletes, TypeOK, FlagsOK, StreamsOK, ConnectionOK, TasksOK
      <4>2. \A i \in (n + 1) .. Len(unread) : unread[i] \in {"description", "start"}
        BY <4>1
      <4>3. QED  BY <1>11, <4>1, <4>2, SubSeqProperties DEF ReceiveCompletes
    <3>2. QED  BY <1>11, <3>1 DEF ReceiveCompletes, TasksFollowDecisions, TypeOK,
           FlagsOK, StreamsOK, ConnectionOK, TasksOK
  <2>1. CASE HandleError /\ receive' = receive - 1 /\ UNCHANGED sendingDescription
    <3>1. ShutdownStep(accepting)
      BY <1>11, <2>0, <2>1 DEF ReceiveCompletes, HandleError, ShutdownStep,
             TypeOK, FlagsOK, StreamsOK, ConnectionOK, TasksOK
    <3>2. QED  BY <3>1, ShutdownKeepsIInv
  <2>2. CASE /\ ~isShutdown /\ n = 1 /\ Head(unread) = "description"
             /\ streams \subseteq typed /\ SendDescription
    <3>1. isConnected' = isConnected /\ receive' = receive /\ sendingDescription'
           \in Nat
      BY <1>11, <2>0, <2>2 DEF ReceiveCompletes, SendDescription, TypeOK, FlagsOK,
             StreamsOK, ConnectionOK, TasksOK
    <3>2. UNCHANGED <<isShutdown, waitingConnection, hasClock, tasks, clientGone,
           clients,
                      sends, proxy, server, perStream, application>>
      BY <1>11, <2>2 DEF ReceiveCompletes, SendDescription, NoError
    <3>3. TypeOK'
      BY <2>0, <3>1, <3>2, SMTT(60) DEF TypeOK, FlagsOK, StreamsOK, ConnectionOK, TasksOK
    <3>4. StreamsAccounted' /\ NoStreamHeldBack' /\ ReportedOnce' /\ ClosedForGood'
      BY <3>1, <3>2 DEF StreamsAccounted, NoStreamHeldBack, Visit, ReportedOnce,
             ClosedForGood
    <3>5. TasksFollowDecisions' /\ OneConnection'
      BY <3>1, <3>2 DEF TasksFollowDecisions, OneConnection, Undecided
    <3>6. QED  BY <3>3, <3>4, <3>5
  <2>3. CASE StartStreaming
    <3>1. UNCHANGED <<isShutdown, waitingConnection, hasClock, tasks, clientGone,
           clients,
                      sends, proxy, server, streams, typed, running, streamShutdown,
                      clockRuns, sendingDescription, application>>
      BY <1>11, <2>3 DEF ReceiveCompletes, StartStreaming
    <3>2. connected' = connected \cup Visit /\ receive' = receive - 1
          /\ late' = [late EXCEPT !["client"] = {}]
      BY <2>3 DEF StartStreaming
    <3>3. TypeOK'
      <4>1. late' \in [{"clock", "client"} -> SUBSET Streams]
        BY <3>2 DEF TypeOK, FlagsOK, StreamsOK, ConnectionOK, TasksOK
      <4>2. FlagsOK' /\ TasksOK'
        BY <2>0, <3>1, <3>2 DEF TypeOK, FlagsOK, StreamsOK, ConnectionOK, TasksOK
      <4>3. StreamsOK' /\ ConnectionOK'
        BY <2>0, <3>1, <3>2, <4>1 DEF TypeOK, FlagsOK, StreamsOK, ConnectionOK,
               TasksOK, Visit
      <4>4. QED  BY <4>2, <4>3 DEF TypeOK
    <3>4. StreamsAccounted' /\ NoStreamHeldBack'
      BY <3>1, <3>2 DEF TypeOK, FlagsOK, StreamsOK, ConnectionOK, TasksOK,
             StreamsAccounted, NoStreamHeldBack, Visit
    <3>5. ReportedOnce' /\ ClosedForGood' /\ OneConnection'
      BY <3>1 DEF ReportedOnce, ClosedForGood, OneConnection, Undecided
    <3>6. TasksFollowDecisions'
      BY <2>0, <3>1, <3>2 DEF TasksFollowDecisions, TypeOK, FlagsOK, StreamsOK,
             ConnectionOK, TasksOK
    <3>7. QED  BY <3>3, <3>4, <3>5, <3>6
  <2>4. QED
    BY <1>11, <2>1, <2>2, <2>3 DEF ReceiveCompletes, SendDescription, StartWithoutTime
<1>12. CASE ReceiveFails
  <2>1. ShutdownStep(accepting)
    BY <1>12 DEF ReceiveFails, HandleError, ShutdownStep, TypeOK, FlagsOK,
           StreamsOK, ConnectionOK, TasksOK
  <2>2. QED  BY <2>1, ShutdownKeepsIInv
<1>13. CASE DescriptionSent
  <2>1. CASE Lost
    <3>1. ShutdownStep(accepting)
      BY <1>13, <2>1 DEF DescriptionSent, HandleError, ShutdownStep, TypeOK,
             FlagsOK, StreamsOK, ConnectionOK, TasksOK
    <3>2. QED  BY <3>1, ShutdownKeepsIInv
  <2>2. CASE ~Lost
    <3>1. sendingDescription' \in Nat
      BY <1>13 DEF DescriptionSent, TypeOK, FlagsOK, StreamsOK, ConnectionOK, TasksOK
    <3>2. UNCHANGED <<isConnected, isShutdown, waitingConnection, hasClock, tasks,
           receive,
                      client, proxy, server, perStream, application>>
      BY <1>13, <2>2 DEF DescriptionSent, NoError
    <3>3. TypeOK'
      BY <3>1, <3>2 DEF TypeOK, FlagsOK, StreamsOK, ConnectionOK, TasksOK
    <3>4. StreamsAccounted' /\ NoStreamHeldBack' /\ ReportedOnce' /\ ClosedForGood'
      BY <3>2 DEF StreamsAccounted, NoStreamHeldBack, Visit, ReportedOnce, ClosedForGood
    <3>5. TasksFollowDecisions' /\ OneConnection'
      BY <3>2 DEF TasksFollowDecisions, OneConnection, Undecided
    <3>6. QED  BY <3>3, <3>4, <3>5
  <2>3. QED  BY <2>1, <2>2
<1>14. ASSUME NEW s \in Streams, NEW withType \in BOOLEAN, AddStreamSink(s, withType)
      PROVE  IInv'
  <2>1. TypeOK'
    BY <1>14 DEF AddStreamSink, PipelineCalls, ApplicationCalls, TypeOK, FlagsOK,
           StreamsOK, ConnectionOK, TasksOK
  <2>2. StreamsAccounted' /\ NoStreamHeldBack'
    BY <1>14 DEF AddStreamSink, PipelineCalls, ApplicationCalls, TypeOK, FlagsOK,
           StreamsOK, ConnectionOK, TasksOK, StreamsAccounted, NoStreamHeldBack,
           Visit
  <2>3. ReportedOnce' /\ ClosedForGood'
    BY <1>14 DEF AddStreamSink, PipelineCalls, ApplicationCalls, TypeOK, FlagsOK,
           StreamsOK, ConnectionOK, TasksOK, ReportedOnce, ClosedForGood,
           OneConnection
  <2>4. TasksFollowDecisions' /\ OneConnection'
    BY <1>14 DEF AddStreamSink, PipelineCalls, ApplicationCalls, TypeOK, FlagsOK,
           StreamsOK, ConnectionOK, TasksOK, TasksFollowDecisions, OneConnection,
           Undecided
  <2>5. QED  BY <2>1, <2>2, <2>3, <2>4
<1>15. ASSUME NEW s \in Streams, RemoveStreamSink(s)
      PROVE  IInv'
  <2>1. TypeOK'
    BY <1>15 DEF RemoveStreamSink, PipelineCalls, ApplicationCalls, TypeOK, FlagsOK,
           StreamsOK, ConnectionOK, TasksOK
  <2>2. StreamsAccounted' /\ NoStreamHeldBack'
    BY <1>15 DEF RemoveStreamSink, PipelineCalls, ApplicationCalls, TypeOK, FlagsOK,
           StreamsOK, ConnectionOK, TasksOK, StreamsAccounted, NoStreamHeldBack,
           Visit
  <2>3. ReportedOnce' /\ ClosedForGood'
    BY <1>15 DEF RemoveStreamSink, PipelineCalls, ApplicationCalls, TypeOK, FlagsOK,
           StreamsOK, ConnectionOK, TasksOK, ReportedOnce, ClosedForGood,
           OneConnection
  <2>4. TasksFollowDecisions' /\ OneConnection'
    BY <1>15 DEF RemoveStreamSink, PipelineCalls, ApplicationCalls, TypeOK, FlagsOK,
           StreamsOK, ConnectionOK, TasksOK, TasksFollowDecisions, OneConnection,
           Undecided
  <2>5. QED  BY <2>1, <2>2, <2>3, <2>4
<1>16. ASSUME NEW s \in Streams, SetCurrentMediaType(s)
      PROVE  IInv'
  <2>1. TypeOK'
    BY <1>16 DEF SetCurrentMediaType, PipelineCalls, ApplicationCalls, TypeOK,
           FlagsOK, StreamsOK, ConnectionOK, TasksOK
  <2>2. StreamsAccounted' /\ NoStreamHeldBack'
    BY <1>16 DEF SetCurrentMediaType, PipelineCalls, ApplicationCalls, TypeOK,
           FlagsOK, StreamsOK, ConnectionOK, TasksOK, StreamsAccounted,
           NoStreamHeldBack, Visit
  <2>3. ReportedOnce' /\ ClosedForGood'
    BY <1>16 DEF SetCurrentMediaType, PipelineCalls, ApplicationCalls, TypeOK,
           FlagsOK, StreamsOK, ConnectionOK, TasksOK, ReportedOnce, ClosedForGood,
           OneConnection
  <2>4. TasksFollowDecisions' /\ OneConnection'
    BY <1>16 DEF SetCurrentMediaType, PipelineCalls, ApplicationCalls, TypeOK,
           FlagsOK, StreamsOK, ConnectionOK, TasksOK, TasksFollowDecisions,
           OneConnection, Undecided
  <2>5. QED  BY <2>1, <2>2, <2>3, <2>4
<1>17. CASE SetPresentationClock
  <2>1. TypeOK'
    BY <1>17 DEF SetPresentationClock, ApplicationCalls, TypeOK, FlagsOK, StreamsOK,
           ConnectionOK, TasksOK
  <2>2. StreamsAccounted' /\ NoStreamHeldBack'
    BY <1>17 DEF SetPresentationClock, ApplicationCalls, TypeOK, FlagsOK, StreamsOK,
           ConnectionOK, TasksOK, StreamsAccounted, NoStreamHeldBack, Visit
  <2>3. ReportedOnce' /\ ClosedForGood'
    BY <1>17 DEF SetPresentationClock, ApplicationCalls, TypeOK, FlagsOK, StreamsOK,
           ConnectionOK, TasksOK, ReportedOnce, ClosedForGood, OneConnection
  <2>4. TasksFollowDecisions' /\ OneConnection'
    BY <1>17 DEF SetPresentationClock, ApplicationCalls, TypeOK, FlagsOK, StreamsOK,
           ConnectionOK, TasksOK, TasksFollowDecisions, OneConnection, Undecided
  <2>5. QED  BY <2>1, <2>2, <2>3, <2>4
<1>18. CASE OnClockStart
  <2>1. TypeOK'
    <3>1. FlagsOK'  BY <1>18 DEF OnClockStart, PipelineCalls, ApplicationCalls,
           Visit, TypeOK, FlagsOK, StreamsOK, ConnectionOK, TasksOK
    <3>2. StreamsOK'  BY <1>18 DEF OnClockStart, PipelineCalls, ApplicationCalls,
           Visit, TypeOK, FlagsOK, StreamsOK, ConnectionOK, TasksOK
    <3>3. ConnectionOK'  BY <1>18 DEF OnClockStart, PipelineCalls, ApplicationCalls,
           Visit, TypeOK, FlagsOK, StreamsOK, ConnectionOK, TasksOK
    <3>4. TasksOK'  BY <1>18, SMTT(60) DEF OnClockStart, PipelineCalls, ApplicationCalls,
           Visit, TypeOK, FlagsOK, StreamsOK, ConnectionOK, TasksOK
    <3>5. QED  BY <3>1, <3>2, <3>3, <3>4 DEF TypeOK
  <2>2. StreamsAccounted' /\ NoStreamHeldBack'
    BY <1>18 DEF OnClockStart, PipelineCalls, ApplicationCalls, Visit, TypeOK,
           FlagsOK, StreamsOK, ConnectionOK, TasksOK, StreamsAccounted,
           NoStreamHeldBack, Visit
  <2>3. ReportedOnce' /\ ClosedForGood'
    BY <1>18 DEF OnClockStart, PipelineCalls, ApplicationCalls, Visit, TypeOK,
           FlagsOK, StreamsOK, ConnectionOK, TasksOK, ReportedOnce, ClosedForGood,
           OneConnection
  <2>4. TasksFollowDecisions' /\ OneConnection'
    BY <1>18 DEF OnClockStart, PipelineCalls, ApplicationCalls, Visit, TypeOK,
           FlagsOK, StreamsOK, ConnectionOK, TasksOK, TasksFollowDecisions,
           OneConnection, Undecided
  <2>5. QED  BY <2>1, <2>2, <2>3, <2>4
<1>19. CASE OnClockStop
  <2>1. TypeOK'
    <3>1. FlagsOK'  BY <1>19 DEF OnClockStop, PipelineCalls, ApplicationCalls,
           Visit, TypeOK, FlagsOK, StreamsOK, ConnectionOK, TasksOK
    <3>2. StreamsOK'  BY <1>19 DEF OnClockStop, PipelineCalls, ApplicationCalls,
           Visit, TypeOK, FlagsOK, StreamsOK, ConnectionOK, TasksOK
    <3>3. ConnectionOK'  BY <1>19 DEF OnClockStop, PipelineCalls, ApplicationCalls,
           Visit, TypeOK, FlagsOK, StreamsOK, ConnectionOK, TasksOK
    <3>4. TasksOK'  BY <1>19 DEF OnClockStop, PipelineCalls, ApplicationCalls,
           Visit, TypeOK, FlagsOK, StreamsOK, ConnectionOK, TasksOK
    <3>5. QED  BY <3>1, <3>2, <3>3, <3>4 DEF TypeOK
  <2>2. StreamsAccounted' /\ NoStreamHeldBack'
    BY <1>19 DEF OnClockStop, PipelineCalls, ApplicationCalls, Visit, TypeOK,
           FlagsOK, StreamsOK, ConnectionOK, TasksOK, StreamsAccounted,
           NoStreamHeldBack, Visit
  <2>3. ReportedOnce' /\ ClosedForGood'
    BY <1>19 DEF OnClockStop, PipelineCalls, ApplicationCalls, Visit, TypeOK,
           FlagsOK, StreamsOK, ConnectionOK, TasksOK, ReportedOnce, ClosedForGood,
           OneConnection
  <2>4. TasksFollowDecisions' /\ OneConnection'
    BY <1>19 DEF OnClockStop, PipelineCalls, ApplicationCalls, Visit, TypeOK,
           FlagsOK, StreamsOK, ConnectionOK, TasksOK, TasksFollowDecisions,
           OneConnection, Undecided
  <2>5. QED  BY <2>1, <2>2, <2>3, <2>4
<1>20. CASE Shutdown
  <2>1. ShutdownStep(accepting)
    BY <1>20 DEF Shutdown, HandleError, ShutdownStep, TypeOK, FlagsOK, StreamsOK,
           ConnectionOK, TasksOK
  <2>2. QED  BY <2>1, ShutdownKeepsIInv
<1>21. CASE DisposeProxy
  <2>1. ShutdownSink(accepting) /\ UNCHANGED Kept /\ proxySink' \in BOOLEAN
    BY <1>21 DEF DisposeProxy, HandleError
  <2>2. UNCHANGED <<isConnected, waitingConnection, hasClock, async, client,
         application>>
    BY <1>21 DEF DisposeProxy
  <2>3. /\ isConnected \in BOOLEAN /\ receive \in Nat /\ sendingDescription \in Nat
        /\ unread \in Seq({"description", "start"})
    BY DEF TypeOK, FlagsOK, StreamsOK, ConnectionOK, TasksOK
  <2>4. ShutdownStep(accepting)
    BY <2>1, <2>2, <2>3 DEF ShutdownStep
  <2>5. QED  BY <2>4, ShutdownKeepsIInv
<1>22. CASE OnShutdown
  <2>1. /\ callbacks' \in [{"due", "made"} -> Nat]
        /\ callbacks'["due"] + callbacks'["made"] = callbacks["due"] + callbacks["made"]
    <3>1. callbacks["due"] \in Nat /\ callbacks["made"] \in Nat /\ callbacks["due"] > 0
      BY <1>22 DEF OnShutdown, TypeOK, FlagsOK, StreamsOK, ConnectionOK, TasksOK
    <3>2. callbacks' = [due |-> callbacks["due"] - 1, made |-> callbacks["made"] + 1]
      BY <1>22 DEF OnShutdown
    <3>3. QED  BY <3>1, <3>2
  <2>2. TypeOK' /\ ReportedOnce'
    BY <1>22, <2>1, ZenonT(60) DEF OnShutdown, TypeOK, FlagsOK, StreamsOK, ConnectionOK,
           TasksOK, ReportedOnce
  <2>3. StreamsAccounted' /\ NoStreamHeldBack' /\ ClosedForGood'
    BY <1>22 DEF OnShutdown, StreamsAccounted, NoStreamHeldBack, Visit, ClosedForGood
  <2>4. TasksFollowDecisions' /\ OneConnection'
    BY <1>22 DEF OnShutdown, TasksFollowDecisions, OneConnection, Undecided
  <2>5. QED  BY <2>2, <2>3, <2>4
<1>23. CASE UNCHANGED vars
  <2>1. TypeOK'
    BY <1>23 DEF TypeOK, FlagsOK, StreamsOK, ConnectionOK, TasksOK
  <2>2. StreamsAccounted' /\ NoStreamHeldBack' /\ ReportedOnce' /\ ClosedForGood'
    BY <1>23 DEF StreamsAccounted, NoStreamHeldBack, Visit, ReportedOnce, ClosedForGood
  <2>3. TasksFollowDecisions' /\ OneConnection'
    BY <1>23 DEF TasksFollowDecisions, OneConnection, Undecided
  <2>4. QED  BY <2>1, <2>2, <2>3
<1>24. QED  BY <1>1, <1>2, <1>3, <1>4, <1>5, <1>6, <1>7, <1>8, <1>9, <1>10, <1>11,
       <1>12, <1>13, <1>14, <1>15, <1>16, <1>17, <1>18, <1>19, <1>20, <1>21, <1>22,
       <1>23 DEF Next, Continuations

LEMMA IInvHolds == Spec => []IInv
<1>1. Init => IInv
  <2> SUFFICES ASSUME Init PROVE IInv  OBVIOUS
  <2>1. TypeOK
    <3>1. <<>> \in Seq({"description", "start"})  OBVIOUS
    <3>2. FlagsOK
      BY DEF Init, FlagsOK
    <3>6. TasksOK
      <4>1. /\ [accept |-> 0, refuse |-> 0] \in [{"accept", "refuse"} -> Nat]
            /\ [due |-> 0, made |-> 0] \in [{"due", "made"} -> Nat]
        OBVIOUS
      <4>2. QED  BY <4>1 DEF Init, TasksOK
    <3>3. StreamsOK
      BY DEF Init, StreamsOK
    <3>4. ConnectionOK
      BY <3>1, BoundsAssumption DEF Init, ConnectionOK
    <3>5. QED  BY <3>2, <3>3, <3>4, <3>6 DEF TypeOK
  <2>2. StreamsAccounted /\ NoStreamHeldBack
    BY DEF Init, StreamsAccounted, NoStreamHeldBack
  <2>3. ReportedOnce /\ ClosedForGood
    BY DEF Init, ReportedOnce, ClosedForGood
  <2>4. TasksFollowDecisions /\ OneConnection
    BY DEF Init, TasksFollowDecisions, OneConnection, Undecided
  <2>5. QED  BY <2>1, <2>2, <2>3, <2>4 DEF IInv
<1>2. IInv /\ [Next]_vars => IInv'
  BY StepKeepsIInv
<1>3. QED  BY <1>1, <1>2, PTL DEF Spec

(* A connection is decided one way and read once, however often and from   *)
(* how many threads TriggerAcceptConnection and TriggerRefuseConnection    *)
(* are called, and only a client that was accepted is streamed to.         *)
THEOREM DecisionsStandHolds == Spec => []DecisionsStand
<1>1. IInv => DecisionsStand
  BY DEF IInv, TasksFollowDecisions, OneConnection, Undecided, DecisionsStand
<1>2. QED  BY <1>1, IInvHolds, PTL

(* ForEach leaves no stream out that had its media type in time.           *)
THEOREM NoStreamHeldBackHolds == Spec => []NoStreamHeldBack
<1>1. IInv => NoStreamHeldBack
  BY DEF IInv
<1>2. QED  BY <1>1, IInvHolds, PTL

(* CMediaSink::Shutdown takes every stream along and has the proxy told    *)
(* once, though HandleError is reached from several continuations.         *)
THEOREM EndTogetherHolds == Spec => []EndTogether
<1>1. IInv => EndTogether
  <2> SUFFICES ASSUME IInv PROVE EndTogether  OBVIOUS
  <2>1. TypeOK /\ callbacks["due"] + callbacks["made"] = IF isShutdown THEN 1 ELSE 0
    BY DEF IInv, ReportedOnce
  <2>2. isShutdown => /\ streams = {} /\ typed = {}
                      /\ connected \cup running \subseteq streamShutdown
    BY DEF IInv, StreamsAccounted
  <2>3. QED  BY <2>1, <2>2 DEF EndTogether
<1>2. QED  BY <1>1, IInvHolds, PTL

(* StartListening after Shutdown does not bring the server back, and the   *)
(* socket of a connection the application was told of is closed.           *)
THEOREM ClosedForGoodHolds == Spec => []ClosedForGood
<1>1. IInv => ClosedForGood
  BY DEF IInv
<1>2. QED  BY <1>1, IInvHolds, PTL
-----------------------------------------------------------------------------
(* The sink opposite its source (Session).                                 *)
Packet == [op : {"ServerDescription", "ServerSample"}, streams : SUBSET Streams]

SessionTypes ==
    /\ unread \in Seq({"description", "start"}) /\ sendingDescription \in Nat
    /\ streams \subseteq Streams
    /\ wire \in Seq(Packet) /\ plays \in Nat
    /\ connecting \in BOOLEAN /\ describing \in BOOLEAN /\ listening \in BOOLEAN
    /\ sourceState \in {"Invalid", "Opening", "Starting", "Started", "Stopped", "Shutdown"}
    /\ opened \in {"pending", "ok", "failed"}

(* The source opens in one stage after the other, and plays when it is     *)
(* open.                                                                   *)
SourceStages ==
    /\ connecting => ~describing
    /\ connecting \/ describing => sourceState = "Opening" /\ opened = "pending" /\ ~listening
    /\ sourceState = "Invalid" =>
           opened = "pending" /\ ~connecting /\ ~describing /\ ~listening
    /\ opened = "pending" => sourceState \in {"Invalid", "Opening"}
    /\ opened = "ok" => sourceState \notin {"Invalid", "Opening"}
    /\ opened = "failed" => ~listening
    /\ starting > 0 => plays > 0
    /\ plays > 0 => opened = "ok" /\ (~startFailed => sourceState \in {"Started", "Shutdown"})

(* Until it has connected the source has not asked for anything; then the  *)
(* one request for the description is on its way, and after it the one     *)
(* description; starts follow.                                             *)
RequestsInOrder ==
    /\ sourceState = "Invalid" \/ connecting => unread = <<>> /\ wire = <<>>
    /\ \A i \in 1..Len(unread) :
          /\ unread[i] = "description" =>
                 Len(unread) = 1 /\ wire = <<>> /\ opened # "ok"
          /\ unread[i] = "start" => plays > 0
    /\ connected # {} => plays > 0

(* What the source is sent: the description is alone on its way; samples   *)
(* are of streams it knows, or that have been added to the sink since.     *)
PacketsInOrder ==
    /\ \A i \in 1..Len(wire) :
          /\ wire[i].op = "ServerDescription" =>
                 /\ Len(wire) = 1 /\ unread = <<>> /\ opened # "ok"
                 /\ streams \subseteq wire[i].streams \cup addedLater
          /\ wire[i].op = "ServerSample" =>
                 /\ plays > 0
                 /\ \E s \in Streams : wire[i].streams = {s}
                 /\ sourceState # "Shutdown" => wire[i].streams \subseteq known \cup addedLater
    /\ opened = "ok" /\ sourceState # "Shutdown" => streams \subseteq known \cup addedLater

SessionInv == SessionTypes /\ SourceStages /\ RequestsInOrder /\ PacketsInOrder

(* How the sink, whatever it does, treats what the session is about: it    *)
(* takes requests from the front, sends the description when it takes the  *)
(* request for it, and tells the streams of the client when it takes a     *)
(* start.                                                                  *)
SinkMoves ==
    /\ \E n \in 0..Len(unread) : unread' = SubSeq(unread, n + 1, Len(unread))
    /\ sendingDescription' \in Nat /\ streams' \subseteq Streams
    /\ Described => /\ unread # <<>> /\ Head(unread) = "description"
                    /\ unread' = SubSeq(unread, 1 + 1, Len(unread))
                    /\ streams' = streams
    /\ connected' \subseteq connected \/ (unread # <<>> /\ Head(unread) = "start")

LEMMA NothingTaken ==
    ASSUME NEW queue \in Seq({"description", "start"}), NEW next,
           next = queue \/ next = <<>>
    PROVE  \E n \in 0..Len(queue) : next = SubSeq(queue, n + 1, Len(queue))
<1>1. Len(queue) \in Nat /\ 0 \in 0..Len(queue) /\ Len(queue) \in 0..Len(queue)
  OBVIOUS
<1>2. SubSeq(queue, Len(queue) + 1, Len(queue)) = <<>>
  BY <1>1, SubSeqEmpty
<1>3. SubSeq(queue, 0 + 1, Len(queue)) = queue
  <2> DEFINE part == SubSeq(queue, 1, Len(queue))
             S == {"description", "start"}
  <2>1. /\ part \in Seq(S)
        /\ Len(part) = IF 1 <= Len(queue) THEN Len(queue) - 1 + 1 ELSE 0
        /\ \A i \in 1..(Len(queue) - 1 + 1) : part[i] = queue[1 + i - 1]
    <3>1. \A i \in 1..Len(queue) : queue[i] \in S
      OBVIOUS
    <3>2. 1 \in Int /\ Len(queue) \in Int
      BY <1>1
    <3> HIDE DEF S
    <3> QED
      BY <3>1, <3>2, SubSeqProperties
  <2> HIDE DEF part, S
  <2>2. queue \in Seq(S)
    BY DEF S
  <2>3. Len(part) = Len(queue)
    BY <1>1, <2>1
  <2>4. \A i \in 1..Len(queue) : part[i] = queue[i]
    <3>1. \A i \in 1..Len(queue) : i \in 1..(Len(queue) - 1 + 1) /\ 1 + i - 1 = i
      BY <1>1
    <3> QED
      BY <2>1, <3>1
  <2>5. part = queue
    BY <2>1, <2>2, <2>3, <2>4, SeqEqual
  <2>6. 0 + 1 = 1
    OBVIOUS
  <2> QED
    BY <2>5, <2>6 DEF part
<1> QED
  BY <1>1, <1>2, <1>3

LEMMA CallsMove ==
    ASSUME SessionTypes, Calls
    PROVE  SinkMoves
<1>1. unread \in Seq({"description", "start"}) /\ sendingDescription \in Nat
      /\ streams \subseteq Streams
  BY DEF SessionTypes
<1>2. ASSUME UNCHANGED <<unread, sendingDescription>>, streams' \subseteq Streams,
             connected' \subseteq connected
      PROVE  SinkMoves
  <2>1. \E n \in 0..Len(unread) : unread' = SubSeq(unread, n + 1, Len(unread))
    BY <1>1, <1>2, NothingTaken
  <2>2. ~Described
    BY <1>1, <1>2 DEF Described
  <2> QED
    BY <1>1, <1>2, <2>1, <2>2 DEF SinkMoves
<1>3. ASSUME NEW id, NEW which, NEW task, Decide(id, which, task)
      PROVE  SinkMoves
  BY <1>1, <1>2, <1>3 DEF Decide, perStream, client
<1>4. ASSUME NEW s \in Streams, NEW withType \in BOOLEAN, AddStreamSink(s, withType)
      PROVE  SinkMoves
  BY <1>1, <1>2, <1>4 DEF AddStreamSink, PipelineCalls, async, client
<1>5. ASSUME NEW s \in Streams, RemoveStreamSink(s) \/ SetCurrentMediaType(s)
      PROVE  SinkMoves
  BY <1>1, <1>2, <1>5 DEF RemoveStreamSink, SetCurrentMediaType, PipelineCalls, Kept,
                          async, client
<1>6. CASE SetPresentationClock \/ OnClockStart \/ OnClockStop
  BY <1>1, <1>2, <1>6 DEF SetPresentationClock, OnClockStart, OnClockStop, PipelineCalls,
                          async, perStream, client
<1>7. CASE Shutdown \/ DisposeProxy
  <2>1. UNCHANGED <<unread, sendingDescription, connected>>
    BY <1>7 DEF Shutdown, DisposeProxy, HandleError, Kept, async, client
  <2>2. streams' \subseteq Streams
    BY <1>1, <1>7 DEF Shutdown, DisposeProxy, HandleError, ShutdownSink, ShutdownStreams
  <2> QED
    BY <1>2, <2>1, <2>2
<1> QED
  BY <1>3, <1>4, <1>5, <1>6, <1>7 DEF Calls

LEMMA ContinuationsMove ==
    ASSUME SessionTypes, Continuations
    PROVE  SinkMoves
<1>1. unread \in Seq({"description", "start"}) /\ sendingDescription \in Nat
      /\ streams \subseteq Streams
  BY DEF SessionTypes
<1>2. ASSUME unread' = unread \/ unread' = <<>>, sendingDescription' \in Nat,
             sendingDescription' <= sendingDescription, streams' \subseteq Streams,
             connected' \subseteq connected
      PROVE  SinkMoves
  <2>1. \E n \in 0..Len(unread) : unread' = SubSeq(unread, n + 1, Len(unread))
    BY <1>1, <1>2, NothingTaken
  <2>2. ~Described
    BY <1>1, <1>2 DEF Described
  <2> QED
    BY <1>1, <1>2, <2>1, <2>2 DEF SinkMoves
<1>3. ASSUME HandleError
      PROVE  streams' \subseteq Streams /\ connected' = connected
  BY <1>1, <1>3 DEF HandleError, ShutdownSink, ShutdownStreams, Kept
<1>4. ASSUME NoError
      PROVE  streams' = streams /\ connected' = connected
  BY <1>4 DEF NoError, perStream
<1>5. CASE SetSocket \/ OfferConnection \/ OnShutdown
  BY <1>1, <1>2, <1>5 DEF SetSocket, OfferConnection, OnShutdown, async, perStream, client
<1>6. CASE ListeningFails
  <2>1. streams' \subseteq Streams
    BY <1>1, <1>6 DEF ListeningFails, ShutdownSink, ShutdownStreams
  <2> QED
    BY <1>1, <1>2, <1>6, <2>1 DEF ListeningFails, async, client, Kept
<1>7. CASE AcceptTask
  BY <1>1, <1>2, <1>4, <1>7 DEF AcceptTask, client
<1>8. CASE RefuseTask
  BY <1>1, <1>2, <1>8 DEF RefuseTask, perStream
<1>9. CASE ReceiveFails
  BY <1>1, <1>2, <1>3, <1>9 DEF ReceiveFails, client
<1>10. CASE DescriptionSent
  <2>1. sendingDescription' = sendingDescription - 1 /\ sendingDescription > 0
        /\ unread' = unread
    BY <1>10 DEF DescriptionSent, client
  <2>2. streams' \subseteq Streams /\ connected' = connected
    BY <1>1, <1>3, <1>4, <1>10 DEF DescriptionSent
  <2> QED
    BY <1>1, <1>2, <2>1, <2>2
<1>11. ASSUME NEW n \in 1..Len(unread), ReceiveCompletes(n)
       PROVE  SinkMoves
  <2>1. /\ n \in 0..Len(unread) /\ unread' = SubSeq(unread, n + 1, Len(unread))
        /\ unread # <<>>
    BY <1>1, <1>11 DEF ReceiveCompletes
  <2>2. CASE isShutdown \/ n # 1
    <3>1. HandleError /\ UNCHANGED sendingDescription
      BY <1>11, <2>2 DEF ReceiveCompletes
    <3>2. ~Described
      BY <1>1, <3>1 DEF Described
    <3> QED
      BY <1>1, <1>3, <2>1, <3>1, <3>2 DEF SinkMoves
  <2>3. CASE ~(isShutdown \/ n # 1) /\ Head(unread) = "description"
    <3>1. SendDescription
      BY <1>11, <2>3 DEF ReceiveCompletes
    <3>2. CASE streams \subseteq typed
      <4>1. sendingDescription' = sendingDescription + 1 /\ NoError
        BY <3>1, <3>2 DEF SendDescription
      <4> QED
        BY <1>1, <1>4, <2>1, <2>3, <4>1 DEF SinkMoves
    <3>3. CASE ~(streams \subseteq typed)
      <4>1. UNCHANGED sendingDescription /\ HandleError
        BY <3>1, <3>3 DEF SendDescription
      <4>2. ~Described
        BY <1>1, <4>1 DEF Described
      <4> QED
        BY <1>1, <1>3, <2>1, <4>1, <4>2 DEF SinkMoves
    <3> QED
      BY <3>2, <3>3
  <2>4. CASE ~(isShutdown \/ n # 1) /\ Head(unread) # "description"
    <3>1. Head(unread) = "start"
      BY <1>1, <2>1, <2>4
    <3>2. StartStreaming \/ StartWithoutTime
      BY <1>11, <2>4 DEF ReceiveCompletes
    <3>3. UNCHANGED sendingDescription /\ streams' \subseteq Streams
      BY <1>1, <1>3, <3>2 DEF StartStreaming, StartWithoutTime
    <3>4. ~Described
      BY <1>1, <3>3 DEF Described
    <3> QED
      BY <1>1, <2>1, <3>1, <3>3, <3>4 DEF SinkMoves
  <2> QED
    BY <2>2, <2>3, <2>4
<1> QED
  BY <1>5, <1>6, <1>7, <1>8, <1>9, <1>10, <1>11 DEF Continuations

LEMMA TakenFromFront ==
    ASSUME NEW S, NEW queue \in Seq(S), NEW n \in 0..Len(queue)
    PROVE  LET rest == SubSeq(queue, n + 1, Len(queue)) IN
           /\ rest \in Seq(S) /\ Len(rest) = Len(queue) - n
           /\ \A i \in 1..Len(rest) : i + n \in 1..Len(queue) /\ rest[i] = queue[i + n]
<1> DEFINE rest == SubSeq(queue, n + 1, Len(queue))
<1>1. Len(queue) \in Nat /\ n \in Nat /\ n <= Len(queue)
  OBVIOUS
<1>2. \A i \in n + 1..Len(queue) : queue[i] \in S
  BY <1>1
<1>3. n + 1 \in Int /\ Len(queue) \in Int
  BY <1>1
<1>4. /\ rest \in Seq(S)
      /\ Len(rest) = IF n + 1 <= Len(queue) THEN Len(queue) - (n + 1) + 1 ELSE 0
      /\ \A i \in 1..(Len(queue) - (n + 1) + 1) : rest[i] = queue[n + 1 + i - 1]
  BY <1>2, <1>3, SubSeqProperties
<1> HIDE DEF rest
<1>5. Len(rest) = Len(queue) - n
  BY <1>1, <1>4
<1>6. \A i \in 1..Len(rest) : /\ i \in 1..(Len(queue) - (n + 1) + 1)
                              /\ n + 1 + i - 1 = i + n /\ i + n \in 1..Len(queue)
  BY <1>1, <1>5
<1>7. \A i \in 1..Len(rest) : i + n \in 1..Len(queue) /\ rest[i] = queue[i + n]
  BY <1>4, <1>6
<1> QED
  BY <1>4, <1>5, <1>7 DEF rest

(* What the sink does to the session.                                      *)
LEMMA SinkKeepsSession ==
    ASSUME SessionInv, SinkMoves, Transmitted
    PROVE  SessionInv'
<1>0. SessionTypes /\ SourceStages /\ RequestsInOrder /\ PacketsInOrder
  BY DEF SessionInv
<1>1. /\ unread \in Seq({"description", "start"}) /\ wire \in Seq(Packet)
      /\ streams \subseteq Streams /\ sendingDescription \in Nat
  BY <1>0 DEF SessionTypes
<1>2. UNCHANGED <<sourceState, opened, connecting, describing, starting, listening, known,
                  told, garbled, plays, startFailed>>
  BY DEF Transmitted, source
<1>3. PICK n \in 0..Len(unread) : unread' = SubSeq(unread, n + 1, Len(unread))
  BY DEF SinkMoves
<1>4. /\ unread' \in Seq({"description", "start"}) /\ Len(unread') = Len(unread) - n
      /\ \A i \in 1..Len(unread') : i + n \in 1..Len(unread) /\ unread'[i] = unread[i + n]
  BY <1>1, <1>3, TakenFromFront
<1>5. Len(unread) \in Nat /\ Len(unread') \in Nat /\ n \in Nat
  BY <1>1, <1>4
<1>6. SourceStages'
  BY <1>0, <1>2 DEF SourceStages
<1>7. connected' # {} => plays > 0
  <2>1. CASE connected' \subseteq connected
    BY <1>0, <2>1 DEF RequestsInOrder
  <2>2. CASE unread # <<>> /\ Head(unread) = "start"
    <3>1. 1 \in 1..Len(unread) /\ unread[1] = "start"
      BY <1>1, <2>2
    <3> QED
      BY <1>0, <3>1 DEF RequestsInOrder
  <2> QED
    BY <2>1, <2>2 DEF SinkMoves
<1>8. ASSUME NEW i \in 1..Len(unread'), unread'[i] = "description"
      PROVE  Len(unread') = 1 /\ n = 0
  <2>1. Len(unread) = 1
    BY <1>0, <1>4, <1>8 DEF RequestsInOrder
  <2> QED
    BY <1>4, <1>5, <2>1
<1>9. ASSUME NEW i \in 1..Len(unread'), unread'[i] = "start"
      PROVE  plays > 0
  BY <1>0, <1>4, <1>9 DEF RequestsInOrder
<1>10. CASE Described
  <2>1. /\ unread # <<>> /\ Head(unread) = "description" /\ streams' = streams
        /\ unread' = SubSeq(unread, 1 + 1, Len(unread))
    BY <1>10 DEF SinkMoves
  <2>2. 1 \in 1..Len(unread) /\ unread[1] = "description"
    BY <1>1, <2>1
  <2>3. Len(unread) = 1 /\ wire = <<>> /\ opened # "ok"
    BY <1>0, <2>2 DEF RequestsInOrder
  <2>4. 1 \in 0..Len(unread)
    BY <2>3
  <2>5. Len(unread') = Len(unread) - 1
    BY <1>1, <2>1, <2>4, TakenFromFront
  <2>6. Len(unread') = 0 /\ unread' = <<>>
    BY <1>4, <2>3, <2>5, EmptySeq
  <2> DEFINE description == [op |-> "ServerDescription", streams |-> streams]
  <2>7. wire' = Append(wire, description) /\ addedLater' = {}
    BY <1>10 DEF Transmitted
  <2>8. description \in Packet
    BY <1>1 DEF Packet
  <2>9. description.op = "ServerDescription" /\ description.streams = streams
    OBVIOUS
  <2> HIDE DEF description
  <2>10. Len(wire) = 0
    BY <2>3
  <2>11. /\ wire' \in Seq(Packet) /\ Len(wire') = Len(wire) + 1
         /\ wire'[Len(wire) + 1] = description
    BY <1>1, <2>7, <2>8, AppendProperties
  <2>12. /\ Len(wire') = 1 /\ wire'[1] = description
         /\ \A i \in 1..Len(wire') : i = 1
    BY <2>10, <2>11
  <2>13. SessionTypes'
    BY <1>0, <1>2, <1>4, <2>11 DEF SessionTypes, SinkMoves
  <2>14. sourceState # "Invalid" /\ ~connecting
    BY <1>0, <2>1 DEF RequestsInOrder
  <2>15. RequestsInOrder'
    BY <1>2, <1>7, <2>6, <2>14 DEF RequestsInOrder
  <2>16. PacketsInOrder'
    BY <1>2, <2>1, <2>3, <2>6, <2>9, <2>12 DEF PacketsInOrder
  <2> QED
    BY <1>6, <2>13, <2>15, <2>16 DEF SessionInv
<1>11. CASE ~Described
  <2>1. wire' = wire /\ addedLater' = addedLater \cup (streams' \ streams)
    BY <1>11 DEF Transmitted
  <2>2. SessionTypes'
    BY <1>0, <1>2, <1>4, <2>1 DEF SessionTypes, SinkMoves
  <2>3. RequestsInOrder'
    <3>1. ASSUME sourceState' = "Invalid" \/ connecting'
          PROVE  unread' = <<>> /\ wire' = <<>>
      <4>1. unread = <<>> /\ wire = <<>>
        BY <1>0, <1>2, <3>1 DEF RequestsInOrder
      <4>2. Len(unread') = 0
        BY <1>4, <1>5, <4>1
      <4> QED
        BY <1>4, <2>1, <4>1, <4>2, EmptySeq
    <3>2. ASSUME NEW i \in 1..Len(unread'), unread'[i] = "description"
          PROVE  Len(unread') = 1 /\ wire' = <<>> /\ opened' # "ok"
      BY <1>0, <1>2, <1>4, <1>8, <2>1, <3>2 DEF RequestsInOrder
    <3> QED
      BY <1>2, <1>7, <1>9, <3>1, <3>2 DEF RequestsInOrder
  <2>4. PacketsInOrder'
    <3>1. ASSUME NEW i \in 1..Len(wire'), wire'[i].op = "ServerDescription"
          PROVE  /\ Len(wire') = 1 /\ unread' = <<>> /\ opened' # "ok"
                 /\ streams' \subseteq wire'[i].streams \cup addedLater'
      <4>1. /\ Len(wire) = 1 /\ unread = <<>> /\ opened # "ok"
            /\ streams \subseteq wire[i].streams \cup addedLater
        BY <1>0, <2>1, <3>1 DEF PacketsInOrder
      <4>2. Len(unread') = 0
        BY <1>4, <1>5, <4>1
      <4>3. unread' = <<>>
        BY <1>4, <4>2, EmptySeq
      <4> QED
        BY <1>2, <2>1, <4>1, <4>3
    <3>2. ASSUME NEW i \in 1..Len(wire'), wire'[i].op = "ServerSample"
          PROVE  /\ plays' > 0
                 /\ \E s \in Streams : wire'[i].streams = {s}
                 /\ sourceState' # "Shutdown" => wire'[i].streams \subseteq known' \cup addedLater'
      <4>1. /\ plays > 0
            /\ \E s \in Streams : wire[i].streams = {s}
            /\ sourceState # "Shutdown" => wire[i].streams \subseteq known \cup addedLater
        BY <1>0, <2>1, <3>2 DEF PacketsInOrder
      <4> QED
        BY <1>2, <2>1, <4>1
    <3>3. opened' = "ok" /\ sourceState' # "Shutdown" => streams' \subseteq known' \cup addedLater'
      <4>1. opened = "ok" /\ sourceState # "Shutdown" => streams \subseteq known \cup addedLater
        BY <1>0 DEF PacketsInOrder
      <4> QED
        BY <1>2, <2>1, <4>1
    <3> QED
      BY <3>1, <3>2, <3>3 DEF PacketsInOrder
  <2> QED
    BY <1>6, <2>2, <2>3, <2>4 DEF SessionInv
<1> QED
  BY <1>10, <1>11

(* Steps of the source that put nothing on its way: what it is sent stays  *)
(* in order when the open ends in failure, or nothing it knows changes.    *)
LEMMA QuietKeepsOrder ==
    ASSUME SessionInv, UNCHANGED <<unread, wire, connected, streams, addedLater, plays>>,
           sourceState' = "Invalid" \/ connecting' => sourceState = "Invalid" \/ connecting,
           opened' = "ok" => opened = "ok",
           opened = "ok" => opened' = "ok",
           opened = "ok" /\ sourceState' # "Shutdown" =>
               sourceState # "Shutdown" /\ known' = known
    PROVE  RequestsInOrder' /\ PacketsInOrder'
<1>0. SourceStages /\ RequestsInOrder /\ PacketsInOrder
  BY DEF SessionInv
<1>1. plays > 0 => opened = "ok"
  BY <1>0 DEF SourceStages
<1>2. RequestsInOrder'
  BY <1>0 DEF RequestsInOrder
<1>3. PacketsInOrder'
  <2>1. ASSUME NEW i \in 1..Len(wire'), wire'[i].op = "ServerDescription"
        PROVE  /\ Len(wire') = 1 /\ unread' = <<>> /\ opened' # "ok"
               /\ streams' \subseteq wire'[i].streams \cup addedLater'
    BY <1>0, <2>1 DEF PacketsInOrder
  <2>2. ASSUME NEW i \in 1..Len(wire'), wire'[i].op = "ServerSample"
        PROVE  /\ plays' > 0
               /\ \E s \in Streams : wire'[i].streams = {s}
               /\ sourceState' # "Shutdown" => wire'[i].streams \subseteq known' \cup addedLater'
    <3>1. /\ plays > 0
          /\ \E s \in Streams : wire[i].streams = {s}
          /\ sourceState # "Shutdown" => wire[i].streams \subseteq known \cup addedLater
      BY <1>0, <2>2 DEF PacketsInOrder
    <3> QED
      BY <1>1, <3>1
  <2>3. opened' = "ok" /\ sourceState' # "Shutdown" => streams' \subseteq known' \cup addedLater'
    BY <1>0 DEF PacketsInOrder
  <2> QED
    BY <2>1, <2>2, <2>3 DEF PacketsInOrder
<1> QED
  BY <1>2, <1>3

(* The types, when nothing is put on its way.                              *)
LEMMA QuietKeepsTypes ==
    ASSUME SessionTypes, UNCHANGED <<unread, sendingDescription, streams, wire, plays>>,
           sourceState' \in {sourceState, "Opening", "Starting", "Started", "Stopped", "Shutdown"},
           opened' \in {opened, "ok", "failed"},
           connecting' \in BOOLEAN, describing' \in BOOLEAN, listening' \in BOOLEAN
    PROVE  SessionTypes'
BY DEF SessionTypes

LEMMA VarsKept ==
    ASSUME UNCHANGED vars
    PROVE  UNCHANGED <<unread, sendingDescription, streams, connected>>
BY DEF vars, async, perStream, client

LEMMA OpeningKeepsSession ==
    ASSUME SessionInv,
           \/ OpenAsync \/ Arrive \/ Connected \/ ConnectFailed \/ DescribeEnds
           \/ ConnectionLost
    PROVE  SessionInv'
<1>0. SessionTypes /\ SourceStages /\ RequestsInOrder /\ PacketsInOrder
  BY DEF SessionInv
<1>1. CASE OpenAsync
  <2>1. /\ UNCHANGED <<unread, sendingDescription, streams, connected>>
        /\ UNCHANGED <<wire, plays, addedLater, startFailed>>
    BY <1>1, VarsKept DEF OpenAsync, session
  <2>2. /\ sourceState = "Invalid" /\ sourceState' = "Opening" /\ connecting' = TRUE
        /\ UNCHANGED <<opened, describing, starting, listening, known>>
    BY <1>1 DEF OpenAsync, Source!OpenAsync
  <2>3. SourceStages'
    BY <1>0, <2>1, <2>2 DEF SourceStages, SessionTypes
  <2>4. SessionTypes'
    BY <1>0, <2>1, <2>2, QuietKeepsTypes DEF SessionTypes
  <2>5. opened # "ok"
    BY <1>0, <2>2 DEF SourceStages
  <2>6. RequestsInOrder' /\ PacketsInOrder'
    BY <2>1, <2>2, <2>5, QuietKeepsOrder
  <2> QED
    BY <2>3, <2>4, <2>6 DEF SessionInv
<1>2. CASE Arrive \/ ConnectionLost
  <2>1. UNCHANGED <<unread, sendingDescription, streams, connected, source, session>>
    BY <1>2 DEF Arrive, ConnectionReceived, ConnectionLost, async, perStream
  <2>2. UNCHANGED <<sourceState, opened, connecting, describing, starting, listening, known,
                    wire, plays, addedLater, startFailed>>
    BY <2>1 DEF source, session
  <2>3. SourceStages'
    BY <1>0, <2>2 DEF SourceStages
  <2>4. SessionTypes'
    BY <1>0, <2>1, <2>2, QuietKeepsTypes DEF SessionTypes
  <2>5. RequestsInOrder' /\ PacketsInOrder'
    BY <2>1, <2>2, QuietKeepsOrder
  <2> QED
    BY <2>3, <2>4, <2>5 DEF SessionInv
<1>3. CASE Connected
  <2>1. /\ connecting /\ connecting' = FALSE /\ describing' = TRUE
        /\ UNCHANGED <<sourceState, opened, starting, listening, known>>
    BY <1>3 DEF Connected, Source!Connected
  <2>2. /\ unread' = Append(unread, "description")
        /\ UNCHANGED <<sendingDescription, streams, connected>>
        /\ UNCHANGED <<wire, plays, addedLater, startFailed>>
    BY <1>3 DEF Connected, SendRequest, async, perStream, session
  <2>3. /\ unread = <<>> /\ wire = <<>> /\ sourceState = "Opening" /\ opened = "pending"
        /\ ~listening
    BY <1>0, <2>1 DEF RequestsInOrder, SourceStages
  <2>4. unread \in Seq({"description", "start"}) /\ Len(unread) = 0
    BY <1>0, <2>3 DEF SessionTypes
  <2>5. /\ unread' \in Seq({"description", "start"}) /\ Len(unread') = Len(unread) + 1
        /\ unread'[Len(unread) + 1] = "description"
    BY <2>2, <2>4, AppendProperties
  <2>6. Len(unread') = 1 /\ \A i \in 1..Len(unread') : i = 1 /\ unread'[i] = "description"
    BY <2>4, <2>5
  <2>7. SessionTypes'
    BY <1>0, <2>1, <2>2, <2>5 DEF SessionTypes
  <2>8. SourceStages'
    BY <1>0, <2>1, <2>2, <2>3 DEF SourceStages
  <2>9. RequestsInOrder'
    BY <1>0, <2>1, <2>2, <2>3, <2>6 DEF RequestsInOrder
  <2>10. Len(wire') = 0
    BY <2>2, <2>3
  <2>11. PacketsInOrder'
    BY <2>1, <2>3, <2>10 DEF PacketsInOrder
  <2> QED
    BY <2>7, <2>8, <2>9, <2>11 DEF SessionInv
<1>4. CASE ConnectFailed \/ DescribeEnds
  <2>1. connecting \/ describing
    BY <1>4 DEF ConnectFailed, DescribeEnds, Source!ConnectFailed, Source!DescribeSent,
                Source!DescribeFailed
  <2>2. sourceState = "Opening" /\ opened = "pending" /\ ~listening /\ ~(plays > 0)
        /\ ~(starting > 0)
    BY <1>0, <2>1 DEF SourceStages
  <2>3. /\ UNCHANGED <<unread, sendingDescription, streams, connected>>
        /\ UNCHANGED <<wire, plays, addedLater, startFailed>>
    <3>1. CASE ConnectFailed
      BY <3>1 DEF ConnectFailed, async, perStream, session
    <3>2. CASE DescribeEnds
      BY <3>2, VarsKept DEF DescribeEnds, session
    <3> QED
      BY <1>4, <3>1, <3>2
  <2>4. /\ UNCHANGED starting
        /\ \/ /\ connecting /\ connecting' = FALSE /\ sourceState' = "Shutdown"
              /\ opened' = "failed" /\ UNCHANGED <<describing, listening>>
           \/ /\ describing /\ describing' = FALSE /\ listening' = TRUE
              /\ UNCHANGED <<sourceState, opened, connecting>>
           \/ /\ describing /\ describing' = FALSE /\ opened' = "failed"
              /\ UNCHANGED <<sourceState, connecting, listening>>
    BY <1>4, <2>2 DEF ConnectFailed, DescribeEnds, Source!ConnectFailed, Source!DescribeSent,
                      Source!DescribeFailed, Source!HandleError
  <2>5. SourceStages'
    BY <1>0, <2>2, <2>3, <2>4 DEF SourceStages
  <2>6. SessionTypes'
    BY <1>0, <2>3, <2>4, QuietKeepsTypes DEF SessionTypes
  <2>7. opened' # "ok" /\ (sourceState' = "Invalid" \/ connecting' => connecting)
    BY <2>2, <2>4
  <2>8. RequestsInOrder' /\ PacketsInOrder'
    BY <2>2, <2>3, <2>7, QuietKeepsOrder
  <2> QED
    BY <2>5, <2>6, <2>8 DEF SessionInv
<1> QED
  BY <1>1, <1>2, <1>3, <1>4

(* The rest of a queue of packets.                                         *)
LEMMA WireTail ==
    ASSUME NEW queue \in Seq(Packet), queue # <<>>
    PROVE  /\ Tail(queue) \in Seq(Packet) /\ Len(Tail(queue)) = Len(queue) - 1
           /\ Len(queue) \in Nat /\ 1 \in 1..Len(queue)
           /\ Head(queue) = queue[1] /\ Head(queue) \in Packet
           /\ \A i \in 1..Len(Tail(queue)) : i + 1 \in 1..Len(queue)
                                             /\ Tail(queue)[i] = queue[i + 1]
<1> DEFINE rest == Tail(queue)
<1>1. /\ rest \in Seq(Packet) /\ Len(rest) = Len(queue) - 1
      /\ \A i \in 1..Len(rest) : rest[i] = queue[i + 1]
      /\ Head(queue) = queue[1] /\ Head(queue) \in Packet
  BY HeadTailProperties
<1>2. Len(queue) \in Nat /\ Len(queue) > 0
  BY EmptySeq
<1> HIDE DEF rest
<1>3. \A i \in 1..Len(rest) : i + 1 \in 1..Len(queue)
  BY <1>1, <1>2
<1> QED
  BY <1>1, <1>2, <1>3 DEF rest

(* A packet leaves the wire; what the source knows stays if it is open.    *)
LEMMA ReadKeepsOrder ==
    ASSUME SessionInv, wire # <<>>, wire' = Tail(wire),
           UNCHANGED <<unread, connected, streams, addedLater, plays, connecting, sourceState>>,
           (opened = "ok") = (opened' = "ok"), opened = "ok" => known' = known
    PROVE  RequestsInOrder' /\ PacketsInOrder' /\ wire' \in Seq(Packet)
<1>0. SessionTypes /\ SourceStages /\ RequestsInOrder /\ PacketsInOrder
  BY DEF SessionInv
<1>1. /\ wire' \in Seq(Packet) /\ Len(wire') = Len(wire) - 1 /\ Len(wire) \in Nat
      /\ \A i \in 1..Len(wire') : i + 1 \in 1..Len(wire) /\ wire'[i] = wire[i + 1]
  BY <1>0, WireTail DEF SessionTypes
<1>2. plays > 0 => opened = "ok"
  BY <1>0 DEF SourceStages
<1>3. \A i \in 1..Len(unread) : unread[i] # "description"
  BY <1>0 DEF RequestsInOrder
<1>4. RequestsInOrder'
  BY <1>0, <1>3 DEF RequestsInOrder
<1>5. ASSUME NEW i \in 1..Len(wire'), wire'[i].op = "ServerDescription"
      PROVE  FALSE
  <2>1. Len(wire) = 1
    BY <1>0, <1>1, <1>5 DEF PacketsInOrder
  <2> QED
    BY <1>1, <2>1
<1>6. ASSUME NEW i \in 1..Len(wire'), wire'[i].op = "ServerSample"
      PROVE  /\ plays' > 0
             /\ \E s \in Streams : wire'[i].streams = {s}
             /\ sourceState' # "Shutdown" => wire'[i].streams \subseteq known' \cup addedLater'
  <2>1. /\ plays > 0
        /\ \E s \in Streams : wire[i + 1].streams = {s}
        /\ sourceState # "Shutdown" => wire[i + 1].streams \subseteq known \cup addedLater
    BY <1>0, <1>1, <1>6 DEF PacketsInOrder
  <2> QED
    BY <1>1, <1>2, <2>1
<1>7. PacketsInOrder'
  BY <1>0, <1>5, <1>6 DEF PacketsInOrder
<1> QED
  BY <1>1, <1>4, <1>7

(* The source reads: a packet it takes or refuses, or the end.             *)
LEMMA ReadingKeepsSession ==
    ASSUME SessionInv, ReceivePacket \/ ReadFails
    PROVE  SessionInv'
<1>0. SessionTypes /\ SourceStages /\ RequestsInOrder /\ PacketsInOrder
  BY DEF SessionInv
<1>1. /\ UNCHANGED <<unread, sendingDescription, streams, connected>>
      /\ UNCHANGED <<plays, addedLater, startFailed>>
  BY VarsKept DEF ReceivePacket, ReadFails, session
<1>2. ASSUME Source!Refuse \/ Source!ReceiveFailed
      PROVE  /\ UNCHANGED <<sourceState, connecting, describing, starting>>
             /\ listening /\ listening' = FALSE
             /\ opened' = IF sourceState = "Opening" THEN "failed" ELSE opened
             /\ sourceState # "Opening" => known' = known
             /\ SourceStages'
             /\ sourceState = "Opening" => opened # "ok"
  <2>1. /\ UNCHANGED <<sourceState, connecting, describing, starting>>
        /\ listening /\ listening' = FALSE
        /\ opened' = IF sourceState = "Opening" /\ opened = "pending" THEN "failed" ELSE opened
        /\ sourceState # "Opening" => known' = known
    BY <1>2 DEF Source!Refuse, Source!ReceiveFailed, Source!HandleError
  <2>2. sourceState = "Opening" => opened = "pending"
    BY <1>0, <2>1 DEF SourceStages, SessionTypes
  <2>3. opened' = IF sourceState = "Opening" THEN "failed" ELSE opened
    BY <2>1, <2>2
  <2>4. SourceStages'
    BY <1>0, <1>1, <2>1, <2>2, <2>3 DEF SourceStages
  <2> QED
    BY <2>1, <2>2, <2>3, <2>4
<1>3. CASE ReadFails
  <2>1. UNCHANGED wire /\ Source!ReceiveFailed
    BY <1>3 DEF ReadFails, session
  <2>2. UNCHANGED known
    BY <2>1 DEF Source!ReceiveFailed
  <2>3. SessionTypes'
    BY <1>0, <1>1, <1>2, <2>1, QuietKeepsTypes DEF SessionTypes
  <2>4. opened' = "ok" <=> opened = "ok"
    BY <1>2, <2>1
  <2>5. RequestsInOrder' /\ PacketsInOrder'
    BY <1>1, <1>2, <2>1, <2>2, <2>4, QuietKeepsOrder
  <2> QED
    BY <1>2, <2>1, <2>3, <2>5 DEF SessionInv
<1>4. CASE ReceivePacket
  <2>1. wire # <<>> /\ wire' = Tail(wire)
    BY <1>4 DEF ReceivePacket
  <2>2. CASE Source!Refuse
    <3>1. opened' = "ok" <=> opened = "ok"
      BY <1>2, <2>2
    <3>2. opened = "ok" => known' = known
      BY <1>2, <2>2
    <3>3. RequestsInOrder' /\ PacketsInOrder' /\ wire' \in Seq(Packet)
      BY <1>1, <1>2, <2>1, <2>2, <3>1, <3>2, ReadKeepsOrder
    <3>4. SessionTypes'
      BY <1>0, <1>1, <1>2, <2>2, <3>3 DEF SessionTypes
    <3> QED
      BY <1>2, <2>2, <3>3, <3>4 DEF SessionInv
  <2>3. ASSUME NEW s \in Head(wire).streams, Source!TakeSample(s)
        PROVE  SessionInv'
    <3>1. UNCHANGED <<sourceState, opened, connecting, describing, starting, listening, known>>
      BY <2>3 DEF Source!TakeSample, Source!vars
    <3>2. RequestsInOrder' /\ PacketsInOrder' /\ wire' \in Seq(Packet)
      BY <1>1, <2>1, <3>1, ReadKeepsOrder
    <3>3. SessionTypes'
      BY <1>0, <1>1, <3>1, <3>2 DEF SessionTypes
    <3>4. SourceStages'
      BY <1>0, <1>1, <3>1 DEF SourceStages
    <3> QED
      BY <3>2, <3>3, <3>4 DEF SessionInv
  <2>4. CASE /\ Head(wire).op = "ServerDescription"
             /\ Source!TakeDescription(Head(wire).streams)
    <3>1. /\ listening /\ sourceState = "Opening"
          /\ known' = Head(wire).streams /\ sourceState' = "Stopped" /\ opened' = "ok"
          /\ UNCHANGED <<connecting, describing, starting, listening>>
      BY <2>4 DEF Source!TakeDescription, Source!Takes
    <3>2. /\ wire' \in Seq(Packet) /\ Len(wire') = Len(wire) - 1 /\ Len(wire) \in Nat
          /\ 1 \in 1..Len(wire) /\ Head(wire) = wire[1]
      BY <1>0, <2>1, WireTail DEF SessionTypes
    <3>3. /\ Len(wire) = 1 /\ unread = <<>>
          /\ streams \subseteq Head(wire).streams \cup addedLater
      BY <1>0, <2>4, <3>2 DEF PacketsInOrder
    <3>4. Len(wire') = 0 /\ Len(unread') = 0
      BY <1>1, <3>2, <3>3
    <3>5. ~connecting /\ ~describing /\ opened # "ok" /\ ~(plays > 0)
      BY <1>0, <3>1 DEF SourceStages
    <3>6. SourceStages'
      BY <1>0, <1>1, <3>1, <3>5 DEF SourceStages
    <3>7. SessionTypes'
      BY <1>0, <1>1, <3>1, <3>2 DEF SessionTypes
    <3>8. RequestsInOrder'
      BY <1>0, <1>1, <3>1, <3>4, <3>5 DEF RequestsInOrder
    <3>9. PacketsInOrder'
      BY <1>1, <3>1, <3>3, <3>4 DEF PacketsInOrder
    <3> QED
      BY <3>6, <3>7, <3>8, <3>9 DEF SessionInv
  <2> QED
    BY <1>4, <2>2, <2>3, <2>4 DEF ReceivePacket
<1> QED
  BY <1>3, <1>4

(* A stream of the sink that is connected sends a sample.                  *)
LEMMA SamplesKeepSession ==
    ASSUME SessionInv, NEW s \in Streams, SendSample(s)
    PROVE  SessionInv'
<1>0. SessionTypes /\ SourceStages /\ RequestsInOrder /\ PacketsInOrder
  BY DEF SessionInv
<1> DEFINE sample == [op |-> "ServerSample", streams |-> {s}]
<1>1. /\ UNCHANGED <<unread, sendingDescription, streams, connected>>
      /\ UNCHANGED <<sourceState, opened, connecting, describing, starting, listening, known,
                     plays, addedLater, startFailed>>
      /\ wire' = Append(wire, sample)
  BY VarsKept DEF SendSample, source
<1>2. s \in streams /\ plays > 0 /\ opened = "ok"
  BY <1>0 DEF SendSample, RequestsInOrder, SourceStages
<1>3. sample \in Packet /\ sample.op = "ServerSample" /\ sample.streams = {s}
  BY DEF Packet
<1> HIDE DEF sample
<1>4. /\ wire' \in Seq(Packet) /\ Len(wire') = Len(wire) + 1 /\ Len(wire) \in Nat
      /\ \A i \in 1..Len(wire) : wire'[i] = wire[i]
      /\ wire'[Len(wire) + 1] = sample
  BY <1>0, <1>1, <1>3, AppendProperties DEF SessionTypes
<1>5. \A i \in 1..Len(wire') : i \in 1..Len(wire) \/ i = Len(wire) + 1
  BY <1>4
<1>6. SessionTypes' /\ SourceStages'
  BY <1>0, <1>1, <1>4 DEF SessionTypes, SourceStages
<1>7. /\ sourceState # "Invalid" /\ ~connecting
      /\ \A i \in 1..Len(unread) : unread[i] # "description"
  BY <1>0, <1>2 DEF SourceStages, RequestsInOrder
<1>8. RequestsInOrder'
  BY <1>0, <1>1, <1>7 DEF RequestsInOrder
<1>9. ASSUME NEW i \in 1..Len(wire')
      PROVE  /\ wire'[i].op # "ServerDescription"
             /\ wire'[i].op = "ServerSample" =>
                    /\ \E t \in Streams : wire'[i].streams = {t}
                    /\ sourceState # "Shutdown" => wire'[i].streams \subseteq known \cup addedLater
  <2>1. CASE i \in 1..Len(wire)
    BY <1>0, <1>2, <1>4, <2>1 DEF PacketsInOrder
  <2>2. CASE i = Len(wire) + 1
    <3>1. sourceState # "Shutdown" => s \in known \cup addedLater
      BY <1>0, <1>2 DEF PacketsInOrder
    <3> QED
      BY <1>3, <1>4, <2>2, <3>1
  <2> QED
    BY <1>5, <2>1, <2>2
<1>10. PacketsInOrder'
  BY <1>0, <1>1, <1>2, <1>9 DEF PacketsInOrder
<1> QED
  BY <1>6, <1>8, <1>10 DEF SessionInv

(* The source is started, its request ends, and it is shut down.           *)
LEMMA PlayingKeepsSession ==
    ASSUME SessionInv, Play \/ StartEnds \/ Close
    PROVE  SessionInv'
<1>0. SessionTypes /\ SourceStages /\ RequestsInOrder /\ PacketsInOrder
  BY DEF SessionInv
<1>1. CASE Play
  <2>1. /\ opened = "ok" /\ sourceState # "Shutdown"
        /\ UNCHANGED <<opened, connecting, describing, listening, known>>
        /\ sourceState' \in {"Started", "Starting"}
        /\ ~startFailed' => sourceState' = "Started"
        /\ UNCHANGED <<sendingDescription, streams, connected, wire, addedLater>>
        /\ plays' = plays + 1
        /\ unread' = unread \/ unread' = Append(unread, "start")
    <3>1. /\ plays' = plays + 1 /\ UNCHANGED <<wire, addedLater>>
          /\ \/ Source!Start /\ SendRequest("start")
             \/ Source!StartFails /\ startFailed' = TRUE /\ UNCHANGED vars
      BY <1>1 DEF Play
    <3>2. CASE Source!Start /\ SendRequest("start")
      BY <3>1, <3>2 DEF Source!Start, Source!Startable, SendRequest, async, perStream
    <3>3. CASE Source!StartFails /\ startFailed' = TRUE /\ UNCHANGED vars
      BY <3>1, <3>3, VarsKept DEF Source!StartFails, Source!Startable
    <3> QED
      BY <3>1, <3>2, <3>3
  <2>2. plays \in Nat /\ plays' \in Nat /\ plays' > 0
    BY <1>0, <2>1 DEF SessionTypes
  <2>3. unread \in Seq({"description", "start"})
    BY <1>0 DEF SessionTypes
  <2>4. \A i \in 1..Len(unread) : unread[i] # "description"
    BY <1>0, <2>1 DEF RequestsInOrder
  <2>5. /\ unread' \in Seq({"description", "start"})
        /\ \A i \in 1..Len(unread') : unread'[i] # "description"
    <3>1. CASE unread' = unread
      BY <2>3, <2>4, <3>1
    <3>2. CASE unread' = Append(unread, "start")
      <4> DEFINE longer == Append(unread, "start")
      <4>1. /\ longer \in Seq({"description", "start"}) /\ Len(longer) = Len(unread) + 1
            /\ \A i \in 1..Len(unread) : longer[i] = unread[i]
            /\ longer[Len(unread) + 1] = "start" /\ Len(unread) \in Nat
        BY <2>3, AppendProperties
      <4> HIDE DEF longer
      <4>2. \A i \in 1..Len(longer) : i \in 1..Len(unread) \/ i = Len(unread) + 1
        BY <4>1
      <4>3. \A i \in 1..Len(longer) : longer[i] # "description"
        BY <2>4, <4>1, <4>2
      <4> QED
        BY <3>2, <4>1, <4>3 DEF longer
    <3> QED
      BY <2>1, <3>1, <3>2
  <2>6. ~connecting /\ ~describing
    BY <1>0, <2>1 DEF SourceStages
  <2>7. SessionTypes'
    BY <1>0, <2>1, <2>2, <2>5 DEF SessionTypes
  <2>8. SourceStages'
    BY <2>1, <2>2, <2>6 DEF SourceStages
  <2>9. RequestsInOrder'
    BY <2>1, <2>2, <2>5, <2>6 DEF RequestsInOrder
  <2>10. ASSUME NEW i \in 1..Len(wire)
         PROVE  /\ wire[i].op # "ServerDescription"
                /\ wire[i].op = "ServerSample" =>
                       /\ \E t \in Streams : wire[i].streams = {t}
                       /\ wire[i].streams \subseteq known \cup addedLater
    BY <1>0, <2>1 DEF PacketsInOrder
  <2>11. streams \subseteq known \cup addedLater
    BY <1>0, <2>1 DEF PacketsInOrder
  <2>12. PacketsInOrder'
    BY <2>1, <2>2, <2>10, <2>11 DEF PacketsInOrder
  <2> QED
    BY <2>7, <2>8, <2>9, <2>12 DEF SessionInv
<1>2. CASE StartEnds
  <2>1. /\ UNCHANGED <<unread, sendingDescription, streams, connected>>
        /\ UNCHANGED <<wire, plays, addedLater, startFailed>>
    BY <1>2, VarsKept DEF StartEnds, session
  <2>2. starting > 0
    BY <1>2 DEF StartEnds, Source!StartSent, Source!StartNotSent
  <2>3. plays > 0 /\ opened = "ok" /\ sourceState # "Opening"
    BY <1>0, <2>2 DEF SourceStages
  <2>4. UNCHANGED <<sourceState, opened, connecting, describing, listening, known>>
    BY <1>2, <2>3 DEF StartEnds, Source!StartSent, Source!StartNotSent, Source!HandleError
  <2>5. SourceStages'
    BY <1>0, <2>1, <2>3, <2>4 DEF SourceStages
  <2>6. SessionTypes'
    BY <1>0, <2>1, <2>4, QuietKeepsTypes DEF SessionTypes
  <2>7. RequestsInOrder' /\ PacketsInOrder'
    BY <2>1, <2>4, QuietKeepsOrder
  <2> QED
    BY <2>5, <2>6, <2>7 DEF SessionInv
<1>3. CASE Close
  <2>1. /\ UNCHANGED <<unread, sendingDescription, streams, connected>>
        /\ UNCHANGED <<wire, plays, addedLater, startFailed>>
    BY <1>3 DEF Close, async, perStream, session
  <2>2. /\ opened = "ok" /\ sourceState' = "Shutdown"
        /\ UNCHANGED <<opened, connecting, describing, starting, listening>>
    BY <1>3 DEF Close, Source!Shutdown
  <2>3. ~connecting /\ ~describing
    BY <1>0, <2>2 DEF SourceStages
  <2>4. SourceStages'
    BY <1>0, <2>1, <2>2, <2>3 DEF SourceStages
  <2>5. SessionTypes'
    BY <1>0, <2>1, <2>2, QuietKeepsTypes DEF SessionTypes
  <2>6. RequestsInOrder' /\ PacketsInOrder'
    BY <2>1, <2>2, <2>3, QuietKeepsOrder
  <2> QED
    BY <2>4, <2>5, <2>6 DEF SessionInv
<1> QED
  BY <1>1, <1>2, <1>3

LEMMA SessionInvKept ==
    ASSUME SessionInv, [SessionNext]_sessionVars
    PROVE  SessionInv'
<1>1. CASE SinkContinues
  BY <1>1, ContinuationsMove, SinkKeepsSession DEF SinkContinues, SessionInv
<1>2. CASE SinkCalled
  BY <1>2, CallsMove, SinkKeepsSession DEF SinkCalled, SessionInv
<1>3. CASE UNCHANGED sessionVars
  <2>1. UNCHANGED vars /\ UNCHANGED source /\ UNCHANGED session
    BY <1>3 DEF sessionVars
  <2>2. /\ UNCHANGED <<unread, sendingDescription, streams, connected>>
        /\ UNCHANGED <<sourceState, opened, connecting, describing, starting, listening, known,
                       wire, plays, addedLater, startFailed>>
    BY <2>1, VarsKept DEF source, session
  <2>3. SessionTypes /\ SourceStages
    BY DEF SessionInv
  <2>4. SessionTypes' /\ SourceStages'
    BY <2>2, <2>3 DEF SessionTypes, SourceStages
  <2>5. RequestsInOrder' /\ PacketsInOrder'
    BY <2>2, QuietKeepsOrder
  <2> QED
    BY <2>4, <2>5 DEF SessionInv
<1> QED
  BY <1>1, <1>2, <1>3, SamplesKeepSession, OpeningKeepsSession, ReadingKeepsSession,
     PlayingKeepsSession DEF SessionNext, SourceEnds

LEMMA InitSession ==
    ASSUME SessionInit
    PROVE  SessionInv
<1>1. /\ unread = <<>> /\ wire = <<>> /\ plays = 0 /\ sendingDescription = 0
      /\ connected = {} /\ streams \subseteq Streams
  BY DEF SessionInit, Init
<1>2. /\ sourceState = "Invalid" /\ opened = "pending" /\ starting = 0
      /\ connecting = FALSE /\ describing = FALSE /\ listening = FALSE
  BY DEF SessionInit, Source!Init
<1>3. SessionTypes
  <2>1. <<>> \in Seq({"description", "start"}) /\ <<>> \in Seq(Packet) /\ 0 \in Nat
        /\ FALSE \in BOOLEAN
    OBVIOUS
  <2> QED
    BY <1>1, <1>2, <2>1 DEF SessionTypes
<1>4. SourceStages
  BY <1>1, <1>2 DEF SourceStages
<1>5. Len(unread) = 0 /\ Len(wire) = 0
  BY <1>1
<1>6. RequestsInOrder /\ PacketsInOrder
  BY <1>1, <1>2, <1>5 DEF RequestsInOrder, PacketsInOrder
<1> QED
  BY <1>3, <1>4, <1>6 DEF SessionInv

LEMMA OrderIsUnderstood ==
    ASSUME SessionInv
    PROVE  Understood
<1>1. SUFFICES ASSUME listening, wire # <<>>, sourceState # "Shutdown", ~startFailed
               PROVE  \/ Acceptable(Head(wire))
                      \/ Source!Takes(Head(wire).op) /\ Head(wire).streams \subseteq addedLater
  BY DEF Understood
<1>2. /\ 1 \in 1..Len(wire) /\ Head(wire) = wire[1]
      /\ Head(wire).op \in {"ServerDescription", "ServerSample"}
  <2>1. wire \in Seq(Packet)
    BY DEF SessionInv, SessionTypes
  <2> QED
    BY <1>1, <2>1, WireTail DEF Packet
<1>3. CASE Head(wire).op = "ServerDescription"
  <2>1. opened # "ok"
    BY <1>2, <1>3 DEF SessionInv, PacketsInOrder
  <2>2. sourceState = "Opening"
    BY <1>1, <2>1 DEF SessionInv, SessionTypes, SourceStages
  <2>3. Source!Takes(Head(wire).op)
    BY <1>3, <2>2 DEF Source!Takes
  <2>4. CASE Head(wire).streams = {}
    BY <2>3, <2>4
  <2>5. CASE Head(wire).streams # {}
    BY <1>3, <2>3, <2>5 DEF Acceptable
  <2> QED
    BY <2>4, <2>5
<1>4. CASE Head(wire).op = "ServerSample"
  <2>1. /\ plays > 0 /\ \E s \in Streams : Head(wire).streams = {s}
        /\ Head(wire).streams \subseteq known \cup addedLater
    BY <1>1, <1>2, <1>4 DEF SessionInv, PacketsInOrder
  <2>2. sourceState = "Started"
    BY <1>1, <2>1 DEF SessionInv, SourceStages
  <2>3. Source!Takes(Head(wire).op)
    BY <1>4, <2>2 DEF Source!Takes
  <2>4. Head(wire).streams \subseteq known \/ Head(wire).streams \subseteq addedLater
    BY <2>1
  <2> QED
    BY <1>4, <2>3, <2>4 DEF Acceptable
<1> QED
  BY <1>2, <1>3, <1>4

(* The source is never sent a packet it would refuse in the state it is    *)
(* in, except samples of a stream that was added to the sink after it had  *)
(* been described, or by its own fault (CMediaSource::ProcessPacket,       *)
(* CMediaSink::SendDescription).                                           *)
THEOREM UnderstoodHolds == SessionSpec => []Understood
<1>1. SessionInit => SessionInv
  BY InitSession
<1>2. SessionInv /\ [SessionNext]_sessionVars => SessionInv'
  BY SessionInvKept
<1>3. SessionInv => Understood
  BY OrderIsUnderstood
<1> QED
  BY <1>1, <1>2, <1>3, PTL DEF SessionSpec

-----------------------------------------------------------------------------
(* The locks of sink and proxy, for every set of threads.  Consistent says *)
(* which locks a thread holds by where it is, and is inductive; from it, a *)
(* cyclic wait can only be an error that meets the disposal of the proxy.  *)
LEMMA LocksStart == LocksInit => Consistent
  BY ThreadsAssumption DEF LocksInit, Consistent, LocksTypeOK, LocksMatchPlaces, Locations, Threads

(* What a step of one thread does to the places of the others: nothing.    *)
LEMMA OtherThreadsStay ==
    ASSUME LocksTypeOK, NEW t \in Threads, NEW from, NEW to, Goes(t, from, to)
    PROVE  /\ pc[t] = from /\ pc'[t] = to
           /\ \A u \in Threads \ {t} : pc'[u] = pc[u]
  BY DEF LocksTypeOK, Goes

LEMMA LocksKeepTypes ==
    ASSUME LocksTypeOK, NEW t \in Threads, Step(t)
    PROVE  LocksTypeOK'
<1> USE DEF LocksTypeOK, Goes, Locations
<1>1. CASE TakeSinkLock(t)   BY <1>1 DEF TakeSinkLock
<1>2. CASE TakeProxyLock(t)  BY <1>2 DEF TakeProxyLock
<1>3. CASE DisposeSink(t)    BY <1>3 DEF DisposeSink
<1>4. CASE ShutdownBody(t)   BY <1>4 DEF ShutdownBody
<1>5. CASE ReportShutdown(t) BY <1>5 DEF ReportShutdown
<1>6. CASE Return(t)         BY <1>6 DEF Return
<1>7. QED  BY <1>1, <1>2, <1>3, <1>4, <1>5, <1>6 DEF Step

LEMMA LocksKeepPlaces ==
    ASSUME Consistent, NEW t \in Threads, Step(t)
    PROVE  LocksMatchPlaces'
<1>0. /\ LocksTypeOK /\ LocksMatchPlaces
      /\ Free \notin Threads
      /\ t \in Pipeline \/ t \in Handlers \/ t \in Application
  BY ThreadsAssumption DEF Consistent, Threads
<1> USE DEF LocksMatchPlaces, MayTake
<1>1. CASE TakeSinkLock(t)
  <2>1. pc[t] = "idle" /\ pc'[t] = "shutting down"
        /\ \A u \in Threads \ {t} : pc'[u] = pc[u]
    BY <1>0, <1>1, OtherThreadsStay DEF TakeSinkLock
  <2>2. t \notin Application
    BY <1>1, ThreadsAssumption DEF TakeSinkLock
  <2>3. QED  BY <1>0, <1>1, <2>1, <2>2 DEF TakeSinkLock
<1>2. CASE TakeProxyLock(t)
  <2>1. pc[t] = "idle" /\ pc'[t] \in {"disposing", "returning"}
        /\ \A u \in Threads \ {t} : pc'[u] = pc[u]
    BY <1>0, <1>2, OtherThreadsStay DEF TakeProxyLock
  <2>2. QED  BY <1>0, <1>2, <2>1 DEF TakeProxyLock
<1>3. CASE DisposeSink(t)
  <2>1. pc[t] = "disposing" /\ pc'[t] = "shutting down"
        /\ \A u \in Threads \ {t} : pc'[u] = pc[u]
    BY <1>0, <1>3, OtherThreadsStay DEF DisposeSink
  <2>2. QED  BY <1>0, <1>3, <2>1 DEF DisposeSink
<1>4. CASE ShutdownBody(t)
  <2>1. pc[t] = "shutting down" /\ pc'[t] \in {"returning", "reporting"}
        /\ \A u \in Threads \ {t} : pc'[u] = pc[u]
    BY <1>0, <1>4, OtherThreadsStay DEF ShutdownBody
  <2>2. QED  BY <1>0, <1>4, <2>1 DEF ShutdownBody, KeepsLock
<1>5. CASE ReportShutdown(t)
  <2>1. pc[t] = "reporting" /\ pc'[t] = "returning"
        /\ \A u \in Threads \ {t} : pc'[u] = pc[u]
    BY <1>0, <1>5, OtherThreadsStay DEF ReportShutdown
  <2>2. QED  BY <1>0, <1>5, <2>1 DEF ReportShutdown
<1>6. CASE Return(t)
  <2>1. pc[t] = "returning" /\ pc'[t] = "done"
        /\ \A u \in Threads \ {t} : pc'[u] = pc[u]
    BY <1>0, <1>6, OtherThreadsStay DEF Return
  <2>2. QED  BY <1>0, <1>6, <2>1 DEF Return
<1>7. QED  BY <1>1, <1>2, <1>3, <1>4, <1>5, <1>6 DEF Step

(* Which locks a thread holds follows from where it is, for any number of  *)
(* threads that shut the sink down.                                        *)
THEOREM LocksConsistent == LocksSpec => []Consistent
<1>1. Consistent /\ [LocksNext]_lockVars => Consistent'
  <2> SUFFICES ASSUME Consistent, [LocksNext]_lockVars PROVE Consistent'
    OBVIOUS
  <2>1. CASE LocksNext
    <3>1. PICK t \in Threads : Step(t)
      BY <2>1 DEF LocksNext
    <3>2. QED  BY <3>1, LocksKeepTypes, LocksKeepPlaces DEF Consistent
  <2>2. CASE UNCHANGED lockVars
    BY <2>2 DEF lockVars, Consistent, LocksTypeOK, LocksMatchPlaces
  <2>3. QED  BY <2>1, <2>2
<1>2. QED  BY LocksStart, <1>1, PTL DEF LocksSpec

(* A cyclic wait between any two threads is an error in a continuation     *)
(* that meets the disposal of the proxy: no other use of the sink can      *)
(* deadlock on its two locks.                                              *)
THEOREM OnlyOneDeadlock == LocksSpec => []OnlyErrorMeetsDispose
<1>1. Consistent => OnlyErrorMeetsDispose
  BY DEF Consistent, LocksMatchPlaces, OnlyErrorMeetsDispose, WaitsForProxy, WaitsForSink
<1>2. QED  BY LocksConsistent, <1>1, PTL
=============================================================================
