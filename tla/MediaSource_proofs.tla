------------------------- MODULE MediaSource_proofs -------------------------
(***************************************************************************)
(* What holds of the media source for any streams, plans and sizes.  First *)
(* the types, then the way from OpenAsync to a source that is open, then   *)
(* what its operations leave behind, then that it implements               *)
(* SourceProtocol, and last that it takes from the stream the packets the  *)
(* server put there, however the network cut it, and expects each of them. *)
(***************************************************************************)
EXTENDS MediaSource, SequenceTheorems, FiniteSetTheorems, WellFoundedInduction, TLAPS

Answer == [type : {"Start", "Stop", "SetRate"}, failed : BOOLEAN]

(* Every operation that waits was asked for, and so was every start that   *)
(* is being sent.                                                          *)
CallsAccounted == starting + Len(opQueue) <= calls

Descriptions == Seq([op : Received, size : 1..MaxPacketSize])

TypeInv ==
    /\ TypeOK
    /\ opQueue \in Seq(Operation) /\ answered \in Seq(Answer)
    /\ sent \in Descriptions /\ sent # <<>>
    /\ completions \in Nat
    /\ flRate \in {0, 1} /\ asked \in {0, 1} /\ swallowed \in BOOLEAN
    /\ CallsAccounted

(* A buffer that was read is not empty.                                    *)
LEMMA BufferNotEmpty ==
    ASSUME NEW s, NEW n \in Nat, n >= 1
    PROVE  SubSeq(s, 1, n) # <<>>
<1> DEFINE Bytes == {s[i] : i \in 1..n}
           read == SubSeq(s, 1, n)
<1>1. \A i \in 1..n : s[i] \in Bytes
  OBVIOUS
<1>2. 1 \in Int /\ n \in Int
  OBVIOUS
<1> HIDE DEF Bytes
<1>3. Len(read) = n
  BY <1>1, <1>2, SubSeqProperties
<1> HIDE DEF read
<1>4. read # <<>>
  BY <1>3
<1> QED
  BY <1>4 DEF read

(* The handlers that the steps of the source leave to its parser.          *)
LEMMA BytesFill ==
    ASSUME NEW n, SizesAssumption, BytesArrive(n)
    PROVE  receiving /\ receiving' = FALSE /\ receiveBuffer' # <<>>
<1>1. n \in Nat /\ n >= 1
  BY DEF BytesArrive, SizesAssumption
<1> QED
  BY <1>1, BufferNotEmpty DEF BytesArrive

LEMMA HeadersTyped ==
    ASSUME TypeInv, SizesAssumption, NEW h \in Headers
    PROVE  h \in Header
<1>1. CASE HeaderComplete
  <2> DEFINE bytes == CopyTo(Added, HeaderSize)
  <2> HIDE DEF bytes
  <2>1. h \in Decoded(bytes)
    BY <1>1 DEF Headers, bytes
  <2>2. CASE {k \in 1..Len(sent) : HeaderBytes(k) = bytes} # {}
    <3>1. PICK k \in 1..Len(sent) : h = [op |-> sent[k].op, size |-> sent[k].size]
      BY <2>1, <2>2 DEF Decoded
    <3>2. sent[k] \in [op : Received, size : 1..MaxPacketSize]
      <4> DEFINE Packets == [op : Received, size : 1..MaxPacketSize]
      <4>1. sent \in Seq(Packets)
        BY DEF TypeInv, Descriptions
      <4> HIDE DEF Packets
      <4>2. sent[k] \in Packets
        BY <4>1
      <4> QED
        BY <4>2 DEF Packets
    <3>3. sent[k].op \in Received /\ sent[k].size \in 0..MaxPacketSize + 1
      BY <3>2 DEF SizesAssumption
    <3> QED
      BY <3>1, <3>3 DEF Header
  <2>3. CASE {k \in 1..Len(sent) : HeaderBytes(k) = bytes} = {}
    BY <2>1, <2>3 DEF Decoded, SizesAssumption
  <2> QED
    BY <2>2, <2>3
<1>2. CASE ~HeaderComplete /\ header.op = "Unknown"
  <2>1. h = [header EXCEPT !.size = MaxPacketSize]
    BY <1>2 DEF Headers
  <2>2. header \in Header /\ MaxPacketSize \in 0..MaxPacketSize + 1
    BY DEF TypeInv, TypeOK, SizesAssumption
  <2> QED
    BY <2>1, <2>2 DEF Header
<1>3. CASE ~HeaderComplete /\ header.op # "Unknown"
  BY <1>3 DEF Headers, TypeInv, TypeOK
<1> QED
  BY <1>1, <1>2, <1>3
-----------------------------------------------------------------------------
(* What waits in the queue is an operation.                                *)
LEMMA DispatchTyped ==
    ASSUME TypeInv, NEW op, NEW failed \in BOOLEAN, Dispatch(op, failed)
    PROVE  /\ op \in Operation
           /\ opQueue' \in Seq(Operation) /\ Len(opQueue') = Len(opQueue) - 1
           /\ answered' \in Seq(Answer)
           /\ Len(opQueue) > 0
<1>1. opQueue \in Seq(Operation) /\ opQueue # <<>> /\ answered \in Seq(Answer)
  BY DEF TypeInv, Dispatch
<1>2. op = Head(opQueue) /\ opQueue' = Tail(opQueue)
  BY DEF Dispatch
<1>3. op \in Operation /\ opQueue' \in Seq(Operation) /\ Len(opQueue') = Len(opQueue) - 1
  BY <1>1, <1>2, HeadTailProperties
<1>4. Len(opQueue) > 0
  BY <1>1, EmptySeq
<1>5. op.type \in {"Start", "Stop", "SetRate"}
  BY <1>3 DEF Operation
<1>6. [type |-> op.type, failed |-> failed] \in Answer
  BY <1>5 DEF Answer
<1>7. answered' \in Seq(Answer)
  BY <1>1, <1>6, AppendProperties DEF Dispatch
<1> QED
  BY <1>3, <1>4, <1>7

LEMMA QueueTyped ==
    ASSUME TypeInv, NEW op \in Operation, QueueOperation(op)
    PROVE  opQueue' \in Seq(Operation) /\ Len(opQueue') = Len(opQueue) + 1
<1>1. opQueue \in Seq(Operation)
  BY DEF TypeInv
<1> QED
  BY <1>1, AppendProperties DEF QueueOperation

(* The parser alone: a step of it leaves its part of the types.            *)
ParserTypes ==
    /\ header \in Header /\ receiving \in BOOLEAN
    /\ sent \in Descriptions /\ sent # <<>>
    /\ answers \in 0..Len(sent)

SourceTypes ==
    /\ sourceState \in {"Invalid", "Opening", "Starting", "Started", "Stopped", "Shutdown"}
    /\ opened \in {"pending", "ok", "failed"} /\ completions \in Nat
    /\ connecting \in BOOLEAN /\ describing \in BOOLEAN
    /\ errors \in Nat

PlaybackTypes ==
    /\ streams \subseteq Streams /\ active \subseteq Streams /\ running \subseteq Streams
    /\ flRate \in {0, 1} /\ asked \in {0, 1} /\ swallowed \in BOOLEAN

CallTypes ==
    /\ starting \in 0..MaxCalls /\ calls \in 0..MaxCalls
    /\ opQueue \in Seq(Operation) /\ answered \in Seq(Answer)
    /\ CallsAccounted

LEMMA TypesSplit == TypeInv <=> ParserTypes /\ SourceTypes /\ PlaybackTypes /\ CallTypes
BY DEF TypeInv, TypeOK, ParserTypes, SourceTypes, PlaybackTypes, CallTypes

LEMMA TypesJoin ==
    ASSUME ParserTypes', SourceTypes', PlaybackTypes', CallTypes'
    PROVE  TypeInv'
BY DEF TypeInv, TypeOK, ParserTypes, SourceTypes, PlaybackTypes, CallTypes

LEMMA ParserKept == ASSUME ParserTypes, UNCHANGED parser PROVE ParserTypes'
BY DEF ParserTypes, parser

LEMMA SourceKept ==
    ASSUME SourceTypes, UNCHANGED <<sourceState, open, errors>>
    PROVE  SourceTypes'
BY DEF SourceTypes, open

LEMMA PlaybackKept ==
    ASSUME PlaybackTypes, UNCHANGED <<playback, asked, swallowed>>
    PROVE  PlaybackTypes'
BY DEF PlaybackTypes, playback

LEMMA CallsKept ==
    ASSUME CallTypes, UNCHANGED <<starting, opQueue, answered, calls>>
    PROVE  CallTypes'
BY DEF CallTypes, CallsAccounted

LEMMA InitTyped ==
    ASSUME SizesAssumption, StreamsAssumption, Init
    PROVE  TypeInv
<1>1. ParserTypes
  <2>1. sent \in Descriptions /\ sent # <<>>
    BY DEF Init, ParserInit, SizesAssumption, Descriptions
  <2>2. Len(sent) \in Nat
    BY <2>1 DEF Descriptions
  <2>3. header \in Header
    BY DEF Init, ParserInit, SizesAssumption, Header
  <2>4. answers \in 0..Len(sent)
    BY <2>2 DEF Init, ParserInit
  <2> QED
    BY <2>1, <2>3, <2>4 DEF Init, ParserInit, ParserTypes
<1>2. SourceTypes /\ PlaybackTypes
  BY DEF Init, SourceTypes, PlaybackTypes
<1>3. CallTypes
  BY DEF Init, CallTypes, CallsAccounted, StreamsAssumption
<1> QED
  BY <1>1, <1>2, <1>3, TypesSplit

(* HandleError and CompleteOpen keep the types.                            *)
LEMMA ErrorTyped ==
    ASSUME SourceTypes, HandleError
    PROVE  /\ opened' \in {"pending", "ok", "failed"}
           /\ completions' \in Nat /\ errors' \in Nat
BY DEF SourceTypes, HandleError, CompleteOpen

LEMMA OpeningTyped ==
    ASSUME TypeInv, SizesAssumption, Opening
    PROVE  TypeInv'
<1>0. ParserTypes /\ SourceTypes /\ PlaybackTypes /\ CallTypes
  BY TypesSplit
<1>1. UNCHANGED <<playback, asked, swallowed, starting, opQueue, answered, calls>>
  BY DEF Opening, OpenAsync, Connected, ConnectFailed, DescribeSent, DescribeFailed,
         operations
<1>2. PlaybackTypes' /\ CallTypes'
  BY <1>0, <1>1, PlaybackKept, CallsKept
<1>3. CASE OpenAsync
  <2>1. SourceTypes'
    BY <1>0, <1>3 DEF OpenAsync, SourceTypes
  <2>2. ParserTypes'
    BY <1>0, <1>3, ParserKept DEF OpenAsync
  <2> QED
    BY <1>2, <2>1, <2>2, TypesJoin
<1>4. CASE Connected
  <2>1. Len(sent) \in Nat /\ Len(sent) >= 1
    <3>1. sent \in Descriptions /\ sent # <<>>
      BY DEF TypeInv
    <3> QED
      BY <3>1, EmptySeq DEF Descriptions
  <2>2. header' \in Header
    BY <1>4 DEF Connected, ResetHeader, TypeInv, TypeOK, Header
  <2>3. answers' \in 0..Len(sent) /\ UNCHANGED <<sent, receiving>>
    BY <1>4, <2>1 DEF Connected, ResetHeader, Request
  <2>4. ParserTypes'
    BY <1>0, <2>2, <2>3 DEF ParserTypes
  <2>5. SourceTypes'
    BY <1>0, <1>4 DEF Connected, SourceTypes
  <2> QED
    BY <1>2, <2>4, <2>5, TypesJoin
<1>5. CASE ConnectFailed
  <2>1. SourceTypes'
    BY <1>0, <1>5, ErrorTyped DEF ConnectFailed, SourceTypes
  <2>2. ParserTypes'
    BY <1>0, <1>5, ParserKept DEF ConnectFailed
  <2> QED
    BY <1>2, <2>1, <2>2, TypesJoin
<1>6. CASE DescribeSent
  <2>1. SourceTypes'
    BY <1>0, <1>6 DEF DescribeSent, SourceTypes
  <2>2. ParserTypes'
    BY <1>0, <1>6 DEF DescribeSent, ParserTypes
  <2> QED
    BY <1>2, <2>1, <2>2, TypesJoin
<1>7. CASE DescribeFailed
  <2>1. SourceTypes'
    BY <1>0, <1>7, ErrorTyped DEF DescribeFailed, SourceTypes
  <2>2. ParserTypes'
    BY <1>0, <1>7, ParserKept DEF DescribeFailed
  <2> QED
    BY <1>2, <2>1, <2>2, TypesJoin
<1> QED
  BY <1>3, <1>4, <1>5, <1>6, <1>7 DEF Opening

LEMMA HeaderReset ==
    ASSUME TypeInv, ResetHeader
    PROVE  header' \in Header /\ UNCHANGED <<sent, receiving>>
BY DEF ResetHeader, TypeInv, TypeOK, Header

(* The steps of the parser, whatever packet there is.                      *)
LEMMA TurnTyped ==
    ASSUME TypeInv, SizesAssumption, NEW h, NEW buffers, Turn(h, buffers),
           \/ AwaitMore(h, buffers) \/ PacketDone(h, buffers)
           \/ RejectPacket(h, buffers) \/ PacketRefused(h, buffers)
    PROVE  ParserTypes'
<1>1. h \in Header
  BY HeadersTyped DEF Turn
<1>2. [h EXCEPT !.op = "Unknown"] \in Header
  BY <1>1 DEF Header
<1>3. header' \in Header
  BY <1>1, <1>2 DEF AwaitMore, PacketDone, RejectPacket, PacketRefused
<1>4. receiving' \in BOOLEAN
  BY DEF AwaitMore, PacketDone, RejectPacket, PacketRefused, TypeInv, TypeOK
<1>5. UNCHANGED <<sent, answers>>
  BY DEF AwaitMore, PacketDone, RejectPacket, PacketRefused
<1>6. ParserTypes
  BY TypesSplit
<1> QED
  BY <1>3, <1>4, <1>5, <1>6 DEF ParserTypes

LEMMA ReceivingTyped ==
    ASSUME TypeInv, SizesAssumption, StreamsAssumption, Receiving
    PROVE  TypeInv'
<1>0. ParserTypes /\ SourceTypes /\ PlaybackTypes /\ CallTypes
  BY TypesSplit
<1>1. UNCHANGED <<starting, opQueue, answered, calls, asked, swallowed, active,
                  running, flRate>>
  BY DEF Receiving, Receive, ReceiveFailed, Await, ProcessServerDescription,
         ProcessServerSample, RefusePacket, operations, playback
<1>2. CallTypes'
  BY <1>0, <1>1, CallsKept
<1>3. ASSUME NEW n, Receive(n)
      PROVE  TypeInv'
  <2>1. receiving' = FALSE /\ UNCHANGED <<sent, answers, header>>
    BY <1>3 DEF Receive, BytesArrive
  <2>2. ParserTypes'
    BY <1>0, <2>1 DEF ParserTypes
  <2>3. SourceTypes' /\ PlaybackTypes'
    BY <1>0, <1>3, SourceKept, PlaybackKept DEF Receive, operations
  <2> QED
    BY <1>2, <2>2, <2>3, TypesJoin
<1>4. CASE ReceiveFailed
  <2>1. ParserTypes'
    BY <1>0, <1>4 DEF ReceiveFailed, ParserTypes
  <2>2. SourceTypes'
    BY <1>0, <1>4, ErrorTyped DEF ReceiveFailed, SourceTypes
  <2>3. PlaybackTypes'
    BY <1>0, <1>4, PlaybackKept DEF ReceiveFailed, operations
  <2> QED
    BY <1>2, <2>1, <2>2, <2>3, TypesJoin
<1>5. ASSUME NEW h, NEW buffers, Await(h, buffers) \/ ProcessServerSample(h, buffers)
      PROVE  TypeInv'
  <2>1. ParserTypes'
    BY <1>5, TurnTyped DEF Await, ProcessServerSample
  <2>2. SourceTypes' /\ PlaybackTypes'
    BY <1>0, <1>5, SourceKept, PlaybackKept DEF Await, ProcessServerSample, operations
  <2> QED
    BY <1>2, <2>1, <2>2, TypesJoin
<1>6. ASSUME NEW h, NEW buffers, ProcessServerDescription(h, buffers)
      PROVE  TypeInv'
  <2>1. ParserTypes'
    BY <1>6, TurnTyped DEF ProcessServerDescription
  <2>2. SourceTypes'
    BY <1>0, <1>6 DEF ProcessServerDescription, CompleteOpen, SourceTypes
  <2>3. PlaybackTypes'
    BY <1>0, <1>1, <1>6 DEF ProcessServerDescription, PlaybackTypes
  <2> QED
    BY <1>2, <2>1, <2>2, <2>3, TypesJoin
<1>7. ASSUME NEW h, NEW buffers, RefusePacket(h, buffers)
      PROVE  TypeInv'
  <2>1. ParserTypes'
    BY <1>7, TurnTyped DEF RefusePacket
  <2>2. SourceTypes'
    BY <1>0, <1>7, ErrorTyped DEF RefusePacket, SourceTypes
  <2>3. streams' \subseteq Streams
    <3>1. CASE UNCHANGED streams
      BY <1>0, <3>1 DEF PlaybackTypes
    <3>2. CASE \E n \in Streams : streams' = 1..n - 1
      BY <3>2 DEF StreamsAssumption
    <3> QED
      BY <1>7, <3>1, <3>2 DEF RefusePacket
  <2>4. PlaybackTypes'
    BY <1>0, <1>1, <2>3 DEF PlaybackTypes
  <2> QED
    BY <1>2, <2>1, <2>2, <2>4, TypesJoin
<1> QED
  BY <1>3, <1>4, <1>5, <1>6, <1>7 DEF Receiving

LEMMA PerformingTyped ==
    ASSUME TypeInv, SizesAssumption, StreamsAssumption, Performing
    PROVE  TypeInv'
<1>0. ParserTypes /\ SourceTypes /\ PlaybackTypes /\ CallTypes
  BY TypesSplit
<1>1. calls \in Nat /\ calls <= MaxCalls /\ MaxCalls \in Nat /\ starting \in Nat
      /\ starting + Len(opQueue) <= calls /\ Len(opQueue) \in Nat
  BY <1>0 DEF CallTypes, CallsAccounted, StreamsAssumption
<1>2. ASSUME NEW op \in Operation, DoStart(op) \/ DoStartFails(op)
      PROVE  TypeInv'
  <2>1. PICK failed \in BOOLEAN : Dispatch(op, failed)
    BY <1>2 DEF DoStart, DoStartFails
  <2>2. /\ opQueue' \in Seq(Operation) /\ Len(opQueue') = Len(opQueue) - 1
        /\ answered' \in Seq(Answer)
    BY <2>1, DispatchTyped
  <2>3. op.streams \subseteq Streams
    BY <1>2 DEF Operation, DoStart, DoStartFails
  <2>4. header' \in Header /\ UNCHANGED <<sent, receiving>>
    BY <1>2, HeaderReset DEF DoStart, DoStartFails
  <2>5. Len(sent) \in Nat
    BY <1>0 DEF ParserTypes, Descriptions
  <2>6. answers' \in 0..Len(sent)
    <3>1. answers' = answers \/ answers' = Len(sent)
      BY <1>2 DEF DoStart, DoStartFails, Request
    <3>2. answers \in 0..Len(sent)
      BY <1>0 DEF ParserTypes
    <3> QED
      BY <2>5, <3>1, <3>2
  <2>7. ParserTypes'
    BY <1>0, <2>4, <2>6 DEF ParserTypes
  <2>8. SourceTypes'
    BY <1>0, <1>2 DEF DoStart, DoStartFails, SourceTypes, open
  <2>9. PlaybackTypes'
    BY <1>0, <1>2, <2>3 DEF DoStart, DoStartFails, SelectStreams, PlaybackTypes
  <2>10. starting' \in {starting, starting + 1} /\ calls' = calls
    BY <1>2 DEF DoStart, DoStartFails
  <2>11. starting' + Len(opQueue') <= calls' /\ starting' \in 0..MaxCalls
    BY <1>1, <2>2, <2>10, LenProperties
  <2>12. CallTypes'
    BY <1>0, <2>2, <2>10, <2>11 DEF CallTypes, CallsAccounted
  <2> QED
    BY <2>7, <2>8, <2>9, <2>12, TypesJoin
<1>3. ASSUME NEW op \in Operation, DoStop(op) \/ DoSetRate(op)
      PROVE  TypeInv'
  <2>1. PICK failed \in BOOLEAN : Dispatch(op, failed)
    BY <1>3 DEF DoStop, DoSetRate
  <2>2. /\ opQueue' \in Seq(Operation) /\ Len(opQueue') = Len(opQueue) - 1
        /\ answered' \in Seq(Answer)
    BY <2>1, DispatchTyped
  <2>3. UNCHANGED <<parser, sourceState, open, errors, starting, calls>>
    BY <1>3 DEF DoStop, DoSetRate
  <2>4. ParserTypes' /\ SourceTypes'
    BY <1>0, <2>3, ParserKept, SourceKept
  <2>5. flRate' \in {0, 1}
    BY <1>0, <1>3 DEF DoStop, DoSetRate, Operation, PlaybackTypes
  <2>6. PlaybackTypes'
    BY <1>0, <1>3, <2>5 DEF DoStop, DoSetRate, PlaybackTypes
  <2>7. starting' + Len(opQueue') <= calls' /\ starting' \in 0..MaxCalls
    BY <1>0, <1>1, <2>2, <2>3 DEF CallTypes
  <2>8. CallTypes'
    BY <1>0, <2>2, <2>3, <2>7 DEF CallTypes, CallsAccounted
  <2> QED
    BY <2>4, <2>6, <2>8, TypesJoin
<1>4. CASE StartSent \/ StartNotSent
  <2>1. UNCHANGED parser /\ UNCHANGED <<playback, asked, swallowed>>
    BY <1>4 DEF StartSent, StartNotSent, operations
  <2>2. ParserTypes' /\ PlaybackTypes'
    BY <1>0, <2>1, ParserKept, PlaybackKept
  <2>3. SourceTypes'
    BY <1>0, <1>4, ErrorTyped DEF StartSent, StartNotSent, SourceTypes, open
  <2>4. starting > 0 /\ starting' = starting - 1 /\ UNCHANGED <<opQueue, answered, calls>>
    BY <1>4 DEF StartSent, StartNotSent, operations
  <2>5. starting' \in 0..MaxCalls /\ starting' + Len(opQueue') <= calls'
    BY <1>1, <2>4
  <2>6. CallTypes'
    BY <1>0, <2>4, <2>5 DEF CallTypes, CallsAccounted
  <2> QED
    BY <2>2, <2>3, <2>6, TypesJoin
<1> QED
  BY <1>2, <1>3, <1>4 DEF Performing

LEMMA CallingTyped ==
    ASSUME TypeInv, StreamsAssumption, Calling
    PROVE  TypeInv'
<1>0. ParserTypes /\ SourceTypes /\ PlaybackTypes /\ CallTypes
  BY TypesSplit
<1>1. calls \in Nat /\ calls <= MaxCalls /\ MaxCalls \in Nat /\ starting \in Nat
      /\ starting + Len(opQueue) <= calls /\ Len(opQueue) \in Nat
  BY <1>0 DEF CallTypes, CallsAccounted, StreamsAssumption
<1>2. CASE Shutdown
  <2>1. ParserTypes'
    BY <1>0, <1>2, ParserKept DEF Shutdown
  <2>2. SourceTypes' /\ PlaybackTypes'
    BY <1>0, <1>2 DEF Shutdown, SourceTypes, PlaybackTypes, open, operations
  <2>3. CallTypes'
    BY <1>0, <1>2, CallsKept DEF Shutdown, operations
  <2> QED
    BY <2>1, <2>2, <2>3, TypesJoin
<1>3. ASSUME Called,
             UNCHANGED opQueue \/ \E op \in Operation : QueueOperation(op),
             asked' \in {0, 1}, swallowed' \in BOOLEAN
      PROVE  TypeInv'
  <2>1. opQueue' \in Seq(Operation) /\ Len(opQueue') <= Len(opQueue) + 1
        /\ Len(opQueue') \in Nat
    <3>1. CASE UNCHANGED opQueue
      BY <1>0, <1>1, <3>1 DEF CallTypes
    <3>2. CASE \E op \in Operation : QueueOperation(op)
      BY <1>1, <3>2, QueueTyped
    <3> QED
      BY <1>3, <3>1, <3>2
  <2>2. calls < MaxCalls /\ calls' = calls + 1 /\ UNCHANGED <<starting, answered>>
    BY <1>3 DEF Called
  <2>3. starting' + Len(opQueue') <= calls' /\ calls' \in 0..MaxCalls
    BY <1>1, <2>1, <2>2
  <2>4. CallTypes'
    BY <1>0, <2>1, <2>2, <2>3 DEF CallTypes, CallsAccounted
  <2>5. ParserTypes' /\ SourceTypes'
    BY <1>0, <1>3, ParserKept, SourceKept DEF Called
  <2>6. PlaybackTypes'
    BY <1>0, <1>3 DEF Called, playback, PlaybackTypes
  <2> QED
    BY <2>4, <2>5, <2>6, TypesJoin
<1>4. ASSUME NEW selected \in SUBSET Streams, Start(selected)
      PROVE  TypeInv'
  <2>1. [type |-> "Start", streams |-> selected] \in Operation
    BY DEF Operation
  <2>2. asked' \in {0, 1} /\ swallowed' \in BOOLEAN
    BY <1>0, <1>4 DEF Start, PlaybackTypes
  <2> QED
    BY <1>3, <1>4, <2>1, <2>2 DEF Start
<1>5. CASE Stop
  <2>1. [type |-> "Stop"] \in Operation
    BY DEF Operation
  <2>2. asked' \in {0, 1} /\ swallowed' \in BOOLEAN
    BY <1>0, <1>5 DEF Stop, PlaybackTypes
  <2> QED
    BY <1>3, <1>5, <2>1, <2>2 DEF Stop
<1>6. ASSUME NEW rate \in {0, 1}, SetRate(rate)
      PROVE  TypeInv'
  <2>1. [type |-> "SetRate", rate |-> rate] \in Operation
    BY DEF Operation
  <2>2. asked' \in {0, 1}
    BY <1>6 DEF SetRate
  <2>3. swallowed' \in BOOLEAN
    BY <1>0, <1>6 DEF SetRate, PlaybackTypes, RateWaits
  <2> QED
    BY <1>3, <1>6, <2>1, <2>2, <2>3 DEF SetRate
<1> QED
  BY <1>2, <1>4, <1>5, <1>6 DEF Calling

LEMMA TypesKept ==
    ASSUME TypeInv, SizesAssumption, StreamsAssumption, [Next]_vars
    PROVE  TypeInv'
<1>1. CASE UNCHANGED vars
  <2>1. ParserTypes /\ SourceTypes /\ PlaybackTypes /\ CallTypes
    BY TypesSplit
  <2> QED
    BY <1>1, <2>1, ParserKept, SourceKept, PlaybackKept, CallsKept, TypesJoin
       DEF vars, operations
<1> QED
  BY <1>1, OpeningTyped, ReceivingTyped, PerformingTyped, CallingTyped DEF Next

(* The fields hold what their declarations allow, and no more operations   *)
(* wait and starts are being sent than were asked for (CMediaSource).      *)
THEOREM TypeCorrect == Spec => []TypeOK
<1>1. Init => TypeInv
  BY InitTyped, SizesAssumption, StreamsAssumption
<1>2. TypeInv /\ [Next]_vars => TypeInv'
  BY TypesKept, SizesAssumption, StreamsAssumption
<1>3. TypeInv => TypeOK
  BY DEF TypeInv
<1> QED
  BY <1>1, <1>2, <1>3, PTL DEF Spec
-----------------------------------------------------------------------------
(* Until the open has ended the source is in one stage of it at a time:    *)
(* the connection is made, the description is requested, a read is         *)
(* outstanding or its handler runs.                                        *)
OneStage ==
    /\ ~(connecting /\ (describing \/ receiving \/ receiveBuffer # <<>>))
    /\ ~(describing /\ (receiving \/ receiveBuffer # <<>>))
    /\ ~(receiving /\ receiveBuffer # <<>>)

(* Nothing goes on before OpenAsync.  A source that is still opening but   *)
(* whose open has ended is left alone.                                     *)
StagesBelong ==
    /\ sourceState = "Invalid" => ~connecting /\ ~describing /\ ~receiving /\ Unlocked
    /\ connecting \/ describing => sourceState = "Opening" /\ opened = "pending"
    /\ opened = "pending" => sourceState \in {"Invalid", "Opening"}
    /\ sourceState = "Invalid" => opened = "pending"
    /\ sourceState = "Opening" /\ opened # "pending" => ~receiving /\ Unlocked

(* Operations and starts are those of a source that is open.               *)
OpenBeforeUse == opQueue # <<>> \/ starting > 0 => opened = "ok"

OpenInv == OneStage /\ StagesBelong /\ OpenBeforeUse /\ OpensAndHears

(* The last rate that waits is the one asked for last.                     *)
LastWaiting(i) ==
    /\ opQueue[i].type = "SetRate"
    /\ \A j \in i + 1..Len(opQueue) : opQueue[j].type # "SetRate"

RateInv ==
    ~swallowed =>
        /\ ~RateWaits => flRate = asked
        /\ \A i \in 1..Len(opQueue) : LastWaiting(i) => opQueue[i].rate = asked

(* A turn that goes on: it ends in a read or in the next turn.             *)
LEMMA TurnGoesOn ==
    ASSUME TypeInv, OpenInv, NEW h, NEW buffers, Turn(h, buffers),
           AwaitMore(h, buffers) \/ PacketDone(h, buffers)
    PROVE  /\ receiveBuffer # <<>> /\ ~receiving
           /\ receiving' <=> receiveBuffer' = <<>>
           /\ receiving' \in BOOLEAN
<1>1. receiveBuffer # <<>> /\ ~receiving
  BY DEF Turn, OpenInv, OneStage
<1>2. CASE AwaitMore(h, buffers)
  BY <1>1, <1>2 DEF AwaitMore
<1>3. CASE PacketDone(h, buffers)
  BY <1>1, <1>3 DEF PacketDone
<1> QED
  BY <1>1, <1>2, <1>3

LEMMA TurnEnds ==
    ASSUME OpenInv, NEW h, NEW buffers, RefusePacket(h, buffers)
    PROVE  receiveBuffer # <<>> /\ ~receiving /\ receiving' = receiving /\ receiveBuffer' = <<>>
BY DEF RefusePacket, Turn, RejectPacket, PacketRefused, OpenInv, OneStage

(* What an error does in a source whose open has, or has not, ended.       *)
LEMMA ErrorEnds ==
    ASSUME TypeInv, OpenInv, HandleError, sourceState = "Opening" => opened = "pending"
    PROVE  /\ sourceState = "Opening" => opened' # "pending"
           /\ opened' # opened =>
                 sourceState = "Opening" /\ opened = "pending" /\ opened' = "failed"
           /\ completions' = IF opened' = "pending" THEN 0 ELSE 1
           /\ sourceState \in {"Stopped", "Starting", "Started"} => errors' > 0
           /\ errors > 0 => errors' > 0
<1>1. errors \in Nat /\ completions = (IF opened = "pending" THEN 0 ELSE 1)
  BY DEF TypeInv, TypeOK, OpenInv, OpensAndHears, OpenEndsOnce
<1>2. errors' = IF sourceState \in {"Opening", "Shutdown"} THEN errors ELSE errors + 1
  BY DEF HandleError
<1>3. CASE sourceState = "Opening"
  <2>1. opened' = IF opened = "pending" THEN "failed" ELSE opened
    BY <1>3 DEF HandleError, CompleteOpen
  <2>2. opened = "pending" /\ completions' = completions + 1
    BY <1>3 DEF HandleError, CompleteOpen
  <2> QED
    BY <1>1, <1>2, <1>3, <2>1, <2>2
<1>4. CASE sourceState # "Opening"
  <2>1. UNCHANGED <<opened, completions>>
    BY <1>4 DEF HandleError
  <2>2. errors > 0 => errors' > 0
    BY <1>1, <1>2
  <2>3. sourceState \in {"Stopped", "Starting", "Started"} => errors' > 0
    BY <1>1, <1>2
  <2> QED
    BY <1>1, <1>4, <2>1, <2>2, <2>3
<1> QED
  BY <1>3, <1>4

LEMMA OpeningOpens ==
    ASSUME TypeInv, OpenInv, Opening
    PROVE  OpenInv'
<1>1. OneStage /\ StagesBelong /\ OpenBeforeUse /\ OpenEndsOnce /\ NeverSilentlyDeaf
  BY DEF OpenInv, OpensAndHears
<1>2. /\ connecting \in BOOLEAN /\ describing \in BOOLEAN /\ receiving \in BOOLEAN
      /\ sourceState \in {"Invalid", "Opening", "Starting", "Started", "Stopped", "Shutdown"}
      /\ opened \in {"pending", "ok", "failed"} /\ errors \in Nat
  BY DEF TypeInv, TypeOK
<1> USE DEF OpenInv, OneStage, StagesBelong, OpenBeforeUse, OpensAndHears, OpenEndsOnce,
            NeverSilentlyDeaf, Unlocked
<1>3. CASE OpenAsync
  BY <1>1, <1>2, <1>3 DEF OpenAsync, parser, operations
<1>4. CASE Connected
  <2>1. UNCHANGED <<receiving, receiveBuffer, sourceState, opened, completions, opQueue,
                    starting, errors>>
    BY <1>4 DEF Connected, ResetHeader, operations
  <2>2. connecting /\ ~connecting' /\ describing'
    BY <1>4 DEF Connected
  <2> QED
    BY <1>1, <1>2, <2>1, <2>2
<1>5. CASE ConnectFailed
  <2>1. sourceState = "Opening" /\ opened = "pending"
    BY <1>1, <1>5 DEF ConnectFailed
  <2>2. opened' = "failed" /\ completions' = 1
    BY <1>5, <2>1, ErrorEnds DEF ConnectFailed, HandleError, CompleteOpen
  <2>3. /\ UNCHANGED <<receiving, receiveBuffer, describing, opQueue, starting>>
        /\ ~connecting' /\ connecting /\ sourceState' = "Shutdown"
    BY <1>5 DEF ConnectFailed, parser, operations
  <2> QED
    BY <1>1, <1>2, <2>1, <2>2, <2>3
<1>6. CASE DescribeSent
  <2>1. UNCHANGED <<receiveBuffer, sourceState, opened, completions, connecting, opQueue,
                    starting, errors>>
    BY <1>6 DEF DescribeSent, operations
  <2>2. describing /\ ~describing' /\ receiving'
    BY <1>6 DEF DescribeSent
  <2> QED
    BY <1>1, <1>2, <2>1, <2>2
<1>7. CASE DescribeFailed
  <2>1. sourceState = "Opening" /\ opened = "pending"
    BY <1>1, <1>7 DEF DescribeFailed
  <2>2. opened' = "failed" /\ completions' = 1
    BY <1>7, <2>1, ErrorEnds DEF DescribeFailed, HandleError, CompleteOpen
  <2>3. /\ UNCHANGED <<receiving, receiveBuffer, connecting, opQueue, starting, sourceState>>
        /\ ~describing' /\ describing
    BY <1>7 DEF DescribeFailed, parser, operations
  <2> QED
    BY <1>1, <1>2, <2>1, <2>2, <2>3
<1> QED
  BY <1>3, <1>4, <1>5, <1>6, <1>7 DEF Opening

LEMMA ReceivingOpens ==
    ASSUME TypeInv, OpenInv, SizesAssumption, Receiving
    PROVE  OpenInv'
<1>1. OneStage /\ StagesBelong /\ OpenBeforeUse /\ OpenEndsOnce /\ NeverSilentlyDeaf
  BY DEF OpenInv, OpensAndHears
<1>2. /\ connecting \in BOOLEAN /\ describing \in BOOLEAN /\ receiving \in BOOLEAN
      /\ sourceState \in {"Invalid", "Opening", "Starting", "Started", "Stopped", "Shutdown"}
      /\ opened \in {"pending", "ok", "failed"} /\ errors \in Nat
  BY DEF TypeInv, TypeOK
<1> USE DEF OpenInv, OneStage, StagesBelong, OpenBeforeUse, OpensAndHears, OpenEndsOnce,
            NeverSilentlyDeaf, Unlocked
<1>3. ASSUME NEW n, Receive(n)
      PROVE  OpenInv'
  <2>1. receiving /\ ~receiving' /\ receiveBuffer = <<>> /\ receiveBuffer' # <<>>
    BY <1>3, BytesFill DEF Receive
  <2>2. UNCHANGED <<sourceState, opened, completions, connecting, describing, starting,
                    opQueue, errors>>
    BY <1>3 DEF Receive, open, operations
  <2> QED
    BY <1>1, <1>2, <2>1, <2>2
<1>4. ASSUME receiving \/ receiveBuffer # <<>>, HandleError, ~receiving', receiveBuffer' = <<>>,
             UNCHANGED <<sourceState, connecting, describing, starting, opQueue>>
      PROVE  OpenInv'
  <2>1. /\ ~connecting /\ ~describing /\ sourceState # "Invalid"
        /\ sourceState = "Opening" => opened = "pending"
    BY <1>1, <1>4
  <2>2. /\ sourceState = "Opening" => opened' = "failed"
        /\ sourceState # "Opening" => opened' = opened
        /\ completions' = IF opened' = "pending" THEN 0 ELSE 1
        /\ sourceState \in {"Stopped", "Starting", "Started"} => errors' > 0
    BY <1>4, <2>1, ErrorEnds
  <2>3. OneStage' /\ StagesBelong' /\ OpenBeforeUse'
    BY <1>1, <1>2, <1>4, <2>1, <2>2
  <2>4. OpenEndsOnce' /\ NeverSilentlyDeaf'
    BY <1>1, <1>2, <1>4, <2>1, <2>2
  <2> QED
    BY <2>3, <2>4
<1>5. CASE ReceiveFailed
  <2>1. receiving /\ ~receiving' /\ receiveBuffer' = <<>> /\ HandleError
    BY <1>5 DEF ReceiveFailed
  <2>2. UNCHANGED <<sourceState, connecting, describing, starting, opQueue>>
    BY <1>5 DEF ReceiveFailed, operations
  <2> QED
    BY <1>4, <2>1, <2>2
<1>6. ASSUME NEW h, NEW buffers, RefusePacket(h, buffers)
      PROVE  OpenInv'
  <2>1. HandleError /\ UNCHANGED <<sourceState, connecting, describing, starting, opQueue>>
    BY <1>6 DEF RefusePacket, operations
  <2> QED
    BY <1>4, <1>6, <2>1, TurnEnds
<1>7. ASSUME NEW h, NEW buffers, Await(h, buffers) \/ ProcessServerSample(h, buffers)
      PROVE  OpenInv'
  <2>1. UNCHANGED <<sourceState, opened, completions, connecting, describing, starting,
                    opQueue, errors>>
    BY <1>7 DEF Await, ProcessServerSample, open, operations
  <2>2. /\ receiveBuffer # <<>> /\ ~receiving
        /\ receiving' <=> receiveBuffer' = <<>>
        /\ receiving' \in BOOLEAN
    BY <1>7, TurnGoesOn DEF Await, ProcessServerSample
  <2> QED
    BY <1>1, <1>2, <2>1, <2>2
<1>8. ASSUME NEW h, NEW buffers, ProcessServerDescription(h, buffers)
      PROVE  OpenInv'
  <2>1. /\ receiveBuffer # <<>> /\ ~receiving
        /\ receiving' <=> receiveBuffer' = <<>>
        /\ receiving' \in BOOLEAN
    BY <1>8, TurnGoesOn DEF ProcessServerDescription
  <2>2. /\ sourceState = "Opening" /\ sourceState' = "Stopped" /\ opened = "pending"
        /\ UNCHANGED <<connecting, describing, starting, opQueue, errors>>
    BY <1>1, <1>8, <2>1 DEF ProcessServerDescription, operations
  <2>3. opened' = "ok" /\ completions' = 1
    BY <1>1, <1>8, <2>2 DEF ProcessServerDescription, CompleteOpen
  <2> QED
    BY <1>1, <1>2, <2>1, <2>2, <2>3
<1> QED
  BY <1>3, <1>5, <1>6, <1>7, <1>8 DEF Receiving

LEMMA PerformingOpens ==
    ASSUME TypeInv, OpenInv, Performing
    PROVE  OpenInv'
<1>1. OneStage /\ StagesBelong /\ OpenBeforeUse /\ OpenEndsOnce /\ NeverSilentlyDeaf
  BY DEF OpenInv, OpensAndHears
<1>2. /\ connecting \in BOOLEAN /\ describing \in BOOLEAN /\ receiving \in BOOLEAN
      /\ sourceState \in {"Invalid", "Opening", "Starting", "Started", "Stopped", "Shutdown"}
      /\ opened \in {"pending", "ok", "failed"} /\ errors \in Nat
  BY DEF TypeInv, TypeOK
<1> USE DEF OpenInv, OneStage, StagesBelong, OpenBeforeUse, OpensAndHears, OpenEndsOnce,
            NeverSilentlyDeaf, Unlocked
<1>3. ASSUME NEW op \in Operation,
             DoStart(op) \/ DoStartFails(op) \/ DoStop(op) \/ DoSetRate(op)
      PROVE  OpenInv'
  <2>1. opQueue # <<>> /\ sourceState # "Shutdown"
    BY <1>3 DEF DoStart, DoStartFails, DoStop, DoSetRate, Dispatch
  <2>2. opened = "ok" /\ sourceState \in {"Starting", "Started", "Stopped"}
    BY <1>1, <1>2, <2>1
  <2>3. UNCHANGED <<receiving, receiveBuffer, opened, completions, connecting, describing,
                    errors>>
    BY <1>3 DEF DoStart, DoStartFails, DoStop, DoSetRate, ResetHeader, parser, open
  <2>4. sourceState' \in {"Starting", "Started", "Stopped"}
    BY <1>3, <2>2 DEF DoStart, DoStartFails, DoStop, DoSetRate
  <2> QED
    BY <1>1, <1>2, <2>2, <2>3, <2>4
<1>4. CASE StartSent \/ StartNotSent
  <2>1. starting > 0 /\ opened = "ok"
    BY <1>1, <1>4 DEF StartSent, StartNotSent
  <2>2. sourceState # "Opening"
    BY <1>1, <2>1
  <2>3. /\ UNCHANGED <<sourceState, receiving, receiveBuffer, opened, completions,
                       connecting, describing>>
        /\ errors > 0 => errors' > 0
    BY <1>2, <1>4, <2>2 DEF StartSent, StartNotSent, HandleError, parser, open
  <2> QED
    BY <1>1, <1>2, <2>1, <2>3
<1> QED
  BY <1>3, <1>4 DEF Performing

LEMMA CallingOpens ==
    ASSUME TypeInv, OpenInv, Calling
    PROVE  OpenInv'
<1>1. OneStage /\ StagesBelong /\ OpenBeforeUse /\ OpenEndsOnce /\ NeverSilentlyDeaf
  BY DEF OpenInv, OpensAndHears
<1>2. /\ connecting \in BOOLEAN /\ describing \in BOOLEAN /\ receiving \in BOOLEAN
      /\ sourceState \in {"Invalid", "Opening", "Starting", "Started", "Stopped", "Shutdown"}
      /\ opened \in {"pending", "ok", "failed"} /\ errors \in Nat
  BY DEF TypeInv, TypeOK
<1> USE DEF OpenInv, OneStage, StagesBelong, OpenBeforeUse, OpensAndHears, OpenEndsOnce,
            NeverSilentlyDeaf, Unlocked
<1>3. /\ opened = "ok"
      /\ UNCHANGED <<receiving, receiveBuffer, opened, completions, connecting, describing,
                     starting, errors>>
      /\ sourceState' \in {sourceState, "Shutdown"}
  BY DEF Calling, Start, Stop, SetRate, Shutdown, Called, parser, open
<1> QED
  BY <1>1, <1>2, <1>3

LEMMA OpenKept ==
    ASSUME TypeInv, OpenInv, SizesAssumption, [Next]_vars
    PROVE  OpenInv'
<1>1. CASE UNCHANGED vars
  BY <1>1 DEF vars, parser, open, operations, OpenInv, OneStage, StagesBelong, OpenBeforeUse,
              OpensAndHears, OpenEndsOnce, NeverSilentlyDeaf, Unlocked
<1> QED
  BY <1>1, OpeningOpens, ReceivingOpens, PerformingOpens, CallingOpens DEF Next

LEMMA InitOpens == ASSUME Init PROVE OpenInv
BY DEF Init, ParserInit, OpenInv, OneStage, StagesBelong, OpenBeforeUse, OpensAndHears,
       OpenEndsOnce, NeverSilentlyDeaf, Unlocked

(* The open of the source ends once, and not in contradiction to what the  *)
(* source can do then; and a source that has not told of an error has a    *)
(* read outstanding, or something under way that leads to one              *)
(* (CompleteOpen, Receive).                                                *)
THEOREM OpensAndHearsHolds == Spec => []OpensAndHears
<1>1. Init => TypeInv /\ OpenInv
  BY InitTyped, InitOpens, SizesAssumption, StreamsAssumption
<1>2. TypeInv /\ OpenInv /\ [Next]_vars => (TypeInv /\ OpenInv)'
  BY TypesKept, OpenKept, SizesAssumption, StreamsAssumption
<1>3. TypeInv /\ OpenInv => OpensAndHears
  BY DEF OpenInv
<1> QED
  BY <1>1, <1>2, <1>3, PTL DEF Spec
-----------------------------------------------------------------------------
(* An operation that is carried out is answered behind the others.         *)
LEMMA AnsweredLast ==
    ASSUME TypeInv, NEW op, NEW failed \in BOOLEAN, Dispatch(op, failed)
    PROVE  /\ Len(answered) \in Nat /\ Len(answered') = Len(answered) + 1
           /\ answered'[Len(answered) + 1].type = op.type
           /\ \A i \in 1..Len(answered) : answered'[i] = answered[i]
<1>1. answered \in Seq(Answer) /\ [type |-> op.type, failed |-> failed] \in Answer
  <2>1. op.type \in {"Start", "Stop", "SetRate"}
    BY DispatchTyped DEF Operation
  <2> QED
    BY <2>1 DEF TypeInv, Answer
<1>2. answered' = Append(answered, [type |-> op.type, failed |-> failed])
  BY DEF Dispatch
<1>3. /\ Len(answered') = Len(answered) + 1
      /\ answered'[Len(answered) + 1] = [type |-> op.type, failed |-> failed]
      /\ \A i \in 1..Len(answered) : answered'[i] = answered[i]
  BY <1>1, <1>2, AppendProperties
<1> QED
  BY <1>1, <1>3

(* A start or a stop leaves the streams as it is answered, whatever was    *)
(* answered before.                                                        *)
LEMMA AnswerDecides ==
    ASSUME TypeInv, NEW op, NEW failed \in BOOLEAN, Dispatch(op, failed),
           op.type \in {"Start", "Stop"},
           op.type = "Start" => active' \subseteq running',
           op.type = "Stop" => active' \cap running' = {}
    PROVE  StreamsAsAnswered'
<1>1. /\ Len(answered) \in Nat /\ Len(answered') = Len(answered) + 1
      /\ answered'[Len(answered) + 1].type = op.type
  BY AnsweredLast
<1> SUFFICES ASSUME NEW i \in 1..Len(answered'), answered'[i].type # "SetRate",
                    \A j \in i + 1..Len(answered') : answered'[j].type = "SetRate"
             PROVE  IF answered'[i].type = "Start" THEN active' \subseteq running'
                                                   ELSE active' \cap running' = {}
  BY DEF StreamsAsAnswered
<1>2. i = Len(answered) + 1
  <2> SUFFICES ASSUME i # Len(answered) + 1
               PROVE  FALSE
    OBVIOUS
  <2>1. Len(answered) + 1 \in i + 1..Len(answered')
    BY <1>1
  <2> QED
    BY <1>1, <2>1
<1> QED
  BY <1>1, <1>2

LEMMA StreamsKept ==
    ASSUME TypeInv, StreamsAsAnswered, SizesAssumption, [Next]_vars
    PROVE  StreamsAsAnswered'
<1>2. ASSUME UNCHANGED <<active, running, answered>>
      PROVE  StreamsAsAnswered'
  BY <1>2 DEF StreamsAsAnswered
<1>3. ASSUME NEW op, DoStart(op) \/ DoStartFails(op)
      PROVE  StreamsAsAnswered'
  <2>1. active' = op.streams /\ running' = running \cup op.streams /\ op.type = "Start"
    BY <1>3 DEF DoStart, DoStartFails, SelectStreams
  <2>2. PICK failed \in BOOLEAN : Dispatch(op, failed)
    BY <1>3 DEF DoStart, DoStartFails
  <2> QED
    BY <2>1, <2>2, AnswerDecides
<1>4. ASSUME NEW op, DoStop(op)
      PROVE  StreamsAsAnswered'
  <2>1. active' \cap running' = {} /\ op.type = "Stop" /\ Dispatch(op, FALSE)
    BY <1>4 DEF DoStop
  <2> QED
    BY <2>1, AnswerDecides
<1>5. ASSUME NEW op, DoSetRate(op)
      PROVE  StreamsAsAnswered'
  <2>1. UNCHANGED <<active, running>> /\ op.type = "SetRate" /\ Dispatch(op, FALSE)
    BY <1>5 DEF DoSetRate
  <2>2. /\ Len(answered) \in Nat /\ Len(answered') = Len(answered) + 1
        /\ answered'[Len(answered) + 1].type = "SetRate"
        /\ \A i \in 1..Len(answered) : answered'[i] = answered[i]
    BY <2>1, AnsweredLast
  <2> SUFFICES ASSUME NEW i \in 1..Len(answered'), answered'[i].type # "SetRate",
                      \A j \in i + 1..Len(answered') : answered'[j].type = "SetRate"
               PROVE  IF answered'[i].type = "Start" THEN active' \subseteq running'
                                                     ELSE active' \cap running' = {}
    BY DEF StreamsAsAnswered
  <2>3. i \in 1..Len(answered)
    BY <2>2
  <2>4. \A j \in i + 1..Len(answered) : answered[j].type = "SetRate"
    BY <2>2, <2>3
  <2> QED
    BY <2>1, <2>2, <2>3, <2>4 DEF StreamsAsAnswered
<1>6. CASE Shutdown
  <2>1. active' = {} /\ running' = {}
    BY <1>6 DEF Shutdown
  <2> QED
    BY <2>1 DEF StreamsAsAnswered
<1>7. CASE Opening
  BY <1>2, <1>7 DEF Opening, OpenAsync, Connected, ConnectFailed, DescribeSent,
                    DescribeFailed, operations, playback
<1>8. CASE Receiving
  BY <1>2, <1>8 DEF Receiving, Receive, ReceiveFailed, Await, ProcessServerDescription,
                    ProcessServerSample, RefusePacket, operations, playback
<1>9. CASE StartSent \/ StartNotSent
  BY <1>2, <1>9 DEF StartSent, StartNotSent, operations, playback
<1>10. CASE Called
  BY <1>2, <1>10 DEF Called, playback
<1>11. CASE UNCHANGED vars
  BY <1>2, <1>11 DEF vars, operations, playback
<1> QED
  BY <1>3, <1>4, <1>5, <1>6, <1>7, <1>8, <1>9, <1>10, <1>11
     DEF Next, Performing, Calling, Start, Stop, SetRate

(* The selected streams run, or do not, as the last start or stop that was *)
(* answered said: SelectStreams may take up and drop any of them, a start  *)
(* may fail after it, and rates may be set in between.                     *)
THEOREM StreamsAsAnsweredHolds == Spec => []StreamsAsAnswered
<1>1. Init => TypeInv /\ StreamsAsAnswered
  BY InitTyped, SizesAssumption, StreamsAssumption DEF Init, StreamsAsAnswered
<1>2. TypeInv /\ StreamsAsAnswered /\ [Next]_vars => (TypeInv /\ StreamsAsAnswered)'
  BY TypesKept, StreamsKept, SizesAssumption, StreamsAssumption
<1> QED
  BY <1>1, <1>2, PTL DEF Spec

(* RateInv of any queue.                                                   *)
WaitsIn(queue) == \E i \in 1..Len(queue) : queue[i].type = "SetRate"

LastIn(queue, i) ==
    /\ queue[i].type = "SetRate"
    /\ \A j \in i + 1..Len(queue) : queue[j].type # "SetRate"

Promised(queue, rate, wanted) ==
    /\ ~WaitsIn(queue) => rate = wanted
    /\ \A i \in 1..Len(queue) : LastIn(queue, i) => queue[i].rate = wanted

LEMMA RateInvIs == RateInv <=> (~swallowed => Promised(opQueue, flRate, asked))
BY DEF RateInv, RateWaits, LastWaiting, Promised, WaitsIn, LastIn

LEMMA RateInvBecomes == (~swallowed' => Promised(opQueue', flRate', asked')) => RateInv'
BY DEF RateInv, RateWaits, LastWaiting, Promised, WaitsIn, LastIn

(* The operation in front goes: another rate is still waiting, or a rate   *)
(* was in front and is set, or none was there.                             *)
LEMMA FrontGoes ==
    ASSUME NEW queue \in Seq(Operation), queue # <<>>, NEW rate, NEW wanted, NEW next,
           Promised(queue, rate, wanted),
           next = IF Head(queue).type = "SetRate" THEN Head(queue).rate ELSE rate
    PROVE  Promised(Tail(queue), next, wanted)
<1> DEFINE rest == Tail(queue)
<1>1. /\ rest \in Seq(Operation) /\ Len(rest) = Len(queue) - 1
      /\ \A i \in 1..Len(rest) : rest[i] = queue[i + 1]
      /\ Head(queue) = queue[1]
  BY HeadTailProperties
<1>2. Len(queue) \in Nat /\ Len(queue) > 0 /\ Len(rest) \in Nat
  BY <1>1, EmptySeq
<1> HIDE DEF rest
<1>3. ASSUME NEW i \in 1..Len(rest), LastIn(rest, i)
      PROVE  rest[i].rate = wanted
  <2>1. i + 1 \in 1..Len(queue) /\ queue[i + 1].type = "SetRate"
    BY <1>1, <1>2, <1>3 DEF LastIn
  <2>2. ASSUME NEW j \in i + 2..Len(queue)
        PROVE  queue[j].type # "SetRate"
    <3>1. j - 1 \in i + 1..Len(rest) /\ j - 1 \in 1..Len(rest) /\ rest[j - 1] = queue[j - 1 + 1]
      BY <1>1, <1>2
    <3>2. rest[j - 1].type # "SetRate"
      BY <1>3, <3>1 DEF LastIn
    <3>3. j - 1 + 1 = j
      OBVIOUS
    <3> QED
      BY <3>1, <3>2, <3>3
  <2>3. (i + 1) + 1 = i + 2
    OBVIOUS
  <2>4. LastIn(queue, i + 1)
    BY <2>1, <2>2, <2>3 DEF LastIn
  <2> QED
    BY <1>1, <2>1, <2>4 DEF Promised
<1>4. ASSUME ~WaitsIn(rest)
      PROVE  next = wanted
  <2>1. ASSUME NEW j \in 2..Len(queue)
        PROVE  queue[j].type # "SetRate"
    <3>1. j - 1 \in 1..Len(rest) /\ rest[j - 1] = queue[j - 1 + 1] /\ j - 1 + 1 = j
      BY <1>1, <1>2
    <3> QED
      BY <1>4, <3>1 DEF WaitsIn
  <2>2. 1 \in 1..Len(queue) /\ 1 + 1 = 2
    BY <1>2
  <2>3. CASE Head(queue).type = "SetRate"
    <3>1. LastIn(queue, 1)
      BY <1>1, <2>1, <2>2, <2>3 DEF LastIn
    <3> QED
      BY <1>1, <2>2, <2>3, <3>1 DEF Promised
  <2>4. CASE Head(queue).type # "SetRate"
    <3>1. \A j \in 1..Len(queue) : j = 1 \/ j \in 2..Len(queue)
      BY <1>2
    <3>2. ~WaitsIn(queue)
      BY <1>1, <2>1, <2>4, <3>1 DEF WaitsIn
    <3> QED
      BY <2>4, <3>2 DEF Promised
  <2> QED
    BY <2>3, <2>4
<1> QED
  BY <1>3, <1>4 DEF Promised, rest

(* An operation joins the queue at its end.                                *)
LEMMA BackJoins ==
    ASSUME NEW queue \in Seq(Operation), NEW op \in Operation, NEW rate, NEW wanted, NEW next,
           op.type = "SetRate" => next = op.rate,
           op.type # "SetRate" => Promised(queue, rate, wanted) /\ next = wanted
    PROVE  Promised(Append(queue, op), rate, next)
<1> DEFINE longer == Append(queue, op)
           n == Len(queue)
<1>1. /\ Len(longer) = n + 1 /\ longer[n + 1] = op
      /\ \A i \in 1..n : longer[i] = queue[i]
  BY AppendProperties
<1>2. n \in Nat
  OBVIOUS
<1> HIDE DEF longer, n
<1>3. \A i \in 1..n + 1 : i = n + 1 \/ (i \in 1..n /\ n + 1 \in i + 1..n + 1)
  BY <1>2
<1>4. n + 1 \in 1..n + 1 /\ \A i \in 1..n : i \in 1..n + 1
  BY <1>2
<1>5. \A i \in 1..n : \A j \in i + 1..n : j \in 1..n /\ j \in i + 1..n + 1
  BY <1>2
<1>6. CASE op.type = "SetRate"
  <2>1. WaitsIn(longer)
    BY <1>1, <1>4, <1>6 DEF WaitsIn
  <2>2. \A i \in 1..n + 1 : LastIn(longer, i) => i = n + 1
    BY <1>1, <1>3, <1>6 DEF LastIn
  <2> QED
    BY <1>1, <1>6, <2>1, <2>2 DEF Promised, longer
<1>7. CASE op.type # "SetRate"
  <2>1. WaitsIn(longer) <=> WaitsIn(queue)
    BY <1>1, <1>3, <1>4, <1>7 DEF WaitsIn, n
  <2>2. ASSUME NEW i \in 1..n + 1, LastIn(longer, i)
        PROVE  longer[i].rate = wanted
    <3>1. i \in 1..n
      BY <1>1, <1>3, <1>7, <2>2 DEF LastIn
    <3>2. LastIn(queue, i)
      BY <1>1, <1>5, <2>2, <3>1 DEF LastIn, n
    <3> QED
      BY <1>1, <1>7, <3>1, <3>2 DEF Promised, n
  <2> QED
    BY <1>1, <1>7, <2>1, <2>2 DEF Promised, longer
<1> QED
  BY <1>6, <1>7

LEMMA RateKept ==
    ASSUME TypeInv, RateInv, [Next]_vars
    PROVE  RateInv'
<1>0. opQueue \in Seq(Operation)
  BY DEF TypeInv
<1>1. ASSUME UNCHANGED <<opQueue, flRate, asked, swallowed>>
      PROVE  RateInv'
  BY <1>1, RateInvIs, RateInvBecomes
<1>2. ASSUME NEW op, NEW failed \in BOOLEAN, Dispatch(op, failed), UNCHANGED <<asked, swallowed>>,
             flRate' = IF op.type = "SetRate" THEN op.rate ELSE flRate
      PROVE  RateInv'
  <2>1. opQueue # <<>> /\ op = Head(opQueue) /\ opQueue' = Tail(opQueue)
    BY <1>2 DEF Dispatch
  <2>2. Promised(opQueue, flRate, asked) => Promised(opQueue', flRate', asked)
    BY <1>0, <1>2, <2>1, FrontGoes
  <2> QED
    BY <1>2, <2>2, RateInvIs, RateInvBecomes
<1>3. ASSUME NEW op \in Operation, QueueOperation(op), UNCHANGED <<flRate, swallowed>>,
             op.type = "SetRate" => asked' = op.rate,
             op.type # "SetRate" => asked' = asked
      PROVE  RateInv'
  <2>1. opQueue' = Append(opQueue, op)
    BY <1>3 DEF QueueOperation
  <2>2. Promised(opQueue, flRate, asked) => Promised(opQueue', flRate, asked')
    BY <1>0, <1>3, <2>1, BackJoins
  <2> QED
    BY <1>3, <2>2, RateInvIs, RateInvBecomes
<1>4. ASSUME NEW op, DoStart(op) \/ DoStartFails(op) \/ DoStop(op) \/ DoSetRate(op)
      PROVE  RateInv'
  <2>1. PICK failed \in BOOLEAN : Dispatch(op, failed)
    BY <1>4 DEF DoStart, DoStartFails, DoStop, DoSetRate
  <2>2. UNCHANGED <<asked, swallowed>>
    BY <1>4 DEF DoStart, DoStartFails, DoStop, DoSetRate
  <2>3. flRate' = IF op.type = "SetRate" THEN op.rate ELSE flRate
    BY <1>4 DEF DoStart, DoStartFails, DoStop, DoSetRate, SelectStreams
  <2> QED
    BY <1>2, <2>1, <2>2, <2>3
<1>5. ASSUME NEW selected \in SUBSET Streams, Start(selected)
      PROVE  RateInv'
  <2>1. [type |-> "Start", streams |-> selected] \in Operation
    BY DEF Operation
  <2> QED
    BY <1>3, <1>5, <2>1 DEF Start, Called, playback
<1>6. CASE Stop
  <2>1. [type |-> "Stop"] \in Operation
    BY DEF Operation
  <2> QED
    BY <1>3, <1>6, <2>1 DEF Stop, Called, playback
<1>7. ASSUME NEW rate \in {0, 1}, SetRate(rate)
      PROVE  RateInv'
  <2>1. [type |-> "SetRate", rate |-> rate] \in Operation
    BY DEF Operation
  <2>2. asked' = rate /\ UNCHANGED flRate
    BY <1>7 DEF SetRate, Called, playback
  <2>3. CASE rate # flRate
    BY <1>3, <1>7, <2>1, <2>2, <2>3 DEF SetRate
  <2>4. CASE rate = flRate
    <3>1. swallowed' = (swallowed \/ RateWaits) /\ UNCHANGED opQueue
      BY <1>7, <2>4 DEF SetRate
    <3>2. ~WaitsIn(opQueue) => Promised(opQueue, flRate, rate)
      BY <2>4 DEF Promised, WaitsIn, LastIn
    <3> QED
      BY <2>2, <3>1, <3>2, RateInvBecomes DEF RateWaits, WaitsIn
  <2> QED
    BY <2>3, <2>4
<1>8. CASE Shutdown
  BY <1>1, <1>8 DEF Shutdown, operations
<1>9. CASE Opening
  BY <1>1, <1>9 DEF Opening, OpenAsync, Connected, ConnectFailed, DescribeSent,
                    DescribeFailed, operations, playback
<1>10. CASE Receiving
  BY <1>1, <1>10 DEF Receiving, Receive, ReceiveFailed, Await, ProcessServerDescription,
                     ProcessServerSample, RefusePacket, operations, playback
<1>11. CASE StartSent \/ StartNotSent
  BY <1>1, <1>11 DEF StartSent, StartNotSent, operations, playback
<1>12. CASE UNCHANGED vars
  BY <1>1, <1>12 DEF vars, operations, playback
<1> QED
  BY <1>4, <1>5, <1>6, <1>7, <1>8, <1>9, <1>10, <1>11, <1>12 DEF Next, Performing, Calling

(* When no rate waits to be set the source has the rate it was last asked  *)
(* for, unless that one was compared with a rate about to change (SetRate, *)
(* DoSetRate).                                                             *)
THEOREM LastRateWinsHolds == Spec => []LastRateWins
<1>1. Init => TypeInv /\ RateInv
  <2>1. Init => RateInv
    BY DEF Init, RateInv, RateWaits, LastWaiting
  <2> QED
    BY <2>1, InitTyped, SizesAssumption, StreamsAssumption
<1>2. TypeInv /\ RateInv /\ [Next]_vars => (TypeInv /\ RateInv)'
  BY TypesKept, RateKept, SizesAssumption, StreamsAssumption
<1>3. TypeInv /\ RateInv => LastRateWins
  BY DEF RateInv, LastRateWins
<1> QED
  BY <1>1, <1>2, <1>3, PTL DEF Spec
-----------------------------------------------------------------------------
(* No header is held before the description is requested: that request     *)
(* is the first and cuts nothing off.                                      *)
CutInv ==
    /\ cutOff \in BOOLEAN
    /\ sourceState = "Invalid" \/ connecting => header.op = "Unknown" /\ answers = 0

LEMMA InitCuts == ASSUME Init PROVE CutInv
<1>1. cutOff = FALSE /\ header = [op |-> "Unknown", size |-> 0] /\ answers = 0
  BY DEF Init, ParserInit
<1>2. cutOff \in BOOLEAN
  BY <1>1
<1>3. header.op = "Unknown"
  BY <1>1
<1> QED
  BY <1>1, <1>2, <1>3 DEF CutInv

LEMMA CutKept ==
    ASSUME TypeInv, OpenInv, CutInv, SizesAssumption, [Next]_vars
    PROVE  CutInv'
<1>1. ASSUME UNCHANGED <<cutOff, header, answers>>,
             sourceState' = "Invalid" \/ connecting' => sourceState = "Invalid" \/ connecting
      PROVE  CutInv'
  BY <1>1 DEF CutInv
<1>2. ASSUME ResetHeader, sourceState' # "Invalid", ~connecting'
      PROVE  CutInv'
  BY <1>2 DEF ResetHeader, CutInv
<1>3. CASE Opening
  <2>1. CASE Connected
    <3>1. sourceState' # "Invalid"
      BY <2>1 DEF Connected, OpenInv, StagesBelong
    <3> QED
      BY <1>2, <2>1, <3>1 DEF Connected
  <2>2. CASE OpenAsync \/ ConnectFailed \/ DescribeSent \/ DescribeFailed
    BY <1>1, <2>2 DEF OpenAsync, ConnectFailed, DescribeSent, DescribeFailed, parser
  <2> QED
    BY <1>3, <2>1, <2>2 DEF Opening
<1>4. CASE Receiving
  <2>1. ASSUME NEW n, Receive(n)
        PROVE  CutInv'
    BY <1>1, <2>1 DEF Receive, BytesArrive, open
  <2>2. CASE ReceiveFailed
    BY <1>1, <2>2 DEF ReceiveFailed
  <2>3. ASSUME NEW h, NEW buffers,
               \/ Await(h, buffers) \/ ProcessServerDescription(h, buffers)
               \/ ProcessServerSample(h, buffers) \/ RefusePacket(h, buffers)
        PROVE  CutInv'
    <3>1. UNCHANGED <<cutOff, connecting, answers>> /\ receiveBuffer # <<>>
      BY <2>3 DEF Await, ProcessServerDescription, ProcessServerSample, RefusePacket, Turn,
                  AwaitMore, PacketDone, RejectPacket, PacketRefused, open
    <3>2. sourceState # "Invalid" /\ ~connecting
      BY <3>1 DEF OpenInv, OneStage, StagesBelong, Unlocked
    <3>3. sourceState' # "Invalid"
      BY <2>3, <3>2 DEF Await, ProcessServerDescription, ProcessServerSample, RefusePacket
    <3> QED
      BY <3>1, <3>2, <3>3 DEF CutInv
  <2> QED
    BY <1>4, <2>1, <2>2, <2>3 DEF Receiving
<1>5. CASE Performing
  <2>1. ASSUME NEW op, DoStart(op) \/ DoStartFails(op)
        PROVE  CutInv'
    <3>1. opened = "ok"
      BY <2>1 DEF DoStart, DoStartFails, Dispatch, OpenInv, OpenBeforeUse
    <3>2. ~connecting' /\ sourceState' # "Invalid"
      <4>1. ~connecting
        BY <3>1 DEF OpenInv, StagesBelong
      <4>2. connecting' = connecting /\ sourceState' \in {"Started", "Starting"}
        BY <2>1 DEF DoStart, DoStartFails, open
      <4> QED
        BY <4>1, <4>2
    <3> QED
      BY <1>2, <2>1, <3>2 DEF DoStart, DoStartFails
  <2>2. ASSUME NEW op, DoStop(op) \/ DoSetRate(op)
        PROVE  CutInv'
    BY <1>1, <2>2 DEF DoStop, DoSetRate, parser, open
  <2>3. CASE StartSent \/ StartNotSent
    BY <1>1, <2>3 DEF StartSent, StartNotSent, parser, open
  <2> QED
    BY <1>5, <2>1, <2>2, <2>3 DEF Performing
<1>6. CASE Calling
  <2>1. /\ UNCHANGED <<cutOff, header, answers, connecting>>
        /\ sourceState' \in {sourceState, "Shutdown"}
    BY <1>6 DEF Calling, Start, Stop, SetRate, Shutdown, Called, parser, open
  <2> QED
    BY <1>1, <2>1
<1>7. CASE UNCHANGED vars
  BY <1>1, <1>7 DEF vars, parser, open
<1> QED
  BY <1>3, <1>4, <1>5, <1>6, <1>7 DEF Next


LEMMA ErrorIsSeen ==
    ASSUME TypeInv, OpenInv, HandleError
    PROVE  Protocol!HandleError
<1>1. errors \in Nat
  BY DEF TypeInv, TypeOK
<1>2. errors' = IF sourceState \in {"Opening", "Shutdown"} THEN errors ELSE errors + 1
  BY DEF HandleError
<1>3. (errors' > 0) = (errors > 0 \/ sourceState \notin {"Opening", "Shutdown"})
  BY <1>1, <1>2
<1>4. opened' = IF sourceState = "Opening" /\ opened = "pending" THEN "failed" ELSE opened
  BY DEF HandleError, CompleteOpen
<1> QED
  BY <1>3, <1>4 DEF Protocol!HandleError

LEMMA OpeningImplements ==
    ASSUME TypeInv, OpenInv, CutInv, Opening
    PROVE  Protocol!Next
<1>1. CASE OpenAsync
  <2>1. Protocol!OpenAsync
    BY <1>1 DEF OpenAsync, Protocol!OpenAsync, parser, operations, playback
  <2> QED
    BY <2>1 DEF Protocol!Next, Protocol!Opening
<1>2. CASE Connected
  <2>1. header.op = "Unknown"
    BY <1>2 DEF CutInv, Connected
  <2>2. cutOff' = cutOff /\ UNCHANGED <<receiving, receiveBuffer>>
    BY <1>2, <2>1 DEF Connected, ResetHeader, CutInv
  <2>3. Protocol!Connected
    BY <1>2, <2>2 DEF Connected, Protocol!Connected, operations, playback
  <2> QED
    BY <2>3 DEF Protocol!Next, Protocol!Opening
<1>3. CASE ConnectFailed
  <2>1. Protocol!HandleError
    BY <1>3, ErrorIsSeen DEF ConnectFailed
  <2>2. Protocol!ConnectFailed
    BY <1>3, <2>1 DEF ConnectFailed, Protocol!ConnectFailed, parser, operations, playback
  <2> QED
    BY <2>2 DEF Protocol!Next, Protocol!Opening
<1>4. CASE DescribeSent
  <2>1. Protocol!DescribeSent
    BY <1>4 DEF DescribeSent, Protocol!DescribeSent, operations, playback
  <2> QED
    BY <2>1 DEF Protocol!Next, Protocol!Opening
<1>5. CASE DescribeFailed
  <2>1. Protocol!HandleError
    BY <1>5, ErrorIsSeen DEF DescribeFailed
  <2>2. Protocol!DescribeFailed
    BY <1>5, <2>1 DEF DescribeFailed, Protocol!DescribeFailed, parser, operations, playback
  <2> QED
    BY <2>2 DEF Protocol!Next, Protocol!Opening
<1> QED
  BY <1>1, <1>2, <1>3, <1>4, <1>5 DEF Opening

LEMMA ReceivingImplements ==
    ASSUME TypeInv, OpenInv, SizesAssumption, StreamsAssumption, Receiving
    PROVE  [Protocol!Next]_(Protocol!vars)
<1>1. ASSUME NEW n, Receive(n)
      PROVE  UNCHANGED Protocol!vars
  <2>1. receiving /\ receiving' = FALSE /\ receiveBuffer' # <<>>
    BY <1>1, BytesFill DEF Receive
  <2>2. (receiving' \/ receiveBuffer' # <<>>) = (receiving \/ receiveBuffer # <<>>)
    BY <2>1
  <2>3. UNCHANGED <<sourceState, opened, connecting, describing, starting, streams, errors, cutOff>>
    BY <1>1 DEF Receive, BytesArrive, open, playback
  <2> QED
    BY <2>2, <2>3 DEF Protocol!vars
<1>2. CASE ReceiveFailed
  <2>1. Protocol!HandleError
    BY <1>2, ErrorIsSeen DEF ReceiveFailed
  <2>2. receiving /\ receiving' = FALSE /\ receiveBuffer' = <<>>
    BY <1>2 DEF ReceiveFailed, Unlocked
  <2>3. Protocol!ReceiveFailed
    BY <1>2, <2>1, <2>2 DEF ReceiveFailed, Protocol!ReceiveFailed, playback
  <2> QED
    BY <2>3 DEF Protocol!Next, Protocol!Receiving
<1>3. ASSUME NEW h, NEW buffers, Await(h, buffers) \/ ProcessServerSample(h, buffers)
      PROVE  UNCHANGED Protocol!vars
  <2>1. receiveBuffer # <<>> /\ (receiving' <=> receiveBuffer' = <<>>)
    BY <1>3, TurnGoesOn DEF Await, ProcessServerSample
  <2>2. (receiving' \/ receiveBuffer' # <<>>) = (receiving \/ receiveBuffer # <<>>)
    BY <2>1
  <2>3. UNCHANGED <<sourceState, opened, connecting, describing, starting, streams, errors, cutOff>>
    BY <1>3 DEF Await, ProcessServerSample, AwaitMore, PacketDone, open, playback
  <2> QED
    BY <2>2, <2>3 DEF Protocol!vars
<1>4. ASSUME NEW h, NEW buffers, ProcessServerDescription(h, buffers)
      PROVE  Protocol!Next
  <2>1. receiveBuffer # <<>> /\ (receiving' <=> receiveBuffer' = <<>>)
    BY <1>4, TurnGoesOn DEF ProcessServerDescription
  <2>2. sourceState = "Opening" /\ opened = "pending"
    BY <1>4, <2>1 DEF ProcessServerDescription, OpenInv, StagesBelong, Unlocked
  <2>3. opened' = "ok"
    BY <1>4, <2>2 DEF ProcessServerDescription, CompleteOpen
  <2>4. /\ streams' = Streams /\ sourceState' = "Stopped"
        /\ UNCHANGED <<connecting, describing, starting, errors, cutOff>>
    BY <1>4 DEF ProcessServerDescription, PacketDone
  <2>5. Protocol!TakeDescription(Streams)
    BY <2>1, <2>2, <2>3, <2>4 DEF Protocol!TakeDescription, Protocol!Takes
  <2> QED
    BY <2>5 DEF Protocol!Next, Protocol!Receiving
<1>5. ASSUME NEW h, NEW buffers, RefusePacket(h, buffers)
      PROVE  Protocol!Next
  <2>1. Protocol!HandleError
    BY <1>5, ErrorIsSeen DEF RefusePacket
  <2>2. receiveBuffer # <<>> /\ receiving' = FALSE /\ receiveBuffer' = <<>>
    BY <1>5, TurnEnds DEF TypeInv, TypeOK
  <2>3. UNCHANGED <<sourceState, connecting, describing, starting, cutOff>>
    BY <1>5 DEF RefusePacket, RejectPacket, PacketRefused
  <2>4. streams' \in IF sourceState = "Opening" THEN SUBSET Streams ELSE {streams}
    <3> DEFINE Partly == \E n \in Streams : streams' = 1..n - 1
    <3>1. UNCHANGED streams \/ (sourceState = "Opening" /\ Partly)
      <4> HIDE DEF Partly
      <4>1. \/ UNCHANGED streams
            \/ h.op = "ServerDescription" /\ sourceState = "Opening" /\ Partly
        BY <1>5 DEF RefusePacket, Partly
      <4> QED
        BY <4>1
    <3>2. CASE UNCHANGED streams
      BY <3>2 DEF TypeInv, TypeOK
    <3>3. CASE sourceState = "Opening" /\ \E n \in Streams : streams' = 1..n - 1
      BY <3>3 DEF StreamsAssumption
    <3> QED
      BY <3>1, <3>2, <3>3
  <2>5. Protocol!Refuse
    BY <2>1, <2>2, <2>3, <2>4 DEF Protocol!Refuse
  <2> QED
    BY <2>5 DEF Protocol!Next, Protocol!Receiving
<1> QED
  BY <1>1, <1>2, <1>3, <1>4, <1>5 DEF Receiving

LEMMA OthersImplement ==
    ASSUME TypeInv, OpenInv, CutInv, Performing \/ Calling
    PROVE  [Protocol!Next]_(Protocol!vars)
<1>1. ASSUME NEW op, DoStart(op) \/ DoStartFails(op)
      PROVE  Protocol!Next
  <2>1. opened = "ok" /\ sourceState # "Shutdown"
    BY <1>1 DEF DoStart, DoStartFails, Dispatch, OpenInv, OpenBeforeUse
  <2>2. cutOff' \in {cutOff, TRUE} /\ UNCHANGED <<receiving, receiveBuffer>>
    BY <1>1 DEF DoStart, DoStartFails, ResetHeader, CutInv
  <2>3. UNCHANGED <<opened, connecting, describing, streams, errors>>
    BY <1>1 DEF DoStart, DoStartFails, SelectStreams, open
  <2>4. CASE DoStart(op)
    <3>1. Protocol!Start
      BY <2>1, <2>2, <2>3, <2>4 DEF DoStart, Protocol!Start, Protocol!Startable
    <3> QED
      BY <3>1 DEF Protocol!Next, Protocol!Starting
  <2>5. CASE DoStartFails(op)
    <3>1. Protocol!StartFails
      BY <2>1, <2>2, <2>3, <2>5 DEF DoStartFails, Protocol!StartFails, Protocol!Startable
    <3> QED
      BY <3>1 DEF Protocol!Next, Protocol!Starting
  <2> QED
    BY <1>1, <2>4, <2>5
<1>2. ASSUME NEW op, DoStop(op) \/ DoSetRate(op)
      PROVE  UNCHANGED Protocol!vars
  <2>1. UNCHANGED <<sourceState, opened, connecting, describing, starting, receiving,
                    receiveBuffer, streams, errors, cutOff>>
    BY <1>2 DEF DoStop, DoSetRate, parser, open
  <2> QED
    BY <2>1 DEF Protocol!vars
<1>3. CASE StartSent
  <2>1. Protocol!StartSent
    BY <1>3 DEF StartSent, Protocol!StartSent, parser, open, playback
  <2> QED
    BY <2>1 DEF Protocol!Next, Protocol!Starting
<1>4. CASE StartNotSent
  <2>1. Protocol!HandleError
    BY <1>4, ErrorIsSeen DEF StartNotSent
  <2>2. Protocol!StartNotSent
    BY <1>4, <2>1 DEF StartNotSent, Protocol!StartNotSent, parser, playback
  <2> QED
    BY <2>2 DEF Protocol!Next, Protocol!Starting
<1>5. CASE Called
  BY <1>5 DEF Called, Protocol!vars, parser, open, playback
<1>6. CASE Shutdown
  <2>1. Protocol!Shutdown
    BY <1>6 DEF Shutdown, Protocol!Shutdown, parser, open
  <2> QED
    BY <2>1 DEF Protocol!Next
<1> QED
  BY <1>1, <1>2, <1>3, <1>4, <1>5, <1>6 DEF Performing, Calling, Start, Stop, SetRate

LEMMA StepImplements ==
    ASSUME TypeInv, OpenInv, CutInv, SizesAssumption, StreamsAssumption, [Next]_vars
    PROVE  [Protocol!Next]_(Protocol!vars)
<1>1. CASE UNCHANGED vars
  BY <1>1 DEF vars, parser, open, playback, Protocol!vars
<1> QED
  BY <1>1, OpeningImplements, ReceivingImplements, OthersImplement DEF Next

(* To its server the source, which cuts its packets from bytes and queues  *)
(* its operations, is the source of SourceProtocol.                        *)
THEOREM SourceImplementsProtocol == Spec => ImplementsProtocol
<1>1. Init => TypeInv /\ OpenInv /\ CutInv
  BY InitTyped, InitOpens, InitCuts, SizesAssumption, StreamsAssumption
<1>2. TypeInv /\ OpenInv /\ CutInv /\ [Next]_vars => (TypeInv /\ OpenInv /\ CutInv)'
  BY TypesKept, OpenKept, CutKept, SizesAssumption, StreamsAssumption
<1>3. Init => Protocol!Init
  BY DEF Init, ParserInit, Protocol!Init
<1>4. TypeInv /\ OpenInv /\ CutInv /\ [Next]_vars => [Protocol!Next]_(Protocol!vars)
  BY StepImplements, SizesAssumption, StreamsAssumption
<1> QED
  BY <1>1, <1>2, <1>3, <1>4, PTL DEF Spec, ImplementsProtocol, Protocol!Spec

-----------------------------------------------------------------------------
(* The steps of the parser are about sequences of bytes and their          *)
(* concatenation.  What FlattenSeq does is recursive, so it takes an       *)
(* induction; a set that has 0 and with each number its successor has all, *)
(* as there is no infinite descent in the intervals 0..n - 1.              *)
LEMMA SetInduction ==
    ASSUME NEW S, 0 \in S, \A n \in Nat : n \in S => n + 1 \in S
    PROVE  Nat \subseteq S
<1> SUFFICES ASSUME Nat \ S # {} PROVE FALSE
  OBVIOUS
<1> DEFINE Below(n) == 0..(n - 1)
           T == {Below(n) : n \in Nat \ S}
           R == StrictSubsetOrdering(Nat)
           F == FiniteSubsetsOf(Nat)
<1>1. IsWellFoundedOn(R, F)
  BY FS_StrictSubsetOrderingWellFounded
<1>2. T \subseteq F /\ T # {}
  <2>1. \A n \in Nat : IsFiniteSet(0..(n - 1))
    BY FS_Interval
  <2> QED
    BY <2>1 DEF FiniteSubsetsOf
<1>3. \A x, y \in Nat : y < x => <<Below(y), Below(x)>> \in R
  <2> SUFFICES ASSUME NEW x \in Nat, NEW y \in Nat, y < x
               PROVE  <<Below(y), Below(x)>> \in R
    OBVIOUS
  <2>1. Below(y) \subseteq Below(x) /\ y \in Below(x) /\ y \notin Below(y)
    OBVIOUS
  <2>2. Below(x) \in SUBSET Nat /\ Below(y) \in SUBSET Nat
    OBVIOUS
  <2>3. Below(y) # Below(x)
    BY <2>1
  <2> HIDE DEF Below
  <2> QED
    BY <2>1, <2>2, <2>3 DEF StrictSubsetOrdering
<1> HIDE DEF R, F
<1>4. PICK t \in T : \A u \in T : ~(<<u, t>> \in R)
  <2> HIDE DEF T
  <2> QED BY <1>1, <1>2, WFMin
<1>5. PICK x \in Nat \ S : t = Below(x)
  BY <1>4
<1>6. \A y \in Nat \ S : ~(y < x)
  <2> HIDE DEF Below
  <2> QED BY <1>3, <1>4, <1>5
<1>7. x # 0 /\ x - 1 \in Nat /\ x - 1 \in S
  BY <1>6
<1> QED
  BY <1>5, <1>7

(* The function that FlattenSeq chooses: its value at i is the             *)
(* concatenation of the first i sequences.                                 *)
Flattens(f, s) ==
    f = [i \in 1..Len(s) |-> IF i = 1 THEN s[i] ELSE f[i - 1] \o s[i]]

LEMMA FlattenIs ==
    ASSUME NEW s
    PROVE  FlattenSeq(s) = IF Len(s) = 0 THEN s ELSE (CHOOSE f : Flattens(f, s))[Len(s)]
  BY DEF FlattenSeq, Flattens

LEMMA FlattensValue ==
    ASSUME NEW s, NEW f, Flattens(f, s), NEW i \in 1..Len(s)
    PROVE  f[i] = IF i = 1 THEN s[i] ELSE f[i - 1] \o s[i]
<1> DEFINE E(k) == IF k = 1 THEN s[k] ELSE f[k - 1] \o s[k]
<1>1. f = [k \in 1..Len(s) |-> E(k)]
  BY DEF Flattens
<1> HIDE DEF E
<1>2. f[i] = E(i)
  BY <1>1
<1> QED
  BY <1>2 DEF E

(* There is one for every sequence of sequences, by induction on its       *)
(* length, and it depends on nothing behind its place.                     *)
LEMMA FlattensExist ==
    ASSUME NEW X, NEW s \in Seq(Seq(X))
    PROVE  \E f : Flattens(f, s)
<1> DEFINE Has(t) == \E f : Flattens(f, t)
           S == {n \in Nat : \A t \in Seq(Seq(X)) : Len(t) = n => Has(t)}
<1>1. 0 \in S
  <2> SUFFICES ASSUME NEW t \in Seq(Seq(X)), Len(t) = 0 PROVE \E f : Flattens(f, t)
    OBVIOUS
  <2> DEFINE f == [i \in 1..Len(t) |-> t[i]]
  <2>1. Flattens(f, t)
    BY DEF Flattens
  <2> QED
    BY <2>1
<1>2. \A n \in Nat : n \in S => n + 1 \in S
  <2> SUFFICES ASSUME NEW n \in Nat, \A t \in Seq(Seq(X)) : Len(t) = n => Has(t),
                      NEW t \in Seq(Seq(X)), Len(t) = n + 1
               PROVE  Has(t)
    <3> HIDE DEF Has
    <3> QED
      OBVIOUS
  <2> DEFINE front == SubSeq(t, 1, n)
  <2>1. /\ front \in Seq(Seq(X)) /\ Len(front) = n
        /\ \A i \in 1..n : front[i] = t[i]
    BY SubSeqProperties
  <2> HIDE DEF front
  <2>2. PICK f : Flattens(f, front)
    BY <2>1
  <2> DEFINE g == [i \in 1..Len(t) |->
                     IF i = 1 THEN t[i] ELSE IF i = n + 1 THEN f[n] \o t[i] ELSE f[i]]
  <2>3. \A i \in 1..n : g[i] = f[i]
    BY <2>1, <2>2, SMTT(60) DEF Flattens
  <2>4. \A i \in 1..Len(t) : g[i] = IF i = 1 THEN t[i] ELSE g[i - 1] \o t[i]
    <3> SUFFICES ASSUME NEW i \in 1..Len(t), i # 1 PROVE g[i] = g[i - 1] \o t[i]
      OBVIOUS
    <3>1. i - 1 \in 1..n /\ g[i - 1] = f[i - 1]
      <4>1. i - 1 \in 1..n
        BY <2>1
      <4> HIDE DEF g
      <4> QED
        BY <2>3, <4>1
    <3>2. CASE i = n + 1
      <4>1. g[i] = f[n] \o t[i]
        BY <3>2
      <4>2. i - 1 = n
        BY <3>2
      <4> HIDE DEF g
      <4> QED
        BY <3>1, <4>1, <4>2
    <3>3. CASE i # n + 1
      <4>1. i \in 1..n /\ g[i] = f[i]
        BY <3>3
      <4>2. f[i] = f[i - 1] \o front[i]
        BY <2>1, <2>2, <4>1, FlattensValue, ZenonT(60)
      <4> HIDE DEF g
      <4> QED
        BY <2>1, <3>1, <4>1, <4>2
    <3> QED
      BY <3>2, <3>3
  <2>5. Flattens(g, t)
    <3>1. g = [i \in 1..Len(t) |-> g[i]]
      OBVIOUS
    <3> HIDE DEF g
    <3> QED
      BY <2>4, <3>1 DEF Flattens
  <2> QED
    BY <2>5
<1> HIDE DEF S, Has
<1>3. Nat \subseteq S
  BY <1>1, <1>2, SetInduction
<1>4. Len(s) \in S
  BY <1>3
<1> QED
  BY <1>4 DEF S, Has

LEMMA FlattensAgree ==
    ASSUME NEW s, NEW t, NEW f, NEW g, Flattens(f, s), Flattens(g, t),
           Len(s) \in Nat, Len(t) \in Nat, Len(s) <= Len(t),
           \A i \in 1..Len(s) : s[i] = t[i]
    PROVE  \A i \in 1..Len(s) : f[i] = g[i]
<1> DEFINE S == {n \in Nat : n \in 1..Len(s) => f[n] = g[n]}
<1>1. 0 \in S
  OBVIOUS
<1>2. \A n \in Nat : n \in S => n + 1 \in S
  <2> SUFFICES ASSUME NEW n \in Nat, n \in S, n + 1 \in 1..Len(s)
               PROVE  f[n + 1] = g[n + 1]
    OBVIOUS
  <2>1. f[n + 1] = IF n + 1 = 1 THEN s[n + 1] ELSE f[(n + 1) - 1] \o s[n + 1]
    BY FlattensValue
  <2>2. g[n + 1] = IF n + 1 = 1 THEN t[n + 1] ELSE g[(n + 1) - 1] \o t[n + 1]
    <3>1. n + 1 \in 1..Len(t)
      OBVIOUS
    <3> QED
      BY <3>1, FlattensValue
  <2>3. s[n + 1] = t[n + 1] /\ (n + 1) - 1 = n
    OBVIOUS
  <2>4. n + 1 # 1 => f[n] = g[n]
    OBVIOUS
  <2> QED
    BY <2>1, <2>2, <2>3, <2>4
<1> HIDE DEF S
<1>3. Nat \subseteq S
  BY <1>1, <1>2, SetInduction
<1> QED
  BY <1>3 DEF S

LEMMA FlattenEmpty == FlattenSeq(<<>>) = <<>>
  BY FlattenIs

(* FlattenSeq by recursion on the end of the sequence.                     *)
LEMMA FlattenAppend ==
    ASSUME NEW X, NEW s \in Seq(Seq(X)), NEW x \in Seq(X)
    PROVE  FlattenSeq(Append(s, x)) = FlattenSeq(s) \o x
<1> DEFINE t == Append(s, x)
           n == Len(s)
           f == CHOOSE f : Flattens(f, s)
           g == CHOOSE g : Flattens(g, t)
<1>1. /\ t \in Seq(Seq(X)) /\ Len(t) = n + 1 /\ n \in Nat /\ t[n + 1] = x
      /\ \A i \in 1..n : t[i] = s[i]
  BY AppendProperties
<1> HIDE DEF t
<1>2. Flattens(f, s) /\ Flattens(g, t)
  BY <1>1, FlattensExist
<1> HIDE DEF f, g
<1>3. FlattenSeq(t) = g[n + 1]
  BY <1>1, FlattenIs DEF g
<1>4. g[n + 1] = IF n + 1 = 1 THEN t[n + 1] ELSE g[(n + 1) - 1] \o t[n + 1]
  BY <1>1, <1>2, FlattensValue
<1>5. CASE n = 0
  <2>1. FlattenSeq(s) = s /\ s = <<>>
    BY <1>5, FlattenIs, EmptySeq
  <2> QED
    BY <1>1, <1>3, <1>4, <1>5, <2>1, ConcatEmptySeq DEF t
<1>6. CASE n # 0
  <2>1. FlattenSeq(s) = f[n]
    BY <1>6, FlattenIs DEF f
  <2>2. f[n] = g[n]
    <3>1. \A i \in 1..n : f[i] = g[i]
      <4>1. Len(s) \in Nat /\ Len(t) \in Nat /\ Len(s) <= Len(t)
        BY <1>1
      <4>2. \A i \in 1..Len(s) : s[i] = t[i]
        BY <1>1
      <4> HIDE DEF n
      <4> QED
        BY <1>2, <4>1, <4>2, FlattensAgree, SMTT(60) DEF n
    <3>2. n \in 1..n
      BY <1>1, <1>6
    <3> HIDE DEF n
    <3> QED
      BY <3>1, <3>2
  <2>3. (n + 1) - 1 = n /\ n + 1 # 1
    BY <1>1, <1>6
  <2> QED
    BY <1>1, <1>3, <1>4, <2>1, <2>2, <2>3 DEF t
<1> QED
  BY <1>5, <1>6

LEMMA FlattenTyped ==
    ASSUME NEW X, NEW s \in Seq(Seq(X))
    PROVE  FlattenSeq(s) \in Seq(X)
<1> DEFINE S == {n \in Nat : \A t \in Seq(Seq(X)) : Len(t) = n => FlattenSeq(t) \in Seq(X)}
<1>1. 0 \in S
  <2>1. \A t \in Seq(Seq(X)) : Len(t) = 0 => t = <<>>
    BY EmptySeq
  <2> QED
    BY <2>1, FlattenEmpty
<1>2. \A n \in Nat : n \in S => n + 1 \in S
  <2> SUFFICES ASSUME NEW n \in Nat, n \in S, NEW t \in Seq(Seq(X)), Len(t) = n + 1
               PROVE  FlattenSeq(t) \in Seq(X)
    OBVIOUS
  <2>1. PICK r \in Seq(Seq(X)), x \in Seq(X) : t = Append(r, x)
    <3>1. t # <<>>
      BY EmptySeq
    <3> QED
      BY <3>1, SequenceEmptyOrAppend
  <2>2. Len(r) = n
    BY <2>1, AppendProperties
  <2>3. FlattenSeq(r) \in Seq(X)
    BY <2>2
  <2>4. FlattenSeq(t) = FlattenSeq(r) \o x
    BY <2>1, FlattenAppend
  <2> QED
    BY <2>3, <2>4, ConcatProperties
<1> HIDE DEF S
<1>3. Nat \subseteq S
  BY <1>1, <1>2, SetInduction
<1> QED
  BY <1>3 DEF S

Regroups(X) == \A a, b, c \in Seq(X) : (a \o b) \o c = a \o (b \o c)

LEMMA Regrouped == \A X : Regroups(X)
BY ConcatAssociative DEF Regroups

-----------------------------------------------------------------------------
(* The bytes of the packets.                                               *)
Byte == Nat \X Nat
Packet(k) == HeaderBytes(k) \o PayloadBytes(k)

LEMMA PlanTyped ==
    ASSUME TypeInv
    PROVE  /\ Len(sent) \in Nat /\ Len(sent) >= 1
           /\ \A k \in 1..Len(sent) : sent[k].op \in Received /\ sent[k].size \in 1..MaxPacketSize
<1> DEFINE Sent == [op : Received, size : 1..MaxPacketSize]
<1>1. sent \in Seq(Sent) /\ sent # <<>>
  BY DEF TypeInv, Descriptions
<1>2. \A k \in 1..Len(sent) : sent[k] \in Sent
  <2> HIDE DEF Sent
  <2> QED
    BY <1>1
<1>3. Len(sent) \in Nat /\ Len(sent) >= 1
  <2> HIDE DEF Sent
  <2> QED
    BY <1>1, EmptySeq
<1> QED
  BY <1>2, <1>3

LEMMA HeaderBytesAre ==
    ASSUME SizesAssumption, NEW k \in Nat
    PROVE  /\ HeaderBytes(k) \in Seq(Byte) /\ Len(HeaderBytes(k)) = HeaderSize
           /\ \A j \in Nat : HeaderBytes(j) = HeaderBytes(k) => j = k
<1>0. HeaderSize \in Nat /\ HeaderSize >= 1
  BY DEF SizesAssumption
<1>1. \A i \in 1..HeaderSize : <<k, i>> \in Byte
  BY <1>0 DEF Byte
<1>2. HeaderBytes(k) \in Seq(Byte)
  BY <1>0, <1>1, IsASeq DEF HeaderBytes
<1>3. Len(HeaderBytes(k)) = HeaderSize
  BY <1>0 DEF HeaderBytes
<1>4. \A j \in Nat : HeaderBytes(j)[1] = <<j, 1>>
  BY <1>0 DEF HeaderBytes
<1> QED
  BY <1>2, <1>3, <1>4

LEMMA PayloadBytesAre ==
    ASSUME SizesAssumption, TypeInv, NEW k \in 1..Len(sent)
    PROVE  PayloadBytes(k) \in Seq(Byte) /\ Len(PayloadBytes(k)) = sent[k].size
<1>0. HeaderSize \in Nat /\ sent[k].size \in Nat /\ k \in Nat
  BY PlanTyped DEF SizesAssumption
<1>1. \A i \in 1..sent[k].size : <<k, HeaderSize + i>> \in Byte
  BY <1>0 DEF Byte
<1>2. PayloadBytes(k) \in Seq(Byte)
  BY <1>0, <1>1, IsASeq DEF PayloadBytes
<1>3. Len(PayloadBytes(k)) = sent[k].size
  BY <1>0 DEF PayloadBytes
<1> QED
  BY <1>2, <1>3

LEMMA PacketIs ==
    ASSUME SizesAssumption, TypeInv, NEW k \in 1..Len(sent)
    PROVE  Packet(k) \in Seq(Byte)
<1>1. k \in Nat
  BY PlanTyped
<1>2. HeaderBytes(k) \in Seq(Byte) /\ PayloadBytes(k) \in Seq(Byte)
  BY <1>1, HeaderBytesAre, PayloadBytesAre
<1> QED
  BY <1>2, ConcatProperties, Zenon DEF Packet

(* The packets after the k-th up to the n-th, one by one.                  *)
Between(k, n) == [i \in 1..n - k |-> Packet(k + i)]

LEMMA BytesAreBetween == \A k, n : BytesOf(k, n) = FlattenSeq(Between(k, n))
BY DEF BytesOf, Between, Packet

LEMMA BetweenIs ==
    ASSUME SizesAssumption, TypeInv, NEW k \in Nat, NEW n \in k..Len(sent)
    PROVE  Between(k, n) \in Seq(Seq(Byte)) /\ Len(Between(k, n)) = n - k
<1>0. Len(sent) \in Nat /\ n - k \in Nat
  BY PlanTyped
<1>1. \A i \in 1..n - k : Packet(k + i) \in Seq(Byte)
  <2>1. \A i \in 1..n - k : k + i \in 1..Len(sent)
    BY <1>0
  <2> QED
    BY <2>1, PacketIs
<1>2. Between(k, n) \in Seq(Seq(Byte))
  BY <1>0, <1>1, IsASeq DEF Between
<1> QED
  BY <1>0, <1>2 DEF Between

LEMMA BytesOfNone ==
    ASSUME SizesAssumption, TypeInv, NEW k \in 0..Len(sent)
    PROVE  BytesOf(k, k) = <<>>
<1>1. Between(k, k) = <<>>
  <2>1. k \in Nat /\ k \in k..Len(sent) /\ k - k = 0
    BY PlanTyped
  <2>2. Between(k, k) \in Seq(Seq(Byte)) /\ Len(Between(k, k)) = 0
    BY <2>1, BetweenIs
  <2> QED
    BY <2>2, EmptySeq, Zenon
<1> QED
  BY <1>1, BytesAreBetween, FlattenEmpty

LEMMA BytesOfMore ==
    ASSUME SizesAssumption, TypeInv, NEW k \in Nat, NEW n \in k..(Len(sent) - 1)
    PROVE  BytesOf(k, n + 1) = BytesOf(k, n) \o Packet(n + 1)
<1>0. Len(sent) \in Nat /\ n \in k..Len(sent) /\ n + 1 \in k..Len(sent) /\ n - k \in Nat
  BY PlanTyped
<1>1. /\ Between(k, n) \in Seq(Seq(Byte)) /\ Len(Between(k, n)) = n - k
      /\ Between(k, n + 1) \in Seq(Seq(Byte)) /\ Len(Between(k, n + 1)) = (n + 1) - k
  BY <1>0, BetweenIs
<1>2. Packet(n + 1) \in Seq(Byte)
  <2>1. n + 1 \in 1..Len(sent)
    BY <1>0
  <2> QED
    BY <2>1, PacketIs
<1>3. Between(k, n + 1) = Append(Between(k, n), Packet(n + 1))
  <2> DEFINE a == Between(k, n + 1)
             b == Append(Between(k, n), Packet(n + 1))
  <2>1. b \in Seq(Seq(Byte)) /\ Len(b) = (n - k) + 1
    BY <1>1, <1>2, AppendProperties
  <2>2. \A i \in 1..n - k : a[i] = b[i]
    BY <1>0, <1>1, <1>2, AppendProperties DEF Between
  <2>3. a[(n - k) + 1] = b[(n - k) + 1]
    BY <1>0, <1>1, <1>2, AppendProperties DEF Between
  <2>4. Len(a) = Len(b) /\ \A i \in 1..Len(a) : a[i] = b[i]
    <3>1. Len(a) = (n - k) + 1
      BY <1>0, <1>1
    <3> HIDE DEF a, b
    <3> QED
      BY <1>0, <2>1, <2>2, <2>3, <3>1
  <2> HIDE DEF a, b
  <2>5. a \in Seq(Seq(Byte))
    BY <1>1 DEF a
  <2>6. a = b
    BY <2>1, <2>4, <2>5, SeqEqual
  <2> QED
    BY <2>6 DEF a, b
<1> QED
  BY <1>1, <1>2, <1>3, BytesAreBetween, FlattenAppend

LEMMA BytesOfTyped ==
    ASSUME SizesAssumption, TypeInv, NEW k \in Nat, NEW n \in k..Len(sent)
    PROVE  BytesOf(k, n) \in Seq(Byte)
BY BetweenIs, BytesAreBetween, FlattenTyped

LEMMA BytesOfSplit ==
    ASSUME SizesAssumption, TypeInv, NEW k \in Nat, NEW m \in k..Len(sent)
    PROVE  \A n \in m..Len(sent) : BytesOf(k, n) = BytesOf(k, m) \o BytesOf(m, n)
<1>0. Len(sent) \in Nat /\ m \in Nat
  BY PlanTyped
<1> DEFINE Split(n) == BytesOf(k, n) = BytesOf(k, m) \o BytesOf(m, n)
           S == {i \in Nat : m + i <= Len(sent) => Split(m + i)}
<1>1. 0 \in S
  <2>1. BytesOf(k, m) \in Seq(Byte) /\ BytesOf(m, m) = <<>>
    <3>1. m \in k..Len(sent) /\ m \in 0..Len(sent)
      BY <1>0
    <3> QED
      BY <3>1, BytesOfTyped, BytesOfNone
  <2>2. Split(m)
    BY <2>1, ConcatEmptySeq
  <2>3. m + 0 = m
    BY <1>0
  <2> HIDE DEF Split
  <2> QED
    BY <2>2, <2>3
<1>2. \A i \in Nat : i \in S => i + 1 \in S
  <2> SUFFICES ASSUME NEW i \in Nat, m + (i + 1) <= Len(sent), Split(m + i)
               PROVE  Split(m + (i + 1))
    <3> HIDE DEF Split
    <3> QED
      BY <1>0
  <2> DEFINE n == m + i
  <2>1. n \in k..(Len(sent) - 1) /\ n \in m..(Len(sent) - 1) /\ m + (i + 1) = n + 1
        /\ n \in m..Len(sent) /\ n + 1 \in 1..Len(sent)
    BY <1>0
  <2>2. Split(n)
    OBVIOUS
  <2> HIDE DEF n
  <2>3. /\ BytesOf(k, n + 1) = BytesOf(k, n) \o Packet(n + 1)
        /\ BytesOf(m, n + 1) = BytesOf(m, n) \o Packet(n + 1)
    BY <1>0, <2>1, BytesOfMore
  <2>4. /\ BytesOf(k, m) \in Seq(Byte) /\ BytesOf(m, n) \in Seq(Byte)
        /\ Packet(n + 1) \in Seq(Byte)
    BY <1>0, <2>1, BytesOfTyped, PacketIs
  <2>5. (BytesOf(k, m) \o BytesOf(m, n)) \o Packet(n + 1)
          = BytesOf(k, m) \o (BytesOf(m, n) \o Packet(n + 1))
    <3>1. Regroups(Byte)
      BY Regrouped
    <3>2. BytesOf(k, m) \in Seq(Byte)
      BY <2>4
    <3>3. BytesOf(m, n) \in Seq(Byte)
      BY <2>4
    <3>4. Packet(n + 1) \in Seq(Byte)
      BY <2>4
    <3> QED
      BY <3>1, <3>2, <3>3, <3>4 DEF Regroups
  <2> QED
    BY <2>1, <2>2, <2>3, <2>5
<1> HIDE DEF S
<1>3. Nat \subseteq S
  BY <1>1, <1>2, SetInduction
<1> SUFFICES ASSUME NEW n \in m..Len(sent) PROVE Split(n)
  OBVIOUS
<1>4. n - m \in Nat /\ m + (n - m) = n /\ n <= Len(sent)
  BY <1>0
<1>5. m + (n - m) <= Len(sent) => Split(m + (n - m))
  BY <1>3, <1>4 DEF S
<1> HIDE DEF Split
<1> QED
  BY <1>4, <1>5

(* The first packet is in front.                                           *)
LEMMA BytesOfFirst ==
    ASSUME SizesAssumption, TypeInv, NEW k \in Nat, NEW n \in (k + 1)..Len(sent)
    PROVE  BytesOf(k, n) = HeaderBytes(k + 1) \o (PayloadBytes(k + 1) \o BytesOf(k + 1, n))
<1>0. /\ Len(sent) \in Nat /\ k + 1 \in 1..Len(sent) /\ k + 1 \in k..Len(sent)
      /\ k \in 0..Len(sent) /\ k \in k..(Len(sent) - 1) /\ k + 1 \in Nat /\ k \in k..Len(sent)
  BY PlanTyped
<1>1. BytesOf(k, n) = BytesOf(k, k + 1) \o BytesOf(k + 1, n)
  BY <1>0, BytesOfSplit
<1>2. BytesOf(k, k + 1) = BytesOf(k, k) \o Packet(k + 1)
  BY <1>0, BytesOfMore
<1>3. BytesOf(k, k + 1) = Packet(k + 1)
  BY <1>0, <1>2, BytesOfNone, PacketIs, ConcatEmptySeq
<1>4. /\ HeaderBytes(k + 1) \in Seq(Byte) /\ PayloadBytes(k + 1) \in Seq(Byte)
      /\ BytesOf(k + 1, n) \in Seq(Byte)
  BY <1>0, HeaderBytesAre, PayloadBytesAre, BytesOfTyped
<1> QED
  <2>1. Regroups(Byte)
    BY Regrouped
  <2>2. (HeaderBytes(k + 1) \o PayloadBytes(k + 1)) \o BytesOf(k + 1, n)
          = HeaderBytes(k + 1) \o (PayloadBytes(k + 1) \o BytesOf(k + 1, n))
    BY <1>4, <2>1, ZenonT(60) DEF Regroups
  <2> QED
    BY <1>1, <1>3, <2>2, Zenon DEF Packet

LEMMA SplitAt ==
    ASSUME NEW X, NEW s \in Seq(X), NEW n \in 0..Len(s)
    PROVE  /\ SubSeq(s, 1, n) \in Seq(X) /\ Len(SubSeq(s, 1, n)) = n
           /\ SubSeq(s, n + 1, Len(s)) \in Seq(X) /\ Len(SubSeq(s, n + 1, Len(s))) = Len(s) - n
           /\ s = SubSeq(s, 1, n) \o SubSeq(s, n + 1, Len(s))
<1>0. Len(s) \in Nat /\ \A i \in 1..Len(s) : s[i] \in X
  OBVIOUS
<1>1. SubSeq(s, 1, n) \in Seq(X) /\ Len(SubSeq(s, 1, n)) = n
  <2>1. n \in Int /\ 1 \in Int /\ \A i \in 1..n : s[i] \in X
    BY <1>0
  <2> QED
    BY <1>0, <2>1, SubSeqProperties
<1>2. SubSeq(s, n + 1, Len(s)) \in Seq(X) /\ Len(SubSeq(s, n + 1, Len(s))) = Len(s) - n
  <2>1. n + 1 \in Int /\ Len(s) \in Int /\ \A i \in (n + 1)..Len(s) : s[i] \in X
    BY <1>0
  <2> QED
    BY <1>0, <2>1, SubSeqProperties
<1>3. SubSeq(s, 1, n) \o SubSeq(s, n + 1, Len(s)) = SubSeq(s, 1, Len(s))
  <2>1. /\ 1 \in 1..(Len(s) + 1) /\ n \in (1 - 1)..Len(s) /\ Len(s) \in n..Len(s)
    BY <1>0
  <2> QED
    BY <2>1, ConcatAdjacentSubSeq
<1>4. SubSeq(s, 1, Len(s)) = s
  BY SubSeqFull
<1> QED
  BY <1>1, <1>2, <1>3, <1>4

(* Where two ways to cut the same sequence cut it at one place, their      *)
(* parts are the same.                                                     *)
LEMMA SameCut ==
    ASSUME NEW X, NEW a \in Seq(X), NEW b \in Seq(X), NEW c \in Seq(X), NEW d \in Seq(X),
           a \o b = c \o d, Len(a) = Len(c)
    PROVE  a = c /\ b = d
<1>1. /\ \A i \in 1..Len(a) + Len(b) : (a \o b)[i] = IF i <= Len(a) THEN a[i] ELSE b[i - Len(a)]
      /\ \A i \in 1..Len(c) + Len(d) : (c \o d)[i] = IF i <= Len(c) THEN c[i] ELSE d[i - Len(c)]
      /\ Len(a) + Len(b) = Len(c) + Len(d)
      /\ Len(a) \in Nat /\ Len(b) \in Nat /\ Len(c) \in Nat /\ Len(d) \in Nat
  BY ConcatProperties
<1>2. \A i \in 1..Len(a) : a[i] = c[i]
  BY <1>1
<1>3. a = c
  BY <1>2, SeqEqual
<1>4. b = d
  BY <1>3, ConcatSimplifications
<1> QED
  BY <1>3, <1>4

LEMMA FrontCut ==
    ASSUME NEW X, NEW a \in Seq(X), NEW b \in Seq(X), NEW c \in Seq(X), NEW d \in Seq(X),
           a \o b = c \o d, Len(c) <= Len(a)
    PROVE  /\ c = SubSeq(a, 1, Len(c))
           /\ d = SubSeq(a, Len(c) + 1, Len(a)) \o b
<1> DEFINE p == SubSeq(a, 1, Len(c))
           q == SubSeq(a, Len(c) + 1, Len(a))
<1>1. Len(c) \in 0..Len(a)
  OBVIOUS
<1>2. p \in Seq(X) /\ Len(p) = Len(c) /\ q \in Seq(X) /\ a = p \o q
  BY <1>1, SplitAt, ZenonT(60)
<1> HIDE DEF p, q
<1>3. (p \o q) \o b = p \o (q \o b) /\ q \o b \in Seq(X)
  <2>1. Regroups(X)
    BY Regrouped
  <2>2. q \o b \in Seq(X)
    BY <1>2, ConcatProperties
  <2>3. p \in Seq(X)
    BY <1>2
  <2>4. q \in Seq(X)
    BY <1>2
  <2>5. (p \o q) \o b = p \o (q \o b)
    BY <2>1, <2>3, <2>4, ZenonT(60) DEF Regroups
  <2> QED
    BY <2>2, <2>5
<1>4. p \o (q \o b) = c \o d
  BY <1>2, <1>3
<1>5. p = c /\ q \o b = d
  BY <1>2, <1>3, <1>4, SameCut
<1> QED
  BY <1>5 DEF p, q

-----------------------------------------------------------------------------
(* The parser is at work, or will be once the description is asked for.    *)
Parsing ==
    \/ receiving \/ receiveBuffer # <<>>
    \/ sourceState = "Invalid" \/ connecting \/ describing

done == Len(processed)

HeaderHeld == IF header.op = "Unknown" THEN <<>> ELSE HeaderBytes(done + 1)

HeaderIsNext ==
    header.op # "Unknown" =>
        done < answers /\ header = [op |-> sent[done + 1].op, size |-> sent[done + 1].size]

LessThanNeeded ==
    GetTotalLength(packet) < IF header.op = "Unknown" THEN HeaderSize ELSE header.size

BytesTyped ==
    wire \in Seq(Byte) /\ receiveBuffer \in Seq(Byte) /\ packet \in Seq(Seq(Byte))

BytesInOrder ==
    BytesOf(done, answers) = HeaderHeld \o FlattenSeq(packet) \o receiveBuffer \o wire

Held == BytesTyped /\ BytesInOrder /\ HeaderIsNext /\ LessThanNeeded

Packets == [op : Received, payload : Seq(Byte)]

FrameInv ==
    ~cutOff => /\ processed \in Seq(Packets) /\ FramedAsSent
               /\ Parsing => Held

(* A turn that finds no header leaves all there is in the packet.          *)
NoHeaderYet(h, buffers) ==
    /\ h.op = "Unknown" /\ h.size = MaxPacketSize
    /\ GetTotalLength(buffers) < HeaderSize
    /\ BytesOf(done, answers) = FlattenSeq(buffers) \o wire

(* One that knows the header is in the payload of the packet it is of; if  *)
(* there is more than that, the buffer received last can be split.         *)
InPayload(h, buffers) ==
    /\ done < answers
    /\ h = [op |-> sent[done + 1].op, size |-> sent[done + 1].size]
    /\ BytesOf(done, answers) = HeaderBytes(done + 1) \o (FlattenSeq(buffers) \o wire)
    /\ GetTotalLength(buffers) > h.size =>
           buffers # <<>> /\ GetTotalLength(buffers) - h.size < Len(Last(buffers))

TurnInStep(h, buffers) ==
    /\ buffers \in Seq(Seq(Byte))
    /\ NoHeaderYet(h, buffers) \/ InPayload(h, buffers)

LEMMA AddedIs ==
    ASSUME BytesTyped
    PROVE  /\ Added \in Seq(Seq(Byte)) /\ Len(Added) = Len(packet) + 1
           /\ FlattenSeq(packet) \in Seq(Byte)
           /\ FlattenSeq(Added) = FlattenSeq(packet) \o receiveBuffer
           /\ FlattenSeq(Added) \in Seq(Byte)
           /\ GetTotalLength(Added) = GetTotalLength(packet) + Len(receiveBuffer)
           /\ Last(Added) = receiveBuffer
           /\ GetTotalLength(packet) \in Nat /\ Len(receiveBuffer) \in Nat
<1>1. packet \in Seq(Seq(Byte)) /\ receiveBuffer \in Seq(Byte)
  BY DEF BytesTyped
<1>2. /\ Added \in Seq(Seq(Byte)) /\ Len(Added) = Len(packet) + 1
      /\ Added[Len(packet) + 1] = receiveBuffer
  BY <1>1, AppendProperties DEF Added
<1>3. FlattenSeq(Added) = FlattenSeq(packet) \o receiveBuffer
  BY <1>1, FlattenAppend DEF Added
<1>4. FlattenSeq(packet) \in Seq(Byte) /\ FlattenSeq(Added) \in Seq(Byte)
  BY <1>1, <1>2, FlattenTyped
<1>5. Len(FlattenSeq(Added)) = Len(FlattenSeq(packet)) + Len(receiveBuffer)
  BY <1>1, <1>3, <1>4, ConcatProperties
<1>6. Len(FlattenSeq(packet)) \in Nat /\ Len(receiveBuffer) \in Nat
  BY <1>1, <1>4
<1> QED
  BY <1>2, <1>3, <1>4, <1>5, <1>6 DEF GetTotalLength, Last

(* All bytes not processed are those of the header, if it is known, those  *)
(* in the packet and the buffer, and those on the wire.                    *)
LEMMA BytesAhead ==
    ASSUME SizesAssumption, TypeInv, Held, done \in Nat
    PROVE  BytesOf(done, answers) = HeaderHeld \o (FlattenSeq(Added) \o wire)
<1>1. /\ FlattenSeq(packet) \in Seq(Byte) /\ receiveBuffer \in Seq(Byte) /\ wire \in Seq(Byte)
      /\ FlattenSeq(Added) = FlattenSeq(packet) \o receiveBuffer
  BY AddedIs DEF Held, BytesTyped
<1>2. HeaderHeld \in Seq(Byte)
  <2>1. done + 1 \in Nat /\ <<>> \in Seq(Byte)
    OBVIOUS
  <2>2. HeaderBytes(done + 1) \in Seq(Byte)
    BY <2>1, HeaderBytesAre
  <2> QED
    BY <2>1, <2>2 DEF HeaderHeld
<1>3. BytesOf(done, answers) = ((HeaderHeld \o FlattenSeq(packet)) \o receiveBuffer) \o wire
  BY DEF Held, BytesInOrder
<1> DEFINE hh == HeaderHeld
           f == FlattenSeq(packet)
<1> HIDE DEF hh, f
<1>4. ((hh \o f) \o receiveBuffer) \o wire = hh \o ((f \o receiveBuffer) \o wire)
  <2>0. hh \in Seq(Byte) /\ f \in Seq(Byte)
    BY <1>1, <1>2 DEF hh, f
  <2>1. Regroups(Byte)
    BY Regrouped
  <2>2. hh \o f \in Seq(Byte) /\ f \o receiveBuffer \in Seq(Byte)
    BY <1>1, <2>0, ConcatProperties
  <2>3. (hh \o f) \o receiveBuffer = hh \o (f \o receiveBuffer)
    BY <1>1, <2>0, <2>1, ZenonT(60) DEF Regroups
  <2>4. (hh \o (f \o receiveBuffer)) \o wire = hh \o ((f \o receiveBuffer) \o wire)
    <3>1. f \o receiveBuffer \in Seq(Byte)
      BY <2>2
    <3>2. wire \in Seq(Byte) /\ hh \in Seq(Byte)
      BY <1>1, <2>0
    <3> HIDE <1>3
    <3> QED
      BY <2>1, <3>1, <3>2, ZenonT(60) DEF Regroups
  <2> QED
    BY <2>3, <2>4, Zenon
<1> QED
  BY <1>1, <1>3, <1>4 DEF hh, f

LEMMA OneOf ==
    ASSUME NEW X, NEW s \in Seq(X), NEW i \in 1..Len(s)
    PROVE  SubSeq(s, i, i) = <<s[i]>>
<1>1. s[i] \in X /\ i \in Int /\ \A k \in i..i : s[k] \in X
  OBVIOUS
<1>2. /\ SubSeq(s, i, i) \in Seq(X) /\ Len(SubSeq(s, i, i)) = 1
      /\ \A k \in 1..1 : SubSeq(s, i, i)[k] = s[i + k - 1]
  BY <1>1, SubSeqProperties
<1>3. <<s[i]>> \in Seq(X) /\ Len(<<s[i]>>) = 1 /\ <<s[i]>>[1] = s[i]
  BY <1>1
<1>4. SubSeq(s, i, i)[1] = s[i]
  BY <1>1, <1>2
<1>5. \A k \in 1..1 : SubSeq(s, i, i)[k] = <<s[i]>>[k]
  BY <1>3, <1>4
<1> QED
  BY <1>2, <1>3, <1>5, SeqEqual

LEMMA OnlyOne ==
    ASSUME NEW X, NEW x \in X
    PROVE  Head(<<x>>) = x /\ Tail(<<x>>) = <<>> /\ Last(<<x>>) = x /\ <<x>> # <<>>
<1>1. <<x>> \in Seq(X) /\ Len(<<x>>) = 1 /\ <<x>>[1] = x /\ <<x>> # <<>>
  OBVIOUS
<1>2. /\ Head(<<x>>) \in X /\ Tail(<<x>>) \in Seq(X) /\ Len(Tail(<<x>>)) = 0
  BY <1>1, HeadTailProperties
<1>3. Head(<<x>>) = x
  OBVIOUS
<1> QED
  BY <1>1, <1>2, <1>3, EmptySeq DEF Last

(* The length of the first buffers grows with their number.                *)
LEMMA SkippedGrows ==
    ASSUME NEW X, NEW s \in Seq(Seq(X)), NEW k \in 0..Len(s)
    PROVE  /\ GetTotalLength(SubSeq(s, 1, k)) \in Nat
           /\ \A m \in k..Len(s) :
                  GetTotalLength(SubSeq(s, 1, k)) <= GetTotalLength(SubSeq(s, 1, m))
<1> DEFINE Skipped(m) == GetTotalLength(SubSeq(s, 1, m))
<1>0. Len(s) \in Nat /\ \A i \in 1..Len(s) : s[i] \in Seq(X)
  OBVIOUS
<1>1. \A m \in 0..Len(s) : SubSeq(s, 1, m) \in Seq(Seq(X)) /\ Len(SubSeq(s, 1, m)) = m
  BY <1>0, SplitAt
<1>2. \A m \in 0..Len(s) : Skipped(m) \in Nat
  <2> SUFFICES ASSUME NEW m \in 0..Len(s) PROVE Skipped(m) \in Nat
    OBVIOUS
  <2>1. SubSeq(s, 1, m) \in Seq(Seq(X))
    BY <1>1
  <2>2. FlattenSeq(SubSeq(s, 1, m)) \in Seq(X)
    BY <2>1, FlattenTyped
  <2> QED
    BY <2>2 DEF GetTotalLength
<1>3. \A m \in 0..(Len(s) - 1) : Skipped(m) <= Skipped(m + 1)
  <2> SUFFICES ASSUME NEW m \in 0..(Len(s) - 1) PROVE Skipped(m) <= Skipped(m + 1)
    OBVIOUS
  <2> DEFINE a == SubSeq(s, 1, m)
             b == SubSeq(s, 1, m + 1)
  <2>1. /\ a \in Seq(Seq(X)) /\ Len(a) = m /\ b \in Seq(Seq(X)) /\ Len(b) = m + 1
        /\ s[m + 1] \in Seq(X)
    BY <1>0, <1>1
  <2>2. b = Append(a, s[m + 1])
    <3>1. b = Append(SubSeq(s, 1, m), s[m + 1])
      <4>1. s \in Seq(Seq(X)) /\ 1 \in 1..(m + 1) /\ m + 1 \in 1..Len(s) /\ (m + 1) - 1 = m
        BY <1>0
      <4>2. 1 \in 1..(Len(s) + 1) /\ m \in 0..Len(s) /\ m + 1 \in m..Len(s) /\ m \in (1 - 1)..Len(s)
        BY <1>0
      <4>3. SubSeq(s, 1, m) \o SubSeq(s, m + 1, m + 1) = SubSeq(s, 1, m + 1)
        BY <4>2, ConcatAdjacentSubSeq
      <4>4. SubSeq(s, m + 1, m + 1) = <<s[m + 1]>>
        BY <4>1, OneOf
      <4>5. Append(a, s[m + 1]) = a \o <<s[m + 1]>>
        BY <2>1, AppendIsConcat
      <4> QED
        BY <4>3, <4>4, <4>5
    <3> QED
      BY <3>1
  <2> HIDE DEF a, b
  <2>3. FlattenSeq(b) = FlattenSeq(a) \o s[m + 1]
    BY <2>1, <2>2, FlattenAppend
  <2>4. FlattenSeq(a) \in Seq(X)
    BY <2>1, FlattenTyped
  <2>5. Len(FlattenSeq(b)) = Len(FlattenSeq(a)) + Len(s[m + 1])
    BY <2>1, <2>3, <2>4, ConcatProperties
  <2>6. Len(FlattenSeq(a)) <= Len(FlattenSeq(b))
    BY <2>1, <2>4, <2>5
  <2> QED
    BY <2>6 DEF GetTotalLength, a, b
<1> HIDE DEF Skipped
<1> DEFINE S == {i \in Nat : k + i <= Len(s) => Skipped(k) <= Skipped(k + i)}
<1>4. 0 \in S
  BY <1>0, <1>2
<1>5. \A i \in Nat : i \in S => i + 1 \in S
  <2> SUFFICES ASSUME NEW i \in Nat, k + (i + 1) <= Len(s), Skipped(k) <= Skipped(k + i)
               PROVE  Skipped(k) <= Skipped(k + (i + 1))
    BY <1>0
  <2>1. k + i \in 0..(Len(s) - 1) /\ k + (i + 1) = (k + i) + 1
        /\ (k + i) + 1 \in 0..Len(s) /\ k + i \in 0..Len(s)
    BY <1>0
  <2>2. Skipped(k + i) <= Skipped((k + i) + 1)
    BY <1>3, <2>1
  <2> QED
    BY <1>2, <2>1, <2>2
<1> HIDE DEF S
<1>6. Nat \subseteq S
  BY <1>4, <1>5, SetInduction
<1>7. \A m \in k..Len(s) : Skipped(k) <= Skipped(m)
  <2> SUFFICES ASSUME NEW m \in k..Len(s) PROVE Skipped(k) <= Skipped(m)
    OBVIOUS
  <2>1. m - k \in Nat /\ k + (m - k) = m
    BY <1>0
  <2> QED
    <3>1. k + (m - k) <= Len(s) => Skipped(k) <= Skipped(k + (m - k))
      BY <1>6, <2>1 DEF S
    <3>2. k + (m - k) <= Len(s)
      BY <1>0, <2>1
    <3> QED
      BY <2>1, <3>1, <3>2
<1> QED
  BY <1>2, <1>7 DEF Skipped

LEMMA FlattenOne ==
    ASSUME NEW X, NEW x \in Seq(X)
    PROVE  FlattenSeq(<<x>>) = x
<1>1. <<>> \in Seq(Seq(X)) /\ Append(<<>>, x) = <<x>>
  OBVIOUS
<1>2. FlattenSeq(Append(<<>>, x)) = FlattenSeq(<<>>) \o x
  BY <1>1, FlattenAppend
<1> QED
  BY <1>1, <1>2, FlattenEmpty, ConcatEmptySeq

(* The header is taken off: what is left is in the buffer received last.   *)
LEMMA HeaderTrimmed ==
    ASSUME BytesTyped, HeaderSize \in Nat,
           GetTotalLength(packet) < HeaderSize, GetTotalLength(Added) >= HeaderSize
    PROVE  /\ GetTotalLength(Added) = HeaderSize => TrimLeft(Added, HeaderSize) = <<>>
           /\ GetTotalLength(Added) > HeaderSize =>
                  TrimLeft(Added, HeaderSize) =
                      <<SubSeq(receiveBuffer, HeaderSize - GetTotalLength(packet) + 1,
                               Len(receiveBuffer))>>
<1> DEFINE n == Len(packet)
           Skipped(k) == GetTotalLength(SubSeq(Added, 1, k))
           Good(k) == /\ Skipped(k) <= HeaderSize
                      /\ k < Len(Added) => Skipped(k + 1) > HeaderSize
           popped == CHOOSE k \in 0..Len(Added) : Good(k)
           rest == SubSeq(Added, popped + 1, Len(Added))
<1>0. packet \in Seq(Seq(Byte)) /\ receiveBuffer \in Seq(Byte) /\ n \in Nat
  BY DEF BytesTyped
<1>1. /\ Added \in Seq(Seq(Byte)) /\ Len(Added) = n + 1
      /\ GetTotalLength(Added) \in Nat /\ GetTotalLength(packet) \in Nat
  BY AddedIs
<1>2. SubSeq(Added, 1, n) = packet
  <2>1. \A i \in 1..n : Added[i] = packet[i]
    BY <1>0, AppendProperties DEF Added
  <2>2. n \in 0..Len(Added)
    BY <1>0, <1>1
  <2>3. SubSeq(Added, 1, n) \in Seq(Seq(Byte)) /\ Len(SubSeq(Added, 1, n)) = n
    BY <1>1, <2>2, SplitAt
  <2>4. \A i \in 1..n : SubSeq(Added, 1, n)[i] = packet[i]
    BY <1>0, <1>1, <2>1
  <2> QED
    BY <1>0, <2>3, <2>4, SeqEqual
<1>3. SubSeq(Added, 1, n + 1) = Added
  BY <1>1, SubSeqFull
<1>4. Skipped(n) = GetTotalLength(packet) /\ Skipped(n + 1) = GetTotalLength(Added)
  BY <1>2, <1>3
<1>5. \A k \in 0..(n + 1) : Skipped(k) \in Nat /\ \A m \in k..(n + 1) : Skipped(k) <= Skipped(m)
  BY <1>0, <1>1, SkippedGrows
<1>6. TrimLeft(Added, HeaderSize) =
          IF Skipped(popped) = HeaderSize THEN rest
          ELSE <<SubSeq(Head(rest), HeaderSize - Skipped(popped) + 1, Len(Head(rest)))>>
                   \o Tail(rest)
  BY DEF TrimLeft
<1> HIDE DEF Skipped
<1>7. CASE GetTotalLength(Added) = HeaderSize
  <2>1. Good(n + 1)
    BY <1>0, <1>1, <1>4, <1>7
  <2>2. \A k \in 0..n : ~Good(k)
    <3> SUFFICES ASSUME NEW k \in 0..n, Good(k) PROVE FALSE
      OBVIOUS
    <3>1. k + 1 \in 0..(n + 1) /\ n + 1 \in (k + 1)..(n + 1) /\ k < Len(Added)
      BY <1>0, <1>1
    <3>2. Skipped(k + 1) <= Skipped(n + 1) /\ Skipped(k + 1) \in Nat
      BY <1>5, <3>1
    <3> QED
      BY <1>4, <1>7, <3>1, <3>2
  <2> HIDE DEF Good
  <2>3. popped \in 0..(n + 1) /\ Good(popped)
    <3>1. n + 1 \in 0..Len(Added)
      BY <1>0, <1>1
    <3> QED
      BY <1>1, <2>1, <3>1
  <2> HIDE DEF popped
  <2>4. popped = n + 1
    BY <1>0, <2>2, <2>3
  <2>5. Skipped(popped) = HeaderSize
    BY <1>4, <1>7, <2>4
  <2>6. rest = <<>>
    BY <1>0, <1>1, <2>4, SubSeqEmpty
  <2> QED
    BY <1>6, <1>7, <2>5, <2>6
<1>8. CASE GetTotalLength(Added) > HeaderSize
  <2>1. Good(n)
    BY <1>0, <1>1, <1>4, <1>8
  <2>2. \A k \in 0..(n + 1) : Good(k) => k = n
    <3> SUFFICES ASSUME NEW k \in 0..(n + 1), Good(k), k # n PROVE FALSE
      OBVIOUS
    <3>1. CASE k = n + 1
      BY <1>4, <1>1, <1>8, <3>1
    <3>2. CASE k < n
      <4>1. k + 1 \in 0..(n + 1) /\ n \in (k + 1)..(n + 1) /\ k < Len(Added)
        BY <1>0, <1>1, <3>2, SMTT(60)
      <4>2. Skipped(k + 1) <= Skipped(n) /\ Skipped(k + 1) \in Nat
        BY <1>5, <4>1
      <4> QED
        BY <1>1, <1>4, <4>1, <4>2
    <3> QED
      BY <1>0, <3>1, <3>2
  <2> HIDE DEF Good
  <2>3. popped \in 0..(n + 1) /\ Good(popped)
    <3>1. n \in 0..Len(Added)
      BY <1>0, <1>1
    <3> QED
      BY <1>1, <2>1, <3>1
  <2> HIDE DEF popped
  <2>4. popped = n
    BY <2>2, <2>3
  <2>5. Skipped(popped) = GetTotalLength(packet) /\ Skipped(popped) # HeaderSize
    BY <1>1, <1>4, <2>4
  <2>6. rest = <<receiveBuffer>>
    <3>1. Added[n + 1] = receiveBuffer
      BY <1>0, AppendProperties DEF Added
    <3>2. rest = SubSeq(Added, n + 1, n + 1)
      BY <1>1, <2>4
    <3> QED
      <4>1. n + 1 \in 1..Len(Added)
        BY <1>0, <1>1
      <4>2. SubSeq(Added, n + 1, n + 1) = <<Added[n + 1]>>
        BY <1>1, <4>1, OneOf
      <4> QED
        BY <3>1, <3>2, <4>2
  <2>7. Head(rest) = receiveBuffer /\ Tail(rest) = <<>>
    BY <1>0, <2>6, OnlyOne
  <2> DEFINE x == SubSeq(receiveBuffer, HeaderSize - GetTotalLength(packet) + 1, Len(receiveBuffer))
  <2>8. TrimLeft(Added, HeaderSize) = <<x>> \o <<>>
    BY <1>6, <2>5, <2>7
  <2> HIDE DEF x
  <2>9. <<x>> \o <<>> = <<x>>
    OBVIOUS
  <2> QED
    BY <1>8, <2>8, <2>9 DEF x
<1> QED
  BY <1>1, <1>7, <1>8

Ahead == BytesOf(done + 1, answers)

(* What lies ahead begins with the packet that is to be processed next.    *)
LEMMA NextPacketFirst ==
    ASSUME SizesAssumption, TypeInv, done \in Nat, done < answers
    PROVE  /\ BytesOf(done, answers)
                = HeaderBytes(done + 1) \o (PayloadBytes(done + 1) \o Ahead)
           /\ HeaderBytes(done + 1) \in Seq(Byte) /\ Len(HeaderBytes(done + 1)) = HeaderSize
           /\ PayloadBytes(done + 1) \in Seq(Byte)
           /\ Len(PayloadBytes(done + 1)) = sent[done + 1].size
           /\ Ahead \in Seq(Byte) /\ PayloadBytes(done + 1) \o Ahead \in Seq(Byte)
           /\ sent[done + 1].op \in Received /\ sent[done + 1].size \in 1..MaxPacketSize
           /\ done + 1 \in 1..Len(sent)
<1>1. answers \in 0..Len(sent) /\ Len(sent) \in Nat
  BY PlanTyped DEF TypeInv, TypeOK
<1>2. done + 1 \in 1..Len(sent) /\ answers \in (done + 1)..Len(sent) /\ done + 1 \in Nat
  BY <1>1
<1>3. BytesOf(done, answers) = HeaderBytes(done + 1) \o (PayloadBytes(done + 1) \o Ahead)
  BY <1>2, BytesOfFirst DEF Ahead
<1>4. HeaderBytes(done + 1) \in Seq(Byte) /\ Len(HeaderBytes(done + 1)) = HeaderSize
  BY <1>2, HeaderBytesAre
<1>5. /\ PayloadBytes(done + 1) \in Seq(Byte)
      /\ Len(PayloadBytes(done + 1)) = sent[done + 1].size
  BY <1>2, PayloadBytesAre
<1>6. Ahead \in Seq(Byte)
  BY <1>2, BytesOfTyped DEF Ahead
<1>7. PayloadBytes(done + 1) \o Ahead \in Seq(Byte)
  BY <1>5, <1>6, ConcatProperties
<1>8. sent[done + 1].op \in Received /\ sent[done + 1].size \in 1..MaxPacketSize
  BY <1>2, PlanTyped
<1> QED
  BY <1>2, <1>3, <1>4, <1>5, <1>6, <1>7, <1>8

LEMMA HeaderTaken ==
    ASSUME SizesAssumption, TypeInv, Held, done \in Nat, done <= answers,
           HeaderComplete, NEW h \in Headers
    PROVE  Buffers \in Seq(Seq(Byte)) /\ InPayload(h, Buffers)
<1> DEFINE all == FlattenSeq(Added)
           k == done + 1
<1>0. HeaderSize \in Nat /\ HeaderSize >= 1
  BY DEF SizesAssumption
<1>1. BytesTyped /\ header.op = "Unknown" /\ GetTotalLength(packet) < HeaderSize
  BY DEF Held, LessThanNeeded, HeaderComplete
<1>2. /\ all \in Seq(Byte) /\ wire \in Seq(Byte) /\ receiveBuffer \in Seq(Byte)
      /\ Len(all) >= HeaderSize /\ GetTotalLength(Added) = Len(all)
      /\ FlattenSeq(packet) \in Seq(Byte) /\ all = FlattenSeq(packet) \o receiveBuffer
      /\ Len(all) = GetTotalLength(packet) + Len(receiveBuffer)
      /\ GetTotalLength(packet) \in Nat /\ Len(receiveBuffer) \in Nat
      /\ GetTotalLength(packet) = Len(FlattenSeq(packet))
  BY <1>1, AddedIs DEF BytesTyped, HeaderComplete, GetTotalLength
<1>3. all \o wire \in Seq(Byte) /\ Len(all \o wire) = Len(all) + Len(wire)
  BY <1>2, ConcatProperties
<1>4. BytesOf(done, answers) = all \o wire
  <2>1. BytesOf(done, answers) = <<>> \o (all \o wire)
    BY <1>1, BytesAhead DEF HeaderHeld
  <2> HIDE DEF all
  <2> QED
    BY <1>3, <2>1, ConcatEmptySeq
<1>5. done < answers
  <2> SUFFICES ASSUME done = answers PROVE FALSE
    BY DEF TypeInv, TypeOK
  <2>1. BytesOf(done, answers) = <<>>
    <3>1. answers \in 0..Len(sent)
      BY DEF TypeInv, TypeOK
    <3> QED
      BY <3>1, BytesOfNone
  <2>2. Len(all) + Len(wire) = 0
    BY <1>3, <1>4, <2>1, EmptySeq
  <2> HIDE DEF all
  <2> QED
    BY <1>0, <1>2, <2>2
<1>6. /\ BytesOf(done, answers) = HeaderBytes(k) \o (PayloadBytes(k) \o Ahead)
      /\ HeaderBytes(k) \in Seq(Byte) /\ Len(HeaderBytes(k)) = HeaderSize
      /\ PayloadBytes(k) \o Ahead \in Seq(Byte)
      /\ sent[k].size \in 1..MaxPacketSize /\ k \in 1..Len(sent) /\ k \in Nat
      /\ sent[k].size \in Nat /\ sent[k].size >= 1
  <2>1. k \in Nat
    OBVIOUS
  <2> HIDE DEF k
  <2>2. /\ BytesOf(done, answers) = HeaderBytes(k) \o (PayloadBytes(k) \o Ahead)
        /\ HeaderBytes(k) \in Seq(Byte) /\ Len(HeaderBytes(k)) = HeaderSize
        /\ PayloadBytes(k) \o Ahead \in Seq(Byte)
        /\ sent[k].size \in 1..MaxPacketSize /\ k \in 1..Len(sent)
    BY <1>5, NextPacketFirst, Zenon DEF k
  <2>3. sent[k].size \in Nat /\ sent[k].size >= 1
    BY <2>2 DEF SizesAssumption
  <2> QED
    BY <2>1, <2>2, <2>3
<1> HIDE DEF all, k
<1>7. /\ HeaderBytes(k) = SubSeq(all, 1, HeaderSize)
      /\ PayloadBytes(k) \o Ahead = SubSeq(all, HeaderSize + 1, Len(all)) \o wire
  <2>1. all \o wire = HeaderBytes(k) \o (PayloadBytes(k) \o Ahead)
    BY <1>4, <1>6
  <2> QED
    BY <1>2, <1>6, <2>1, FrontCut
<1>8. h = [op |-> sent[k].op, size |-> sent[k].size]
  <2>1. h \in Decoded(HeaderBytes(k))
    BY <1>7 DEF HeaderComplete, Headers, CopyTo, all
  <2>2. \A j \in 1..Len(sent) : HeaderBytes(j) = HeaderBytes(k) => j = k
    <3>1. \A j \in 1..Len(sent) : j \in Nat
      BY PlanTyped
    <3>2. \A j \in Nat : HeaderBytes(j) = HeaderBytes(k) => j = k
      BY <1>6, HeaderBytesAre
    <3> QED
      BY <3>1, <3>2
  <2>3. {j \in 1..Len(sent) : HeaderBytes(j) = HeaderBytes(k)} = {k}
    BY <1>6, <2>2
  <2> QED
    BY <2>1, <2>3 DEF Decoded
<1> DEFINE x == SubSeq(receiveBuffer, HeaderSize - GetTotalLength(packet) + 1, Len(receiveBuffer))
           left == SubSeq(all, HeaderSize + 1, Len(all))
<1>9. Buffers = TrimLeft(Added, HeaderSize)
  BY DEF Buffers
<1>10. CASE Len(all) = HeaderSize
  <2>1. Buffers = <<>>
    BY <1>0, <1>1, <1>2, <1>9, <1>10, HeaderTrimmed
  <2>2. left = <<>>
    BY <1>0, <1>10, SubSeqEmpty
  <2> HIDE DEF left, x
  <2>3. Buffers \in Seq(Seq(Byte)) /\ FlattenSeq(Buffers) = left
    <3>1. <<>> \in Seq(Seq(Byte))
      OBVIOUS
    <3> QED
      BY <2>1, <2>2, <3>1, FlattenEmpty
  <2>4. GetTotalLength(Buffers) = 0
    <3>1. Len(<<>>) = 0
      OBVIOUS
    <3> QED
      BY <2>2, <2>3, <3>1 DEF GetTotalLength
  <2>5. GetTotalLength(Buffers) <= h.size
    BY <1>6, <1>8, <2>4
  <2>6. BytesOf(done, answers) = HeaderBytes(k) \o (FlattenSeq(Buffers) \o wire)
    BY <1>6, <1>7, <2>3 DEF left
  <2> QED
    <3>1. ~(GetTotalLength(Buffers) > h.size)
      BY <1>6, <1>8, <2>4
    <3> QED
      BY <1>5, <1>8, <2>3, <2>6, <3>1, Zenon DEF InPayload, k
<1>11. CASE Len(all) > HeaderSize
  <2>1. Buffers = <<x>>
    BY <1>0, <1>1, <1>2, <1>9, <1>11, HeaderTrimmed
  <2>2. x \in Seq(Byte) /\ Len(x) = Len(all) - HeaderSize
    <3> DEFINE from == HeaderSize - GetTotalLength(packet)
    <3>1. from \in 0..Len(receiveBuffer)
      BY <1>0, <1>1, <1>2, <1>11
    <3> HIDE DEF from
    <3>2. /\ SubSeq(receiveBuffer, from + 1, Len(receiveBuffer)) \in Seq(Byte)
          /\ Len(SubSeq(receiveBuffer, from + 1, Len(receiveBuffer))) = Len(receiveBuffer) - from
      BY <1>2, <3>1, SplitAt
    <3>3. Len(receiveBuffer) - from = Len(all) - HeaderSize
      BY <1>0, <1>2 DEF from
    <3> QED
      BY <3>2, <3>3 DEF from
  <2>3. left = x
    <3> DEFINE f == FlattenSeq(packet)
    <3>1. /\ HeaderSize + 1 \in (Len(f) + 1)..(Len(f) + Len(receiveBuffer))
          /\ Len(all) \in (Len(f) + 1)..(Len(f) + Len(receiveBuffer))
          /\ Len(f) \in Nat
      BY <1>0, <1>1, <1>2, <1>11
    <3>2. f \in Seq(Byte) /\ all = f \o receiveBuffer
      BY <1>2
    <3>3. Len(all) = Len(f) + Len(receiveBuffer) /\ GetTotalLength(packet) = Len(f)
      BY <1>2
    <3> HIDE DEF f
    <3>4. SubSeq(f \o receiveBuffer, HeaderSize + 1, Len(all))
            = SubSeq(receiveBuffer, (HeaderSize + 1) - Len(f), Len(all) - Len(f))
      BY <1>2, <3>1, <3>2, SubSeqOfConcat2, SMTT(60)
    <3>5. /\ (HeaderSize + 1) - Len(f) = HeaderSize - GetTotalLength(packet) + 1
          /\ Len(all) - Len(f) = Len(receiveBuffer)
      BY <1>0, <1>2, <3>1, <3>3
    <3> QED
      BY <3>2, <3>4, <3>5
  <2> HIDE DEF x, left
  <2>4. Buffers \in Seq(Seq(Byte)) /\ FlattenSeq(Buffers) = left
    BY <2>1, <2>2, <2>3, FlattenOne
  <2>5. Buffers # <<>> /\ Last(Buffers) = x
    BY <2>1, <2>2, OnlyOne
  <2>6. GetTotalLength(Buffers) = Len(x) /\ Len(x) \in Nat
    BY <2>2, <2>3, <2>4 DEF GetTotalLength
  <2>7. GetTotalLength(Buffers) - h.size < Len(Last(Buffers))
    BY <1>6, <1>8, <2>5, <2>6
  <2>8. BytesOf(done, answers) = HeaderBytes(k) \o (FlattenSeq(Buffers) \o wire)
    BY <1>6, <1>7, <2>4 DEF left
  <2> QED
    BY <1>5, <1>8, <2>4, <2>5, <2>7, <2>8 DEF InPayload, k
<1> QED
  BY <1>0, <1>2, <1>10, <1>11

(* Whatever a turn finds is a header not yet complete or the next payload. *)
LEMMA TurnIs ==
    ASSUME SizesAssumption, TypeInv, Held, done \in Nat, done <= answers, NEW h \in Headers
    PROVE  TurnInStep(h, Buffers)
<1>0. BytesTyped /\ HeaderIsNext /\ LessThanNeeded
  BY DEF Held
<1>1. CASE HeaderComplete
  BY <1>1, HeaderTaken DEF TurnInStep
<1>2. CASE ~HeaderComplete
  <2>0. Buffers = Added
    BY <1>2 DEF Buffers
  <2>1. /\ Added \in Seq(Seq(Byte)) /\ Len(Added) = Len(packet) + 1
        /\ GetTotalLength(Added) = GetTotalLength(packet) + Len(receiveBuffer)
        /\ Last(Added) = receiveBuffer
        /\ GetTotalLength(packet) \in Nat /\ Len(receiveBuffer) \in Nat
        /\ FlattenSeq(Added) \in Seq(Byte) /\ wire \in Seq(Byte)
    BY <1>0, AddedIs DEF BytesTyped
  <2>2. FlattenSeq(Added) \o wire \in Seq(Byte)
    BY <2>1, ConcatProperties
  <2>3. BytesOf(done, answers) = HeaderHeld \o (FlattenSeq(Added) \o wire)
    BY BytesAhead
  <2>4. CASE header.op = "Unknown"
    <3>1. h = [header EXCEPT !.size = MaxPacketSize]
      BY <1>2, <2>4 DEF Headers
    <3>2. header \in Header
      BY DEF TypeInv, TypeOK
    <3>3. h.op = "Unknown" /\ h.size = MaxPacketSize
      BY <2>4, <3>1, <3>2 DEF Header
    <3>4. GetTotalLength(Added) < HeaderSize
      BY <1>2, <2>1, <2>4 DEF HeaderComplete, SizesAssumption
    <3>5. BytesOf(done, answers) = FlattenSeq(Added) \o wire
      <4>1. HeaderHeld = <<>>
        BY <2>4 DEF HeaderHeld
      <4> QED
        BY <2>2, <2>3, <4>1, ConcatEmptySeq
    <3> QED
      BY <2>0, <2>1, <3>3, <3>4, <3>5 DEF TurnInStep, NoHeaderYet
  <2>5. CASE header.op # "Unknown"
    <3>1. h = header
      BY <1>2, <2>5 DEF Headers
    <3>2. done < answers /\ h = [op |-> sent[done + 1].op, size |-> sent[done + 1].size]
      BY <1>0, <2>5, <3>1 DEF HeaderIsNext
    <3>3. HeaderHeld = HeaderBytes(done + 1)
      BY <2>5 DEF HeaderHeld
    <3>4. GetTotalLength(packet) < h.size
      BY <1>0, <2>5, <3>1 DEF LessThanNeeded
    <3>5. h.size \in Int
      <4>1. header \in Header
        BY DEF TypeInv, TypeOK
      <4> QED
        BY <3>1, <4>1 DEF Header
    <3>6. GetTotalLength(Added) - h.size < Len(Last(Added))
      BY <2>1, <3>4, <3>5
    <3>7. Added # <<>>
      BY <1>0, <2>1 DEF BytesTyped
    <3> QED
      BY <2>0, <2>1, <2>3, <3>2, <3>3, <3>6, <3>7 DEF TurnInStep, InPayload
  <2> QED
    BY <2>4, <2>5
<1> QED
  BY <1>1, <1>2

LEMMA NextSize ==
    ASSUME SizesAssumption, TypeInv, done \in Nat, done < answers
    PROVE  sent[done + 1].op \in Received /\ sent[done + 1].size \in 1..MaxPacketSize
BY NextPacketFirst

(* No turn is malformed, and one that completes a packet is in a payload.  *)
LEMMA TurnIsSound ==
    ASSUME SizesAssumption, TypeInv, done \in Nat, NEW h, NEW buffers, TurnInStep(h, buffers)
    PROVE  /\ ~Malformed(h, buffers)
           /\ Complete(h, buffers) => InPayload(h, buffers)
           /\ GetTotalLength(buffers) \in Nat /\ h.size \in Nat
<1>1. GetTotalLength(buffers) \in Nat
  <2>1. FlattenSeq(buffers) \in Seq(Byte)
    BY FlattenTyped DEF TurnInStep
  <2> QED
    BY <2>1 DEF GetTotalLength
<1>2. MaxPacketSize \in Nat /\ HeaderSize \in Nat /\ HeaderSize <= MaxPacketSize
  BY DEF SizesAssumption
<1>3. CASE NoHeaderYet(h, buffers)
  <2>1. h.op = "Unknown" /\ h.size = MaxPacketSize /\ GetTotalLength(buffers) < HeaderSize
    BY <1>3 DEF NoHeaderYet
  <2>2. Excess(h, buffers) < 0
    BY <1>1, <1>2, <2>1 DEF Excess
  <2>3. ~(h.size > MaxPacketSize) /\ h.size \in Nat
    BY <1>2, <2>1
  <2>4. ~(Excess(h, buffers) > 0) /\ ~(Excess(h, buffers) >= 0)
    BY <1>1, <2>2, <2>3 DEF Excess
  <2> QED
    BY <1>1, <2>1, <2>3, <2>4 DEF Malformed, Complete
<1>4. CASE InPayload(h, buffers)
  <2>1. /\ h.op = sent[done + 1].op /\ h.size = sent[done + 1].size
        /\ GetTotalLength(buffers) > h.size =>
              GetTotalLength(buffers) - h.size < Len(Last(buffers))
    BY <1>4 DEF InPayload
  <2>2. h.op \in Received /\ h.size \in 1..MaxPacketSize
    BY <1>4, <2>1, NextSize DEF InPayload
  <2>3. h.size \in Nat /\ h.size <= MaxPacketSize
    BY <1>2, <2>2
  <2>4. ~(h.size > MaxPacketSize)
    BY <1>2, <2>3
  <2>5. h.op # "Unrecognized"
    BY <2>2 DEF Received
  <2>6. ~(Excess(h, buffers) > 0 /\ TrimRightFails(Last(buffers), Excess(h, buffers)))
    <3> SUFFICES ASSUME Excess(h, buffers) > 0, TrimRightFails(Last(buffers), Excess(h, buffers))
                 PROVE  FALSE
      OBVIOUS
    <3>1. Len(Last(buffers)) <= GetTotalLength(buffers) - h.size
      BY DEF TrimRightFails, Excess
    <3>2. GetTotalLength(buffers) > h.size
      BY <1>1, <2>3 DEF Excess
    <3>3. buffers # <<>> /\ buffers \in Seq(Seq(Byte))
      BY <1>4, <3>2 DEF InPayload, TurnInStep
    <3>4. Len(buffers) \in 1..Len(buffers) /\ Last(buffers) = buffers[Len(buffers)]
      BY <3>3, EmptySeq DEF Last
    <3>5. Last(buffers) \in Seq(Byte)
      BY <3>3, <3>4
    <3>6. Len(Last(buffers)) \in Nat
      BY <3>5
    <3> QED
      BY <1>1, <2>1, <2>3, <3>1, <3>2, <3>6
  <2> QED
    BY <1>1, <1>4, <2>3, <2>4, <2>5, <2>6 DEF Malformed
<1> QED
  BY <1>3, <1>4 DEF TurnInStep

(* A complete packet is split from what follows it.                        *)
LEMMA PayloadSplit ==
    ASSUME NEW h, NEW buffers \in Seq(Seq(Byte)), h.size \in Nat, Excess(h, buffers) >= 0,
           Excess(h, buffers) > 0 => buffers # <<>> /\ Excess(h, buffers) < Len(Last(buffers))
    PROVE  /\ FlattenSeq(Payload(h, buffers)) \in Seq(Byte)
           /\ Len(FlattenSeq(Payload(h, buffers))) = h.size
           /\ Leftover(h, buffers) \in Seq(Byte)
           /\ FlattenSeq(buffers) = FlattenSeq(Payload(h, buffers)) \o Leftover(h, buffers)
<1> DEFINE x == Excess(h, buffers)
<1>0. /\ FlattenSeq(buffers) \in Seq(Byte) /\ GetTotalLength(buffers) \in Nat
      /\ x = Len(FlattenSeq(buffers)) - h.size /\ x \in Int
  <2>1. FlattenSeq(buffers) \in Seq(Byte)
    BY FlattenTyped
  <2> QED
    BY <2>1 DEF GetTotalLength, Excess
<1>1. CASE x = 0
  <2>1. Payload(h, buffers) = buffers /\ Leftover(h, buffers) = <<>>
    BY <1>1 DEF Payload, Leftover
  <2>2. FlattenSeq(buffers) = FlattenSeq(buffers) \o <<>>
    BY <1>0, ConcatEmptySeq
  <2>3. Len(FlattenSeq(buffers)) = h.size /\ <<>> \in Seq(Byte)
    <3> HIDE DEF x
    <3> QED
      BY <1>0, <1>1
  <2> QED
    BY <1>0, <2>1, <2>2, <2>3
<1>2. CASE x > 0
  <2> DEFINE front == Front(buffers)
             last == Last(buffers)
             kept == Kept(last, x)
             rest == Trimmed(last, x)
  <2>0. buffers # <<>> /\ x < Len(last)
    BY <1>2
  <2>1. front \in Seq(Seq(Byte)) /\ last \in Seq(Byte) /\ buffers = Append(front, last)
    <3>1. PICK s \in Seq(Seq(Byte)), e \in Seq(Byte) : buffers = Append(s, e)
      BY <2>0, SequenceEmptyOrAppend
    <3>2. Len(buffers) = Len(s) + 1 /\ buffers[Len(s) + 1] = e /\ Len(s) \in Nat
          /\ \A i \in 1..Len(s) : buffers[i] = s[i]
      BY <3>1, AppendProperties
    <3>3. last = e
      BY <3>2 DEF Last
    <3>4. front = SubSeq(buffers, 1, Len(s))
      BY <3>2 DEF Front
    <3>5. SubSeq(buffers, 1, Len(s)) \in Seq(Seq(Byte)) /\ Len(SubSeq(buffers, 1, Len(s))) = Len(s)
      <4>1. Len(s) \in 0..Len(buffers)
        BY <3>2
      <4> QED
        BY <4>1, SplitAt
    <3>6. SubSeq(buffers, 1, Len(s)) = s
      <4>1. \A i \in 1..Len(s) : SubSeq(buffers, 1, Len(s))[i] = s[i]
        BY <3>2
      <4> QED
        BY <3>5, <4>1, SeqEqual
    <3> QED
      BY <3>1, <3>3, <3>4, <3>6
  <2> HIDE DEF x, front, last
  <2>2. /\ kept \in Seq(Byte) /\ rest \in Seq(Byte) /\ last = kept \o rest /\ Len(rest) = x
    <3> DEFINE n == Len(last) - x
    <3>1. n \in 0..Len(last) /\ Len(last) - n = x
      BY <1>0, <1>2, <2>0, <2>1, SMTT(60)
    <3>2. kept = SubSeq(last, 1, n) /\ rest = SubSeq(last, n + 1, Len(last))
      BY DEF Kept, Trimmed
    <3> HIDE DEF n, kept, rest
    <3> QED
      BY <2>1, <3>1, <3>2, SplitAt
  <2> HIDE DEF kept, rest
  <2>3. /\ FlattenSeq(front) \in Seq(Byte)
        /\ FlattenSeq(buffers) = FlattenSeq(front) \o last
        /\ FlattenSeq(Append(front, kept)) = FlattenSeq(front) \o kept
    BY <2>1, <2>2, FlattenTyped, FlattenAppend
  <2>4. FlattenSeq(front) \o (kept \o rest) = (FlattenSeq(front) \o kept) \o rest
    <3>1. Regroups(Byte)
      BY Regrouped
    <3>2. kept \in Seq(Byte)
      BY <2>2
    <3>3. rest \in Seq(Byte)
      BY <2>2
    <3>4. FlattenSeq(front) \in Seq(Byte)
      BY <2>3
    <3> QED
      BY <3>1, <3>2, <3>3, <3>4 DEF Regroups
  <2>5. Payload(h, buffers) = Append(front, kept) /\ Leftover(h, buffers) = rest
    BY <1>2 DEF Payload, Leftover, kept, rest, front, last, x
  <2>6. FlattenSeq(front) \o kept \in Seq(Byte)
        /\ Len(FlattenSeq(buffers)) = Len(FlattenSeq(front) \o kept) + Len(rest)
    <3>1. FlattenSeq(front) \o kept \in Seq(Byte)
      BY <2>2, <2>3, ConcatProperties
    <3>2. FlattenSeq(buffers) = (FlattenSeq(front) \o kept) \o rest
      BY <2>2, <2>3, <2>4
    <3> QED
      BY <2>2, <3>1, <3>2, ConcatProperties
  <2>7. Len(FlattenSeq(front) \o kept) = h.size
    <3>1. Len(FlattenSeq(front) \o kept) \in Nat
      BY <2>6
    <3>2. Len(FlattenSeq(buffers)) \in Nat
      BY <1>0
    <3>3. x = Len(FlattenSeq(buffers)) - h.size /\ Len(rest) = x
      BY <1>0, <2>2
    <3>4. Len(FlattenSeq(buffers)) = Len(FlattenSeq(front) \o kept) + Len(rest)
      BY <2>6
    <3> DEFINE l == Len(FlattenSeq(front) \o kept)
               m == Len(FlattenSeq(buffers))
    <3>5. l \in Nat /\ m \in Nat /\ h.size \in Nat /\ x = m - h.size /\ m = l + x
      BY <3>1, <3>2, <3>3, <3>4
    <3> HIDE DEF l, m
    <3>6. l = h.size
      BY <3>5
    <3> QED
      BY <3>6 DEF l
  <2> QED
    BY <2>2, <2>3, <2>4, <2>5, <2>6, <2>7
<1> QED
  BY <1>0, <1>1, <1>2, SMTT(60)

(* The packet given to the source is the next one, and what lies ahead of  *)
(* it is left over or on the wire.                                         *)
LEMMA PacketTaken ==
    ASSUME SizesAssumption, TypeInv, done \in Nat, wire \in Seq(Byte),
           NEW h, NEW buffers \in Seq(Seq(Byte)),
           InPayload(h, buffers), h.size \in Nat, Excess(h, buffers) >= 0,
           GetTotalLength(buffers) \in Nat
    PROVE  /\ Given(h, buffers) = [op |-> sent[done + 1].op, payload |-> PayloadBytes(done + 1)]
           /\ Given(h, buffers) \in Packets
           /\ Leftover(h, buffers) \in Seq(Byte)
           /\ Ahead = Leftover(h, buffers) \o wire
<1> DEFINE k == done + 1
           f == FlattenSeq(Payload(h, buffers))
           left == Leftover(h, buffers)
           hb == HeaderBytes(k)
           pb == PayloadBytes(k)
<1>1. Excess(h, buffers) > 0 => buffers # <<>> /\ Excess(h, buffers) < Len(Last(buffers))
  BY DEF InPayload, Excess
<1>2. f \in Seq(Byte) /\ Len(f) = h.size /\ left \in Seq(Byte) /\ FlattenSeq(buffers) = f \o left
  BY <1>1, PayloadSplit
<1>3. /\ BytesOf(done, answers) = hb \o (pb \o Ahead)
      /\ hb \in Seq(Byte) /\ pb \in Seq(Byte) /\ Len(pb) = sent[k].size
      /\ Ahead \in Seq(Byte) /\ pb \o Ahead \in Seq(Byte) /\ sent[k].op \in Received
  BY NextPacketFirst DEF InPayload
<1>4. h.op = sent[k].op /\ h.size = sent[k].size
  BY DEF InPayload
<1>5. BytesOf(done, answers) = hb \o (FlattenSeq(buffers) \o wire)
  BY DEF InPayload
<1> HIDE DEF f, left, hb, pb, k
<1>6. /\ f \o left \in Seq(Byte) /\ (f \o left) \o wire \in Seq(Byte) /\ left \o wire \in Seq(Byte)
  <2>1. f \o left \in Seq(Byte) /\ left \o wire \in Seq(Byte)
    BY <1>2, ConcatProperties
  <2> QED
    BY <2>1, ConcatProperties
<1>7. pb \o Ahead = (f \o left) \o wire
  <2>1. hb \o (pb \o Ahead) = hb \o ((f \o left) \o wire)
    BY <1>2, <1>3, <1>5
  <2> DEFINE r == pb \o Ahead
             s == (f \o left) \o wire
  <2>2. r \in Seq(Byte) /\ s \in Seq(Byte) /\ hb \in Seq(Byte)
    BY <1>3, <1>6
  <2>3. hb \o r = hb \o s
    BY <2>1
  <2> HIDE DEF r, s
  <2>4. r = s
    BY <2>2, <2>3, SameCut
  <2> QED
    BY <2>4 DEF r, s
<1>8. (f \o left) \o wire = f \o (left \o wire)
  <2>1. Regroups(Byte)
    BY Regrouped
  <2>2. f \in Seq(Byte)
    BY <1>2
  <2>3. left \in Seq(Byte)
    BY <1>2
  <2> QED
    BY <2>1, <2>2, <2>3 DEF Regroups
<1>9. pb = f /\ Ahead = left \o wire
  <2>1. pb \o Ahead = f \o (left \o wire) /\ Len(pb) = Len(f)
    BY <1>2, <1>3, <1>4, <1>7, <1>8
  <2> QED
    BY <1>2, <1>3, <1>6, <2>1, SameCut
<1>10. Given(h, buffers) = [op |-> sent[k].op, payload |-> pb]
  BY <1>4, <1>9 DEF Given, f
<1>11. Given(h, buffers) \in Packets
  BY <1>3, <1>10 DEF Packets
<1> QED
  BY <1>2, <1>9, <1>10, <1>11 DEF left, pb, k

(* What lies ahead depends on nothing the parser changes but the numbers.  *)
LEMMA BytesKept ==
    ASSUME sent' = sent, NEW d, NEW a, done' = d, answers' = a
    PROVE  (BytesOf(done, answers))' = BytesOf(d, a)
BY DEF BytesOf, HeaderBytes, PayloadBytes

LEMMA FramedKept ==
    ASSUME FramedAsSent, ~cutOff, UNCHANGED <<sent, processed>>, answers \in Nat,
           answers' \in Nat, answers' >= answers, processed \in Seq(Packets)
    PROVE  FramedAsSent'
<1>1. Len(processed) \in Nat
  OBVIOUS
<1>2. Len(processed)' = Len(processed) /\ Len(processed) <= answers'
  BY <1>1 DEF FramedAsSent
<1>3. \A k \in 1..Len(processed)' :
          processed'[k] = [op |-> sent'[k].op, payload |-> PayloadBytes(k)']
  BY DEF FramedAsSent, PayloadBytes
<1> QED
  BY <1>2, <1>3 DEF FramedAsSent

(* A step that leaves the parser, or takes its read away.                  *)
LEMMA FrameRests ==
    ASSUME TypeInv, FrameInv,
           UNCHANGED <<sent, answers, wire, receiveBuffer, packet, header, processed, cutOff>>,
           Parsing' => Parsing
    PROVE  FrameInv'
<1> SUFFICES ASSUME ~cutOff
             PROVE  processed' \in Seq(Packets) /\ FramedAsSent' /\ (Parsing' => Held')
  BY DEF FrameInv
<1>0. processed \in Seq(Packets) /\ FramedAsSent /\ (Parsing => Held)
  BY DEF FrameInv
<1>1. answers \in Nat /\ answers >= answers
  <2>1. Len(sent) \in Nat
    BY DEF TypeInv, Descriptions
  <2> QED
    BY <2>1 DEF TypeInv, TypeOK
<1>2. FramedAsSent'
  BY <1>0, <1>1, FramedKept
<1>3. ASSUME Held
      PROVE  Held'
  <2>1. (BytesOf(done, answers))' = BytesOf(done, answers)
    BY BytesKept DEF done
  <2>2. HeaderHeld' = HeaderHeld
    BY DEF HeaderHeld, HeaderBytes, done
  <2>3. BytesTyped'
    BY <1>3 DEF Held, BytesTyped
  <2>4. BytesInOrder'
    BY <1>3, <2>1, <2>2 DEF Held, BytesInOrder
  <2>5. HeaderIsNext'
    BY <1>3 DEF Held, HeaderIsNext, done
  <2>6. LessThanNeeded'
    BY <1>3 DEF Held, LessThanNeeded, GetTotalLength
  <2> QED
    BY <2>3, <2>4, <2>5, <2>6 DEF Held
<1> QED
  BY <1>0, <1>2, <1>3

(* What a request adds to the wire joins what lies ahead.                  *)
LEMMA RequestKeeps ==
    ASSUME SizesAssumption, TypeInv, FrameInv, ResetHeader, CutInv,
           NEW n \in 0..Len(sent), answers <= n, Request(n), Parsing' => Parsing
    PROVE  FrameInv'
<1> SUFFICES ASSUME ~cutOff'
             PROVE  processed' \in Seq(Packets) /\ FramedAsSent' /\ (Parsing' => Held')
  BY DEF FrameInv
<1>0. UNCHANGED <<sent, receiving, receiveBuffer, packet, processed>>
  BY DEF ResetHeader
<1>1. ~cutOff /\ header.op = "Unknown"
  BY DEF ResetHeader
<1>2. header' = header
  <2>1. header \in Header
    BY DEF TypeInv, TypeOK
  <2> QED
    BY <1>1, <2>1 DEF ResetHeader, Header
<1>3. processed \in Seq(Packets) /\ FramedAsSent /\ (Parsing => Held) /\ done \in Nat
  BY <1>1 DEF FrameInv, done
<1>4. /\ answers' = n /\ wire' = wire \o BytesOf(answers, n)
      /\ answers \in Nat /\ n \in Nat /\ Len(sent) \in Nat /\ answers \in 0..Len(sent)
  <2>1. Len(sent) \in Nat
    BY DEF TypeInv, Descriptions
  <2> QED
    BY <2>1 DEF TypeInv, TypeOK, Request
<1>5. FramedAsSent'
  BY <1>0, <1>1, <1>3, <1>4, FramedKept
<1>6. ASSUME Held
      PROVE  Held'
  <2> DEFINE more == BytesOf(answers, n)
             held == HeaderHeld \o FlattenSeq(packet) \o receiveBuffer
  <2>0. done <= answers
    BY <1>1, <1>3 DEF FramedAsSent, done
  <2>1. more \in Seq(Byte)
    <3>1. n \in answers..Len(sent)
      BY <1>4
    <3> QED
      BY <1>4, <3>1, BytesOfTyped
  <2>2. BytesOf(done, n) = BytesOf(done, answers) \o more
    <3>1. answers \in done..Len(sent) /\ n \in answers..Len(sent)
      BY <1>3, <1>4, <2>0
    <3> QED
      BY <1>3, <3>1, BytesOfSplit
  <2>3. wire \in Seq(Byte) /\ receiveBuffer \in Seq(Byte) /\ FlattenSeq(packet) \in Seq(Byte)
    BY <1>6, AddedIs DEF Held, BytesTyped
  <2>4. HeaderHeld = <<>>
    BY <1>1 DEF HeaderHeld
  <2>5. held \in Seq(Byte)
    <3>1. HeaderHeld \in Seq(Byte)
      BY <2>4
    <3>2. HeaderHeld \o FlattenSeq(packet) \in Seq(Byte)
      BY <2>3, <3>1, ConcatProperties
    <3> QED
      BY <2>3, <3>2, ConcatProperties
  <2>6. BytesOf(done, answers) = held \o wire
    BY <1>6 DEF Held, BytesInOrder
  <2> HIDE DEF more
  <2>7. BytesOf(done, n) = held \o (wire \o more)
    <3> HIDE DEF held
    <3>1. Regroups(Byte)
      BY Regrouped
    <3>2. held \in Seq(Byte)
      BY <2>5
    <3>3. wire \in Seq(Byte)
      BY <2>3
    <3>4. more \in Seq(Byte)
      BY <2>1
    <3>5. (held \o wire) \o more = held \o (wire \o more)
      BY <3>1, <3>2, <3>3, <3>4 DEF Regroups
    <3> QED
      BY <2>2, <2>6, <3>5
  <2>8. (BytesOf(done, answers))' = BytesOf(done, n)
    BY <1>0, <1>4, BytesKept DEF done
  <2>9. HeaderHeld' = HeaderHeld
    BY <1>1, <1>2 DEF HeaderHeld
  <2>10. BytesTyped'
    <3>1. wire \o more \in Seq(Byte)
      BY <2>1, <2>3, ConcatProperties
    <3> QED
      BY <1>0, <1>4, <1>6, <3>1 DEF Held, BytesTyped, more
  <2>11. BytesInOrder'
    BY <1>0, <1>4, <2>7, <2>8, <2>9 DEF BytesInOrder, more
  <2>12. HeaderIsNext'
    BY <1>1, <1>2 DEF HeaderIsNext
  <2>13. LessThanNeeded'
    BY <1>0, <1>2, <1>6 DEF Held, LessThanNeeded, GetTotalLength
  <2> QED
    BY <2>10, <2>11, <2>12, <2>13 DEF Held
<1> QED
  BY <1>0, <1>3, <1>5, <1>6

(* What a read takes from the wire is still in order.                      *)
LEMMA ReceiveKeeps ==
    ASSUME SizesAssumption, TypeInv, OpenInv, FrameInv, NEW n, Receive(n)
    PROVE  FrameInv'
<1> SUFFICES ASSUME ~cutOff
             PROVE  processed' \in Seq(Packets) /\ FramedAsSent' /\ Held'
  BY DEF FrameInv, Receive, BytesArrive
<1>0. /\ UNCHANGED <<sent, answers, packet, header, processed, cutOff>>
      /\ receiveBuffer = <<>> /\ receiving
      /\ n \in 1..MaxBuffer /\ n <= Len(wire)
      /\ receiveBuffer' = SubSeq(wire, 1, n) /\ wire' = SubSeq(wire, n + 1, Len(wire))
  BY DEF Receive, BytesArrive, Unlocked
<1>1. processed \in Seq(Packets) /\ FramedAsSent /\ Held
  BY <1>0 DEF FrameInv, Parsing
<1>2. answers \in Nat /\ answers >= answers
  <2>1. Len(sent) \in Nat
    BY DEF TypeInv, Descriptions
  <2> QED
    BY <2>1 DEF TypeInv, TypeOK
<1>3. FramedAsSent'
  BY <1>0, <1>1, <1>2, FramedKept
<1> DEFINE a == SubSeq(wire, 1, n)
           b == SubSeq(wire, n + 1, Len(wire))
           held == HeaderHeld \o FlattenSeq(packet)
<1>4. wire \in Seq(Byte) /\ FlattenSeq(packet) \in Seq(Byte) /\ packet \in Seq(Seq(Byte))
  BY <1>1, AddedIs DEF Held, BytesTyped
<1>5. a \in Seq(Byte) /\ b \in Seq(Byte) /\ wire = a \o b
  <2>1. n \in 0..Len(wire)
    BY <1>0, <1>4 DEF SizesAssumption
  <2> QED
    BY <1>4, <2>1, SplitAt
<1> HIDE DEF a, b
<1>6. held \in Seq(Byte)
  <2>1. HeaderHeld \in Seq(Byte)
    <3>1. done + 1 \in Nat /\ <<>> \in Seq(Byte)
      BY <1>1 DEF done
    <3>2. HeaderBytes(done + 1) \in Seq(Byte)
      BY <3>1, HeaderBytesAre
    <3> QED
      BY <3>1, <3>2 DEF HeaderHeld
  <2> QED
    BY <1>4, <2>1, ConcatProperties
<1>7. BytesOf(done, answers) = (held \o a) \o b
  <2>1. BytesOf(done, answers) = (held \o <<>>) \o wire
    BY <1>0, <1>1 DEF Held, BytesInOrder
  <2> HIDE DEF held
  <2>2. held \o <<>> = held
    BY <1>6, ConcatEmptySeq
  <2>3. (held \o a) \o b = held \o (a \o b)
    <3>1. Regroups(Byte)
      BY Regrouped
    <3>2. held \in Seq(Byte)
      BY <1>6
    <3>3. a \in Seq(Byte)
      BY <1>5
    <3>4. b \in Seq(Byte)
      BY <1>5
    <3> QED
      BY <3>1, <3>2, <3>3, <3>4 DEF Regroups
  <2> QED
    BY <1>5, <2>1, <2>2, <2>3
<1>8. (BytesOf(done, answers))' = BytesOf(done, answers)
  BY <1>0, BytesKept DEF done
<1>9. HeaderHeld' = HeaderHeld
  BY <1>0 DEF HeaderHeld, HeaderBytes, done
<1>10. BytesTyped'
  BY <1>0, <1>4, <1>5 DEF BytesTyped, a, b
<1>11. BytesInOrder'
  BY <1>0, <1>7, <1>8, <1>9 DEF BytesInOrder, a, b
<1>12. HeaderIsNext'
  BY <1>0, <1>1 DEF Held, HeaderIsNext, done
<1>13. LessThanNeeded'
  BY <1>0, <1>1 DEF Held, LessThanNeeded, GetTotalLength
<1> QED
  BY <1>0, <1>1, <1>3, <1>10, <1>11, <1>12, <1>13 DEF Held

(* What is known when the handler takes a turn.                            *)
LEMMA TurnKnown ==
    ASSUME SizesAssumption, TypeInv, FrameInv, ~cutOff, NEW h, NEW buffers, Turn(h, buffers)
    PROVE  /\ processed \in Seq(Packets) /\ FramedAsSent /\ Held
           /\ done \in Nat /\ done <= answers /\ answers \in Nat /\ Len(sent) \in Nat
           /\ TurnInStep(h, buffers)
           /\ ~Malformed(h, buffers)
           /\ Complete(h, buffers) => InPayload(h, buffers)
           /\ GetTotalLength(buffers) \in Nat /\ h.size \in Nat
<1>1. receiveBuffer # <<>> /\ h \in Headers /\ buffers = Buffers
  BY DEF Turn
<1>2. processed \in Seq(Packets) /\ FramedAsSent /\ Held
  BY <1>1 DEF FrameInv, Parsing
<1>3. done \in Nat /\ done <= answers
  BY <1>2 DEF FramedAsSent, done
<1>4. answers \in Nat /\ Len(sent) \in Nat
  <2>1. Len(sent) \in Nat
    BY DEF TypeInv, Descriptions
  <2> QED
    BY <2>1 DEF TypeInv, TypeOK
<1>5. TurnInStep(h, buffers)
  BY <1>1, <1>2, <1>3, TurnIs
<1> QED
  BY <1>2, <1>3, <1>4, <1>5, TurnIsSound

(* Not all of the packet is here: what there is is held.                   *)
LEMMA AwaitKeeps ==
    ASSUME SizesAssumption, TypeInv, FrameInv, NEW h, NEW buffers,
           Turn(h, buffers), AwaitMore(h, buffers)
    PROVE  FrameInv'
<1> SUFFICES ASSUME ~cutOff
             PROVE  processed' \in Seq(Packets) /\ FramedAsSent' /\ Held'
  BY DEF FrameInv, AwaitMore
<1>0. /\ UNCHANGED <<sent, answers, wire, processed, cutOff>>
      /\ packet' = buffers /\ header' = h /\ receiveBuffer' = <<>>
      /\ Excess(h, buffers) < 0
  BY DEF AwaitMore
<1>1. /\ processed \in Seq(Packets) /\ FramedAsSent /\ Held
      /\ done \in Nat /\ done <= answers /\ answers \in Nat
      /\ TurnInStep(h, buffers)
      /\ GetTotalLength(buffers) \in Nat /\ h.size \in Nat
  BY TurnKnown
<1>2. FramedAsSent'
  BY <1>0, <1>1, FramedKept
<1>3. GetTotalLength(buffers) < h.size
  BY <1>0, <1>1 DEF Excess
<1>4. (BytesOf(done, answers))' = BytesOf(done, answers)
  BY <1>0, BytesKept DEF done
<1>5. wire \in Seq(Byte) /\ buffers \in Seq(Seq(Byte))
  BY <1>1 DEF Held, BytesTyped, TurnInStep
<1>6. FlattenSeq(buffers) \in Seq(Byte)
  BY <1>5, FlattenTyped
<1>7. BytesTyped'
  <2>1. <<>> \in Seq(Byte)
    OBVIOUS
  <2> QED
    BY <1>0, <1>5, <2>1 DEF BytesTyped
<1>8. CASE NoHeaderYet(h, buffers)
  <2>1. /\ h.op = "Unknown" /\ GetTotalLength(buffers) < HeaderSize
        /\ BytesOf(done, answers) = FlattenSeq(buffers) \o wire
    BY <1>8 DEF NoHeaderYet
  <2>2. HeaderHeld' = <<>>
    BY <1>0, <2>1 DEF HeaderHeld
  <2>3. (<<>> \o FlattenSeq(buffers)) \o <<>> = FlattenSeq(buffers)
    BY <1>6, ConcatEmptySeq
  <2>4. BytesInOrder'
    BY <1>0, <1>4, <2>1, <2>2, <2>3 DEF BytesInOrder
  <2>5. HeaderIsNext' /\ LessThanNeeded'
    BY <1>0, <2>1 DEF HeaderIsNext, LessThanNeeded, GetTotalLength
  <2> QED
    BY <1>0, <1>1, <1>2, <1>7, <2>4, <2>5 DEF Held
<1>9. CASE InPayload(h, buffers)
  <2>1. /\ done < answers
        /\ h = [op |-> sent[done + 1].op, size |-> sent[done + 1].size]
        /\ BytesOf(done, answers) = HeaderBytes(done + 1) \o (FlattenSeq(buffers) \o wire)
    BY <1>9 DEF InPayload
  <2>2. h.op # "Unknown"
    <3>1. sent[done + 1].op \in Received
      BY <1>1, <2>1, NextSize
    <3> QED
      BY <2>1, <3>1 DEF Received
  <2>3. HeaderHeld' = HeaderBytes(done + 1)
    BY <1>0, <2>2 DEF HeaderHeld, HeaderBytes, done
  <2> DEFINE hb == HeaderBytes(done + 1)
             f == FlattenSeq(buffers)
  <2>4. hb \in Seq(Byte)
    <3>1. done + 1 \in Nat
      BY <1>1
    <3> QED
      BY <3>1, HeaderBytesAre
  <2> HIDE DEF hb, f
  <2>5. ((hb \o f) \o <<>>) \o wire = hb \o (f \o wire)
    <3>1. Regroups(Byte)
      BY Regrouped
    <3>2. hb \in Seq(Byte)
      BY <2>4
    <3>3. f \in Seq(Byte)
      BY <1>6 DEF f
    <3>4. wire \in Seq(Byte)
      BY <1>5
    <3>5. (hb \o f) \o wire = hb \o (f \o wire)
      BY <3>1, <3>2, <3>3, <3>4 DEF Regroups
    <3>6. (hb \o f) \o <<>> = hb \o f
      <4>1. hb \o f \in Seq(Byte)
        BY <3>2, <3>3, ConcatProperties
      <4> QED
        BY <4>1, ConcatEmptySeq
    <3> QED
      BY <3>5, <3>6
  <2>6. BytesInOrder'
    BY <1>0, <1>4, <2>1, <2>3, <2>5 DEF BytesInOrder, hb, f
  <2>7. HeaderIsNext'
    BY <1>0, <2>1 DEF HeaderIsNext, done
  <2>8. LessThanNeeded'
    BY <1>0, <1>3, <2>2 DEF LessThanNeeded, GetTotalLength
  <2> QED
    BY <1>0, <1>1, <1>2, <1>7, <2>6, <2>7, <2>8 DEF Held
<1> QED
  BY <1>1, <1>8, <1>9 DEF TurnInStep

(* The source took the packet: the next header is looked for.              *)
LEMMA DoneKeeps ==
    ASSUME SizesAssumption, TypeInv, FrameInv, NEW h, NEW buffers,
           Turn(h, buffers), Complete(h, buffers), PacketDone(h, buffers)
    PROVE  FrameInv' /\ (~cutOff => processed' # <<>>)
<1> SUFFICES ASSUME ~cutOff
             PROVE  /\ processed' \in Seq(Packets) /\ FramedAsSent' /\ Held'
                    /\ processed' # <<>>
  BY DEF FrameInv, PacketDone
<1>0. /\ UNCHANGED <<sent, answers, wire, cutOff>>
      /\ processed' = Append(processed, Given(h, buffers))
      /\ packet' = <<>> /\ header' = [h EXCEPT !.op = "Unknown"]
      /\ receiveBuffer' = Leftover(h, buffers)
  BY DEF PacketDone
<1>1. /\ processed \in Seq(Packets) /\ FramedAsSent /\ Held
      /\ done \in Nat /\ done <= answers /\ answers \in Nat /\ Len(sent) \in Nat
      /\ InPayload(h, buffers) /\ buffers \in Seq(Seq(Byte))
      /\ GetTotalLength(buffers) \in Nat /\ h.size \in Nat
      /\ Excess(h, buffers) >= 0
  BY TurnKnown DEF TurnInStep, Complete
<1>2. wire \in Seq(Byte)
  BY <1>1 DEF Held, BytesTyped
<1>3. /\ Given(h, buffers) = [op |-> sent[done + 1].op, payload |-> PayloadBytes(done + 1)]
      /\ Given(h, buffers) \in Packets
      /\ Leftover(h, buffers) \in Seq(Byte)
      /\ Ahead = Leftover(h, buffers) \o wire
  BY <1>1, <1>2, PacketTaken
<1>4. /\ processed' \in Seq(Packets) /\ Len(processed') = done + 1
      /\ processed'[done + 1] = Given(h, buffers)
      /\ \A k \in 1..done : processed'[k] = processed[k]
  BY <1>0, <1>1, <1>3, AppendProperties DEF done
<1>5. FramedAsSent'
  <2>1. done < answers
    BY <1>1 DEF InPayload
  <2>2. ASSUME NEW k \in 1..done + 1
        PROVE  processed'[k] = [op |-> sent[k].op, payload |-> PayloadBytes(k)]
    <3>1. CASE k = done + 1
      BY <1>3, <1>4, <3>1
    <3>2. CASE k # done + 1
      <4>1. k \in 1..done
        BY <1>1, <3>2
      <4>2. processed[k] = [op |-> sent[k].op, payload |-> PayloadBytes(k)]
        BY <1>1, <4>1 DEF FramedAsSent, done
      <4> QED
        BY <1>4, <4>1, <4>2
    <3> QED
      BY <3>1, <3>2
  <2>3. \A k \in 1..done + 1 : PayloadBytes(k)' = PayloadBytes(k)
    BY <1>0 DEF PayloadBytes
  <2>4. Len(processed)' = done + 1 /\ done + 1 <= answers
    BY <1>1, <1>4, <2>1
  <2> QED
    BY <1>0, <2>2, <2>3, <2>4 DEF FramedAsSent
<1>6. header'.op = "Unknown"
  <2>1. h = [op |-> sent[done + 1].op, size |-> sent[done + 1].size]
    BY <1>1 DEF InPayload
  <2> QED
    BY <1>0, <2>1
<1>7. (BytesOf(done, answers))' = Ahead
  <2>1. done' = done + 1
    BY <1>4 DEF done
  <2> QED
    BY <1>0, <2>1, BytesKept DEF Ahead
<1>8. BytesTyped'
  <2>1. <<>> \in Seq(Seq(Byte))
    OBVIOUS
  <2> QED
    BY <1>0, <1>2, <1>3, <2>1 DEF BytesTyped
<1>9. BytesInOrder'
  <2>1. HeaderHeld' = <<>>
    BY <1>6 DEF HeaderHeld
  <2>2. (<<>> \o <<>>) \o Leftover(h, buffers) = Leftover(h, buffers)
    BY <1>3, ConcatEmptySeq
  <2>3. FlattenSeq(packet') = <<>>
    BY <1>0, FlattenEmpty
  <2> QED
    BY <1>0, <1>3, <1>7, <2>1, <2>2, <2>3 DEF BytesInOrder
<1>10. HeaderIsNext'
  BY <1>6 DEF HeaderIsNext
<1>11. LessThanNeeded'
  <2>1. GetTotalLength(packet)' = 0
    <3>1. Len(<<>>) = 0
      OBVIOUS
    <3> QED
      BY <1>0, <3>1, FlattenEmpty DEF GetTotalLength
  <2>2. 0 < HeaderSize
    BY DEF SizesAssumption
  <2> QED
    BY <1>6, <2>1, <2>2 DEF LessThanNeeded
<1>12. processed' # <<>>
  BY <1>1, <1>4
<1> QED
  BY <1>4, <1>5, <1>8, <1>9, <1>10, <1>11, <1>12 DEF Held

LEMMA InitFramed ==
    ASSUME SizesAssumption, TypeInv, Init
    PROVE  FrameInv
<1>0. /\ answers = 0 /\ wire = <<>> /\ receiveBuffer = <<>> /\ packet = <<>>
      /\ header = [op |-> "Unknown", size |-> 0] /\ processed = <<>>
  BY DEF Init, ParserInit
<1>1. Len(<<>>) = 0 /\ <<>> \in Seq(Packets) /\ <<>> \in Seq(Byte) /\ <<>> \in Seq(Seq(Byte))
  OBVIOUS
<1>2. Len(sent) \in Nat
  BY DEF TypeInv, Descriptions
<1>3. FramedAsSent
  BY <1>0, <1>1 DEF FramedAsSent
<1>4. BytesInOrder
  <2>1. BytesOf(0, 0) = <<>>
    <3>1. 0 \in 0..Len(sent)
      BY <1>2
    <3> QED
      BY <3>1, BytesOfNone
  <2>2. HeaderHeld = <<>>
    BY <1>0 DEF HeaderHeld
  <2>3. ((<<>> \o <<>>) \o <<>>) \o <<>> = <<>>
    OBVIOUS
  <2> QED
    BY <1>0, <1>1, <2>1, <2>2, <2>3, FlattenEmpty DEF BytesInOrder, done
<1>5. HeaderIsNext
  BY <1>0 DEF HeaderIsNext
<1>6. LessThanNeeded
  BY <1>0, <1>1, FlattenEmpty DEF LessThanNeeded, GetTotalLength, SizesAssumption
<1>7. BytesTyped
  BY <1>0, <1>1 DEF BytesTyped
<1> QED
  BY <1>0, <1>1, <1>3, <1>4, <1>5, <1>6, <1>7 DEF FrameInv, Held

(* A refused packet ends the parsing.                                      *)
LEMMA RefusedKeeps ==
    ASSUME SizesAssumption, TypeInv, OpenInv, FrameInv, NEW h, NEW buffers,
           RefusePacket(h, buffers)
    PROVE  FrameInv' /\ ~Parsing'
<1>1. receiveBuffer # <<>> /\ ~receiving /\ receiving' = receiving /\ receiveBuffer' = <<>>
  BY TurnEnds
<1>2. UNCHANGED <<sent, answers, processed, cutOff, sourceState, connecting, describing>>
  BY DEF RefusePacket, RejectPacket, PacketRefused
<1>3. ~Parsing'
  <2>1. sourceState # "Invalid" /\ ~connecting /\ ~describing
    BY <1>1 DEF OpenInv, OneStage, StagesBelong, Unlocked
  <2> QED
    BY <1>1, <1>2, <2>1 DEF Parsing
<1>4. ASSUME ~cutOff
      PROVE  processed' \in Seq(Packets) /\ FramedAsSent'
  <2>1. processed \in Seq(Packets) /\ FramedAsSent
    BY <1>4 DEF FrameInv
  <2>2. answers \in Nat /\ answers >= answers
    <3>1. Len(sent) \in Nat
      BY DEF TypeInv, Descriptions
    <3> QED
      BY <3>1 DEF TypeInv, TypeOK
  <2> QED
    BY <1>2, <1>4, <2>1, <2>2, FramedKept
<1> QED
  BY <1>2, <1>3, <1>4 DEF FrameInv

(* A start that fails resets the header and asks for nothing.              *)
LEMMA ResetKeeps ==
    ASSUME TypeInv, CutInv, FrameInv, ResetHeader, UNCHANGED <<answers, wire>>,
           Parsing' => Parsing
    PROVE  FrameInv'
<1>1. CASE ~cutOff'
  <2>1. ~cutOff /\ header.op = "Unknown"
    BY <1>1 DEF ResetHeader
  <2>2. header' = header
    <3>1. header \in Header
      BY DEF TypeInv, TypeOK
    <3> QED
      BY <2>1, <3>1 DEF ResetHeader, Header
  <2> QED
    <3>1. UNCHANGED <<sent, answers, wire, receiveBuffer, packet, header, processed>>
      BY <2>2 DEF ResetHeader
    <3>2. cutOff' = cutOff
      BY <1>1, <2>1 DEF ResetHeader, CutInv
    <3> QED
      BY <3>1, <3>2, FrameRests
<1>2. CASE cutOff'
  BY <1>2 DEF FrameInv
<1> QED
  BY <1>1, <1>2

LEMMA FrameKept ==
    ASSUME SizesAssumption, TypeInv, OpenInv, CutInv, FrameInv, [Next]_vars
    PROVE  FrameInv'
<1>0. ASSUME UNCHANGED <<parser, connecting, describing>>,
             sourceState' = "Invalid" => sourceState = "Invalid"
      PROVE  FrameInv'
  BY <1>0, FrameRests DEF parser, Parsing
<1>1. CASE Opening
  <2>1. CASE OpenAsync \/ ConnectFailed \/ DescribeFailed
    <3>1. UNCHANGED parser /\ Parsing
      BY <2>1 DEF OpenAsync, ConnectFailed, DescribeFailed, Parsing
    <3> QED
      BY <3>1, FrameRests DEF parser
  <2>2. CASE DescribeSent
    BY <2>2, FrameRests DEF DescribeSent, Parsing
  <2>3. CASE Connected
    <3>1. ResetHeader /\ Request(1) /\ Parsing /\ answers = 0
      BY <2>3 DEF Connected, Parsing, CutInv
    <3>2. 1 \in 0..Len(sent) /\ answers <= 1
      BY <3>1, PlanTyped
    <3> QED
      BY <3>1, <3>2, RequestKeeps
  <2> QED
    BY <1>1, <2>1, <2>2, <2>3 DEF Opening
<1>2. CASE Receiving
  <2>1. ASSUME NEW n, Receive(n)
        PROVE  FrameInv'
    BY <2>1, ReceiveKeeps
  <2>2. CASE ReceiveFailed
    BY <2>2, FrameRests DEF ReceiveFailed, Parsing
  <2>3. ASSUME NEW h, NEW buffers, Await(h, buffers)
        PROVE  FrameInv'
    BY <2>3, AwaitKeeps DEF Await
  <2>4. ASSUME NEW h, NEW buffers,
               ProcessServerDescription(h, buffers) \/ ProcessServerSample(h, buffers)
        PROVE  FrameInv'
    BY <2>4, DoneKeeps DEF ProcessServerDescription, ProcessServerSample
  <2>5. ASSUME NEW h, NEW buffers, RefusePacket(h, buffers)
        PROVE  FrameInv'
    BY <2>5, RefusedKeeps
  <2> QED
    BY <1>2, <2>1, <2>2, <2>3, <2>4, <2>5 DEF Receiving
<1>3. CASE Performing
  <2>1. ASSUME NEW op, DoStart(op)
        PROVE  FrameInv'
    <3>1. ResetHeader /\ Request(Len(sent)) /\ (Parsing' => Parsing)
      BY <2>1 DEF DoStart, Parsing, ResetHeader, open
    <3>2. Len(sent) \in 0..Len(sent) /\ answers <= Len(sent)
      <4>1. Len(sent) \in Nat
        BY DEF TypeInv, Descriptions
      <4> QED
        BY <4>1 DEF TypeInv, TypeOK
    <3> QED
      BY <3>1, <3>2, RequestKeeps
  <2>2. ASSUME NEW op, DoStartFails(op)
        PROVE  FrameInv'
    <3>1. ResetHeader /\ UNCHANGED <<answers, wire>> /\ (Parsing' => Parsing)
      BY <2>2 DEF DoStartFails, Parsing, ResetHeader, open
    <3> QED
      BY <3>1, ResetKeeps
  <2>3. ASSUME NEW op, DoStop(op) \/ DoSetRate(op)
        PROVE  FrameInv'
    BY <1>0, <2>3 DEF DoStop, DoSetRate, open
  <2>4. CASE StartSent \/ StartNotSent
    BY <1>0, <2>4 DEF StartSent, StartNotSent, open
  <2> QED
    BY <1>3, <2>1, <2>2, <2>3, <2>4 DEF Performing
<1>4. CASE Calling
  BY <1>0, <1>4 DEF Calling, Start, Stop, SetRate, Shutdown, Called, open
<1>5. CASE UNCHANGED vars
  BY <1>0, <1>5 DEF vars, open
<1> QED
  BY <1>1, <1>2, <1>3, <1>4, <1>5 DEF Next

(* PacketsIntact, for any plan of the server and any cut of the stream.    *)
THEOREM PacketsIntactHolds == Spec => []PacketsIntact
<1>1. Init => TypeInv /\ OpenInv /\ CutInv /\ FrameInv
  BY InitTyped, InitOpens, InitCuts, InitFramed, SizesAssumption, StreamsAssumption
<1>2. TypeInv /\ OpenInv /\ CutInv /\ FrameInv /\ [Next]_vars
          => (TypeInv /\ OpenInv /\ CutInv /\ FrameInv)'
  BY TypesKept, OpenKept, CutKept, FrameKept, SizesAssumption, StreamsAssumption
<1>3. TypeInv /\ OpenInv /\ CutInv /\ FrameInv => PacketsIntact
  <2> SUFFICES ASSUME TypeInv, FrameInv PROVE PacketsIntact
    OBVIOUS
  <2>1. FramedAsSent
    BY DEF FrameInv, FramedAsSent
  <2>2. NothingHeldBack
    <3>1. CASE ~cutOff /\ (receiving \/ receiveBuffer # <<>>)
      <4>1. BytesInOrder /\ LessThanNeeded
        BY <3>1 DEF FrameInv, Parsing, Held
      <4> QED
        BY <4>1 DEF NothingHeldBack, BytesInOrder, LessThanNeeded, HeaderHeld, done
    <3>2. CASE ~(~cutOff /\ (receiving \/ receiveBuffer # <<>>))
      BY <3>2, Zenon DEF NothingHeldBack
    <3> QED
      BY <3>1, <3>2
  <2> QED
    BY <2>1, <2>2 DEF TypeInv, PacketsIntact
<1> QED
  BY <1>1, <1>2, <1>3, PTL DEF Spec

-----------------------------------------------------------------------------
(* What the server is asked for follows the source's way to its start: the *)
(* description while it opens, samples once it is started.                 *)
ServerInv ==
    /\ sent \in Plans
    /\ ~cutOff /\ ~StartFailed /\ sourceState # "Shutdown" =>
           /\ Parsing => (sourceState \in {"Invalid", "Opening"} <=> processed = <<>>)
           /\ answers > 1 => sourceState = "Started"

LEMMA InitServed ==
    ASSUME Init
    PROVE  ServerInv
<1>1. sent \in Plans /\ answers = 0 /\ processed = <<>> /\ sourceState = "Invalid"
  BY DEF Init, ParserInit
<1>2. ~(answers > 1)
  BY <1>1
<1> QED
  BY <1>1, <1>2 DEF ServerInv

(* A failed start stays among the answers.                                 *)
LEMMA FailureStays ==
    ASSUME TypeInv, NEW op, NEW failed \in BOOLEAN, Dispatch(op, failed)
    PROVE  /\ StartFailed => StartFailed'
           /\ op.type = "Start" /\ failed => StartFailed'
<1> DEFINE last == [type |-> op.type, failed |-> failed]
<1>1. answered \in Seq(Answer) /\ last \in Answer
  <2>1. op.type \in {"Start", "Stop", "SetRate"}
    BY DispatchTyped DEF Operation
  <2> QED
    BY <2>1 DEF TypeInv, Answer
<1>2. answered' = Append(answered, last)
  BY DEF Dispatch
<1>3. /\ Len(answered') = Len(answered) + 1 /\ answered'[Len(answered) + 1] = last
      /\ \A i \in 1..Len(answered) : answered'[i] = answered[i]
      /\ Len(answered) \in Nat
  BY <1>1, <1>2, AppendProperties
<1>4. /\ \A i \in 1..Len(answered) : i \in 1..Len(answered')
      /\ Len(answered) + 1 \in 1..Len(answered')
  BY <1>3
<1>5. ASSUME StartFailed
      PROVE  StartFailed'
  <2>1. PICK i \in 1..Len(answered) : answered[i].failed /\ answered[i].type = "Start"
    BY <1>5 DEF StartFailed
  <2>2. i \in 1..Len(answered') /\ answered'[i].failed /\ answered'[i].type = "Start"
    BY <1>3, <1>4, <2>1
  <2> QED
    BY <2>2 DEF StartFailed
<1>6. ASSUME op.type = "Start", failed
      PROVE  StartFailed'
  <2>1. last.failed /\ last.type = "Start"
    BY <1>6
  <2> HIDE DEF last
  <2>2. answered'[Len(answered) + 1].failed /\ answered'[Len(answered) + 1].type = "Start"
    BY <1>3, <2>1
  <2> QED
    BY <1>4, <2>2 DEF StartFailed
<1> QED
  BY <1>5, <1>6

LEMMA ServerKept ==
    ASSUME SizesAssumption, TypeInv, OpenInv, CutInv, FrameInv, ServerInv, [Next]_vars
    PROVE  ServerInv'
<1>0. ASSUME UNCHANGED <<sent, answers, processed, cutOff>>,
             StartFailed => StartFailed', Parsing' => Parsing,
             \/ sourceState' = sourceState \/ sourceState' = "Shutdown"
             \/ sourceState = "Invalid" /\ sourceState' = "Opening"
      PROVE  ServerInv'
  <2>1. CASE sourceState' = "Shutdown"
    BY <1>0, <2>1 DEF ServerInv
  <2>2. CASE sourceState' = sourceState
    BY <1>0, <2>2 DEF ServerInv
  <2>3. CASE sourceState = "Invalid" /\ sourceState' = "Opening"
    BY <1>0, <2>3 DEF ServerInv
  <2> QED
    BY <1>0, <2>1, <2>2, <2>3
<1>1. ASSUME UNCHANGED answered
      PROVE  StartFailed' = StartFailed
  BY <1>1 DEF StartFailed
<1>2. CASE Opening
  <2>1. CASE OpenAsync \/ ConnectFailed \/ DescribeSent \/ DescribeFailed
    <3>1. /\ UNCHANGED <<sent, answers, processed, cutOff, answered>> /\ Parsing
          /\ \/ sourceState' = sourceState \/ sourceState' = "Shutdown"
             \/ sourceState = "Invalid" /\ sourceState' = "Opening"
      BY <2>1 DEF OpenAsync, ConnectFailed, DescribeSent, DescribeFailed, parser, operations,
                  Parsing
    <3> QED
      BY <1>0, <1>1, <3>1
  <2>2. CASE Connected
    <3>1. /\ UNCHANGED <<sent, processed, answered, sourceState>> /\ Parsing
          /\ cutOff' = cutOff /\ answers' = 1
      BY <2>2 DEF Connected, ResetHeader, Request, operations, Parsing, CutInv
    <3>2. ~(answers' > 1)
      BY <3>1
    <3> QED
      BY <1>1, <3>1, <3>2 DEF ServerInv
  <2> QED
    BY <1>2, <2>1, <2>2 DEF Opening
<1>3. CASE Receiving
  <2>0. UNCHANGED <<sent, answers, cutOff, answered>> /\ StartFailed' = StartFailed
    <3>1. UNCHANGED <<sent, answers, cutOff, answered>>
      BY <1>3 DEF Receiving, Receive, BytesArrive, ReceiveFailed, Await, AwaitMore,
                  ProcessServerDescription, ProcessServerSample, PacketDone, RefusePacket,
                  RejectPacket, PacketRefused, operations
    <3> QED
      BY <1>1, <3>1
  <2>1. ASSUME NEW n, Receive(n)
        PROVE  ServerInv'
    <3>1. UNCHANGED <<processed, sourceState>> /\ Parsing
      BY <2>1 DEF Receive, BytesArrive, Parsing
    <3> QED
      BY <1>0, <2>0, <3>1
  <2>2. CASE ReceiveFailed
    <3>1. UNCHANGED <<processed, sourceState>> /\ Parsing
      BY <2>2 DEF ReceiveFailed, Parsing
    <3> QED
      BY <1>0, <2>0, <3>1
  <2>3. ASSUME NEW h, NEW buffers, Await(h, buffers)
        PROVE  ServerInv'
    <3>1. UNCHANGED <<processed, sourceState>> /\ Parsing
      BY <2>3 DEF Await, AwaitMore, Turn, Parsing
    <3> QED
      BY <1>0, <2>0, <3>1
  <2>4. ASSUME NEW h, NEW buffers,
               ProcessServerDescription(h, buffers) \/ ProcessServerSample(h, buffers)
        PROVE  ServerInv'
    <3>1. ~cutOff => processed' # <<>>
      BY <2>4, DoneKeeps DEF ProcessServerDescription, ProcessServerSample
    <3>2. CASE ProcessServerSample(h, buffers)
      BY <2>0, <3>1, <3>2 DEF ServerInv, ProcessServerSample
    <3>3. CASE ProcessServerDescription(h, buffers)
      <4>1. sourceState = "Opening" /\ sourceState' = "Stopped"
        BY <3>3 DEF ProcessServerDescription
      <4> QED
        BY <2>0, <3>1, <4>1 DEF ServerInv
    <3> QED
      BY <2>4, <3>2, <3>3
  <2>5. ASSUME NEW h, NEW buffers, RefusePacket(h, buffers)
        PROVE  ServerInv'
    <3>1. UNCHANGED <<processed, sourceState>> /\ ~Parsing'
      BY <2>5, RefusedKeeps DEF RefusePacket, RejectPacket, PacketRefused
    <3> QED
      BY <1>0, <2>0, <3>1
  <2> QED
    BY <1>3, <2>1, <2>2, <2>3, <2>4, <2>5 DEF Receiving
<1>4. CASE Performing
  <2>1. ASSUME NEW op, DoStart(op)
        PROVE  ServerInv'
    <3>1. /\ Dispatch(op, FALSE) /\ UNCHANGED <<sent, processed, opened>>
          /\ sourceState' = "Started" /\ (Parsing' => Parsing) /\ (cutOff => cutOff')
          /\ sourceState # "Shutdown"
      BY <2>1 DEF DoStart, Dispatch, ResetHeader, open, Parsing
    <3>2. StartFailed => StartFailed'
      BY <3>1, FailureStays
    <3>3. sourceState \notin {"Invalid", "Opening"}
      BY <3>1 DEF Dispatch, OpenInv, OpenBeforeUse, OpensAndHears, OpenEndsOnce
    <3> QED
      BY <3>1, <3>2, <3>3 DEF ServerInv
  <2>2. ASSUME NEW op, DoStartFails(op)
        PROVE  ServerInv'
    <3>1. Dispatch(op, TRUE) /\ op.type = "Start" /\ sent' = sent
      BY <2>2 DEF DoStartFails, ResetHeader
    <3>2. StartFailed'
      BY <3>1, FailureStays
    <3> QED
      BY <3>1, <3>2 DEF ServerInv
  <2>3. ASSUME NEW op, DoStop(op) \/ DoSetRate(op)
        PROVE  ServerInv'
    <3>1. UNCHANGED <<sent, answers, processed, cutOff, sourceState>> /\ (Parsing' => Parsing)
      <4>1. UNCHANGED <<sent, answers, processed, cutOff, sourceState, receiving, receiveBuffer,
                        connecting, describing>>
        BY <2>3 DEF DoStop, DoSetRate, parser, open
      <4> QED
        BY <4>1 DEF Parsing
    <3>2. StartFailed => StartFailed'
      <4>1. PICK failed \in BOOLEAN : Dispatch(op, failed)
        BY <2>3 DEF DoStop, DoSetRate
      <4> QED
        BY <4>1, FailureStays
    <3> QED
      BY <1>0, <3>1, <3>2
  <2>4. CASE StartSent \/ StartNotSent
    <3>1. /\ UNCHANGED <<sent, answers, processed, cutOff, answered, sourceState>>
          /\ Parsing' => Parsing
      BY <2>4 DEF StartSent, StartNotSent, parser, open, operations, Parsing
    <3> QED
      BY <1>0, <1>1, <3>1
  <2> QED
    BY <1>4, <2>1, <2>2, <2>3, <2>4 DEF Performing
<1>5. CASE Calling
  <2>1. /\ UNCHANGED <<sent, answers, processed, cutOff, answered>>
        /\ Parsing' => Parsing
        /\ sourceState' = sourceState \/ sourceState' = "Shutdown"
    <3>1. CASE Shutdown
      BY <3>1 DEF Shutdown, parser, open, operations, Parsing
    <3>2. CASE ~Shutdown
      <4>1. Called
        BY <1>5, <3>2 DEF Calling, Start, Stop, SetRate
      <4>2. UNCHANGED <<sent, answers, processed, cutOff, answered, sourceState, receiving,
                        receiveBuffer, connecting, describing>>
        BY <4>1 DEF Called, parser, open
      <4> QED
        BY <4>2 DEF Parsing
    <3> QED
      BY <3>1, <3>2
  <2> QED
    BY <1>0, <1>1, <2>1
<1>6. CASE UNCHANGED vars
  BY <1>0, <1>1, <1>6 DEF vars, parser, open, operations, Parsing
<1> QED
  BY <1>2, <1>3, <1>4, <1>5, <1>6 DEF Next

LEMMA Understanding ==
    ASSUME SizesAssumption, ServerAssumption, TypeInv, OpenInv, FrameInv, ServerInv
    PROVE  ServerIsUnderstood
<1> SUFFICES ASSUME ~cutOff, ~StartFailed, receiveBuffer # <<>>, sourceState # "Shutdown",
                    NEW h \in Headers
             PROVE  ~Malformed(h, Buffers) /\ (Complete(h, Buffers) => Expected(h))
  BY DEF ServerIsUnderstood
<1>1. Turn(h, Buffers) /\ Parsing
  BY DEF Turn, Parsing
<1>2. /\ processed \in Seq(Packets) /\ done \in Nat /\ answers \in Nat /\ Len(sent) \in Nat
      /\ ~Malformed(h, Buffers) /\ (Complete(h, Buffers) => InPayload(h, Buffers))
  BY <1>1, TurnKnown
<1>3. ASSUME Complete(h, Buffers)
      PROVE  Expected(h)
  <2>1. done < answers /\ h.op = sent[done + 1].op
    BY <1>2, <1>3 DEF InPayload
  <2>2. h.op \in Received
    BY <1>2, <2>1, NextSize
  <2>3. done + 1 \in 1..Len(sent)
    BY <1>2, <2>1, SMTT(60) DEF TypeInv, TypeOK
  <2>4. h.op = "ServerDescription" <=> done + 1 = 1
    BY <2>1, <2>3 DEF ServerInv, ServerAssumption
  <2>5. processed = <<>> <=> done = 0
    BY <1>2, EmptySeq DEF done
  <2>6. sourceState # "Invalid"
    BY DEF OpenInv, StagesBelong, Unlocked
  <2>7. sourceState = "Opening" <=> done = 0
    BY <1>1, <2>5, <2>6 DEF ServerInv
  <2>8. CASE done = 0
    BY <2>4, <2>7, <2>8 DEF Expected
  <2>9. CASE done # 0
    <3>1. answers > 1 /\ done + 1 # 1
      BY <1>2, <2>1, <2>9
    <3>2. sourceState = "Started"
      BY <3>1 DEF ServerInv
    <3> QED
      BY <2>2, <2>4, <3>1, <3>2 DEF Expected, Received
  <2> QED
    BY <2>8, <2>9
<1> QED
  BY <1>2, <1>3

(* What the operations promise, in whatever order they are called, carried *)
(* out and interrupted.                                                    *)
THEOREM OperationsStandHolds == Spec => []OperationsStand
<1>1. Init => TypeInv /\ OpenInv /\ CutInv /\ FrameInv /\ ServerInv
  BY InitTyped, InitOpens, InitCuts, InitFramed, InitServed, SizesAssumption, StreamsAssumption
<1>2. TypeInv /\ OpenInv /\ CutInv /\ FrameInv /\ ServerInv /\ [Next]_vars
          => (TypeInv /\ OpenInv /\ CutInv /\ FrameInv /\ ServerInv)'
  BY TypesKept, OpenKept, CutKept, FrameKept, ServerKept, SizesAssumption, StreamsAssumption
<1>3. TypeInv /\ OpenInv /\ CutInv /\ FrameInv /\ ServerInv => ServerIsUnderstood
  BY Understanding, SizesAssumption, ServerAssumption
<1>4. ServerIsUnderstood /\ StreamsAsAnswered /\ LastRateWins => OperationsStand
  BY DEF OperationsStand
<1> QED
  BY <1>1, <1>2, <1>3, <1>4, StreamsAsAnsweredHolds, LastRateWinsHolds, PTL DEF Spec
=============================================================================
