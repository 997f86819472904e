---------------------------- MODULE PacketParser ----------------------------
(***************************************************************************)
(* How CMediaSource takes packets out of the byte stream of its connection *)
(* (ParseCurrentBuffer in StspMediaSource.cpp, with the lists of buffers   *)
(* of BufferPacket.cpp and the views of MediaBufferWrapper.cpp).  A packet *)
(* is an operation header and a payload; the network cuts the stream       *)
(* anywhere.                                                               *)
(*                                                                         *)
(* A byte is the packet it belongs to and its place there, so a buffer,    *)
(* which is a memory block with an offset and a length, is the sequence of *)
(* the bytes in view, and what was trimmed away is gone from it.  The receive handler holds   *)
(* the lock of the source until it has asked for more bytes; one turn of   *)
(* the recursion of ParseCurrentBuffer is a step, and while receiveBuffer  *)
(* is not empty the handler is running.                                    *)
(*                                                                         *)
(* What a complete packet does is up to the module that extends this one.  *)
(***************************************************************************)
EXTENDS Integers, Sequences, SequencesExt

CONSTANTS HeaderSize,     \* sizeof(StspOperationHeader)
          MaxPacketSize,  \* c_cbMaxPacketSize
          MaxBuffer,      \* c_cbReceiveBufferSize
          Misread,        \* bound: the headers that other bytes may look like
          Plans           \* bound: what a server may send, in packets

Received == {"ServerDescription", "ServerSample", "ServerFormatChange"}
Header == [op : Received \cup {"Unknown", "Unrecognized"}, size : 0..MaxPacketSize + 1]

ASSUME SizesAssumption ==
    /\ HeaderSize \in Nat \ {0}
    /\ MaxPacketSize \in Nat /\ HeaderSize <= MaxPacketSize
    /\ MaxBuffer \in Nat \ {0}
    /\ Misread \subseteq Header
    /\ \A plan \in Plans :
          /\ plan # <<>>
          /\ plan \in Seq([op : Received, size : 1..MaxPacketSize])

VARIABLES
    sent,           \* the packets of the server, in order
    answers,        \* number of packets the server has been asked for
    wire,           \* the bytes on their way from the server
    receiving,      \* is a read outstanding?
    receiveBuffer,  \* _spCurrentReceiveBuffer, once it is filled
    packet,         \* _spCurrentReceivePacket: its buffers, front first
    header,         \* _CurrentReceivedOperationHeader
    processed,      \* history: what ProcessPacket was given
    cutOff          \* history: was the header reset inside a packet?

parser == <<sent, answers, wire, receiving, receiveBuffer, packet, header, processed, cutOff>>

HeaderBytes(k) == [i \in 1..HeaderSize |-> <<k, i>>]
PayloadBytes(k) == [i \in 1..sent[k].size |-> <<k, HeaderSize + i>>]

(* The bytes of the packets after the k-th, up to the n-th.                *)
BytesOf(k, n) ==
    FlattenSeq([i \in 1..n - k |-> HeaderBytes(k + i) \o PayloadBytes(k + i)])

(* The parser's state when the source is created.                          *)
ParserInit ==
    /\ sent \in Plans
    /\ answers = 0 /\ wire = <<>>
    /\ receiving = FALSE
    /\ receiveBuffer = <<>>
    /\ packet = <<>>
    /\ header = [op |-> "Unknown", size |-> 0]
    /\ processed = <<>>
    /\ cutOff = FALSE

-----------------------------------------------------------------------------
(* Lists of buffers.                                                       *)
GetTotalLength(buffers) == Len(FlattenSeq(buffers))

CopyTo(buffers, size) == SubSeq(FlattenSeq(buffers), 1, size)

(* Variant: a buffer that ends where the trimmed part ends stays, with its *)
(* last byte.                                                              *)
TrimLeftKeepsLast(buffers, size) ==
    LET Skipped(k) == GetTotalLength(SubSeq(buffers, 1, k))
        popped == CHOOSE k \in 0..Len(buffers) :
                      /\ Skipped(k) <= size
                      /\ k < Len(buffers) => Skipped(k + 1) > size
        rest == SubSeq(buffers, popped + 1, Len(buffers))
    IN  IF Skipped(popped) = size
        THEN <<SubSeq(buffers[popped], Len(buffers[popped]), Len(buffers[popped]))>> \o rest
        ELSE <<SubSeq(Head(rest), size - Skipped(popped) + 1, Len(Head(rest)))>> \o Tail(rest)

(* Whole buffers at the front are popped, the next one moves its offset.   *)
TrimLeft(buffers, size) ==
    LET Skipped(k) == GetTotalLength(SubSeq(buffers, 1, k))
        popped == CHOOSE k \in 0..Len(buffers) :
                      /\ Skipped(k) <= size
                      /\ k < Len(buffers) => Skipped(k + 1) > size
        rest == SubSeq(buffers, popped + 1, Len(buffers))
    IN  IF Skipped(popped) = size THEN rest
        ELSE <<SubSeq(Head(rest), size - Skipped(popped) + 1, Len(Head(rest)))>> \o Tail(rest)

(* TrimRight makes two views of a buffer; it refuses to leave none of it.  *)
TrimRightFails(buffer, size) == Len(buffer) <= size
Kept(buffer, size) == SubSeq(buffer, 1, Len(buffer) - size)
Trimmed(buffer, size) == SubSeq(buffer, Len(buffer) - size + 1, Len(buffer))

-----------------------------------------------------------------------------
(* A turn of ParseCurrentBuffer.  The buffer is added to the packet; then  *)
(* the header is taken off, unless it is known already or incomplete.  A   *)
(* header read in the wrong place may be anything.                         *)
Added == Append(packet, receiveBuffer)

HeaderComplete == header.op = "Unknown" /\ GetTotalLength(Added) >= HeaderSize

Decoded(bytes) ==
    LET at == {k \in 1..Len(sent) : HeaderBytes(k) = bytes}
    IN  IF at # {} THEN {[op |-> sent[k].op, size |-> sent[k].size] : k \in at}
        ELSE Misread

Headers ==
    IF HeaderComplete THEN Decoded(CopyTo(Added, HeaderSize))
    ELSE IF header.op = "Unknown" THEN {[header EXCEPT !.size = MaxPacketSize]}
    ELSE {header}

Buffers == IF HeaderComplete THEN TrimLeft(Added, HeaderSize) ELSE Added

Excess(h, buffers) == GetTotalLength(buffers) - h.size

(* The packet is too large, or of an operation nobody knows; or the bytes  *)
(* after it cannot be split off the buffer received last.                  *)
Malformed(h, buffers) ==
    \/ h.size > MaxPacketSize
    \/ h.op = "Unrecognized"
    \/ Excess(h, buffers) > 0 /\ TrimRightFails(Last(buffers), Excess(h, buffers))

(* The turn goes on with header h and these buffers in the packet.         *)
Turn(h, buffers) ==
    /\ receiveBuffer # <<>>
    /\ h \in Headers
    /\ buffers = Buffers

(* The parser gives up: the exception ends the receive handler.            *)
RejectPacket(h, buffers) ==
    /\ Malformed(h, buffers)
    /\ packet' = buffers
    /\ header' = h
    /\ receiveBuffer' = <<>>
    /\ UNCHANGED <<sent, answers, wire, receiving, processed, cutOff>>

(* Variant: nothing more is asked for.                                     *)
AwaitMoreIdle(h, buffers) ==
    /\ ~Malformed(h, buffers) /\ Excess(h, buffers) < 0
    /\ packet' = buffers
    /\ header' = h
    /\ receiveBuffer' = <<>>
    /\ UNCHANGED <<sent, answers, wire, receiving, processed, cutOff>>

(* Not all of the packet is here: Receive is called again.                 *)
AwaitMore(h, buffers) ==
    /\ ~Malformed(h, buffers) /\ Excess(h, buffers) < 0
    /\ packet' = buffers
    /\ header' = h
    /\ receiveBuffer' = <<>>
    /\ receiving' = TRUE
    /\ UNCHANGED <<sent, answers, wire, processed, cutOff>>

(* The payload of a complete packet, and what is left over for the next    *)
(* turn.  The buffer that is split is always the last one of the packet.   *)
Complete(h, buffers) == ~Malformed(h, buffers) /\ Excess(h, buffers) >= 0

Payload(h, buffers) ==
    IF Excess(h, buffers) = 0 THEN buffers
    ELSE Append(Front(buffers), Kept(Last(buffers), Excess(h, buffers)))

Leftover(h, buffers) ==
    IF Excess(h, buffers) = 0 THEN <<>> ELSE Trimmed(Last(buffers), Excess(h, buffers))

Given(h, buffers) == [op |-> h.op, payload |-> FlattenSeq(Payload(h, buffers))]

(* ProcessPacket took it: on to the leftover, or to the next read.         *)
PacketDone(h, buffers) ==
    /\ processed' = Append(processed, Given(h, buffers))
    /\ packet' = <<>>
    /\ header' = [h EXCEPT !.op = "Unknown"]
    /\ receiveBuffer' = Leftover(h, buffers)
    /\ receiving' = (Leftover(h, buffers) = <<>>)
    /\ UNCHANGED <<sent, answers, wire, cutOff>>

(* ProcessPacket threw: the receive handler ends, packet and leftover are  *)
(* not looked at again.                                                    *)
PacketRefused(h, buffers) ==
    /\ packet' = Payload(h, buffers)
    /\ header' = h
    /\ receiveBuffer' = <<>>
    /\ UNCHANGED <<sent, answers, wire, receiving, processed, cutOff>>

-----------------------------------------------------------------------------
(* A read that was asked for ends, with at least one byte.                 *)
BytesArrive(n) ==
    /\ receiving
    /\ n \in 1..MaxBuffer /\ n <= Len(wire)
    /\ receiveBuffer' = SubSeq(wire, 1, n)
    /\ wire' = SubSeq(wire, n + 1, Len(wire))
    /\ receiving' = FALSE
    /\ UNCHANGED <<sent, answers, packet, header, processed, cutOff>>

(* The server is asked, and answers with its packets up to the n-th.       *)
Request(n) ==
    /\ answers' = n
    /\ wire' = wire \o BytesOf(answers, n)

(* A request to the server sets the operation being received to unknown,   *)
(* whatever has been received of it.                                       *)
ResetHeader ==
    /\ header' = [header EXCEPT !.op = "Unknown"]
    /\ cutOff' = (cutOff \/ header.op # "Unknown")
    /\ UNCHANGED <<sent, receiving, receiveBuffer, packet, processed>>

-----------------------------------------------------------------------------
(* Whatever the reads returned, the packets processed are the first ones   *)
(* the server sent, each with its own payload, unless the header was reset *)
(* inside a packet (ParseCurrentBuffer).                                   *)
FramedAsSent ==
    ~cutOff =>
      /\ Len(processed) <= answers
      /\ \A k \in 1..Len(processed) :
            processed[k] = [op |-> sent[k].op, payload |-> PayloadBytes(k)]

(* Of the bytes read none is lost or repeated: those of no packet          *)
(* processed are held, in order; and none is held back, as what is held    *)
(* during a read is less than a packet.                                    *)
NothingHeldBack ==
    ~cutOff /\ (receiving \/ receiveBuffer # <<>>) =>
      /\ BytesOf(Len(processed), answers) =
            (IF header.op = "Unknown" THEN <<>> ELSE HeaderBytes(Len(processed) + 1))
                \o FlattenSeq(packet) \o receiveBuffer \o wire
      /\ receiving => GetTotalLength(packet) <
                         (IF header.op = "Unknown" THEN HeaderSize ELSE header.size)
=============================================================================
