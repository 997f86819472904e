# Verification of VirtualMonitor.Windows

TLA+ models, model-checking runs and machine-checked proofs for the program in
`src/`: a Windows application that captures a desktop window, encodes it and
streams it to a headset that shows it as a virtual monitor.  This directory is
kept beside the code; every definition of a module names, in `PROJECT.json`
under `map`, the lines it models.  ("ME/" below stands for
`src/MediaExtensions/Microsoft.Samples.SimpleCommunication/`, "VM/" for
`src/VirtualMonitor_S/`.)

## 1. The system and its parts

| Part | Source | State it keeps | Operations |
| --- | --- | --- | --- |
| Operation queue | ME/OpQueue.h | list of operations; work items on Media Foundation's parallel queue | QueueOperation, ProcessQueue, ProcessQueueAsync |
| Stream sink | ME/StspStreamSink.* | stream state, sample queue, serial work queue, sends in flight, kept first sample, start time | ProcessSample, PlaceMarker, SetCurrentMediaType, Flush, Start, Stop, SetConnected, Shutdown, work items, send continuations |
| Media sink | ME/StspMediaSink.* | list of streams, waiting connection, network server, receive buffer, shut down or not | StartListening, TriggerAcceptConnection, TriggerRefuseConnection, StartReceiving, SendDescription, OnClockStart/Stop, Shutdown |
| Sink proxy | ME/StspMediaSinkProxy.* | the sink, the event registration | InitializeAsync, FireIncomingConnection, OnShutdown, destructor |
| Network | ME/NetworkServer.cpp, NetworkClient.cpp, NetworkChannel.cpp | one socket, an accept in progress | AcceptAsync, ConnectAsync, SendAsync, ReceiveAsync, Disconnect, Close |
| Packet parser, buffers | ME/StspMediaSource.cpp (ParseCurrentBuffer), BufferPacket.cpp, MediaBufferWrapper.cpp, LinkList.h | packet being assembled, leftover buffer, current header | add, trim, move left, split |
| Media source | ME/StspMediaSource.* | source state, operation being received, streams, pending open | OpenAsync, Start, Stop, SetRate, Shutdown, packets from the server |
| Media stream | ME/StspMediaStream.* | tokens, samples, drop mode, drop window, clean point wait | RequestSample, ProcessSample, SetDropMode, DropTime, NotifyQualityEvent, Start, Stop, Flush, SetRate, SetActive, Shutdown |
| Scheme handler | ME/StspSchemeHandler.cpp | none between calls | BeginCreateObject, EndCreateObject |
| Video output | Core/media-io/video-io.c | ring of 16 frames, inputs, thread | cur_frame, thread, open, close, connect, stop |
| Encoder | Core/obs-encoder.c | callbacks, started, reference counts | start, stop, initialize, shutdown, destroy, do_encode |
| Graphics loop | Core/obs-video.c, obs.c | staged textures, frame times, queue of encoder textures, tasks | graphics thread, output_frame, video_sleep, start and stop of raw output, reset |
| Ring buffer | Core/util/circlebuf.h | memory, first and last place | push, pop and look at either end, grow |
| Displays and sources | Core/obs-display.c, obs-source.c | callbacks, sizes, reference counts | create, destroy, resize, render |
| Capture and encode | VM/CaptureEncode.cs | current frame, two events, encoder session | capture, SampleRequested, OnFrameArrived, WaitForNewFrame, Dispose |
| Preview | VM/CapturePreview.cs | swap chain, pool | OnFrameArrived, Dispose |
| Controller | VM/MainPage.xaml.cs | Bluetooth connection, HID state, UI | connect, read loop, parse, disconnect |

How they interact.  On the sending side the Media Foundation pipeline drives
the media sink: it asks for stream sinks, sets types, starts and stops the
clock, and answers each `MEStreamSinkRequestSample` event with a sample.  The
sink listens for one client; the application is told of it through the proxy
and accepts or refuses it; the client then asks for a description and for the
start, and from there on each stream sink writes samples to the one socket.  On
the receiving side the scheme handler creates a media source, which connects,
asks for the description, is started by its own pipeline and sorts the packets
of the byte stream into media streams; these answer the pipeline's requests in
order.  The desktop application captures frames, encodes them and talks to a
controller over Bluetooth.  The `Core` directory is a reduced copy of the OBS
core (frame ring, encoders, graphics loop).

What is hard.  Nearly all of the communication code is callbacks: work items,
network completions, clock notifications and application calls run on
different threads, serialised only by one lock per object.  State tested before
a lock is given up is used after it (connection ids, states of streams), work
items outlive the queue entries they were put for, errors arrive after
shutdown, and the byte stream is cut anywhere.  In `Core` the frame ring is
shared by a producer and a thread that must fall behind gracefully.

What makes each part correct.

* Operation queue: first in, first out, each operation once, none forgotten.
* Stream sink: samples in order and only to a connected client; markers after
  the samples before them; the pipeline is asked for samples again and again
  but not without bound; times keep their distance; a stop leaves nothing that
  came before it; silence after shutdown.
* Media sink: one client at a time, a refused or lost one does not end the
  service, every stream learns of the connection and of the clock, shutdown
  reaches everyone and cannot deadlock with the proxy.
* Parser: packets out of the byte stream are the packets that were put in,
  however it is cut.
* Media source: an open completes exactly once, samples go only to started
  streams, operations take effect in order.
* Media stream: requests and samples are matched one to one in order, no video
  frame is delivered that the decoder cannot decode, discontinuities are marked.
* Video output: no frame is overwritten while it is being read; every frame
  queued is output or counted as skipped.
* Encoder: destroyed once, after its last callback; the first packet is a key frame.
* Capture: no frame is used after it is given back, no wait is missed.

## 2. Plan

The streaming path comes first, and in it the parts where threads meet.

| | Modules | Subject | State |
| --- | --- | --- | --- |
| 1 | `FifoDispatch`, `OpQueue`, `OpQueue_proofs` | the operation queue, its abstract specification, proofs | done |
| 2 | `StreamSink`, `StreamSink_proofs` | one stream of the sink | done |
| 3 | `MediaStream`, `MediaStream_proofs` | one stream of the source: matching, dropping | done |
| 4 | `MediaSink`, `MediaSink_proofs` | connection life cycle over the network server, clock, streams | done |
| 5 | `SinkLocks` | locks of sink, proxy and application | done; proved in `MediaSink_proofs` |
| 6 | `PacketParser` | framing of the byte stream against the packets that were sent | done |
| 7 | `MediaSource`, `MediaSource_proofs` | opening, operations, packets, failing, over `PacketParser` | done |
| 8 | `SourceProtocol`, `Session` | the source as its server sees it, which 7 implements; composed with 4 | done; proved in `MediaSink_proofs` |
| 9 | `FrameClock`, `CircleBuf`, `VideoOutput`, `GraphicsLoop`, `GraphicsLoop_proofs` | frames of `Core`, and the promise they keep | done |
| 10 | `Encoder`, `Encoder_proofs` | an encoder of `Core` shared by outputs | done |
| 11 | `CaptureEncode`, `CaptureEncode_proofs` | the recorder of the desktop application | done |

What a module promises in the abstract: `FifoDispatch` (of `OpQueue`),
`SourceProtocol` (of `MediaSource`) and `FrameClock` (of `VideoOutput` under
`GraphicsLoop`); each is a property of a run.  `Session` composes `MediaSink`
with `SourceProtocol` and not with `MediaSource`, which would be too large; that
`MediaSource` implements `SourceProtocol` carries the safety of the messages
over to it.

The theorems of the plan are proved, except for what section 4 leaves to TLC.

## 3. Modules and runs

### 3.1 Operation queue: `FifoDispatch`, `OpQueue`, `MCOpQueue`

`QueueOperation` and `ProcessQueueAsync` hold the critical section throughout,
so each is one action.  Work items carry no state and may run on any thread;
their number is all that matters.  `opQueue` is `m_OpQueue`; `dispatched`,
`queued` and `refused` record what happened.  `ProcessQueue` fails when
`MFPutWorkItem2` does: the model puts the operation in the list and reports the
refusal, as the code does.

* `op_queue` (four operations): order, exactly once, and the implementation of
  `FifoDispatch` with its liveness, although any put may fail.  A refused
  operation stays in the list and is performed by the item of a later one; at
  most one operation per refused call is left without an item
  (`OnlyRefusalsStrand`), and the abstract specification promises no more than
  that: its fairness is on `Perform` while more operations wait than calls were
  refused.  Fairness assumed of the code: Media Foundation runs every work item
  it accepted.

Each operation object is queued once because every caller creates its own.
Four operations are enough for a queue that grows, runs dry and grows again
with items outstanding; the proofs do not depend on the number.

Proved in `OpQueue_proofs`, for every `Ops`:
`OpQueueTypeOK`; `DispatchedInOrder` (`queued = dispatched \o opQueue` is
inductive by itself); `OperationsHaveItems`, which needs that `refused` is
finite; `OpQueueRefinesFifo`, the safety part of the refinement.  The liveness
part is only model-checked.

### 3.2 Stream sink: `StreamSink`

One stream.  Every public method is an action (or one action for each of its
outcomes, as `KeepFirstSample`, `QueueSample`, `RefuseSample` for
`ProcessSample`); `workItems` is the serial work queue and `DispatchStart`,
`DispatchStop`, `DispatchSample` and `DispatchMarkerOrType` are the cases of
`OnDispatchWorkItem`; `sending` holds the packets whose `SendAsync` is not over
and `SendSucceeded` / `SendFailed` are its continuation.  `log` is the history
of what became of each entry.  Times come from outside and none need be later
than another: the position a clock is started at, the time at which a client
connects and the times of the samples, which the pipeline may hand in ahead of
the clock and in any order (the sink is `MEDIASINK_RATELESS`).
The code has one more state, paused, that cannot be reached: `CMediaSink`
refuses `OnClockPause` and `OnClockRestart` and nobody else calls the stream.

`ValidOperations` is `ValidStateMatrix` as the code indexes it.  The enum has
`State_Stopped` before `State_Paused` (ME/StspStreamSink.h:28) and the matrix the
row labelled "Pause" before the one labelled "Stop"
(ME/StspStreamSink.cpp:709): a stopped stream has the first of the two, which
allows everything.  So samples go on being taken after a stop: one that comes
before the stop's work item has run is dropped by it, a later one is sent if a
client is connected and dropped if not, and one that waits for its work item
is found by the next start.

* `stream_sink` (2 entries, 2 starts, a stop, times 0 and 1): the client gets
  samples in the order they came, and a marker is reported after what was
  accepted before it (`InOrder`); a running stream always has a request open or
  on its way, and never more than its starts, markers and types account for
  (`Backpressure`); the queue, its work items, what has been announced and the
  state agree, and of what was handed in before a stop nothing is left once the
  stop has been carried out (`QueueConsistent`); samples sent within a run keep
  the distance of their times, whether the start time comes from the clock,
  from the first sample or from the connection (`TimesKeepDistance`); a client
  that connects gets the first frame, and after shutdown there is silence;
  every marker is reported and a running stream asks for samples.  Two starts
  and a stop come in any order, also twice running or with the stop first; two
  entries are a marker or a sample behind the kept one, or one from before and
  one from after a stop; two times are enough for a sample that is older than
  the start, the connection or the sample before it.  More of each is left to
  the proofs, which have no bound.
  Fairness: the serial queue runs its items, a send completes or fails.
  Nothing is assumed of the pipeline, the clock and the client.
* `stream_sink_stopped` (1 entry, violated): a sample waits in a stopped stream
  although its stop has been carried out (`StoppedHoldsNoSample`), which the row
  of the matrix labelled "Stop" rules out.

`run` of an entry is the start it was handed in under and `during` the one it
was sent under; they differ when a start finds the queue not empty.  `Start`
arms `_fWaitingForFirstSample` again without emptying the queue
(ME/StspStreamSink.cpp:285 and 636), so the first sample of the new run is kept
and, when a client connects (line 1036), sent at once, while samples of the run
before are still queued and go later.  It shows in the proof as the one case in
which order by number is not inductive; `InOrder` names it.

Two comments do not say what the code does, and the model follows the code: the
first video sample, kept for a client not there yet (ME/StspStreamSink.cpp:285),
is overtaken by a marker behind it, against the comment at line 314, and
`InOrder` names this exception; and a media type set while the stream runs is
accepted and queued (line 524), against the comment at line 504.

### 3.3 Media stream: `MediaStream`

One stream of the source, with those operations of `CMediaSource` that touch
it.  All methods take the source's recursive lock, and each is one action but
for `DeliverSamples`: an iteration of its loop is `DropSample` or
`DeliverSample`, and while `delivering` holds nothing else can happen, as the
lock is held.  `ShouldDropSample` tests and changes the state in C++; here it
is the predicate, and `QualityAfter` what it leaves.  Samples carry their
number, whether they are a key frame, their time and, as history, the flush
they came after.  `skipped` are frames that came while the stream was not
selected.

* `media_stream` (4 frames, 2 requests, 3 operations, 2 calls of advice): requests are
  answered in order, one sample each (`AnsweredInOrder`); no sample waits beside
  a request, and a stream that is not started holds neither
  (`OnlyNeededWaits`); no sample crosses a flush (`NothingStale`); a video
  decoder is never given a frame whose predecessor it has not been given
  (`Decodable`); marks of discontinuity are right.  Three operations suffice
  for start, stop or deselect, start again; two calls of advice for entering
  and leaving the drop mode or the drop window; four frames for dropping
  between two deliveries.

A sample for a stream that is not started ends in an error
(ME/StspMediaStream.cpp:636), although the comment at line 626 says it is
skipped.

`Decodable` has an exception that the code needs: a stream deselected and
selected again goes on with whatever frame comes next (`SelectStreams` neither
flushes it nor makes it wait for a key frame).

Left out: `ProcessFormatChange` of the stream, which nothing calls, and so the
queue of media types; `CleanSampleQueue`, which always finds the queue empty
because `DoSetRate` flushes first.  Rates other than 0 and 1 behave like 0.

Proved in `MediaStream_proofs`, for every set of times and amounts and without
the bounds playing any part: `MediaStreamTypeOK`; `MediaStreamNothingStale`,
with the strengthening that every sample waiting came after the last flush
(`HeldAreCurrent`), as a delivered sample is one that waited;
`MediaStreamQueues`, that a stream not started holds nothing and no sample
waits beside a request while the lock is free, which are inductive together
with the types; and `MediaStreamAnswersInOrder`, from `OrderInv`: samples and
requests that wait are ascending, not beyond the last number given out, and
behind everything delivered.  `AnsweredInOrder` alone is not inductive, as it
says nothing of what waits.  `MediaStreamMarksLosses` proves
`DiscontinuityMarked` with `MarkInv`: what has been dropped or flushed lies
between the last sample delivered and the first that waits, and the mark is due
when something does.  `MediaStreamDecodable` proves `Decodable` with
`DecodeInv`: nothing is lost between samples that wait (`HeldUnlost`), and when
something may be lost in front of them the stream is guarded, that is it drops
up to the next key frame (`LossIsGuarded`); a stream that is not started waits
for a key frame (`StoppedWaits`).

### 3.4 Media sink: `MediaSink`, `MCMediaSink`

The sink, its network server and the proxy, with one server socket and clients
that come one after another.  `accepting` is where the task of `AcceptAsync`
and its continuation are; `acceptOperation` is the field `_acceptOperation`,
which stays set after an accept that succeeded; `tasks` are the tasks created
by `TriggerAcceptConnection` and `TriggerRefuseConnection`; `receive` counts
outstanding reads.  Handlers hold the sink's lock and are single actions; what
runs outside the lock (`SetSocket`, `OnShutdown`) is an action of its own.
`CMediaSink::Shutdown` is `ShutdownSink`, called by `HandleError`, the pipeline
and the proxy.  A client behaves as `CMediaSource` does: a request for the
description, then requests for the start.

The clock is part of the module: `OnClockStart` and `OnClockStop` visit the
streams, of which one that has no media type yet is passed over; `late` are the
streams that came, or got their type, after clock or client had started.

* `media_sink` (2 clients, 3 requests, 5 calls, 2 streams): a connection is
  accepted or refused, there is one read at a time, and only an accepted client
  is streamed to (`DecisionsStand`); streams and proxy end with the sink, which
  tells the proxy once (`EndTogether`); a sink that is shut down does not listen
  again (`ClosedForGood`); every stream that was there in time is told of clock
  and client, whatever becomes of another one (`NoStreamHeldBack`).  Five calls
  allow accept and refuse, twice, around an added stream, or a stream added to
  a sink whose clock has started.
  A client that goes away while a read is outstanding ends the sink
  (`LossIsNoticed`).  Fairness: tasks and continuations run and a read from a
  lost connection ends.  Nothing is assumed of application, pipeline and client.
* `media_sink_refused` (violated): after a refusal the sink wants to listen
  again, but the server still holds the old accept operation and refuses, which
  shuts the sink down.

Two requests that one read returns end the sink (ME/StspMediaSink.cpp:821),
although they are more than enough for the header the comment there speaks of;
the model does the same.  Once streaming has started the sink reads no more, so
a client lost then is noticed only by a stream whose send fails; that is an
event of the stream and does not end the sink.

Left out: the counting of ends of stream, pausing and restarting the clock,
which the sink refuses, and a request that arrives in pieces, which has the
same effect as two together.  A connection is known by a counter and not by the
tick count that the code uses, so two connections never share an id.

### 3.5 Locks: `SinkLocks`

The two recursive locks of sink and proxy, and the three kinds of threads that
shut the sink down: those of the pipeline, the `Handlers`, which are
continuations of the sink, and the application's.  A step takes one lock, or
does something and gives locks up.

* `sink_locks` (1 pipeline thread, 2 continuations, 2 disposals): the only cycle
  of waits is an error in a continuation that meets the disposal of the proxy
  (`OnlyErrorMeetsDispose`); without it every call returns (`CallsReturn`).
  Fairness is strong fairness of each thread: a thread that can take a lock
  again and again gets it, as critical sections are given to waiting threads.
  Two threads of each kind that can deadlock are enough for a waiting chain
  behind a deadlock.

The cycle is in the code: `CMediaSink::HandleError` runs `Shutdown` with the
lock of the continuation still held, and that calls `OnShutdown` of the proxy,
which takes the proxy's lock; the proxy's destructor holds it while it calls
`Shutdown`.  `OnlyErrorMeetsDispose` and `CallsReturn` name this exception.

Proved in `MediaSink_proofs`, for every set of threads: `LocksConsistent`, with
`Consistent` inductive, and `OnlyOneDeadlock`, which follows from it.  (The
names of this module's specification carry "Locks", as that module extends it
together with the sink's.)
`CallsReturn` is liveness and stays with the run.

### 3.6 Media source: `PacketParser`, `MediaSource`, `MCMediaSource`

`PacketParser` is the framing: a byte is the packet it belongs to and its place
in it, a buffer the sequence of bytes in view, and the operations on lists of
buffers (adding, trimming at either end, copying) are those of `CMediaBufferWrapper`
and `CBufferPacket` that `ParseCurrentBuffer` uses.  A turn of its recursion is
one action; the receive handler holds the source's lock, so nothing else can
happen between its turns.  `Headers` is what a header can be read as: its own,
or for bytes that are not a header any of `Misread`.  `MediaSource` is the rest
of `CMediaSource`: the open and its three continuations, the operations, which
wait in order and are performed one by one (3.1), packets, errors and shutdown.
A stream is here selected or not and running or not; 3.3 has what it does.

* `media_source` (headers of 2 bytes, payloads of at most 2, reads of at most 4,
  a description and two packets for 2 streams, 3 operations):
  however reads cut the stream, the packets processed are the packets sent and
  no byte is lost, repeated or held back (`PacketsIntact`); the open ends once,
  is never left without anything under way to end it, and an open source
  goes on receiving unless it has told of an error (`OpensAndHears`); no packet
  of a server that keeps to the protocol is refused, the selected streams run or
  not as the last start or stop answered says, and the last rate wins
  (`OperationsStand`); everything the server was asked for is processed
  (`EverythingIsProcessed`); and the source implements `SourceProtocol`
  (`ImplementsProtocol`).  Reads of four bytes can return the end of one packet
  and the header of the next, or stop inside either; two-byte headers and
  payloads can be cut in the middle; three operations allow start, stop, start
  and two rates that overtake each other.  Fairness: connects, sends and reads
  end one way or another, the bytes of the server arrive, handlers run.
  Nothing is assumed of the pipeline.

The exceptions the properties name are in the code.  `SendStartRequest` sets the
header being received to unknown (ME/StspMediaSource.cpp:766): a start while
a packet is half received loses the place in the stream (`cutOff`).  `SetRate`
compares with the present rate and not with one that waits to be set, so of two
changes the last may be swallowed (`swallowed`).  A start that fails after an
earlier one succeeded leaves the source in a state in which samples are refused.
The event of a stop never carries the failure that the comment at
ME/StspMediaSource.cpp:1277 allows for, as stopping a stream always succeeds: one
that was not started reports that as an event of its own
(ME/StspMediaStream.cpp:543).
Shutdown is called by the owner, who has the source only when the open has
succeeded; so nobody cancels an open.

The constants are assumed to be what a server and a build can give: a plan of
packets is not empty and begins with the description, which comes only once; no
payload is larger than the limit, and neither is a header (8 bytes, of
`c_cbMaxPacketSize`, ME/StspMediaSource.cpp:19); a read returns at least a byte,
what is misread as a header is a header, and streams are numbered from one.

### 3.7 The connection: `SourceProtocol`, `Session`, `MCSession`

`SourceProtocol` is the source as its server sees it: which packets it takes in
which state, when it asks, and whom it tells of a failure.  Its variables are
those of `MediaSource`, with `listening` for a read outstanding or its handler
running and `garbled` for a place lost in the stream.  `Session` puts it
opposite the whole of `MediaSink`: its requests are the sink's `unread`, what
sink and streams send waits in `wire`, either side may close and the connection
may be lost at any time.  A stream's own treatment of samples is in
`StreamSink`; here one that is connected and runs may send.

* `session` (2 streams, 1 client, 4 calls of the sink's application and
  pipeline, 2 starts, 1 packet on its way): whatever both applications do, no packet is sent
  that the source refuses (`Understood`), whether its open has succeeded, failed
  or is still pending and whether or not the place in the stream is lost; when the sink's application has
  decided, or the sink has closed, the source's open ends (`DecisionEndsOpen`).
  Four calls are accept, a clock, its start and one more, as an added stream;
  with two starts the second can meet a sample on its way, or be read by the
  sink together with the first.  A second packet on the wire adds nothing that
  the order of the wire does not, and would make the run five times as large.
  Fairness: the continuations of the sink and those of the source
  run; nothing of the two applications.

What the run shows beyond its properties.  There is no timeout: the open waits
as long as the sink's application does.  A sink without streams describes none
and is refused.  A stream added after the description is connected by
the client's start, and its samples end the source
(ME/StspMediaSource.cpp:1016); `Understood` has the exception.  The sink reads
one request for the start and no more.  A sink that shuts down between an
accepted connection and the server's `SetSocket` leaves that socket open, and
with it the open of the client.

### 3.8 Frames of `Core`: `FrameClock`, `CircleBuf`, `VideoOutput`, `GraphicsLoop`

`VideoOutput` is the ring of `video-io.c`, its thread and its consumers: a
critical section of `data_mutex` is one action, `input_mutex` is held over the
calls and modelled.  `GraphicsLoop` extends it by the graphics thread, whose
turn is five actions, by the queues of frame times and by encoders that read
textures; its texture queue is a buffer of `CircleBuf`, which is
`util/circlebuf.h` counted in elements, with growth, reordering and both ends.
A picture is named by the time it was rendered for, time is counted in frame
intervals, and `seen` is the last frame each consumer was given.

* `graphics_loop` (2 consumers, ring of 2, 2 staging textures, 3 encoder
  textures, at most 2 intervals slept, 5 intervals): a picture comes with the
  time it was rendered for (`PictureOfItsTime`); every interval is handed once
  to a consumer that stays, in order (`EveryIntervalOnce`); semaphores,
  counts, skips and the queue of textures agree, the textures stay in order
  while the queue wraps and grows, and the thread does not sleep through the
  stop (`CountsInStep`); the ring implements `FrameClock`
  (`ImplementsFrameClock`).  A ring of two fills, wraps and merges within three
  frames; three encoder textures are the number in the source, and the queue
  grows while it is wrapped; two starts of raw output are a start while
  pictures of the session before are on their way.  Behaviours with a texture
  encoder have four intervals and one start of raw output, the others five and
  two.  The consumers are interchangeable, which is the symmetry used: no
  definition names one, and the property with a quantifier over them treats all
  alike.  The run needs no fairness.

Of the constants it is assumed that the ring has between one frame and the 16 of
its array (`MAX_CACHE_SIZE`; `init_cache`, which sets it up, is called and not
contained in this copy), that there are at least two staging textures, of which
one is written while another is read, and that the consumers are finitely many.

Assumed besides: rendering, scaling and mapping a texture succeed; a video reset
is one thread's call.  `video_output_lock_frame`, `video_output_unlock_frame`, `video_output_disconnect`
and the thread of the texture encoders are called or relied on but not contained
in the repository; they are modelled from how the code in `src/` uses them.  Timestamps
of encoder textures are not claimed to rise: `queue_frame` gives a duplicate
the time of the first, so they may repeat or fall back; only the order of
pictures is checked.

Of the textures for encoders there are at least three, as in the source
(`NUM_ENCODE_TEXTURES`, Core/obs-internal.h:44), and this is needed:
`circlebuf_push_front` leaves `end_pos` where it is, at 0 when the buffer has
just been emptied, and with room for a single element `start_pos` is 0 as well,
so that growing for the next element moves nothing and `circlebuf_push_back`
writes over the one that was put back (Core/util/circlebuf.h:171).  With two
textures the loop gets there, when the encoders put back the last frame with one
count less while the queue has never held two: TLC finds `CountsInStep` violated
for `EncodeTextures = 2`.  With three, a frame counts twice only when all are in
use, and by then the queue has room for two.

### 3.9 Encoders of `Core`: `Encoder`

An encoder, its owner and the outputs that share it, each with a thread of its
own.  `at` is where an output is between `obs_encoder_initialize`, `start`,
`stop` and the destruction it may inherit; `initMutex` is held over the wait for
the video output, whose call of the encoder is `DoEncode` to `SendPacket`.
`callbacks` is the set of outputs registered; the order of the array does not
matter to any of them.  `add_connection`, `remove_connection` and `send_off_encoder_packet` are called
but not contained in this copy and are modelled as used.

* `encoder` (3 outputs, 4 calls of initialize, 3 packets): a started output is
  served, the encoder is freed once and touched by nobody after
  (`OnlyOvertakenAreLost`); the codec is given rising timestamps, and each output a
  stream from a key frame on and without gap (`OutputsDecode`); an encoder given up
  by its owner goes when its last output does (`DestroyedInTheEnd`).  Three
  outputs are a last one that stops, one that starts and one that is between
  initialize and start; four calls let one of them come back.  Fairness:
  strong for a call that waits for the video output, which has the mutex again
  and again; weak for the destroying owner and the end of a frame.

The exception is a race of the code: between its calls of initialize and start
an output may be overtaken by the last other one, which stops and shuts the
codec down; `obs_encoder_start` then does nothing and does not say so.  The
owner is assumed not to destroy the encoder while an output is
between the two calls.

### 3.10 Recorder of the application: `CaptureEncode`

`CaptureEncode.cs` locks nothing: the frame pool's thread, the transcoder's and
the timer of the user interface meet in `_currentFrame` and two events.  An
action is one access to them, so a request is five steps, an arrival two and the
disposal two.  A frame is its number, which also stands for its time.

* `capture` (pool of 2, 5 frames): samples go forward in time, and a picture is
  not older than its time (`SamplesGoForward`); the recording goes on until
  the captured item closes or the recorder is disposed of; `told` notes these
  two alone, so that a request that ends by itself violates it
  (`OnlyEndedWhenTold`); every request is answered or ends
  (`RequestsEnd`).  Two buffers are the pool of the source at its limit, five
  frames are three requests and a frame that overtakes.  Fairness: threads run,
  the screen changes, the garbage collector finds frames nobody refers to;
  without it frames that were overwritten would hold their buffers for good.

Two exceptions come from the code.  A frame given up by a request between being
stored and being signalled (VM/CaptureEncode.cs:331) makes the next wait return
at once with a frame that was disposed of, which ends the recording.  And a
sample's picture may be newer than its time, as the frame is read twice.  The
request for the start, unlike that for a sample, catches nothing and would
dereference a missing frame.

## 4. What is proved and what is only checked

The theorems are listed in `PROJECT.json`.  They hold for every value of the
constants that satisfies the assumptions the modules name; the bounds of the
runs, where they occur in a module, are arbitrary numbers there.  Each theorem
of a safety property rests on an invariant that is inductive, which was itself
model-checked on the instance of the run before it was proved.  For 3.1, 3.3
and 3.5 the argument is given there; the others follow.

**`StreamSink_proofs`**: the types and, of `stream_sink`, the safety properties
and the two action properties.  `InOrder` speaks of the
log; inductive is `OrderInv`, which numbers everything: the queue and the log
ascend (`QueueInOrder`, `LogInOrder`), what is queued comes after what was
taken (`LogBeforeQueue`), the kept sample lies before what came after it
(`KeptInOrder`) and is the first of its run (`FirstInOrder`), nothing is on the
wire before a client connects (`NothingBeforeConnect`).  `QueueConsistent` needs
that the work items of the queued entries are in their order (`ItemsInOrder`,
an order-preserving map from entries to items) and that the last start or stop
pending is the one that set the state (`LastCallPending`); its part `StopsDrain`
is inductive by itself.
`TimesKeepDistance` needs that all times of a run count from one start time
(`TimesFromStart`); `Backpressure`, an account of requests open, items that may
ask and sends that will (`RequestsCounted`), by cardinalities.
`FirstFrameOnConnect` and `SilentAfterShutdown` follow from `FirstIsKept` and
`ShutdownDrained`.

**`MediaSink_proofs`**, for `MediaSink`: `DecisionsStand`, `EndTogether`,
`ClosedForGood`, `NoStreamHeldBack`.  The heart is `OneConnection`: a sink lives
to see one connection only, as listening again after a refusal fails on the
operation object of the first one and shuts it down; that rules out a second
read and a second decision (`TasksFollowDecisions`).  `StreamsAccounted` says
where a stream that was told of something can be, `ReportedOnce` that the call
of the proxy is due or made once the sink is shut down.

**`MediaSink_proofs`**, for `Session`: `Understood`, for any number of packets
on the way.  Inductive is what each message on its way was sent for
(`RequestsInOrder`, `PacketsInOrder`): the request for the description is the
first and alone, the description follows when it has been read and is alone on
the wire, samples follow a start and are of streams that were described or
added later.  `SourceStages` is the part of the source.  The actions of the
sink enter through one lemma, `SinkMoves`, which says what any of them does to
these messages.

**`MediaSource_proofs`**: the types; `OpensAndHears`, from `OneStage` (until the
open has ended exactly one thing is under way) and `StagesBelong` (each stage
belongs to a state); that every step is a step of `SourceProtocol` or leaves its
variables alone, which needs that no header is held before the description is
requested (`CutInv`); `PacketsIntact` and `OperationsStand`.

`PacketsIntact` is an account of bytes (`FrameInv`).  While the parser is at work
or can be, the bytes of the packets not processed yet are, in this order: the
header that was read (`HeaderHeld`), the buffers of the packet being assembled,
the buffer received, the wire (`BytesInOrder`).  A header that is held is that of
the next packet (`HeaderIsNext`), and what is assembled is always less than the
parser waits for (`LessThanNeeded`).  Within a run of the parser the same is
carried from turn to turn by `TurnInStep`: either there is no header yet and
nothing was cut off (`NoHeaderYet`), or the buffers begin in the payload of the
packet the header is of, and only the buffer received last may reach beyond it
(`InPayload`), which is why splitting one buffer is enough.  The bytes are
concatenations (`FlattenSeq`), which the community module defines by recursion.
What they are for every sequence is proved here without an induction theorem,
none of which the provers can instantiate: `SetInduction` says of a set of
numbers what induction says of a predicate, and follows from there being no
infinite descent in finite intervals.  With it `FlattenSeq` is shown to have a
value, to have only one, and to grow by what is appended (`FlattenAppend`).

Of `OperationsStand`, `StreamsAsAnswered` is inductive by itself, as only an
operation that is answered selects, starts or stops streams (`AnswerDecides`);
`LastRateWins` holds because the last rate that waits is
the last one asked for (`RateInv`), and `ServerIsUnderstood` because the packets
are intact and the source has been started when it was sent more than the
description (`ServerInv`).

**`Encoder_proofs`**: `OnlyOvertakenAreLost` and `OutputsDecode`.  `MutexHeld`
says who holds the mutex, `ConnectedInStep` that while nobody does the encoder
is connected exactly when an output is registered, `CodecKept` who may rely on
the codec, `OneDestroys` that who frees the encoder is alone with it.
`TimesInStep` and `PacketsInStep` are the counts of frames and packets in step
with what codec and outputs were given.

**`CaptureEncode_proofs`**: `OnlyEndedWhenTold` and `SamplesGoForward`.
`ReadyIsNewer` numbers the frames announced, `SampleIsNewer` the frame a request
reads, `SignalMeansFrame` says that unless a frame was overtaken a signal means
there is one, `ToldFirst` that nobody tears down without telling.

**`GraphicsLoop_proofs`**: the types; `PictureOfItsTime`; `EveryIntervalOnce`;
`CountsInStep`; and that every step is one of `FrameClock` or leaves its
variables alone.  The proof goes the way of a frame.  In the graphics thread one time is noted and belongs to the
picture staged in the turn before (`RawInStep`).  In the ring the slots in use
are those from the first to the last added, with one more while a claimed slot
is filled (`RingInStep`), and the semaphore counts the frames that are ready,
less the one in hand (`ThreadInStep`); hence no slot in use is written but by a
merge, and a stop finds a post that wakes the thread.  `FramesFollow` then says
of the frames in use that they follow each other in time, without a gap within
a session, and that the last one ends where the next given one begins.
`InputsOnce` says that a consumer is in the list once while it is connected, and
`SeenInStep` that one who has been called for the first frame has been given
its present interval, and another one waits for the interval after its last.
From these the next interval handed to a consumer is the one it waits for, in
whatever turn consumers leave and the list closes up.  For `FrameClock`,
filling a slot and merging into the last frame are both `Give`, and finishing
an interval is `HandOut`.

For the part `GpuFramesKept` of `CountsInStep` the queue of textures is a circle
(`Circle`): the element that is i-th from the front lies at the place `Spot`
gives it, wrapped or not, and popping, pushing at both ends and growing are shown
to drop, add or keep elements (`CircleElements` is the sequence).  `TexturesInv`
says that the queue is such a circle, that every texture counts once at least,
and that pictures ascend from the one held over the ones that wait to the
present time; `OnesIfSmall`, that while the queue has room for one element no
frame counts twice, which keeps the defect of section 3.8 away; and
`TexturesCounted`, that wake-ups, counts and free textures add up.  The sums are
folds over the queue, and what a fold does when an element is dropped, added or
lengthened is again shown with `SetInduction` (`TotalSums`).

Only model-checked: liveness, as the prover knows neither fairness nor
`ENABLED`.  That is `ImplementsFifo` (its fair part), `MarkersAreReported`,
`RunningAsksForSamples`, `LossIsNoticed`, `CallsReturn`, `EverythingIsProcessed`,
`DecisionEndsOpen`, `DestroyedInTheEnd` and `RequestsEnd`.

## 5. What is not modelled

* Of the packet buffers: `InsertBuffer`, with which the stream sink puts headers
  and parameter sets before the payload it serialises
  (ME/StspStreamSink.cpp:1143, 1286 and 1326); `RemoveBuffer` and `CopyTo` from
  an offset, which nothing calls; of the source, the format change, which it
  discards; gathering the buffers of a packet into one write, and the choice of
  addresses.
* Of `Core`: rendering, displays and sources (drawing, and no source is ever
  created), tasks for the graphics thread, setting video up with its error
  paths (one thread, one call, libraries that are not here), the profiler
  (nothing calls `profiler_start`, so every call of it returns at once), and the
  configuration files, lexer, text and platform utilities, which are compiled
  and never called except for memory, strings and the clock.  These unused
  copies, the OBS headers and the vendored code under `Core/deps`,
  `Core/util/simde` and `Core/graphics` are most of the lines of `src/`; they
  have no behaviour of this program to state properties of.
* Of the application: the preview, which draws each frame and keeps a size, and
  the controller, which runs on one thread and whose state is the socket of a
  device; start-up code and interop helpers.
* Everywhere: logging, COM reference counts, the attributes of media types and
  their validation, pixels.
