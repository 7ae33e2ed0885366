# live4d in TLA+

A specification of the programs of this repository that move 4D-STEM images: the
live pipeline (`src/holoscan_pipeline/` over the RDMA transport in `src/dectris/`),
the tools around it, and the earlier PyTorch pipeline (`src/pipeline/`). It says how
detector images get from a sender into batches, how batches flow through the
operators, what the operators make of them, and how all of it starts, fails and
stops. TLC checks the modules on small instances; TLAPS proves what matters most
about the shared mechanisms for every value of the parameters.

## 1. The system

```
 detector (DCU) <--REST-- detector_setup
   |                                        .dstream captures <-- record, repeat, refocus, ...
   | Stream2 over ZMQ                             |
   |                                        replay_to_zmq, offline, PythonIngest
   v                                              |
 ZmqRxOp --compressed--> DecompressGpuOp --+      v
 rdma_sender --RDMA WRITE--> ring -------- + -> decoded batches
                         RdmaRxOp          |
     decoded --> ScanTensorOp --positions--> VirtualDetectorOp (join)
     decoded --> VirtualDetectorOp, H5WriterOp, AnsEncoderOp, ParallaxOp
                                                               |
              page, subscribers <-- FrameStore, LivePublisher <+--> control of the page

 Stream2 over ZMQ --> _Producer --> decoders (CPU or GPU) --> accumulator --> image   (src/pipeline)
```

| component | state | operations | interacts with |
|---|---|---|---|
| queue pair, `imxrx.c` | slots in use, WRITEs since the last signal, RECEIVEs outstanding | write, poll, post receives | NIC; RdmaRxOp, senders, host reader |
| sender, `rdma_sender.py` | ring position, sequence, credit word, tables of headers | record, wrap, wait for credit, end | writes the ring, reads credit |
| `RdmaRxOp` | reader position, immediates, current frame, pending credits and control | activation on a clock, stop | ring, queue pair, CUDA streams, window |
| host reader, `imagemux.py`, `dispatch.py` | reader position, credits taken, kernels in flight | poll, read, take, release | ring, queue pair |
| connection, liveness, `app.py` | handshake, link, readiness, deadline | connect, run, drain, close | sender's process, graph |
| `BatchWindow`, `CompletionLatch` | highest released batch per consumer; arrivals left | admits, release; arrive | publishers, every consumer |
| graph, `app.py` | edges with a queue depth | build, run, stop | all operators, one thread each |
| `ZmqRxOp` | staged images, open series, deferred END | activation, stop | socket, compressed window |
| `ScanTensorOp`, `VirtualDetectorOp` | open series, positions, sums, counts | callback per batch; a join | positions edge, window, latch |
| `H5WriterOp`, `nxmx_writer` | staging ring, job queue, END counters, files | callback, writer thread, stop | window, latch, disk |
| `AnsEncoderOp`, `SeriesEncoder` | staging chunk, events, resident series | start, add, end | CUDA streams, window, latch |
| parallax engine, sink, runtime | image, passes, seen positions, saved files | start, feed, retune, finish, close | control, live view under ACC_LOCK |
| live control | arguments, revision, queue | update, apply pending | HTTP threads, runtime |
| live stream, frame store, page | history, numbers, high-water mark | publish, put, wait, view, spectrum | HTTP threads |
| captures and their players | file, socket, open series | record, rewrite, read, replay, fold | detector stream, accumulators |
| `detector_setup.py` | the DCU's parameters | check, set, arm, scan, disarm | DCU, other software |
| PyTorch intake, `main.py` | two queues, decoders' counts, masks, window | receive, decode, join, integrate, show, save | ZMQ socket, GPU |

Behaviours that are hard to test are listed at their lines, with the properties that
watch them, under `hazards` in PROJECT.json.

## 2. Modules

| module | models | refines / composes |
|---|---|---|
| `ImageFeed` | what a source promises: READY, then the sender's items in order, once, in batches no series boundary crosses | abstract |
| `ImxQueuePair` | `imx_qp_post_recvs`, `imx_qp_poll`, `post_write` | |
| `RdmaRing` | sender, network, ring, `RdmaRxOp`, CUDA streams, window, stop | instantiates `ImxQueuePair`, refines `ImageFeed` |
| `HostRing` | `rdma_sender.py` with its tables, against the host reader (`FrameReader`, `Dispatcher`, `CreditTracker`) | extends `ImxQueuePair` |
| `Session` | handshake, threads, session loop and closing of both processes | |
| `BatchWindow` | `admits` / `release` with racing loads, and the runtime's commit | abstract for the graph |
| `BatchFlow` | the graph of `app.py`: edges, callbacks, join, latch, stop | refines `BatchWindow` twice |
| `SeriesMessages`, `VirtualDetector` | the messages of `messages.py`; what scan and detector operators make of them | |
| `AnsEncoder`, `SeriesConsumers` | chunks over CUDA streams; the encoder beside the detector | composes `VirtualDetector` |
| `H5Writer` | `H5WriterOp`, its thread, the data files of `nxmx_writer.cpp` | |
| `ZmqReceiver` | `ZmqRxOp` | refines `ImageFeed` |
| `DetectorSetup`, `Acquisition` | `detector_setup.py` and the DCU; the receiver reading what that DCU sends | composes `DetectorSetup`, `ZmqReceiver` |
| `ParallaxEngine`, `LiveView`, `ParallaxRuntime` | accumulator; publisher, store, page; sink, runtime, control, offline replay | the third composes the others |
| `PageImages` | index arithmetic of the page's views and spectra | |
| `Capture` | recording, the tools that write captures, every player, the Python ingest | |
| `FrameCodec`, `IngestPool`, `IngestMain` | an image's decode on CPU and GPU; the intake's threads; the program around them | the third refines the second |
| `HostRingProofs` (also `ZmqReceiver`, `Acquisition`), `BatchFlowProofs` (also `Session`), `AnsEncoderProofs`, `IngestPoolProofs`, `ParallaxProofs`, `RowsProofs`, `RdmaRingProofs` (also `Capture`), `H5WriterProofs` | theorems | |
| `MC*` | instances for TLC | |

### Correspondence to the code

*ImxQueuePair.* `sq` is the NIC's send queue, each entry with the number of WRITEs
its completion covers (`wr_id`, 0 when unsignaled); `writes`, `since` and `recvs` are
`stats.writes_outstanding`, `since_signal` and `stats.recvs_outstanding`.

*RdmaRing.* Ring bytes are counted in cells of `FRAME_ALIGN`; a cell holds the frame
last written to it, so an overwritten header or image is visible. `compute` is cut at
its waits and wherever another actor can matter: `pc` says where it is, `batch` is the
tensor it fills, `frame` the partly consumed frame with its `last_read` event. A GPU
read is an entry of `gpu` on one stream; `cudaStreamWaitEvent` is the entry's `after`.

*HostRing.* The sender's headers and control messages are slots of tables it uses
again, which the NIC reads when it carries a WRITE out, so a slot reused too early is
visible in the ring. The program that uses the reader is external (only tests and
tools do); it takes, dispatches and releases in any order the classes allow.

*Session.* One action per call that can block or fail, on both sides; the socket only
tells each side that the other closed it. Frames are counted. A sender that leaves the
handshake closes its socket first and its queue pair at its exit (`Unwind`); what
`verbs.close` could not release goes with the receiver's process (`CloseFails`).

*BatchWindow / BatchFlow.* A batch is its number. An edge holds what its reader has
not consumed, so counters suffice: `published` against `taken`. Commit (the runtime
consuming the input after the callback returned) is a step behind the release: the
reason for the spare slot in `app.py`. A publish that meets a full edge sets `failed`.

*VirtualDetector / AnsEncoder.* A pixel of the result is the id of its image. A copy
into the staging chunk is an entry of its activation's stream until that stream runs
it; the encode waits for the events it was given.

*H5Writer.* The callback's `stage` is the point reached in one batch, and whether it has had
to wait there ("waiting", "held"), since only a wait looks at the stop; `thread` is the
writer loop; `disk` has, per data file, the contents under the temporary and the final
name, as the series whose image every position holds. `*Fails` actions are exceptions.

*ZmqReceiver, DetectorSetup.* One action per message kind and early return of
`compute`; one per REST request of the tool, which may fail before or after it took
effect. The detector, and software that changes its parameters, are external.

*Parallax.* An image is the set of frames deposited in it, each with its series, id and
the geometry it was shifted by. What holds `ACC_LOCK` is one step, split where another
thread reads without it (`close` reads the revision, `put` takes its number). `movie`
holds the files of completed passes, one per pass number, written inside the batch that
completes the pass.

*PageImages.* Operators on one axis of a snapshot, and the square of a spectrum.

*Capture.* A file is its records; the players are a feeder, a socket with a high-water
mark and a consumer that folds the images into batches.

*FrameCodec / IngestPool / IngestMain.* An image has real bytes (of few values): the
framing is walked block by block, and the sums are those of the weights of every mask.
The GPU path's undefined reads are a nondeterministic pixel.

The transport, the CUDA streams, the Holoscan runtime, the DCU and the programs outside
the repository are modelled from how the code uses them and are marked external in
PROJECT.json: a reliable ordered queue pair with infinite RNR retry, in-order streams,
one callback of an operator at a time, no callback after a stop.

## 3. Runs

| run | instance | distinct states | shows |
|---|---|---|---|
| `queue_pair` | ring of 5 units, 3 images in records of 2, two series, cut after 0, 2 or 3; sender depth 3, receive depth 3, immediates mod 4 | 40,796 | RECEIVEs accounted for, no wedge, the host reader's images are the sender's |
| `rdma_ring` | ring of 5 cells, batch 2, window 1, two streams, immediates mod 4, stop anywhere; three senders | 110,946 | nothing unread is overwritten, credit is earned, `ImageFeed`, shutdown |
| `batch_flow` | ZMQ (finite) and RDMA (service, two series), writer and encoder, queue depth 2, stop anywhere | 41,882 | no overflow, completion, the window, progress, every callback returns |
| `batch_flow_latch` | queue depth 4, writer, finite, two short series | | **violation**, see 3.2 |
| `h5_writer` | 2 slots, 2 images per file, three plans, failures and stop anywhere | 2,978 | staging, END, stop, thread exit |
| `h5_writer_rerun` | two series of one name | | **violation**, see 3.2 |
| `zmq_receiver` | five canned senders, or the DCU with three setups, seven calls, two invocations, one meddling | 947,952 | `ImageFeed`, delivery, a scan that returned 0 is reported whole |
| `parallax` | scan 2x2, two shift geometries, all modes, four recordings, six updates, passes saved in three sessions, failing save, stop anywhere | 653,305 | what is shown, saved and filed holds the frames it says; control and image agree; close ends |
| `ingest_pool` | two decoders, ten streams, three mask sets, CPU or GPU, with or without the window, interrupt anywhere | 212,808 | END last, the saved image is the masked sum, the program ends |
| `capture` | scan 2x2, batch 3, high-water mark 2, receive 3, four streams, 24 setups, two passes | 30,215 | order, and what `info` calls whole plays through |
| `session` | two parties, one optional, two frames, every step failing | 103,736 | the ring is there when written, the drain is final, both sides end |
| `ans_encoder` | three streams, chunk 2, one series kept, scan 1x2, seven feeds | 27,330 | kept series, results, and the two consumers agree |

### 3.1 Bounds

Bounds are chosen so that every interesting event happens. The rings are smaller than
two frames, so credit blocks the sender and a plan wraps them at several offsets;
frames are larger and smaller than a batch, so they are split and shared; immediates
wrap within a plan; the send queue and the window are full at times. Queue depth 2 is
the least the configuration admits. Two staging slots make the writer's callback wait,
two images per file make files switch inside a batch. The parallax scan has two rows,
so that a shift reaches across one, and recordings with a repeated pass, a late frame,
a gap and a refused pixel type; two series let ids go on or start again. In the intake
a chunk of two with a queue of one makes the producer wait for a decoder, and streams
hold damaged, truncated, unreadable and misshapen images beside sound ones; a detector
of 2x2 pixels and a disk of radius 1 put pixels in and out of a mask. Captures are cut
at every record and inside one; batches of three do not divide the scan. Named bounds
of counters (`MaxSeries`, `MaxUpdates`, `MaxCalls`, ...) are guards of the actions they
limit. Interchangeable threads are few, so no symmetry is used.

`CHECK_DEADLOCK FALSE` is set where the system ends by design (all sent, stopped or
failed); `H5Writer` has a self-loop for its end and is checked for deadlock.

`MCParallax` also lets TLC evaluate the formulas of `PageImages` for small snapshots.

### 3.2 What does not hold

Two runs expect a violation of what the documentation says:

- `batch_flow_latch`: `CompletionLatch` counts ENDs, not consumers. When a sender in
  finite mode goes on with a second, short series, the detector's second END completes
  the run while the writer still holds the first.
- `h5_writer_rerun`: `DataFile::open` reopens a data file that exists, so the second
  acquisition of a name keeps images of the first where it writes none.

The properties of the passing runs name the exceptions the code has; each is a state
the model reaches:

- *Intake* (`SavedWhole`, `Ends`). A decoder can find the queue empty, then the producer
  puts its last chunk and raises its flag, then the decoder reads the flag and leaves
  (pipeline.py:270-276): the chunk is lost, where the docstring says the call blocks until
  the source is exhausted. When all decoders die of misshapen images the producer may
  wait for good. The GPU path checks neither framing nor block status
  (gpu_decode.py:182-214), so a damaged image enters the sums as undefined pixels,
  though bslz4.py:44 says it fails loudly. A GPU decoder that cannot be built ends in a
  saved image of zeros; with the window, so does a pipeline that raised
  (main.py:131-151), and Ctrl-C still waits for END (main.py:139).
- *Parallax* (`ScanSaved`, `SavedIsTuned`, `RowsShownComplete`). A retune behind the
  last batch, or a switch of mode, leaves an empty image, which a close then saves over
  the scan's, or END completes as a pass. An image restarted in the middle of a pass
  becomes a completed pass. Missing ids, or a refused pixel type, move the cursor behind
  rows that were never filled, and so does a pass whose file cannot be written in the
  middle of a batch. A new mode numbers the files of passes from 0 again, over those of
  the old one. A queued update that was accepted may never be applied at a close, and
  one applied while close reads the revision is not saved (GUIDE.md says it is). A
  switch that fails for memory leaves its mode in the arguments. A revision before any
  series makes close raise. The PUB socket may drop the last snapshot whatever its
  linger.
- *ANS encoder* (`KeptExact`). A dropped chunk forgets the events of copies that may still
  run into the staging chunk (ans_encoding.py:107). Only the first and last id of a batch
  are read.
- *Captures* (`PlaysThrough`). A cut capture replayed over ZMQ ends with an empty message
  the Python ingest cannot decode, so its unfinished batch is lost; a capped replay of
  several series sends a second START before any END; a refocused recording of a series
  other than 1 keeps its START and fails offline; `info` counts a torn record.
- *Detector set-up* (`ScanReported`). The arm of `scan` is outside its try: a failing read
  of the state behind it leaves the detector armed. A parameter the DCU lacks is skipped.
- *Session* (`EndsTogether`). Without keepalives a silent loss of the network leaves the
  receiver waiting; a close while the liveness thread is in `recv` reaches the sender only
  when the process ends.
- *Page.* A spectrum of one pixel a side (`out=1`) doubles its square beyond the region.

### 3.3 Fairness

Weak fairness only, and only of what keeps running by itself: the sender's loop, the
network (reliable, infinite retry), the GPU, each operator's partition (a thread of its
own that the runtime schedules on a clock or on input), the writer thread, the threads
of the intake, of the session and of the parallax runtime while they have a step, and
the process that plays or records a capture. None is assumed of stop requests, signals,
failures, messages of the detector's user, requests of the page, or the loss of a
network, nor of one branch of a thread against another: a thread is fair as a whole.
In the intake a decoder that finds the queue empty is fair of its own, as it polls.
The consumers' release is assumed fair in `RdmaRing` and `ZmqReceiver`; `BatchFlow`
shows it (`Drains`).

## 4. Proofs

Assumptions are those named in the modules: positive depths and intervals
(`DepthAssumption`), positive sizes of the ring and its frames and the plans of a conforming
sender (`RingAssumption` of `RdmaRing`: as `send_series` makes them, with images numbered from
0 without a gap, frames that fit the ring, START data within the receiver's 16 KiB, though the
sender's slot takes 64, and an END with their number), a host reader's ring of two units at least that the
largest batch fits (`RingAssumption` of `HostRing`: with a larger batch the sender waits for a
credit that cannot come, until it gives up), `WindowAssumption`, a queue depth of at
least 2 and the three optional consumers (`FlowAssumption`), positive slots and images per
file and plans of known series (`WriterAssumption`), a positive chunk and queue
(`PoolAssumption`), the codec's bounds (`CodecAssumption`), a positive number of parties
(`SessionAssumption`), a positive scan with finite batches, none empty (`ParallaxAssumption`),
a chunk that holds an image (`EncoderAssumption`), positive sizes (`ReceiverAssumption`), a DCU
that has the parameters `arm` reads, with numbers for numbers whoever sets them
(`AcquisitionAssumption`), and a configured scan with positive sides (`ScanAssumption`: `ScanShape` refuses others). Six modules have a
hypothesis beside them. `DistinctNames` of `H5Writer`: two written series have different
names; without it what is claimed of the files is false, which is the run `h5_writer_rerun`.
`EndsOnce` of `BatchFlow`: the plans of a run hold at most one END where the run is to end by
itself; without it the latch is early, which is the run `batch_flow_latch`. `DistinctIds` and
`CodecExact` of `IngestMain`: the images of a stream have ids of their own, and a frame in the
form the detectors send is weighed as the detector counted it. `CodecExact` is about the bytes
of a frame, an induction over data; `MCIngestPool` assumes it of its streams, so TLC evaluates
it frame by frame, on both backends. `FeedsOrdered`, `SeriesRise` and `SeriesInOrder` of
`AnsEncoder`: a run starts every series once, the ids of a batch ascend (of which `add` reads
the first and the last), the detector's series numbers rise, and it sends the images of a series
once, in their order, and nothing of it behind its END; images may be missing anywhere, ENDs too.
Without the last the count of missing images is too large, as a late image does not take back
what the jump over it added. `MCAnsEncoder` assumes all three of its feeds.
`OnePerPosition` and `LateByOnePass` of `ParallaxRuntime`: a batch holds a position at most
once, as the code notes that "latest" assumes, and an image that comes behind one of a newer
pass is a straggler past that boundary: of the pass just before, which was arriving in the same
batch or in the batch before. An image two passes late goes into the wrong completed pass of
"swap", so without it `ImagesExact` is false. `MCParallax` assumes both of its series.
`PlansNumbered` (in `HostRingProofs`, of `ZmqReceiver`): a message of an open series is of that
series, and END stands for as many images as came before it. The receiver reports its own count
and series; the hypothesis only says that the items of `ImageFeed` have the same. It is true of
the plans of `MCAcquisition`, refused ones included. Of a DCU's stream, which begins empty, it
says nothing: that one is proved to be numbered.

- `RdmaRingProofs`. The state does not hold where old posts were, so the invariant says
  that there are two functions, `P` (the ring position at which post `q` starts) and `K`
  (the record of the plan the sender is about to send there), which determine every frame
  ever posted; the steps that post extend them, all others keep them. Around them: the wire
  is the last posts in order, every cell of the ring holds the newest post that reached it,
  what the receiver reads next is the post of its position, the reads of a stream are in
  order, and the recorded credits ascend to positions below which every read is finished.
  Credit held by the sender covers the end of the post in flight. From it `NoOverwrite`,
  `NeverRejects`, `CreditChain` and `ShutdownSafe`. That the operator implements `ImageFeed`
  (`StreamIsDelivered`) needs a second invariant over the same functions: `DeliveredInv`, that
  what was emitted, what is gathered and the control message that waits are the items of all
  records read, or of all but the last and a part of that one; it lapses when a stop abandons
  an activation, after which nothing is emitted. Beside it: nothing comes before READY
  (`ReadyFirst`), a batch is of the series being received and a control message ends it
  (`GatherInv`), and the receiver's count of images is the sender's (`CountInv`). That a record
  more adds its items behind the others, an induction over `FlattenSeq`, is `FlattenGrows`.
- `HostRingProofs`. As in `RdmaRingProofs`, the invariant says that there are functions `P`
  and `K`: the position of header `q`, and the record the sender is about to send there. The
  headers lie one behind the other (`Layout`), two at most for every record, as a wrap marker
  ends at the first cell; so an entry of the sender's table is not used again while its WRITE
  is under way (`TableInv`). The WRITEs under way are the last ones posted, and the next one to
  be carried out is that of the announcement that arrives next (`WireInv`, `AnnounceInv`).
  Every header in the ring is one that was carried out and is visible; of those the sender has
  no credit for, none is lost, and neither is their data (`RingInv`), although a header in GPU
  memory may appear late, over what lies there (`UnseenInv`: it is of a record the reader has
  not read). A kernel that has not run reads a record the credit is not safe for (`KernelInv`),
  as `CreditTracker` holds the last records read, in order, and the credits on their way
  ascend to where its oldest one starts (`CreditInv`). From it `FramesExact`.
  The queue pair has an invariant of its own, for any caller and for the host reader. `NoWedge`
  is not inductive: one must know where the signals
  stand. `SendInv` says that the first signaled WRITE in flight covers everything in use
  before it, each later one reaches back exactly to the signal before it, and `since`
  counts the WRITEs behind the last; `since < Every` is what the forced signal on the
  last slot keeps. `RecvInv` gives `ReceivesAccounted`.
  In the same module the other way into the pipeline. The ZMQ receiver by itself, for any sender
  whose messages are numbered. `AsSent`: what went downstream, and what waits (the images staged,
  or the END behind them), are the messages up to the last one taken; `Staging`: which of these
  can wait at which point of an activation; `OpenSeries`: the open series and its count of images
  are those of the last message. So what it emits next is what ImageFeed delivers next
  (`MessagesAreDelivered`). Then the detector in front of it. `StreamInv`: its stream is of the
  series up to the one armed last, and while that one is open the number of the last message is
  the detector's count; so whatever is armed, triggered, disarmed, set or lost, the stream stays
  numbered and the receiver delivers it (`AcquisitionDelivers`). `ScanInv` says what `scan` knows
  at each of its requests, and that it stays true until the next one: the parameters compared so
  far fit (`CheckInv`); from the arm command to that of the disarm the stream ends with what the
  scan has sent, one image per trigger gone (`ScanningInv`); and a series that is over has all of
  a scan and gets no further message (`ScannedInv`). With `AsSent`, `ScansAreWhole`.
- `BatchFlowProofs`. That no edge overflows is not inductive: one must know where every
  callback stands. `FlowInv` says so of each counter (`HoldInv`, `ReleaseInv`,
  `DecodeInv`, `TransportInv`, `JoinInv`). `RoomOnEveryEdge` bounds the edges of the
  window's consumers by their releases, and the edge to ScanTensorOp, which releases
  nothing, by those of the detector behind it. `Numbering` shows that app.py numbers the
  enabled consumers one to one. From the invariant: `EdgesNeverOverflow`, and that every
  step of the graph is a step of the window or leaves it alone (`DecodedRefines`,
  `CompressedRefines`). What the latch waits for is a sum over consumers whose ENDs arrive in
  different orders; `ArrivalInv` says which batches are past each consumer, by its edge and its
  hand, and `LatchInv` that the latch's count is what they still owe of the one END there is:
  when it is zero, `CompletedByAll`.
  The window by itself, for any capacity and publisher, is in the same module:
  `WindowInv` has the types, `released - taken` in {0, 1}, and
  `published - taken <= Capacity + 1`. The publisher's step uses that a stale load is a
  lower bound. From it `QueueBounded` and `ReleasesInOrder`.
  Last the session that the graph runs in (`Session`). The receiver never withdraws its
  RECEIVEs: once `posted`, the queue pair is connected or closed, and a connected one has
  its ring registered. A sender that may send has heard Ready, or Ready is on its way, so
  RECEIVEs are posted (`ReadyInv`). An end of file at the receiver means that nothing more can
  be posted: the sender has closed its queue pair, or it left the handshake with nothing
  written (`HangupInv`), and the receiver that hears it has had an Accept, so there was a
  queue pair (`AcceptInv`). The link the receiver gives up itself is being closed and drains
  nothing (`LinkInv`).
- `AnsEncoderProofs`. That a kept series is whole is decided copies later than it is staged.
  `EncInv` says that a copy not yet carried out is of a series begun before, and one of the
  series being encoded brings its images to the slots they belong to and is one the encode
  waits for (`CopyInv`); that every slot in use holds its image or such a copy still brings it
  (`StageInv`); that the images added follow each other without a gap, because ids that ascend
  from a first to a last with as many numbers between are consecutive (`TodoInv`); and that the
  encoder has the first `first` images. So an encode whose copies are done finds the chunk
  right, and a kept series has all its positions. `AccountInv`, which needs no exception for
  strays, is about what becomes of each series: `Begun` are those settled and the one being
  encoded, the kept ones ascend, behind all that were closed. It gives `SeriesAccounted`.
  Then the series of a feed: `Series(s, e)` says that batches `s` to `e` are a START and images
  of its series, `Held(s, e)` which ids these are. A batch adds to the counts what the
  batch's own counts say, because the ids before it are all below its first (`UpTo`): the
  images inside the scan (`PlacedGrows`), the gaps (`GapsGrow`), the missing ones
  (`MissingGrow`, from the steps forward between the ids: `SkippedBetween`); and to the image
  its own pixels, as quotient and remainder by the scan's width tell positions apart
  (`PositionOf`, `ImageGrows`). `PlacingInv`: what waits between the operators is placed in the
  scan of its own series; `DetectingInv`: counts and image of the open series are those of its
  images up to the last batch taken, and a result those of the series up to its END. A series
  that has a result has no other images in the feed (`DeliveredIs`), which is `ResultsExact`.
  For `ConsumersAgree`, `OpenInv` says that the series being encoded has no hole so far and that
  each of its images is encoded, staged or still to be copied, and `SettledInv` that what was
  kept or closed was whole at its boundary, and what was dropped had a hole (which stays:
  `HoledStays`) or was not whole there. Both consumers see the same boundary (`OneBoundary`),
  and the counts of a series validate just when it is whole (`ValidWhole`).
- `H5WriterProofs`. All parts speak of `Pending`, the thread's job followed by the queue:
  taking a job leaves it, finishing one drops its head, the callback appends. `StagingInv`
  counts the slots (each is free, in the callback's hand, or of one job in `Pending`).
  `WritingInv` adds which series the thread will be in at every place of the queue
  (`Reaches`), that the one file under a temporary name is the one the thread has open, and
  that every image handed over is on disk or waits in `Pending`. From it that queued
  batches are written before the thread exits, and that END released means stored.
- `IngestPoolProofs`. That END is last needs to know, of every thread, whether it may
  still put something: a decoder outside the pool holds nothing, the joiner puts END only
  when all have left, and the consumer stops at it. `EndComesLast` follows for any number
  of decoders; `MainImplementsPool` carries it over to the whole program. For `SavedWhole`,
  `AccountInv` says where every image received is: in the chunk, in one chunk of the queue,
  in the hands of one decoder, in one batch, among the errors, or in the image, and nowhere
  twice; `ImageInv` what the image holds of the last, `ExitInv` that a decoder which found
  the queue empty left nothing there, unless it was overtaken. The report's counts are sizes
  of these sets; a decoder counts its batch after it has put it, so `TallyInv` says that there
  is, for each decoder, a set of images made and not yet counted.
- Captures are in `RdmaRingProofs` as well, whose lemmas on joined sequences they use.
  `CaptureInv`: nothing is played before the capture is written, and then the feeder has read
  `next - 1` of its messages and sent at most `max` of their images, every frame folded has an
  accumulator to go to (`Accumulating`), and the images in the accumulators, the batch, the
  hand, the pushback and the sockets (`OnTheWay`) are in this order those of what was read
  (`Due`). An image selected at its place moves with its sequence (`ImagesJoin`), so a step
  only moves the border between two of the five. `CapturePlaysInOrder` is for all constants
  with natural sizes and counts and streams of messages (`CaptureConstants`, which the run of
  `MCCapture` evaluates), whatever the tool that wrote the capture and the player.
- `ParallaxProofs`. A batch is a loop over its passes, a recursive function; `PassByPass`
  and `Climb` are its induction, done once, so that what each pass keeps every batch keeps.
  `ControlInv`: the arguments describe the image except between the two halves of a change,
  at which control is locked. `SavedInv`: who holds the lock in the last steps of close, and
  that the file has the revision that was read. `StoreInv`: a thread that took a number
  holds the lock until it has put its frame, so numbers and control states ascend together.
  `ImageInvariant`: there is a function from series to the number of passes before them, by
  which every frame fed since the image was begun has a pass; of "reset" and "swap", the
  running image is all of the running pass, the front all of the completed one (but for what
  "reset" drops because a newer pass was there), no image still to come is of a closed pass,
  and one that is late is of the front's. It is not inductive without the images still to
  come and those of the last batch. `ProcessKeeps` and `ProcessLays` carry it pass by pass
  through a batch, up to the pass whose file cannot be written; from it `ImagesExact`.
  `ScanInvariant` adds what a save looks back on: the sink has counted the images of the series
  (`ReceivedInv`), the running pass is the one of the cursor, and was opened by an image of this
  series if its number says so (`CursorInv`), a whole pass that nothing followed was closed with
  its series (`EndedInv`), and every whole pass behind the running one is in a file of its number
  that nothing still to come has (`FileInv`). `ProcessFiles` says which files a batch writes and
  what they hold, pass by pass; a whole pass that a batch completes was the running one, or is of
  that batch (`FeedPassed`). From it `ScanSaved`.
  Last the page: bounds on whole blocks from below and above, and one theorem per picture:
  the view is in place and large enough, the square of a spectrum within the region, and its
  rows are all the finished ones or as many as fit.
- `RowsProofs`. The engine tells complete rows by two numbers, the cursor and the lowest
  number of the image, so `RowsInvariant` says what these two stand for: the image has the
  frame its lowest number is of (`OnStart`); a closed pass came to its end or was left behind
  (`Ended`); the cursor is on an image of the series or before them all (`CountInv`); and of
  "all" and "latest", with images in order, every position from the lowest number up to the
  last was fed (`SpanInv`), except after a batch that could not be stored (`OthersInv`). Images
  in order chain back one by one to the first of the pass (`Descent`, `ToPassStart`), so a pass
  that came to its end is whole (`WholePass`). A batch moves the two numbers by what it holds
  (`SpanGrows`), whether all of it is deposited (`WholeRows`) or it is cut at a pass whose file
  cannot be written (`CutRows`). `RowsCovered` gets from the numbers to the rows claimed, across
  the end of the scan, and so `RowsAreComplete`; like the theorems about images and scans, it
  supposes batches that hold a position once and images late by one pass at most, which
  `MCParallax` evaluates for its series.

TLC checked the inductive invariants on the instances of section 3 before they were proved.

Only model-checked: all liveness (that captures play through, and that a scan that returned 0 is
delivered to its END, among it), which is out of the prover's reach, as is ENABLED.

## 5. Not modelled

- Numerics: masks beyond their pixels, the readout and its filters, the shifts of the
  reconstruction beyond the rows they reach, bit shuffle, LZ4 and zstd, the entropy
  coder, floating-point pixels.
- Byte layouts: CBOR, frame headers, HDF5 and metadata files; configuration parsing.
- Calibration, session reports, notebooks and examples: programs that run once from input
  to output without shared state. Telemetry, which only counts; HTTP itself.
- Failing verbs and CUDA calls, the settle time of a GPU ring's header; a consumer
  callback that throws (it fails the run); `main_zmq`, whose loop is `run`'s without a
  sender to watch; `pass_average` below 1 and the `final` flag of the parallax
  branch; times, which are nondeterministic choices.
- An interrupt in the middle of a parallax feed or inside `np.save`: signals arrive between
  the model's steps.
- Crashes of the processes beyond captures and HDF5 files: nothing else is persistent.
- The page's script (JavaScript), the CUDA kernels, the earlier `simple_listener`.

## 6. Plan

Next, a model: `main_zmq` beside `Session`.
