------------------------------ MODULE IngestPool ------------------------------
(***************************************************************************)
(* The intake of the PyTorch pipeline (pipeline/ingest/pipeline.py): a      *)
(* producer receives messages and puts chunks of images on a bounded queue, *)
(* a pool of decoders turns them into batches on a second one, a joiner     *)
(* puts END behind them and the caller's thread hands each batch to the     *)
(* accumulator (virtual_detectors/vbf.py).  FrameCodec says what a message  *)
(* is and how its frame is decoded and weighed.                             *)
(***************************************************************************)
EXTENDS FrameCodec

CONSTANTS
  Decoders,   \* threads of the pool
  Streams,    \* what the detector sends: sequences of messages
  Masks,      \* calibration files: [flatfield, deadPx], each [present, shape, values]
  Backends,   \* "cpu" and "gpu"; "gpu" uses one decoder
  ChunkSize,
  QueueMax    \* chunk_queue_maxsize

ASSUME PoolAssumption ==
  /\ ChunkSize \in Nat \ {0} /\ QueueMax \in Nat \ {0}
  /\ \A s \in Streams : Len(s) \in Nat /\ \A i \in 1 .. Len(s) : s[i].id \in Nat

VARIABLES
  stream, pool,    \* the run's stream and its decoder threads
  gpu, masks,
  pos,             \* messages received
  producer,        \* "gate", "receive", "put", "leave" or "done" (_producing_done)
  ending,          \* END has been received
  chunk,           \* images of the chunk being filled, as positions in the stream
  rawQ, outQ,
  stop,            \* _stop
  startError,
  at, hand,        \* each decoder's place, and the batch it holds
  joiner,          \* "join" or "done"
  consumer,        \* "run", "done" or "failed"
  image,           \* the sums written so far, 0 where there is none
  errors,          \* images that could not be decoded, and those dropped with their chunk
  tally, stats,    \* frames each decoder has still to count, and PipelineStats
  overtaken        \* history: a chunk was put while a decoder had found the queue empty

source == <<stream, pool, gpu, masks>>
prod == <<pos, producer, ending, chunk, startError>>
tallies == <<errors, tally, stats>>
vars == <<source, prod, rawQ, outQ, stop, at, hand, joiner, consumer, image, tallies, overtaken>>

EndMark == [end |-> TRUE, images |-> <<>>]
Batch(images) == [end |-> FALSE, images |-> images]
Ended(d) == at[d] \in {"exited", "died"}

\* VBFAccumulator's image and PipelineStats as they are made.
NoImage == [i \in 0 .. Positions - 1 |-> 0]
NoStats == [received |-> 0, decoded |-> 0, batched |-> 0, batches |-> 0, deepest |-> 0]

Init ==
  /\ stream \in Streams /\ masks \in Masks
  /\ \E b \in Backends :
       /\ gpu = (b = "gpu")
       /\ pool = IF gpu THEN {CHOOSE d \in Decoders : TRUE} ELSE Decoders
  /\ pos = 0 /\ producer = "gate" /\ ending = FALSE /\ chunk = <<>> /\ startError = FALSE
  /\ rawQ = <<>> /\ outQ = <<>> /\ stop = FALSE
  /\ at = [d \in pool |-> IF gpu THEN "build" ELSE "wait"]
  /\ hand = [d \in pool |-> <<>>]
  /\ joiner = "join" /\ consumer = "run" /\ image = NoImage
  /\ errors = {} /\ tally = [d \in pool |-> 0] /\ stats = NoStats /\ overtaken = FALSE

-----------------------------------------------------------------------------
(* _receive                                                                  *)

Message == stream[pos + 1]

Arrives == ~stop /\ pos < Len(stream) /\ pos' = pos + 1

\* Before START everything is ignored; START passes the gate or stops the run.
Gate ==
  /\ producer = "gate" /\ Arrives
  /\ LET failed == Message.kind = "start" /\ ~Admits(Message)
     IN /\ startError' = failed /\ stop' = failed
        /\ producer' = IF Message.kind # "start" THEN "gate" ELSE IF failed THEN "leave" ELSE "receive"
  /\ UNCHANGED <<source, ending, chunk, rawQ, outQ, at, hand, joiner, consumer, image, tallies, overtaken>>

\* END puts out the chunk that has been begun.
Flushes == chunk # <<>>

Receive ==
  /\ producer = "receive" /\ Arrives
  /\ \/ /\ Message.kind = "image"
        /\ chunk' = Append(chunk, pos + 1)
        /\ producer' = IF Len(chunk') >= ChunkSize THEN "put" ELSE "receive"
        /\ UNCHANGED ending
     \/ /\ Message.kind = "end"
        /\ ending' = TRUE
        /\ producer' = IF Flushes THEN "put" ELSE "leave"
        /\ UNCHANGED chunk
     \/ Message.kind \notin {"image", "end"} /\ UNCHANGED <<producer, ending, chunk>>
  /\ UNCHANGED <<source, startError, rawQ, outQ, stop, at, hand, joiner, consumer, image, tallies, overtaken>>

\* _put_chunk
PutChunk ==
  /\ producer = "put" /\ Len(rawQ) < QueueMax
  /\ rawQ' = Append(rawQ, chunk)
  /\ chunk' = <<>>
  /\ producer' = IF ending THEN "leave" ELSE "receive"
  /\ overtaken' = (overtaken \/ \E d \in pool : at[d] = "empty")
  /\ stats' = [stats EXCEPT !.received = @ + Len(chunk)]
  /\ UNCHANGED <<source, pos, ending, startError, outQ, stop, at, hand, joiner, consumer, image,
                 errors, tally>>

\* A stop ends the producer wherever it waits; its chunk is lost.
GiveUp ==
  /\ stop /\ producer \in {"gate", "receive", "put"}
  /\ producer' = "leave"
  /\ UNCHANGED <<source, pos, ending, chunk, startError, rawQ, outQ, stop, at, hand, joiner, consumer,
                 image, tallies, overtaken>>

Leave ==
  /\ producer = "leave"
  /\ producer' = "done"
  /\ UNCHANGED <<source, pos, ending, chunk, startError, rawQ, outQ, stop, at, hand, joiner, consumer,
                 image, tallies, overtaken>>

-----------------------------------------------------------------------------
(* _decode_chunks and _decode_chunks_gpu                                     *)

\* Mutation: the pool goes on waiting for chunks that nobody will decode.
StopsAll_Not == stop

\* A GPU decoder that cannot be built stops the run.
StopsAll == TRUE

Build(d) ==
  /\ at[d] = "build"
  /\ \/ at' = [at EXCEPT ![d] = "wait"] /\ UNCHANGED stop
     \/ at' = [at EXCEPT ![d] = "exited"] /\ stop' = StopsAll
  /\ UNCHANGED <<source, prod, rawQ, outQ, hand, joiner, consumer, image, tallies, overtaken>>

Messages(images) == [k \in DOMAIN images |-> stream[images[k]]]

Readable(i) == IF gpu THEN GpuReads(stream[i]) ELSE CpuReads(stream[i])

\* The images of a chunk that can be read, in their order.
Readables(chunk_) ==
  LET Among[k \in 0 .. Len(chunk_)] ==
        IF k = 0 THEN <<>>
        ELSE IF Readable(chunk_[k]) THEN Append(Among[k - 1], chunk_[k]) ELSE Among[k - 1]
  IN Among[Len(chunk_)]

\* The first frame sets the shape of the buffer: another one ends the decoder's thread.
Dies(images) ==
  ~gpu /\ \E k \in 1 .. Len(images) : stream[images[k]].shape # stream[images[1]].shape

\* On the GPU the chunk is decoded as one, or dropped.
Dropped(images) == gpu /\ images # <<>> /\ ~GpuFits(Messages(images))

\* A decoder holds the images it decoded, as positions in the stream; Frame has the pixels.
Take(d) ==
  /\ at[d] = "wait" /\ rawQ # <<>>
  /\ rawQ' = Tail(rawQ)
  /\ LET images == Readables(Head(rawQ))
         emits  == images # <<>> /\ ~Dies(images) /\ ~Dropped(images)
     IN /\ at' = [at EXCEPT ![d] = IF emits THEN "emit" ELSE IF Dies(images) THEN "died" ELSE "wait"]
        /\ hand' = [hand EXCEPT ![d] = IF emits THEN images ELSE <<>>]
        /\ errors' = errors \cup {stream[i].id : i \in {j \in ToSet(Head(rawQ)) : ~emits \/ ~Readable(j)}}
  /\ UNCHANGED <<source, prod, outQ, stop, joiner, consumer, image, tally, stats, overtaken>>

\* The pixels of image k of a batch.
Frame(images, k) ==
  LET m     == stream[images[k]]
      first == stream[images[1]]
      elem  == stream[Last(images)].elem
  IN [i \in 1 .. Area(Detector) |-> IF gpu THEN GpuPixel(m, first, elem, i) ELSE CpuPixel(m, i)]

\* get(timeout) finds nothing; what it found may be out of date when the flags are read.
FindEmpty(d) ==
  /\ at[d] = "wait" /\ rawQ = <<>>
  /\ at' = [at EXCEPT ![d] = "empty"]
  /\ UNCHANGED <<source, prod, rawQ, outQ, stop, hand, joiner, consumer, image, tallies, overtaken>>

\* Mutation: decoders may exit once END is received, before the last chunk is put.
MayExit_Early == ending \/ stop

MayExit == producer = "done" \/ stop

Check(d) ==
  /\ at[d] = "empty"
  /\ at' = [at EXCEPT ![d] = IF MayExit THEN "exited" ELSE "wait"]
  /\ UNCHANGED <<source, prod, rawQ, outQ, stop, hand, joiner, consumer, image, tallies, overtaken>>

Emit(d) ==
  /\ at[d] = "emit" /\ Len(outQ) < QueueMax
  /\ outQ' = Append(outQ, Batch(hand[d]))
  /\ hand' = [hand EXCEPT ![d] = <<>>]
  /\ at' = [at EXCEPT ![d] = "count"]
  /\ tally' = [tally EXCEPT ![d] = Len(hand[d])]
  /\ UNCHANGED <<source, prod, rawQ, stop, joiner, consumer, image, errors, stats, overtaken>>

\* mark_decoded and sample_queue follow the put: the caller may be done with the batch by then.
Count(d) ==
  /\ at[d] = "count"
  /\ at' = [at EXCEPT ![d] = "wait"]
  /\ tally' = [tally EXCEPT ![d] = 0]
  /\ stats' = [stats EXCEPT !.decoded = @ + tally[d],
                            !.deepest = IF Len(outQ) > @ THEN Len(outQ) ELSE @]
  /\ UNCHANGED <<source, prod, rawQ, outQ, stop, hand, joiner, consumer, image, errors, overtaken>>

-----------------------------------------------------------------------------
\* Mutation: the joiner waits for the producer alone.
Joined_Producer == producer = "done"

\* _join_and_signal
Joined == producer = "done" /\ \A d \in pool : Ended(d)

Join ==
  /\ joiner = "join" /\ Joined /\ Len(outQ) < QueueMax
  /\ outQ' = Append(outQ, EndMark)
  /\ joiner' = "done"
  /\ UNCHANGED <<source, prod, rawQ, stop, at, hand, consumer, image, tallies, overtaken>>

\* load_mask: a file that is absent stands for ones.
LoadMask(file) == IF file.present THEN file.values ELSE [i \in 1 .. Area(Detector) |-> 1]

WeightsOf(files) == WeightMap(LoadMask(files.flatfield), LoadMask(files.deadPx))
Weights == WeightsOf(masks)

\* VBFAccumulator.process: each id of the frames written gets its sum.
Scattered(images, written) ==
  [i \in DOMAIN image |->
     IF \E k \in written : stream[images[k]].id = i
     THEN Reduced(Frame(images, CHOOSE k \in written : stream[images[k]].id = i), Weights)
     ELSE image[i]]

\* The GPU decoder gives every frame the configured shape.
Shaped(images) == gpu \/ \A k \in DOMAIN images : stream[images[k]].shape = Detector
Within(images) == {k \in DOMAIN images : stream[images[k]].id < Positions}

\* run_pipeline_batched.  A shape raises before anything is written, an id outside the image
\* while the others are.
Consume ==
  /\ consumer = "run" /\ outQ # <<>>
  /\ outQ' = Tail(outQ)
  /\ LET b      == Head(outQ)
         images == b.images
         takes  == Shaped(images) /\ Within(images) = DOMAIN images
     IN \/ /\ b.end
           /\ consumer' = "done"
           /\ UNCHANGED <<image, stats>>
        \/ /\ ~b.end /\ takes
           /\ image' = Scattered(images, DOMAIN images)
           /\ stats' = [stats EXCEPT !.batched = @ + Len(images), !.batches = @ + 1]
           /\ UNCHANGED consumer
        \/ /\ ~b.end /\ ~takes
           /\ consumer' = "failed"
           /\ \E written \in SUBSET Within(images) :
                /\ Shaped(images) \/ written = {}
                /\ image' = Scattered(images, written)
           /\ UNCHANGED stats
  /\ UNCHANGED <<source, prod, rawQ, stop, at, hand, joiner, errors, tally, overtaken>>

-----------------------------------------------------------------------------
Decode(d) == Build(d) \/ Take(d) \/ FindEmpty(d) \/ Check(d) \/ Emit(d) \/ Count(d)

Next ==
  \/ Gate \/ Receive \/ PutChunk \/ GiveUp \/ Leave \/ Join \/ Consume
  \/ \E d \in pool : Decode(d)

Spec == Init /\ [][Next]_vars

\* Running threads go on; messages may fail to come.
Fairness ==
  /\ WF_vars(PutChunk) /\ WF_vars(GiveUp) /\ WF_vars(Leave) /\ WF_vars(Join) /\ WF_vars(Consume)
  /\ \A d \in Decoders : WF_vars(d \in pool /\ (Build(d) \/ Take(d) \/ Check(d) \/ Emit(d) \/ Count(d)))
  /\ \A d \in Decoders : WF_vars(d \in pool /\ FindEmpty(d))

FairSpec == Spec /\ Fairness

-----------------------------------------------------------------------------
TypeOK ==
  /\ pos \in 0 .. Len(stream)
  /\ producer \in {"gate", "receive", "put", "leave", "done"}
  /\ Len(rawQ) <= QueueMax /\ Len(outQ) <= QueueMax /\ Len(chunk) <= ChunkSize
  /\ \A d \in pool : at[d] \in {"build", "wait", "empty", "emit", "count", "exited", "died"}

\* END is behind every batch: once it is queued no decoder runs, none holds a batch, and the
\* caller that meets it leaves nothing behind (pipeline.py:48, "exactly once, after every
\* batch").
EndIsLast ==
  /\ joiner = "done" => \A d \in pool : Ended(d) /\ hand[d] = <<>>
  /\ \A i \in 1 .. Len(outQ) : outQ[i].end <=> (joiner = "done" /\ i = Len(outQ))
  /\ consumer = "done" => outQ = <<>> /\ joiner = "done"
=============================================================================
