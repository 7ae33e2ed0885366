------------------------------ MODULE BatchFlow ------------------------------
(***************************************************************************)
(* The operator graph of app.py: batches flow from the receiver (over the   *)
(* GPU decompressor when the transport is ZMQ) to the scan operator and the *)
(* consumers of the decoded batches.  Edges hold at most QueueDepth         *)
(* messages and refuse more; publication windows (BatchWindow) keep the     *)
(* publishers from finding one full.  In finite mode the consumers' ENDs    *)
(* end the run through the completion latch.                                *)
(*                                                                         *)
(* Every edge delivers in order, so it is modelled by two counters: an      *)
(* edge holds the batches behind those its reader has consumed.             *)
(***************************************************************************)
EXTENDS Integers, Sequences, FiniteSets

CONSTANTS
  QueueDepth,  \* config.queue_depth, of every edge
  Config,      \* the optional consumers that are enabled
  Setups,      \* the runs: the transport, the execution mode, whether a stop may be
               \* requested, and what is acquired
  LastBatch    \* length of the longest plan

\* The batches of a run: sequences of "ready", "start", "data", "end".
Plans == UNION {s.plans : s \in Setups}

ASSUME FlowAssumption ==
  /\ QueueDepth \in Nat /\ QueueDepth >= 2
  /\ Config \subseteq {"writer", "encoder", "parallax"}
  /\ \A s \in Setups : s.zmq \in BOOLEAN /\ s.finite \in BOOLEAN /\ s.mayStop \in BOOLEAN
  /\ LastBatch \in Nat /\ \A p \in Plans : Len(p) \in 0 .. LastBatch

VARIABLES
  \* the configuration of the run, and its batches
  setup, plan,
  \* the compressed edge and its window, and DecompressGpuOp's callback
  compressed, inReleased, inTaken, decode,
  \* the decoded edges and their window
  published, released, taken,
  \* positions emitted by ScanTensorOp, and the callbacks of scan and consumers
  scanned, pc,
  \* completion: the latch, the ENDs each consumer has processed
  latch, ends, completed,
  stop, failed

inVars  == <<compressed, inReleased, inTaken, decode>>
outVars == <<published, released, taken>>
opVars  == <<scanned, pc>>
endVars == <<latch, ends, completed>>
vars == <<setup, plan, inVars, outVars, opVars, endVars, stop, failed>>

\* Whether ZmqRxOp and DecompressGpuOp feed the graph, or RdmaRxOp.
Zmq == setup.zmq

\* execute.mode = finite
Finite == setup.finite

-----------------------------------------------------------------------------
(* Consumers of the decoded window, and the numbers app.py gives them.      *)

Consumers == {"detector"} \cup Config
Ops == Consumers \cup {"scan"}

One(op) == IF op \in Config THEN 1 ELSE 0

\* Mutation: the encoder takes no notice of the writer.
ConsumerNumber_Shared(op) ==
  CASE op = "writer"   -> 1
    [] op = "encoder"  -> 1
    [] op = "parallax" -> 1 + One("writer") + One("encoder")
    [] OTHER           -> 0

ConsumerNumber(op) ==
  CASE op = "writer"   -> 1
    [] op = "encoder"  -> 1 + One("writer")
    [] op = "parallax" -> 1 + One("writer") + One("encoder")
    [] OTHER           -> 0

Numbers == 0 .. (One("writer") + One("encoder") + One("parallax"))
Holder(n) == CHOOSE op \in Consumers : ConsumerNumber(op) = n

\* Mutation: no spare slot.
Capacity_Whole == QueueDepth

\* "One spare queue slot covers a released input until its callback commits."
Capacity == QueueDepth - 1

Compressed == INSTANCE BatchWindow WITH
  Capacity <- Capacity, Consumers <- {0}, Last <- LastBatch,
  published <- compressed, released <- inReleased, taken <- inTaken

Decoded == INSTANCE BatchWindow WITH
  Capacity <- Capacity, Consumers <- Numbers, Last <- LastBatch,
  taken <- [n \in Numbers |-> taken[Holder(n)]]

-----------------------------------------------------------------------------
\* The run is over, or asked to be: the runtime starts no callback any more, and
\* those that wait return.
Halted == stop \/ completed \/ failed

More(n) == n < Len(plan)

CompressedRoom(next) == Compressed!MayPublish(next)

\* ZmqRxOp publishes its next batch; an edge without room fails the run.
Receive ==
  /\ Zmq /\ ~Halted
  /\ More(compressed)
  /\ CompressedRoom(compressed + 1)
  /\ IF compressed - inTaken[0] < QueueDepth
     THEN compressed' = compressed + 1 /\ UNCHANGED failed
     ELSE failed' = TRUE /\ UNCHANGED compressed
  /\ UNCHANGED <<setup, plan, inReleased, inTaken, decode, outVars, opVars, endVars, stop>>

\* emit_tensor on the decoded output reaches every edge.
Publish(next) ==
  IF \A op \in Ops : published - taken[op] < QueueDepth
  THEN published' = next /\ UNCHANGED failed
  ELSE failed' = TRUE /\ UNCHANGED published

\* Mutation: the publisher does not ask the window.
DecodedRoom_Unasked(next) == TRUE

DecodedRoom(next) == Decoded!MayPublish(next)

\* RdmaRxOp publishes directly (module RdmaRing).
ReceiveDecoded ==
  /\ ~Zmq /\ ~Halted
  /\ More(published)
  /\ DecodedRoom(published + 1)
  /\ Publish(published + 1)
  /\ UNCHANGED <<setup, plan, inVars, released, taken, opVars, endVars, stop>>

-----------------------------------------------------------------------------
(* DecompressGpuOp::compute: wait for the decoded window, publish under the  *)
(* same batch id, release the input.                                         *)

TakeCompressed ==
  /\ decode = "idle" /\ ~Halted
  /\ inTaken[0] < compressed
  /\ decode' = "wait"
  /\ UNCHANGED <<setup, plan, compressed, inReleased, inTaken, outVars, opVars, endVars, stop, failed>>

Decode ==
  /\ decode = "wait" /\ ~Halted
  /\ DecodedRoom(inTaken[0] + 1)
  /\ Publish(inTaken[0] + 1)
  /\ decode' = "release"
  /\ UNCHANGED <<setup, plan, compressed, inReleased, inTaken, released, taken, opVars, endVars, stop>>

\* Mutation: the wait for the window does not look for a stop.
AbandonDecode_Never == FALSE /\ UNCHANGED vars

AbandonDecode ==
  /\ decode = "wait" /\ Halted
  /\ decode' = "abandoned"
  /\ UNCHANGED <<setup, plan, compressed, inReleased, inTaken, outVars, opVars, endVars, stop, failed>>

ReleaseCompressed ==
  /\ decode = "release"
  /\ inReleased' = Compressed!Released(0, inTaken[0] + 1)
  /\ decode' = "commit"
  /\ UNCHANGED <<setup, plan, compressed, inTaken, outVars, opVars, endVars, stop, failed>>

CommitCompressed ==
  /\ decode = "commit"
  /\ inTaken' = [inTaken EXCEPT ![0] = @ + 1]
  /\ decode' = "idle"
  /\ UNCHANGED <<setup, plan, compressed, inReleased, outVars, opVars, endVars, stop, failed>>

-----------------------------------------------------------------------------
(* The callbacks on decoded batches.  A callback is "idle", at "work" on its *)
(* input, about to "release" it or to "arrive" at the latch, or returning    *)
(* ("commit").  The detector joins an image batch with its positions.        *)

Ending(op) == plan[taken[op] + 1] = "end"

Activate(op) ==
  /\ pc[op] = "idle" /\ ~Halted
  /\ taken[op] < published
  /\ op = "detector" => taken[op] < scanned
  /\ pc' = [pc EXCEPT ![op] = "work"]
  /\ UNCHANGED <<setup, plan, inVars, outVars, scanned, endVars, stop, failed>>

PositionsRoom == scanned - taken["detector"] < QueueDepth

\* ScanTensorOp retries an emit that is refused by a full positions edge.
EmitPositions ==
  /\ pc["scan"] = "work"
  /\ PositionsRoom
  /\ scanned' = scanned + 1
  /\ pc' = [pc EXCEPT !["scan"] = "commit"]
  /\ UNCHANGED <<setup, plan, inVars, outVars, endVars, stop, failed>>

\* Mutation: off by one.
Arrive_Early ==
  /\ latch' = latch - 1
  /\ completed' = (completed \/ latch = 2)

\* CompletionLatch::arrive, or no latch when the detector is the only consumer.
Arrive ==
  /\ latch' = latch - 1
  /\ completed' = (completed \/ latch = 1)

Arrives(op) == Ending(op) /\ Finite

\* Detector, encoder and parallax process the batch; on END they arrive first.
Process(op) ==
  /\ op # "writer" /\ pc[op] = "work"
  /\ ends' = IF Ending(op) THEN [ends EXCEPT ![op] = @ + 1] ELSE ends
  /\ IF Arrives(op) THEN Arrive ELSE UNCHANGED <<latch, completed>>
  /\ pc' = [pc EXCEPT ![op] = "release"]
  /\ UNCHANGED <<setup, plan, inVars, outVars, scanned, stop, failed>>

\* H5WriterOp stages the batch, holds END until the files are closed...
Store ==
  /\ pc["writer"] = "work"
  /\ ends' = IF Ending("writer") THEN [ends EXCEPT !["writer"] = @ + 1] ELSE ends
  /\ pc' = [pc EXCEPT !["writer"] = "release"]
  /\ UNCHANGED <<setup, plan, inVars, outVars, scanned, latch, completed, stop, failed>>

NextStage(op) == IF op = "writer" /\ Arrives(op) THEN "arrive" ELSE "commit"

ReleaseBatch(op) ==
  /\ pc[op] = "release"
  /\ released' = Decoded!Released(ConsumerNumber(op), taken[op] + 1)
  /\ pc' = [pc EXCEPT ![op] = NextStage(op)]
  /\ UNCHANGED <<setup, plan, inVars, published, taken, scanned, endVars, stop, failed>>

\* ...and arrives after the release.
WriterArrives ==
  /\ pc["writer"] = "arrive"
  /\ Arrive
  /\ pc' = [pc EXCEPT !["writer"] = "commit"]
  /\ UNCHANGED <<setup, plan, inVars, outVars, scanned, ends, stop, failed>>

Return(op) ==
  /\ pc[op] = "commit"
  /\ taken' = [taken EXCEPT ![op] = @ + 1]
  /\ pc' = [pc EXCEPT ![op] = "idle"]
  /\ UNCHANGED <<setup, plan, inVars, published, released, scanned, endVars, stop, failed>>

\* Scan and writer return from their waits without a release.
Abandon(op) ==
  /\ op \in {"scan", "writer"} /\ pc[op] = "work" /\ Halted
  /\ pc' = [pc EXCEPT ![op] = "abandoned"]
  /\ UNCHANGED <<setup, plan, inVars, outVars, scanned, endVars, stop, failed>>

RequestStop ==
  /\ setup.mayStop /\ ~stop
  /\ stop' = TRUE
  /\ UNCHANGED <<setup, plan, inVars, outVars, opVars, endVars, failed>>

-----------------------------------------------------------------------------
Init ==
  /\ setup \in Setups /\ plan \in setup.plans
  /\ compressed = 0 /\ inReleased = [n \in {0} |-> 0] /\ inTaken = [n \in {0} |-> 0]
  /\ decode = "idle"
  /\ published = 0 /\ released = [n \in Numbers |-> 0] /\ taken = [op \in Ops |-> 0]
  /\ scanned = 0 /\ pc = [op \in Ops |-> "idle"]
  /\ latch = 1 + One("writer") + One("encoder") + One("parallax")
  /\ ends = [op \in Consumers |-> 0] /\ completed = FALSE
  /\ stop = FALSE /\ failed = FALSE

Input  == Receive \/ ReceiveDecoded
Decompress == \/ TakeCompressed \/ Decode \/ AbandonDecode
              \/ ReleaseCompressed \/ CommitCompressed
Scan   == Activate("scan") \/ EmitPositions \/ Return("scan") \/ Abandon("scan")
Consume(op) == \/ Activate(op) \/ Process(op) \/ ReleaseBatch(op) \/ Return(op)
               \/ op = "writer" /\ (Store \/ WriterArrives \/ Abandon(op))

Next == Input \/ Decompress \/ Scan \/ (\E op \in Consumers : Consume(op)) \/ RequestStop

Spec == Init /\ [][Next]_vars

\* Each operator has a partition, and so a thread, of its own.
FairSpec ==
  /\ Spec /\ WF_vars(Input) /\ WF_vars(Decompress) /\ WF_vars(Scan)
  /\ \A op \in Consumers : WF_vars(Consume(op))

-----------------------------------------------------------------------------
Stages == {"idle", "work", "release", "arrive", "commit", "abandoned"}

TypeOK ==
  /\ setup \in Setups /\ plan \in setup.plans
  /\ compressed \in 0 .. LastBatch
  /\ inReleased \in [{0} -> 0 .. LastBatch] /\ inTaken \in [{0} -> 0 .. LastBatch]
  /\ decode \in {"idle", "wait", "release", "commit", "abandoned"}
  /\ published \in 0 .. LastBatch
  /\ released \in [Numbers -> 0 .. LastBatch] /\ taken \in [Ops -> 0 .. LastBatch]
  /\ scanned \in 0 .. LastBatch /\ pc \in [Ops -> Stages]
  /\ latch \in Int /\ ends \in [Consumers -> 0 .. LastBatch]
  /\ completed \in BOOLEAN /\ stop \in BOOLEAN /\ failed \in BOOLEAN

\* No emit meets a full edge: the windows bound the edges of their consumers, and
\* the edge to ScanTensorOp, which is no consumer of the window, through the
\* detector's join.
NoEdgeOverflows == ~failed

\* A finite run ends by itself only after every consumer has processed an END
\* (docs/holoscan_basic_ingest.md: "In finite mode the later of the detector and
\* writer requests completion").
CompletionAfterEveryEnd == completed => \A op \in Consumers : ends[op] > 0

\* An acquisition of one series: where it fails, as in CompletionLatch's count of ENDs, a
\* second END of one consumer counts for another.
EndsOnce == \A s \in Setups : s.finite => \A p \in s.plans : \A i, j \in 1 .. Len(p) :
              p[i] = "end" /\ p[j] = "end" => i = j

\* The compressed and the decoded batches flow as BatchWindow prescribes.
CompressedFlows == Compressed!Spec
DecodedFlows    == Decoded!Spec

\* A finite run completes, a service run processes all batches, unless stopped.
Processed == \A op \in Ops : taken[op] = Len(plan)
Drains == <>(stop \/ (IF Finite THEN completed ELSE Processed))

\* After a stop every callback returns: none is left waiting for a window, an
\* edge or a file.
Quiet == decode \in {"idle", "abandoned"} /\ \A op \in Ops : pc[op] \in {"idle", "abandoned"}
StopEnds == stop ~> Quiet
=============================================================================
