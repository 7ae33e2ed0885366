--------------------------- MODULE BatchFlowProofs ---------------------------
(***************************************************************************)
(* No edge of the operator graph overflows, whatever the queue depth, the   *)
(* consumers that are enabled, the transport and the batches of the run;    *)
(* and the compressed and the decoded batches flow as BatchWindow says.     *)
(* Then the window by itself.  Last the session that the graph runs in: its *)
(* operators, and a sender that may write, never find the ring gone         *)
(* (Session).                                                               *)
(***************************************************************************)
EXTENDS BatchFlow, Session, SequenceTheorems, TLAPS

-----------------------------------------------------------------------------
(* The inductive invariant: what each callback's stage says of the counters. *)

\* DecompressGpuOp holds an input unless it is idle, and has published it after
\* the wait, and released it before it commits.
DecodeInv ==
  /\ inReleased[0] = inTaken[0] + (IF decode = "commit" THEN 1 ELSE 0)
  /\ inTaken[0] <= compressed /\ compressed <= Len(plan)
  /\ decode # "idle" => inTaken[0] < compressed

\* Its outputs are its inputs, one for one; without it nothing is compressed.
TransportInv ==
  IF Zmq
  THEN published = inTaken[0] + (IF decode \in {"release", "commit"} THEN 1 ELSE 0)
  ELSE decode = "idle" /\ compressed = 0

\* A callback holds a batch that is published unless it is idle.
HoldInv ==
  /\ published <= Len(plan)
  /\ \A op \in Ops : /\ taken[op] <= published
                     /\ pc[op] # "idle" => taken[op] < published

\* A consumer releases the batch it holds, before it returns.
ReleaseInv ==
  \A op \in Consumers :
    released[ConsumerNumber(op)] =
      taken[op] + (IF pc[op] \in {"arrive", "commit"} THEN 1 ELSE 0)

\* The detector works only on positions that are emitted, which are those of the
\* batches that ScanTensorOp has returned from or returns from.
JoinInv ==
  /\ scanned = taken["scan"] + (IF pc["scan"] = "commit" THEN 1 ELSE 0)
  /\ taken["detector"] <= scanned
  /\ pc["detector"] # "idle" => taken["detector"] < scanned

\* A consumer processes at most the ENDs it has been given.
EndsInv ==
  \A op \in Consumers :
    ends[op] <= taken[op] + (IF pc[op] \in {"release", "arrive", "commit"} THEN 1 ELSE 0)

FlowInv ==
  /\ TypeOK /\ DecodeInv /\ TransportInv /\ HoldInv /\ ReleaseInv /\ JoinInv /\ EndsInv
  /\ NoEdgeOverflows

-----------------------------------------------------------------------------
(* The numbers of the consumers, and what a publisher knows of them.         *)

LEMMA Naming ==
  /\ "detector" \in Consumers /\ "detector" \in Ops /\ "scan" \in Ops
  /\ "scan" \notin Consumers /\ Consumers \subseteq Ops
  /\ "writer" \in Consumers <=> "writer" \in Config
  /\ Ops = Consumers \cup {"scan"}
  BY FlowAssumption DEF Consumers, Ops

LEMMA Numbering ==
  /\ \A op \in Consumers : ConsumerNumber(op) \in Numbers
  /\ \A op, other \in Consumers :
       ConsumerNumber(op) = ConsumerNumber(other) => op = other
  /\ ConsumerNumber("detector") = 0
  /\ \A n \in Numbers : \E op \in Consumers : ConsumerNumber(op) = n
<1>1. \A op \in Consumers : op \in {"detector", "writer", "encoder", "parallax"}
  BY FlowAssumption DEF Consumers
<1>2. \A op : One(op) \in {0, 1} /\ (One(op) = 1 <=> op \in Config)
  BY DEF One
<1>3. \A op \in Consumers : op # "detector" => One(op) = 1
  BY <1>2 DEF Consumers
<1>4. /\ ConsumerNumber("detector") = 0 /\ ConsumerNumber("writer") = 1
      /\ ConsumerNumber("encoder") = 1 + One("writer")
      /\ ConsumerNumber("parallax") = 1 + One("writer") + One("encoder")
  BY DEF ConsumerNumber
<1>5. \A op \in Consumers : ConsumerNumber(op) \in Numbers
  BY <1>1, <1>2, <1>3, <1>4 DEF Numbers
<1>6. \A op, other \in Consumers :
        ConsumerNumber(op) = ConsumerNumber(other) => op = other
  BY <1>1, <1>2, <1>3, <1>4
<1>7. ASSUME NEW n \in Numbers PROVE \E op \in Consumers : ConsumerNumber(op) = n
  <2>1. \A op : One(op) = 1 => op \in Consumers
    BY <1>2 DEF Consumers
  <2>2. "detector" \in Consumers
    BY Naming
  <2>3. n \in 0 .. (One("writer") + One("encoder") + One("parallax"))
    BY DEF Numbers
  <2>4. CASE n = 0
    BY <2>2, <2>4, <1>4
  <2>5. CASE n # 0 /\ One("writer") = 1 /\ n = 1
    BY <2>1, <2>5, <1>4
  <2>6. CASE n # 0 /\ One("encoder") = 1 /\ n = 1 + One("writer")
    BY <2>1, <2>6, <1>4
  <2>7. CASE n # 0 /\ One("parallax") = 1 /\ n = 1 + One("writer") + One("encoder")
    BY <2>1, <2>7, <1>4
  <2>8. \/ n = 0
        \/ One("writer") = 1 /\ n = 1
        \/ One("encoder") = 1 /\ n = 1 + One("writer")
        \/ One("parallax") = 1 /\ n = 1 + One("writer") + One("encoder")
    <3>1. /\ One("writer") \in {0, 1} /\ One("encoder") \in {0, 1} /\ One("parallax") \in {0, 1}
          /\ n \in Int /\ 0 <= n /\ n <= One("writer") + One("encoder") + One("parallax")
      BY <2>3, <1>2
    <3> QED BY <3>1
  <2> QED BY <2>4, <2>5, <2>6, <2>7, <2>8
<1> QED BY <1>4, <1>5, <1>6, <1>7

\* What the loads of admits have seen is a lower bound of the releases.
LEMMA DecodedAhead ==
  ASSUME TypeOK, DecodedRoom(published + 1)
  PROVE  \A n \in Numbers : published + 1 - released[n] <= QueueDepth - 1
<1>1. PICK s \in Decoded!Seen : Decoded!Admits(published + 1, s)
  BY DEF DecodedRoom, Decoded!MayPublish
<1>2. /\ published \in Int /\ LastBatch \in Int /\ QueueDepth \in Int
      /\ released \in [Numbers -> 0 .. LastBatch]
  BY FlowAssumption DEF TypeOK, Plans
<1>3. \A n \in Numbers : /\ n \in DOMAIN s /\ s[n] \in Int /\ s[n] <= released[n]
                         /\ released[n] \in Int
  BY <1>1, <1>2 DEF Decoded!Seen
<1>4. \A n \in Numbers : published + 1 - s[n] <= QueueDepth - 1
  BY <1>1, <1>2, <1>3 DEF Decoded!Admits, Capacity
<1> QED BY <1>2, <1>3, <1>4

LEMMA CompressedAhead ==
  ASSUME TypeOK, CompressedRoom(compressed + 1)
  PROVE  compressed + 1 - inReleased[0] <= QueueDepth - 1
<1>1. PICK s \in Compressed!Seen : Compressed!Admits(compressed + 1, s)
  BY DEF CompressedRoom, Compressed!MayPublish
<1>2. /\ compressed \in Int /\ LastBatch \in Int /\ QueueDepth \in Int
      /\ inReleased \in [{0} -> 0 .. LastBatch]
  BY FlowAssumption DEF TypeOK, Plans
<1>3. 0 \in DOMAIN s /\ s[0] \in Int /\ s[0] <= inReleased[0] /\ inReleased[0] \in Int
  BY <1>1, <1>2 DEF Compressed!Seen
<1>4. compressed + 1 - s[0] <= QueueDepth - 1
  BY <1>1, <1>2, <1>3 DEF Compressed!Admits, Capacity
<1> QED BY <1>2, <1>3, <1>4

\* The integers that the steps reckon with.
LEMMA Counters ==
  ASSUME TypeOK
  PROVE  /\ compressed \in Int /\ inReleased[0] \in Int /\ inTaken[0] \in Int
         /\ published \in Int /\ scanned \in Int /\ Len(plan) \in Int
         /\ Len(plan) \in 0 .. LastBatch /\ LastBatch \in Int /\ QueueDepth \in Int
         /\ \A op \in Ops : taken[op] \in Int
         /\ \A op \in Consumers : ends[op] \in Int /\ released[ConsumerNumber(op)] \in Int
  BY FlowAssumption, Numbering DEF TypeOK, Plans

\* A batch that the decoded window admits finds room on every edge: on those of
\* its consumers for they release the batch they hold at the most, on the edge to
\* ScanTensorOp for the detector releases nothing that has not been scanned.
LEMMA RoomOnEveryEdge ==
  ASSUME FlowInv, DecodedRoom(published + 1)
  PROVE  \A op \in Ops : published - taken[op] < QueueDepth
<1>1. TypeOK /\ ReleaseInv /\ JoinInv
  BY DEF FlowInv
<1>2. \A n \in Numbers : published + 1 - released[n] <= QueueDepth - 1
  BY <1>1, DecodedAhead
<1>3. ASSUME NEW op \in Consumers PROVE published - taken[op] < QueueDepth
  <2>1. released[ConsumerNumber(op)] <= taken[op] + 1
    BY <1>1, Counters, Naming DEF ReleaseInv
  <2>2. published + 1 - released[ConsumerNumber(op)] <= QueueDepth - 1
    BY <1>2, Numbering
  <2> QED BY <1>1, <2>1, <2>2, Counters, Naming
<1>4. published - taken["scan"] < QueueDepth
  <2>1. released[0] <= scanned
    <3>1. pc["detector"] \in {"arrive", "commit"} => taken["detector"] + 1 <= scanned
      BY <1>1, Counters, Naming DEF JoinInv
    <3>2. released[0] = taken["detector"]
                          + (IF pc["detector"] \in {"arrive", "commit"} THEN 1 ELSE 0)
      BY <1>1, Naming, Numbering DEF ReleaseInv
    <3> QED BY <1>1, <3>1, <3>2, Counters, Naming DEF JoinInv
  <2>2. scanned <= taken["scan"] + 1
    BY <1>1, Counters, Naming DEF JoinInv
  <2>3. published + 1 - released[0] <= QueueDepth - 1 /\ released[0] \in Int
    BY <1>1, <1>2, Numbering, Naming, Counters
  <2> QED BY <1>1, <2>1, <2>2, <2>3, Counters, Naming
<1> QED BY <1>3, <1>4, Naming

-----------------------------------------------------------------------------
(* Every step preserves the invariant, operator by operator.                 *)

USE DEF inVars, outVars, opVars, endVars

\* The decoded edges, the callbacks on them and completion are left alone.
LEMMA DecodedFrame ==
  ASSUME FlowInv, UNCHANGED <<setup, plan, outVars, opVars, endVars, failed>>
  PROVE  HoldInv' /\ ReleaseInv' /\ JoinInv' /\ EndsInv' /\ NoEdgeOverflows'
  BY DEF FlowInv, HoldInv, ReleaseInv, JoinInv, EndsInv, NoEdgeOverflows

\* The compressed edge and the decompressor are left alone.
LEMMA CompressedFrame ==
  ASSUME FlowInv, UNCHANGED <<setup, plan, inVars, published>>
  PROVE  DecodeInv' /\ TransportInv'
  BY DEF Zmq, FlowInv, DecodeInv, TransportInv

LEMMA ReceiveStep ==
  ASSUME FlowInv, Receive
  PROVE  FlowInv'
<1>1. TypeOK /\ DecodeInv /\ TransportInv /\ NoEdgeOverflows
  BY DEF FlowInv
<1>2. compressed - inTaken[0] < QueueDepth
  <2>1. compressed + 1 - inReleased[0] <= QueueDepth - 1
    BY <1>1, CompressedAhead DEF Receive
  <2>2. inReleased[0] <= inTaken[0] + 1
    BY <1>1, Counters DEF DecodeInv
  <2> QED BY <1>1, <2>1, <2>2, Counters
<1>3. /\ Zmq /\ compressed' = compressed + 1 /\ compressed < Len(plan)
      /\ UNCHANGED <<setup, plan, inReleased, inTaken, decode, outVars, opVars, endVars, stop, failed>>
  BY <1>2 DEF Receive, More
<1>4. TypeOK'
  <2>1. compressed' \in 0 .. LastBatch
    BY <1>1, <1>3, Counters DEF TypeOK
  <2> QED BY <1>1, <1>3, <2>1 DEF TypeOK
<1>5. DecodeInv'
  BY <1>1, <1>3, Counters DEF DecodeInv
<1>6. TransportInv'
  BY <1>1, <1>3 DEF Zmq, TransportInv
<1> QED BY <1>3, <1>4, <1>5, <1>6, DecodedFrame DEF FlowInv

\* A batch more on the decoded edges disturbs no callback.
LEMMA PublishStep ==
  ASSUME FlowInv, DecodedRoom(published + 1), Publish(published + 1), published < Len(plan),
         UNCHANGED <<setup, plan, released, taken, opVars, endVars>>
  PROVE  /\ published' = published + 1 /\ published' \in 0 .. LastBatch /\ failed' = failed
         /\ HoldInv' /\ ReleaseInv' /\ JoinInv' /\ EndsInv' /\ NoEdgeOverflows'
<1>1. TypeOK /\ HoldInv /\ ReleaseInv /\ JoinInv /\ EndsInv /\ NoEdgeOverflows
  BY DEF FlowInv
<1>2. published' = published + 1 /\ failed' = failed
  BY RoomOnEveryEdge DEF Publish
<1>3. published' \in 0 .. LastBatch
  BY <1>1, <1>2, Counters DEF TypeOK
<1>4. HoldInv'
  BY <1>1, <1>2, Counters DEF HoldInv
<1>5. ReleaseInv' /\ JoinInv' /\ EndsInv' /\ NoEdgeOverflows'
  BY <1>1, <1>2 DEF ReleaseInv, JoinInv, EndsInv, NoEdgeOverflows
<1> QED BY <1>2, <1>3, <1>4, <1>5

LEMMA ReceiveDecodedStep ==
  ASSUME FlowInv, ReceiveDecoded
  PROVE  FlowInv'
<1>1. TypeOK /\ DecodeInv /\ TransportInv
  BY DEF FlowInv
<1>2. /\ ~Zmq /\ published < Len(plan) /\ DecodedRoom(published + 1) /\ Publish(published + 1)
      /\ UNCHANGED <<setup, plan, inVars, released, taken, opVars, endVars, stop>>
  BY DEF ReceiveDecoded, More
<1>3. /\ published' \in 0 .. LastBatch /\ failed' = failed
      /\ HoldInv' /\ ReleaseInv' /\ JoinInv' /\ EndsInv' /\ NoEdgeOverflows'
  BY <1>2, PublishStep
<1>4. TypeOK'
  BY <1>1, <1>2, <1>3 DEF TypeOK
<1>5. DecodeInv' /\ TransportInv'
  BY <1>1, <1>2 DEF Zmq, DecodeInv, TransportInv
<1> QED BY <1>3, <1>4, <1>5 DEF FlowInv

LEMMA DecodeStep ==
  ASSUME FlowInv, Decode
  PROVE  FlowInv'
<1>1. TypeOK /\ DecodeInv /\ TransportInv
  BY DEF FlowInv
<1>2. /\ decode = "wait" /\ decode' = "release"
      /\ DecodedRoom(inTaken[0] + 1) /\ Publish(inTaken[0] + 1)
      /\ UNCHANGED <<setup, plan, compressed, inReleased, inTaken, released, taken, opVars, endVars, stop>>
  BY DEF Decode
<1>3. Zmq /\ published = inTaken[0] /\ published < Len(plan)
  BY <1>1, <1>2, Counters DEF Zmq, DecodeInv, TransportInv
<1>4. /\ published' = published + 1 /\ published' \in 0 .. LastBatch /\ failed' = failed
      /\ HoldInv' /\ ReleaseInv' /\ JoinInv' /\ EndsInv' /\ NoEdgeOverflows'
  BY <1>2, <1>3, PublishStep
<1>5. TypeOK'
  BY <1>1, <1>2, <1>4 DEF TypeOK
<1>6. DecodeInv'
  BY <1>1, <1>2 DEF DecodeInv
<1>7. TransportInv'
  BY <1>2, <1>3, <1>4 DEF Zmq, TransportInv
<1> QED BY <1>4, <1>5, <1>6, <1>7 DEF FlowInv

\* The steps of DecompressGpuOp.
LEMMA DecompressStep ==
  ASSUME FlowInv, Decompress
  PROVE  FlowInv'
<1>1. TypeOK /\ DecodeInv /\ TransportInv
  BY DEF FlowInv
<1>2. CASE TakeCompressed
  <2>1. /\ decode = "idle" /\ decode' = "wait" /\ inTaken[0] < compressed
        /\ UNCHANGED <<setup, plan, compressed, inReleased, inTaken, outVars, opVars, endVars, stop, failed>>
    BY <1>2 DEF TakeCompressed
  <2>2. TypeOK'
    BY <1>1, <2>1 DEF TypeOK
  <2>3. DecodeInv'
    BY <1>1, <2>1 DEF DecodeInv
  <2>4. TransportInv'
    BY <1>1, <2>1, Counters DEF Zmq, TransportInv, DecodeInv, TypeOK
  <2> QED BY <2>1, <2>2, <2>3, <2>4, DecodedFrame DEF FlowInv
<1>3. CASE AbandonDecode
  <2>1. /\ decode = "wait" /\ decode' = "abandoned"
        /\ UNCHANGED <<setup, plan, compressed, inReleased, inTaken, outVars, opVars, endVars, stop, failed>>
    BY <1>3 DEF AbandonDecode
  <2>2. TypeOK'
    BY <1>1, <2>1 DEF TypeOK
  <2>3. DecodeInv' /\ TransportInv'
    BY <1>1, <2>1 DEF Zmq, DecodeInv, TransportInv
  <2> QED BY <2>1, <2>2, <2>3, DecodedFrame DEF FlowInv
<1>4. CASE ReleaseCompressed
  <2>1. /\ decode = "release" /\ decode' = "commit"
        /\ inReleased' = Compressed!Released(0, inTaken[0] + 1)
        /\ UNCHANGED <<setup, plan, compressed, inTaken, outVars, opVars, endVars, stop, failed>>
    BY <1>4 DEF ReleaseCompressed
  <2>2. inReleased[0] = inTaken[0] /\ inTaken[0] < compressed
    BY <1>1, <2>1, Counters DEF DecodeInv
  <2>3. inReleased' = [inReleased EXCEPT ![0] = inTaken[0] + 1]
    <3>1. inReleased' = [inReleased EXCEPT ![0] =
                           IF inReleased[0] < inTaken[0] + 1 THEN inTaken[0] + 1 ELSE inReleased[0]]
      BY <2>1 DEF Compressed!Released
    <3>2. inReleased[0] < inTaken[0] + 1
      BY <1>1, <2>2, Counters
    <3> QED BY <3>1, <3>2
  <2>4. inTaken[0] + 1 \in 0 .. LastBatch
    BY <1>1, <2>2, Counters DEF TypeOK
  <2>5. TypeOK'
    BY <1>1, <2>1, <2>3, <2>4 DEF TypeOK
  <2>6. inReleased'[0] = inTaken[0] + 1
    BY <1>1, <2>3 DEF TypeOK
  <2>7. DecodeInv' /\ TransportInv'
    BY <1>1, <2>1, <2>2, <2>6 DEF Zmq, DecodeInv, TransportInv
  <2> QED BY <2>1, <2>5, <2>7, DecodedFrame DEF FlowInv
<1>5. CASE CommitCompressed
  <2>1. /\ decode = "commit" /\ decode' = "idle"
        /\ inTaken' = [inTaken EXCEPT ![0] = inTaken[0] + 1]
        /\ UNCHANGED <<setup, plan, compressed, inReleased, outVars, opVars, endVars, stop, failed>>
    BY <1>5 DEF CommitCompressed
  <2>2. inReleased[0] = inTaken[0] + 1 /\ inTaken[0] < compressed
    BY <1>1, <2>1, Counters DEF DecodeInv
  <2>3. inTaken[0] + 1 \in 0 .. LastBatch
    BY <1>1, <2>2, Counters DEF TypeOK
  <2>4. TypeOK'
    BY <1>1, <2>1, <2>3 DEF TypeOK
  <2>5. inTaken'[0] = inTaken[0] + 1
    BY <1>1, <2>1 DEF TypeOK
  <2>6. DecodeInv'
    BY <1>1, <2>1, <2>2, <2>5, Counters DEF DecodeInv
  <2>7. TransportInv'
    BY <1>1, <2>1, <2>5, Counters DEF Zmq, TransportInv
  <2> QED BY <2>1, <2>4, <2>6, <2>7, DecodedFrame DEF FlowInv
<1> QED BY <1>2, <1>3, <1>4, <1>5, DecodeStep DEF Decompress

\* A callback that changes its stage, and nothing else of its counters, from one
\* stage that holds a batch to another, or to one that holds a batch published.
LEMMA StageStep ==
  ASSUME FlowInv, NEW op \in Ops, NEW stage \in Stages,
         pc' = [pc EXCEPT ![op] = stage], taken[op] < published,
         op = "detector" => taken[op] < scanned,
         UNCHANGED <<setup, plan, inVars, outVars, failed>>
  PROVE  DecodeInv' /\ TransportInv' /\ HoldInv' /\ NoEdgeOverflows' /\ pc' \in [Ops -> Stages]
<1>1. TypeOK /\ HoldInv /\ NoEdgeOverflows
  BY DEF FlowInv
<1>2. pc' \in [Ops -> Stages]
  BY <1>1 DEF TypeOK
<1>3. HoldInv'
  BY <1>1 DEF HoldInv, TypeOK
<1> QED BY <1>1, <1>2, <1>3, CompressedFrame DEF NoEdgeOverflows

LEMMA ActivateStep ==
  ASSUME FlowInv, NEW op \in Ops, Activate(op)
  PROVE  FlowInv'
<1>1. TypeOK /\ ReleaseInv /\ JoinInv /\ EndsInv
  BY DEF FlowInv
<1>2. /\ pc[op] = "idle" /\ pc' = [pc EXCEPT ![op] = "work"]
      /\ taken[op] < published /\ (op = "detector" => taken[op] < scanned)
      /\ UNCHANGED <<setup, plan, inVars, outVars, scanned, endVars, stop, failed>>
  BY DEF Activate
<1>3. /\ DecodeInv' /\ TransportInv' /\ HoldInv' /\ NoEdgeOverflows'
      /\ pc' \in [Ops -> Stages]
  BY <1>2, StageStep DEF Stages
<1>4. TypeOK'
  BY <1>1, <1>2, <1>3 DEF TypeOK
<1>5. ReleaseInv'
  BY <1>1, <1>2, Naming DEF ReleaseInv, TypeOK
<1>6. JoinInv'
  BY <1>1, <1>2, Naming DEF JoinInv, TypeOK
<1>7. EndsInv'
  BY <1>1, <1>2, Naming DEF EndsInv, TypeOK
<1> QED BY <1>3, <1>4, <1>5, <1>6, <1>7 DEF FlowInv

LEMMA EmitPositionsStep ==
  ASSUME FlowInv, EmitPositions
  PROVE  FlowInv'
<1>1. TypeOK /\ HoldInv /\ ReleaseInv /\ JoinInv /\ EndsInv
  BY DEF FlowInv
<1>2. /\ pc["scan"] = "work" /\ pc' = [pc EXCEPT !["scan"] = "commit"]
      /\ scanned' = scanned + 1
      /\ UNCHANGED <<setup, plan, inVars, outVars, endVars, stop, failed>>
  BY DEF EmitPositions
<1>3. scanned = taken["scan"] /\ taken["scan"] < published
  BY <1>1, <1>2, Counters, Naming DEF JoinInv, HoldInv
<1>4. /\ DecodeInv' /\ TransportInv' /\ HoldInv' /\ NoEdgeOverflows'
      /\ pc' \in [Ops -> Stages]
  BY <1>2, <1>3, StageStep, Naming DEF Stages
<1>5. TypeOK'
  <2>1. scanned' \in 0 .. LastBatch
    BY <1>1, <1>2, <1>3, Counters DEF TypeOK
  <2> QED BY <1>1, <1>2, <1>4, <2>1 DEF TypeOK
<1>6. ReleaseInv'
  BY <1>1, <1>2, Naming DEF ReleaseInv, TypeOK
<1>7. JoinInv'
  BY <1>1, <1>2, <1>3, Naming, Counters DEF JoinInv, TypeOK
<1>8. EndsInv'
  BY <1>1, <1>2, Naming DEF EndsInv, TypeOK
<1> QED BY <1>4, <1>5, <1>6, <1>7, <1>8 DEF FlowInv

LEMMA ArriveTypes ==
  ASSUME TypeOK, Arrive \/ UNCHANGED <<latch, completed>>
  PROVE  latch' \in Int /\ completed' \in BOOLEAN
<1>1. CASE Arrive
  <2>1. latch' \in Int
    BY <1>1 DEF Arrive, TypeOK
  <2>2. completed' \in BOOLEAN
    BY <1>1 DEF Arrive
  <2> QED BY <2>1, <2>2
<1>2. CASE UNCHANGED <<latch, completed>>
  BY <1>2 DEF TypeOK
<1> QED BY <1>1, <1>2

\* The batch is processed: Process and Store.
LEMMA WorkStep ==
  ASSUME FlowInv, NEW op \in Consumers, pc[op] = "work",
         ends' = IF Ending(op) THEN [ends EXCEPT ![op] = ends[op] + 1] ELSE ends,
         Arrive \/ UNCHANGED <<latch, completed>>,
         pc' = [pc EXCEPT ![op] = "release"],
         UNCHANGED <<setup, plan, inVars, outVars, scanned, stop, failed>>
  PROVE  FlowInv'
<1>1. TypeOK /\ HoldInv /\ ReleaseInv /\ JoinInv /\ EndsInv
  BY DEF FlowInv
<1>2. op \in Ops /\ taken[op] < published /\ (op = "detector" => taken[op] < scanned)
  BY <1>1, Naming DEF HoldInv, JoinInv
<1>3. /\ DecodeInv' /\ TransportInv' /\ HoldInv' /\ NoEdgeOverflows'
      /\ pc' \in [Ops -> Stages]
  BY <1>2, StageStep DEF Stages
<1>4. ends[op] <= taken[op] /\ ends[op] + 1 \in 0 .. LastBatch /\ taken[op] \in Int
  <2>1. ends[op] <= taken[op] /\ taken[op] < published
    BY <1>1, <1>2, Counters DEF EndsInv
  <2>2. published \in 0 .. LastBatch /\ ends[op] \in 0 .. LastBatch
    BY <1>1 DEF TypeOK
  <2> QED BY <1>1, <1>2, <2>1, <2>2, Counters
<1>5. TypeOK'
  <2>1. latch' \in Int /\ completed' \in BOOLEAN
    BY <1>1, ArriveTypes
  <2>2. ends' \in [Consumers -> 0 .. LastBatch]
    BY <1>1, <1>4 DEF TypeOK
  <2> QED BY <1>1, <1>3, <2>1, <2>2 DEF TypeOK
<1>6. ReleaseInv'
  BY <1>1, <1>2, Naming DEF ReleaseInv, TypeOK
<1>7. JoinInv'
  BY <1>1, <1>2, Naming DEF JoinInv, TypeOK
<1>8. EndsInv'
  <2> SUFFICES ASSUME NEW other \in Consumers
               PROVE  ends'[other] <= taken'[other]
                        + (IF pc'[other] \in {"release", "arrive", "commit"} THEN 1 ELSE 0)
    BY DEF EndsInv
  <2>1. other \in Ops /\ taken[other] \in Int /\ ends[other] \in Int
    BY <1>1, Naming, Counters
  <2>2. CASE other = op
    BY <1>1, <1>2, <1>4, <2>1, <2>2 DEF TypeOK
  <2>3. CASE other # op
    BY <1>1, <1>2, <2>1, <2>3 DEF TypeOK, EndsInv
  <2> QED BY <2>2, <2>3
<1> QED BY <1>3, <1>5, <1>6, <1>7, <1>8 DEF FlowInv

LEMMA ProcessStep ==
  ASSUME FlowInv, NEW op \in Consumers, Process(op)
  PROVE  FlowInv'
<1>1. Arrive \/ UNCHANGED <<latch, completed>>
  BY DEF Process
<1> QED BY <1>1, WorkStep DEF Process

LEMMA StoreStep ==
  ASSUME FlowInv, "writer" \in Consumers, Store
  PROVE  FlowInv'
<1>1. UNCHANGED <<latch, completed>>
  BY DEF Store
<1> QED BY <1>1, WorkStep DEF Store

LEMMA ReleaseBatchStep ==
  ASSUME FlowInv, NEW op \in Consumers, ReleaseBatch(op)
  PROVE  FlowInv'
<1>1. TypeOK /\ HoldInv /\ ReleaseInv /\ JoinInv /\ EndsInv /\ DecodeInv /\ TransportInv
      /\ NoEdgeOverflows
  BY DEF FlowInv
<1>2. /\ pc[op] = "release" /\ pc' = [pc EXCEPT ![op] = NextStage(op)]
      /\ released' = Decoded!Released(ConsumerNumber(op), taken[op] + 1)
      /\ NextStage(op) \in {"arrive", "commit"}
      /\ UNCHANGED <<setup, plan, inVars, published, taken, scanned, endVars, stop, failed>>
  BY DEF ReleaseBatch, NextStage
<1> DEFINE number == ConsumerNumber(op)
<1>3. /\ op \in Ops /\ taken[op] < published /\ taken[op] \in Int /\ published \in Int
      /\ number \in Numbers /\ released[number] = taken[op]
  BY <1>1, <1>2, Naming, Numbering, Counters DEF HoldInv, ReleaseInv
<1>4. released' = [released EXCEPT ![number] = taken[op] + 1]
  <2>1. released' = [released EXCEPT ![number] =
                       IF released[number] < taken[op] + 1 THEN taken[op] + 1 ELSE released[number]]
    BY <1>2 DEF Decoded!Released
  <2>2. released[number] < taken[op] + 1
    BY <1>3
  <2> QED BY <2>1, <2>2
<1>5. pc' \in [Ops -> Stages]
  BY <1>1, <1>2 DEF TypeOK, Stages
<1>6. TypeOK'
  <2>1. taken[op] + 1 \in 0 .. LastBatch
    BY <1>1, <1>3, Naming, Counters DEF TypeOK
  <2>2. released' \in [Numbers -> 0 .. LastBatch]
    BY <1>1, <1>3, <1>4, <2>1 DEF TypeOK
  <2> QED BY <1>1, <1>2, <1>5, <2>2 DEF TypeOK
<1>7. ReleaseInv'
  <2> SUFFICES ASSUME NEW other \in Consumers
               PROVE  released'[ConsumerNumber(other)] = taken'[other]
                        + (IF pc'[other] \in {"arrive", "commit"} THEN 1 ELSE 0)
    BY DEF ReleaseInv
  <2>1. other \in Ops /\ ConsumerNumber(other) \in Numbers
    BY Naming, Numbering
  <2>2. CASE other = op
    BY <1>1, <1>2, <1>3, <1>4, <2>2 DEF TypeOK
  <2>3. CASE other # op
    <3>1. ConsumerNumber(other) # number
      BY <2>3, Numbering
    <3>2. released'[ConsumerNumber(other)] = released[ConsumerNumber(other)]
      BY <1>1, <1>4, <2>1, <3>1 DEF TypeOK
    <3>3. pc'[other] = pc[other]
      BY <1>1, <1>2, <2>1, <2>3 DEF TypeOK
    <3> QED BY <1>1, <1>2, <3>2, <3>3 DEF ReleaseInv
  <2> QED BY <2>2, <2>3
<1>8. HoldInv'
  BY <1>1, <1>2, <1>3 DEF HoldInv, TypeOK
<1>9. JoinInv'
  BY <1>1, <1>2, <1>3, Naming DEF JoinInv, TypeOK
<1>10. EndsInv'
  BY <1>1, <1>2, <1>3, Naming DEF EndsInv, TypeOK
<1>11. DecodeInv' /\ TransportInv' /\ NoEdgeOverflows'
  BY <1>1, <1>2, CompressedFrame DEF NoEdgeOverflows
<1> QED BY <1>6, <1>7, <1>8, <1>9, <1>10, <1>11 DEF FlowInv

LEMMA WriterArrivesStep ==
  ASSUME FlowInv, "writer" \in Consumers, WriterArrives
  PROVE  FlowInv'
<1>1. TypeOK /\ HoldInv /\ ReleaseInv /\ JoinInv /\ EndsInv
  BY DEF FlowInv
<1>2. /\ pc["writer"] = "arrive" /\ pc' = [pc EXCEPT !["writer"] = "commit"] /\ Arrive
      /\ UNCHANGED <<setup, plan, inVars, outVars, scanned, ends, stop, failed>>
  BY DEF WriterArrives
<1>3. "writer" \in Ops /\ taken["writer"] < published
  BY <1>1, <1>2, Naming DEF HoldInv
<1>4. /\ DecodeInv' /\ TransportInv' /\ HoldInv' /\ NoEdgeOverflows'
      /\ pc' \in [Ops -> Stages]
  BY <1>2, <1>3, StageStep DEF Stages
<1>5. TypeOK'
  <2>1. latch' \in Int /\ completed' \in BOOLEAN
    BY <1>1, <1>2, ArriveTypes
  <2> QED BY <1>1, <1>2, <1>4, <2>1 DEF TypeOK
<1>6. ReleaseInv'
  BY <1>1, <1>2, Naming DEF ReleaseInv, TypeOK
<1>7. JoinInv'
  BY <1>1, <1>2, Naming DEF JoinInv, TypeOK
<1>8. EndsInv'
  BY <1>1, <1>2, Naming DEF EndsInv, TypeOK
<1> QED BY <1>4, <1>5, <1>6, <1>7, <1>8 DEF FlowInv

LEMMA ReturnStep ==
  ASSUME FlowInv, NEW op \in Ops, Return(op)
  PROVE  FlowInv'
<1>1. TypeOK /\ HoldInv /\ ReleaseInv /\ JoinInv /\ EndsInv /\ DecodeInv /\ TransportInv
      /\ NoEdgeOverflows
  BY DEF FlowInv
<1>2. /\ pc[op] = "commit" /\ pc' = [pc EXCEPT ![op] = "idle"]
      /\ taken' = [taken EXCEPT ![op] = taken[op] + 1]
      /\ UNCHANGED <<setup, plan, inVars, published, released, scanned, endVars, stop, failed>>
  BY DEF Return
<1>3. /\ taken[op] < published /\ taken[op] \in Int /\ published \in Int
      /\ taken'[op] = taken[op] + 1 /\ pc'[op] = "idle"
      /\ \A other \in Ops : other # op => taken'[other] = taken[other] /\ pc'[other] = pc[other]
  BY <1>1, <1>2, Counters DEF HoldInv, TypeOK
<1>4. TypeOK'
  <2>1. taken[op] + 1 \in 0 .. LastBatch
    BY <1>1, <1>3, Counters DEF TypeOK
  <2> QED BY <1>1, <1>2, <2>1 DEF TypeOK, Stages
<1>5. HoldInv'
  BY <1>1, <1>2, <1>3 DEF HoldInv
<1>6. ReleaseInv'
  <2> SUFFICES ASSUME NEW other \in Consumers
               PROVE  released'[ConsumerNumber(other)] = taken'[other]
                        + (IF pc'[other] \in {"arrive", "commit"} THEN 1 ELSE 0)
    BY DEF ReleaseInv
  <2>1. CASE other = op
    BY <1>1, <1>2, <1>3, <2>1 DEF ReleaseInv
  <2>2. CASE other # op
    BY <1>1, <1>2, <1>3, <2>2, Naming DEF ReleaseInv
  <2> QED BY <2>1, <2>2
<1>7. JoinInv'
  <2>1. CASE op = "scan"
    BY <1>1, <1>2, <1>3, <2>1, Naming, Counters DEF JoinInv
  <2>2. CASE op = "detector"
    BY <1>1, <1>2, <1>3, <2>2, Naming, Counters DEF JoinInv
  <2>3. CASE op \notin {"scan", "detector"}
    BY <1>1, <1>2, <1>3, <2>3, Naming DEF JoinInv
  <2> QED BY <2>1, <2>2, <2>3
<1>8. EndsInv'
  <2> SUFFICES ASSUME NEW other \in Consumers
               PROVE  ends'[other] <= taken'[other]
                        + (IF pc'[other] \in {"release", "arrive", "commit"} THEN 1 ELSE 0)
    BY DEF EndsInv
  <2>1. CASE other = op
    BY <1>1, <1>2, <1>3, <2>1, Counters DEF EndsInv
  <2>2. CASE other # op
    BY <1>1, <1>2, <1>3, <2>2, Naming DEF EndsInv
  <2> QED BY <2>1, <2>2
<1>9. DecodeInv' /\ TransportInv' /\ NoEdgeOverflows'
  BY <1>1, <1>2, CompressedFrame DEF NoEdgeOverflows
<1> QED BY <1>4, <1>5, <1>6, <1>7, <1>8, <1>9 DEF FlowInv

LEMMA AbandonStep ==
  ASSUME FlowInv, NEW op \in Ops, Abandon(op)
  PROVE  FlowInv'
<1>1. TypeOK /\ HoldInv /\ ReleaseInv /\ JoinInv /\ EndsInv
  BY DEF FlowInv
<1>2. /\ pc[op] = "work" /\ pc' = [pc EXCEPT ![op] = "abandoned"]
      /\ op \in {"scan", "writer"}
      /\ UNCHANGED <<setup, plan, inVars, outVars, scanned, endVars, stop, failed>>
  BY DEF Abandon
<1>3. taken[op] < published
  BY <1>1, <1>2 DEF HoldInv
<1>4. /\ DecodeInv' /\ TransportInv' /\ HoldInv' /\ NoEdgeOverflows'
      /\ pc' \in [Ops -> Stages]
  BY <1>2, <1>3, StageStep DEF Stages
<1>5. TypeOK'
  BY <1>1, <1>2, <1>4 DEF TypeOK
<1>6. ReleaseInv'
  BY <1>1, <1>2, Naming DEF ReleaseInv, TypeOK
<1>7. JoinInv'
  BY <1>1, <1>2, Naming DEF JoinInv, TypeOK
<1>8. EndsInv'
  BY <1>1, <1>2, Naming DEF EndsInv, TypeOK
<1> QED BY <1>4, <1>5, <1>6, <1>7, <1>8 DEF FlowInv

-----------------------------------------------------------------------------
LEMMA FlowInit == Init => FlowInv
<1> SUFFICES ASSUME Init PROVE FlowInv
  OBVIOUS
<1>1. /\ setup \in Setups /\ plan \in setup.plans /\ compressed = 0 /\ inReleased = [n \in {0} |-> 0]
      /\ inTaken = [n \in {0} |-> 0] /\ decode = "idle" /\ published = 0
      /\ released = [n \in Numbers |-> 0] /\ taken = [op \in Ops |-> 0]
      /\ scanned = 0 /\ pc = [op \in Ops |-> "idle"]
      /\ ends = [op \in Consumers |-> 0] /\ completed = FALSE
      /\ stop = FALSE /\ failed = FALSE
  BY DEF Init
<1>2. Len(plan) \in 0 .. LastBatch /\ LastBatch \in Nat /\ 0 \in 0 .. LastBatch
  BY <1>1, FlowAssumption DEF Plans
<1>3. latch \in Int
  BY DEF Init, One
<1>4. TypeOK
  BY <1>1, <1>2, <1>3 DEF TypeOK, Stages
<1>5. DecodeInv /\ TransportInv
  BY <1>1, <1>2 DEF Zmq, DecodeInv, TransportInv
<1>6. HoldInv /\ JoinInv /\ EndsInv
  BY <1>1, <1>2, Naming DEF HoldInv, JoinInv, EndsInv
<1>7. ReleaseInv
  BY <1>1, Naming, Numbering DEF ReleaseInv
<1> QED BY <1>1, <1>4, <1>5, <1>6, <1>7 DEF FlowInv, NoEdgeOverflows

LEMMA FlowNext == FlowInv /\ [Next]_vars => FlowInv'
<1> SUFFICES ASSUME FlowInv, [Next]_vars PROVE FlowInv'
  OBVIOUS
<1>1. CASE Input
  BY <1>1, ReceiveStep, ReceiveDecodedStep DEF Input
<1>2. CASE Decompress
  BY <1>2, DecompressStep
<1>3. CASE Scan
  BY <1>3, ActivateStep, EmitPositionsStep, ReturnStep, AbandonStep, Naming DEF Scan
<1>4. ASSUME NEW op \in Consumers, Consume(op) PROVE FlowInv'
  <2>1. op \in Ops
    BY Naming
  <2> QED BY <1>4, <2>1, ActivateStep, ProcessStep, ReleaseBatchStep, ReturnStep, StoreStep,
             WriterArrivesStep, AbandonStep DEF Consume
<1>5. CASE RequestStop \/ UNCHANGED vars
  <2>1. /\ UNCHANGED <<setup, plan, inVars, outVars, opVars, endVars, failed>>
        /\ stop' = TRUE \/ stop' = stop
    BY <1>5 DEF RequestStop, vars
  <2>2. TypeOK'
    BY <2>1 DEF FlowInv, TypeOK
  <2> QED BY <2>1, <2>2, DecodedFrame, CompressedFrame DEF FlowInv
<1> QED BY <1>1, <1>2, <1>3, <1>4, <1>5 DEF Next

\* The counters of the edges and windows agree with the stages of the callbacks.
THEOREM FlowInvariant == Spec => []FlowInv
  BY FlowInit, FlowNext, PTL DEF Spec

\* No emit_tensor of the receiver or the decompressor meets a full edge (app.py):
\* a capacity of queue_depth - 1 suffices for every set of consumers, and for the
\* edge to ScanTensorOp, which takes no part in the window.
THEOREM EdgesNeverOverflow == Spec => []NoEdgeOverflows
<1>1. FlowInv => NoEdgeOverflows
  BY DEF FlowInv
<1> QED BY <1>1, FlowInvariant, PTL

\* No counter passes the last batch of the run, and each callback is in one of its
\* stages.
THEOREM FlowTypes == Spec => []TypeOK
<1>1. FlowInv => TypeOK
  BY DEF FlowInv
<1> QED BY <1>1, FlowInvariant, PTL

-----------------------------------------------------------------------------
(* The graph implements the window of its compressed and of its decoded edges. *)

LEMMA HolderOf ==
  /\ \A op \in Consumers : Holder(ConsumerNumber(op)) = op
  /\ \A n \in Numbers : Holder(n) \in Consumers /\ ConsumerNumber(Holder(n)) = n
<1>1. ASSUME NEW n \in Numbers
      PROVE  Holder(n) \in Consumers /\ ConsumerNumber(Holder(n)) = n
  BY Numbering DEF Holder
<1>2. ASSUME NEW op \in Consumers PROVE Holder(ConsumerNumber(op)) = op
  <2>1. ConsumerNumber(op) \in Numbers
    BY Numbering
  <2>2. /\ Holder(ConsumerNumber(op)) \in Consumers
        /\ ConsumerNumber(Holder(ConsumerNumber(op))) = ConsumerNumber(op)
    BY <1>1, <2>1
  <2> QED BY <2>2, Numbering
<1> QED BY <1>1, <1>2

\* The window's view of what its consumers have taken.
TakenBy == [n \in Numbers |-> taken[Holder(n)]]

LEMMA DecodedInit == Init => Decoded!Init
<1> SUFFICES ASSUME Init PROVE Decoded!Init
  OBVIOUS
<1>1. published = 0 /\ released = [n \in Numbers |-> 0] /\ taken = [op \in Ops |-> 0]
  BY DEF Init
<1>2. \A n \in Numbers : Holder(n) \in Ops
  BY HolderOf, Naming
<1>3. TakenBy = [n \in Numbers |-> 0]
  BY <1>1, <1>2 DEF TakenBy
<1> QED BY <1>1, <1>3 DEF Decoded!Init, TakenBy

LEMMA DecodedPublish ==
  ASSUME FlowInv, ReceiveDecoded \/ Decode
  PROVE  Decoded!Publish
<1>1. TypeOK /\ DecodeInv /\ TransportInv
  BY DEF FlowInv
<1>2. /\ DecodedRoom(published + 1) /\ Publish(published + 1) /\ published < Len(plan)
      /\ UNCHANGED <<setup, plan, released, taken>>
  <2>1. CASE ReceiveDecoded
    BY <2>1 DEF ReceiveDecoded, More
  <2>2. CASE Decode
    <3>1. Zmq /\ published = inTaken[0] /\ published < Len(plan)
      BY <1>1, <2>2, Counters DEF Decode, Zmq, DecodeInv, TransportInv
    <3> QED BY <2>2, <3>1 DEF Decode
  <2> QED BY <2>1, <2>2
<1>3. published' = published + 1
  BY <1>2, RoomOnEveryEdge DEF Publish
<1>4. published < LastBatch
  BY <1>1, <1>2, Counters
<1> QED BY <1>2, <1>3, <1>4 DEF Decoded!Publish, DecodedRoom

LEMMA DecodedRelease ==
  ASSUME FlowInv, NEW op \in Consumers, ReleaseBatch(op)
  PROVE  Decoded!Release(ConsumerNumber(op))
<1> DEFINE number == ConsumerNumber(op)
<1>1. TypeOK /\ HoldInv /\ ReleaseInv
  BY DEF FlowInv
<1>2. /\ pc[op] = "release" /\ released' = Decoded!Released(number, taken[op] + 1)
      /\ UNCHANGED <<published, taken>>
  BY DEF ReleaseBatch
<1>3. taken[op] < published /\ released[number] = taken[op] /\ taken[op] \in Int
  BY <1>1, <1>2, Naming, Counters DEF HoldInv, ReleaseInv
<1>4. number \in Numbers /\ TakenBy[number] = taken[op]
  BY Numbering, HolderOf DEF TakenBy
<1>5. TakenBy[number] < published /\ released[number] <= TakenBy[number]
  BY <1>3, <1>4
<1>6. released' = Decoded!Released(number, TakenBy[number] + 1)
  BY <1>2, <1>4
<1> QED BY <1>2, <1>5, <1>6 DEF Decoded!Release, TakenBy

LEMMA DecodedCommit ==
  ASSUME FlowInv, NEW op \in Consumers, Return(op)
  PROVE  Decoded!Commit(ConsumerNumber(op))
<1> DEFINE number == ConsumerNumber(op)
<1>1. TypeOK /\ ReleaseInv
  BY DEF FlowInv
<1>2. /\ pc[op] = "commit" /\ taken' = [taken EXCEPT ![op] = taken[op] + 1]
      /\ UNCHANGED <<published, released>>
  BY DEF Return
<1>3. released[number] > taken[op]
  BY <1>1, <1>2, Naming, Counters DEF ReleaseInv
<1>4. number \in Numbers /\ TakenBy[number] = taken[op]
  BY Numbering, HolderOf DEF TakenBy
<1>5. TakenBy' = [TakenBy EXCEPT ![number] = TakenBy[number] + 1]
  <2>1. \A n \in Numbers : taken'[Holder(n)] = IF n = number THEN taken[op] + 1 ELSE taken[Holder(n)]
    <3> SUFFICES ASSUME NEW n \in Numbers
                 PROVE  taken'[Holder(n)] = IF n = number THEN taken[op] + 1 ELSE taken[Holder(n)]
      OBVIOUS
    <3>1. Holder(n) \in Ops /\ op \in Ops /\ (Holder(n) = op <=> n = number)
      BY HolderOf, Naming
    <3> QED BY <1>1, <1>2, <3>1 DEF TypeOK
  <2> QED BY <1>4, <2>1 DEF TakenBy
<1>6. released[number] > TakenBy[number]
  BY <1>3, <1>4
<1> QED BY <1>2, <1>5, <1>6 DEF Decoded!Commit, TakenBy

\* Every other step leaves the window alone.
LEMMA DecodedSteps ==
  ASSUME FlowInv, [Next]_vars
  PROVE  [Decoded!Next]_Decoded!windowVars
<1>1. CASE ReceiveDecoded \/ Decode
  BY <1>1, DecodedPublish DEF Decoded!Next
<1>2. CASE \E op \in Consumers : ReleaseBatch(op)
  BY <1>2, DecodedRelease, Numbering DEF Decoded!Next
<1>3. CASE \E op \in Consumers : Return(op)
  BY <1>3, DecodedCommit, Numbering DEF Decoded!Next
<1>4. CASE Return("scan")
  <2>1. /\ taken' = [taken EXCEPT !["scan"] = taken["scan"] + 1]
        /\ UNCHANGED <<published, released>> /\ taken \in [Ops -> 0 .. LastBatch]
    BY <1>4 DEF Return, FlowInv, TypeOK
  <2>2. \A n \in Numbers : taken'[Holder(n)] = taken[Holder(n)]
    BY <2>1, HolderOf, Naming
  <2>3. TakenBy' = TakenBy
    BY <2>2 DEF TakenBy
  <2> QED BY <2>1, <2>3 DEF Decoded!windowVars, TakenBy
<1>5. CASE UNCHANGED <<published, released, taken>>
  <2>1. TakenBy' = TakenBy
    BY <1>5 DEF TakenBy
  <2> QED BY <1>5, <2>1 DEF Decoded!windowVars, TakenBy
<1>6. \/ ReceiveDecoded \/ Decode
      \/ (\E op \in Consumers : ReleaseBatch(op) \/ Return(op)) \/ Return("scan")
      \/ UNCHANGED <<published, released, taken>>
  <2>1. CASE Input
    BY <2>1 DEF Input, Receive
  <2>2. CASE Decompress
    BY <2>2 DEF Decompress, TakeCompressed, AbandonDecode, ReleaseCompressed, CommitCompressed
  <2>3. CASE Scan
    BY <2>3 DEF Scan, Activate, EmitPositions, Abandon
  <2>4. CASE \E op \in Consumers : Consume(op)
    <3>1. PICK op \in Consumers : Consume(op)
      BY <2>4
    <3> QED BY <3>1 DEF Consume, Activate, Process, Store, WriterArrives, Abandon
  <2>5. CASE RequestStop \/ UNCHANGED vars
    BY <2>5 DEF RequestStop, vars
  <2> QED BY <2>1, <2>2, <2>3, <2>4, <2>5 DEF Next
<1> QED BY <1>1, <1>2, <1>3, <1>4, <1>5, <1>6

\* The decoded batches flow as the window prescribes, whichever consumers are
\* enabled and however they are numbered (app.py): each publication of the
\* receiver or the decompressor, each release and each return of a callback is
\* the window's step of that name, and no other step touches the window.
THEOREM DecodedRefines == Spec => DecodedFlows
<1>1. FlowInv /\ [Next]_vars => [Decoded!Next]_Decoded!windowVars
  BY DecodedSteps
<1> QED BY <1>1, DecodedInit, FlowInvariant, PTL DEF Spec, DecodedFlows, Decoded!Spec

LEMMA CompressedSteps ==
  ASSUME FlowInv, [Next]_vars
  PROVE  [Compressed!Next]_Compressed!windowVars
<1>1. TypeOK /\ DecodeInv
  BY DEF FlowInv
<1>2. CASE Receive
  <2>1. CompressedRoom(compressed + 1) /\ compressed < LastBatch
    BY <1>1, <1>2, Counters DEF Receive, More
  <2>2. compressed - inTaken[0] < QueueDepth
    <3>1. compressed + 1 - inReleased[0] <= QueueDepth - 1
      BY <1>1, <2>1, CompressedAhead
    <3>2. inReleased[0] <= inTaken[0] + 1
      BY <1>1, Counters DEF DecodeInv
    <3> QED BY <1>1, <3>1, <3>2, Counters
  <2>3. Compressed!Publish
    BY <1>2, <2>1, <2>2 DEF Receive, Compressed!Publish, CompressedRoom
  <2> QED BY <2>3 DEF Compressed!Next
<1>3. CASE ReleaseCompressed
  <2>1. inTaken[0] < compressed /\ inReleased[0] <= inTaken[0]
    BY <1>1, <1>3, Counters DEF ReleaseCompressed, DecodeInv
  <2>2. Compressed!Release(0)
    BY <1>3, <2>1 DEF ReleaseCompressed, Compressed!Release
  <2> QED BY <2>2 DEF Compressed!Next
<1>4. CASE CommitCompressed
  <2>1. inReleased[0] > inTaken[0]
    BY <1>1, <1>4, Counters DEF CommitCompressed, DecodeInv
  <2>2. Compressed!Commit(0)
    BY <1>4, <2>1 DEF CommitCompressed, Compressed!Commit
  <2> QED BY <2>2 DEF Compressed!Next
<1>5. CASE UNCHANGED <<compressed, inReleased, inTaken>>
  BY <1>5 DEF Compressed!windowVars
<1>6. \/ Receive \/ ReleaseCompressed \/ CommitCompressed
      \/ UNCHANGED <<compressed, inReleased, inTaken>>
  <2>1. CASE Input
    BY <2>1 DEF Input, ReceiveDecoded
  <2>2. CASE Decompress
    BY <2>2 DEF Decompress, TakeCompressed, Decode, AbandonDecode
  <2>3. CASE Scan
    BY <2>3 DEF Scan, Activate, EmitPositions, Return, Abandon
  <2>4. CASE \E op \in Consumers : Consume(op)
    <3>1. PICK op \in Consumers : Consume(op)
      BY <2>4
    <3> QED BY <3>1 DEF Consume, Activate, Process, ReleaseBatch, Return, Store, WriterArrives,
                        Abandon
  <2>5. CASE RequestStop \/ UNCHANGED vars
    BY <2>5 DEF RequestStop, vars
  <2> QED BY <2>1, <2>2, <2>3, <2>4, <2>5 DEF Next
<1> QED BY <1>2, <1>3, <1>4, <1>5, <1>6

\* The compressed batches between ZmqRxOp and DecompressGpuOp flow as the window
\* prescribes: DecompressGpuOp::compute releases the input it holds, and then
\* returns.
THEOREM CompressedRefines == Spec => CompressedFlows
<1>1. Init => Compressed!Init
  BY DEF Init, Compressed!Init
<1>2. FlowInv /\ [Next]_vars => [Compressed!Next]_Compressed!windowVars
  BY CompressedSteps
<1> QED BY <1>1, <1>2, FlowInvariant, PTL DEF Spec, CompressedFlows, Compressed!Spec

-----------------------------------------------------------------------------
(* Completion: the latch counts the consumers that have not passed an END.   *)

\* The t batches before, or the next one if the callback is beyond it, have an END.
Past(p, t, beyond) == \E i \in 1 .. Len(p) : p[i] = "end" /\ (i <= t \/ (i = t + 1 /\ beyond))

\* The stages in which a callback has arrived for the batch it holds.
Beyond(op) == IF op = "writer" THEN {"commit"} ELSE {"release", "commit"}

Arrived(op) == Past(plan, taken[op], pc[op] \in Beyond(op))

Owed(op) == IF op \in Consumers /\ ~Arrived(op) THEN 1 ELSE 0

ArrivalInv ==
  \A op \in Consumers :
    /\ pc[op] = "arrive" => op = "writer" /\ Arrives(op)
    /\ Arrived(op) => ends[op] > 0
    /\ pc[op] \in {"release", "arrive"} /\ Ending(op) => ends[op] > 0

LatchInv ==
  /\ ArrivalInv
  /\ completed => Finite /\ latch <= 0
  /\ Finite => latch = Owed("detector") + Owed("writer") + Owed("encoder") + Owed("parallax")

\* Beyond a batch that is no END nothing more is past; beyond the only END, it is.
LEMMA PastNext ==
  ASSUME NEW p, NEW t \in Nat, t < Len(p), Len(p) \in Nat
  PROVE  /\ Past(p, t, TRUE) <=> Past(p, t + 1, FALSE)
         /\ p[t + 1] # "end" => (Past(p, t, TRUE) <=> Past(p, t, FALSE))
         /\ p[t + 1] = "end" => Past(p, t, TRUE)
         /\ Past(p, t, FALSE) => Past(p, t, TRUE)
         /\ p[t + 1] = "end" /\ (\A i, j \in 1 .. Len(p) : p[i] = "end" /\ p[j] = "end" => i = j)
              => ~Past(p, t, FALSE)
<1>1. t + 1 \in 1 .. Len(p)
  OBVIOUS
<1>2. \A i \in 1 .. Len(p) : i <= t + 1 <=> i <= t \/ i = t + 1
  OBVIOUS
<1>3. \A i \in 1 .. Len(p) : ~(i <= t /\ i = t + 1)
  OBVIOUS
<1> QED
  BY <1>1, <1>2, <1>3 DEF Past

LEMMA FourNames == Consumers \subseteq {"detector", "writer", "encoder", "parallax"}
  BY FlowAssumption DEF Consumers

\* One consumer arrives: it owes one less.
LEMMA OneLess ==
  ASSUME NEW op \in Consumers, Owed(op) = 1, Owed(op)' = 0,
         \A other \in {"detector", "writer", "encoder", "parallax"} \ {op} :
           Owed(other)' = Owed(other)
  PROVE  /\ Owed("detector")' + Owed("writer")' + Owed("encoder")' + Owed("parallax")'
              = Owed("detector") + Owed("writer") + Owed("encoder") + Owed("parallax") - 1
         /\ Owed("detector") + Owed("writer") + Owed("encoder") + Owed("parallax") >= 1
<1>1. \A other : Owed(other) \in {0, 1}
  BY DEF Owed
<1> QED
  BY FourNames, <1>1

\* What a step of one consumer must say to keep the invariant: if it arrives, it owed one.
LEMMA OneConsumer ==
  ASSUME TypeOK, LatchInv, NEW op \in Consumers, UNCHANGED <<setup, plan>>,
         \A other \in Consumers : other # op =>
           /\ taken'[other] = taken[other] /\ pc'[other] = pc[other] /\ ends'[other] = ends[other],
         /\ pc'[op] = "arrive" => op = "writer" /\ Arrives(op)'
         /\ Arrived(op)' => ends'[op] > 0
         /\ pc'[op] \in {"release", "arrive"} /\ Ending(op)' => ends'[op] > 0,
         \/ (Arrived(op)' <=> Arrived(op)) /\ UNCHANGED <<latch, completed>>
         \/ ~Finite /\ UNCHANGED <<latch, completed>>
         \/ Finite /\ ~Arrived(op) /\ Arrived(op)' /\ Arrive
  PROVE  LatchInv'
<1>1. \A other \in Consumers : other # op => (Arrived(other)' <=> Arrived(other))
  BY DEF Arrived, Beyond
<1>2. \A other \in {"detector", "writer", "encoder", "parallax"} \ {op} :
        Owed(other)' = Owed(other)
  BY <1>1 DEF Owed, Consumers
<1>3. Finite' = Finite /\ latch \in Int
  BY DEF Finite, TypeOK
<1>4. ArrivalInv'
  <2> SUFFICES ASSUME NEW other \in Consumers
               PROVE  /\ pc'[other] = "arrive" => other = "writer" /\ Arrives(other)'
                      /\ Arrived(other)' => ends'[other] > 0
                      /\ pc'[other] \in {"release", "arrive"} /\ Ending(other)' => ends'[other] > 0
    BY DEF ArrivalInv, Consumers
  <2>1. CASE other = op
    BY <2>1
  <2>2. CASE other # op
    <3>1. /\ pc'[other] = pc[other] /\ ends'[other] = ends[other] /\ (Arrived(other)' <=> Arrived(other))
          /\ Ending(other)' = Ending(other) /\ Arrives(other)' = Arrives(other)
      BY <1>1, <1>3, <2>2 DEF Ending, Arrives
    <3> QED
      BY <3>1 DEF LatchInv, ArrivalInv
  <2> QED
    BY <2>1, <2>2
<1>5. CASE (Arrived(op)' <=> Arrived(op)) /\ UNCHANGED <<latch, completed>>
  <2>1. Owed(op)' = Owed(op)
    BY <1>5 DEF Owed, Consumers
  <2>2. \A other \in {"detector", "writer", "encoder", "parallax"} : Owed(other)' = Owed(other)
    BY <1>2, <2>1
  <2> QED
    BY <1>3, <1>4, <1>5, <2>2 DEF LatchInv
<1>6. CASE ~Finite /\ UNCHANGED <<latch, completed>>
  BY <1>3, <1>4, <1>6 DEF LatchInv
<1>7. CASE Finite /\ ~Arrived(op) /\ Arrived(op)' /\ Arrive
  <2>1. Owed(op) = 1 /\ Owed(op)' = 0
    BY <1>7 DEF Owed, Consumers
  <2>2. latch' = latch - 1 /\ completed' = (completed \/ latch = 1) /\ Finite'
    BY <1>3, <1>7 DEF Arrive
  <2>3. /\ latch = Owed("detector") + Owed("writer") + Owed("encoder") + Owed("parallax")
        /\ completed => latch <= 0
    BY <1>7 DEF LatchInv
  <2>4. /\ Owed("detector")' + Owed("writer")' + Owed("encoder")' + Owed("parallax")' = latch - 1
        /\ latch >= 1
    <3>1. /\ Owed("detector")' + Owed("writer")' + Owed("encoder")' + Owed("parallax")'
                = Owed("detector") + Owed("writer") + Owed("encoder") + Owed("parallax") - 1
          /\ Owed("detector") + Owed("writer") + Owed("encoder") + Owed("parallax") >= 1
      BY <1>2, <2>1, OneLess
    <3>2. /\ Owed("detector") \in Int /\ Owed("writer") \in Int
          /\ Owed("encoder") \in Int /\ Owed("parallax") \in Int
      BY DEF Owed
    <3> QED
      BY <1>3, <2>3, <3>1, <3>2
  <2>5. completed' => latch' <= 0
    <3>1. latch' = latch - 1 /\ (completed' <=> (completed \/ latch = 1))
      BY <2>2
    <3>2. completed => latch <= 0
      BY <2>3
    <3> QED
      BY <1>3, <2>4, <3>1, <3>2
  <2> QED
    BY <1>4, <2>2, <2>4, <2>5 DEF LatchInv
<1> QED
  BY <1>5, <1>6, <1>7

\* Steps that leave the consumers' callbacks alone.
LEMMA LatchFrame ==
  ASSUME LatchInv,
         UNCHANGED <<setup, plan, latch, completed, ends>>,
         \A op \in Consumers : taken'[op] = taken[op] /\ pc'[op] = pc[op]
  PROVE  LatchInv'
<1>1. \A op \in Consumers : /\ (Arrived(op)' <=> Arrived(op)) /\ Ending(op)' = Ending(op)
                            /\ Arrives(op)' = Arrives(op)
  BY DEF Arrived, Beyond, Ending, Arrives, Finite
<1>2. \A op : Owed(op)' = Owed(op)
  BY <1>1 DEF Owed, Consumers
<1>3. ArrivalInv'
  BY <1>1 DEF LatchInv, ArrivalInv, Consumers
<1> QED
  BY <1>2, <1>3 DEF LatchInv, Finite

\* A finite run's plan has one END.
LEMMA OneEnd ==
  ASSUME EndsOnce, TypeOK, Finite
  PROVE  \A i, j \in 1 .. Len(plan) : plan[i] = "end" /\ plan[j] = "end" => i = j
  BY DEF EndsOnce, TypeOK, Finite

\* What holds of a consumer that is at work on a batch, or releases it.
LEMMA AtWork ==
  ASSUME FlowInv, LatchInv, NEW op \in Consumers, pc[op] # "idle"
  PROVE  /\ taken[op] \in Nat /\ taken[op] < Len(plan) /\ Len(plan) \in Nat
         /\ ends[op] \in Nat /\ op \in Ops
         /\ pc[op] = "arrive" => op = "writer" /\ Arrives(op)
         /\ Arrived(op) => ends[op] > 0
         /\ pc[op] \in {"release", "arrive"} /\ Ending(op) => ends[op] > 0
<1>1. TypeOK /\ HoldInv /\ op \in Ops
  BY Naming DEF FlowInv
<1>2. taken[op] < published /\ published <= Len(plan)
  BY <1>1 DEF HoldInv
<1>3. taken[op] \in 0 .. LastBatch /\ ends[op] \in 0 .. LastBatch /\ LastBatch \in Nat
  BY <1>1, FlowAssumption DEF TypeOK
<1>4. ArrivalInv
  BY DEF LatchInv
<1> QED
  BY <1>1, <1>2, <1>3, <1>4, Counters DEF ArrivalInv

-----------------------------------------------------------------------------
(* Every step keeps it, consumer by consumer.                                *)

LEMMA ProcessLatch ==
  ASSUME EndsOnce, FlowInv, LatchInv, NEW op \in Consumers, Process(op)
  PROVE  LatchInv'
<1>1. /\ op # "writer" /\ pc[op] = "work" /\ pc' = [pc EXCEPT ![op] = "release"]
      /\ ends' = IF Ending(op) THEN [ends EXCEPT ![op] = ends[op] + 1] ELSE ends
      /\ IF Arrives(op) THEN Arrive ELSE UNCHANGED <<latch, completed>>
      /\ UNCHANGED <<setup, plan, taken>>
  BY DEF Process
<1>2. TypeOK
  BY DEF FlowInv
<1>3. /\ taken[op] \in Nat /\ taken[op] < Len(plan) /\ Len(plan) \in Nat /\ ends[op] \in Nat
      /\ Arrived(op) => ends[op] > 0
  BY <1>1, AtWork
<1>4. op \in Ops /\ pc \in [Ops -> Stages] /\ ends \in [Consumers -> 0 .. LastBatch]
  BY <1>2, Naming DEF TypeOK
<1>5. \A other \in Consumers : other # op =>
        /\ taken'[other] = taken[other] /\ pc'[other] = pc[other] /\ ends'[other] = ends[other]
  BY <1>1, <1>4, Naming
<1>6. /\ pc'[op] = "release" /\ Ending(op)' = Ending(op)
      /\ Ending(op) => ends'[op] > 0
      /\ ends'[op] >= ends[op] /\ ends'[op] \in Int
  BY <1>1, <1>3, <1>4 DEF Ending
<1>7. /\ (Arrived(op) <=> Past(plan, taken[op], FALSE))
      /\ (Arrived(op)' <=> Past(plan, taken[op], TRUE))
  BY <1>1, <1>6 DEF Arrived, Beyond, Past
<1>8. /\ ~Ending(op) => (Arrived(op)' <=> Arrived(op))
      /\ Ending(op) => Arrived(op)'
      /\ Ending(op) /\ Finite => ~Arrived(op)
  BY <1>2, <1>3, <1>7, PastNext, OneEnd DEF Ending
<1>9. Arrived(op)' => ends'[op] > 0
  BY <1>3, <1>6, <1>8
<1>10. \/ (Arrived(op)' <=> Arrived(op)) /\ UNCHANGED <<latch, completed>>
       \/ ~Finite /\ UNCHANGED <<latch, completed>>
       \/ Finite /\ ~Arrived(op) /\ Arrived(op)' /\ Arrive
  BY <1>1, <1>8 DEF Arrives
<1> QED
  BY <1>1, <1>2, <1>5, <1>6, <1>9, <1>10, OneConsumer

LEMMA StoreLatch ==
  ASSUME FlowInv, LatchInv, "writer" \in Consumers, Store
  PROVE  LatchInv'
<1> DEFINE op == "writer"
<1>1. /\ pc[op] = "work" /\ pc' = [pc EXCEPT ![op] = "release"]
      /\ ends' = IF Ending(op) THEN [ends EXCEPT ![op] = ends[op] + 1] ELSE ends
      /\ UNCHANGED <<setup, plan, taken, latch, completed>>
  BY DEF Store
<1>2. TypeOK
  BY DEF FlowInv
<1>3. /\ ends[op] \in Nat
      /\ Arrived(op) => ends[op] > 0
  BY <1>1, AtWork
<1>4. op \in Ops /\ pc \in [Ops -> Stages] /\ ends \in [Consumers -> 0 .. LastBatch]
  BY <1>2, Naming DEF TypeOK
<1>5. \A other \in Consumers : other # op =>
        /\ taken'[other] = taken[other] /\ pc'[other] = pc[other] /\ ends'[other] = ends[other]
  BY <1>1, <1>4, Naming
<1>6. /\ pc'[op] = "release" /\ Ending(op)' = Ending(op)
      /\ Ending(op) => ends'[op] > 0
      /\ ends'[op] >= ends[op] /\ ends'[op] \in Int
  BY <1>1, <1>3, <1>4 DEF Ending
<1>7. (Arrived(op)' <=> Arrived(op))
  BY <1>1, <1>6 DEF Arrived, Beyond, Past
<1>8. Arrived(op)' => ends'[op] > 0
  BY <1>3, <1>6, <1>7
<1> QED
  BY <1>1, <1>2, <1>5, <1>6, <1>7, <1>8, OneConsumer

LEMMA ReleaseLatch ==
  ASSUME FlowInv, LatchInv, NEW op \in Consumers, ReleaseBatch(op)
  PROVE  LatchInv'
<1>1. /\ pc[op] = "release" /\ pc' = [pc EXCEPT ![op] = NextStage(op)]
      /\ UNCHANGED <<setup, plan, taken, ends, latch, completed>>
  BY DEF ReleaseBatch
<1>2. TypeOK
  BY DEF FlowInv
<1>3. /\ taken[op] \in Nat /\ taken[op] < Len(plan) /\ Len(plan) \in Nat /\ ends[op] \in Nat
      /\ Arrived(op) => ends[op] > 0
      /\ Ending(op) => ends[op] > 0
  BY <1>1, AtWork
<1>4. op \in Ops /\ pc \in [Ops -> Stages]
  BY <1>2, Naming DEF TypeOK
<1>5. \A other \in Consumers : other # op =>
        /\ taken'[other] = taken[other] /\ pc'[other] = pc[other] /\ ends'[other] = ends[other]
  BY <1>1, <1>4, Naming
<1>6. /\ pc'[op] = NextStage(op) /\ Ending(op)' = Ending(op) /\ ends'[op] = ends[op]
      /\ Arrives(op)' = Arrives(op) /\ Finite' = Finite
  BY <1>1, <1>4 DEF Ending, Arrives, Finite
<1>7. CASE op # "writer"
  <2>1. (Arrived(op)' <=> Arrived(op)) /\ pc'[op] = "commit"
    BY <1>1, <1>6, <1>7 DEF Arrived, Beyond, NextStage
  <2> QED
    BY <1>1, <1>2, <1>3, <1>5, <1>6, <2>1, OneConsumer
<1>8. CASE op = "writer" /\ Arrives(op)
  <2>1. (Arrived(op)' <=> Arrived(op)) /\ pc'[op] = "arrive"
    BY <1>1, <1>6, <1>8 DEF Arrived, Beyond, NextStage
  <2>2. pc'[op] = "arrive" => op = "writer" /\ Arrives(op)'
    BY <1>6, <1>8
  <2>3. Arrived(op)' => ends'[op] > 0
    BY <1>3, <1>6, <2>1
  <2>4. pc'[op] \in {"release", "arrive"} /\ Ending(op)' => ends'[op] > 0
    BY <1>3, <1>6
  <2> QED
    BY <1>1, <1>2, <1>5, <2>1, <2>2, <2>3, <2>4, OneConsumer
<1>9. CASE op = "writer" /\ ~Arrives(op)
  <2>1. pc'[op] = "commit"
    BY <1>6, <1>9 DEF NextStage
  <2>2. /\ (Arrived(op) <=> Past(plan, taken[op], FALSE))
        /\ (Arrived(op)' <=> Past(plan, taken[op], TRUE))
    BY <1>1, <1>9, <2>1 DEF Arrived, Beyond, Past
  <2>3. ~Ending(op) => (Arrived(op)' <=> Arrived(op))
    BY <1>3, <2>2, PastNext DEF Ending
  <2>4. Arrived(op)' => ends'[op] > 0
    BY <1>3, <1>6, <2>3
  <2>5. \/ (Arrived(op)' <=> Arrived(op)) /\ UNCHANGED <<latch, completed>>
        \/ ~Finite /\ UNCHANGED <<latch, completed>>
    BY <1>1, <1>9, <2>3 DEF Arrives
  <2> QED
    BY <1>1, <1>2, <1>5, <2>1, <2>4, <2>5, OneConsumer
<1> QED
  BY <1>7, <1>8, <1>9

LEMMA WriterArrivesLatch ==
  ASSUME EndsOnce, FlowInv, LatchInv, "writer" \in Consumers, WriterArrives
  PROVE  LatchInv'
<1> DEFINE op == "writer"
<1>1. /\ pc[op] = "arrive" /\ pc' = [pc EXCEPT ![op] = "commit"] /\ Arrive
      /\ UNCHANGED <<setup, plan, taken, ends>>
  BY DEF WriterArrives
<1>2. TypeOK
  BY DEF FlowInv
<1>3. /\ taken[op] \in Nat /\ taken[op] < Len(plan) /\ Len(plan) \in Nat /\ Arrives(op)
      /\ Ending(op) => ends[op] > 0
  BY <1>1, AtWork
<1>4. op \in Ops /\ pc \in [Ops -> Stages]
  BY <1>2, Naming DEF TypeOK
<1>5. \A other \in Consumers : other # op =>
        /\ taken'[other] = taken[other] /\ pc'[other] = pc[other] /\ ends'[other] = ends[other]
  BY <1>1, <1>4, Naming
<1>6. pc'[op] = "commit" /\ ends'[op] = ends[op] /\ Ending(op) /\ Finite
  BY <1>1, <1>3, <1>4 DEF Arrives
<1>7. /\ (Arrived(op) <=> Past(plan, taken[op], FALSE))
      /\ (Arrived(op)' <=> Past(plan, taken[op], TRUE))
  BY <1>1, <1>6 DEF Arrived, Beyond, Past
<1>8. ~Arrived(op) /\ Arrived(op)'
  BY <1>2, <1>3, <1>6, <1>7, PastNext, OneEnd DEF Ending
<1> QED
  BY <1>1, <1>2, <1>3, <1>5, <1>6, <1>8, OneConsumer

LEMMA ReturnLatch ==
  ASSUME FlowInv, LatchInv, NEW op \in Consumers, Return(op)
  PROVE  LatchInv'
<1>1. /\ pc[op] = "commit" /\ pc' = [pc EXCEPT ![op] = "idle"]
      /\ taken' = [taken EXCEPT ![op] = taken[op] + 1]
      /\ UNCHANGED <<setup, plan, ends, latch, completed>>
  BY DEF Return
<1>2. TypeOK
  BY DEF FlowInv
<1>3. /\ taken[op] \in Nat /\ taken[op] < Len(plan) /\ Len(plan) \in Nat
      /\ Arrived(op) => ends[op] > 0
  BY <1>1, AtWork
<1>4. op \in Ops /\ pc \in [Ops -> Stages] /\ taken \in [Ops -> 0 .. LastBatch]
  BY <1>2, Naming DEF TypeOK
<1>5. \A other \in Consumers : other # op =>
        /\ taken'[other] = taken[other] /\ pc'[other] = pc[other] /\ ends'[other] = ends[other]
  BY <1>1, <1>4, Naming
<1>6. pc'[op] = "idle" /\ taken'[op] = taken[op] + 1 /\ ends'[op] = ends[op]
  BY <1>1, <1>4
<1>7. /\ (Arrived(op) <=> Past(plan, taken[op], TRUE))
      /\ (Arrived(op)' <=> Past(plan, taken[op] + 1, FALSE))
  BY <1>1, <1>6 DEF Arrived, Beyond, Past
<1>8. (Arrived(op)' <=> Arrived(op))
  BY <1>3, <1>7, PastNext DEF Arrived, Past
<1> QED
  BY <1>1, <1>2, <1>3, <1>5, <1>6, <1>8, OneConsumer

\* A callback that begins, or is abandoned, arrives nowhere.
LEMMA TurnLatch ==
  ASSUME FlowInv, LatchInv, NEW op \in Consumers, Activate(op) \/ Abandon(op)
  PROVE  LatchInv'
<1>1. PICK stage \in {"work", "abandoned"} :
        /\ pc[op] \in {"idle", "work"} /\ pc' = [pc EXCEPT ![op] = stage]
        /\ UNCHANGED <<setup, plan, taken, ends, latch, completed>>
  BY DEF Activate, Abandon
<1>2. TypeOK /\ ArrivalInv
  BY DEF FlowInv, LatchInv
<1>4. op \in Ops /\ pc \in [Ops -> Stages]
  BY <1>2, Naming DEF TypeOK
<1>5. \A other \in Consumers : other # op =>
        /\ taken'[other] = taken[other] /\ pc'[other] = pc[other] /\ ends'[other] = ends[other]
  BY <1>1, <1>4, Naming
<1>6. pc'[op] = stage
  BY <1>1, <1>4
<1>7. (Arrived(op)' <=> Arrived(op))
  BY <1>1, <1>6 DEF Arrived, Beyond, Past
<1>8. Arrived(op)' => ends'[op] > 0
  BY <1>1, <1>2, <1>7 DEF ArrivalInv
<1> QED
  BY <1>1, <1>2, <1>5, <1>6, <1>7, <1>8, OneConsumer

\* ScanTensorOp is no consumer.
LEMMA ScanLatch ==
  ASSUME FlowInv, LatchInv, Scan
  PROVE  LatchInv'
<1>1. /\ UNCHANGED <<setup, plan, latch, completed, ends>>
      /\ \E stage : pc' = [pc EXCEPT !["scan"] = stage]
      /\ taken' = taken \/ taken' = [taken EXCEPT !["scan"] = taken["scan"] + 1]
  BY DEF Scan, Activate, EmitPositions, Return, Abandon
<1>2. pc \in [Ops -> Stages] /\ taken \in [Ops -> 0 .. LastBatch]
  BY DEF FlowInv, TypeOK
<1>3. \A op \in Consumers : taken'[op] = taken[op] /\ pc'[op] = pc[op]
  BY <1>1, <1>2, Naming
<1> QED
  BY <1>1, <1>3, LatchFrame

LEMMA LatchInit == Init => LatchInv
<1> SUFFICES ASSUME Init PROVE LatchInv
  OBVIOUS
<1>1. /\ plan \in setup.plans /\ setup \in Setups /\ taken = [op \in Ops |-> 0] /\ pc = [op \in Ops |-> "idle"]
      /\ latch = 1 + One("writer") + One("encoder") + One("parallax")
      /\ completed = FALSE
  BY DEF Init
<1>2. Len(plan) \in Nat
  BY <1>1, FlowAssumption DEF Plans
<1>3. ASSUME NEW op \in Consumers PROVE pc[op] = "idle" /\ ~Arrived(op)
  <2>1. taken[op] = 0 /\ pc[op] = "idle"
    BY <1>1, Naming
  <2> QED
    BY <1>2, <2>1 DEF Arrived, Past, Beyond
<1>4. Owed("detector") = 1
  BY <1>3, Naming DEF Owed
<1>5. ASSUME NEW op \in {"writer", "encoder", "parallax"} PROVE Owed(op) = One(op)
  BY <1>3 DEF Owed, One, Consumers
<1>6. latch = Owed("detector") + Owed("writer") + Owed("encoder") + Owed("parallax")
  BY <1>1, <1>4, <1>5
<1>7. ArrivalInv
  BY <1>3 DEF ArrivalInv
<1> QED
  BY <1>1, <1>6, <1>7 DEF LatchInv

LEMMA LatchNext == EndsOnce /\ FlowInv /\ LatchInv /\ [Next]_vars => LatchInv'
<1> SUFFICES ASSUME EndsOnce, FlowInv, LatchInv, [Next]_vars PROVE LatchInv'
  OBVIOUS
<1>1. CASE Input \/ Decompress \/ RequestStop \/ UNCHANGED vars
  <2>1. UNCHANGED <<setup, plan, latch, completed, ends, taken, pc>>
    BY <1>1 DEF Input, Receive, ReceiveDecoded, Decompress, TakeCompressed, Decode, AbandonDecode,
                ReleaseCompressed, CommitCompressed, RequestStop, vars
  <2> QED
    BY <2>1, LatchFrame
<1>2. CASE Scan
  BY <1>2, ScanLatch
<1>3. ASSUME NEW op \in Consumers, Consume(op) PROVE LatchInv'
  BY <1>3, ProcessLatch, StoreLatch, ReleaseLatch, WriterArrivesLatch, ReturnLatch, TurnLatch
     DEF Consume
<1> QED
  BY <1>1, <1>2, <1>3 DEF Next

\* Where a plan ends once, what the latch holds is what the consumers still owe it.
THEOREM LatchCounts == EndsOnce => (Spec => []LatchInv)
<1> SUFFICES ASSUME EndsOnce PROVE Spec => []LatchInv
  OBVIOUS
<1>1. FlowInv /\ LatchInv /\ [Next]_vars => LatchInv'
  BY LatchNext
<1> QED
  BY <1>1, LatchInit, FlowInvariant, PTL DEF Spec

\* A finite run of one series ends by itself only after every consumer that is enabled has
\* processed its END (CompletionLatch, app.py): whatever the order in which they arrive, and
\* though the writer arrives behind its release and the others before it.
THEOREM CompletedByAll == EndsOnce => (Spec => []CompletionAfterEveryEnd)
<1>1. LatchInv => CompletionAfterEveryEnd
  <2> SUFFICES ASSUME LatchInv, completed, NEW op \in Consumers PROVE ends[op] > 0
    BY DEF CompletionAfterEveryEnd
  <2>1. Owed("detector") + Owed("writer") + Owed("encoder") + Owed("parallax") <= 0
    BY DEF LatchInv
  <2>2. \A other : Owed(other) \in {0, 1}
    BY DEF Owed
  <2>3. Owed(op) = 0
    BY <2>1, <2>2, FourNames
  <2> QED
    BY <2>3 DEF Owed, LatchInv, ArrivalInv
<1> QED
  BY <1>1, LatchCounts, PTL

-----------------------------------------------------------------------------
(* The publication window by itself, whatever its capacity, its consumers   *)
(* and the order of loads, releases and returns.                            *)

CONSTANTS WindowCapacity, WindowConsumers, WindowLast
VARIABLES windowPublished, windowReleased, windowTaken

Window == INSTANCE BatchWindow WITH
  Capacity <- WindowCapacity, Consumers <- WindowConsumers, Last <- WindowLast,
  published <- windowPublished, released <- windowReleased, taken <- windowTaken

WindowInv == Window!TypeOK /\ Window!ReleaseInOrder /\ Window!EdgeBound

LEMMA WindowInit ==
  ASSUME Window!WindowConstants
  PROVE  Window!Init => WindowInv
  BY DEF Window!WindowConstants, Window!Init, WindowInv, Window!TypeOK, Window!ReleaseInOrder,
         Window!EdgeBound

\* What the publisher has seen of a counter is a lower bound of it, so the
\* queue it is about to add to has room.
LEMMA WindowPublishStep ==
  ASSUME Window!WindowConstants, WindowInv, Window!Publish
  PROVE  WindowInv'
<1>1. /\ windowPublished \in 0 .. WindowLast /\ windowPublished' = windowPublished + 1
      /\ windowPublished' \in 0 .. WindowLast
      /\ windowReleased' = windowReleased /\ windowTaken' = windowTaken
      /\ windowReleased \in [WindowConsumers -> 0 .. WindowLast]
      /\ windowTaken \in [WindowConsumers -> 0 .. WindowLast]
      /\ WindowLast \in Nat /\ WindowCapacity \in Nat
  BY DEF Window!WindowConstants, Window!Publish, WindowInv, Window!TypeOK
<1>2. \A c \in WindowConsumers : windowPublished + 1 - windowReleased[c] <= WindowCapacity
  <2>1. PICK s \in Window!Seen : Window!Admits(windowPublished + 1, s)
    BY DEF Window!Publish, Window!MayPublish
  <2>2. \A d \in WindowConsumers :
          d \in DOMAIN s /\ s[d] \in Nat /\ s[d] <= windowReleased[d] /\ windowReleased[d] \in Nat
    BY <1>1, <2>1 DEF Window!Seen
  <2>3. \A d \in WindowConsumers : windowPublished + 1 - s[d] <= WindowCapacity
    BY <1>1, <2>1, <2>2 DEF Window!Admits
  <2> QED BY <1>1, <2>2, <2>3
<1>3. Window!TypeOK'
  BY <1>1 DEF Window!TypeOK
<1>4. Window!ReleaseInOrder'
  BY <1>1 DEF WindowInv, Window!ReleaseInOrder
<1>5. Window!EdgeBound'
  <2> SUFFICES ASSUME NEW c \in WindowConsumers
               PROVE  windowPublished' - windowTaken'[c] <= WindowCapacity + 1
    BY DEF Window!EdgeBound
  <2>1. windowReleased[c] \in 0 .. WindowLast /\ windowTaken[c] \in 0 .. WindowLast
    BY <1>1
  <2>2. windowReleased[c] <= windowTaken[c] + 1
    BY <2>1 DEF WindowInv, Window!ReleaseInOrder
  <2> QED BY <1>1, <1>2, <2>1, <2>2
<1> QED BY <1>3, <1>4, <1>5 DEF WindowInv

LEMMA WindowReleaseStep ==
  ASSUME Window!WindowConstants, WindowInv, NEW c \in WindowConsumers, Window!Release(c)
  PROVE  WindowInv'
<1>1. /\ windowTaken[c] \in 0 .. WindowLast /\ windowReleased[c] \in 0 .. WindowLast
      /\ windowPublished \in 0 .. WindowLast
      /\ WindowLast \in Nat /\ WindowCapacity \in Nat
  BY DEF Window!WindowConstants, WindowInv, Window!TypeOK
<1>2. /\ windowPublished' = windowPublished /\ windowTaken' = windowTaken
      /\ windowTaken[c] + 1 <= windowPublished
      /\ windowReleased' = [windowReleased EXCEPT ![c] = windowTaken[c] + 1]
  <2>1. windowTaken[c] < windowPublished /\ windowReleased[c] < windowTaken[c] + 1
    BY <1>1 DEF Window!Release
  <2>2. windowReleased' = [windowReleased EXCEPT
                              ![c] = IF windowReleased[c] < windowTaken[c] + 1
                                     THEN windowTaken[c] + 1 ELSE windowReleased[c]]
    BY DEF Window!Release, Window!Released
  <2>3. windowReleased' = [windowReleased EXCEPT ![c] = windowTaken[c] + 1]
    BY <2>1, <2>2
  <2>4. windowPublished' = windowPublished /\ windowTaken' = windowTaken
    BY DEF Window!Release
  <2> QED BY <1>1, <2>1, <2>3, <2>4
<1>3. Window!TypeOK'
  BY <1>1, <1>2 DEF WindowInv, Window!TypeOK
<1>4. Window!ReleaseInOrder'
  BY <1>1, <1>2 DEF WindowInv, Window!TypeOK, Window!ReleaseInOrder
<1>5. Window!EdgeBound'
  BY <1>2 DEF WindowInv, Window!EdgeBound
<1> QED BY <1>3, <1>4, <1>5 DEF WindowInv

LEMMA WindowCommitStep ==
  ASSUME Window!WindowConstants, WindowInv, NEW c \in WindowConsumers, Window!Commit(c)
  PROVE  WindowInv'
<1>1. /\ windowTaken[c] \in 0 .. WindowLast /\ windowReleased[c] \in 0 .. WindowLast
      /\ windowPublished \in 0 .. WindowLast
      /\ WindowLast \in Nat /\ WindowCapacity \in Nat
  BY DEF Window!WindowConstants, WindowInv, Window!TypeOK
<1>2. /\ windowPublished' = windowPublished /\ windowReleased' = windowReleased
      /\ windowReleased[c] = windowTaken[c] + 1 /\ windowReleased[c] <= windowPublished
      /\ windowTaken' = [windowTaken EXCEPT ![c] = windowTaken[c] + 1]
  BY <1>1 DEF Window!Commit, WindowInv, Window!ReleaseInOrder
<1>3. Window!TypeOK'
  BY <1>1, <1>2 DEF WindowInv, Window!TypeOK
<1>4. Window!ReleaseInOrder'
  BY <1>1, <1>2 DEF WindowInv, Window!TypeOK, Window!ReleaseInOrder
<1>5. Window!EdgeBound'
  BY <1>1, <1>2 DEF WindowInv, Window!TypeOK, Window!EdgeBound
<1> QED BY <1>3, <1>4, <1>5 DEF WindowInv

\* The window's invariant: types, releases in order, and the bound of the queues.
THEOREM WindowInvariant ==
  ASSUME Window!WindowConstants
  PROVE  Window!Spec => []WindowInv
<1>1. WindowInv /\ [Window!Next]_(Window!windowVars) => WindowInv'
  <2> SUFFICES ASSUME WindowInv, [Window!Next]_(Window!windowVars) PROVE WindowInv'
    OBVIOUS
  <2>1. CASE Window!Publish BY <2>1, WindowPublishStep
  <2>2. CASE \E c \in WindowConsumers : Window!Release(c) BY <2>2, WindowReleaseStep
  <2>3. CASE \E c \in WindowConsumers : Window!Commit(c) BY <2>3, WindowCommitStep
  <2>4. CASE UNCHANGED Window!windowVars
    BY <2>4 DEF Window!windowVars, WindowInv, Window!TypeOK, Window!ReleaseInOrder,
                Window!EdgeBound
  <2> QED BY <2>1, <2>2, <2>3, <2>4 DEF Window!Next
<1> QED BY <1>1, WindowInit, PTL DEF Window!Spec

\* A publisher that asks admits before every batch never finds more than
\* Capacity + 1 batches in any consumer's queue: BatchWindow::admits and release.
THEOREM QueueBounded ==
  ASSUME Window!WindowConstants
  PROVE  Window!Spec => []Window!EdgeBound
<1>1. WindowInv => Window!EdgeBound
  BY DEF WindowInv
<1> QED BY <1>1, WindowInvariant, PTL

\* A release never speaks of a batch the consumer has not been given, nor of one
\* later than the batch in its hands (BatchWindow::release).
THEOREM ReleasesInOrder ==
  ASSUME Window!WindowConstants
  PROVE  Window!Spec => []Window!ReleaseInOrder
<1>1. WindowInv => Window!ReleaseInOrder
  BY DEF WindowInv
<1> QED BY <1>1, WindowInvariant, PTL

-----------------------------------------------------------------------------
(* The session that the graph runs in, and the connection behind it         *)
(* (Session): for every number of parties and frames a sender that writes   *)
(* finds a ring that can be reached, the drain interval begins when nothing *)
(* more can be posted, and every way out releases the ring.                 *)

\* A message that has been said and not been heard.
Said(wire, m) == \E i \in 1 .. Len(wire) : wire[i] = m

Connecting == {"create", "dial", "hello", "accept", "attach", "post", "ready"}
Serving    == {"build", "run", "closing", "hangup"}
Leaving    == {"release", "deregister", "free", "exit", "exited"}

\* What the receiver holds at each point of its way.
ReceiverInv ==
  /\ receiverAt \in Connecting \cup Serving \cup Leaving
  /\ receiverAt \in (Connecting \ {"create"}) \cup Serving \cup {"release", "deregister"} => ring = "registered"
  /\ qp = "connected" => ring = "registered" /\ receiverAt \in {"post", "ready", "release", "exit"} \cup Serving
  /\ receiverAt \in {"post", "ready"} \cup Serving => qp = "connected"
  /\ receiverAt \in {"ready"} \cup Serving => posted
  /\ receiverAt \in Connecting \ {"ready"} => ~posted
  /\ posted => qp \in {"connected", "closed"}
  /\ session \in {"running", "stopping"} => receiverAt = "run"
  /\ receiverAt \in {"deregister", "free"} => qp = "closed"
  /\ receiverAt = "free" => ring = "allocated"
  /\ receiverAt = "create" => ring = "none" /\ qp = "none"
  /\ receiverAt = "exited" => ring = "none" /\ qp \in {"none", "closed"}

\* The sender knows of Ready only when RECEIVEs are posted.
ReadyInv ==
  /\ toSender \in Seq({"hello", "ready", "eof"}) /\ flight \in Nat
  /\ Said(toSender, "ready") \/ senderAt = "send" \/ flight > 0 => posted

Shaking == {"listen", "hello", "reply", "attach", "ready"}

\* Nothing is written before the handshake is over; Accept is said by a sender with a queue pair.
AcceptInv ==
  /\ toReceiver \in Seq({"accept", "eof"})
  /\ senderAt \in Shaking \cup {"unwind"} => written = 0 /\ flight = 0
  /\ senderAt \in {"attach", "ready"} => sqp # "none"
  /\ Said(toReceiver, "accept") \/ receiverAt \in {"attach", "post", "ready"} => sqp # "none"
  /\ live = "recv" \/ dead # "no" => sqp # "none"

\* A sender that hangs up has closed its queue pair, if it has one, or has left the handshake.
HangupInv ==
  /\ senderAt = "bye" => sqp = "closed"
  /\ senderAt = "exited" => sqp \in {"none", "closed"}
  /\ Said(toReceiver, "eof") \/ dead = "peer" => senderAt \in {"unwind", "exited"}

\* A link that is marked dead because the receiver closed it is being closed.
LinkInv ==
  /\ dead \in {"no", "peer", "error", "own"}
  /\ receiverAt \in Connecting => live = "none" /\ sock # "closed"
  /\ live \in {"none", "recv"} => dead = "no"
  /\ receiverAt = "hangup" \/ (sock = "closed" /\ live = "recv") \/ dead = "own" => closing
  /\ watch \in {"drain", "report"} \/ senderGone => dead \in {"error", "peer"}

SessionInv == ReceiverInv /\ ReadyInv /\ AcceptInv /\ HangupInv /\ LinkInv

-----------------------------------------------------------------------------
(* Messages of the socket.                                                  *)

\* A message that is said comes behind what has been said.
LEMMA Spoken ==
  ASSUME NEW S, NEW w \in Seq(S), NEW m \in S
  PROVE  /\ Append(w, m) \in Seq(S)
         /\ \A x : Said(Append(w, m), x) <=> Said(w, x) \/ x = m
<1>1. /\ Append(w, m) \in Seq(S)
      /\ Len(Append(w, m)) = Len(w) + 1
      /\ \A i \in 1 .. Len(w) : Append(w, m)[i] = w[i]
      /\ Append(w, m)[Len(w) + 1] = m
  BY AppendProperties
<1>2. Len(w) \in Nat
  BY LenProperties
<1>3. ASSUME NEW x, Said(w, x) PROVE Said(Append(w, m), x)
  BY <1>1, <1>2, <1>3 DEF Said
<1>4. Said(Append(w, m), m)
  BY <1>1, <1>2 DEF Said
<1>5. ASSUME NEW x, Said(Append(w, m), x) PROVE Said(w, x) \/ x = m
  <2>1. PICK i \in 1 .. Len(w) + 1 : Append(w, m)[i] = x
    BY <1>1, <1>5 DEF Said
  <2>2. CASE i = Len(w) + 1
    BY <2>1, <2>2, <1>1
  <2>3. CASE i \in 1 .. Len(w)
    BY <2>1, <2>3, <1>1 DEF Said
  <2> QED
    BY <2>2, <2>3, <1>2
<1> QED
  BY <1>1, <1>3, <1>4, <1>5

\* Hearing the first message brings up nothing that had not been said.
LEMMA Heard ==
  ASSUME NEW S, NEW w \in Seq(S), w # <<>>
  PROVE  /\ Tail(w) \in Seq(S)
         /\ Said(w, Head(w))
         /\ \A x : Said(Tail(w), x) => Said(w, x)
<1>1. /\ Head(w) \in S /\ Tail(w) \in Seq(S)
      /\ Len(Tail(w)) = Len(w) - 1
      /\ \A i \in 1 .. Len(Tail(w)) : Tail(w)[i] = w[i + 1]
  BY HeadTailProperties
<1>2. Len(w) \in Nat /\ Len(w) # 0
  BY LenProperties, EmptySeq
<1>3. Head(w) = w[1]
  OBVIOUS
<1>4. Said(w, Head(w))
  BY <1>2, <1>3 DEF Said
<1>5. ASSUME NEW x, Said(Tail(w), x) PROVE Said(w, x)
  <2>1. PICK i \in 1 .. Len(w) - 1 : Tail(w)[i] = x
    BY <1>1, <1>5 DEF Said
  <2>2. w[i + 1] = x /\ i + 1 \in 1 .. Len(w)
    BY <2>1, <1>1, <1>2
  <2> QED
    BY <2>2 DEF Said
<1> QED
  BY <1>1, <1>4, <1>5

-----------------------------------------------------------------------------
(* Every step keeps the invariant.                                          *)

USE DEF receiver, run, threads, sender, wires, Says, Hears, Connecting, Serving, Leaving, Shaking

\* A constructor leaves a registered ring and an open queue pair, or nothing.
LEMMA CreateKeeps == SessionInv /\ Create => SessionInv'
  BY DEF SessionInv, ReceiverInv, ReadyInv, AcceptInv, HangupInv, LinkInv, Create

\* The ring is registered before the socket exists.
LEMMA DialKeeps == SessionInv /\ Dial => SessionInv'
  BY DEF SessionInv, ReceiverInv, ReadyInv, AcceptInv, HangupInv, LinkInv, Dial

\* The queue pair is connected before RECEIVEs are posted.
LEMMA AttachKeeps == SessionInv /\ Attach => SessionInv'
  BY DEF SessionInv, ReceiverInv, ReadyInv, AcceptInv, HangupInv, LinkInv, Attach

\* RECEIVEs are posted on a connected queue pair.
LEMMA PostRecvsKeeps == SessionInv /\ PostRecvs => SessionInv'
  BY DEF SessionInv, ReceiverInv, ReadyInv, AcceptInv, HangupInv, LinkInv, PostRecvs

\* A run begins with the ring registered and the queue pair connected.
LEMMA BuildKeeps == SessionInv /\ Build => SessionInv'
  BY DEF SessionInv, ReceiverInv, ReadyInv, AcceptInv, HangupInv, LinkInv, Build

\* A turn of the loop leaves what the operators were given alone.
LEMMA TurnKeeps == SessionInv /\ Turn => SessionInv'
  BY DEF SessionInv, ReceiverInv, ReadyInv, AcceptInv, HangupInv, LinkInv, Turn, StopAsked, SessionOver

\* The loop is left when the runtime has ended.
LEMMA LeaveLoopKeeps == SessionInv /\ LeaveLoop => SessionInv'
  BY DEF SessionInv, ReceiverInv, ReadyInv, AcceptInv, HangupInv, LinkInv, LeaveLoop, SessionOver

\* A signal only asks.
LEMMA SignalKeeps == SessionInv /\ Signal => SessionInv'
  BY DEF SessionInv, ReceiverInv, ReadyInv, AcceptInv, HangupInv, LinkInv, Signal

\* The runtime stops when asked.
LEMMA StopRunKeeps == SessionInv /\ StopRun => SessionInv'
  BY DEF SessionInv, ReceiverInv, ReadyInv, AcceptInv, HangupInv, LinkInv, StopRun

\* An operator that reports ready changes no hold on ring and queue pair.
LEMMA ReportKeeps == SessionInv /\ Report => SessionInv'
  BY DEF SessionInv, ReceiverInv, ReadyInv, AcceptInv, HangupInv, LinkInv, Report

\* Nor does the deadline.
LEMMA PassKeeps == SessionInv /\ Pass => SessionInv'
  BY DEF SessionInv, ReceiverInv, ReadyInv, AcceptInv, HangupInv, LinkInv, Pass

\* The runtime may end by itself.
LEMMA EndRunKeeps == SessionInv /\ EndRun => SessionInv'
  BY DEF SessionInv, ReceiverInv, ReadyInv, AcceptInv, HangupInv, LinkInv, EndRun

\* The liveness and watch threads are told before the socket is closed.
LEMMA SetClosingKeeps == SessionInv /\ SetClosing => SessionInv'
  BY DEF SessionInv, ReceiverInv, ReadyInv, AcceptInv, HangupInv, LinkInv, SetClosing, Announced

\* A signal in the finally clauses skips the socket, not the queue pair.
LEMMA InterruptKeeps == SessionInv /\ Interrupt => SessionInv'
  BY DEF SessionInv, ReceiverInv, ReadyInv, AcceptInv, HangupInv, LinkInv, Interrupt

\* The queue pair is closed while the ring is registered.
LEMMA CloseQpKeeps == SessionInv /\ CloseQp => SessionInv'
  BY DEF SessionInv, ReceiverInv, ReadyInv, AcceptInv, HangupInv, LinkInv, CloseQp

\* The registration ends with no queue pair connected.
LEMMA DeregisterKeeps == SessionInv /\ Deregister => SessionInv'
  BY DEF SessionInv, ReceiverInv, ReadyInv, AcceptInv, HangupInv, LinkInv, Deregister

\* The ring is freed when it is no longer registered.
LEMMA FreeKeeps == SessionInv /\ Free => SessionInv'
  BY DEF SessionInv, ReceiverInv, ReadyInv, AcceptInv, HangupInv, LinkInv, Free

\* A link that fails is dead for another reason than the peer's close.
LEMMA SeeErrorKeeps == SessionInv /\ SeeError => SessionInv'
  BY DEF SessionInv, ReceiverInv, ReadyInv, AcceptInv, HangupInv, LinkInv, SeeError, Dies

\* The receiver's own close follows its announcement.
LEMMA SeeOwnKeeps == SessionInv /\ SeeOwn => SessionInv'
  BY DEF SessionInv, ReceiverInv, ReadyInv, AcceptInv, HangupInv, LinkInv, SeeOwn, Dies

\* The watch thread does not drain after the receiver's own close.
LEMMA WakeKeeps == SessionInv /\ Wake => SessionInv'
  BY DEF SessionInv, ReceiverInv, ReadyInv, AcceptInv, HangupInv, LinkInv, Wake

\* The drain interval ends with the reason it began with.
LEMMA DrainKeeps == SessionInv /\ Drain => SessionInv'
  BY DEF SessionInv, ReceiverInv, ReadyInv, AcceptInv, HangupInv, LinkInv, Drain

\* The sender is reported gone for the same reason.
LEMMA ReportGoneKeeps == SessionInv /\ ReportGone => SessionInv'
  BY DEF SessionInv, ReceiverInv, ReadyInv, AcceptInv, HangupInv, LinkInv, ReportGone

\* The sender meets the socket.
LEMMA AcceptTcpKeeps == SessionInv /\ AcceptTcp => SessionInv'
  BY DEF SessionInv, ReceiverInv, ReadyInv, AcceptInv, HangupInv, LinkInv, AcceptTcp

\* The sender connects its queue pair before it waits for Ready.
LEMMA AttachBackKeeps == SessionInv /\ AttachBack => SessionInv'
  BY DEF SessionInv, ReceiverInv, ReadyInv, AcceptInv, HangupInv, LinkInv, AttachBack

\* A frame is written once Ready has been heard.
LEMMA WriteKeeps == SessionInv /\ Write => SessionInv'
  BY DEF SessionInv, ReceiverInv, ReadyInv, AcceptInv, HangupInv, LinkInv, Write

\* A write that is carried out or fails is one less on its way.
LEMMA PlaceKeeps == SessionInv /\ Place => SessionInv'
  BY DEF SessionInv, ReceiverInv, ReadyInv, AcceptInv, HangupInv, LinkInv, Place

\* The sender has written everything and stays connected.
LEMMA AllSentKeeps == SessionInv /\ AllSent => SessionInv'
  BY DEF SessionInv, ReceiverInv, ReadyInv, AcceptInv, HangupInv, LinkInv, AllSent

\* A sender that is cut short goes to close.
LEMMA CutKeeps == SessionInv /\ Cut => SessionInv'
  BY DEF SessionInv, ReceiverInv, ReadyInv, AcceptInv, HangupInv, LinkInv, Cut

\* The sender's queue pair is closed before its socket.
LEMMA CloseSenderKeeps == SessionInv /\ CloseSender => SessionInv'
  BY DEF SessionInv, ReceiverInv, ReadyInv, AcceptInv, HangupInv, LinkInv, CloseSender

\* A lost network changes neither side.
LEMMA LoseKeeps == SessionInv /\ Lose => SessionInv'
  BY DEF SessionInv, ReceiverInv, ReadyInv, AcceptInv, HangupInv, LinkInv, Lose

\* Hello says nothing of RECEIVEs.
LEMMA SayHelloKeeps == SessionInv /\ SayHello => SessionInv'
  BY Spoken, Heard DEF SessionInv, ReceiverInv, ReadyInv, AcceptInv, HangupInv, LinkInv, SayHello

\* Accept takes nothing from the wire but itself.
LEMMA HearAcceptKeeps == SessionInv /\ HearAccept => SessionInv'
  BY Spoken, Heard DEF SessionInv, ReceiverInv, ReadyInv, AcceptInv, HangupInv, LinkInv, HearAccept

\* Ready is said with RECEIVEs posted.
LEMMA SayReadyKeeps == SessionInv /\ SayReady => SessionInv'
  BY Spoken, Heard DEF SessionInv, ReceiverInv, ReadyInv, AcceptInv, HangupInv, LinkInv, SayReady

\* A handshake that fails ends with the ring still registered.
LEMMA AbortKeeps == SessionInv /\ Abort => SessionInv'
  BY Spoken, Heard DEF SessionInv, ReceiverInv, ReadyInv, AcceptInv, HangupInv, LinkInv, Abort

\* The socket is closed after the announcement.
LEMMA HangUpKeeps == SessionInv /\ HangUp => SessionInv'
  BY Spoken, Heard DEF SessionInv, ReceiverInv, ReadyInv, AcceptInv, HangupInv, LinkInv, HangUp

\* What close could not release goes with the process.
LEMMA CloseFailsKeeps == SessionInv /\ CloseFails => SessionInv'
  BY DEF SessionInv, ReceiverInv, ReadyInv, AcceptInv, HangupInv, LinkInv, CloseFails

\* The process ends with queue pair and ring gone.
LEMMA ExitKeeps == SessionInv /\ Exit => SessionInv'
  BY Spoken, Heard DEF SessionInv, ReceiverInv, ReadyInv, AcceptInv, HangupInv, LinkInv, Exit

\* A close that is seen was the sender's last act.
LEMMA SeeEofKeeps == SessionInv /\ SeeEof => SessionInv'
  BY Spoken, Heard DEF SessionInv, ReceiverInv, ReadyInv, AcceptInv, HangupInv, LinkInv, SeeEof, Dies

\* Hello is heard once.
LEMMA HearHelloKeeps == SessionInv /\ HearHello => SessionInv'
  BY Spoken, Heard DEF SessionInv, ReceiverInv, ReadyInv, AcceptInv, HangupInv, LinkInv, HearHello

\* Accept is not a close.
LEMMA ReplyKeeps == SessionInv /\ Reply => SessionInv'
  BY Spoken, Heard DEF SessionInv, ReceiverInv, ReadyInv, AcceptInv, HangupInv, LinkInv, Reply

\* Ready is heard when it has been said.
LEMMA HearReadyKeeps == SessionInv /\ HearReady => SessionInv'
  BY Spoken, Heard DEF SessionInv, ReceiverInv, ReadyInv, AcceptInv, HangupInv, LinkInv, HearReady

\* A handshake that fails at the sender closes its socket before a queue pair that never wrote.
LEMMA RefuseKeeps == SessionInv /\ Refuse => SessionInv'
<1> SUFFICES ASSUME SessionInv, Refuse PROVE SessionInv'
  OBVIOUS
<1> USE DEF SessionInv, Refuse, LeaveHandshake
<1>1. ReceiverInv' /\ ReadyInv' /\ LinkInv'
  BY DEF ReceiverInv, ReadyInv, LinkInv
<1>2. /\ toReceiver' \in Seq({"accept", "eof"})
      /\ Said(toReceiver', "accept") => Said(toReceiver, "accept")
      /\ sqp # "none" => sqp' # "none"
  BY Spoken DEF AcceptInv
<1>3. AcceptInv' /\ HangupInv'
  BY <1>2 DEF AcceptInv, HangupInv
<1> QED
  BY <1>1, <1>3

\* Its queue pair goes with its interpreter.
LEMMA UnwindKeeps == SessionInv /\ Unwind => SessionInv'
  BY DEF SessionInv, ReceiverInv, ReadyInv, AcceptInv, HangupInv, LinkInv, Unwind

\* The receiver's close sends a sender that has written to close its queue pair first.
LEMMA HearEofKeeps == SessionInv /\ HearEof => SessionInv'
<1> SUFFICES ASSUME SessionInv, HearEof PROVE SessionInv'
  OBVIOUS
<1> USE DEF SessionInv, HearEof, LeaveHandshake
<1>1. ReceiverInv' /\ LinkInv'
  BY DEF ReceiverInv, LinkInv
<1>2. ReadyInv'
  BY Heard DEF ReadyInv
<1>3. /\ toReceiver' \in Seq({"accept", "eof"})
      /\ Said(toReceiver', "accept") => Said(toReceiver, "accept")
      /\ Said(toReceiver', "eof") => Said(toReceiver, "eof") \/ senderAt' = "unwind"
  <2>1. toReceiver \in Seq({"accept", "eof"})
    BY DEF AcceptInv
  <2>2. CASE senderAt' = "unwind" /\ toReceiver' = Append(toReceiver, "eof")
    BY <2>1, <2>2, Spoken
  <2>3. CASE UNCHANGED toReceiver
    BY <2>1, <2>3
  <2> QED
    BY <2>2, <2>3
<1>4. AcceptInv' /\ HangupInv'
  BY <1>3 DEF AcceptInv, HangupInv
<1> QED
  BY <1>1, <1>2, <1>4

\* The sender's socket is closed behind its queue pair.
LEMMA ByeKeeps == SessionInv /\ Bye => SessionInv'
  BY Spoken, Heard DEF SessionInv, ReceiverInv, ReadyInv, AcceptInv, HangupInv, LinkInv, Bye

-----------------------------------------------------------------------------
\* The inductive invariant: what the receiver holds at each point of its way, that RECEIVEs are
\* posted when the sender knows of Ready, that a sender which hangs up has closed its queue pair or
\* never got beyond the handshake, and that a link marked dead by the receiver's own close is being
\* closed (connection.py:57, 66, 91).
THEOREM SessionInvariance == SessionSpec => []SessionInv
<1>1. SessionInit => SessionInv
  BY EmptySeq DEF SessionInit, SessionInv, ReceiverInv, ReadyInv, AcceptInv, HangupInv, LinkInv, Said
<1>2. SessionInv /\ [SessionNext]_sessionVars => SessionInv'
  <2> SUFFICES ASSUME SessionInv, [SessionNext]_sessionVars PROVE SessionInv'
    OBVIOUS
  <2>1. CASE Connect
    BY <2>1, CreateKeeps, DialKeeps, SayHelloKeeps, HearAcceptKeeps, AttachKeeps, PostRecvsKeeps,
       SayReadyKeeps DEF Connect
  <2>2. CASE Abort \/ Build \/ Turn \/ LeaveLoop \/ Signal \/ StopRun \/ Ticks \/ Interrupt
    BY <2>2, AbortKeeps, BuildKeeps, TurnKeeps, LeaveLoopKeeps, SignalKeeps, StopRunKeeps, ReportKeeps,
       PassKeeps, EndRunKeeps, InterruptKeeps DEF Ticks
  <2>3. CASE Closes
    BY <2>3, SetClosingKeeps, HangUpKeeps, CloseQpKeeps, DeregisterKeeps, FreeKeeps, ExitKeeps DEF Closes
  <2>4. CASE SeeEof \/ SeeError \/ SeeOwn \/ Wake \/ Drain \/ ReportGone
    BY <2>4, SeeEofKeeps, SeeErrorKeeps, SeeOwnKeeps, WakeKeeps, DrainKeeps, ReportGoneKeeps
  <2>5. CASE Shake
    BY <2>5, HearHelloKeeps, ReplyKeeps, AttachBackKeeps, HearReadyKeeps, HearEofKeeps DEF Shake
  <2>6. CASE AcceptTcp \/ Refuse \/ Write \/ Place \/ AllSent \/ Cut \/ CloseSender \/ Bye
               \/ Unwind \/ CloseFails \/ Lose
    BY <2>6, AcceptTcpKeeps, RefuseKeeps, WriteKeeps, PlaceKeeps, AllSentKeeps, CutKeeps,
       CloseSenderKeeps, ByeKeeps, UnwindKeeps, CloseFailsKeeps, LoseKeeps
  <2>7. CASE UNCHANGED sessionVars
    BY <2>7 DEF sessionVars, SessionInv, ReceiverInv, ReadyInv, AcceptInv, HangupInv, LinkInv
  <2> QED
    BY <2>1, <2>2, <2>3, <2>4, <2>5, <2>6, <2>7 DEF SessionNext
<1> QED
  BY <1>1, <1>2, PTL DEF SessionSpec

\* A sender that may write finds a registered ring and posted RECEIVEs or a queue pair that refuses
\* it, and the runtime's operators never outlive the ring and the queue pair (connection.py:57, 66,
\* app.py:70).
THEOREM RingIsReachable == SessionSpec => []RingReachable
<1>1. SessionInv => RingReachable
  BY DEF SessionInv, ReceiverInv, ReadyInv, RingReachable
<1> QED
  BY <1>1, SessionInvariance, PTL

\* The drain interval begins when the sender can post nothing more, its queue pair being closed or
\* its handshake having failed, or on a socket that fails (connection.py:91, rdma_sender.py:269).
THEOREM DrainBeginsAtTheEnd == SessionSpec => []DrainIsFinal
<1>1. SessionInv => DrainIsFinal
  BY DEF SessionInv, AcceptInv, HangupInv, LinkInv, DrainIsFinal
<1> QED
  BY <1>1, SessionInvariance, PTL

\* Whichever exception or signal ends the receiver, its process ends with the queue pair closed and
\* the ring neither registered nor allocated (app.py main, connection.py:66).
THEOREM ExitReleases == SessionSpec => [](receiverAt = "exited" => Released)
<1>1. SessionInv => (receiverAt = "exited" => Released)
  BY DEF SessionInv, ReceiverInv, Released
<1> QED
  BY <1>1, SessionInvariance, PTL

=============================================================================
