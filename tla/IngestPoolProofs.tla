--------------------------- MODULE IngestPoolProofs ---------------------------
(***************************************************************************)
(* END is behind every batch, and the image saved is whole, for every pool  *)
(* of decoders, every stream and every size of the queues.                  *)
(***************************************************************************)
EXTENDS IngestMain, SequenceTheorems, FiniteSetTheorems, WellFoundedInduction, TLAPS

\* The out queue as a sequence, whatever the batches in it hold.
Items(q) == {q[i] : i \in 1 .. Len(q)}
IsQueue(q) == q \in Seq(Items(q))

QueueInv ==
  /\ IsQueue(outQ)
  /\ joiner \in {"join", "done"}
  /\ pool = DOMAIN at /\ pool = DOMAIN hand
  /\ at = [d \in pool |-> at[d]] /\ hand = [d \in pool |-> hand[d]]

HandInv == \A d \in pool : at[d] # "emit" => hand[d] = <<>>

AllEnded == joiner = "done" => \A d \in pool : Ended(d)

EndInv == \A i \in 1 .. Len(outQ) : outQ[i].end <=> (joiner = "done" /\ i = Len(outQ))

DoneInv == consumer = "done" => outQ = <<>> /\ joiner = "done"

IInv == QueueInv /\ HandInv /\ AllEnded /\ EndInv /\ DoneInv

-----------------------------------------------------------------------------
(* Queues                                                                    *)

LEMMA Reseated ==
  ASSUME NEW S, NEW q \in Seq(S)
  PROVE  q \in Seq(Items(q))
<1>1. Len(q) \in Nat /\ q \in [1 .. Len(q) -> S]
  BY LenProperties
<1>2. q \in [1 .. Len(q) -> Items(q)]
  BY <1>1 DEF Items
<1> QED
  BY <1>1, <1>2, SeqDef

LEMMA AppendQueue ==
  ASSUME NEW q, NEW x, IsQueue(q)
  PROVE  /\ IsQueue(Append(q, x)) /\ Append(q, x) # <<>>
         /\ Len(q) \in Nat /\ Len(Append(q, x)) = Len(q) + 1
         /\ \A i \in 1 .. Len(q) : Append(q, x)[i] = q[i]
         /\ Append(q, x)[Len(q) + 1] = x
<1> DEFINE S == Items(q) \cup {x}
           a == Append(q, x)
<1>1. q \in Seq(S)
  BY DEF IsQueue
<1> HIDE DEF S
<1>2. x \in S
  BY DEF S
<1>3. /\ a \in Seq(S) /\ Len(q) \in Nat /\ Len(a) = Len(q) + 1
      /\ \A i \in 1 .. Len(q) : a[i] = q[i]
      /\ a[Len(q) + 1] = x
  BY <1>1, <1>2, AppendProperties
<1>4. a \in Seq(Items(a))
  BY <1>3, Reseated
<1>5. a # <<>>
  BY <1>3, EmptySeq
<1> QED
  BY <1>3, <1>4, <1>5 DEF IsQueue

LEMMA TailQueue ==
  ASSUME NEW q, IsQueue(q), q # <<>>
  PROVE  /\ IsQueue(Tail(q)) /\ Head(q) = q[1]
         /\ Len(q) \in Nat \ {0} /\ Len(Tail(q)) = Len(q) - 1
         /\ \A i \in 1 .. Len(Tail(q)) : Tail(q)[i] = q[i + 1]
         /\ Len(q) = 1 => Tail(q) = <<>>
<1> DEFINE S == Items(q)
           t == Tail(q)
<1>1. q \in Seq(S)
  BY DEF IsQueue
<1> HIDE DEF S
<1>2. /\ t \in Seq(S) /\ Head(q) = q[1]
      /\ Len(q) \in Nat \ {0} /\ Len(t) = Len(q) - 1
      /\ \A i \in 1 .. Len(t) : t[i] = q[i + 1]
  BY <1>1, HeadTailProperties, EmptySeq, LenProperties
<1>3. t \in Seq(Items(t))
  BY <1>2, Reseated
<1>4. t # <<>> => Len(t) \in Nat \ {0}
  BY <1>2, EmptySeq
<1>5. Len(q) = 1 => t = <<>>
  BY <1>2, <1>4
<1> QED
  BY <1>2, <1>3, <1>5 DEF IsQueue

-----------------------------------------------------------------------------
(* The steps                                                                 *)

LEMMA InitInvariant == Init => IInv
<1> SUFFICES ASSUME Init PROVE IInv
  OBVIOUS
<1>1. outQ = <<>> /\ Len(outQ) = 0 /\ IsQueue(outQ)
  BY EmptySeq DEF Init, IsQueue
<1>2. QueueInv
  BY <1>1 DEF Init, QueueInv
<1> QED
  BY <1>1, <1>2 DEF Init, IInv, HandInv, AllEnded, EndInv, DoneInv

\* What the invariant reads.
queueVars == <<pool, outQ, at, hand, joiner, consumer>>

LEMMA Untouched == IInv /\ UNCHANGED queueVars => IInv'
  BY DEF IInv, QueueInv, HandInv, AllEnded, EndInv, DoneInv, Ended, IsQueue, Items, queueVars

\* A decoder that runs and puts nothing out.
LEMMA DecoderMoves ==
  ASSUME IInv, NEW d \in pool, ~Ended(d),
         NEW place, at' = [at EXCEPT ![d] = place],
         NEW batch, hand' = [hand EXCEPT ![d] = batch],
         place # "emit" => batch = <<>>,
         UNCHANGED <<pool, outQ, joiner, consumer>>
  PROVE  IInv'
<1>1. joiner # "done"
  BY DEF IInv, AllEnded
<1>2. QueueInv'
  BY DEF IInv, QueueInv, IsQueue, Items
<1>3. HandInv'
  BY DEF IInv, QueueInv, HandInv
<1> QED
  BY <1>1, <1>2, <1>3 DEF IInv, AllEnded, EndInv, DoneInv

\* The decoder has a batch of those images to put out.
Emits(images) == images # <<>> /\ ~Dies(images) /\ ~Dropped(images)

LEMMA TakeIs ==
  ASSUME NEW d, Take(d)
  PROVE  LET images == Readables(Head(rawQ))
         IN /\ at' = [at EXCEPT ![d] = IF Emits(images) THEN "emit" ELSE IF Dies(images) THEN "died" ELSE "wait"]
            /\ hand' = [hand EXCEPT ![d] = IF Emits(images) THEN images ELSE <<>>]
            /\ errors' = errors \cup {stream[i].id : i \in {j \in ToSet(Head(rawQ)) : ~Emits(images) \/ ~Readable(j)}}
            /\ at[d] = "wait" /\ rawQ # <<>> /\ rawQ' = Tail(rawQ)
            /\ UNCHANGED <<source, prod, outQ, stop, joiner, consumer, image, tally, stats, overtaken>>
<1>1. at' = [at EXCEPT ![d] = IF Emits(Readables(Head(rawQ))) THEN "emit"
                              ELSE IF Dies(Readables(Head(rawQ))) THEN "died" ELSE "wait"]
  BY DEF Take, Emits
<1>2. hand' = [hand EXCEPT ![d] = IF Emits(Readables(Head(rawQ))) THEN Readables(Head(rawQ)) ELSE <<>>]
  BY DEF Take, Emits
<1>3. errors' = errors \cup {stream[i].id : i \in {j \in ToSet(Head(rawQ)) : ~Emits(Readables(Head(rawQ))) \/ ~Readable(j)}}
  BY DEF Take, Emits
<1>4. /\ at[d] = "wait" /\ rawQ # <<>> /\ rawQ' = Tail(rawQ)
      /\ UNCHANGED <<source, prod, outQ, stop, joiner, consumer, image, tally, stats, overtaken>>
  BY DEF Take
<1> QED
  BY <1>1, <1>2, <1>3, <1>4

LEMMA DecodeInvariant ==
  ASSUME IInv, NEW d \in pool, Decode(d)
  PROVE  IInv'
<1> USE DEF source, prod
<1>h. hand = [hand EXCEPT ![d] = hand[d]]
  BY DEF IInv, QueueInv
<1>1. CASE Build(d)
  <2>1. hand[d] = <<>> /\ ~Ended(d)
    BY <1>1 DEF Build, Ended, IInv, HandInv
  <2>2. PICK place \in {"wait", "exited"} : at' = [at EXCEPT ![d] = place]
    BY <1>1 DEF Build
  <2> QED
    BY <1>1, <1>h, <2>1, <2>2, DecoderMoves DEF Build
<1>2. CASE Take(d)
  <2> DEFINE images == Readables(Head(rawQ))
             place == IF Emits(images) THEN "emit" ELSE IF Dies(images) THEN "died" ELSE "wait"
             batch == IF Emits(images) THEN images ELSE <<>>
  <2>1. at' = [at EXCEPT ![d] = place] /\ hand' = [hand EXCEPT ![d] = batch]
    BY <1>2, TakeIs
  <2>2. ~Ended(d) /\ (place # "emit" => batch = <<>>)
    BY <1>2 DEF Take, Ended
  <2>3. UNCHANGED <<pool, outQ, joiner, consumer>>
    BY <1>2 DEF Take
  <2> HIDE DEF images, place, batch
  <2> QED
    BY <2>1, <2>2, <2>3, DecoderMoves
<1>3. CASE FindEmpty(d)
  <2>1. hand[d] = <<>> /\ ~Ended(d)
    BY <1>3 DEF FindEmpty, Ended, IInv, HandInv
  <2> QED
    BY <1>3, <1>h, <2>1, DecoderMoves DEF FindEmpty
<1>4. CASE Check(d)
  <2>1. hand[d] = <<>> /\ ~Ended(d)
    BY <1>4 DEF Check, Ended, IInv, HandInv
  <2>2. PICK place \in {"wait", "exited"} : at' = [at EXCEPT ![d] = place]
    BY <1>4 DEF Check
  <2> QED
    BY <1>4, <1>h, <2>1, <2>2, DecoderMoves DEF Check
<1>5. CASE Emit(d)
  <2> DEFINE b == Batch(hand[d])
  <2>1. joiner # "done" /\ b.end = FALSE
    BY <1>5 DEF Emit, IInv, AllEnded, Ended, Batch
  <2>2. outQ' = Append(outQ, b)
    BY <1>5 DEF Emit
  <2>3. /\ at' = [at EXCEPT ![d] = "count"] /\ hand' = [hand EXCEPT ![d] = <<>>]
        /\ UNCHANGED <<pool, joiner, consumer>>
    BY <1>5 DEF Emit
  <2> HIDE DEF b
  <2>4. /\ IsQueue(outQ') /\ Len(outQ) \in Nat /\ Len(outQ') = Len(outQ) + 1
        /\ \A i \in 1 .. Len(outQ) : outQ'[i] = outQ[i]
        /\ outQ'[Len(outQ) + 1] = b
    BY <2>2, AppendQueue DEF IInv, QueueInv
  <2>5. QueueInv'
    BY <2>3, <2>4 DEF IInv, QueueInv, IsQueue, Items
  <2>6. HandInv'
    BY <2>3 DEF IInv, QueueInv, HandInv
  <2>7. EndInv'
    <3>1. \A i \in 1 .. Len(outQ') : outQ'[i].end = FALSE
      <4> SUFFICES ASSUME NEW i \in 1 .. Len(outQ') PROVE outQ'[i].end = FALSE
        OBVIOUS
      <4>1. CASE i = Len(outQ) + 1
        BY <2>1, <2>4, <4>1
      <4>2. CASE i # Len(outQ) + 1
        <5>1. i \in 1 .. Len(outQ)
          BY <2>4, <4>2
        <5>2. outQ[i].end <=> FALSE
          BY <2>1, <5>1 DEF IInv, EndInv
        <5> QED
          BY <2>4, <5>1, <5>2
      <4> QED
        BY <4>1, <4>2
    <3> QED
      BY <2>1, <2>3, <3>1 DEF EndInv
  <2> QED
    BY <2>1, <2>3, <2>5, <2>6, <2>7 DEF IInv, AllEnded, DoneInv
<1>6. CASE Count(d)
  <2>1. hand[d] = <<>> /\ ~Ended(d)
    BY <1>6 DEF Count, Ended, IInv, HandInv
  <2> QED
    BY <1>6, <1>h, <2>1, DecoderMoves DEF Count
<1> QED
  BY <1>1, <1>2, <1>3, <1>4, <1>5, <1>6 DEF Decode

LEMMA JoinInvariant == IInv /\ Join => IInv'
<1> SUFFICES ASSUME IInv, Join PROVE IInv'
  OBVIOUS
<1> USE DEF source, prod
<1>1. /\ joiner = "join" /\ joiner' = "done" /\ outQ' = Append(outQ, EndMark)
      /\ \A d \in pool : Ended(d)
      /\ UNCHANGED <<pool, at, hand, consumer>>
  BY DEF Join, Joined
<1>2. /\ IsQueue(outQ') /\ Len(outQ) \in Nat /\ Len(outQ') = Len(outQ) + 1
      /\ \A i \in 1 .. Len(outQ) : outQ'[i] = outQ[i]
      /\ outQ'[Len(outQ) + 1] = EndMark
  BY <1>1, AppendQueue DEF IInv, QueueInv
<1>3. QueueInv'
  BY <1>1, <1>2 DEF IInv, QueueInv, IsQueue, Items
<1>4. EndInv'
  <2> SUFFICES ASSUME NEW i \in 1 .. Len(outQ')
               PROVE  outQ'[i].end <=> i = Len(outQ')
    BY <1>1 DEF EndInv
  <2>1. CASE i = Len(outQ) + 1
    BY <1>2, <2>1 DEF EndMark
  <2>2. CASE i # Len(outQ) + 1
    <3>1. i \in 1 .. Len(outQ) /\ i # Len(outQ')
      BY <1>2, <2>2
    <3>2. outQ[i].end <=> FALSE
      BY <1>1, <3>1 DEF IInv, EndInv
    <3> QED
      BY <1>2, <3>1, <3>2
  <2> QED
    BY <2>1, <2>2
<1>5. HandInv' /\ AllEnded' /\ DoneInv'
  BY <1>1 DEF IInv, HandInv, AllEnded, DoneInv, Ended
<1> QED
  BY <1>3, <1>4, <1>5 DEF IInv

LEMMA ConsumeInvariant == IInv /\ Consume => IInv'
<1> SUFFICES ASSUME IInv, Consume PROVE IInv'
  OBVIOUS
<1> USE DEF source, prod
<1>1. /\ outQ # <<>> /\ outQ' = Tail(outQ) /\ consumer = "run"
      /\ UNCHANGED <<pool, at, hand, joiner>>
  BY DEF Consume
<1>2. /\ IsQueue(outQ') /\ Head(outQ) = outQ[1]
      /\ Len(outQ) \in Nat \ {0} /\ Len(outQ') = Len(outQ) - 1
      /\ \A i \in 1 .. Len(outQ') : outQ'[i] = outQ[i + 1]
      /\ Len(outQ) = 1 => outQ' = <<>>
  BY <1>1, TailQueue DEF IInv, QueueInv
<1>3. QueueInv'
  BY <1>1, <1>2 DEF IInv, QueueInv, IsQueue, Items
<1>4. EndInv'
  <2> SUFFICES ASSUME NEW i \in 1 .. Len(outQ')
               PROVE  outQ'[i].end <=> (joiner = "done" /\ i = Len(outQ'))
    BY <1>1 DEF EndInv
  <2>1. i + 1 \in 1 .. Len(outQ) /\ (i + 1 = Len(outQ) <=> i = Len(outQ'))
    BY <1>2
  <2>2. outQ[i + 1].end <=> (joiner = "done" /\ i + 1 = Len(outQ))
    BY <2>1 DEF IInv, EndInv
  <2> QED
    BY <1>2, <2>1, <2>2
<1>5. DoneInv'
  <2> SUFFICES ASSUME consumer' = "done" PROVE outQ' = <<>> /\ joiner' = "done"
    BY DEF DoneInv
  <2>1. Head(outQ).end
    BY <1>1 DEF Consume
  <2>2. 1 \in 1 .. Len(outQ)
    BY <1>2
  <2>3. joiner = "done" /\ 1 = Len(outQ)
    BY <1>2, <2>1, <2>2 DEF IInv, EndInv
  <2> QED
    BY <1>1, <1>2, <2>3
<1>6. HandInv' /\ AllEnded'
  BY <1>1 DEF IInv, HandInv, AllEnded, Ended
<1> QED
  BY <1>3, <1>4, <1>5, <1>6 DEF IInv

LEMMA StepInvariant == IInv /\ [Next]_vars => IInv'
<1> SUFFICES ASSUME IInv, [Next]_vars PROVE IInv'
  OBVIOUS
<1>1. CASE Gate
  BY <1>1, Untouched DEF Gate, source, queueVars
<1>2. CASE Receive
  BY <1>2, Untouched DEF Receive, source, queueVars
<1>3. CASE PutChunk
  BY <1>3, Untouched DEF PutChunk, source, queueVars
<1>4. CASE GiveUp
  BY <1>4, Untouched DEF GiveUp, source, queueVars
<1>5. CASE Leave
  BY <1>5, Untouched DEF Leave, source, queueVars
<1>6. CASE Join
  BY <1>6, JoinInvariant
<1>7. CASE Consume
  BY <1>7, ConsumeInvariant
<1>8. CASE \E d \in pool : Decode(d)
  BY <1>8, DecodeInvariant
<1>9. CASE UNCHANGED vars
  BY <1>9, Untouched DEF vars, source, queueVars
<1> QED
  BY <1>1, <1>2, <1>3, <1>4, <1>5, <1>6, <1>7, <1>8, <1>9 DEF Next

\* The counters of the queues, the places of the decoders and the joiner agree at every step of
\* the intake (pipeline.py _BatchedDecodingSource).
THEOREM PoolInvariant == Spec => []IInv
  BY InitInvariant, StepInvariant, PTL DEF Spec

\* END is queued after every batch, by a pool none of whose threads holds one, and the caller of
\* run_pipeline_batched that meets it has left nothing behind.
THEOREM EndComesLast == Spec => []EndIsLast
<1>1. IInv => EndIsLast
  <2> SUFFICES ASSUME IInv PROVE EndIsLast
    OBVIOUS
  <2>1. joiner = "done" => \A d \in pool : Ended(d) /\ hand[d] = <<>>
    BY DEF IInv, HandInv, AllEnded, Ended
  <2> QED
    BY <2>1 DEF IInv, EndInv, DoneInv, EndIsLast
<1> QED
  BY <1>1, PoolInvariant, PTL

LEMMA MainStepsPool ==
  ASSUME [MainNext]_allVars
  PROVE  [Next]_vars
<1>1. CASE Setup \/ Show \/ Interrupt \/ StopShowing \/ Return \/ Report \/ CloseWindow
  BY <1>1 DEF Setup, Show, Interrupt, StopShowing, Return, Report, CloseWindow
<1>2. CASE Runs(Next)
  BY <1>2 DEF Runs
<1>3. CASE UNCHANGED allVars
  BY <1>3 DEF allVars
<1> QED
  BY <1>1, <1>2, <1>3 DEF MainNext

\* Nothing the program around the intake does, an interrupt or a redraw included, disturbs the
\* pool: each of its steps is a step of the pool or leaves it alone (main.py:127-141).
THEOREM MainImplementsPool == MainSpec => Spec
<1>1. MainInit => Init
  BY DEF MainInit
<1>2. [MainNext]_allVars => [Next]_vars
  BY MainStepsPool
<1> QED
  BY <1>1, <1>2, PTL DEF MainSpec, Spec

COROLLARY MainEndComesLast == MainSpec => []EndIsLast
BY MainImplementsPool, EndComesLast, PTL

-----------------------------------------------------------------------------
(* Where every image received is, at every moment.                           *)

\* A list of images, none twice, and what families of lists hold.
Held(q) == {q[k] : k \in 1 .. Len(q)}
IsList(q) == q \in Seq(Nat) /\ \A k, l \in 1 .. Len(q) : q[k] = q[l] => k = l
HeldIn(I, g) == UNION {Held(g[i]) : i \in I}
IsFamily(I, g) ==
  /\ \A i \in I : IsList(g[i])
  /\ \A i, j \in I : i # j => Held(g[i]) \cap Held(g[j]) = {}

\* The images between START and what has been received last, as positions in the stream.
Got(p) == {j \in 1 .. p : stream[j].kind = "image" /\ \E k \in 1 .. (j - 1) : stream[k].kind = "start"}

Batches == [k \in 1 .. Len(outQ) |-> outQ[k].images]

InChunk == Held(chunk)
InRaw   == HeldIn(1 .. Len(rawQ), rawQ)
InHands == HeldIn(pool, hand)
InOut   == HeldIn(1 .. Len(outQ), Batches)
Failed  == {j \in Got(pos) : stream[j].id \in errors}

Put  == Got(pos) \ InChunk
Made == Put \ (InRaw \cup InHands \cup Failed)
Seen == Made \ InOut

SourceInv ==
  /\ stream \in Streams /\ masks \in Masks /\ gpu \in BOOLEAN
  /\ pos \in 0 .. Len(stream) /\ stop \in BOOLEAN /\ overtaken \in BOOLEAN

ProducerInv ==
  /\ producer \in {"gate", "receive", "put", "leave", "done"}
  /\ producer = "gate" => ~ending /\ chunk = <<>> /\ \A k \in 1 .. pos : stream[k].kind # "start"
  /\ producer \in {"receive", "put"} => \E k \in 1 .. pos : stream[k].kind = "start"
  /\ producer = "put" => chunk # <<>>
  /\ producer \in {"leave", "done"} /\ ~stop => ending /\ chunk = <<>>
  /\ ending => producer \in {"put", "leave", "done"}

PlacesInv ==
  /\ IsList(chunk) /\ InChunk \subseteq Got(pos)
  /\ IsFamily(1 .. Len(rawQ), rawQ) /\ \A k \in 1 .. Len(rawQ) : rawQ[k] # <<>>
  /\ IsFamily(pool, hand) /\ IsFamily(1 .. Len(outQ), Batches)
  /\ InRaw \subseteq Put /\ InHands \subseteq Put /\ InOut \subseteq Put
  /\ InRaw \cap InHands = {} /\ InRaw \cap InOut = {} /\ InHands \cap InOut = {}
  /\ IsQueue(rawQ) /\ errors \subseteq {stream[j].id : j \in Put}
  /\ Failed \cap (InChunk \cup InRaw \cup InHands \cup InOut) = {}

\* What a decoder puts out.
Sane(images) ==
  /\ \A j \in Held(images) : Readable(j)
  /\ images # <<>> /\ gpu => stream[images[1]].size = Area(Detector) * stream[images[Len(images)]].elem

DecodedInv ==
  /\ \A d \in pool : Sane(hand[d])
  /\ \A k \in 1 .. Len(outQ) : Sane(outQ[k].images) /\ (outQ[k].end => outQ[k].images = <<>>)
  /\ ~gpu => \A j \in Seen : CpuReads(stream[j])
  /\ errors # {} => \E j \in Got(pos) : ~Regular(stream[j], gpu)

ImageInv ==
  consumer # "failed" =>
    /\ DOMAIN image = 0 .. Positions - 1 /\ \A j \in Seen : stream[j].id \in DOMAIN image
    /\ \A i \in DOMAIN image : image[i] # 0 => \E j \in Seen : stream[j].id = i
    /\ \A j \in Seen : Regular(stream[j], gpu) => image[stream[j].id] = Counted(stream[j], masks)

\* Where a decoder may have left, nothing is put any more.
ExitInv ==
  ~stop /\ ~overtaken =>
    \A d \in pool : /\ at[d] = "empty" => rawQ = <<>>
                    /\ at[d] = "exited" => producer = "done" /\ rawQ = <<>>

\* The reports: of the images made each decoder has its last batch still to count.
TallyInv ==
  /\ DOMAIN tally = pool
  /\ \E f \in [pool -> SUBSET Made] :
       /\ \A d, e \in pool : d # e => f[d] \cap f[e] = {}
       /\ \A d \in pool : Cardinality(f[d]) = tally[d] /\ (at[d] # "count" => f[d] = {})
       /\ stats.decoded = Cardinality(Made \ UNION {f[d] : d \in pool})

StatsInv ==
  /\ {"received", "decoded", "batched"} \subseteq DOMAIN stats
  /\ stats.received = Cardinality(Put)
  /\ consumer # "failed" => stats.batched = Cardinality(Seen)

AccountInv ==
  /\ SourceInv /\ ProducerInv /\ PlacesInv /\ DecodedInv /\ ImageInv /\ ExitInv /\ StatsInv

\* load_mask took the files.
Fitted == Fits(masks.flatfield) /\ Fits(masks.deadPx)
-----------------------------------------------------------------------------
(* Induction along an interval, and the images of a chunk that can be read.  *)

\* A finite set of integers has a greatest element.
LEMMA Greatest ==
  ASSUME NEW S \in SUBSET Int, S # {}, IsFiniteSet(S)
  PROVE  Max(S) \in S /\ \A x \in S : x <= Max(S)
<1> DEFINE Above(x) == {y \in S : y > x}
           T == {Above(x) : x \in S}
           R == StrictSubsetOrdering(S)
<1>1. T \subseteq FiniteSubsetsOf(S)
  <2> SUFFICES ASSUME NEW x \in S PROVE Above(x) \in FiniteSubsetsOf(S)
    OBVIOUS
  <2>1. Above(x) \in SUBSET S
    OBVIOUS
  <2>2. IsFiniteSet(Above(x))
    BY <2>1, FS_Subset
  <2> QED
    BY <2>1, <2>2 DEF FiniteSubsetsOf
<1>2. IsWellFoundedOn(R, FiniteSubsetsOf(S))
  BY FS_StrictSubsetOrderingWellFounded
<1>3. T # {}
  OBVIOUS
<1> HIDE DEF R
<1>4. PICK t \in T : \A u \in T : ~ (<<u, t>> \in R)
  BY <1>1, <1>2, <1>3, WFMin
<1>5. PICK m \in S : t = Above(m)
  OBVIOUS
<1>6. ASSUME NEW x \in S, x > m PROVE FALSE
  <2>1. Above(x) \subseteq Above(m) /\ x \in Above(m) /\ x \notin Above(x)
    <3>1. \A y \in S : y \in Int
      OBVIOUS
    <3>2. \A y \in S : y > x => y > m
      BY <1>6, <3>1
    <3>3. ~ (x > x)
      BY <3>1
    <3> QED
      BY <1>6, <3>2, <3>3
  <2>2. Above(x) \in T /\ Above(x) \in SUBSET S /\ Above(m) \in SUBSET S
    OBVIOUS
  <2>3. <<Above(x), Above(m)>> \in R
    BY <2>1, <2>2 DEF R, StrictSubsetOrdering
  <2> QED
    BY <2>2, <2>3, <1>4, <1>5
<1>7. \A x \in S : m >= x
  BY <1>6
<1> QED
  BY <1>7 DEF Max

\* And a least one.
LEMMA Least ==
  ASSUME NEW S \in SUBSET Int, S # {}, IsFiniteSet(S)
  PROVE  Min(S) \in S /\ \A x \in S : Min(S) <= x
<1> DEFINE T == {-x : x \in S}
<1>1. T \in SUBSET Int /\ T # {}
  <2>1. PICK x : x \in S
    OBVIOUS
  <2>2. -x \in T
    BY <2>1
  <2> QED
    BY <2>2
<1>2. IsFiniteSet(T)
  <2> DEFINE f == [x \in S |-> -x]
  <2>1. f \in Surjection(S, T)
    BY DEF Surjection
  <2> QED
    BY <2>1, FS_Surjection
<1>3. Max(T) \in T /\ \A y \in T : y <= Max(T)
  BY <1>1, <1>2, Greatest
<1>4. PICK m \in S : Max(T) = -m
  BY <1>3
<1>5. \A x \in S : m =< x
  <2> TAKE x \in S
  <2>1. -x <= -m
    BY <1>3, <1>4
  <2> QED
    BY <2>1
<1> QED
  BY <1>5 DEF Min


\* What holds below an interval, and of each of its numbers if of the one before it, holds of all.
LEMMA Climb ==
  ASSUME NEW lo \in Int, NEW hi \in Int, lo - 1 <= hi, NEW S,
         lo - 1 \in S, \A k \in lo .. hi : k - 1 \in S => k \in S
  PROVE  \A k \in (lo - 1) .. hi : k \in S
<1> DEFINE Missed == {k \in (lo - 1) .. hi : k \notin S}
<1>1. SUFFICES ASSUME Missed # {} PROVE FALSE
  OBVIOUS
<1>2. IsFiniteSet(Missed)
  <2>1. IsFiniteSet((lo - 1) .. hi)
    BY FS_Interval
  <2> QED
    BY <2>1, FS_Subset
<1>3. Missed \in SUBSET Int
  OBVIOUS
<1>4. Min(Missed) \in Missed /\ \A x \in Missed : Min(Missed) <= x
  BY <1>1, <1>2, <1>3, Least
<1> DEFINE m == Min(Missed)
<1>5. m \in (lo - 1) .. hi /\ m \notin S /\ \A x \in Missed : m <= x
  BY <1>4
<1> HIDE DEF m
<1>6. m \in lo .. hi
  BY <1>5
<1>7. m - 1 \in (lo - 1) .. hi /\ ~ (m <= m - 1)
  BY <1>6
<1>8. m - 1 \in S
  BY <1>5, <1>7
<1> QED
  BY <1>5, <1>6, <1>8


\* The lists that Readables builds, up to the end of the chunk.
LEMMA AmongOf ==
  ASSUME NEW q, Len(q) \in Nat
  PROVE  \E f : /\ f[0] = <<>>
                /\ \A k \in 1 .. Len(q) :
                     f[k] = IF Readable(q[k]) THEN Append(f[k - 1], q[k]) ELSE f[k - 1]
                /\ Readables(q) = f[Len(q)]
<1> DEFINE n == Len(q)
           Next_(old, k) == IF Readable(q[k]) THEN Append(old, q[k]) ELSE old
<1> HIDE DEF Next_
<1> DEFINE Upto(g, m) == /\ g = [k \in 0 .. m |-> g[k]]
                         /\ g[0] = <<>>
                         /\ \A k \in 1 .. m : g[k] = Next_(g[k - 1], k)
           S == {m \in 0 .. n : \E g : Upto(g, m)}
<1>1. 0 \in S
  <2> DEFINE g == [k \in 0 .. 0 |-> <<>>]
  <2>1. Upto(g, 0)
    OBVIOUS
  <2> HIDE DEF Upto, g
  <2>2. 0 \in 0 .. n
    OBVIOUS
  <2> QED
    BY <2>1, <2>2
<1>2. ASSUME NEW m \in 1 .. n, m - 1 \in S PROVE m \in S
  <2>1. PICK g : Upto(g, m - 1)
    BY <1>2
  <2> DEFINE h == [k \in 0 .. m |-> IF k = m THEN Next_(g[m - 1], m) ELSE g[k]]
  <2>2. h = [k \in 0 .. m |-> h[k]] /\ h[0] = <<>>
    BY <2>1
  <2>4. ASSUME NEW k \in 1 .. m PROVE h[k] = Next_(h[k - 1], k)
    <3>1. k - 1 \in 0 .. m /\ k \in 0 .. m /\ k - 1 # m
      OBVIOUS
    <3>2. h[k - 1] = g[k - 1]
      BY <3>1
    <3>3. CASE k = m
      BY <3>1, <3>2, <3>3
    <3>4. CASE k # m
      <4>1. k \in 1 .. (m - 1)
        BY <3>4
      <4> QED
        BY <3>1, <3>2, <3>4, <4>1, <2>1
    <3> QED
      BY <3>3, <3>4
  <2>5. Upto(h, m)
    BY <2>2, <2>4
  <2> HIDE DEF Upto, h
  <2> QED
    BY <2>5
<1>3. n \in S
  <2> HIDE DEF S
  <2>1. 1 - 1 = 0 /\ n \in 0 .. n /\ 1 \in Int /\ n \in Int /\ 1 - 1 <= n
    OBVIOUS
  <2>2. \A k \in (1 - 1) .. n : k \in S
    BY <1>1, <1>2, <2>1, Climb
  <2> QED
    BY <2>1, <2>2
<1>4. PICK f : Upto(f, n)
  BY <1>3
<1> DEFINE Rule(g) == [k \in 0 .. n |-> IF k = 0 THEN <<>> ELSE Next_(g[k - 1], k)]
           value == CHOOSE g : g = Rule(g)
<1>6. f = Rule(f)
  <2>1. \A k \in 0 .. n : f[k] = IF k = 0 THEN <<>> ELSE Next_(f[k - 1], k)
    <3> TAKE k \in 0 .. n
    <3>1. k = 0 \/ k \in 1 .. n
      OBVIOUS
    <3> QED
      BY <3>1, <1>4
  <2> QED
    BY <2>1, <1>4
<1>7. value = Rule(value)
  BY <1>6
<1>8. \A k \in 0 .. n : value[k] = f[k]
  <2> DEFINE Same == {k \in 0 .. n : value[k] = f[k]}
  <2>1. 0 \in Same
    <3>1. 0 \in 0 .. n
      OBVIOUS
    <3>2. value[0] = <<>>
      BY <3>1, <1>7
    <3> QED
      BY <3>1, <3>2, <1>4
  <2>2. ASSUME NEW k \in 1 .. n, k - 1 \in Same PROVE k \in Same
    <3>1. k \in 0 .. n /\ k # 0
      OBVIOUS
    <3>2. value[k] = Next_(value[k - 1], k)
      BY <3>1, <1>7
    <3> HIDE DEF value
    <3> QED
      BY <3>1, <3>2, <2>2, <1>4
  <2> HIDE DEF Same
  <2>3. \A k \in (1 - 1) .. n : k \in Same
    <3>1. 1 - 1 = 0 /\ 1 \in Int /\ n \in Int /\ 1 - 1 <= n
      OBVIOUS
    <3> QED
      BY <2>1, <2>2, <3>1, Climb
  <2> USE DEF Same
  <2> QED
    BY <2>3
<1>9. Readables(q) = value[n]
  BY DEF Readables, Next_
<1>10. n \in 0 .. n
  OBVIOUS
<1> HIDE DEF value
<1> QED
  BY <1>4, <1>8, <1>9, <1>10 DEF Next_

-----------------------------------------------------------------------------
(* Lists and families of them.                                               *)

LEMMA EmptyList == IsList(<<>>) /\ Held(<<>>) = {} /\ Len(<<>>) = 0
<1>1. <<>> \in Seq(Nat) /\ Len(<<>>) = 0
  BY EmptySeq
<1> QED
  BY <1>1 DEF IsList, Held

LEMMA HoldsNone ==
  ASSUME NEW q, IsList(q)
  PROVE  q # <<>> <=> Held(q) # {}
<1>1. Len(q) \in Nat /\ (q # <<>> <=> Len(q) # 0)
  BY EmptySeq, LenProperties DEF IsList
<1> QED
  BY <1>1, EmptyList DEF Held

LEMMA ListSize ==
  ASSUME NEW q, IsList(q)
  PROVE  IsFiniteSet(Held(q)) /\ Cardinality(Held(q)) = Len(q) /\ Len(q) \in Nat
<1>1. Len(q) \in Nat /\ q \in Seq(Nat)
  BY LenProperties DEF IsList
<1> DEFINE n == Len(q)
           f == [k \in 1 .. n |-> q[k]]
<1>2. f \in Bijection(1 .. n, Held(q))
  <2>1. f \in [1 .. n -> Held(q)]
    BY DEF Held
  <2>2. \A k, l \in 1 .. n : f[k] = f[l] => k = l
    BY DEF IsList
  <2>3. \A x \in Held(q) : \E k \in 1 .. n : f[k] = x
    BY DEF Held
  <2> QED
    BY <2>1, <2>2, <2>3 DEF Bijection, Injection, Surjection, IsInjective
<1>3. IsFiniteSet(1 .. n) /\ Cardinality(1 .. n) = n
  <2>1. 1 \in Int /\ n \in Int /\ (IF 1 > n THEN 0 ELSE n - 1 + 1) = n
    BY <1>1
  <2> QED
    BY <2>1, FS_Interval
<1> QED
  BY <1>1, <1>2, <1>3, FS_Bijection DEF ExistsBijection

LEMMA LongerList ==
  ASSUME NEW q, IsList(q), NEW j \in Nat, j \notin Held(q)
  PROVE  /\ IsList(Append(q, j)) /\ Held(Append(q, j)) = Held(q) \cup {j}
         /\ Append(q, j) # <<>>
<1> DEFINE a == Append(q, j)
<1>1. q \in Seq(Nat) /\ Len(q) \in Nat
  BY LenProperties DEF IsList
<1>2. /\ a \in Seq(Nat) /\ Len(a) = Len(q) + 1
      /\ \A k \in 1 .. Len(q) : a[k] = q[k]
      /\ a[Len(q) + 1] = j
  BY <1>1, AppendProperties
<1> HIDE DEF a
<1>3. ASSUME NEW k \in 1 .. Len(a) PROVE k \in 1 .. Len(q) \/ k = Len(q) + 1
  BY <1>1, <1>2
<1>4. Len(q) + 1 \in 1 .. Len(a) /\ \A k \in 1 .. Len(q) : k \in 1 .. Len(a)
  BY <1>1, <1>2
<1>5. Held(a) = Held(q) \cup {j}
  BY <1>2, <1>3, <1>4 DEF Held
<1>6. \A k, l \in 1 .. Len(a) : a[k] = a[l] => k = l
  BY <1>2, <1>3 DEF Held, IsList
<1>7. a # <<>>
  BY <1>1, <1>2, EmptySeq
<1> QED
  BY <1>2, <1>5, <1>6, <1>7 DEF IsList, a

LEMMA ReadableList ==
  ASSUME NEW q, IsList(q)
  PROVE  IsList(Readables(q)) /\ Held(Readables(q)) = {j \in Held(q) : Readable(j)}
<1>1. Len(q) \in Nat /\ q \in Seq(Nat) /\ \A k \in 1 .. Len(q) : q[k] \in Nat
  BY LenProperties, ElementOfSeq DEF IsList
<1>2. PICK f : /\ f[0] = <<>>
               /\ \A k \in 1 .. Len(q) :
                    f[k] = IF Readable(q[k]) THEN Append(f[k - 1], q[k]) ELSE f[k - 1]
               /\ Readables(q) = f[Len(q)]
  BY <1>1, AmongOf
<1> DEFINE Among(k) == {j \in {q[l] : l \in 1 .. k} : Readable(j)}
           S == {k \in 0 .. Len(q) : IsList(f[k]) /\ Held(f[k]) = Among(k)}
<1>3. 0 \in S
  BY <1>1, <1>2, EmptyList
<1>4. ASSUME NEW k \in 1 .. Len(q), k - 1 \in S PROVE k \in S
  <2>1. IsList(f[k - 1]) /\ Held(f[k - 1]) = Among(k - 1) /\ k \in 0 .. Len(q)
    BY <1>4
  <2>2. q[k] \notin {q[l] : l \in 1 .. (k - 1)}
    <3> SUFFICES ASSUME NEW l \in 1 .. (k - 1), q[k] = q[l] PROVE FALSE
      OBVIOUS
    <3>1. l \in 1 .. Len(q) /\ l # k
      BY <1>1
    <3> QED
      BY <3>1 DEF IsList
  <2>3. {q[l] : l \in 1 .. k} = {q[l] : l \in 1 .. (k - 1)} \cup {q[k]}
    <3>1. \A l \in 1 .. k : l \in 1 .. (k - 1) \/ l = k
      BY <1>1
    <3>2. k \in 1 .. k /\ \A l \in 1 .. (k - 1) : l \in 1 .. k
      BY <1>1
    <3> QED
      BY <3>1, <3>2
  <2>4. CASE Readable(q[k])
    <3>1. f[k] = Append(f[k - 1], q[k]) /\ q[k] \in Nat /\ q[k] \notin Held(f[k - 1])
      BY <1>1, <1>2, <2>1, <2>2, <2>4
    <3>2. IsList(f[k]) /\ Held(f[k]) = Held(f[k - 1]) \cup {q[k]}
      BY <2>1, <3>1, LongerList
    <3>3. Among(k) = Among(k - 1) \cup {q[k]}
      BY <2>3, <2>4
    <3> QED
      BY <2>1, <3>2, <3>3
  <2>5. CASE ~Readable(q[k])
    <3>1. f[k] = f[k - 1]
      BY <1>2, <2>5
    <3>2. Among(k) = Among(k - 1)
      BY <2>3, <2>5
    <3> QED
      BY <2>1, <3>1, <3>2
  <2> QED
    BY <2>4, <2>5
<1>5. Len(q) \in S
  <2> HIDE DEF S
  <2>1. \A k \in (1 - 1) .. Len(q) : k \in S
    <3>1. 1 - 1 = 0 /\ 1 \in Int /\ Len(q) \in Int /\ 1 - 1 <= Len(q)
      BY <1>1
    <3> QED
      BY <1>3, <1>4, <3>1, Climb
  <2> QED
    BY <1>1, <2>1
<1> QED
  BY <1>2, <1>5 DEF Held

\* A list joins a family.
LEMMA FamilyGains ==
  ASSUME NEW I, NEW g, IsFamily(I, g), NEW h, NEW at_,
         at_ \notin I,
         \A i \in I : h[i] = g[i],
         NEW q, h[at_] = q, IsList(q), Held(q) \cap HeldIn(I, g) = {}
  PROVE  IsFamily(I \cup {at_}, h) /\ HeldIn(I \cup {at_}, h) = HeldIn(I, g) \cup Held(q)
<1>2. \A i \in I : Held(g[i]) \subseteq HeldIn(I, g)
  BY DEF HeldIn
<1>3. HeldIn(I \cup {at_}, h) = HeldIn(I, g) \cup Held(q)
  BY DEF HeldIn
<1>4. \A i \in I \cup {at_} : IsList(h[i])
  BY DEF IsFamily
<1>5. ASSUME NEW i \in I \cup {at_}, NEW j \in I \cup {at_}, i # j
      PROVE  Held(h[i]) \cap Held(h[j]) = {}
  <2>1. CASE i # at_ /\ j # at_
    BY <1>5, <2>1 DEF IsFamily
  <2>2. CASE i = at_
    BY <1>2, <1>5, <2>2
  <2>3. CASE j = at_
    BY <1>2, <1>5, <2>3
  <2> QED
    BY <2>1, <2>2, <2>3
<1> QED
  BY <1>3, <1>4, <1>5 DEF IsFamily

\* A list is emptied.
LEMMA FamilyLoses ==
  ASSUME NEW I, NEW g, IsFamily(I, g), NEW h, NEW at_ \in I,
         \A i \in I \ {at_} : h[i] = g[i], h[at_] = <<>>
  PROVE  IsFamily(I, h) /\ HeldIn(I, h) = HeldIn(I, g) \ Held(g[at_])
<1>1. Held(h[at_]) = {} /\ IsList(h[at_])
  BY EmptyList
<1>2. \A i \in I \ {at_} : Held(h[i]) = Held(g[i]) /\ Held(g[i]) \cap Held(g[at_]) = {}
  BY DEF IsFamily
<1>3. HeldIn(I, h) = HeldIn(I, g) \ Held(g[at_])
  BY <1>1, <1>2 DEF HeldIn
<1> QED
  BY <1>1, <1>2, <1>3 DEF IsFamily

\* The first of a row of lists is taken.
LEMMA FamilyShifts ==
  ASSUME NEW n \in Nat \ {0}, NEW g, IsFamily(1 .. n, g), NEW h,
         \A i \in 1 .. (n - 1) : h[i] = g[i + 1]
  PROVE  IsFamily(1 .. (n - 1), h) /\ HeldIn(1 .. (n - 1), h) = HeldIn(1 .. n, g) \ Held(g[1])
<1>1. \A i \in 1 .. (n - 1) : i + 1 \in 1 .. n /\ i + 1 # 1
  OBVIOUS
<1>2. \A i \in 1 .. n : i = 1 \/ (i - 1 \in 1 .. (n - 1) /\ (i - 1) + 1 = i)
  OBVIOUS
<1>3. 1 \in 1 .. n
  OBVIOUS
<1>4. HeldIn(1 .. (n - 1), h) \subseteq HeldIn(1 .. n, g) \ Held(g[1])
  <2> SUFFICES ASSUME NEW i \in 1 .. (n - 1), NEW x \in Held(h[i])
               PROVE  x \in HeldIn(1 .. n, g) /\ x \notin Held(g[1])
    BY DEF HeldIn
  <2>1. x \in Held(g[i + 1])
    OBVIOUS
  <2> QED
    BY <1>1, <1>3, <2>1 DEF HeldIn, IsFamily
<1>5. ASSUME NEW x \in HeldIn(1 .. n, g), x \notin Held(g[1])
      PROVE  x \in HeldIn(1 .. (n - 1), h)
  <2>1. PICK i \in 1 .. n : x \in Held(g[i])
    BY <1>5 DEF HeldIn
  <2>2. i - 1 \in 1 .. (n - 1) /\ (i - 1) + 1 = i
    BY <1>2, <1>5, <2>1
  <2>3. h[i - 1] = g[i]
    BY <2>2
  <2> QED
    BY <2>1, <2>2, <2>3 DEF HeldIn
<1>6. IsFamily(1 .. (n - 1), h)
  <2>1. \A i \in 1 .. (n - 1) : IsList(h[i])
    BY <1>1 DEF IsFamily
  <2>2. ASSUME NEW i \in 1 .. (n - 1), NEW j \in 1 .. (n - 1), i # j
        PROVE  Held(h[i]) \cap Held(h[j]) = {}
    <3>1. i + 1 # j + 1
      BY <2>2
    <3> QED
      BY <1>1, <3>1 DEF IsFamily
  <2> QED
    BY <2>1, <2>2 DEF IsFamily
<1> QED
  BY <1>4, <1>5, <1>6

\* An empty list is filled.
LEMMA FamilyRefilled ==
  ASSUME NEW I, NEW g, IsFamily(I, g), NEW h, NEW at_ \in I, g[at_] = <<>>,
         \A i \in I \ {at_} : h[i] = g[i],
         NEW q, h[at_] = q, IsList(q), Held(q) \cap HeldIn(I, g) = {}
  PROVE  IsFamily(I, h) /\ HeldIn(I, h) = HeldIn(I, g) \cup Held(q)
<1>1. Held(g[at_]) = {}
  BY EmptyList
<1>2. \A i \in I \ {at_} : Held(h[i]) = Held(g[i]) /\ Held(g[i]) \subseteq HeldIn(I, g)
  BY DEF HeldIn
<1>3. HeldIn(I, h) = HeldIn(I, g) \cup Held(q)
  BY <1>1, <1>2 DEF HeldIn
<1>4. \A i \in I : IsList(h[i])
  BY DEF IsFamily
<1>5. ASSUME NEW i \in I, NEW j \in I, i # j
      PROVE  Held(h[i]) \cap Held(h[j]) = {}
  <2>1. CASE i # at_ /\ j # at_
    BY <1>5, <2>1 DEF IsFamily
  <2>2. CASE i = at_
    BY <1>2, <1>5, <2>2
  <2>3. CASE j = at_
    BY <1>2, <1>5, <2>3
  <2> QED
    BY <2>1, <2>2, <2>3
<1> QED
  BY <1>3, <1>4, <1>5 DEF IsFamily

-----------------------------------------------------------------------------
(* The steps and the accounts.                                               *)

LEMMA GotIsFinite ==
  ASSUME SourceInv
  PROVE  IsFiniteSet(Got(pos)) /\ Got(pos) \subseteq Nat /\ pos \in Nat /\ Len(stream) \in Nat
<1>1. Len(stream) \in Nat /\ pos \in Nat
  BY PoolAssumption DEF SourceInv
<1>2. IsFiniteSet(1 .. pos)
  BY <1>1, FS_Interval
<1>3. Got(pos) \subseteq 1 .. pos
  BY DEF Got
<1>4. IsFiniteSet(Got(pos))
  BY <1>2, <1>3, FS_Subset
<1>5. 1 .. pos \subseteq Nat
  BY <1>1
<1> QED
  BY <1>1, <1>3, <1>4, <1>5

\* Two images received have two ids.
LEMMA IdsApart ==
  ASSUME DistinctIds, SourceInv, NEW i \in Got(pos), NEW j \in Got(pos), stream[i].id = stream[j].id
  PROVE  i = j
<1>1. i \in 1 .. Len(stream) /\ j \in 1 .. Len(stream)
  BY PoolAssumption DEF Got, SourceInv
<1> QED
  BY <1>1 DEF DistinctIds, SourceInv, Got

placeVars == <<source, rawQ, outQ, hand, errors, image, consumer, stats>>

\* A step that receives an image or none, and moves no chunk.
LEMMA PlacesStay ==
  ASSUME PlacesInv, DecodedInv, ImageInv, StatsInv, UNCHANGED placeVars,
         Put' = Put, Failed' = Failed, Got(pos) \subseteq Got(pos)',
         IsList(chunk)', InChunk' \subseteq Got(pos)', Failed \cap InChunk' = {}
  PROVE  /\ PlacesInv' /\ DecodedInv' /\ ImageInv' /\ StatsInv' /\ Made' = Made
<1> USE DEF placeVars, source
<1>1. /\ InRaw' = InRaw /\ InHands' = InHands /\ Batches' = Batches
  BY DEF InRaw, InHands, Batches, Held, HeldIn
<1>2. InOut' = InOut
  BY <1>1 DEF InOut, Held, HeldIn
<1>4. Made' = Made /\ Seen' = Seen
  BY <1>1, <1>2 DEF Made, Seen
<1>5. PlacesInv'
  <2>1. /\ IsQueue(rawQ)' = IsQueue(rawQ)
        /\ IsFamily(1 .. Len(rawQ), rawQ)' = IsFamily(1 .. Len(rawQ), rawQ)
        /\ IsFamily(pool, hand)' = IsFamily(pool, hand)
        /\ IsFamily(1 .. Len(outQ), Batches)' = IsFamily(1 .. Len(outQ), Batches)
    BY <1>1 DEF IsFamily, IsList, Held, IsQueue, Items
  <2>2. {stream[j].id : j \in Put}' = {stream[j].id : j \in Put}
    OBVIOUS
  <2> QED
    BY <1>1, <1>2, <2>1, <2>2 DEF PlacesInv
<1>6. \A j : Readable(j)' = Readable(j)
  BY DEF Readable, GpuReads, CpuReads
<1>7. \A images : Sane(images)' = Sane(images)
  BY <1>6 DEF Sane
<1>8. DecodedInv'
  BY <1>4, <1>7 DEF DecodedInv, Regular
<1>9. ImageInv'
  BY <1>4 DEF ImageInv, Regular, Counted
<1>10. StatsInv'
  BY <1>4 DEF StatsInv
<1> QED
  BY <1>4, <1>5, <1>8, <1>9, <1>10

dataVars == <<placeVars, chunk>>

\* A step that moves no image.
LEMMA DataStays ==
  ASSUME PlacesInv, DecodedInv, ImageInv, StatsInv, UNCHANGED dataVars, Got(pos)' = Got(pos)
  PROVE  /\ PlacesInv' /\ DecodedInv' /\ ImageInv' /\ StatsInv' /\ Made' = Made
<1> USE DEF dataVars
<1>1. InChunk' = InChunk /\ IsList(chunk)' = IsList(chunk)
  BY DEF InChunk, Held, IsList
<1>2. Failed' = Failed
  BY DEF Failed, placeVars, source
<1>3. Put' = Put
  BY <1>1 DEF Put
<1>4. IsList(chunk) /\ InChunk \subseteq Got(pos) /\ Failed \cap InChunk = {}
  BY DEF PlacesInv
<1> QED
  BY <1>1, <1>2, <1>3, <1>4, PlacesStay

LEMMA TallyStays ==
  ASSUME TallyInv, Made' = Made, UNCHANGED <<pool, tally>>, stats'.decoded = stats.decoded,
         \A d \in pool : at'[d] # "count" => at[d] # "count"
  PROVE  TallyInv'
  BY DEF TallyInv

\* What the flags say is left alone.
LEMMA FlagsStay ==
  ASSUME SourceInv, ProducerInv, ExitInv,
         UNCHANGED <<stream, pool, gpu, masks, pos, producer, ending, chunk, rawQ, overtaken>>,
         stop' \in BOOLEAN, stop => stop',
         ~stop' /\ ~overtaken =>
           \A d \in pool : /\ at'[d] = "empty" => at[d] = "empty" \/ rawQ = <<>>
                           /\ at'[d] = "exited" => at[d] = "exited" \/ (producer = "done" /\ rawQ = <<>>)
  PROVE  SourceInv' /\ ProducerInv' /\ ExitInv'
<1>1. SourceInv'
  BY DEF SourceInv
<1>2. ProducerInv'
  BY DEF ProducerInv
<1>3. ExitInv'
  BY DEF ExitInv, SourceInv
<1> QED
  BY <1>1, <1>2, <1>3

\* Start and stop, and the ends of the producer.
LEMMA GateAccount ==
  ASSUME AccountInv, TallyInv, Gate
  PROVE  AccountInv' /\ TallyInv'
<1> USE DEF source
<1>0. SourceInv /\ ProducerInv /\ PlacesInv /\ DecodedInv /\ ImageInv /\ ExitInv /\ StatsInv
  BY DEF AccountInv
<1>1. pos \in Nat /\ Len(stream) \in Nat
  BY <1>0, GotIsFinite
<1>2. /\ producer = "gate" /\ ~stop /\ pos < Len(stream) /\ pos' = pos + 1
      /\ stop' \in BOOLEAN
      /\ \/ producer' = "leave" /\ stop'
         \/ producer' = "receive" /\ Message.kind = "start"
         \/ producer' = "gate" /\ Message.kind # "start"
      /\ UNCHANGED <<source, ending, chunk, rawQ, outQ, at, hand, joiner, consumer, image, tallies, overtaken>>
  BY DEF Gate, Arrives
<1>3. ~ending /\ chunk = <<>> /\ \A k \in 1 .. pos : stream[k].kind # "start"
  BY <1>0, <1>2 DEF ProducerInv
<1>4. Got(pos)' = Got(pos)
  <2>1. \A j \in 1 .. (pos + 1) : \A k \in 1 .. (j - 1) : k \in 1 .. pos
    BY <1>1
  <2>2. \A j \in 1 .. pos : \A k \in 1 .. (j - 1) : k \in 1 .. pos
    BY <1>1
  <2>3. Got(pos) = {} /\ Got(pos + 1) = {}
    BY <1>3, <2>1, <2>2 DEF Got
  <2>4. Got(pos)' = Got(pos + 1)
    BY <1>2 DEF Got
  <2> QED
    BY <2>3, <2>4
<1>5. SourceInv'
  BY <1>0, <1>1, <1>2 DEF SourceInv
<1>6. ProducerInv'
  <2>1. \A k \in 1 .. (pos + 1) : k \in 1 .. pos \/ k = pos + 1
    BY <1>1
  <2>2. pos + 1 \in 1 .. (pos + 1)
    BY <1>1
  <2>3. producer' = "receive" => \E k \in 1 .. pos' : stream'[k].kind = "start"
    BY <1>2, <2>2 DEF Message
  <2>4. producer' = "gate" => \A k \in 1 .. pos' : stream'[k].kind # "start"
    BY <1>2, <1>3, <2>1 DEF Message
  <2> QED
    BY <1>2, <1>3, <2>3, <2>4 DEF ProducerInv
<1>7. ExitInv'
  BY <1>0, <1>2 DEF ExitInv
<1>8. PlacesInv' /\ DecodedInv' /\ ImageInv' /\ StatsInv' /\ Made' = Made
  BY <1>0, <1>2, <1>4, DataStays DEF dataVars, placeVars, tallies
<1>9. TallyInv'
  BY <1>2, <1>8, TallyStays DEF tallies
<1> QED
  BY <1>5, <1>6, <1>7, <1>8, <1>9 DEF AccountInv

LEMMA LeavingAccount ==
  ASSUME AccountInv, TallyInv, GiveUp \/ Leave
  PROVE  AccountInv' /\ TallyInv'
<1> USE DEF source
<1>0. SourceInv /\ ProducerInv /\ PlacesInv /\ DecodedInv /\ ImageInv /\ ExitInv /\ StatsInv
  BY DEF AccountInv
<1>1. /\ \/ stop /\ producer' = "leave"
         \/ producer = "leave" /\ producer' = "done"
      /\ UNCHANGED <<source, pos, ending, chunk, rawQ, outQ, stop, at, hand, joiner, consumer,
                     image, tallies, overtaken>>
  BY DEF GiveUp, Leave
<1>2. SourceInv'
  BY <1>0, <1>1 DEF SourceInv
<1>3. ProducerInv'
  BY <1>0, <1>1 DEF ProducerInv
<1>4. ExitInv'
  BY <1>0, <1>1 DEF ExitInv
<1>5. Got(pos)' = Got(pos)
  BY <1>1 DEF Got
<1>6. PlacesInv' /\ DecodedInv' /\ ImageInv' /\ StatsInv' /\ Made' = Made
  BY <1>0, <1>1, <1>5, DataStays DEF dataVars, placeVars, tallies
<1>7. TallyInv'
  BY <1>1, <1>6, TallyStays DEF tallies
<1> QED
  BY <1>2, <1>3, <1>4, <1>6, <1>7 DEF AccountInv

\* A decoder's steps that take and give nothing.
LEMMA WaitingAccount ==
  ASSUME IInv, AccountInv, TallyInv, NEW d \in pool, Build(d) \/ FindEmpty(d) \/ Check(d)
  PROVE  AccountInv' /\ TallyInv'
<1> USE DEF source, prod
<1>0. SourceInv /\ ProducerInv /\ PlacesInv /\ DecodedInv /\ ImageInv /\ ExitInv /\ StatsInv
  BY DEF AccountInv
<1>1. PICK place \in {"wait", "empty", "exited"} :
        /\ at' = [at EXCEPT ![d] = place]
        /\ stop' = stop \/ stop' = TRUE
        /\ place = "empty" => rawQ = <<>>
        /\ place = "exited" /\ ~stop' => at[d] = "empty" /\ producer = "done"
        /\ UNCHANGED <<source, prod, rawQ, outQ, hand, joiner, consumer, image, tallies, overtaken>>
  <2>1. CASE Build(d)
    BY <2>1 DEF Build, StopsAll
  <2>2. CASE FindEmpty(d)
    BY <2>2 DEF FindEmpty
  <2>3. CASE Check(d)
    BY <2>3 DEF Check, MayExit
  <2> QED
    BY <2>1, <2>2, <2>3
<1>2. \A e \in pool : at'[e] = IF e = d THEN place ELSE at[e]
  BY <1>1 DEF IInv, QueueInv
<1>3. stop' \in BOOLEAN /\ (stop => stop')
  <2>1. stop \in BOOLEAN
    BY <1>0 DEF SourceInv
  <2>2. CASE stop' = stop
    BY <2>1, <2>2
  <2>3. CASE stop' = TRUE
    BY <2>3
  <2> QED
    BY <1>1, <2>2, <2>3
<1>4. ASSUME ~stop', ~overtaken, NEW e \in pool
      PROVE  /\ at'[e] = "empty" => at[e] = "empty" \/ rawQ = <<>>
             /\ at'[e] = "exited" => at[e] = "exited" \/ (producer = "done" /\ rawQ = <<>>)
  <2>1. at[d] = "empty" => rawQ = <<>>
    BY <1>0, <1>3, <1>4 DEF ExitInv
  <2> QED
    BY <1>1, <1>2, <1>4, <2>1
<1>5. SourceInv' /\ ProducerInv' /\ ExitInv'
  BY <1>0, <1>1, <1>3, <1>4, FlagsStay
<1>6. Got(pos)' = Got(pos)
  BY <1>1 DEF Got
<1>7. PlacesInv' /\ DecodedInv' /\ ImageInv' /\ StatsInv' /\ Made' = Made
  BY <1>0, <1>1, <1>6, DataStays DEF dataVars, placeVars, tallies
<1>8. at[d] # "count"
  BY DEF Build, FindEmpty, Check
<1>9. TallyInv'
  BY <1>1, <1>2, <1>7, <1>8, TallyStays DEF tallies
<1> QED
  BY <1>5, <1>7, <1>9 DEF AccountInv

LEMMA DisjointSize ==
  ASSUME NEW S, NEW T, IsFiniteSet(S), IsFiniteSet(T), S \cap T = {}
  PROVE  /\ Cardinality(S \cup T) = Cardinality(S) + Cardinality(T) /\ IsFiniteSet(S \cup T)
         /\ Cardinality(S) \in Nat /\ Cardinality(T) \in Nat
<1>1. Cardinality(S \cup T) = Cardinality(S) + Cardinality(T) - Cardinality(S \cap T)
      /\ IsFiniteSet(S \cup T)
  BY FS_Union
<1>2. Cardinality(S) \in Nat /\ Cardinality(T) \in Nat /\ Cardinality(S \cap T) = 0
  BY FS_CardinalityType, FS_EmptySet
<1> QED
  BY <1>1, <1>2

LEMMA ReceiveAccount ==
  ASSUME DistinctIds, AccountInv, TallyInv, Receive
  PROVE  AccountInv' /\ TallyInv'
<1> USE DEF source
<1>0. SourceInv /\ ProducerInv /\ PlacesInv /\ DecodedInv /\ ImageInv /\ ExitInv /\ StatsInv
  BY DEF AccountInv
<1>1. pos \in Nat /\ Len(stream) \in Nat /\ Got(pos) \subseteq 1 .. pos
  BY <1>0, GotIsFinite DEF Got
<1>2. /\ producer = "receive" /\ pos < Len(stream) /\ pos' = pos + 1
      /\ UNCHANGED <<source, rawQ, outQ, stop, at, hand, joiner, consumer, image, tallies, overtaken>>
  BY DEF Receive, Arrives
<1>3. ~ending /\ \E k \in 1 .. pos : stream[k].kind = "start"
  BY <1>0, <1>2 DEF ProducerInv
<1>4. (\A k \in 1 .. pos : k \in 1 .. (pos + 1)) /\ pos + 1 \in 1 .. (pos + 1)
      /\ (\A k \in 1 .. (pos + 1) : k \in 1 .. pos \/ k = pos + 1) /\ (pos + 1) - 1 = pos
      /\ pos + 1 \notin 1 .. pos
  BY <1>1
<1>5. Got(pos)' = IF Message.kind = "image" THEN Got(pos) \cup {pos + 1} ELSE Got(pos)
  <2>1. Got(pos)' = Got(pos + 1)
    BY <1>2 DEF Got
  <2>2. ASSUME NEW j \in 1 .. pos PROVE j \in Got(pos + 1) <=> j \in Got(pos)
    BY <1>4 DEF Got
  <2>3. pos + 1 \in Got(pos + 1) <=> Message.kind = "image"
    BY <1>3, <1>4 DEF Got, Message
  <2>4. Got(pos + 1) \subseteq 1 .. (pos + 1)
    BY DEF Got
  <2>5. \A j : j \in Got(pos) => j \in 1 .. pos
    BY <1>1
  <2>6. \A j : j \in Got(pos + 1) => j \in 1 .. pos \/ j = pos + 1
    BY <1>4, <2>4
  <2>7. CASE Message.kind = "image"
    BY <1>4, <2>1, <2>2, <2>3, <2>5, <2>6, <2>7
  <2>8. CASE Message.kind # "image"
    <3>1. pos + 1 \notin Got(pos + 1)
      BY <2>3, <2>8
    <3>2. \A j : j \in Got(pos + 1) <=> j \in Got(pos)
      BY <2>2, <2>5, <2>6, <3>1
    <3>3. Got(pos + 1) = Got(pos)
      BY <3>2
    <3> QED
      BY <2>1, <2>8, <3>3
  <2> QED
    BY <2>7, <2>8
<1>6. SourceInv'
  BY <1>0, <1>1, <1>2 DEF SourceInv
<1>7. ExitInv'
  BY <1>0, <1>2 DEF ExitInv
<1>8. IsList(chunk) /\ InChunk \subseteq Got(pos) /\ Failed \cap InChunk = {}
      /\ errors \subseteq {stream[j].id : j \in Put} /\ Put \subseteq Got(pos)
  BY <1>0 DEF PlacesInv, Put
<1>9. CASE Message.kind = "image"
  <2>1. chunk' = Append(chunk, pos + 1) /\ producer' \in {"put", "receive"} /\ ending' = ending
    BY <1>9 DEF Receive
  <2>2. IsList(chunk)' /\ InChunk' = InChunk \cup {pos + 1} /\ chunk' # <<>>
    <3>1. pos + 1 \in Nat /\ pos + 1 \notin Held(chunk)
      BY <1>1, <1>4, <1>8 DEF InChunk
    <3>2. IsList(chunk') /\ Held(chunk') = Held(chunk) \cup {pos + 1} /\ chunk' # <<>>
      BY <1>8, <2>1, <3>1, LongerList
    <3> QED
      BY <3>2 DEF InChunk, IsList, Held
  <2>3. Got(pos)' = Got(pos) \cup {pos + 1} /\ pos + 1 \notin Got(pos)
    BY <1>1, <1>4, <1>5, <1>9
  <2>4. Put' = Put
    BY <2>2, <2>3 DEF Put
  <2>5. stream[pos + 1].id \notin errors
    <3> SUFFICES ASSUME stream[pos + 1].id \in errors PROVE FALSE
      OBVIOUS
    <3>1. PICK j \in Put : stream[pos + 1].id = stream[j].id
      BY <1>8
    <3>2. j \in Got(pos)' /\ pos + 1 \in Got(pos)' /\ stream' = stream
      BY <1>2, <1>8, <2>3
    <3>3. j \in 1 .. Len(stream) /\ pos + 1 \in 1 .. Len(stream)
      BY <1>1, <1>2, <1>8
    <3>4. stream[j].kind = "image" /\ stream[pos + 1].kind = "image"
      BY <1>8, <1>9 DEF Got, Message
    <3>5. j = pos + 1
      BY <1>0, <3>1, <3>3, <3>4 DEF DistinctIds, SourceInv
    <3> QED
      BY <1>8, <2>3, <3>5
  <2>6. Failed' = Failed
    BY <1>2, <2>3, <2>5 DEF Failed, tallies
  <2>7. Failed \cap InChunk' = {}
    BY <1>8, <2>2, <2>3 DEF Failed
  <2>8. PlacesInv' /\ DecodedInv' /\ ImageInv' /\ StatsInv' /\ Made' = Made
    BY <1>0, <1>2, <1>8, <2>2, <2>3, <2>4, <2>6, <2>7, PlacesStay DEF placeVars, tallies
  <2>9. ProducerInv'
    BY <1>2, <1>3, <1>4, <2>1, <2>2 DEF ProducerInv
  <2>10. TallyInv'
    BY <1>2, <2>8, TallyStays DEF tallies
  <2> QED
    BY <1>6, <1>7, <2>8, <2>9, <2>10 DEF AccountInv
<1>10. CASE Message.kind # "image"
  <2>1. chunk' = chunk /\ Got(pos)' = Got(pos)
    BY <1>5, <1>10 DEF Receive
  <2>2. PlacesInv' /\ DecodedInv' /\ ImageInv' /\ StatsInv' /\ Made' = Made
    BY <1>0, <1>2, <2>1, DataStays DEF dataVars, placeVars, tallies
  <2>3. ProducerInv'
    <3>1. CASE Message.kind = "end"
      <4>1. ending' = TRUE /\ producer' = IF chunk # <<>> THEN "put" ELSE "leave"
        BY <3>1 DEF Receive, Flushes
      <4> QED
        BY <1>2, <1>3, <1>4, <2>1, <4>1 DEF ProducerInv
    <3>2. CASE Message.kind # "end"
      <4>1. UNCHANGED <<producer, ending, chunk>>
        BY <1>10, <3>2 DEF Receive
      <4> QED
        BY <1>2, <1>3, <1>4, <4>1 DEF ProducerInv
    <3> QED
      BY <3>1, <3>2
  <2>4. TallyInv'
    BY <1>2, <2>2, TallyStays DEF tallies
  <2> QED
    BY <1>6, <1>7, <2>2, <2>3, <2>4 DEF AccountInv
<1> QED
  BY <1>9, <1>10

LEMMA PutChunkAccount ==
  ASSUME AccountInv, TallyInv, PutChunk
  PROVE  AccountInv' /\ TallyInv'
<1> USE DEF source
<1>0. SourceInv /\ ProducerInv /\ PlacesInv /\ DecodedInv /\ ImageInv /\ ExitInv /\ StatsInv
  BY DEF AccountInv
<1>1. /\ producer = "put" /\ rawQ' = Append(rawQ, chunk) /\ chunk' = <<>>
      /\ producer' = IF ending THEN "leave" ELSE "receive"
      /\ overtaken' = (overtaken \/ \E d \in pool : at[d] = "empty")
      /\ stats' = [stats EXCEPT !.received = @ + Len(chunk)]
      /\ UNCHANGED <<source, pos, ending, startError, outQ, stop, at, hand, joiner, consumer, image,
                     errors, tally>>
  BY DEF PutChunk
<1>2. /\ IsList(chunk) /\ InChunk \subseteq Got(pos) /\ IsFamily(1 .. Len(rawQ), rawQ)
      /\ \A k \in 1 .. Len(rawQ) : rawQ[k] # <<>>
      /\ IsFamily(pool, hand) /\ IsFamily(1 .. Len(outQ), Batches)
      /\ InRaw \subseteq Put /\ InHands \subseteq Put /\ InOut \subseteq Put
      /\ InRaw \cap InHands = {} /\ InRaw \cap InOut = {} /\ InHands \cap InOut = {}
      /\ IsQueue(rawQ) /\ errors \subseteq {stream[j].id : j \in Put}
      /\ Failed \cap (InChunk \cup InRaw \cup InHands \cup InOut) = {}
  BY <1>0 DEF PlacesInv
<1>3. /\ IsQueue(rawQ') /\ Len(rawQ) \in Nat /\ Len(rawQ') = Len(rawQ) + 1
      /\ \A i \in 1 .. Len(rawQ) : rawQ'[i] = rawQ[i]
      /\ rawQ'[Len(rawQ) + 1] = chunk
  BY <1>1, <1>2, AppendQueue
<1>4. 1 .. Len(rawQ') = (1 .. Len(rawQ)) \cup {Len(rawQ) + 1} /\ Len(rawQ) + 1 \notin 1 .. Len(rawQ)
  BY <1>3
<1>5. Put \cap InChunk = {} /\ Got(pos) = Put \cup InChunk
  BY <1>2 DEF Put
<1>6. IsFamily(1 .. Len(rawQ'), rawQ') /\ HeldIn(1 .. Len(rawQ'), rawQ') = InRaw \cup InChunk
  <2>1. Held(chunk) \cap HeldIn(1 .. Len(rawQ), rawQ) = {}
    BY <1>2, <1>5 DEF InChunk, InRaw
  <2>2. \A i \in 1 .. Len(rawQ) : rawQ'[i] = rawQ[i]
    BY <1>3
  <2> DEFINE n == Len(rawQ)
             g == rawQ
             h == rawQ'
             I == 1 .. n
             m == n + 1
  <2>3. /\ IsFamily(I, g) /\ m \notin I /\ h[m] = chunk
        /\ \A i \in I : h[i] = g[i]
        /\ IsList(chunk) /\ Held(chunk) \cap HeldIn(I, g) = {}
    BY <1>2, <1>3, <1>4, <2>1, <2>2
  <2>4. 1 .. Len(rawQ') = I \cup {m}
    BY <1>4
  <2> HIDE DEF g, h, I, n, m
  <2>5. IsFamily(I \cup {m}, h) /\ HeldIn(I \cup {m}, h) = HeldIn(I, g) \cup Held(chunk)
    BY <2>3, FamilyGains
  <2> QED
    BY <2>3, <2>4, <2>5 DEF InChunk, InRaw, g, h, I, n
<1>7. /\ InChunk' = {} /\ InRaw' = InRaw \cup InChunk /\ InHands' = InHands /\ InOut' = InOut
      /\ Got(pos)' = Got(pos) /\ Failed' = Failed
  <2>1. InChunk' = {}
    BY <1>1, EmptyList DEF InChunk, Held
  <2>2. InRaw' = InRaw \cup InChunk
    BY <1>6 DEF InRaw, HeldIn, Held
  <2>3. Got(pos)' = Got(pos) /\ InHands' = InHands /\ Batches' = Batches
    BY <1>1 DEF Got, InHands, HeldIn, Held, Batches
  <2>4. InOut' = InOut
    BY <1>1, <2>3 DEF InOut, HeldIn, Held
  <2>5. Failed' = Failed
    BY <1>1, <2>3 DEF Failed
  <2> QED
    BY <2>1, <2>2, <2>3, <2>4, <2>5
<1>8. Put' = Put \cup InChunk /\ Made' = Made /\ Seen' = Seen
  <2>1. Put' = Put \cup InChunk
    BY <1>5, <1>7 DEF Put
  <2>2. Made' = Made
    BY <1>5, <1>7, <2>1 DEF Made
  <2> QED
    BY <1>7, <2>1, <2>2 DEF Seen
<1>9. SourceInv'
  <2>1. overtaken' \in BOOLEAN
    BY <1>1
  <2> QED
    BY <1>0, <1>1, <2>1 DEF SourceInv
<1>10. ProducerInv'
  BY <1>0, <1>1 DEF ProducerInv
<1>11. PlacesInv'
  <2>1. IsList(chunk)'
    BY <1>1, EmptyList DEF IsList
  <2>2. IsFamily(1 .. Len(rawQ), rawQ)' /\ IsQueue(rawQ)'
    BY <1>3, <1>6 DEF IsFamily, IsList, Held, IsQueue, Items
  <2>3. (\A k \in 1 .. Len(rawQ) : rawQ[k] # <<>>)'
    <3>1. chunk # <<>>
      BY <1>0, <1>1 DEF ProducerInv
    <3> QED
      BY <1>2, <1>3, <1>4, <3>1
  <2>4. IsFamily(pool, hand)' /\ IsFamily(1 .. Len(outQ), Batches)'
    <3>1. Batches' = Batches
      BY <1>1 DEF Batches
    <3>2. /\ IsFamily(pool, hand)' = IsFamily(pool, hand)
          /\ IsFamily(1 .. Len(outQ), Batches)' = IsFamily(1 .. Len(outQ), Batches)
      BY <1>1, <3>1 DEF IsFamily, IsList, Held
    <3> QED
      BY <1>2, <3>2
  <2>5. (errors \subseteq {stream[j].id : j \in Put})'
    BY <1>1, <1>2, <1>8
  <2> QED
    BY <1>2, <1>5, <1>7, <1>8, <2>1, <2>2, <2>3, <2>4, <2>5 DEF PlacesInv
<1>12. DecodedInv'
  <2>1. \A j : Readable(j)' = Readable(j)
    BY <1>1 DEF Readable, GpuReads, CpuReads
  <2>2. \A images : Sane(images)' = Sane(images)
    BY <1>1, <2>1 DEF Sane
  <2> QED
    BY <1>0, <1>1, <1>7, <1>8, <2>2 DEF DecodedInv, Regular
<1>13. ImageInv'
  BY <1>0, <1>1, <1>8 DEF ImageInv, Regular, Counted
<1>14. StatsInv'
  <2>1. /\ {"received", "decoded", "batched"} \subseteq DOMAIN stats'
        /\ stats'.received = stats.received + Len(chunk)
        /\ stats'.decoded = stats.decoded /\ stats'.batched = stats.batched
    BY <1>0, <1>1 DEF StatsInv
  <2>2. IsFiniteSet(Put) /\ IsFiniteSet(InChunk) /\ Cardinality(InChunk) = Len(chunk)
    <3>1. Put \subseteq Got(pos)
      BY DEF Put
    <3> QED
      BY <1>0, <1>2, <3>1, GotIsFinite, ListSize, FS_Subset DEF InChunk
  <2>5. Cardinality(Put)' = Cardinality(Put) + Len(chunk)
    BY <1>5, <1>8, <2>2, DisjointSize
  <2>6. stats.received = Cardinality(Put) /\ (consumer # "failed" => stats.batched = Cardinality(Seen))
    BY <1>0 DEF StatsInv
  <2> QED
    BY <1>1, <1>8, <2>1, <2>5, <2>6 DEF StatsInv
<1>15. ExitInv'
  BY <1>0, <1>1 DEF ExitInv, SourceInv
<1>16. TallyInv'
  <2>1. stats'.decoded = stats.decoded
    BY <1>0, <1>1 DEF StatsInv
  <2> QED
    BY <1>1, <1>8, <2>1, TallyStays
<1> QED
  BY <1>9, <1>10, <1>11, <1>12, <1>13, <1>14, <1>15, <1>16 DEF AccountInv

-----------------------------------------------------------------------------
(* The pool at work.                                                         *)

\* Of what a decoder takes it loses what it cannot read, or all: then a frame was not regular.
LEMMA LossIsFlawed ==
  ASSUME CodecExact, Fitted, SourceInv, NEW q, IsList(q), Held(q) \subseteq Got(pos),
         NEW j \in Held(q), ~Emits(Readables(q)) \/ ~Readable(j)
  PROVE  \E i \in Got(pos) : ~Regular(stream[i], gpu)
<1> SUFFICES ASSUME \A i \in Got(pos) : Regular(stream[i], gpu) PROVE FALSE
  OBVIOUS
<1> DEFINE images == Readables(q)
<1>1. IsList(images) /\ Held(images) = {i \in Held(q) : Readable(i)}
  BY ReadableList
<1> HIDE DEF images
<1>2. \A i \in Got(pos) : Readable(i)
  BY DEF Regular, Readable, CpuReads, GpuReads
<1>3. ~Emits(images) /\ images # <<>> /\ j \in Held(images)
  BY <1>1, <1>2, HoldsNone DEF images
<1>4. Len(images) \in Nat \ {0} /\ images \in Seq(Nat)
  BY <1>1, <1>3, EmptySeq, LenProperties DEF IsList
<1>5. 1 \in 1 .. Len(images) /\ Len(images) \in 1 .. Len(images)
  BY <1>4
<1>6. \A k \in 1 .. Len(images) : images[k] \in Got(pos)
  BY <1>1 DEF Held
<1>7. ~Dies(images)
  BY <1>5, <1>6 DEF Dies, Regular
<1>8. Dropped(images)
  BY <1>3, <1>7 DEF Emits
<1>9. gpu
  BY <1>8 DEF Dropped
<1> DEFINE first == images[1]
           last == images[Len(images)]
           Kinds == {i \in 1 .. Len(stream) : stream[i].kind = "image"}
<1>10. first \in Kinds /\ last \in Kinds /\ Regular(stream[first], TRUE) /\ Regular(stream[last], TRUE)
  <2>1. \A i \in Got(pos) : i \in Kinds /\ Regular(stream[i], TRUE)
    <3>1. Got(pos) \subseteq Kinds
      BY PoolAssumption DEF SourceInv, Got
    <3> QED
      BY <1>9, <3>1 DEF Regular
  <2> QED
    BY <1>5, <1>6, <2>1
<1>11. stream[first].size = Area(Detector) * stream[last].elem
  BY <1>10 DEF CodecExact, Fitted, SourceInv
<1>12. GpuFits(Messages(images))
  <2> DEFINE ms == Messages(images)
  <2>1. ms = [k \in 1 .. Len(images) |-> stream[images[k]]]
    BY <1>4, LenProperties DEF Messages
  <2>2. Len(ms) = Len(images) /\ ms[1] = stream[first] /\ ms[Len(images)] = stream[last]
    <3>1. ms \in Seq({stream[images[k]] : k \in 1 .. Len(images)})
      BY <1>4, <2>1, SeqDef
    <3> HIDE DEF ms
    <3>2. DOMAIN ms = 1 .. Len(ms) /\ Len(ms) \in Nat /\ DOMAIN ms = 1 .. Len(images)
      BY <2>1, <3>1, LenProperties
    <3>3. Len(ms) = Len(images)
      BY <1>4, <3>2
    <3> QED
      BY <1>5, <2>1, <3>3
  <2> HIDE DEF ms
  <2> QED
    BY <1>11, <2>2 DEF GpuFits, Last, ms
<1> QED
  BY <1>8, <1>12 DEF Dropped

LEMMA TakeAccount ==
  ASSUME DistinctIds, CodecExact, Fitted, IInv, AccountInv, TallyInv, NEW d \in pool, Take(d)
  PROVE  AccountInv' /\ TallyInv'
<1> USE DEF source, prod
<1>0. SourceInv /\ ProducerInv /\ PlacesInv /\ DecodedInv /\ ImageInv /\ ExitInv /\ StatsInv
  BY DEF AccountInv
<1> DEFINE q == Head(rawQ)
           images == Readables(q)
           place == IF Emits(images) THEN "emit" ELSE IF Dies(images) THEN "died" ELSE "wait"
           batch == IF Emits(images) THEN images ELSE <<>>
           X == Held(q)
           Y == Held(batch)
<1>1. /\ at' = [at EXCEPT ![d] = place]
      /\ hand' = [hand EXCEPT ![d] = batch]
      /\ errors' = errors \cup {stream[i].id : i \in {j \in ToSet(q) : ~Emits(images) \/ ~Readable(j)}}
      /\ at[d] = "wait" /\ rawQ # <<>> /\ rawQ' = Tail(rawQ)
      /\ UNCHANGED <<source, prod, outQ, stop, joiner, consumer, image, tally, stats, overtaken>>
  BY TakeIs
<1>2. /\ IsList(chunk) /\ InChunk \subseteq Got(pos) /\ IsFamily(1 .. Len(rawQ), rawQ)
      /\ \A k \in 1 .. Len(rawQ) : rawQ[k] # <<>>
      /\ IsFamily(pool, hand) /\ IsFamily(1 .. Len(outQ), Batches)
      /\ InRaw \subseteq Put /\ InHands \subseteq Put /\ InOut \subseteq Put
      /\ InRaw \cap InHands = {} /\ InRaw \cap InOut = {} /\ InHands \cap InOut = {}
      /\ IsQueue(rawQ) /\ errors \subseteq {stream[j].id : j \in Put}
      /\ Failed \cap (InChunk \cup InRaw \cup InHands \cup InOut) = {}
      /\ Put = Got(pos) \ InChunk
  BY <1>0 DEF PlacesInv, Put
<1>3. /\ IsQueue(rawQ') /\ q = rawQ[1] /\ Len(rawQ) \in Nat \ {0} /\ Len(rawQ') = Len(rawQ) - 1
      /\ \A i \in 1 .. Len(rawQ') : rawQ'[i] = rawQ[i + 1]
  BY <1>1, <1>2, TailQueue
<1>4. 1 \in 1 .. Len(rawQ) /\ \A i \in 1 .. Len(rawQ') : i + 1 \in 1 .. Len(rawQ)
  BY <1>3
<1>5. IsList(q) /\ X \subseteq InRaw
  BY <1>2, <1>3, <1>4 DEF IsFamily, InRaw, HeldIn
<1>6. IsList(images) /\ Held(images) = {j \in X : Readable(j)}
  BY <1>5, ReadableList
<1>7. IsList(batch) /\ Y \subseteq X
  BY <1>6, EmptyList
<1>8. ToSet(q) = X
  <2>1. DOMAIN q = 1 .. Len(q)
    BY <1>5, LenProperties DEF IsList
  <2> HIDE DEF q
  <2> QED
    BY <2>1 DEF ToSet, Held
<1>9. errors' = errors \cup {stream[i].id : i \in X \ Y}
  <2>1. {j \in X : ~Emits(images) \/ ~Readable(j)} = X \ Y
    BY <1>6, EmptyList
  <2> HIDE DEF images, X, Y, q
  <2> QED
    BY <1>1, <1>8, <2>1
<1>i. hand[d] = <<>> /\ pool = DOMAIN hand /\ pool = DOMAIN at
  BY <1>1 DEF IInv, HandInv, QueueInv
<1> HIDE DEF place
<1>10. place \in {"emit", "died", "wait"} /\ at'[d] = place /\ \A e \in pool \ {d} : at'[e] = at[e]
  BY <1>1, <1>i DEF place
<1>11. hand'[d] = batch /\ \A e \in pool \ {d} : hand'[e] = hand[e]
  BY <1>1, <1>i
<1>e. batch # <<>> => batch = images /\ Emits(images)
  OBVIOUS
<1>12. IsFamily(1 .. Len(rawQ'), rawQ') /\ HeldIn(1 .. Len(rawQ'), rawQ') = InRaw \ X
  <2> DEFINE n == Len(rawQ)
             g == rawQ
             h == rawQ'
  <2>1. /\ n \in Nat \ {0} /\ IsFamily(1 .. n, g) /\ (\A i \in 1 .. (n - 1) : h[i] = g[i + 1])
        /\ Len(h) = n - 1 /\ g[1] = q
    BY <1>2, <1>3
  <2> HIDE DEF n, g, h, q
  <2>2. IsFamily(1 .. (n - 1), h) /\ HeldIn(1 .. (n - 1), h) = HeldIn(1 .. n, g) \ Held(g[1])
    BY <2>1, FamilyShifts
  <2> QED
    BY <2>1, <2>2 DEF n, g, h, InRaw
<1>13. IsFamily(pool, hand') /\ HeldIn(pool, hand') = InHands \cup Y
  <2> DEFINE h == hand'
  <2>1. /\ IsFamily(pool, hand) /\ hand[d] = <<>> /\ (\A i \in pool \ {d} : h[i] = hand[i])
        /\ h[d] = batch /\ IsList(batch) /\ Y \cap HeldIn(pool, hand) = {}
    BY <1>2, <1>5, <1>7, <1>11, <1>i DEF InHands
  <2> HIDE DEF h, batch
  <2>2. IsFamily(pool, h) /\ HeldIn(pool, h) = HeldIn(pool, hand) \cup Y
    BY <2>1, FamilyRefilled
  <2> QED
    BY <2>1, <2>2 DEF h, InHands
<1> HIDE DEF batch, images, q
<1>14. X \subseteq Put /\ Put \subseteq Got(pos) /\ X \cap InHands = {} /\ X \cap InOut = {}
       /\ X \cap Failed = {} /\ X \cap InChunk = {}
  BY <1>2, <1>5
<1>15. Got(pos)' = Got(pos) /\ InChunk' = InChunk /\ InOut' = InOut /\ Put' = Put
  <2>1. Got(pos)' = Got(pos) /\ InChunk' = InChunk /\ Batches' = Batches
    BY <1>1 DEF Got, InChunk, HeldIn, Held, Batches
  <2>2. InOut' = InOut
    BY <1>1, <2>1 DEF InOut, HeldIn, Held
  <2> QED
    BY <2>1, <2>2 DEF Put
<1>16. InRaw' = InRaw \ X /\ InHands' = InHands \cup Y
  <2>1. InRaw' = HeldIn(1 .. Len(rawQ'), rawQ') /\ InHands' = HeldIn(pool, hand')
    BY <1>1 DEF InRaw, InHands, HeldIn, Held
  <2> QED
    BY <1>12, <1>13, <2>1
<1>17. Failed' = Failed \cup (X \ Y)
  <2> HIDE DEF X, Y
  <2>1. \A j \in Got(pos) : stream[j].id \in {stream[i].id : i \in X \ Y} <=> j \in X \ Y
    <3> TAKE j \in Got(pos)
    <3>1. ASSUME NEW i \in X \ Y, stream[j].id = stream[i].id PROVE j \in X \ Y
      BY <1>0, <1>14, <3>1, IdsApart
    <3> QED
      BY <3>1
  <2>2. \A j \in Got(pos) : stream[j].id \in errors' <=> stream[j].id \in errors \/ j \in X \ Y
    BY <1>9, <2>1
  <2>3. Failed' = {j \in Got(pos) : stream[j].id \in errors'}
    BY <1>1, <1>15 DEF Failed
  <2> QED
    BY <1>14, <2>2, <2>3 DEF Failed
<1>18. Made' = Made /\ Seen' = Seen
  <2> HIDE DEF X, Y
  <2>1. Made' = Made
    BY <1>5, <1>7, <1>15, <1>16, <1>17 DEF Made
  <2> QED
    BY <1>15, <2>1 DEF Seen
<1>19. SourceInv'
  BY <1>0, <1>1 DEF SourceInv
<1>20. ProducerInv'
  BY <1>0, <1>1 DEF ProducerInv
<1>21. PlacesInv'
  <2> HIDE DEF X, Y
  <2>1. IsList(chunk)' /\ IsFamily(1 .. Len(outQ), Batches)'
    <3>1. Batches' = Batches
      BY <1>1 DEF Batches
    <3>2. /\ IsList(chunk)' = IsList(chunk)
          /\ IsFamily(1 .. Len(outQ), Batches)' = IsFamily(1 .. Len(outQ), Batches)
      BY <1>1, <3>1 DEF IsFamily, IsList, Held
    <3> QED
      BY <1>2, <3>2
  <2>2. IsFamily(1 .. Len(rawQ), rawQ)' /\ IsQueue(rawQ)' /\ IsFamily(pool, hand)'
    BY <1>1, <1>3, <1>12, <1>13 DEF IsFamily, IsList, Held, IsQueue, Items
  <2>3. (\A k \in 1 .. Len(rawQ) : rawQ[k] # <<>>)'
    BY <1>2, <1>3, <1>4
  <2>4. (errors \subseteq {stream[j].id : j \in Put})'
    BY <1>1, <1>2, <1>9, <1>14, <1>15
  <2>5. (Failed \cap (InChunk \cup InRaw \cup InHands \cup InOut) = {})'
    BY <1>2, <1>5, <1>7, <1>14, <1>15, <1>16, <1>17
  <2>6. /\ (InChunk \subseteq Got(pos))'
        /\ (InRaw \subseteq Put /\ InHands \subseteq Put /\ InOut \subseteq Put)'
        /\ (InRaw \cap InHands = {} /\ InRaw \cap InOut = {} /\ InHands \cap InOut = {})'
    BY <1>2, <1>7, <1>14, <1>15, <1>16
  <2> QED
    BY <2>1, <2>2, <2>3, <2>4, <2>5, <2>6 DEF PlacesInv
<1>22. DecodedInv'
  <2>1. \A j : Readable(j)' = Readable(j)
    BY <1>1 DEF Readable, GpuReads, CpuReads
  <2>2. \A list : Sane(list)' = Sane(list)
    BY <1>1, <2>1 DEF Sane
  <2>3. Sane(hand'[d])
    <3>1. CASE batch = <<>>
      BY <1>11, <3>1, EmptyList DEF Sane
    <3>2. CASE batch # <<>>
      <4>1. batch = images /\ Emits(images) /\ \A j \in Held(images) : Readable(j)
        BY <1>6, <1>e, <3>2
      <4>2. gpu => GpuFits(Messages(images))
        BY <4>1 DEF Emits, Dropped
      <4>3. gpu => stream[images[1]].size = Area(Detector) * stream[images[Len(images)]].elem
        <5> DEFINE ms == Messages(images)
        <5>0. Len(images) \in Nat \ {0} /\ DOMAIN images = 1 .. Len(images)
          BY <1>6, <3>2, <4>1, EmptySeq, LenProperties DEF IsList
        <5>1. ms = [k \in 1 .. Len(images) |-> stream[images[k]]]
          BY <5>0 DEF Messages
        <5>2. ms \in Seq({stream[images[k]] : k \in 1 .. Len(images)})
          BY <5>0, <5>1, SeqDef
        <5> HIDE DEF ms
        <5>3. DOMAIN ms = 1 .. Len(ms) /\ Len(ms) \in Nat /\ DOMAIN ms = 1 .. Len(images)
          BY <5>1, <5>2, LenProperties
        <5> DEFINE a == Len(ms)
                   b == Len(images)
        <5>7. a \in Nat /\ b \in Nat \ {0} /\ 1 .. a = 1 .. b
          BY <5>0, <5>3
        <5> HIDE DEF a, b
        <5>8. a = b
          BY <5>7
        <5>6. Len(ms) = Len(images)
          BY <5>8 DEF a, b
        <5>4. Len(ms) = Len(images) /\ 1 \in 1 .. Len(images) /\ Len(images) \in 1 .. Len(images)
          BY <5>0, <5>6
        <5>5. ms[1] = stream[images[1]] /\ ms[Len(ms)] = stream[images[Len(images)]]
          BY <5>1, <5>4
        <5> QED
          BY <4>2, <5>5 DEF GpuFits, Last, ms
      <4> QED
        BY <1>11, <4>1, <4>3 DEF Sane
    <3> QED
      BY <3>1, <3>2
  <2>4. \A e \in pool : Sane(hand'[e])
    BY <1>0, <1>11, <2>3 DEF DecodedInv
  <2>5. errors' # {} => \E j \in Got(pos) : ~Regular(stream[j], gpu)
    <3>1. CASE errors # {}
      BY <1>0, <3>1 DEF DecodedInv
    <3>2. CASE errors = {} /\ errors' # {}
      <4>1. PICK j \in X : ~Emits(Readables(q)) \/ ~Readable(j)
        BY <1>1, <1>8, <3>2 DEF images
      <4> QED
        BY <1>0, <1>5, <1>14, <4>1, LossIsFlawed
    <3> QED
      BY <3>1, <3>2
  <2> QED
    BY <1>0, <1>1, <1>15, <1>18, <2>2, <2>4, <2>5 DEF DecodedInv, Regular
<1>23. ImageInv' /\ StatsInv'
  BY <1>0, <1>1, <1>15, <1>18 DEF ImageInv, Regular, Counted, StatsInv
<1>24. ExitInv'
  BY <1>0, <1>1, <1>10 DEF ExitInv, SourceInv
<1>25. TallyInv'
  <2>1. \A e \in pool : at'[e] # "count" => at[e] # "count"
    BY <1>1, <1>10
  <2> QED
    BY <1>1, <1>18, <2>1, TallyStays
<1> QED
  BY <1>19, <1>20, <1>21, <1>22, <1>23, <1>24, <1>25 DEF AccountInv

\* A batch, or the mark of the end, joins the out queue.
LEMMA OutGains ==
  ASSUME IsQueue(outQ), IsFamily(1 .. Len(outQ), Batches), NEW b, outQ' = Append(outQ, b),
         IsList(b.images), Held(b.images) \cap InOut = {}
  PROVE  /\ IsFamily(1 .. Len(outQ), Batches)' /\ InOut' = InOut \cup Held(b.images)
         /\ \A k \in 1 .. Len(outQ') : outQ'[k] = b \/ (k \in 1 .. Len(outQ) /\ outQ'[k] = outQ[k])
<1> DEFINE n == Len(outQ)
           m == n + 1
           I == 1 .. n
           g == Batches
           h == [k \in 1 .. Len(outQ') |-> outQ'[k].images]
           z == b.images
<1>1. /\ n \in Nat /\ Len(outQ') = m
      /\ \A i \in 1 .. n : outQ'[i] = outQ[i]
      /\ outQ'[m] = b
  BY AppendQueue
<1>2. 1 .. Len(outQ') = I \cup {m} /\ m \notin I
  BY <1>1
<1>3. /\ IsFamily(I, g) /\ h[m] = z /\ m \notin I
      /\ \A i \in I : h[i] = g[i]
      /\ IsList(z) /\ Held(z) \cap HeldIn(I, g) = {}
  BY <1>1, <1>2 DEF Batches, InOut
<1> HIDE DEF h, I, m, g, z
<1>4. IsFamily(I \cup {m}, h) /\ HeldIn(I \cup {m}, h) = HeldIn(I, g) \cup Held(z)
  <2> HIDE DEF n
  <2> QED
    BY ONLY <1>3, FamilyGains
<1>5. Batches' = h
  BY DEF Batches, h
<1>6. InOut' = HeldIn(1 .. Len(outQ'), h) /\ InOut = HeldIn(I, g)
  BY <1>5 DEF InOut, HeldIn, Held, I, g
<1>7. IsFamily(1 .. Len(outQ), Batches)' <=> IsFamily(1 .. Len(outQ'), h)
  BY <1>5 DEF IsFamily, IsList, Held
<1>8. \A k \in 1 .. Len(outQ') : outQ'[k] = b \/ (k \in 1 .. Len(outQ) /\ outQ'[k] = outQ[k])
  <2>1. \A k \in 1 .. Len(outQ') : k = m \/ k \in 1 .. n
    BY <1>2 DEF I
  <2> QED
    BY <1>1, <2>1
<1> QED
  BY <1>2, <1>3, <1>4, <1>6, <1>7, <1>8 DEF z

LEMMA EmitAccount ==
  ASSUME IInv, AccountInv, TallyInv, NEW d \in pool, Emit(d)
  PROVE  AccountInv' /\ TallyInv'
<1> USE DEF source, prod
<1>0. SourceInv /\ ProducerInv /\ PlacesInv /\ DecodedInv /\ ImageInv /\ ExitInv /\ StatsInv
  BY DEF AccountInv
<1> DEFINE q == hand[d]
           b == Batch(q)
           Y == Held(q)
<1>1. /\ at[d] = "emit" /\ outQ' = Append(outQ, b) /\ hand' = [hand EXCEPT ![d] = <<>>]
      /\ at' = [at EXCEPT ![d] = "count"] /\ tally' = [tally EXCEPT ![d] = Len(q)]
      /\ UNCHANGED <<source, prod, rawQ, stop, joiner, consumer, image, errors, stats, overtaken>>
  BY DEF Emit
<1>2. /\ IsList(chunk) /\ InChunk \subseteq Got(pos) /\ IsFamily(1 .. Len(rawQ), rawQ)
      /\ \A k \in 1 .. Len(rawQ) : rawQ[k] # <<>>
      /\ IsFamily(pool, hand) /\ IsFamily(1 .. Len(outQ), Batches)
      /\ InRaw \subseteq Put /\ InHands \subseteq Put /\ InOut \subseteq Put
      /\ InRaw \cap InHands = {} /\ InRaw \cap InOut = {} /\ InHands \cap InOut = {}
      /\ IsQueue(rawQ) /\ errors \subseteq {stream[j].id : j \in Put}
      /\ Failed \cap (InChunk \cup InRaw \cup InHands \cup InOut) = {}
  BY <1>0 DEF PlacesInv
<1>3. IsQueue(outQ) /\ pool = DOMAIN at /\ pool = DOMAIN hand
  BY DEF IInv, QueueInv
<1>4. IsList(q) /\ Y \subseteq InHands /\ b.images = q /\ b.end = FALSE
  BY <1>2 DEF IsFamily, InHands, HeldIn, Batch
<1>5. /\ IsFamily(1 .. Len(outQ), Batches)' /\ InOut' = InOut \cup Y
      /\ \A k \in 1 .. Len(outQ') : outQ'[k] = b \/ (k \in 1 .. Len(outQ) /\ outQ'[k] = outQ[k])
  <2> HIDE DEF b
  <2>1. Held(b.images) \cap InOut = {} /\ IsList(b.images)
    BY <1>2, <1>4
  <2> QED
    BY <1>1, <1>2, <1>3, <1>4, <2>1, OutGains
<1> HIDE DEF b
<1>6. IsFamily(pool, hand)' /\ InHands' = InHands \ Y
  <2> DEFINE h == hand'
  <2>1. IsFamily(pool, hand) /\ h[d] = <<>> /\ \A i \in pool \ {d} : h[i] = hand[i]
    BY <1>1, <1>2, <1>3
  <2> HIDE DEF h
  <2>2. IsFamily(pool, h) /\ HeldIn(pool, h) = HeldIn(pool, hand) \ Held(hand[d])
    BY <2>1, FamilyLoses
  <2>3. InHands' = HeldIn(pool, h) /\ (IsFamily(pool, hand)' <=> IsFamily(pool, h))
    BY <1>1 DEF h, InHands, HeldIn, Held, IsFamily, IsList
  <2> QED
    BY <2>2, <2>3 DEF InHands
<1> HIDE DEF Y, q
<1>7. Got(pos)' = Got(pos) /\ InChunk' = InChunk /\ InRaw' = InRaw /\ Failed' = Failed /\ Put' = Put
  <2>1. Got(pos)' = Got(pos) /\ InChunk' = InChunk /\ InRaw' = InRaw
    BY <1>1 DEF Got, InChunk, InRaw, HeldIn, Held
  <2>2. Failed' = Failed
    BY <1>1, <2>1 DEF Failed
  <2> QED
    BY <2>1, <2>2 DEF Put
<1>8. Made' = Made \cup Y /\ Made \cap Y = {} /\ Seen' = Seen
  <2>1. Made' = Made \cup Y /\ Made \cap Y = {}
    BY <1>2, <1>4, <1>6, <1>7 DEF Made
  <2>2. Seen' = Seen
    BY <1>2, <1>4, <1>5, <2>1 DEF Seen
  <2> QED
    BY <2>1, <2>2
<1>9. SourceInv' /\ ProducerInv'
  BY <1>0, <1>1 DEF SourceInv, ProducerInv
<1>10. PlacesInv'
  <2>1. IsList(chunk)' /\ IsFamily(1 .. Len(rawQ), rawQ)' /\ IsQueue(rawQ)'
    <3>1. /\ IsList(chunk)' = IsList(chunk) /\ IsQueue(rawQ)' = IsQueue(rawQ)
          /\ IsFamily(1 .. Len(rawQ), rawQ)' = IsFamily(1 .. Len(rawQ), rawQ)
      BY <1>1 DEF IsFamily, IsList, Held, IsQueue, Items
    <3> QED
      BY <1>2, <3>1
  <2>2. (\A k \in 1 .. Len(rawQ) : rawQ[k] # <<>>)' /\ (errors \subseteq {stream[j].id : j \in Put})'
    BY <1>1, <1>2, <1>7
  <2>3. (Failed \cap (InChunk \cup InRaw \cup InHands \cup InOut) = {})'
    BY <1>2, <1>4, <1>5, <1>6, <1>7
  <2>4. /\ (InChunk \subseteq Got(pos))'
        /\ (InRaw \subseteq Put /\ InHands \subseteq Put /\ InOut \subseteq Put)'
        /\ (InRaw \cap InHands = {} /\ InRaw \cap InOut = {} /\ InHands \cap InOut = {})'
    BY <1>2, <1>4, <1>5, <1>6, <1>7
  <2> QED
    BY <1>5, <1>6, <2>1, <2>2, <2>3, <2>4 DEF PlacesInv
<1>11. DecodedInv'
  <2>1. \A j : Readable(j)' = Readable(j)
    BY <1>1 DEF Readable, GpuReads, CpuReads
  <2>2. \A list : Sane(list)' = Sane(list)
    BY <1>1, <2>1 DEF Sane
  <2>3. Sane(<<>>)
    BY EmptyList DEF Sane
  <2>4. \A e \in pool : Sane(hand'[e])
    BY <1>0, <1>1, <1>3, <2>3 DEF DecodedInv
  <2>5. \A k \in 1 .. Len(outQ') : Sane(outQ'[k].images) /\ (outQ'[k].end => outQ'[k].images = <<>>)
    BY <1>0, <1>4, <1>5 DEF DecodedInv, q
  <2> QED
    BY <1>0, <1>1, <1>7, <1>8, <2>2, <2>4, <2>5 DEF DecodedInv, Regular
<1>12. ImageInv' /\ StatsInv'
  BY <1>0, <1>1, <1>7, <1>8 DEF ImageInv, Regular, Counted, StatsInv
<1>13. ExitInv'
  BY <1>0, <1>1, <1>3 DEF ExitInv, SourceInv
<1>14. TallyInv'
  <2>1. PICK f \in [pool -> SUBSET Made] :
          /\ \A e, g \in pool : e # g => f[e] \cap f[g] = {}
          /\ \A e \in pool : Cardinality(f[e]) = tally[e] /\ (at[e] # "count" => f[e] = {})
          /\ stats.decoded = Cardinality(Made \ UNION {f[e] : e \in pool})
    BY DEF TallyInv
  <2> DEFINE h == [f EXCEPT ![d] = Y]
  <2>2. h \in [pool -> SUBSET (Made \cup Y)] /\ f[d] = {}
    BY <1>1, <2>1
  <2>3. h[d] = Y /\ \A e \in pool \ {d} : h[e] = f[e]
    OBVIOUS
  <2> HIDE DEF h
  <2>4. \A e, g \in pool : e # g => h[e] \cap h[g] = {}
    <3> SUFFICES ASSUME NEW e \in pool, NEW g \in pool, e # g PROVE h[e] \cap h[g] = {}
      OBVIOUS
    <3>1. CASE e # d /\ g # d
      BY <2>1, <2>3, <3>1
    <3>2. CASE e = d
      BY <1>8, <2>1, <2>3, <3>2
    <3>3. CASE g = d
      BY <1>8, <2>1, <2>3, <3>3
    <3> QED
      BY <3>1, <3>2, <3>3
  <2>5. DOMAIN tally = pool /\ DOMAIN tally' = pool /\ pool' = pool
    BY <1>1 DEF TallyInv
  <2>6. \A e \in pool : Cardinality(h[e]) = tally'[e] /\ (at'[e] # "count" => h[e] = {})
    <3>1. Cardinality(Y) = Len(q)
      BY <1>4, ListSize DEF Y
    <3>2. tally'[d] = Len(q) /\ at'[d] = "count"
          /\ \A e \in pool \ {d} : tally'[e] = tally[e] /\ at'[e] = at[e]
      BY <1>1, <1>3, <2>5
    <3> QED
      BY <2>1, <2>3, <3>1, <3>2
  <2>7. stats'.decoded = Cardinality((Made \cup Y) \ UNION {h[e] : e \in pool})
    <3>1. \A x : (\E e \in pool : x \in h[e]) <=> x \in Y \/ \E e \in pool : x \in f[e]
      BY <2>2, <2>3
    <3>2. (Made \cup Y) \ UNION {h[e] : e \in pool} = Made \ UNION {f[e] : e \in pool}
      BY <1>8, <3>1
    <3> QED
      BY <1>1, <2>1, <3>2
  <2> QED
    BY <1>8, <2>2, <2>4, <2>5, <2>6, <2>7 DEF TallyInv
<1> QED
  BY <1>9, <1>10, <1>11, <1>12, <1>13, <1>14 DEF AccountInv

LEMMA CountAccount ==
  ASSUME IInv, AccountInv, TallyInv, NEW d \in pool, Count(d)
  PROVE  AccountInv' /\ TallyInv'
<1> USE DEF source, prod
<1>0. SourceInv /\ ProducerInv /\ PlacesInv /\ DecodedInv /\ ImageInv /\ ExitInv /\ StatsInv
  BY DEF AccountInv
<1>1. /\ at[d] = "count" /\ at' = [at EXCEPT ![d] = "wait"] /\ tally' = [tally EXCEPT ![d] = 0]
      /\ \E n : stats' = [stats EXCEPT !.decoded = @ + tally[d], !.deepest = n]
      /\ UNCHANGED <<source, prod, rawQ, outQ, stop, hand, joiner, consumer, image, errors, overtaken>>
  BY DEF Count
<1>2. pool = DOMAIN at /\ DOMAIN tally = pool
  BY DEF IInv, QueueInv, TallyInv
<1>3. SourceInv' /\ ProducerInv'
  BY <1>0, <1>1 DEF SourceInv, ProducerInv
<1>4. ExitInv'
  BY <1>0, <1>1, <1>2 DEF ExitInv, SourceInv
<1>5. /\ {"received", "decoded", "batched"} \subseteq DOMAIN stats'
      /\ stats'.received = stats.received /\ stats'.batched = stats.batched
      /\ stats'.decoded = stats.decoded + tally[d]
  BY <1>0, <1>1 DEF StatsInv
<1>6. /\ Got(pos)' = Got(pos) /\ InChunk' = InChunk /\ InRaw' = InRaw /\ InHands' = InHands
      /\ Batches' = Batches
  BY <1>1 DEF Got, InChunk, InRaw, InHands, HeldIn, Held, Batches
<1>7. InOut' = InOut /\ Failed' = Failed
  BY <1>1, <1>6 DEF InOut, Failed, HeldIn, Held
<1>8. Put' = Put /\ Made' = Made /\ Seen' = Seen
  BY <1>6, <1>7 DEF Put, Made, Seen
<1>9. PlacesInv'
  <2>1. /\ IsList(chunk)' = IsList(chunk) /\ IsQueue(rawQ)' = IsQueue(rawQ)
        /\ IsFamily(1 .. Len(rawQ), rawQ)' = IsFamily(1 .. Len(rawQ), rawQ)
        /\ IsFamily(pool, hand)' = IsFamily(pool, hand)
        /\ IsFamily(1 .. Len(outQ), Batches)' = IsFamily(1 .. Len(outQ), Batches)
    BY <1>1, <1>6 DEF IsFamily, IsList, Held, IsQueue, Items
  <2>2. {stream[j].id : j \in Put}' = {stream[j].id : j \in Put}
    BY <1>1, <1>8
  <2> QED
    BY <1>0, <1>1, <1>6, <1>7, <1>8, <2>1, <2>2 DEF PlacesInv
<1>10. DecodedInv'
  <2>1. \A j : Readable(j)' = Readable(j)
    BY <1>1 DEF Readable, GpuReads, CpuReads
  <2>2. \A list : Sane(list)' = Sane(list)
    BY <1>1, <2>1 DEF Sane
  <2> QED
    BY <1>0, <1>1, <1>6, <1>8, <2>2 DEF DecodedInv, Regular
<1>11. ImageInv' /\ StatsInv'
  BY <1>0, <1>1, <1>5, <1>8 DEF ImageInv, Regular, Counted, StatsInv
<1>12. TallyInv'
  <2>1. PICK f \in [pool -> SUBSET Made] :
          /\ \A e, g \in pool : e # g => f[e] \cap f[g] = {}
          /\ \A e \in pool : Cardinality(f[e]) = tally[e] /\ (at[e] # "count" => f[e] = {})
          /\ stats.decoded = Cardinality(Made \ UNION {f[e] : e \in pool})
    BY DEF TallyInv
  <2> DEFINE h == [f EXCEPT ![d] = {}]
  <2>2. h \in [pool -> SUBSET Made]
    BY <2>1
  <2>3. h[d] = {} /\ \A e \in pool \ {d} : h[e] = f[e]
    OBVIOUS
  <2> HIDE DEF h
  <2>4. \A e, g \in pool : e # g => h[e] \cap h[g] = {}
    <3> SUFFICES ASSUME NEW e \in pool, NEW g \in pool, e # g PROVE h[e] \cap h[g] = {}
      OBVIOUS
    <3>1. CASE e # d /\ g # d
      BY <2>1, <2>3, <3>1
    <3>2. CASE e = d \/ g = d
      BY <2>3, <3>2
    <3> QED
      BY <3>1, <3>2
  <2>5. \A e \in pool : Cardinality(h[e]) = tally'[e] /\ (at'[e] # "count" => h[e] = {})
    <3>1. Cardinality({}) = 0
      BY FS_EmptySet
    <3>2. tally'[d] = 0 /\ \A e \in pool \ {d} : tally'[e] = tally[e] /\ at'[e] = at[e]
      BY <1>1, <1>2
    <3> QED
      BY <2>1, <2>3, <3>1, <3>2
  <2> DEFINE U == UNION {f[e] : e \in pool}
             V == UNION {h[e] : e \in pool}
  <2>6. Made \ V = (Made \ U) \cup f[d] /\ (Made \ U) \cap f[d] = {}
    <3>1. U = V \cup f[d]
      BY <2>3
    <3>2. V \cap f[d] = {}
      <4> SUFFICES ASSUME NEW e \in pool, NEW x \in h[e], x \in f[d] PROVE FALSE
        OBVIOUS
      <4>1. e # d
        BY <2>3
      <4> QED
        BY <2>1, <2>3, <4>1
    <3>3. f[d] \subseteq Made
      BY <2>1
    <3> QED
      BY <3>1, <3>2, <3>3
  <2>7. IsFiniteSet(Made)
    <3>1. Made \subseteq Got(pos)
      BY DEF Made, Put
    <3> QED
      BY <1>0, <3>1, GotIsFinite, FS_Subset
  <2>8. IsFiniteSet(Made \ U) /\ IsFiniteSet(f[d])
    <3>1. f[d] \subseteq Made /\ Made \ U \subseteq Made
      BY <2>1
    <3> QED
      BY <2>7, <3>1, FS_Subset
  <2>9. Cardinality(Made \ V) = Cardinality(Made \ U) + Cardinality(f[d])
    BY <2>6, <2>8, DisjointSize
  <2>10. stats'.decoded = Cardinality(Made \ V)
    BY <1>5, <2>1, <2>9
  <2>11. DOMAIN tally' = pool /\ pool' = pool
    BY <1>1, <1>2
  <2> HIDE DEF V
  <2> QED
    BY <1>8, <2>2, <2>4, <2>5, <2>10, <2>11 DEF TallyInv, V
<1> QED
  BY <1>3, <1>4, <1>9, <1>10, <1>11, <1>12 DEF AccountInv

LEMMA JoinAccount ==
  ASSUME IInv, AccountInv, TallyInv, Join
  PROVE  AccountInv' /\ TallyInv'
<1> USE DEF source, prod
<1>0. SourceInv /\ ProducerInv /\ PlacesInv /\ DecodedInv /\ ImageInv /\ ExitInv /\ StatsInv
  BY DEF AccountInv
<1>1. /\ outQ' = Append(outQ, EndMark)
      /\ UNCHANGED <<source, prod, rawQ, stop, at, hand, consumer, image, tallies, overtaken>>
  BY DEF Join
<1>2. EndMark.images = <<>> /\ IsList(EndMark.images) /\ Held(EndMark.images) = {}
  BY EmptyList DEF EndMark
<1>3. /\ IsFamily(1 .. Len(outQ), Batches)' /\ InOut' = InOut
      /\ \A k \in 1 .. Len(outQ') : outQ'[k] = EndMark \/ (k \in 1 .. Len(outQ) /\ outQ'[k] = outQ[k])
  <2>1. IsQueue(outQ) /\ IsFamily(1 .. Len(outQ), Batches)
    BY <1>0 DEF IInv, QueueInv, PlacesInv
  <2>2. Held(EndMark.images) \cap InOut = {}
    BY <1>2
  <2> QED
    BY <1>1, <1>2, <2>1, <2>2, OutGains
<1>4. SourceInv' /\ ProducerInv' /\ ExitInv'
  BY <1>0, <1>1 DEF SourceInv, ProducerInv, ExitInv
<1>5. Got(pos)' = Got(pos) /\ InChunk' = InChunk /\ InRaw' = InRaw /\ InHands' = InHands
  BY <1>1 DEF Got, InChunk, InRaw, InHands, HeldIn, Held
<1>6. Failed' = Failed
  BY <1>1, <1>5 DEF Failed, tallies
<1>7. Put' = Put /\ Made' = Made /\ Seen' = Seen
  BY <1>3, <1>5, <1>6 DEF Put, Made, Seen
<1>8. PlacesInv'
  <2>1. /\ IsList(chunk)' = IsList(chunk) /\ IsQueue(rawQ)' = IsQueue(rawQ)
        /\ IsFamily(1 .. Len(rawQ), rawQ)' = IsFamily(1 .. Len(rawQ), rawQ)
        /\ IsFamily(pool, hand)' = IsFamily(pool, hand)
    BY <1>1 DEF IsFamily, IsList, Held, IsQueue, Items
  <2>2. {stream[j].id : j \in Put}' = {stream[j].id : j \in Put}
    BY <1>1, <1>7
  <2> QED
    BY <1>0, <1>1, <1>3, <1>5, <1>6, <1>7, <2>1, <2>2 DEF PlacesInv, tallies
<1>9. DecodedInv'
  <2>1. \A j : Readable(j)' = Readable(j)
    BY <1>1 DEF Readable, GpuReads, CpuReads
  <2>2. \A list : Sane(list)' = Sane(list)
    BY <1>1, <2>1 DEF Sane
  <2>3. Sane(<<>>)
    BY EmptyList DEF Sane
  <2>4. \A k \in 1 .. Len(outQ') : Sane(outQ'[k].images) /\ (outQ'[k].end => outQ'[k].images = <<>>)
    BY <1>0, <1>2, <1>3, <2>3 DEF DecodedInv
  <2> QED
    BY <1>0, <1>1, <1>5, <1>7, <2>2, <2>4 DEF DecodedInv, Regular, tallies
<1>10. ImageInv' /\ StatsInv'
  BY <1>0, <1>1, <1>7 DEF ImageInv, Regular, Counted, StatsInv, tallies
<1>11. TallyInv'
  BY <1>1, <1>7, TallyStays DEF tallies
<1> QED
  BY <1>4, <1>8, <1>9, <1>10, <1>11 DEF AccountInv

-----------------------------------------------------------------------------
(* The image.                                                                *)

\* What process writes for a regular frame is the detector's count.
LEMMA FrameWeighed ==
  ASSUME CodecExact, Fitted, SourceInv, NEW images, IsList(images), Held(images) \subseteq Got(pos),
         Sane(images), NEW k \in 1 .. Len(images), Regular(stream[images[k]], gpu)
  PROVE  Reduced(Frame(images, k), Weights) = Counted(stream[images[k]], masks)
<1>1. Len(images) \in Nat \ {0} /\ images # <<>>
  <2>1. Len(images) \in Nat
    BY LenProperties DEF IsList
  <2>2. Len(images) # 0
    BY <2>1
  <2> QED
    BY <2>1, <2>2, EmptySeq
<1>2. 1 \in 1 .. Len(images) /\ Len(images) \in 1 .. Len(images)
  BY <1>1
<1> DEFINE Kinds == {i \in 1 .. Len(stream) : stream[i].kind = "image"}
           n == images[k]
           first == images[1]
           last == images[Len(images)]
<1>3. n \in Kinds /\ first \in Kinds /\ last \in Kinds
  <2>1. Got(pos) \subseteq Kinds
    BY PoolAssumption DEF SourceInv, Got
  <2> QED
    BY <1>2, <2>1 DEF Held
<1>4. first \in Held(images)
  BY <1>2 DEF Held
<1>5. Weights = WeightsOf(masks)
  BY DEF Weights
<1>6. CASE gpu
  <2>1. Regular(stream[n], TRUE)
    BY <1>6 DEF Regular
  <2>2. stream[first].readable /\ stream[first].size = Area(Detector) * stream[last].elem
    BY <1>1, <1>4, <1>6 DEF Sane, Readable, GpuReads, HasImage
  <2>3. Frame(images, k)
          = [p \in 1 .. Area(Detector) |-> GpuPixel(stream[n], stream[first], stream[last].elem, p)]
    BY <1>6 DEF Frame, Last
  <2>4. Reduced([p \in 1 .. Area(Detector) |-> GpuPixel(stream[n], stream[first], stream[last].elem, p)],
                WeightsOf(masks)) = Counted(stream[n], masks)
    BY <1>3, <2>1, <2>2 DEF CodecExact, Fitted, SourceInv
  <2> QED
    BY <1>5, <2>3, <2>4
<1>7. CASE ~gpu
  <2>1. Regular(stream[n], FALSE)
    BY DEF Regular
  <2>2. Frame(images, k) = [p \in 1 .. Area(Detector) |-> CpuPixel(stream[n], p)]
    BY <1>7 DEF Frame
  <2>3. Reduced([p \in 1 .. Area(Detector) |-> CpuPixel(stream[n], p)], WeightsOf(masks))
          = Counted(stream[n], masks)
    BY <1>3, <2>1 DEF CodecExact, Fitted, SourceInv
  <2> QED
    BY <1>5, <2>2, <2>3
<1> QED
  BY <1>6, <1>7

LEMMA ConsumeAccount ==
  ASSUME DistinctIds, CodecExact, Fitted, IInv, AccountInv, TallyInv, Consume
  PROVE  AccountInv' /\ TallyInv'
<1> USE DEF source, prod
<1>0. SourceInv /\ ProducerInv /\ PlacesInv /\ DecodedInv /\ ImageInv /\ ExitInv /\ StatsInv
  BY DEF AccountInv
<1> DEFINE b == Head(outQ)
           images == b.images
           takes == Shaped(images) /\ Within(images) = DOMAIN images
           Z == Held(images)
<1>1. /\ consumer = "run" /\ outQ # <<>> /\ outQ' = Tail(outQ)
      /\ \/ b.end /\ consumer' = "done" /\ UNCHANGED <<image, stats>>
         \/ /\ ~b.end /\ takes /\ image' = Scattered(images, DOMAIN images) /\ UNCHANGED consumer
            /\ stats' = [stats EXCEPT !.batched = @ + Len(images), !.batches = @ + 1]
         \/ ~b.end /\ ~takes /\ consumer' = "failed" /\ UNCHANGED stats
      /\ UNCHANGED <<source, prod, rawQ, stop, at, hand, joiner, errors, tally, overtaken>>
  BY DEF Consume
<1>2. /\ IsList(chunk) /\ InChunk \subseteq Got(pos) /\ IsFamily(1 .. Len(rawQ), rawQ)
      /\ \A k \in 1 .. Len(rawQ) : rawQ[k] # <<>>
      /\ IsFamily(pool, hand) /\ IsFamily(1 .. Len(outQ), Batches)
      /\ InRaw \subseteq Put /\ InHands \subseteq Put /\ InOut \subseteq Put
      /\ InRaw \cap InHands = {} /\ InRaw \cap InOut = {} /\ InHands \cap InOut = {}
      /\ IsQueue(rawQ) /\ errors \subseteq {stream[j].id : j \in Put}
      /\ Failed \cap (InChunk \cup InRaw \cup InHands \cup InOut) = {}
      /\ Put \subseteq Got(pos)
  BY <1>0 DEF PlacesInv, Put
<1>3. /\ b = outQ[1] /\ Len(outQ) \in Nat \ {0} /\ Len(outQ') = Len(outQ) - 1
      /\ \A i \in 1 .. Len(outQ') : outQ'[i] = outQ[i + 1]
  BY <1>1, TailQueue DEF IInv, QueueInv
<1>4. 1 \in 1 .. Len(outQ) /\ \A i \in 1 .. Len(outQ') : i + 1 \in 1 .. Len(outQ)
  BY <1>3
<1>5. Batches[1] = images /\ IsList(images) /\ Z \subseteq InOut
  BY <1>2, <1>3, <1>4 DEF IsFamily, Batches, InOut, HeldIn
<1>6. Sane(images) /\ (b.end => images = <<>>)
  BY <1>0, <1>3, <1>4 DEF DecodedInv
<1> HIDE DEF b
<1>7. IsFamily(1 .. Len(outQ), Batches)' /\ InOut' = InOut \ Z
  <2> DEFINE n == Len(outQ)
             g == Batches
             h == [k \in 1 .. Len(outQ') |-> outQ'[k].images]
  <2>1. /\ n \in Nat \ {0} /\ IsFamily(1 .. n, g) /\ (\A i \in 1 .. (n - 1) : h[i] = g[i + 1])
        /\ Len(outQ') = n - 1 /\ g[1] = images
    BY <1>2, <1>3, <1>4, <1>5 DEF Batches
  <2>2. Batches' = h
    BY DEF Batches
  <2> HIDE DEF n, g, h, images
  <2>3. IsFamily(1 .. (n - 1), h) /\ HeldIn(1 .. (n - 1), h) = HeldIn(1 .. n, g) \ Held(g[1])
    BY <2>1, FamilyShifts
  <2>4. InOut' = HeldIn(1 .. Len(outQ'), h) /\ InOut = HeldIn(1 .. n, g)
    BY <2>2 DEF InOut, HeldIn, Held, n, g
  <2>5. IsFamily(1 .. Len(outQ), Batches)' <=> IsFamily(1 .. Len(outQ'), h)
    BY <2>2 DEF IsFamily, IsList, Held
  <2> QED
    BY <2>1, <2>3, <2>4, <2>5
<1> HIDE DEF images
<1>8. Got(pos)' = Got(pos) /\ InChunk' = InChunk /\ InRaw' = InRaw /\ InHands' = InHands
  BY <1>1 DEF Got, InChunk, InRaw, InHands, HeldIn, Held
<1>9. Failed' = Failed /\ Put' = Put
  BY <1>1, <1>8 DEF Failed, Put
<1>10. Made' = Made
  BY <1>8, <1>9 DEF Made
<1>11. Z \subseteq Made /\ Z \subseteq Got(pos)
  <2> HIDE DEF Z
  <2> QED
    BY <1>2, <1>5 DEF Made
<1>12. Seen' = Seen \cup Z /\ Seen \cap Z = {}
  <2> HIDE DEF Z
  <2> QED
    BY <1>5, <1>7, <1>10, <1>11 DEF Seen
<1>13. SourceInv' /\ ProducerInv' /\ ExitInv'
  BY <1>0, <1>1 DEF SourceInv, ProducerInv, ExitInv
<1>14. PlacesInv'
  <2>1. /\ IsList(chunk)' = IsList(chunk) /\ IsQueue(rawQ)' = IsQueue(rawQ)
        /\ IsFamily(1 .. Len(rawQ), rawQ)' = IsFamily(1 .. Len(rawQ), rawQ)
        /\ IsFamily(pool, hand)' = IsFamily(pool, hand)
    BY <1>1 DEF IsFamily, IsList, Held, IsQueue, Items
  <2>2. {stream[j].id : j \in Put}' = {stream[j].id : j \in Put}
    BY <1>1, <1>9
  <2>3. InOut' \subseteq InOut
    BY <1>7
  <2>4. (Failed \cap (InChunk \cup InRaw \cup InHands \cup InOut) = {})'
    BY <1>2, <1>8, <1>9, <2>3
  <2>5. /\ (InChunk \subseteq Got(pos))'
        /\ (InRaw \subseteq Put /\ InHands \subseteq Put /\ InOut \subseteq Put)'
        /\ (InRaw \cap InHands = {} /\ InRaw \cap InOut = {} /\ InHands \cap InOut = {})'
    BY <1>2, <1>8, <1>9, <2>3
  <2>6. (errors \subseteq {stream[j].id : j \in Put})' /\ (\A k \in 1 .. Len(rawQ) : rawQ[k] # <<>>)'
    BY <1>1, <1>2, <2>2
  <2> QED
    BY <1>2, <1>7, <2>1, <2>4, <2>5, <2>6 DEF PlacesInv
<1>15. DecodedInv'
  <2>1. \A j : Readable(j)' = Readable(j)
    BY <1>1 DEF Readable, GpuReads, CpuReads
  <2>2. \A list : Sane(list)' = Sane(list)
    BY <1>1, <2>1 DEF Sane
  <2>3. \A k \in 1 .. Len(outQ') : Sane(outQ'[k].images) /\ (outQ'[k].end => outQ'[k].images = <<>>)
    BY <1>0, <1>3, <1>4 DEF DecodedInv
  <2>4. ~gpu => \A j \in Z : CpuReads(stream[j])
    BY <1>6 DEF Sane, Readable
  <2> HIDE DEF Z
  <2>5. ~gpu => \A j \in Seen' : CpuReads(stream[j])
    BY <1>0, <1>12, <2>4 DEF DecodedInv
  <2> QED
    BY <1>0, <1>1, <1>8, <2>2, <2>3, <2>5 DEF DecodedInv, Regular
<1>16. TallyInv'
  <2>1. stats'.decoded = stats.decoded
    BY <1>0, <1>1 DEF StatsInv
  <2> QED
    BY <1>1, <1>10, <2>1, TallyStays
<1>17. StatsInv'
  <2>1. /\ {"received", "decoded", "batched"} \subseteq DOMAIN stats'
        /\ stats'.received = stats.received
        /\ stats'.batched = IF ~b.end /\ takes THEN stats.batched + Len(images) ELSE stats.batched
    BY <1>0, <1>1 DEF StatsInv
  <2>2. IsFiniteSet(Z) /\ Cardinality(Z) = Len(images)
    BY <1>5, ListSize
  <2>3. Cardinality(Seen \cup Z) = Cardinality(Seen) + Cardinality(Z)
    <3>1. Seen \subseteq Got(pos)
      BY DEF Seen, Made, Put
    <3>2. IsFiniteSet(Seen)
      BY <1>0, <3>1, GotIsFinite, FS_Subset
    <3> QED
      BY <1>12, <2>2, <3>2, DisjointSize
  <2>4. b.end => Z = {}
    BY <1>6, EmptyList
  <2>5. stats.received = Cardinality(Put) /\ stats.batched = Cardinality(Seen)
    BY <1>0, <1>1 DEF StatsInv
  <2> HIDE DEF Z, takes
  <2>6. consumer' # "failed" => stats'.batched = Cardinality(Seen')
    <3>1. CASE b.end
      <4>1. Seen' = Seen
        BY <1>12, <2>4, <3>1
      <4> QED
        BY <2>1, <2>5, <3>1, <4>1
    <3>2. CASE ~b.end /\ takes
      BY <1>12, <2>1, <2>2, <2>3, <2>5, <3>2
    <3>3. CASE ~b.end /\ ~takes
      BY <1>1, <3>3
    <3> QED
      BY <3>1, <3>2, <3>3
  <2> QED
    BY <1>9, <2>1, <2>5, <2>6 DEF StatsInv
<1>18. ImageInv'
  <2>1. /\ DOMAIN image = 0 .. Positions - 1 /\ \A j \in Seen : stream[j].id \in DOMAIN image
        /\ \A i \in DOMAIN image : image[i] # 0 => \E j \in Seen : stream[j].id = i
        /\ \A j \in Seen : Regular(stream[j], gpu) => image[stream[j].id] = Counted(stream[j], masks)
    BY <1>0, <1>1 DEF ImageInv
  <2>2. CASE b.end
    <3>1. Seen' = Seen
      BY <1>6, <1>12, <2>2, EmptyList
    <3>2. image' = image
      BY <1>1, <2>2
    <3> QED
      BY <1>1, <2>1, <3>1, <3>2 DEF ImageInv, Regular, Counted
  <2>3. CASE ~b.end /\ takes
    <3>1. image' = Scattered(images, DOMAIN images) /\ DOMAIN images = 1 .. Len(images)
      BY <1>1, <1>5, <2>3, LenProperties DEF IsList
    <3>2. DOMAIN image' = DOMAIN image
      BY <3>1 DEF Scattered
    <3>3. ASSUME NEW i \in DOMAIN image
          PROVE  \/ /\ \A k \in 1 .. Len(images) : stream[images[k]].id # i
                    /\ image'[i] = image[i]
                 \/ \E k \in 1 .. Len(images) : /\ stream[images[k]].id = i
                                                /\ image'[i] = Reduced(Frame(images, k), Weights)
      <4> DEFINE chosen == CHOOSE k \in DOMAIN images : stream[images[k]].id = i
      <4>1. image'[i] = IF \E k \in DOMAIN images : stream[images[k]].id = i
                        THEN Reduced(Frame(images, chosen), Weights) ELSE image[i]
        BY <3>1 DEF Scattered
      <4>2. CASE \E k \in DOMAIN images : stream[images[k]].id = i
        <5>1. chosen \in DOMAIN images /\ stream[images[chosen]].id = i
          BY <4>2
        <5> HIDE DEF chosen
        <5> QED
          BY <3>1, <4>1, <4>2, <5>1
      <4>3. CASE ~ \E k \in DOMAIN images : stream[images[k]].id = i
        BY <3>1, <4>1, <4>3
      <4> QED
        BY <4>2, <4>3
    <3>4. \A k \in 1 .. Len(images) : images[k] \in Z
      BY DEF Held
    <3>5. ASSUME NEW j \in Z PROVE stream[j].id \in DOMAIN image
      <4>1. PICK k \in 1 .. Len(images) : images[k] = j
        BY DEF Held
      <4>2. stream[j].id < Positions
        BY <2>3, <3>1, <4>1 DEF Within
      <4>3. stream[j].id \in Nat
        <5>1. j \in 1 .. Len(stream)
          BY <1>0, <1>11, GotIsFinite DEF Got, SourceInv
        <5> QED
          BY <1>0, <5>1, PoolAssumption DEF SourceInv
      <4> HIDE DEF Z
      <4> QED
        BY <2>1, <4>2, <4>3, CodecAssumption
    <3>6. \A j \in Seen' : stream[j].id \in DOMAIN image
      BY <1>12, <2>1, <3>5
    <3>7. \A i \in DOMAIN image : image'[i] # 0 => \E j \in Seen' : stream[j].id = i
      BY <1>12, <2>1, <3>3, <3>4
    <3>8. ASSUME NEW j \in Seen', Regular(stream[j], gpu)
          PROVE  image'[stream[j].id] = Counted(stream[j], masks)
      <4>1. j \in Got(pos) /\ stream[j].id \in DOMAIN image
        BY <1>8, <3>6 DEF Seen, Made, Put
      <4>2. CASE /\ \A k \in 1 .. Len(images) : stream[images[k]].id # stream[j].id
                 /\ image'[stream[j].id] = image[stream[j].id]
        <5>1. j \notin Z
          BY <4>2 DEF Held
        <5> QED
          BY <1>12, <2>1, <3>8, <4>2, <5>1
      <4>3. ASSUME NEW k \in 1 .. Len(images), stream[images[k]].id = stream[j].id,
                   image'[stream[j].id] = Reduced(Frame(images, k), Weights)
            PROVE  image'[stream[j].id] = Counted(stream[j], masks)
        <5>1. images[k] = j
          BY <1>0, <1>11, <3>4, <4>1, <4>3, IdsApart
        <5>2. Reduced(Frame(images, k), Weights) = Counted(stream[images[k]], masks)
          BY <1>0, <1>5, <1>6, <1>11, <3>8, <5>1, FrameWeighed
        <5> QED
          BY <4>3, <5>1, <5>2
      <4> QED
        BY <3>3, <4>1, <4>2, <4>3
    <3> QED
      BY <1>1, <2>1, <3>2, <3>6, <3>7, <3>8 DEF ImageInv, Regular, Counted
  <2>4. CASE ~b.end /\ ~takes
    BY <1>1, <2>4 DEF ImageInv
  <2> QED
    BY <2>2, <2>3, <2>4
<1> QED
  BY <1>13, <1>14, <1>15, <1>16, <1>17, <1>18 DEF AccountInv

LEMMA InitAccount == Init => AccountInv /\ TallyInv
<1> SUFFICES ASSUME Init PROVE AccountInv /\ TallyInv
  OBVIOUS
<1>1. /\ stream \in Streams /\ masks \in Masks /\ gpu \in BOOLEAN
      /\ pos = 0 /\ producer = "gate" /\ ending = FALSE /\ chunk = <<>>
      /\ rawQ = <<>> /\ outQ = <<>> /\ stop = FALSE /\ overtaken = FALSE
      /\ consumer = "run" /\ image = NoImage /\ errors = {} /\ stats = NoStats
      /\ at = [d \in pool |-> IF gpu THEN "build" ELSE "wait"]
      /\ hand = [d \in pool |-> <<>>] /\ tally = [d \in pool |-> 0]
  BY DEF Init
<1>2. Len(stream) \in Nat /\ Len(rawQ) = 0 /\ Len(outQ) = 0 /\ IsQueue(rawQ)
  BY <1>1, PoolAssumption, EmptySeq DEF IsQueue
<1>3. Got(pos) = {} /\ Put = {} /\ Made = {} /\ Seen = {} /\ Failed = {}
  BY <1>1 DEF Got, Put, Made, Seen, Failed
<1>4. InChunk = {} /\ InRaw = {} /\ InHands = {} /\ InOut = {}
  BY <1>1, <1>2, EmptyList DEF InChunk, InRaw, InHands, InOut, HeldIn, Held
<1>5. SourceInv /\ ProducerInv /\ ExitInv
  <2>1. 0 \in 0 .. Len(stream) /\ \A k : k \notin 1 .. 0
    BY <1>2
  <2>2. SourceInv
    BY <1>1, <2>1 DEF SourceInv
  <2>3. ProducerInv
    BY <1>1, <2>1 DEF ProducerInv
  <2>4. ExitInv
    BY <1>1 DEF ExitInv
  <2> QED
    BY <2>2, <2>3, <2>4
<1>6. PlacesInv
  <2>1. IsList(chunk) /\ IsFamily(1 .. Len(rawQ), rawQ) /\ IsFamily(1 .. Len(outQ), Batches)
    BY <1>1, <1>2, EmptyList DEF IsFamily
  <2>2. IsFamily(pool, hand)
    BY <1>1, EmptyList DEF IsFamily
  <2> QED
    BY <1>1, <1>2, <1>3, <1>4, <2>1, <2>2 DEF PlacesInv
<1>7. DecodedInv
  <2>1. Sane(<<>>)
    BY EmptyList DEF Sane
  <2> QED
    BY <1>1, <1>2, <1>3, <2>1 DEF DecodedInv
<1>8. ImageInv
  BY <1>1, <1>3 DEF ImageInv, NoImage
<1>9. StatsInv
  BY <1>1, <1>3, FS_EmptySet DEF StatsInv, NoStats
<1>10. TallyInv
  <2> DEFINE f == [d \in pool |-> {}]
  <2>1. f \in [pool -> SUBSET Made]
    OBVIOUS
  <2>2. /\ \A d, e \in pool : d # e => f[d] \cap f[e] = {}
        /\ \A d \in pool : Cardinality(f[d]) = tally[d] /\ (at[d] # "count" => f[d] = {})
        /\ stats.decoded = Cardinality(Made \ UNION {f[d] : d \in pool})
    BY <1>1, <1>3, FS_EmptySet DEF NoStats
  <2> HIDE DEF f
  <2> QED
    BY <1>1, <2>1, <2>2 DEF TallyInv
<1> QED
  BY <1>5, <1>6, <1>7, <1>8, <1>9, <1>10 DEF AccountInv

\* A step of the pool, under masks that fit.
LEMMA StepAccount ==
  ASSUME DistinctIds, CodecExact, Fitted, IInv, AccountInv, TallyInv, Next
  PROVE  AccountInv' /\ TallyInv'
<1>1. CASE Gate
  BY <1>1, GateAccount
<1>2. CASE Receive
  BY <1>2, ReceiveAccount
<1>3. CASE PutChunk
  BY <1>3, PutChunkAccount
<1>4. CASE GiveUp \/ Leave
  BY <1>4, LeavingAccount
<1>5. CASE Join
  BY <1>5, JoinAccount
<1>6. CASE Consume
  BY <1>6, ConsumeAccount
<1>7. ASSUME NEW d \in pool, Decode(d) PROVE AccountInv' /\ TallyInv'
  <2>1. CASE Build(d) \/ FindEmpty(d) \/ Check(d)
    BY <2>1, WaitingAccount
  <2>2. CASE Take(d)
    BY <2>2, TakeAccount
  <2>3. CASE Emit(d)
    BY <2>3, EmitAccount
  <2>4. CASE Count(d)
    BY <2>4, CountAccount
  <2> QED
    BY <1>7, <2>1, <2>2, <2>3, <2>4 DEF Decode
<1> QED
  BY <1>1, <1>2, <1>3, <1>4, <1>5, <1>6, <1>7 DEF Next

LEMMA IdleAccount ==
  ASSUME AccountInv, TallyInv, UNCHANGED vars
  PROVE  AccountInv' /\ TallyInv'
<1> USE DEF vars, source, prod, tallies
<1>0. SourceInv /\ ProducerInv /\ PlacesInv /\ DecodedInv /\ ImageInv /\ ExitInv /\ StatsInv
  BY DEF AccountInv
<1>1. SourceInv' /\ ProducerInv' /\ ExitInv'
  BY <1>0 DEF SourceInv, ProducerInv, ExitInv
<1>2. Got(pos)' = Got(pos)
  BY DEF Got
<1>3. PlacesInv' /\ DecodedInv' /\ ImageInv' /\ StatsInv' /\ Made' = Made
  BY <1>0, <1>2, DataStays DEF dataVars, placeVars
<1>4. TallyInv'
  BY <1>3, TallyStays
<1> QED
  BY <1>1, <1>3, <1>4 DEF AccountInv

\* The program: its pipeline runs under masks that fit, and what it saved is the image it has.
MainInv ==
  /\ main \notin Over \cup {"setup"} => Fitted
  /\ main = "report" => consumer # "run"
  /\ saved # <<>> => saved = image /\ consumer # "run"

LEMMA MainStep ==
  ASSUME DistinctIds, CodecExact, IInv, AccountInv, TallyInv, MainInv, [MainNext]_allVars
  PROVE  AccountInv' /\ TallyInv' /\ MainInv'
<1>1. CASE Setup \/ Show \/ Interrupt \/ StopShowing \/ Return \/ Report \/ CloseWindow
  <2>1. UNCHANGED vars
    BY <1>1 DEF Setup, Show, Interrupt, StopShowing, Return, Report, CloseWindow
  <2>2. AccountInv' /\ TallyInv'
    BY <2>1, IdleAccount
  <2>3. masks' = masks /\ consumer' = consumer /\ image' = image /\ (Fitted' <=> Fitted)
    BY <2>1 DEF vars, source, Fitted, Fits
  <2>4. main' \notin Over \cup {"setup"} => Fitted
    BY <1>1 DEF MainInv, Over, Fitted, Setup, Show, Interrupt, StopShowing, Return, Report, CloseWindow
  <2>5. main' = "report" => consumer # "run"
    BY <1>1 DEF MainInv, Setup, Show, Interrupt, StopShowing, Return, Report, CloseWindow, WorkerAlive
  <2>6. saved' # <<>> => saved' = image /\ consumer # "run"
    BY <1>1 DEF MainInv, Setup, Show, Interrupt, StopShowing, Return, Report, CloseWindow
  <2> QED
    BY <2>2, <2>3, <2>4, <2>5, <2>6 DEF MainInv
<1>2. CASE Runs(Next)
  <2>1. Fitted /\ Next /\ UNCHANGED mainVars
    BY <1>2 DEF Runs, MainInv
  <2>2. AccountInv' /\ TallyInv'
    BY <2>1, StepAccount
  <2>3. masks' = masks
    BY <2>1 DEF Next, Gate, Receive, PutChunk, GiveUp, Leave, Join, Consume, Decode, Build, Take,
                FindEmpty, Check, Emit, Count, source
  <2>4. consumer # "run" => consumer' = consumer /\ image' = image
    BY <2>1 DEF Next, Gate, Receive, PutChunk, GiveUp, Leave, Join, Consume, Decode, Build, Take,
                FindEmpty, Check, Emit, Count
  <2>5. MainInv'
    BY <2>1, <2>3, <2>4 DEF MainInv, mainVars, Fitted, Fits
  <2> QED
    BY <2>2, <2>5
<1>3. CASE UNCHANGED allVars
  <2>1. UNCHANGED vars /\ UNCHANGED mainVars
    BY <1>3 DEF allVars
  <2>2. AccountInv' /\ TallyInv'
    BY <2>1, IdleAccount
  <2>3. MainInv'
    BY <2>1 DEF MainInv, vars, source, mainVars, Fitted, Fits
  <2> QED
    BY <2>2, <2>3
<1> QED
  BY <1>1, <1>2, <1>3 DEF MainNext

\* As many messages as positions.
LEMMA AsManyMessages ==
  ASSUME DistinctIds, SourceInv, NEW S \in SUBSET Got(pos)
  PROVE  Cardinality({stream[j] : j \in S}) = Cardinality(S)
<1> DEFINE T == {stream[j] : j \in S}
           f == [j \in S |-> stream[j]]
<1>1. IsFiniteSet(S)
  BY GotIsFinite, FS_Subset
<1>2. f \in Bijection(S, T)
  <2>1. f \in [S -> T] /\ \A m \in T : \E j \in S : f[j] = m
    OBVIOUS
  <2>2. \A i, j \in S : f[i] = f[j] => i = j
    BY IdsApart
  <2> QED
    BY <2>1, <2>2 DEF Bijection, Injection, Surjection, IsInjective
<1> QED
  BY <1>1, <1>2, FS_Bijection DEF ExistsBijection

LEMMA Whole ==
  ASSUME DistinctIds, IInv, AccountInv, TallyInv, MainInv
  PROVE  SavedWhole
<1> SUFFICES ASSUME saved # <<>>, consumer = "done", ~stop, ~overtaken,
                    NEW d \in pool, at[d] # "died"
             PROVE  LET kept == {m \in Received : m.id \notin errors}
                    IN /\ \A m \in kept : Regular(m, gpu) => saved[m.id] = Counted(m, masks)
                       /\ \A i \in DOMAIN saved : saved[i] # 0 => \E m \in kept : m.id = i
                       /\ ~gpu => \A m \in kept : CpuReads(m)
                       /\ (\A m \in Received : Regular(m, gpu)) => errors = {}
                       /\ stats.received = Cardinality(Received)
                       /\ stats.decoded = Cardinality(kept) /\ stats.batched = stats.decoded
  BY DEF SavedWhole
<1>0. SourceInv /\ ProducerInv /\ PlacesInv /\ DecodedInv /\ ImageInv /\ ExitInv /\ StatsInv
  BY DEF AccountInv
<1>1. outQ = <<>> /\ \A e \in pool : Ended(e) /\ hand[e] = <<>>
  BY DEF IInv, DoneInv, AllEnded, HandInv, Ended
<1>2. producer = "done" /\ rawQ = <<>> /\ chunk = <<>>
  <2>1. at[d] = "exited"
    BY <1>1 DEF Ended
  <2> QED
    BY <1>0, <2>1 DEF ExitInv, ProducerInv
<1>3. InChunk = {} /\ InRaw = {} /\ InHands = {} /\ InOut = {}
  BY <1>1, <1>2, EmptyList, EmptySeq DEF InChunk, InRaw, InHands, InOut, HeldIn, Held
<1>4. Put = Got(pos) /\ Made = Seen /\ Seen = {j \in Got(pos) : stream[j].id \notin errors}
  BY <1>3 DEF Put, Made, Seen, Failed
<1> DEFINE kept == {m \in Received : m.id \notin errors}
<1>5. Received = {stream[j] : j \in Got(pos)}
  BY DEF Received, Got
<1>6. kept = {stream[j] : j \in Seen}
  BY <1>4, <1>5
<1>7. saved = image /\ consumer # "failed"
  BY DEF MainInv
<1> HIDE DEF kept
<1>8. \A m \in kept : Regular(m, gpu) => saved[m.id] = Counted(m, masks)
  BY <1>0, <1>6, <1>7 DEF ImageInv
<1>9. \A i \in DOMAIN saved : saved[i] # 0 => \E m \in kept : m.id = i
  BY <1>0, <1>6, <1>7 DEF ImageInv
<1>10. ~gpu => \A m \in kept : CpuReads(m)
  BY <1>0, <1>6 DEF DecodedInv
<1>11. (\A m \in Received : Regular(m, gpu)) => errors = {}
  BY <1>0, <1>5 DEF DecodedInv
<1>12. Cardinality(Received) = Cardinality(Got(pos)) /\ Cardinality(kept) = Cardinality(Seen)
  <2>1. Seen \in SUBSET Got(pos)
    BY <1>4
  <2> QED
    BY <1>0, <1>5, <1>6, <2>1, AsManyMessages
<1>13. stats.received = Cardinality(Put) /\ stats.batched = Cardinality(Seen)
  BY <1>0, <1>7 DEF StatsInv
<1>14. stats.decoded = Cardinality(Made)
  <2>1. PICK f \in [pool -> SUBSET Made] :
          /\ \A e \in pool : at[e] # "count" => f[e] = {}
          /\ stats.decoded = Cardinality(Made \ UNION {f[e] : e \in pool})
    BY DEF TallyInv
  <2>2. \A e \in pool : f[e] = {}
    BY <1>1, <2>1 DEF Ended
  <2>3. Made \ UNION {f[e] : e \in pool} = Made
    BY <2>2
  <2> QED
    BY <2>1, <2>3
<1> QED
  BY <1>4, <1>8, <1>9, <1>10, <1>11, <1>12, <1>13, <1>14 DEF kept

\* The image that an undisturbed intake leaves, when it met its END without a stop: every image
\* received is in it or among the errors, weighed as the detector counted it, and the three
\* counts of the report agree (pipeline.py:88-330, vbf.py:57-139, main.py:118-141).
THEOREM SavedIsWhole == DistinctIds /\ CodecExact => (MainSpec => []SavedWhole)
<1> SUFFICES ASSUME DistinctIds, CodecExact PROVE MainSpec => []SavedWhole
  OBVIOUS
<1> DEFINE All == IInv /\ AccountInv /\ TallyInv /\ MainInv
<1>1. MainInit => All
  <2> SUFFICES ASSUME MainInit PROVE All
    OBVIOUS
  <2>1. IInv /\ AccountInv /\ TallyInv
    BY InitInvariant, InitAccount DEF MainInit
  <2>2. MainInv
    BY DEF MainInit, MainInv
  <2> QED
    BY <2>1, <2>2
<1>2. All /\ [MainNext]_allVars => All'
  <2> SUFFICES ASSUME All, [MainNext]_allVars PROVE All'
    OBVIOUS
  <2>1. AccountInv' /\ TallyInv' /\ MainInv'
    BY MainStep
  <2>2. [Next]_vars
    BY MainStepsPool
  <2>3. IInv'
    BY <2>2, StepInvariant
  <2> QED
    BY <2>1, <2>3
<1>3. All => SavedWhole
  BY Whole
<1> QED
  BY <1>1, <1>2, <1>3, PTL DEF MainSpec
=============================================================================
