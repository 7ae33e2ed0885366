---------------------------- MODULE RdmaRingProofs ----------------------------
(***************************************************************************)
(* The RDMA ring is never overwritten under a reader, a conforming sender   *)
(* is never refused, credit travels in order, stopping leaves no read       *)
(* behind, and what goes downstream is the sender's stream (ImageFeed): for *)
(* every ring, every sizes of frames and batches, every number of streams   *)
(* and every plan of a conforming sender.  A capture of such a stream plays *)
(* in order, for every recording and every command line (Capture).          *)
(*                                                                         *)
(* The sender numbers its posts 0, 1, 2, ...  The invariant speaks of two   *)
(* functions that the state does not hold: P[q] is the ring position at     *)
(* which post q starts and K[q] the record of the plan that the sender is   *)
(* about to send there.  They determine every frame ever posted.            *)
(***************************************************************************)
EXTENDS RdmaRing, Capture, FiniteSetTheorems, WellFoundedInduction, SequenceTheorems, TLAPS

\* Infinite sequences of natural numbers.
NatSeqs == [Nat -> Nat]

\* Post number q of a sender whose plan is p.
Fitting(p, P, K, q) == Offset(P[q]) + Span(p[K[q]]) <= RingLen

Posted(p, P, K, q) ==
  IF Fitting(p, P, K, q) THEN RecordFrame(p[K[q]], P[q], q) ELSE WrapFrame(P[q], q)

\* Posts that have left the wire.
Placed == seq - Len(wire)

FrameSet == [kind : {"wrap", "start", "image", "end"}, series : Nat, id : Nat, n : Nat,
             pos : Nat, seq : Nat, span : Nat \ {0}]

Events == [st : Streams, op : Nat]
Credits == [pos : Nat, after : SUBSET Events]

-----------------------------------------------------------------------------
(* The inductive invariant, part by part.                                   *)

\* The sender stands where P and K say, and each post leads to the next.
SenderInv(P, K) ==
  /\ plan \in Plans /\ seq \in Nat /\ pos \in Nat /\ next \in 1 .. Len(plan) + 1
  /\ P[0] = 0 /\ K[0] = 1 /\ P[seq] = pos /\ K[seq] = next
  /\ \A q \in 0 .. seq : K[q] \in 1 .. Len(plan) + 1
  /\ \A q \in 0 .. (seq - 1) :
       /\ K[q] <= Len(plan)
       /\ P[q + 1] = P[q] + Posted(plan, P, K, q).span
       /\ K[q + 1] = IF Fitting(plan, P, K, q) THEN K[q] + 1 ELSE K[q]
  /\ \A q, r \in 0 .. seq : q < r => P[q] < P[r]

\* The frames on the wire are the last ones posted, in order.
WireInv(P, K) ==
  /\ wire \in Seq(FrameSet)
  /\ nextSeq \in Nat /\ nextSeq <= Placed
  /\ \A i \in 1 .. Len(wire) : wire[i] = Posted(plan, P, K, Placed + i - 1)

\* A cell holds a frame that was placed, and the cell at the start of a frame that
\* was placed and not read still holds it.
RingInv(P, K) ==
  /\ DOMAIN ring = 0 .. (RingLen - 1)
  /\ \A c \in DOMAIN ring : ring[c] = NoFrame \/ \E q \in 0 .. (Placed - 1) : ring[c] = Posted(plan, P, K, q)
  /\ \A q \in nextSeq .. (Placed - 1) : ring[Offset(P[q])] = Posted(plan, P, K, q)

\* Every frame that was placed and not read has its announcement in the receive CQ
\* or among those polled, in order.
AnnounceInv ==
  /\ imms \in Seq(Nat) /\ recvCq \in Seq(Nat)
  /\ pc # "stopped" =>
       /\ Len(imms) + Len(recvCq) = Placed - nextSeq
       /\ \A i \in 1 .. Len(imms) : imms[i] = (nextSeq + i - 1) % ImmMod
       /\ \A i \in 1 .. Len(recvCq) : recvCq[i] = (nextSeq + Len(imms) + i - 1) % ImmMod

\* The reader stands at a post, and inside a series exactly when the sender was.
ReaderInv(P, K) ==
  /\ readerPos = P[nextSeq]
  /\ active \in [on : BOOLEAN, series : Nat, images : Nat]
  /\ pc # "stopped" =>
       LET k == K[nextSeq] IN
         /\ active.on <=> k > 1 /\ plan[k - 1].kind # "end"
         /\ active.on => active.series = plan[k - 1].series

\* A frame that is not read to its end is the last one accepted.
FrameInv(P, K) ==
  \A f \in frame :
    /\ frame = {f} /\ nextSeq > 0
    /\ f.rec = Posted(plan, P, K, nextSeq - 1) /\ f.rec.kind = "image"
    /\ f.used \in 0 .. (f.rec.n - 1)
    /\ f.last \in SUBSET Events
    /\ f = [rec |-> f.rec, used |-> f.used, last |-> f.last]

\* What the place in compute says of the batch and of the announcements.
ComputeInv ==
  /\ pc \in {"idle", "admit", "loop", "step", "poll", "repost", "emit", "stopped", "starved"}
  /\ stream \in Streams
  /\ batch \in Seq([kind : {"image"}, series : Nat, id : Nat])
  /\ pc \in {"idle", "admit", "stopped"} => batch = <<>>
  /\ pc \in {"loop", "step", "poll", "repost"} => Len(batch) < BatchSize
  /\ pc = "poll" => imms = <<>>

\* Credits are recorded in order, for positions between posts, and not beyond the
\* frame being read; what is in the send queue lies between the credit the sender has
\* and the last one written.
CreditInv(P) ==
  /\ credit \in Nat /\ sentCredit \in Nat /\ safe \in Nat
  /\ credit <= sentCredit /\ sentCredit <= safe /\ safe <= readerPos
  /\ pos - credit <= RingLen
  /\ since \in Nat /\ sq \in Seq([value : Nat, covers : Nat])
  /\ \A i \in 1 .. Len(sq) : credit <= sq[i].value /\ sq[i].value <= sentCredit
  /\ \A i, j \in 1 .. Len(sq) : i < j => sq[i].value <= sq[j].value
  /\ credits \in Seq(Credits)
  /\ \A i \in 1 .. Len(credits) :
       /\ safe < credits[i].pos /\ credits[i].pos <= readerPos
       /\ \E q \in 0 .. nextSeq : credits[i].pos = P[q]
  /\ \A i, j \in 1 .. Len(credits) : i < j => credits[i].pos < credits[j].pos
  /\ \A f \in frame : /\ safe <= f.rec.pos
                      /\ \A i \in 1 .. Len(credits) : credits[i].pos <= f.rec.pos

\* Of the reads G, those of post q; and the event behind a read.
ReadsOf(G, P, q) == {g \in G : P[q] < g.lo /\ g.hi <= P[q + 1]}

Ev(g) == [st |-> g.st, op |-> g.op]

\* What waits for `events` waits for read g of post q, too: the events are that of one
\* pending read of the post, behind which the earlier ones wait in a chain.
Covers(G, P, q, events, g) == \E l \in ReadsOf(G, P, q) : events = {Ev(l)} /\ g.op <= l.op

GpuInv(P) ==
  /\ ops \in Nat
  /\ gpu \subseteq [st : Streams, op : 1 .. ops, after : SUBSET Events, lo : Nat, hi : Nat, to : Nat]
  /\ \A g \in gpu : /\ safe <= g.lo /\ g.lo < g.hi
                    /\ \E q \in 0 .. (nextSeq - 1) : g \in ReadsOf(gpu, P, q)
  /\ \A g, h \in gpu : g.op = h.op => g = h

\* The reads of a post form a chain...
ChainInv(P) ==
  \A q \in 0 .. (nextSeq - 1) : \A g, h \in ReadsOf(gpu, P, q) :
    g.op < h.op => Covers(gpu, P, q, h.after, g)

\* ...and the frame being read, or the credit of the post, waits for all of it.
CoverInv(P) ==
  \A q \in 0 .. (nextSeq - 1) : \A g \in ReadsOf(gpu, P, q) :
    \/ /\ q = nextSeq - 1 /\ frame # {}
       /\ \A f \in frame : Covers(gpu, P, q, f.last, g)
    \/ \E i \in 1 .. Len(credits) :
         credits[i].pos = P[q + 1] /\ Covers(gpu, P, q, credits[i].after, g)

\* A pending read belongs to a published batch, or to the one being filled, and is
\* then on the stream of this activation.
BatchInv ==
  /\ nextBatch \in Nat
  /\ \A g \in gpu : \/ g.to <= nextBatch
                    \/ g.to = nextBatch + 1 /\ batch # <<>> /\ g.st = stream
  /\ pc = "stopped" => gpu = {}

Inv(P, K) ==
  /\ SenderInv(P, K) /\ WireInv(P, K) /\ RingInv(P, K) /\ AnnounceInv /\ ReaderInv(P, K)
  /\ FrameInv(P, K) /\ ComputeInv /\ CreditInv(P) /\ GpuInv(P) /\ ChainInv(P) /\ CoverInv(P)
  /\ BatchInv

RingInvariant == \E P, K \in NatSeqs : Inv(P, K)

-----------------------------------------------------------------------------
(* Arithmetic.                                                              *)

\* The constants that count something.
LEMMA Sizes ==
  /\ RingLen \in Nat \ {0} /\ ImageCells \in Nat \ {0} /\ ControlCells \in Nat
  /\ BatchSize \in Nat \ {0} /\ ImmMod \in Nat \ {0} /\ MaxBatch \in Nat
  BY RingAssumption

\* What NatSeqs are, for use where the function space itself would confuse the provers.
LEMMA NatSeqsNat == \A F \in NatSeqs : \A q \in Nat : F[q] \in Nat
  BY DEF NatSeqs

\* A position lies in a cell of the ring, and something is left of the ring there.
LEMMA OffsetRange ==
  ASSUME NEW p \in Nat
  PROVE  Offset(p) \in 0 .. (RingLen - 1) /\ RingLen - Offset(p) \in Nat \ {0}
<1>1. Offset(p) \in 0 .. (RingLen - 1)
  BY Sizes DEF Offset
<1> QED
  BY <1>1, Sizes

\* Positions less than a ring apart lie in different cells.
LEMMA Window ==
  ASSUME NEW a \in Nat, NEW b \in Nat, a < b, b < a + RingLen
  PROVE  Offset(a) # Offset(b)
<1> DEFINE x == a \div RingLen
           y == b \div RingLen
<1>1. a = RingLen * x + (a % RingLen)
  BY Sizes
<1>2. b = RingLen * y + (b % RingLen)
  BY Sizes
<1>3. x \in Int /\ y \in Int
  BY Sizes
<1> HIDE DEF x, y
<1> SUFFICES ASSUME a % RingLen = b % RingLen PROVE FALSE
  BY DEF Offset
<1>4. b - a = RingLen * y - RingLen * x
  BY <1>1, <1>2, <1>3, Sizes
<1>5. y > x
  <2>1. CASE y <= x
    <3>1. RingLen * y <= RingLen * x
      BY <2>1, <1>3, Sizes
    <3> QED BY <3>1, <1>4, <1>3, Sizes
  <2> QED BY <2>1, <1>3
<1>6. RingLen * y >= RingLen * (x + 1)
  BY <1>5, <1>3, Sizes
<1>7. RingLen * (x + 1) = RingLen * x + RingLen
  BY <1>3, Sizes
<1> QED
  BY <1>4, <1>6, <1>7, <1>3, Sizes

\* Stretches of the stream that lie within one ring of each other share no cell.
LEMMA Apart ==
  ASSUME NEW a \in Nat, NEW b \in Nat, NEW c \in Nat, NEW d \in Nat,
         b <= c, d <= a + RingLen
  PROVE  CellsOf(c, d) \cap CellsOf(a, b) = {}
<1> SUFFICES ASSUME NEW x \in c .. (d - 1), NEW y \in a .. (b - 1), Offset(x) = Offset(y)
             PROVE  FALSE
  BY DEF CellsOf
<1>1. y < x /\ x < y + RingLen /\ x \in Nat /\ y \in Nat
  BY Sizes
<1> QED
  BY <1>1, Window

\* Consecutive images lie one behind the other within their frame.
LEMMA ImageRange ==
  ASSUME NEW n \in Nat, NEW used \in Nat, NEW take \in Nat \ {0}, used + take <= n
  PROVE  /\ used * ImageCells \in Nat /\ take * ImageCells \in Nat /\ n * ImageCells \in Nat
         /\ take * ImageCells > 0
         /\ used * ImageCells + take * ImageCells <= n * ImageCells
<1>1. /\ used * ImageCells \in Nat /\ take * ImageCells \in Nat /\ n * ImageCells \in Nat
      /\ take * ImageCells > 0
  BY Sizes
<1>2. PICK rest \in Nat : n = used + take + rest
  <2>1. n - (used + take) \in Nat /\ n = used + take + (n - (used + take))
    OBVIOUS
  <2> QED BY <2>1
<1>3. (used + take + rest) * ImageCells = used * ImageCells + take * ImageCells + rest * ImageCells
  BY <1>2, Sizes
<1>4. rest * ImageCells \in Nat
  BY <1>2, Sizes
<1> QED
  BY <1>1, <1>2, <1>3, <1>4

\* The head and the tail of a queue.
LEMMA Queue ==
  ASSUME NEW S, NEW s \in Seq(S), s # <<>>
  PROVE  /\ Len(s) \in Nat \ {0} /\ Head(s) = s[1] /\ Head(s) \in S
         /\ Tail(s) \in Seq(S) /\ Len(Tail(s)) = Len(s) - 1
         /\ \A i \in 1 .. Len(Tail(s)) : Tail(s)[i] = s[i + 1]
<1>1. Len(s) \in Nat \ {0}
  BY EmptySeq
<1>2. Head(s) = s[1]
  BY <1>1
<1> QED
  BY <1>1, <1>2, HeadTailProperties

\* Every non-empty set of natural numbers has a least element.
LEMMA LeastExists ==
  ASSUME NEW S \in SUBSET Nat, S # {}
  PROVE  \E m \in S : \A k \in S : m <= k
<1> DEFINE Below(k) == 0 .. k
           T == {Below(k) : k \in S}
           R == StrictSubsetOrdering(Nat)
<1>1. T \subseteq FiniteSubsetsOf(Nat)
  <2> SUFFICES ASSUME NEW k \in S PROVE Below(k) \in FiniteSubsetsOf(Nat)
    OBVIOUS
  <2>1. IsFiniteSet(Below(k))
    BY FS_Interval
  <2> QED
    BY <2>1 DEF FiniteSubsetsOf
<1>2. T # {}
  OBVIOUS
<1>3. IsWellFoundedOn(R, FiniteSubsetsOf(Nat))
  BY FS_StrictSubsetOrderingWellFounded
<1> HIDE DEF R
<1>4. PICK x \in T : \A y \in T : ~ (<<y, x>> \in R)
  BY <1>1, <1>2, <1>3, WFMin
<1>5. PICK m \in S : x = Below(m)
  OBVIOUS
<1>6. ASSUME NEW k \in S, k < m
      PROVE  FALSE
  <2>1. Below(k) \subseteq Below(m) /\ Below(k) # Below(m)
    <3>1. m \in Below(m) /\ m \notin Below(k)
      BY <1>6
    <3> QED BY <1>6, <3>1
  <2>2. <<Below(k), Below(m)>> \in R
    BY <2>1 DEF StrictSubsetOrdering, R
  <2> QED
    BY <1>4, <1>5, <2>2
<1> QED
  BY <1>6

-----------------------------------------------------------------------------
(* Frames.                                                                  *)

\* What a conforming plan holds.
LEMMA PlanRecords ==
  ASSUME NEW p \in Plans
  PROVE  /\ Len(p) \in Nat
         /\ \A k \in 1 .. Len(p) :
              /\ p[k] \in Record
              /\ DataCells(p[k]) \in Nat /\ Span(p[k]) \in Nat \ {0} /\ Span(p[k]) <= RingLen
              /\ p[k].kind = "image" => p[k].n > 0
              /\ IF p[k].kind = "start"
                 THEN k = 1 \/ p[k - 1].kind = "end"
                 ELSE k > 1 /\ p[k - 1].kind # "end" /\ p[k].series = p[k - 1].series
<1>1. Conforming(p)
  BY RingAssumption
<1>2. p \in Seq(Record)
  BY <1>1 DEF Conforming
<1>3. Len(p) \in Nat /\ \A k \in 1 .. Len(p) : p[k] \in Record
  BY <1>2
<1>4. ASSUME NEW r \in Record
      PROVE  DataCells(r) \in Nat /\ Span(r) \in Nat \ {0}
  <2>1. r.n * ImageCells \in Nat
    BY Sizes DEF Record
  <2>2. DataCells(r) \in Nat
    BY <2>1, Sizes DEF DataCells
  <2> QED BY <2>2 DEF Span
<1> QED
  BY <1>1, <1>3, <1>4 DEF Conforming

\* What a post is.
LEMMA PostType ==
  ASSUME NEW p \in Plans, NEW P \in NatSeqs, NEW K \in NatSeqs,
         NEW q \in Nat, K[q] \in 1 .. Len(p)
  PROVE  LET f == Posted(p, P, K, q)
             r == p[K[q]]
         IN  /\ f \in FrameSet /\ f.pos = P[q] /\ f.seq = q /\ f.kind # "none"
             /\ f.kind = "wrap" => /\ Offset(P[q]) # 0 /\ f.span = RingLen - Offset(P[q])
                                   /\ ~Fitting(p, P, K, q)
             /\ f.kind # "wrap" => /\ f.span <= RingLen - Offset(P[q]) /\ f.span = 1 + DataCells(r)
                                   /\ f.kind = r.kind /\ f.series = r.series /\ f.n = r.n
                                   /\ Fitting(p, P, K, q)
             /\ f.kind = "image" => f.n > 0 /\ f.span = 1 + f.n * ImageCells
<1> DEFINE f == Posted(p, P, K, q)
           r == p[K[q]]
<1>2. /\ r \in Record /\ DataCells(r) \in Nat /\ Span(r) \in Nat \ {0}
      /\ r.kind = "image" => r.n > 0
      /\ Span(r) <= RingLen
  BY PlanRecords
<1>3. P[q] \in Nat /\ Offset(P[q]) \in 0 .. (RingLen - 1) /\ RingLen - Offset(P[q]) \in Nat \ {0}
  BY OffsetRange, NatSeqsNat
<1>4. CASE Fitting(p, P, K, q)
  <2>1. f = RecordFrame(r, P[q], q)
    BY <1>4 DEF Posted
  <2>2. f.kind = r.kind /\ f.kind # "wrap" /\ f \in FrameSet
    <3> HIDE DEF f, r
    <3> QED BY <2>1, <1>2, <1>3 DEF RecordFrame, FrameSet, Record
  <2>3. f.span <= RingLen - Offset(P[q])
    <3>1. f.span = Span(r) /\ Offset(P[q]) + Span(r) <= RingLen
      BY <2>1, <1>4 DEF RecordFrame, Fitting
    <3> HIDE DEF f, r
    <3>2. Offset(P[q]) \in Nat /\ Span(r) \in Nat /\ RingLen \in Nat
      BY <1>2, <1>3, Sizes
    <3>3. Span(r) <= RingLen - Offset(P[q])
      BY <3>1, <3>2
    <3> QED BY <3>1, <3>3
  <2> HIDE DEF r
  <2>4. /\ f.pos = P[q] /\ f.seq = q /\ f.series = r.series /\ f.n = r.n /\ f.span = 1 + DataCells(r)
    BY <2>1 DEF RecordFrame, Span
  <2>5. f.kind = "image" => f.n > 0 /\ f.span = 1 + f.n * ImageCells
    BY <2>2, <2>4, <1>2 DEF DataCells
  <2> QED
    BY <2>2, <2>3, <2>4, <2>5, <1>2, <1>4 DEF Record, r
<1>5. CASE ~Fitting(p, P, K, q)
  <2>1. f = WrapFrame(P[q], q)
    BY <1>5 DEF Posted
  <2>2. Offset(P[q]) # 0
    BY <1>5, <1>2, <1>3, Sizes DEF Fitting
  <2>4. f \in FrameSet
    BY <2>1, <1>3 DEF WrapFrame, FrameSet
  <2> QED
    BY <2>1, <2>2, <2>4, <1>5 DEF WrapFrame
<1> QED
  BY <1>4, <1>5

\* Where a post leads.
LEMMA PostFacts ==
  ASSUME NEW P \in NatSeqs, NEW K \in NatSeqs, SenderInv(P, K),
         NEW q \in 0 .. (seq - 1)
  PROVE  /\ q \in Nat /\ K[q] \in 1 .. Len(plan)
         /\ P[q + 1] = P[q] + Posted(plan, P, K, q).span
         /\ Posted(plan, P, K, q).kind = "wrap" => K[q + 1] = K[q]
         /\ Posted(plan, P, K, q).kind # "wrap" => K[q + 1] = K[q] + 1
<1>1. plan \in Plans /\ seq \in Nat /\ q \in Nat /\ q \in 0 .. seq
  BY DEF SenderInv
<1>2. Len(plan) \in Nat
  BY <1>1, PlanRecords
<1>3. K[q] \in 1 .. Len(plan)
  <2>1. K[q] \in 1 .. Len(plan) + 1
    BY <1>1 DEF SenderInv
  <2>2. K[q] <= Len(plan)
    BY DEF SenderInv
  <2> QED BY <1>2, <2>1, <2>2
<1>4. P[q + 1] = P[q] + Posted(plan, P, K, q).span
  BY DEF SenderInv
<1>5. K[q + 1] = IF Fitting(plan, P, K, q) THEN K[q] + 1 ELSE K[q]
  BY DEF SenderInv
<1>6. Posted(plan, P, K, q).kind = "wrap" <=> ~Fitting(plan, P, K, q)
  BY <1>1, <1>3, PostType
<1> QED
  BY <1>1, <1>3, <1>4, <1>5, <1>6

-----------------------------------------------------------------------------
(* The sender's steps: the two functions grow by one post.                  *)

\* Sending a record and wrapping are the same post, seen from the functions.
LEMMA SendEffect ==
  ASSUME NEW P \in NatSeqs, NEW K \in NatSeqs, SenderInv(P, K), Send
  PROVE  LET f == Posted(plan, P, K, seq)
         IN  /\ next <= Len(plan) /\ plan' = plan /\ seq' = seq + 1
             /\ wire' = Append(wire, f) /\ pos' = pos + f.span
             /\ next' = IF Fitting(plan, P, K, seq) THEN next + 1 ELSE next
             /\ (pos + f.span) - credit <= RingLen
             /\ UNCHANGED <<ring, credit, sendVars, recvVars, creditVars, readVars, outVars,
                            gpuVars, computeVars>>
<1>1. P[seq] = pos /\ K[seq] = next /\ (Fitting(plan, P, K, seq) <=> Fits(plan[next]))
  BY DEF SenderInv, Fitting, Fits
<1>2. CASE SendRecord
  <2>1. Posted(plan, P, K, seq) = RecordFrame(plan[next], pos, seq)
    BY <1>1, <1>2 DEF SendRecord, Posted
  <2>2. RecordFrame(plan[next], pos, seq).pos = pos
    BY DEF RecordFrame
  <2> QED
    <3>1. Post(Posted(plan, P, K, seq)) /\ next <= Len(plan)
      BY <1>2, <2>1 DEF SendRecord
    <3>2. next' = IF Fitting(plan, P, K, seq) THEN next + 1 ELSE next
      BY <1>1, <1>2 DEF SendRecord
    <3>3. Posted(plan, P, K, seq).pos = pos
      BY <2>1, <2>2
    <3>4. (pos + Posted(plan, P, K, seq).span) - credit <= RingLen
      <4>1. HasCredit(Posted(plan, P, K, seq).pos + Posted(plan, P, K, seq).span)
        BY <3>1 DEF Post
      <4>2. HasCredit(pos + Posted(plan, P, K, seq).span)
        BY <4>1, <3>3
      <4> QED BY <4>2 DEF HasCredit
    <3>5. /\ plan' = plan /\ seq' = seq + 1 /\ wire' = Append(wire, Posted(plan, P, K, seq))
          /\ UNCHANGED <<ring, credit, sendVars, recvVars, creditVars, readVars, outVars,
                         gpuVars, computeVars>>
      BY <3>1 DEF Post
    <3>6. pos' = pos + Posted(plan, P, K, seq).span
      BY <3>1, <3>3 DEF Post
    <3> QED
      BY <3>1, <3>2, <3>4, <3>5, <3>6
<1>3. CASE SendWrap
  <2>1. Posted(plan, P, K, seq) = WrapFrame(pos, seq)
    BY <1>1, <1>3 DEF SendWrap, Posted
  <2>2. WrapFrame(pos, seq).pos = pos
    BY DEF WrapFrame
  <2> QED
    <3>1. Post(Posted(plan, P, K, seq)) /\ next <= Len(plan)
      BY <1>3, <2>1 DEF SendWrap
    <3>2. next' = IF Fitting(plan, P, K, seq) THEN next + 1 ELSE next
      BY <1>1, <1>3 DEF SendWrap
    <3>3. Posted(plan, P, K, seq).pos = pos
      BY <2>1, <2>2
    <3>4. (pos + Posted(plan, P, K, seq).span) - credit <= RingLen
      <4>1. HasCredit(Posted(plan, P, K, seq).pos + Posted(plan, P, K, seq).span)
        BY <3>1 DEF Post
      <4>2. HasCredit(pos + Posted(plan, P, K, seq).span)
        BY <4>1, <3>3
      <4> QED BY <4>2 DEF HasCredit
    <3>5. /\ plan' = plan /\ seq' = seq + 1 /\ wire' = Append(wire, Posted(plan, P, K, seq))
          /\ UNCHANGED <<ring, credit, sendVars, recvVars, creditVars, readVars, outVars,
                         gpuVars, computeVars>>
      BY <3>1 DEF Post
    <3>6. pos' = pos + Posted(plan, P, K, seq).span
      BY <3>1, <3>3 DEF Post
    <3> QED
      BY <3>1, <3>2, <3>4, <3>5, <3>6
<1> QED
  BY <1>2, <1>3 DEF Send

\* PP and KK speak of the same posts as P and K, up to the one being sent.
SamePosts(P, K, PP, KK) ==
  /\ Posted(plan, P, K, seq) \in FrameSet
  /\ \A q \in 0 .. seq : Posted(plan', PP, KK, q) = Posted(plan, P, K, q)

\* The sender's part of the invariant, for the functions that know the new post.
LEMMA SendSender ==
  ASSUME NEW P \in NatSeqs, NEW K \in NatSeqs, SenderInv(P, K), Send
  PROVE  \E PP, KK \in NatSeqs :
           /\ \A q \in 0 .. seq : PP[q] = P[q] /\ KK[q] = K[q]
           /\ SenderInv(PP, KK)'
           /\ SamePosts(P, K, PP, KK)
<1> SUFFICES ASSUME NEW PP, PP = [P EXCEPT ![seq + 1] = pos'],
                    NEW KK, KK = [K EXCEPT ![seq + 1] = next']
             PROVE  /\ PP \in NatSeqs /\ KK \in NatSeqs
                    /\ \A q \in 0 .. seq : PP[q] = P[q] /\ KK[q] = K[q]
                    /\ SenderInv(PP, KK)'
                    /\ SamePosts(P, K, PP, KK)
  OBVIOUS
<1> DEFINE f == Posted(plan, P, K, seq)
<1>1. /\ plan \in Plans /\ seq \in Nat /\ pos \in Nat /\ next \in 1 .. Len(plan) + 1
      /\ P[0] = 0 /\ K[0] = 1 /\ P[seq] = pos /\ K[seq] = next
  BY DEF SenderInv
<1>2. /\ next <= Len(plan) /\ plan' = plan /\ seq' = seq + 1 /\ pos' = pos + f.span
      /\ next' = IF Fitting(plan, P, K, seq) THEN next + 1 ELSE next
  BY SendEffect
<1>3. Len(plan) \in Nat /\ next \in 1 .. Len(plan)
  BY <1>1, <1>2, PlanRecords
<1>4. f \in FrameSet /\ f.span \in Nat \ {0}
  <2>1. f \in FrameSet
    BY <1>1, <1>3, PostType
  <2> QED BY <2>1 DEF FrameSet
<1>5. pos' \in Nat /\ pos' > pos /\ next' \in 1 .. Len(plan) + 1 /\ seq' \in Nat
  <2> HIDE DEF f
  <2> HIDE DEF f
  <2>1. pos' \in Nat /\ pos' > pos
    <3>1. pos \in Nat /\ pos' = pos + f.span
      BY <1>1, <1>2
    <3> QED BY <3>1, <1>4
  <2>2. next' \in 1 .. Len(plan) + 1
    <3>1. next' = next \/ next' = next + 1
      BY <1>2
    <3>2. CASE next' = next
      BY <3>2, <1>3
    <3>3. CASE next' = next + 1
      BY <3>3, <1>3
    <3> QED BY <3>1, <3>2, <3>3
  <2>3. seq' \in Nat
    BY <1>1, <1>2
  <2> QED BY <2>1, <2>2, <2>3
<1>6. PP \in NatSeqs /\ KK \in NatSeqs /\ PP[seq + 1] = pos' /\ KK[seq + 1] = next'
  <2>1. next' \in Nat /\ seq + 1 \in Nat
    BY <1>1, <1>3, <1>5
  <2> QED BY <2>1, <1>5 DEF NatSeqs
<1>7. \A q \in 0 .. seq : q \in Nat /\ PP[q] = P[q] /\ KK[q] = K[q]
  BY <1>1
<1>8. \A q \in 0 .. seq : /\ Posted(plan', PP, KK, q) = Posted(plan, P, K, q)
                          /\ Fitting(plan', PP, KK, q) <=> Fitting(plan, P, K, q)
  BY <1>2, <1>7 DEF Posted, Fitting
<1>9. SenderInv(PP, KK)'
  <2>1. PP[0] = 0 /\ KK[0] = 1
    <3>1. 0 \in 0 .. seq
      BY <1>1
    <3> QED BY <3>1, <1>1, <1>7
  <2>2. \A q \in 0 .. (seq + 1) : KK[q] \in 1 .. Len(plan) + 1
    <3> SUFFICES ASSUME NEW q \in 0 .. (seq + 1) PROVE KK[q] \in 1 .. Len(plan) + 1
      OBVIOUS
    <3>1. CASE q = seq + 1
      BY <3>1, <1>5, <1>6
    <3>2. CASE q \in 0 .. seq
      BY <3>2, <1>7 DEF SenderInv
    <3> QED BY <3>1, <3>2, <1>1
  <2>3. ASSUME NEW q \in 0 .. seq
        PROVE  /\ KK[q] <= Len(plan)
               /\ PP[q + 1] = PP[q] + Posted(plan, P, K, q).span
               /\ KK[q + 1] = IF Fitting(plan, P, K, q) THEN KK[q] + 1 ELSE KK[q]
    <3>1. CASE q = seq
      <4> HIDE DEF f
      <4> QED BY <3>1, <1>1, <1>2, <1>3, <1>6, <1>7 DEF f
    <3>2. CASE q \in 0 .. (seq - 1)
      <4>1. q + 1 \in 0 .. seq
        BY <3>2, <1>1
      <4>2. /\ K[q] <= Len(plan) /\ P[q + 1] = P[q] + Posted(plan, P, K, q).span
            /\ K[q + 1] = IF Fitting(plan, P, K, q) THEN K[q] + 1 ELSE K[q]
        BY <3>2 DEF SenderInv
      <4> QED BY <4>1, <4>2, <1>7
    <3> QED BY <3>1, <3>2, <1>1
  <2>4. ASSUME NEW q \in 0 .. (seq + 1), NEW r \in 0 .. (seq + 1), q < r
        PROVE  PP[q] < PP[r]
    <3>0. seq \in 0 .. seq
      BY <1>1
    <3>1. q \in 0 .. seq
      BY <2>4, <1>1
    <3>2. PP[q] <= pos /\ PP[q] \in Nat
      <4>1. CASE q = seq
        <5>1. PP[seq] = P[seq]
          BY <1>7, <3>0
        <5> QED BY <4>1, <5>1, <1>1
      <4>2. CASE q < seq
        <5>1. P[q] < P[seq]
          BY <4>2, <3>0, <3>1, <1>1 DEF SenderInv
        <5>2. P[q] \in Nat /\ PP[q] = P[q]
          BY <3>1, <1>1, <1>7, NatSeqsNat
        <5>3. P[q] < pos /\ pos \in Nat
          BY <5>1, <1>1
        <5> QED BY <5>2, <5>3
      <4> QED BY <4>1, <4>2, <3>1, <1>1
    <3>3. CASE r = seq + 1
      BY <3>2, <3>3, <1>5, <1>6, <1>1
    <3>4. CASE r \in 0 .. seq
      <4>1. P[q] < P[r]
        BY <2>4, <3>1, <3>4 DEF SenderInv
      <4> QED BY <4>1, <3>1, <3>4, <1>7
    <3> QED BY <3>3, <3>4, <1>1
  <2>5. seq' - 1 = seq
    BY <1>1, <1>2
  <2> QED
    <3>1. plan' = plan /\ plan' \in Plans /\ seq' = seq + 1 /\ seq' - 1 = seq
      BY <1>1, <1>2, <2>5
    <3>2. \A q \in 0 .. (seq' - 1) :
            /\ KK[q] <= Len(plan')
            /\ PP[q + 1] = PP[q] + Posted(plan', PP, KK, q).span
            /\ KK[q + 1] = IF Fitting(plan', PP, KK, q) THEN KK[q] + 1 ELSE KK[q]
      <4>1. \A q \in 0 .. (seq' - 1) : q \in 0 .. seq
        BY <3>1
      <4> HIDE DEF f
      <4> SUFFICES ASSUME NEW q \in 0 .. (seq' - 1)
                   PROVE  /\ KK[q] <= Len(plan')
                          /\ PP[q + 1] = PP[q] + Posted(plan', PP, KK, q).span
                          /\ KK[q + 1] = IF Fitting(plan', PP, KK, q) THEN KK[q] + 1 ELSE KK[q]
        OBVIOUS
      <4>2. q \in 0 .. seq
        BY <4>1
      <4>3. /\ Posted(plan', PP, KK, q) = Posted(plan, P, K, q)
            /\ Fitting(plan', PP, KK, q) <=> Fitting(plan, P, K, q)
        BY <4>2, <1>8
      <4>4. KK[q] <= Len(plan')
        BY <4>2, <2>3, <3>1
      <4>5. PP[q + 1] = PP[q] + Posted(plan, P, K, q).span
        BY <4>2, <2>3
      <4>6. KK[q + 1] = IF Fitting(plan, P, K, q) THEN KK[q] + 1 ELSE KK[q]
        BY <4>2, <2>3
      <4> QED BY <4>3, <4>4, <4>5, <4>6
    <3>3. \A q, r \in 0 .. seq' : q < r => PP[q] < PP[r]
      BY <2>4, <3>1
    <3>4. \A q \in 0 .. seq' : KK[q] \in 1 .. Len(plan') + 1
      BY <2>2, <3>1
    <3>5. PP[seq'] = pos' /\ KK[seq'] = next' /\ next' \in 1 .. Len(plan') + 1
      BY <3>1, <1>5, <1>6
    <3>6. seq' \in Nat /\ pos' \in Nat
      BY <1>5
    <3> HIDE DEF f
    <3> QED
      BY <2>1, <3>1, <3>2, <3>3, <3>4, <3>5, <3>6 DEF SenderInv
<1> QED
  BY <1>4, <1>6, <1>7, <1>8, <1>9 DEF SamePosts

\* The reader is behind the network, and the network behind the sender.
LEMMA Counters ==
  ASSUME NEW P, NEW K, SenderInv(P, K), WireInv(P, K)
  PROVE  /\ seq \in Nat /\ nextSeq \in Nat /\ Placed \in Nat /\ Len(wire) \in Nat
         /\ nextSeq <= Placed /\ Placed <= seq /\ Placed = seq - Len(wire)
<1>1. seq \in Nat /\ wire \in Seq(FrameSet) /\ nextSeq \in Nat /\ nextSeq <= Placed
  BY DEF SenderInv, WireInv
<1>2. Len(wire) \in Nat
  BY <1>1
<1> QED
  BY <1>1, <1>2 DEF Placed

\* The wire's part: the new post is the last one on it.
LEMMA SendWire ==
  ASSUME NEW P \in NatSeqs, NEW K \in NatSeqs, SenderInv(P, K), WireInv(P, K), Send,
         NEW PP, NEW KK, SamePosts(P, K, PP, KK)
  PROVE  WireInv(PP, KK)' /\ Placed' = Placed
<1> DEFINE f == Posted(plan, P, K, seq)
<1>1. wire' = Append(wire, f) /\ seq' = seq + 1 /\ nextSeq' = nextSeq /\ wire \in Seq(FrameSet)
  BY SendEffect DEF WireInv, readVars
<1>2. /\ wire' \in Seq(FrameSet) /\ Len(wire') = Len(wire) + 1
      /\ \A i \in 1 .. Len(wire) : wire'[i] = wire[i]
      /\ wire'[Len(wire) + 1] = f
  <2>1. f \in FrameSet
    BY DEF SamePosts
  <2> HIDE DEF f
  <2> QED BY <1>1, <2>1
<1> HIDE DEF f
<1>0. /\ seq \in Nat /\ nextSeq \in Nat /\ Placed \in Nat /\ Len(wire) \in Nat
      /\ nextSeq <= Placed /\ Placed <= seq /\ Placed = seq - Len(wire)
  BY Counters
<1>3. Placed' = Placed
  <2>1. Placed' = (seq + 1) - (Len(wire) + 1)
    BY <1>1, <1>2 DEF Placed
  <2> QED BY <2>1, <1>0
<1>4. ASSUME NEW i \in 1 .. Len(wire')
      PROVE  wire'[i] = Posted(plan', PP, KK, Placed' + i - 1)
  <2>1. CASE i = Len(wire) + 1
    <3>1. Placed' + i - 1 = seq /\ seq \in 0 .. seq
      BY <2>1, <1>0, <1>3
    <3>2. Posted(plan', PP, KK, seq) = f
      BY <3>1 DEF f, SamePosts
    <3>3. wire'[i] = f
      BY <2>1, <1>2
    <3> QED BY <3>1, <3>2, <3>3
  <2>2. CASE i \in 1 .. Len(wire)
    <3>1. i \in Nat /\ 1 <= i /\ i <= Len(wire)
      BY <2>2, <1>0
    <3>2. Placed + i - 1 \in 0 .. seq
      <4>1. Placed + i - 1 \in Nat
        BY <3>1, <1>0
      <4>2. Placed + i - 1 <= seq
        BY <3>1, <1>0
      <4> QED BY <4>1, <4>2, <1>0
    <3>3. wire[i] = Posted(plan, P, K, Placed + i - 1)
      BY <2>2 DEF WireInv
    <3>4. Posted(plan', PP, KK, Placed + i - 1) = Posted(plan, P, K, Placed + i - 1)
      BY <3>2 DEF SamePosts
    <3> QED BY <2>2, <3>3, <3>4, <1>2, <1>3
  <2>3. i = Len(wire) + 1 \/ i \in 1 .. Len(wire)
    BY <1>0, <1>2
  <2> QED BY <2>1, <2>2, <2>3
<1>5. nextSeq' \in Nat /\ nextSeq' <= Placed'
  BY <1>1, <1>3, <1>0
<1> QED
  BY <1>2, <1>3, <1>4, <1>5 DEF WireInv

\* A send keeps the invariant, with functions that have grown by a post.
LEMMA SendStep ==
  ASSUME NEW P \in NatSeqs, NEW K \in NatSeqs, Inv(P, K), Send
  PROVE  \E PP, KK \in NatSeqs : Inv(PP, KK)' /\ \A q \in 0 .. seq : KK[q] = K[q]
<1>1. /\ SenderInv(P, K) /\ WireInv(P, K) /\ RingInv(P, K) /\ AnnounceInv /\ ReaderInv(P, K)
      /\ FrameInv(P, K) /\ ComputeInv /\ CreditInv(P) /\ GpuInv(P) /\ ChainInv(P) /\ CoverInv(P)
      /\ BatchInv
  BY DEF Inv
<1>2. PICK PP \in NatSeqs, KK \in NatSeqs :
             /\ \A q \in 0 .. seq : PP[q] = P[q] /\ KK[q] = K[q]
             /\ SenderInv(PP, KK)'
             /\ SamePosts(P, K, PP, KK)
  BY <1>1, SendSender
<1>3. /\ plan' = plan
      /\ UNCHANGED <<ring, credit, sendVars, recvVars, creditVars, readVars, outVars,
                     gpuVars, computeVars>>
  BY <1>1, SendEffect
<1>4. (pos' - credit) <= RingLen
  <2>1. (pos + Posted(plan, P, K, seq).span) - credit <= RingLen
        /\ pos' = pos + Posted(plan, P, K, seq).span
    BY <1>1, SendEffect
  <2> QED BY <2>1
<1>5. WireInv(PP, KK)' /\ Placed' = Placed
  BY <1>1, <1>2, SendWire
<1>6. /\ \A q \in 0 .. (nextSeq - 1) : q \in 0 .. seq /\ q + 1 \in 0 .. seq
      /\ nextSeq \in 0 .. seq
      /\ \A q \in 0 .. (Placed - 1) : q \in 0 .. seq
      /\ nextSeq \in Nat /\ \A q \in 0 .. nextSeq : q \in 0 .. seq
  <2>1. /\ seq \in Nat /\ nextSeq \in Nat /\ Placed \in Nat
        /\ nextSeq <= Placed /\ Placed <= seq
    BY <1>1, Counters
  <2> QED BY <2>1
<1>7. RingInv(PP, KK)'
  <2>1. ring' = ring /\ nextSeq' = nextSeq
    BY <1>3 DEF readVars
  <2>2. \A q \in 0 .. (Placed - 1) : PP[q] = P[q] /\ Posted(plan', PP, KK, q) = Posted(plan, P, K, q)
    BY <1>2, <1>6 DEF SamePosts
  <2>3. \A q \in nextSeq .. (Placed - 1) : q \in 0 .. (Placed - 1)
    BY <1>6
  <2>4. ASSUME NEW c \in DOMAIN ring
        PROVE  ring[c] = NoFrame \/ \E q \in 0 .. (Placed - 1) : ring[c] = Posted(plan', PP, KK, q)
    <3>1. ring[c] = NoFrame \/ \E q \in 0 .. (Placed - 1) : ring[c] = Posted(plan, P, K, q)
      BY <1>1 DEF RingInv
    <3> QED BY <3>1, <2>2
  <2>5. ASSUME NEW q \in nextSeq .. (Placed - 1)
        PROVE  ring[Offset(PP[q])] = Posted(plan', PP, KK, q)
    BY <2>2, <2>3, <1>1 DEF RingInv
  <2>6. DOMAIN ring = 0 .. (RingLen - 1)
    BY <1>1 DEF RingInv
  <2> QED BY <2>1, <2>4, <2>5, <2>6, <1>5 DEF RingInv
<1>8. AnnounceInv'
  BY <1>1, <1>3, <1>5 DEF AnnounceInv, readVars, recvVars, computeVars
<1>9. ReaderInv(PP, KK)'
  <2>1. PP[nextSeq] = P[nextSeq] /\ KK[nextSeq] = K[nextSeq]
    BY <1>2, <1>6, Zenon
  <2>2. UNCHANGED <<plan, readerPos, nextSeq, active, pc>>
    BY <1>3 DEF readVars, computeVars
  <2> QED BY <2>1, <2>2, <1>1 DEF ReaderInv
<1>10. FrameInv(PP, KK)'
  <2>1. UNCHANGED <<plan, nextSeq, frame>>
    BY <1>3 DEF readVars
  <2>2. nextSeq > 0 => Posted(plan', PP, KK, nextSeq - 1) = Posted(plan, P, K, nextSeq - 1)
    <3>1. nextSeq > 0 => nextSeq - 1 \in 0 .. (nextSeq - 1)
      BY <1>6
    <3> QED BY <3>1, <1>2, <1>6 DEF SamePosts
  <2> QED BY <2>1, <2>2, <1>1 DEF FrameInv
<1>11. ComputeInv'
  BY <1>1, <1>3 DEF ComputeInv, computeVars, readVars
<1>12. CreditInv(PP)'
  <2>1. UNCHANGED <<credit, sentCredit, safe, readerPos, since, sq, credits, nextSeq, frame>>
    BY <1>3 DEF readVars, creditVars, sendVars
  <2>2. \A q \in 0 .. nextSeq : PP[q] = P[q]
    BY <1>2, <1>6
  <2>3. \A i \in 1 .. Len(credits) : \E q \in 0 .. nextSeq : credits[i].pos = PP[q]
    BY <2>2, <1>1 DEF CreditInv
  <2> QED BY <2>1, <2>3, <1>1, <1>4 DEF CreditInv
<1>13. \A q \in 0 .. (nextSeq - 1) : ReadsOf(gpu, PP, q) = ReadsOf(gpu, P, q) /\ PP[q + 1] = P[q + 1]
  BY <1>2, <1>6 DEF ReadsOf
<1>14. \A q \in 0 .. (nextSeq - 1) : \A e, g : Covers(gpu, PP, q, e, g) <=> Covers(gpu, P, q, e, g)
  BY <1>13 DEF Covers
<1>15. UNCHANGED <<gpu, ops, safe, nextSeq, frame, credits>>
  BY <1>3 DEF readVars, creditVars, gpuVars
<1>16. GpuInv(PP)'
  BY <1>1, <1>13, <1>15 DEF GpuInv
<1>17. ChainInv(PP)'
  BY <1>1, <1>13, <1>14, <1>15 DEF ChainInv
<1>18. CoverInv(PP)'
  <2> SUFFICES ASSUME NEW q \in 0 .. (nextSeq - 1), NEW g \in ReadsOf(gpu, P, q)
               PROVE  \/ /\ q = nextSeq - 1 /\ frame # {}
                         /\ \A f \in frame : Covers(gpu, PP, q, f.last, g)
                      \/ \E i \in 1 .. Len(credits) :
                           credits[i].pos = PP[q + 1] /\ Covers(gpu, PP, q, credits[i].after, g)
    BY <1>13, <1>15 DEF CoverInv
  <2> QED
    BY <1>1, <1>13, <1>14 DEF CoverInv
<1>19. BatchInv'
  BY <1>1, <1>3 DEF BatchInv, outVars, gpuVars, computeVars
<1>20. Inv(PP, KK)'
  BY <1>2, <1>5, <1>7, <1>8, <1>9, <1>10, <1>11, <1>12, <1>16, <1>17, <1>18, <1>19 DEF Inv
<1> QED
  BY <1>2, <1>20

-----------------------------------------------------------------------------
(* The other steps leave the sender alone, and with it the two functions.   *)

\* Later posts start at later positions.
LEMMA Order ==
  ASSUME NEW P \in NatSeqs, NEW K, SenderInv(P, K),
         NEW q \in Nat, NEW r \in Nat, q <= r, r <= seq
  PROVE  P[q] <= P[r] /\ P[q] \in Nat /\ P[r] \in Nat
<1>1. P[q] \in Nat /\ P[r] \in Nat
  BY NatSeqsNat
<1>2. CASE q = r
  BY <1>1, <1>2
<1>3. CASE q < r
  <2>1. seq \in Nat
    BY DEF SenderInv
  <2>2. q \in 0 .. seq /\ r \in 0 .. seq
    BY <1>3, <2>1
  <2>3. P[q] < P[r]
    BY <1>3, <2>2 DEF SenderInv
  <2> QED BY <1>1, <2>3
<1> QED
  BY <1>2, <1>3

\* What the RDMA WRITEs for frame f reach up to.
Reach(f) == f.pos + (IF f.kind = "wrap" THEN 1 ELSE f.span)

\* A frame posted and not read lies between the reader and a ring beyond the credit.
LEMMA PostedReach ==
  ASSUME NEW P \in NatSeqs, NEW K \in NatSeqs, SenderInv(P, K), WireInv(P, K),
         ReaderInv(P, K), CreditInv(P), NEW w \in Nat, nextSeq <= w, w < seq
  PROVE  LET f == Posted(plan, P, K, w)
         IN  /\ f \in FrameSet /\ f.pos = P[w] /\ f.seq = w /\ f.kind # "none"
             /\ readerPos <= P[w] /\ P[w] < Reach(f) /\ Reach(f) <= P[w + 1] /\ P[w + 1] <= pos
             /\ Reach(f) \in Nat /\ Reach(f) <= readerPos + RingLen /\ Reach(f) <= safe + RingLen
<1> DEFINE f == Posted(plan, P, K, w)
<1>1. /\ seq \in Nat /\ nextSeq \in Nat /\ w \in 0 .. (seq - 1) /\ plan \in Plans /\ P[seq] = pos
      /\ pos \in Nat /\ w + 1 \in Nat /\ w + 1 <= seq
  <2>1. seq \in Nat /\ nextSeq \in Nat
    BY Counters
  <2>2. plan \in Plans /\ P[seq] = pos /\ pos \in Nat
    BY DEF SenderInv
  <2>3. w + 1 \in Nat /\ w + 1 <= seq
    BY <2>1
  <2>4. w \in 0 .. (seq - 1)
    BY <2>1
  <2> QED BY <2>1, <2>2, <2>3, <2>4
<1>2. K[w] \in 1 .. Len(plan) /\ P[w + 1] = P[w] + f.span
  BY <1>1, PostFacts
<1>3. f \in FrameSet /\ f.pos = P[w] /\ f.seq = w /\ f.kind # "none"
  <2>1. plan \in Plans /\ K[w] \in 1 .. Len(plan)
    BY <1>1, <1>2
  <2> QED BY <2>1, PostType
<1> HIDE DEF f
<1>4. f.span \in Nat \ {0} /\ P[w] \in Nat /\ P[w + 1] \in Nat
  BY <1>1, <1>3, NatSeqsNat DEF FrameSet
<1>5. /\ P[w] < Reach(f) /\ Reach(f) <= P[w + 1] /\ Reach(f) \in Nat
  <2>1. CASE f.kind = "wrap"
    <3>1. Reach(f) = P[w] + 1
      BY <2>1, <1>3 DEF Reach
    <3>2. P[w + 1] = P[w] + f.span
      BY <1>2
    <3> QED BY <3>1, <3>2, <1>4
  <2>2. CASE f.kind # "wrap"
    <3>1. Reach(f) = P[w] + f.span
      BY <2>2, <1>3 DEF Reach
    <3>2. P[w + 1] = P[w] + f.span
      BY <1>2
    <3> QED BY <3>1, <3>2, <1>4
  <2> QED BY <2>1, <2>2
<1>6. readerPos <= P[w] /\ readerPos \in Nat
  <2>1. readerPos = P[nextSeq]
    BY DEF ReaderInv
  <2> QED BY <2>1, <1>1, Order
<1>7. P[w + 1] <= pos
  <2>1. P[w + 1] <= P[seq]
    <3>1. w + 1 \in Nat /\ seq \in Nat /\ w + 1 <= seq /\ seq <= seq
      BY <1>1
    <3> QED BY <3>1, Order
  <2> QED BY <2>1, <1>1
<1>8. pos <= credit + RingLen /\ credit <= safe /\ safe <= readerPos /\ credit \in Nat /\ safe \in Nat
  <2>1. /\ credit \in Nat /\ sentCredit \in Nat /\ safe \in Nat /\ credit <= sentCredit
        /\ sentCredit <= safe /\ safe <= readerPos /\ pos - credit <= RingLen
    BY DEF CreditInv
  <2> QED BY <2>1, <1>1, Sizes
<1>9. P[w + 1] \in Nat
  BY <1>1, NatSeqsNat
<1>10. Reach(f) <= safe + RingLen
  <2>1. Reach(f) <= pos
    BY <1>5, <1>7, <1>9, <1>1
  <2> QED BY <2>1, <1>8, <1>1, <1>5, Sizes
<1>11. Reach(f) <= readerPos + RingLen
  BY <1>10, <1>8, <1>5, <1>6, Sizes
<1> QED
  BY <1>3, <1>5, <1>6, <1>7, <1>10, <1>11 DEF f

\* What PlaceFrame does: the oldest post on the wire is written and announced.
LEMMA PlaceEffect ==
  ASSUME NEW P \in NatSeqs, NEW K \in NatSeqs, SenderInv(P, K), WireInv(P, K), PlaceFrame
  PROVE  /\ Placed < seq /\ wire # <<>> /\ Head(wire) = Posted(plan, P, K, Placed)
         /\ wire' = Tail(wire) /\ Placed' = Placed + 1
         /\ ring' = [c \in DOMAIN ring |->
                       IF c \in Cells(Posted(plan, P, K, Placed)) THEN Posted(plan, P, K, Placed)
                                                                  ELSE ring[c]]
         /\ recvCq' = Append(recvCq, Posted(plan, P, K, Placed).seq % ImmMod)
         /\ UNCHANGED <<senderVars, credit, sendVars, creditVars, readVars, outVars,
                        gpuVars, computeVars>>
<1>1. wire # <<>> /\ wire \in Seq(FrameSet) /\ wire' = Tail(wire) /\ seq' = seq
  BY DEF PlaceFrame, WireInv, senderVars
<1>2. Len(wire) \in Nat /\ Len(wire) > 0 /\ Len(wire') = Len(wire) - 1 /\ Head(wire) = wire[1]
  BY <1>1, Queue
<1>3. seq \in Nat /\ Placed = seq - Len(wire) /\ Placed \in Nat
  BY Counters
<1>4. Placed < seq
  BY <1>2, <1>3
<1>5. Placed' = Placed + 1
  <2>1. Placed' = seq - (Len(wire) - 1)
    BY <1>1, <1>2 DEF Placed
  <2> QED BY <2>1, <1>2, <1>3
<1>6. Head(wire) = Posted(plan, P, K, Placed)
  <2>1. 1 \in 1 .. Len(wire) /\ Placed + 1 - 1 = Placed
    BY <1>2, <1>3
  <2>2. wire[1] = Posted(plan, P, K, Placed + 1 - 1)
    BY <2>1 DEF WireInv
  <2> QED BY <2>1, <2>2, <1>2
<1>7. /\ recvCq' = Append(recvCq, Head(wire).seq % ImmMod)
      /\ ring' = [c \in DOMAIN ring |-> IF c \in Cells(Head(wire)) THEN Head(wire) ELSE ring[c]]
      /\ UNCHANGED <<senderVars, credit, sendVars, creditVars, readVars, outVars,
                     gpuVars, computeVars>>
  BY DEF PlaceFrame, QP!Announce
<1> QED
  BY <1>1, <1>4, <1>5, <1>6, <1>7

\* The ring's part: no frame that is still to be read loses its header.
LEMMA PlaceRing ==
  ASSUME NEW P \in NatSeqs, NEW K \in NatSeqs, SenderInv(P, K), WireInv(P, K),
         RingInv(P, K), ReaderInv(P, K), CreditInv(P), PlaceFrame
  PROVE  RingInv(P, K)'
<1> DEFINE w == Placed
           f == Posted(plan, P, K, w)
<1>1. /\ w < seq /\ Placed' = w + 1 /\ plan' = plan /\ nextSeq' = nextSeq
      /\ ring' = [c \in DOMAIN ring |-> IF c \in Cells(f) THEN f ELSE ring[c]]
  BY PlaceEffect DEF senderVars, readVars
<1>2. /\ w \in Nat /\ seq \in Nat /\ nextSeq \in Nat /\ nextSeq <= w
  BY Counters
<1>3. /\ f \in FrameSet /\ f.pos = P[w] /\ P[w] < Reach(f) /\ Reach(f) \in Nat
      /\ Reach(f) <= readerPos + RingLen
  BY <1>1, <1>2, PostedReach
<1>4. Cells(f) = {Offset(x) : x \in P[w] .. (Reach(f) - 1)}
  BY <1>3 DEF Cells, CellsOf, Reach
<1>5. P[w] \in Nat /\ DOMAIN ring = 0 .. (RingLen - 1) /\ readerPos \in Nat /\ RingLen \in Nat
  <2>1. readerPos \in Nat
    BY <1>2, NatSeqsNat DEF ReaderInv
  <2> QED BY <1>2, <2>1, Sizes, NatSeqsNat DEF RingInv
<1> HIDE DEF f, w
<1>6. ring'[Offset(P[w])] = f
  <2>1. P[w] \in P[w] .. (Reach(f) - 1)
    <3>1. P[w] < Reach(f) /\ Reach(f) \in Nat /\ P[w] \in Nat
      BY <1>3, <1>5
    <3> QED BY <3>1
  <2>2. Offset(P[w]) \in Cells(f)
    BY <2>1, <1>4
  <2>3. Offset(P[w]) \in DOMAIN ring
    BY <1>5, OffsetRange
  <2> QED BY <2>2, <2>3, <1>1
<1>7. ASSUME NEW q \in Nat, nextSeq <= q, q < w
      PROVE  ring'[Offset(P[q])] = ring[Offset(P[q])]
  <2>1. P[q] \in Nat /\ Offset(P[q]) \in DOMAIN ring
    BY <1>5, OffsetRange, NatSeqsNat
  <2>2. P[q] < P[w]
    <3>1. q \in 0 .. seq /\ w \in 0 .. seq
      BY <1>1, <1>2, <1>7
    <3> QED BY <3>1, <1>7 DEF SenderInv
  <2>3. readerPos <= P[q] /\ readerPos \in Nat
    <3>1. readerPos = P[nextSeq] /\ q <= seq
      BY <1>1, <1>2, <1>7 DEF ReaderInv
    <3> QED BY <3>1, <1>2, <1>7, Order
  <2>4. ASSUME NEW x \in P[w] .. (Reach(f) - 1)
        PROVE  Offset(x) # Offset(P[q])
    <3>0. x \in Nat /\ P[w] <= x /\ x < Reach(f)
      <4>1. P[w] \in Nat /\ Reach(f) \in Nat
        BY <1>3, <1>5
      <4> QED BY <4>1
    <3>1. P[q] < x
      <4>1. P[q] \in Nat /\ P[w] \in Nat
        BY <2>1, <1>5
      <4> QED BY <4>1, <3>0, <2>2
    <3>2. x < P[q] + RingLen
      <4>1. x < readerPos + RingLen
        BY <3>0, <2>3, <1>3, Sizes
      <4> QED BY <4>1, <3>0, <2>1, <2>3, Sizes
    <3> QED BY <3>0, <3>1, <3>2, <2>1, Window
  <2>5. Offset(P[q]) \notin Cells(f)
    BY <2>4, <1>4
  <2> QED BY <2>1, <2>5, <1>1
<1>8. DOMAIN ring' = 0 .. (RingLen - 1)
  BY <1>1, <1>5
<1>9. ASSUME NEW c \in DOMAIN ring'
      PROVE  ring'[c] = NoFrame \/ \E q \in 0 .. (Placed' - 1) : ring'[c] = Posted(plan', P, K, q)
  <2>1. CASE ring'[c] = f
    <3>1. w \in 0 .. (Placed' - 1)
      BY <1>1, <1>2
    <3> QED BY <3>1, <2>1, <1>1 DEF f
  <2>2. CASE ring'[c] = ring[c]
    <3>1. ring[c] = NoFrame \/ \E q \in 0 .. (w - 1) : ring[c] = Posted(plan, P, K, q)
      BY <1>8, <1>5 DEF RingInv, w
    <3>2. \A q \in 0 .. (w - 1) : q \in 0 .. (Placed' - 1)
      BY <1>1, <1>2
    <3> QED BY <3>1, <3>2, <2>2, <1>1
  <2> QED BY <2>1, <2>2, <1>1
<1>10. ASSUME NEW q \in nextSeq' .. (Placed' - 1)
       PROVE  ring'[Offset(P[q])] = Posted(plan', P, K, q)
  <2>1. q \in Nat /\ nextSeq <= q /\ q <= w
    BY <1>1, <1>2
  <2>2. CASE q = w
    BY <2>2, <1>1, <1>6 DEF f
  <2>3. CASE q < w
    <3>1. q \in nextSeq .. (Placed - 1)
      BY <2>1, <2>3, <1>2 DEF w
    <3>2. ring[Offset(P[q])] = Posted(plan, P, K, q)
      BY <3>1 DEF RingInv
    <3> QED BY <2>1, <2>3, <3>2, <1>1, <1>7
  <2> QED BY <2>1, <2>2, <2>3, <1>2
<1> QED
  BY <1>8, <1>9, <1>10 DEF RingInv

\* A step keeps the parts of the invariant whose variables it leaves alone.
LEMMA Unchanged ==
  ASSUME NEW P, NEW K, Inv(P, K), UNCHANGED senderVars
  PROVE  /\ SenderInv(P, K)'
         /\ UNCHANGED <<wire, nextSeq>> => WireInv(P, K)' /\ Placed' = Placed
         /\ UNCHANGED <<wire, ring, nextSeq>> => RingInv(P, K)'
         /\ UNCHANGED <<wire, nextSeq, imms, recvCq>> /\ (pc = "stopped" => pc' = "stopped")
              => AnnounceInv'
         /\ UNCHANGED <<readerPos, nextSeq, active>> /\ (pc = "stopped" => pc' = "stopped")
              => ReaderInv(P, K)'
         /\ UNCHANGED <<nextSeq, frame>> => FrameInv(P, K)'
         /\ UNCHANGED <<pc, stream, batch, imms>> => ComputeInv'
         /\ UNCHANGED <<credit, sentCredit, safe, readerPos, since, sq, credits, nextSeq, frame>>
              => CreditInv(P)'
         /\ UNCHANGED <<gpu, ops, safe, nextSeq>> => GpuInv(P)'
         /\ UNCHANGED <<gpu, nextSeq>> => ChainInv(P)'
         /\ UNCHANGED <<gpu, nextSeq, frame, credits>> => CoverInv(P)'
         /\ UNCHANGED <<gpu, nextBatch, batch, stream, pc>> => BatchInv'
<1>1. /\ SenderInv(P, K) /\ WireInv(P, K) /\ RingInv(P, K) /\ AnnounceInv /\ ReaderInv(P, K)
      /\ FrameInv(P, K) /\ ComputeInv /\ CreditInv(P) /\ GpuInv(P) /\ ChainInv(P) /\ CoverInv(P)
      /\ BatchInv
  BY DEF Inv
<1>2. UNCHANGED <<plan, next, pos, seq>>
  BY DEF senderVars
<1>3. SenderInv(P, K)'
  BY <1>1, <1>2 DEF SenderInv
<1>4. UNCHANGED wire => Placed' = Placed
  BY <1>2 DEF Placed
<1>5. UNCHANGED <<wire, nextSeq>> => WireInv(P, K)'
  BY <1>1, <1>2, <1>4 DEF WireInv
<1>6. UNCHANGED <<wire, ring, nextSeq>> => RingInv(P, K)'
  BY <1>1, <1>2, <1>4 DEF RingInv
<1>7. UNCHANGED <<wire, nextSeq, imms, recvCq>> /\ (pc = "stopped" => pc' = "stopped") => AnnounceInv'
  BY <1>1, <1>2, <1>4 DEF AnnounceInv
<1>8. UNCHANGED <<readerPos, nextSeq, active>> /\ (pc = "stopped" => pc' = "stopped") => ReaderInv(P, K)'
  BY <1>1, <1>2 DEF ReaderInv
<1>9. UNCHANGED <<nextSeq, frame>> => FrameInv(P, K)'
  BY <1>1, <1>2 DEF FrameInv
<1>10. UNCHANGED <<pc, stream, batch, imms>> => ComputeInv'
  BY <1>1 DEF ComputeInv
<1>11. UNCHANGED <<credit, sentCredit, safe, readerPos, since, sq, credits, nextSeq, frame>>
         => CreditInv(P)'
  BY <1>1, <1>2 DEF CreditInv
<1>12. UNCHANGED <<gpu, ops, safe, nextSeq>> => GpuInv(P)'
  BY <1>1 DEF GpuInv
<1>13. UNCHANGED <<gpu, nextSeq>> => ChainInv(P)'
  BY <1>1 DEF ChainInv
<1>14. UNCHANGED <<gpu, nextSeq, frame, credits>> => CoverInv(P)'
  BY <1>1 DEF CoverInv
<1>15. UNCHANGED <<gpu, nextBatch, batch, stream, pc>> => BatchInv'
  BY <1>1 DEF BatchInv
<1> QED
  BY <1>3, <1>4, <1>5, <1>6, <1>7, <1>8, <1>9, <1>10, <1>11, <1>12, <1>13, <1>14, <1>15

\* Placing a frame keeps the invariant.
LEMMA PlaceFrameStep ==
  ASSUME NEW P \in NatSeqs, NEW K \in NatSeqs, Inv(P, K), PlaceFrame
  PROVE  Inv(P, K)'
<1> DEFINE w == Placed
           f == Posted(plan, P, K, w)
<1>1. /\ SenderInv(P, K) /\ WireInv(P, K) /\ RingInv(P, K) /\ AnnounceInv /\ ReaderInv(P, K)
      /\ CreditInv(P)
  BY DEF Inv
<1>2. /\ w < seq /\ wire # <<>> /\ wire' = Tail(wire) /\ Placed' = w + 1
      /\ recvCq' = Append(recvCq, f.seq % ImmMod)
      /\ UNCHANGED <<senderVars, credit, sendVars, creditVars, readVars, outVars,
                     gpuVars, computeVars>>
  BY <1>1, PlaceEffect
<1>3. w \in Nat /\ seq \in Nat /\ nextSeq \in Nat /\ nextSeq <= w
  BY <1>1, Counters
<1>4. f.seq = w
  BY <1>1, <1>2, <1>3, PostedReach
<1> HIDE DEF f, w
<1>5. UNCHANGED <<readerPos, nextSeq, imms, active, frame, pc, stream, batch, credit, sentCredit,
                  safe, since, sq, credits, gpu, ops, nextBatch, plan, seq>>
  BY <1>2 DEF readVars, computeVars, sendVars, creditVars, gpuVars, outVars, senderVars
<1>6. WireInv(P, K)'
  <2>1. wire \in Seq(FrameSet)
    BY <1>1 DEF WireInv
  <2>2. /\ wire' \in Seq(FrameSet) /\ Len(wire) \in Nat /\ Len(wire') = Len(wire) - 1
        /\ \A i \in 1 .. Len(wire') : wire'[i] = wire[i + 1]
    BY <1>2, <2>1, Queue
  <2>3. ASSUME NEW i \in 1 .. Len(wire')
        PROVE  wire'[i] = Posted(plan', P, K, Placed' + i - 1)
    <3>1. i \in Nat /\ i + 1 \in 1 .. Len(wire)
      BY <2>2
    <3>2. wire[i + 1] = Posted(plan, P, K, Placed + (i + 1) - 1)
      BY <1>1, <3>1 DEF WireInv
    <3>3. Placed + (i + 1) - 1 = Placed' + i - 1
      BY <1>2, <1>3, <3>1 DEF w
    <3> QED BY <2>2, <3>2, <3>3, <1>5
  <2>4. nextSeq' \in Nat /\ nextSeq' <= Placed'
    BY <1>2, <1>3, <1>5
  <2> QED BY <2>2, <2>3, <2>4 DEF WireInv
<1>7. RingInv(P, K)'
  BY <1>1, PlaceRing
<1>8. AnnounceInv'
  <2>1. w % ImmMod \in Nat
    BY <1>3, Sizes
  <2>2. imms \in Seq(Nat) /\ recvCq \in Seq(Nat) /\ recvCq' = Append(recvCq, w % ImmMod)
    BY <1>1, <1>2, <1>4 DEF AnnounceInv
  <2>3. /\ recvCq' \in Seq(Nat) /\ Len(recvCq') = Len(recvCq) + 1
        /\ \A i \in 1 .. Len(recvCq) : recvCq'[i] = recvCq[i]
        /\ recvCq'[Len(recvCq) + 1] = w % ImmMod
    BY <2>1, <2>2, AppendProperties
  <2>4. Len(imms) \in Nat /\ Len(recvCq) \in Nat
    BY <2>2, LenProperties
  <2>5. ASSUME pc # "stopped"
        PROVE  /\ Len(imms) + Len(recvCq') = Placed' - nextSeq
               /\ \A i \in 1 .. Len(recvCq') : recvCq'[i] = (nextSeq + Len(imms) + i - 1) % ImmMod
    <3>1. Len(imms) + Len(recvCq) = w - nextSeq
      BY <1>1, <2>5 DEF AnnounceInv, w
    <3>2. Len(imms) + Len(recvCq') = Placed' - nextSeq
      <4>1. Len(recvCq') = Len(recvCq) + 1
        BY <2>3
      <4>2. Len(imms) + Len(recvCq') = (w + 1) - nextSeq
        <5>1. w \in Nat /\ nextSeq \in Nat
          BY <1>3
        <5>2. Len(imms) + (Len(recvCq) + 1) = (w + 1) - nextSeq
          BY <5>1, <3>1, <2>4
        <5> QED BY <4>1, <5>2
      <4> QED BY <4>2, <1>2
    <3>3. ASSUME NEW i \in 1 .. Len(recvCq')
          PROVE  recvCq'[i] = (nextSeq + Len(imms) + i - 1) % ImmMod
      <4>1. CASE i = Len(recvCq) + 1
        <5>1. nextSeq + Len(imms) + (Len(recvCq) + 1) - 1 = w
          BY <3>1, <2>4, <1>3
        <5> QED BY <4>1, <5>1, <2>3
      <4>2. CASE i \in 1 .. Len(recvCq)
        <5>1. recvCq[i] = (nextSeq + Len(imms) + i - 1) % ImmMod
          BY <1>1, <2>5, <4>2 DEF AnnounceInv
        <5> QED BY <4>2, <5>1, <2>3
      <4>3. i \in 1 .. Len(recvCq) \/ i = Len(recvCq) + 1
        BY <2>3, <2>4
      <4> QED BY <4>1, <4>2, <4>3
    <3> QED BY <3>2, <3>3
  <2>6. pc # "stopped" => \A i \in 1 .. Len(imms) : imms[i] = (nextSeq + i - 1) % ImmMod
    BY <1>1 DEF AnnounceInv
  <2>7. imms' = imms /\ nextSeq' = nextSeq /\ pc' = pc
    BY <1>5
  <2> QED BY <2>2, <2>3, <2>5, <2>6, <2>7 DEF AnnounceInv
<1> QED
  BY <1>2, <1>5, <1>6, <1>7, <1>8, Unchanged DEF Inv

\* A later credit leaves no more to send than an earlier one.
LEMMA LaterCredit ==
  \A a, b, c, d \in Nat : b <= c /\ a - b <= d => a - c <= d
  OBVIOUS

\* Delivering a credit keeps the invariant.
LEMMA PlaceCreditStep ==
  ASSUME NEW P \in NatSeqs, NEW K \in NatSeqs, Inv(P, K), PlaceCredit
  PROVE  Inv(P, K)'
<1>1. CreditInv(P) /\ SenderInv(P, K)
  BY DEF Inv
<1>2. /\ sq # <<>> /\ sq' = Tail(sq) /\ credit' = Head(sq).value /\ UNCHANGED since
      /\ UNCHANGED <<senderVars, wire, ring, recvVars, creditVars, readVars, outVars,
                     gpuVars, computeVars>>
  BY DEF PlaceCredit, QP!CompleteWrite
<1>3. UNCHANGED <<wire, ring, readerPos, nextSeq, imms, recvCq, active, frame, pc, stream, batch,
                  sentCredit, safe, credits, gpu, ops, nextBatch, pos>>
  BY <1>2 DEF readVars, recvVars, computeVars, creditVars, gpuVars, outVars, senderVars
<1>4. /\ sq \in Seq([value : Nat, covers : Nat])
      /\ \A i \in 1 .. Len(sq) : credit <= sq[i].value /\ sq[i].value <= sentCredit
      /\ \A i, j \in 1 .. Len(sq) : i < j => sq[i].value <= sq[j].value
      /\ credit \in Nat /\ sentCredit \in Nat /\ pos \in Nat /\ pos - credit <= RingLen
  BY <1>1 DEF CreditInv, SenderInv
<1>5. /\ Len(sq) \in Nat \ {0} /\ Head(sq) = sq[1] /\ Head(sq) \in [value : Nat, covers : Nat]
      /\ Tail(sq) \in Seq([value : Nat, covers : Nat]) /\ Len(Tail(sq)) = Len(sq) - 1
      /\ \A i \in 1 .. Len(Tail(sq)) : Tail(sq)[i] = sq[i + 1]
  BY <1>2, <1>4, Queue
<1>6. credit' \in Nat /\ credit <= credit' /\ credit' <= sentCredit
  <2>1. 1 \in 1 .. Len(sq)
    BY <1>5
  <2> QED BY <2>1, <1>2, <1>4, <1>5
<1>7. pos - credit' <= RingLen
  <2>1. credit' \in Nat /\ credit <= credit' /\ credit \in Nat /\ pos \in Nat /\ RingLen \in Nat
    BY <1>4, <1>6, Sizes
  <2>2. pos - credit <= RingLen
    BY <1>4
  <2> QED BY <2>1, <2>2, LaterCredit
<1>8. ASSUME NEW i \in 1 .. Len(sq')
      PROVE  /\ i + 1 \in 1 .. Len(sq) /\ i \in Nat /\ sq'[i] = sq[i + 1]
             /\ credit' <= sq'[i].value /\ sq'[i].value <= sentCredit
  <2>1. i \in Nat /\ 1 \in 1 .. Len(sq) /\ i + 1 \in 1 .. Len(sq) /\ 1 < i + 1
    BY <1>2, <1>5
  <2>2. sq'[i] = sq[i + 1]
    BY <1>2, <1>5
  <2>3. sq[1].value <= sq[i + 1].value /\ sq[i + 1].value <= sentCredit
    BY <1>4, <2>1
  <2> QED BY <1>2, <1>5, <2>1, <2>2, <2>3
<1>9. ASSUME NEW i \in 1 .. Len(sq'), NEW j \in 1 .. Len(sq'), i < j
      PROVE  sq'[i].value <= sq'[j].value
  <2>1. i + 1 \in 1 .. Len(sq) /\ j + 1 \in 1 .. Len(sq) /\ i \in Nat /\ j \in Nat
    BY <1>8
  <2>2. i + 1 < j + 1
    BY <2>1, <1>9
  <2>3. sq[i + 1].value <= sq[j + 1].value
    BY <2>1, <2>2, <1>4
  <2> QED BY <2>3, <1>8
<1>10. CreditInv(P)'
  BY <1>1, <1>2, <1>3, <1>5, <1>6, <1>7, <1>8, <1>9 DEF CreditInv
<1> QED
  BY <1>2, <1>3, <1>10, Unchanged DEF Inv

-----------------------------------------------------------------------------
(* Credit service.                                                          *)

\* DoneCredits is well defined: it counts the finished credits at the front.
LEMMA DoneCreditsFront ==
  ASSUME NEW S, credits \in Seq(S)
  PROVE  /\ Len(credits) \in Nat /\ DoneCredits \in 0 .. Len(credits)
         /\ \A i \in 1 .. DoneCredits : AllDone(credits[i].after)
<1> DEFINE n == Len(credits)
           Open == {k \in 0 .. n : k < n => ~AllDone(credits[k + 1].after)}
           Exact(k) == /\ \A i \in 1 .. k : AllDone(credits[i].after)
                       /\ k < n => ~AllDone(credits[k + 1].after)
<1>1. n \in Nat
  BY LenProperties
<1>2. Open \in SUBSET Nat /\ Open # {}
  <2>1. n \in Open
    BY <1>1
  <2> QED BY <2>1, <1>1
<1> HIDE DEF Open
<1>3. PICK m \in Open : \A k \in Open : m <= k
  BY <1>2, LeastExists
<1>4. m \in 0 .. n /\ m \in Nat
  BY <1>1, <1>3 DEF Open
<1>5. ASSUME NEW i \in 1 .. m, ~AllDone(credits[i].after)
      PROVE  FALSE
  <2>1. i \in Nat /\ i - 1 \in 0 .. n /\ (i - 1) + 1 = i
    BY <1>1, <1>4
  <2>2. i - 1 \in Open
    BY <2>1, <1>5 DEF Open
  <2>3. m <= i - 1
    BY <2>2, <1>3
  <2> QED BY <2>1, <2>3, <1>4
<1>6. Exact(m)
  BY <1>3, <1>5 DEF Open
<1>7. \E k \in 0 .. n : Exact(k)
  BY <1>4, <1>6
<1>8. DoneCredits = CHOOSE k \in 0 .. n : Exact(k)
  BY DEF DoneCredits
<1> HIDE DEF Exact
<1>9. DoneCredits \in 0 .. n /\ Exact(DoneCredits)
  BY <1>7, <1>8
<1> QED
  BY <1>1, <1>9 DEF Exact

\* A read that is pending has not reached its event.
LEMMA NotDone ==
  ASSUME NEW g \in gpu, g.op \in Nat, NEW events, Ev(g) \in events
  PROVE  ~AllDone(events)
<1>1. Ev(g).st = g.st /\ Ev(g).op = g.op /\ g.op <= g.op
  BY DEF Ev
<1>2. ~EventDone(Ev(g))
  BY <1>1 DEF EventDone
<1> QED
  BY <1>2 DEF AllDone

\* The frame being read is the post before the reader's position.
LEMMA FrameFacts ==
  ASSUME NEW P \in NatSeqs, NEW K \in NatSeqs, Inv(P, K), NEW f \in frame
  PROVE  /\ nextSeq \in Nat \ {0} /\ nextSeq - 1 \in Nat /\ nextSeq - 1 \in 0 .. (seq - 1)
         /\ f.rec \in FrameSet /\ f.rec.pos = P[nextSeq - 1] /\ f.rec.n \in Nat \ {0}
         /\ f.rec.span = 1 + f.rec.n * ImageCells
         /\ readerPos = f.rec.pos + f.rec.span /\ readerPos = P[nextSeq]
         /\ f.used \in Nat /\ f.used < f.rec.n /\ f.rec.pos \in Nat /\ f.rec.series \in Nat
<1> DEFINE q == nextSeq - 1
           d == Posted(plan, P, K, q)
<1>1. /\ SenderInv(P, K) /\ WireInv(P, K) /\ FrameInv(P, K) /\ ReaderInv(P, K)
  BY DEF Inv
<1>2. /\ seq \in Nat /\ nextSeq \in Nat /\ nextSeq <= seq
  <2>1. nextSeq \in Nat /\ Placed \in Nat /\ seq \in Nat /\ nextSeq <= Placed /\ Placed <= seq
    BY <1>1, Counters
  <2> QED BY <2>1
<1>3. /\ nextSeq > 0 /\ f.rec = d /\ f.rec.kind = "image" /\ f.used \in 0 .. (f.rec.n - 1)
  BY <1>1 DEF FrameInv
<1>4. q \in Nat /\ q \in 0 .. (seq - 1) /\ q + 1 = nextSeq
  BY <1>2, <1>3
<1> HIDE DEF q
<1>5. K[q] \in 1 .. Len(plan) /\ P[q + 1] = P[q] + d.span /\ plan \in Plans
  BY <1>1, <1>4, PostFacts DEF SenderInv
<1>6. d \in FrameSet /\ d.pos = P[q] /\ (d.kind = "image" => d.n > 0 /\ d.span = 1 + d.n * ImageCells)
  BY <1>4, <1>5, PostType
<1> HIDE DEF d
<1>7. d.n \in Nat /\ d.pos \in Nat /\ d.series \in Nat
  BY <1>6 DEF FrameSet
<1>8. readerPos = P[q + 1]
  BY <1>1, <1>4 DEF ReaderInv
<1>9. f.used \in Nat /\ f.used < f.rec.n /\ f.rec.n \in Nat \ {0}
  BY <1>3, <1>6, <1>7
<1> QED
  BY <1>2, <1>3, <1>4, <1>5, <1>6, <1>7, <1>8, <1>9 DEF q

\* What ServiceCredits does: credits leave at the front, `safe` follows them, and a
\* credit that is posted is the one just reached.
LEMMA ServiceEffect ==
  ASSUME NEW P \in NatSeqs, NEW K \in NatSeqs, Inv(P, K), ServiceCredits
  PROVE  \E k \in 0 .. Len(credits) :
           /\ Len(credits) \in Nat /\ k \in Nat
           /\ \A i \in 1 .. k : AllDone(credits[i].after)
           /\ safe' = IF k = 0 THEN safe ELSE credits[k].pos
           /\ credits' \in Seq(Credits) /\ Len(credits') = Len(credits) - k
           /\ \A i \in 1 .. Len(credits') : credits'[i] = credits[i + k]
           /\ \/ UNCHANGED <<sq, since, sentCredit>>
              \/ /\ safe' > sentCredit /\ sentCredit' = safe' /\ since' \in Nat
                 /\ \E c \in Nat : sq' = Append(sq, [value |-> safe', covers |-> c])
<1> DEFINE n == Len(credits)
           k == DoneCredits
<1>1. credits \in Seq(Credits) /\ since \in Nat
  BY DEF Inv, CreditInv
<1>2. n \in Nat /\ k \in 0 .. n /\ \A i \in 1 .. k : AllDone(credits[i].after)
  BY <1>1, DoneCreditsFront
<1>3. safe' = IF k = 0 THEN safe ELSE credits[k].pos
  BY DEF ServiceCredits, SafeNow
<1>4. credits' = SubSeq(credits, k + 1, n)
  BY DEF ServiceCredits
<1> HIDE DEF k
<1>5. /\ credits' \in Seq(Credits) /\ Len(credits') = n - k
      /\ \A i \in 1 .. Len(credits') : credits'[i] = credits[i + k]
  <2>0. k \in Nat /\ k <= n
    BY <1>2
  <2>1. \A i \in (k + 1) .. n : credits[i] \in Credits
    BY <1>1, <1>2, <2>0, ElementOfSeq
  <2>2. /\ SubSeq(credits, k + 1, n) \in Seq(Credits)
        /\ Len(SubSeq(credits, k + 1, n)) = IF k + 1 <= n THEN n - (k + 1) + 1 ELSE 0
        /\ \A i \in 1 .. n - (k + 1) + 1 : SubSeq(credits, k + 1, n)[i] = credits[(k + 1) + i - 1]
    <3>1. n \in Int /\ k + 1 \in Int
      BY <1>2, <2>0
    <3> QED BY <3>1, <2>1, SubSeqProperties
  <2> HIDE DEF n
  <2>3. Len(credits') = n - k
    BY <1>4, <2>2, <1>2, <2>0
  <2>4. ASSUME NEW i \in 1 .. Len(credits')
        PROVE  credits'[i] = credits[i + k]
    <3>1. i \in Nat /\ i \in 1 .. n - (k + 1) + 1 /\ (k + 1) + i - 1 = i + k
      BY <1>2, <2>0, <2>3
    <3> QED BY <3>1, <1>4, <2>2
  <2> QED BY <1>4, <2>2, <2>3, <2>4
<1>6. \/ UNCHANGED <<sq, since, sentCredit>>
      \/ /\ safe' > sentCredit /\ sentCredit' = safe' /\ since' \in Nat
         /\ \E c \in Nat : sq' = Append(sq, [value |-> safe', covers |-> c])
  <2>1. safe' = SafeNow
    BY DEF ServiceCredits
  <2>2. CASE SafeNow > sentCredit /\ ~QP!Full
    <3>1. /\ sentCredit' = safe'
          /\ sq' = Append(sq, [value |-> safe', covers |-> IF QP!Signals THEN since + 1 ELSE 0])
          /\ since' = IF QP!Signals THEN 0 ELSE since + 1
      BY <2>1, <2>2 DEF ServiceCredits, QP!PostWrite
    <3>2. (IF QP!Signals THEN since + 1 ELSE 0) \in Nat /\ since' \in Nat
      BY <1>1, <3>1
    <3> QED BY <2>1, <2>2, <3>1, <3>2
  <2>3. CASE ~(SafeNow > sentCredit /\ ~QP!Full)
    BY <2>3 DEF ServiceCredits, sendVars
  <2> QED BY <2>2, <2>3
<1>7. k \in 0 .. Len(credits) /\ Len(credits) \in Nat /\ k \in Nat
  BY <1>2
<1> WITNESS k \in 0 .. Len(credits)
<1> QED
  BY <1>2, <1>3, <1>5, <1>6, <1>7

\* Credits that are still waited for stay, and `safe` stays behind the reads.
LEMMA ServiceBehind ==
  ASSUME NEW P \in NatSeqs, NEW K \in NatSeqs, Inv(P, K),
         NEW k \in 1 .. Len(credits), \A i \in 1 .. k : AllDone(credits[i].after),
         NEW q \in 0 .. (nextSeq - 1), NEW g \in ReadsOf(gpu, P, q)
  PROVE  /\ credits[k].pos <= g.lo
         /\ \A i \in 1 .. Len(credits) : Covers(gpu, P, q, credits[i].after, g) => i > k
<1>1. /\ SenderInv(P, K) /\ WireInv(P, K) /\ CreditInv(P) /\ GpuInv(P) /\ CoverInv(P)
  BY DEF Inv
<1>2. /\ seq \in Nat /\ nextSeq \in Nat /\ nextSeq <= seq
  <2>1. nextSeq \in Nat /\ Placed \in Nat /\ seq \in Nat /\ nextSeq <= Placed /\ Placed <= seq
    BY <1>1, Counters
  <2> QED BY <2>1
<1>3. q \in Nat /\ q + 1 \in Nat /\ q + 1 <= seq /\ P[q] \in Nat /\ P[q + 1] \in Nat
  BY <1>2, NatSeqsNat
<1>4. g \in gpu /\ P[q] < g.lo /\ g.lo \in Nat
  BY <1>1 DEF ReadsOf, GpuInv
<1>5. /\ credits \in Seq(Credits) /\ Len(credits) \in Nat /\ k \in Nat
      /\ \A i \in 1 .. Len(credits) : credits[i].pos \in Nat
  <2>1. credits \in Seq(Credits)
    BY <1>1 DEF CreditInv
  <2>2. ASSUME NEW i \in 1 .. Len(credits) PROVE credits[i].pos \in Nat
    <3>1. credits[i] \in Credits
      BY <2>1, ElementOfSeq
    <3> QED BY <3>1 DEF Credits
  <2> QED BY <2>1, <2>2
<1>6. ASSUME NEW i \in 1 .. Len(credits), Covers(gpu, P, q, credits[i].after, g), i <= k
      PROVE  FALSE
  <2>1. PICK l \in ReadsOf(gpu, P, q) : credits[i].after = {Ev(l)}
    BY <1>6 DEF Covers
  <2>2. l \in gpu /\ l.op \in Nat
    BY <1>1 DEF ReadsOf, GpuInv
  <2>3. ~AllDone(credits[i].after)
    BY <2>1, <2>2, NotDone
  <2>4. i \in 1 .. k
    BY <1>5, <1>6
  <2> QED BY <2>3, <2>4
<1>7. \A i \in 1 .. Len(credits) : Covers(gpu, P, q, credits[i].after, g) => i > k
  <2> SUFFICES ASSUME NEW i \in 1 .. Len(credits), Covers(gpu, P, q, credits[i].after, g)
               PROVE  i > k
    OBVIOUS
  <2>1. ~(i <= k)
    BY <1>6
  <2> QED BY <2>1, <1>5
<1>8. credits[k].pos <= P[q]
  <2>1. CASE q = nextSeq - 1 /\ frame # {}
    <3>1. PICK f \in frame : TRUE
      BY <2>1
    <3>2. f.rec.pos = P[q]
      BY <2>1, FrameFacts
    <3> QED BY <3>2, <1>1 DEF CreditInv
  <2>2. ASSUME NEW i \in 1 .. Len(credits), credits[i].pos = P[q + 1],
               Covers(gpu, P, q, credits[i].after, g)
        PROVE  credits[k].pos <= P[q]
    <3>1. k < i
      BY <2>2, <1>5, <1>7
    <3>2. credits[k].pos < P[q + 1]
      BY <3>1, <2>2, <1>1 DEF CreditInv
    <3>3. PICK r \in 0 .. nextSeq : credits[k].pos = P[r]
      BY <1>1 DEF CreditInv
    <3>4. r \in Nat /\ r <= seq /\ P[r] \in Nat
      BY <1>2, NatSeqsNat
    <3>5. CASE r <= q
      <4>1. P[r] <= P[q]
        <5>1. q <= seq
          BY <1>2, <1>3
        <5> QED BY <5>1, <3>4, <3>5, <1>3, <1>1, Order
      <4> QED BY <4>1, <3>3
    <3>6. CASE q + 1 <= r
      <4>1. P[q + 1] <= P[r]
        BY <3>4, <3>6, <1>3, <1>1, Order
      <4> QED BY <4>1, <3>2, <3>3, <3>4, <1>3
    <3> QED BY <3>4, <3>5, <3>6, <1>3
  <2>3. \/ q = nextSeq - 1 /\ frame # {}
        \/ \E i \in 1 .. Len(credits) :
             credits[i].pos = P[q + 1] /\ Covers(gpu, P, q, credits[i].after, g)
    BY <1>1 DEF CoverInv
  <2> QED BY <2>1, <2>2, <2>3
<1>9. credits[k].pos <= g.lo
  <2>1. credits[k].pos \in Nat
    BY <1>5
  <2> QED BY <1>3, <1>4, <1>8, <2>1
<1> QED
  BY <1>7, <1>9

\* Credit service keeps the parts it touches: `safe` passes no pending read, and every pending
\* read is still waited for.
LEMMA ServiceStep ==
  ASSUME NEW P \in NatSeqs, NEW K \in NatSeqs, Inv(P, K), ServiceCredits,
         UNCHANGED <<pos, credit, readVars, gpu, ops>>
  PROVE  CreditInv(P)' /\ GpuInv(P)' /\ CoverInv(P)'
<1>1. /\ SenderInv(P, K) /\ WireInv(P, K) /\ CreditInv(P) /\ GpuInv(P) /\ CoverInv(P)
  BY DEF Inv
<1>2. PICK k \in 0 .. Len(credits) :
           /\ Len(credits) \in Nat /\ k \in Nat
           /\ \A i \in 1 .. k : AllDone(credits[i].after)
           /\ safe' = IF k = 0 THEN safe ELSE credits[k].pos
           /\ credits' \in Seq(Credits) /\ Len(credits') = Len(credits) - k
           /\ \A i \in 1 .. Len(credits') : credits'[i] = credits[i + k]
           /\ \/ UNCHANGED <<sq, since, sentCredit>>
              \/ /\ safe' > sentCredit /\ sentCredit' = safe' /\ since' \in Nat
                 /\ \E c \in Nat : sq' = Append(sq, [value |-> safe', covers |-> c])
  BY ServiceEffect
<1>3. UNCHANGED <<readerPos, nextSeq, imms, active, frame, pos, credit, gpu, ops>>
  BY DEF readVars
<1>4. /\ credit \in Nat /\ sentCredit \in Nat /\ safe \in Nat /\ readerPos \in Nat /\ pos \in Nat
      /\ credit <= sentCredit /\ sentCredit <= safe /\ safe <= readerPos /\ pos - credit <= RingLen
      /\ since \in Nat /\ sq \in Seq([value : Nat, covers : Nat])
  <2>1. readerPos = P[nextSeq] /\ nextSeq \in Nat
    BY DEF Inv, ReaderInv, WireInv
  <2> QED BY <1>1, <2>1, NatSeqsNat DEF CreditInv, SenderInv
<1>5. /\ \A i \in 1 .. Len(credits) : /\ credits[i].pos \in Nat /\ safe < credits[i].pos
                                        /\ credits[i].pos <= readerPos
                                        /\ \E q \in 0 .. nextSeq : credits[i].pos = P[q]
      /\ \A i, j \in 1 .. Len(credits) : i < j => credits[i].pos < credits[j].pos
  <2>1. credits \in Seq(Credits)
    BY <1>1 DEF CreditInv
  <2>2. ASSUME NEW i \in 1 .. Len(credits) PROVE credits[i].pos \in Nat
    <3>1. credits[i] \in Credits
      BY <2>1, ElementOfSeq
    <3> QED BY <3>1 DEF Credits
  <2> QED BY <1>1, <2>2 DEF CreditInv
<1>6. safe' \in Nat /\ safe <= safe' /\ safe' <= readerPos
  <2>1. CASE k = 0
    BY <2>1, <1>2, <1>4
  <2>2. CASE k # 0
    <3>1. k \in 1 .. Len(credits)
      BY <1>2, <2>2
    <3>2. safe' = credits[k].pos
      BY <1>2, <2>2
    <3>3. credits[k].pos \in Nat /\ safe < credits[k].pos /\ credits[k].pos <= readerPos
      BY <1>5, <3>1
    <3> QED BY <3>2, <3>3, <1>4
  <2> QED BY <2>1, <2>2
<1>7. ASSUME NEW i \in 1 .. Len(credits')
      PROVE  /\ i \in Nat /\ i + k \in 1 .. Len(credits) /\ credits'[i] = credits[i + k]
             /\ safe' < credits'[i].pos /\ credits'[i].pos <= readerPos
  <2>1. i \in Nat /\ i + k \in 1 .. Len(credits)
    BY <1>2
  <2>2. credits'[i] = credits[i + k]
    BY <1>2
  <2>3. safe' < credits[i + k].pos
    <3>1. CASE k = 0
      BY <3>1, <2>1, <1>2, <1>5
    <3>2. CASE k # 0
      <4>1. k \in 1 .. Len(credits) /\ k < i + k
        BY <1>2, <2>1, <3>2
      <4> QED BY <4>1, <2>1, <1>2, <1>5, <3>2
    <3> QED BY <3>1, <3>2
  <2> QED BY <2>1, <2>2, <2>3, <1>5
<1>8. ASSUME NEW i \in 1 .. Len(credits'), NEW j \in 1 .. Len(credits'), i < j
      PROVE  credits'[i].pos < credits'[j].pos
  <2>1. i + k \in 1 .. Len(credits) /\ j + k \in 1 .. Len(credits) /\ i + k < j + k
    BY <1>2, <1>7, <1>8
  <2> QED BY <2>1, <1>5, <1>7
<1>9. /\ sentCredit' \in Nat /\ credit <= sentCredit' /\ sentCredit' <= safe' /\ since' \in Nat
      /\ sq' \in Seq([value : Nat, covers : Nat])
      /\ \A i \in 1 .. Len(sq') : credit <= sq'[i].value /\ sq'[i].value <= sentCredit'
      /\ \A i, j \in 1 .. Len(sq') : i < j => sq'[i].value <= sq'[j].value
  <2>1. CASE UNCHANGED <<sq, since, sentCredit>>
    <3>1. sentCredit <= safe'
      BY <1>4, <1>6
    <3> QED BY <2>1, <3>1, <1>1, <1>4 DEF CreditInv
  <2>2. ASSUME NEW c \in Nat, safe' > sentCredit, sentCredit' = safe', since' \in Nat,
               sq' = Append(sq, [value |-> safe', covers |-> c])
        PROVE  <1>9!:
    <3> DEFINE e == [value |-> safe', covers |-> c]
    <3>1. e \in [value : Nat, covers : Nat] /\ e.value = safe'
      BY <1>6
    <3> HIDE DEF e
    <3>2. /\ sq' \in Seq([value : Nat, covers : Nat]) /\ Len(sq') = Len(sq) + 1 /\ Len(sq) \in Nat
          /\ \A i \in 1 .. Len(sq) : sq'[i] = sq[i]
          /\ sq'[Len(sq) + 1] = e
      BY <1>4, <2>2, <3>1, AppendProperties, LenProperties DEF e
    <3>3. ASSUME NEW i \in 1 .. Len(sq)
          PROVE  sq[i].value \in Nat /\ credit <= sq[i].value /\ sq[i].value <= sentCredit
      <4>1. sq[i] \in [value : Nat, covers : Nat]
        BY <1>4, ElementOfSeq
      <4> QED BY <4>1, <1>1 DEF CreditInv
    <3>4. ASSUME NEW i \in 1 .. Len(sq')
          PROVE  credit <= sq'[i].value /\ sq'[i].value <= sentCredit'
      <4>1. CASE i \in 1 .. Len(sq)
        BY <4>1, <2>2, <3>2, <3>3, <1>4, <1>6
      <4>2. CASE i = Len(sq) + 1
        BY <4>2, <2>2, <3>1, <3>2, <1>4, <1>6
      <4> QED BY <4>1, <4>2, <3>2
    <3>5. ASSUME NEW i \in 1 .. Len(sq'), NEW j \in 1 .. Len(sq'), i < j
          PROVE  sq'[i].value <= sq'[j].value
      <4>1. i \in 1 .. Len(sq)
        BY <3>2, <3>5
      <4>2. CASE j \in 1 .. Len(sq)
        <5>1. sq[i].value <= sq[j].value
          BY <1>1, <4>1, <4>2, <3>5 DEF CreditInv
        <5> QED BY <5>1, <4>1, <4>2, <3>2
      <4>3. CASE j = Len(sq) + 1
        <5>1. sq'[i] = sq[i] /\ sq'[j] = e
          BY <4>1, <4>3, <3>2
        <5>2. sq[i].value \in Nat /\ sq[i].value <= sentCredit
          BY <4>1, <3>3
        <5>3. e.value = safe' /\ safe' > sentCredit /\ safe' \in Nat /\ sentCredit \in Nat
          BY <2>2, <3>1, <1>4, <1>6
        <5> HIDE DEF e
        <5> QED BY <5>1, <5>2, <5>3
      <4> QED BY <4>2, <4>3, <3>2
    <3>6. credit <= sentCredit' /\ sentCredit' \in Nat /\ sentCredit' <= safe'
      BY <2>2, <1>4, <1>6
    <3> QED BY <2>2, <3>2, <3>4, <3>5, <3>6
  <2> QED BY <2>1, <2>2, <1>2
<1>10. ASSUME NEW f \in frame
       PROVE  /\ safe' <= f.rec.pos
              /\ \A i \in 1 .. Len(credits') : credits'[i].pos <= f.rec.pos
  <2>1. safe <= f.rec.pos /\ \A i \in 1 .. Len(credits) : credits[i].pos <= f.rec.pos
    BY <1>1 DEF CreditInv
  <2>2. safe' <= f.rec.pos
    <3>1. CASE k = 0
      BY <3>1, <2>1, <1>2
    <3>2. CASE k # 0
      <4>1. k \in 1 .. Len(credits)
        BY <1>2, <3>2
      <4> QED BY <4>1, <3>2, <2>1, <1>2
    <3> QED BY <3>1, <3>2
  <2> QED BY <2>1, <2>2, <1>7
<1>11. CreditInv(P)'
  <2>1. \A i \in 1 .. Len(credits') : \E q \in 0 .. nextSeq : credits'[i].pos = P[q]
    BY <1>5, <1>7
  <2> QED BY <1>2, <1>3, <1>4, <1>6, <1>7, <1>8, <1>9, <1>10, <2>1 DEF CreditInv
<1>12. ASSUME NEW q \in 0 .. (nextSeq - 1), NEW g \in ReadsOf(gpu, P, q)
       PROVE  /\ safe' <= g.lo
              /\ \A i \in 1 .. Len(credits) : Covers(gpu, P, q, credits[i].after, g) => i > k
  <2>1. CASE k = 0
    <3>1. safe <= g.lo
      BY <1>1 DEF GpuInv, ReadsOf
    <3> QED BY <2>1, <3>1, <1>2
  <2>2. CASE k # 0
    <3>1. k \in 1 .. Len(credits)
      BY <1>2, <2>2
    <3> QED BY <3>1, <2>2, <1>2, ServiceBehind
  <2> QED BY <2>1, <2>2
<1>13. GpuInv(P)'
  <2>1. ASSUME NEW g \in gpu
        PROVE  safe' <= g.lo
    <3>1. PICK q \in 0 .. (nextSeq - 1) : g \in ReadsOf(gpu, P, q)
      BY <1>1 DEF GpuInv
    <3> QED BY <3>1, <1>12
  <2> QED BY <2>1, <1>1, <1>3 DEF GpuInv
<1>14. CoverInv(P)'
  <2>1. ASSUME NEW q \in 0 .. (nextSeq - 1), NEW g \in ReadsOf(gpu, P, q),
               NEW i \in 1 .. Len(credits), credits[i].pos = P[q + 1],
               Covers(gpu, P, q, credits[i].after, g)
        PROVE  \E j \in 1 .. Len(credits') :
                 credits'[j].pos = P[q + 1] /\ Covers(gpu, P, q, credits'[j].after, g)
    <3>1. i > k
      BY <1>12, <2>1
    <3>2. i - k \in 1 .. Len(credits') /\ (i - k) + k = i
      BY <1>2, <3>1
    <3>3. credits'[i - k] = credits[i]
      BY <1>7, <3>2
    <3> QED BY <3>2, <3>3, <2>1
  <2> QED BY <2>1, <1>1, <1>3 DEF CoverInv
<1> QED
  BY <1>11, <1>13, <1>14

-----------------------------------------------------------------------------
(* The GPU.                                                                 *)

\* A read that may run is the first of its post that is pending, so that nothing else
\* waits for its event alone.
LEMMA FirstOfPost ==
  ASSUME NEW P \in NatSeqs, NEW K \in NatSeqs, Inv(P, K), NEW g \in gpu, AllDone(g.after),
         NEW q \in 0 .. (nextSeq - 1), NEW h \in ReadsOf(gpu, P, q), h # g, NEW events,
         Covers(gpu, P, q, events, h)
  PROVE  Covers(gpu \ {g}, P, q, events, h)
<1>1. GpuInv(P) /\ ChainInv(P)
  BY DEF Inv
<1>2. PICK l \in ReadsOf(gpu, P, q) : events = {Ev(l)} /\ h.op <= l.op
  BY DEF Covers
<1>3. l # g
  <2> SUFFICES ASSUME l = g PROVE FALSE
    OBVIOUS
  <2>1. h \in gpu /\ h.op \in Nat /\ g.op \in Nat /\ h.op # g.op
    BY <1>1 DEF GpuInv, ReadsOf
  <2>2. h.op < g.op
    BY <1>2, <2>1
  <2>3. Covers(gpu, P, q, g.after, h)
    BY <1>1, <1>2, <2>2 DEF ChainInv
  <2>4. PICK m \in ReadsOf(gpu, P, q) : g.after = {Ev(m)}
    BY <2>3 DEF Covers
  <2>5. m \in gpu /\ m.op \in Nat
    BY <1>1 DEF ReadsOf, GpuInv
  <2>6. ~AllDone(g.after)
    BY <2>4, <2>5, NotDone
  <2> QED BY <2>6
<1>4. l \in ReadsOf(gpu \ {g}, P, q)
  BY <1>2, <1>3 DEF ReadsOf
<1> QED
  BY <1>2, <1>4 DEF Covers

\* Finishing a read keeps the invariant.
LEMMA GpuReadStep ==
  ASSUME NEW P \in NatSeqs, NEW K \in NatSeqs, Inv(P, K), NEW g \in gpu, GpuRead(g)
  PROVE  Inv(P, K)'
<1>1. GpuInv(P) /\ ChainInv(P) /\ CoverInv(P) /\ BatchInv
  BY DEF Inv
<1>2. /\ AllDone(g.after) /\ gpu' = gpu \ {g}
      /\ UNCHANGED <<senderVars, netVars, creditVars, readVars, outVars, ops, stop, computeVars>>
  BY DEF GpuRead
<1>3. UNCHANGED <<wire, ring, credit, sq, since, recvCq, credits, safe, sentCredit, readerPos,
                  nextSeq, imms, active, frame, nextBatch, ops, pc, batch, stream, pos>>
  BY <1>2 DEF senderVars, netVars, sendVars, recvVars, creditVars, readVars, outVars, computeVars
<1>4. ASSUME NEW q \in 0 .. (nextSeq - 1), NEW h \in ReadsOf(gpu', P, q)
      PROVE  /\ h \in ReadsOf(gpu, P, q) /\ h # g
             /\ \A events : Covers(gpu, P, q, events, h) => Covers(gpu', P, q, events, h)
  <2>1. h \in ReadsOf(gpu, P, q) /\ h # g
    BY <1>2 DEF ReadsOf
  <2>2. ASSUME NEW events, Covers(gpu, P, q, events, h)
        PROVE  Covers(gpu \ {g}, P, q, events, h)
    BY <2>1, <2>2, <1>2, FirstOfPost
  <2> QED BY <2>1, <2>2, <1>2
<1>5. GpuInv(P)'
  <2>1. ops \in Nat /\ \A h, m \in gpu' : h.op = m.op => h = m
    BY <1>1, <1>2 DEF GpuInv
  <2>2. gpu' \subseteq [st : Streams, op : 1 .. ops, after : SUBSET Events, lo : Nat, hi : Nat, to : Nat]
    BY <1>1, <1>2 DEF GpuInv
  <2>3. ASSUME NEW h \in gpu'
        PROVE  /\ safe <= h.lo /\ h.lo < h.hi
               /\ \E q \in 0 .. (nextSeq - 1) : h \in ReadsOf(gpu', P, q)
    BY <1>1, <1>2 DEF GpuInv, ReadsOf
  <2> QED BY <1>3, <2>1, <2>2, <2>3 DEF GpuInv
<1>6. ChainInv(P)'
  BY <1>1, <1>3, <1>4 DEF ChainInv
<1>7. CoverInv(P)'
  BY <1>1, <1>3, <1>4 DEF CoverInv
<1>8. BatchInv'
  BY <1>1, <1>2, <1>3 DEF BatchInv
<1> QED
  BY <1>2, <1>3, <1>5, <1>6, <1>7, <1>8, Unchanged DEF Inv

-----------------------------------------------------------------------------
(* Gathering images.                                                        *)

ImageItems == [kind : {"image"}, series : Nat, id : Nat]

\* A frame read a little further.
LEMMA ReadOn ==
  ASSUME NEW f, f = [rec |-> f.rec, used |-> f.used, last |-> f.last], NEW u, NEW e
  PROVE  [f EXCEPT !.used = @ + u, !.last = e] = [rec |-> f.rec, used |-> f.used + u, last |-> e]
<1>1. DOMAIN f = {"rec", "used", "last"} 
  OBVIOUS
<1> DEFINE h == [f EXCEPT !.used = @ + u, !.last = e]
<1>2. DOMAIN h = DOMAIN f
  OBVIOUS
<1>3. h["rec"] = f.rec /\ h["used"] = f.used + u /\ h["last"] = e
  BY <1>1
<1>4. h = [x \in DOMAIN f |-> h[x]]
  OBVIOUS
<1>5. h = [x \in {"rec", "used", "last"} |-> h[x]]
  BY <1>1, <1>4
<1> DEFINE k == [rec |-> f.rec, used |-> f.used + u, last |-> e]
<1>6. k["rec"] = f.rec /\ k["used"] = f.used + u /\ k["last"] = e
  OBVIOUS
<1>7. k = [x \in {"rec", "used", "last"} |-> k[x]]
  OBVIOUS
<1> HIDE DEF h, k
<1>8. \A x \in {"rec", "used", "last"} : h[x] = k[x]
  BY <1>3, <1>6
<1>9. h = k
  BY <1>5, <1>7, <1>8, Zenon
<1> QED
  BY <1>9 DEF h, k

\* Where the next read of a frame lies.
LEMMA ReadFacts ==
  ASSUME NEW P \in NatSeqs, NEW K \in NatSeqs, Inv(P, K), NEW f \in frame,
         NEW take \in Nat \ {0}, f.used + take <= f.rec.n
  PROVE  LET r == ReadOf(f, take) IN
           /\ r \in [st : Streams, op : {ops + 1}, after : SUBSET Events,
                     lo : Nat, hi : Nat, to : {nextBatch + 1}]
           /\ r.st = stream /\ r.after = f.last /\ r.op = ops + 1 /\ r.to = nextBatch + 1
           /\ Ev(r) = [st |-> stream, op |-> ops + 1]
           /\ r.lo \in Nat /\ r.hi \in Nat
           /\ P[nextSeq - 1] < r.lo /\ r.lo < r.hi /\ r.hi <= P[nextSeq]
           /\ safe <= r.lo
<1> DEFINE r == ReadOf(f, take)
           first == f.rec.pos + 1 + f.used * ImageCells
<1>1. /\ f.rec.pos \in Nat /\ f.used \in Nat /\ f.rec.n \in Nat /\ f.rec.pos = P[nextSeq - 1]
      /\ P[nextSeq] = f.rec.pos + (1 + f.rec.n * ImageCells)
  BY FrameFacts
<1>2. /\ f.used * ImageCells \in Nat /\ take * ImageCells \in Nat /\ f.rec.n * ImageCells \in Nat
      /\ take * ImageCells > 0
      /\ f.used * ImageCells + take * ImageCells <= f.rec.n * ImageCells
  BY <1>1, ImageRange
<1>3. /\ first \in Nat /\ first + take * ImageCells \in Nat
      /\ f.rec.pos < first /\ first < first + take * ImageCells
      /\ first + take * ImageCells <= f.rec.pos + (1 + f.rec.n * ImageCells)
  BY <1>1, <1>2
<1> HIDE DEF first
<1>4. r = [st |-> stream, op |-> ops + 1, after |-> f.last,
           lo |-> first, hi |-> first + take * ImageCells, to |-> nextBatch + 1]
  BY DEF ReadOf, ReadWaits, first
<1> HIDE DEF r
<1>5. r.lo = first /\ r.hi = first + take * ImageCells
  BY <1>4
<1>6. stream \in Streams /\ f.last \in SUBSET Events
  BY DEF Inv, ComputeInv, FrameInv
<1>7. safe <= f.rec.pos /\ safe \in Nat
  BY DEF Inv, CreditInv
<1>8. safe <= first
  BY <1>1, <1>3, <1>7
<1>9. /\ r \in [st : Streams, op : {ops + 1}, after : SUBSET Events,
                lo : Nat, hi : Nat, to : {nextBatch + 1}]
  BY <1>3, <1>4, <1>6
<1>10. /\ r.st = stream /\ r.after = f.last /\ r.op = ops + 1 /\ r.to = nextBatch + 1
       /\ Ev(r) = [st |-> stream, op |-> ops + 1]
  BY <1>4 DEF Ev
<1> QED
  BY <1>1, <1>3, <1>5, <1>8, <1>9, <1>10 DEF r

\* The credit of a frame that is read to its end follows all earlier ones.
LEMMA FrameAdvances ==
  ASSUME NEW P \in NatSeqs, NEW K \in NatSeqs, Inv(P, K), NEW f \in frame
  PROVE  /\ Advances(readerPos) /\ safe < readerPos /\ readerPos \in Nat
         /\ \A i \in 1 .. Len(credits) : credits[i].pos < readerPos
<1>1. f.rec.pos \in Nat /\ f.rec.span \in Nat \ {0} /\ readerPos = f.rec.pos + f.rec.span
  BY FrameFacts DEF FrameSet
<1>2. readerPos \in Nat /\ f.rec.pos < readerPos
  BY <1>1
<1>3. /\ credits \in Seq(Credits) /\ safe \in Nat /\ safe <= f.rec.pos
      /\ \A i \in 1 .. Len(credits) : credits[i].pos <= f.rec.pos
  BY DEF Inv, CreditInv
<1>4. ASSUME NEW i \in 1 .. Len(credits)
      PROVE  credits[i].pos < readerPos
  <2>1. credits[i] \in Credits
    BY <1>3, ElementOfSeq
  <2>2. credits[i].pos \in Nat
    BY <2>1 DEF Credits
  <2>3. credits[i].pos <= f.rec.pos
    BY <1>3
  <2> QED BY <1>1, <1>2, <2>2, <2>3
<1>5. Advances(readerPos)
  <2>1. CASE credits # <<>>
    <3>1. Len(credits) \in 1 .. Len(credits)
      BY <1>3, <2>1, EmptySeq
    <3> QED BY <3>1, <1>4 DEF Advances
  <2> QED BY <2>1 DEF Advances
<1> QED
  BY <1>1, <1>2, <1>3, <1>4, <1>5

\* What Gather does.  It never finds that the credit does not advance.
LEMMA GatherEffect ==
  ASSUME NEW P \in NatSeqs, NEW K \in NatSeqs, Inv(P, K), Gather
  PROVE  \E f \in frame, take \in Nat \ {0} :
           /\ frame = {f} /\ f.used + take <= f.rec.n
           /\ Len(batch) \in Nat /\ Len(batch) + take <= BatchSize
           /\ gpu' = gpu \cup {ReadOf(f, take)} /\ ops' = ops + 1
           /\ batch' \in Seq(ImageItems) /\ Len(batch') = Len(batch) + take
           /\ pc' = IF Len(batch) + take = BatchSize THEN "emit" ELSE "loop"
           /\ \/ /\ f.used + take < f.rec.n /\ credits' = credits
                 /\ frame' = {[rec |-> f.rec, used |-> f.used + take,
                               last |-> {[st |-> stream, op |-> ops + 1]}]}
              \/ /\ frame' = {}
                 /\ RecordCredit(readerPos, {[st |-> stream, op |-> ops + 1]})
<1>1. pc = "step"
  BY DEF Gather
<1>2. batch \in Seq(ImageItems) /\ Len(batch) \in Nat /\ Len(batch) < BatchSize
  BY <1>1 DEF Inv, ComputeInv, ImageItems
<1>3. PICK f \in frame :
       LET take  == Least(f.rec.n - f.used, BatchSize - Len(batch))
           event == {[st |-> stream, op |-> ops + 1]}
           ids   == [i \in 1 .. take |-> Item("image", f.rec.series, f.rec.id + f.used + i - 1)]
           onward == IF Len(batch) + take = BatchSize THEN "emit" ELSE "loop"
       IN /\ gpu' = gpu \cup {ReadOf(f, take)}
          /\ ops' = ops + 1
          /\ batch' = batch \o ids
          /\ IF f.used + take < f.rec.n
             THEN /\ frame' = {[f EXCEPT !.used = @ + take, !.last = event]}
                  /\ pc' = onward
                  /\ UNCHANGED credits
             ELSE /\ frame' = {}
                  /\ IF Advances(readerPos)
                     THEN RecordCredit(readerPos, event) /\ pc' = onward
                     ELSE pc' = "rejected" /\ UNCHANGED credits
  BY DEF Gather
<1> DEFINE take  == Least(f.rec.n - f.used, BatchSize - Len(batch))
           event == {[st |-> stream, op |-> ops + 1]}
           ids   == [i \in 1 .. take |-> Item("image", f.rec.series, f.rec.id + f.used + i - 1)]
<1>4. /\ f.rec \in FrameSet /\ f.rec.n \in Nat \ {0} /\ f.used \in Nat /\ f.used < f.rec.n
      /\ f.rec.series \in Nat /\ f.rec.id \in Nat
  BY FrameFacts DEF FrameSet
<1>5. frame = {f} /\ f = [rec |-> f.rec, used |-> f.used, last |-> f.last]
  BY DEF Inv, FrameInv
<1>6. take \in Nat \ {0} /\ f.used + take <= f.rec.n /\ Len(batch) + take <= BatchSize
  <2>1. BatchSize \in Nat
    BY Sizes
  <2> QED BY <1>2, <1>4, <2>1 DEF Least
<1>7. /\ gpu' = gpu \cup {ReadOf(f, take)} /\ ops' = ops + 1 /\ batch' = batch \o ids
      /\ pc' = IF Len(batch) + take = BatchSize THEN "emit" ELSE "loop"
      /\ \/ /\ f.used + take < f.rec.n /\ credits' = credits
            /\ frame' = {[f EXCEPT !.used = @ + take, !.last = event]}
         \/ frame' = {} /\ RecordCredit(readerPos, event)
  <2>1. Advances(readerPos)
    BY FrameAdvances
  <2> QED BY <1>3, <2>1
<1> HIDE DEF take
<1>8. [f EXCEPT !.used = @ + take, !.last = event]
        = [rec |-> f.rec, used |-> f.used + take, last |-> event]
  <2> HIDE DEF event, take
  <2>1. \A u, e : [f EXCEPT !.used = @ + u, !.last = e] = [rec |-> f.rec, used |-> f.used + u, last |-> e]
    BY <1>5, ReadOn
  <2> QED BY <2>1
<1>9. batch' \in Seq(ImageItems) /\ Len(batch') = Len(batch) + take
  <2>1. \A i \in 1 .. take : Item("image", f.rec.series, f.rec.id + f.used + i - 1) \in ImageItems
    BY <1>4 DEF Item, ImageItems
  <2>2. ids \in [1 .. take -> ImageItems]
    BY <2>1
  <2>3. ids \in Seq(ImageItems) /\ Len(ids) = take
    <3> HIDE DEF ids
    <3>1. ids \in Seq(ImageItems)
      BY <2>2, <1>6
    <3>2. DOMAIN ids = 1 .. Len(ids)
      BY <3>1, LenProperties
    <3> QED BY <3>1, <3>2, <2>2, <1>6, LenProperties
  <2> HIDE DEF ids
  <2> QED BY <1>2, <1>7, <2>3, ConcatProperties
<1> QED
  BY <1>2, <1>5, <1>6, <1>7, <1>8, <1>9

\* A read that joins the pending ones takes nothing from what the others wait for.
LEMMA CoversGrows ==
  ASSUME NEW G, NEW H, G \subseteq H, NEW P, NEW q, NEW events, NEW g, Covers(G, P, q, events, g)
  PROVE  Covers(H, P, q, events, g)
  BY DEF Covers, ReadsOf

\* The new read belongs to the post before the reader's position, and to no other.
LEMMA ReadsWithNew ==
  ASSUME NEW P \in NatSeqs, NEW K \in NatSeqs, Inv(P, K), nextSeq > 0, NEW r,
         r.lo \in Nat, r.hi \in Nat, P[nextSeq - 1] < r.lo, r.lo < r.hi, r.hi <= P[nextSeq],
         NEW q \in 0 .. (nextSeq - 1)
  PROVE  ReadsOf(gpu \cup {r}, P, q)
           = IF q = nextSeq - 1 THEN ReadsOf(gpu, P, q) \cup {r} ELSE ReadsOf(gpu, P, q)
<1>1. SenderInv(P, K) /\ seq \in Nat /\ nextSeq \in Nat /\ nextSeq <= seq
  <2>1. SenderInv(P, K) /\ WireInv(P, K)
    BY DEF Inv
  <2>2. nextSeq \in Nat /\ Placed \in Nat /\ seq \in Nat /\ nextSeq <= Placed /\ Placed <= seq
    BY <2>1, Counters
  <2> QED BY <2>1, <2>2
<1>2. q \in Nat /\ q + 1 \in Nat /\ nextSeq - 1 \in Nat /\ nextSeq - 1 <= seq
  BY <1>1
<1>3. CASE q = nextSeq - 1
  <2>1. P[q] < r.lo /\ r.hi <= P[q + 1]
    BY <1>1, <1>3
  <2> QED BY <2>1, <1>3 DEF ReadsOf
<1>4. CASE q # nextSeq - 1
  <2>1. q + 1 <= nextSeq - 1
    BY <1>1, <1>2, <1>4
  <2>2. P[q + 1] <= P[nextSeq - 1] /\ P[q + 1] \in Nat /\ P[nextSeq - 1] \in Nat
    BY <1>1, <1>2, <2>1, Order
  <2>3. ~(r.hi <= P[q + 1])
    BY <2>2
  <2> QED BY <2>3, <1>4 DEF ReadsOf
<1> QED
  BY <1>3, <1>4

\* Gathering keeps the invariant: the new read waits for the earlier ones of its frame, and
\* what the frame or its credit waits for is now the new read.
LEMMA GatherStep ==
  ASSUME NEW P \in NatSeqs, NEW K \in NatSeqs, Inv(P, K), Gather
  PROVE  Inv(P, K)'
<1>1. /\ SenderInv(P, K) /\ WireInv(P, K) /\ FrameInv(P, K) /\ ComputeInv /\ CreditInv(P)
      /\ GpuInv(P) /\ ChainInv(P) /\ CoverInv(P) /\ BatchInv /\ ReaderInv(P, K)
  BY DEF Inv
<1>2. PICK f \in frame, take \in Nat \ {0} :
           /\ frame = {f} /\ f.used + take <= f.rec.n
           /\ Len(batch) \in Nat /\ Len(batch) + take <= BatchSize
           /\ gpu' = gpu \cup {ReadOf(f, take)} /\ ops' = ops + 1
           /\ batch' \in Seq(ImageItems) /\ Len(batch') = Len(batch) + take
           /\ pc' = IF Len(batch) + take = BatchSize THEN "emit" ELSE "loop"
           /\ \/ /\ f.used + take < f.rec.n /\ credits' = credits
                 /\ frame' = {[rec |-> f.rec, used |-> f.used + take,
                               last |-> {[st |-> stream, op |-> ops + 1]}]}
              \/ /\ frame' = {}
                 /\ RecordCredit(readerPos, {[st |-> stream, op |-> ops + 1]})
  BY GatherEffect
<1> DEFINE r == ReadOf(f, take)
           q0 == nextSeq - 1
<1>3. /\ UNCHANGED <<senderVars, wire, ring, credit, sq, since, recvCq, safe, sentCredit, readerPos,
                     nextSeq, imms, active, nextBatch, stream, pos>>
      /\ pc = "step" /\ pc # "stopped" /\ pc' # "stopped"
  BY <1>2 DEF Gather, senderVars, netVars, sendVars, recvVars, outVars
<1>4. /\ r \in [st : Streams, op : {ops + 1}, after : SUBSET Events,
                lo : Nat, hi : Nat, to : {nextBatch + 1}]
      /\ r.st = stream /\ r.after = f.last /\ r.op = ops + 1 /\ r.to = nextBatch + 1
      /\ Ev(r) = [st |-> stream, op |-> ops + 1]
      /\ r.lo \in Nat /\ r.hi \in Nat
      /\ P[q0] < r.lo /\ r.lo < r.hi /\ r.hi <= P[nextSeq]
      /\ safe <= r.lo
  BY <1>2, ReadFacts
<1> HIDE DEF r
<1>5. gpu' = gpu \cup {r} /\ nextSeq' = nextSeq /\ readerPos' = readerPos
  BY <1>2, <1>3 DEF r
<1>6. /\ nextSeq \in Nat \ {0} /\ q0 \in Nat /\ q0 + 1 = nextSeq /\ f.used \in Nat /\ f.rec.n \in Nat
      /\ readerPos = P[nextSeq] /\ ops \in Nat /\ f.rec.pos = P[q0]
  BY <1>1, FrameFacts DEF GpuInv
<1> HIDE DEF q0
<1>7. ASSUME NEW q \in 0 .. (nextSeq - 1)
      PROVE  ReadsOf(gpu', P, q) = IF q = q0 THEN ReadsOf(gpu, P, q) \cup {r} ELSE ReadsOf(gpu, P, q)
  <2>1. nextSeq > 0
    BY <1>6
  <2> QED BY <1>4, <1>5, <2>1, ReadsWithNew DEF q0
<1>8. ASSUME NEW q, NEW events, NEW g, Covers(gpu, P, q, events, g)
      PROVE  Covers(gpu', P, q, events, g)
  BY <1>5, <1>8, CoversGrows
<1>9. \A g \in gpu : g.op \in Nat /\ g.op <= ops /\ g.op # r.op
  <2> SUFFICES ASSUME NEW g \in gpu PROVE g.op \in Nat /\ g.op <= ops /\ g.op # r.op
    OBVIOUS
  <2>1. g.op \in 1 .. ops
    BY <1>1 DEF GpuInv
  <2> QED BY <2>1, <1>4, <1>6
<1>10. FrameInv(P, K)'
  <2>1. ASSUME NEW h \in frame'
        PROVE  /\ frame' = {h} /\ nextSeq > 0
               /\ h.rec = Posted(plan, P, K, nextSeq - 1) /\ h.rec.kind = "image"
               /\ h.used \in 0 .. (h.rec.n - 1)
               /\ h.last \in SUBSET Events
               /\ h = [rec |-> h.rec, used |-> h.used, last |-> h.last]
    <3>1. /\ f.used + take < f.rec.n
          /\ h = [rec |-> f.rec, used |-> f.used + take, last |-> {[st |-> stream, op |-> ops + 1]}]
          /\ frame' = {h}
      BY <1>2, <2>1
    <3>2. f.rec = Posted(plan, P, K, nextSeq - 1) /\ f.rec.kind = "image"
      BY <1>1, <1>2 DEF FrameInv
    <3>3. f.used + take \in 0 .. (f.rec.n - 1)
      BY <3>1, <1>2, <1>6
    <3>4. [st |-> stream, op |-> ops + 1] \in Events
      BY <1>1, <1>6 DEF ComputeInv, Events
    <3> QED BY <3>1, <3>2, <3>3, <3>4, <1>6
  <2> QED BY <2>1, <1>3 DEF FrameInv, senderVars
<1>11. ComputeInv'
  <2>1. BatchSize \in Nat /\ Len(batch') \in Nat
    BY Sizes, <1>2
  <2>2. pc' = "loop" => Len(batch') < BatchSize
    BY <1>2, <2>1
  <2>3. pc' \in {"loop", "emit"}
    BY <1>2
  <2> QED BY <1>1, <1>2, <1>3, <2>2, <2>3 DEF ComputeInv, ImageItems
<1>12. ASSUME RecordCredit(readerPos, {[st |-> stream, op |-> ops + 1]})
       PROVE  /\ credits' \in Seq(Credits) /\ Len(credits') = Len(credits) + 1 /\ Len(credits) \in Nat
              /\ \A i \in 1 .. Len(credits) : credits'[i] = credits[i] /\ credits[i].pos < readerPos
              /\ credits'[Len(credits) + 1] = [pos |-> readerPos, after |-> {Ev(r)}]
              /\ safe < readerPos /\ readerPos \in Nat
  <2> DEFINE c == [pos |-> readerPos, after |-> {Ev(r)}]
  <2>1. readerPos \in Nat /\ safe < readerPos /\ \A i \in 1 .. Len(credits) : credits[i].pos < readerPos
    BY <1>2, FrameAdvances
  <2>2. c \in Credits
    <3>1. Ev(r) \in Events
      BY <1>1, <1>4, <1>6 DEF ComputeInv, Events
    <3> QED BY <2>1, <3>1 DEF Credits
  <2>3. credits' = Append(credits, c) /\ credits \in Seq(Credits)
    BY <1>1, <1>4, <1>12 DEF RecordCredit, CreditInv
  <2> HIDE DEF c
  <2>4. /\ credits' \in Seq(Credits) /\ Len(credits') = Len(credits) + 1 /\ Len(credits) \in Nat
        /\ \A i \in 1 .. Len(credits) : credits'[i] = credits[i]
        /\ credits'[Len(credits) + 1] = c
    BY <2>2, <2>3, AppendProperties, LenProperties
  <2> QED BY <2>1, <2>4 DEF c
<1>13. CreditInv(P)'
  <2>1. CASE credits' = credits /\ frame' = {[rec |-> f.rec, used |-> f.used + take,
                                             last |-> {[st |-> stream, op |-> ops + 1]}]}
    <3>1. \A h \in frame' : h.rec = f.rec
      BY <2>1
    <3> QED BY <1>1, <1>3, <2>1, <3>1 DEF CreditInv
  <2>2. CASE frame' = {} /\ RecordCredit(readerPos, {[st |-> stream, op |-> ops + 1]})
    <3>1. /\ credits' \in Seq(Credits) /\ Len(credits') = Len(credits) + 1 /\ Len(credits) \in Nat
          /\ \A i \in 1 .. Len(credits) : credits'[i] = credits[i] /\ credits[i].pos < readerPos
          /\ credits'[Len(credits) + 1] = [pos |-> readerPos, after |-> {Ev(r)}]
          /\ safe < readerPos /\ readerPos \in Nat
      BY <1>12, <2>2
    <3>2. ASSUME NEW i \in 1 .. Len(credits')
          PROVE  /\ safe < credits'[i].pos /\ credits'[i].pos <= readerPos
                 /\ \E q \in 0 .. nextSeq : credits'[i].pos = P[q]
      <4>1. CASE i \in 1 .. Len(credits)
        BY <4>1, <3>1, <1>1 DEF CreditInv
      <4>2. CASE i = Len(credits) + 1
        <5>1. nextSeq \in 0 .. nextSeq
          BY <1>6
        <5> QED BY <5>1, <4>2, <3>1, <1>6
      <4> QED BY <4>1, <4>2, <3>1
    <3>3. ASSUME NEW i \in 1 .. Len(credits'), NEW j \in 1 .. Len(credits'), i < j
          PROVE  credits'[i].pos < credits'[j].pos
      <4>1. i \in 1 .. Len(credits)
        BY <3>1, <3>3
      <4>2. CASE j \in 1 .. Len(credits)
        BY <4>1, <4>2, <3>1, <3>3, <1>1 DEF CreditInv
      <4>3. CASE j = Len(credits) + 1
        BY <4>1, <4>3, <3>1
      <4> QED BY <4>2, <4>3, <3>1
    <3> QED BY <1>1, <1>3, <2>2, <3>1, <3>2, <3>3 DEF CreditInv
  <2> QED BY <2>1, <2>2, <1>2
<1>14. GpuInv(P)'
  <2>1. ops' \in Nat /\ ops' = ops + 1
    BY <1>2, <1>6
  <2>2. gpu' \subseteq [st : Streams, op : 1 .. ops', after : SUBSET Events, lo : Nat, hi : Nat, to : Nat]
    <3>1. r \in [st : Streams, op : 1 .. (ops + 1), after : SUBSET Events, lo : Nat, hi : Nat, to : Nat]
      <4>1. ops + 1 \in 1 .. (ops + 1) /\ nextBatch + 1 \in Nat
        BY <1>1, <1>6 DEF BatchInv
      <4> QED BY <4>1, <1>4
    <3>2. 1 .. ops \subseteq 1 .. (ops + 1)
      BY <1>6
    <3> QED BY <1>1, <1>5, <2>1, <3>1, <3>2 DEF GpuInv
  <2>3. ASSUME NEW g \in gpu'
        PROVE  /\ safe <= g.lo /\ g.lo < g.hi
               /\ \E q \in 0 .. (nextSeq - 1) : g \in ReadsOf(gpu', P, q)
    <3>1. CASE g \in gpu
      BY <1>1, <1>5, <3>1 DEF GpuInv, ReadsOf
    <3>2. CASE g = r
      <4>1. q0 \in 0 .. (nextSeq - 1)
        BY <1>6
      <4>2. g \in ReadsOf(gpu', P, q0)
        BY <3>2, <4>1, <1>7
      <4> QED BY <3>2, <4>1, <4>2, <1>4
    <3> QED BY <3>1, <3>2, <1>5
  <2>4. \A g, h \in gpu' : g.op = h.op => g = h
    BY <1>1, <1>5, <1>9 DEF GpuInv
  <2> QED BY <1>3, <2>1, <2>2, <2>3, <2>4 DEF GpuInv
<1>15. ASSUME NEW g \in ReadsOf(gpu, P, q0)
       PROVE  Covers(gpu, P, q0, f.last, g)
  <2>1. q0 \in 0 .. (nextSeq - 1)
    BY <1>6
  <2>2. ASSUME NEW i \in 1 .. Len(credits), credits[i].pos = P[q0 + 1]
        PROVE  FALSE
    <3>1. credits[i].pos < readerPos
      BY <1>2, FrameAdvances
    <3>2. readerPos \in Nat
      BY <1>2, FrameAdvances
    <3> QED BY <3>1, <3>2, <2>2, <1>6
  <2> QED BY <2>1, <2>2, <1>1 DEF CoverInv
<1>16. ChainInv(P)'
  <2>1. ASSUME NEW q \in 0 .. (nextSeq - 1), NEW g \in ReadsOf(gpu', P, q),
               NEW h \in ReadsOf(gpu', P, q), g.op < h.op
        PROVE  Covers(gpu', P, q, h.after, g)
    <3>0. g \in ReadsOf(gpu, P, q) \/ (q = q0 /\ g = r)
      BY <1>7
    <3>1. CASE h \in ReadsOf(gpu, P, q)
      <4>1. g # r
        <5>1. h.op \in Nat /\ h.op <= ops
          BY <3>1, <1>9 DEF ReadsOf
        <5> QED BY <5>1, <2>1, <1>4, <1>6
      <4>2. g \in ReadsOf(gpu, P, q)
        BY <3>0, <4>1
      <4>3. Covers(gpu, P, q, h.after, g)
        BY <4>2, <3>1, <2>1, <1>1 DEF ChainInv
      <4> QED BY <4>3, <1>8
    <3>2. CASE q = q0 /\ h = r
      <4>1. g # r
        BY <2>1, <3>2, <1>4, <1>6
      <4>2. Covers(gpu, P, q, h.after, g)
        BY <3>0, <3>2, <4>1, <1>4, <1>15
      <4> QED BY <4>2, <1>8
    <3> QED BY <3>1, <3>2, <1>7
  <2> QED BY <2>1, <1>5 DEF ChainInv
<1>17. CoverInv(P)'
  <2>1. ASSUME NEW q \in 0 .. (nextSeq - 1), NEW g \in ReadsOf(gpu', P, q)
        PROVE  \/ /\ q = nextSeq - 1 /\ frame' # {}
                  /\ \A h \in frame' : Covers(gpu', P, q, h.last, g)
               \/ \E i \in 1 .. Len(credits') :
                    credits'[i].pos = P[q + 1] /\ Covers(gpu', P, q, credits'[i].after, g)
    <3>1. CASE q = q0
      <4>1. Covers(gpu', P, q, {Ev(r)}, g)
        <5>1. r \in ReadsOf(gpu', P, q)
          BY <3>1, <1>7
        <5>2. g.op <= r.op
          <6>1. g = r \/ g \in gpu
            BY <1>5 DEF ReadsOf
          <6> QED BY <6>1, <1>4, <1>6, <1>9
        <5> QED BY <5>1, <5>2 DEF Covers
      <4>2. CASE frame' = {[rec |-> f.rec, used |-> f.used + take,
                            last |-> {[st |-> stream, op |-> ops + 1]}]}
        <5>1. frame' # {} /\ \A h \in frame' : h.last = {Ev(r)}
          BY <4>2, <1>4
        <5> QED BY <5>1, <4>1, <3>1 DEF q0
      <4>3. CASE RecordCredit(readerPos, {[st |-> stream, op |-> ops + 1]})
        <5>1. /\ Len(credits') = Len(credits) + 1 /\ Len(credits) \in Nat
              /\ credits'[Len(credits) + 1] = [pos |-> readerPos, after |-> {Ev(r)}]
          BY <1>12, <4>3
        <5>2. Len(credits) + 1 \in 1 .. Len(credits')
          BY <5>1
        <5>3. readerPos = P[q + 1]
          BY <3>1, <1>6
        <5>4. /\ credits'[Len(credits) + 1].pos = readerPos
              /\ credits'[Len(credits) + 1].after = {Ev(r)}
          BY <5>1
        <5>5. Covers(gpu', P, q, credits'[Len(credits) + 1].after, g)
          BY <4>1, <5>4
        <5> QED BY <5>2, <5>3, <5>4, <5>5
      <4> QED BY <4>2, <4>3, <1>2
    <3>2. CASE q # q0
      <4>1. g \in ReadsOf(gpu, P, q)
        BY <3>2, <1>7
      <4>2. PICK i \in 1 .. Len(credits) :
              credits[i].pos = P[q + 1] /\ Covers(gpu, P, q, credits[i].after, g)
        BY <3>2, <4>1, <1>1 DEF CoverInv, q0
      <4>3. i \in 1 .. Len(credits') /\ credits'[i] = credits[i]
        <5>1. CASE credits' = credits
          BY <5>1
        <5>2. CASE RecordCredit(readerPos, {[st |-> stream, op |-> ops + 1]})
          <6>1. /\ Len(credits') = Len(credits) + 1 /\ Len(credits) \in Nat
                /\ \A j \in 1 .. Len(credits) : credits'[j] = credits[j]
            BY <1>12, <5>2
          <6> QED BY <6>1
        <5> QED BY <5>1, <5>2, <1>2
      <4>4. Covers(gpu', P, q, credits'[i].after, g)
        BY <4>2, <4>3, <1>8
      <4> QED BY <4>2, <4>3, <4>4
    <3> QED BY <3>1, <3>2
  <2> QED BY <2>1, <1>5 DEF CoverInv
<1>18. BatchInv'
  <2>1. batch' # <<>>
    <3>1. Len(batch') > 0 /\ batch' \in Seq(ImageItems)
      BY <1>2
    <3> QED BY <3>1
  <2> QED BY <2>1, <1>1, <1>3, <1>4, <1>5 DEF BatchInv
<1> QED
  BY <1>3, <1>10, <1>11, <1>13, <1>14, <1>16, <1>17, <1>18, Unchanged DEF Inv

-----------------------------------------------------------------------------
(* Reading the next frame.                                                  *)

\* The header at the reader's position is the post that the immediate announces, and it
\* is legal there: read_next_frame accepts it.
LEMMA HeaderFacts ==
  ASSUME NEW P \in NatSeqs, NEW K \in NatSeqs, Inv(P, K), pc = "step", imms # <<>>
  PROVE  LET h == Posted(plan, P, K, nextSeq) IN
           /\ HeaderAtReader = h /\ nextSeq < Placed /\ nextSeq \in 0 .. (seq - 1)
           /\ Announced(h, Head(imms)) /\ Legal(h)
           /\ h \in FrameSet /\ h.span \in Nat \ {0} /\ h.pos = readerPos /\ readerPos \in Nat
           /\ FrameEnd(h) = readerPos + h.span /\ FrameEnd(h) = P[nextSeq + 1]
           /\ h.kind = "image" => h.n > 0
<1> DEFINE h == Posted(plan, P, K, nextSeq)
           k == K[nextSeq]
<1>1. SenderInv(P, K) /\ WireInv(P, K) /\ RingInv(P, K) /\ AnnounceInv /\ ReaderInv(P, K)
  BY DEF Inv
<1>2. /\ seq \in Nat /\ nextSeq \in Nat /\ Placed \in Nat /\ Placed <= seq
  BY <1>1, Counters
<1>3. imms \in Seq(Nat) /\ Len(imms) \in Nat \ {0} /\ Head(imms) = imms[1] /\ Len(recvCq) \in Nat
  <2>1. imms \in Seq(Nat) /\ recvCq \in Seq(Nat)
    BY <1>1 DEF AnnounceInv
  <2> QED BY <2>1, Queue, LenProperties
<1>4. Len(imms) + Len(recvCq) = Placed - nextSeq
  BY <1>1 DEF AnnounceInv
<1>5. nextSeq < Placed
  BY <1>2, <1>3, <1>4
<1>6. nextSeq \in nextSeq .. (Placed - 1) /\ nextSeq \in 0 .. (seq - 1)
  BY <1>2, <1>5
<1>7. readerPos = P[nextSeq] /\ readerPos \in Nat
  BY <1>1, <1>2, NatSeqsNat DEF ReaderInv
<1>8. HeaderAtReader = h
  BY <1>1, <1>6, <1>7 DEF RingInv, HeaderAtReader
<1>9. /\ k \in 1 .. Len(plan) /\ P[nextSeq + 1] = P[nextSeq] + h.span /\ plan \in Plans
  BY <1>1, <1>6, PostFacts DEF SenderInv
<1>10. /\ h \in FrameSet /\ h.pos = P[nextSeq] /\ h.seq = nextSeq /\ h.kind # "none"
       /\ h.kind = "wrap" => /\ Offset(P[nextSeq]) # 0 /\ h.span = RingLen - Offset(P[nextSeq])
       /\ h.kind # "wrap" => /\ h.span <= RingLen - Offset(P[nextSeq])
                             /\ h.kind = plan[k].kind /\ h.series = plan[k].series
                             /\ h.span = 1 + DataCells(plan[k])
       /\ h.kind = "image" => h.n > 0
  BY <1>2, <1>9, PostType
<1> HIDE DEF h, k
<1>11. /\ Len(plan) \in Nat
       /\ IF plan[k].kind = "start"
          THEN k = 1 \/ plan[k - 1].kind = "end"
          ELSE k > 1 /\ plan[k - 1].kind # "end" /\ plan[k].series = plan[k - 1].series
  BY <1>9, PlanRecords
<1>12. /\ active.on <=> k > 1 /\ plan[k - 1].kind # "end"
       /\ active.on => active.series = plan[k - 1].series
  BY <1>1 DEF ReaderInv, k
<1>13. Announced(h, Head(imms))
  <2>1. 1 \in 1 .. Len(imms) /\ nextSeq + 1 - 1 = nextSeq
    BY <1>2, <1>3
  <2>2. imms[1] = (nextSeq + 1 - 1) % ImmMod
    BY <1>1, <2>1 DEF AnnounceInv
  <2> QED BY <2>1, <2>2, <1>3, <1>7, <1>10 DEF Announced
<1>14. Legal(h)
  <2>1. k \in Nat /\ k >= 1
    BY <1>9, <1>11
  <2>2. h.kind = "start" => ~active.on
    BY <2>1, <1>10, <1>11, <1>12
  <2>4. h.kind = "start" => h.span - 1 \in 1 .. StartCells
    <3>1. h.kind = "start" => plan[k].kind = "start" /\ h.span = 1 + DataCells(plan[k])
      BY <1>10
    <3>2. plan[k].kind = "start" => DataCells(plan[k]) = ControlCells
      BY DEF DataCells
    <3> QED BY <3>1, <3>2, RingAssumption
  <2>3. h.kind \in {"image", "end"} => active.on /\ h.series = active.series
    BY <2>1, <1>10, <1>11, <1>12
  <2> QED BY <1>7, <1>10, <2>2, <2>3, <2>4 DEF Legal
<1>15. h.span \in Nat \ {0}
  BY <1>10 DEF FrameSet
<1>16. FrameEnd(h) = readerPos + h.span
  BY <1>7, <1>10 DEF FrameEnd
<1> QED
  BY <1>5, <1>6, <1>7, <1>8, <1>9, <1>10, <1>13, <1>14, <1>15, <1>16 DEF h

\* What ReadFrame does: it never rejects.
LEMMA ReadFrameEffect ==
  ASSUME NEW P \in NatSeqs, NEW K \in NatSeqs, Inv(P, K), ReadFrame
  PROVE  LET h == Posted(plan, P, K, nextSeq) IN
           /\ pc = "step" /\ imms # <<>> /\ frame = {} /\ pc' = "loop"
           /\ Accept(h) /\ readerPos' = FrameEnd(h) /\ nextSeq' = nextSeq + 1
           /\ IF h.kind = "image" THEN credits' = credits ELSE RecordCredit(FrameEnd(h), {})
           /\ imms' = Tail(imms)
           /\ UNCHANGED <<senderVars, netVars, safe, sentCredit, outVars, gpuVars,
                          batch, stream, deficit>>
<1> DEFINE h == Posted(plan, P, K, nextSeq)
<1>1. /\ pc = "step" /\ imms # <<>> /\ frame = {} /\ imms' = Tail(imms)
      /\ UNCHANGED <<senderVars, netVars, safe, sentCredit, outVars, gpuVars,
                     batch, stream, deficit>>
  BY DEF ReadFrame
<1>2. /\ HeaderAtReader = h /\ Announced(h, Head(imms)) /\ Legal(h) /\ h.span \in Nat \ {0}
      /\ readerPos \in Nat /\ FrameEnd(h) = readerPos + h.span
  BY <1>1, HeaderFacts
<1> HIDE DEF h
<1>3. Advances(FrameEnd(h))
  <2>1. credits \in Seq(Credits) /\ \A i \in 1 .. Len(credits) : credits[i].pos <= readerPos
    BY DEF Inv, CreditInv
  <2>2. CASE credits # <<>>
    <3>1. Len(credits) \in 1 .. Len(credits)
      BY <2>1, <2>2, EmptySeq
    <3>2. credits[Len(credits)] \in Credits
      BY <2>1, <3>1, ElementOfSeq
    <3>3. credits[Len(credits)].pos \in Nat /\ credits[Len(credits)].pos <= readerPos
      BY <2>1, <3>1, <3>2 DEF Credits
    <3>4. credits[Len(credits)].pos < FrameEnd(h)
      BY <3>3, <1>2
    <3> QED BY <3>4 DEF Advances
  <2> QED BY <2>2 DEF Advances
<1>4. /\ Accept(h) /\ readerPos' = FrameEnd(h) /\ nextSeq' = nextSeq + 1
      /\ IF CreditedAtOnce(h) THEN RecordCredit(FrameEnd(h), {}) ELSE UNCHANGED credits
      /\ pc' = "loop"
  BY <1>2, <1>3 DEF ReadFrame
<1>5. IF h.kind = "image" THEN credits' = credits ELSE RecordCredit(FrameEnd(h), {})
  BY <1>4 DEF CreditedAtOnce
<1> QED
  BY <1>1, <1>4, <1>5 DEF h

\* The new post before the reader's position has no reads yet.
LEMMA NoReadsAhead ==
  ASSUME NEW P \in NatSeqs, NEW K \in NatSeqs, Inv(P, K)
  PROVE  ReadsOf(gpu, P, nextSeq) = {}
<1>1. SenderInv(P, K) /\ WireInv(P, K) /\ GpuInv(P)
  BY DEF Inv
<1>2. seq \in Nat /\ nextSeq \in Nat /\ nextSeq <= seq
  <2>1. nextSeq \in Nat /\ Placed \in Nat /\ seq \in Nat /\ nextSeq <= Placed /\ Placed <= seq
    BY <1>1, Counters
  <2> QED BY <2>1
<1>3. ASSUME NEW g \in gpu, P[nextSeq] < g.lo
      PROVE  FALSE
  <2>1. PICK q \in 0 .. (nextSeq - 1) : g \in ReadsOf(gpu, P, q)
    BY <1>1 DEF GpuInv
  <2>2. g.lo \in Nat /\ g.hi \in Nat /\ g.lo < g.hi /\ g.hi <= P[q + 1]
    BY <1>1, <2>1 DEF GpuInv, ReadsOf
  <2>3. q + 1 \in Nat /\ q + 1 <= nextSeq
    BY <1>2
  <2>4. P[q + 1] <= P[nextSeq] /\ P[q + 1] \in Nat /\ P[nextSeq] \in Nat
    BY <1>1, <1>2, <2>3, Order
  <2> QED BY <1>3, <2>2, <2>4
<1> QED
  BY <1>3 DEF ReadsOf

\* Reading a frame keeps the invariant.
LEMMA ReadFrameStep ==
  ASSUME NEW P \in NatSeqs, NEW K \in NatSeqs, Inv(P, K), ReadFrame
  PROVE  Inv(P, K)'
<1> DEFINE h == Posted(plan, P, K, nextSeq)
           k == K[nextSeq]
<1>1. /\ SenderInv(P, K) /\ WireInv(P, K) /\ RingInv(P, K) /\ AnnounceInv /\ ReaderInv(P, K)
      /\ FrameInv(P, K) /\ ComputeInv /\ CreditInv(P) /\ GpuInv(P) /\ ChainInv(P) /\ CoverInv(P)
      /\ BatchInv
  BY DEF Inv
<1>2. /\ pc = "step" /\ imms # <<>> /\ frame = {} /\ pc' = "loop"
      /\ Accept(h) /\ readerPos' = FrameEnd(h) /\ nextSeq' = nextSeq + 1
      /\ IF h.kind = "image" THEN credits' = credits ELSE RecordCredit(FrameEnd(h), {})
      /\ imms' = Tail(imms)
      /\ UNCHANGED <<senderVars, netVars, safe, sentCredit, outVars, gpuVars,
                     batch, stream, deficit>>
  BY ReadFrameEffect
<1>3. /\ nextSeq < Placed /\ nextSeq \in 0 .. (seq - 1) /\ Legal(h)
      /\ h \in FrameSet /\ h.span \in Nat \ {0} /\ h.pos = readerPos /\ readerPos \in Nat
      /\ FrameEnd(h) = readerPos + h.span /\ FrameEnd(h) = P[nextSeq + 1]
      /\ h.kind = "image" => h.n > 0
  BY <1>2, HeaderFacts
<1>4. /\ seq \in Nat /\ nextSeq \in Nat /\ Placed \in Nat /\ Placed <= seq
  BY <1>1, Counters
<1>5. UNCHANGED <<wire, ring, credit, sq, since, recvCq, safe, sentCredit, gpu, ops, nextBatch,
                  pos, plan, seq, batch, stream>>
  BY <1>2 DEF netVars, sendVars, recvVars, gpuVars, outVars, senderVars
<1>6. Placed' = Placed
  BY <1>5 DEF Placed
<1>7. /\ k \in 1 .. Len(plan) /\ plan \in Plans
      /\ h.kind = "wrap" => K[nextSeq + 1] = k
      /\ h.kind # "wrap" => K[nextSeq + 1] = k + 1
  BY <1>1, <1>3, PostFacts DEF SenderInv
<1>8. /\ h.kind # "wrap" => h.kind = plan[k].kind /\ h.series = plan[k].series
      /\ Len(plan) \in Nat
      /\ plan[k].kind \in {"start", "image", "end"}
  <2>1. h.kind # "wrap" => h.kind = plan[k].kind /\ h.series = plan[k].series
    BY <1>4, <1>7, PostType
  <2>2. Len(plan) \in Nat /\ plan[k] \in Record
    BY <1>7, PlanRecords
  <2> QED BY <2>1, <2>2 DEF Record
<1> HIDE DEF k
<1>9. h = Posted(plan, P, K, (nextSeq + 1) - 1)
  BY <1>4
<1> HIDE DEF h
<1>10. readerPos < readerPos' /\ readerPos' \in Nat /\ readerPos' = P[nextSeq + 1]
  BY <1>2, <1>3
<1>11. WireInv(P, K)'
  BY <1>1, <1>2, <1>3, <1>4, <1>5, <1>6 DEF WireInv
<1>12. RingInv(P, K)'
  <2>1. \A q \in (nextSeq + 1) .. (Placed - 1) : q \in nextSeq .. (Placed - 1)
    BY <1>4
  <2> QED BY <1>1, <1>2, <1>5, <1>6, <2>1 DEF RingInv
<1>13. AnnounceInv'
  <2>1. imms \in Seq(Nat) /\ recvCq \in Seq(Nat) /\ Len(recvCq) \in Nat
    BY <1>1, LenProperties DEF AnnounceInv
  <2>2. /\ Len(imms) \in Nat \ {0} /\ imms' \in Seq(Nat) /\ Len(imms') = Len(imms) - 1
        /\ \A i \in 1 .. Len(imms') : imms'[i] = imms[i + 1]
    BY <1>2, <2>1, Queue
  <2>3. /\ Len(imms) + Len(recvCq) = Placed - nextSeq
        /\ \A i \in 1 .. Len(imms) : imms[i] = (nextSeq + i - 1) % ImmMod
        /\ \A i \in 1 .. Len(recvCq) : recvCq[i] = (nextSeq + Len(imms) + i - 1) % ImmMod
    BY <1>1, <1>2 DEF AnnounceInv
  <2>4. Len(imms') + Len(recvCq) = Placed - (nextSeq + 1)
    BY <2>1, <2>2, <2>3, <1>4
  <2>5. ASSUME NEW i \in 1 .. Len(imms')
        PROVE  imms'[i] = ((nextSeq + 1) + i - 1) % ImmMod
    <3>1. i + 1 \in 1 .. Len(imms) /\ nextSeq + (i + 1) - 1 = (nextSeq + 1) + i - 1
      BY <2>2, <1>4
    <3>2. imms[i + 1] = (nextSeq + (i + 1) - 1) % ImmMod
      BY <2>3, <3>1
    <3> QED BY <2>2, <3>1, <3>2
  <2>6. ASSUME NEW i \in 1 .. Len(recvCq)
        PROVE  recvCq[i] = ((nextSeq + 1) + Len(imms') + i - 1) % ImmMod
    <3>1. nextSeq + Len(imms) + i - 1 = (nextSeq + 1) + Len(imms') + i - 1
      BY <2>1, <2>2, <1>4
    <3> QED BY <2>3, <3>1
  <2> QED BY <1>2, <1>5, <1>6, <2>1, <2>2, <2>4, <2>5, <2>6 DEF AnnounceInv
<1>14. ReaderInv(P, K)'
  <2>1. /\ active \in [on : BOOLEAN, series : Nat, images : Nat]
        /\ active.on <=> k > 1 /\ plan[k - 1].kind # "end"
        /\ active.on => active.series = plan[k - 1].series
    BY <1>1, <1>2 DEF ReaderInv, k
  <2>2. h.series \in Nat /\ h.n \in Nat
    BY <1>3 DEF FrameSet
  <2>3. CASE h.kind = "wrap"
    <3>1. active' = active /\ K[nextSeq + 1] = k
      BY <1>2, <1>7, <2>3 DEF Accept
    <3> QED BY <1>2, <1>5, <1>10, <2>1, <3>1 DEF ReaderInv
  <2>4. CASE h.kind # "wrap"
    <3>0. (k + 1) - 1 = k /\ k + 1 > 1
      BY <1>7, <1>8
    <3>1. K[nextSeq + 1] = k + 1 /\ h.kind = plan[k].kind /\ h.series = plan[k].series
      BY <1>7, <1>8, <2>4
    <3>2. /\ active' \in [on : BOOLEAN, series : Nat, images : Nat]
          /\ active'.on <=> plan[k].kind # "end"
          /\ active'.on => active'.series = plan[k].series
      <4>1. CASE h.kind = "start"
        <5>1. active' = [on |-> TRUE, series |-> h.series, images |-> 0]
          BY <1>2, <4>1 DEF Accept
        <5> QED BY <5>1, <4>1, <3>1, <2>2
      <4>2. CASE h.kind = "end"
        <5>1. active' = [active EXCEPT !.on = FALSE]
          BY <1>2, <4>2 DEF Accept
        <5> QED BY <5>1, <4>2, <3>1, <2>1
      <4>3. CASE h.kind = "image"
        <5>1. active' = [active EXCEPT !.images = @ + h.n] /\ active.on /\ h.series = active.series
          BY <1>2, <1>3, <4>3 DEF Accept, Legal
        <5>2. active.images + h.n \in Nat
          BY <2>1, <2>2
        <5>3. active' \in [on : BOOLEAN, series : Nat, images : Nat]
          BY <5>1, <5>2, <2>1
        <5>4. active'.on /\ active'.series = h.series
          BY <5>1, <2>1
        <5> QED BY <5>3, <5>4, <4>3, <3>1
      <4> QED BY <4>1, <4>2, <4>3, <3>1, <1>8
    <3> QED BY <1>2, <1>5, <1>10, <3>0, <3>1, <3>2 DEF ReaderInv
  <2> QED BY <2>3, <2>4
<1>15. frame' = IF h.kind = "image" THEN {[rec |-> h, used |-> 0, last |-> {}]} ELSE {}
  BY <1>2 DEF Accept
<1>16. FrameInv(P, K)'
  <2>1. ASSUME NEW f \in frame'
        PROVE  /\ frame' = {f} /\ nextSeq + 1 > 0
               /\ f.rec = Posted(plan, P, K, (nextSeq + 1) - 1) /\ f.rec.kind = "image"
               /\ f.used \in 0 .. (f.rec.n - 1)
               /\ f.last \in SUBSET Events
               /\ f = [rec |-> f.rec, used |-> f.used, last |-> f.last]
    <3>1. h.kind = "image" /\ f = [rec |-> h, used |-> 0, last |-> {}] /\ frame' = {f}
      BY <1>15, <2>1
    <3>2. 0 \in 0 .. (h.n - 1)
      BY <3>1, <1>3 DEF FrameSet
    <3> QED BY <3>1, <3>2, <1>4, <1>9
  <2> QED BY <2>1, <1>2, <1>5 DEF FrameInv
<1>17. ComputeInv'
  BY <1>1, <1>2, <1>5 DEF ComputeInv
<1>18. /\ credits \in Seq(Credits) /\ Len(credits) \in Nat
       /\ \A i \in 1 .. Len(credits) : /\ credits[i].pos \in Nat /\ credits[i].pos <= readerPos
                                       /\ \E q \in 0 .. nextSeq : credits[i].pos = P[q]
       /\ \A i, j \in 1 .. Len(credits) : i < j => credits[i].pos < credits[j].pos
       /\ safe \in Nat /\ safe <= readerPos /\ \A i \in 1 .. Len(credits) : safe < credits[i].pos
  <2>1. credits \in Seq(Credits)
    BY <1>1 DEF CreditInv
  <2>2. ASSUME NEW i \in 1 .. Len(credits) PROVE credits[i].pos \in Nat
    <3>1. credits[i] \in Credits
      BY <2>1, ElementOfSeq
    <3> QED BY <3>1 DEF Credits
  <2> QED BY <2>1, <2>2, <1>1, LenProperties DEF CreditInv
<1>19. ASSUME h.kind # "image"
       PROVE  /\ credits' \in Seq(Credits) /\ Len(credits') = Len(credits) + 1
              /\ \A i \in 1 .. Len(credits) : credits'[i] = credits[i]
              /\ credits'[Len(credits) + 1].pos = readerPos'
  <2> DEFINE c == [pos |-> readerPos', after |-> {}]
  <2>1. credits' = Append(credits, c)
    BY <1>2, <1>19 DEF RecordCredit
  <2>2. c \in Credits /\ c.pos = readerPos'
    BY <1>10 DEF Credits
  <2> HIDE DEF c
  <2> QED BY <2>1, <2>2, <1>18, AppendProperties
<1>20. CreditInv(P)'
  <2>0. \A q \in 0 .. nextSeq : q \in 0 .. (nextSeq + 1)
    BY <1>4
  <2>1. safe <= readerPos'
    BY <1>10, <1>18, <1>3
  <2>2. CASE h.kind = "image"
    <3>1. credits' = credits
      BY <1>2, <2>2
    <3>2. \A f \in frame' : f.rec.pos = readerPos
      BY <1>3, <1>15, <2>2
    <3>3. \A i \in 1 .. Len(credits) : credits[i].pos <= readerPos'
      BY <1>18, <1>10, <1>3
    <3> QED BY <1>1, <1>2, <1>5, <1>10, <1>18, <2>0, <2>1, <3>1, <3>2, <3>3 DEF CreditInv
  <2>3. CASE h.kind # "image"
    <3>1. /\ credits' \in Seq(Credits) /\ Len(credits') = Len(credits) + 1
          /\ \A i \in 1 .. Len(credits) : credits'[i] = credits[i]
          /\ credits'[Len(credits) + 1].pos = readerPos'
      BY <1>19, <2>3
    <3>2. frame' = {}
      BY <1>15, <2>3
    <3>3. ASSUME NEW i \in 1 .. Len(credits')
          PROVE  /\ safe < credits'[i].pos /\ credits'[i].pos <= readerPos'
                 /\ \E q \in 0 .. (nextSeq + 1) : credits'[i].pos = P[q]
      <4>1. CASE i \in 1 .. Len(credits)
        BY <4>1, <3>1, <1>18, <1>10, <1>3, <2>0
      <4>2. CASE i = Len(credits) + 1
        <5>1. nextSeq + 1 \in 0 .. (nextSeq + 1)
          BY <1>4
        <5>2. safe < readerPos'
          BY <1>10, <1>18, <1>3
        <5> QED BY <5>1, <5>2, <4>2, <3>1, <1>10
      <4> QED BY <4>1, <4>2, <3>1, <1>18
    <3>4. ASSUME NEW i \in 1 .. Len(credits'), NEW j \in 1 .. Len(credits'), i < j
          PROVE  credits'[i].pos < credits'[j].pos
      <4>1. i \in 1 .. Len(credits)
        BY <3>1, <3>4, <1>18
      <4>2. CASE j \in 1 .. Len(credits)
        BY <4>1, <4>2, <3>1, <3>4, <1>18
      <4>3. CASE j = Len(credits) + 1
        <5>1. credits[i].pos < readerPos'
          BY <4>1, <1>18, <1>10, <1>3
        <5> QED BY <5>1, <4>1, <4>3, <3>1
      <4> QED BY <4>2, <4>3, <3>1, <1>18
    <3> QED BY <1>1, <1>2, <1>5, <2>1, <3>1, <3>2, <3>3, <3>4 DEF CreditInv
  <2> QED BY <2>2, <2>3
<1>21. ASSUME NEW q \in 0 .. ((nextSeq + 1) - 1), NEW g \in ReadsOf(gpu, P, q)
       PROVE  q \in 0 .. (nextSeq - 1)
  <2>1. q # nextSeq
    BY <1>21, NoReadsAhead
  <2> QED BY <2>1, <1>4
<1>22. GpuInv(P)'
  <2>1. \A q \in 0 .. (nextSeq - 1) : q \in 0 .. ((nextSeq + 1) - 1)
    BY <1>4
  <2> QED BY <1>1, <1>2, <1>5, <2>1 DEF GpuInv
<1>23. ChainInv(P)'
  BY <1>1, <1>2, <1>5, <1>21 DEF ChainInv
<1>24. CoverInv(P)'
  <2>1. ASSUME NEW q \in 0 .. ((nextSeq + 1) - 1), NEW g \in ReadsOf(gpu, P, q)
        PROVE  \E i \in 1 .. Len(credits') :
                 credits'[i].pos = P[q + 1] /\ Covers(gpu, P, q, credits'[i].after, g)
    <3>1. q \in 0 .. (nextSeq - 1)
      BY <1>21
    <3>2. PICK i \in 1 .. Len(credits) :
            credits[i].pos = P[q + 1] /\ Covers(gpu, P, q, credits[i].after, g)
      BY <1>1, <1>2, <3>1 DEF CoverInv
    <3>3. i \in 1 .. Len(credits') /\ credits'[i] = credits[i]
      <4>1. CASE h.kind = "image"
        BY <1>2, <4>1
      <4>2. CASE h.kind # "image"
        BY <1>18, <1>19, <4>2
      <4> QED BY <4>1, <4>2
    <3> QED BY <3>2, <3>3
  <2> QED BY <2>1, <1>2, <1>5 DEF CoverInv
<1>25. BatchInv'
  BY <1>1, <1>2, <1>5 DEF BatchInv
<1> QED
  BY <1>2, <1>11, <1>12, <1>13, <1>14, <1>16, <1>17, <1>20, <1>22, <1>23, <1>24, <1>25, Unchanged DEF Inv

-----------------------------------------------------------------------------
(* Polling.                                                                 *)

\* The queue pair hands over a prefix of the receive CQ.
LEMMA PolledFacts ==
  ASSUME NEW s \in Seq(Nat), NEW m \in Nat
  PROVE  LET a == SubSeq(s, 1, QP!Smaller(m, Len(s)))
             b == SubSeq(s, QP!Smaller(m, Len(s)) + 1, Len(s))
         IN  /\ a \in Seq(Nat) /\ b \in Seq(Nat) /\ Len(a) \in Nat /\ Len(b) \in Nat
             /\ Len(a) + Len(b) = Len(s)
             /\ \A i \in 1 .. Len(a) : i \in 1 .. Len(s) /\ a[i] = s[i]
             /\ \A i \in 1 .. Len(b) : Len(a) + i \in 1 .. Len(s) /\ b[i] = s[Len(a) + i]
<1> DEFINE k == QP!Smaller(m, Len(s))
           n == Len(s)
           a == SubSeq(s, 1, k)
           b == SubSeq(s, k + 1, n)
<1>1. n \in Nat /\ k \in Nat /\ k <= n
  BY LenProperties DEF QP!Smaller
<1>2. \A i \in 1 .. n : s[i] \in Nat
  BY ElementOfSeq
<1> HIDE DEF k, n
<1>3. /\ a \in Seq(Nat) /\ Len(a) = IF 1 <= k THEN k - 1 + 1 ELSE 0
      /\ \A i \in 1 .. k - 1 + 1 : a[i] = s[1 + i - 1]
  <2>1. \A i \in 1 .. k : s[i] \in Nat
    BY <1>1, <1>2
  <2>2. 1 \in Int /\ k \in Int
    BY <1>1
  <2> QED BY <2>1, <2>2, SubSeqProperties
<1>4. /\ b \in Seq(Nat) /\ Len(b) = IF k + 1 <= n THEN n - (k + 1) + 1 ELSE 0
      /\ \A i \in 1 .. n - (k + 1) + 1 : b[i] = s[(k + 1) + i - 1]
  <2>1. \A i \in (k + 1) .. n : s[i] \in Nat
    BY <1>1, <1>2
  <2>2. k + 1 \in Int /\ n \in Int
    BY <1>1
  <2> QED BY <2>1, <2>2, SubSeqProperties
<1> HIDE DEF a, b
<1>5. Len(a) = k /\ Len(b) = n - k
  BY <1>1, <1>3, <1>4
<1>6. ASSUME NEW i \in 1 .. Len(a)
      PROVE  i \in 1 .. n /\ a[i] = s[i]
  <2>1. i \in 1 .. k - 1 + 1 /\ 1 + i - 1 = i /\ i \in 1 .. n
    BY <1>1, <1>5
  <2> QED BY <2>1, <1>3
<1>7. ASSUME NEW i \in 1 .. Len(b)
      PROVE  Len(a) + i \in 1 .. n /\ b[i] = s[Len(a) + i]
  <2>1. i \in 1 .. n - (k + 1) + 1 /\ (k + 1) + i - 1 = k + i /\ k + i \in 1 .. n
    BY <1>1, <1>5
  <2> QED BY <2>1, <1>4, <1>5
<1>8. Len(a) + Len(b) = n /\ Len(a) \in Nat /\ Len(b) \in Nat
  BY <1>1, <1>5
<1> QED
  BY <1>3, <1>4, <1>6, <1>7, <1>8 DEF a, b, k, n

\* Announcements move from the queue to the operator, in order.
LEMMA PollStep ==
  ASSUME NEW P \in NatSeqs, NEW K \in NatSeqs, Inv(P, K), Poll
  PROVE  Inv(P, K)'
<1>1. AnnounceInv /\ ComputeInv /\ BatchInv /\ ReaderInv(P, K) /\ WireInv(P, K) /\ SenderInv(P, K)
  BY DEF Inv
<1>2. /\ pc \in {"poll", "step"} /\ Room > 0
      /\ recvCq' = QP!Unpolled(Room) /\ imms' = QP!Polled(Room)
      /\ pc' \in {"repost", "idle", "loop"} /\ (pc' = "idle" => batch = <<>>)
      /\ UNCHANGED <<sq, since>>
      /\ UNCHANGED <<senderVars, wire, ring, credit, creditVars, readerPos, nextSeq, active,
                     frame, outVars, gpuVars, batch, stream, deficit>>
  BY DEF Poll, QP!PollRecv, QP!PollSend, AfterEmptyPoll, NothingToRead
<1>3. imms = <<>>
  BY <1>1 DEF Poll, NothingToRead, ComputeInv
<1>4. UNCHANGED <<pos, credit, credits, safe, sentCredit, gpu, ops, nextBatch>>
  BY <1>2 DEF senderVars, creditVars, gpuVars, outVars
<1>5. Room \in Nat /\ recvCq \in Seq(Nat)
  <2>1. credits \in Seq(Credits)
    BY DEF Inv, CreditInv
  <2>2. Len(credits) \in Nat /\ MaxBatch \in Nat
    BY <2>1, LenProperties, Sizes
  <2>3. MaxBatch - Len(credits) \in Int
    BY <2>2
  <2> QED BY <1>1, <1>2, <2>3 DEF Room, AnnounceInv
<1>6. /\ imms' \in Seq(Nat) /\ recvCq' \in Seq(Nat) /\ Len(imms') \in Nat /\ Len(recvCq') \in Nat
      /\ Len(imms') + Len(recvCq') = Len(recvCq)
      /\ \A i \in 1 .. Len(imms') : i \in 1 .. Len(recvCq) /\ imms'[i] = recvCq[i]
      /\ \A i \in 1 .. Len(recvCq') : Len(imms') + i \in 1 .. Len(recvCq)
                                      /\ recvCq'[i] = recvCq[Len(imms') + i]
  <2> HIDE DEF Room
  <2>1. LET a == SubSeq(recvCq, 1, QP!Smaller(Room, Len(recvCq)))
            b == SubSeq(recvCq, QP!Smaller(Room, Len(recvCq)) + 1, Len(recvCq))
         IN  /\ a \in Seq(Nat) /\ b \in Seq(Nat) /\ Len(a) \in Nat /\ Len(b) \in Nat
             /\ Len(a) + Len(b) = Len(recvCq)
             /\ \A i \in 1 .. Len(a) : i \in 1 .. Len(recvCq) /\ a[i] = recvCq[i]
             /\ \A i \in 1 .. Len(b) : Len(a) + i \in 1 .. Len(recvCq) /\ b[i] = recvCq[Len(a) + i]
    BY <1>5, PolledFacts
  <2> QED BY <1>2, <2>1 DEF QP!Polled, QP!Unpolled
<1>7. /\ nextSeq \in Nat /\ Placed \in Nat /\ pc # "stopped" /\ Len(recvCq) \in Nat
      /\ Len(imms) = 0
  <2>1. nextSeq \in Nat /\ Placed \in Nat
    BY <1>1, Counters
  <2> QED BY <1>2, <1>3, <1>5, <2>1, LenProperties
<1>8. /\ Len(recvCq) = Placed - nextSeq
      /\ \A i \in 1 .. Len(recvCq) : recvCq[i] = (nextSeq + i - 1) % ImmMod
  <2>1. /\ Len(imms) + Len(recvCq) = Placed - nextSeq
        /\ \A i \in 1 .. Len(recvCq) : recvCq[i] = (nextSeq + Len(imms) + i - 1) % ImmMod
    BY <1>1, <1>7 DEF AnnounceInv
  <2>2. Len(recvCq) = Placed - nextSeq
    BY <1>7, <2>1
  <2>3. ASSUME NEW i \in 1 .. Len(recvCq)
        PROVE  recvCq[i] = (nextSeq + i - 1) % ImmMod
    <3>1. nextSeq + Len(imms) + i - 1 = nextSeq + i - 1
      BY <1>7
    <3> QED BY <2>1, <3>1
  <2> QED BY <2>2, <2>3
<1>9. Placed' = Placed /\ nextSeq' = nextSeq
  BY <1>2 DEF Placed, senderVars
<1>10. AnnounceInv'
  <2>1. ASSUME NEW i \in 1 .. Len(recvCq')
        PROVE  recvCq'[i] = (nextSeq + Len(imms') + i - 1) % ImmMod
    <3>1. recvCq'[i] = recvCq[Len(imms') + i] /\ Len(imms') + i \in 1 .. Len(recvCq)
      BY <1>6
    <3>2. recvCq[Len(imms') + i] = (nextSeq + (Len(imms') + i) - 1) % ImmMod
      BY <3>1, <1>8
    <3>3. nextSeq + (Len(imms') + i) - 1 = nextSeq + Len(imms') + i - 1
      BY <1>6, <1>7
    <3> QED BY <3>1, <3>2, <3>3
  <2>2. \A i \in 1 .. Len(imms') : imms'[i] = (nextSeq + i - 1) % ImmMod
    BY <1>6, <1>8
  <2>3. Len(imms') + Len(recvCq') = Placed - nextSeq
    BY <1>6, <1>8
  <2> QED BY <1>6, <1>9, <2>1, <2>2, <2>3 DEF AnnounceInv
<1>11. ComputeInv'
  BY <1>1, <1>2 DEF ComputeInv
<1>12. BatchInv'
  BY <1>1, <1>2, <1>4 DEF BatchInv
<1>13. ReaderInv(P, K)'
  BY <1>1, <1>2, <1>7 DEF ReaderInv, senderVars
<1> QED
  BY <1>2, <1>4, <1>10, <1>11, <1>12, <1>13, Unchanged DEF Inv

-----------------------------------------------------------------------------
(* The steps that move nothing but the place in compute, the batch and the  *)
(* counters around them.                                                    *)

\* Such a step keeps everything that does not depend on them.
LEMMA QuietStep ==
  ASSUME NEW P, NEW K, Inv(P, K), pc # "stopped", ComputeInv', BatchInv',
         UNCHANGED <<senderVars, wire, ring, credit, sq, since, recvCq, creditVars, readVars, gpuVars>>
  PROVE  Inv(P, K)'
<1>1. UNCHANGED <<nextSeq, imms, readerPos, active, frame, credits, safe, sentCredit, gpu, ops, pos>>
  BY DEF senderVars, creditVars, readVars, gpuVars
<1> QED
  BY <1>1, Unchanged DEF Inv

\* The start of an activation and of an iteration.
LEMMA ActivateStep ==
  ASSUME NEW P \in NatSeqs, NEW K \in NatSeqs, Inv(P, K), Activate \/ Iterate
  PROVE  Inv(P, K)'
<1>1. /\ ServiceCredits
      /\ \/ pc = "idle" /\ pc' = "admit"
         \/ pc = "loop" /\ pc' = "step"
      /\ UNCHANGED <<senderVars, wire, ring, credit, recvVars, readVars, outVars, gpuVars,
                     batch, stream, control, deficit>>
  <2>1. CASE Activate
    BY <2>1 DEF Activate
  <2>2. CASE Iterate
    BY <2>2 DEF Iterate
  <2> QED BY <2>1, <2>2
<1>2. UNCHANGED <<pos, nextSeq, imms, readerPos, active, frame, recvCq, gpu, ops, nextBatch>>
  BY <1>1 DEF senderVars, readVars, recvVars, gpuVars, outVars
<1>3. CreditInv(P)' /\ GpuInv(P)' /\ CoverInv(P)'
  BY <1>1, <1>2, ServiceStep
<1>4. ComputeInv' /\ BatchInv'
  BY <1>1, <1>2 DEF Inv, ComputeInv, BatchInv
<1> QED
  BY <1>1, <1>2, <1>3, <1>4, Unchanged DEF Inv

\* Entering, leaving and going round the loop, and posting RECEIVEs.
LEMMA LoopStep ==
  ASSUME NEW P, NEW K, Inv(P, K),
         WaitForWindow \/ EnterLoop \/ BreakForControl \/ PollNoRoom \/ RepostDeficit \/ RepostConsumed
  PROVE  Inv(P, K)'
<1>1. ComputeInv /\ BatchInv
  BY DEF Inv
<1>2. CASE WaitForWindow \/ BreakForControl \/ PollNoRoom
  <2>1. /\ pc \in {"admit", "step", "poll"} /\ pc' \in {"idle", "emit", "loop"}
        /\ (pc' = "idle" => batch = <<>>) /\ (pc' = "loop" => pc \in {"step", "poll"})
        /\ UNCHANGED <<senderVars, netVars, creditVars, readVars, outVars, gpuVars, batch, stream>>
    BY <1>1, <1>2 DEF WaitForWindow, BreakForControl, PollNoRoom, AfterEmptyPoll, NothingToRead, ComputeInv
  <2>2. UNCHANGED <<wire, ring, credit, sq, since, recvCq, imms, nextBatch, gpu>>
    BY <2>1 DEF netVars, sendVars, recvVars, readVars, outVars, gpuVars
  <2>3. ComputeInv' /\ BatchInv'
    BY <1>1, <2>1, <2>2 DEF ComputeInv, BatchInv
  <2> QED BY <2>1, <2>2, <2>3, QuietStep
<1>3. CASE EnterLoop
  <2>1. /\ pc = "admit" /\ pc' = "loop" /\ batch' = <<>> /\ stream' \in Streams
        /\ UNCHANGED <<senderVars, netVars, creditVars, readVars, outVars, gpuVars>>
    BY <1>3 DEF EnterLoop
  <2>2. UNCHANGED <<wire, ring, credit, sq, since, recvCq, imms, nextBatch, gpu>>
    BY <2>1 DEF netVars, sendVars, recvVars, readVars, outVars, gpuVars
  <2>3. Len(batch') < BatchSize
    BY <2>1, Sizes
  <2>4. ComputeInv' /\ BatchInv'
    BY <1>1, <2>1, <2>2, <2>3 DEF ComputeInv, BatchInv
  <2> QED BY <2>1, <2>2, <2>4, QuietStep
<1>4. CASE RepostDeficit \/ RepostConsumed
  <2>1. /\ \/ pc = "step" /\ imms = <<>> /\ pc' \in {"poll", "starved"}
           \/ pc = "repost" /\ pc' \in {"loop", "starved"}
        /\ UNCHANGED <<senderVars, wire, ring, credit, sendVars, creditVars, readVars, outVars,
                       gpuVars, batch, stream, control>>
        /\ UNCHANGED recvCq
    <3>1. ASSUME NEW consumed, NEW onward, Repost(consumed, onward)
          PROVE  /\ pc' \in {onward, "starved"} /\ UNCHANGED recvCq
                 /\ UNCHANGED <<senderVars, wire, ring, credit, sendVars, creditVars, readVars, outVars,
                                gpuVars, batch, stream, control>>
      <4>1. pc' \in {onward, "starved"}
        BY <3>1 DEF Repost
      <4>2. UNCHANGED recvCq
        BY <3>1 DEF Repost, QP!PostRecvs
      <4> QED BY <4>1, <4>2, <3>1 DEF Repost
    <3>2. CASE RepostDeficit
      <4>1. pc = "step" /\ imms = <<>> /\ Repost(0, "poll")
        BY <3>2 DEF RepostDeficit, NothingToRead
      <4> QED BY <4>1, <3>1
    <3>3. CASE RepostConsumed
      <4>1. pc = "repost" /\ Repost(Len(imms), "loop")
        BY <3>3 DEF RepostConsumed
      <4> QED BY <4>1, <3>1
    <3> QED BY <1>4, <3>2, <3>3
  <2>2. UNCHANGED <<sq, since, imms, nextBatch, gpu>>
    BY <2>1 DEF sendVars, readVars, outVars, gpuVars
  <2>3. ComputeInv' /\ BatchInv'
    BY <1>1, <2>1, <2>2 DEF ComputeInv, BatchInv
  <2>4. pc # "stopped"
    BY <2>1
  <2> QED BY <2>1, <2>2, <2>3, <2>4, QuietStep
<1> QED
  BY <1>2, <1>3, <1>4

\* Publishing a batch or a control message, and abandoning a batch: what is pending then
\* belongs to batches that were published.
LEMMA EmitStep ==
  ASSUME NEW P, NEW K, Inv(P, K), EmitPending \/ EmitControlAtOnce \/ EmitBatch \/ Abandon
  PROVE  Inv(P, K)'
<1>1. ComputeInv /\ BatchInv
  BY DEF Inv
<1>2. /\ pc \in {"admit", "emit", "loop"} /\ pc' = "idle" /\ batch' = <<>>
      /\ \/ nextBatch' = nextBatch + 1
         \/ nextBatch' = nextBatch /\ (batch = <<>> \/ \A g \in gpu : g.st # stream)
      /\ UNCHANGED <<senderVars, netVars, creditVars, readVars, gpuVars, stream>>
  <2>1. CASE EmitPending \/ EmitControlAtOnce
    BY <1>1, <2>1 DEF EmitPending, EmitControlAtOnce, EmitControl, ComputeInv
  <2>2. CASE EmitBatch
    BY <2>2 DEF EmitBatch
  <2>3. CASE Abandon
    BY <2>3 DEF Abandon, StreamDrained, outVars
  <2> QED BY <2>1, <2>2, <2>3
<1>3. UNCHANGED <<wire, ring, credit, sq, since, recvCq, imms, gpu>>
  BY <1>2 DEF netVars, sendVars, recvVars, readVars, gpuVars
<1>4. ComputeInv'
  BY <1>1, <1>2, <1>3 DEF ComputeInv
<1>5. BatchInv'
  <2>1. ASSUME NEW g \in gpu PROVE g.to <= nextBatch'
    <3>1. g.to \in Nat /\ nextBatch \in Nat
      BY <1>1 DEF Inv, GpuInv, BatchInv
    <3>2. \/ g.to <= nextBatch
          \/ g.to = nextBatch + 1 /\ batch # <<>> /\ g.st = stream
      BY <1>1, <3>1 DEF BatchInv
    <3>3. CASE nextBatch' = nextBatch + 1
      BY <3>1, <3>2, <3>3
    <3>4. CASE nextBatch' = nextBatch /\ (batch = <<>> \/ \A h \in gpu : h.st # stream)
      BY <3>2, <3>4
    <3> QED BY <3>3, <3>4, <1>2
  <2>2. nextBatch' \in Nat
    BY <1>1, <1>2 DEF BatchInv
  <2> QED BY <1>2, <1>3, <2>1, <2>2 DEF BatchInv
<1> QED
  BY <1>2, <1>3, <1>4, <1>5, QuietStep

\* Stopping clears what the operator holds, with no read pending.
LEMMA StopStep ==
  ASSUME NEW P, NEW K, Inv(P, K), StopOperator
  PROVE  Inv(P, K)'
<1>1. /\ AnnounceInv /\ ComputeInv /\ CreditInv(P) /\ GpuInv(P) /\ BatchInv /\ ReaderInv(P, K)
  BY DEF Inv
<1>2. /\ pc = "idle" /\ gpu = {} /\ pc' = "stopped" /\ imms' = <<>> /\ credits' = <<>> /\ frame' = {}
      /\ active' = [active EXCEPT !.on = FALSE]
      /\ UNCHANGED <<senderVars, netVars, safe, sentCredit, readerPos, nextSeq, outVars, gpuVars,
                     batch, stream>>
  BY DEF StopOperator, DeviceDrained
<1>3. UNCHANGED <<wire, ring, credit, sq, since, recvCq, nextBatch, gpu, ops, pos>>
  BY <1>2 DEF senderVars, netVars, sendVars, recvVars, outVars, gpuVars
<1>4. AnnounceInv'
  <2>1. <<>> \in Seq(Nat)
    BY EmptySeq
  <2> QED BY <1>1, <1>2, <1>3, <2>1 DEF AnnounceInv
<1>5. ReaderInv(P, K)'
  <2>1. active' \in [on : BOOLEAN, series : Nat, images : Nat]
    BY <1>1, <1>2 DEF ReaderInv
  <2> QED BY <1>1, <1>2, <2>1 DEF ReaderInv
<1>6. FrameInv(P, K)'
  BY <1>2 DEF FrameInv
<1>7. ComputeInv'
  BY <1>1, <1>2 DEF ComputeInv
<1>8. CreditInv(P)'
  <2>1. credits' \in Seq(Credits) /\ Len(credits') = 0
    BY <1>2, EmptySeq
  <2>2. 1 .. Len(credits') = {}
    BY <2>1
  <2> QED BY <1>1, <1>2, <1>3, <2>1, <2>2 DEF CreditInv
<1>9. CoverInv(P)'
  BY <1>2, <1>3 DEF CoverInv, ReadsOf
<1>10. BatchInv'
  BY <1>1, <1>2, <1>3 DEF BatchInv
<1> QED
  BY <1>2, <1>3, <1>4, <1>5, <1>6, <1>7, <1>8, <1>9, <1>10, Unchanged DEF Inv

\* A stop request, a release downstream, and stuttering.
LEMMA AsideStep ==
  ASSUME NEW P, NEW K, Inv(P, K), RequestStop \/ Release \/ UNCHANGED vars
  PROVE  Inv(P, K)'
<1>1. UNCHANGED <<senderVars, netVars, creditVars, readVars, nextBatch, gpu, ops, computeVars>>
  BY DEF RequestStop, Release, vars, outVars, gpuVars
<1>2. UNCHANGED <<wire, ring, credit, sq, since, recvCq, credits, safe, sentCredit, readerPos,
                  nextSeq, imms, active, frame, pc, batch, stream, pos>>
  BY <1>1 DEF senderVars, netVars, sendVars, recvVars, creditVars, readVars, computeVars
<1> QED
  BY <1>1, <1>2, Unchanged DEF Inv

-----------------------------------------------------------------------------
(* The invariant is inductive.                                              *)

\* Initially the sender stands at position 0 before the first record.
LEMMA InitInvariant ==
  ASSUME Init
  PROVE  RingInvariant
<1> DEFINE P == [q \in Nat |-> 0]
           K == [q \in Nat |-> 1]
<1>1. P \in NatSeqs /\ K \in NatSeqs /\ P[0] = 0 /\ K[0] = 1
  BY DEF NatSeqs
<1> HIDE DEF P, K
<1>2. /\ plan \in Plans /\ next = 1 /\ pos = 0 /\ seq = 0 /\ credit = 0 /\ wire = <<>>
      /\ ring = [c \in 0 .. (RingLen - 1) |-> NoFrame] /\ sq = <<>> /\ since = 0 /\ recvCq = <<>>
      /\ pc = "idle" /\ batch = <<>> /\ stream \in Streams /\ nextBatch = 0
      /\ active = [on |-> FALSE, series |-> 0, images |-> 0]
      /\ frame = {} /\ readerPos = 0 /\ nextSeq = 0 /\ imms = <<>>
      /\ credits = <<>> /\ safe = 0 /\ sentCredit = 0 /\ gpu = {} /\ ops = 0
  BY DEF Init
<1>3. Placed = 0
  <2>1. seq = 0 /\ Len(wire) = 0
    BY <1>2
  <2> QED BY <2>1 DEF Placed
<1>4. SenderInv(P, K)
  <2>1. Len(plan) \in Nat
    BY <1>2, PlanRecords
  <2>2. 0 .. (seq - 1) = {} /\ \A q \in 0 .. seq : q = 0
    BY <1>2
  <2>3. 1 \in 1 .. Len(plan) + 1
    BY <2>1
  <2> QED BY <1>1, <1>2, <2>2, <2>3 DEF SenderInv
<1>5. WireInv(P, K) /\ AnnounceInv
  BY <1>2, <1>3, EmptySeq DEF WireInv, AnnounceInv
<1>6. RingInv(P, K)
  BY <1>2, <1>3 DEF RingInv
<1>7. ReaderInv(P, K)
  BY <1>1, <1>2 DEF ReaderInv
<1>8. FrameInv(P, K) /\ ComputeInv
  BY <1>2, EmptySeq DEF FrameInv, ComputeInv
<1>9. CreditInv(P)
  BY <1>2, EmptySeq, Sizes DEF CreditInv
<1>10. GpuInv(P) /\ ChainInv(P) /\ CoverInv(P) /\ BatchInv
  BY <1>2 DEF GpuInv, ChainInv, CoverInv, BatchInv, ReadsOf
<1>11. Inv(P, K)
  BY <1>4, <1>5, <1>6, <1>7, <1>8, <1>9, <1>10 DEF Inv
<1> QED
  BY <1>1, <1>11 DEF RingInvariant

\* Every step but a send keeps the invariant.
LEMMA OtherStep ==
  ASSUME NEW P \in NatSeqs, NEW K \in NatSeqs, Inv(P, K), [Next]_vars, ~Send
  PROVE  Inv(P, K)'
<1>1. CASE PlaceFrame
  BY <1>1, PlaceFrameStep
<1>2. CASE PlaceCredit
  BY <1>2, PlaceCreditStep
<1>3. CASE Gpu
  BY <1>3, GpuReadStep DEF Gpu
<1>4. CASE Compute
  <2>1. CASE Activate \/ Iterate
    BY <2>1, ActivateStep
  <2>2. CASE WaitForWindow \/ EnterLoop \/ BreakForControl \/ PollNoRoom \/ RepostDeficit \/ RepostConsumed
    BY <2>2, LoopStep
  <2>3. CASE EmitPending \/ EmitControlAtOnce \/ EmitBatch \/ Abandon
    BY <2>3, EmitStep
  <2>4. CASE Gather
    BY <2>4, GatherStep
  <2>5. CASE ReadFrame
    BY <2>5, ReadFrameStep
  <2>6. CASE Poll
    BY <2>6, PollStep
  <2>7. CASE StopOperator
    BY <2>7, StopStep
  <2> QED BY <1>4, <2>1, <2>2, <2>3, <2>4, <2>5, <2>6, <2>7 DEF Compute
<1>5. CASE RequestStop \/ Release \/ UNCHANGED vars
  BY <1>5, AsideStep
<1> QED
  BY <1>1, <1>2, <1>3, <1>4, <1>5 DEF Next

\* Every step keeps the invariant, a send with functions that have grown by a post.
LEMMA InvariantStep ==
  ASSUME RingInvariant, [Next]_vars
  PROVE  RingInvariant'
<1>1. PICK P \in NatSeqs, K \in NatSeqs : Inv(P, K)
  BY DEF RingInvariant
<1>2. CASE Send
  <2>1. PICK PP \in NatSeqs, KK \in NatSeqs : Inv(PP, KK)'
    BY <1>1, <1>2, SendStep
  <2> QED BY <2>1 DEF RingInvariant
<1>3. CASE ~Send
  <2>1. Inv(P, K)'
    BY <1>1, <1>3, OtherStep
  <2> QED BY <2>1 DEF RingInvariant
<1> QED
  BY <1>2, <1>3

-----------------------------------------------------------------------------
(* What the invariant implies.                                              *)

\* The invariant orders the positions.
LEMMA InvariantImpliesChain ==
  ASSUME RingInvariant
  PROVE  CreditChain
<1>1. PICK P \in NatSeqs, K \in NatSeqs : Inv(P, K)
  BY DEF RingInvariant
<1>2. SenderInv(P, K) /\ WireInv(P, K) /\ CreditInv(P) /\ ReaderInv(P, K)
  BY <1>1 DEF Inv
<1>3. readerPos <= pos
  <2>1. /\ nextSeq \in Nat /\ seq \in Nat /\ Placed \in Nat /\ nextSeq <= Placed /\ Placed <= seq
    BY <1>2, Counters
  <2>2. nextSeq <= seq /\ seq <= seq
    BY <2>1
  <2>3. P[nextSeq] <= P[seq]
    BY <1>2, <2>1, <2>2, Order
  <2> QED BY <2>3, <1>2 DEF ReaderInv, SenderInv
<1>4. \A c \in Range(credits) : safe < c.pos /\ c.pos <= readerPos
  <2>1. DOMAIN credits = 1 .. Len(credits)
    BY <1>2, LenProperties DEF CreditInv
  <2> QED BY <2>1, <1>2 DEF CreditInv, Range
<1> QED
  BY <1>2, <1>3, <1>4 DEF CreditChain, CreditInv

\* What the receiver and the GPU still have to read lies between `safe` and the first
\* post that is still on the wire.
LEMMA UnreadBounds ==
  ASSUME NEW P \in NatSeqs, NEW K \in NatSeqs, Inv(P, K), NEW u \in Unread
  PROVE  /\ u[1] \in Nat /\ u[2] \in Nat
         /\ safe <= u[1] /\ u[2] <= P[Placed]
<1>1. /\ SenderInv(P, K) /\ WireInv(P, K) /\ RingInv(P, K) /\ ReaderInv(P, K) /\ CreditInv(P)
      /\ GpuInv(P)
  BY DEF Inv
<1>2. /\ nextSeq \in Nat /\ seq \in Nat /\ Placed \in Nat /\ nextSeq <= Placed /\ Placed <= seq
  BY <1>1, Counters
<1>3. /\ readerPos = P[nextSeq] /\ readerPos \in Nat /\ P[Placed] \in Nat
      /\ safe \in Nat /\ safe <= readerPos
  BY <1>1, <1>2, NatSeqsNat DEF ReaderInv, CreditInv
<1>4. ASSUME NEW q \in Nat, q <= Placed
      PROVE  P[q] \in Nat /\ P[q] <= P[Placed]
  BY <1>1, <1>2, <1>4, Order
<1>5. CASE u \in {<<g.lo, g.hi>> : g \in gpu}
  <2>1. PICK g \in gpu : u = <<g.lo, g.hi>>
    BY <1>5
  <2>2. PICK q \in 0 .. (nextSeq - 1) : g \in ReadsOf(gpu, P, q)
    BY <1>1 DEF GpuInv
  <2>3. g.lo \in Nat /\ g.hi \in Nat /\ safe <= g.lo /\ g.hi <= P[q + 1]
    BY <1>1, <2>2 DEF GpuInv, ReadsOf
  <2>4. q + 1 \in Nat /\ q + 1 <= Placed
    BY <1>2
  <2>5. P[q + 1] \in Nat /\ P[q + 1] <= P[Placed]
    BY <1>4, <2>4
  <2>6. g.hi <= P[Placed]
    BY <2>3, <2>5, <1>3
  <2> QED BY <2>1, <2>3, <2>6
<1>6. CASE u \in {<<f.rec.pos + 1 + f.used * ImageCells, f.rec.pos + f.rec.span>> : f \in frame}
  <2>1. PICK f \in frame : u = <<f.rec.pos + 1 + f.used * ImageCells, f.rec.pos + f.rec.span>>
    BY <1>6
  <2>2. f.rec.pos \in Nat /\ f.used \in Nat /\ readerPos = f.rec.pos + f.rec.span
    BY FrameFacts
  <2>3. safe <= f.rec.pos
    BY <1>1 DEF CreditInv
  <2>4. f.used * ImageCells \in Nat
    BY <2>2, Sizes
  <2>5. f.rec.pos + 1 + f.used * ImageCells \in Nat /\ safe <= f.rec.pos + 1 + f.used * ImageCells
    BY <2>2, <2>3, <2>4, <1>3
  <2>6. readerPos <= P[Placed]
    BY <1>2, <1>3, <1>4
  <2> QED BY <2>1, <2>2, <2>5, <2>6, <1>3
<1>7. CASE u \in {<<f.pos, f.pos + (IF f.kind = "wrap" THEN 1 ELSE f.span)>> : f \in UnreadFrames}
  <2>1. PICK f \in UnreadFrames : u = <<f.pos, Reach(f)>>
    BY <1>7 DEF Reach
  <2>2. f.kind # "none" /\ f.seq >= nextSeq /\ \E c \in DOMAIN ring : f = ring[c]
    BY DEF UnreadFrames
  <2>3. f # NoFrame
    BY <2>2 DEF NoFrame
  <2>4. PICK q \in 0 .. (Placed - 1) : f = Posted(plan, P, K, q)
    BY <1>1, <2>2, <2>3 DEF RingInv
  <2>5. q \in Nat /\ q < seq /\ q + 1 \in Nat /\ q + 1 <= Placed /\ q \in 0 .. (seq - 1)
    BY <1>2
  <2>6. f.seq = q
    <3>1. K[q] \in 1 .. Len(plan) /\ plan \in Plans
      BY <1>1, <2>5, PostFacts DEF SenderInv
    <3> QED BY <2>4, <2>5, <3>1, PostType
  <2>7. nextSeq <= q
    BY <2>2, <2>5, <2>6, <1>2
  <2>8. f.pos = P[q] /\ readerPos <= P[q] /\ Reach(f) <= P[q + 1] /\ Reach(f) \in Nat
    BY <1>1, <2>4, <2>5, <2>7, PostedReach
  <2>9. P[q] \in Nat /\ P[q + 1] \in Nat /\ P[q + 1] <= P[Placed]
    BY <1>4, <2>5, NatSeqsNat
  <2>10. safe <= P[q] /\ Reach(f) <= P[Placed]
    BY <2>8, <2>9, <1>3
  <2> QED BY <2>1, <2>8, <2>9, <2>10
<1> QED
  BY <1>5, <1>6, <1>7 DEF Unread

\* Posts on the wire end at most a ring beyond `safe`, and nothing before `safe` is unread.
LEMMA InvariantImpliesNoOverwrite ==
  ASSUME RingInvariant
  PROVE  NoOverwrite
<1>1. PICK P \in NatSeqs, K \in NatSeqs : Inv(P, K)
  BY DEF RingInvariant
<1>2. SenderInv(P, K) /\ WireInv(P, K) /\ ReaderInv(P, K) /\ CreditInv(P)
  BY <1>1 DEF Inv
<1>3. /\ nextSeq \in Nat /\ seq \in Nat /\ Placed \in Nat /\ nextSeq <= Placed /\ Placed <= seq
      /\ Len(wire) \in Nat /\ Placed = seq - Len(wire)
  BY <1>2, Counters
<1> SUFFICES ASSUME NEW w \in Range(wire), NEW u \in Unread
             PROVE  Cells(w) \cap CellsOf(u[1], u[2]) = {}
  BY DEF NoOverwrite
<1>4. PICK i \in 1 .. Len(wire) : w = wire[i]
  <2>1. DOMAIN wire = 1 .. Len(wire)
    BY <1>2, LenProperties DEF WireInv
  <2> QED BY <2>1 DEF Range
<1> DEFINE j == Placed + i - 1
<1>5. j \in Nat /\ Placed <= j /\ j < seq /\ nextSeq <= j
  BY <1>3
<1>6. w = Posted(plan, P, K, j)
  BY <1>2, <1>4 DEF WireInv
<1> HIDE DEF j
<1>7. /\ w.pos = P[j] /\ Reach(w) \in Nat /\ Reach(w) <= safe + RingLen
  BY <1>2, <1>5, <1>6, PostedReach
<1>8. P[Placed] \in Nat /\ P[j] \in Nat /\ P[Placed] <= P[j]
  <2>1. j <= seq
    BY <1>3, <1>5
  <2> QED BY <2>1, <1>2, <1>3, <1>5, Order
<1>9. u[1] \in Nat /\ u[2] \in Nat /\ safe <= u[1] /\ u[2] <= P[Placed]
  BY <1>1, UnreadBounds
<1>10. u[2] <= P[j] /\ Reach(w) <= u[1] + RingLen
  <2>1. safe \in Nat /\ RingLen \in Nat
    BY <1>2, Sizes DEF CreditInv
  <2> QED BY <2>1, <1>7, <1>8, <1>9
<1>11. CellsOf(P[j], Reach(w)) \cap CellsOf(u[1], u[2]) = {}
  BY <1>7, <1>8, <1>9, <1>10, Apart
<1> QED
  BY <1>7, <1>11 DEF Cells, Reach

-----------------------------------------------------------------------------
(* FlattenSeq of a prefix, and what a longer prefix adds to it.             *)

\* f[i] is what the first i of n sequences make one behind the other.
Joins(ss, n, f) ==
  f = [i \in 1 .. n |-> IF i = 1 THEN ss[i] ELSE f[i - 1] \o ss[i]]

\* The function in the definition of FlattenSeq.
LEMMA FlattenIsJoined ==
  ASSUME NEW ss, Len(ss) # 0
  PROVE  FlattenSeq(ss) = (CHOOSE f : Joins(ss, Len(ss), f))[Len(ss)]
  BY DEF FlattenSeq, Joins

\* There is such a function, and its values are sequences.
LEMMA JoinsExists ==
  ASSUME NEW S, NEW m \in Nat, NEW ss \in [1 .. m -> Seq(S)]
  PROVE  \A n \in 0 .. m : \E f \in [1 .. n -> Seq(S)] : Joins(ss, n, f)
<1> DEFINE Bad == {n \in 0 .. m : ~ \E f \in [1 .. n -> Seq(S)] : Joins(ss, n, f)}
<1> SUFFICES ASSUME Bad # {} PROVE FALSE
  OBVIOUS
<1>1. PICK n \in Bad : \A k \in Bad : n <= k
  <2>1. Bad \in SUBSET Nat
    OBVIOUS
  <2> HIDE DEF Bad
  <2> QED BY <2>1, LeastExists
<1>2. n \in 0 .. m /\ n \in Nat
  OBVIOUS
<1>3. CASE n = 0
  <2> DEFINE e == [i \in 1 .. 0 |-> IF i = 1 THEN ss[i] ELSE <<>>]
  <2>1. e \in [1 .. 0 -> Seq(S)] 
    OBVIOUS
  <2>2. Joins(ss, 0, e)
    BY DEF Joins
  <2> QED BY <2>1, <2>2, <1>3
<1>4. CASE n # 0
  <2>1. n - 1 \in 0 .. m /\ n - 1 \notin Bad /\ n \in 1 .. m
    <3>1. n - 1 \in 0 .. m /\ n \in 1 .. m /\ ~(n <= n - 1)
      BY <1>2, <1>4
    <3> HIDE DEF Bad
    <3> QED BY <3>1, <1>1
  <2>2. PICK f \in [1 .. (n - 1) -> Seq(S)] : Joins(ss, n - 1, f)
    BY <2>1
  <2>3. \A i \in 1 .. (n - 1) : f[i] = IF i = 1 THEN ss[i] ELSE f[i - 1] \o ss[i]
    BY <2>2 DEF Joins
  <2> DEFINE last == IF n = 1 THEN ss[n] ELSE f[n - 1] \o ss[n]
             g == [i \in 1 .. n |-> IF i = n THEN last ELSE f[i]]
  <2>4. last \in Seq(S)
    <3>1. ss[n] \in Seq(S)
      BY <2>1
    <3>2. CASE n = 1
      BY <3>1, <3>2
    <3>3. CASE n # 1
      <4>1. f[n - 1] \in Seq(S)
        BY <2>2, <3>3, <2>1
      <4> QED BY <3>1, <3>3, <4>1, ConcatProperties
    <3> QED BY <3>2, <3>3
  <2> HIDE DEF last
  <2>5. g \in [1 .. n -> Seq(S)]
    BY <2>2, <2>4, <1>2
  <2>6. \A i \in 1 .. n : g[i] = IF i = 1 THEN ss[i] ELSE g[i - 1] \o ss[i]
    <3> SUFFICES ASSUME NEW i \in 1 .. n
                 PROVE  g[i] = IF i = 1 THEN ss[i] ELSE g[i - 1] \o ss[i]
      OBVIOUS
    <3>1. CASE i = n
      <4>1. g[i] = last
        BY <3>1
      <4>2. i # 1 => i - 1 \in 1 .. n /\ i - 1 # n
        BY <3>1, <1>2
      <4>3. i # 1 => g[i - 1] = f[n - 1]
        BY <4>2, <3>1
      <4> HIDE DEF g
      <4> QED BY <4>1, <4>3, <3>1 DEF last
    <3>2. CASE i # n
      <4>1. i \in 1 .. (n - 1) /\ g[i] = f[i]
        BY <3>2, <1>2
      <4>2. i # 1 => i - 1 \in 1 .. n /\ i - 1 # n
        BY <4>1, <1>2
      <4>3. i # 1 => g[i - 1] = f[i - 1]
        BY <4>2
      <4> HIDE DEF g
      <4> QED BY <4>1, <4>3, <2>3
    <3> QED BY <3>1, <3>2
  <2>7. g = [i \in 1 .. n |-> g[i]]
    OBVIOUS
  <2>8. Joins(ss, n, g)
    <3> HIDE DEF g
    <3> QED BY <2>6, <2>7 DEF Joins
  <2> QED BY <2>5, <2>8
<1> QED
  BY <1>3, <1>4

\* Equal up to n.
Agree(ss, tt, n) == \A i \in 1 .. n : ss[i] = tt[i]

\* Two such functions agree where both are defined.
LEMMA JoinsAgree ==
  ASSUME NEW n \in Nat, NEW m \in Nat, n <= m, NEW ss, NEW tt, Agree(ss, tt, n),
         NEW f, Joins(ss, n, f), NEW g, Joins(tt, m, g)
  PROVE  Agree(f, g, n)
<1> DEFINE Bad == {i \in 1 .. n : f[i] # g[i]}
<1> SUFFICES ASSUME Bad # {} PROVE FALSE
  BY DEF Agree
<1>1. PICK i \in Bad : \A k \in Bad : i <= k
  <2>1. Bad \in SUBSET Nat
    OBVIOUS
  <2> HIDE DEF Bad
  <2> QED BY <2>1, LeastExists
<1>2. i \in 1 .. n /\ i \in 1 .. m /\ f[i] # g[i]
  OBVIOUS
<1>3. f[i] = IF i = 1 THEN ss[i] ELSE f[i - 1] \o ss[i]
  <2> SUFFICES \A j \in 1 .. n : f[j] = IF j = 1 THEN ss[j] ELSE f[j - 1] \o ss[j]
    BY <1>2
  <2> QED BY DEF Joins
<1>4. g[i] = IF i = 1 THEN tt[i] ELSE g[i - 1] \o tt[i]
  <2> SUFFICES \A j \in 1 .. m : g[j] = IF j = 1 THEN tt[j] ELSE g[j - 1] \o tt[j]
    BY <1>2
  <2> QED BY DEF Joins
<1>5. i # 1 => f[i - 1] = g[i - 1]
  <2>1. i # 1 => i - 1 \in 1 .. n /\ i - 1 \notin Bad
    BY <1>1, <1>2
  <2> QED BY <2>1
<1> QED
  BY <1>2, <1>3, <1>4, <1>5 DEF Agree

\* A sequence more adds itself at the end.
LEMMA FlattenGrows ==
  ASSUME NEW S, NEW n \in Nat, NEW tt \in [1 .. (n + 1) -> Seq(S)], NEW ss \in [1 .. n -> Seq(S)],
         \A i \in 1 .. n : ss[i] = tt[i]
  PROVE  /\ FlattenSeq(ss) \in Seq(S)
         /\ FlattenSeq(tt) = FlattenSeq(ss) \o tt[n + 1]
<1>1. Len(ss) = n /\ Len(tt) = n + 1
  <2>1. ss \in Seq(Seq(S)) /\ tt \in Seq(Seq(S))
    OBVIOUS
  <2>2. DOMAIN ss = 1 .. n /\ DOMAIN tt = 1 .. (n + 1)
    OBVIOUS
  <2> QED BY <2>1, <2>2, LenProperties
<1> DEFINE f == CHOOSE x : Joins(ss, n, x)
           g == CHOOSE x : Joins(tt, n + 1, x)
<1>2. Joins(ss, n, f) /\ Joins(tt, n + 1, g)
  <2>1. \E x : Joins(ss, n, x)
    BY JoinsExists
  <2>2. \E x : Joins(tt, n + 1, x)
    <3>1. n + 1 \in Nat /\ n + 1 \in 0 .. (n + 1)
      OBVIOUS
    <3> QED BY <3>1, JoinsExists
  <2> QED BY <2>1, <2>2
<1>3. PICK h \in [1 .. n -> Seq(S)] : Joins(ss, n, h)
  <2>1. n \in 0 .. n
    OBVIOUS
  <2> QED BY <2>1, JoinsExists
<1> HIDE DEF f, g
<1>4. \A i \in 1 .. n : f[i] = g[i] /\ f[i] = h[i]
  <2>1. n + 1 \in Nat /\ n <= n + 1 /\ n <= n
    OBVIOUS
  <2>2. Agree(ss, tt, n) /\ Agree(ss, ss, n)
    BY DEF Agree
  <2>3. Agree(f, g, n)
    BY <1>2, <2>1, <2>2, JoinsAgree
  <2>4. Agree(f, h, n)
    BY <1>2, <1>3, <2>1, <2>2, JoinsAgree
  <2> QED BY <2>3, <2>4 DEF Agree
<1>5. g[n + 1] = IF n = 0 THEN tt[n + 1] ELSE g[n] \o tt[n + 1]
  <2>1. \A j \in 1 .. (n + 1) : g[j] = IF j = 1 THEN tt[j] ELSE g[j - 1] \o tt[j]
    BY <1>2 DEF Joins
  <2>2. n + 1 \in 1 .. (n + 1) /\ (n + 1) - 1 = n /\ (n + 1 = 1 <=> n = 0)
    OBVIOUS
  <2> QED BY <2>1, <2>2
<1>6. FlattenSeq(tt) = g[n + 1]
  <2>1. Len(tt) # 0
    BY <1>1
  <2> QED BY <2>1, <1>1, FlattenIsJoined DEF g
<1>7. CASE n = 0
  <2>1. FlattenSeq(ss) = ss
    BY <1>1, <1>7 DEF FlattenSeq
  <2>2. ss = <<>>
    BY <1>7
  <2>3. tt[n + 1] \in Seq(S)
    OBVIOUS
  <2> QED BY <1>5, <1>6, <1>7, <2>1, <2>2, <2>3, ConcatEmptySeq, EmptySeq
<1>8. CASE n # 0
  <2>1. FlattenSeq(ss) = f[n]
    BY <1>1, <1>8, FlattenIsJoined DEF f
  <2>2. n \in 1 .. n
    BY <1>8
  <2>3. h[n] \in Seq(S)
    BY <2>2
  <2> QED BY <2>1, <2>2, <2>3, <1>4, <1>5, <1>6, <1>8
<1> QED
  BY <1>7, <1>8

\* What downstream gets.
ItemSet == [kind : {"start", "image", "end"}, series : Nat, id : Nat]

LEMMA ItemsAssociate ==
  ASSUME NEW x \in Seq(ItemSet), NEW y \in Seq(ItemSet), NEW z \in Seq(ItemSet)
  PROVE  (x \o y) \o z = x \o (y \o z)
  BY ConcatAssociative

\* The first u images of record r.
Part(r, u) == [i \in 1 .. u |-> Item("image", r.series, r.id + i - 1)]

\* ids are the t images of record r behind its first u, and v counts up to them.
Taking(r, u, t, v, ids) ==
  /\ r.series \in Nat /\ r.id \in Nat /\ u \in Nat /\ t \in Nat /\ v = u + t
  /\ ids = [i \in 1 .. t |-> Item("image", r.series, r.id + u + i - 1)]

\* The items of the first n records of plan p.
Through(p, n) == FlattenSeq([i \in 1 .. n |-> Items(p[i])])

\* A part of a record is a sequence of items, and grows by what is taken next.
LEMMA PartGrows ==
  ASSUME NEW r, NEW u, NEW t, NEW w, NEW ids, Taking(r, u, t, w, ids)
  PROVE  /\ Part(r, u) \in Seq(ItemSet) /\ Len(Part(r, u)) = u
         /\ ids \in Seq(ItemSet) /\ Len(ids) = t
         /\ \A i \in 1 .. t : ids[i].kind = "image" /\ ids[i].series = r.series
         /\ Part(r, w) = Part(r, u) \o ids
<1>0. /\ r.series \in Nat /\ r.id \in Nat /\ u \in Nat /\ t \in Nat /\ w = u + t
      /\ ids = [i \in 1 .. t |-> Item("image", r.series, r.id + u + i - 1)]
  BY DEF Taking
<1>1. ASSUME NEW v \in Nat
      PROVE  Part(r, v) \in [1 .. v -> ItemSet]
  <2>1. \A i \in 1 .. v : Item("image", r.series, r.id + i - 1) \in ItemSet
    <3> SUFFICES ASSUME NEW i \in 1 .. v PROVE Item("image", r.series, r.id + i - 1) \in ItemSet
      OBVIOUS
    <3>1. r.id + i - 1 \in Nat
      BY <1>0
    <3> QED BY <1>0, <3>1 DEF Item, ItemSet
  <2> QED BY <2>1 DEF Part
<1>2. ids \in [1 .. t -> ItemSet]
  <2>1. \A i \in 1 .. t : Item("image", r.series, r.id + u + i - 1) \in ItemSet
    <3> SUFFICES ASSUME NEW i \in 1 .. t PROVE Item("image", r.series, r.id + u + i - 1) \in ItemSet
      OBVIOUS
    <3>1. r.id + u + i - 1 \in Nat
      BY <1>0
    <3> QED BY <1>0, <3>1 DEF Item, ItemSet
  <2> QED BY <1>0, <2>1
<1>3. \A i \in 1 .. t : ids[i] = Item("image", r.series, r.id + u + i - 1)
  BY <1>0
<1>4. \A v \in Nat : \A i \in 1 .. v : Part(r, v)[i] = Item("image", r.series, r.id + i - 1)
  BY DEF Part
<1>5. ASSUME NEW v \in Nat, NEW s \in [1 .. v -> ItemSet]
      PROVE  s \in Seq(ItemSet) /\ Len(s) = v
  <2>1. s \in Seq(ItemSet)
    OBVIOUS
  <2>2. DOMAIN s = 1 .. v /\ DOMAIN s = 1 .. Len(s) /\ Len(s) \in Nat
    BY <2>1, LenProperties
  <2> QED BY <2>1, <2>2
<1>6. u + t \in Nat /\ u \in Nat /\ t \in Nat
  BY <1>0
<1>7. Part(r, u + t) = Part(r, u) \o ids
  <2> DEFINE a == Part(r, u)
             b == Part(r, u + t)
             c == a \o ids
  <2>1. /\ a \in Seq(ItemSet) /\ Len(a) = u /\ ids \in Seq(ItemSet) /\ Len(ids) = t
        /\ b \in Seq(ItemSet) /\ Len(b) = u + t
    BY <1>1, <1>2, <1>5, <1>6
  <2>2. /\ c \in Seq(ItemSet) /\ Len(c) = u + t
        /\ \A i \in 1 .. u + t : c[i] = IF i <= u THEN a[i] ELSE ids[i - u]
    <3> HIDE DEF a, b
    <3>1. c \in Seq(ItemSet)
      BY <2>1, ConcatProperties
    <3>2. Len(c) = Len(a) + Len(ids)
      BY <2>1, ConcatProperties
    <3>3. \A i \in 1 .. Len(a) + Len(ids) : c[i] = IF i <= Len(a) THEN a[i] ELSE ids[i - Len(a)]
      BY <2>1, ConcatProperties
    <3> QED BY <2>1, <3>1, <3>2, <3>3
  <2>3. ASSUME NEW i \in 1 .. u + t
        PROVE  b[i] = c[i]
    <3>1. b[i] = Item("image", r.series, r.id + i - 1)
      BY <1>4, <1>6
    <3>2. CASE i <= u
      <4>1. i \in 1 .. u
        BY <1>6, <3>2
      <4>2. a[i] = Item("image", r.series, r.id + i - 1)
        BY <1>4, <1>6, <4>1
      <4> HIDE DEF a, b, c
      <4> QED BY <1>6, <2>2, <3>1, <3>2, <4>2
    <3>3. CASE ~(i <= u)
      <4>1. i - u \in 1 .. t /\ r.id + u + (i - u) - 1 = r.id + i - 1
        BY <1>0, <3>3
      <4>2. ids[i - u] = Item("image", r.series, r.id + u + (i - u) - 1)
        BY <1>3, <4>1
      <4> HIDE DEF a, b, c
      <4> QED BY <1>6, <2>2, <3>1, <3>3, <4>1, <4>2
    <3> QED BY <3>2, <3>3
  <2> HIDE DEF a, b, c
  <2>4. b = c
    BY <2>1, <2>2, <2>3, SeqEqual
  <2> QED BY <2>4 DEF a, b, c
<1>8. \A i \in 1 .. t : ids[i].kind = "image" /\ ids[i].series = r.series
  <2> SUFFICES ASSUME NEW i \in 1 .. t PROVE ids[i].kind = "image" /\ ids[i].series = r.series
    OBVIOUS
  <2>1. ids[i] = Item("image", r.series, r.id + u + i - 1)
    BY <1>3
  <2> QED BY <2>1 DEF Item
<1> QED
  BY <1>1, <1>0, <1>2, <1>5, <1>7, <1>8

\* The items of a record are a sequence that is not empty.
LEMMA ItemsType ==
  ASSUME NEW r \in Record, r.kind = "image" => r.n > 0
  PROVE  /\ Items(r) \in Seq(ItemSet) /\ Len(Items(r)) > 0
         /\ r.kind = "image" => Items(r) = Part(r, r.n)
         /\ r.kind # "image" => Items(r) = <<Item(r.kind, r.series, r.n)>>
<1>1. r.series \in Nat /\ r.id \in Nat /\ r.n \in Nat /\ r.kind \in {"start", "image", "end"}
  BY DEF Record
<1>2. CASE r.kind = "image"
  <2>1. Items(r) = Part(r, r.n)
    BY <1>2 DEF Items, Part
  <2>2. Part(r, r.n) \in Seq(ItemSet) /\ Len(Part(r, r.n)) = r.n
    <3> DEFINE none == [i \in 1 .. 0 |-> Item("image", r.series, r.id + r.n + i - 1)]
    <3>1. Taking(r, r.n, 0, r.n, none)
      BY <1>1 DEF Taking
    <3> HIDE DEF none
    <3> QED BY <3>1, PartGrows
  <2> QED BY <1>1, <1>2, <2>1, <2>2
<1>3. CASE r.kind # "image"
  <2>1. Items(r) = <<Item(r.kind, r.series, r.n)>>
    BY <1>3 DEF Items
  <2>2. Item(r.kind, r.series, r.n) \in ItemSet
    BY <1>1 DEF Item, ItemSet
  <2> QED BY <1>3, <2>1, <2>2
<1> QED
  BY <1>2, <1>3

\* A record more adds its items.
LEMMA ThroughGrows ==
  ASSUME NEW p \in Plans, NEW n \in 0 .. Len(p)
  PROVE  /\ Through(p, n) \in Seq(ItemSet)
         /\ n < Len(p) => Through(p, n + 1) = Through(p, n) \o Items(p[n + 1])
         /\ Through(p, 0) = <<>>
<1>1. /\ Len(p) \in Nat
      /\ \A k \in 1 .. Len(p) : Items(p[k]) \in Seq(ItemSet)
  BY PlanRecords, ItemsType
<1> DEFINE F(k) == [i \in 1 .. k |-> Items(p[i])]
<1>2. ASSUME NEW k \in 0 .. Len(p)
      PROVE  F(k) \in [1 .. k -> Seq(ItemSet)]
  <2>1. \A i \in 1 .. k : i \in 1 .. Len(p)
    BY <1>1
  <2> QED BY <2>1, <1>1
<1>3. ASSUME NEW k \in 0 .. Len(p), k < Len(p)
      PROVE  /\ Through(p, k) \in Seq(ItemSet)
             /\ Through(p, k + 1) = Through(p, k) \o Items(p[k + 1])
  <2>1. k \in Nat /\ k + 1 \in 0 .. Len(p) /\ k + 1 \in 1 .. (k + 1)
    BY <1>1, <1>3
  <2>2. \A i \in 1 .. k : F(k)[i] = F(k + 1)[i]
    BY <2>1
  <2>3. F(k + 1)[k + 1] = Items(p[k + 1])
    BY <2>1
  <2>4. F(k) \in [1 .. k -> Seq(ItemSet)] /\ F(k + 1) \in [1 .. (k + 1) -> Seq(ItemSet)]
    BY <1>2, <2>1
  <2>5. Through(p, k) = FlattenSeq(F(k)) /\ Through(p, k + 1) = FlattenSeq(F(k + 1))
    BY DEF Through
  <2> DEFINE ss == F(k)
             tt == F(k + 1)
  <2>6. /\ ss \in [1 .. k -> Seq(ItemSet)] /\ tt \in [1 .. (k + 1) -> Seq(ItemSet)]
        /\ \A i \in 1 .. k : ss[i] = tt[i]
    BY <2>2, <2>4
  <2> HIDE DEF ss, tt
  <2>7. FlattenSeq(ss) \in Seq(ItemSet) /\ FlattenSeq(tt) = FlattenSeq(ss) \o tt[k + 1]
    BY <2>1, <2>6, FlattenGrows
  <2> QED BY <2>3, <2>5, <2>7 DEF ss, tt
<1>4. Through(p, 0) = <<>>
  <2>1. F(0) = <<>>
    OBVIOUS
  <2>2. FlattenSeq(<<>>) = <<>>
    BY DEF FlattenSeq
  <2> QED BY <2>1, <2>2 DEF Through
<1>5. CASE n < Len(p)
  BY <1>3, <1>4, <1>5
<1>6. CASE n = Len(p) /\ n = 0
  <2>1. Through(p, n) = <<>> /\ <<>> \in Seq(ItemSet)
    BY <1>4, <1>6, EmptySeq
  <2>2. ~(n < Len(p))
    BY <1>1, <1>6
  <2> QED BY <1>4, <1>6, <2>1, <2>2
<1>7. CASE n = Len(p) /\ n # 0
  <2>1. n - 1 \in 0 .. Len(p) /\ n - 1 < Len(p) /\ (n - 1) + 1 = n /\ n \in 1 .. Len(p)
    BY <1>1, <1>7
  <2>2. Through(p, n - 1) \in Seq(ItemSet) /\ Through(p, n) = Through(p, n - 1) \o Items(p[n])
    BY <1>3, <2>1
  <2>3. Through(p, n) \in Seq(ItemSet)
    BY <1>1, <2>1, <2>2, ConcatProperties
  <2> QED BY <1>4, <1>7, <2>3
<1> QED
  BY <1>1, <1>5, <1>6, <1>7

\* What fewer records make is the beginning of what more make.
LEMMA ThroughPrefix ==
  ASSUME NEW p \in Plans, NEW m \in Nat, NEW n \in Nat, m <= n, n <= Len(p)
  PROVE  \E rest \in Seq(ItemSet) : Through(p, n) = Through(p, m) \o rest
<1> DEFINE Begins(k) == \E rest \in Seq(ItemSet) : Through(p, k) = Through(p, m) \o rest
           Bad == {k \in m .. n : ~Begins(k)}
<1>0. Len(p) \in Nat
  BY PlanRecords
<1> SUFFICES ASSUME Bad # {} PROVE FALSE
  <2>1. n \in m .. n
    OBVIOUS
  <2> QED BY <2>1
<1>1. PICK k \in Bad : \A j \in Bad : k <= j
  <2>1. Bad \in SUBSET Nat
    OBVIOUS
  <2> HIDE DEF Bad
  <2> QED BY <2>1, LeastExists
<1>2. k \in m .. n /\ ~Begins(k) /\ k \in 0 .. Len(p)
  <2> HIDE DEF Begins
  <2>1. k \in m .. n /\ ~Begins(k)
    OBVIOUS
  <2> QED BY <1>0, <2>1
<1>3. CASE k = m
  <2>1. Through(p, m) \in Seq(ItemSet)
    BY <1>2, <1>3, ThroughGrows
  <2>2. Through(p, m) = Through(p, m) \o <<>> /\ <<>> \in Seq(ItemSet)
    BY <2>1, ConcatEmptySeq, EmptySeq
  <2> QED BY <1>2, <1>3, <2>2
<1>4. CASE k # m
  <2>1. k - 1 \in m .. n /\ ~(k <= k - 1) /\ k - 1 \in 0 .. Len(p) /\ k - 1 < Len(p) /\ (k - 1) + 1 = k
        /\ k \in 1 .. Len(p) /\ m \in 0 .. Len(p)
    BY <1>0, <1>2, <1>4
  <2>2. Begins(k - 1)
    <3>1. k - 1 \notin Bad
      <4> HIDE DEF Bad
      <4> QED BY <1>1, <2>1
    <3> HIDE DEF Begins
    <3> QED BY <2>1, <3>1
  <2>3. PICK rest \in Seq(ItemSet) : Through(p, k - 1) = Through(p, m) \o rest
    BY <2>2
  <2>4. Through(p, k) = Through(p, k - 1) \o Items(p[k]) /\ Through(p, m) \in Seq(ItemSet)
    BY <2>1, ThroughGrows
  <2>5. Items(p[k]) \in Seq(ItemSet)
    BY <2>1, PlanRecords, ItemsType
  <2>6. Through(p, k) = Through(p, m) \o (rest \o Items(p[k])) /\ rest \o Items(p[k]) \in Seq(ItemSet)
    <3>1. (Through(p, m) \o rest) \o Items(p[k]) = Through(p, m) \o (rest \o Items(p[k]))
      BY <2>4, <2>5, ItemsAssociate, Zenon
    <3>2. rest \o Items(p[k]) \in Seq(ItemSet)
      BY <2>5, ConcatProperties
    <3> QED BY <2>3, <2>4, <3>1, <3>2
  <2> QED BY <1>2, <2>6
<1> QED
  BY <1>3, <1>4

\* The middle of three sequences.
LEMMA Middle ==
  ASSUME NEW S, NEW a \in Seq(S), NEW b \in Seq(S), NEW c \in Seq(S), NEW w, w = (a \o b) \o c
  PROVE  /\ SubSeq(w, Len(a) + 1, Len(a) + Len(b)) = b
         /\ w \in Seq(S) /\ Len(w) - Len(a) = Len(b) + Len(c) /\ Len(b) \in Nat /\ Len(c) \in Nat
<1>1. /\ a \o b \in Seq(S) /\ Len(a \o b) = Len(a) + Len(b)
      /\ Len(a) \in Nat /\ Len(b) \in Nat /\ Len(c) \in Nat
  BY ConcatProperties, LenProperties
<1>2. w \in Seq(S) /\ Len(w) = Len(a) + Len(b) + Len(c)
  BY <1>1, ConcatProperties
<1>3. w = a \o (b \o c) /\ b \o c \in Seq(S) /\ Len(b \o c) = Len(b) + Len(c)
  BY ConcatAssociative, ConcatProperties
<1>4. CASE Len(b) = 0
  <2>1. b = <<>>
    BY <1>4, EmptySeq
  <2>2. SubSeq(w, Len(a) + 1, Len(a) + Len(b)) = <<>>
    <3>1. Len(a) + 1 \in Int /\ Len(a) + Len(b) \in Int /\ Len(a) + Len(b) < Len(a) + 1
      BY <1>1, <1>4
    <3> QED BY <3>1, SubSeqEmpty
  <2> QED BY <1>1, <1>2, <2>1, <2>2
<1>5. CASE Len(b) # 0
  <2> DEFINE t == b \o c
             m == Len(a) + 1
             n == Len(a) + Len(b)
  <2>1. /\ m \in Len(a) + 1 .. Len(a) + Len(t) /\ n \in Len(a) + 1 .. Len(a) + Len(t)
        /\ m - Len(a) = 1 /\ n - Len(a) = Len(b) /\ 1 \in 1 .. Len(b) /\ Len(b) \in 1 .. Len(b)
    BY <1>1, <1>3, <1>5
  <2>2. t \in Seq(S) /\ w = a \o t
    BY <1>3
  <2> HIDE DEF t, m, n
  <2>3. SubSeq(a \o t, m, n) = SubSeq(t, m - Len(a), n - Len(a))
    BY <2>1, <2>2, SubSeqOfConcat2
  <2>4. SubSeq(b \o c, 1, Len(b)) = SubSeq(b, 1, Len(b))
    BY <2>1, SubSeqOfConcat1
  <2>5. SubSeq(b, 1, Len(b)) = b
    BY SubSeqFull
  <2>6. SubSeq(w, m, n) = b
    BY <2>1, <2>2, <2>3, <2>4, <2>5 DEF t
  <2> QED BY <1>1, <1>2, <2>6 DEF m, n
<1> QED
  BY <1>4, <1>5

-----------------------------------------------------------------------------
(* The invariant about what was delivered.                                  *)

\* A control message that waits to be emitted.
ControlItems == [kind : {"none", "ready", "start", "end"}, series : Nat, images : Nat]

\* What waits to be emitted and belongs to the stream.
Owed == IF control.kind \in {"start", "end"}
        THEN <<Item(control.kind, control.series, control.images)>> ELSE <<>>

\* READY comes before everything else.
ReadyFirst ==
  /\ readyEmitted \in BOOLEAN /\ (control.kind = "ready" => ~readyEmitted)
  /\ ~readyEmitted => /\ nextSeq = 0 /\ emitted = <<>> /\ batch = <<>> /\ frame = {}
                      /\ control.kind \in {"none", "ready"}
                      /\ control.kind = "none" => imms = <<>>

\* A batch is of the series being received, and a control message ends it.
GatherInv ==
  /\ control \in ControlItems /\ emitted \in Seq(ItemSet) /\ Len(batch) <= BatchSize
  /\ frame # {} => control.kind = "none"
  /\ batch # <<>> /\ control.kind = "none" => active.on
  /\ pc = "emit" => control.kind # "none" \/ batch # <<>>
  /\ \A i \in 1 .. Len(batch) : batch[i].series = active.series

\* The images counted are those of the records read.
CountInv(K) ==
  pc # "stopped" /\ active.on => active.images = Counted(plan[K[nextSeq] - 1])

\* After a stop, what an abandoned activation had gathered is missing.
Abandoned == stop /\ pc \in {"idle", "stopped"}

\* What was emitted, what is gathered and what waits are the items of the records read,
\* up to what is left of the frame being read.
DeliveredInv(K) ==
  ~Abandoned =>
    /\ frame = {} => (emitted \o batch) \o Owed = Through(plan, K[nextSeq] - 1)
    /\ \A f \in frame :
         emitted \o batch = Through(plan, K[nextSeq] - 2) \o Part(f.rec, f.used)

StreamInv(K) == ReadyFirst /\ GatherInv /\ CountInv(K) /\ DeliveredInv(K)

StreamInvariant == \E P, K \in NatSeqs : Inv(P, K) /\ StreamInv(K)

-----------------------------------------------------------------------------
(* Posts and records.                                                       *)

\* How a conforming sender numbers images.
LEMMA PlanNumbers ==
  ASSUME NEW p \in Plans, NEW k \in 1 .. Len(p)
  PROVE  /\ p[k].kind = "start" => p[k].n = 0
         /\ p[k].kind = "image" => p[k].id = Counted(p[k - 1])
         /\ p[k].kind = "end" => p[k].n = Counted(p[k - 1])
<1>1. Conforming(p)
  BY RingAssumption
<1> QED
  BY <1>1 DEF Conforming

\* A post that is not a wrap carries its record.
LEMMA PostRecord ==
  ASSUME NEW p \in Plans, NEW P \in NatSeqs, NEW K \in NatSeqs,
         NEW q \in Nat, K[q] \in 1 .. Len(p), Posted(p, P, K, q).kind # "wrap"
  PROVE  LET f == Posted(p, P, K, q)
             r == p[K[q]]
         IN  f.kind = r.kind /\ f.series = r.series /\ f.id = r.id /\ f.n = r.n
<1>1. Posted(p, P, K, q) = RecordFrame(p[K[q]], P[q], q)
  BY PostType DEF Posted
<1> QED
  BY <1>1 DEF RecordFrame

\* The sender's records only go forward.
LEMMA RecordsAhead ==
  ASSUME NEW P \in NatSeqs, NEW K \in NatSeqs, SenderInv(P, K), NEW m \in 0 .. seq
  PROVE  K[m] <= next /\ K[m] \in 1 .. Len(plan) + 1 /\ Len(plan) \in Nat
<1>1. /\ seq \in Nat /\ next \in 1 .. Len(plan) + 1 /\ K[seq] = next /\ plan \in Plans
      /\ \A q \in 0 .. seq : K[q] \in 1 .. Len(plan) + 1
  BY DEF SenderInv
<1>2. Len(plan) \in Nat
  BY <1>1, PlanRecords
<1> DEFINE Bad == {r \in m .. seq : K[r] < K[m]}
<1>3. ASSUME Bad # {}
      PROVE  FALSE
  <2>1. PICK r \in Bad : \A j \in Bad : r <= j
    <3>1. Bad \in SUBSET Nat
      BY <1>1
    <3> HIDE DEF Bad
    <3> QED BY <1>3, <3>1, LeastExists
  <2>2. r \in m .. seq /\ K[r] < K[m]
    OBVIOUS
  <2>3. r # m
    BY <2>2, <1>1, <1>2
  <2>4. r - 1 \in m .. seq /\ r - 1 \in 0 .. (seq - 1) /\ (r - 1) + 1 = r /\ ~(r <= r - 1)
    BY <1>1, <2>2, <2>3
  <2>5. ~(K[r - 1] < K[m])
    <3>1. r - 1 \notin Bad
      <4> HIDE DEF Bad
      <4> QED BY <2>1, <2>4
    <3> QED BY <3>1, <2>4
  <2>6. K[r] = K[r - 1] \/ K[r] = K[r - 1] + 1
    <3>1. K[(r - 1) + 1] = IF Fitting(plan, P, K, r - 1) THEN K[r - 1] + 1 ELSE K[r - 1]
      BY <2>4 DEF SenderInv
    <3> QED BY <3>1, <2>4
  <2>7. K[r - 1] \in Nat /\ K[m] \in Nat
    BY <1>1, <1>2, <2>4
  <2> QED BY <2>2, <2>5, <2>6, <2>7
<1>4. ~(K[seq] < K[m])
  <2>1. seq \in m .. seq
    BY <1>1
  <2> QED BY <1>3, <2>1
<1> QED
  BY <1>1, <1>2, <1>4

\* The frame being read is the record before the next one.
LEMMA FrameRecord ==
  ASSUME NEW P \in NatSeqs, NEW K \in NatSeqs, Inv(P, K), NEW f \in frame
  PROVE  LET r == plan[K[nextSeq] - 1] IN
           /\ K[nextSeq] - 1 \in 1 .. Len(plan) /\ K[nextSeq] - 2 \in 0 .. Len(plan)
           /\ r.kind = "image" /\ r.series = f.rec.series /\ r.id = f.rec.id /\ r.n = f.rec.n
           /\ f.rec.series \in Nat /\ f.rec.id \in Nat /\ f.rec.n \in Nat \ {0}
           /\ f.used \in Nat /\ f.used < f.rec.n
           /\ Items(r) = Part(f.rec, f.rec.n)
<1> DEFINE q == nextSeq - 1
           k == K[q]
<1>1. SenderInv(P, K) /\ FrameInv(P, K)
  BY DEF Inv
<1>2. /\ nextSeq - 1 \in Nat /\ nextSeq - 1 \in 0 .. (seq - 1) /\ nextSeq \in Nat
      /\ f.rec \in FrameSet /\ f.rec.n \in Nat \ {0} /\ f.used \in Nat /\ f.used < f.rec.n
  BY FrameFacts
<1>3. f.rec = Posted(plan, P, K, q) /\ f.rec.kind = "image"
  BY <1>1 DEF FrameInv
<1>4. q \in Nat /\ q \in 0 .. (seq - 1) /\ q + 1 = nextSeq
  BY <1>2
<1> HIDE DEF q
<1>5. k \in 1 .. Len(plan) /\ K[q + 1] = k + 1 /\ plan \in Plans
  BY <1>1, <1>3, <1>4, PostFacts DEF SenderInv
<1>6. /\ f.rec.kind = plan[k].kind /\ f.rec.series = plan[k].series /\ f.rec.id = plan[k].id
      /\ f.rec.n = plan[k].n
  BY <1>3, <1>4, <1>5, PostRecord
<1>7. Len(plan) \in Nat /\ plan[k] \in Record
  BY <1>5, PlanRecords
<1> HIDE DEF k
<1>8. K[nextSeq] = k + 1 /\ k \in Nat
  BY <1>4, <1>5, <1>7
<1>9. K[nextSeq] - 1 = k /\ K[nextSeq] - 2 = k - 1 /\ k - 1 \in 0 .. Len(plan)
  BY <1>5, <1>7, <1>8
<1>10. Items(plan[k]) = Part(f.rec, f.rec.n)
  BY <1>3, <1>6 DEF Items, Part
<1>11. f.rec.series \in Nat /\ f.rec.id \in Nat
  BY <1>2 DEF FrameSet
<1> QED
  BY <1>2, <1>3, <1>5, <1>6, <1>9, <1>10, <1>11

\* Before an activation is abandoned, what is still to come completes what the sender
\* has produced.
LEMMA Remaining ==
  ASSUME NEW P \in NatSeqs, NEW K \in NatSeqs, Inv(P, K), StreamInv(K), ~Abandoned
  PROVE  \E rest \in Seq(ItemSet) : Produced = ((emitted \o batch) \o Owed) \o rest
<1>1. SenderInv(P, K) /\ WireInv(P, K) /\ ComputeInv
  BY DEF Inv
<1>2. GatherInv /\ DeliveredInv(K)
  BY DEF StreamInv
<1>3. /\ nextSeq \in 0 .. seq /\ plan \in Plans /\ next \in 1 .. Len(plan) + 1
  <2>1. nextSeq \in Nat /\ Placed \in Nat /\ seq \in Nat /\ nextSeq <= Placed /\ Placed <= seq
    BY <1>1, Counters
  <2> QED BY <2>1, <1>1 DEF SenderInv
<1> DEFINE k == K[nextSeq]
<1>4. k <= next /\ k \in 1 .. Len(plan) + 1 /\ Len(plan) \in Nat
  BY <1>1, <1>3, RecordsAhead
<1> HIDE DEF k
<1>5. Produced = Through(plan, next - 1)
  BY DEF Produced, Through
<1>6. PICK more \in Seq(ItemSet) : Produced = Through(plan, k - 1) \o more
  <2>1. k - 1 \in Nat /\ next - 1 \in Nat /\ k - 1 <= next - 1 /\ next - 1 <= Len(plan)
    BY <1>3, <1>4
  <2> QED BY <2>1, <1>3, <1>5, ThroughPrefix
<1>7. CASE frame = {}
  BY <1>2, <1>6, <1>7 DEF DeliveredInv, k
<1>8. CASE frame # {}
  <2>1. PICK f \in frame : TRUE
    BY <1>8
  <2>2. /\ emitted \o batch = Through(plan, k - 2) \o Part(f.rec, f.used) /\ Owed = <<>>
    BY <1>2, <1>8 DEF DeliveredInv, GatherInv, Owed, k
  <2>3. /\ k - 1 \in 1 .. Len(plan) /\ k - 2 \in 0 .. Len(plan)
        /\ f.rec.series \in Nat /\ f.rec.id \in Nat /\ f.rec.n \in Nat \ {0}
        /\ f.used \in Nat /\ f.used < f.rec.n
        /\ Items(plan[k - 1]) = Part(f.rec, f.rec.n)
    BY FrameRecord DEF k
  <2>4. PICK t \in Nat : f.rec.n = f.used + t
    <3>1. f.rec.n - f.used \in Nat /\ f.rec.n = f.used + (f.rec.n - f.used)
      BY <2>3
    <3> QED BY <3>1
  <2>5. PICK ids \in Seq(ItemSet) : /\ Part(f.rec, f.rec.n) = Part(f.rec, f.used) \o ids
                                    /\ Part(f.rec, f.used) \in Seq(ItemSet)
    <3> DEFINE ids == [i \in 1 .. t |-> Item("image", f.rec.series, f.rec.id + f.used + i - 1)]
    <3>1. Taking(f.rec, f.used, t, f.rec.n, ids)
      BY <2>3, <2>4 DEF Taking
    <3> HIDE DEF ids
    <3> QED BY <3>1, PartGrows
  <2>6. /\ Through(plan, k - 1) = Through(plan, k - 2) \o Items(plan[k - 1])
        /\ Through(plan, k - 2) \in Seq(ItemSet)
    <3>1. (k - 2) + 1 = k - 1 /\ k - 2 < Len(plan)
      BY <1>4, <2>3
    <3> QED BY <3>1, <2>3, <1>3, ThroughGrows
  <2> DEFINE a == Through(plan, k - 2)
             b == Part(f.rec, f.used)
  <2>7. /\ a \in Seq(ItemSet) /\ b \in Seq(ItemSet) /\ emitted \o batch = a \o b
        /\ Produced = (a \o (b \o ids)) \o more
    BY <1>6, <2>2, <2>3, <2>5, <2>6
  <2> HIDE DEF a, b
  <2>0. a \in Seq(ItemSet) /\ b \in Seq(ItemSet) /\ ids \in Seq(ItemSet)
    BY <2>7
  <2>8. a \o (b \o ids) = (a \o b) \o ids /\ a \o b \in Seq(ItemSet)
    <3>1. (a \o b) \o ids = a \o (b \o ids)
      BY <2>0, ItemsAssociate, Zenon
    <3>2. a \o b \in Seq(ItemSet)
      BY <2>7, ConcatProperties
    <3> QED BY <3>1, <3>2
  <2>9. ((a \o b) \o ids) \o more = (a \o b) \o (ids \o more) /\ ids \o more \in Seq(ItemSet)
    <3>0. a \o b \in Seq(ItemSet) /\ more \in Seq(ItemSet)
      BY <2>8
    <3>1. ((a \o b) \o ids) \o more = (a \o b) \o (ids \o more)
      BY <2>0, <3>0, ItemsAssociate, Zenon
    <3>2. ids \o more \in Seq(ItemSet)
      BY <2>5, ConcatProperties
    <3> QED BY <3>1, <3>2
  <2>10. (emitted \o batch) \o Owed = a \o b
    BY <2>2, <2>7, <2>8, ConcatEmptySeq
  <2> QED BY <2>7, <2>8, <2>9, <2>10
<1> QED
  BY <1>7, <1>8

-----------------------------------------------------------------------------
(* Steps and what was delivered.                                            *)

\* A batch holds items.
LEMMA BatchItems ==
  ASSUME ComputeInv
  PROVE  batch \in Seq(ItemSet) /\ Len(batch) \in Nat /\ (Len(batch) = 0 <=> batch = <<>>)
<1> DEFINE I == [kind : {"image"}, series : Nat, id : Nat]
<1>1. batch \in Seq(I)
  BY DEF ComputeInv
<1>2. I \subseteq ItemSet
  BY DEF ItemSet
<1> HIDE DEF I
<1>3. batch \in Seq(ItemSet)
  <2>1. \A i \in 1 .. Len(batch) : batch[i] \in ItemSet
    BY <1>1, <1>2, ElementOfSeq
  <2>2. Len(batch) \in Nat /\ batch \in [1 .. Len(batch) -> ItemSet]
    BY <1>1, <2>1, LenProperties
  <2> QED BY <2>2
<1> QED
  BY <1>3, EmptySeq, LenProperties

\* In the beginning nothing was delivered.
LEMMA StreamInit ==
  ASSUME Init, NEW P \in NatSeqs, NEW K \in NatSeqs, SenderInv(P, K)
  PROVE  StreamInv(K)
<1>1. /\ plan \in Plans /\ pc = "idle" /\ batch = <<>> /\ readyEmitted = FALSE /\ control = NoControl
      /\ active = [on |-> FALSE, series |-> 0, images |-> 0] /\ frame = {} /\ nextSeq = 0
      /\ imms = <<>> /\ emitted = <<>> /\ K[nextSeq] - 1 = 0
  BY DEF Init, SenderInv
<1>2. ReadyFirst
  BY <1>1 DEF ReadyFirst, NoControl
<1>3. GatherInv
  <2>1. control \in ControlItems
    BY <1>1 DEF NoControl, ControlItems
  <2>2. Len(batch) = 0 /\ 1 .. Len(batch) = {}
    BY <1>1
  <2>3. emitted \in Seq(ItemSet)
    BY <1>1, EmptySeq
  <2> QED BY <1>1, <2>1, <2>2, <2>3, Sizes DEF GatherInv
<1>4. CountInv(K)
  BY <1>1 DEF CountInv
<1>5. DeliveredInv(K)
  <2>1. Through(plan, 0) = <<>>
    <3>1. 0 \in 0 .. Len(plan)
      BY <1>1, PlanRecords
    <3> QED BY <1>1, <3>1, ThroughGrows
  <2>2. Owed = <<>>
    BY <1>1 DEF Owed, NoControl
  <2> QED BY <1>1, <2>1, <2>2 DEF DeliveredInv
<1> QED
  BY <1>2, <1>3, <1>4, <1>5 DEF StreamInv

\* Steps that neither read nor gather nor emit.
LEMMA StreamKept ==
  ASSUME NEW K, NEW KK, StreamInv(K), KK[nextSeq] = K[nextSeq],
         UNCHANGED <<plan, control, readyEmitted, nextSeq, emitted, batch, frame, imms, active>>,
         Abandoned => Abandoned',
         pc = "stopped" => pc' = "stopped",
         pc' = "emit" => control.kind # "none" \/ batch # <<>>
  PROVE  StreamInv(KK)'
<1>1. ReadyFirst /\ GatherInv /\ CountInv(K) /\ DeliveredInv(K)
  BY DEF StreamInv
<1>2. ReadyFirst'
  BY <1>1 DEF ReadyFirst
<1>3. GatherInv'
  BY <1>1 DEF GatherInv
<1>4. CountInv(KK)'
  BY <1>1 DEF CountInv
<1>5. DeliveredInv(KK)'
  <2>1. Owed' = Owed
    BY DEF Owed
  <2>2. KK[nextSeq'] = K[nextSeq] /\ plan' = plan
    OBVIOUS
  <2> QED BY <1>1, <2>1, <2>2 DEF DeliveredInv
<1> QED
  BY <1>2, <1>3, <1>4, <1>5 DEF StreamInv

\* What the sender, the network, the GPU, the consumers and the quiet steps of compute
\* do is such a step.
LEMMA StreamQuiet ==
  ASSUME NEW P, NEW K, Inv(P, K), NEW KK, StreamInv(K), KK[nextSeq] = K[nextSeq],
         \/ Send \/ PlaceFrame \/ PlaceCredit \/ Gpu \/ RequestStop \/ Release \/ UNCHANGED vars
         \/ Activate \/ Iterate \/ WaitForWindow \/ EnterLoop \/ BreakForControl
         \/ RepostDeficit \/ RepostConsumed \/ PollNoRoom
  PROVE  StreamInv(KK)'
<1>1. ComputeInv
  BY DEF Inv
<1>2. CASE Send \/ PlaceFrame \/ PlaceCredit \/ Gpu \/ RequestStop \/ Release \/ UNCHANGED vars
  <2>1. /\ UNCHANGED <<plan, control, readyEmitted, nextSeq, emitted, batch, frame, imms, active, pc>>
        /\ stop => stop'
    <3>1. CASE Send
      BY <3>1 DEF Send, SendRecord, SendWrap, Post, computeVars, outVars, readVars, gpuVars
    <3>2. CASE PlaceFrame
      BY <3>2 DEF PlaceFrame, senderVars, computeVars, outVars, readVars, gpuVars
    <3>3. CASE PlaceCredit
      BY <3>3 DEF PlaceCredit, senderVars, computeVars, outVars, readVars, gpuVars
    <3>4. CASE Gpu
      BY <3>4 DEF Gpu, GpuRead, senderVars, computeVars, outVars, readVars
    <3>5. CASE RequestStop
      BY <3>5 DEF RequestStop, senderVars, computeVars, outVars, readVars
    <3>6. CASE Release
      BY <3>6 DEF Release, senderVars, computeVars, gpuVars, readVars
    <3>7. CASE UNCHANGED vars
      BY <3>7 DEF vars, senderVars, computeVars, outVars, gpuVars, readVars
    <3> QED BY <1>2, <3>1, <3>2, <3>3, <3>4, <3>5, <3>6, <3>7
  <2>2. pc = "emit" => control.kind # "none" \/ batch # <<>>
    BY DEF StreamInv, GatherInv
  <2>3. Abandoned => Abandoned'
    BY <2>1 DEF Abandoned
  <2> QED BY <2>1, <2>2, <2>3, StreamKept
<1>3. CASE \/ Activate \/ Iterate \/ WaitForWindow \/ EnterLoop \/ BreakForControl
           \/ RepostDeficit \/ RepostConsumed \/ PollNoRoom
  <2>1. /\ UNCHANGED <<plan, control, readyEmitted, nextSeq, emitted, batch, frame, imms, active, stop>>
        /\ pc \notin {"stopped", "idle"} \/ ~stop
        /\ pc # "stopped"
        /\ pc' = "emit" => control.kind # "none"
    <3>1. CASE Activate
      BY <3>1 DEF Activate, senderVars, outVars, gpuVars, readVars
    <3>2. CASE Iterate
      BY <3>2 DEF Iterate, senderVars, outVars, gpuVars, readVars
    <3>3. CASE WaitForWindow
      BY <3>3 DEF WaitForWindow, senderVars, outVars, gpuVars, readVars
    <3>4. CASE EnterLoop
      BY <1>1, <3>4 DEF EnterLoop, senderVars, outVars, gpuVars, readVars, ComputeInv
    <3>5. CASE BreakForControl
      BY <3>5 DEF BreakForControl, senderVars, outVars, gpuVars, readVars
    <3>6. CASE RepostDeficit
      BY <3>6 DEF RepostDeficit, Repost, NothingToRead, senderVars, outVars, gpuVars, readVars
    <3>7. CASE RepostConsumed
      BY <3>7 DEF RepostConsumed, Repost, senderVars, outVars, gpuVars, readVars
    <3>8. CASE PollNoRoom
      BY <3>8 DEF PollNoRoom, NothingToRead, AfterEmptyPoll, senderVars, outVars, gpuVars, readVars
    <3> QED BY <1>3, <3>1, <3>2, <3>3, <3>4, <3>5, <3>6, <3>7, <3>8
  <2>2. ~Abandoned
    BY <2>1 DEF Abandoned
  <2> QED BY <2>1, <2>2, StreamKept
<1> QED
  BY <1>2, <1>3

\* The first poll makes READY wait.
LEMMA StreamPoll ==
  ASSUME NEW P, NEW K, Inv(P, K), StreamInv(K), Poll
  PROVE  StreamInv(K)'
<1>1. ReadyFirst /\ GatherInv /\ CountInv(K) /\ DeliveredInv(K)
  BY DEF StreamInv
<1>2. /\ UNCHANGED <<plan, readyEmitted, nextSeq, emitted, batch, frame, active, stop>>
      /\ pc \in {"poll", "step"} /\ pc' \in {"repost", "idle", "loop"}
      /\ control' = IF readyEmitted THEN control ELSE [NoControl EXCEPT !.kind = "ready"]
  BY DEF Poll, NothingToRead, AfterEmptyPoll, senderVars, outVars, gpuVars
<1>3. ~Abandoned
  BY <1>2 DEF Abandoned
<1>4. CASE readyEmitted
  <2>1. control' = control /\ readyEmitted'
    BY <1>2, <1>4
  <2>2. ReadyFirst'
    BY <1>1, <1>2, <2>1 DEF ReadyFirst
  <2>3. GatherInv' /\ CountInv(K)'
    BY <1>1, <1>2, <2>1 DEF GatherInv, CountInv
  <2>4. Owed' = Owed
    BY <2>1 DEF Owed
  <2>5. DeliveredInv(K)'
    BY <1>1, <1>2, <1>3, <2>4 DEF DeliveredInv
  <2> QED BY <2>2, <2>3, <2>5 DEF StreamInv
<1>5. CASE ~readyEmitted
  <2>1. control' = [kind |-> "ready", series |-> 0, images |-> 0] /\ ~readyEmitted'
    BY <1>2, <1>5 DEF NoControl
  <2>2. ReadyFirst'
    BY <1>1, <1>2, <1>5, <2>1 DEF ReadyFirst
  <2>3. frame = {} /\ batch = <<>> /\ control.kind \in {"none", "ready"}
    BY <1>1, <1>5 DEF ReadyFirst
  <2>4. GatherInv' /\ CountInv(K)'
    <3>1. control' \in ControlItems
      BY <2>1 DEF ControlItems
    <3> QED BY <1>1, <1>2, <2>1, <2>3, <3>1 DEF GatherInv, CountInv
  <2>5. Owed' = Owed
    BY <2>1, <2>3 DEF Owed
  <2>6. DeliveredInv(K)'
    BY <1>1, <1>2, <1>3, <2>5 DEF DeliveredInv
  <2> QED BY <2>2, <2>4, <2>6 DEF StreamInv
<1> QED
  BY <1>4, <1>5

\* Abandoning an activation, and the end of the operator.
LEMMA StreamAbandon ==
  ASSUME NEW P, NEW K, Inv(P, K), StreamInv(K), Abandon \/ StopOperator
  PROVE  StreamInv(K)'
<1>1. ReadyFirst /\ GatherInv /\ CountInv(K) /\ ComputeInv
  BY DEF StreamInv, Inv
<1>2. /\ UNCHANGED <<plan, readyEmitted, nextSeq, emitted, control, stop>>
      /\ batch' = <<>> /\ stop /\ pc' \in {"idle", "stopped"} /\ pc # "stopped"
      /\ \/ UNCHANGED <<frame, imms, active>> 
         \/ pc' = "stopped" /\ frame' = {} /\ imms' = <<>>
  <2>1. CASE Abandon
    BY <2>1 DEF Abandon, senderVars, outVars, gpuVars, readVars
  <2>2. CASE StopOperator
    BY <1>1, <2>2 DEF StopOperator, senderVars, outVars, gpuVars, ComputeInv
  <2> QED BY <2>1, <2>2
<1>3. Abandoned'
  BY <1>2 DEF Abandoned
<1>4. ReadyFirst'
  BY <1>1, <1>2 DEF ReadyFirst
<1>5. GatherInv'
  <2>1. Len(batch') = 0 /\ 1 .. Len(batch') = {} /\ 0 <= BatchSize
    BY <1>2, Sizes
  <2> QED BY <1>1, <1>2, <2>1 DEF GatherInv
<1>6. CountInv(K)'
  BY <1>1, <1>2 DEF CountInv
<1>7. DeliveredInv(K)'
  BY <1>3 DEF DeliveredInv
<1> QED
  BY <1>4, <1>5, <1>6, <1>7 DEF StreamInv

\* What is published goes from the batch, or from what waits, to what was emitted.
LEMMA StreamEmit ==
  ASSUME NEW P, NEW K, Inv(P, K), StreamInv(K), EmitPending \/ EmitControlAtOnce \/ EmitBatch
  PROVE  StreamInv(K)'
<1>1. ReadyFirst /\ GatherInv /\ CountInv(K) /\ ComputeInv /\ DeliveredInv(K)
  BY DEF StreamInv, Inv
<1>2. batch \in Seq(ItemSet) /\ emitted \in Seq(ItemSet)
  BY <1>1, BatchItems DEF GatherInv
<1>3. CASE EmitBatch
  <2>1. /\ UNCHANGED <<plan, readyEmitted, nextSeq, control, frame, imms, active, stop>>
        /\ batch # <<>> /\ batch' = <<>> /\ emitted' = emitted \o batch
        /\ ~stop /\ pc = "emit" /\ pc' = "idle"
    BY <1>3 DEF EmitBatch, senderVars, gpuVars, readVars
  <2>2. readyEmitted /\ ~Abandoned
    BY <1>1, <2>1 DEF ReadyFirst, Abandoned
  <2>3. ReadyFirst'
    BY <1>1, <2>1, <2>2 DEF ReadyFirst
  <2>4. emitted' \in Seq(ItemSet) /\ emitted' \o batch' = emitted'
    <3>1. emitted' \in Seq(ItemSet)
      BY <1>2, <2>1, ConcatProperties
    <3> QED BY <2>1, <3>1, ConcatEmptySeq
  <2>5. GatherInv'
    <3>1. Len(batch') = 0 /\ 1 .. Len(batch') = {} /\ 0 <= BatchSize
      BY <2>1, Sizes
    <3> QED BY <1>1, <2>1, <2>4, <3>1 DEF GatherInv
  <2>6. CountInv(K)'
    BY <1>1, <2>1 DEF CountInv
  <2>7. DeliveredInv(K)'
    <3>1. Owed' = Owed
      BY <2>1 DEF Owed
    <3> QED BY <1>1, <2>1, <2>2, <2>4, <3>1 DEF DeliveredInv
  <2> QED BY <2>3, <2>5, <2>6, <2>7 DEF StreamInv
<1>4. CASE EmitPending \/ EmitControlAtOnce
  <2>1. /\ UNCHANGED <<plan, nextSeq, frame, imms, active, stop, batch>>
        /\ batch = <<>> /\ control.kind # "none"
        /\ pc \in {"admit", "emit"} /\ pc' = "idle"
        /\ EmitControl
    <3>1. UNCHANGED <<plan, nextSeq, frame, imms, active, stop, batch>> /\ pc' = "idle" /\ EmitControl
      BY <1>4 DEF EmitPending, EmitControlAtOnce, EmitControl, senderVars, gpuVars, readVars
    <3>2. CASE EmitPending
      BY <1>1, <3>1, <3>2 DEF EmitPending, ComputeInv
    <3>3. CASE EmitControlAtOnce
      BY <1>1, <3>1, <3>3 DEF EmitControlAtOnce, GatherInv
    <3> QED BY <1>4, <3>1, <3>2, <3>3
  <2>2. /\ emitted' = IF control.kind = "ready" THEN emitted
                      ELSE Append(emitted, Item(control.kind, control.series, control.images))
        /\ readyEmitted' = (readyEmitted \/ control.kind = "ready")
        /\ control' = NoControl
    BY <2>1 DEF EmitControl
  <2>3. control \in ControlItems /\ frame = {} /\ readyEmitted \in BOOLEAN
    BY <1>1, <2>1 DEF GatherInv, ReadyFirst
  <2>4. readyEmitted' = TRUE
    BY <1>1, <2>1, <2>2, <2>3 DEF ReadyFirst
  <2>5. ReadyFirst'
    <3>1. control'.kind = "none"
      BY <2>2 DEF NoControl
    <3> QED BY <2>4, <3>1 DEF ReadyFirst
  <2>6. emitted' = emitted \o Owed /\ emitted' \in Seq(ItemSet)
    <3>1. CASE control.kind = "ready"
      <4>1. Owed = <<>>
        BY <3>1 DEF Owed
      <4>2. emitted \o <<>> = emitted
        BY <1>2, ConcatEmptySeq
      <4> QED BY <1>2, <2>2, <3>1, <4>1, <4>2
    <3>2. CASE control.kind # "ready"
      <4> DEFINE x == Item(control.kind, control.series, control.images)
      <4>1. control.kind \in {"start", "end"} /\ x \in ItemSet
        BY <2>1, <2>3, <3>2 DEF ControlItems, Item, ItemSet
      <4>2. Owed = <<x>> /\ emitted' = Append(emitted, x)
        BY <2>2, <3>2, <4>1 DEF Owed
      <4> HIDE DEF x
      <4>3. Append(emitted, x) = emitted \o <<x>> /\ Append(emitted, x) \in Seq(ItemSet)
        BY <1>2, <4>1, AppendIsConcat, AppendProperties
      <4> QED BY <4>2, <4>3
    <3> QED BY <3>1, <3>2
  <2>7. GatherInv'
    <3>1. Len(batch') = 0 /\ 1 .. Len(batch') = {} /\ 0 <= BatchSize
      BY <2>1, Sizes
    <3>2. control' \in ControlItems /\ control'.kind = "none"
      BY <2>2 DEF NoControl, ControlItems
    <3> QED BY <2>1, <2>6, <3>1, <3>2 DEF GatherInv
  <2>8. CountInv(K)'
    BY <1>1, <2>1 DEF CountInv
  <2>9. DeliveredInv(K)'
    <3>1. Owed' = <<>>
      BY <2>2 DEF Owed, NoControl
    <3>2. ~Abandoned
      BY <2>1 DEF Abandoned
    <3>3. (emitted \o batch) \o Owed = Through(plan, K[nextSeq] - 1)
      BY <1>1, <2>3, <3>2 DEF DeliveredInv
    <3>4. emitted \o batch = emitted
      BY <1>2, <2>1, ConcatEmptySeq
    <3>5. (emitted' \o batch') \o Owed' = emitted'
      BY <2>1, <2>6, <3>1, ConcatEmptySeq
    <3> QED BY <2>1, <2>3, <2>6, <3>3, <3>4, <3>5 DEF DeliveredInv
  <2> QED BY <2>5, <2>7, <2>8, <2>9 DEF StreamInv
<1> QED
  BY <1>3, <1>4

\* ImageItems of the frame go into the batch in order.
LEMMA GatherItems ==
  ASSUME NEW P \in NatSeqs, NEW K \in NatSeqs, Inv(P, K), Gather
  PROVE  \E f \in frame, take \in Nat \ {0} :
           /\ frame = {f}
           /\ batch' = batch \o [i \in 1 .. take |-> Item("image", f.rec.series, f.rec.id + f.used + i - 1)]
           /\ Len(batch) + take <= BatchSize /\ pc' \in {"emit", "loop"} /\ pc = "step"
           /\ \/ \E g : frame' = {g} /\ g.rec = f.rec /\ g.used = f.used + take
              \/ frame' = {} /\ f.rec.n = f.used + take
           /\ UNCHANGED <<plan, readyEmitted, nextSeq, emitted, control, imms, active, stop>>
<1>1. pc = "step"
      /\ UNCHANGED <<plan, readyEmitted, nextSeq, emitted, control, imms, active, stop>>
  BY DEF Gather, senderVars, outVars
<1>2. Len(batch) \in Nat /\ Len(batch) < BatchSize
  BY <1>1, LenProperties DEF Inv, ComputeInv
<1>3. PICK f \in frame :
       LET take  == Least(f.rec.n - f.used, BatchSize - Len(batch))
           event == {[st |-> stream, op |-> ops + 1]}
           ids   == [i \in 1 .. take |-> Item("image", f.rec.series, f.rec.id + f.used + i - 1)]
           onward == IF Len(batch) + take = BatchSize THEN "emit" ELSE "loop"
       IN /\ batch' = batch \o ids
          /\ IF f.used + take < f.rec.n
             THEN /\ frame' = {[f EXCEPT !.used = @ + take, !.last = event]}
                  /\ pc' = onward
             ELSE /\ frame' = {}
                  /\ IF Advances(readerPos) THEN pc' = onward ELSE pc' = "rejected"
  BY DEF Gather
<1> DEFINE take  == Least(f.rec.n - f.used, BatchSize - Len(batch))
           event == {[st |-> stream, op |-> ops + 1]}
<1>4. f.rec.n \in Nat \ {0} /\ f.used \in Nat /\ f.used < f.rec.n
  BY FrameFacts
<1>5. frame = {f} /\ f = [rec |-> f.rec, used |-> f.used, last |-> f.last]
  BY DEF Inv, FrameInv
<1>6. take \in Nat \ {0} /\ f.used + take <= f.rec.n /\ Len(batch) + take <= BatchSize
  <2>1. BatchSize \in Nat
    BY Sizes
  <2> QED BY <1>2, <1>4, <2>1 DEF Least
<1>7. Advances(readerPos)
  BY FrameAdvances
<1>8. [f EXCEPT !.used = @ + take, !.last = event]
        = [rec |-> f.rec, used |-> f.used + take, last |-> event]
  <2> HIDE DEF event, take
  <2>1. \A u, e : [f EXCEPT !.used = @ + u, !.last = e] = [rec |-> f.rec, used |-> f.used + u, last |-> e]
    BY <1>5, ReadOn
  <2> QED BY <2>1
<1>9. /\ batch' = batch \o [i \in 1 .. take |-> Item("image", f.rec.series, f.rec.id + f.used + i - 1)]
      /\ pc' \in {"emit", "loop"}
      /\ \/ f.used + take < f.rec.n /\ frame' = {[rec |-> f.rec, used |-> f.used + take, last |-> event]}
         \/ ~(f.used + take < f.rec.n) /\ frame' = {}
  BY <1>3, <1>7, <1>8
<1> HIDE DEF take, event
<1>10. \/ \E g : frame' = {g} /\ g.rec = f.rec /\ g.used = f.used + take
       \/ frame' = {} /\ f.rec.n = f.used + take
  <2>1. CASE f.used + take < f.rec.n /\ frame' = {[rec |-> f.rec, used |-> f.used + take, last |-> event]}
    <3>1. PICK g : g = [rec |-> f.rec, used |-> f.used + take, last |-> event]
      OBVIOUS
    <3>2. frame' = {g} /\ g.rec = f.rec /\ g.used = f.used + take
      BY <2>1, <3>1
    <3> QED BY <3>2
  <2>2. CASE ~(f.used + take < f.rec.n) /\ frame' = {}
    <3>1. f.rec.n = f.used + take
      BY <2>2, <1>4, <1>6
    <3> QED BY <2>2, <3>1
  <2> QED BY <1>9, <2>1, <2>2
<1> QED
  BY <1>1, <1>5, <1>6, <1>9, <1>10

\* Gathering takes the next images of the frame.
LEMMA StreamGather ==
  ASSUME NEW P \in NatSeqs, NEW K \in NatSeqs, Inv(P, K), StreamInv(K), Gather
  PROVE  StreamInv(K)'
<1>1. /\ ReadyFirst /\ GatherInv /\ CountInv(K) /\ ComputeInv /\ DeliveredInv(K)
      /\ ReaderInv(P, K) /\ SenderInv(P, K)
  BY DEF StreamInv, Inv
<1>2. PICK f \in frame, take \in Nat \ {0} :
           /\ frame = {f}
           /\ batch' = batch \o [i \in 1 .. take |-> Item("image", f.rec.series, f.rec.id + f.used + i - 1)]
           /\ Len(batch) + take <= BatchSize /\ pc' \in {"emit", "loop"} /\ pc = "step"
           /\ \/ \E g : frame' = {g} /\ g.rec = f.rec /\ g.used = f.used + take
              \/ frame' = {} /\ f.rec.n = f.used + take
           /\ UNCHANGED <<plan, readyEmitted, nextSeq, emitted, control, imms, active, stop>>
  BY GatherItems
<1> DEFINE k == K[nextSeq]
           g == f.rec
           u == f.used
           ids == [i \in 1 .. take |-> Item("image", g.series, g.id + u + i - 1)]
<1>3. /\ k - 1 \in 1 .. Len(plan) /\ k - 2 \in 0 .. Len(plan)
      /\ plan[k - 1].kind = "image" /\ plan[k - 1].series = g.series
      /\ g.series \in Nat /\ g.id \in Nat /\ u \in Nat
      /\ Items(plan[k - 1]) = Part(g, g.n)
  BY FrameRecord
<1>4. /\ batch \in Seq(ItemSet) /\ Len(batch) \in Nat /\ emitted \in Seq(ItemSet)
      /\ plan \in Plans /\ Len(plan) \in Nat /\ k \in Nat
  <2>1. nextSeq \in Nat
    BY <1>1, FrameFacts
  <2>2. k \in Nat
    BY <2>1, NatSeqsNat
  <2> QED BY <1>1, <2>2, BatchItems, PlanRecords DEF GatherInv, SenderInv
<1>5. readyEmitted /\ control.kind = "none" /\ Owed = <<>>
  BY <1>1, <1>2 DEF ReadyFirst, GatherInv, Owed
<1>6. active.on /\ active.series = g.series
  <2>1. k > 1 /\ plan[k - 1].kind # "end"
    BY <1>3, <1>4
  <2> QED BY <2>1, <1>1, <1>2, <1>3 DEF ReaderInv
<1>7. emitted \o batch = Through(plan, k - 2) \o Part(g, u)
  BY <1>1, <1>2 DEF DeliveredInv, Abandoned
<1>8. batch' = batch \o ids
  BY <1>2
<1>9. UNCHANGED <<plan, nextSeq, active, emitted>> /\ ~Abandoned /\ K[nextSeq'] = k
  BY <1>2 DEF Abandoned
<1> HIDE DEF k
<1>10. /\ Part(g, u) \in Seq(ItemSet) /\ ids \in Seq(ItemSet) /\ Len(ids) = take
       /\ \A i \in 1 .. take : ids[i].series = g.series
       /\ Part(g, u + take) = Part(g, u) \o ids
  <2> DEFINE v == u + take
  <2>1. Taking(g, u, take, v, ids)
    BY <1>3 DEF Taking
  <2> HIDE DEF ids, g, u, v
  <2>2. Part(g, v) = Part(g, u) \o ids /\ Part(g, u) \in Seq(ItemSet)
    BY <2>1, PartGrows
  <2>3. ids \in Seq(ItemSet) /\ Len(ids) = take
    BY <2>1, PartGrows
  <2>4. \A i \in 1 .. take : ids[i].series = g.series
    BY <2>1, PartGrows
  <2> QED BY <2>2, <2>3, <2>4 DEF v
<1> HIDE DEF ids
<1>11. /\ Len(batch') = Len(batch) + take
       /\ \A i \in 1 .. Len(batch') : batch'[i] = IF i <= Len(batch) THEN batch[i] ELSE ids[i - Len(batch)]
  BY <1>4, <1>8, <1>10, ConcatProperties
<1>12. Through(plan, k - 2) \in Seq(ItemSet) /\ Through(plan, k - 1) = Through(plan, k - 2) \o Part(g, g.n)
  <2>1. k - 2 < Len(plan) /\ (k - 2) + 1 = k - 1
    BY <1>3, <1>4
  <2> QED BY <2>1, <1>3, <1>4, ThroughGrows
<1>13. emitted \o batch' = Through(plan, k - 2) \o Part(g, u + take)
  <2> DEFINE a == Through(plan, k - 2)
             b == Part(g, u)
  <2>1. /\ a \in Seq(ItemSet) /\ b \in Seq(ItemSet) /\ ids \in Seq(ItemSet)
        /\ emitted \in Seq(ItemSet) /\ batch \in Seq(ItemSet)
    BY <1>4, <1>10, <1>12
  <2> HIDE DEF a, b
  <2>2. (emitted \o batch) \o ids = emitted \o (batch \o ids)
    BY <2>1, ItemsAssociate, Zenon
  <2>3. (a \o b) \o ids = a \o (b \o ids)
    BY <2>1, ItemsAssociate, Zenon
  <2> QED BY <1>7, <1>8, <1>10, <2>2, <2>3 DEF a, b
<1>14. ReadyFirst'
  BY <1>1, <1>2, <1>5 DEF ReadyFirst
<1>15. GatherInv'
  <2>1. ASSUME NEW i \in 1 .. Len(batch')
        PROVE  batch'[i].series = active.series
    <3>1. CASE i <= Len(batch)
      <4>1. i \in 1 .. Len(batch)
        BY <1>4, <3>1
      <4> QED BY <1>1, <1>11, <3>1, <4>1 DEF GatherInv
    <3>2. CASE ~(i <= Len(batch))
      <4>1. i - Len(batch) \in 1 .. take
        BY <1>4, <1>11, <3>2
      <4> QED BY <1>6, <1>10, <1>11, <3>2, <4>1
    <3> QED BY <3>1, <3>2
  <2>2. batch' # <<>>
    <3>1. Len(batch') # 0
      BY <1>4, <1>11
    <3> QED BY <3>1
  <2> QED BY <1>1, <1>2, <1>5, <1>6, <1>11, <2>1, <2>2 DEF GatherInv
<1>16. CountInv(K)'
  BY <1>1, <1>2 DEF CountInv
<1>17. DeliveredInv(K)'
  <2>1. Owed' = <<>>
    BY <1>2, <1>5 DEF Owed
  <2>2. CASE \E h : frame' = {h} /\ h.rec = f.rec /\ h.used = f.used + take
    <3>1. PICK h : frame' = {h} /\ h.rec = f.rec /\ h.used = f.used + take
      BY <2>2
    <3> QED BY <3>1, <1>9, <1>13 DEF DeliveredInv
  <2>3. CASE frame' = {} /\ f.rec.n = f.used + take
    <3>1. emitted \o batch' = Through(plan, k - 1)
      BY <2>3, <1>12, <1>13
    <3>2. emitted \o batch' \in Seq(ItemSet)
      <4>1. batch' \in Seq(ItemSet)
        BY <1>4, <1>8, <1>10, ConcatProperties
      <4> QED BY <4>1, <1>4, ConcatProperties
    <3>3. (emitted \o batch') \o <<>> = emitted \o batch'
      BY <3>2, ConcatEmptySeq
    <3> QED BY <2>1, <2>3, <3>1, <3>3, <1>9 DEF DeliveredInv
  <2> QED BY <2>2, <2>3, <1>2
<1> QED
  BY <1>14, <1>15, <1>16, <1>17 DEF StreamInv

\* Reading a frame: a control record waits to be emitted, an image record to be gathered,
\* and the count of images is the sender's.
LEMMA StreamRead ==
  ASSUME NEW P \in NatSeqs, NEW K \in NatSeqs, Inv(P, K), StreamInv(K), ReadFrame
  PROVE  StreamInv(K)'
<1> DEFINE h == Posted(plan, P, K, nextSeq)
           k == K[nextSeq]
           r == plan[k]
<1>1. /\ ReadyFirst /\ GatherInv /\ CountInv(K) /\ DeliveredInv(K)
      /\ ComputeInv /\ ReaderInv(P, K) /\ SenderInv(P, K)
  BY DEF StreamInv, Inv
<1>2. /\ pc = "step" /\ imms # <<>> /\ frame = {} /\ pc' = "loop" /\ control.kind = "none"
      /\ Accept(h) /\ nextSeq' = nextSeq + 1
      /\ UNCHANGED <<plan, readyEmitted, emitted, batch, stop>>
  BY ReadFrameEffect DEF ReadFrame, senderVars, outVars, gpuVars
<1>3. nextSeq \in 0 .. (seq - 1) /\ Legal(h) /\ h \in FrameSet /\ (h.kind = "image" => h.n > 0)
  BY <1>2, HeaderFacts
<1>4. /\ nextSeq \in Nat /\ k \in 1 .. Len(plan) /\ plan \in Plans
      /\ h.kind = "wrap" => K[nextSeq + 1] = k
      /\ h.kind # "wrap" => K[nextSeq + 1] = k + 1
  BY <1>1, <1>3, PostFacts DEF SenderInv
<1>5. h.kind # "wrap" => h.kind = r.kind /\ h.series = r.series /\ h.id = r.id /\ h.n = r.n
  BY <1>4, PostRecord
<1>6. /\ r \in Record /\ Len(plan) \in Nat /\ k \in Nat
      /\ (r.kind = "image" => r.n > 0)
  BY <1>4, PlanRecords
<1>7. /\ r.kind = "start" => r.n = 0
      /\ r.kind = "image" => r.id = Counted(plan[k - 1])
      /\ r.kind = "end" => r.n = Counted(plan[k - 1])
  BY <1>4, PlanNumbers
<1>8. active \in [on : BOOLEAN, series : Nat, images : Nat]
  BY <1>1 DEF ReaderInv
<1>9. active.on => active.images = Counted(plan[k - 1])
  BY <1>1, <1>2 DEF CountInv
<1>10. /\ readyEmitted /\ readyEmitted' /\ Owed = <<>> /\ ~Abandoned
       /\ emitted \in Seq(ItemSet) /\ batch \in Seq(ItemSet) /\ emitted \o batch \in Seq(ItemSet)
  <2>1. emitted \in Seq(ItemSet) /\ batch \in Seq(ItemSet)
    BY <1>1, BatchItems DEF GatherInv
  <2>2. emitted \o batch \in Seq(ItemSet)
    BY <2>1, ConcatProperties
  <2> QED BY <1>1, <1>2, <2>1, <2>2 DEF ReadyFirst, Owed, Abandoned
<1>11. emitted \o batch = Through(plan, k - 1)
  <2>1. (emitted \o batch) \o Owed = Through(plan, k - 1)
    BY <1>1, <1>2, <1>10 DEF DeliveredInv
  <2> QED BY <1>10, <2>1, ConcatEmptySeq
<1>12. Through(plan, k) = Through(plan, k - 1) \o Items(r)
  <2>1. k - 1 \in 0 .. Len(plan) /\ k - 1 < Len(plan) /\ (k - 1) + 1 = k
    BY <1>4, <1>6
  <2> QED BY <1>4, <2>1, ThroughGrows
<1>13. K[nextSeq'] = K[nextSeq + 1] /\ plan' = plan /\ (k + 1) - 1 = k /\ (k + 1) - 2 = k - 1
  BY <1>2, <1>6
<1>14. batch # <<>> => active.on
  BY <1>1, <1>2 DEF GatherInv
<1>15. \A i \in 1 .. Len(batch) : batch[i].series = active.series
  BY <1>1 DEF GatherInv
<1> HIDE DEF h, k, r
<1>16. CASE h.kind = "wrap"
  <2>1. UNCHANGED <<active, control, frame>>
    BY <1>2, <1>16 DEF Accept
  <2>2. ReadyFirst'
    BY <1>1, <1>2, <1>10, <2>1 DEF ReadyFirst
  <2>3. GatherInv'
    BY <1>1, <1>2, <2>1 DEF GatherInv
  <2>4. CountInv(K)'
    BY <1>2, <1>4, <1>9, <1>13, <1>16, <2>1 DEF CountInv
  <2>5. Owed' = <<>>
    BY <1>10, <2>1 DEF Owed
  <2>6. DeliveredInv(K)'
    <3>1. (emitted \o batch) \o <<>> = emitted \o batch
      BY <1>10, ConcatEmptySeq
    <3> QED BY <1>2, <1>4, <1>11, <1>13, <1>16, <2>1, <2>5, <3>1 DEF DeliveredInv
  <2> QED BY <2>2, <2>3, <2>4, <2>6 DEF StreamInv
<1>17. CASE h.kind \in {"start", "end"}
  <2>1. K[nextSeq'] = k + 1 /\ h.kind = r.kind /\ h.series = r.series /\ h.n = r.n
    BY <1>4, <1>5, <1>13, <1>17
  <2>2. Items(r) = <<Item(r.kind, r.series, r.n)>> /\ Counted(r) = 0
    BY <1>17, <2>1 DEF Items, Counted
  <2>3. /\ frame' = {}
        /\ control' = [kind |-> r.kind, series |-> r.series, images |-> r.n]
        /\ active'.on => active'.images = Counted(r)
        /\ active'.series = active.series \/ batch = <<>>
    <3>1. CASE h.kind = "start"
      <4>1. /\ active' = [on |-> TRUE, series |-> h.series, images |-> 0]
            /\ control' = [kind |-> "start", series |-> h.series, images |-> 0]
            /\ frame' = {}
        BY <1>2, <3>1 DEF Accept
      <4>2. ~active.on
        BY <1>3, <3>1 DEF Legal
      <4>3. active'.images = 0
        BY <4>1
      <4> QED BY <1>7, <1>14, <2>1, <2>2, <3>1, <4>1, <4>2, <4>3
    <3>2. CASE h.kind = "end"
      <4>1. /\ active' = [active EXCEPT !.on = FALSE]
            /\ control' = [kind |-> "end", series |-> active.series, images |-> active.images]
            /\ frame' = {}
        BY <1>2, <3>2 DEF Accept
      <4>2. active.on /\ h.series = active.series
        BY <1>3, <3>2 DEF Legal
      <4>3. ~active'.on /\ active'.series = active.series
        BY <1>8, <4>1
      <4>4. active.images = r.n
        BY <1>7, <1>9, <2>1, <3>2, <4>2
      <4> QED BY <2>1, <3>2, <4>1, <4>2, <4>3, <4>4
    <3> QED BY <1>17, <3>1, <3>2
  <2>4. control'.kind = r.kind /\ control'.series = r.series /\ control'.images = r.n
        /\ r.kind \in {"start", "end"} /\ r.series \in Nat /\ r.n \in Nat
    BY <1>6, <1>17, <2>1, <2>3 DEF Record
  <2>5. ReadyFirst'
    BY <1>2, <1>10, <2>4 DEF ReadyFirst
  <2>6. GatherInv'
    <3>1. control' \in ControlItems
      BY <2>3, <2>4 DEF ControlItems
    <3>2. \A i \in 1 .. Len(batch) : batch[i].series = active'.series
      <4>1. CASE active'.series = active.series
        BY <1>15, <4>1
      <4>2. CASE batch = <<>>
        <5>1. 1 .. Len(batch) = {}
          BY <4>2
        <5> QED BY <5>1
      <4> QED BY <2>3, <4>1, <4>2
    <3> QED BY <1>1, <1>2, <2>3, <2>4, <3>1, <3>2 DEF GatherInv
  <2>7. CountInv(K)'
    BY <1>13, <2>1, <2>3 DEF CountInv, r
  <2>8. Owed' = Items(r)
    BY <2>2, <2>4 DEF Owed
  <2>9. DeliveredInv(K)'
    <3>1. (emitted \o batch) \o Owed' = Through(plan, k)
      BY <1>11, <1>12, <2>8
    <3> QED BY <1>2, <1>13, <2>1, <2>3, <3>1 DEF DeliveredInv
  <2> QED BY <2>5, <2>6, <2>7, <2>9 DEF StreamInv
<1>18. CASE h.kind = "image"
  <2>1. /\ K[nextSeq'] = k + 1 /\ h.kind = r.kind /\ h.series = r.series /\ h.n = r.n /\ h.id = r.id
    BY <1>4, <1>5, <1>13, <1>18
  <2>2. /\ active' = [active EXCEPT !.images = @ + h.n]
        /\ frame' = {[rec |-> h, used |-> 0, last |-> {}]}
        /\ control' = control
    BY <1>2, <1>18 DEF Accept
  <2>3. active.on /\ h.series = active.series
    BY <1>3, <1>18 DEF Legal
  <2>4. r.n \in Nat /\ r.id \in Nat /\ r.series \in Nat /\ active.images \in Nat
    BY <1>6, <1>8 DEF Record
  <2>5. active'.on /\ active'.series = active.series /\ active'.images = Counted(r)
    <3>1. active'.on = active.on /\ active'.series = active.series /\ active'.images = active.images + h.n
      BY <1>8, <2>2
    <3>2. Counted(r) = r.id + r.n
      BY <1>18, <2>1 DEF Counted
    <3>3. active.images = r.id
      BY <1>7, <1>9, <1>18, <2>1, <2>3
    <3> QED BY <2>1, <2>3, <3>1, <3>2, <3>3
  <2>6. ReadyFirst'
    BY <1>2, <1>10, <2>2 DEF ReadyFirst
  <2>7. GatherInv'
    BY <1>1, <1>2, <1>15, <2>2, <2>5 DEF GatherInv
  <2>8. CountInv(K)'
    BY <1>13, <2>1, <2>5 DEF CountInv, r
  <2>9. DeliveredInv(K)'
    <3>1. ASSUME NEW f \in frame'
          PROVE  emitted \o batch = Through(plan, k - 1) \o Part(f.rec, f.used)
      <4>1. f.rec = h /\ f.used = 0
        BY <2>2, <3>1
      <4>2. Part(f.rec, f.used) = <<>>
        BY <4>1 DEF Part
      <4>3. (emitted \o batch) \o <<>> = emitted \o batch
        BY <1>10, ConcatEmptySeq
      <4> QED BY <1>11, <4>2, <4>3
    <3>2. frame' # {}
      BY <2>2
    <3> QED BY <1>2, <1>13, <2>1, <3>1, <3>2 DEF DeliveredInv
  <2> QED BY <2>6, <2>7, <2>8, <2>9 DEF StreamInv
<1> QED
  BY <1>3, <1>16, <1>17, <1>18 DEF FrameSet

\* Every step keeps what was delivered what the sender produced.
LEMMA StreamStep ==
  ASSUME StreamInvariant, [Next]_vars
  PROVE  StreamInvariant'
<1>1. PICK P \in NatSeqs, K \in NatSeqs : Inv(P, K) /\ StreamInv(K)
  BY DEF StreamInvariant
<1>2. CASE Send
  <2>1. PICK PP \in NatSeqs, KK \in NatSeqs : Inv(PP, KK)' /\ \A q \in 0 .. seq : KK[q] = K[q]
    BY <1>1, <1>2, SendStep
  <2>2. nextSeq \in 0 .. seq
    <3>1. /\ nextSeq \in Nat /\ Placed \in Nat /\ seq \in Nat /\ nextSeq <= Placed /\ Placed <= seq
      BY <1>1, Counters DEF Inv
    <3> QED BY <3>1
  <2>3. StreamInv(KK)'
    BY <1>1, <1>2, <2>1, <2>2, StreamQuiet
  <2> QED BY <2>1, <2>3 DEF StreamInvariant
<1>3. CASE ~Send
  <2>1. Inv(P, K)'
    BY <1>1, <1>3, OtherStep
  <2>2. StreamInv(K)'
    <3>1. CASE \/ PlaceFrame \/ PlaceCredit \/ Gpu \/ RequestStop \/ Release \/ UNCHANGED vars
               \/ Activate \/ Iterate \/ WaitForWindow \/ EnterLoop \/ BreakForControl
               \/ RepostDeficit \/ RepostConsumed \/ PollNoRoom
      BY <1>1, <3>1, StreamQuiet
    <3>2. CASE EmitPending \/ EmitControlAtOnce \/ EmitBatch
      BY <1>1, <3>2, StreamEmit
    <3>3. CASE Abandon \/ StopOperator
      BY <1>1, <3>3, StreamAbandon
    <3>4. CASE Gather
      BY <1>1, <3>4, StreamGather
    <3>5. CASE ReadFrame
      BY <1>1, <3>5, StreamRead
    <3>6. CASE Poll
      BY <1>1, <3>6, StreamPoll
    <3> QED BY <1>3, <3>1, <3>2, <3>3, <3>4, <3>5, <3>6 DEF Next, Compute
  <2> QED BY <2>1, <2>2 DEF StreamInvariant
<1> QED
  BY <1>2, <1>3

-----------------------------------------------------------------------------
(* The steps of the ring are steps of the feed, or leave it alone.          *)

\* Another record produces its items.
LEMMA SendProduces ==
  ASSUME StreamInvariant, SendRecord
  PROVE  Feed!Produce
<1>1. PICK P \in NatSeqs, K \in NatSeqs : Inv(P, K)
  BY DEF StreamInvariant
<1>2. /\ next <= Len(plan) /\ next' = next + 1
      /\ UNCHANGED <<plan, emitted, readyEmitted>>
  BY DEF SendRecord, Post, outVars
<1>3. plan \in Plans /\ next \in 1 .. Len(plan) + 1
  BY <1>1 DEF Inv, SenderInv
<1>4. Len(plan) \in Nat /\ next \in 1 .. Len(plan) /\ next \in Nat
      /\ (next + 1) - 1 = next /\ next - 1 \in 0 .. Len(plan) /\ next - 1 < Len(plan) /\ (next - 1) + 1 = next
  BY <1>2, <1>3, PlanRecords
<1> DEFINE b == Through(plan, next - 1)
           c == Items(plan[next])
           w == Through(plan, next)
<1>5. Produced = b /\ Produced' = w
  BY <1>2, <1>4 DEF Produced, Through
<1>6. c \in Seq(ItemSet) /\ Len(c) > 0
  BY <1>3, <1>4, PlanRecords, ItemsType
<1>7. b \in Seq(ItemSet) /\ w = b \o c
  BY <1>3, <1>4, ThroughGrows
<1> HIDE DEF b, c, w
<1>8. /\ SubSeq(w, 1, Len(b)) = b /\ Len(w) > Len(b)
  <2>1. <<>> \in Seq(ItemSet) /\ Len(<<>>) = 0
    BY EmptySeq
  <2>2. w = (<<>> \o b) \o c
    BY <1>7, ConcatEmptySeq
  <2> DEFINE e == <<>>
  <2>3. e \in Seq(ItemSet) /\ Len(e) = 0 /\ w = (e \o b) \o c
    BY <2>1, <2>2
  <2> HIDE DEF e
  <2>4. /\ SubSeq(w, Len(e) + 1, Len(e) + Len(b)) = b
        /\ Len(w) - Len(e) = Len(b) + Len(c) /\ w \in Seq(ItemSet) /\ Len(b) \in Nat /\ Len(c) \in Nat
    BY <1>6, <1>7, <2>3, Middle
  <2>5. Len(w) \in Nat
    BY <2>4, LenProperties
  <2> QED BY <1>6, <2>3, <2>4, <2>5
<1> QED
  BY <1>2, <1>5, <1>8 DEF Feed!Produce

\* Publishing a batch delivers the next images of the series.
LEMMA BatchDelivers ==
  ASSUME StreamInvariant, EmitBatch
  PROVE  Feed!Deliver
<1>1. PICK P \in NatSeqs, K \in NatSeqs : Inv(P, K) /\ StreamInv(K)
  BY DEF StreamInvariant
<1>2. /\ pc = "emit" /\ ~stop /\ batch # <<>> /\ emitted' = emitted \o batch
      /\ UNCHANGED <<plan, next, readyEmitted>>
  BY DEF EmitBatch, senderVars
<1>3. ComputeInv /\ ReadyFirst /\ GatherInv /\ ~Abandoned
  BY <1>1, <1>2 DEF Inv, StreamInv, Abandoned
<1>4. readyEmitted
  BY <1>2, <1>3 DEF ReadyFirst
<1>5. /\ batch \in Seq(ItemSet) /\ emitted \in Seq(ItemSet) /\ Owed \in Seq(ItemSet)
      /\ Len(batch) \in 1 .. BatchSize
  <2>1. batch \in Seq(ItemSet) /\ Len(batch) \in Nat /\ Len(batch) # 0 /\ Len(batch) <= BatchSize
    BY <1>2, <1>3, BatchItems DEF GatherInv
  <2>2. Len(batch) \in 1 .. BatchSize
    BY <2>1, Sizes
  <2>3. Owed \in Seq(ItemSet)
    <3>1. CASE control.kind \in {"start", "end"}
      <4>1. Item(control.kind, control.series, control.images) \in ItemSet
        BY <1>3, <3>1 DEF GatherInv, ControlItems, Item, ItemSet
      <4> QED BY <3>1, <4>1 DEF Owed
    <3>2. CASE control.kind \notin {"start", "end"}
      BY <3>2, EmptySeq DEF Owed
    <3> QED BY <3>1, <3>2
  <2> QED BY <1>3, <2>1, <2>2, <2>3 DEF GatherInv
<1>6. PICK rest \in Seq(ItemSet) : Produced = ((emitted \o batch) \o Owed) \o rest
  BY <1>1, <1>3, Remaining
<1> DEFINE a == emitted \o batch
           o == Owed
           c == o \o rest
           w == Produced
<1>7. w = (emitted \o batch) \o c /\ c \in Seq(ItemSet)
  <2>1. a \in Seq(ItemSet)
    BY <1>5, ConcatProperties
  <2>2. o \in Seq(ItemSet) /\ rest \in Seq(ItemSet) /\ w = (a \o o) \o rest
    BY <1>5, <1>6
  <2> HIDE DEF a, o, w
  <2>3. (a \o o) \o rest = a \o (o \o rest)
    BY <2>1, <2>2, ItemsAssociate, Zenon
  <2>4. o \o rest \in Seq(ItemSet)
    BY <2>2, ConcatProperties
  <2> QED BY <2>2, <2>3, <2>4 DEF a
<1> HIDE DEF c, w
<1>8. /\ SubSeq(w, Len(emitted) + 1, Len(emitted) + Len(batch)) = batch
      /\ Len(batch) \in 1 .. (Len(w) - Len(emitted))
  <2>1. /\ SubSeq(w, Len(emitted) + 1, Len(emitted) + Len(batch)) = batch
        /\ Len(w) - Len(emitted) = Len(batch) + Len(c) /\ Len(batch) \in Nat /\ Len(c) \in Nat
    BY <1>5, <1>7, Middle
  <2> QED BY <1>5, <2>1
<1>9. Feed!Message(batch)
  <2>1. DOMAIN batch = 1 .. Len(batch) /\ 1 \in 1 .. Len(batch)
    BY <1>5, LenProperties
  <2>2. \A i \in 1 .. Len(batch) : batch[i].kind = "image" /\ batch[i].series = active.series
    <3>1. \A i \in 1 .. Len(batch) : batch[i].kind = "image"
      <4> DEFINE I == [kind : {"image"}, series : Nat, id : Nat]
      <4>1. batch \in Seq(I) /\ \A x \in I : x.kind = "image"
        BY <1>3 DEF ComputeInv
      <4> HIDE DEF I
      <4> QED BY <4>1, ElementOfSeq
    <3> QED BY <1>3, <3>1 DEF GatherInv
  <2> QED BY <1>5, <2>1, <2>2 DEF Feed!Message
<1>10. Feed!NextItems(Len(batch)) = batch
  BY <1>8 DEF Feed!NextItems, w
<1>11. Produced' = Produced
  BY <1>2 DEF Produced
<1> QED
  BY <1>2, <1>4, <1>8, <1>9, <1>10, <1>11 DEF Feed!Deliver, w

\* Publishing a control message announces, or delivers one item.
LEMMA ControlDelivers ==
  ASSUME StreamInvariant, EmitPending \/ EmitControlAtOnce
  PROVE  Feed!Announce \/ Feed!Deliver
<1>1. PICK P \in NatSeqs, K \in NatSeqs : Inv(P, K) /\ StreamInv(K)
  BY DEF StreamInvariant
<1>2. ComputeInv /\ ReadyFirst /\ GatherInv
  BY <1>1 DEF Inv, StreamInv
<1>3. /\ batch = <<>> /\ control.kind # "none" /\ pc \in {"admit", "emit"} /\ EmitControl
  <2>1. CASE EmitPending
    BY <1>2, <2>1 DEF EmitPending, ComputeInv
  <2>2. CASE EmitControlAtOnce
    BY <1>2, <2>2 DEF EmitControlAtOnce, GatherInv
  <2> QED BY <2>1, <2>2
<1>4. /\ emitted' = IF control.kind = "ready" THEN emitted
                    ELSE Append(emitted, Item(control.kind, control.series, control.images))
      /\ readyEmitted' = (readyEmitted \/ control.kind = "ready")
      /\ UNCHANGED <<plan, next>>
  BY <1>3 DEF EmitControl, senderVars
<1>5. Produced' = Produced
  BY <1>4 DEF Produced
<1>6. CASE control.kind = "ready"
  <2>1. ~readyEmitted /\ emitted = <<>> /\ readyEmitted' = TRUE /\ emitted' = emitted
    BY <1>2, <1>4, <1>6 DEF ReadyFirst
  <2> QED BY <1>5, <2>1 DEF Feed!Announce
<1>7. CASE control.kind # "ready"
  <2> DEFINE x == Item(control.kind, control.series, control.images)
             w == Produced
             b == <<x>>
  <2>1. control.kind \in {"start", "end"} /\ x \in ItemSet /\ readyEmitted /\ emitted \in Seq(ItemSet)
    BY <1>2, <1>3, <1>7 DEF ControlItems, Item, ItemSet, GatherInv, ReadyFirst
  <2>2. Owed = b /\ emitted' = Append(emitted, x) /\ readyEmitted' = readyEmitted
    BY <1>2, <1>4, <1>7, <2>1 DEF Owed, ReadyFirst
  <2>3. PICK rest \in Seq(ItemSet) : w = ((emitted \o batch) \o Owed) \o rest
    <3>1. ~Abandoned
      BY <1>3 DEF Abandoned
    <3> QED BY <1>1, <3>1, Remaining
  <2>4. emitted \o batch = emitted
    BY <1>3, <2>1, ConcatEmptySeq
  <2>5. w = (emitted \o b) \o rest
    BY <2>2, <2>3, <2>4
  <2>6. b \in Seq(ItemSet) /\ Len(b) = 1
    BY <2>1
  <2>7. Append(emitted, x) = emitted \o <<x>>
    <3> HIDE DEF x
    <3> QED BY <2>1, AppendIsConcat
  <2> HIDE DEF x, w
  <2>8. emitted' = emitted \o b
    BY <2>2, <2>7
  <2>9. emitted \in Seq(ItemSet) /\ b \in Seq(ItemSet) /\ rest \in Seq(ItemSet)
    BY <2>1, <2>6
  <2> HIDE DEF b
  <2>10. /\ SubSeq(w, Len(emitted) + 1, Len(emitted) + Len(b)) = b
        /\ Len(w) - Len(emitted) = Len(b) + Len(rest) /\ Len(rest) \in Nat
    BY <2>5, <2>9, Middle
  <2>11. 1 \in 1 .. (Len(w) - Len(emitted)) /\ SubSeq(w, Len(emitted) + 1, Len(emitted) + 1) = b
    BY <2>6, <2>10
  <2>12. Feed!NextItems(1) = b
    BY <2>11 DEF Feed!NextItems, w
  <2>13. Feed!Message(b)
    BY <2>6 DEF Feed!Message
  <2> QED BY <1>5, <2>1, <2>2, <2>8, <2>11, <2>12, <2>13 DEF Feed!Deliver, w
<1> QED
  BY <1>6, <1>7

\* Every other step leaves the feed alone.
LEMMA RestIsQuiet ==
  ASSUME [Next]_vars, ~SendRecord, ~EmitBatch, ~EmitPending, ~EmitControlAtOnce
  PROVE  UNCHANGED Feed!feedVars
<1>1. UNCHANGED <<plan, next, emitted, readyEmitted>>
  <2>1. CASE Send
    BY <2>1 DEF Send, SendWrap, Post, outVars
  <2>2. CASE PlaceFrame
    BY <2>2 DEF PlaceFrame, senderVars, outVars
  <2>3. CASE PlaceCredit
    BY <2>3 DEF PlaceCredit, senderVars, outVars
  <2>4. CASE Gpu
    BY <2>4 DEF Gpu, GpuRead, senderVars, outVars
  <2>5. CASE RequestStop \/ Release \/ UNCHANGED vars
    BY <2>5 DEF RequestStop, Release, vars, senderVars, outVars
  <2>6. CASE Compute
    <3>1. CASE Activate \/ WaitForWindow \/ EnterLoop \/ Iterate \/ BreakForControl
      BY <3>1 DEF Activate, WaitForWindow, EnterLoop, Iterate, BreakForControl, senderVars, outVars
    <3>2. CASE Gather
      BY <3>2 DEF Gather, senderVars, outVars
    <3>3. CASE ReadFrame
      BY <3>3 DEF ReadFrame, senderVars, outVars
    <3>4. CASE RepostDeficit \/ RepostConsumed
      BY <3>4 DEF RepostDeficit, RepostConsumed, Repost, senderVars, outVars
    <3>5. CASE PollNoRoom \/ Poll
      BY <3>5 DEF PollNoRoom, Poll, senderVars, outVars
    <3>6. CASE Abandon \/ StopOperator
      BY <3>6 DEF Abandon, StopOperator, senderVars, outVars
    <3> QED BY <2>6, <3>1, <3>2, <3>3, <3>4, <3>5, <3>6 DEF Compute
  <2> QED BY <2>1, <2>2, <2>3, <2>4, <2>5, <2>6 DEF Next
<1>2. Produced' = Produced
  BY <1>1 DEF Produced
<1> QED
  BY <1>1, <1>2 DEF Feed!feedVars

\* Initially nothing was produced.
LEMMA InitFeed ==
  ASSUME Init
  PROVE  Feed!Init /\ StreamInvariant
<1>1. plan \in Plans /\ next = 1 /\ emitted = <<>> /\ readyEmitted = FALSE
  BY DEF Init
<1>2. Produced = <<>>
  <2>1. next - 1 = 0
    BY <1>1
  <2>2. Produced = Through(plan, 0)
    BY <2>1 DEF Produced, Through
  <2>3. 0 \in 0 .. Len(plan)
    BY <1>1, PlanRecords
  <2> QED BY <1>1, <2>2, <2>3, ThroughGrows
<1>3. PICK P \in NatSeqs, K \in NatSeqs : Inv(P, K)
  BY InitInvariant DEF RingInvariant
<1>4. StreamInv(K)
  BY <1>3, StreamInit DEF Inv
<1> QED
  BY <1>1, <1>2, <1>3, <1>4 DEF Feed!Init, StreamInvariant

-----------------------------------------------------------------------------
(* Theorems of the specification.                                           *)

\* The invariant holds in every state: for every ring of cells, sizes, depths, streams and
\* plans of a conforming sender.
THEOREM Invariance == Spec => []RingInvariant
<1>1. Init => RingInvariant
  BY InitInvariant
<1>2. RingInvariant /\ [Next]_vars => RingInvariant'
  BY InvariantStep
<1> QED
  BY <1>1, <1>2, PTL DEF Spec

\* No write the sender has posted touches a cell that the receiver or the GPU still has
\* to read: ServiceCredits returns credit for a position only when every read below it,
\* on whatever stream, has finished.
THEOREM RingNeverOverwritten == Spec => []NoOverwrite
  BY Invariance, InvariantImpliesNoOverwrite, PTL

\* A conforming sender's stream is never refused by read_next_frame, across wraps of the
\* ring and of the immediate, and no credit is recorded out of order.
THEOREM ConformingNeverRejected == Spec => []NeverRejects
<1>1. RingInvariant => NeverRejects
  BY DEF RingInvariant, Inv, ComputeInv, NeverRejects
<1> QED
  BY <1>1, Invariance, PTL

\* The credit the sender holds, the credit written last, the finished reads, the recorded
\* credits, the reader and the writer follow each other.
THEOREM CreditInOrder == Spec => []CreditChain
  BY Invariance, InvariantImpliesChain, PTL

\* Abandoning an activation and stopping leave no read of a tensor or of the ring behind.
THEOREM StoppingLeavesNoRead == Spec => []ShutdownSafe
<1>1. RingInvariant => ShutdownSafe
  BY DEF RingInvariant, Inv, BatchInv, ShutdownSafe
<1> QED
  BY <1>1, Invariance, PTL
\* The two invariants hold together in every state.
THEOREM StreamInvariance == Spec => []StreamInvariant
<1>1. Init => StreamInvariant
  BY InitFeed
<1>2. StreamInvariant /\ [Next]_vars => StreamInvariant'
  BY StreamStep
<1> QED
  BY <1>1, <1>2, PTL DEF Spec

\* RdmaRxOp implements the feed that downstream relies on: READY first, then the sender's
\* series in order, each image once, in batches of at most BatchSize that no series boundary
\* crosses, and END with the number of images sent; a stop leaves a beginning of it.
THEOREM StreamIsDelivered == Spec => ImplementsFeed
<1>1. Init => Feed!Init
  BY InitFeed
<1>2. StreamInvariant /\ [Next]_vars => [Feed!Next]_(Feed!feedVars)
  <2> SUFFICES ASSUME StreamInvariant, [Next]_vars
               PROVE  [Feed!Next]_(Feed!feedVars)
    OBVIOUS
  <2>1. CASE SendRecord
    BY <2>1, SendProduces DEF Feed!Next
  <2>2. CASE EmitBatch
    BY <2>2, BatchDelivers DEF Feed!Next
  <2>3. CASE EmitPending \/ EmitControlAtOnce
    BY <2>3, ControlDelivers DEF Feed!Next
  <2>4. CASE ~SendRecord /\ ~EmitBatch /\ ~EmitPending /\ ~EmitControlAtOnce
    BY <2>4, RestIsQuiet
  <2> QED BY <2>1, <2>2, <2>3, <2>4
<1> QED
  BY <1>1, <1>2, StreamInvariance, PTL DEF Spec, ImplementsFeed, Feed!Spec

-----------------------------------------------------------------------------
(* A capture of such a stream, recorded, rewritten and played (Capture):    *)
(* between the capture and the accumulators nothing is lost, repeated or    *)
(* reordered.                                                               *)

LEMMA Associate ==
  ASSUME NEW S, NEW x \in Seq(S), NEW y \in Seq(S), NEW z \in Seq(S)
  PROVE  (x \o y) \o z = x \o (y \o z)
  BY ConcatAssociative

LEMMA AppendToJoin ==
  ASSUME NEW S, NEW x \in Seq(S), NEW y \in Seq(S), NEW m \in S
  PROVE  /\ x \o (y \o <<m>>) = Append(x \o y, m) /\ y \o <<m>> = Append(y, m)
         /\ x \o y \in Seq(S)
<1>1. <<m>> \in Seq(S) /\ x \o y \in Seq(S)
  BY ConcatProperties
<1>2. (x \o y) \o <<m>> = x \o (y \o <<m>>)
  BY <1>1, Associate
<1>3. Append(x \o y, m) = (x \o y) \o <<m>> /\ Append(y, m) = y \o <<m>>
  BY <1>1, AppendIsConcat
<1> QED
  BY <1>1, <1>2, <1>3

\* What one message adds to the images of those before it.
ImageOf(m) == IF m.type = "image" THEN <<m>> ELSE <<>>

\* The parts that the definition of Images joins.
Pieces(s) ==
  [i \in DOMAIN s |-> IF i \in {j \in DOMAIN s : s[j].type = "image"} THEN <<s[i]>> ELSE <<>>]

LEMMA ImageOfTyped ==
  ASSUME NEW S, NEW m \in S
  PROVE  ImageOf(m) \in Seq(S)
<1>1. <<m>> \in Seq(S)
  OBVIOUS
<1>2. <<>> \in Seq(S)
  BY EmptySeq
<1> QED
  BY <1>1, <1>2 DEF ImageOf

LEMMA PiecesTyped ==
  ASSUME NEW S, NEW s \in Seq(S)
  PROVE  /\ Pieces(s) \in [1 .. Len(s) -> Seq(S)]
         /\ \A i \in 1 .. Len(s) : Pieces(s)[i] = ImageOf(s[i])
         /\ Images(s) = FlattenSeq(Pieces(s))
<1>1. DOMAIN s = 1 .. Len(s)
  BY LenProperties
<1>2. ASSUME NEW i \in 1 .. Len(s)
      PROVE  Pieces(s)[i] = ImageOf(s[i]) /\ ImageOf(s[i]) \in Seq(S)
  <2>1. s[i] \in S
    BY ElementOfSeq
  <2>2. ImageOf(s[i]) \in Seq(S)
    BY <2>1, ImageOfTyped
  <2>3. Pieces(s)[i] = ImageOf(s[i])
    BY <1>1 DEF Pieces, ImageOf
  <2> QED BY <2>2, <2>3
<1>3. Pieces(s) \in [1 .. Len(s) -> Seq(S)]
  <2>1. Pieces(s) = [i \in 1 .. Len(s) |-> Pieces(s)[i]]
    BY <1>1 DEF Pieces
  <2>2. \A i \in 1 .. Len(s) : Pieces(s)[i] \in Seq(S)
    BY <1>2
  <2> HIDE DEF Pieces
  <2> QED BY <2>1, <2>2
<1>4. Images(s) = FlattenSeq(Pieces(s))
  BY DEF Images, At, Pieces
<1> QED
  BY <1>2, <1>3, <1>4

\* The images of a longer sequence.
LEMMA ImagesGrow ==
  ASSUME NEW S, NEW s \in Seq(S), NEW m \in S
  PROVE  /\ Images(s) \in Seq(S)
         /\ Images(Append(s, m)) = Images(s) \o ImageOf(m)
<1>1. /\ Append(s, m) \in Seq(S) /\ Len(Append(s, m)) = Len(s) + 1 /\ Len(s) \in Nat
      /\ Append(s, m)[Len(s) + 1] = m
      /\ \A i \in 1 .. Len(s) : Append(s, m)[i] = s[i]
  BY AppendProperties, LenProperties
<1> DEFINE t == Append(s, m)
<1> HIDE DEF t
<1>2. /\ Pieces(s) \in [1 .. Len(s) -> Seq(S)]
      /\ \A i \in 1 .. Len(s) : Pieces(s)[i] = ImageOf(s[i])
      /\ Images(s) = FlattenSeq(Pieces(s))
  BY PiecesTyped
<1>3. /\ Pieces(t) \in [1 .. Len(t) -> Seq(S)]
      /\ \A i \in 1 .. Len(t) : Pieces(t)[i] = ImageOf(t[i])
      /\ Images(t) = FlattenSeq(Pieces(t))
  BY <1>1, PiecesTyped DEF t
<1>4. /\ Pieces(t) \in [1 .. (Len(s) + 1) -> Seq(S)] /\ Pieces(t)[Len(s) + 1] = ImageOf(m)
      /\ \A i \in 1 .. Len(s) : Pieces(s)[i] = Pieces(t)[i]
  BY <1>1, <1>2, <1>3 DEF t
<1>5. /\ FlattenSeq(Pieces(s)) \in Seq(S)
      /\ FlattenSeq(Pieces(t)) = FlattenSeq(Pieces(s)) \o Pieces(t)[Len(s) + 1]
  BY <1>1, <1>2, <1>4, FlattenGrows
<1> QED
  BY <1>2, <1>3, <1>4, <1>5 DEF t

LEMMA ImagesOfNone == Images(<<>>) = <<>>
<1>1. <<>> \in Seq(Nat) /\ Len(<<>>) = 0
  BY EmptySeq
<1> DEFINE none == <<>>
<1>2. none \in Seq(Nat) /\ Len(none) = 0
  BY <1>1
<1> HIDE DEF none
<1>3. Pieces(none) \in [1 .. 0 -> Seq(Nat)] /\ Images(none) = FlattenSeq(Pieces(none))
  BY <1>2, PiecesTyped
<1>4. Len(Pieces(none)) = 0 /\ Pieces(none) = <<>>
  BY <1>3
<1>5. FlattenSeq(Pieces(none)) = Pieces(none)
  BY <1>4 DEF FlattenSeq
<1> QED
  BY <1>3, <1>4, <1>5 DEF none

LEMMA ImagesOfOne ==
  ASSUME NEW m
  PROVE  Images(<<m>>) = ImageOf(m)
<1>1. <<>> \in Seq({m}) /\ m \in {m}
  BY EmptySeq
<1>2. Append(<<>>, m) = <<m>>
  OBVIOUS
<1>3. ImageOf(m) \in Seq({m})
  BY <1>1, ImageOfTyped
<1> DEFINE none == <<>>
<1>4. Images(Append(none, m)) = Images(none) \o ImageOf(m)
  <2>1. none \in Seq({m})
    BY <1>1
  <2> HIDE DEF none
  <2> QED BY <1>1, <2>1, ImagesGrow
<1>5. Images(none) = <<>>
  BY ImagesOfNone
<1> QED
  BY <1>2, <1>3, <1>4, <1>5, ConcatEmptySeq

LEMMA ImagesJoinGrow ==
  ASSUME NEW S, NEW s \in Seq(S), NEW f \in Seq(S), NEW m \in S,
         Images(s) \in Seq(S), Images(f) \in Seq(S),
         Images(s \o f) = Images(s) \o Images(f)
  PROVE  Images(s \o (f \o <<m>>)) = Images(s) \o Images(f \o <<m>>)
<1>1. s \o (f \o <<m>>) = Append(s \o f, m) /\ f \o <<m>> = Append(f, m) /\ s \o f \in Seq(S)
  BY AppendToJoin
<1>2. /\ Images(Append(s \o f, m)) = Images(s \o f) \o ImageOf(m)
      /\ Images(Append(f, m)) = Images(f) \o ImageOf(m)
  BY <1>1, ImagesGrow
<1>3. (Images(s) \o Images(f)) \o ImageOf(m)
        = Images(s) \o (Images(f) \o ImageOf(m))
  <2>1. ImageOf(m) \in Seq(S)
    BY ImageOfTyped
  <2> QED BY <2>1, Associate
<1> QED
  BY <1>1, <1>2, <1>3

\* The images of two sequences, one behind the other.
LEMMA ImagesJoin ==
  ASSUME NEW S, NEW s \in Seq(S), NEW t \in Seq(S)
  PROVE  /\ Images(s) \in Seq(S) /\ Images(t) \in Seq(S)
         /\ Images(s \o t) = Images(s) \o Images(t)
<1>1. ASSUME NEW u \in Seq(S)
      PROVE  Images(u) \in Seq(S)
  <2>1. CASE u = <<>>
    BY <2>1, ImagesOfNone, EmptySeq
  <2>2. CASE u # <<>>
    <3>1. Head(u) \in S
      BY <2>2, HeadTailProperties
    <3> QED BY <3>1, ImagesGrow
  <2> QED BY <2>1, <2>2
<1>2. Len(t) \in Nat /\ t \in [1 .. Len(t) -> S]
  BY LenProperties
<1> DEFINE Upto(n) == SubSeq(t, 1, n)
           Bad == {n \in 0 .. Len(t) :
                     Images(s \o Upto(n)) # Images(s) \o Images(Upto(n))}
<1>3. Bad = {}
  <2> SUFFICES ASSUME Bad # {} PROVE FALSE
    OBVIOUS
  <2>1. PICK n \in Bad : \A k \in Bad : n <= k
    <3>1. Bad \in SUBSET Nat
      BY <1>2
    <3> HIDE DEF Bad
    <3> QED BY <3>1, LeastExists
  <2>2. n \in 0 .. Len(t) /\ n \in Nat
    BY <1>2
  <2>3. CASE n = 0
    <3>1. Upto(n) = <<>>
      BY <2>3, SubSeqEmpty
    <3>2. s \o <<>> = s /\ Images(s) \o <<>> = Images(s)
      BY <1>1, ConcatEmptySeq
    <3>3. Images(s \o Upto(n)) = Images(s) \o Images(Upto(n))
      BY <3>1, <3>2, ImagesOfNone
    <3> QED BY <3>3
  <2>4. CASE n # 0
    <3>1. n \in 1 .. Len(t) /\ n - 1 \in 0 .. Len(t) /\ 1 \in 1 .. Len(t) /\ n \in 1 .. Len(t)
      BY <2>2, <2>4, <1>2
    <3>2. t[n] \in S
      BY <3>1, <1>2
    <3>3. Upto(n) = Upto(n - 1) \o <<t[n]>>
      BY <3>1, SubSeqRecursiveSecond
    <3>4. Upto(n - 1) \in Seq(S)
      <4>1. 1 \in Int /\ n - 1 \in Int /\ \A i \in 1 .. (n - 1) : t[i] \in S
        BY <3>1, <1>2
      <4> QED BY <4>1, SubSeqProperties
    <3>5. Images(s \o Upto(n - 1)) = Images(s) \o Images(Upto(n - 1))
      <4>1. n - 1 \notin Bad
        <5>1. ~(n <= n - 1)
          BY <2>2
        <5> HIDE DEF Bad
        <5> QED BY <5>1, <2>1
      <4> QED BY <4>1, <3>1
    <3> DEFINE f == Upto(n - 1)
               m == t[n]
    <3>6. f \in Seq(S) /\ m \in S /\ Upto(n) = f \o <<m>>
          /\ Images(s \o f) = Images(s) \o Images(f)
      BY <3>2, <3>3, <3>4, <3>5
    <3>7. Images(s \o Upto(n)) # Images(s) \o Images(Upto(n))
      OBVIOUS
    <3> HIDE DEF f, m, Upto
    <3>8. Images(s) \in Seq(S) /\ Images(f) \in Seq(S)
      BY <1>1, <3>6
    <3> QED BY <3>6, <3>7, <3>8, ImagesJoinGrow
  <2> QED BY <2>3, <2>4
<1>4. Images(s \o Upto(Len(t))) = Images(s) \o Images(Upto(Len(t)))
  <2>1. Len(t) \in 0 .. Len(t)
    BY <1>2
  <2> QED BY <1>3, <2>1
<1>5. Upto(Len(t)) = t
  BY SubSeqFull
<1> QED
  BY <1>1, <1>4, <1>5

\* The first message, and the rest.
LEMMA ImagesFromFirst ==
  ASSUME NEW S, NEW s \in Seq(S), s # <<>>
  PROVE  /\ Tail(s) \in Seq(S) /\ Head(s) \in S
         /\ Images(Tail(s)) \in Seq(S)
         /\ Images(s) = ImageOf(Head(s)) \o Images(Tail(s))
<1>1. Tail(s) \in Seq(S) /\ Head(s) \in S /\ <<Head(s)>> \in Seq(S)
  BY HeadTailProperties
<1>2. s = <<Head(s)>> \o Tail(s)
  <2>1. /\ Len(s) \in Nat \ {0} /\ s \in [1 .. Len(s) -> S]
    BY LenProperties, EmptySeq
  <2>2. 1 \in 1 .. Len(s) /\ Len(s) \in 1 .. Len(s)
    BY <2>1
  <2>3. SubSeq(s, 1, Len(s)) = <<s[1]>> \o SubSeq(s, 1 + 1, Len(s))
    BY <2>2, SubSeqRecursiveFirst
  <2>4. SubSeq(s, 1, Len(s)) = s
    BY SubSeqFull
  <2>5. Tail(s) = SubSeq(s, 2, Len(s)) /\ Head(s) = s[1]
    BY TailIsSubSeq
  <2> QED BY <2>3, <2>4, <2>5
<1>3. /\ Images(Tail(s)) \in Seq(S)
      /\ Images(<<Head(s)>> \o Tail(s)) = Images(<<Head(s)>>) \o Images(Tail(s))
  BY <1>1, ImagesJoin
<1> QED
  BY <1>1, <1>2, <1>3, ImagesOfOne

-----------------------------------------------------------------------------
\* The accumulators: a batch is folded into the last one, a new one is empty.
LEMMA FlattenNone == FlattenSeq(<<>>) = <<>>
<1>1. Len(<<>>) = 0
  BY EmptySeq
<1> QED
  BY <1>1 DEF FlattenSeq

LEMMA FlattenTyped ==
  ASSUME NEW S, NEW a \in Seq(Seq(S)), NEW x \in Seq(S)
  PROVE  /\ FlattenSeq(a) \in Seq(S)
         /\ Append(a, x) \in Seq(Seq(S)) /\ FlattenSeq(Append(a, x)) = FlattenSeq(a) \o x
<1>1. /\ Append(a, x) \in Seq(Seq(S)) /\ Len(Append(a, x)) = Len(a) + 1 /\ Len(a) \in Nat
      /\ Append(a, x)[Len(a) + 1] = x
      /\ \A i \in 1 .. Len(a) : Append(a, x)[i] = a[i]
  BY AppendProperties, LenProperties
<1> DEFINE n == Len(a)
           b == Append(a, x)
<1>2. a \in [1 .. n -> Seq(S)]
  BY LenProperties
<1>3. b \in [1 .. (n + 1) -> Seq(S)]
  <2>1. b \in [1 .. Len(b) -> Seq(S)]
    BY <1>1, LenProperties
  <2> QED BY <2>1, <1>1
<1>4. n \in Nat /\ b[n + 1] = x /\ \A i \in 1 .. n : a[i] = b[i]
  BY <1>1
<1>5. FlattenSeq(a) \in Seq(S) /\ FlattenSeq(b) = FlattenSeq(a) \o b[n + 1]
  <2> HIDE DEF n, b
  <2> QED BY <1>2, <1>3, <1>4, FlattenGrows
<1> QED
  BY <1>1, <1>4, <1>5

LEMMA FlattenLast ==
  ASSUME NEW S, NEW f \in Seq(Seq(S)), NEW x \in Seq(S), NEW b \in Seq(S)
  PROVE  /\ FlattenSeq(Append(f, x)) \in Seq(S)
         /\ FlattenSeq(Append(f, x \o b)) = FlattenSeq(Append(f, x)) \o b
<1>1. FlattenSeq(Append(f, x)) = FlattenSeq(f) \o x /\ FlattenSeq(f) \in Seq(S)
  BY FlattenTyped
<1>2. x \o b \in Seq(S) /\ FlattenSeq(f) \o x \in Seq(S)
  BY <1>1, ConcatProperties
<1> DEFINE y == x \o b
<1>3. FlattenSeq(Append(f, y)) = FlattenSeq(f) \o y
  <2>1. y \in Seq(S)
    BY <1>2
  <2> HIDE DEF y
  <2> QED BY <2>1, FlattenTyped
<1> DEFINE z == FlattenSeq(f)
<1>4. (z \o x) \o b = z \o (x \o b)
  <2>1. z \in Seq(S)
    BY <1>1
  <2> HIDE DEF z, y
  <2> QED BY <2>1, Associate
<1> QED
  BY <1>1, <1>2, <1>3, <1>4

LastLonger(a, b) == [a EXCEPT ![Len(a)] = @ \o b]

LEMMA LongerLast ==
  ASSUME NEW S, NEW f \in Seq(S), NEW x \in S, NEW b, x \o b \in S
  PROVE  LastLonger(Append(f, x), b) = Append(f, x \o b)
<1> DEFINE a == Append(f, x)
           d == Append(f, x \o b)
           c == LastLonger(a, b)
<1>1. /\ a \in Seq(S) /\ Len(a) = Len(f) + 1 /\ Len(f) \in Nat /\ a[Len(f) + 1] = x
      /\ \A i \in 1 .. Len(f) : a[i] = f[i]
  BY AppendProperties, LenProperties
<1>2. /\ d \in Seq(S) /\ Len(d) = Len(f) + 1 /\ d[Len(f) + 1] = x \o b
      /\ \A i \in 1 .. Len(f) : d[i] = f[i]
  BY AppendProperties
<1> HIDE DEF a, d
<1>3. Len(a) \in 1 .. Len(a) /\ a[Len(a)] = x
  BY <1>1
<1>4. /\ c \in Seq(S) /\ Len(c) = Len(a)
      /\ \A j \in 1 .. Len(a) : c[j] = IF j = Len(a) THEN x \o b ELSE a[j]
  <2>1. c = [a EXCEPT ![Len(a)] = x \o b]
    BY <1>3 DEF LastLonger
  <2> HIDE DEF c
  <2> QED BY <2>1, <1>1, <1>3, ExceptSeq
<1> HIDE DEF c
<1>5. Len(c) = Len(d) /\ \A i \in 1 .. Len(c) : c[i] = d[i]
  <2>1. Len(c) = Len(d) /\ Len(c) = Len(f) + 1
    BY <1>1, <1>2, <1>4
  <2>2. ASSUME NEW i \in 1 .. Len(c) PROVE c[i] = d[i]
    <3>1. i \in 1 .. (Len(f) + 1) /\ c[i] = IF i = Len(f) + 1 THEN x \o b ELSE a[i]
      BY <2>1, <1>1, <1>4
    <3>2. CASE i = Len(f) + 1
      BY <3>1, <3>2, <1>2
    <3>3. CASE i # Len(f) + 1
      <4>1. i \in 1 .. Len(f)
        BY <3>1, <3>3, <1>1
      <4> QED BY <4>1, <3>1, <3>3, <1>1, <1>2
    <3> QED BY <3>2, <3>3
  <2> QED BY <2>1, <2>2
<1>6. c = d
  BY <1>2, <1>4, <1>5, SeqEqual
<1> QED
  BY <1>6 DEF a, c, d

\* A batch goes to the end of what was accumulated.
LEMMA FlattenFolded ==
  ASSUME NEW S, NEW a \in Seq(Seq(S)), a # <<>>, NEW b \in Seq(S)
  PROVE  /\ LastLonger(a, b) \in Seq(Seq(S)) /\ LastLonger(a, b) # <<>>
         /\ FlattenSeq(a) \in Seq(S) /\ FlattenSeq(LastLonger(a, b)) = FlattenSeq(a) \o b
<1>1. PICK f \in Seq(Seq(S)), x \in Seq(S) : a = Append(f, x)
  BY SequenceEmptyOrAppend
<1>2. f \in Seq(Seq(S)) /\ x \in Seq(S) /\ b \in Seq(S)
  BY <1>1
<1>3. x \o b \in Seq(S)
  BY <1>2, ConcatProperties
<1>4. LastLonger(Append(f, x), b) = Append(f, x \o b)
  BY <1>2, <1>3, LongerLast
<1>5. /\ FlattenSeq(Append(f, x)) \in Seq(S)
      /\ FlattenSeq(Append(f, x \o b)) = FlattenSeq(Append(f, x)) \o b
  BY <1>2, FlattenLast
<1>6. Append(f, x \o b) \in Seq(Seq(S)) /\ Append(f, x \o b) # <<>>
  BY <1>2, <1>3, AppendProperties
<1> QED
  BY <1>1, <1>4, <1>5, <1>6

-----------------------------------------------------------------------------
(* The invariant of a capture.                                              *)

\* Everything played is a message of M.
CaptureTypes(M) ==
  /\ setup \in Setups /\ sending \in Seq(Message) /\ tape \in Seq(Message)
  /\ Blank \in M /\ play \in Seq(M)
  /\ sockets \in Seq(M) /\ pushback \in Seq(M) /\ hand \in Seq(M) /\ collected \in Seq(M)
  /\ acq \in Seq(Seq(M))
  /\ feeder \in [next : Nat, images : Nat, held : M, ends : Nat, open : BOOLEAN]

\* Nothing is played before the capture is complete.
NotPlayed ==
  /\ sockets = <<>> /\ pushback = <<>> /\ hand = <<>> /\ collected = <<>> /\ acq = <<>>
  /\ consumer = "idle" /\ series = 0
  /\ ~feeder.open /\ feeder.next = 1 /\ feeder.images = 0 /\ feeder.held = Blank

\* What the feeder has read, and the images it was allowed to send of that.
Read == IF Streaming THEN SubSeq(play, 1, feeder.next - 1) ELSE play
Limited == setup.player = "zmq" /\ setup.max > 0

Feeding ==
  /\ feeder.next \in 1 .. Len(play) + 1
  /\ feeder.held.type # "image" /\ (feeder.open => Streaming)
  /\ Limited =>
       /\ feeder.images <= Len(Images(Read))
       /\ feeder.images < setup.max => feeder.images = Len(Images(Read))

\* There is an accumulator for every frame.
Accumulating ==
  /\ collected # <<>> \/ series # 0 => acq # <<>>
  /\ consumer = "running" /\ setup.player # "offline" => acq # <<>>

\* The images between the capture and the accumulators, and those that were read.
OnTheWay ==
  (((FlattenSeq(acq) \o collected) \o Images(hand)) \o Images(pushback))
    \o Images(sockets)

Due == IF Limited THEN SubSeq(Images(Read), 1, feeder.images) ELSE Images(Read)

CaptureState(M) ==
  /\ CaptureTypes(M)
  /\ stage # "playing" => NotPlayed
  /\ stage = "playing" => Feeding /\ OnTheWay = Due
  /\ Accumulating

CaptureInv == \E M : CaptureState(M)

LEMMA CaptureInOrder ==
  ASSUME CaptureInv
  PROVE  InOrder
<1>1. PICK M : CaptureState(M)
  BY DEF CaptureInv
<1> QED
  BY <1>1 DEF CaptureState, InOrder, OnTheWay, Due, Read, Limited

LEMMA CaptureFacts ==
  ASSUME NEW M, CaptureTypes(M)
  PROVE  /\ FlattenSeq(acq) \in Seq(M) /\ Images(hand) \in Seq(M)
         /\ Images(pushback) \in Seq(M) /\ Images(sockets) \in Seq(M)
         /\ Images(play) \in Seq(M) /\ collected \in Seq(M)
<1>1. /\ hand \in Seq(M) /\ pushback \in Seq(M) /\ sockets \in Seq(M) /\ play \in Seq(M)
      /\ acq \in Seq(Seq(M)) /\ collected \in Seq(M)
  BY DEF CaptureTypes
<1>2. FlattenSeq(acq) \in Seq(M)
  <2>1. collected \in Seq(M)
    BY <1>1
  <2> QED BY <1>1, <2>1, FlattenTyped
<1> QED
  BY <1>1, <1>2, ImagesJoin

\* What a step of the consumer has to keep.
LEMMA ConsumerKeeps ==
  ASSUME NEW M, CaptureState(M), stage = "playing",
         UNCHANGED <<setup, sending, tape, torn, play, stage, feeder>>,
         sockets' \in Seq(M), pushback' \in Seq(M), hand' \in Seq(M), collected' \in Seq(M),
         acq' \in Seq(Seq(M)), Accumulating', OnTheWay' = OnTheWay
  PROVE  CaptureState(M)'
<1>1. CaptureTypes(M)'
  BY DEF CaptureState, CaptureTypes
<1>2. Due' = Due /\ (Feeding <=> Feeding')
  BY DEF Due, Feeding, Read, Limited, Streaming
<1> QED
  BY <1>1, <1>2 DEF CaptureState

LEMMA RunningIsPlaying ==
  ASSUME NEW M, CaptureState(M), consumer # "idle" \/ feeder.open
  PROVE  stage = "playing" /\ Feeding /\ CaptureTypes(M) /\ Accumulating
  BY DEF CaptureState, NotPlayed

\* A message looked at, a batch handed back, a message received: the order is the same.
LEMMA MovedOn ==
  ASSUME NEW S, NEW f \in Seq(S), NEW b \in Seq(S), NEW x \in Seq(S), NEW h \in Seq(S)
  PROVE  (f \o b) \o (x \o h) = (f \o (b \o x)) \o h
<1>1. f \o b \in Seq(S) /\ b \o x \in Seq(S)
  BY ConcatProperties
<1>3. (f \o b) \o (x \o h) = ((f \o b) \o x) \o h
  <2> DEFINE y == f \o b
  <2>1. y \in Seq(S)
    BY <1>1
  <2> HIDE DEF y
  <2>2. (y \o x) \o h = y \o (x \o h)
    BY <2>1, Associate
  <2> QED BY <2>2 DEF y
<1>4. (f \o b) \o x = f \o (b \o x)
  BY Associate
<1> QED
  BY <1>3, <1>4

LEMMA GivenBack ==
  ASSUME NEW S, NEW x \in Seq(S), NEW t \in Seq(S), NEW p \in Seq(S)
  PROVE  /\ (x \o t) \o p = (x \o <<>>) \o (t \o p)
         /\ ((x \o <<>>) \o <<>>) \o (t \o p) = ((x \o t) \o <<>>) \o p
<1>1. x \o <<>> = x
  BY ConcatEmptySeq
<1>2. (x \o t) \o p = x \o (t \o p)
  BY Associate
<1>3. (x \o t) \o <<>> = x \o t
  <2>1. x \o t \in Seq(S)
    BY ConcatProperties
  <2> QED BY <2>1, ConcatEmptySeq
<1> QED
  BY <1>1, <1>2, <1>3

LEMMA ReceivedParts ==
  ASSUME NEW S, NEW s \in Seq(S), MaxReceive \in Nat
  PROVE  /\ FirstPart(s) \in Seq(S) /\ Beyond(s) \in Seq(S)
         /\ Images(s) = Images(FirstPart(s)) \o Images(Beyond(s))
<1>1. Len(s) \in Nat /\ \A i \in 1 .. Len(s) : s[i] \in S
  BY LenProperties, ElementOfSeq
<1> DEFINE n == IF Len(s) < MaxReceive THEN Len(s) ELSE MaxReceive
<1>2. n \in 0 .. Len(s) /\ n \in Int /\ MaxReceive + 1 \in Int /\ 1 \in Int
  BY <1>1
<1>3. FirstPart(s) = SubSeq(s, 1, n) /\ Beyond(s) = SubSeq(s, MaxReceive + 1, Len(s))
  BY DEF FirstPart, Beyond
<1>4. FirstPart(s) \in Seq(S)
  <2>1. \A i \in 1 .. n : s[i] \in S
    BY <1>1, <1>2
  <2> HIDE DEF n
  <2> QED BY <2>1, <1>2, <1>3, SubSeqProperties
<1>5. Beyond(s) \in Seq(S)
  <2>1. \A i \in MaxReceive + 1 .. Len(s) : s[i] \in S
    BY <1>1
  <2> QED BY <2>1, <1>1, <1>2, <1>3, SubSeqProperties
<1>6. FirstPart(s) \o Beyond(s) = s
  <2>1. CASE Len(s) < MaxReceive
    <3>1. Beyond(s) = <<>>
      BY <2>1, <1>1, <1>2, <1>3, SubSeqEmpty
    <3>2. FirstPart(s) = s
      BY <2>1, <1>3, SubSeqFull
    <3> QED BY <3>1, <3>2, ConcatEmptySeq
  <2>2. CASE ~(Len(s) < MaxReceive)
    <3>1. 1 \in 1 .. Len(s) + 1 /\ MaxReceive \in (1 - 1) .. Len(s) /\ Len(s) \in MaxReceive .. Len(s)
      BY <2>2, <1>1
    <3>2. SubSeq(s, 1, MaxReceive) \o SubSeq(s, MaxReceive + 1, Len(s)) = SubSeq(s, 1, Len(s))
      BY <3>1, ConcatAdjacentSubSeq
    <3>3. n = MaxReceive
      BY <2>2
    <3> QED BY <3>2, <3>3, <1>3, SubSeqFull
  <2> QED BY <2>1, <2>2
<1>7. Images(FirstPart(s) \o Beyond(s))
        = Images(FirstPart(s)) \o Images(Beyond(s))
  BY <1>4, <1>5, ImagesJoin
<1> QED
  BY <1>4, <1>5, <1>6, <1>7

-----------------------------------------------------------------------------
(* The consumer's steps.                                                    *)

LEMMA ReceiveKeeps ==
  ASSUME CaptureConstants, NEW M, CaptureState(M), Receive
  PROVE  CaptureState(M)'
<1>1. /\ consumer = "running" /\ hand = <<>>
      /\ UNCHANGED <<setup, sending, tape, torn, play, stage, feeder, collected, series, acq, consumer>>
  BY DEF Receive, recorderVars
<1>2. stage = "playing" /\ CaptureTypes(M) /\ Accumulating
  BY <1>1, RunningIsPlaying
<1>3. /\ pushback \in Seq(M) /\ sockets \in Seq(M) /\ <<>> \in Seq(M)
      /\ collected \in Seq(M) /\ acq \in Seq(Seq(M)) /\ MaxReceive \in Nat
  BY <1>2, EmptySeq DEF CaptureTypes, CaptureConstants
<1> DEFINE X == FlattenSeq(acq) \o collected
<1>4. X \in Seq(M)
  BY <1>2, CaptureFacts, ConcatProperties
<1>5. X' = X
  BY <1>1
<1>6. Accumulating'
  BY <1>1, <1>2 DEF Accumulating
<1>7. /\ OnTheWay = ((X \o Images(<<>>)) \o Images(pushback)) \o Images(sockets)
      /\ OnTheWay' = ((X' \o Images(hand')) \o Images(pushback')) \o Images(sockets')
  BY <1>1 DEF OnTheWay
<1> HIDE DEF X
<1>8. CASE pushback # <<>>
  <2>1. /\ hand' = FirstPart(pushback) /\ pushback' = Beyond(pushback) /\ sockets' = sockets
    BY <1>8 DEF Receive
  <2>2. /\ hand' \in Seq(M) /\ pushback' \in Seq(M)
        /\ Images(pushback) = Images(hand') \o Images(pushback')
    BY <2>1, <1>3, ReceivedParts
  <2> DEFINE a == Images(hand')
             b == Images(pushback')
  <2>3. a \in Seq(M) /\ b \in Seq(M)
    BY <2>2, ImagesJoin
  <2>4. Images(pushback) = a \o b
    BY <2>2
  <2>5. OnTheWay' = ((X \o a) \o b) \o Images(sockets)
    BY <1>5, <1>7, <2>1
  <2> HIDE DEF a, b
  <2>6. (X \o a) \o b = (X \o <<>>) \o (a \o b)
    BY <1>4, <2>3, GivenBack
  <2>7. OnTheWay' = OnTheWay
    BY <1>7, <2>4, <2>5, <2>6, ImagesOfNone
  <2> QED BY <1>1, <1>2, <1>3, <1>6, <2>1, <2>2, <2>7, ConsumerKeeps
<1>9. CASE pushback = <<>>
  <2>1. /\ hand' = FirstPart(sockets) /\ sockets' = Beyond(sockets) /\ pushback' = pushback
    BY <1>9 DEF Receive
  <2>2. /\ hand' \in Seq(M) /\ sockets' \in Seq(M)
        /\ Images(sockets) = Images(hand') \o Images(sockets')
    BY <2>1, <1>3, ReceivedParts
  <2> DEFINE a == Images(hand')
             b == Images(sockets')
  <2>3. a \in Seq(M) /\ b \in Seq(M)
    BY <2>2, ImagesJoin
  <2>4. Images(sockets) = a \o b
    BY <2>2
  <2>5. OnTheWay' = ((X \o a) \o <<>>) \o b
    BY <1>5, <1>7, <1>9, <2>1, ImagesOfNone
  <2>6. OnTheWay = ((X \o <<>>) \o <<>>) \o Images(sockets)
    BY <1>7, <1>9, ImagesOfNone
  <2> HIDE DEF a, b
  <2>7. ((X \o <<>>) \o <<>>) \o (a \o b) = ((X \o a) \o <<>>) \o b
    BY <1>4, <2>3, GivenBack
  <2>8. OnTheWay' = OnTheWay
    BY <2>4, <2>5, <2>6, <2>7
  <2> QED BY <1>1, <1>2, <1>3, <1>6, <2>1, <2>2, <2>8, ConsumerKeeps
<1> QED
  BY <1>8, <1>9

LEMMA FailKeeps ==
  ASSUME NEW M, CaptureState(M), Fail
  PROVE  CaptureState(M)'
<1>1. /\ consumer = "running" /\ consumer' = "failed"
      /\ UNCHANGED <<setup, sending, tape, torn, play, stage, feeder, sockets, pushback, hand,
                     collected, series, acq>>
  BY DEF Fail, recorderVars, feederVars
<1>2. stage = "playing" /\ CaptureTypes(M) /\ Accumulating
  BY <1>1, RunningIsPlaying
<1>3. Accumulating' /\ OnTheWay' = OnTheWay
  BY <1>1, <1>2 DEF Accumulating, OnTheWay
<1>4. /\ sockets' \in Seq(M) /\ pushback' \in Seq(M) /\ hand' \in Seq(M) /\ collected' \in Seq(M)
      /\ acq' \in Seq(Seq(M))
  BY <1>1, <1>2 DEF CaptureTypes
<1> QED
  BY <1>1, <1>2, <1>3, <1>4, ConsumerKeeps

\* The first message in hand, behind what is collected.
LEMMA LookedAt ==
  ASSUME NEW M, CaptureTypes(M), hand # <<>>
  PROVE  /\ Tail(hand) \in Seq(M) /\ Head(hand) \in M /\ ImageOf(Head(hand)) \in Seq(M)
         /\ Images(Tail(hand)) \in Seq(M)
         /\ Images(hand) = ImageOf(Head(hand)) \o Images(Tail(hand))
         /\ (FlattenSeq(acq) \o collected) \o Images(hand)
              = (FlattenSeq(acq) \o (collected \o ImageOf(Head(hand)))) \o Images(Tail(hand))
<1>1. hand \in Seq(M) /\ collected \in Seq(M) /\ FlattenSeq(acq) \in Seq(M)
  BY CaptureFacts DEF CaptureTypes
<1>2. /\ Tail(hand) \in Seq(M) /\ Head(hand) \in M /\ Images(Tail(hand)) \in Seq(M)
      /\ Images(hand) = ImageOf(Head(hand)) \o Images(Tail(hand))
  BY <1>1, ImagesFromFirst
<1>3. ImageOf(Head(hand)) \in Seq(M)
  BY <1>2, ImageOfTyped
<1> DEFINE f == FlattenSeq(acq)
           x == ImageOf(Head(hand))
           h == Images(Tail(hand))
<1>4. f \in Seq(M) /\ x \in Seq(M) /\ h \in Seq(M) /\ collected \in Seq(M)
  BY <1>1, <1>2, <1>3
<1>5. (f \o collected) \o (x \o h) = (f \o (collected \o x)) \o h
  <2> HIDE DEF f, x, h
  <2> QED BY <1>4, MovedOn
<1> QED
  BY <1>2, <1>3, <1>5

\* A message in hand is looked at: what it adds to the batch or the accumulator.
LEMMA HandKeeps ==
  ASSUME NEW M, CaptureState(M), stage = "playing", hand # <<>>,
         UNCHANGED <<setup, sending, tape, torn, play, stage, feeder, sockets, pushback>>,
         hand' = Tail(hand), collected' \in Seq(M), acq' \in Seq(Seq(M)), Accumulating',
         FlattenSeq(acq') \o collected' = FlattenSeq(acq) \o (collected \o ImageOf(Head(hand)))
  PROVE  CaptureState(M)'
<1>1. CaptureTypes(M)
  BY DEF CaptureState
<1>2. sockets \in Seq(M) /\ pushback \in Seq(M)
  BY <1>1 DEF CaptureTypes
<1>3. /\ Tail(hand) \in Seq(M)
      /\ (FlattenSeq(acq) \o collected) \o Images(hand)
           = (FlattenSeq(acq) \o (collected \o ImageOf(Head(hand)))) \o Images(Tail(hand))
  BY <1>1, LookedAt
<1>4. (FlattenSeq(acq) \o collected) \o Images(hand)
        = (FlattenSeq(acq') \o collected') \o Images(hand')
  BY <1>3
<1>5. OnTheWay' = OnTheWay
  BY <1>4 DEF OnTheWay
<1> QED
  BY <1>2, <1>3, <1>5, ConsumerKeeps

LEMMA FoldedFacts ==
  ASSUME NEW M, CaptureTypes(M), acq # <<>>, NEW b \in Seq(M)
  PROVE  /\ Folded(b) \in Seq(Seq(M)) /\ Folded(b) # <<>>
         /\ FlattenSeq(Folded(b)) = FlattenSeq(acq) \o b
         /\ FlattenSeq(Folded(b)) \in Seq(M)
<1>1. acq \in Seq(Seq(M))
  BY DEF CaptureTypes
<1>2. Folded(b) = LastLonger(acq, b)
  BY DEF Folded, LastLonger
<1>3. /\ LastLonger(acq, b) \in Seq(Seq(M)) /\ LastLonger(acq, b) # <<>>
      /\ FlattenSeq(acq) \in Seq(M) /\ FlattenSeq(LastLonger(acq, b)) = FlattenSeq(acq) \o b
  BY <1>1, FlattenFolded
<1> QED
  BY <1>2, <1>3, ConcatProperties

\* A message that does not raise finds an accumulator, unless it opens one.
LEMMA HasAccumulator ==
  ASSUME NEW M, CaptureState(M), consumer = "running", hand # <<>>, ~Raises(Head(hand)),
         Head(hand).type # "start"
  PROVE  acq # <<>>
<1>1. Accumulating
  BY DEF CaptureState
<1>2. CASE setup.player # "offline"
  BY <1>1, <1>2 DEF Accumulating
<1>3. CASE setup.player = "offline"
  <2>1. ~Disorder(Head(hand))
    BY DEF Raises
  <2>2. series # 0
    BY <2>1, <1>3 DEF Disorder
  <2> QED BY <2>2, <1>1 DEF Accumulating
<1> QED
  BY <1>2, <1>3

LEMMA PushKeeps ==
  ASSUME NEW M, CaptureState(M), Push
  PROVE  CaptureState(M)'
<1>1. /\ consumer = "running" /\ hand # <<>> /\ Head(hand).type = "image"
      /\ ~Raises(Head(hand)) /\ hand' = Tail(hand)
      /\ UNCHANGED <<setup, sending, tape, torn, play, stage, feeder, sockets, pushback, series,
                     consumer>>
  BY DEF Push, recorderVars, feederVars
<1>2. stage = "playing" /\ CaptureTypes(M) /\ Accumulating
  BY <1>1, RunningIsPlaying
<1>3. acq # <<>>
  <2>1. Head(hand).type # "start"
    BY <1>1
  <2> QED BY <1>1, <2>1, HasAccumulator
<1> DEFINE b == Append(collected, Head(hand))
<1>4. /\ collected \in Seq(M) /\ acq \in Seq(Seq(M)) /\ Head(hand) \in M
      /\ ImageOf(Head(hand)) = <<Head(hand)>>
  BY <1>1, <1>2, LookedAt DEF CaptureTypes, ImageOf
<1>5. b \in Seq(M) /\ b = collected \o ImageOf(Head(hand))
  BY <1>4, AppendProperties, AppendIsConcat
<1>6. /\ Folded(b) \in Seq(Seq(M)) /\ Folded(b) # <<>>
      /\ FlattenSeq(Folded(b)) = FlattenSeq(acq) \o b
      /\ FlattenSeq(Folded(b)) \in Seq(M)
  <2> HIDE DEF b
  <2> QED BY <1>2, <1>3, <1>5, FoldedFacts
<1>7. \/ collected' = <<>> /\ acq' = Folded(b)
      \/ collected' = b /\ acq' = acq
  BY DEF Push
<1> HIDE DEF b
<1>8. /\ collected' \in Seq(M) /\ acq' \in Seq(Seq(M)) /\ acq' # <<>>
      /\ FlattenSeq(acq') \o collected' = FlattenSeq(acq) \o b
  <2>1. CASE collected' = <<>> /\ acq' = Folded(b)
    <3>1. FlattenSeq(Folded(b)) \o <<>> = FlattenSeq(Folded(b)) /\ <<>> \in Seq(M)
      BY <1>6, ConcatEmptySeq, EmptySeq
    <3> QED BY <2>1, <3>1, <1>6
  <2>2. CASE collected' = b /\ acq' = acq
    BY <2>2, <1>3, <1>4, <1>5
  <2> QED BY <2>1, <2>2, <1>7
<1>9. Accumulating'
  BY <1>8 DEF Accumulating
<1> QED
  BY <1>1, <1>2, <1>5, <1>8, <1>9, HandKeeps

LEMMA TakeStartKeeps ==
  ASSUME NEW M, CaptureState(M), TakeStart
  PROVE  CaptureState(M)'
<1>1. /\ consumer = "running" /\ hand # <<>> /\ Head(hand).type = "start" /\ hand' = Tail(hand)
      /\ UNCHANGED <<setup, sending, tape, torn, play, stage, feeder, sockets, pushback, collected,
                     consumer>>
  BY DEF TakeStart, recorderVars, feederVars
<1>2. stage = "playing" /\ CaptureTypes(M) /\ Accumulating
  BY <1>1, RunningIsPlaying
<1>3. /\ collected \in Seq(M) /\ acq \in Seq(Seq(M)) /\ <<>> \in Seq(M)
      /\ ImageOf(Head(hand)) = <<>>
  BY <1>1, <1>2, EmptySeq DEF CaptureTypes, ImageOf
<1>4. collected \o <<>> = collected
  BY <1>3, ConcatEmptySeq
<1>5. \/ acq' = Append(acq, <<>>)
      \/ acq' = acq /\ series' = series
  BY DEF TakeStart
<1>6. /\ acq' \in Seq(Seq(M)) /\ (acq' # <<>> \/ (acq' = acq /\ series' = series))
      /\ FlattenSeq(acq') = FlattenSeq(acq)
  <2>1. CASE acq' = Append(acq, <<>>)
    <3> DEFINE e == <<>>
    <3>1. e \in Seq(M)
      BY <1>3
    <3>2. acq' = Append(acq, e)
      BY <2>1
    <3>3. FlattenSeq(acq) \o e = FlattenSeq(acq)
      BY <1>2, CaptureFacts, ConcatEmptySeq
    <3> HIDE DEF e
    <3>4. Append(acq, e) \in Seq(Seq(M)) /\ FlattenSeq(Append(acq, e)) = FlattenSeq(acq) \o e
      BY <1>3, <3>1, FlattenTyped
    <3>5. Append(acq, e) # <<>>
      BY <1>3, <3>1, AppendProperties
    <3>6. acq' \in Seq(Seq(M)) /\ acq' # <<>>
      BY <3>2, <3>4, <3>5
    <3>7. FlattenSeq(acq') = FlattenSeq(acq)
      BY <3>2, <3>3, <3>4
    <3> QED BY <3>6, <3>7
  <2>2. CASE acq' = acq /\ series' = series
    BY <2>2, <1>3
  <2> QED BY <2>1, <2>2, <1>5
<1>7. Accumulating'
  BY <1>1, <1>2, <1>6 DEF Accumulating
<1> QED
  BY <1>1, <1>2, <1>3, <1>4, <1>6, <1>7, HandKeeps

\* END in a file or in a recording: the batch is folded.
LEMMA EndKeeps ==
  ASSUME NEW M, CaptureState(M), TakeEndOfRun \/ TakeEndOfSeries
  PROVE  CaptureState(M)'
<1>1. /\ consumer = "running" /\ hand # <<>> /\ Head(hand).type = "end"
      /\ ~Raises(Head(hand)) /\ hand' = Tail(hand)
      /\ collected' = <<>> /\ acq' = Folded(collected)
      /\ UNCHANGED <<setup, sending, tape, torn, play, stage, feeder, sockets, pushback>>
  BY DEF TakeEndOfRun, TakeEndOfSeries, recorderVars, feederVars
<1>2. stage = "playing" /\ CaptureTypes(M)
  BY <1>1, RunningIsPlaying
<1>3. acq # <<>>
  <2>1. Head(hand).type # "start"
    BY <1>1
  <2> QED BY <1>1, <2>1, HasAccumulator
<1>4. /\ collected \in Seq(M) /\ <<>> \in Seq(M) /\ ImageOf(Head(hand)) = <<>>
  BY <1>1, <1>2, EmptySeq DEF CaptureTypes, ImageOf
<1>5. /\ acq' \in Seq(Seq(M)) /\ acq' # <<>>
      /\ FlattenSeq(acq') = FlattenSeq(acq) \o collected /\ FlattenSeq(acq') \in Seq(M)
  BY <1>1, <1>2, <1>3, <1>4, FoldedFacts
<1>6. FlattenSeq(acq') \o <<>> = FlattenSeq(acq') /\ collected \o <<>> = collected
  BY <1>4, <1>5, ConcatEmptySeq
<1>7. Accumulating'
  BY <1>5 DEF Accumulating
<1>8. FlattenSeq(acq') \o collected' = FlattenSeq(acq) \o (collected \o ImageOf(Head(hand)))
  BY <1>1, <1>4, <1>5, <1>6
<1> QED
  BY <1>1, <1>2, <1>4, <1>5, <1>7, <1>8, HandKeeps

\* END on the socket: what follows it goes back in front.
LEMMA EndOfRoundKeeps ==
  ASSUME NEW M, CaptureState(M), TakeEndOfRound
  PROVE  CaptureState(M)'
<1>1. /\ consumer = "running" /\ hand # <<>> /\ Head(hand).type = "end"
      /\ ~Raises(Head(hand)) /\ collected' = <<>>
      /\ pushback' = Tail(hand) \o pushback /\ hand' = <<>>
      /\ UNCHANGED <<setup, sending, tape, torn, play, stage, feeder, sockets, series>>
      /\ acq' = Append(Folded(collected), <<>>) \/ acq' = Folded(collected)
  BY DEF TakeEndOfRound, UnreadFirst, recorderVars, feederVars
<1>2. stage = "playing" /\ CaptureTypes(M)
  BY <1>1, RunningIsPlaying
<1>3. acq # <<>>
  <2>1. Head(hand).type # "start"
    BY <1>1
  <2> QED BY <1>1, <2>1, HasAccumulator
<1>4. /\ collected \in Seq(M) /\ <<>> \in Seq(M) /\ ImageOf(Head(hand)) = <<>>
      /\ pushback \in Seq(M) /\ sockets \in Seq(M)
  BY <1>1, <1>2, EmptySeq DEF CaptureTypes, ImageOf
<1> DEFINE c == Folded(collected)
<1>5. /\ c \in Seq(Seq(M)) /\ c # <<>>
      /\ FlattenSeq(c) = FlattenSeq(acq) \o collected /\ FlattenSeq(c) \in Seq(M)
  BY <1>2, <1>3, <1>4, FoldedFacts
<1>6. acq' = Append(c, <<>>) \/ acq' = c
  BY <1>1
<1> HIDE DEF c
<1>7. acq' \in Seq(Seq(M)) /\ acq' # <<>> /\ FlattenSeq(acq') = FlattenSeq(c)
  <2>1. CASE acq' = Append(c, <<>>)
    <3> DEFINE e == <<>>
    <3>1. e \in Seq(M)
      BY <1>4
    <3>2. acq' = Append(c, e)
      BY <2>1
    <3>3. FlattenSeq(c) \o e = FlattenSeq(c)
      BY <1>5, ConcatEmptySeq
    <3> HIDE DEF e
    <3>4. Append(c, e) \in Seq(Seq(M)) /\ FlattenSeq(Append(c, e)) = FlattenSeq(c) \o e
      BY <1>5, <3>1, FlattenTyped
    <3>5. Append(c, e) # <<>>
      <4>1. e \in Seq(M) /\ c \in Seq(Seq(M))
        BY <1>5, <3>1
      <4> QED BY <4>1, AppendProperties
    <3> QED BY <3>2, <3>3, <3>4, <3>5
  <2>2. CASE acq' = c
    BY <2>2, <1>5
  <2> QED BY <2>1, <2>2, <1>6
<1>8. /\ Tail(hand) \in Seq(M) /\ Images(Tail(hand)) \in Seq(M)
      /\ Images(hand) = <<>> \o Images(Tail(hand))
  BY <1>1, <1>2, <1>4, LookedAt
<1>9. /\ pushback' \in Seq(M)
      /\ Images(pushback') = Images(Tail(hand)) \o Images(pushback)
  BY <1>1, <1>4, <1>8, ImagesJoin, ConcatProperties
<1> DEFINE X == FlattenSeq(acq) \o collected
           t == Images(Tail(hand))
           p == Images(pushback)
<1>10. X \in Seq(M) /\ t \in Seq(M) /\ p \in Seq(M)
  BY <1>2, <1>8, CaptureFacts, ConcatProperties
<1>11. Images(hand) = t
  BY <1>8, ConcatEmptySeq
<1>12. FlattenSeq(acq') \o collected' = X
  BY <1>1, <1>5, <1>7, <1>10, ConcatEmptySeq
<1>13. OnTheWay = ((X \o t) \o p) \o Images(sockets)
  BY <1>11 DEF OnTheWay
<1>14. OnTheWay' = ((X \o <<>>) \o (t \o p)) \o Images(sockets)
  <2>1. OnTheWay' = (((FlattenSeq(acq') \o collected') \o Images(hand')) \o Images(pushback'))
                       \o Images(sockets')
    BY DEF OnTheWay
  <2>2. Images(hand') = <<>> /\ sockets' = sockets
    BY <1>1, ImagesOfNone
  <2> QED BY <2>1, <2>2, <1>9, <1>12
<1>15. (X \o t) \o p = (X \o <<>>) \o (t \o p)
  <2> HIDE DEF X, t, p
  <2> QED BY <1>10, GivenBack
<1>16. OnTheWay' = OnTheWay
  BY <1>13, <1>14, <1>15
<1>17. Accumulating'
  BY <1>7 DEF Accumulating
<1>18. sockets' \in Seq(M) /\ hand' \in Seq(M) /\ collected' \in Seq(M)
  BY <1>1, <1>4
<1> QED
  BY <1>1, <1>2, <1>7, <1>9, <1>16, <1>17, <1>18, ConsumerKeeps

\* The batch is folded, or stays.
LEMMA FlushKeeps ==
  ASSUME NEW M, CaptureState(M), EndOfFile \/ FlushDue
  PROVE  CaptureState(M)'
<1>1. /\ consumer = "running"
      /\ UNCHANGED <<setup, sending, tape, torn, play, stage, feeder, sockets, pushback, hand, series>>
      /\ \/ collected' = collected /\ acq' = acq
         \/ acq # <<>> /\ collected' = <<>> /\ acq' = Folded(collected)
      /\ consumer' \in {"running", "failed", "done"}
  <2>1. CASE EndOfFile
    BY <2>1 DEF EndOfFile, recorderVars, feederVars
  <2>2. CASE FlushDue
    <3>1. acq # <<>>
      BY <2>2 DEF FlushDue, CaptureState, Accumulating
    <3>2. consumer = "running"
      BY <2>2 DEF FlushDue
    <3> QED BY <2>2, <3>1, <3>2 DEF FlushDue, recorderVars, feederVars
  <2> QED BY <2>1, <2>2
<1>2. stage = "playing" /\ CaptureTypes(M) /\ Accumulating
  BY <1>1, RunningIsPlaying
<1>3. /\ collected \in Seq(M) /\ acq \in Seq(Seq(M)) /\ <<>> \in Seq(M)
      /\ sockets' \in Seq(M) /\ pushback' \in Seq(M) /\ hand' \in Seq(M)
  BY <1>1, <1>2, EmptySeq DEF CaptureTypes
<1>4. CASE collected' = collected /\ acq' = acq
  <2>1. Accumulating' /\ OnTheWay' = OnTheWay
    BY <1>1, <1>2, <1>4 DEF Accumulating, OnTheWay
  <2> QED BY <1>1, <1>2, <1>3, <1>4, <2>1, ConsumerKeeps
<1>5. CASE acq # <<>> /\ collected' = <<>> /\ acq' = Folded(collected)
  <2>1. /\ acq' \in Seq(Seq(M)) /\ acq' # <<>>
        /\ FlattenSeq(acq') = FlattenSeq(acq) \o collected /\ FlattenSeq(acq') \in Seq(M)
    BY <1>2, <1>3, <1>5, FoldedFacts
  <2>2. FlattenSeq(acq') \o <<>> = FlattenSeq(acq')
    BY <2>1, ConcatEmptySeq
  <2>3. FlattenSeq(acq') \o collected' = FlattenSeq(acq) \o collected
    BY <2>1, <2>2, <1>5
  <2>4. OnTheWay' = OnTheWay
    BY <2>3, <1>1 DEF OnTheWay
  <2>5. Accumulating' /\ collected' \in Seq(M)
    BY <2>1, <1>3, <1>5 DEF Accumulating
  <2> QED BY <1>1, <1>2, <1>3, <2>1, <2>4, <2>5, ConsumerKeeps
<1> QED
  BY <1>1, <1>4, <1>5

-----------------------------------------------------------------------------
(* Recording.                                                               *)

LEMMA BeforePlaying ==
  ASSUME NEW M, CaptureState(M), stage # "playing", stage' # "playing",
         UNCHANGED <<setup, play, feeder, sockets, pushback, hand, collected, series, acq, consumer>>,
         tape' \in Seq(Message), sending' \in Seq(Message)
  PROVE  CaptureState(M)'
<1>1. CaptureTypes(M)'
  BY DEF CaptureState, CaptureTypes
<1>2. NotPlayed' /\ Accumulating'
  BY DEF CaptureState, NotPlayed, Accumulating
<1> QED
  BY <1>1, <1>2 DEF CaptureState

LEMMA MessagesMade ==
  ASSUME NEW n \in Nat
  PROVE  Written(n) \in Seq(Message)
<1>1. Control("start", 1) \in Message /\ Control("end", 1) \in Message
  BY DEF Control, Message
<1>2. \A i \in 1 .. n : Image(1, i - 1, i - 1) \in Message
  BY DEF Image, Message
<1> DEFINE s == [i \in 1 .. n |-> Image(1, i - 1, i - 1)]
           a == <<Control("start", 1)>>
           b == <<Control("end", 1)>>
<1>3. s \in [1 .. n -> Message]
  BY <1>2
<1>4. s \in Seq(Message)
  <2> HIDE DEF s
  <2> QED BY <1>3
<1>5. a \in Seq(Message) /\ b \in Seq(Message)
  BY <1>1
<1>6. Written(n) = (a \o s) \o b
  BY DEF Written
<1>7. (a \o s) \o b \in Seq(Message)
  <2> HIDE DEF a, b, s
  <2>1. a \o s \in Seq(Message)
    BY <1>4, <1>5, ConcatProperties
  <2> QED BY <2>1, <1>5, ConcatProperties
<1> QED
  BY <1>6, <1>7

LEMMA RecordKeeps ==
  ASSUME NEW M, CaptureState(M), RecordMessage \/ RecordIdle \/ RecordCut \/ Refuse
  PROVE  CaptureState(M)'
<1>1. /\ stage # "playing" /\ stage' # "playing"
      /\ UNCHANGED <<setup, play, feeder, sockets, pushback, hand, collected, series, acq, consumer>>
      /\ \/ tape' = tape /\ sending' = sending
         \/ sending # <<>> /\ tape' = Append(tape, Head(sending)) /\ sending' = Tail(sending)
         \/ sending' = sending /\ \E n \in 0 .. Len(tape) : tape' = SubSeq(tape, 1, n)
  <2>1. CASE RecordMessage
    BY <2>1 DEF RecordMessage, feederVars, consumerVars
  <2>2. CASE RecordIdle
    BY <2>2 DEF RecordIdle, feederVars, consumerVars, recorderVars
  <2>3. CASE RecordCut
    BY <2>3 DEF RecordCut, feederVars, consumerVars
  <2>4. CASE Refuse
    BY <2>4 DEF Refuse, feederVars, consumerVars, recorderVars
  <2> QED BY <2>1, <2>2, <2>3, <2>4
<1>2. tape \in Seq(Message) /\ sending \in Seq(Message)
  BY DEF CaptureState, CaptureTypes
<1>3. tape' \in Seq(Message) /\ sending' \in Seq(Message)
  <2>1. CASE tape' = tape /\ sending' = sending
    BY <2>1, <1>2
  <2>2. CASE sending # <<>> /\ tape' = Append(tape, Head(sending)) /\ sending' = Tail(sending)
    <3>1. Head(sending) \in Message /\ Tail(sending) \in Seq(Message)
      BY <2>2, <1>2, HeadTailProperties
    <3> QED BY <2>2, <3>1, <1>2, AppendProperties
  <2>3. CASE sending' = sending /\ \E n \in 0 .. Len(tape) : tape' = SubSeq(tape, 1, n)
    <3>1. PICK n \in 0 .. Len(tape) : tape' = SubSeq(tape, 1, n)
      BY <2>3
    <3>2. Len(tape) \in Nat /\ \A i \in 1 .. Len(tape) : tape[i] \in Message
      BY <1>2, LenProperties, ElementOfSeq
    <3>3. 1 \in Int /\ n \in Int /\ \A i \in 1 .. n : tape[i] \in Message
      BY <3>1, <3>2
    <3> QED BY <2>3, <3>1, <3>3, <1>2, SubSeqProperties
  <2> QED BY <2>1, <2>2, <2>3, <1>1
<1> QED
  BY <1>1, <1>3, BeforePlaying

LEMMA SynthesiseKeeps ==
  ASSUME CaptureConstants, NEW M, CaptureState(M), Synthesise
  PROVE  CaptureState(M)'
<1>1. /\ stage # "playing" /\ stage' # "playing" /\ sending' = sending
      /\ UNCHANGED <<setup, play, feeder, sockets, pushback, hand, collected, series, acq, consumer>>
  BY DEF Synthesise, feederVars, consumerVars
<1>2. /\ setup \in Setups /\ sending \in Seq(Message)
  BY DEF CaptureState, CaptureTypes
<1>3. /\ setup.frames \in Nat /\ setup.from \in {"make", "convert", "simulate"}
      /\ ScanHeight \in Nat /\ ScanWidth \in Nat
  BY <1>2 DEF CaptureConstants, Synthesise
<1>4. \E n \in Nat : tape' = Written(n)
  <2>1. CASE setup.from \in {"make", "convert"}
    BY <2>1, <1>3 DEF Synthesise, Made, Converted
  <2>2. CASE setup.from = "simulate"
    <3>1. tape' = Written(setup.frames * Positions)
      BY <2>2 DEF Synthesise, Simulated
    <3>2. Positions \in Nat
      BY <1>3 DEF Positions
    <3>3. setup.frames * Positions \in Nat
      <4> DEFINE k == setup.frames
                 p == Positions
      <4>1. k \in Nat /\ p \in Nat
        BY <1>3, <3>2
      <4> HIDE DEF k, p
      <4>2. k * p \in Nat
        BY <4>1
      <4> QED BY <4>2 DEF k, p
    <3> QED BY <3>1, <3>3
  <2> QED BY <2>1, <2>2, <1>3
<1>5. tape' \in Seq(Message)
  BY <1>4, MessagesMade
<1> QED
  BY <1>1, <1>2, <1>5, BeforePlaying

-----------------------------------------------------------------------------
(* The feeder's steps.                                                      *)

LEMMA SentBehind ==
  ASSUME NEW M, CaptureTypes(M), NEW x \in Seq(M)
  PROVE  (((FlattenSeq(acq) \o collected) \o Images(hand)) \o Images(pushback))
            \o (Images(sockets) \o x) = OnTheWay \o x
<1> DEFINE y == ((FlattenSeq(acq) \o collected) \o Images(hand)) \o Images(pushback)
           w == Images(sockets)
<1>1. y \in Seq(M) /\ w \in Seq(M)
  <2>1. /\ FlattenSeq(acq) \in Seq(M) /\ Images(hand) \in Seq(M)
        /\ Images(pushback) \in Seq(M) /\ w \in Seq(M) /\ collected \in Seq(M)
    BY CaptureFacts
  <2>2. FlattenSeq(acq) \o collected \in Seq(M)
    BY <2>1, ConcatProperties
  <2>3. (FlattenSeq(acq) \o collected) \o Images(hand) \in Seq(M)
    BY <2>1, <2>2, ConcatProperties
  <2> QED BY <2>1, <2>3, ConcatProperties
<1>2. OnTheWay = y \o w
  BY DEF OnTheWay
<1>3. (y \o w) \o x = y \o (w \o x)
  <2> HIDE DEF y, w
  <2> QED BY <1>1, Associate
<1> QED
  BY <1>2, <1>3

LEMMA FeederKeeps ==
  ASSUME NEW M, CaptureState(M), stage = "playing", NEW x \in Seq(M),
         UNCHANGED <<setup, sending, tape, torn, play, stage, pushback, hand, collected, series, acq,
                     consumer>>,
         feeder' \in [next : Nat, images : Nat, held : M, ends : Nat, open : BOOLEAN],
         sockets' \in Seq(M), Images(sockets') = Images(sockets) \o x,
         Feeding', Due' = Due \o x
  PROVE  CaptureState(M)'
<1>1. CaptureTypes(M)
  BY DEF CaptureState
<1>2. CaptureTypes(M)'
  BY <1>1 DEF CaptureTypes
<1>3. Accumulating' /\ stage' = "playing"
  BY DEF CaptureState, Accumulating
<1>4. OnTheWay' = OnTheWay \o x
  <2>1. OnTheWay' = (((FlattenSeq(acq) \o collected) \o Images(hand)) \o Images(pushback))
                      \o (Images(sockets) \o x)
    BY DEF OnTheWay
  <2> QED BY <2>1, <1>1, SentBehind
<1>5. OnTheWay = Due
  BY DEF CaptureState
<1> QED
  BY <1>2, <1>3, <1>4, <1>5 DEF CaptureState

\* One message more is read.
LEMMA ReadNext ==
  ASSUME NEW M, CaptureState(M), feeder.open, feeder.next <= Len(play),
         UNCHANGED <<setup, play>>, feeder'.next = feeder.next + 1
  PROVE  /\ stage = "playing" /\ Feeding /\ CaptureTypes(M)
         /\ play[feeder.next] \in M
         /\ feeder'.next \in 1 .. Len(play) + 1
         /\ Images(Read) \in Seq(M)
         /\ Images(Read') = Images(Read) \o ImageOf(play[feeder.next])
<1>1. stage = "playing" /\ Feeding /\ CaptureTypes(M)
  BY RunningIsPlaying
<1>2. /\ Streaming /\ play \in Seq(M) /\ Len(play) \in Nat /\ feeder.next \in 1 .. Len(play) + 1
  <2>1. play \in Seq(M)
    BY <1>1 DEF CaptureTypes
  <2> QED BY <1>1, <2>1, LenProperties DEF Feeding
<1> DEFINE n == feeder.next
<1>3. n \in 1 .. Len(play) /\ 1 \in 1 .. Len(play) /\ n + 1 \in 1 .. Len(play) + 1 /\ (n + 1) - 1 = n
  BY <1>2
<1>4. play[n] \in M
  BY <1>2, <1>3, ElementOfSeq
<1>5. Read = SubSeq(play, 1, n - 1) /\ Read' = SubSeq(play, 1, n)
  <2>1. Streaming'
    BY <1>2 DEF Streaming
  <2>2. Read = SubSeq(play, 1, n - 1)
    BY <1>2 DEF Read
  <2>3. Read' = SubSeq(play, 1, (n + 1) - 1)
    BY <2>1 DEF Read
  <2> QED BY <2>2, <2>3, <1>3
<1>6. Read' = Read \o <<play[n]>>
  <2> HIDE DEF n
  <2>1. SubSeq(play, 1, n) = SubSeq(play, 1, n - 1) \o <<play[n]>>
    BY <1>2, <1>3, SubSeqRecursiveSecond
  <2> QED BY <2>1, <1>5
<1>7. Read \in Seq(M)
  <2>1. 1 \in Int /\ n - 1 \in Int /\ \A i \in 1 .. (n - 1) : play[i] \in M
    BY <1>2, <1>3, ElementOfSeq
  <2> HIDE DEF n
  <2> QED BY <2>1, <1>5, SubSeqProperties
<1>8. Read' = Append(Read, play[n])
  BY <1>4, <1>6, <1>7, AppendIsConcat
<1>9. /\ Images(Read) \in Seq(M)
      /\ Images(Append(Read, play[n])) = Images(Read) \o ImageOf(play[n])
  BY <1>4, <1>7, ImagesGrow
<1> QED
  BY <1>1, <1>3, <1>4, <1>8, <1>9

FeederType(M) == [next : Nat, images : Nat, held : M, ends : Nat, open : BOOLEAN]

LEMMA SentMessage ==
  ASSUME NEW M, CaptureTypes(M), NEW m \in M, Put(m)
  PROVE  sockets' \in Seq(M) /\ Images(sockets') = Images(sockets) \o ImageOf(m)
<1>1. sockets \in Seq(M) /\ sockets' = Append(sockets, m)
  BY DEF CaptureTypes, Put
<1> QED
  BY <1>1, AppendProperties, ImagesGrow

LEMMA NothingSent ==
  ASSUME NEW M, CaptureTypes(M), sockets' = sockets
  PROVE  /\ sockets' \in Seq(M) /\ <<>> \in Seq(M)
         /\ Images(sockets') = Images(sockets) \o <<>>
<1>1. sockets \in Seq(M) /\ Images(sockets) \in Seq(M)
  BY CaptureFacts DEF CaptureTypes
<1> QED
  BY <1>1, ConcatEmptySeq, EmptySeq

\* A first part of a longer sequence.
LEMMA PartOfLonger ==
  ASSUME NEW S, NEW s \in Seq(S), NEW t \in Seq(S), NEW n \in 0 .. Len(s)
  PROVE  /\ SubSeq(s \o t, 1, n) = SubSeq(s, 1, n) /\ SubSeq(s, 1, n) \in Seq(S)
         /\ Len(s) \in Nat /\ Len(t) \in Nat /\ Len(s \o t) = Len(s) + Len(t)
<1>1. /\ Len(s) \in Nat /\ Len(t) \in Nat /\ Len(s \o t) = Len(s) + Len(t)
  BY LenProperties, ConcatProperties
<1>2. SubSeq(s, 1, n) \in Seq(S)
  <2>1. 1 \in Int /\ n \in Int /\ \A i \in 1 .. n : s[i] \in S
    BY <1>1, ElementOfSeq
  <2> QED BY <2>1, SubSeqProperties
<1>3. CASE n = 0
  <2>1. SubSeq(s \o t, 1, n) = <<>> /\ SubSeq(s, 1, n) = <<>>
    <3>1. 1 \in Int /\ n \in Int /\ n < 1
      BY <1>3
    <3> QED BY <3>1, SubSeqEmpty
  <2> QED BY <2>1, <1>1, <1>2
<1>4. CASE n # 0
  <2>1. 1 \in 1 .. Len(s) /\ n \in 1 .. Len(s)
    BY <1>4, <1>1
  <2>2. SubSeq(s \o t, 1, n) = SubSeq(s, 1, n)
    BY <2>1, SubSeqOfConcat1
  <2> QED BY <2>2, <1>1, <1>2
<1> QED
  BY <1>3, <1>4

\* What a limit on the images lets through of the messages read so far, when one more is read.
LEMMA DueNext ==
  ASSUME NEW M, NEW r \in Seq(M), NEW x \in Seq(M), NEW n \in Nat,
         n <= Len(r)
  PROVE  /\ SubSeq(r \o x, 1, n) = SubSeq(r, 1, n) /\ n <= Len(r \o x)
         /\ SubSeq(r, 1, n) \in Seq(M)
         /\ n = Len(r) => SubSeq(r, 1, n) = r /\ SubSeq(r \o x, 1, Len(r \o x)) = r \o x
<1>1. Len(r) \in Nat /\ n \in 0 .. Len(r)
  BY LenProperties
<1>2. /\ SubSeq(r \o x, 1, n) = SubSeq(r, 1, n) /\ SubSeq(r, 1, n) \in Seq(M)
      /\ Len(x) \in Nat /\ Len(r \o x) = Len(r) + Len(x)
  BY <1>1, PartOfLonger
<1>3. SubSeq(r, 1, Len(r)) = r
  BY SubSeqFull
<1>4. SubSeq(r \o x, 1, Len(r \o x)) = r \o x
  <2>1. r \o x \in Seq(M)
    BY ConcatProperties
  <2> DEFINE y == r \o x
  <2>2. y \in Seq(M)
    BY <2>1
  <2> HIDE DEF y
  <2>3. SubSeq(y, 1, Len(y)) = y
    BY <2>2, SubSeqFull
  <2> QED BY <2>3 DEF y
<1>5. n <= Len(r \o x)
  BY <1>1, <1>2
<1>6. n = Len(r) => SubSeq(r, 1, n) = r
  BY <1>3
<1> QED
  BY <1>2, <1>4, <1>5, <1>6

\* No image, or one that the limit keeps back: as much is due as before.
LEMMA NothingDue ==
  ASSUME NEW M, CaptureState(M), feeder.open, feeder.next <= Len(play),
         UNCHANGED <<setup, play>>, feeder'.next = feeder.next + 1,
         feeder'.images = feeder.images,
         \/ play[feeder.next].type # "image"
         \/ Limited /\ ~(feeder.images < setup.max),
         feeder'.held.type # "image", feeder'.open => Streaming
  PROVE  Feeding' /\ Due' = Due \o <<>> /\ <<>> \in Seq(M)
<1>1. /\ stage = "playing" /\ Feeding /\ CaptureTypes(M) /\ play[feeder.next] \in M
      /\ feeder'.next \in 1 .. Len(play) + 1 /\ Images(Read) \in Seq(M)
      /\ Images(Read') = Images(Read) \o ImageOf(play[feeder.next])
  BY ReadNext
<1> DEFINE r == Images(Read)
           x == ImageOf(play[feeder.next])
           n == feeder.images
<1>2. r \in Seq(M) /\ x \in Seq(M) /\ <<>> \in Seq(M) /\ n \in Nat
  BY <1>1, ImageOfTyped, EmptySeq DEF CaptureTypes
<1>3. Limited => n <= Len(r) /\ (n < setup.max => n = Len(r))
  BY <1>1 DEF Feeding
<1>4. (Limited <=> Limited') /\ (Streaming <=> Streaming')
  BY DEF Limited, Streaming
<1>5. /\ Due = IF Limited THEN SubSeq(r, 1, n) ELSE r
      /\ Due' = IF Limited THEN SubSeq(r \o x, 1, n) ELSE r \o x
  BY <1>1, <1>4 DEF Due
<1>6. x # <<>> => Limited /\ ~(n < setup.max)
  BY DEF ImageOf
<1>7. r \o <<>> = r
  BY <1>2, ConcatEmptySeq
<1>8. Limited => /\ n <= Len(r \o x) /\ SubSeq(r \o x, 1, n) = SubSeq(r, 1, n)
                 /\ SubSeq(r, 1, n) \in Seq(M)
  <2> HIDE DEF r, x, n
  <2> QED BY <1>2, <1>3, DueNext
<1>9. Feeding'
  <2>1. Limited => n <= Len(r \o x) /\ (n < setup.max => n = Len(r \o x))
    <3>1. CASE x = <<>>
      BY <3>1, <1>3, <1>7
    <3>2. CASE x # <<>>
      BY <3>2, <1>6, <1>8
    <3> QED BY <3>1, <3>2
  <2> QED BY <2>1, <1>1, <1>4 DEF Feeding
<1>10. Due' = Due /\ Due \in Seq(M)
  <2>1. CASE Limited
    BY <2>1, <1>5, <1>8
  <2>2. CASE ~Limited
    BY <2>2, <1>2, <1>5, <1>6, <1>7
  <2> QED BY <2>1, <2>2
<1>11. Due \o <<>> = Due
  <2> HIDE DEF r, x, n
  <2> QED BY <1>10, ConcatEmptySeq
<1> QED
  BY <1>2, <1>9, <1>10, <1>11

\* An image is read and may be sent: it is due.
LEMMA ImageDue ==
  ASSUME NEW M, CaptureState(M), feeder.open, feeder.next <= Len(play),
         UNCHANGED <<setup, play>>, feeder'.next = feeder.next + 1,
         Limited => /\ feeder.images < setup.max /\ feeder'.images = feeder.images + 1
                    /\ play[feeder.next].type = "image",
         feeder'.held.type # "image", feeder'.open => Streaming
  PROVE  /\ Feeding' /\ Due' = Due \o ImageOf(play[feeder.next])
         /\ ImageOf(play[feeder.next]) \in Seq(M)
<1>1. /\ stage = "playing" /\ Feeding /\ CaptureTypes(M) /\ play[feeder.next] \in M
      /\ feeder'.next \in 1 .. Len(play) + 1 /\ Images(Read) \in Seq(M)
      /\ Images(Read') = Images(Read) \o ImageOf(play[feeder.next])
  BY ReadNext
<1> DEFINE r == Images(Read)
           x == ImageOf(play[feeder.next])
           n == feeder.images
<1>2. r \in Seq(M) /\ x \in Seq(M) /\ n \in Nat
  BY <1>1, ImageOfTyped DEF CaptureTypes
<1>3. Limited => n = Len(r) /\ feeder'.images = n + 1 /\ x = <<play[feeder.next]>>
  BY <1>1 DEF Feeding, ImageOf
<1>4. (Limited <=> Limited') /\ (Streaming <=> Streaming')
  BY DEF Limited, Streaming
<1>5. /\ Due = IF Limited THEN SubSeq(r, 1, n) ELSE r
      /\ Due' = IF Limited THEN SubSeq(r \o x, 1, feeder'.images) ELSE r \o x
  BY <1>1, <1>4 DEF Due
<1>6. Limited => Len(r \o x) = n + 1
  <2>1. Len(<<play[feeder.next]>>) = 1
    OBVIOUS
  <2>2. Len(r \o x) = Len(r) + Len(x)
    <3> HIDE DEF r, x
    <3> QED BY <1>2, ConcatProperties
  <2> QED BY <2>1, <2>2, <1>3
<1>7. Limited => /\ SubSeq(r, 1, n) = r /\ SubSeq(r \o x, 1, Len(r \o x)) = r \o x
  <2>1. Limited => n <= Len(r)
    BY <1>2, <1>3
  <2> HIDE DEF r, x, n
  <2> QED BY <2>1, <1>2, <1>3, DueNext
<1>8. Due' = Due \o x
  BY <1>3, <1>5, <1>6, <1>7
<1>9. Feeding'
  <2>1. Limited => feeder'.images <= Len(r \o x) /\ feeder'.images = Len(r \o x)
    BY <1>2, <1>3, <1>6
  <2> HIDE DEF x, r, n
  <2>2. Images(Read') = r \o x
    BY <1>1 DEF r, x
  <2> QED BY <2>1, <2>2, <1>1, <1>4 DEF Feeding
<1> QED
  BY <1>2, <1>8, <1>9

LEMMA FeedKeeps ==
  ASSUME CaptureConstants, NEW M, CaptureState(M), FeedMessage
  PROVE  CaptureState(M)'
<1> DEFINE m == play[feeder.next]
           after == [feeder EXCEPT !.next = @ + 1]
<1>1. /\ feeder.open /\ setup.player = "zmq" /\ feeder.next <= Len(play)
      /\ UNCHANGED <<setup, sending, tape, torn, play, stage, pushback, hand, collected, series, acq,
                     consumer>>
  BY DEF FeedMessage, recorderVars, consumerVars
<1>2. stage = "playing" /\ Feeding /\ CaptureTypes(M)
  BY <1>1, RunningIsPlaying
<1>3. feeder \in FeederType(M) /\ feeder.held.type # "image" /\ Streaming
  BY <1>1, <1>2 DEF CaptureTypes, FeederType, Feeding
<1>4. m \in M
  <2>1. play \in Seq(M) /\ feeder.next \in 1 .. Len(play)
    BY <1>1, <1>2, LenProperties DEF CaptureTypes, Feeding
  <2> QED BY <2>1, ElementOfSeq
<1>5. \/ /\ m.type # "image" /\ Put(m)
         /\ feeder' = after \/ feeder' = [after EXCEPT !.ends = @ + 1]
      \/ /\ m.type = "image" /\ ~Enough /\ Put(m)
         /\ feeder' = [after EXCEPT !.images = @ + 1]
      \/ /\ m.type = "image" /\ Enough /\ feeder' = after /\ sockets' = sockets
      \/ /\ m.type = "end" /\ feeder' = [after EXCEPT !.held = m] /\ sockets' = sockets
  BY DEF FeedMessage
<1> HIDE DEF m
<1>6. setup.max \in Nat
  BY <1>2 DEF CaptureTypes, CaptureConstants
<1>7. /\ after \in FeederType(M) /\ after.next = feeder.next + 1 /\ after.open = feeder.open
      /\ after.held = feeder.held /\ after.images = feeder.images
  BY <1>3 DEF FeederType
<1> HIDE DEF after
<1>8. /\ feeder' \in FeederType(M) /\ feeder'.next = feeder.next + 1 /\ feeder'.open = feeder.open
      /\ feeder'.held = feeder.held \/ (feeder'.held = m /\ m.type = "end")
      /\ \/ feeder'.images = feeder.images
         \/ feeder'.images = feeder.images + 1 /\ m.type = "image" /\ ~Enough
  <2>1. CASE feeder' = after
    BY <2>1, <1>7 DEF FeederType
  <2>2. CASE feeder' = [after EXCEPT !.ends = @ + 1]
    BY <2>2, <1>7 DEF FeederType
  <2>3. CASE feeder' = [after EXCEPT !.images = @ + 1] /\ m.type = "image" /\ ~Enough
    BY <2>3, <1>7 DEF FeederType
  <2>4. CASE feeder' = [after EXCEPT !.held = m] /\ m.type = "end"
    BY <2>4, <1>7, <1>4 DEF FeederType
  <2> QED BY <1>5, <2>1, <2>2, <2>3, <2>4
<1>9. feeder'.held.type # "image" /\ (feeder'.open => Streaming)
  <2>1. CASE feeder'.held = feeder.held
    BY <2>1, <1>3, <1>8
  <2>2. CASE feeder'.held = m /\ m.type = "end"
    BY <2>2, <1>3
  <2> QED BY <2>1, <2>2, <1>8
<1>10. feeder' \in [next : Nat, images : Nat, held : M, ends : Nat, open : BOOLEAN]
  BY <1>8 DEF FeederType
<1>11. CASE m.type # "image" \/ (m.type = "image" /\ Enough /\ feeder' = after /\ sockets' = sockets)
  <2>1. feeder'.images = feeder.images
    BY <1>11, <1>8
  <2>2. \/ m.type # "image"
        \/ Limited /\ ~(feeder.images < setup.max)
    <3>1. CASE m.type # "image"
      BY <3>1
    <3>2. CASE Enough
      <4>1. setup.max > 0 /\ feeder.images >= setup.max
        BY <3>2 DEF Enough
      <4>2. feeder.images \in Nat
        BY <1>3 DEF FeederType
      <4> QED BY <4>1, <4>2, <1>1, <1>6 DEF Limited
    <3> QED BY <3>1, <3>2, <1>11
  <2>3. Feeding' /\ Due' = Due \o <<>> /\ <<>> \in Seq(M)
    BY <2>1, <2>2, <1>1, <1>8, <1>9, NothingDue DEF m
  <2>4. sockets' \in Seq(M) /\ Images(sockets') = Images(sockets) \o <<>>
    <3>1. CASE m.type # "image" /\ Put(m)
      <4>1. ImageOf(m) = <<>>
        BY <3>1 DEF ImageOf
      <4> QED BY <3>1, <4>1, <1>2, <1>4, SentMessage
    <3>2. CASE sockets' = sockets
      BY <3>2, <1>2, NothingSent
    <3> QED BY <3>1, <3>2, <1>5, <1>11
  <2> DEFINE e == <<>>
  <2>5. /\ e \in Seq(M) /\ Due' = Due \o e
        /\ Images(sockets') = Images(sockets) \o e
    BY <2>3, <2>4
  <2> HIDE DEF e
  <2> QED BY <2>3, <2>4, <2>5, <1>1, <1>2, <1>10, FeederKeeps
<1>12. CASE m.type = "image" /\ ~Enough /\ Put(m) /\ feeder' = [after EXCEPT !.images = @ + 1]
  <2>1. feeder'.images = feeder.images + 1
    BY <1>7, <1>12 DEF FeederType
  <2>2. Limited => feeder.images < setup.max
    <3>1. feeder.images \in Nat
      BY <1>3 DEF FeederType
    <3> QED BY <3>1, <1>12, <1>6 DEF Limited, Enough
  <2>3. Feeding' /\ Due' = Due \o ImageOf(m) /\ ImageOf(m) \in Seq(M)
    BY <2>1, <2>2, <1>1, <1>8, <1>9, <1>12, ImageDue DEF m
  <2>4. sockets' \in Seq(M) /\ Images(sockets') = Images(sockets) \o ImageOf(m)
    BY <1>2, <1>4, <1>12, SentMessage
  <2> QED BY <2>3, <2>4, <1>1, <1>2, <1>10, FeederKeeps
<1> QED
  BY <1>5, <1>11, <1>12

LEMMA FeedRawKeeps ==
  ASSUME NEW M, CaptureState(M), FeedRaw
  PROVE  CaptureState(M)'
<1> DEFINE m == play[feeder.next]
<1>1. /\ feeder.open /\ setup.player = "fast" /\ feeder.next <= Len(play) /\ Put(m)
      /\ feeder' = [feeder EXCEPT !.next = @ + 1]
      /\ UNCHANGED <<setup, sending, tape, torn, play, stage, pushback, hand, collected, series, acq,
                     consumer>>
  BY DEF FeedRaw, recorderVars, consumerVars
<1>2. stage = "playing" /\ Feeding /\ CaptureTypes(M)
  BY <1>1, RunningIsPlaying
<1>3. feeder \in FeederType(M) /\ feeder.held.type # "image" /\ Streaming
  BY <1>1, <1>2 DEF CaptureTypes, FeederType, Feeding
<1>4. m \in M
  <2>1. play \in Seq(M) /\ feeder.next \in 1 .. Len(play)
    BY <1>1, <1>2, LenProperties DEF CaptureTypes, Feeding
  <2> QED BY <2>1, ElementOfSeq
<1> HIDE DEF m
<1>5. /\ feeder' \in FeederType(M) /\ feeder'.next = feeder.next + 1
      /\ feeder'.held = feeder.held
  BY <1>1, <1>3 DEF FeederType
<1>6. ~Limited
  BY <1>1 DEF Limited
<1>7. Feeding' /\ Due' = Due \o ImageOf(m) /\ ImageOf(m) \in Seq(M)
  BY <1>1, <1>3, <1>5, <1>6, ImageDue DEF m
<1>8. sockets' \in Seq(M) /\ Images(sockets') = Images(sockets) \o ImageOf(m)
  BY <1>1, <1>2, <1>4, SentMessage
<1>9. feeder' \in [next : Nat, images : Nat, held : M, ends : Nat, open : BOOLEAN]
  BY <1>5 DEF FeederType
<1> QED
  BY <1>1, <1>2, <1>7, <1>8, <1>9, FeederKeeps

LEMMA FeedTailKeeps ==
  ASSUME NEW M, CaptureState(M), FeedTail
  PROVE  CaptureState(M)'
<1>1. /\ feeder.open /\ feeder' = [feeder EXCEPT !.open = FALSE]
      /\ Put(feeder.held) \/ sockets' = sockets
      /\ UNCHANGED <<setup, sending, tape, torn, play, stage, pushback, hand, collected, series, acq,
                     consumer>>
  BY DEF FeedTail, recorderVars, consumerVars
<1>2. stage = "playing" /\ Feeding /\ CaptureTypes(M)
  BY <1>1, RunningIsPlaying
<1>3. feeder \in FeederType(M) /\ feeder.held.type # "image"
  BY <1>1, <1>2 DEF CaptureTypes, FeederType, Feeding
<1>4. /\ feeder' \in FeederType(M) /\ feeder'.next = feeder.next /\ feeder'.held = feeder.held
      /\ feeder'.images = feeder.images /\ feeder'.open = FALSE
  BY <1>1, <1>3 DEF FeederType
<1>5. /\ (Streaming <=> Streaming') /\ (Limited <=> Limited')
  BY <1>1 DEF Streaming, Limited
<1>6. Read' = Read
  BY <1>1, <1>4, <1>5 DEF Read
<1>7. Feeding'
  BY <1>1, <1>2, <1>4, <1>5, <1>6 DEF Feeding
<1>8. Due' = Due
  BY <1>1, <1>4, <1>5, <1>6 DEF Due
<1>9. Due \in Seq(M)
  <2>1. FlattenSeq(acq) \o collected \in Seq(M)
    BY <1>2, CaptureFacts, ConcatProperties
  <2>2. (FlattenSeq(acq) \o collected) \o Images(hand) \in Seq(M)
    BY <1>2, <2>1, CaptureFacts, ConcatProperties
  <2>3. ((FlattenSeq(acq) \o collected) \o Images(hand)) \o Images(pushback) \in Seq(M)
    BY <1>2, <2>2, CaptureFacts, ConcatProperties
  <2>4. OnTheWay \in Seq(M)
    BY <1>2, <2>3, CaptureFacts, ConcatProperties DEF OnTheWay
  <2> QED BY <2>4, <1>2 DEF CaptureState
<1>10. /\ sockets' \in Seq(M) /\ Images(sockets') = Images(sockets) \o <<>>
       /\ <<>> \in Seq(M)
  <2>1. <<>> \in Seq(M)
    BY EmptySeq
  <2>2. CASE Put(feeder.held)
    <3>1. feeder.held \in M /\ ImageOf(feeder.held) = <<>>
      BY <1>3 DEF FeederType, ImageOf
    <3> QED BY <2>1, <2>2, <3>1, <1>2, SentMessage
  <2>3. CASE sockets' = sockets
    BY <2>3, <1>2, NothingSent
  <2> QED BY <2>2, <2>3, <1>1
<1> DEFINE e == <<>>
<1>11. /\ e \in Seq(M) /\ Due' = Due \o e /\ Images(sockets') = Images(sockets) \o e
  BY <1>8, <1>9, <1>10, ConcatEmptySeq
<1>12. feeder' \in [next : Nat, images : Nat, held : M, ends : Nat, open : BOOLEAN]
  BY <1>4 DEF FeederType
<1> HIDE DEF e
<1> QED
  BY <1>1, <1>2, <1>7, <1>10, <1>11, <1>12, FeederKeeps

-----------------------------------------------------------------------------
(* What is played is a sequence, however it was rewritten.                  *)

IsSequence(s) == \E S : s \in Seq(S)

LEMMA SequenceOf ==
  ASSUME NEW n \in Nat, NEW f, DOMAIN f = 1 .. n, f = [i \in 1 .. n |-> f[i]]
  PROVE  f \in Seq({f[i] : i \in 1 .. n}) /\ IsSequence(f)
<1> DEFINE S == {f[i] : i \in 1 .. n}
<1>1. f \in [1 .. n -> S]
  OBVIOUS
<1>2. f \in Seq(S)
  <2> HIDE DEF S
  <2> QED BY <1>1
<1> QED
  BY <1>2 DEF IsSequence

\* Sequences of sequences, one behind the other.
LEMMA FlattenIsSequence ==
  ASSUME NEW n \in Nat, NEW g, g = [i \in 1 .. n |-> g[i]], \A i \in 1 .. n : IsSequence(g[i])
  PROVE  IsSequence(FlattenSeq(g))
<1> DEFINE Of(i) == CHOOSE S : g[i] \in Seq(S)
           U == UNION {Of(i) : i \in 1 .. n}
<1>1. ASSUME NEW i \in 1 .. n
      PROVE  g[i] \in Seq(U)
  <2>1. g[i] \in Seq(Of(i))
    BY DEF IsSequence
  <2>2. Of(i) \subseteq U
    OBVIOUS
  <2> HIDE DEF Of, U
  <2> QED BY <2>1, <2>2, SeqMonotonic
<1> HIDE DEF U
<1>2. g \in [1 .. n -> Seq(U)]
  BY <1>1
<1>3. g \in Seq(Seq(U))
  BY <1>2
<1>4. <<>> \in Seq(U)
  BY EmptySeq
<1>5. FlattenSeq(g) \in Seq(U)
  <2> DEFINE e == <<>>
  <2>1. e \in Seq(U)
    BY <1>4
  <2> HIDE DEF e
  <2> QED BY <1>3, <2>1, FlattenTyped
<1> QED
  BY <1>5 DEF IsSequence

LEMMA ConcatIsSequence ==
  ASSUME NEW s, NEW t, IsSequence(s), IsSequence(t)
  PROVE  IsSequence(s \o t)
<1>1. PICK S : s \in Seq(S)
  BY DEF IsSequence
<1>2. PICK T : t \in Seq(T)
  BY DEF IsSequence
<1> DEFINE U == S \cup T
<1>3. S \subseteq U /\ T \subseteq U
  OBVIOUS
<1> HIDE DEF U
<1>4. s \in Seq(U) /\ t \in Seq(U)
  BY <1>1, <1>2, <1>3, SeqMonotonic
<1>5. s \o t \in Seq(U)
  BY <1>4, ConcatProperties
<1> QED
  BY <1>5 DEF IsSequence

LEMMA SequenceDomain ==
  ASSUME NEW s, IsSequence(s)
  PROVE  Len(s) \in Nat /\ DOMAIN s = 1 .. Len(s)
<1>1. PICK S : s \in Seq(S)
  BY DEF IsSequence
<1> QED
  BY <1>1, LenProperties

LEMMA EmptyIsSequence == IsSequence(<<>>)
<1>1. <<>> \in Seq({})
  BY EmptySeq
<1> QED
  BY <1>1 DEF IsSequence

LEMMA EndsAreSequences ==
  ASSUME NEW s
  PROVE  IsSequence(FirstOf(s)) /\ IsSequence(LastOf(s))
<1>1. ASSUME NEW x PROVE IsSequence(<<x>>)
  <2>1. <<x>> \in Seq({x})
    OBVIOUS
  <2> QED BY <2>1 DEF IsSequence
<1>2. FirstOf(s) = <<>> \/ FirstOf(s) = <<Head(s)>>
  BY DEF FirstOf
<1>3. LastOf(s) = <<>> \/ LastOf(s) = <<Last(s)>>
  BY DEF LastOf
<1> QED
  BY <1>1, <1>2, <1>3, EmptyIsSequence

\* The members of a sequence at some of its places.
LEMMA AtIsSequence ==
  ASSUME NEW s, IsSequence(s), NEW places
  PROVE  IsSequence(At(s, places))
<1> DEFINE g == [i \in DOMAIN s |-> IF i \in places THEN <<s[i]>> ELSE <<>>]
<1>1. Len(s) \in Nat /\ DOMAIN s = 1 .. Len(s)
  BY SequenceDomain
<1>2. ASSUME NEW i \in 1 .. Len(s)
      PROVE  IsSequence(g[i])
  <2>1. g[i] = <<>> \/ g[i] = <<s[i]>>
    BY <1>1
  <2>2. IsSequence(<<s[i]>>)
    <3>1. <<s[i]>> \in Seq({s[i]})
      OBVIOUS
    <3> QED BY <3>1 DEF IsSequence
  <2> HIDE DEF g
  <2> QED BY <2>1, <2>2, EmptyIsSequence
<1>3. g = [i \in 1 .. Len(s) |-> g[i]]
  BY <1>1
<1>4. At(s, places) = FlattenSeq(g)
  BY DEF At
<1> HIDE DEF g
<1>5. IsSequence(FlattenSeq(g))
  BY <1>1, <1>2, <1>3, FlattenIsSequence
<1> QED
  BY <1>4, <1>5

\* The passes of a series.
LEMMA LoopedIsSequence ==
  ASSUME setup.passes \in Nat, NEW s, NEW start, NEW end, NEW pass,
         IsSequence(start), IsSequence(end),
         \A k \in 0 .. setup.passes - 1 : IsSequence(pass[k])
  PROVE  IsSequence(Looped(s, start, end, pass))
<1> DEFINE n == setup.passes
           each == setup.rewrite \in {"per-pass", "refocus-per-pass"}
           records(j) == ((IF each \/ j - 1 = 0 THEN start ELSE <<>>) \o pass[j - 1])
                           \o (IF each \/ j = setup.passes THEN end ELSE <<>>)
           g == [j \in 1 .. setup.passes |->
                   [i \in DOMAIN records(j) |-> Numbered(s, j - 1, records(j)[i])]]
<1>1. ASSUME NEW j \in 1 .. n
      PROVE  IsSequence(records(j))
  <2> DEFINE a == IF each \/ j - 1 = 0 THEN start ELSE <<>>
             b == IF each \/ j = setup.passes THEN end ELSE <<>>
             c == pass[j - 1]
  <2>1. IsSequence(a) /\ IsSequence(b)
    BY EmptyIsSequence
  <2>2. j - 1 \in 0 .. setup.passes - 1
    OBVIOUS
  <2>3. IsSequence(c)
    BY <2>2
  <2>4. records(j) = (a \o c) \o b
    OBVIOUS
  <2> HIDE DEF a, b, c, records
  <2>5. IsSequence((a \o c) \o b)
    BY <2>1, <2>3, ConcatIsSequence
  <2> QED BY <2>4, <2>5
<1>2. ASSUME NEW j \in 1 .. n
      PROVE  IsSequence(g[j])
  <2> DEFINE r == records(j)
             h == [i \in DOMAIN r |-> Numbered(s, j - 1, r[i])]
  <2>1. g[j] = h
    OBVIOUS
  <2>2. Len(r) \in Nat /\ DOMAIN r = 1 .. Len(r)
    <3>1. IsSequence(r)
      BY <1>1
    <3> HIDE DEF r
    <3> QED BY <3>1, SequenceDomain
  <2> HIDE DEF r, g, records
  <2>3. DOMAIN h = 1 .. Len(r) /\ h = [i \in 1 .. Len(r) |-> h[i]]
    BY <2>2
  <2> HIDE DEF h
  <2>4. IsSequence(h)
    BY <2>2, <2>3, SequenceOf
  <2> QED BY <2>1, <2>4
<1>3. g = [i \in 1 .. n |-> g[i]] /\ n \in Nat
  OBVIOUS
<1>4. Looped(s, start, end, pass) = FlattenSeq(g)
  BY DEF Looped
<1> HIDE DEF g, n
<1>5. IsSequence(FlattenSeq(g))
  BY <1>2, <1>3, FlattenIsSequence
<1> QED
  BY <1>4, <1>5

LEMMA ImagesAreSequence ==
  ASSUME NEW s, IsSequence(s)
  PROVE  IsSequence(Images(s))
  BY AtIsSequence DEF Images

LEMMA PassIsSequence ==
  ASSUME Positions \in Nat, NEW s, IsSequence(s), NEW k, NEW offset
  PROVE  IsSequence(PassImages(s, k, offset))
<1> DEFINE raster == [p \in 1 .. Positions |-> p - 1]
           places == {p \in 1 .. Positions : SourceOf(p - 1, k) \in Ids(Images(s))}
           shown == At(raster, places)
           drifted == [i \in DOMAIN shown |->
                         WithId(ImageAt(s, SourceOf(shown[i], k)), shown[i] + offset)]
           images == Images(s)
           again == [i \in DOMAIN images |-> WithId(images[i], images[i].id + offset)]
<1>1. IsSequence(shown)
  <2>1. DOMAIN raster = 1 .. Positions /\ raster = [p \in 1 .. Positions |-> raster[p]]
    OBVIOUS
  <2> HIDE DEF raster, places
  <2>2. IsSequence(raster)
    BY <2>1, SequenceOf
  <2> QED BY <2>2, AtIsSequence
<1>2. IsSequence(drifted)
  <2> HIDE DEF shown
  <2>1. Len(shown) \in Nat /\ DOMAIN shown = 1 .. Len(shown)
    BY <1>1, SequenceDomain
  <2>2. DOMAIN drifted = 1 .. Len(shown) /\ drifted = [i \in 1 .. Len(shown) |-> drifted[i]]
    BY <2>1
  <2> HIDE DEF drifted
  <2> QED BY <2>1, <2>2, SequenceOf
<1>3. IsSequence(again)
  <2>1. IsSequence(images)
    BY ImagesAreSequence
  <2> HIDE DEF images
  <2>2. Len(images) \in Nat /\ DOMAIN images = 1 .. Len(images)
    BY <2>1, SequenceDomain
  <2>3. DOMAIN again = 1 .. Len(images) /\ again = [i \in 1 .. Len(images) |-> again[i]]
    BY <2>2
  <2> HIDE DEF again
  <2> QED BY <2>2, <2>3, SequenceOf
<1>4. PassImages(s, k, offset) = IF Moves THEN drifted ELSE again
  BY DEF PassImages
<1> HIDE DEF drifted, again
<1> QED
  BY <1>2, <1>3, <1>4

LEMMA RepeatedIsSequence ==
  ASSUME Positions \in Nat, setup.passes \in Nat, NEW s, IsSequence(s)
  PROVE  IsSequence(Repeated(s))
<1> DEFINE start == FirstOf(Controls(s))
           end == LastOf(Tail(Controls(s)))
           pass == [k \in 0 .. setup.passes - 1 |-> PassImages(s, k, PassOffset(s, k))]
<1>1. IsSequence(start) /\ IsSequence(end)
  BY EndsAreSequences
<1>2. ASSUME NEW k \in 0 .. setup.passes - 1
      PROVE  IsSequence(pass[k])
  BY PassIsSequence
<1>3. Repeated(s) = Looped(s, start, end, pass)
  BY DEF Repeated
<1> HIDE DEF start, end, pass
<1>4. IsSequence(Looped(s, start, end, pass))
  BY <1>1, <1>2, LoopedIsSequence
<1> QED
  BY <1>3, <1>4

LEMMA RefocusedIsSequence ==
  ASSUME Positions \in Nat, setup.passes \in Nat, NEW s
  PROVE  IsSequence(Refocused(s))
<1> DEFINE images == Images(s)
           offset(k) == IF setup.rewrite = "refocus-one" THEN k * Positions ELSE 0
           sent == OfType(s, "start")
           ended == OfType(s, "end")
           shown(k) == [p \in 1 .. Positions |->
                          Image(1, p - 1 + offset(k), FrameAt(images, p - 1))]
           start == IF sent = <<>> THEN <<Control("start", 1)>> ELSE FirstOf(sent)
           end == IF ended = <<>> THEN <<Control("end", 1)>> ELSE LastOf(ended)
           pass == [k \in 0 .. setup.passes - 1 |-> shown(k)]
<1>1. IsSequence(start) /\ IsSequence(end)
  <2>1. ASSUME NEW x PROVE IsSequence(<<x>>)
    <3>1. <<x>> \in Seq({x})
      OBVIOUS
    <3> QED BY <3>1 DEF IsSequence
  <2>2. IsSequence(FirstOf(sent)) /\ IsSequence(LastOf(ended))
    BY EndsAreSequences
  <2> HIDE DEF sent, ended
  <2> QED BY <2>1, <2>2
<1>2. ASSUME NEW k \in 0 .. setup.passes - 1
      PROVE  IsSequence(pass[k])
  <2> DEFINE f == shown(k)
  <2>1. pass[k] = f
    OBVIOUS
  <2>2. DOMAIN f = 1 .. Positions /\ f = [p \in 1 .. Positions |-> f[p]]
    OBVIOUS
  <2> HIDE DEF f, pass
  <2>3. IsSequence(f)
    BY <2>2, SequenceOf
  <2> QED BY <2>1, <2>3
<1>3. Refocused(s) = Looped(s, start, end, pass)
  BY DEF Refocused
<1> HIDE DEF start, end, pass
<1>4. IsSequence(Looped(s, start, end, pass))
  BY <1>1, <1>2, LoopedIsSequence
<1> QED
  BY <1>3, <1>4

LEMMA RewrittenIsSequence ==
  ASSUME Positions \in Nat, setup.passes \in Nat, NEW s, IsSequence(s)
  PROVE  IsSequence(Rewritten(s))
<1>1. IsSequence(Repeated(s)) /\ IsSequence(Refocused(s)) /\ IsSequence(Images(s))
  BY RepeatedIsSequence, RefocusedIsSequence, ImagesAreSequence
<1> QED
  BY <1>1 DEF Rewritten, Array

-----------------------------------------------------------------------------
(* What is played is begun, and the invariant of every step.                *)

LEMMA RewriteKeeps ==
  ASSUME CaptureConstants, NEW L, CaptureState(L), Rewrite
  PROVE  CaptureInv'
<1>1. /\ stage # "playing" /\ play' = Rewritten(tape) /\ stage' = "playing"
      /\ feeder' = [feeder EXCEPT !.open = Streaming] /\ consumer' = "running"
      /\ acq' = (IF setup.player = "offline" THEN <<>> ELSE <<<<>>>>)
      /\ hand' = (IF feeder'.open THEN <<>> ELSE play')
      /\ UNCHANGED <<setup, sending, tape, torn, sockets, pushback, collected, series>>
  BY DEF Rewrite, recorderVars, IterRecords
<1>2. /\ CaptureTypes(L) /\ NotPlayed
  BY <1>1 DEF CaptureState
<1>3. /\ setup \in Setups /\ setup.passes \in Nat /\ Positions \in Nat
      /\ setup.max \in Nat /\ IsSequence(tape)
  <2>1. setup \in Setups /\ tape \in Seq(Message)
    BY <1>2 DEF CaptureTypes
  <2>2. Positions \in Nat
    BY DEF CaptureConstants, Positions
  <2> QED BY <2>1, <2>2 DEF CaptureConstants, IsSequence
<1>4. IsSequence(play')
  BY <1>1, <1>3, RewrittenIsSequence
<1>5. PICK S : play' \in Seq(S)
  BY <1>4 DEF IsSequence
<1> DEFINE M == S \cup {Blank}
<1>6. Blank \in M /\ S \subseteq M
  OBVIOUS
<1> HIDE DEF M
<1>7. play' \in Seq(M) /\ <<>> \in Seq(M)
  BY <1>5, <1>6, SeqMonotonic, EmptySeq
<1>8. /\ feeder'.next = 1 /\ feeder'.images = 0 /\ feeder'.held = Blank
      /\ feeder'.open = Streaming
      /\ feeder' \in [next : Nat, images : Nat, held : M, ends : Nat, open : BOOLEAN]
  <2>1. /\ feeder \in [next : Nat, images : Nat, held : L, ends : Nat, open : BOOLEAN]
        /\ feeder.next = 1 /\ feeder.images = 0 /\ feeder.held = Blank
    BY <1>2 DEF CaptureTypes, NotPlayed
  <2>2. feeder' = [next |-> 1, images |-> 0, held |-> Blank, ends |-> feeder.ends,
                   open |-> Streaming] /\ feeder.ends \in Nat
    BY <1>1, <2>1
  <2>3. Streaming \in BOOLEAN
    BY DEF Streaming
  <2> QED BY <2>2, <2>3, <1>6
<1>9. /\ acq' \in Seq(Seq(M)) /\ FlattenSeq(acq') = <<>>
      /\ setup.player # "offline" => acq' # <<>>
  <2> DEFINE e == <<>>
             a == <<>>
  <2>1. e \in Seq(M) /\ a \in Seq(Seq(M)) /\ e \o e = e
    BY <1>7, EmptySeq, ConcatEmptySeq
  <2>2. FlattenSeq(a) = e
    BY FlattenNone
  <2>3. Append(a, e) = <<<<>>>> /\ <<<<>>>> # <<>>
    OBVIOUS
  <2> HIDE DEF e, a
  <2>4. Append(a, e) \in Seq(Seq(M)) /\ FlattenSeq(Append(a, e)) = FlattenSeq(a) \o e
    BY <2>1, FlattenTyped
  <2>5. FlattenSeq(Append(a, e)) = e
    BY <2>1, <2>2, <2>4
  <2>6. CASE setup.player = "offline"
    <3>1. acq' = a
      BY <2>6, <1>1 DEF a
    <3> QED BY <3>1, <2>1, <2>2, <2>6 DEF e
  <2>7. CASE setup.player # "offline"
    <3>1. acq' = Append(a, e)
      BY <2>7, <1>1, <2>3
    <3> QED BY <3>1, <2>3, <2>4, <2>5 DEF e
  <2> QED BY <2>6, <2>7
<1>10. /\ sockets' = <<>> /\ pushback' = <<>> /\ collected' = <<>> /\ series' = 0
  BY <1>1, <1>2 DEF NotPlayed
<1>11. hand' \in Seq(M)
  BY <1>1, <1>7
<1>12. CaptureTypes(M)'
  BY <1>1, <1>2, <1>6, <1>7, <1>8, <1>9, <1>10, <1>11 DEF CaptureTypes
<1>13. Streaming' = Streaming /\ Limited' = Limited /\ (Limited => Streaming)
  BY <1>1 DEF Streaming, Limited
<1>14. Streaming => Read' = <<>>
  <2>1. ASSUME Streaming PROVE Read' = SubSeq(play', 1, 0)
    BY <2>1, <1>8, <1>13 DEF Read
  <2>2. SubSeq(play', 1, 0) = <<>>
    BY SubSeqEmpty
  <2> QED BY <2>1, <2>2
<1>15. ~Streaming => Read' = play'
  BY <1>13 DEF Read
<1>16. Images(play') \in Seq(M)
  BY <1>7, ImagesJoin
<1>17. Feeding'
  <2>1. 1 \in 1 .. Len(play') + 1
    BY <1>7, LenProperties
  <2>2. Blank.type # "image"
    BY DEF Blank
  <2>3. Limited => 0 <= Len(Images(Read')) /\ 0 = Len(Images(Read'))
    BY <1>13, <1>14, ImagesOfNone, EmptySeq
  <2> QED BY <2>1, <2>2, <2>3, <1>8, <1>13 DEF Feeding
<1>18. OnTheWay' = Images(hand')
  <2>1. OnTheWay' = (((<<>> \o <<>>) \o Images(hand')) \o <<>>) \o <<>>
    BY <1>9, <1>10, ImagesOfNone DEF OnTheWay
  <2>2. Images(hand') \in Seq(M)
    BY <1>11, ImagesJoin
  <2> DEFINE h == Images(hand')
  <2>3. h \in Seq(M)
    BY <2>2
  <2> HIDE DEF h
  <2>4. (<<>> \o <<>>) \o h = h /\ h \o <<>> = h
    BY <2>3, <1>7, ConcatEmptySeq
  <2> QED BY <2>1, <2>4 DEF h
<1>19. Due' = Images(hand')
  <2>1. CASE Streaming
    <3>1. hand' = <<>> /\ Read' = <<>>
      BY <2>1, <1>1, <1>8, <1>14
    <3>2. SubSeq(<<>>, 1, 0) = <<>>
      BY SubSeqEmpty
    <3> QED BY <3>1, <3>2, <1>8, ImagesOfNone DEF Due
  <2>2. CASE ~Streaming
    <3>1. hand' = play' /\ Read' = play' /\ ~Limited'
      BY <2>2, <1>1, <1>8, <1>13, <1>15
    <3> QED BY <3>1 DEF Due
  <2> QED BY <2>1, <2>2
<1>20. Accumulating'
  BY <1>1, <1>9, <1>10 DEF Accumulating
<1>21. CaptureState(M)'
  BY <1>1, <1>12, <1>17, <1>18, <1>19, <1>20 DEF CaptureState
<1> QED
  BY <1>21 DEF CaptureInv

LEMMA CaptureInit == CaptureConstants /\ PlayInit => CaptureInv
<1> SUFFICES ASSUME CaptureConstants, PlayInit PROVE CaptureInv
  OBVIOUS
<1> DEFINE M == {Blank}
<1>1. NotPlayed /\ stage # "playing" /\ Accumulating
  BY DEF PlayInit, NotPlayed, Accumulating
<1>2. sending \in Seq(Message)
  <2>1. sending \in DetectorStreams \/ sending = <<>>
    BY DEF PlayInit
  <2> QED BY <2>1, EmptySeq DEF CaptureConstants
<1>3. feeder \in [next : Nat, images : Nat, held : M, ends : Nat, open : BOOLEAN]
  BY DEF PlayInit
<1>4. CaptureTypes(M)
  <2>1. setup \in Setups /\ tape = <<>> /\ play = <<>> /\ sockets = <<>> /\ pushback = <<>>
        /\ hand = <<>> /\ collected = <<>> /\ acq = <<>>
    BY DEF PlayInit
  <2>2. Blank \in M
    OBVIOUS
  <2>3. <<>> \in Seq(Message) /\ <<>> \in Seq(M) /\ <<>> \in Seq(Seq(M))
    BY EmptySeq
  <2> HIDE DEF M
  <2> QED BY <2>1, <2>2, <2>3, <1>2, <1>3 DEF CaptureTypes
<1>5. CaptureState(M)
  BY <1>1, <1>4 DEF CaptureState
<1> QED
  BY <1>5 DEF CaptureInv

LEMMA CaptureNext ==
  ASSUME CaptureConstants, CaptureInv, [PlayNext]_playVars
  PROVE  CaptureInv'
<1>1. PICK M : CaptureState(M)
  BY DEF CaptureInv
<1>2. CASE Rewrite
  BY <1>1, <1>2, RewriteKeeps
<1>3. CASE RecordMessage \/ RecordIdle \/ RecordCut \/ Refuse
  BY <1>1, <1>3, RecordKeeps DEF CaptureInv
<1>4. CASE Synthesise
  BY <1>1, <1>4, SynthesiseKeeps DEF CaptureInv
<1>5. CASE FeedMessage
  BY <1>1, <1>5, FeedKeeps DEF CaptureInv
<1>6. CASE FeedRaw
  BY <1>1, <1>6, FeedRawKeeps DEF CaptureInv
<1>7. CASE FeedTail
  BY <1>1, <1>7, FeedTailKeeps DEF CaptureInv
<1>8. CASE Receive
  BY <1>1, <1>8, ReceiveKeeps DEF CaptureInv
<1>9. CASE Fail
  BY <1>1, <1>9, FailKeeps DEF CaptureInv
<1>10. CASE Push
  BY <1>1, <1>10, PushKeeps DEF CaptureInv
<1>11. CASE TakeStart
  BY <1>1, <1>11, TakeStartKeeps DEF CaptureInv
<1>12. CASE TakeEndOfRound
  BY <1>1, <1>12, EndOfRoundKeeps DEF CaptureInv
<1>13. CASE TakeEndOfRun \/ TakeEndOfSeries
  BY <1>1, <1>13, EndKeeps DEF CaptureInv
<1>14. CASE EndOfFile \/ FlushDue
  BY <1>1, <1>14, FlushKeeps DEF CaptureInv
<1>15. CASE UNCHANGED playVars
  <2>1. UNCHANGED <<setup, sending, tape, torn, play, stage, feeder, sockets, pushback, hand,
                    collected, series, acq, consumer>>
    BY <1>15 DEF playVars, recorderVars, feederVars, consumerVars
  <2>2. CaptureState(M)'
    BY <1>1, <2>1 DEF CaptureState, CaptureTypes, NotPlayed, Feeding, Accumulating, OnTheWay, Due,
                      Read, Limited, Streaming
  <2> QED BY <2>2 DEF CaptureInv
<1> QED
  BY <1>2, <1>3, <1>4, <1>5, <1>6, <1>7, <1>8, <1>9, <1>10, <1>11, <1>12, <1>13, <1>14, <1>15
  DEF PlayNext, Recorder, Writer, Feeder, Consumer

\* Between the capture and the accumulators no frame is lost, repeated or reordered, whatever one
\* acquisition leaves to the next (replay_to_zmq.py, ZmqStream.unread and receive, _Batcher), for
\* every recording, command line, batch size and size of the sockets.
THEOREM CapturePlaysInOrder ==
  ASSUME CaptureConstants
  PROVE  PlaySpec => []InOrder
<1>1. PlayInit => CaptureInv
  BY CaptureInit
<1>2. CaptureInv /\ [PlayNext]_playVars => CaptureInv'
  BY CaptureNext
<1>3. CaptureInv => InOrder
  BY CaptureInOrder
<1> QED
  BY <1>1, <1>2, <1>3, PTL DEF PlaySpec

=============================================================================
