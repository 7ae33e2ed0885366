------------------------------ MODULE HostRingProofs ------------------------------
(***************************************************************************)
(* The frames a host reader hands out are exact, for every ring, batch,     *)
(* number of images and series, place of a cut and time a header stays      *)
(* invisible; and the queue pair under it never wedges or leaks, for every  *)
(* depth, signal interval and order of calls of its user.  Beside it the    *)
(* other source: the ZMQ receiver delivers what it is sent, and a scan that *)
(* the detector was armed for is in its stream as a whole.                  *)
(*                                                                         *)
(* The sender numbers its headers 0, 1, 2, ...  The invariant speaks of two *)
(* functions that the state does not hold: P[q] is the ring position of     *)
(* header q, and K[q] the number, from one series to the next, of the       *)
(* record the sender is about to send there.                                *)
(***************************************************************************)
EXTENDS HostRing, Acquisition, FiniteSetTheorems, WellFoundedInduction, SequenceTheorems, TLAPS

\* Infinite sequences of natural numbers.
NatSeqs == [Nat -> Nat]

\* Records of a series.
Lap == Len(Whole)

OffsetOf(p) == p % RingLen

Fits(P, K, q) == OffsetOf(P[q]) + Span(RecordAt(K[q])) <= RingLen

\* What is sent at header q: the record, or a wrap marker in front of it.
Rec(P, K, q) == IF Fits(P, K, q) THEN RecordAt(K[q]) ELSE Wrap

After(P, K, q) == P[q] + (IF Fits(P, K, q) THEN Span(Rec(P, K, q)) ELSE RingLen - OffsetOf(P[q]))

Units(P, K, q) == DataUnits(Rec(P, K, q))

HeaderOf(P, K, q) ==
  [kind |-> Rec(P, K, q).kind, seq |-> q, at |-> P[q], series |-> SeriesAt(K[q]),
   first |-> Rec(P, K, q).first, count |-> Rec(P, K, q).count]

\* Unit i of its data.
DataOf(P, K, q, i) ==
  IF Rec(P, K, q).kind = "image"
  THEN [tag |-> q, image |-> Rec(P, K, q).first + i - 1]
  ELSE [tag |-> q, message |-> <<Rec(P, K, q).kind, SeriesAt(K[q])>>]

HeaderWriteOf(P, K, q) ==
  [from |-> "slots", index |-> q % Slots, to |-> OffsetOf(P[q]), units |-> 1, tag |-> q,
   announces |-> Units(P, K, q) = 0]

DataWriteOf(P, K, q) ==
  [from |-> Rec(P, K, q).kind, index |-> Rec(P, K, q).first, to |-> OffsetOf(P[q]) + 1,
   units |-> Units(P, K, q), tag |-> q, announces |-> TRUE]

\* Announcements that have arrived at the reader.
Arrived == readSequence + Len(imms) + Len(recvCq)

\* Records the credit is safe for.
Safe == readSequence - Len(pending)

\* The header of record Arrived was carried out, and its data was not.
HeaderGone ==
  /\ step # "closed"
  /\ IF wire = <<>> THEN step = "data" ELSE Head(wire).from # "slots"

-----------------------------------------------------------------------------
(* The inductive invariant, part by part.                                   *)

\* Each header leads to the next one.
Layout(P, K) ==
  /\ sequence \in Nat /\ P[0] = 0 /\ K[0] = 1
  /\ \A q \in 0 .. sequence : K[q] >= 1
  /\ \A q \in 0 .. (sequence - 1) :
       P[q + 1] = After(P, K, q) /\ K[q + 1] = IF Fits(P, K, q) THEN K[q] + 1 ELSE K[q]
  /\ \A q, r \in 0 .. sequence : q < r => After(P, K, q) <= P[r]
  /\ \A q, r \in 0 .. sequence :
       q <= r => /\ K[q] <= K[r]
                 /\ r - q <= 2 * (K[r] - K[q]) + (IF OffsetOf(P[r]) = 0 THEN 1 ELSE 0)

\* The sender stands where P and K say.
SenderInv(P, K) ==
  /\ step \in {"open", "credit", "header", "data", "drain", "done", "closed"}
  /\ cut \in Cuts /\ series \in Nat /\ next \in 1 .. Lap + 1
  /\ header = sequence /\ position = P[sequence]
  /\ step \in {"open", "drain"} => K[sequence] = series * Lap + 1
  /\ step \in {"open", "closed"} => wire = <<>>
  /\ step \in {"credit", "header", "data"} =>
       /\ series >= 1 /\ next \in 1 .. Len(Plan) /\ K[sequence] = (series - 1) * Lap + next
  /\ step = "data" => Units(P, K, sequence) # 0
  /\ position <= credit + RingLen
  /\ step \in {"header", "data"} => After(P, K, sequence) <= credit + RingLen

Writes == [from : {"slots", "start", "image", "end"}, index : Nat, to : Nat, units : Nat,
           tag : Nat, announces : BOOLEAN]

\* The WRITEs under way are the last ones posted, in order, and the next one to be carried
\* out is that of the record whose announcement arrives next.
WireInv(P, K) ==
  /\ wire \in Seq(Writes)
  /\ \A i \in 1 .. Len(wire) :
       LET w == wire[i]
       IN /\ w.tag \in 0 .. sequence
          /\ w.tag = sequence => step = "data" /\ w.from = "slots"
          /\ \/ w = HeaderWriteOf(P, K, w.tag)
             \/ Units(P, K, w.tag) # 0 /\ w = DataWriteOf(P, K, w.tag)
          /\ SeriesAt(K[w.tag]) = series
          /\ (series - 1) * Lap < K[w.tag] /\ K[w.tag] <= series * Lap
  /\ \A i \in 1 .. (Len(wire) - 1) :
       /\ wire[i + 1].tag = wire[i].tag + (IF wire[i].announces THEN 1 ELSE 0)
       /\ wire[i + 1].from # "slots" <=> ~wire[i].announces
  /\ wire # <<>> =>
       LET w == wire[Len(wire)]
       IN /\ sequence = w.tag + (IF w.announces THEN 1 ELSE 0)
          /\ step = "data" <=> ~w.announces

\* A header on its way, or about to be written, is still in the table, and so are the
\* messages of the series.
TableInv(P, K) ==
  /\ DOMAIN slots = 0 .. Slots - 1
  /\ control = [kind \in {"start", "end"} |-> series]
  /\ \A i \in 1 .. Len(wire) :
       wire[i].from = "slots" => slots[wire[i].index] = HeaderOf(P, K, wire[i].tag)
  /\ step = "header" => slots[sequence % Slots] = HeaderOf(P, K, sequence)

\* Announcements reach the reader in order.
AnnounceInv ==
  /\ imms \in Seq(Nat) /\ recvCq \in Seq(Nat) /\ readSequence \in Nat
  /\ Arrived <= sequence
  /\ step # "closed" => Arrived = IF wire = <<>> THEN sequence ELSE Head(wire).tag
  /\ \A i \in 1 .. Len(imms) : imms[i] = (readSequence + i - 1) % ImmMod
  /\ \A i \in 1 .. Len(recvCq) : recvCq[i] = (readSequence + Len(imms) + i - 1) % ImmMod

Headers == [kind : {"wrap", "start", "image", "end"}, seq : Nat, at : Nat, series : Nat,
            first : Nat, count : Nat]

Visible(P, K, q) == ring[OffsetOf(P[q])] = HeaderOf(P, K, q)

Hidden(q) == \E i \in 1 .. Len(unseen) : unseen[i].what.seq = q

Carried(q) == q < Arrived \/ (q = Arrived /\ HeaderGone)

MayBeCarried(q) == Carried(q) \/ (q = Arrived /\ step = "closed")

\* A header in the ring is one that was carried out; of those that the sender has no credit
\* for, none is lost, nor is their data.
RingInv(P, K) ==
  /\ DOMAIN ring = 0 .. RingLen - 1
  /\ \A u \in DOMAIN ring :
       "kind" \in DOMAIN ring[u] =>
         \/ ring[u] = NoHeader
         \/ \E q \in 0 .. sequence : ring[u] = HeaderOf(P, K, q) /\ MayBeCarried(q) /\ ~Hidden(q)
  /\ \A q \in 0 .. sequence :
       Carried(q) /\ credit <= P[q] => Visible(P, K, q) \/ Hidden(q)
  /\ \A q \in 0 .. (Arrived - 1) :
       credit <= P[q] =>
         \A i \in 1 .. Units(P, K, q) : ring[OffsetOf(P[q]) + i] = DataOf(P, K, q, i)

\* Headers that are not visible yet are of records the reader has not read.
UnseenInv(P, K) ==
  /\ unseen \in Seq([at : Nat, what : Headers])
  /\ \A i \in 1 .. Len(unseen) :
       \E q \in readSequence .. sequence :
         /\ unseen[i] = [at |-> OffsetOf(P[q]), what |-> HeaderOf(P, K, q)]
         /\ MayBeCarried(q) /\ P[q] < credit + RingLen
  /\ \A i, j \in 1 .. Len(unseen) : unseen[i].what.seq = unseen[j].what.seq => i = j

Pictures == [tag : Nat, image : Nat]
Messages == [tag : Nat, message : {"start", "end"} \X Nat]
Received == [header : Headers, data : SUBSET (Pictures \cup Messages)]

\* The reader stands at a header, with as many frames handed out as records lie before it.
ReaderInv(P, K) ==
  /\ readPosition = P[readSequence] /\ K[readSequence] = Len(received) + 1
  /\ rpc \in {"poll", "next", "credit", "failed"} /\ (rpc = "failed" => expired)
  /\ rpc \in {"poll", "credit"} => imms = <<>>
  /\ received \in Seq(Received)
  /\ \A n \in 1 .. Len(received) :
       LET f == received[n]
       IN /\ f.header.kind = RecordAt(n).kind /\ f.header.first = RecordAt(n).first
          /\ f.header.count = RecordAt(n).count /\ f.header.series = SeriesAt(n)
          /\ f.data = Meant(f.header) \/ \E i \in 1 .. Len(kernels) : kernels[i].frame = n

\* A kernel that has not run reads a frame the credit is not safe for.
KernelInv(P, K) ==
  /\ kernels \in Seq([frame : Nat, units : SUBSET Nat])
  /\ \A i \in 1 .. Len(kernels) :
       \E q \in Safe .. (readSequence - 1) :
         /\ Rec(P, K, q).kind = "image" /\ received[K[q]].header = HeaderOf(P, K, q)
         /\ kernels[i] = [frame |-> K[q], units |-> OffsetOf(P[q]) + 1 .. OffsetOf(P[q]) + Units(P, K, q)]

\* The frames CreditTracker holds are the last ones read; credit lies where one of them or of
\* the earlier ones ends, and what is on its way to the sender is in order.
CreditInv(P, K) ==
  /\ pending \in Seq([position : Nat, event : Nat]) /\ Safe \in Nat
  /\ \A i \in 1 .. Len(pending) :
       pending[i] = [position |-> P[Safe + i],
                     event |-> IF Rec(P, K, Safe + i - 1).kind = "image" THEN K[Safe + i - 1] ELSE 0]
  /\ safe = P[Safe] /\ credited \in Nat /\ credit \in Nat
  /\ credit <= credited /\ credited <= safe
  /\ sq \in Seq([value : Nat, covers : Nat])
  /\ \A i \in 1 .. Len(sq) : credit <= sq[i].value /\ sq[i].value <= credited
  /\ \A i, j \in 1 .. Len(sq) : i < j => sq[i].value <= sq[j].value

HostAt(P, K) ==
  /\ Layout(P, K) /\ SenderInv(P, K) /\ WireInv(P, K) /\ TableInv(P, K) /\ AnnounceInv
  /\ RingInv(P, K) /\ UnseenInv(P, K) /\ ReaderInv(P, K) /\ KernelInv(P, K) /\ CreditInv(P, K)

\* A queue pair that is used alone leaves the rest as it was.
Untouched ==
  /\ rpc = "poll" /\ received = <<>> /\ kernels = <<>> /\ wire = <<>> /\ unseen = <<>>

HostInvariant ==
  /\ unpolled \in Nat /\ since \in Nat
  /\ IF step = "unused" THEN Untouched ELSE \E P, K \in NatSeqs : HostAt(P, K)

-----------------------------------------------------------------------------
(* The constants, positions and records.                                    *)

LEMMA Sizes ==
  /\ RingLen \in Nat /\ RingLen >= 2 /\ 1 + Smaller(RdmaBatch, Frames) <= RingLen
  /\ Frames \in Nat /\ RdmaBatch \in Nat \ {0} /\ Cuts \subseteq Nat /\ ImmMod \in Nat \ {0}
  /\ RecvDepth \in Nat \ {0}
  BY RingAssumption, DepthAssumption DEF RingFits, BatchFits

\* What NatSeqs are, for use where the function space itself would confuse the provers.
LEMMA NatSeqsNat == \A F \in NatSeqs : \A q \in Nat : F[q] \in Nat
  BY DEF NatSeqs

LEMMA OffsetRange ==
  ASSUME NEW p \in Nat
  PROVE  OffsetOf(p) \in 0 .. (RingLen - 1) /\ RingLen - OffsetOf(p) \in Nat \ {0}
<1>1. OffsetOf(p) \in 0 .. (RingLen - 1)
  BY Sizes DEF OffsetOf
<1> QED
  BY <1>1, Sizes

\* Numbers less than m apart have different remainders.
LEMMA Remainders ==
  ASSUME NEW m \in Nat, m > 0, NEW a \in Nat, NEW b \in Nat, a < b, b < a + m
  PROVE  a % m # b % m
<1> DEFINE x == a \div m
           y == b \div m
<1>1. a = m * x + (a % m)
  OBVIOUS
<1>2. b = m * y + (b % m)
  OBVIOUS
<1>3. x \in Int /\ y \in Int
  OBVIOUS
<1> HIDE DEF x, y
<1> SUFFICES ASSUME a % m = b % m PROVE FALSE
  OBVIOUS
<1>4. b - a = m * y - m * x
  BY <1>1, <1>2, <1>3
<1>5. y > x
  <2>1. CASE y <= x
    <3>1. m * y <= m * x
      BY <2>1, <1>3
    <3> QED BY <3>1, <1>4, <1>3
  <2> QED BY <2>1, <1>3
<1>6. m * y >= m * (x + 1)
  BY <1>5, <1>3
<1>7. m * (x + 1) = m * x + m
  BY <1>3
<1> QED
  BY <1>4, <1>6, <1>7, <1>3

\* Positions of one ring's length share no cell.
LEMMA SameCell ==
  ASSUME NEW c \in Nat, NEW a \in Nat, NEW b \in Nat,
         c <= a, c <= b, a < c + RingLen, b < c + RingLen, OffsetOf(a) = OffsetOf(b)
  PROVE  a = b
<1>1. RingLen \in Nat
  BY Sizes
<1>2. RingLen > 0 /\ b < a + RingLen /\ a < b + RingLen
  BY <1>1, Sizes
<1>3. ~(a < b) /\ ~(b < a)
  BY <1>1, <1>2, Remainders DEF OffsetOf
<1> QED BY <1>3

\* What does not reach the end of the ring lies in consecutive cells.
LEMMA NextCells ==
  ASSUME NEW p \in Nat, NEW i \in Nat, OffsetOf(p) + i < RingLen
  PROVE  OffsetOf(p + i) = OffsetOf(p) + i
<1> DEFINE x == p \div RingLen
           r == p % RingLen
<1>1. p = RingLen * x + r /\ x \in Int /\ r \in 0 .. (RingLen - 1) /\ RingLen \in Nat \ {0}
  BY Sizes
<1> HIDE DEF x, r
<1>2. p + i = RingLen * x + (r + i) /\ r + i \in 0 .. (RingLen - 1)
  BY <1>1 DEF OffsetOf, r
<1>3. (RingLen * x + (r + i)) % RingLen = r + i
  BY <1>1, <1>2
<1> QED BY <1>2, <1>3 DEF OffsetOf, r

\* What a lap's end leaves starts in the first cell.
LEMMA NextLap ==
  ASSUME NEW p \in Nat
  PROVE  OffsetOf(p + (RingLen - OffsetOf(p))) = 0
<1> DEFINE x == p \div RingLen
           r == p % RingLen
<1>1. p = RingLen * x + r /\ x \in Int /\ r \in 0 .. (RingLen - 1) /\ RingLen \in Nat \ {0}
  BY Sizes
<1> HIDE DEF x, r
<1>2. p + (RingLen - r) = RingLen * (x + 1)
  BY <1>1
<1>3. (RingLen * (x + 1)) % RingLen = 0
  BY <1>1
<1> QED BY <1>2, <1>3 DEF OffsetOf, r

Records == [kind : {"start", "image", "end"}, first : Nat, count : Nat]

LEMMA Batches == CeilDiv(Frames, RdmaBatch) \in Nat
<1>1. /\ Frames + RdmaBatch - 1 \in Nat /\ RdmaBatch \in Nat /\ RdmaBatch > 0
  BY Sizes
<1>2. \A a, b \in Nat : b > 0 => a \div b \in Nat
  OBVIOUS
<1> QED BY <1>1, <1>2 DEF CeilDiv

LEMMA BatchRecord ==
  ASSUME NEW k \in 1 .. CeilDiv(Frames, RdmaBatch)
  PROVE  Images(k) \in Records /\ Images(k).kind = "image" /\ Span(Images(k)) \in 1 .. RingLen
<1> DEFINE B == RdmaBatch
           N == CeilDiv(Frames, RdmaBatch)
           a == Frames + B - 1
<1>1. /\ B \in Nat \ {0} /\ Frames \in Nat /\ N \in Nat /\ k \in Nat /\ 1 <= k /\ k <= N /\ a \in Nat
  BY Sizes, Batches
<1>2. N = a \div B
  BY DEF CeilDiv
<1>3. a = B * (a \div B) + (a % B) /\ 0 <= a % B /\ a \div B \in Int /\ a % B \in Int
  BY <1>1
<1> HIDE DEF a, N, B
<1>4. B * N <= Frames + B - 1
  <2>1. B * N <= a
    BY <1>1, <1>2, <1>3
  <2> QED BY <2>1, <1>1 DEF a
<1>5. B * k <= B * N /\ B * k = B * (k - 1) + B /\ (k - 1) * B = B * (k - 1) /\ B * (k - 1) \in Nat
  BY <1>1
<1> DEFINE f == (k - 1) * B
           c == Smaller(B, Frames - f)
<1>6. f \in Nat /\ Frames - f \in Nat
  BY <1>1, <1>4, <1>5
<1> HIDE DEF f
<1>7. c \in Nat /\ c <= Smaller(B, Frames)
  BY <1>1, <1>6 DEF Smaller
<1> HIDE DEF c
<1>8. Images(k) = [kind |-> "image", first |-> f, count |-> c]
  BY DEF Images, f, c, B
<1>9. DataUnits(Images(k)) = c
  BY <1>8 DEF DataUnits
<1>10. 1 + Smaller(B, Frames) <= RingLen /\ RingLen \in Nat /\ Smaller(B, Frames) \in Nat
  BY Sizes DEF Smaller, B
<1>11. Span(Images(k)) = 1 + c
  BY <1>9 DEF Span
<1> QED BY <1>6, <1>7, <1>8, <1>10, <1>11 DEF Records

\* The records of a series: one START, the batches, one END, and each of them fits the ring.
LEMMA WholeRecords ==
  /\ Lap \in Nat /\ Lap = CeilDiv(Frames, RdmaBatch) + 2
  /\ \A k \in 1 .. Lap :
       /\ Whole[k] \in Records /\ Span(Whole[k]) \in 1 .. RingLen
       /\ Whole[k].kind = "end" <=> k = Lap
<1> DEFINE N == CeilDiv(Frames, RdmaBatch)
           s == <<Control("start")>>
           b == [k \in 1 .. N |-> Images(k)]
           e == <<Control("end")>>
<1>1. N \in Nat
  BY Batches
<1>2. /\ Control("start") \in Records /\ Control("start").kind = "start"
      /\ Control("end") \in Records /\ Control("end").kind = "end"
  BY DEF Control, Records
<1>3. /\ Span(Control("start")) \in 1 .. RingLen /\ Span(Control("end")) \in 1 .. RingLen
  BY Sizes DEF Control, Span, DataUnits
<1>4. \A k \in 1 .. N : Images(k) \in Records /\ Images(k).kind = "image" /\ Span(Images(k)) \in 1 .. RingLen
  BY BatchRecord
<1> HIDE DEF N
<1>5. b \in Seq(Records) /\ Len(b) = N /\ \A k \in 1 .. N : b[k] = Images(k)
  BY <1>1, <1>4
<1>6. /\ s \in Seq(Records) /\ Len(s) = 1 /\ s[1] = Control("start")
      /\ e \in Seq(Records) /\ Len(e) = 1 /\ e[1] = Control("end")
  BY <1>2
<1> HIDE DEF s, b, e
<1>7. /\ s \o b \in Seq(Records) /\ Len(s \o b) = N + 1
      /\ (s \o b)[1] = Control("start") /\ \A k \in 1 .. N : (s \o b)[k + 1] = Images(k)
  <2>1. /\ s \o b \in Seq(Records) /\ Len(s \o b) = 1 + N
        /\ \A i \in 1 .. (1 + N) : (s \o b)[i] = IF i <= 1 THEN s[i] ELSE b[i - 1]
    <3>1. /\ s \o b \in Seq(Records) /\ Len(s \o b) = Len(s) + Len(b)
          /\ \A i \in 1 .. (Len(s) + Len(b)) : (s \o b)[i] = IF i <= Len(s) THEN s[i] ELSE b[i - Len(s)]
      BY <1>5, <1>6, ConcatProperties
    <3> QED BY <3>1, <1>5, <1>6
  <2>2. 1 + N = N + 1 /\ 1 \in 1 .. (1 + N) /\ 1 <= 1
    BY <1>1
  <2>3. \A k \in 1 .. N : k + 1 \in 1 .. (1 + N) /\ ~(k + 1 <= 1) /\ (k + 1) - 1 = k
    BY <1>1
  <2>4. (s \o b)[1] = s[1]
    BY <2>1, <2>2
  <2>5. \A k \in 1 .. N : (s \o b)[k + 1] = b[k]
    BY <2>1, <2>3
  <2> QED BY <2>1, <2>2, <2>4, <2>5, <1>5, <1>6
<1>8. Whole = (s \o b) \o e
  BY DEF Whole, s, b, e, N
<1> DEFINE w == s \o b
<1>9. w \in Seq(Records) /\ Len(w) = N + 1 /\ w[1] = Control("start")
      /\ \A k \in 1 .. N : w[k + 1] = Images(k)
  BY <1>7
<1> HIDE DEF w
<1>10. /\ Len(w \o e) = N + 2 /\ (w \o e)[1] = Control("start")
       /\ (w \o e)[N + 2] = Control("end")
       /\ \A k \in 1 .. N : (w \o e)[k + 1] = Images(k)
  <2>1. /\ Len(w \o e) = (N + 1) + 1
        /\ \A i \in 1 .. ((N + 1) + 1) : (w \o e)[i] = IF i <= N + 1 THEN w[i] ELSE e[i - (N + 1)]
    <3>1. /\ Len(w \o e) = Len(w) + Len(e)
          /\ \A i \in 1 .. (Len(w) + Len(e)) : (w \o e)[i] = IF i <= Len(w) THEN w[i] ELSE e[i - Len(w)]
      BY <1>6, <1>9, ConcatProperties
    <3> QED BY <3>1, <1>6, <1>9
  <2>2. /\ (N + 1) + 1 = N + 2 /\ 1 \in 1 .. ((N + 1) + 1) /\ 1 <= N + 1
        /\ N + 2 \in 1 .. ((N + 1) + 1) /\ ~(N + 2 <= N + 1) /\ (N + 2) - (N + 1) = 1
    BY <1>1
  <2>3. \A k \in 1 .. N : k + 1 \in 1 .. ((N + 1) + 1) /\ k + 1 <= N + 1
    BY <1>1
  <2>4. (w \o e)[1] = w[1] /\ (w \o e)[N + 2] = e[1]
    BY <2>1, <2>2
  <2>5. \A k \in 1 .. N : (w \o e)[k + 1] = w[k + 1]
    BY <2>1, <2>3
  <2> QED BY <2>1, <2>2, <2>4, <2>5, <1>6, <1>9
<1>11. Whole = w \o e
  BY <1>8 DEF w
<1>12. Lap = N + 2
  BY <1>10, <1>11 DEF Lap
<1>13. ASSUME NEW k \in 1 .. (N + 2)
       PROVE  k = 1 \/ k = N + 2 \/ \E j \in 1 .. N : k = j + 1
  <2>1. k = 1 \/ k = N + 2 \/ (k - 1 \in 1 .. N /\ k = (k - 1) + 1)
    BY <1>1
  <2> QED BY <2>1
<1>14. ASSUME NEW k \in 1 .. (N + 2)
       PROVE  /\ Whole[k] \in Records /\ Span(Whole[k]) \in 1 .. RingLen
              /\ Whole[k].kind = "end" <=> k = N + 2
  <2>1. CASE k = 1
    BY <2>1, <1>1, <1>2, <1>3, <1>10, <1>11
  <2>2. CASE k = N + 2
    BY <2>2, <1>2, <1>3, <1>10, <1>11
  <2>3. CASE \E j \in 1 .. N : k = j + 1
    <3>1. PICK j \in 1 .. N : k = j + 1
      BY <2>3
    <3>2. Whole[k] = Images(j) /\ k # N + 2
      BY <3>1, <1>1, <1>10, <1>11
    <3> QED BY <3>2, <1>4
  <2> QED BY <1>13, <2>1, <2>2, <2>3
<1> QED BY <1>1, <1>12, <1>14 DEF N

\* From one series to the next, the records of a series follow each other.
LEMMA RecordPlace ==
  ASSUME NEW s \in Nat, s >= 1, NEW k \in 1 .. Lap
  PROVE  LET n == (s - 1) * Lap + k
         IN /\ n \in Nat /\ RecordAt(n) = Whole[k] /\ SeriesAt(n) = s
            /\ (s - 1) * Lap < n /\ n <= s * Lap
<1> DEFINE L == Lap
           m == (s - 1) * L
           n == m + k
<1>1. L \in Nat \ {0} /\ k \in 1 .. L
  BY WholeRecords, Batches
<1>2. L = Len(Whole)
  BY DEF Lap
<1> HIDE DEF L
<1>3. m \in Nat /\ m = L * (s - 1) /\ s * L = m + L /\ k - 1 \in 0 .. (L - 1)
  BY <1>1
<1>4. (L * (s - 1) + (k - 1)) % L = k - 1 /\ (L * (s - 1) + (k - 1)) \div L = s - 1
  BY <1>1, <1>3
<1>5. n - 1 = L * (s - 1) + (k - 1)
  BY <1>1, <1>3
<1> HIDE DEF m
<1>6. n \in Nat /\ m < n /\ n <= s * L
  BY <1>1, <1>3
<1>7. (n - 1) % L = k - 1 /\ (n - 1) \div L = s - 1 /\ (k - 1) + 1 = k /\ (s - 1) + 1 = s
  BY <1>1, <1>4, <1>5
<1>8. RecordAt(n) = Whole[((n - 1) % L) + 1] /\ SeriesAt(n) = ((n - 1) \div L) + 1
  BY <1>2 DEF RecordAt, SeriesAt
<1> HIDE DEF n
<1>9. RecordAt(n) = Whole[k] /\ SeriesAt(n) = s
  BY <1>7, <1>8
<1> QED BY <1>6, <1>9 DEF n, m, L

LEMMA RecordFacts ==
  ASSUME NEW n \in Nat, n >= 1
  PROVE  /\ RecordAt(n) \in Records /\ Span(RecordAt(n)) \in 1 .. RingLen
         /\ SeriesAt(n) \in Nat
<1> DEFINE L == Lap
           k == (n - 1) % L
           d == (n - 1) \div L
<1>1. L \in Nat \ {0} /\ n - 1 \in Nat
  BY WholeRecords, Batches
<1>2. L = Len(Whole)
  BY DEF Lap
<1> HIDE DEF L
<1>3. k \in 0 .. (L - 1) /\ d \in Nat
  BY <1>1
<1>4. RecordAt(n) = Whole[k + 1] /\ SeriesAt(n) = d + 1
  BY <1>2 DEF RecordAt, SeriesAt
<1> HIDE DEF k, d
<1>5. k + 1 \in 1 .. L
  BY <1>1, <1>3
<1>6. k + 1 \in 1 .. Lap
  BY <1>5 DEF L
<1> QED BY <1>3, <1>4, <1>6, WholeRecords

\* The plan is the first part of a whole series.
LEMMA PlanRecords ==
  ASSUME cut \in Cuts
  PROVE  /\ Len(Plan) \in 1 .. Lap
         /\ \A k \in 1 .. Len(Plan) : Plan[k] = Whole[k]
<1> DEFINE B == RdmaBatch
           N == CeilDiv(Frames, RdmaBatch)
           c == 1 + cut \div RdmaBatch
<1>1. /\ N \in Nat /\ Lap = N + 2 /\ B \in Nat \ {0} /\ Frames \in Nat /\ cut \in Nat
  BY Sizes, Batches, WholeRecords
<1>2. CASE cut = 0 \/ cut >= Frames
  <2>1. Plan = Whole
    BY <1>2 DEF Plan
  <2> QED BY <2>1, <1>1 DEF Lap
<1>3. CASE ~(cut = 0 \/ cut >= Frames)
  <2>1. Plan = SubSeq(Whole, 1, c)
    BY <1>3 DEF Plan
  <2>2. cut < Frames /\ N = (Frames + B - 1) \div B /\ c = 1 + cut \div B
    BY <1>1, <1>3 DEF CeilDiv
  <2> HIDE DEF N, B, c
  <2>3. cut = B * (cut \div B) + (cut % B) /\ cut \div B \in Nat /\ 0 <= cut % B /\ cut % B \in Int
    BY <1>1
  <2>4. /\ Frames + B - 1 \in Nat /\ Frames + B - 1 = B * N + ((Frames + B - 1) % B)
        /\ (Frames + B - 1) % B \in 0 .. (B - 1)
    <3> DEFINE a == Frames + B - 1
    <3>1. a \in Nat
      BY <1>1
    <3> HIDE DEF a
    <3>2. a = B * (a \div B) + (a % B) /\ a % B \in 0 .. (B - 1)
      BY <1>1, <3>1
    <3>3. N = a \div B
      BY <2>2 DEF a
    <3>4. a = B * N + (a % B)
      BY <3>2, <3>3
    <3> QED BY <3>1, <3>2, <3>4 DEF a
  <2>5. cut \div B <= N
    <3> DEFINE d == cut \div B
               r == (Frames + B - 1) % B
    <3> SUFFICES ASSUME d >= N + 1 PROVE FALSE
      BY <1>1, <2>3
    <3>1. d \in Nat /\ B * d <= cut /\ r \in 0 .. (B - 1) /\ Frames + B - 1 = B * N + r
      BY <1>1, <2>3, <2>4
    <3> HIDE DEF d, r
    <3>2. B * d >= B * (N + 1) /\ B * (N + 1) = B * N + B
      BY <1>1, <3>1
    <3>3. B * N \in Nat /\ B * d \in Nat
      BY <1>1, <3>1
    <3> QED BY <1>1, <2>2, <3>1, <3>2, <3>3
  <2>6. c \in 1 .. Lap
    BY <1>1, <2>2, <2>3, <2>5
  <2>7. c \in Int /\ 1 <= c /\ \A k \in 1 .. c : Whole[k] \in Records
    BY <2>6, WholeRecords
  <2>8. Len(Plan) = c /\ \A k \in 1 .. c : Plan[k] = Whole[k]
    <3>1. /\ Len(SubSeq(Whole, 1, c)) = c - 1 + 1
          /\ \A k \in 1 .. c - 1 + 1 : SubSeq(Whole, 1, c)[k] = Whole[1 + k - 1]
      BY <2>7, SubSeqProperties
    <3>2. c - 1 + 1 = c /\ \A k \in 1 .. c : 1 + k - 1 = k
      BY <2>7
    <3> QED BY <2>1, <3>1, <3>2
  <2> QED BY <2>6, <2>8
<1> QED BY <1>2, <1>3

-----------------------------------------------------------------------------
(* Headers and their places.                                                *)

\* What is sent at header q, and the room it takes.
LEMMA HeaderFacts ==
  ASSUME NEW P \in NatSeqs, NEW K \in NatSeqs, NEW q \in Nat, K[q] >= 1
  PROVE  /\ P[q] \in Nat /\ OffsetOf(P[q]) \in 0 .. (RingLen - 1) /\ Units(P, K, q) \in Nat
         /\ Rec(P, K, q).kind \in {"wrap", "start", "image", "end"}
         /\ Rec(P, K, q).first \in Nat /\ Rec(P, K, q).count \in Nat /\ SeriesAt(K[q]) \in Nat
         /\ Rec(P, K, q).kind = "image" => Units(P, K, q) = Rec(P, K, q).count
         /\ Rec(P, K, q).kind \in {"start", "end"} => Units(P, K, q) = 1
         /\ Rec(P, K, q).kind = "wrap" <=> ~Fits(P, K, q)
         /\ Span(Rec(P, K, q)) = 1 + Units(P, K, q)
         /\ Fits(P, K, q) => /\ Rec(P, K, q) = RecordAt(K[q])
                             /\ OffsetOf(P[q]) + 1 + Units(P, K, q) <= RingLen
                             /\ After(P, K, q) = P[q] + 1 + Units(P, K, q)
         /\ ~Fits(P, K, q) => /\ Rec(P, K, q) = Wrap /\ Units(P, K, q) = 0 /\ OffsetOf(P[q]) # 0
                              /\ After(P, K, q) = P[q] + (RingLen - OffsetOf(P[q]))
         /\ After(P, K, q) \in Nat /\ P[q] + Units(P, K, q) < After(P, K, q)
<1> DEFINE r == Rec(P, K, q)
           a == RecordAt(K[q])
           o == OffsetOf(P[q])
<1>1. /\ P[q] \in Nat /\ K[q] \in Nat /\ RingLen \in Nat
  BY NatSeqsNat, Sizes
<1>2. a \in Records /\ Span(a) \in 1 .. RingLen /\ SeriesAt(K[q]) \in Nat
  BY <1>1, RecordFacts
<1>3. o \in 0 .. (RingLen - 1)
  BY <1>1, OffsetRange
<1>4. Fits(P, K, q) <=> o + Span(a) <= RingLen
  BY DEF Fits
<1>5. r = IF Fits(P, K, q) THEN a ELSE Wrap
  BY DEF Rec
<1>6. After(P, K, q) = P[q] + (IF Fits(P, K, q) THEN Span(r) ELSE RingLen - o)
  BY DEF After
<1>7. Units(P, K, q) = DataUnits(r) /\ Span(r) = 1 + DataUnits(r)
  BY DEF Units, Span
<1>8. /\ Wrap.kind = "wrap" /\ Wrap.first = 0 /\ Wrap.count = 0 /\ DataUnits(Wrap) = 0
  BY DEF Wrap, Control, DataUnits
<1>9. /\ a.kind \in {"start", "image", "end"} /\ a.first \in Nat /\ a.count \in Nat
      /\ DataUnits(a) = IF a.kind = "image" THEN a.count ELSE 1
      /\ Span(a) = 1 + DataUnits(a)
  BY <1>2 DEF Records, DataUnits, Span
<1>10. DataUnits(a) \in Nat
  BY <1>9
<1> HIDE DEF r, a, o
<1>11. CASE Fits(P, K, q)
  <2>1. r = a
    BY <1>5, <1>11
  <2>2. After(P, K, q) = P[q] + (1 + DataUnits(a)) /\ o + (1 + DataUnits(a)) <= RingLen
    BY <1>4, <1>6, <1>9, <1>11, <2>1
  <2>3. After(P, K, q) = P[q] + 1 + DataUnits(a) /\ o + 1 + DataUnits(a) <= RingLen
    BY <2>2, <1>1, <1>3, <1>10
  <2>4. After(P, K, q) \in Nat /\ P[q] + DataUnits(a) < After(P, K, q)
    BY <2>3, <1>1, <1>10
  <2>5. Units(P, K, q) = DataUnits(a)
    BY <1>7, <2>1
  <2> QED BY <1>1, <1>2, <1>3, <1>7, <1>9, <1>10, <1>11, <2>1, <2>3, <2>4, <2>5 DEF r, a, o
<1>12. CASE ~Fits(P, K, q)
  <2>1. r = Wrap /\ After(P, K, q) = P[q] + (RingLen - o) /\ Units(P, K, q) = 0
    BY <1>5, <1>6, <1>7, <1>8, <1>12
  <2>2. o # 0
    BY <1>2, <1>3, <1>4, <1>12, <1>1
  <2>3. After(P, K, q) \in Nat /\ P[q] + 0 < After(P, K, q)
    BY <2>1, <1>1, <1>3
  <2> QED BY <1>1, <1>2, <1>3, <1>7, <1>8, <1>12, <2>1, <2>2, <2>3 DEF r, o
<1> QED BY <1>11, <1>12

\* The header itself.
LEMMA HeaderTyped ==
  ASSUME NEW P \in NatSeqs, NEW K \in NatSeqs, NEW q \in Nat, K[q] >= 1
  PROVE  /\ HeaderOf(P, K, q) \in Headers /\ HeaderOf(P, K, q).seq = q
         /\ HeaderOf(P, K, q).at = P[q] /\ HeaderOf(P, K, q).kind = Rec(P, K, q).kind
         /\ HeaderOf(P, K, q).first = Rec(P, K, q).first
         /\ HeaderOf(P, K, q).count = Rec(P, K, q).count
         /\ HeaderOf(P, K, q).series = SeriesAt(K[q])
         /\ HeaderOf(P, K, q).kind # "none" /\ HeaderOf(P, K, q) # NoHeader
         /\ "kind" \in DOMAIN HeaderOf(P, K, q)
<1>1. /\ P[q] \in Nat /\ Rec(P, K, q).kind \in {"wrap", "start", "image", "end"}
      /\ Rec(P, K, q).first \in Nat /\ Rec(P, K, q).count \in Nat /\ SeriesAt(K[q]) \in Nat
  BY HeaderFacts
<1> DEFINE k == Rec(P, K, q).kind
           f == Rec(P, K, q).first
           c == Rec(P, K, q).count
           s == SeriesAt(K[q])
           p == P[q]
<1>2. HeaderOf(P, K, q) = [kind |-> k, seq |-> q, at |-> p, series |-> s, first |-> f, count |-> c]
  BY DEF HeaderOf
<1>3. k \in {"wrap", "start", "image", "end"} /\ f \in Nat /\ c \in Nat /\ s \in Nat /\ p \in Nat
  BY <1>1
<1>4. NoHeader.kind = "none"
  BY DEF NoHeader
<1> HIDE DEF k, f, c, s, p
<1>5. HeaderOf(P, K, q) \in Headers
  BY <1>2, <1>3 DEF Headers
<1>6. /\ HeaderOf(P, K, q).seq = q /\ HeaderOf(P, K, q).at = p /\ HeaderOf(P, K, q).kind = k
      /\ HeaderOf(P, K, q).first = f /\ HeaderOf(P, K, q).count = c
      /\ HeaderOf(P, K, q).series = s /\ "kind" \in DOMAIN HeaderOf(P, K, q)
  BY <1>2
<1>7. k # "none"
  BY <1>3
<1>8. HeaderOf(P, K, q) # NoHeader
  BY <1>4, <1>6, <1>7
<1> QED BY <1>5, <1>6, <1>7, <1>8 DEF k, f, c, s, p

\* The cells of the data lie behind the header, within the ring.
LEMMA DataCells ==
  ASSUME NEW P \in NatSeqs, NEW K \in NatSeqs, NEW q \in Nat, K[q] >= 1,
         NEW i \in 1 .. Units(P, K, q)
  PROVE  /\ OffsetOf(P[q]) + i \in 0 .. (RingLen - 1)
         /\ OffsetOf(P[q] + i) = OffsetOf(P[q]) + i
         /\ P[q] + i \in Nat /\ P[q] < P[q] + i /\ P[q] + i < After(P, K, q)
         /\ ~("kind" \in DOMAIN DataOf(P, K, q, i))
<1> DEFINE u == Units(P, K, q)
           o == OffsetOf(P[q])
           p == P[q]
           e == After(P, K, q)
<1>1. /\ p \in Nat /\ o \in 0 .. (RingLen - 1) /\ u \in Nat /\ RingLen \in Nat
      /\ e \in Nat /\ p + u < e
      /\ Fits(P, K, q) => o + 1 + u <= RingLen
  BY HeaderFacts, Sizes
<1>2. Fits(P, K, q)
  <2>1. ~Fits(P, K, q) => u = 0
    BY HeaderFacts
  <2>2. i \in 1 .. u
    OBVIOUS
  <2> HIDE DEF u
  <2> QED BY <2>1, <2>2
<1>3. i \in 1 .. u
  OBVIOUS
<1>4. ~("kind" \in DOMAIN DataOf(P, K, q, i))
  BY DEF DataOf
<1> HIDE DEF u, o, p, e
<1>5. o + i < RingLen /\ o + i \in 0 .. (RingLen - 1) /\ i \in Nat
  BY <1>1, <1>2, <1>3
<1>6. OffsetOf(p + i) = OffsetOf(p) + i
  BY <1>1, <1>5, NextCells DEF o, p
<1>7. p + i \in Nat /\ p < p + i /\ p + i < e
  BY <1>1, <1>3
<1> QED BY <1>4, <1>5, <1>6, <1>7 DEF o, p, e

\* Headers lie one behind the other.
LEMMA Order ==
  ASSUME NEW P \in NatSeqs, NEW K \in NatSeqs, Layout(P, K), NEW q \in 0 .. sequence
  PROVE  /\ q \in Nat /\ K[q] >= 1 /\ P[q] \in Nat /\ K[q] \in Nat
         /\ \A r \in 0 .. sequence : /\ q < r => P[q] < P[r] /\ After(P, K, q) <= P[r]
                                     /\ q <= r => P[q] <= P[r] /\ K[q] <= K[r]
<1>1. q \in Nat /\ K[q] >= 1 /\ sequence \in Nat /\ P[q] \in Nat /\ K[q] \in Nat
  BY NatSeqsNat DEF Layout
<1>2. P[q] \in Nat /\ After(P, K, q) \in Nat /\ P[q] < After(P, K, q)
  <2>1. Units(P, K, q) \in Nat /\ After(P, K, q) \in Nat /\ P[q] + Units(P, K, q) < After(P, K, q)
    BY <1>1, HeaderFacts
  <2> QED BY <1>1, <2>1
<1>3. ASSUME NEW r \in 0 .. sequence
      PROVE  /\ q < r => P[q] < P[r] /\ After(P, K, q) <= P[r]
             /\ q <= r => P[q] <= P[r] /\ K[q] <= K[r]
  <2>1. r \in Nat /\ P[r] \in Nat
    BY <1>1, NatSeqsNat
  <2>2. q < r => After(P, K, q) <= P[r]
    BY DEF Layout
  <2>3. q <= r => K[q] <= K[r]
    BY DEF Layout
  <2>4. q < r => P[q] < P[r]
    BY <1>2, <2>1, <2>2
  <2>5. q <= r => q = r \/ q < r
    BY <1>1, <2>1
  <2> QED BY <1>1, <2>1, <2>2, <2>3, <2>4, <2>5
<1> QED BY <1>1, <1>3

\* What is sent at q depends on P and K at q alone.
LEMMA SameHeader ==
  ASSUME NEW P, NEW K, NEW F, NEW G, NEW q, F[q] = P[q], G[q] = K[q]
  PROVE  /\ Rec(F, G, q) = Rec(P, K, q) /\ After(F, G, q) = After(P, K, q)
         /\ Units(F, G, q) = Units(P, K, q) /\ HeaderOf(F, G, q) = HeaderOf(P, K, q)
         /\ Fits(F, G, q) <=> Fits(P, K, q)
         /\ \A i : DataOf(F, G, q, i) = DataOf(P, K, q, i)
         /\ HeaderWriteOf(F, G, q) = HeaderWriteOf(P, K, q)
         /\ DataWriteOf(F, G, q) = DataWriteOf(P, K, q)
<1>1. Fits(F, G, q) <=> Fits(P, K, q)
  BY DEF Fits
<1>2. Rec(F, G, q) = Rec(P, K, q)
  BY <1>1 DEF Rec
<1>3. After(F, G, q) = After(P, K, q)
  BY <1>1, <1>2 DEF After
<1>4. Units(F, G, q) = Units(P, K, q)
  BY <1>2 DEF Units
<1>5. HeaderOf(F, G, q) = HeaderOf(P, K, q)
  BY <1>2 DEF HeaderOf
<1>6. \A i : DataOf(F, G, q, i) = DataOf(P, K, q, i)
  BY <1>2 DEF DataOf
<1>7. HeaderWriteOf(F, G, q) = HeaderWriteOf(P, K, q)
  BY <1>4 DEF HeaderWriteOf
<1>8. DataWriteOf(F, G, q) = DataWriteOf(P, K, q)
  BY <1>2, <1>4 DEF DataWriteOf
<1> QED BY <1>1, <1>2, <1>3, <1>4, <1>5, <1>6, <1>7, <1>8

\* P and K, as far as the sender has come, can be continued to the header that follows.
Onward(P, K) ==
  /\ P[sequence + 1] = After(P, K, sequence)
  /\ K[sequence + 1] = IF Fits(P, K, sequence) THEN K[sequence] + 1 ELSE K[sequence]

Agree(P, K, F, G) == \A q \in 0 .. sequence : F[q] = P[q] /\ G[q] = K[q]

\* The parts of the invariant that speak of what lies behind, for other functions that agree.
LEMMA AgreeSender ==
  ASSUME NEW P \in NatSeqs, NEW K \in NatSeqs, NEW F \in NatSeqs, NEW G \in NatSeqs,
         Agree(P, K, F, G), Layout(P, K), SenderInv(P, K), WireInv(P, K), TableInv(P, K)
  PROVE  Layout(F, G) /\ SenderInv(F, G) /\ WireInv(F, G) /\ TableInv(F, G)
<1>1. sequence \in Nat
  BY DEF Layout
<1>2. \A q \in 0 .. sequence : F[q] = P[q] /\ G[q] = K[q]
  BY DEF Agree
<1>3. \A q \in 0 .. sequence :
        /\ Rec(F, G, q) = Rec(P, K, q) /\ After(F, G, q) = After(P, K, q)
        /\ Units(F, G, q) = Units(P, K, q) /\ HeaderOf(F, G, q) = HeaderOf(P, K, q)
        /\ Fits(F, G, q) <=> Fits(P, K, q)
        /\ HeaderWriteOf(F, G, q) = HeaderWriteOf(P, K, q)
        /\ DataWriteOf(F, G, q) = DataWriteOf(P, K, q)
  BY <1>2, SameHeader
<1>4. 0 \in 0 .. sequence /\ sequence \in 0 .. sequence
      /\ \A q \in 0 .. (sequence - 1) : q \in 0 .. sequence /\ q + 1 \in 0 .. sequence
  BY <1>1
<1>5. Layout(F, G)
  <2>1. F[0] = 0 /\ G[0] = 1
    BY <1>2, <1>4 DEF Layout
  <2>2. \A q \in 0 .. sequence : G[q] >= 1
    BY <1>2 DEF Layout
  <2>3. \A q \in 0 .. (sequence - 1) :
          F[q + 1] = After(F, G, q) /\ G[q + 1] = IF Fits(F, G, q) THEN G[q] + 1 ELSE G[q]
    <3> TAKE q \in 0 .. (sequence - 1)
    <3>1. F[q + 1] = P[q + 1] /\ G[q + 1] = K[q + 1] /\ G[q] = K[q]
      BY <1>2, <1>4
    <3>2. After(F, G, q) = After(P, K, q) /\ (Fits(F, G, q) <=> Fits(P, K, q))
      BY <1>3, <1>4
    <3>3. P[q + 1] = After(P, K, q) /\ K[q + 1] = IF Fits(P, K, q) THEN K[q] + 1 ELSE K[q]
      BY DEF Layout
    <3> QED BY <3>1, <3>2, <3>3
  <2>4. \A q, r \in 0 .. sequence : q < r => After(F, G, q) <= F[r]
    BY <1>2, <1>3 DEF Layout
  <2>5. \A q, r \in 0 .. sequence :
          q <= r => /\ G[q] <= G[r]
                    /\ r - q <= 2 * (G[r] - G[q]) + (IF OffsetOf(F[r]) = 0 THEN 1 ELSE 0)
    BY <1>2 DEF Layout
  <2> QED BY <1>1, <2>1, <2>2, <2>3, <2>4, <2>5 DEF Layout
<1>6. SenderInv(F, G)
  <2>1. F[sequence] = P[sequence] /\ G[sequence] = K[sequence]
    BY <1>2, <1>4
  <2>2. Units(F, G, sequence) = Units(P, K, sequence) /\ After(F, G, sequence) = After(P, K, sequence)
    BY <1>3, <1>4
  <2> QED BY <2>1, <2>2 DEF SenderInv
<1>7. WireInv(F, G)
  <2>1. ASSUME NEW i \in 1 .. Len(wire)
        PROVE  /\ wire[i].tag \in 0 .. sequence
               /\ wire[i].tag = sequence => step = "data" /\ wire[i].from = "slots"
               /\ \/ wire[i] = HeaderWriteOf(F, G, wire[i].tag)
                  \/ Units(F, G, wire[i].tag) # 0 /\ wire[i] = DataWriteOf(F, G, wire[i].tag)
               /\ SeriesAt(G[wire[i].tag]) = series
               /\ (series - 1) * Lap < G[wire[i].tag] /\ G[wire[i].tag] <= series * Lap
    <3>1. wire[i].tag \in 0 .. sequence
      BY DEF WireInv
    <3>2. /\ G[wire[i].tag] = K[wire[i].tag]
          /\ Units(F, G, wire[i].tag) = Units(P, K, wire[i].tag)
          /\ HeaderWriteOf(F, G, wire[i].tag) = HeaderWriteOf(P, K, wire[i].tag)
          /\ DataWriteOf(F, G, wire[i].tag) = DataWriteOf(P, K, wire[i].tag)
      BY <1>2, <1>3, <3>1
    <3> QED BY <3>2 DEF WireInv
  <2> QED BY <2>1 DEF WireInv
<1>8. TableInv(F, G)
  <2>1. \A i \in 1 .. Len(wire) : HeaderOf(F, G, wire[i].tag) = HeaderOf(P, K, wire[i].tag)
    BY <1>3 DEF WireInv
  <2>2. HeaderOf(F, G, sequence) = HeaderOf(P, K, sequence)
    BY <1>3, <1>4
  <2> QED BY <2>1, <2>2 DEF TableInv
<1> QED BY <1>5, <1>6, <1>7, <1>8

LEMMA AgreeReader ==
  ASSUME NEW P \in NatSeqs, NEW K \in NatSeqs, NEW F \in NatSeqs, NEW G \in NatSeqs,
         Agree(P, K, F, G), sequence \in Nat, AnnounceInv, RingInv(P, K), UnseenInv(P, K),
         ReaderInv(P, K), KernelInv(P, K), CreditInv(P, K)
  PROVE  RingInv(F, G) /\ UnseenInv(F, G) /\ ReaderInv(F, G) /\ KernelInv(F, G) /\ CreditInv(F, G)
<1>1. \A q \in 0 .. sequence : F[q] = P[q] /\ G[q] = K[q]
  BY DEF Agree
<1>2. \A q \in 0 .. sequence :
        /\ Rec(F, G, q) = Rec(P, K, q) /\ Units(F, G, q) = Units(P, K, q)
        /\ HeaderOf(F, G, q) = HeaderOf(P, K, q)
        /\ \A i : DataOf(F, G, q, i) = DataOf(P, K, q, i)
  BY <1>1, SameHeader
<1>3. /\ readSequence \in Nat /\ Len(imms) \in Nat /\ Len(recvCq) \in Nat
      /\ Arrived \in Nat /\ readSequence <= Arrived /\ Arrived <= sequence
      /\ readSequence \in 0 .. sequence
  <2>1. readSequence \in Nat /\ Len(imms) \in Nat /\ Len(recvCq) \in Nat /\ Arrived <= sequence
    BY LenProperties DEF AnnounceInv
  <2>2. Arrived \in Nat /\ readSequence <= Arrived
    BY <2>1 DEF Arrived
  <2> QED BY <2>1, <2>2
<1>4. Safe \in Nat /\ Len(pending) \in Nat /\ Safe = readSequence - Len(pending)
  BY LenProperties DEF CreditInv, Safe
<1>5. RingInv(F, G)
  <2>1. \A q \in 0 .. (Arrived - 1) : q \in 0 .. sequence
    BY <1>3
  <2>2. ASSUME NEW u \in DOMAIN ring, "kind" \in DOMAIN ring[u]
        PROVE  \/ ring[u] = NoHeader
               \/ \E q \in 0 .. sequence : ring[u] = HeaderOf(F, G, q) /\ MayBeCarried(q) /\ ~Hidden(q)
    BY <2>2, <1>2 DEF RingInv
  <2>3. ASSUME NEW q \in 0 .. sequence, Carried(q), credit <= F[q]
        PROVE  Visible(F, G, q) \/ Hidden(q)
    <3>1. Visible(P, K, q) \/ Hidden(q)
      BY <2>3, <1>1 DEF RingInv
    <3> QED BY <3>1, <1>1, <1>2 DEF Visible
  <2>4. ASSUME NEW q \in 0 .. (Arrived - 1), credit <= F[q], NEW i \in 1 .. Units(F, G, q)
        PROVE  ring[OffsetOf(F[q]) + i] = DataOf(F, G, q, i)
    <3>1. F[q] = P[q] /\ Units(F, G, q) = Units(P, K, q) /\ DataOf(F, G, q, i) = DataOf(P, K, q, i)
      BY <2>1, <1>1, <1>2
    <3> QED BY <3>1, <2>4 DEF RingInv
  <2> QED BY <2>2, <2>3, <2>4 DEF RingInv
<1>6. UnseenInv(F, G)
  <2>1. ASSUME NEW i \in 1 .. Len(unseen)
        PROVE  \E q \in readSequence .. sequence :
                 /\ unseen[i] = [at |-> OffsetOf(F[q]), what |-> HeaderOf(F, G, q)]
                 /\ MayBeCarried(q) /\ F[q] < credit + RingLen
    <3>1. PICK q \in readSequence .. sequence :
                 /\ unseen[i] = [at |-> OffsetOf(P[q]), what |-> HeaderOf(P, K, q)]
                 /\ MayBeCarried(q) /\ P[q] < credit + RingLen
      BY DEF UnseenInv
    <3>2. F[q] = P[q] /\ HeaderOf(F, G, q) = HeaderOf(P, K, q)
      BY <1>1, <1>2, <1>3
    <3> QED BY <3>1, <3>2
  <2> QED BY <2>1 DEF UnseenInv
<1>7. ReaderInv(F, G)
  <2>1. F[readSequence] = P[readSequence] /\ G[readSequence] = K[readSequence]
    BY <1>1, <1>3
  <2> QED BY <2>1 DEF ReaderInv
<1>8. KernelInv(F, G)
  <2>1. ASSUME NEW i \in 1 .. Len(kernels)
        PROVE  \E q \in Safe .. (readSequence - 1) :
                 /\ Rec(F, G, q).kind = "image" /\ received[G[q]].header = HeaderOf(F, G, q)
                 /\ kernels[i] = [frame |-> G[q],
                                  units |-> OffsetOf(F[q]) + 1 .. OffsetOf(F[q]) + Units(F, G, q)]
    <3>1. PICK q \in Safe .. (readSequence - 1) :
                 /\ Rec(P, K, q).kind = "image" /\ received[K[q]].header = HeaderOf(P, K, q)
                 /\ kernels[i] = [frame |-> K[q],
                                  units |-> OffsetOf(P[q]) + 1 .. OffsetOf(P[q]) + Units(P, K, q)]
      BY DEF KernelInv
    <3>2. q \in 0 .. sequence
      BY <1>3, <1>4
    <3>3. /\ F[q] = P[q] /\ G[q] = K[q] /\ Rec(F, G, q) = Rec(P, K, q)
          /\ Units(F, G, q) = Units(P, K, q) /\ HeaderOf(F, G, q) = HeaderOf(P, K, q)
      BY <3>2, <1>1, <1>2
    <3> QED BY <3>1, <3>3
  <2> QED BY <2>1 DEF KernelInv
<1>9. CreditInv(F, G)
  <2>1. ASSUME NEW i \in 1 .. Len(pending)
        PROVE  pending[i] = [position |-> F[Safe + i],
                             event |-> IF Rec(F, G, Safe + i - 1).kind = "image"
                                       THEN G[Safe + i - 1] ELSE 0]
    <3> DEFINE a == Safe + i
               b == Safe + i - 1
    <3>1. a \in 0 .. sequence /\ b \in 0 .. sequence
      BY <1>3, <1>4
    <3>2. pending[i] = [position |-> P[a], event |-> IF Rec(P, K, b).kind = "image" THEN K[b] ELSE 0]
      BY DEF CreditInv
    <3> HIDE DEF a, b
    <3>3. F[a] = P[a] /\ G[b] = K[b] /\ Rec(F, G, b) = Rec(P, K, b)
      BY <3>1, <1>1, <1>2
    <3>4. pending[i] = [position |-> F[a], event |-> IF Rec(F, G, b).kind = "image" THEN G[b] ELSE 0]
      BY <3>2, <3>3
    <3> QED BY <3>4 DEF a, b
  <2>2. Safe \in 0 .. sequence
    BY <1>3, <1>4
  <2>3. F[Safe] = P[Safe]
    BY <2>2, <1>1
  <2> QED BY <2>1, <2>3 DEF CreditInv
<1> QED BY <1>5, <1>6, <1>7, <1>8, <1>9

\* P and K can be chosen such that they reach the next header, too.
LEMMA Extend ==
  ASSUME NEW P \in NatSeqs, NEW K \in NatSeqs, HostAt(P, K)
  PROVE  \E F, G \in NatSeqs : HostAt(F, G) /\ Onward(F, G)
<1> DEFINE n == sequence + 1
           p == After(P, K, sequence)
           k == IF Fits(P, K, sequence) THEN K[sequence] + 1 ELSE K[sequence]
           F == [P EXCEPT ![n] = p]
           G == [K EXCEPT ![n] = k]
<1>1. /\ Layout(P, K) /\ SenderInv(P, K) /\ WireInv(P, K) /\ TableInv(P, K) /\ AnnounceInv
      /\ RingInv(P, K) /\ UnseenInv(P, K) /\ ReaderInv(P, K) /\ KernelInv(P, K) /\ CreditInv(P, K)
  BY DEF HostAt
<1>2. sequence \in Nat /\ n \in Nat /\ sequence \in 0 .. sequence
  BY <1>1 DEF Layout
<1>3. p \in Nat /\ k \in Nat
  <2>1. K[sequence] >= 1 /\ K[sequence] \in Nat
    BY <1>1, <1>2, Order
  <2> QED BY <1>2, <2>1, HeaderFacts
<1> HIDE DEF p, k
<1>4. F \in NatSeqs /\ G \in NatSeqs /\ F[n] = p /\ G[n] = k
  BY <1>2, <1>3 DEF NatSeqs
<1>5. Agree(P, K, F, G)
  <2>1. \A q \in 0 .. sequence : q \in Nat /\ q # n
    BY <1>2
  <2> HIDE DEF n
  <2>2. \A q \in 0 .. sequence : F[q] = P[q] /\ G[q] = K[q]
    BY <2>1 DEF NatSeqs
  <2> QED BY <2>2 DEF Agree
<1> HIDE DEF F, G
<1>6. /\ Layout(F, G) /\ SenderInv(F, G) /\ WireInv(F, G) /\ TableInv(F, G)
      /\ RingInv(F, G) /\ UnseenInv(F, G) /\ ReaderInv(F, G) /\ KernelInv(F, G) /\ CreditInv(F, G)
  BY <1>1, <1>2, <1>4, <1>5, AgreeSender, AgreeReader
<1>7. Onward(F, G)
  <2>1. F[sequence] = P[sequence] /\ G[sequence] = K[sequence]
    BY <1>2, <1>5 DEF Agree
  <2>2. After(F, G, sequence) = p /\ G[n] = IF Fits(F, G, sequence) THEN G[sequence] + 1 ELSE G[sequence]
    BY <2>1, <1>4, SameHeader DEF p, k
  <2> QED BY <1>4, <2>2 DEF Onward, n
<1>8. HostAt(F, G)
  BY <1>1, <1>6 DEF HostAt
<1> QED BY <1>4, <1>7, <1>8

-----------------------------------------------------------------------------
(* The sender.                                                              *)

\* What the sender is about to send is what P and K say.
LEMMA Cursor ==
  ASSUME NEW P \in NatSeqs, NEW K \in NatSeqs, Layout(P, K), SenderInv(P, K),
         step \in {"credit", "header", "data"}
  PROVE  /\ Plan[next] = RecordAt(K[sequence]) /\ Plan[next] = Whole[next]
         /\ SeriesAt(K[sequence]) = series
         /\ next \in 1 .. Lap /\ (series - 1) * Lap < K[sequence] /\ K[sequence] <= series * Lap
         /\ Wraps <=> ~Fits(P, K, sequence)
         /\ Record = Rec(P, K, sequence) /\ EndPosition = After(P, K, sequence)
         /\ Header(Record) = HeaderOf(P, K, sequence)
         /\ HeaderWrite = HeaderWriteOf(P, K, sequence)
         /\ DataWrite = DataWriteOf(P, K, sequence)
<1>1. /\ next \in 1 .. Len(Plan) /\ K[sequence] = (series - 1) * Lap + next
      /\ series \in Nat /\ series >= 1 /\ cut \in Cuts /\ position = P[sequence] /\ header = sequence
  BY DEF SenderInv
<1>2. Len(Plan) \in 1 .. Lap /\ Plan[next] = Whole[next] /\ Lap \in Nat
  BY <1>1, PlanRecords, WholeRecords
<1>3. next \in 1 .. Lap
  BY <1>1, <1>2
<1>4. /\ RecordAt(K[sequence]) = Whole[next] /\ SeriesAt(K[sequence]) = series
      /\ (series - 1) * Lap < K[sequence] /\ K[sequence] <= series * Lap
  BY <1>1, <1>3, RecordPlace
<1>5. Offset = OffsetOf(P[sequence])
  BY <1>1 DEF Offset, OffsetOf
<1>6. Plan[next] = RecordAt(K[sequence])
  BY <1>2, <1>4
<1>7. Wraps <=> ~Fits(P, K, sequence)
  <2>1. OffsetOf(P[sequence]) \in Int /\ Span(RecordAt(K[sequence])) \in Int /\ RingLen \in Int
    <3>1. sequence \in Nat /\ K[sequence] >= 1 /\ K[sequence] \in Nat
      BY Order DEF Layout
    <3>2. OffsetOf(P[sequence]) \in Int
      BY <3>1, HeaderFacts
    <3>3. Span(RecordAt(K[sequence])) \in Int
      BY <3>1, RecordFacts
    <3> QED BY <3>2, <3>3, Sizes
  <2> QED BY <2>1, <1>5, <1>6 DEF Wraps, Fits
<1>8. Record = Rec(P, K, sequence)
  BY <1>6, <1>7 DEF Record, Rec
<1>9. EndPosition = After(P, K, sequence)
  BY <1>1, <1>5, <1>7, <1>8 DEF EndPosition, After
<1>10. Header(Record) = HeaderOf(P, K, sequence)
  BY <1>1, <1>4, <1>8 DEF Header, HeaderOf
<1>11. HeaderWrite = HeaderWriteOf(P, K, sequence)
  BY <1>1, <1>5, <1>8 DEF HeaderWrite, HeaderWriteOf, Units
<1>12. DataWrite = DataWriteOf(P, K, sequence)
  BY <1>5, <1>8 DEF DataWrite, DataWriteOf, Units
<1> QED BY <1>2, <1>3, <1>4, <1>6, <1>7, <1>8, <1>9, <1>10, <1>11, <1>12

\* The next header lies behind the one before.
LEMMA LayoutGrows ==
  ASSUME NEW P \in NatSeqs, NEW K \in NatSeqs, Layout(P, K), Onward(P, K), sequence' = sequence + 1
  PROVE  Layout(P, K)'
<1> DEFINE n == sequence
           m == sequence + 1
<1>1. /\ n \in Nat /\ m \in Nat /\ m = n + 1 /\ n \in 0 .. sequence
      /\ P[m] = After(P, K, n) /\ K[m] = IF Fits(P, K, n) THEN K[n] + 1 ELSE K[n]
  BY DEF Layout, Onward
<1>2. K[n] >= 1 /\ K[n] \in Nat /\ P[n] \in Nat /\ K[m] \in Nat /\ K[m] >= 1 /\ K[n] <= K[m] /\ P[m] \in Nat
  <2>1. K[n] >= 1 /\ K[n] \in Nat /\ P[n] \in Nat
    BY <1>1, Order
  <2> QED BY <1>1, <2>1, NatSeqsNat
<1>3. P[n] < P[m]
  <2>1. Units(P, K, n) \in Nat /\ P[n] + Units(P, K, n) < After(P, K, n)
    BY <1>1, <1>2, HeaderFacts
  <2> QED BY <1>1, <1>2, <2>1
<1>4. IF Fits(P, K, n) THEN K[m] = K[n] + 1
                       ELSE K[m] = K[n] /\ OffsetOf(P[n]) # 0 /\ OffsetOf(P[m]) = 0
  <2>1. CASE Fits(P, K, n)
    BY <2>1, <1>1
  <2>2. CASE ~Fits(P, K, n)
    <3>1. OffsetOf(P[n]) # 0 /\ After(P, K, n) = P[n] + (RingLen - OffsetOf(P[n]))
      BY <2>2, <1>1, <1>2, HeaderFacts
    <3>2. OffsetOf(P[n] + (RingLen - OffsetOf(P[n]))) = 0
      BY <1>2, NextLap
    <3> QED BY <2>2, <3>1, <3>2, <1>1
  <2> QED BY <2>1, <2>2
<1>5. sequence' = m /\ sequence = n
  OBVIOUS
<1> HIDE DEF n, m
<1>6. \A q \in 0 .. m : q = m \/ q \in 0 .. n
  BY <1>1
<1>7. \A q \in 0 .. m : K[q] >= 1
  BY <1>2, <1>5, <1>6 DEF Layout
<1>8. \A q \in 0 .. (m - 1) :
        P[q + 1] = After(P, K, q) /\ K[q + 1] = IF Fits(P, K, q) THEN K[q] + 1 ELSE K[q]
  <2>1. \A q \in 0 .. (m - 1) : q = n \/ q \in 0 .. (n - 1)
    BY <1>1
  <2>2. \A q \in 0 .. (n - 1) :
        P[q + 1] = After(P, K, q) /\ K[q + 1] = IF Fits(P, K, q) THEN K[q] + 1 ELSE K[q]
    BY <1>5 DEF Layout
  <2>3. P[n + 1] = After(P, K, n) /\ K[n + 1] = IF Fits(P, K, n) THEN K[n] + 1 ELSE K[n]
    BY <1>1
  <2> QED BY <2>1, <2>2, <2>3
<1>9. ASSUME NEW q \in 0 .. n
      PROVE  /\ q \in Nat /\ K[q] \in Nat /\ K[q] <= K[n] /\ P[q] \in Nat
             /\ q < n => After(P, K, q) <= P[n]
             /\ n - q <= 2 * (K[n] - K[q]) + (IF OffsetOf(P[n]) = 0 THEN 1 ELSE 0)
             /\ After(P, K, q) \in Nat
  <2>1. q \in Nat /\ K[q] >= 1 /\ K[q] \in Nat /\ P[q] \in Nat /\ q <= n /\ n \in 0 .. sequence
    BY <1>1, <1>5, Order
  <2>2. After(P, K, q) \in Nat
    BY <2>1, HeaderFacts
  <2>3. q < n => After(P, K, q) <= P[n]
    BY <1>5, <2>1 DEF Layout
  <2>4. K[q] <= K[n] /\ n - q <= 2 * (K[n] - K[q]) + (IF OffsetOf(P[n]) = 0 THEN 1 ELSE 0)
    BY <1>5, <2>1 DEF Layout
  <2> QED BY <2>1, <2>2, <2>3, <2>4
<1>10. \A q, r \in 0 .. m : q < r => After(P, K, q) <= P[r]
  <2> SUFFICES ASSUME NEW q \in 0 .. m, NEW r \in 0 .. m, q < r PROVE After(P, K, q) <= P[r]
    OBVIOUS
  <2>1. q \in 0 .. n
    BY <1>1
  <2>2. CASE r \in 0 .. n
    BY <2>1, <2>2, <1>5 DEF Layout
  <2>3. CASE r = m
    <3>1. CASE q = n
      BY <3>1, <2>3, <1>1, <1>2
    <3>2. CASE q < n
      <4>1. After(P, K, q) <= P[n] /\ After(P, K, q) \in Nat
        BY <3>2, <2>1, <1>9
      <4> QED BY <4>1, <2>3, <1>2, <1>3
    <3> QED BY <3>1, <3>2, <2>1, <1>1
  <2> QED BY <2>2, <2>3, <1>6
<1>11. \A q, r \in 0 .. m :
         q <= r => /\ K[q] <= K[r]
                   /\ r - q <= 2 * (K[r] - K[q]) + (IF OffsetOf(P[r]) = 0 THEN 1 ELSE 0)
  <2> SUFFICES ASSUME NEW q \in 0 .. m, NEW r \in 0 .. m, q <= r
               PROVE  /\ K[q] <= K[r]
                      /\ r - q <= 2 * (K[r] - K[q]) + (IF OffsetOf(P[r]) = 0 THEN 1 ELSE 0)
    OBVIOUS
  <2>1. CASE r \in 0 .. n
    <3>1. q \in 0 .. n
      BY <2>1, <1>1
    <3> QED BY <2>1, <3>1, <1>5 DEF Layout
  <2>2. CASE r = m /\ q = m
    BY <2>2, <1>1, <1>2
  <2>3. CASE r = m /\ q \in 0 .. n
    <3> DEFINE z == IF OffsetOf(P[n]) = 0 THEN 1 ELSE 0
               x == K[q]
               y == K[n]
               w == K[m]
    <3>1. /\ q \in Nat /\ x \in Nat /\ x <= y /\ n - q <= 2 * (y - x) + z /\ z \in {0, 1}
          /\ y \in Nat /\ w \in Nat /\ n \in Nat /\ m = n + 1
      BY <2>3, <1>1, <1>2, <1>9
    <3>2. (w = y + 1) \/ (w = y /\ z = 0 /\ OffsetOf(P[m]) = 0)
      BY <1>4
    <3> HIDE DEF x, y, z, w
    <3>3. x <= w
      BY <3>1, <3>2
    <3>4. CASE w = y + 1
      <4>1. m - q <= 2 * (w - x) + 0
        BY <3>1, <3>4
      <4>2. m - q <= 2 * (w - x) + 1
        BY <4>1, <3>1
      <4> QED BY <2>3, <3>3, <4>1, <4>2 DEF x, w
    <3>5. CASE w = y /\ z = 0 /\ OffsetOf(P[m]) = 0
      <4>1. m - q <= 2 * (w - x) + 1
        BY <3>1, <3>5
      <4> QED BY <2>3, <3>3, <3>5, <4>1 DEF x, w
    <3> QED BY <3>2, <3>4, <3>5
  <2> QED BY <2>1, <2>2, <2>3, <1>6
<1> QED
  <2>1. P[0] = 0 /\ K[0] = 1
    BY DEF Layout
  <2>2. After(P, K, 0)' = After(P, K, 0)
    BY DEF After
  <2> QED BY <2>1, <1>1, <1>5, <1>7, <1>8, <1>10, <1>11 DEF Layout, After, Fits, Rec

\* Behind its last WRITE a record is done.
LEMMA AdvanceStep ==
  ASSUME NEW P \in NatSeqs, NEW K \in NatSeqs, Layout(P, K), SenderInv(P, K), Onward(P, K),
         step \in {"header", "data"}, Advance, cut' = cut, series' = series, credit' = credit
  PROVE  /\ sequence' = sequence + 1 /\ step' \in {"credit", "drain", "done"}
         /\ Layout(P, K)' /\ SenderInv(P, K)'
<1>1. /\ Plan[next] = Whole[next] /\ next \in 1 .. Lap
      /\ Wraps <=> ~Fits(P, K, sequence)
      /\ Record = Rec(P, K, sequence) /\ EndPosition = After(P, K, sequence)
  BY Cursor
<1>2. /\ header' = header + 1 /\ sequence' = sequence + 1 /\ position' = EndPosition
      /\ IF Wraps THEN step' = "credit" /\ next' = next
         ELSE /\ next' = next + 1
              /\ step' = IF next < Len(Plan) THEN "credit"
                         ELSE IF Record.kind = "end" THEN "drain" ELSE "done"
  BY DEF Advance
<1>3. step' \in {"credit", "drain", "done"}
  BY <1>2
<1>4. Layout(P, K)'
  BY <1>2, LayoutGrows
<1>5. /\ next \in 1 .. Len(Plan) /\ K[sequence] = (series - 1) * Lap + next
      /\ series \in Nat /\ series >= 1 /\ cut \in Cuts /\ header = sequence
      /\ After(P, K, sequence) <= credit + RingLen
  BY DEF SenderInv
<1>6. Len(Plan) \in 1 .. Lap /\ Plan' = Plan /\ Lap \in Nat
  BY <1>5, PlanRecords, WholeRecords DEF Plan
<1>7. /\ P[sequence'] = After(P, K, sequence)
      /\ K[sequence'] = IF Fits(P, K, sequence) THEN K[sequence] + 1 ELSE K[sequence]
  BY <1>2 DEF Onward
<1>8. CASE Wraps
  <2>1. step' = "credit" /\ next' = next /\ K[sequence'] = (series - 1) * Lap + next
    BY <1>1, <1>2, <1>5, <1>7, <1>8
  <2>2. next' \in 1 .. Lap + 1
    BY <1>1, <1>6, <2>1
  <2> QED BY <1>1, <1>2, <1>3, <1>4, <1>5, <1>6, <1>7, <2>1, <2>2 DEF SenderInv
<1>9. CASE ~Wraps
  <2>1. next' = next + 1 /\ K[sequence'] = (series - 1) * Lap + next'
    <3>1. K[sequence'] = ((series - 1) * Lap + next) + 1 /\ next' = next + 1
      BY <1>1, <1>2, <1>5, <1>7, <1>9
    <3>2. (series - 1) * Lap \in Int /\ next \in Int
      BY <1>1, <1>5, <1>6
    <3> QED BY <3>1, <3>2
  <2>2. next' \in 1 .. Lap + 1
    BY <1>1, <1>6, <2>1
  <2>3. CASE next < Len(Plan)
    <3>1. step' = "credit" /\ next' \in 1 .. Len(Plan)
      BY <2>1, <2>3, <1>2, <1>5, <1>6, <1>9
    <3> QED BY <1>1, <1>2, <1>3, <1>4, <1>5, <1>6, <1>7, <2>1, <2>2, <3>1 DEF SenderInv
  <2>4. CASE ~(next < Len(Plan)) /\ Record.kind = "end"
    <3>1. step' = "drain" /\ Record = Plan[next]
      BY <2>4, <1>2, <1>9 DEF Record
    <3>2. next = Lap
      BY <3>1, <2>4, <1>1, WholeRecords
    <3>3. K[sequence'] = series * Lap + 1
      <4>1. (series - 1) * Lap + (Lap + 1) = series * Lap + 1
        BY <1>5, <1>6
      <4> QED BY <4>1, <3>2, <2>1
    <3> QED BY <1>1, <1>2, <1>3, <1>4, <1>5, <1>6, <1>7, <2>1, <2>2, <3>1, <3>3 DEF SenderInv
  <2>5. CASE ~(next < Len(Plan)) /\ Record.kind # "end"
    <3>1. step' = "done"
      BY <2>5, <1>2, <1>9
    <3> QED BY <1>1, <1>2, <1>3, <1>4, <1>5, <1>6, <1>7, <2>1, <2>2, <3>1 DEF SenderInv
  <2> QED BY <2>3, <2>4, <2>5
<1> QED BY <1>2, <1>3, <1>4, <1>8, <1>9

\* The elements of a sequence that has grown.
LEMMA Grown ==
  ASSUME NEW S, NEW s \in Seq(S), NEW x \in S, NEW t, t = Append(s, x)
  PROVE  /\ Len(s) \in Nat /\ t \in Seq(S) /\ Len(t) = Len(s) + 1 /\ t # <<>>
         /\ t[Len(s) + 1] = x /\ \A i \in 1 .. Len(s) : t[i] = s[i]
         /\ \A i \in 1 .. Len(t) : i \in 1 .. Len(s) \/ i = Len(s) + 1
<1>1. /\ Len(s) \in Nat /\ t \in Seq(S) /\ Len(t) = Len(s) + 1
      /\ t[Len(s) + 1] = x /\ \A i \in 1 .. Len(s) : t[i] = s[i]
  BY AppendProperties, LenProperties
<1>2. \A i \in 1 .. Len(t) : i \in 1 .. Len(s) \/ i = Len(s) + 1
  BY <1>1
<1>3. t # <<>>
  BY <1>1, EmptySeq
<1> QED BY <1>1, <1>2, <1>3

\* The first element of a sequence that is not empty.
LEMMA First ==
  ASSUME NEW S, NEW s \in Seq(S), s # <<>>
  PROVE  /\ Len(s) \in Nat \ {0} /\ Head(s) = s[1] /\ Head(s) \in S
         /\ Tail(s) \in Seq(S) /\ Len(Tail(s)) = Len(s) - 1
         /\ \A i \in 1 .. Len(Tail(s)) : Tail(s)[i] = s[i + 1] /\ i + 1 \in 1 .. Len(s)
<1>1. Len(s) \in Nat \ {0}
  BY EmptySeq
<1>2. Head(s) = s[1]
  BY <1>1
<1>3. Head(s) \in S /\ Tail(s) \in Seq(S) /\ Len(Tail(s)) = Len(s) - 1
      /\ \A i \in 1 .. Len(Tail(s)) : Tail(s)[i] = s[i + 1]
  BY HeadTailProperties
<1>4. \A i \in 1 .. Len(Tail(s)) : i + 1 \in 1 .. Len(s)
  BY <1>1, <1>3
<1> QED BY <1>1, <1>2, <1>3, <1>4

\* A WRITE of the current record joins those under way.
LEMMA PostStep ==
  ASSUME NEW P \in NatSeqs, NEW K \in NatSeqs, Layout(P, K), SenderInv(P, K), WireInv(P, K), AnnounceInv,
         step \in {"header", "data"}, NEW w \in Writes, wire' = Append(wire, w), w.tag = sequence,
         \/ step = "header" /\ w = HeaderWriteOf(P, K, sequence)
         \/ step = "data" /\ w = DataWriteOf(P, K, sequence) /\ Units(P, K, sequence) # 0,
         sequence' = sequence + (IF w.announces THEN 1 ELSE 0), step' = "data" <=> ~w.announces,
         step' # "closed", series' = series, readSequence' = readSequence, imms' = imms, recvCq' = recvCq
  PROVE  WireInv(P, K)' /\ AnnounceInv' /\ (HeaderGone' <=> HeaderGone)
<1> DEFINE n == Len(wire)
<1>1. sequence \in Nat /\ wire \in Seq(Writes)
  BY DEF Layout, WireInv
<1>2. /\ n \in Nat /\ wire' \in Seq(Writes) /\ Len(wire') = n + 1 /\ wire' # <<>>
      /\ wire'[n + 1] = w /\ \A i \in 1 .. n : wire'[i] = wire[i]
      /\ \A i \in 1 .. Len(wire') : i \in 1 .. n \/ i = n + 1
  BY <1>1, Grown
<1>3. /\ Rec(P, K, sequence).kind \in {"wrap", "start", "image", "end"}
      /\ SeriesAt(K[sequence]) = series
      /\ (series - 1) * Lap < K[sequence] /\ K[sequence] <= series * Lap
  <2>1. sequence \in Nat /\ K[sequence] >= 1
    BY <1>1, Order
  <2> QED BY <2>1, HeaderFacts, Cursor
<1>4. /\ step = "data" <=> w.from # "slots"
      /\ ~w.announces => w.from = "slots"
  <2>1. CASE step = "header" /\ w = HeaderWriteOf(P, K, sequence)
    BY <2>1 DEF HeaderWriteOf
  <2>2. CASE step = "data" /\ w = DataWriteOf(P, K, sequence)
    BY <2>2, <1>3 DEF DataWriteOf
  <2> QED BY <2>1, <2>2
<1>5. /\ sequence' \in Nat /\ sequence <= sequence'
      /\ w.announces => sequence' = sequence + 1
      /\ ~w.announces => sequence' = sequence
      /\ w.announces \in BOOLEAN
  BY <1>1 DEF Writes
<1>6. ASSUME NEW i \in 1 .. n
      PROVE  /\ wire[i].tag \in 0 .. sequence
             /\ wire[i].tag = sequence => step = "data" /\ wire[i].from = "slots"
             /\ \/ wire[i] = HeaderWriteOf(P, K, wire[i].tag)
                \/ Units(P, K, wire[i].tag) # 0 /\ wire[i] = DataWriteOf(P, K, wire[i].tag)
             /\ SeriesAt(K[wire[i].tag]) = series
             /\ (series - 1) * Lap < K[wire[i].tag] /\ K[wire[i].tag] <= series * Lap
  BY DEF WireInv
<1> HIDE DEF n
<1>7. ASSUME NEW i \in 1 .. Len(wire')
      PROVE  LET v == wire'[i]
             IN /\ v.tag \in 0 .. sequence'
                /\ v.tag = sequence' => step' = "data" /\ v.from = "slots"
                /\ \/ v = HeaderWriteOf(P, K, v.tag)
                   \/ Units(P, K, v.tag) # 0 /\ v = DataWriteOf(P, K, v.tag)
                /\ SeriesAt(K[v.tag]) = series
                /\ (series - 1) * Lap < K[v.tag] /\ K[v.tag] <= series * Lap
  <2>1. CASE i \in 1 .. n
    <3>1. wire'[i] = wire[i]
      BY <2>1, <1>2
    <3>2. wire[i].tag \in 0 .. sequence'
      BY <2>1, <1>1, <1>5, <1>6
    <3>3. wire[i].tag # sequence'
      <4>1. CASE w.announces
        BY <4>1, <2>1, <1>1, <1>5, <1>6
      <4>2. CASE ~w.announces
        BY <4>2, <2>1, <1>4, <1>5, <1>6
      <4> QED BY <4>1, <4>2, <1>5
    <3> QED BY <2>1, <3>1, <3>2, <3>3, <1>6
  <2>2. CASE i = n + 1
    <3>1. wire'[i] = w
      BY <2>2, <1>2
    <3>2. w.tag \in 0 .. sequence'
      BY <1>1, <1>5
    <3>3. w.tag = sequence' => step' = "data" /\ w.from = "slots"
      BY <1>1, <1>4, <1>5
    <3> QED BY <3>1, <3>2, <3>3, <1>3
  <2> QED BY <2>1, <2>2, <1>2
<1>8. ASSUME NEW i \in 1 .. (Len(wire') - 1)
      PROVE  /\ wire'[i + 1].tag = wire'[i].tag + (IF wire'[i].announces THEN 1 ELSE 0)
             /\ wire'[i + 1].from # "slots" <=> ~wire'[i].announces
  <2>1. i \in 1 .. n /\ wire'[i] = wire[i]
    BY <1>2
  <2>2. CASE i = n
    <3>1. wire # <<>> /\ wire'[i + 1] = w
      BY <2>1, <2>2, <1>2, EmptySeq DEF n
    <3>2. sequence = wire[n].tag + (IF wire[n].announces THEN 1 ELSE 0)
          /\ (step = "data" <=> ~wire[n].announces)
      BY <3>1 DEF WireInv, n
    <3> QED BY <2>1, <2>2, <3>1, <3>2, <1>4
  <2>3. CASE i # n
    <3>1. i \in 1 .. (n - 1) /\ i + 1 \in 1 .. n
      BY <2>1, <2>3, <1>2
    <3>2. /\ wire[i + 1].tag = wire[i].tag + (IF wire[i].announces THEN 1 ELSE 0)
          /\ wire[i + 1].from # "slots" <=> ~wire[i].announces
      BY <3>1 DEF WireInv, n
    <3> QED BY <2>1, <3>1, <3>2, <1>2
  <2> QED BY <2>2, <2>3
<1>9. WireInv(P, K)'
  <2>1. wire'[Len(wire')] = w
    BY <1>2
  <2>2. /\ sequence' = w.tag + (IF w.announces THEN 1 ELSE 0)
        /\ step' = "data" <=> ~w.announces
    OBVIOUS
  <2> QED BY <1>2, <1>7, <1>8, <2>1, <2>2 DEF WireInv, HeaderWriteOf, DataWriteOf, Units, Rec, Fits, OffsetOf
<1>10. Head(wire') = IF wire = <<>> THEN w ELSE Head(wire)
  <2>1. Head(wire') = wire'[1]
    BY <1>2, First
  <2>2. CASE wire = <<>>
    <3>1. n = 0
      BY <2>2 DEF n
    <3> QED BY <2>1, <2>2, <3>1, <1>2
  <2>3. CASE wire # <<>>
    <3>1. Head(wire) = wire[1] /\ n \in Nat \ {0}
      BY <2>3, <1>1, First DEF n
    <3> QED BY <2>1, <2>3, <3>1, <1>2
  <2> QED BY <2>2, <2>3
<1>11. AnnounceInv'
  <2>1. Arrived' = Arrived
    BY DEF Arrived
  <2>2. Arrived = IF wire = <<>> THEN sequence ELSE Head(wire).tag
    BY DEF AnnounceInv
  <2>3. Arrived' = Head(wire').tag
    BY <2>1, <2>2, <1>10
  <2>4. Arrived \in Int /\ Arrived <= sequence
    <3>1. readSequence \in Nat /\ Len(imms) \in Nat /\ Len(recvCq) \in Nat /\ Arrived <= sequence
      BY LenProperties DEF AnnounceInv
    <3> QED BY <3>1 DEF Arrived
  <2>5. Arrived' <= sequence'
    BY <2>1, <2>4, <1>1, <1>5
  <2> QED BY <2>3, <2>5, <1>2 DEF AnnounceInv
<1>12. HeaderGone' <=> HeaderGone
  BY <1>2, <1>4, <1>10 DEF HeaderGone
<1> QED BY <1>9, <1>11, <1>12

\* What the sender does leaves the ring and what is said of it.
LEMMA LeavesRing ==
  ASSUME NEW P \in NatSeqs, NEW K \in NatSeqs, AnnounceInv, RingInv(P, K), UnseenInv(P, K),
         sequence \in Nat, sequence' \in {sequence, sequence + 1},
         HeaderGone' => HeaderGone, HeaderGone => HeaderGone' \/ step' = "closed",
         step = "closed" => step' = "closed",
         ring' = ring, unseen' = unseen, credit' = credit,
         readSequence' = readSequence, imms' = imms, recvCq' = recvCq
  PROVE  RingInv(P, K)' /\ UnseenInv(P, K)'
<1>1. Arrived' = Arrived /\ Arrived \in Int /\ Arrived <= sequence
  <2>1. readSequence \in Nat /\ Len(imms) \in Nat /\ Len(recvCq) \in Nat /\ Arrived <= sequence
    BY LenProperties DEF AnnounceInv
  <2> QED BY <2>1 DEF Arrived
<1>2. /\ \A q : Carried(q)' => Carried(q)
      /\ \A q : MayBeCarried(q) => MayBeCarried(q)'
      /\ \A q : Hidden(q)' <=> Hidden(q)
  BY <1>1 DEF Carried, MayBeCarried, Hidden
<1>3. \A q \in 0 .. sequence' : q \in 0 .. sequence \/ ~Carried(q)'
  BY <1>1 DEF Carried
<1>4. \A q \in 0 .. sequence : q \in 0 .. sequence'
  OBVIOUS
<1>5. RingInv(P, K)'
  <2>1. DOMAIN ring' = 0 .. RingLen - 1
    BY DEF RingInv
  <2>2. ASSUME NEW u \in DOMAIN ring', "kind" \in DOMAIN ring'[u]
        PROVE  \/ ring'[u] = NoHeader
               \/ \E q \in 0 .. sequence' : ring'[u] = HeaderOf(P, K, q) /\ MayBeCarried(q)' /\ ~Hidden(q)'
    <3>1. \/ ring[u] = NoHeader
          \/ \E q \in 0 .. sequence : ring[u] = HeaderOf(P, K, q) /\ MayBeCarried(q) /\ ~Hidden(q)
      BY <2>2 DEF RingInv
    <3> QED BY <3>1, <1>2, <1>4
  <2>3. ASSUME NEW q \in 0 .. sequence', Carried(q)', credit' <= P[q]
        PROVE  Visible(P, K, q)' \/ Hidden(q)'
    <3>1. q \in 0 .. sequence /\ Carried(q) /\ credit <= P[q]
      BY <2>3, <1>2, <1>3
    <3>2. Visible(P, K, q) \/ Hidden(q)
      BY <3>1 DEF RingInv
    <3>3. Visible(P, K, q)' <=> Visible(P, K, q)
      BY DEF Visible, HeaderOf, Rec, Fits, OffsetOf
    <3> QED BY <3>2, <3>3, <1>2
  <2>4. \A q \in 0 .. (Arrived' - 1) :
          credit' <= P[q] =>
            \A i \in 1 .. Units(P, K, q) : ring'[OffsetOf(P[q]) + i] = DataOf(P, K, q, i)
    BY <1>1 DEF RingInv
  <2> QED BY <2>1, <2>2, <2>3, <2>4 DEF RingInv, HeaderOf, DataOf, Units, Rec, Fits, OffsetOf
<1>6. UnseenInv(P, K)'
  <2>1. ASSUME NEW i \in 1 .. Len(unseen)
        PROVE  \E q \in readSequence .. sequence' :
                 /\ unseen[i] = [at |-> OffsetOf(P[q]), what |-> HeaderOf(P, K, q)]
                 /\ MayBeCarried(q)' /\ P[q] < credit + RingLen
    <3>1. PICK q \in readSequence .. sequence :
                 /\ unseen[i] = [at |-> OffsetOf(P[q]), what |-> HeaderOf(P, K, q)]
                 /\ MayBeCarried(q) /\ P[q] < credit + RingLen
      BY DEF UnseenInv
    <3>2. q \in readSequence .. sequence'
      BY DEF AnnounceInv
    <3> QED BY <3>1, <3>2, <1>2
  <2> QED BY <2>1 DEF UnseenInv, HeaderOf, Rec, Fits, OffsetOf
<1> QED BY <1>5, <1>6

readerState == <<readPosition, readSequence, received, rpc, imms, expired, kernels>>
creditState == <<pending, readSequence, safe, credited, credit, sq>>

\* Where the reader stands and what it has read, whatever it does next.
LEMMA LeavesReceived ==
  ASSUME NEW P \in NatSeqs, NEW K \in NatSeqs, ReaderInv(P, K),
         UNCHANGED <<readPosition, readSequence, received, kernels>>,
         rpc' \in {"poll", "next", "credit", "failed"}, rpc' = "failed" => expired',
         rpc' \in {"poll", "credit"} => imms' = <<>>
  PROVE  ReaderInv(P, K)'
<1>1. /\ readPosition' = readPosition /\ readSequence' = readSequence /\ received' = received
      /\ kernels' = kernels
  OBVIOUS
<1>2. ASSUME NEW n \in 1 .. Len(received)
      PROVE  LET f == received'[n]
             IN /\ f.header.kind = RecordAt(n).kind /\ f.header.first = RecordAt(n).first
                /\ f.header.count = RecordAt(n).count /\ f.header.series = SeriesAt(n)
                /\ f.data = Meant(f.header) \/ \E i \in 1 .. Len(kernels') : kernels'[i].frame = n
  BY <1>1 DEF ReaderInv
<1> QED BY <1>1, <1>2 DEF ReaderInv, RecordAt, SeriesAt, Meant

LEMMA LeavesKernels ==
  ASSUME NEW P \in NatSeqs, NEW K \in NatSeqs, KernelInv(P, K), Safe' = Safe,
         UNCHANGED <<readSequence, received, kernels>>
  PROVE  KernelInv(P, K)'
  BY DEF KernelInv, HeaderOf, Units, Rec, Fits, OffsetOf

LEMMA LeavesFrames ==
  ASSUME NEW P \in NatSeqs, NEW K \in NatSeqs, ReaderInv(P, K), KernelInv(P, K),
         UNCHANGED readerState, UNCHANGED <<pending, readSequence>>
  PROVE  ReaderInv(P, K)' /\ KernelInv(P, K)'
<1>1. Safe' = Safe
  BY DEF Safe
<1>2. /\ UNCHANGED <<readPosition, readSequence, received, kernels>>
      /\ rpc' = rpc /\ imms' = imms /\ expired' = expired
  BY DEF readerState
<1>3. /\ rpc \in {"poll", "next", "credit", "failed"} /\ (rpc = "failed" => expired)
      /\ rpc \in {"poll", "credit"} => imms = <<>>
  BY DEF ReaderInv
<1> QED BY <1>1, <1>2, <1>3, LeavesReceived, LeavesKernels

LEMMA LeavesReader ==
  ASSUME NEW P \in NatSeqs, NEW K \in NatSeqs, ReaderInv(P, K), KernelInv(P, K), CreditInv(P, K),
         UNCHANGED <<readerState, creditState>>
  PROVE  ReaderInv(P, K)' /\ KernelInv(P, K)' /\ CreditInv(P, K)'
<1>1. UNCHANGED readerState /\ UNCHANGED <<pending, readSequence>>
  BY DEF creditState
<1>2. ReaderInv(P, K)' /\ KernelInv(P, K)'
  BY <1>1, LeavesFrames
<1>3. Safe' = Safe
  BY <1>1 DEF Safe
<1>4. CreditInv(P, K)'
  BY <1>3 DEF CreditInv, creditState, Rec, Fits, OffsetOf
<1> QED BY <1>2, <1>4

\* The parts of the invariant.
LEMMA Parts ==
  ASSUME NEW P \in NatSeqs, NEW K \in NatSeqs, HostAt(P, K)
  PROVE  /\ Layout(P, K) /\ SenderInv(P, K) /\ WireInv(P, K) /\ TableInv(P, K) /\ AnnounceInv
         /\ RingInv(P, K) /\ UnseenInv(P, K) /\ ReaderInv(P, K) /\ KernelInv(P, K) /\ CreditInv(P, K)
         /\ sequence \in Nat
  BY DEF HostAt, Layout

\* A header on its way, or about to be posted, keeps its entry of the table: a series has at
\* most two headers for every record, and what an earlier series sent has been carried out.
LEMMA Entries ==
  ASSUME NEW P \in NatSeqs, NEW K \in NatSeqs, Layout(P, K), SenderInv(P, K), WireInv(P, K),
         step = "credit", NEW i \in 1 .. Len(wire), wire[i].from = "slots"
  PROVE  wire[i].index # sequence % Slots
<1> DEFINE t == wire[i].tag
           n == sequence
           N == CeilDiv(Frames, RdmaBatch)
<1>1. /\ t \in 0 .. n /\ t # n /\ (series - 1) * Lap < K[t]
      /\ \/ wire[i] = HeaderWriteOf(P, K, t) \/ wire[i] = DataWriteOf(P, K, t)
  BY DEF WireInv
<1>2. n \in Nat /\ n \in 0 .. sequence
  BY DEF Layout
<1>3. /\ t \in Nat /\ K[t] \in Nat /\ K[t] >= 1 /\ K[n] \in Nat /\ t <= n
      /\ n - t <= 2 * (K[n] - K[t]) + (IF OffsetOf(P[n]) = 0 THEN 1 ELSE 0)
  <2>1. t \in 0 .. sequence /\ t <= n
    BY <1>1, <1>2
  <2>2. t \in Nat /\ K[t] \in Nat /\ K[t] >= 1 /\ K[n] \in Nat
    BY <2>1, <1>2, Order
  <2>3. n - t <= 2 * (K[n] - K[t]) + (IF OffsetOf(P[n]) = 0 THEN 1 ELSE 0)
    BY <2>1, <1>2 DEF Layout
  <2> QED BY <2>1, <2>2, <2>3
<1>4. wire[i].index = t % Slots
  <2>1. Rec(P, K, t).kind \in {"wrap", "start", "image", "end"}
    BY <1>3, HeaderFacts
  <2>2. wire[i] # DataWriteOf(P, K, t)
    BY <2>1 DEF DataWriteOf
  <2> QED BY <1>1, <2>2 DEF HeaderWriteOf
<1>5. K[n] <= series * Lap /\ series \in Nat
  BY Cursor DEF SenderInv
<1>6. Lap = N + 2 /\ N \in Nat /\ Slots = 2 * (N + 3)
  BY WholeRecords, Batches DEF Slots
<1> DEFINE a == K[t]
           b == K[n]
           L == Lap
           s == series
<1>7. /\ a \in Nat /\ b \in Nat /\ L \in Nat /\ L = N + 2 /\ (s - 1) * L < a /\ b <= s * L /\ s \in Nat
      /\ n - t <= 2 * (b - a) + 1
  <2> DEFINE z == IF OffsetOf(P[n]) = 0 THEN 1 ELSE 0
  <2>1. z \in {0, 1} /\ n - t <= 2 * (b - a) + z /\ n \in Nat /\ t \in Nat /\ a \in Nat /\ b \in Nat
    BY <1>2, <1>3
  <2>2. L \in Nat /\ L = N + 2 /\ (s - 1) * L < a /\ b <= s * L /\ s \in Nat
    BY <1>1, <1>5, <1>6
  <2> HIDE DEF z, a, b, n, t, L, s, N
  <2>3. n - t <= 2 * (b - a) + 1
    BY <2>1
  <2> QED BY <2>1, <2>2, <2>3
<1> HIDE DEF t, n, a, b, L, s, N
<1>8. (s - 1) * L = s * L - L /\ s * L \in Int
  BY <1>7
<1>9. b - a <= L - 1
  BY <1>7, <1>8
<1>10. t < n /\ n < t + 2 * (N + 3) /\ 2 * (N + 3) \in Nat /\ 2 * (N + 3) > 0
  BY <1>1, <1>2, <1>3, <1>6, <1>7, <1>9
<1>11. t % Slots # n % Slots
  BY <1>2, <1>3, <1>6, <1>10, Remainders
<1> QED BY <1>4, <1>11 DEF n

LEMMA SendSeriesStep ==
  ASSUME NEW P \in NatSeqs, NEW K \in NatSeqs, HostAt(P, K), SendSeries
  PROVE  HostAt(P, K)'
<1>1. Layout(P, K) /\ SenderInv(P, K) /\ WireInv(P, K) /\ TableInv(P, K) /\ AnnounceInv
      /\ RingInv(P, K) /\ UnseenInv(P, K) /\ ReaderInv(P, K) /\ KernelInv(P, K) /\ CreditInv(P, K)
      /\ sequence \in Nat
  BY Parts
<1>2. /\ step = "open" /\ series' = series + 1 /\ next' = 1 /\ step' = "credit"
      /\ control' = [kind \in {"start", "end"} |-> series + 1]
      /\ cut' = cut /\ position' = position /\ sequence' = sequence /\ header' = header
      /\ slots' = slots /\ wire' = wire /\ credit' = credit /\ ring' = ring /\ unseen' = unseen
      /\ imms' = imms /\ recvCq' = recvCq /\ sq' = sq
      /\ UNCHANGED <<readerState, creditState>>
  BY DEF SendSeries, readerVars, readerState, creditState, qpVars, sendVars, recvVars
<1>3. wire = <<>> /\ Len(wire) = 0
  BY <1>1, <1>2 DEF SenderInv
<1>4. Layout(P, K)'
  BY <1>1, <1>2 DEF Layout, After, Fits, Rec, OffsetOf
<1>5. SenderInv(P, K)'
  <2>1. /\ series \in Nat /\ cut \in Cuts /\ K[sequence] = series * Lap + 1 /\ position = P[sequence]
        /\ header = sequence /\ position <= credit + RingLen
    BY <1>1, <1>2 DEF SenderInv
  <2>2. Len(Plan) \in 1 .. Lap /\ Plan' = Plan /\ Lap \in Nat
    BY <1>2, <2>1, PlanRecords, WholeRecords DEF Plan
  <2>3. series' \in Nat /\ series' >= 1 /\ series' - 1 = series
    BY <1>2, <2>1
  <2>4. next' \in 1 .. Lap + 1 /\ next' \in 1 .. Len(Plan)
    BY <1>2, <2>2
  <2>5. K[sequence'] = (series' - 1) * Lap + next'
    BY <1>2, <2>1, <2>3
  <2> QED BY <1>2, <2>1, <2>2, <2>3, <2>4, <2>5 DEF SenderInv
<1>6. WireInv(P, K)'
  BY <1>1, <1>2, <1>3 DEF WireInv
<1>7. TableInv(P, K)'
  BY <1>1, <1>2, <1>3 DEF TableInv
<1>8. AnnounceInv'
  BY <1>1, <1>2, <1>3 DEF AnnounceInv, Arrived, readerState
<1>9. RingInv(P, K)' /\ UnseenInv(P, K)'
  <2>1. (HeaderGone' <=> HeaderGone) /\ readSequence' = readSequence
    BY <1>2, <1>3 DEF HeaderGone, readerState
  <2> QED BY <1>1, <1>2, <2>1, LeavesRing
<1>10. ReaderInv(P, K)' /\ KernelInv(P, K)' /\ CreditInv(P, K)'
  BY <1>1, <1>2, LeavesReader
<1> QED BY <1>4, <1>5, <1>6, <1>7, <1>8, <1>9, <1>10 DEF HostAt

LEMMA TakeCreditStep ==
  ASSUME NEW P \in NatSeqs, NEW K \in NatSeqs, HostAt(P, K), TakeCredit
  PROVE  HostAt(P, K)'
<1>1. Layout(P, K) /\ SenderInv(P, K) /\ WireInv(P, K) /\ TableInv(P, K) /\ AnnounceInv
      /\ RingInv(P, K) /\ UnseenInv(P, K) /\ ReaderInv(P, K) /\ KernelInv(P, K) /\ CreditInv(P, K)
      /\ sequence \in Nat
  BY Parts
<1>2. /\ step = "credit" /\ HasCredit /\ step' = "header"
      /\ slots' = [slots EXCEPT ![header % Slots] = Header(Record)]
      /\ series' = series /\ next' = next /\ control' = control
      /\ cut' = cut /\ position' = position /\ sequence' = sequence /\ header' = header
      /\ wire' = wire /\ credit' = credit /\ ring' = ring /\ unseen' = unseen
      /\ imms' = imms /\ recvCq' = recvCq /\ sq' = sq
      /\ UNCHANGED <<readerState, creditState>>
  BY DEF TakeCredit, readerVars, readerState, creditState, qpVars, sendVars, recvVars
<1>3. /\ EndPosition = After(P, K, sequence) /\ Header(Record) = HeaderOf(P, K, sequence)
      /\ header = sequence
  BY <1>1, <1>2, Cursor DEF SenderInv
<1>4. Layout(P, K)'
  BY <1>1, <1>2 DEF Layout, After, Fits, Rec, OffsetOf
<1>5. SenderInv(P, K)'
  <2>1. After(P, K, sequence) <= credit + RingLen
    <3>1. After(P, K, sequence) - credit <= RingLen
      BY <1>2, <1>3 DEF HasCredit
    <3>2. After(P, K, sequence) \in Nat
      <4>1. K[sequence] >= 1
        BY <1>1, Order
      <4> QED BY <1>1, <4>1, HeaderFacts
    <3>3. credit \in Nat /\ RingLen \in Nat
      BY <1>1, Sizes DEF CreditInv
    <3> QED BY <3>1, <3>2, <3>3
  <2> QED BY <1>1, <1>2, <2>1 DEF SenderInv, After, Fits, Rec, OffsetOf, Plan
<1>6. WireInv(P, K)'
  <2>1. \A i \in 1 .. Len(wire) : wire[i].tag # sequence
    BY <1>1, <1>2 DEF WireInv
  <2>2. step = "data" <=> step' = "data"
    BY <1>2
  <2> QED BY <1>1, <1>2, <2>1, <2>2
          DEF WireInv, HeaderWriteOf, DataWriteOf, Units, Rec, Fits, OffsetOf, SeriesAt
<1>7. TableInv(P, K)'
  <2> DEFINE x == sequence % Slots
  <2>1. x \in 0 .. Slots - 1
    <3>1. Slots \in Nat /\ Slots > 0
      BY Batches DEF Slots
    <3> QED BY <1>1, <3>1
  <2>2. /\ DOMAIN slots = 0 .. Slots - 1 /\ control = [kind \in {"start", "end"} |-> series]
        /\ \A i \in 1 .. Len(wire) :
             wire[i].from = "slots" => slots[wire[i].index] = HeaderOf(P, K, wire[i].tag)
    BY <1>1 DEF TableInv
  <2>3. slots' = [slots EXCEPT ![x] = HeaderOf(P, K, sequence)]
    BY <1>2, <1>3
  <2>4. \A i \in 1 .. Len(wire) : wire[i].from = "slots" => wire[i].index # x
    BY <1>1, <1>2, Entries
  <2> HIDE DEF x
  <2>5. DOMAIN slots' = DOMAIN slots /\ slots'[x] = HeaderOf(P, K, sequence)
        /\ \A y : y # x => slots'[y] = slots[y]
    BY <2>1, <2>2, <2>3
  <2>6. \A i \in 1 .. Len(wire) :
             wire[i].from = "slots" => slots'[wire[i].index] = HeaderOf(P, K, wire[i].tag)
    BY <2>2, <2>4, <2>5
  <2> QED BY <1>2, <2>2, <2>5, <2>6 DEF TableInv, HeaderOf, Rec, Fits, OffsetOf, x
<1>8. AnnounceInv'
  BY <1>1, <1>2 DEF AnnounceInv, Arrived, readerState
<1>9. RingInv(P, K)' /\ UnseenInv(P, K)'
  <2>1. (HeaderGone' <=> HeaderGone) /\ readSequence' = readSequence
    BY <1>2 DEF HeaderGone, readerState
  <2> QED BY <1>1, <1>2, <2>1, LeavesRing
<1>10. ReaderInv(P, K)' /\ KernelInv(P, K)' /\ CreditInv(P, K)'
  BY <1>1, <1>2, LeavesReader
<1> QED BY <1>4, <1>5, <1>6, <1>7, <1>8, <1>9, <1>10 DEF HostAt

\* What a WRITE of the sender leaves to show: it is posted, and the rest follows from its place.
LEMMA WriteSteps ==
  ASSUME NEW P \in NatSeqs, NEW K \in NatSeqs, HostAt(P, K), Onward(P, K), WriteHeader \/ WriteData
  PROVE  HostAt(P, K)'
<1> DEFINE n == sequence
           w == IF step = "header" THEN HeaderWriteOf(P, K, n) ELSE DataWriteOf(P, K, n)
           m == Len(wire)
<1>1. Layout(P, K) /\ SenderInv(P, K) /\ WireInv(P, K) /\ TableInv(P, K) /\ AnnounceInv
      /\ RingInv(P, K) /\ UnseenInv(P, K) /\ ReaderInv(P, K) /\ KernelInv(P, K) /\ CreditInv(P, K)
      /\ sequence \in Nat
  BY Parts
<1>2. /\ step \in {"header", "data"}
      /\ series' = series /\ control' = control /\ cut' = cut /\ slots' = slots
      /\ credit' = credit /\ ring' = ring /\ unseen' = unseen /\ readSequence' = readSequence
      /\ imms' = imms /\ recvCq' = recvCq /\ sq' = sq
      /\ UNCHANGED <<readerState, creditState>>
  BY DEF WriteHeader, WriteData, readerVars, readerState, creditState, qpVars, sendVars, recvVars
<1>3. n \in Nat /\ K[n] >= 1
  BY <1>1, Order
<1>4. /\ HeaderWrite = HeaderWriteOf(P, K, n) /\ DataWrite = DataWriteOf(P, K, n)
  BY <1>1, <1>2, Cursor
<1>5. step = "data" => Units(P, K, n) # 0
  BY <1>1 DEF SenderInv
<1>6. /\ wire' = Append(wire, w)
      /\ IF w.announces THEN Advance
         ELSE step' = "data" /\ UNCHANGED <<next, position, sequence, header>>
  <2>1. CASE step = "header"
    BY <2>1, <1>4 DEF WriteHeader, WriteData
  <2>2. CASE step = "data"
    <3>1. w = DataWriteOf(P, K, n) /\ w.announces
      BY <2>2 DEF DataWriteOf
    <3>2. wire' = Append(wire, w) /\ Advance
      BY <2>2, <3>1, <1>4 DEF WriteHeader, WriteData
    <3> HIDE DEF w
    <3> QED BY <3>1, <3>2
  <2> QED BY <2>1, <2>2, <1>2
<1>7. /\ w \in Writes /\ w.tag = n
      /\ w.from = "slots" <=> step = "header"
      /\ step = "header" => w.index = n % Slots /\ (w.announces <=> Units(P, K, n) = 0)
  <2>1. /\ P[n] \in Nat /\ OffsetOf(P[n]) \in 0 .. (RingLen - 1) /\ Units(P, K, n) \in Nat
        /\ Rec(P, K, n).kind \in {"wrap", "start", "image", "end"} /\ Rec(P, K, n).first \in Nat
        /\ Rec(P, K, n).kind = "wrap" => Units(P, K, n) = 0
    BY <1>1, <1>3, HeaderFacts
  <2>2. OffsetOf(P[n]) \in Nat /\ OffsetOf(P[n]) + 1 \in Nat
    BY <2>1, Sizes
  <2>3. CASE step = "header"
    <3>1. n % Slots \in Nat
      <4>1. Slots \in Nat /\ Slots > 0
        BY Batches DEF Slots
      <4> QED BY <1>3, <4>1
    <3> QED BY <2>1, <2>2, <2>3, <3>1, <1>3 DEF HeaderWriteOf, Writes
  <2>4. CASE step = "data"
    <3>1. Rec(P, K, n).kind \in {"start", "image", "end"}
      BY <2>1, <2>4, <1>5
    <3> QED BY <2>1, <2>2, <2>4, <3>1, <1>3 DEF DataWriteOf, Writes
  <2> QED BY <2>3, <2>4, <1>2
<1>8. \/ step = "header" /\ w = HeaderWriteOf(P, K, n)
      \/ step = "data" /\ w = DataWriteOf(P, K, n) /\ Units(P, K, n) # 0
  BY <1>2, <1>5
<1> HIDE DEF w, n, m
<1>9. /\ sequence' = sequence + (IF w.announces THEN 1 ELSE 0)
      /\ step' = "data" <=> ~w.announces
      /\ step' \in {"credit", "drain", "done", "data"} /\ Layout(P, K)' /\ SenderInv(P, K)'
  <2>1. CASE w.announces
    <3>1. /\ sequence' = sequence + 1 /\ step' \in {"credit", "drain", "done"}
          /\ Layout(P, K)' /\ SenderInv(P, K)'
      BY <2>1, <1>1, <1>2, <1>6, AdvanceStep
    <3> QED BY <2>1, <3>1
  <2>2. CASE ~w.announces
    <3>1. /\ step' = "data" /\ next' = next /\ position' = position /\ sequence' = sequence
          /\ header' = header
      BY <2>2, <1>6
    <3>2. step = "header" /\ Units(P, K, sequence) # 0
      <4>1. step = "header"
        BY <2>2, <1>8 DEF DataWriteOf
      <4> QED BY <2>2, <4>1, <1>7 DEF n
    <3>3. Layout(P, K)'
      BY <3>1, <1>1 DEF Layout, After, Fits, Rec, OffsetOf
    <3>4. SenderInv(P, K)'
      BY <3>1, <3>2, <1>1, <1>2 DEF SenderInv, After, Units, Fits, Rec, OffsetOf, Plan
    <3> QED BY <2>2, <3>1, <3>3, <3>4, <1>1
  <2> QED BY <2>1, <2>2
<1>10. WireInv(P, K)' /\ AnnounceInv' /\ (HeaderGone' <=> HeaderGone)
  BY <1>1, <1>2, <1>6, <1>7, <1>8, <1>9, PostStep DEF n
<1>11. TableInv(P, K)'
  <2>1. /\ DOMAIN slots = 0 .. Slots - 1 /\ control = [kind \in {"start", "end"} |-> series]
        /\ \A i \in 1 .. m : wire[i].from = "slots" => slots[wire[i].index] = HeaderOf(P, K, wire[i].tag)
        /\ step = "header" => slots[n % Slots] = HeaderOf(P, K, n)
    BY <1>1 DEF TableInv, m, n
  <2>2. wire \in Seq(Writes)
    BY <1>1 DEF WireInv
  <2>3. /\ m \in Nat /\ wire'[m + 1] = w /\ \A i \in 1 .. m : wire'[i] = wire[i]
        /\ \A i \in 1 .. Len(wire') : i \in 1 .. m \/ i = m + 1
    BY <2>2, <1>6, <1>7, Grown DEF m
  <2>4. ASSUME NEW i \in 1 .. Len(wire'), wire'[i].from = "slots"
        PROVE  slots'[wire'[i].index] = HeaderOf(P, K, wire'[i].tag)
    <3>1. CASE i \in 1 .. m
      BY <3>1, <2>1, <2>3, <2>4, <1>2
    <3>2. CASE i = m + 1
      <4>1. step = "header" /\ w.index = n % Slots /\ w.tag = n /\ wire'[i] = w
        BY <3>2, <2>3, <2>4, <1>7
      <4> QED BY <4>1, <2>1, <1>2
    <3> QED BY <3>1, <3>2, <2>3
  <2>5. step' # "header"
    BY <1>9
  <2> QED BY <2>1, <2>4, <2>5, <1>2 DEF TableInv, HeaderOf, Rec, Fits, OffsetOf
<1>12. RingInv(P, K)' /\ UnseenInv(P, K)'
  <2>1. sequence' \in {sequence, sequence + 1}
    BY <1>9, <1>1
  <2>2. step # "closed"
    BY <1>2
  <2> QED BY <1>1, <1>2, <1>10, <2>1, <2>2, LeavesRing
<1>13. ReaderInv(P, K)' /\ KernelInv(P, K)' /\ CreditInv(P, K)'
  BY <1>1, <1>2, LeavesReader
<1> QED BY <1>9, <1>10, <1>11, <1>12, <1>13 DEF HostAt

\* The end of a series, a poll and the end of the sender.
LEMMA QuietSteps ==
  ASSUME NEW P \in NatSeqs, NEW K \in NatSeqs, HostAt(P, K), unpolled \in Nat,
         Drain \/ PollSender \/ Close
  PROVE  HostAt(P, K)'
<1>1. Layout(P, K) /\ SenderInv(P, K) /\ WireInv(P, K) /\ TableInv(P, K) /\ AnnounceInv
      /\ RingInv(P, K) /\ UnseenInv(P, K) /\ ReaderInv(P, K) /\ KernelInv(P, K) /\ CreditInv(P, K)
      /\ sequence \in Nat
  BY Parts
<1>2. /\ series' = series /\ next' = next /\ control' = control /\ cut' = cut /\ slots' = slots
      /\ position' = position /\ sequence' = sequence /\ header' = header
      /\ credit' = credit /\ ring' = ring /\ unseen' = unseen /\ readSequence' = readSequence
      /\ imms' = imms /\ recvCq' = recvCq /\ sq' = sq
      /\ UNCHANGED <<readerState, creditState>>
  BY DEF Drain, PollSender, Close, readerVars, readerState, creditState, qpVars, sendVars, recvVars
<1>3. \/ step' = step /\ wire' = wire
      \/ step = "drain" /\ wire = <<>> /\ step' \in {"open", "done"} /\ wire' = wire
      \/ step' = "closed" /\ wire' = <<>>
  <2>1. CASE Drain
    <3>1. step = "drain" /\ Len(wire) + unpolled = 0 /\ step' \in {"open", "done"} /\ wire' = wire
      BY <2>1 DEF Drain, Drained, Outstanding
    <3>2. wire \in Seq(Writes)
      BY <1>1 DEF WireInv
    <3>3. Len(wire) = 0
      BY <3>1, <3>2, LenProperties
    <3>4. wire = <<>>
      BY <3>2, <3>3, EmptySeq
    <3> QED BY <3>1, <3>4
  <2>2. CASE PollSender
    BY <2>2 DEF PollSender
  <2>3. CASE Close
    BY <2>3 DEF Close
  <2> QED BY <2>1, <2>2, <2>3
<1>4. Layout(P, K)'
  BY <1>1, <1>2 DEF Layout, After, Fits, Rec, OffsetOf
<1>5. SenderInv(P, K)'
  BY <1>1, <1>2, <1>3 DEF SenderInv, After, Units, Fits, Rec, OffsetOf, Plan
<1>6. WireInv(P, K)'
  <2>1. CASE step' = step /\ wire' = wire
    BY <1>1, <1>2, <2>1 DEF WireInv, HeaderWriteOf, DataWriteOf, Units, Rec, Fits, OffsetOf, SeriesAt
  <2>2. CASE wire' = <<>>
    BY <1>2, <2>2 DEF WireInv
  <2> QED BY <2>1, <2>2, <1>3
<1>7. TableInv(P, K)'
  <2>1. CASE step' = step /\ wire' = wire
    BY <1>1, <1>2, <2>1 DEF TableInv, HeaderOf, Rec, Fits, OffsetOf, SeriesAt
  <2>2. CASE wire' = <<>> /\ step' # "header"
    BY <1>1, <1>2, <2>2 DEF TableInv
  <2> QED BY <2>1, <2>2, <1>3
<1>8. AnnounceInv'
  <2>1. Arrived' = Arrived
    BY <1>2 DEF Arrived
  <2>2. /\ imms \in Seq(Nat) /\ recvCq \in Seq(Nat) /\ readSequence \in Nat
        /\ Arrived <= sequence
        /\ step # "closed" => Arrived = IF wire = <<>> THEN sequence ELSE Head(wire).tag
        /\ \A i \in 1 .. Len(imms) : imms[i] = (readSequence + i - 1) % ImmMod
        /\ \A i \in 1 .. Len(recvCq) : recvCq[i] = (readSequence + Len(imms) + i - 1) % ImmMod
    BY <1>1 DEF AnnounceInv
  <2>3. step' # "closed" => Arrived = IF wire' = <<>> THEN sequence ELSE Head(wire').tag
    BY <2>2, <1>3
  <2> QED BY <2>1, <2>2, <2>3, <1>2 DEF AnnounceInv
<1>9. RingInv(P, K)' /\ UnseenInv(P, K)'
  <2>1. /\ HeaderGone' => HeaderGone
        /\ HeaderGone => HeaderGone' \/ step' = "closed"
        /\ step = "closed" => step' = "closed"
    BY <1>3 DEF HeaderGone
  <2> QED BY <1>1, <1>2, <2>1, LeavesRing
<1>10. ReaderInv(P, K)' /\ KernelInv(P, K)' /\ CreditInv(P, K)'
  BY <1>1, <1>2, LeavesReader
<1> QED BY <1>4, <1>5, <1>6, <1>7, <1>8, <1>9, <1>10 DEF HostAt

-----------------------------------------------------------------------------
(* The network.                                                             *)

\* What a WRITE changes is not what an earlier record has put into the ring, as long as the
\* sender has no credit for that record.
LEMMA Elsewhere ==
  ASSUME NEW P \in NatSeqs, NEW K \in NatSeqs, Layout(P, K), NEW c \in Nat,
         NEW t \in 0 .. sequence, After(P, K, t) <= c + RingLen, NEW i \in 0 .. Units(P, K, t),
         NEW q \in 0 .. t, NEW j \in 0 .. Units(P, K, q), c <= P[q],
         q < t \/ (q = t /\ j < i)
  PROVE  OffsetOf(P[q]) + j # OffsetOf(P[t]) + i
<1>1. sequence \in Nat /\ q \in 0 .. sequence /\ t \in 0 .. sequence
  BY DEF Layout
<1>2. /\ q \in Nat /\ t \in Nat /\ K[q] >= 1 /\ K[t] >= 1 /\ P[q] \in Nat /\ P[t] \in Nat
      /\ q < t => After(P, K, q) <= P[t]
  BY <1>1, Order
<1>3. /\ Units(P, K, q) \in Nat /\ Units(P, K, t) \in Nat
      /\ After(P, K, q) \in Nat /\ After(P, K, t) \in Nat
      /\ P[q] + Units(P, K, q) < After(P, K, q) /\ P[t] + Units(P, K, t) < After(P, K, t)
  BY <1>2, HeaderFacts
<1>4. /\ i \in Nat /\ j \in Nat /\ P[q] + j \in Nat /\ P[t] + i \in Nat
      /\ P[q] + j < After(P, K, q) /\ P[t] + i < After(P, K, t)
  BY <1>2, <1>3
<1>5. P[q] + j < P[t] + i
  <2>1. CASE q < t
    BY <2>1, <1>2, <1>3, <1>4
  <2>2. CASE q = t /\ j < i
    BY <2>2, <1>2, <1>4
  <2> QED BY <2>1, <2>2
<1>6. /\ OffsetOf(P[q] + j) = OffsetOf(P[q]) + j
      /\ OffsetOf(P[t] + i) = OffsetOf(P[t]) + i
  <2>1. ASSUME NEW r \in {q, t}, NEW k \in 0 .. Units(P, K, r)
        PROVE  OffsetOf(P[r] + k) = OffsetOf(P[r]) + k
    <3>1. CASE k = 0
      <4>1. P[r] \in Nat /\ OffsetOf(P[r]) \in 0 .. (RingLen - 1)
        BY <1>2, OffsetRange
      <4> QED BY <3>1, <4>1
    <3>2. CASE k # 0
      <4>1. k \in 1 .. Units(P, K, r)
        BY <3>2, <1>3
      <4> QED BY <4>1, <1>2, DataCells
    <3> QED BY <3>1, <3>2
  <2> QED BY <2>1
<1>7. P[t] + i < c + RingLen /\ c <= P[q] + j /\ c <= P[t] + i /\ P[q] + j < c + RingLen
  <2>1. RingLen \in Nat
    BY Sizes
  <2>2. P[t] + i < c + RingLen
    BY <2>1, <1>3, <1>4
  <2>3. c <= P[q] + j
    BY <1>2, <1>4
  <2> QED BY <2>1, <2>2, <2>3, <1>4, <1>5
<1>8. OffsetOf(P[q] + j) # OffsetOf(P[t] + i)
  <2> DEFINE a == P[q] + j
             b == P[t] + i
  <2>1. a \in Nat /\ b \in Nat /\ a < b /\ c <= a /\ c <= b /\ a < c + RingLen /\ b < c + RingLen
    BY <1>4, <1>5, <1>7
  <2> HIDE DEF a, b
  <2>2. a # b
    BY <2>1
  <2>3. OffsetOf(a) # OffsetOf(b)
    BY <2>1, <2>2, SameCell
  <2> QED BY <2>3 DEF a, b
<1> QED BY <1>6, <1>8

\* A record that is on its way keeps within its credit.
LEMMA WithinCredit ==
  ASSUME NEW P \in NatSeqs, NEW K \in NatSeqs, Layout(P, K), SenderInv(P, K), credit \in Nat,
         NEW t \in 0 .. sequence, t = sequence => step = "data"
  PROVE  After(P, K, t) <= credit + RingLen
<1>1. /\ sequence \in Nat /\ sequence \in 0 .. sequence /\ position = P[sequence]
      /\ position <= credit + RingLen
      /\ step = "data" => After(P, K, sequence) <= credit + RingLen
  BY DEF Layout, SenderInv
<1>2. CASE t = sequence
  BY <1>1, <1>2
<1>3. CASE t < sequence
  <2>1. t \in Nat /\ K[t] >= 1 /\ After(P, K, t) <= P[sequence] /\ P[sequence] \in Nat
    BY <1>1, <1>3, Order
  <2>2. After(P, K, t) \in Nat /\ RingLen \in Nat
    BY <2>1, HeaderFacts, Sizes
  <2> QED BY <1>1, <2>1, <2>2
<1> QED BY <1>1, <1>2, <1>3

LEMMA PlaceHeader ==
  ASSUME NEW P \in NatSeqs, NEW K \in NatSeqs, Layout(P, K), RingInv(P, K), UnseenInv(P, K),
         credit \in Nat, readSequence \in Nat,
         NEW t \in 0 .. sequence, readSequence <= t, Arrived = t, step # "closed", step' = step,
         After(P, K, t) <= credit + RingLen, ~Carried(t),
         \A q \in 0 .. sequence : Carried(q)' <=> (Carried(q) \/ q = t),
         \A q \in 0 .. sequence : Carried(q) => q < t,
         Arrived' = IF Units(P, K, t) = 0 THEN t + 1 ELSE t,
         \/ /\ DOMAIN ring' = 0 .. RingLen - 1 /\ ring'[OffsetOf(P[t])] = HeaderOf(P, K, t)
            /\ \A u \in 0 .. RingLen - 1 : u # OffsetOf(P[t]) => ring'[u] = ring[u]
            /\ unseen' = unseen
         \/ /\ unseen' = Append(unseen, [at |-> OffsetOf(P[t]), what |-> HeaderOf(P, K, t)])
            /\ ring' = ring,
         sequence' = sequence, credit' = credit, readSequence' = readSequence
  PROVE  RingInv(P, K)' /\ UnseenInv(P, K)'
<1> DEFINE x == OffsetOf(P[t])
           h == HeaderOf(P, K, t)
           e == [at |-> x, what |-> h]
           m == Len(unseen)
<1>1. /\ sequence \in Nat /\ t \in Nat /\ K[t] >= 1 /\ P[t] \in Nat
      /\ \A q \in 0 .. sequence : q \in Nat /\ K[q] >= 1 /\ P[q] \in Nat
  BY Order DEF Layout
<1>2. /\ h \in Headers /\ h.seq = t /\ x \in 0 .. (RingLen - 1) /\ x \in Nat
      /\ After(P, K, t) \in Nat /\ P[t] + Units(P, K, t) < After(P, K, t) /\ Units(P, K, t) \in Nat
  <2>1. h \in Headers /\ h.seq = t
    BY <1>1, HeaderTyped
  <2>2. x \in 0 .. (RingLen - 1)
    BY <1>1, HeaderFacts
  <2>3. /\ After(P, K, t) \in Nat /\ P[t] + Units(P, K, t) < After(P, K, t) /\ Units(P, K, t) \in Nat
    BY <1>1, HeaderFacts
  <2>4. x \in Nat
    BY <2>2, Sizes
  <2> QED BY <2>1, <2>2, <2>3, <2>4
<1>3. /\ DOMAIN ring = 0 .. RingLen - 1
      /\ \A u \in DOMAIN ring :
           "kind" \in DOMAIN ring[u] =>
             \/ ring[u] = NoHeader
             \/ \E q \in 0 .. sequence : ring[u] = HeaderOf(P, K, q) /\ MayBeCarried(q) /\ ~Hidden(q)
      /\ \A q \in 0 .. sequence :
           Carried(q) /\ credit <= P[q] => Visible(P, K, q) \/ Hidden(q)
      /\ \A q \in 0 .. (Arrived - 1) :
           credit <= P[q] =>
             \A i \in 1 .. Units(P, K, q) : ring[OffsetOf(P[q]) + i] = DataOf(P, K, q, i)
  BY DEF RingInv
<1>4. /\ unseen \in Seq([at : Nat, what : Headers]) /\ m \in Nat
      /\ \A i, j \in 1 .. m : unseen[i].what.seq = unseen[j].what.seq => i = j
  BY LenProperties DEF UnseenInv
<1>5. /\ \A q \in 0 .. sequence : MayBeCarried(q) <=> Carried(q)
      /\ \A q \in 0 .. sequence : MayBeCarried(q)' <=> Carried(q)'
  BY DEF MayBeCarried
<1>6. ASSUME NEW i \in 1 .. m
      PROVE  \E q \in readSequence .. sequence :
               /\ unseen[i] = [at |-> OffsetOf(P[q]), what |-> HeaderOf(P, K, q)]
               /\ MayBeCarried(q)' /\ P[q] < credit + RingLen /\ q # t /\ unseen[i].what.seq = q
  <2>1. PICK q \in readSequence .. sequence :
               /\ unseen[i] = [at |-> OffsetOf(P[q]), what |-> HeaderOf(P, K, q)]
               /\ MayBeCarried(q) /\ P[q] < credit + RingLen
    BY DEF UnseenInv
  <2>2. q \in 0 .. sequence /\ q \in Nat
    BY <1>1
  <2>3. Carried(q) /\ q # t /\ MayBeCarried(q)'
    <3>1. Carried(q)
      BY <2>1, <2>2, <1>5
    <3> QED BY <2>2, <3>1, <1>5
  <2>4. unseen[i].what.seq = q
    BY <2>1 DEF HeaderOf
  <2> QED BY <2>1, <2>3, <2>4
<1>61. ~Hidden(t)
  BY <1>6 DEF Hidden, m
<1>7. /\ P[t] < credit + RingLen /\ x + 0 = x
      /\ \A q \in 0 .. sequence : q < t => q \in 0 .. t
  BY <1>1, <1>2, Sizes
<1> HIDE DEF x, h, e, m
<1>8. ASSUME NEW q \in 0 .. sequence, q < t, credit <= P[q]
      PROVE  /\ OffsetOf(P[q]) \in 0 .. (RingLen - 1) /\ OffsetOf(P[q]) # x
             /\ \A i \in 1 .. Units(P, K, q) :
                  OffsetOf(P[q]) + i \in 0 .. (RingLen - 1) /\ OffsetOf(P[q]) + i # x
  <2>1. q \in 0 .. t /\ OffsetOf(P[q]) \in 0 .. (RingLen - 1) /\ Units(P, K, q) \in Nat
    BY <1>1, <1>7, <1>8, HeaderFacts
  <2>2. 0 \in 0 .. Units(P, K, t) /\ 0 \in 0 .. Units(P, K, q) /\ \A i \in 1 .. Units(P, K, q) : i \in 0 .. Units(P, K, q)
    BY <1>2, <2>1
  <2>3. \A j \in 0 .. Units(P, K, q) : OffsetOf(P[q]) + j # OffsetOf(P[t]) + 0
    BY <2>1, <2>2, <1>8, Elsewhere
  <2>4. \A j \in 0 .. Units(P, K, q) : OffsetOf(P[q]) + j # x
    BY <2>3, <1>7 DEF x
  <2>5. OffsetOf(P[q]) + 0 = OffsetOf(P[q])
    BY <2>1
  <2>6. \A i \in 1 .. Units(P, K, q) : OffsetOf(P[q]) + i \in 0 .. (RingLen - 1)
    BY <1>1, DataCells
  <2> QED BY <2>1, <2>2, <2>4, <2>5, <2>6
<1>9. CASE /\ DOMAIN ring' = 0 .. RingLen - 1 /\ ring'[x] = h /\ unseen' = unseen
           /\ \A u \in 0 .. RingLen - 1 : u # x => ring'[u] = ring[u]
  <2>1. /\ DOMAIN ring' = 0 .. RingLen - 1 /\ ring'[x] = h
        /\ \A u \in 0 .. RingLen - 1 : u # x => ring'[u] = ring[u]
    BY <1>9
  <2>2. \A q : Hidden(q)' <=> Hidden(q)
    BY <1>9 DEF Hidden
  <2>3. ASSUME NEW u \in DOMAIN ring', "kind" \in DOMAIN ring'[u]
        PROVE  \/ ring'[u] = NoHeader
               \/ \E q \in 0 .. sequence : ring'[u] = HeaderOf(P, K, q) /\ MayBeCarried(q)' /\ ~Hidden(q)'
    <3>1. CASE u = x
      BY <3>1, <2>1, <2>2, <1>5, <1>61 DEF h
    <3>2. CASE u # x
      <4>1. ring'[u] = ring[u] /\ u \in DOMAIN ring
        BY <3>2, <2>1, <1>3
      <4>2. \/ ring[u] = NoHeader
            \/ \E q \in 0 .. sequence : ring[u] = HeaderOf(P, K, q) /\ MayBeCarried(q) /\ ~Hidden(q)
        BY <4>1, <2>3, <1>3
      <4> QED BY <4>1, <4>2, <2>2, <1>5
    <3> QED BY <3>1, <3>2
  <2>4. ASSUME NEW q \in 0 .. sequence, Carried(q)', credit <= P[q]
        PROVE  ring'[OffsetOf(P[q])] = HeaderOf(P, K, q) \/ Hidden(q)'
    <3>1. CASE q = t
      BY <3>1, <2>1 DEF x, h
    <3>2. CASE q # t
      <4>1. Carried(q) /\ q < t
        BY <3>2, <2>4
      <4>2. OffsetOf(P[q]) # x /\ OffsetOf(P[q]) \in 0 .. RingLen - 1
        BY <4>1, <2>4, <1>8
      <4>3. Visible(P, K, q) \/ Hidden(q)
        BY <4>1, <2>4, <1>3
      <4> QED BY <4>2, <4>3, <2>1, <2>2 DEF Visible
    <3> QED BY <3>1, <3>2
  <2>5. ASSUME NEW q \in 0 .. (Arrived' - 1), credit <= P[q], NEW i \in 1 .. Units(P, K, q)
        PROVE  ring'[OffsetOf(P[q]) + i] = DataOf(P, K, q, i)
    <3>1. CASE q = t
      <4>1. Units(P, K, t) # 0 => Arrived' = t
        OBVIOUS
      <4> QED BY <3>1, <4>1, <1>1, <1>2
    <3>2. CASE q # t
      <4>1. q \in 0 .. (Arrived - 1) /\ q \in 0 .. sequence /\ q < t
        BY <3>2, <1>1
      <4>2. OffsetOf(P[q]) + i # x /\ OffsetOf(P[q]) + i \in 0 .. RingLen - 1
        BY <4>1, <2>5, <1>8
      <4>3. ring[OffsetOf(P[q]) + i] = DataOf(P, K, q, i)
        BY <4>1, <2>5, <1>3
      <4> QED BY <4>2, <4>3, <2>1
    <3> QED BY <3>1, <3>2
  <2>6. RingInv(P, K)'
    BY <2>1, <2>3, <2>4, <2>5 DEF RingInv, Visible, HeaderOf, DataOf, Units, Rec, Fits, OffsetOf
  <2>7. UnseenInv(P, K)'
    <3>1. ASSUME NEW i \in 1 .. m
          PROVE  \E q \in readSequence .. sequence :
                   /\ unseen[i] = [at |-> OffsetOf(P[q]), what |-> HeaderOf(P, K, q)]
                   /\ MayBeCarried(q)' /\ P[q] < credit + RingLen
      BY <1>6
    <3> QED BY <3>1, <1>4, <1>9 DEF UnseenInv, HeaderOf, Rec, Fits, OffsetOf, m
  <2> QED BY <2>6, <2>7
<1>10. CASE unseen' = Append(unseen, e) /\ ring' = ring
  <2>1. e \in [at : Nat, what : Headers]
    BY <1>2 DEF e
  <2>2. /\ unseen' \in Seq([at : Nat, what : Headers]) /\ Len(unseen') = m + 1
        /\ unseen'[m + 1] = e /\ \A i \in 1 .. m : unseen'[i] = unseen[i]
        /\ \A i \in 1 .. Len(unseen') : i \in 1 .. m \/ i = m + 1
    BY <1>4, <1>10, <2>1, Grown DEF m
  <2>3. e.at = x /\ e.what = h /\ e.what.seq = t
    BY <1>2 DEF e
  <2>4. \A q : Hidden(q)' <=> (Hidden(q) \/ q = t)
    <3>1. ASSUME NEW q, Hidden(q)' PROVE Hidden(q) \/ q = t
      <4>1. PICK i \in 1 .. Len(unseen') : unseen'[i].what.seq = q
        BY <3>1 DEF Hidden
      <4> QED BY <4>1, <2>2, <2>3 DEF Hidden, m
    <3>2. ASSUME NEW q, Hidden(q) PROVE Hidden(q)'
      <4>1. PICK i \in 1 .. m : unseen[i].what.seq = q
        BY <3>2 DEF Hidden, m
      <4>2. i \in 1 .. Len(unseen') /\ unseen'[i] = unseen[i]
        BY <2>2, <1>4
      <4> QED BY <4>1, <4>2 DEF Hidden
    <3>3. Hidden(t)'
      <4>1. m + 1 \in 1 .. Len(unseen')
        BY <2>2, <1>4
      <4> QED BY <4>1, <2>2, <2>3 DEF Hidden
    <3> QED BY <3>1, <3>2, <3>3
  <2>5. ASSUME NEW u \in DOMAIN ring', "kind" \in DOMAIN ring'[u]
        PROVE  \/ ring'[u] = NoHeader
               \/ \E q \in 0 .. sequence : ring'[u] = HeaderOf(P, K, q) /\ MayBeCarried(q)' /\ ~Hidden(q)'
    <3>1. \/ ring[u] = NoHeader
          \/ \E q \in 0 .. sequence : ring[u] = HeaderOf(P, K, q) /\ MayBeCarried(q) /\ ~Hidden(q)
      BY <2>5, <1>3, <1>10
    <3>2. \A q \in 0 .. sequence : MayBeCarried(q) /\ ~Hidden(q) => MayBeCarried(q)' /\ ~Hidden(q)'
      BY <2>4, <1>5
    <3> QED BY <3>1, <3>2, <1>10
  <2>6. ASSUME NEW q \in 0 .. sequence, Carried(q)', credit <= P[q]
        PROVE  ring'[OffsetOf(P[q])] = HeaderOf(P, K, q) \/ Hidden(q)'
    BY <2>4, <2>6, <1>3, <1>10 DEF Visible
  <2>7. ASSUME NEW q \in 0 .. (Arrived' - 1), credit <= P[q], NEW i \in 1 .. Units(P, K, q)
        PROVE  ring'[OffsetOf(P[q]) + i] = DataOf(P, K, q, i)
    <3>1. CASE q = t
      <4>1. Units(P, K, t) # 0 => Arrived' = t
        OBVIOUS
      <4> QED BY <3>1, <4>1, <1>1, <1>2
    <3>2. CASE q # t
      <4>1. q \in 0 .. (Arrived - 1)
        BY <3>2, <1>1
      <4> QED BY <4>1, <2>7, <1>3, <1>10
    <3> QED BY <3>1, <3>2
  <2>8. RingInv(P, K)'
    BY <1>3, <1>10, <2>5, <2>6, <2>7 DEF RingInv, Visible, HeaderOf, DataOf, Units, Rec, Fits, OffsetOf
  <2>9. UnseenInv(P, K)'
    <3>1. ASSUME NEW i \in 1 .. Len(unseen')
          PROVE  \E q \in readSequence .. sequence :
                   /\ unseen'[i] = [at |-> OffsetOf(P[q]), what |-> HeaderOf(P, K, q)]
                   /\ MayBeCarried(q)' /\ P[q] < credit + RingLen
      <4>1. CASE i \in 1 .. m
        <5>1. unseen'[i] = unseen[i]
          BY <4>1, <2>2
        <5>2. PICK q \in readSequence .. sequence :
                     /\ unseen[i] = [at |-> OffsetOf(P[q]), what |-> HeaderOf(P, K, q)]
                     /\ MayBeCarried(q)' /\ P[q] < credit + RingLen
          BY <4>1, <1>6
        <5> QED BY <5>1, <5>2
      <4>2. CASE i = m + 1
        <5>1. unseen'[i] = [at |-> OffsetOf(P[t]), what |-> HeaderOf(P, K, t)] /\ unseen'[i].what.seq = t
          BY <4>2, <2>2, <2>3 DEF e, x, h
        <5>2. t \in readSequence .. sequence
          BY <1>1
        <5>3. MayBeCarried(t)'
          BY <1>5
        <5> QED BY <5>1, <5>2, <5>3, <1>7
      <4> QED BY <4>1, <4>2, <2>2
    <3>2. ASSUME NEW i \in 1 .. Len(unseen'), NEW j \in 1 .. Len(unseen'),
                 unseen'[i].what.seq = unseen'[j].what.seq
          PROVE  i = j
      <4>1. \A k \in 1 .. m : unseen'[k] = unseen[k] /\ unseen[k].what.seq # t
        BY <2>2, <1>6
      <4>2. unseen'[m + 1].what.seq = t
        BY <2>2, <2>3
      <4> QED BY <3>2, <4>1, <4>2, <2>2, <1>4
    <3>3. unseen' \in Seq([at : Nat, what : Headers])
      BY <2>2
    <3> HIDE <1>10
    <3> QED BY ONLY <3>1, <3>2, <3>3, sequence' = sequence, credit' = credit, readSequence' = readSequence
            DEF UnseenInv, HeaderOf, Rec, Fits, OffsetOf
  <2> QED BY <2>8, <2>9
<1> QED BY <1>9, <1>10 DEF x, h, e

LEMMA PlaceData ==
  ASSUME NEW P \in NatSeqs, NEW K \in NatSeqs, Layout(P, K), RingInv(P, K), UnseenInv(P, K),
         credit \in Nat,
         NEW t \in 0 .. sequence, Arrived = t, step # "closed", step' = step,
         After(P, K, t) <= credit + RingLen,
         \A q \in 0 .. sequence : Carried(q)' <=> Carried(q),
         \A q \in 0 .. sequence : Carried(q) => q <= t,
         Arrived' = t + 1, DOMAIN ring' = 0 .. RingLen - 1,
         \A i \in 1 .. Units(P, K, t) : ring'[OffsetOf(P[t]) + i] = DataOf(P, K, t, i),
         \A u \in 0 .. RingLen - 1 :
           ring'[u] = ring[u] \/ \E i \in 1 .. Units(P, K, t) : u = OffsetOf(P[t]) + i,
         unseen' = unseen, sequence' = sequence, credit' = credit, readSequence' = readSequence
  PROVE  RingInv(P, K)' /\ UnseenInv(P, K)'
<1>1. /\ sequence \in Nat /\ t \in Nat /\ K[t] >= 1 /\ P[t] \in Nat
      /\ \A q \in 0 .. sequence : q \in Nat /\ K[q] >= 1 /\ P[q] \in Nat
  BY Order DEF Layout
<1>2. /\ DOMAIN ring = 0 .. RingLen - 1
      /\ \A u \in DOMAIN ring :
           "kind" \in DOMAIN ring[u] =>
             \/ ring[u] = NoHeader
             \/ \E q \in 0 .. sequence : ring[u] = HeaderOf(P, K, q) /\ MayBeCarried(q) /\ ~Hidden(q)
      /\ \A q \in 0 .. sequence :
           Carried(q) /\ credit <= P[q] => Visible(P, K, q) \/ Hidden(q)
      /\ \A q \in 0 .. (Arrived - 1) :
           credit <= P[q] =>
             \A i \in 1 .. Units(P, K, q) : ring[OffsetOf(P[q]) + i] = DataOf(P, K, q, i)
  BY DEF RingInv
<1>3. /\ \A q \in 0 .. sequence : MayBeCarried(q) <=> Carried(q)
      /\ \A q \in 0 .. sequence : MayBeCarried(q)' <=> Carried(q)'
      /\ \A q : Hidden(q)' <=> Hidden(q)
  BY DEF MayBeCarried, Hidden
<1>4. ASSUME NEW u \in DOMAIN ring', "kind" \in DOMAIN ring'[u]
      PROVE  \/ ring'[u] = NoHeader
             \/ \E q \in 0 .. sequence : ring'[u] = HeaderOf(P, K, q) /\ MayBeCarried(q)' /\ ~Hidden(q)'
  <2>1. ring'[u] = ring[u] /\ u \in DOMAIN ring
    <3>1. ASSUME NEW i \in 1 .. Units(P, K, t), u = OffsetOf(P[t]) + i PROVE FALSE
      <4>1. ring'[u] = DataOf(P, K, t, i)
        BY <3>1
      <4>2. ~("kind" \in DOMAIN DataOf(P, K, t, i))
        BY <1>1, DataCells
      <4> QED BY <4>1, <4>2, <1>4
    <3> QED BY <3>1, <1>2
  <2>2. \/ ring[u] = NoHeader
        \/ \E q \in 0 .. sequence : ring[u] = HeaderOf(P, K, q) /\ MayBeCarried(q) /\ ~Hidden(q)
    BY <2>1, <1>2, <1>4
  <2> QED BY <2>1, <2>2, <1>3
<1>5. ASSUME NEW q \in 0 .. t, q \in 0 .. sequence, credit <= P[q], NEW j \in 0 .. Units(P, K, q),
             q < t \/ (q = t /\ j = 0)
      PROVE  ring'[OffsetOf(P[q]) + j] = ring[OffsetOf(P[q]) + j]
  <2> DEFINE u == OffsetOf(P[q]) + j
  <2>1. u \in 0 .. RingLen - 1
    <3>1. OffsetOf(P[q]) \in 0 .. (RingLen - 1) /\ Units(P, K, q) \in Nat
      BY <1>1, <1>5, HeaderFacts
    <3>2. CASE j = 0
      BY <3>1, <3>2
    <3>3. CASE j # 0
      <4>1. j \in 1 .. Units(P, K, q) /\ q \in Nat /\ K[q] >= 1
        BY <3>1, <3>3, <1>1, <1>5
      <4> QED BY <4>1, DataCells
    <3> QED BY <3>2, <3>3
  <2>2. ASSUME NEW i \in 1 .. Units(P, K, t) PROVE u # OffsetOf(P[t]) + i
    <3>1. i \in 0 .. Units(P, K, t) /\ (q < t \/ (q = t /\ j < i))
      <4>1. Units(P, K, t) \in Nat
        BY <1>1, HeaderFacts
      <4> QED BY <4>1, <1>5
    <3> QED BY <3>1, <1>5, Elsewhere
  <2> HIDE DEF u
  <2>3. ring'[u] = ring[u]
    BY <2>1, <2>2
  <2> QED BY <2>3 DEF u
<1>6. ASSUME NEW q \in 0 .. sequence, Carried(q)', credit <= P[q]
      PROVE  ring'[OffsetOf(P[q])] = HeaderOf(P, K, q) \/ Hidden(q)'
  <2>1. Carried(q) /\ q <= t /\ q \in 0 .. t /\ (q < t \/ q = t)
    BY <1>1, <1>6
  <2>2. Units(P, K, q) \in Nat /\ OffsetOf(P[q]) \in 0 .. (RingLen - 1)
    BY <1>1, HeaderFacts
  <2>3. 0 \in 0 .. Units(P, K, q) /\ OffsetOf(P[q]) + 0 = OffsetOf(P[q])
    BY <2>2
  <2>4. ring'[OffsetOf(P[q]) + 0] = ring[OffsetOf(P[q]) + 0]
    BY <2>1, <2>3, <1>5, <1>6
  <2>5. ring'[OffsetOf(P[q])] = ring[OffsetOf(P[q])]
    BY <2>3, <2>4
  <2> QED BY <2>1, <2>5, <1>2, <1>3, <1>6 DEF Visible
<1>7. ASSUME NEW q \in 0 .. (Arrived' - 1), credit <= P[q], NEW i \in 1 .. Units(P, K, q)
      PROVE  ring'[OffsetOf(P[q]) + i] = DataOf(P, K, q, i)
  <2>1. CASE q = t
    BY <2>1
  <2>2. CASE q # t
    <3>1. q \in 0 .. (Arrived - 1) /\ q \in 0 .. sequence /\ q \in 0 .. t /\ q < t
      BY <2>2, <1>1
    <3>2. i \in 0 .. Units(P, K, q)
      <4>1. Units(P, K, q) \in Nat
        BY <3>1, <1>1, HeaderFacts
      <4> QED BY <4>1
    <3>3. ring'[OffsetOf(P[q]) + i] = ring[OffsetOf(P[q]) + i]
      BY <3>1, <3>2, <1>5, <1>7
    <3> QED BY <3>1, <3>3, <1>2, <1>7
  <2> QED BY <2>1, <2>2
<1>8. RingInv(P, K)'
  BY <1>4, <1>6, <1>7 DEF RingInv, Visible, HeaderOf, DataOf, Units, Rec, Fits, OffsetOf
<1>9. UnseenInv(P, K)'
  <2>1. ASSUME NEW i \in 1 .. Len(unseen)
        PROVE  \E q \in readSequence .. sequence :
                 /\ unseen[i] = [at |-> OffsetOf(P[q]), what |-> HeaderOf(P, K, q)]
                 /\ MayBeCarried(q)' /\ P[q] < credit + RingLen
    <3>1. PICK q \in readSequence .. sequence :
                 /\ unseen[i] = [at |-> OffsetOf(P[q]), what |-> HeaderOf(P, K, q)]
                 /\ MayBeCarried(q) /\ P[q] < credit + RingLen
      BY DEF UnseenInv
    <3>2. MayBeCarried(q)'
      BY <3>1, <1>1 DEF MayBeCarried, Carried
    <3> QED BY <3>1, <3>2
  <2> QED BY <2>1 DEF UnseenInv, HeaderOf, Rec, Fits, OffsetOf
<1> QED BY <1>8, <1>9

\* The oldest WRITE under way is carried out.
LEMMA WireMoves ==
  ASSUME NEW P \in NatSeqs, NEW K \in NatSeqs, Layout(P, K), WireInv(P, K), wire # <<>>, wire' = Tail(wire),
         sequence' = sequence, step' = step, series' = series
  PROVE  /\ WireInv(P, K)'
         /\ Head(wire) = wire[1] /\ Head(wire) \in Writes /\ 1 \in 1 .. Len(wire)
         /\ wire' \in Seq(Writes) /\ Len(wire') \in Nat
         /\ \A i \in 1 .. Len(wire') : wire'[i] = wire[i + 1] /\ i + 1 \in 1 .. Len(wire)
         /\ IF wire' = <<>> THEN sequence = Head(wire).tag + (IF Head(wire).announces THEN 1 ELSE 0)
            ELSE Head(wire').tag = Head(wire).tag + (IF Head(wire).announces THEN 1 ELSE 0)
         /\ IF wire' = <<>> THEN (step = "data" <=> ~Head(wire).announces)
            ELSE (Head(wire').from # "slots" <=> ~Head(wire).announces)
<1> DEFINE n == Len(wire)
<1>1. /\ wire \in Seq(Writes)
      /\ \A i \in 1 .. n :
           LET w == wire[i]
           IN /\ w.tag \in 0 .. sequence
              /\ w.tag = sequence => step = "data" /\ w.from = "slots"
              /\ \/ w = HeaderWriteOf(P, K, w.tag)
                 \/ Units(P, K, w.tag) # 0 /\ w = DataWriteOf(P, K, w.tag)
              /\ SeriesAt(K[w.tag]) = series
              /\ (series - 1) * Lap < K[w.tag] /\ K[w.tag] <= series * Lap
      /\ \A i \in 1 .. (n - 1) :
           /\ wire[i + 1].tag = wire[i].tag + (IF wire[i].announces THEN 1 ELSE 0)
           /\ wire[i + 1].from # "slots" <=> ~wire[i].announces
      /\ sequence = wire[n].tag + (IF wire[n].announces THEN 1 ELSE 0)
      /\ step = "data" <=> ~wire[n].announces
  BY DEF WireInv
<1>2. /\ n \in Nat \ {0} /\ Head(wire) = wire[1] /\ Head(wire) \in Writes
      /\ wire' \in Seq(Writes) /\ Len(wire') = n - 1
      /\ \A i \in 1 .. Len(wire') : wire'[i] = wire[i + 1] /\ i + 1 \in 1 .. n
  BY <1>1, First
<1>3. 1 \in 1 .. n /\ Len(wire') \in Nat
  BY <1>2
<1> HIDE DEF n
<1>4. ASSUME NEW i \in 1 .. Len(wire')
      PROVE  LET w == wire'[i]
             IN /\ w.tag \in 0 .. sequence
                /\ w.tag = sequence => step = "data" /\ w.from = "slots"
                /\ \/ w = HeaderWriteOf(P, K, w.tag)
                   \/ Units(P, K, w.tag) # 0 /\ w = DataWriteOf(P, K, w.tag)
                /\ SeriesAt(K[w.tag]) = series
                /\ (series - 1) * Lap < K[w.tag] /\ K[w.tag] <= series * Lap
  <2>1. wire'[i] = wire[i + 1] /\ i + 1 \in 1 .. n
    BY <1>2
  <2> QED BY <2>1, <1>1
<1>5. ASSUME NEW i \in 1 .. (Len(wire') - 1)
      PROVE  /\ wire'[i + 1].tag = wire'[i].tag + (IF wire'[i].announces THEN 1 ELSE 0)
             /\ wire'[i + 1].from # "slots" <=> ~wire'[i].announces
  <2>1. i \in 1 .. Len(wire') /\ i + 1 \in 1 .. Len(wire') /\ i + 1 \in 1 .. (n - 1)
    BY <1>2
  <2>2. wire'[i] = wire[i + 1] /\ wire'[i + 1] = wire[(i + 1) + 1]
    BY <2>1, <1>2
  <2> QED BY <2>1, <2>2, <1>1
<1>6. wire' # <<>> => /\ wire'[Len(wire')] = wire[n] /\ Head(wire') = wire[2]
                      /\ 1 \in 1 .. (n - 1)
  <2> SUFFICES ASSUME wire' # <<>>
               PROVE  wire'[Len(wire')] = wire[n] /\ Head(wire') = wire[2] /\ 1 \in 1 .. (n - 1)
    OBVIOUS
  <2>1. Len(wire') \in Nat \ {0} /\ Head(wire') = wire'[1]
    BY <1>2, First
  <2>2. /\ Len(wire') \in 1 .. Len(wire') /\ 1 \in 1 .. Len(wire') /\ Len(wire') + 1 = n
        /\ 1 + 1 = 2 /\ 1 \in 1 .. (n - 1)
    BY <2>1, <1>2
  <2> QED BY <2>1, <2>2, <1>2
<1>7. WireInv(P, K)'
  <2>1. wire' # <<>> => LET w == wire'[Len(wire')]
                        IN /\ sequence = w.tag + (IF w.announces THEN 1 ELSE 0)
                           /\ step = "data" <=> ~w.announces
    BY <1>1, <1>6
  <2> QED BY <1>2, <1>4, <1>5, <2>1
          DEF WireInv, HeaderWriteOf, DataWriteOf, Units, Rec, Fits, OffsetOf, SeriesAt
<1>8. CASE wire' = <<>>
  <2>1. n = 1
    <3>1. Len(wire') = 0
      BY <1>2, <1>8, EmptySeq
    <3>2. n \in Nat \ {0} /\ Len(wire') = n - 1
      BY <1>2
    <3> QED BY ONLY <3>1, <3>2
  <2> QED BY <2>1, <1>1, <1>2, <1>3, <1>7, <1>8 DEF n
<1>9. CASE wire' # <<>>
  <2>1. /\ Head(wire').tag = wire[1].tag + (IF wire[1].announces THEN 1 ELSE 0)
        /\ Head(wire').from # "slots" <=> ~wire[1].announces
    <3>1. /\ wire[1 + 1].tag = wire[1].tag + (IF wire[1].announces THEN 1 ELSE 0)
          /\ wire[1 + 1].from # "slots" <=> ~wire[1].announces
      BY <1>1, <1>6, <1>9
    <3>2. 1 + 1 = 2
      OBVIOUS
    <3> QED BY <3>1, <3>2, <1>6, <1>9
  <2> QED BY <2>1, <1>2, <1>3, <1>7, <1>9 DEF n
<1> QED BY <1>8, <1>9

LEMMA PlaceStep ==
  ASSUME NEW P \in NatSeqs, NEW K \in NatSeqs, HostAt(P, K), Place
  PROVE  HostAt(P, K)'
<1>1. Layout(P, K) /\ SenderInv(P, K) /\ WireInv(P, K) /\ TableInv(P, K) /\ AnnounceInv
      /\ RingInv(P, K) /\ UnseenInv(P, K) /\ ReaderInv(P, K) /\ KernelInv(P, K) /\ CreditInv(P, K)
      /\ sequence \in Nat
  BY Parts
<1>2. PICK w, t : w = Head(wire) /\ t = w.tag
  OBVIOUS
<1>3. /\ wire # <<>> /\ wire' = Tail(wire)
      /\ \/ ring' = Written(w, ring) /\ unseen' = unseen
         \/ /\ w.from = "slots" /\ ring' = ring
            /\ unseen' = Append(unseen, [at |-> w.to, what |-> Source(w, 1)])
      /\ IF w.announces THEN recvCq' = Append(recvCq, t % ImmMod) ELSE recvCq' = recvCq
  BY <1>2 DEF Place, Announce, qpVars, recvVars
<1>4. /\ step' = step /\ series' = series /\ next' = next /\ control' = control /\ cut' = cut
      /\ slots' = slots /\ position' = position /\ sequence' = sequence /\ header' = header
      /\ credit' = credit /\ readSequence' = readSequence /\ imms' = imms /\ sq' = sq
      /\ UNCHANGED <<readerState, creditState>>
  BY DEF Place, readerVars, readerState, creditState, qpVars, sendVars
<1>5. /\ WireInv(P, K)'
      /\ w = wire[1] /\ w \in Writes /\ 1 \in 1 .. Len(wire) /\ w.announces \in BOOLEAN
      /\ wire' \in Seq(Writes) /\ Len(wire') \in Nat
      /\ \A i \in 1 .. Len(wire') : wire'[i] = wire[i + 1] /\ i + 1 \in 1 .. Len(wire)
      /\ IF wire' = <<>> THEN sequence = t + (IF w.announces THEN 1 ELSE 0)
         ELSE Head(wire').tag = t + (IF w.announces THEN 1 ELSE 0)
      /\ IF wire' = <<>> THEN (step = "data" <=> ~w.announces)
         ELSE (Head(wire').from # "slots" <=> ~w.announces)
  <2>1. w \in Writes
    BY <1>1, <1>2, <1>3, <1>4, WireMoves
  <2>2. w.announces \in BOOLEAN
    BY <2>1 DEF Writes
  <2> QED BY <2>1, <2>2, <1>1, <1>2, <1>3, <1>4, WireMoves
<1>6. /\ t \in 0 .. sequence /\ t \in Nat
      /\ t = sequence => step = "data" /\ w.from = "slots"
      /\ \/ w = HeaderWriteOf(P, K, t)
         \/ Units(P, K, t) # 0 /\ w = DataWriteOf(P, K, t)
      /\ SeriesAt(K[t]) = series
      /\ w.from = "slots" => slots[w.index] = HeaderOf(P, K, t)
      /\ control = [kind \in {"start", "end"} |-> series]
  <2>1. /\ w.tag \in 0 .. sequence
        /\ w.tag = sequence => step = "data" /\ w.from = "slots"
        /\ \/ w = HeaderWriteOf(P, K, w.tag)
           \/ Units(P, K, w.tag) # 0 /\ w = DataWriteOf(P, K, w.tag)
        /\ SeriesAt(K[w.tag]) = series
    BY <1>1, <1>5 DEF WireInv
  <2>2. /\ w.from = "slots" => slots[w.index] = HeaderOf(P, K, w.tag)
        /\ control = [kind \in {"start", "end"} |-> series]
    BY <1>1, <1>5 DEF TableInv
  <2> QED BY <2>1, <2>2, <1>1, <1>2
<1>7. /\ K[t] >= 1 /\ P[t] \in Nat /\ Units(P, K, t) \in Nat /\ OffsetOf(P[t]) \in 0 .. (RingLen - 1)
      /\ Rec(P, K, t).kind \in {"wrap", "start", "image", "end"}
      /\ Rec(P, K, t).kind \in {"start", "end"} => Units(P, K, t) = 1
      /\ Rec(P, K, t).kind = "wrap" => Units(P, K, t) = 0
      /\ Rec(P, K, t).first \in Nat
  <2>1. K[t] >= 1
    BY <1>1, <1>6, Order
  <2> QED BY <2>1, <1>6, HeaderFacts
<1>8. \/ w.from = "slots" /\ w = HeaderWriteOf(P, K, t) /\ (w.announces <=> Units(P, K, t) = 0)
      \/ w.from # "slots" /\ w = DataWriteOf(P, K, t) /\ w.announces /\ Units(P, K, t) # 0
  <2>1. CASE w = HeaderWriteOf(P, K, t)
    BY <2>1 DEF HeaderWriteOf
  <2>2. CASE Units(P, K, t) # 0 /\ w = DataWriteOf(P, K, t)
    BY <2>2, <1>7 DEF DataWriteOf
  <2> QED BY <2>1, <2>2, <1>6
<1>9. step # "closed"
  BY <1>1, <1>3 DEF SenderInv
<1>10. /\ imms \in Seq(Nat) /\ recvCq \in Seq(Nat) /\ readSequence \in Nat
       /\ Arrived = t /\ Len(imms) \in Nat /\ Len(recvCq) \in Nat /\ readSequence <= t
       /\ \A i \in 1 .. Len(imms) : imms[i] = (readSequence + i - 1) % ImmMod
       /\ \A i \in 1 .. Len(recvCq) : recvCq[i] = (readSequence + Len(imms) + i - 1) % ImmMod
  <2>1. /\ imms \in Seq(Nat) /\ recvCq \in Seq(Nat) /\ readSequence \in Nat
        /\ Arrived = t
        /\ \A i \in 1 .. Len(imms) : imms[i] = (readSequence + i - 1) % ImmMod
        /\ \A i \in 1 .. Len(recvCq) : recvCq[i] = (readSequence + Len(imms) + i - 1) % ImmMod
    BY <1>1, <1>2, <1>3, <1>9 DEF AnnounceInv
  <2>2. Len(imms) \in Nat /\ Len(recvCq) \in Nat
    BY <2>1, LenProperties
  <2>3. readSequence <= t
    <3>1. t = readSequence + Len(imms) + Len(recvCq)
      BY <2>1 DEF Arrived
    <3> QED BY <3>1, <2>1, <2>2
  <2> QED BY <2>1, <2>2, <2>3
<1>11. /\ recvCq' \in Seq(Nat) /\ Len(recvCq') = Len(recvCq) + (IF w.announces THEN 1 ELSE 0)
       /\ \A i \in 1 .. Len(recvCq') : recvCq'[i] = (readSequence + Len(imms) + i - 1) % ImmMod
  <2>1. CASE w.announces
    <3> DEFINE m == Len(recvCq)
    <3>1. t % ImmMod \in Nat
      BY <1>6, Sizes
    <3>2. recvCq' = Append(recvCq, t % ImmMod)
      BY <2>1, <1>3
    <3>3. /\ recvCq' \in Seq(Nat) /\ Len(recvCq') = m + 1
          /\ recvCq'[m + 1] = t % ImmMod /\ \A i \in 1 .. m : recvCq'[i] = recvCq[i]
          /\ \A i \in 1 .. Len(recvCq') : i \in 1 .. m \/ i = m + 1
      BY <3>1, <3>2, <1>10, Grown
    <3>4. t = readSequence + Len(imms) + (m + 1) - 1
      <4>1. t = readSequence + Len(imms) + m
        BY <1>10 DEF Arrived
      <4>2. m \in Nat /\ Len(imms) \in Nat /\ readSequence \in Nat
        BY <1>10
      <4> HIDE DEF m
      <4> QED BY <4>1, <4>2
    <3> QED BY <3>3, <3>4, <2>1, <1>10
  <2>2. CASE ~w.announces
    BY <2>2, <1>3, <1>10
  <2> QED BY <2>1, <2>2
<1>12. Arrived' = t + (IF w.announces THEN 1 ELSE 0)
  <2>1. Arrived = readSequence + Len(imms) + Len(recvCq)
    BY DEF Arrived
  <2>2. Arrived' = readSequence + Len(imms) + Len(recvCq')
    BY <1>4 DEF Arrived
  <2> DEFINE a == readSequence
             b == Len(imms)
             c == Len(recvCq)
             d == IF w.announces THEN 1 ELSE 0
  <2>3. a \in Nat /\ b \in Nat /\ c \in Nat /\ d \in Nat /\ t = a + b + c /\ Arrived' = a + b + (c + d)
    BY <2>1, <2>2, <1>10, <1>11
  <2> HIDE DEF a, b, c, d
  <2>4. Arrived' = t + d
    BY <2>3
  <2> QED BY <2>4 DEF d
<1>13. AnnounceInv'
  <2>1. Arrived' = IF wire' = <<>> THEN sequence ELSE Head(wire').tag
    BY <1>5, <1>12
  <2>2. Arrived' <= sequence
    <3>1. CASE w.announces
      <4>1. t # sequence
        <5>1. CASE wire' = <<>>
          BY <5>1, <3>1, <1>5, <1>6, <1>1
        <5>2. CASE wire' # <<>>
          <6>1. Head(wire') \in Writes /\ Head(wire') = wire'[1] /\ 1 \in 1 .. Len(wire')
            <7>1. Len(wire') \in Nat \ {0} /\ Head(wire') = wire'[1] /\ Head(wire') \in Writes
              BY <5>2, <1>5, First
            <7> QED BY <7>1
          <6>2. wire'[1].tag \in 0 .. sequence
            BY <6>1, <1>4, <1>5 DEF WireInv
          <6> QED BY <6>1, <6>2, <5>2, <3>1, <1>5, <1>6, <1>1
        <5> QED BY <5>1, <5>2
      <4> QED BY <4>1, <3>1, <1>1, <1>6, <1>12
    <3>2. CASE ~w.announces
      BY <3>2, <1>1, <1>6, <1>12
    <3> QED BY <3>1, <3>2
  <2> QED BY <2>1, <2>2, <1>4, <1>10, <1>11 DEF AnnounceInv
<1>14. /\ HeaderGone <=> w.from # "slots"
       /\ HeaderGone' <=> ~w.announces
  BY <1>2, <1>3, <1>4, <1>5, <1>9 DEF HeaderGone
<1>15. After(P, K, t) <= credit + RingLen /\ credit \in Nat
  <2>1. credit \in Nat
    BY <1>1 DEF CreditInv
  <2> QED BY <2>1, <1>1, <1>6, WithinCredit
<1>16. ASSUME w.from = "slots" PROVE RingInv(P, K)' /\ UnseenInv(P, K)'
  <2>1. /\ w = HeaderWriteOf(P, K, t) /\ (w.announces <=> Units(P, K, t) = 0)
        /\ ~HeaderGone /\ w.to = OffsetOf(P[t]) /\ w.units = 1
    BY <1>8, <1>14, <1>16 DEF HeaderWriteOf
  <2>2. /\ ~Carried(t)
        /\ \A q \in 0 .. sequence : Carried(q)' <=> (Carried(q) \/ q = t)
        /\ \A q \in 0 .. sequence : Carried(q) => q < t
    <3>1. \A q : Carried(q) <=> q < t
      BY <2>1, <1>10 DEF Carried
    <3>2. \A q \in 0 .. sequence : Carried(q)' <=> (q < t \/ q = t)
      <4>1. CASE w.announces
        <5>1. Arrived' = t + 1 /\ ~HeaderGone'
          BY <4>1, <1>12, <1>14
        <5>2. \A q \in 0 .. sequence : Carried(q)' <=> q < t + 1
          BY <5>1 DEF Carried
        <5>3. \A q \in 0 .. sequence : q < t + 1 <=> (q < t \/ q = t)
          BY <1>6, <1>1
        <5> QED BY <5>2, <5>3
      <4>2. CASE ~w.announces
        <5>1. Arrived' = t /\ HeaderGone'
          BY <4>2, <1>6, <1>12, <1>14
        <5> QED BY <5>1 DEF Carried
      <4> QED BY <4>1, <4>2
    <3> QED BY <3>1, <3>2, <1>6
  <2>3. Arrived' = IF Units(P, K, t) = 0 THEN t + 1 ELSE t
    BY <2>1, <1>6, <1>12
  <2>4. Source(w, 1) = HeaderOf(P, K, t)
    BY <1>6, <1>16 DEF Source
  <2>5. \/ /\ DOMAIN ring' = 0 .. RingLen - 1 /\ ring'[OffsetOf(P[t])] = HeaderOf(P, K, t)
           /\ \A u \in 0 .. RingLen - 1 : u # OffsetOf(P[t]) => ring'[u] = ring[u]
           /\ unseen' = unseen
        \/ /\ unseen' = Append(unseen, [at |-> OffsetOf(P[t]), what |-> HeaderOf(P, K, t)])
           /\ ring' = ring
    <3>1. CASE ring' = Written(w, ring) /\ unseen' = unseen
      <4>1. ring' = [u \in 0 .. RingLen - 1 |-> IF u - w.to \in 0 .. 0 THEN Source(w, u - w.to + 1) ELSE ring[u]]
        BY <2>1, <3>1 DEF Written
      <4> DEFINE x == OffsetOf(P[t])
      <4>2. x \in 0 .. RingLen - 1 /\ w.to = x
        BY <2>1, <1>7
      <4> HIDE DEF x
      <4>3. \A u \in 0 .. RingLen - 1 : u - x \in 0 .. 0 <=> u = x
        BY <4>2
      <4>4. x - x + 1 = 1
        BY <4>2
      <4> QED BY <4>1, <4>2, <4>3, <4>4, <2>4, <3>1 DEF x
    <3>2. CASE /\ ring' = ring
               /\ unseen' = Append(unseen, [at |-> w.to, what |-> Source(w, 1)])
      BY <3>2, <2>1, <2>4
    <3> QED BY <3>1, <3>2, <1>3
  <2> QED BY <2>2, <2>3, <2>5, <1>1, <1>4, <1>6, <1>9, <1>10, <1>15, PlaceHeader
<1>17. ASSUME w.from # "slots" PROVE RingInv(P, K)' /\ UnseenInv(P, K)'
  <2>1. /\ w = DataWriteOf(P, K, t) /\ w.announces /\ Units(P, K, t) # 0 /\ HeaderGone /\ ~HeaderGone'
        /\ w.to = OffsetOf(P[t]) + 1 /\ w.units = Units(P, K, t) /\ w.tag = t
        /\ w.from = Rec(P, K, t).kind /\ w.index = Rec(P, K, t).first
    BY <1>2, <1>8, <1>14, <1>17 DEF DataWriteOf
  <2>2. Arrived' = t + 1 /\ Arrived = t
    BY <2>1, <1>10, <1>12
  <2>3. \A q \in 0 .. sequence : (Carried(q)' <=> Carried(q)) /\ (Carried(q) => q <= t)
    <3>1. \A q \in 0 .. sequence : Carried(q)' <=> q < t + 1
      BY <2>1, <2>2 DEF Carried
    <3>2. \A q \in 0 .. sequence : Carried(q) <=> (q < t \/ q = t)
      BY <2>1, <2>2 DEF Carried
    <3>3. \A q \in 0 .. sequence : q < t + 1 <=> (q < t \/ q = t)
      BY <1>6, <1>1
    <3>4. \A q \in 0 .. sequence : (q < t \/ q = t) => q <= t
      BY <1>6, <1>1
    <3> QED BY <3>1, <3>2, <3>3, <3>4
  <2>4. \A i \in 1 .. Units(P, K, t) : Source(w, i) = DataOf(P, K, t, i)
    <3>1. CASE Rec(P, K, t).kind = "image"
      BY <3>1, <2>1 DEF Source, DataOf
    <3>2. CASE Rec(P, K, t).kind # "image"
      <4>1. Rec(P, K, t).kind \in {"start", "end"}
        BY <3>2, <2>1, <1>7
      <4>2. control[w.from] = SeriesAt(K[t])
        BY <4>1, <2>1, <1>6
      <4> QED BY <3>2, <4>1, <4>2, <2>1, <1>17 DEF Source, DataOf
    <3> QED BY <3>1, <3>2
  <2>5. unseen' = unseen
        /\ ring' = [u \in 0 .. RingLen - 1 |-> IF u - w.to \in 0 .. w.units - 1
                                               THEN Source(w, u - w.to + 1) ELSE ring[u]]
    BY <1>3, <1>17 DEF Written
  <2> DEFINE x == OffsetOf(P[t])
             n == Units(P, K, t)
  <2>6. x \in Nat /\ n \in Nat /\ w.to = x + 1 /\ w.units = n /\ RingLen \in Nat
    BY <2>1, <1>7, Sizes
  <2>7. \A i \in 1 .. n : x + i \in 0 .. RingLen - 1
    BY <1>6, <1>7, DataCells
  <2> HIDE DEF x, n
  <2>8. \A i \in 1 .. n : (x + i) - (x + 1) \in 0 .. n - 1 /\ (x + i) - (x + 1) + 1 = i
    BY <2>6
  <2>9. \A u \in 0 .. RingLen - 1 : u - (x + 1) \in 0 .. n - 1 => \E i \in 1 .. n : u = x + i
    <3> SUFFICES ASSUME NEW u \in 0 .. RingLen - 1, u - (x + 1) \in 0 .. n - 1
                 PROVE  \E i \in 1 .. n : u = x + i
      OBVIOUS
    <3>1. u - x \in 1 .. n /\ u = x + (u - x)
      BY <2>6
    <3> QED BY <3>1
  <2>10. \A i \in 1 .. n : ring'[x + i] = DataOf(P, K, t, i)
    <3> SUFFICES ASSUME NEW i \in 1 .. n PROVE ring'[x + i] = DataOf(P, K, t, i)
      OBVIOUS
    <3>1. ring'[x + i] = Source(w, (x + i) - (x + 1) + 1)
      BY <2>5, <2>6, <2>7, <2>8
    <3>2. ring'[x + i] = Source(w, i)
      BY <3>1, <2>8
    <3> QED BY <3>2, <2>4 DEF n
  <2>11. DOMAIN ring' = 0 .. RingLen - 1
         /\ \A u \in 0 .. RingLen - 1 : ring'[u] = ring[u] \/ \E i \in 1 .. n : u = x + i
    BY <2>5, <2>6, <2>9
  <2> QED BY <2>2, <2>3, <2>5, <2>10, <2>11, <1>1, <1>4, <1>6, <1>9, <1>15, PlaceData DEF x, n
<1>18. TableInv(P, K)'
  <2>1. \A i \in 1 .. Len(wire) :
          wire[i].from = "slots" => slots[wire[i].index] = HeaderOf(P, K, wire[i].tag)
    BY <1>1 DEF TableInv
  <2>2. \A i \in 1 .. Len(wire') :
          wire'[i].from = "slots" => slots[wire'[i].index] = HeaderOf(P, K, wire'[i].tag)
    BY <2>1, <1>5
  <2> QED BY <1>1, <1>4, <2>2 DEF TableInv, HeaderOf, Rec, Fits, OffsetOf
<1>19. Layout(P, K)' /\ SenderInv(P, K)'
  <2>1. Layout(P, K)'
    BY <1>1, <1>4 DEF Layout, After, Fits, Rec, OffsetOf
  <2>2. step \notin {"open", "closed"}
    BY <1>1, <1>3 DEF SenderInv
  <2>3. SenderInv(P, K)'
    BY <2>2, <1>1, <1>4 DEF SenderInv, After, Units, Fits, Rec, OffsetOf, Plan
  <2> QED BY <2>1, <2>3
<1>20. ReaderInv(P, K)' /\ KernelInv(P, K)' /\ CreditInv(P, K)'
  BY <1>1, <1>4, LeavesReader
<1> QED BY <1>5, <1>13, <1>16, <1>17, <1>18, <1>19, <1>20 DEF HostAt

senderState == <<step, series, next, control, cut, slots, position, sequence, header, wire>>
announceState == <<imms, recvCq, readSequence>>

\* What the reader and the network do leaves the sender, whose credit only grows.
LEMMA LeavesSender ==
  ASSUME NEW P \in NatSeqs, NEW K \in NatSeqs, Layout(P, K), SenderInv(P, K), WireInv(P, K), TableInv(P, K),
         UNCHANGED senderState, credit \in Nat, credit' \in Nat, credit <= credit'
  PROVE  Layout(P, K)' /\ SenderInv(P, K)' /\ WireInv(P, K)' /\ TableInv(P, K)'
<1>1. /\ step' = step /\ series' = series /\ next' = next /\ control' = control /\ cut' = cut
      /\ slots' = slots /\ position' = position /\ sequence' = sequence /\ header' = header
      /\ wire' = wire
  BY DEF senderState
<1>2. sequence \in Nat /\ sequence \in 0 .. sequence
  BY DEF Layout
<1>3. Layout(P, K)'
  BY <1>1 DEF Layout, After, Fits, Rec, OffsetOf
<1>4. SenderInv(P, K)'
  <2>1. K[sequence] >= 1 /\ P[sequence] \in Nat
    BY <1>2, Order
  <2>2. After(P, K, sequence) \in Nat /\ RingLen \in Nat
    BY <1>2, <2>1, HeaderFacts, Sizes
  <2>3. \A x \in Nat : x <= credit + RingLen => x <= credit' + RingLen
    <3>1. credit \in Nat /\ credit' \in Nat /\ credit <= credit' /\ RingLen \in Nat
      BY <2>2
    <3>2. \A a, b, r, x \in Nat : a <= b /\ x <= a + r => x <= b + r
      OBVIOUS
    <3> QED BY <3>1, <3>2
  <2>4. /\ step \in {"open", "credit", "header", "data", "drain", "done", "closed"}
        /\ cut \in Cuts /\ series \in Nat /\ next \in 1 .. Lap + 1
        /\ header = sequence /\ position = P[sequence]
        /\ step \in {"open", "drain"} => K[sequence] = series * Lap + 1
        /\ step \in {"open", "closed"} => wire = <<>>
        /\ step \in {"credit", "header", "data"} =>
             /\ series >= 1 /\ next \in 1 .. Len(Plan) /\ K[sequence] = (series - 1) * Lap + next
        /\ step = "data" => Units(P, K, sequence) # 0
        /\ position <= credit + RingLen
        /\ step \in {"header", "data"} => After(P, K, sequence) <= credit + RingLen
    BY DEF SenderInv
  <2>5. position <= credit' + RingLen
    BY <2>1, <2>3, <2>4
  <2>6. step \in {"header", "data"} => After(P, K, sequence) <= credit' + RingLen
    BY <2>2, <2>3, <2>4
  <2> QED BY <1>1, <2>4, <2>5, <2>6 DEF SenderInv, After, Units, Fits, Rec, OffsetOf, Plan
<1>5. WireInv(P, K)'
  BY <1>1 DEF WireInv, HeaderWriteOf, DataWriteOf, Units, Rec, Fits, OffsetOf, SeriesAt
<1>6. TableInv(P, K)'
  BY <1>1 DEF TableInv, HeaderOf, Rec, Fits, OffsetOf
<1> QED BY <1>3, <1>4, <1>5, <1>6

LEMMA LeavesAnnouncements ==
  ASSUME AnnounceInv, UNCHANGED senderState, UNCHANGED announceState
  PROVE  AnnounceInv' /\ Arrived' = Arrived /\ (HeaderGone' <=> HeaderGone)
  BY DEF AnnounceInv, Arrived, senderState, announceState, HeaderGone

\* How far the announcements have come.
LEMMA Announced ==
  ASSUME AnnounceInv, sequence \in Nat
  PROVE  /\ readSequence \in Nat /\ Len(imms) \in Nat /\ Len(recvCq) \in Nat
         /\ Arrived \in Nat /\ readSequence <= Arrived /\ Arrived <= sequence
         /\ readSequence + Len(imms) <= Arrived
         /\ readSequence \in 0 .. sequence
<1>1. readSequence \in Nat /\ Len(imms) \in Nat /\ Len(recvCq) \in Nat /\ Arrived <= sequence
  BY LenProperties DEF AnnounceInv
<1>2. Arrived = readSequence + Len(imms) + Len(recvCq)
  BY DEF Arrived
<1> QED BY <1>1, <1>2

\* A record that was carried out kept within its credit.
LEMMA CarriedWithin ==
  ASSUME NEW P \in NatSeqs, NEW K \in NatSeqs, Layout(P, K), SenderInv(P, K), WireInv(P, K), AnnounceInv,
         credit \in Nat, NEW q \in 0 .. sequence, Carried(q)
  PROVE  After(P, K, q) <= credit + RingLen
<1>1. sequence \in Nat /\ Arrived \in Nat /\ Arrived <= sequence
  BY Announced DEF Layout
<1>2. q = sequence => step = "data"
  <2> SUFFICES ASSUME q = sequence PROVE step = "data"
    OBVIOUS
  <2>1. q = Arrived /\ HeaderGone
    BY <1>1 DEF Carried
  <2>2. CASE wire = <<>>
    BY <2>1, <2>2 DEF HeaderGone
  <2>3. CASE wire # <<>>
    <3>1. Head(wire).from # "slots" /\ Head(wire).tag = sequence
      BY <2>1, <2>3 DEF HeaderGone, AnnounceInv
    <3>2. Head(wire) = wire[1] /\ 1 \in 1 .. Len(wire)
      <4>1. wire \in Seq(Writes)
        BY DEF WireInv
      <4>2. Len(wire) \in Nat \ {0} /\ Head(wire) = wire[1]
        BY <4>1, <2>3, First
      <4> QED BY <4>2
    <3> QED BY <3>1, <3>2 DEF WireInv
  <2> QED BY <2>2, <2>3
<1> QED BY <1>2, WithinCredit

\* The credit lies behind every frame that is not finished.
LEMMA CreditBehind ==
  ASSUME NEW P \in NatSeqs, NEW K \in NatSeqs, Layout(P, K), AnnounceInv, CreditInv(P, K)
  PROVE  /\ Safe \in Nat /\ Safe <= readSequence /\ Safe \in 0 .. sequence /\ credit \in Nat
         /\ Safe = readSequence - Len(pending) /\ Len(pending) \in Nat
         /\ credit <= P[Safe]
         /\ \A q \in Safe .. sequence : q \in 0 .. sequence /\ credit <= P[q] /\ P[Safe] <= P[q]
<1>1. sequence \in Nat /\ readSequence \in 0 .. sequence /\ readSequence \in Nat
  BY Announced DEF Layout
<1>2. /\ Safe \in Nat /\ credit \in Nat /\ safe = P[Safe] /\ credited \in Nat
      /\ credit <= credited /\ credited <= safe /\ Len(pending) \in Nat
  BY LenProperties DEF CreditInv
<1>3. Safe = readSequence - Len(pending)
  BY DEF Safe
<1>4. Safe <= readSequence /\ Safe \in 0 .. sequence
  BY <1>1, <1>2, <1>3
<1>5. P[Safe] \in Nat /\ credit <= P[Safe]
  <2>1. P[Safe] \in Nat
    BY <1>2, NatSeqsNat
  <2> QED BY <2>1, <1>2
<1>6. ASSUME NEW q \in Safe .. sequence
      PROVE  q \in 0 .. sequence /\ credit <= P[q] /\ P[Safe] <= P[q]
  <2>1. q \in 0 .. sequence /\ Safe <= q
    BY <1>1, <1>2
  <2>2. P[Safe] <= P[q] /\ P[q] \in Nat
    BY <2>1, <1>4, Order
  <2> QED BY <2>1, <2>2, <1>2, <1>5
<1> QED BY <1>2, <1>3, <1>4, <1>5, <1>6

\* A header becomes visible.
LEMMA SettleStep ==
  ASSUME NEW P \in NatSeqs, NEW K \in NatSeqs, HostAt(P, K), Settle
  PROVE  HostAt(P, K)'
<1>1. Layout(P, K) /\ SenderInv(P, K) /\ WireInv(P, K) /\ TableInv(P, K) /\ AnnounceInv
      /\ RingInv(P, K) /\ UnseenInv(P, K) /\ ReaderInv(P, K) /\ KernelInv(P, K) /\ CreditInv(P, K)
      /\ sequence \in Nat
  BY Parts
<1>2. /\ unseen # <<>> /\ unseen' = Tail(unseen)
      /\ ring' = [ring EXCEPT ![Head(unseen).at] = Head(unseen).what]
      /\ UNCHANGED senderState /\ UNCHANGED announceState /\ credit' = credit
      /\ UNCHANGED <<readerState, creditState>>
  BY DEF Settle, senderState, announceState, senderVars, readerVars, readerState, creditState, qpVars,
         sendVars, recvVars
<1>3. /\ credit \in Nat /\ Safe <= readSequence /\ readSequence \in Nat /\ Safe \in Nat
      /\ \A q \in Safe .. sequence : q \in 0 .. sequence /\ credit <= P[q]
  BY <1>1, CreditBehind, Announced
<1>4. Layout(P, K)' /\ SenderInv(P, K)' /\ WireInv(P, K)' /\ TableInv(P, K)'
  <2>1. credit <= credit' /\ credit' \in Nat
    BY <1>2, <1>3
  <2> QED BY <2>1, <1>1, <1>2, <1>3, LeavesSender
<1>5. AnnounceInv' /\ Arrived' = Arrived /\ (HeaderGone' <=> HeaderGone)
  BY <1>1, <1>2, LeavesAnnouncements
<1>6. ReaderInv(P, K)' /\ KernelInv(P, K)' /\ CreditInv(P, K)'
  BY <1>1, <1>2, LeavesReader
<1>7. /\ unseen \in Seq([at : Nat, what : Headers]) /\ Len(unseen) \in Nat
      /\ 1 \in 1 .. Len(unseen) /\ Head(unseen) = unseen[1]
      /\ unseen' \in Seq([at : Nat, what : Headers]) /\ Len(unseen') = Len(unseen) - 1
      /\ \A i \in 1 .. Len(unseen') : unseen'[i] = unseen[i + 1] /\ i + 1 \in 1 .. Len(unseen)
  <2>1. unseen \in Seq([at : Nat, what : Headers])
    BY <1>1 DEF UnseenInv
  <2>2. /\ Len(unseen) \in Nat \ {0} /\ Head(unseen) = unseen[1]
        /\ unseen' \in Seq([at : Nat, what : Headers]) /\ Len(unseen') = Len(unseen) - 1
        /\ \A i \in 1 .. Len(unseen') : unseen'[i] = unseen[i + 1] /\ i + 1 \in 1 .. Len(unseen)
    BY <2>1, <1>2, First
  <2>3. 1 \in 1 .. Len(unseen)
    BY <2>2
  <2> QED BY <2>1, <2>2, <2>3
<1>8. PICK p \in readSequence .. sequence :
        /\ unseen[1] = [at |-> OffsetOf(P[p]), what |-> HeaderOf(P, K, p)]
        /\ MayBeCarried(p) /\ P[p] < credit + RingLen
  BY <1>1, <1>7 DEF UnseenInv
<1>9. /\ p \in 0 .. sequence /\ p \in Nat /\ credit <= P[p] /\ K[p] >= 1 /\ P[p] \in Nat
      /\ unseen[1].what.seq = p
      /\ OffsetOf(P[p]) \in 0 .. (RingLen - 1)
  <2>1. p \in Safe .. sequence
    BY <1>1, <1>3
  <2>2. p \in 0 .. sequence /\ credit <= P[p]
    BY <2>1, <1>3
  <2>3. p \in Nat /\ K[p] >= 1 /\ P[p] \in Nat
    BY <2>2, <1>1, Order
  <2>4. unseen[1].what.seq = p
    BY <1>8 DEF HeaderOf
  <2> QED BY <2>2, <2>3, <2>4, HeaderFacts
<1> DEFINE x == OffsetOf(P[p])
<1>10. /\ DOMAIN ring' = 0 .. RingLen - 1 /\ ring'[x] = HeaderOf(P, K, p)
       /\ \A u \in 0 .. RingLen - 1 : u # x => ring'[u] = ring[u]
       /\ DOMAIN ring = 0 .. RingLen - 1
  <2>1. DOMAIN ring = 0 .. RingLen - 1
    BY <1>1 DEF RingInv
  <2>2. ring' = [ring EXCEPT ![x] = HeaderOf(P, K, p)]
    <3>1. Head(unseen).at = x /\ Head(unseen).what = HeaderOf(P, K, p)
      BY <1>7, <1>8
    <3> QED BY <3>1, <1>2
  <2>3. x \in DOMAIN ring
    BY <2>1, <1>9
  <2> HIDE DEF x
  <2> QED BY <2>1, <2>2, <2>3
<1>11. /\ \A q : Hidden(q)' => Hidden(q) /\ q # p
       /\ \A q : Hidden(q) => Hidden(q)' \/ q = p
  <2>1. \A i, j \in 1 .. Len(unseen) : unseen[i].what.seq = unseen[j].what.seq => i = j
    BY <1>1 DEF UnseenInv
  <2>2. ASSUME NEW q, Hidden(q)' PROVE Hidden(q) /\ q # p
    <3>1. PICK i \in 1 .. Len(unseen') : unseen'[i].what.seq = q
      BY <2>2 DEF Hidden
    <3>2. unseen[i + 1].what.seq = q /\ i + 1 \in 1 .. Len(unseen) /\ i + 1 # 1
      <4>1. i \in Nat /\ i >= 1
        BY <3>1
      <4>2. i + 1 # 1
        BY <4>1
      <4>3. unseen'[i] = unseen[i + 1] /\ i + 1 \in 1 .. Len(unseen)
        BY <3>1, <1>7
      <4> QED BY <3>1, <4>2, <4>3
    <3>3. q # p
      BY <3>2, <2>1, <1>7, <1>9
    <3> QED BY <3>2, <3>3 DEF Hidden
  <2>3. ASSUME NEW q, Hidden(q), q # p PROVE Hidden(q)'
    <3>1. PICK i \in 1 .. Len(unseen) : unseen[i].what.seq = q
      BY <2>3 DEF Hidden
    <3>2. i # 1
      BY <3>1, <2>3, <1>9
    <3>3. i - 1 \in 1 .. Len(unseen') /\ (i - 1) + 1 = i
      BY <3>1, <3>2, <1>7
    <3>4. unseen'[i - 1].what.seq = q
      BY <3>1, <3>3, <1>7
    <3> QED BY <3>3, <3>4 DEF Hidden
  <2> QED BY <2>2, <2>3
<1>12. /\ \A q : Carried(q)' <=> Carried(q)
       /\ \A q : MayBeCarried(q)' <=> MayBeCarried(q)
  BY <1>2, <1>5 DEF Carried, MayBeCarried, senderState
<1>13. ASSUME NEW q \in 0 .. sequence, credit <= P[q], Carried(q), NEW j \in 0 .. Units(P, K, q),
              q = p => j # 0
       PROVE  /\ OffsetOf(P[q]) + j # x /\ OffsetOf(P[q]) + j \in 0 .. RingLen - 1
  <2>1. q \in Nat /\ K[q] >= 1 /\ P[q] \in Nat
    BY <1>1, Order
  <2>2. /\ Units(P, K, q) \in Nat /\ Units(P, K, p) \in Nat
        /\ After(P, K, q) \in Nat /\ P[q] + Units(P, K, q) < After(P, K, q)
        /\ After(P, K, p) \in Nat /\ P[p] + Units(P, K, p) < After(P, K, p)
        /\ OffsetOf(P[q]) \in 0 .. (RingLen - 1)
    BY <2>1, <1>9, HeaderFacts
  <2>3. After(P, K, q) <= credit + RingLen
    BY <1>1, <1>3, <1>13, CarriedWithin
  <2>4. j \in Nat /\ (j = 0 \/ j \in 1 .. Units(P, K, q))
    BY <2>2
  <2>5. OffsetOf(P[q] + j) = OffsetOf(P[q]) + j /\ OffsetOf(P[q]) + j \in 0 .. (RingLen - 1)
    <3>1. CASE j = 0
      <4>1. P[q] + 0 = P[q] /\ OffsetOf(P[q]) + 0 = OffsetOf(P[q])
        BY <2>1, <2>2
      <4> QED BY <3>1, <4>1, <2>2
    <3>2. CASE j \in 1 .. Units(P, K, q)
      BY <3>2, <2>1, DataCells
    <3> QED BY <3>1, <3>2, <2>4
  <2>6. P[q] + j # P[p]
    <3>1. CASE q < p
      <4>1. After(P, K, q) <= P[p]
        BY <3>1, <1>1, <1>9, Order
      <4> QED BY <4>1, <2>1, <2>2, <2>4, <1>9
    <3>2. CASE p < q
      <4>1. After(P, K, p) <= P[q]
        BY <3>2, <1>1, <1>9, Order
      <4> QED BY <4>1, <2>1, <2>2, <2>4, <1>9
    <3>3. CASE p = q
      <4>1. j > 0
        BY <3>3, <1>13, <2>4
      <4> QED BY <4>1, <3>3, <2>1, <2>4, <1>9
    <3> QED BY <3>1, <3>2, <3>3, <2>1, <1>9
  <2>7. /\ P[q] + j \in Nat /\ credit <= P[q] + j /\ P[q] + j < credit + RingLen
    <3>1. RingLen \in Nat
      BY Sizes
    <3> QED BY <3>1, <2>1, <2>2, <2>3, <2>4, <1>3, <1>13
  <2>8. OffsetOf(P[q] + j) # OffsetOf(P[p])
    <3> DEFINE a == P[q] + j
               b == P[p]
    <3>1. a \in Nat /\ b \in Nat /\ credit <= a /\ credit <= b /\ a < credit + RingLen /\ b < credit + RingLen
          /\ a # b
      BY <2>6, <2>7, <1>8, <1>9
    <3> HIDE DEF a, b
    <3> QED BY <3>1, <1>3, SameCell DEF a, b
  <2> QED BY <2>5, <2>8
<1> HIDE DEF x
<1>14. ASSUME NEW u \in DOMAIN ring', "kind" \in DOMAIN ring'[u]
       PROVE  \/ ring'[u] = NoHeader
              \/ \E q \in 0 .. sequence : ring'[u] = HeaderOf(P, K, q) /\ MayBeCarried(q)' /\ ~Hidden(q)'
  <2>1. CASE u = x
    BY <2>1, <1>8, <1>9, <1>10, <1>11, <1>12
  <2>2. CASE u # x
    <3>1. ring'[u] = ring[u] /\ u \in DOMAIN ring
      BY <2>2, <1>10
    <3>2. \/ ring[u] = NoHeader
          \/ \E q \in 0 .. sequence : ring[u] = HeaderOf(P, K, q) /\ MayBeCarried(q) /\ ~Hidden(q)
      BY <3>1, <1>1, <1>14 DEF RingInv
    <3> QED BY <3>1, <3>2, <1>11, <1>12
  <2> QED BY <2>1, <2>2
<1>15. ASSUME NEW q \in 0 .. sequence, Carried(q)', credit <= P[q]
       PROVE  ring'[OffsetOf(P[q])] = HeaderOf(P, K, q) \/ Hidden(q)'
  <2>1. CASE q = p
    BY <2>1, <1>10 DEF x
  <2>2. CASE q # p
    <3>1. Carried(q)
      BY <1>12, <1>15
    <3>2. Visible(P, K, q) \/ Hidden(q)
      BY <3>1, <1>1, <1>15 DEF RingInv
    <3>3. OffsetOf(P[q]) # x /\ OffsetOf(P[q]) \in 0 .. RingLen - 1
      <4>1. OffsetOf(P[q]) \in 0 .. RingLen - 1 /\ Units(P, K, q) \in Nat
        <5>1. q \in Nat /\ K[q] >= 1
          BY <1>1, Order
        <5> QED BY <5>1, HeaderFacts
      <4>2. 0 \in 0 .. Units(P, K, q) /\ OffsetOf(P[q]) + 0 = OffsetOf(P[q])
        BY <4>1
      <4>3. OffsetOf(P[q]) + 0 # x
        BY <4>2, <3>1, <2>2, <1>13, <1>15
      <4> QED BY <4>1, <4>2, <4>3
    <3> QED BY <2>2, <3>2, <3>3, <1>10, <1>11 DEF Visible
  <2> QED BY <2>1, <2>2
<1>16. ASSUME NEW q \in 0 .. (Arrived - 1), credit <= P[q], NEW i \in 1 .. Units(P, K, q)
       PROVE  ring'[OffsetOf(P[q]) + i] = DataOf(P, K, q, i)
  <2>1. q \in 0 .. sequence /\ Carried(q)
    <3>1. Arrived \in Nat /\ Arrived <= sequence
      BY <1>1, Announced
    <3> QED BY <3>1, <1>1 DEF Carried
  <2>2. i \in 0 .. Units(P, K, q) /\ i # 0
    <3>1. q \in Nat /\ K[q] >= 1
      BY <2>1, <1>1, Order
    <3>2. Units(P, K, q) \in Nat
      BY <3>1, HeaderFacts
    <3> QED BY <3>2
  <2>3. OffsetOf(P[q]) + i # x /\ OffsetOf(P[q]) + i \in 0 .. RingLen - 1
    BY <2>1, <2>2, <1>13, <1>16
  <2>4. ring[OffsetOf(P[q]) + i] = DataOf(P, K, q, i)
    BY <1>1, <1>16 DEF RingInv
  <2> QED BY <2>3, <2>4, <1>10
<1>17. sequence' = sequence /\ readSequence' = readSequence
  BY <1>2 DEF senderState, announceState
<1>18. RingInv(P, K)'
  BY <1>2, <1>5, <1>10, <1>14, <1>15, <1>16, <1>17
     DEF RingInv, Visible, HeaderOf, DataOf, Units, Rec, Fits, OffsetOf
<1>19. UnseenInv(P, K)'
  <2>1. ASSUME NEW i \in 1 .. Len(unseen')
        PROVE  \E q \in readSequence .. sequence :
                 /\ unseen'[i] = [at |-> OffsetOf(P[q]), what |-> HeaderOf(P, K, q)]
                 /\ MayBeCarried(q)' /\ P[q] < credit + RingLen
    <3>1. unseen'[i] = unseen[i + 1] /\ i + 1 \in 1 .. Len(unseen)
      BY <1>7
    <3>2. PICK q \in readSequence .. sequence :
                 /\ unseen[i + 1] = [at |-> OffsetOf(P[q]), what |-> HeaderOf(P, K, q)]
                 /\ MayBeCarried(q) /\ P[q] < credit + RingLen
      BY <3>1, <1>1 DEF UnseenInv
    <3> QED BY <3>1, <3>2, <1>12
  <2>2. ASSUME NEW i \in 1 .. Len(unseen'), NEW j \in 1 .. Len(unseen'),
               unseen'[i].what.seq = unseen'[j].what.seq
        PROVE  i = j
    <3>1. unseen'[i] = unseen[i + 1] /\ i + 1 \in 1 .. Len(unseen)
          /\ unseen'[j] = unseen[j + 1] /\ j + 1 \in 1 .. Len(unseen)
      BY <1>7
    <3>2. i + 1 = j + 1
      BY <3>1, <2>2, <1>1 DEF UnseenInv
    <3> QED BY <3>2
  <2>3. unseen' \in Seq([at : Nat, what : Headers])
    BY <1>7
  <2>4. credit' = credit
    BY <1>2
  <2> QED BY ONLY <2>1, <2>2, <2>3, <2>4, <1>17 DEF UnseenInv, HeaderOf, Rec, Fits, OffsetOf
<1> QED BY <1>4, <1>5, <1>6, <1>18, <1>19 DEF HostAt

\* The ring and what is not visible yet, as far as neither changes, when the credit grows or the
\* reader has read a header that is visible.
LEMMA KeepsRing ==
  ASSUME NEW P \in NatSeqs, NEW K \in NatSeqs, Layout(P, K), AnnounceInv, RingInv(P, K), UnseenInv(P, K),
         credit \in Nat, credit' \in Nat, credit <= credit',
         ring' = ring, unseen' = unseen, sequence' = sequence, Arrived' = Arrived, step' = step,
         HeaderGone' <=> HeaderGone,
         \/ readSequence' = readSequence
         \/ readSequence' = readSequence + 1 /\ ~Hidden(readSequence)
  PROVE  RingInv(P, K)' /\ UnseenInv(P, K)'
<1>1. /\ sequence \in Nat /\ readSequence \in Nat /\ Arrived \in Nat /\ Arrived <= sequence /\ RingLen \in Nat
      /\ \A q \in 0 .. sequence : P[q] \in Nat
  BY Announced, Order, Sizes DEF Layout
<1>2. /\ \A q : Carried(q)' <=> Carried(q)
      /\ \A q : MayBeCarried(q)' <=> MayBeCarried(q)
      /\ \A q : Hidden(q)' <=> Hidden(q)
  BY DEF Carried, MayBeCarried, Hidden
<1>3. ASSUME NEW q \in 0 .. sequence
      PROVE  /\ credit' <= P[q] => credit <= P[q]
             /\ P[q] < credit + RingLen => P[q] < credit' + RingLen
  <2>1. \A a, b, r, x \in Nat : a <= b => (b <= x => a <= x) /\ (x < a + r => x < b + r)
    OBVIOUS
  <2> QED BY <2>1, <1>1
<1>4. RingInv(P, K)'
  <2>1. ASSUME NEW q \in 0 .. sequence, Carried(q)', credit' <= P[q]
        PROVE  ring[OffsetOf(P[q])] = HeaderOf(P, K, q) \/ Hidden(q)'
    BY <2>1, <1>2, <1>3 DEF RingInv, Visible
  <2>2. ASSUME NEW q \in 0 .. (Arrived - 1), credit' <= P[q], NEW i \in 1 .. Units(P, K, q)
        PROVE  ring[OffsetOf(P[q]) + i] = DataOf(P, K, q, i)
    <3>1. q \in 0 .. sequence
      BY <1>1
    <3> QED BY <2>2, <3>1, <1>3 DEF RingInv
  <2>3. ASSUME NEW u \in DOMAIN ring, "kind" \in DOMAIN ring[u]
        PROVE  \/ ring[u] = NoHeader
               \/ \E q \in 0 .. sequence : ring[u] = HeaderOf(P, K, q) /\ MayBeCarried(q)' /\ ~Hidden(q)'
    BY <2>3, <1>2 DEF RingInv
  <2>4. DOMAIN ring = 0 .. RingLen - 1
    BY DEF RingInv
  <2> QED BY <2>1, <2>2, <2>3, <2>4 DEF RingInv, Visible, HeaderOf, DataOf, Units, Rec, Fits, OffsetOf
<1>5. UnseenInv(P, K)'
  <2>1. ASSUME NEW i \in 1 .. Len(unseen)
        PROVE  \E q \in readSequence' .. sequence :
                 /\ unseen[i] = [at |-> OffsetOf(P[q]), what |-> HeaderOf(P, K, q)]
                 /\ MayBeCarried(q)' /\ P[q] < credit' + RingLen
    <3>1. PICK q \in readSequence .. sequence :
                 /\ unseen[i] = [at |-> OffsetOf(P[q]), what |-> HeaderOf(P, K, q)]
                 /\ MayBeCarried(q) /\ P[q] < credit + RingLen
      BY DEF UnseenInv
    <3>2. q \in 0 .. sequence
      BY <1>1
    <3>3. q \in readSequence' .. sequence
      <4>1. CASE readSequence' = readSequence + 1 /\ ~Hidden(readSequence)
        <5>1. unseen[i].what.seq = q
          BY <3>1 DEF HeaderOf
        <5>2. q # readSequence
          BY <5>1, <4>1 DEF Hidden
        <5> QED BY <5>2, <4>1, <1>1
      <4> QED BY <4>1
    <3>4. MayBeCarried(q)' /\ P[q] < credit' + RingLen
      BY <3>1, <3>2, <1>2, <1>3
    <3> QED BY <3>1, <3>3, <3>4
  <2>2. /\ unseen \in Seq([at : Nat, what : Headers])
        /\ \A i, j \in 1 .. Len(unseen) : unseen[i].what.seq = unseen[j].what.seq => i = j
    BY DEF UnseenInv
  <2> QED BY <2>1, <2>2 DEF UnseenInv, HeaderOf, Rec, Fits, OffsetOf
<1> QED BY <1>4, <1>5

\* The credit arrives at the sender.
LEMMA DeliverCreditStep ==
  ASSUME NEW P \in NatSeqs, NEW K \in NatSeqs, HostAt(P, K), DeliverCredit
  PROVE  HostAt(P, K)'
<1>1. Layout(P, K) /\ SenderInv(P, K) /\ WireInv(P, K) /\ TableInv(P, K) /\ AnnounceInv
      /\ RingInv(P, K) /\ UnseenInv(P, K) /\ ReaderInv(P, K) /\ KernelInv(P, K) /\ CreditInv(P, K)
      /\ sequence \in Nat
  BY Parts
<1>2. /\ sq # <<>> /\ sq' = Tail(sq) /\ credit' = Head(sq).value
      /\ UNCHANGED senderState /\ UNCHANGED announceState /\ UNCHANGED readerState
      /\ ring' = ring /\ unseen' = unseen /\ pending' = pending /\ safe' = safe /\ credited' = credited
      /\ step' = step /\ sequence' = sequence /\ readSequence' = readSequence
  BY DEF DeliverCredit, CompleteWrite, senderState, announceState, senderVars, readerVars, readerState,
         recvVars
<1>3. /\ sq \in Seq([value : Nat, covers : Nat])
      /\ \A i \in 1 .. Len(sq) : credit <= sq[i].value /\ sq[i].value <= credited
      /\ \A i, j \in 1 .. Len(sq) : i < j => sq[i].value <= sq[j].value
      /\ credited \in Nat /\ credit \in Nat /\ credited <= safe /\ Safe \in Nat
      /\ pending \in Seq([position : Nat, event : Nat]) /\ safe = P[Safe]
      /\ \A i \in 1 .. Len(pending) :
           pending[i] = [position |-> P[Safe + i],
                         event |-> IF Rec(P, K, Safe + i - 1).kind = "image" THEN K[Safe + i - 1] ELSE 0]
  BY <1>1 DEF CreditInv
<1>4. /\ Len(sq) \in Nat \ {0} /\ Head(sq) = sq[1] /\ Head(sq) \in [value : Nat, covers : Nat]
      /\ sq' \in Seq([value : Nat, covers : Nat]) /\ Len(sq') = Len(sq) - 1
      /\ \A i \in 1 .. Len(sq') : sq'[i] = sq[i + 1] /\ i + 1 \in 1 .. Len(sq)
  BY <1>2, <1>3, First
<1>5. /\ 1 \in 1 .. Len(sq) /\ credit' = sq[1].value /\ credit' \in Nat
      /\ credit <= credit' /\ credit' <= credited
  <2>1. 1 \in 1 .. Len(sq)
    BY <1>4
  <2>2. credit' = sq[1].value /\ credit' \in Nat
    BY <1>2, <1>4
  <2> QED BY <2>1, <2>2, <1>3
<1>6. CreditInv(P, K)'
  <2>1. \A i \in 1 .. Len(sq') : credit' <= sq'[i].value /\ sq'[i].value <= credited
    <3> SUFFICES ASSUME NEW i \in 1 .. Len(sq')
                 PROVE  credit' <= sq'[i].value /\ sq'[i].value <= credited
      OBVIOUS
    <3>1. i + 1 \in 1 .. Len(sq) /\ sq'[i] = sq[i + 1]
      BY <1>4
    <3>2. i \in Nat /\ i >= 1 /\ 1 < i + 1
      OBVIOUS
    <3>3. sq[1].value <= sq[i + 1].value
      BY <3>1, <3>2, <1>3, <1>5
    <3> QED BY <3>1, <3>3, <1>3, <1>5
  <2>2. \A i, j \in 1 .. Len(sq') : i < j => sq'[i].value <= sq'[j].value
    <3> SUFFICES ASSUME NEW i \in 1 .. Len(sq'), NEW j \in 1 .. Len(sq'), i < j
                 PROVE  sq'[i].value <= sq'[j].value
      OBVIOUS
    <3>1. i + 1 < j + 1 /\ i + 1 \in 1 .. Len(sq) /\ j + 1 \in 1 .. Len(sq)
          /\ sq'[i] = sq[i + 1] /\ sq'[j] = sq[j + 1]
      BY <1>4
    <3> QED BY <3>1, <1>3
  <2>3. Safe' = Safe
    BY <1>2 DEF Safe
  <2> QED BY <1>2, <1>3, <1>4, <1>5, <2>1, <2>2, <2>3 DEF CreditInv, Rec, Fits, OffsetOf
<1>7. Layout(P, K)' /\ SenderInv(P, K)' /\ WireInv(P, K)' /\ TableInv(P, K)'
  BY <1>1, <1>2, <1>3, <1>5, LeavesSender
<1>8. AnnounceInv' /\ Arrived' = Arrived /\ (HeaderGone' <=> HeaderGone)
  BY <1>1, <1>2, LeavesAnnouncements
<1>9. RingInv(P, K)' /\ UnseenInv(P, K)'
  BY <1>1, <1>2, <1>3, <1>5, <1>8, KeepsRing
<1>10. ReaderInv(P, K)' /\ KernelInv(P, K)'
  BY <1>1, <1>2, LeavesFrames
<1> QED BY <1>6, <1>7, <1>8, <1>9, <1>10 DEF HostAt

-----------------------------------------------------------------------------
(* The reader.                                                              *)

\* The reader takes the announcements that have arrived.
LEMMA TakeImmsStep ==
  ASSUME NEW P \in NatSeqs, NEW K \in NatSeqs, HostAt(P, K), TakeImms
  PROVE  HostAt(P, K)'
<1>1. Layout(P, K) /\ SenderInv(P, K) /\ WireInv(P, K) /\ TableInv(P, K) /\ AnnounceInv
      /\ RingInv(P, K) /\ UnseenInv(P, K) /\ ReaderInv(P, K) /\ KernelInv(P, K) /\ CreditInv(P, K)
      /\ sequence \in Nat
  BY Parts
<1>2. /\ rpc = "poll" /\ rpc' = "next" /\ imms' = Polled(RecvDepth) /\ recvCq' = Unpolled(RecvDepth)
      /\ sq' = sq /\ UNCHANGED senderState /\ credit' = credit /\ ring' = ring /\ unseen' = unseen
      /\ UNCHANGED <<readPosition, readSequence, received, kernels>>
      /\ UNCHANGED creditState /\ step' = step /\ sequence' = sequence /\ wire' = wire
      /\ readSequence' = readSequence /\ pending' = pending
  BY DEF TakeImms, PollSend, PollRecv, senderState, senderVars, creditState
<1> DEFINE k == Smaller(RecvDepth, Len(recvCq))
           n == Len(recvCq)
<1>3. /\ imms = <<>> /\ Len(imms) = 0
  BY <1>1, <1>2 DEF ReaderInv
<1>4. /\ recvCq \in Seq(Nat) /\ n \in Nat /\ readSequence \in Nat /\ k \in 0 .. n /\ k \in Nat
      /\ \A i \in 1 .. n : recvCq[i] = (readSequence + i - 1) % ImmMod
      /\ Arrived = readSequence + n /\ Arrived <= sequence
      /\ step # "closed" => Arrived = IF wire = <<>> THEN sequence ELSE Head(wire).tag
  <2>1. /\ recvCq \in Seq(Nat) /\ readSequence \in Nat /\ Arrived <= sequence
        /\ \A i \in 1 .. Len(recvCq) : recvCq[i] = (readSequence + Len(imms) + i - 1) % ImmMod
        /\ step # "closed" => Arrived = IF wire = <<>> THEN sequence ELSE Head(wire).tag
    BY <1>1 DEF AnnounceInv
  <2>2. n \in Nat
    BY <2>1, LenProperties
  <2>3. k \in 0 .. n /\ k \in Nat
    BY <2>2, Sizes DEF Smaller
  <2>4. Arrived = readSequence + n
    BY <2>1, <2>2, <1>3 DEF Arrived
  <2>5. ASSUME NEW i \in 1 .. n PROVE recvCq[i] = (readSequence + i - 1) % ImmMod
    <3>1. recvCq[i] = (readSequence + 0 + i - 1) % ImmMod
      BY <2>1, <1>3
    <3>2. readSequence + 0 + i - 1 = readSequence + i - 1
      BY <2>1, <2>2
    <3> QED BY <3>1, <3>2
  <2> QED BY <2>1, <2>2, <2>3, <2>4, <2>5
<1>5. /\ imms' = SubSeq(recvCq, 1, k) /\ recvCq' = SubSeq(recvCq, k + 1, n)
  BY <1>2 DEF Polled, Unpolled
<1> HIDE DEF k, n
<1>6. /\ imms' \in Seq(Nat) /\ Len(imms') = k /\ \A i \in 1 .. k : imms'[i] = recvCq[i] /\ i \in 1 .. n
  <2>1. \A i \in 1 .. k : i \in 1 .. n
    BY <1>4
  <2>2. \A i \in 1 .. k : recvCq[i] \in Nat
    BY <2>1, <1>4 DEF n
  <2> QED BY <1>4, <1>5, <2>1, <2>2, SubSeqProperties
<1>7. /\ recvCq' \in Seq(Nat) /\ Len(recvCq') = n - k
      /\ \A i \in 1 .. (n - k) : recvCq'[i] = recvCq[k + i] /\ k + i \in 1 .. n
  <2>1. \A i \in (k + 1) .. n : recvCq[i] \in Nat
    BY <1>4 DEF n
  <2>2. /\ recvCq' \in Seq(Nat) /\ Len(recvCq') = n - k
    BY <1>4, <1>5, <2>1, SubSeqProperties
  <2>3. \A i \in 1 .. (n - k) : recvCq'[i] = recvCq[k + i] /\ k + i \in 1 .. n
    <3> SUFFICES ASSUME NEW i \in 1 .. (n - k)
                 PROVE  recvCq'[i] = recvCq[k + i] /\ k + i \in 1 .. n
      OBVIOUS
    <3>1. recvCq'[i] = recvCq[k + 1 + i - 1]
      BY <1>4, <1>5, <2>1, <2>2, SubSeqProperties
    <3>2. k + 1 + i - 1 = k + i /\ k + i \in 1 .. n
      BY <1>4
    <3> QED BY <3>1, <3>2
  <2> QED BY <2>2, <2>3
<1>8. AnnounceInv'
  <2>1. Arrived' = Arrived
    <3>1. Arrived' = readSequence + k + (n - k)
      BY <1>2, <1>6, <1>7 DEF Arrived
    <3> QED BY <3>1, <1>4
  <2>2. \A i \in 1 .. k : imms'[i] = (readSequence + i - 1) % ImmMod
    BY <1>4, <1>6
  <2>3. \A i \in 1 .. (n - k) : recvCq'[i] = (readSequence + k + i - 1) % ImmMod
    <3> SUFFICES ASSUME NEW i \in 1 .. (n - k)
                 PROVE  recvCq'[i] = (readSequence + k + i - 1) % ImmMod
      OBVIOUS
    <3>1. recvCq'[i] = (readSequence + (k + i) - 1) % ImmMod
      BY <1>4, <1>7
    <3>2. readSequence + (k + i) - 1 = readSequence + k + i - 1
      BY <1>4
    <3> QED BY <3>1, <3>2
  <2> QED BY <2>1, <2>2, <2>3, <1>2, <1>4, <1>6, <1>7 DEF AnnounceInv
<1>9. Arrived' = Arrived /\ (HeaderGone' <=> HeaderGone)
  <2>1. Arrived' = readSequence + k + (n - k)
    BY <1>2, <1>6, <1>7 DEF Arrived
  <2>2. Arrived' = Arrived
    BY <2>1, <1>4
  <2> QED BY <2>2, <1>2 DEF HeaderGone
<1>10. credit \in Nat /\ credit <= credit' /\ credit' \in Nat
  <2>1. credit \in Nat
    BY <1>1 DEF CreditInv
  <2> QED BY <2>1, <1>2
<1>11. Layout(P, K)' /\ SenderInv(P, K)' /\ WireInv(P, K)' /\ TableInv(P, K)'
  BY <1>1, <1>2, <1>10, LeavesSender
<1>12. RingInv(P, K)' /\ UnseenInv(P, K)'
  BY <1>1, <1>2, <1>9, <1>10, KeepsRing
<1>13. ReaderInv(P, K)'
  BY <1>1, <1>2, LeavesReceived
<1>14. KernelInv(P, K)' /\ CreditInv(P, K)'
  <2>1. Safe' = Safe
    BY <1>2 DEF Safe
  <2>2. KernelInv(P, K)'
    BY <2>1, <1>1, <1>2, LeavesKernels
  <2>3. CreditInv(P, K)'
    BY <2>1, <1>1, <1>2 DEF CreditInv, creditState, Rec, Fits, OffsetOf
  <2> QED BY <2>2, <2>3
<1> QED BY <1>8, <1>11, <1>12, <1>13, <1>14 DEF HostAt

\* The header the reader looks for, once it is visible, is the one it expects.
LEMMA Expected ==
  ASSUME NEW P \in NatSeqs, NEW K \in NatSeqs, HostAt(P, K), imms # <<>>
  PROVE  /\ readSequence + 1 \in 0 .. sequence /\ readSequence \in 0 .. (Arrived - 1)
         /\ readSequence \in 0 .. sequence /\ readSequence \in Nat
         /\ K[readSequence] >= 1 /\ K[readSequence] \in Nat /\ P[readSequence] \in Nat
         /\ credit <= P[readSequence] /\ Carried(readSequence) /\ InOrder
         /\ ReadOffset = OffsetOf(P[readSequence])
         /\ Visible(P, K, readSequence) => Matches /\ FitsRing
         /\ Matches => Found = HeaderOf(P, K, readSequence) /\ ~Hidden(readSequence)
<1> DEFINE r == readSequence
<1>1. Layout(P, K) /\ SenderInv(P, K) /\ WireInv(P, K) /\ TableInv(P, K) /\ AnnounceInv
      /\ RingInv(P, K) /\ UnseenInv(P, K) /\ ReaderInv(P, K) /\ KernelInv(P, K) /\ CreditInv(P, K)
      /\ sequence \in Nat
  BY Parts
<1>2. /\ imms \in Seq(Nat) /\ Len(imms) \in Nat \ {0} /\ Head(imms) = imms[1] /\ 1 \in 1 .. Len(imms)
  <2>1. imms \in Seq(Nat)
    BY <1>1 DEF AnnounceInv
  <2>2. Len(imms) \in Nat \ {0} /\ Head(imms) = imms[1]
    BY <2>1, First
  <2> QED BY <2>1, <2>2
<1>3. /\ r \in Nat /\ r + Len(imms) <= Arrived /\ Arrived <= sequence /\ Arrived \in Nat
  BY <1>1, Announced
<1>4. r + 1 \in 0 .. sequence /\ r \in 0 .. (Arrived - 1) /\ r \in 0 .. sequence
  BY <1>1, <1>2, <1>3
<1>5. K[r] >= 1 /\ K[r] \in Nat /\ P[r] \in Nat
  BY <1>1, <1>4, Order
<1>6. credit <= P[r]
  <2>1. Safe <= r /\ Safe \in Nat /\ \A q \in Safe .. sequence : credit <= P[q]
    BY <1>1, CreditBehind
  <2>2. r \in Safe .. sequence
    BY <2>1, <1>3, <1>4
  <2> QED BY <2>1, <2>2
<1>7. Carried(r)
  BY <1>3, <1>4 DEF Carried
<1>8. InOrder
  <2>1. imms[1] = (readSequence + 1 - 1) % ImmMod
    BY <1>1, <1>2 DEF AnnounceInv
  <2>2. readSequence + 1 - 1 = readSequence
    BY <1>3
  <2> QED BY <2>1, <2>2, <1>2 DEF InOrder
<1>9. ReadOffset = OffsetOf(P[r]) /\ readPosition = P[r]
  BY <1>1 DEF ReaderInv, ReadOffset, OffsetOf
<1>10. /\ HeaderOf(P, K, r).seq = r /\ HeaderOf(P, K, r).at = P[r]
       /\ HeaderOf(P, K, r).kind # "none" /\ "kind" \in DOMAIN HeaderOf(P, K, r)
       /\ HeaderOf(P, K, r).kind = Rec(P, K, r).kind /\ HeaderOf(P, K, r).count = Rec(P, K, r).count
  BY <1>3, <1>5, HeaderTyped
<1>11. Visible(P, K, r) => Matches /\ FitsRing
  <2> SUFFICES ASSUME Visible(P, K, r) PROVE Matches /\ FitsRing
    OBVIOUS
  <2>1. Found = HeaderOf(P, K, r)
    BY <1>9 DEF Found, Visible
  <2>2. Matches
    BY <2>1, <1>9, <1>10 DEF Matches
  <2>3. FitsRing
    <3>1. CASE Fits(P, K, r)
      <4>1. OffsetOf(P[r]) + 1 + Units(P, K, r) <= RingLen /\ Units(P, K, r) \in Nat
            /\ OffsetOf(P[r]) \in 0 .. (RingLen - 1)
        BY <3>1, <1>3, <1>5, HeaderFacts
      <4>2. Span(Found) = 1 + Units(P, K, r)
        BY <2>1, <1>10 DEF Span, DataUnits, Units
      <4>3. OffsetOf(P[r]) + (1 + Units(P, K, r)) <= RingLen
        <5>1. \A a, b \in Nat : a + (1 + b) = a + 1 + b
          OBVIOUS
        <5>2. OffsetOf(P[r]) \in Nat
          BY <4>1, Sizes
        <5> QED BY <4>1, <5>1, <5>2
      <4> QED BY <4>2, <4>3, <1>9 DEF FitsRing
    <3>2. CASE ~Fits(P, K, r)
      <4>1. Rec(P, K, r).kind = "wrap"
        BY <3>2, <1>3, <1>5, HeaderFacts
      <4> QED BY <4>1, <2>1, <1>10 DEF FitsRing
    <3> QED BY <3>1, <3>2
  <2> QED BY <2>2, <2>3
<1>12. Matches => Found = HeaderOf(P, K, r) /\ ~Hidden(r)
  <2> SUFFICES ASSUME Matches PROVE Found = HeaderOf(P, K, r) /\ ~Hidden(r)
    OBVIOUS
  <2>1. "kind" \in DOMAIN Found /\ Found.kind # "none" /\ Found.seq = r
    BY DEF Matches
  <2>2. ReadOffset \in DOMAIN ring
    <3>1. OffsetOf(P[r]) \in 0 .. (RingLen - 1)
      BY <1>5, OffsetRange
    <3> QED BY <3>1, <1>1, <1>9 DEF RingInv
  <2>3. PICK q \in 0 .. sequence : Found = HeaderOf(P, K, q) /\ ~Hidden(q)
    <3>1. Found # NoHeader
      BY <2>1 DEF NoHeader
    <3> QED BY <2>1, <2>2, <3>1, <1>1 DEF RingInv, Found
  <2>4. q = r
    BY <2>1, <2>3 DEF HeaderOf
  <2> QED BY <2>3, <2>4
<1> QED BY <1>3, <1>4, <1>5, <1>6, <1>7, <1>8, <1>9, <1>11, <1>12

\* A conforming sender is refused only for a header that stays invisible.
LEMMA NextFailsStep ==
  ASSUME NEW P \in NatSeqs, NEW K \in NatSeqs, HostAt(P, K), NextFails
  PROVE  HostAt(P, K)'
<1>1. Layout(P, K) /\ SenderInv(P, K) /\ WireInv(P, K) /\ TableInv(P, K) /\ AnnounceInv
      /\ RingInv(P, K) /\ UnseenInv(P, K) /\ ReaderInv(P, K) /\ KernelInv(P, K) /\ CreditInv(P, K)
      /\ sequence \in Nat
  BY Parts
<1>2. /\ imms # <<>> /\ ~(InOrder /\ Matches /\ FitsRing) /\ expired' = (InOrder /\ unseen # <<>>)
      /\ rpc' = "failed" /\ UNCHANGED senderState /\ UNCHANGED announceState /\ UNCHANGED creditState
      /\ UNCHANGED <<readPosition, readSequence, received, kernels>>
      /\ credit' = credit /\ ring' = ring /\ unseen' = unseen /\ step' = step /\ sequence' = sequence
      /\ readSequence' = readSequence /\ pending' = pending
  BY DEF NextFails, senderState, announceState, senderVars, creditState, qpVars, sendVars, recvVars
<1>3. expired'
  <2>1. /\ InOrder /\ Carried(readSequence) /\ credit <= P[readSequence] /\ readSequence \in 0 .. sequence
        /\ Visible(P, K, readSequence) => Matches /\ FitsRing
    BY <1>2, Expected
  <2>2. Hidden(readSequence)
    BY <2>1, <1>1, <1>2 DEF RingInv
  <2>3. unseen # <<>>
    BY <2>2 DEF Hidden
  <2> QED BY <2>1, <2>3, <1>2
<1>4. credit \in Nat /\ credit <= credit' /\ credit' \in Nat
  <2>1. credit \in Nat
    BY <1>1 DEF CreditInv
  <2> QED BY <2>1, <1>2
<1>5. Layout(P, K)' /\ SenderInv(P, K)' /\ WireInv(P, K)' /\ TableInv(P, K)'
  BY <1>1, <1>2, <1>4, LeavesSender
<1>6. AnnounceInv' /\ Arrived' = Arrived /\ (HeaderGone' <=> HeaderGone)
  BY <1>1, <1>2, LeavesAnnouncements
<1>7. RingInv(P, K)' /\ UnseenInv(P, K)'
  BY <1>1, <1>2, <1>4, <1>6, KeepsRing
<1>8. ReaderInv(P, K)'
  BY <1>1, <1>2, <1>3, LeavesReceived
<1>9. KernelInv(P, K)' /\ CreditInv(P, K)'
  <2>1. Safe' = Safe
    BY <1>2 DEF Safe
  <2>2. KernelInv(P, K)'
    BY <2>1, <1>1, <1>2, LeavesKernels
  <2>3. CreditInv(P, K)'
    BY <2>1, <1>1, <1>2 DEF CreditInv, creditState, Rec, Fits, OffsetOf
  <2> QED BY <2>2, <2>3
<1> QED BY <1>5, <1>6, <1>7, <1>8, <1>9 DEF HostAt

\* What is safe goes to the sender.
LEMMA WriteCreditStep ==
  ASSUME NEW P \in NatSeqs, NEW K \in NatSeqs, HostAt(P, K), WriteCredit, since \in Nat
  PROVE  HostAt(P, K)'
<1>1. Layout(P, K) /\ SenderInv(P, K) /\ WireInv(P, K) /\ TableInv(P, K) /\ AnnounceInv
      /\ RingInv(P, K) /\ UnseenInv(P, K) /\ ReaderInv(P, K) /\ KernelInv(P, K) /\ CreditInv(P, K)
      /\ sequence \in Nat
  BY Parts
<1>2. /\ rpc = "credit" /\ rpc' = "poll" /\ UNCHANGED senderState
      /\ UNCHANGED <<readPosition, readSequence, received, kernels>>
      /\ credit' = credit /\ ring' = ring /\ unseen' = unseen /\ step' = step /\ sequence' = sequence
      /\ readSequence' = readSequence /\ pending' = pending /\ safe' = safe /\ imms' = imms
  BY DEF WriteCredit, senderState, senderVars
<1>3. \/ sq' = sq /\ credited' = credited /\ recvCq' = recvCq
      \/ \E c \in {since + 1, 0} : sq' = Append(sq, [value |-> safe, covers |-> c])
         /\ credited' = safe /\ recvCq' = recvCq
  <2>1. CASE safe = credited \/ Full
    BY <2>1 DEF WriteCredit, qpVars, sendVars, recvVars
  <2>2. CASE ~(safe = credited \/ Full)
    BY <2>2 DEF WriteCredit, PostWrite, recvVars
  <2> QED BY <2>1, <2>2
<1>4. UNCHANGED announceState
  BY <1>2, <1>3 DEF announceState
<1>5. imms = <<>>
  BY <1>1, <1>2 DEF ReaderInv
<1>6. credit \in Nat /\ credit <= credit' /\ credit' \in Nat
  <2>1. credit \in Nat
    BY <1>1 DEF CreditInv
  <2> QED BY <2>1, <1>2
<1>7. Layout(P, K)' /\ SenderInv(P, K)' /\ WireInv(P, K)' /\ TableInv(P, K)'
  BY <1>1, <1>2, <1>6, LeavesSender
<1>8. AnnounceInv' /\ Arrived' = Arrived /\ (HeaderGone' <=> HeaderGone)
  BY <1>1, <1>2, <1>4, LeavesAnnouncements
<1>9. RingInv(P, K)' /\ UnseenInv(P, K)'
  BY <1>1, <1>2, <1>6, <1>8, KeepsRing
<1>10. ReaderInv(P, K)'
  BY <1>1, <1>2, <1>5, LeavesReceived
<1>11. Safe' = Safe
  BY <1>2 DEF Safe
<1>12. KernelInv(P, K)'
  BY <1>1, <1>2, <1>11, LeavesKernels
<1>13. CreditInv(P, K)'
  <2>1. CASE sq' = sq /\ credited' = credited
    BY <2>1, <1>1, <1>2, <1>11 DEF CreditInv, Rec, Fits, OffsetOf
  <2>2. ASSUME NEW c \in {since + 1, 0}, sq' = Append(sq, [value |-> safe, covers |-> c]), credited' = safe
        PROVE  CreditInv(P, K)'
    <3> DEFINE e == [value |-> safe, covers |-> c]
               m == Len(sq)
    <3>1. /\ sq \in Seq([value : Nat, covers : Nat])
          /\ \A i \in 1 .. m : credit <= sq[i].value /\ sq[i].value <= credited
          /\ \A i, j \in 1 .. m : i < j => sq[i].value <= sq[j].value
          /\ credited \in Nat /\ credit <= credited /\ credited <= safe /\ Safe \in Nat /\ safe = P[Safe]
          /\ pending \in Seq([position : Nat, event : Nat])
          /\ \A i \in 1 .. Len(pending) :
               pending[i] = [position |-> P[Safe + i],
                             event |-> IF Rec(P, K, Safe + i - 1).kind = "image" THEN K[Safe + i - 1] ELSE 0]
      BY <1>1 DEF CreditInv
    <3>2. safe \in Nat /\ c \in Nat /\ e \in [value : Nat, covers : Nat] /\ e.value = safe
      <4>1. safe \in Nat
        BY <3>1, NatSeqsNat
      <4> QED BY <4>1
    <3>3. /\ m \in Nat /\ sq' \in Seq([value : Nat, covers : Nat])
          /\ sq'[m + 1] = e /\ \A i \in 1 .. m : sq'[i] = sq[i]
          /\ \A i \in 1 .. Len(sq') : i \in 1 .. m \/ i = m + 1
      BY <2>2, <3>1, <3>2, Grown
    <3> HIDE DEF e, m
    <3>4. \A i \in 1 .. m : sq[i].value \in Nat
      <4>1. \A i \in 1 .. Len(sq) : sq[i] \in [value : Nat, covers : Nat]
        BY <3>1, ElementOfSeq
      <4> QED BY <4>1 DEF m
    <3>5. ASSUME NEW i \in 1 .. Len(sq') PROVE credit <= sq'[i].value /\ sq'[i].value <= safe
      <4>1. CASE i \in 1 .. m
        <5>1. sq'[i] = sq[i] /\ credit <= sq[i].value /\ sq[i].value <= credited /\ sq[i].value \in Nat
          BY <4>1, <3>1, <3>3, <3>4
        <5>2. sq[i].value <= safe
          BY <5>1, <3>1, <3>2
        <5> QED BY <5>1, <5>2
      <4>2. CASE i = m + 1
        <5>1. credit <= safe /\ safe <= safe
          BY <1>6, <3>1, <3>2
        <5> QED BY <4>2, <5>1, <3>2, <3>3
      <4> QED BY <4>1, <4>2, <3>3
    <3>6. ASSUME NEW i \in 1 .. Len(sq'), NEW j \in 1 .. Len(sq'), i < j
          PROVE  sq'[i].value <= sq'[j].value
      <4>1. CASE j \in 1 .. m
        <5>1. i \in 1 .. m
          BY <4>1, <3>3, <3>6
        <5> QED BY <4>1, <5>1, <3>1, <3>3, <3>6
      <4>2. CASE j = m + 1
        BY <4>2, <3>2, <3>3, <3>5
      <4> QED BY <4>1, <4>2, <3>3
    <3>7. safe <= safe /\ credit <= safe
      BY <1>6, <3>1, <3>2
    <3> QED BY <1>2, <1>6, <1>11, <2>2, <3>1, <3>2, <3>3, <3>5, <3>6, <3>7 DEF CreditInv, Rec, Fits, OffsetOf
  <2> QED BY <2>1, <2>2, <1>3
<1> QED BY <1>7, <1>8, <1>9, <1>10, <1>12, <1>13 DEF HostAt

\* The next frame, or a wrap marker, is that of the record the reader stands at.
LEMMA NextFrameStep ==
  ASSUME NEW P \in NatSeqs, NEW K \in NatSeqs, HostAt(P, K), NextFrame
  PROVE  HostAt(P, K)'
<1>1. Layout(P, K) /\ SenderInv(P, K) /\ WireInv(P, K) /\ TableInv(P, K) /\ AnnounceInv
      /\ RingInv(P, K) /\ UnseenInv(P, K) /\ ReaderInv(P, K) /\ KernelInv(P, K) /\ CreditInv(P, K)
      /\ sequence \in Nat
  BY Parts
<1>2. PICK r, h, n : r = readSequence /\ h = Found /\ n = Len(received) + 1
  OBVIOUS
<1>3. /\ rpc = "next" /\ rpc' = "next" /\ imms # <<>> /\ Matches /\ imms' = Tail(imms)
      /\ UNCHANGED senderState /\ recvCq' = recvCq /\ sq' = sq
      /\ credit' = credit /\ ring' = ring /\ unseen' = unseen /\ step' = step /\ sequence' = sequence
      /\ wire' = wire /\ safe' = safe /\ credited' = credited
      /\ readSequence' = r + 1
  BY <1>2 DEF NextFrame, senderState, senderVars, qpVars, sendVars, recvVars
<1>4. /\ r + 1 \in 0 .. sequence /\ r \in 0 .. (Arrived - 1)
      /\ r \in 0 .. sequence /\ r \in Nat
      /\ K[r] >= 1 /\ K[r] \in Nat /\ P[r] \in Nat /\ credit <= P[r]
      /\ ReadOffset = OffsetOf(P[r])
      /\ h = HeaderOf(P, K, r) /\ ~Hidden(r)
  BY <1>2, <1>3, Expected
<1>5. /\ P[r + 1] = After(P, K, r) /\ K[r + 1] = IF Fits(P, K, r) THEN K[r] + 1 ELSE K[r]
      /\ readPosition = P[r] /\ K[r] = n
  <2>1. r \in 0 .. (sequence - 1)
    BY <1>1, <1>4
  <2>2. P[r + 1] = After(P, K, r) /\ K[r + 1] = IF Fits(P, K, r) THEN K[r] + 1 ELSE K[r]
    BY <2>1, <1>1 DEF Layout
  <2> QED BY <2>2, <1>1, <1>2 DEF ReaderInv
<1>6. /\ h.kind = Rec(P, K, r).kind /\ h.first = Rec(P, K, r).first /\ h.count = Rec(P, K, r).count
      /\ h.series = SeriesAt(K[r]) /\ h.seq = r /\ h \in Headers
      /\ DataUnits(h) = Units(P, K, r) /\ Span(h) = 1 + Units(P, K, r)
  <2>1. /\ h.kind = Rec(P, K, r).kind /\ h.first = Rec(P, K, r).first /\ h.count = Rec(P, K, r).count
        /\ h.series = SeriesAt(K[r]) /\ h.seq = r /\ h \in Headers
    BY <1>4, HeaderTyped
  <2>2. DataUnits(h) = Units(P, K, r)
    BY <2>1 DEF DataUnits, Units
  <2> QED BY <2>1, <2>2 DEF Span
<1>7. /\ Rec(P, K, r).kind \in {"wrap", "start", "image", "end"} /\ Units(P, K, r) \in Nat
      /\ Rec(P, K, r).kind \in {"start", "end"} => Units(P, K, r) = 1
      /\ Rec(P, K, r).kind = "wrap" <=> ~Fits(P, K, r)
      /\ Fits(P, K, r) => /\ Rec(P, K, r) = RecordAt(K[r])
                          /\ After(P, K, r) = P[r] + 1 + Units(P, K, r)
      /\ ~Fits(P, K, r) => After(P, K, r) = P[r] + (RingLen - OffsetOf(P[r]))
      /\ SeriesAt(K[r]) \in Nat /\ OffsetOf(P[r]) \in 0 .. (RingLen - 1)
      /\ After(P, K, r) \in Nat /\ Rec(P, K, r).first \in Nat /\ Rec(P, K, r).count \in Nat
  BY <1>4, HeaderFacts
<1> DEFINE units == OffsetOf(P[r]) + 1 .. OffsetOf(P[r]) + Units(P, K, r)
           image == h.kind = "image"
<1>8. /\ readPosition' = P[r + 1]
      /\ pending' = Append(pending, [position |-> P[r + 1], event |-> IF image THEN n ELSE 0])
      /\ IF h.kind = "wrap" THEN received' = received /\ kernels' = kernels
         ELSE /\ received' = Append(received, [header |-> h, data |-> IF image THEN {} ELSE {ring[u] : u \in units}])
              /\ kernels' = IF image THEN Append(kernels, [frame |-> n, units |-> units]) ELSE kernels
  <2> DEFINE to == readPosition + (IF h.kind = "wrap" THEN RingLen - ReadOffset ELSE Span(h))
  <2>1. to = P[r + 1]
    <3>1. CASE Fits(P, K, r)
      <4>1. to = P[r] + (1 + Units(P, K, r))
        BY <3>1, <1>5, <1>6, <1>7
      <4> QED BY <4>1, <3>1, <1>4, <1>5, <1>7
    <3>2. CASE ~Fits(P, K, r)
      BY <3>2, <1>4, <1>5, <1>6, <1>7
    <3> QED BY <3>1, <3>2
  <2>2. /\ readPosition' = to
        /\ pending' = Append(pending, [position |-> to, event |-> IF image THEN n ELSE 0])
        /\ IF h.kind = "wrap" THEN received' = received /\ kernels' = kernels
           ELSE /\ received' = Append(received, [header |-> h, data |-> IF image THEN {} ELSE {ring[u] : u \in units}])
                /\ kernels' = IF image THEN Append(kernels, [frame |-> n, units |-> units]) ELSE kernels
    <3>1. ReadOffset + 1 .. ReadOffset + DataUnits(Found) = units /\ Found = h
      BY <1>2, <1>4, <1>6
    <3> HIDE DEF units
    <3> QED BY <3>1, <1>2 DEF NextFrame, Added, Dispatched
  <2> HIDE DEF to, units, image
  <2> QED BY <2>1, <2>2
<1> HIDE DEF units, image
<1>9. AnnounceInv' /\ Arrived' = Arrived /\ (HeaderGone' <=> HeaderGone)
  <2>1. /\ imms \in Seq(Nat) /\ recvCq \in Seq(Nat) /\ readSequence \in Nat /\ Arrived <= sequence
        /\ step # "closed" => Arrived = IF wire = <<>> THEN sequence ELSE Head(wire).tag
        /\ \A i \in 1 .. Len(imms) : imms[i] = (readSequence + i - 1) % ImmMod
        /\ \A i \in 1 .. Len(recvCq) : recvCq[i] = (readSequence + Len(imms) + i - 1) % ImmMod
    BY <1>1 DEF AnnounceInv
  <2> DEFINE m == Len(imms)
             m1 == Len(imms')
             l == Len(recvCq)
  <2>2. /\ m \in Nat \ {0} /\ imms' \in Seq(Nat) /\ m1 = m - 1 /\ l \in Nat
        /\ \A i \in 1 .. m1 : imms'[i] = imms[i + 1] /\ i + 1 \in 1 .. m
    BY <2>1, <1>3, First, LenProperties
  <2>3. Arrived' = Arrived
    <3>1. Arrived' = (r + 1) + m1 + l /\ Arrived = r + m + l
      BY <1>2, <1>3 DEF Arrived
    <3> HIDE DEF m, m1, l
    <3> QED BY <3>1, <2>2, <1>4
  <2>4. ASSUME NEW i \in 1 .. m1 PROVE imms'[i] = ((r + 1) + i - 1) % ImmMod
    <3>1. imms'[i] = (r + (i + 1) - 1) % ImmMod
      BY <2>1, <2>2, <1>2
    <3>2. r + (i + 1) - 1 = (r + 1) + i - 1
      BY <1>4
    <3> QED BY <3>1, <3>2
  <2>5. ASSUME NEW i \in 1 .. l PROVE recvCq[i] = ((r + 1) + m1 + i - 1) % ImmMod
    <3>1. recvCq[i] = (r + m + i - 1) % ImmMod
      BY <2>1, <1>2
    <3>2. r + m + i - 1 = (r + 1) + m1 + i - 1
      <4> HIDE DEF m, m1, l
      <4> QED BY <2>2, <1>4
    <3> QED BY <3>1, <3>2
  <2>6. AnnounceInv'
    BY <2>1, <2>2, <2>3, <2>4, <2>5, <1>3, <1>4 DEF AnnounceInv
  <2> QED BY <2>3, <2>6, <1>3 DEF HeaderGone
<1>10. credit \in Nat /\ credit <= credit' /\ credit' \in Nat
  <2>1. credit \in Nat
    BY <1>1 DEF CreditInv
  <2> QED BY <2>1, <1>3
<1>11. Layout(P, K)' /\ SenderInv(P, K)' /\ WireInv(P, K)' /\ TableInv(P, K)'
  BY <1>1, <1>3, <1>10, LeavesSender
<1>12. RingInv(P, K)' /\ UnseenInv(P, K)'
  BY <1>1, <1>2, <1>3, <1>4, <1>9, <1>10, KeepsRing
<1> DEFINE e == [header |-> h, data |-> IF image THEN {} ELSE {ring[u] : u \in units}]
           k == [frame |-> n, units |-> units]
           p == [position |-> P[r + 1], event |-> IF image THEN n ELSE 0]
<1>13. /\ pending \in Seq([position : Nat, event : Nat]) /\ Len(pending) \in Nat
       /\ p \in [position : Nat, event : Nat] /\ n \in Nat /\ n >= 1
       /\ Safe' = Safe /\ Safe \in Nat /\ Safe = r - Len(pending) /\ Safe <= r
       /\ pending' \in Seq([position : Nat, event : Nat]) /\ Len(pending') = Len(pending) + 1
       /\ pending'[Len(pending) + 1] = p /\ \A i \in 1 .. Len(pending) : pending'[i] = pending[i]
       /\ \A i \in 1 .. Len(pending') : i \in 1 .. Len(pending) \/ i = Len(pending) + 1
  <2>1. /\ pending \in Seq([position : Nat, event : Nat]) /\ Safe \in Nat
    BY <1>1 DEF CreditInv
  <2>2. P[r + 1] \in Nat /\ n \in Nat /\ n >= 1
    BY <1>4, <1>5, NatSeqsNat
  <2>3. p \in [position : Nat, event : Nat]
    BY <2>2
  <2> HIDE DEF p
  <2>4. /\ Len(pending) \in Nat
        /\ pending' \in Seq([position : Nat, event : Nat]) /\ Len(pending') = Len(pending) + 1
        /\ pending'[Len(pending) + 1] = p /\ \A i \in 1 .. Len(pending) : pending'[i] = pending[i]
        /\ \A i \in 1 .. Len(pending') : i \in 1 .. Len(pending) \/ i = Len(pending) + 1
    BY <2>1, <2>3, <1>8, Grown DEF p
  <2>5. Safe = r - Len(pending) /\ Safe' = (r + 1) - Len(pending')
    BY <1>2, <1>3 DEF Safe
  <2>6. Safe' = Safe /\ Safe <= r
    <3> DEFINE l == Len(pending)
               l1 == Len(pending')
    <3>1. l \in Nat /\ l1 = l + 1 /\ Safe = r - l /\ Safe' = (r + 1) - l1 /\ r \in Nat
      BY <2>4, <2>5, <1>4
    <3> HIDE DEF l, l1
    <3> QED BY <3>1
  <2> QED BY <2>1, <2>2, <2>3, <2>4, <2>5, <2>6
<1>14. /\ received \in Seq(Received) /\ Len(received) \in Nat /\ n = Len(received) + 1
       /\ kernels \in Seq([frame : Nat, units : SUBSET Nat]) /\ Len(kernels) \in Nat
       /\ rpc \in {"poll", "next", "credit", "failed"}
       /\ \A i \in 1 .. Len(received) :
            LET f == received[i]
            IN /\ f.header.kind = RecordAt(i).kind /\ f.header.first = RecordAt(i).first
               /\ f.header.count = RecordAt(i).count /\ f.header.series = SeriesAt(i)
               /\ f.data = Meant(f.header) \/ \E j \in 1 .. Len(kernels) : kernels[j].frame = i
  <2>1. received \in Seq(Received) /\ kernels \in Seq([frame : Nat, units : SUBSET Nat])
    BY <1>1 DEF ReaderInv, KernelInv
  <2> QED BY <2>1, <1>1, <1>2, LenProperties DEF ReaderInv
<1>15. k \in [frame : Nat, units : SUBSET Nat] /\ k.frame = n /\ k.units = units
  <2>1. \A a, b \in Nat : a + 1 .. a + b \subseteq Nat
    OBVIOUS
  <2>2. units \subseteq Nat
    <3>1. OffsetOf(P[r]) \in Nat /\ Units(P, K, r) \in Nat
      BY <1>7, Sizes
    <3> QED BY <3>1, <2>1 DEF units
  <2> QED BY <2>2, <1>13
<1>16. h.kind # "wrap" => e \in Received /\ (image \/ e.data = Meant(h))
  <2> SUFFICES ASSUME h.kind # "wrap" PROVE e \in Received /\ (image \/ e.data = Meant(h))
    OBVIOUS
  <2>1. CASE image
    <3>1. e = [header |-> h, data |-> {}]
      BY <2>1
    <3> QED BY <3>1, <2>1, <1>6 DEF Received
  <2>2. CASE ~image
    <3>1. h.kind \in {"start", "end"} /\ Units(P, K, r) = 1 /\ Rec(P, K, r).kind = h.kind
      BY <2>2, <1>6, <1>7 DEF image
    <3>2. units = {OffsetOf(P[r]) + 1}
      <4>1. OffsetOf(P[r]) \in Nat
        BY <1>7, Sizes
      <4> QED BY <3>1, <4>1 DEF units
    <3>3. ring[OffsetOf(P[r]) + 1] = DataOf(P, K, r, 1)
      <4>1. 1 \in 1 .. Units(P, K, r)
        BY <3>1
      <4> QED BY <4>1, <1>1, <1>4 DEF RingInv
    <3>4. DataOf(P, K, r, 1) = [tag |-> r, message |-> <<h.kind, SeriesAt(K[r])>>]
      BY <3>1 DEF DataOf
    <3>5. {ring[u] : u \in units} = {[tag |-> r, message |-> <<h.kind, SeriesAt(K[r])>>]}
      BY <3>2, <3>3, <3>4
    <3>6. Meant(h) = {[tag |-> r, message |-> <<h.kind, SeriesAt(K[r])>>]}
      BY <3>1, <1>6 DEF Meant
    <3>7. [tag |-> r, message |-> <<h.kind, SeriesAt(K[r])>>] \in Messages
      BY <3>1, <1>4, <1>7 DEF Messages
    <3>8. e = [header |-> h, data |-> {ring[u] : u \in units}]
      BY <2>2
    <3>9. Meant(h) \in SUBSET (Pictures \cup Messages)
      BY <3>6, <3>7
    <3>10. e = [header |-> h, data |-> Meant(h)]
      BY <3>5, <3>6, <3>8
    <3> QED BY <3>9, <3>10, <1>6 DEF Received
  <2> QED BY <2>1, <2>2
<1> HIDE DEF e, k, p
<1>17. ASSUME h.kind = "wrap" PROVE ReaderInv(P, K)' /\ KernelInv(P, K)'
  <2>1. received' = received /\ kernels' = kernels /\ K[r + 1] = n /\ ~image
    BY <1>5, <1>6, <1>7, <1>8, <1>17 DEF image
  <2>2. ReaderInv(P, K)'
    <3>1. K[readSequence'] = Len(received') + 1 /\ readPosition' = P[readSequence']
      BY <2>1, <1>2, <1>3, <1>8
    <3>2. rpc' = "next" /\ received' \in Seq(Received) /\ Len(received') = Len(received)
      BY <2>1, <1>3, <1>14
    <3>3. \A i \in 1 .. Len(received') :
            LET f == received'[i]
            IN /\ f.header.kind = RecordAt(i).kind /\ f.header.first = RecordAt(i).first
               /\ f.header.count = RecordAt(i).count /\ f.header.series = SeriesAt(i)
               /\ f.data = Meant(f.header) \/ \E j \in 1 .. Len(kernels') : kernels'[j].frame = i
      BY <2>1, <1>14
    <3> QED BY <3>1, <3>2, <3>3 DEF ReaderInv, RecordAt, SeriesAt, Meant
  <2>3. KernelInv(P, K)'
    <3>1. ASSUME NEW i \in 1 .. Len(kernels)
          PROVE  \E q \in Safe .. r :
                   /\ Rec(P, K, q).kind = "image" /\ received[K[q]].header = HeaderOf(P, K, q)
                   /\ kernels[i] = [frame |-> K[q], units |-> OffsetOf(P[q]) + 1 .. OffsetOf(P[q]) + Units(P, K, q)]
      <4>1. PICK q \in Safe .. (r - 1) :
                   /\ Rec(P, K, q).kind = "image" /\ received[K[q]].header = HeaderOf(P, K, q)
                   /\ kernels[i] = [frame |-> K[q], units |-> OffsetOf(P[q]) + 1 .. OffsetOf(P[q]) + Units(P, K, q)]
        BY <1>1, <1>2 DEF KernelInv
      <4>2. q \in Safe .. r
        BY <1>4, <1>13
      <4> QED BY <4>1, <4>2
    <3>2. Safe' .. (readSequence' - 1) = Safe .. r
      <4>1. readSequence' - 1 = r
        BY <1>3, <1>4
      <4> QED BY <4>1, <1>13
    <3>3. kernels \in Seq([frame : Nat, units : SUBSET Nat])
      BY <1>14
    <3> QED BY <2>1, <3>1, <3>2, <3>3 DEF KernelInv, HeaderOf, Units, Rec, Fits, OffsetOf
  <2> QED BY <2>2, <2>3
<1>18. ASSUME h.kind # "wrap" PROVE ReaderInv(P, K)' /\ KernelInv(P, K)'
  <2>1. /\ Fits(P, K, r) /\ K[r + 1] = n + 1 /\ received' = Append(received, e)
        /\ kernels' = IF image THEN Append(kernels, k) ELSE kernels
        /\ Rec(P, K, r) = RecordAt(n)
    BY <1>5, <1>6, <1>7, <1>8, <1>18 DEF e, k
  <2>2. /\ received' \in Seq(Received) /\ Len(received') = n /\ received'[n] = e
        /\ \A i \in 1 .. Len(received) : received'[i] = received[i]
        /\ \A i \in 1 .. n : i \in 1 .. Len(received) \/ i = n
    BY <2>1, <1>14, <1>16, <1>18, Grown
  <2>3. /\ kernels' \in Seq([frame : Nat, units : SUBSET Nat])
        /\ \A i \in 1 .. Len(kernels) : i \in 1 .. Len(kernels') /\ kernels'[i] = kernels[i]
        /\ \A i \in 1 .. Len(kernels') : i \in 1 .. Len(kernels) \/ (image /\ kernels'[i] = k)
        /\ image => \E i \in 1 .. Len(kernels') : kernels'[i] = k
    <3>1. CASE image
      <4>1. /\ kernels' \in Seq([frame : Nat, units : SUBSET Nat]) /\ Len(kernels') = Len(kernels) + 1
            /\ kernels'[Len(kernels) + 1] = k /\ \A i \in 1 .. Len(kernels) : kernels'[i] = kernels[i]
            /\ \A i \in 1 .. Len(kernels') : i \in 1 .. Len(kernels) \/ i = Len(kernels) + 1
        BY <3>1, <2>1, <1>14, <1>15, Grown
      <4>2. Len(kernels) + 1 \in 1 .. Len(kernels') /\ \A i \in 1 .. Len(kernels) : i \in 1 .. Len(kernels')
        BY <4>1, <1>14
      <4> QED BY <4>1, <4>2, <3>1
    <3>2. CASE ~image
      BY <3>2, <2>1, <1>14
    <3> QED BY <3>1, <3>2
  <2>4. e.header = h
    BY DEF e
  <2>5. ReaderInv(P, K)'
    <3>1. K[readSequence'] = Len(received') + 1 /\ readPosition' = P[readSequence']
      BY <2>1, <2>2, <1>2, <1>3, <1>8
    <3>2. ASSUME NEW i \in 1 .. n
          PROVE  LET f == received'[i]
                 IN /\ f.header.kind = RecordAt(i).kind /\ f.header.first = RecordAt(i).first
                    /\ f.header.count = RecordAt(i).count /\ f.header.series = SeriesAt(i)
                    /\ f.data = Meant(f.header) \/ \E j \in 1 .. Len(kernels') : kernels'[j].frame = i
      <4>1. CASE i \in 1 .. Len(received)
        <5>1. received'[i] = received[i]
          BY <4>1, <2>2
        <5> DEFINE f == received[i]
        <5>2. /\ f.header.kind = RecordAt(i).kind /\ f.header.first = RecordAt(i).first
              /\ f.header.count = RecordAt(i).count /\ f.header.series = SeriesAt(i)
              /\ f.data = Meant(f.header) \/ \E j \in 1 .. Len(kernels) : kernels[j].frame = i
          BY <4>1, <1>14
        <5>3. (\E j \in 1 .. Len(kernels) : kernels[j].frame = i) => \E j \in 1 .. Len(kernels') : kernels'[j].frame = i
          BY <2>3
        <5> QED BY <5>1, <5>2, <5>3
      <4>2. CASE i = n
        <5>1. /\ h.kind = RecordAt(n).kind /\ h.first = RecordAt(n).first
              /\ h.count = RecordAt(n).count /\ h.series = SeriesAt(n)
          BY <2>1, <1>5, <1>6
        <5>2. e.data = Meant(h) \/ \E j \in 1 .. Len(kernels') : kernels'[j].frame = n
          BY <2>3, <1>15, <1>16, <1>18
        <5> QED BY <5>1, <5>2, <4>2, <2>2, <2>4
      <4> QED BY <4>1, <4>2, <2>2
    <3> QED BY <2>2, <3>1, <3>2, <1>3 DEF ReaderInv, RecordAt, SeriesAt, Meant
  <2>6. KernelInv(P, K)'
    <3>1. ASSUME NEW i \in 1 .. Len(kernels')
          PROVE  \E q \in Safe .. r :
                   /\ Rec(P, K, q).kind = "image" /\ received'[K[q]].header = HeaderOf(P, K, q)
                   /\ kernels'[i] = [frame |-> K[q], units |-> OffsetOf(P[q]) + 1 .. OffsetOf(P[q]) + Units(P, K, q)]
      <4>1. CASE i \in 1 .. Len(kernels)
        <5>1. PICK q \in Safe .. (r - 1) :
                   /\ Rec(P, K, q).kind = "image" /\ received[K[q]].header = HeaderOf(P, K, q)
                   /\ kernels[i] = [frame |-> K[q], units |-> OffsetOf(P[q]) + 1 .. OffsetOf(P[q]) + Units(P, K, q)]
          BY <4>1, <1>1, <1>2 DEF KernelInv
        <5>2. q \in Safe .. r /\ q \in 0 .. (sequence - 1) /\ q + 1 \in 0 .. sequence /\ q + 1 <= r /\ q \in 0 .. sequence
          <6>1. \A a, b, x, y \in Nat : x \in a .. (b - 1) /\ b <= y =>
                  x \in a .. b /\ x \in 0 .. (y - 1) /\ x + 1 \in 0 .. y /\ x + 1 <= b /\ x \in 0 .. y
            OBVIOUS
          <6>2. r <= sequence /\ Safe \in Nat /\ r \in Nat /\ sequence \in Nat
            BY <1>1, <1>4, <1>13
          <6>3. q \in Nat
            BY <6>2
          <6> HIDE DEF Safe
          <6> QED BY <6>1, <6>2, <6>3
        <5>3. K[q] \in Nat /\ K[q] >= 1 /\ q \in Nat
          BY <5>2, <1>1, Order
        <5>4. K[q] \in 1 .. Len(received)
          <6>1. Fits(P, K, q)
            BY <5>1, <5>3, HeaderFacts
          <6>2. K[q + 1] = K[q] + 1
            BY <5>2, <6>1, <1>1 DEF Layout
          <6>3. K[q + 1] <= K[r]
            BY <5>2, <1>1, <1>4, Order
          <6>4. K[q] + 1 <= Len(received) + 1
            BY <6>2, <6>3, <1>5, <1>14
          <6> QED BY <6>4, <5>3, <1>14
        <5>5. received'[K[q]] = received[K[q]] /\ kernels'[i] = kernels[i]
          BY <5>4, <4>1, <2>2, <2>3
        <5> QED BY <5>1, <5>2, <5>5
      <4>2. CASE image /\ kernels'[i] = k
        <5>1. r \in Safe .. r
          BY <1>4, <1>13
        <5>2. Rec(P, K, r).kind = "image" /\ received'[K[r]].header = HeaderOf(P, K, r)
          BY <4>2, <2>2, <2>4, <1>4, <1>5, <1>6 DEF image
        <5>3. k = [frame |-> K[r], units |-> OffsetOf(P[r]) + 1 .. OffsetOf(P[r]) + Units(P, K, r)]
          BY <1>5 DEF k, units
        <5> QED BY <5>1, <5>2, <5>3, <4>2
      <4> QED BY <4>1, <4>2, <2>3
    <3>2. Safe' .. (readSequence' - 1) = Safe .. r
      <4>1. readSequence' - 1 = r
        BY <1>3, <1>4
      <4> QED BY <4>1, <1>13
    <3> QED BY <2>3, <3>1, <3>2 DEF KernelInv, HeaderOf, Units, Rec, Fits, OffsetOf
  <2> QED BY <2>5, <2>6
<1>19. CreditInv(P, K)'
  <2>1. ASSUME NEW i \in 1 .. Len(pending')
        PROVE  pending'[i] = [position |-> P[Safe + i],
                              event |-> IF Rec(P, K, Safe + i - 1).kind = "image" THEN K[Safe + i - 1] ELSE 0]
    <3>1. CASE i \in 1 .. Len(pending)
      BY <3>1, <1>1, <1>13 DEF CreditInv
    <3>2. CASE i = Len(pending) + 1
      <4>1. Safe + i = r + 1 /\ Safe + i - 1 = r
        <5>1. \A a, l, b \in Nat : a = b - l => a + (l + 1) = b + 1 /\ a + (l + 1) - 1 = b
          OBVIOUS
        <5> QED BY <5>1, <3>2, <1>4, <1>13
      <4> QED BY <3>2, <4>1, <1>5, <1>6, <1>13 DEF p, image
    <3> QED BY <3>1, <3>2, <1>13
  <2>2. /\ safe = P[Safe] /\ credited \in Nat /\ credit \in Nat
        /\ credit <= credited /\ credited <= safe
        /\ sq \in Seq([value : Nat, covers : Nat])
        /\ \A i \in 1 .. Len(sq) : credit <= sq[i].value /\ sq[i].value <= credited
        /\ \A i, j \in 1 .. Len(sq) : i < j => sq[i].value <= sq[j].value
    BY <1>1 DEF CreditInv
  <2> QED BY <2>1, <2>2, <1>3, <1>13 DEF CreditInv, Rec, Fits, OffsetOf
<1> QED BY <1>9, <1>11, <1>12, <1>17, <1>18, <1>19 DEF HostAt

\* A frame that a kernel reads was handed out.
LEMMA FrameRead ==
  ASSUME NEW P \in NatSeqs, NEW K \in NatSeqs, Layout(P, K), AnnounceInv, ReaderInv(P, K),
         CreditInv(P, K), NEW q \in Safe .. (readSequence - 1), Rec(P, K, q).kind = "image"
  PROVE  /\ K[q] \in 1 .. Len(received) /\ K[q] \in Nat /\ q \in Nat /\ K[q] >= 1
         /\ q \in 0 .. (Arrived - 1) /\ q \in 0 .. sequence /\ credit <= P[q]
<1> DEFINE r == readSequence
<1>1. /\ sequence \in Nat /\ r \in Nat /\ Arrived \in Nat /\ r <= Arrived /\ Arrived <= sequence
  BY Announced DEF Layout
<1>2. Safe \in Nat /\ \A x \in Safe .. sequence : credit <= P[x]
  BY CreditBehind
<1>3. /\ q \in 0 .. (Arrived - 1) /\ q \in 0 .. (sequence - 1) /\ q + 1 \in 0 .. sequence /\ q + 1 <= r
      /\ q \in 0 .. sequence /\ q \in Safe .. sequence /\ r \in 0 .. sequence
  <2>1. \A a, b, c, y, x \in Nat : x \in a .. (b - 1) /\ b <= c /\ c <= y =>
          /\ x \in 0 .. (c - 1) /\ x \in 0 .. (y - 1) /\ x + 1 \in 0 .. y /\ x + 1 <= b
          /\ x \in 0 .. y /\ x \in a .. y /\ b \in 0 .. y
    OBVIOUS
  <2>2. q \in Nat
    BY <1>1, <1>2
  <2> QED BY <2>1, <2>2, <1>1, <1>2
<1>4. K[q] \in Nat /\ K[q] >= 1 /\ q \in Nat
  BY <1>3, Order
<1>5. Fits(P, K, q)
  BY <1>4, HeaderFacts
<1>6. K[q + 1] = K[q] + 1
  BY <1>3, <1>5 DEF Layout
<1>7. K[q + 1] <= K[r]
  BY <1>3, Order
<1>8. K[r] = Len(received) + 1 /\ Len(received) \in Nat
  BY LenProperties DEF ReaderInv
<1>9. K[q] \in 1 .. Len(received)
  BY <1>4, <1>6, <1>7, <1>8
<1> QED BY <1>2, <1>3, <1>4, <1>9

\* The oldest kernel copies the images of its frame, which are still there.
LEMMA RunKernelStep ==
  ASSUME NEW P \in NatSeqs, NEW K \in NatSeqs, HostAt(P, K), RunKernel
  PROVE  HostAt(P, K)'
<1>1. Layout(P, K) /\ SenderInv(P, K) /\ WireInv(P, K) /\ TableInv(P, K) /\ AnnounceInv
      /\ RingInv(P, K) /\ UnseenInv(P, K) /\ ReaderInv(P, K) /\ KernelInv(P, K) /\ CreditInv(P, K)
      /\ sequence \in Nat
  BY Parts
<1>2. PICK k, d : k = Head(kernels) /\ d = {ring[u] : u \in k.units}
  OBVIOUS
<1>3. /\ kernels # <<>> /\ kernels' = Tail(kernels) /\ received' = [received EXCEPT ![k.frame].data = d]
      /\ UNCHANGED senderState /\ UNCHANGED announceState /\ UNCHANGED creditState
      /\ credit' = credit /\ ring' = ring /\ unseen' = unseen /\ step' = step /\ sequence' = sequence
      /\ readSequence' = readSequence /\ readPosition' = readPosition /\ pending' = pending
      /\ rpc' = rpc /\ imms' = imms /\ expired' = expired
  BY <1>2 DEF RunKernel, senderState, announceState, senderVars, readerVars, creditState, qpVars, sendVars,
     recvVars
<1>4. /\ kernels \in Seq([frame : Nat, units : SUBSET Nat])
      /\ \A i \in 1 .. Len(kernels) :
           \E q \in Safe .. (readSequence - 1) :
             /\ Rec(P, K, q).kind = "image" /\ received[K[q]].header = HeaderOf(P, K, q)
             /\ kernels[i] = [frame |-> K[q], units |-> OffsetOf(P[q]) + 1 .. OffsetOf(P[q]) + Units(P, K, q)]
  BY <1>1 DEF KernelInv
<1>5. /\ Len(kernels) \in Nat \ {0} /\ k = kernels[1] /\ 1 \in 1 .. Len(kernels)
      /\ kernels' \in Seq([frame : Nat, units : SUBSET Nat]) /\ Len(kernels') = Len(kernels) - 1
      /\ \A i \in 1 .. Len(kernels') : kernels'[i] = kernels[i + 1] /\ i + 1 \in 1 .. Len(kernels)
  <2>1. /\ Len(kernels) \in Nat \ {0} /\ Head(kernels) = kernels[1]
        /\ Tail(kernels) \in Seq([frame : Nat, units : SUBSET Nat]) /\ Len(Tail(kernels)) = Len(kernels) - 1
        /\ \A i \in 1 .. Len(Tail(kernels)) : Tail(kernels)[i] = kernels[i + 1] /\ i + 1 \in 1 .. Len(kernels)
    BY <1>3, <1>4, First
  <2> QED BY <2>1, <1>2, <1>3
<1>6. PICK q \in Safe .. (readSequence - 1) :
        /\ Rec(P, K, q).kind = "image" /\ received[K[q]].header = HeaderOf(P, K, q)
        /\ kernels[1] = [frame |-> K[q], units |-> OffsetOf(P[q]) + 1 .. OffsetOf(P[q]) + Units(P, K, q)]
  BY <1>4, <1>5
<1> DEFINE n == K[q]
           o == OffsetOf(P[q])
           c == Units(P, K, q)
           h == HeaderOf(P, K, q)
<1>7. /\ n \in 1 .. Len(received) /\ n \in Nat /\ q \in Nat /\ n >= 1
      /\ q \in 0 .. (Arrived - 1) /\ q \in 0 .. sequence /\ credit <= P[q]
  BY <1>1, <1>6, FrameRead
<1>8. k.frame = n /\ k.units = o + 1 .. o + c
  BY <1>5, <1>6
<1>9. o \in Nat /\ c \in Nat /\ c = Rec(P, K, q).count /\ Rec(P, K, q).first \in Nat
  <2>1. OffsetOf(P[q]) \in 0 .. (RingLen - 1) /\ RingLen \in Nat
    BY <1>7, HeaderFacts, Sizes
  <2>2. Units(P, K, q) \in Nat /\ Units(P, K, q) = Rec(P, K, q).count /\ Rec(P, K, q).first \in Nat
    BY <1>6, <1>7, HeaderFacts
  <2> QED BY <2>1, <2>2
<1>10. h.kind = "image" /\ h.seq = q /\ h.first = Rec(P, K, q).first /\ h.count = c /\ h \in Headers
  BY <1>6, <1>7, <1>9, HeaderTyped
<1>11. \A i \in 1 .. c : ring[o + i] = [tag |-> q, image |-> h.first + i - 1]
  <2>1. \A i \in 1 .. Units(P, K, q) : ring[OffsetOf(P[q]) + i] = DataOf(P, K, q, i)
    BY <1>1, <1>7 DEF RingInv
  <2> QED BY <2>1, <1>6, <1>10 DEF DataOf
<1> HIDE DEF n, o, c, h
<1>12. d = {[tag |-> q, image |-> h.first + i] : i \in 0 .. c - 1}
  <2>1. h.first \in Nat
    BY <1>9, <1>10
  <2>2. \A i \in 0 .. c - 1 : o + (i + 1) \in o + 1 .. o + c /\ i + 1 \in 1 .. c /\ h.first + (i + 1) - 1 = h.first + i
    BY <2>1, <1>9
  <2>3. \A u \in o + 1 .. o + c : u - o \in 1 .. c /\ o + (u - o) = u /\ (u - o) - 1 \in 0 .. c - 1
                               /\ h.first + (u - o) - 1 = h.first + ((u - o) - 1)
    BY <2>1, <1>9
  <2>4. d = {ring[u] : u \in o + 1 .. o + c}
    BY <1>2, <1>8
  <2>5. ASSUME NEW x \in d PROVE x \in {[tag |-> q, image |-> h.first + i] : i \in 0 .. c - 1}
    <3>1. PICK u \in o + 1 .. o + c : x = ring[u]
      BY <2>4
    <3>2. PICK i : i = u - o
      OBVIOUS
    <3>3. x = [tag |-> q, image |-> h.first + i - 1] /\ i - 1 \in 0 .. c - 1 /\ h.first + i - 1 = h.first + (i - 1)
      BY <3>1, <3>2, <2>3, <1>11
    <3> QED BY <3>3
  <2>6. ASSUME NEW i \in 0 .. c - 1 PROVE [tag |-> q, image |-> h.first + i] \in d
    <3>1. PICK j : j = i + 1
      OBVIOUS
    <3>2. j \in 1 .. c /\ o + j \in o + 1 .. o + c /\ h.first + j - 1 = h.first + i
      BY <3>1, <2>2
    <3>3. ring[o + j] = [tag |-> q, image |-> h.first + i]
      BY <3>2, <1>11
    <3> QED BY <3>2, <3>3, <2>4
  <2> QED BY <2>5, <2>6
<1>13. d = Meant(h) /\ d \in SUBSET (Pictures \cup Messages)
  <2>1. d = Meant(h)
    BY <1>10, <1>12 DEF Meant
  <2>2. \A i \in 0 .. c - 1 : [tag |-> q, image |-> h.first + i] \in Pictures
    <3>1. \A a \in Nat : \A i \in 0 .. c - 1 : a + i \in Nat
      BY <1>9
    <3> QED BY <3>1, <1>7, <1>9, <1>10 DEF Pictures
  <2> QED BY <2>1, <2>2, <1>12
<1>14. received \in Seq(Received) /\ Len(received) \in Nat /\ received[n] \in Received
       /\ \A i \in 1 .. Len(received) :
            LET f == received[i]
            IN /\ f.header.kind = RecordAt(i).kind /\ f.header.first = RecordAt(i).first
               /\ f.header.count = RecordAt(i).count /\ f.header.series = SeriesAt(i)
               /\ f.data = Meant(f.header) \/ \E j \in 1 .. Len(kernels) : kernels[j].frame = i
  <2>1. received \in Seq(Received)
    BY <1>1 DEF ReaderInv
  <2>2. received[n] \in Received
    BY <2>1, <1>7, ElementOfSeq
  <2>3. \A i \in 1 .. Len(received) :
            LET f == received[i]
            IN /\ f.header.kind = RecordAt(i).kind /\ f.header.first = RecordAt(i).first
               /\ f.header.count = RecordAt(i).count /\ f.header.series = SeriesAt(i)
               /\ f.data = Meant(f.header) \/ \E j \in 1 .. Len(kernels) : kernels[j].frame = i
    BY <1>1 DEF ReaderInv
  <2> QED BY <2>1, <2>2, <2>3, LenProperties
<1> DEFINE e == [received[n] EXCEPT !.data = d]
<1>15. e \in Received /\ e.header = h /\ e.data = d /\ received[n].header = h
  <2>1. received[n].header = h
    BY <1>6 DEF n, h
  <2> QED BY <2>1, <1>13, <1>14 DEF Received
<1>16. received' = [received EXCEPT ![n] = e]
  BY <1>3, <1>8
<1> HIDE DEF e
<1>17. /\ received' \in Seq(Received) /\ Len(received') = Len(received) /\ received'[n] = e
       /\ \A i \in 1 .. Len(received) : i # n => received'[i] = received[i]
       /\ \A i \in 1 .. Len(received) : received'[i].header = received[i].header
  <2>1. /\ received' \in Seq(Received) /\ Len(received') = Len(received) /\ received'[n] = e
        /\ \A i \in 1 .. Len(received) : i # n => received'[i] = received[i]
    BY <1>7, <1>14, <1>15, <1>16
  <2> QED BY <2>1, <1>7, <1>15
<1>18. ReaderInv(P, K)'
  <2>1. ASSUME NEW i \in 1 .. Len(received)
        PROVE  LET f == received'[i]
               IN /\ f.header.kind = RecordAt(i).kind /\ f.header.first = RecordAt(i).first
                  /\ f.header.count = RecordAt(i).count /\ f.header.series = SeriesAt(i)
                  /\ f.data = Meant(f.header) \/ \E j \in 1 .. Len(kernels') : kernels'[j].frame = i
    <3> DEFINE f == received'[i]
    <3>1. /\ f.header.kind = RecordAt(i).kind /\ f.header.first = RecordAt(i).first
          /\ f.header.count = RecordAt(i).count /\ f.header.series = SeriesAt(i)
      BY <1>14, <1>17
    <3>2. CASE i = n
      <4>1. f.data = Meant(f.header)
        BY <3>2, <1>13, <1>15, <1>17
      <4> QED BY <3>1, <4>1
    <3>3. CASE i # n
      <4>1. f = received[i]
        BY <3>3, <1>17
      <4>2. f.data = Meant(f.header) \/ \E j \in 1 .. Len(kernels) : kernels[j].frame = i
        BY <4>1, <1>14
      <4>3. ASSUME NEW j \in 1 .. Len(kernels), kernels[j].frame = i
            PROVE  \E m \in 1 .. Len(kernels') : kernels'[m].frame = i
        <5>1. j # 1
          BY <3>3, <4>3, <1>5, <1>8
        <5>2. PICK m : m = j - 1
          OBVIOUS
        <5>3. m \in 1 .. Len(kernels') /\ m + 1 = j
          BY <5>1, <5>2, <1>5
        <5> QED BY <5>3, <4>3, <1>5
      <4> QED BY <3>1, <4>2, <4>3
    <3> QED BY <3>2, <3>3
  <2>2. /\ K[readSequence] = Len(received') + 1 /\ readPosition = P[readSequence]
        /\ rpc \in {"poll", "next", "credit", "failed"} /\ (rpc = "failed" => expired)
        /\ rpc \in {"poll", "credit"} => imms = <<>>
    BY <1>1, <1>17 DEF ReaderInv
  <2>3. \A i \in 1 .. Len(received') :
          LET f == received'[i]
          IN /\ f.header.kind = RecordAt(i).kind /\ f.header.first = RecordAt(i).first
             /\ f.header.count = RecordAt(i).count /\ f.header.series = SeriesAt(i)
             /\ f.data = Meant(f.header) \/ \E j \in 1 .. Len(kernels') : kernels'[j].frame = i
    BY <2>1, <1>17
  <2>4. /\ K[readSequence'] = Len(received') + 1 /\ readPosition' = P[readSequence']
        /\ rpc' \in {"poll", "next", "credit", "failed"} /\ (rpc' = "failed" => expired')
        /\ rpc' \in {"poll", "credit"} => imms' = <<>>
        /\ received' \in Seq(Received)
    <3>1. /\ readSequence' = readSequence /\ readPosition' = readPosition
          /\ rpc' = rpc /\ imms' = imms /\ expired' = expired
      BY <1>3
    <3>2. received' \in Seq(Received)
      BY <1>17
    <3>3. K[readSequence'] = Len(received') + 1 /\ readPosition' = P[readSequence']
      BY <2>2, <3>1
    <3> QED BY <2>2, <3>1, <3>2, <3>3
  <2> QED BY <2>3, <2>4 DEF ReaderInv, RecordAt, SeriesAt, Meant
<1>19. KernelInv(P, K)'
  <2>1. ASSUME NEW i \in 1 .. Len(kernels')
        PROVE  \E x \in Safe .. (readSequence - 1) :
                 /\ Rec(P, K, x).kind = "image" /\ received'[K[x]].header = HeaderOf(P, K, x)
                 /\ kernels'[i] = [frame |-> K[x], units |-> OffsetOf(P[x]) + 1 .. OffsetOf(P[x]) + Units(P, K, x)]
    <3>1. kernels'[i] = kernels[i + 1] /\ i + 1 \in 1 .. Len(kernels)
      BY <1>5
    <3>2. PICK x \in Safe .. (readSequence - 1) :
            /\ Rec(P, K, x).kind = "image" /\ received[K[x]].header = HeaderOf(P, K, x)
            /\ kernels[i + 1] = [frame |-> K[x], units |-> OffsetOf(P[x]) + 1 .. OffsetOf(P[x]) + Units(P, K, x)]
      BY <3>1, <1>4
    <3>3. K[x] \in 1 .. Len(received)
      BY <3>2, <1>1, FrameRead
    <3>4. received'[K[x]].header = HeaderOf(P, K, x)
      BY <3>2, <3>3, <1>17
    <3> QED BY <3>1, <3>2, <3>4
  <2>2. Safe' = Safe
    BY <1>3 DEF Safe
  <2> QED BY <2>1, <2>2, <1>3, <1>5 DEF KernelInv, HeaderOf, Units, Rec, Fits, OffsetOf
<1>20. credit \in Nat /\ credit <= credit' /\ credit' \in Nat
  <2>1. credit \in Nat
    BY <1>1 DEF CreditInv
  <2> QED BY <2>1, <1>3
<1>21. Layout(P, K)' /\ SenderInv(P, K)' /\ WireInv(P, K)' /\ TableInv(P, K)'
  BY <1>1, <1>3, <1>20, LeavesSender
<1>22. AnnounceInv' /\ Arrived' = Arrived /\ (HeaderGone' <=> HeaderGone)
  BY <1>1, <1>3, LeavesAnnouncements
<1>23. RingInv(P, K)' /\ UnseenInv(P, K)'
  BY <1>1, <1>3, <1>20, <1>22, KeepsRing
<1>24. CreditInv(P, K)'
  <2>1. Safe' = Safe
    BY <1>3 DEF Safe
  <2> QED BY <2>1, <1>1, <1>3 DEF CreditInv, creditState, Rec, Fits, OffsetOf
<1> QED BY <1>18, <1>19, <1>21, <1>22, <1>23, <1>24 DEF HostAt

\* Every non-empty set of natural numbers has a least element,
LEMMA LeastExists ==
  ASSUME NEW S \in SUBSET Nat, S # {}
  PROVE  \E m \in S : \A k \in S : m <= k
<1> DEFINE Below(k) == 0 .. k
           T == {Below(k) : k \in S}
           R == StrictSubsetOrdering(Nat)
<1>1. T \subseteq FiniteSubsetsOf(Nat)
  <2> SUFFICES ASSUME NEW k \in S PROVE Below(k) \in FiniteSubsetsOf(Nat)
    OBVIOUS
  <2>1. IsFiniteSet(Below(k))
    BY FS_Interval
  <2> QED
    BY <2>1 DEF FiniteSubsetsOf
<1>2. T # {}
  OBVIOUS
<1>3. IsWellFoundedOn(R, FiniteSubsetsOf(Nat))
  BY FS_StrictSubsetOrderingWellFounded
<1> HIDE DEF R
<1>4. PICK x \in T : \A y \in T : ~ (<<y, x>> \in R)
  BY <1>1, <1>2, <1>3, WFMin
<1>5. PICK m \in S : x = Below(m)
  OBVIOUS
<1>6. ASSUME NEW k \in S, k < m
      PROVE  FALSE
  <2>1. Below(k) \subseteq Below(m) /\ Below(k) # Below(m)
    <3>1. m \in Below(m) /\ m \notin Below(k)
      BY <1>6
    <3> QED BY <1>6, <3>1
  <2>2. <<Below(k), Below(m)>> \in R
    BY <2>1 DEF StrictSubsetOrdering, R
  <2> QED
    BY <1>4, <1>5, <2>2
<1> QED
  BY <1>6

\* and a greatest one if it is bounded.
LEMMA GreatestExists ==
  ASSUME NEW m \in Nat, NEW S \in SUBSET (0 .. m), S # {}
  PROVE  Max(S) \in S /\ \A k \in S : k <= Max(S)
<1> DEFINE U == {b \in Nat : \A k \in S : k <= b}
<1>1. U \in SUBSET Nat /\ m \in U
  OBVIOUS
<1>2. PICK b \in U : \A c \in U : b <= c
  BY <1>1, LeastExists
<1>3. b \in Nat /\ \A k \in S : k \in Nat /\ k <= b
  OBVIOUS
<1>4. b \in S
  <2> SUFFICES ASSUME b \notin S PROVE FALSE
    OBVIOUS
  <2>1. PICK k \in S : TRUE
    OBVIOUS
  <2>2. k \in Nat /\ k <= b /\ k # b
    BY <1>3
  <2>3. b - 1 \in Nat
    BY <1>3, <2>2
  <2>4. \A j \in S : j <= b - 1
    <3> SUFFICES ASSUME NEW j \in S PROVE j <= b - 1
      OBVIOUS
    <3>1. j \in Nat /\ j <= b /\ j # b
      BY <1>3
    <3> QED BY <1>3, <3>1
  <2>5. b - 1 \in U
    BY <2>3, <2>4
  <2> QED BY <1>2, <1>3, <2>5
<1>5. \E x \in S : \A y \in S : x >= y
  BY <1>3, <1>4
<1>6. Max(S) \in S /\ \A y \in S : Max(S) >= y
  BY <1>5 DEF Max
<1>7. Max(S) \in Nat
  BY <1>6, <1>3
<1> QED BY <1>3, <1>6, <1>7

\* CreditTracker lets go of what is done, in order, and of nothing that a kernel still reads.
LEMMA PollCreditStep ==
  ASSUME NEW P \in NatSeqs, NEW K \in NatSeqs, HostAt(P, K), PollCredit
  PROVE  HostAt(P, K)'
<1>1. Layout(P, K) /\ SenderInv(P, K) /\ WireInv(P, K) /\ TableInv(P, K) /\ AnnounceInv
      /\ RingInv(P, K) /\ UnseenInv(P, K) /\ ReaderInv(P, K) /\ KernelInv(P, K) /\ CreditInv(P, K)
      /\ sequence \in Nat
  BY Parts
<1>2. PICK n, l, s, r : n = (IF Finished = {} THEN 0 ELSE Max(Finished)) /\ l = Len(pending)
                        /\ s = Safe /\ r = readSequence
  OBVIOUS
<1>3. /\ rpc = "next" /\ rpc' = "credit" /\ imms = <<>> /\ UNCHANGED senderState /\ UNCHANGED announceState
      /\ UNCHANGED <<readPosition, readSequence, received, kernels>>
      /\ credit' = credit /\ ring' = ring /\ unseen' = unseen /\ step' = step /\ sequence' = sequence
      /\ sq' = sq /\ credited' = credited /\ readSequence' = r /\ received' = received
      /\ kernels' = kernels /\ imms' = imms
      /\ safe' = (IF n = 0 THEN safe ELSE pending[n].position) /\ pending' = SubSeq(pending, n + 1, l)
  BY <1>2 DEF PollCredit, PostRecvs, sendVars, senderState, announceState, senderVars
<1>4. /\ pending \in Seq([position : Nat, event : Nat]) /\ s \in Nat /\ l \in Nat
      /\ r \in Nat /\ s = r - l /\ DOMAIN pending = 1 .. l
      /\ \A i \in 1 .. l :
           pending[i] = [position |-> P[s + i],
                         event |-> IF Rec(P, K, s + i - 1).kind = "image" THEN K[s + i - 1] ELSE 0]
      /\ safe = P[s] /\ credited \in Nat /\ credit \in Nat
      /\ credit <= credited /\ credited <= safe
      /\ sq \in Seq([value : Nat, covers : Nat])
      /\ \A i \in 1 .. Len(sq) : credit <= sq[i].value /\ sq[i].value <= credited
      /\ \A i, j \in 1 .. Len(sq) : i < j => sq[i].value <= sq[j].value
  <2>1. /\ pending \in Seq([position : Nat, event : Nat]) /\ s \in Nat
        /\ \A i \in 1 .. l :
             pending[i] = [position |-> P[s + i],
                           event |-> IF Rec(P, K, s + i - 1).kind = "image" THEN K[s + i - 1] ELSE 0]
        /\ safe = P[s] /\ credited \in Nat /\ credit \in Nat
        /\ credit <= credited /\ credited <= safe
        /\ sq \in Seq([value : Nat, covers : Nat])
        /\ \A i \in 1 .. Len(sq) : credit <= sq[i].value /\ sq[i].value <= credited
        /\ \A i, j \in 1 .. Len(sq) : i < j => sq[i].value <= sq[j].value
    BY <1>1, <1>2 DEF CreditInv
  <2>2. l \in Nat /\ DOMAIN pending = 1 .. l
    BY <2>1, <1>2, LenProperties
  <2>3. r \in Nat /\ s = r - l
    BY <1>1, <1>2 DEF Safe, AnnounceInv
  <2> QED BY <2>1, <2>2, <2>3
<1>5. /\ n \in 0 .. l /\ n \in Nat
      /\ \A j \in 1 .. n : Happened(pending[j].event)
  <2>1. CASE Finished = {}
    <3>1. n = 0
      BY <2>1, <1>2
    <3> QED BY <3>1, <1>4
  <2>2. CASE Finished # {}
    <3>1. Finished \in SUBSET (0 .. l)
      BY <1>4 DEF Finished
    <3>2. n \in Finished
      BY <2>2, <3>1, <1>2, <1>4, GreatestExists
    <3>3. n \in 1 .. l /\ \A j \in 1 .. n : Happened(pending[j].event)
      BY <3>2, <1>4 DEF Finished
    <3> QED BY <3>3, <1>4
  <2> QED BY <2>1, <2>2
<1>6. /\ pending' \in Seq([position : Nat, event : Nat]) /\ Len(pending') = l - n
      /\ \A i \in 1 .. (l - n) : pending'[i] = pending[n + i] /\ n + i \in 1 .. l
  <2>1. \A i \in (n + 1) .. l : pending[i] \in [position : Nat, event : Nat]
    <3>1. \A i \in (n + 1) .. l : i \in 1 .. l
      BY <1>4, <1>5
    <3> QED BY <3>1, <1>2, <1>4, ElementOfSeq
  <2> DEFINE T == [position : Nat, event : Nat]
  <2>2. /\ pending' \in Seq(T) /\ Len(pending') = l - n
        /\ \A i \in 1 .. (l - n) : pending'[i] = pending[n + 1 + i - 1]
    <3>1. /\ n + 1 \in Nat /\ l \in Nat /\ n + 1 <= l + 1 /\ l - (n + 1) + 1 = l - n
      <4>1. l \in Nat
        BY <1>4
      <4> QED BY <4>1, <1>5
    <3>2. pending' = SubSeq(pending, n + 1, l)
      BY <1>3
    <3>3. \A i \in (n + 1) .. l : pending[i] \in T
      BY <2>1
    <3> HIDE DEF T
    <3> QED BY <3>1, <3>2, <3>3, SubSeqProperties
  <2>3. ASSUME NEW i \in 1 .. (l - n)
        PROVE  pending'[i] = pending[n + i] /\ n + i \in 1 .. l
    <3>1. pending'[i] = pending[n + 1 + i - 1]
      BY <2>2
    <3>2. n + 1 + i - 1 = n + i /\ n + i \in 1 .. l
      <4>1. \A a, b \in Nat : \A x \in 1 .. (b - a) : a + 1 + x - 1 = a + x /\ a + x \in 1 .. b
        OBVIOUS
      <4>2. n \in Nat /\ l \in Nat
        BY <1>4, <1>5
      <4> QED BY <4>1, <4>2
    <3> QED BY <3>1, <3>2
  <2> QED BY <2>2, <2>3
<1>7. Safe' = s + n /\ s + n \in Nat /\ s + n <= r
  <2>1. Safe' = r - (l - n)
    BY <1>3, <1>6 DEF Safe
  <2> QED BY <2>1, <1>4, <1>5
<1>8. safe' = P[s + n] /\ safe' \in Nat /\ credited <= safe'
  <2>1. safe' = P[s + n]
    <3>1. CASE n = 0
      <4>1. s + n = s
        BY <3>1, <1>4
      <4> QED BY <3>1, <4>1, <1>3, <1>4
    <3>2. CASE n # 0
      <4>1. n \in 1 .. l
        BY <3>2, <1>5
      <4> QED BY <3>2, <4>1, <1>3, <1>4
    <3> QED BY <3>1, <3>2
  <2>2. s \in 0 .. sequence /\ s + n \in 0 .. sequence /\ s <= s + n
    <3>1. r \in 0 .. sequence
      BY <1>1, <1>2, Announced
    <3> QED BY <3>1, <1>1, <1>4, <1>5, <1>7
  <2>3. P[s] <= P[s + n] /\ P[s] \in Nat
    <3> DEFINE t == s + n
    <3>1. t \in 0 .. sequence /\ s <= t
      BY <2>2
    <3> HIDE DEF t
    <3>2. P[s] <= P[t] /\ P[s] \in Nat
      BY <3>1, <2>2, <1>1, Order
    <3> QED BY <3>2 DEF t
  <2>4. P[s + n] \in Nat
    BY <1>7, NatSeqsNat
  <2> QED BY <2>1, <2>3, <2>4, <1>4
<1>9. CreditInv(P, K)'
  <2>1. ASSUME NEW i \in 1 .. (l - n)
        PROVE  pending'[i] = [position |-> P[(s + n) + i],
                              event |-> IF Rec(P, K, (s + n) + i - 1).kind = "image" THEN K[(s + n) + i - 1] ELSE 0]
    <3>1. s + (n + i) = (s + n) + i /\ s + (n + i) - 1 = (s + n) + i - 1
      BY <1>4, <1>5
    <3>2. pending'[i] = [position |-> P[s + (n + i)],
                         event |-> IF Rec(P, K, s + (n + i) - 1).kind = "image" THEN K[s + (n + i) - 1] ELSE 0]
      BY <1>4, <1>6
    <3> QED BY <3>1, <3>2
  <2>2. /\ sq' = sq /\ credited' = credited /\ credit' = credit
    BY <1>3
  <2>3. \A i \in 1 .. Len(pending') :
          pending'[i] = [position |-> P[Safe' + i],
                         event |-> IF Rec(P, K, Safe' + i - 1).kind = "image" THEN K[Safe' + i - 1] ELSE 0]
    BY <2>1, <1>6, <1>7
  <2> QED BY <2>2, <2>3, <1>4, <1>6, <1>7, <1>8 DEF CreditInv, Rec, Fits, OffsetOf
<1>10. KernelInv(P, K)'
  <2>1. ASSUME NEW i \in 1 .. Len(kernels)
        PROVE  \E q \in (s + n) .. (r - 1) :
                 /\ Rec(P, K, q).kind = "image" /\ received[K[q]].header = HeaderOf(P, K, q)
                 /\ kernels[i] = [frame |-> K[q], units |-> OffsetOf(P[q]) + 1 .. OffsetOf(P[q]) + Units(P, K, q)]
    <3>1. PICK q \in s .. (r - 1) :
                 /\ Rec(P, K, q).kind = "image" /\ received[K[q]].header = HeaderOf(P, K, q)
                 /\ kernels[i] = [frame |-> K[q], units |-> OffsetOf(P[q]) + 1 .. OffsetOf(P[q]) + Units(P, K, q)]
      BY <1>1, <1>2 DEF KernelInv
    <3>2. ASSUME q < s + n PROVE FALSE
      <4>1. PICK j : j = q - s + 1
        OBVIOUS
      <4>2. j \in 1 .. n /\ j \in 1 .. l /\ s + j - 1 = q
        <5>1. s \in Nat /\ l \in Nat /\ n \in 0 .. l
          BY <1>4, <1>5
        <5> QED BY <3>2, <4>1, <5>1
      <4>3. pending[j].event = K[q]
        <5>1. pending[j] = [position |-> P[s + j],
                            event |-> IF Rec(P, K, s + j - 1).kind = "image" THEN K[s + j - 1] ELSE 0]
          BY <4>2, <1>4
        <5>2. Rec(P, K, s + j - 1).kind = "image" /\ K[s + j - 1] = K[q]
          BY <4>2, <3>1
        <5> QED BY <5>1, <5>2
      <4>4. Happened(K[q])
        BY <4>2, <4>3, <1>5
      <4>5. i \in DOMAIN kernels
        <5>1. kernels \in Seq([frame : Nat, units : SUBSET Nat])
          BY <1>1 DEF KernelInv
        <5> QED BY <5>1, LenProperties
      <4> QED BY <3>1, <4>4, <4>5 DEF Happened
    <3>3. q \in (s + n) .. (r - 1)
      BY <3>2, <1>4, <1>5
    <3> QED BY <3>1, <3>3
  <2>2. kernels \in Seq([frame : Nat, units : SUBSET Nat])
    BY <1>1 DEF KernelInv
  <2>3. Safe' .. (readSequence' - 1) = (s + n) .. (r - 1)
    BY <1>3, <1>7
  <2> QED BY <2>1, <2>2, <2>3, <1>3 DEF KernelInv, HeaderOf, Units, Rec, Fits, OffsetOf
<1>11. credit \in Nat /\ credit <= credit' /\ credit' \in Nat
  BY <1>3, <1>4
<1>12. Layout(P, K)' /\ SenderInv(P, K)' /\ WireInv(P, K)' /\ TableInv(P, K)'
  BY <1>1, <1>3, <1>11, LeavesSender
<1>13. AnnounceInv' /\ Arrived' = Arrived /\ (HeaderGone' <=> HeaderGone)
  BY <1>1, <1>3, LeavesAnnouncements
<1>14. RingInv(P, K)' /\ UnseenInv(P, K)'
  <2>1. readSequence' = readSequence
    BY <1>2, <1>3
  <2> QED BY <1>1, <1>3, <1>11, <1>13, <2>1, KeepsRing
<1>15. ReaderInv(P, K)'
  BY <1>1, <1>3, LeavesReceived
<1> QED BY <1>9, <1>10, <1>12, <1>13, <1>14, <1>15 DEF HostAt

-----------------------------------------------------------------------------
(* All together.                                                            *)

LEMMA StutterStep ==
  ASSUME NEW P \in NatSeqs, NEW K \in NatSeqs, HostAt(P, K), UNCHANGED <<hostVars, qpVars>>
  PROVE  HostAt(P, K)'
<1>1. Layout(P, K) /\ SenderInv(P, K) /\ WireInv(P, K) /\ TableInv(P, K) /\ AnnounceInv
      /\ RingInv(P, K) /\ UnseenInv(P, K) /\ ReaderInv(P, K) /\ KernelInv(P, K) /\ CreditInv(P, K)
      /\ sequence \in Nat
  BY Parts
<1>2. /\ UNCHANGED senderState /\ UNCHANGED announceState /\ UNCHANGED <<readerState, creditState>>
      /\ credit' = credit /\ ring' = ring /\ unseen' = unseen /\ step' = step /\ sequence' = sequence
      /\ readSequence' = readSequence
  BY DEF hostVars, qpVars, sendVars, recvVars, senderVars, readerVars, senderState, announceState,
         readerState, creditState
<1>3. credit \in Nat /\ credit <= credit' /\ credit' \in Nat
  <2>1. credit \in Nat
    BY <1>1 DEF CreditInv
  <2> QED BY <2>1, <1>2
<1>4. Layout(P, K)' /\ SenderInv(P, K)' /\ WireInv(P, K)' /\ TableInv(P, K)'
  BY <1>1, <1>2, <1>3, LeavesSender
<1>5. AnnounceInv' /\ Arrived' = Arrived /\ (HeaderGone' <=> HeaderGone)
  BY <1>1, <1>2, LeavesAnnouncements
<1>6. RingInv(P, K)' /\ UnseenInv(P, K)'
  BY <1>1, <1>2, <1>3, <1>5, KeepsRing
<1>7. ReaderInv(P, K)' /\ KernelInv(P, K)' /\ CreditInv(P, K)'
  BY <1>1, <1>2, LeavesReader
<1> QED BY <1>4, <1>5, <1>6, <1>7 DEF HostAt

\* A connection that is in use keeps the invariant, for some P and K.
LEMMA UsedStep ==
  ASSUME NEW P \in NatSeqs, NEW K \in NatSeqs, HostAt(P, K), unpolled \in Nat, since \in Nat,
         [HostNext]_<<hostVars, qpVars>>
  PROVE  /\ \E F, G \in NatSeqs : HostAt(F, G)'
         /\ step' # "unused"
<1>1. step # "unused"
  BY DEF HostAt, SenderInv
<1>2. \E F, G \in NatSeqs : HostAt(F, G)'
  <2>1. CASE SendSeries             BY <2>1, SendSeriesStep
  <2>2. CASE TakeCredit             BY <2>2, TakeCreditStep
  <2>3. CASE WriteHeader \/ WriteData
    <3>1. PICK F, G \in NatSeqs : HostAt(F, G) /\ Onward(F, G)
      BY Extend
    <3>2. HostAt(F, G)'
      BY <2>3, <3>1, WriteSteps
    <3> QED BY <3>2
  <2>4. CASE Drain \/ PollSender \/ Close
    BY <2>4, QuietSteps
  <2>5. CASE Place                  BY <2>5, PlaceStep
  <2>6. CASE Settle                 BY <2>6, SettleStep
  <2>7. CASE DeliverCredit          BY <2>7, DeliverCreditStep
  <2>8. CASE RunKernel              BY <2>8, RunKernelStep
  <2>9. CASE TakeImms               BY <2>9, TakeImmsStep
  <2>10. CASE NextFrame             BY <2>10, NextFrameStep
  <2>11. CASE NextFails             BY <2>11, NextFailsStep
  <2>12. CASE PollCredit            BY <2>12, PollCreditStep
  <2>13. CASE WriteCredit           BY <2>13, WriteCreditStep
  <2>14. CASE UNCHANGED <<hostVars, qpVars>>
    BY <2>14, StutterStep
  <2>15. ~Alone
    BY <1>1 DEF Alone
  <2> QED BY <2>1, <2>2, <2>3, <2>4, <2>5, <2>6, <2>7, <2>8, <2>9, <2>10, <2>11, <2>12, <2>13, <2>14, <2>15
          DEF HostNext, Sends, Network, Reads
<1>3. step' # "unused"
  BY <1>2 DEF HostAt, SenderInv
<1> QED BY <1>2, <1>3

\* A queue pair alone leaves the ring alone.
LEMMA UnusedStep ==
  ASSUME step = "unused", Untouched, [HostNext]_<<hostVars, qpVars>>
  PROVE  step' = "unused" /\ Untouched'
<1>1. ~Sends
  BY DEF Sends, SendSeries, TakeCredit, WriteHeader, WriteData, Drain, PollSender, Close, Waits
<1>2. ~Reads
  BY DEF Reads, TakeImms, NextFrame, NextFails, PollCredit, WriteCredit, Untouched
<1>3. ~Place /\ ~Settle /\ ~RunKernel
  BY DEF Place, Settle, RunKernel, Untouched
<1>4. CASE DeliverCredit
  BY <1>4 DEF DeliverCredit, Untouched, senderVars, readerVars
<1>5. CASE UNCHANGED hostVars
  BY <1>5 DEF hostVars, Untouched, senderVars, readerVars
<1> QED BY <1>1, <1>2, <1>3, <1>4, <1>5 DEF HostNext, Network, Alone

LEMMA CounterStep ==
  ASSUME unpolled \in Nat, since \in Nat, [HostNext]_<<hostVars, qpVars>>
  PROVE  unpolled' \in Nat /\ since' \in Nat
<1>1. unpolled' = unpolled \/ unpolled' = 0 \/ unpolled' = unpolled + 1
  BY DEF HostNext, Alone, Sends, Network, Reads, SendSeries, TakeCredit, WriteHeader, WriteData, Drain,
         PollSender, Close, Place, Settle, DeliverCredit, RunKernel, TakeImms, NextFrame, NextFails,
         PollCredit, WriteCredit, hostVars, senderVars
<1>2. since' = since \/ since' = 0 \/ since' = since + 1
  <2>1. CASE Alone
    BY <2>1 DEF Alone, Next, Write, Deliver, Arrive, Poll, Repost, PostWrite, CompleteWrite, PollSend,
                sendVars
  <2>2. CASE WriteCredit
    BY <2>2 DEF WriteCredit, PostWrite, qpVars, sendVars
  <2>3. CASE Place
    BY <2>3 DEF Place, qpVars, sendVars
  <2>4. CASE Sends
    BY <2>4 DEF Sends, SendSeries, TakeCredit, WriteHeader, WriteData, Drain, PollSender, Close, qpVars, sendVars
  <2>5. CASE Settle \/ DeliverCredit \/ RunKernel
    BY <2>5 DEF Settle, DeliverCredit, RunKernel, CompleteWrite, qpVars, sendVars
  <2>6. CASE TakeImms \/ NextFrame \/ NextFails \/ PollCredit
    BY <2>6 DEF TakeImms, PollSend, NextFrame, NextFails, PollCredit, qpVars, sendVars
  <2>7. CASE UNCHANGED <<hostVars, qpVars>>
    BY <2>7 DEF qpVars, sendVars
  <2> QED BY <2>1, <2>2, <2>3, <2>4, <2>5, <2>6, <2>7 DEF HostNext, Network, Reads
<1> QED BY <1>1, <1>2

LEMMA HostStarts == HostInit => HostInvariant
<1> SUFFICES ASSUME HostInit PROVE HostInvariant
  OBVIOUS
<1>1. unpolled \in Nat /\ since \in Nat
  BY DEF HostInit
<1>2. CASE step = "unused"
  BY <1>1, <1>2 DEF HostInit, HostInvariant, Untouched
<1>3. CASE step # "unused"
  <2> DEFINE P == [q \in Nat |-> 0]
             K == [q \in Nat |-> 1]
  <2>1. P \in NatSeqs /\ K \in NatSeqs /\ P[0] = 0 /\ K[0] = 1
    BY DEF NatSeqs
  <2> HIDE DEF P, K
  <2>2. /\ step = "open" /\ cut \in Cuts /\ next = 1 /\ series = 0 /\ position = 0 /\ sequence = 0 /\ header = 0
        /\ slots = [i \in 0 .. Slots - 1 |-> NoHeader] /\ control = [kind \in {"start", "end"} |-> 0]
        /\ wire = <<>> /\ credit = 0 /\ ring = [u \in 0 .. RingLen - 1 |-> NoHeader] /\ unseen = <<>>
        /\ rpc = "poll" /\ imms = <<>> /\ readPosition = 0 /\ readSequence = 0
        /\ pending = <<>> /\ safe = 0 /\ credited = 0 /\ kernels = <<>> /\ received = <<>>
        /\ sq = <<>> /\ recvCq = <<>>
    BY <1>3 DEF HostInit
  <2>3. RingLen \in Nat /\ RingLen >= 2 /\ Lap \in Nat /\ 0 .. sequence = {0} /\ 0 .. (sequence - 1) = {}
    BY <2>2, Sizes, WholeRecords
  <2>4. OffsetOf(0) = 0
    BY <2>3 DEF OffsetOf
  <2>5. Arrived = 0 /\ Safe = 0 /\ ~HeaderGone
    <3>1. Len(imms) = 0 /\ Len(recvCq) = 0 /\ Len(pending) = 0
      BY <2>2, EmptySeq
    <3>2. Arrived = 0
      BY <2>2, <3>1 DEF Arrived
    <3>3. Safe = 0
      <4>1. readSequence = 0 /\ Len(pending) = 0
        BY <2>2, <3>1
      <4> QED BY <4>1 DEF Safe
    <3> QED BY <2>2, <3>2, <3>3 DEF HeaderGone
  <2>6. Layout(P, K)
    BY <2>1, <2>2, <2>3, <2>4 DEF Layout
  <2>7. SenderInv(P, K)
    <3>1. 0 * Lap + 1 = 1 /\ 1 \in 1 .. Lap + 1 /\ 0 <= 0 + RingLen
      BY <2>3
    <3> QED BY <2>1, <2>2, <3>1 DEF SenderInv
  <2>8. WireInv(P, K) /\ TableInv(P, K)
    BY <2>2 DEF WireInv, TableInv
  <2>9. AnnounceInv
    BY <2>2, <2>5 DEF AnnounceInv
  <2>10. RingInv(P, K)
    <3>1. \A q \in 0 .. sequence : ~Carried(q)
      BY <2>3, <2>5 DEF Carried
    <3>2. 0 .. (Arrived - 1) = {}
      BY <2>5
    <3> QED BY <2>2, <3>1, <3>2 DEF RingInv
  <2>11. UnseenInv(P, K)
    BY <2>2 DEF UnseenInv
  <2>12. ReaderInv(P, K) /\ KernelInv(P, K)
    BY <2>1, <2>2 DEF ReaderInv, KernelInv
  <2>13. CreditInv(P, K)
    BY <2>1, <2>2, <2>5 DEF CreditInv
  <2> QED BY <1>1, <1>3, <2>1, <2>6, <2>7, <2>8, <2>9, <2>10, <2>11, <2>12, <2>13 DEF HostInvariant, HostAt
<1> QED BY <1>2, <1>3

LEMMA HostSteps == HostInvariant /\ [HostNext]_<<hostVars, qpVars>> => HostInvariant'
<1> SUFFICES ASSUME HostInvariant, [HostNext]_<<hostVars, qpVars>> PROVE HostInvariant'
  OBVIOUS
<1>1. unpolled' \in Nat /\ since' \in Nat
  BY CounterStep DEF HostInvariant
<1>2. CASE step = "unused"
  <2>1. step' = "unused" /\ Untouched'
    BY <1>2, UnusedStep DEF HostInvariant
  <2> QED BY <1>1, <2>1 DEF HostInvariant
<1>3. CASE step # "unused"
  <2>1. PICK P, K \in NatSeqs : HostAt(P, K)
    BY <1>3 DEF HostInvariant
  <2>2. (\E F, G \in NatSeqs : HostAt(F, G)') /\ step' # "unused"
    BY <2>1, UsedStep DEF HostInvariant
  <2> QED BY <1>1, <2>2 DEF HostInvariant
<1> QED BY <1>2, <1>3

\* The inductive invariant: there are positions P and records K that describe what the sender
\* has written, the network carries, the ring holds and the reader of imagemux.py has taken, or
\* the queue pair is used alone.
THEOREM HostInvariance == HostSpec => []HostInvariant
  BY HostStarts, HostSteps, PTL DEF HostSpec

\* The n-th frame the reader hands out is the sender's n-th record, with the data the sender had
\* for it once its kernel has run, and nothing of a conforming sender is refused unless a header
\* stays invisible beyond the settle time: whatever the ring, the batches, the series, the cut
\* and the interleaving of the sender, its NIC, the reader and its kernels.
THEOREM FramesAreExact == HostSpec => []FramesExact
<1>1. HostInvariant => FramesExact
  <2> SUFFICES ASSUME HostInvariant PROVE FramesExact
    OBVIOUS
  <2>1. CASE step = "unused"
    <3>1. received = <<>> /\ rpc = "poll"
      BY <2>1 DEF HostInvariant, Untouched
    <3> QED BY <3>1 DEF FramesExact
  <2>2. CASE step # "unused"
    <3>1. PICK P, K \in NatSeqs : HostAt(P, K)
      BY <2>2 DEF HostInvariant
    <3>2. ReaderInv(P, K) /\ KernelInv(P, K)
      BY <3>1 DEF HostAt
    <3>3. DOMAIN received = 1 .. Len(received) /\ DOMAIN kernels = 1 .. Len(kernels)
      <4>1. received \in Seq(Received) /\ kernels \in Seq([frame : Nat, units : SUBSET Nat])
        BY <3>2 DEF ReaderInv, KernelInv
      <4> HIDE DEF Received
      <4> QED BY <4>1, LenProperties
    <3>4. ASSUME NEW n \in DOMAIN received
          PROVE  LET f == received[n]
                 IN /\ f.header.kind = RecordAt(n).kind /\ f.header.first = RecordAt(n).first
                    /\ f.header.count = RecordAt(n).count /\ f.header.series = SeriesAt(n)
                    /\ f.data = Meant(f.header) \/ ~Happened(n)
      BY <3>2, <3>3 DEF ReaderInv, Happened
    <3>5. rpc = "failed" => expired
      BY <3>2 DEF ReaderInv
    <3> QED BY <3>4, <3>5 DEF FramesExact
  <2> QED BY <2>1, <2>2
<1> QED BY <1>1, HostInvariance, PTL

-----------------------------------------------------------------------------
(* The queue pair, used by any caller in any order or by the host reader.   *)

Signaled(i) == sq[i].covers > 0

\* Slots in use that no waiting completion has freed yet.
Pending == writes - sendCq

\* Where the signals stand in the send queue, and what each one covers: the
\* first reaches back to the oldest slot in use, each later one to the signal
\* before it, and `since` counts the WRITEs behind the last.
NoSignal     == (\A i \in DOMAIN sq : ~Signaled(i)) => Pending = since /\ since >= Len(sq)
FirstSignal  == \A f \in DOMAIN sq :
                  Signaled(f) /\ (\A i \in DOMAIN sq : i < f => ~Signaled(i))
                    => Pending = Len(sq) - f + sq[f].covers /\ sq[f].covers >= f
NextSignal   == \A i, j \in DOMAIN sq :
                  i < j /\ Signaled(i) /\ Signaled(j)
                  /\ (\A k \in DOMAIN sq : i < k /\ k < j => ~Signaled(k))
                    => sq[j].covers = j - i
LastSignal   == \A l \in DOMAIN sq :
                  Signaled(l) /\ (\A i \in DOMAIN sq : i > l => ~Signaled(i))
                    => since = Len(sq) - l
EnoughSlots  == Pending >= Len(sq)

\* V is what the caller writes.
SendInv(V) ==
  /\ sq \in Seq([value : V, covers : Nat])
  /\ sendCq \in Nat /\ writes \in 0 .. SendDepth /\ since \in Nat
  /\ since < Every
  /\ NoSignal /\ FirstSignal /\ NextSignal /\ LastSignal /\ EnoughSlots

LEMMA EveryRange == Every \in 1 .. SendDepth
  BY DepthAssumption DEF Every, Smaller

LEMMA SendEntries ==
  ASSUME NEW V, SendInv(V)
  PROVE  /\ Len(sq) \in Nat /\ DOMAIN sq = 1 .. Len(sq)
         /\ \A i \in DOMAIN sq : i \in Nat /\ sq[i].covers \in Nat
<1> DEFINE W == [value : V, covers : Nat]
<1>1. sq \in Seq(W)
  BY DEF SendInv
<1> HIDE DEF W
<1>2. Len(sq) \in Nat /\ DOMAIN sq = 1 .. Len(sq)
  BY <1>1, LenProperties
<1>3. \A i \in DOMAIN sq : sq[i] \in W
  BY <1>1, <1>2, ElementOfSeq
<1>4. \A x \in W : x.covers \in Nat
  BY DEF W
<1> QED BY <1>2, <1>3, <1>4

LEMMA SendInit ==
  ASSUME NEW V, sq = <<>>, sendCq = 0, writes = 0, since = 0
  PROVE  SendInv(V)
  BY EveryRange, DepthAssumption
     DEF SendInv, NoSignal, FirstSignal, NextSignal, LastSignal, EnoughSlots, Pending

LEMMA WriteStep ==
  ASSUME NEW V, SendInv(V), NEW v \in V, PostWrite(v)
  PROVE  SendInv(V)'
<1> DEFINE w == [value |-> v, covers |-> IF Signals THEN since + 1 ELSE 0]
<1>1. /\ w \in [value : V, covers : Nat]
      /\ sq' = Append(sq, w) /\ sq' \in Seq([value : V, covers : Nat])
      /\ Len(sq') = Len(sq) + 1 /\ DOMAIN sq = 1 .. Len(sq) /\ DOMAIN sq' = 1 .. (Len(sq) + 1)
      /\ sq'[Len(sq) + 1] = w /\ \A i \in DOMAIN sq : sq'[i] = sq[i]
      /\ Len(sq) \in Nat
  BY DEF PostWrite, SendInv
<1>2. /\ sendCq' = sendCq /\ writes' = writes + 1 /\ writes' \in 0 .. SendDepth
      /\ since' = IF Signals THEN 0 ELSE since + 1
      /\ since' \in Nat /\ since' < Every /\ Every \in 1 .. SendDepth
      /\ Every' = Every
  BY EveryRange, DepthAssumption DEF PostWrite, SendInv, Full, Signals, Every
<1>3. /\ \A i \in DOMAIN sq : Signaled(i)' <=> Signaled(i)
      /\ \A f \in DOMAIN sq' : f = Len(sq) + 1 => (Signaled(f)' <=> Signals)
      /\ w.covers = IF Signals THEN since + 1 ELSE 0
  <2>1. \A i \in DOMAIN sq : Signaled(i)' <=> Signaled(i)
    BY <1>1 DEF Signaled
  <2>2. w.covers = IF Signals THEN since + 1 ELSE 0
    OBVIOUS
  <2>3. since \in Nat
    BY DEF SendInv
  <2>4. \A f \in DOMAIN sq' : f = Len(sq) + 1 => (Signaled(f)' <=> w.covers > 0)
    BY <1>1 DEF Signaled
  <2>5. w.covers > 0 <=> Signals
    BY <2>2, <2>3
  <2> HIDE DEF w
  <2> QED BY <2>1, <2>2, <2>4, <2>5
<1>4. NoSignal'
  <2> SUFFICES ASSUME \A i \in DOMAIN sq' : ~Signaled(i)'
               PROVE  Pending' = since' /\ since' >= Len(sq')
    BY DEF NoSignal
  <2>1. ~Signals /\ \A i \in DOMAIN sq : ~Signaled(i)
    BY <1>1, <1>3
  <2>2. Pending = since /\ since >= Len(sq)
    BY <2>1 DEF SendInv, NoSignal
  <2>3. since' = since + 1 /\ Pending' = Pending + 1 /\ since \in Nat
    BY <2>1, <1>2 DEF Pending, SendInv
  <2> QED BY <2>2, <2>3, <1>1
<1>5. FirstSignal'
  <2> SUFFICES ASSUME NEW f \in DOMAIN sq', Signaled(f)',
                      \A i \in DOMAIN sq' : i < f => ~Signaled(i)'
               PROVE  Pending' = Len(sq') - f + sq'[f].covers /\ sq'[f].covers >= f
    BY DEF FirstSignal
  <2>1. CASE f \in DOMAIN sq
    <3>1. Signaled(f) /\ \A i \in DOMAIN sq : i < f => ~Signaled(i)
      BY <2>1, <1>1, <1>3
    <3>2. Pending = Len(sq) - f + sq[f].covers /\ sq[f].covers >= f
      BY <3>1, <2>1 DEF SendInv, FirstSignal
    <3>3. sq[f].covers \in Nat /\ f \in Nat /\ sq'[f].covers = sq[f].covers
      BY <2>1, <1>1, SendEntries
    <3>4. Pending' = Pending + 1 /\ Pending \in Int
      BY <1>2, DepthAssumption DEF Pending, SendInv
    <3>5. Len(sq') = Len(sq) + 1 /\ Len(sq) \in Nat
      BY <1>1
    <3>6. Pending' = (Len(sq) - f + sq[f].covers) + 1
      BY <3>2, <3>4
    <3>7. \A n, k, c \in Nat : (n - k + c) + 1 = (n + 1) - k + c
      OBVIOUS
    <3> QED BY <3>2, <3>3, <3>5, <3>6, <3>7
  <2>2. CASE f = Len(sq) + 1
    <3>1. Signals /\ \A i \in DOMAIN sq : ~Signaled(i)
      BY <2>2, <1>1, <1>3
    <3>2. Pending = since /\ since >= Len(sq)
      BY <3>1 DEF SendInv, NoSignal
    <3> QED BY <3>1, <3>2, <2>2, <1>1, <1>2, <1>3 DEF Pending, SendInv
  <2> QED BY <2>1, <2>2, <1>1
<1>6. NextSignal'
  <2> SUFFICES ASSUME NEW i \in DOMAIN sq', NEW j \in DOMAIN sq',
                      i < j, Signaled(i)', Signaled(j)',
                      \A k \in DOMAIN sq' : i < k /\ k < j => ~Signaled(k)'
               PROVE  sq'[j].covers = j - i
    BY DEF NextSignal
  <2>1. CASE j \in DOMAIN sq
    <3>1. /\ i \in DOMAIN sq /\ Signaled(i) /\ Signaled(j)
          /\ \A k \in DOMAIN sq : i < k /\ k < j => ~Signaled(k)
      BY <2>1, <1>1, <1>3
    <3> QED BY <3>1, <2>1, <1>1 DEF SendInv, NextSignal
  <2>2. CASE j = Len(sq) + 1
    <3>1. /\ Signals /\ i \in DOMAIN sq /\ Signaled(i)
          /\ \A k \in DOMAIN sq : k > i => ~Signaled(k)
      BY <2>2, <1>1, <1>3
    <3>2. since = Len(sq) - i
      BY <3>1 DEF SendInv, LastSignal
    <3> QED BY <3>1, <3>2, <2>2, <1>1, <1>3
  <2> QED BY <2>1, <2>2, <1>1
<1>7. LastSignal'
  <2> SUFFICES ASSUME NEW l \in DOMAIN sq', Signaled(l)',
                      \A i \in DOMAIN sq' : i > l => ~Signaled(i)'
               PROVE  since' = Len(sq') - l
    BY DEF LastSignal
  <2>1. CASE l \in DOMAIN sq
    <3>1. /\ ~Signals /\ Signaled(l)
          /\ \A i \in DOMAIN sq : i > l => ~Signaled(i)
      BY <2>1, <1>1, <1>3
    <3>2. since = Len(sq) - l
      BY <3>1, <2>1 DEF SendInv, LastSignal
    <3> QED BY <3>1, <3>2, <2>1, <1>1, <1>2
  <2>2. CASE l = Len(sq) + 1
    BY <2>2, <1>1, <1>2, <1>3
  <2> QED BY <2>1, <2>2, <1>1
<1>8. EnoughSlots'
  BY <1>1, <1>2 DEF EnoughSlots, Pending, SendInv
<1> QED BY <1>1, <1>2, <1>4, <1>5, <1>6, <1>7, <1>8 DEF SendInv

LEMMA DeliverStep ==
  ASSUME NEW V, SendInv(V), CompleteWrite
  PROVE  SendInv(V)'
<1> DEFINE c == sq[1].covers
<1>1. /\ sq # <<>> /\ Len(sq) \in Nat /\ Len(sq) >= 1 /\ DOMAIN sq = 1 .. Len(sq)
      /\ sq' = Tail(sq) /\ sq' \in Seq([value : V, covers : Nat])
      /\ Len(sq') = Len(sq) - 1 /\ DOMAIN sq' = 1 .. (Len(sq) - 1)
      /\ \A i \in DOMAIN sq' : sq'[i] = sq[i + 1]
      /\ c \in Nat
  <2>1. /\ Len(sq) \in Nat /\ DOMAIN sq = 1 .. Len(sq)
        /\ \A i \in DOMAIN sq : i \in Nat /\ sq[i].covers \in Nat
    BY SendEntries
  <2> QED BY <2>1 DEF CompleteWrite, SendInv
<1>2. /\ sendCq' = sendCq + c /\ writes' = writes /\ since' = since /\ Every' = Every
      /\ sendCq' \in Nat /\ Pending' = Pending - c
      /\ Pending \in Int /\ writes \in Nat /\ since \in Nat
  BY <1>1, DepthAssumption DEF CompleteWrite, SendInv, Pending, Every
<1>3. \A i \in DOMAIN sq' : Signaled(i)' <=> Signaled(i + 1)
  BY <1>1 DEF Signaled
<1>4. c > 0 => Pending = Len(sq) - 1 + c
  <2> SUFFICES ASSUME c > 0 PROVE Pending = Len(sq) - 1 + c
    OBVIOUS
  <2>1. 1 \in DOMAIN sq /\ Signaled(1) /\ \A i \in DOMAIN sq : i < 1 => ~Signaled(i)
    BY <1>1 DEF Signaled
  <2> QED BY <2>1 DEF SendInv, FirstSignal
<1>5. NoSignal'
  <2> SUFFICES ASSUME \A i \in DOMAIN sq' : ~Signaled(i)'
               PROVE  Pending' = since' /\ since' >= Len(sq')
    BY DEF NoSignal
  <2>1. \A i \in DOMAIN sq : i > 1 => ~Signaled(i)
    <3> TAKE i \in DOMAIN sq
    <3> HAVE i > 1
    <3>1. i - 1 \in DOMAIN sq' /\ (i - 1) + 1 = i
      BY <1>1
    <3> QED BY <3>1, <1>3
  <2>2. CASE c > 0
    <3>1. 1 \in DOMAIN sq /\ Signaled(1)
      BY <2>2, <1>1 DEF Signaled
    <3>2. since = Len(sq) - 1
      BY <2>1, <3>1 DEF SendInv, LastSignal
    <3> QED BY <3>2, <2>2, <1>1, <1>2, <1>4
  <2>3. CASE c = 0
    <3>1. \A i \in DOMAIN sq : ~Signaled(i)
      BY <2>1, <2>3, <1>1 DEF Signaled
    <3>2. Pending = since /\ since >= Len(sq)
      BY <3>1 DEF SendInv, NoSignal
    <3> QED BY <3>2, <2>3, <1>1, <1>2
  <2> QED BY <2>2, <2>3, <1>1
<1>6. FirstSignal'
  <2> SUFFICES ASSUME NEW f \in DOMAIN sq', Signaled(f)',
                      \A i \in DOMAIN sq' : i < f => ~Signaled(i)'
               PROVE  Pending' = Len(sq') - f + sq'[f].covers /\ sq'[f].covers >= f
    BY DEF FirstSignal
  <2>1. /\ f + 1 \in DOMAIN sq /\ Signaled(f + 1) /\ sq'[f] = sq[f + 1]
        /\ sq[f + 1].covers \in Nat /\ f \in Nat
    BY <1>1, <1>3, SendEntries
  <2>2. \A i \in DOMAIN sq : 1 < i /\ i < f + 1 => ~Signaled(i)
    <3> TAKE i \in DOMAIN sq
    <3> HAVE 1 < i /\ i < f + 1
    <3>1. i - 1 \in DOMAIN sq' /\ (i - 1) + 1 = i /\ i - 1 < f
      BY <1>1, <2>1
    <3> QED BY <3>1, <1>3
  <2>3. CASE c > 0
    <3>1. 1 \in DOMAIN sq /\ Signaled(1) /\ 1 < f + 1
      BY <2>3, <2>1, <1>1 DEF Signaled
    <3>2. sq[f + 1].covers = f
      BY <3>1, <2>1, <2>2 DEF SendInv, NextSignal
    <3>3. /\ Pending' = Len(sq) - 1 /\ Len(sq') = Len(sq) - 1
          /\ Len(sq) \in Nat /\ sq'[f].covers = f
      BY <3>2, <2>1, <2>3, <1>1, <1>2, <1>4
    <3> QED BY <3>3, <2>1
  <2>4. CASE c = 0
    <3>1. \A i \in DOMAIN sq : i < f + 1 => ~Signaled(i)
      BY <2>2, <2>4, <1>1 DEF Signaled
    <3>2. Pending = Len(sq) - (f + 1) + sq[f + 1].covers /\ sq[f + 1].covers >= f + 1
      BY <3>1, <2>1 DEF SendInv, FirstSignal
    <3> QED BY <3>2, <2>1, <2>4, <1>1, <1>2
  <2> QED BY <2>3, <2>4, <1>1
<1>7. NextSignal'
  <2> SUFFICES ASSUME NEW i \in DOMAIN sq', NEW j \in DOMAIN sq',
                      i < j, Signaled(i)', Signaled(j)',
                      \A k \in DOMAIN sq' : i < k /\ k < j => ~Signaled(k)'
               PROVE  sq'[j].covers = j - i
    BY DEF NextSignal
  <2>1. /\ i + 1 \in DOMAIN sq /\ j + 1 \in DOMAIN sq /\ i + 1 < j + 1
        /\ Signaled(i + 1) /\ Signaled(j + 1) /\ sq'[j] = sq[j + 1]
    BY <1>1, <1>3
  <2>2. \A k \in DOMAIN sq : i + 1 < k /\ k < j + 1 => ~Signaled(k)
    <3> TAKE k \in DOMAIN sq
    <3> HAVE i + 1 < k /\ k < j + 1
    <3>1. k - 1 \in DOMAIN sq' /\ (k - 1) + 1 = k /\ i < k - 1 /\ k - 1 < j
      BY <1>1
    <3> QED BY <3>1, <1>3
  <2>3. sq[j + 1].covers = (j + 1) - (i + 1)
    BY <2>1, <2>2 DEF SendInv, NextSignal
  <2> QED BY <2>1, <2>3, <1>1
<1>8. LastSignal'
  <2> SUFFICES ASSUME NEW l \in DOMAIN sq', Signaled(l)',
                      \A i \in DOMAIN sq' : i > l => ~Signaled(i)'
               PROVE  since' = Len(sq') - l
    BY DEF LastSignal
  <2>1. l + 1 \in DOMAIN sq /\ Signaled(l + 1)
    BY <1>1, <1>3
  <2>2. \A i \in DOMAIN sq : i > l + 1 => ~Signaled(i)
    <3> TAKE i \in DOMAIN sq
    <3> HAVE i > l + 1
    <3>1. i - 1 \in DOMAIN sq' /\ (i - 1) + 1 = i /\ i - 1 > l
      BY <1>1
    <3> QED BY <3>1, <1>3
  <2>3. since = Len(sq) - (l + 1)
    BY <2>1, <2>2 DEF SendInv, LastSignal
  <2> QED BY <2>3, <1>1, <1>2
<1>9. EnoughSlots'
  BY <1>1, <1>2, <1>4 DEF EnoughSlots, SendInv
<1> QED BY <1>1, <1>2, <1>5, <1>6, <1>7, <1>8, <1>9 DEF SendInv

LEMMA PollStep ==
  ASSUME NEW V, SendInv(V), PollSend
  PROVE  SendInv(V)'
<1>1. /\ sq' = sq /\ since' = since /\ sendCq' = 0 /\ Pending' = Pending /\ Every' = Every
      /\ writes' \in 0 .. SendDepth
  BY DepthAssumption DEF PollSend, SendInv, EnoughSlots, Pending, Every
<1> QED BY <1>1
        DEF SendInv, NoSignal, FirstSignal, NextSignal, LastSignal, EnoughSlots, Signaled

LEMMA SendUnchanged ==
  ASSUME NEW V, SendInv(V), UNCHANGED sendVars
  PROVE  SendInv(V)'
  BY DEF SendInv, NoSignal, FirstSignal, NextSignal, LastSignal, EnoughSlots, Signaled,
         Pending, sendVars, Every

\* The send queue's invariant, which every call of imx_qp_write and imx_qp_poll
\* keeps: where the signals stand and how many slots each completion frees.
THEOREM SendInvariant == Spec => []SendInv(Values)
<1>1. SendInv(Values) /\ [Next]_qpVars => SendInv(Values)'
  <2> SUFFICES ASSUME SendInv(Values), [Next]_qpVars PROVE SendInv(Values)'
    OBVIOUS
  <2>1. CASE Write   BY <2>1, WriteStep DEF Write
  <2>2. CASE Deliver BY <2>2, DeliverStep DEF Deliver
  <2>3. CASE Arrive  BY <2>3, SendUnchanged DEF Arrive
  <2>4. CASE Poll    BY <2>4, PollStep DEF Poll
  <2>5. CASE Repost  BY <2>5, SendUnchanged DEF Repost
  <2>6. CASE UNCHANGED qpVars BY <2>6, SendUnchanged DEF qpVars
  <2> QED BY <2>1, <2>2, <2>3, <2>4, <2>5, <2>6 DEF Next
<1>2. Init => SendInv(Values)
  BY SendInit DEF Init
<1> QED BY <1>1, <1>2, PTL DEF Spec

LEMMA SlotsNeverWedge ==
  ASSUME NEW V, SendInv(V)
  PROVE  NoWedge
<1> SUFFICES ASSUME Full, ~SignalPending PROVE FALSE
  BY DEF NoWedge
<1>1. sendCq = 0 /\ \A i \in DOMAIN sq : ~Signaled(i)
  BY DEF SignalPending, Signaled, SendInv
<1>2. writes = since
  BY <1>1 DEF SendInv, NoSignal, Pending
<1> QED BY <1>2, EveryRange, DepthAssumption DEF Full, SendInv

\* A WRITE is refused only while a completion that will free slots is on its way
\* or waiting to be polled, whatever the depths: imxrx.c's post_write and
\* imx_qp_poll.
THEOREM QueueNeverWedges == Spec => []NoWedge
<1>1. SendInv(Values) => NoWedge
  BY SlotsNeverWedge
<1> QED BY <1>1, SendInvariant, PTL

\* The credit that WriteCredit posts is a number.
LEMMA CreditTyped ==
  ASSUME HostInvariant, WriteCredit
  PROVE  safe \in Nat
<1>1. step # "unused"
  BY DEF HostInvariant, Untouched, WriteCredit
<1>2. PICK P, K \in NatSeqs : HostAt(P, K)
  BY <1>1 DEF HostInvariant
<1>3. safe = P[Safe] /\ Safe \in Nat
  BY <1>2 DEF HostAt, CreditInv
<1> QED BY <1>3, NatSeqsNat

\* A credit WRITE that the host reader's queue pair refuses has a completion coming as well:
\* CreditTracker's next poll finds room for it.
THEOREM CreditNeverWedges == HostSpec => []NoWedge
<1> DEFINE V == Values \cup Nat
           Inv == HostInvariant /\ SendInv(V)
<1>1. HostInit => Inv
  BY SendInit, HostStarts DEF HostInit
<1>2. Inv /\ [HostNext]_<<hostVars, qpVars>> => Inv'
  <2> SUFFICES ASSUME Inv, [HostNext]_<<hostVars, qpVars>> PROVE SendInv(V)'
    BY HostSteps
  <2> HIDE DEF V
  <2>1. CASE Alone
    <3>1. CASE Write
      <4>1. PICK v \in V : PostWrite(v)
        BY <3>1 DEF Write, V
      <4> QED BY <4>1, WriteStep
    <3>2. CASE Deliver BY <3>2, DeliverStep DEF Deliver
    <3>3. CASE Arrive  BY <3>3, SendUnchanged DEF Arrive
    <3>4. CASE Poll    BY <3>4, PollStep DEF Poll
    <3>5. CASE Repost  BY <3>5, SendUnchanged DEF Repost
    <3> QED BY <2>1, <3>1, <3>2, <3>3, <3>4, <3>5 DEF Alone, Next
  <2>2. CASE WriteCredit
    <3>1. CASE safe = credited \/ Full
      <4>1. UNCHANGED sendVars
        BY <2>2, <3>1 DEF WriteCredit, qpVars
      <4> QED BY <4>1, SendUnchanged
    <3>2. CASE ~(safe = credited \/ Full)
      <4>1. PostWrite(safe) /\ safe \in V
        BY <2>2, <3>2, CreditTyped DEF WriteCredit, V
      <4> QED BY <4>1, WriteStep
    <3> QED BY <3>1, <3>2
  <2>3. CASE DeliverCredit BY <2>3, DeliverStep DEF DeliverCredit
  <2>4. CASE TakeImms      BY <2>4, PollStep DEF TakeImms
  <2>5. CASE UNCHANGED sendVars
    BY <2>5, SendUnchanged
  <2>6. Sends \/ Place \/ Settle \/ RunKernel \/ NextFrame \/ NextFails \/ PollCredit => UNCHANGED sendVars
    BY DEF Sends, SendSeries, TakeCredit, WriteHeader, WriteData, Drain, PollSender, Close, Place, Settle,
           RunKernel, NextFrame, NextFails, PollCredit, qpVars
  <2>7. UNCHANGED <<hostVars, qpVars>> => UNCHANGED sendVars
    BY DEF qpVars
  <2> QED BY <2>1, <2>2, <2>3, <2>4, <2>5, <2>6, <2>7 DEF HostNext, Network, Reads
<1>3. Inv => NoWedge
  BY SlotsNeverWedge
<1> QED BY <1>1, <1>2, <1>3, PTL DEF HostSpec

-----------------------------------------------------------------------------
\* I is what the peer announces.
RecvInv(I) ==
  /\ rq \in Nat /\ recvs \in 0 .. RecvDepth /\ recvCq \in Seq(I)
  /\ ReceivesAccounted

LEMMA PolledLength ==
  ASSUME NEW I, RecvInv(I), NEW max \in Nat
  PROVE  /\ Len(Polled(max)) \in 0 .. Len(recvCq)
         /\ Unpolled(max) \in Seq(I)
         /\ Len(Unpolled(max)) = Len(recvCq) - Len(Polled(max))
<1> DEFINE k == Smaller(max, Len(recvCq))
<1>1. Len(recvCq) \in Nat /\ k \in 0 .. Len(recvCq)
  BY DEF RecvInv, Smaller
<1>2. Len(Polled(max)) = k
  BY <1>1 DEF RecvInv, Polled
<1>3. Unpolled(max) \in Seq(I) /\ Len(Unpolled(max)) = Len(recvCq) - k
  BY <1>1 DEF RecvInv, Unpolled
<1> QED BY <1>1, <1>2, <1>3

LEMMA ReceiveTaken ==
  ASSUME NEW I, RecvInv(I), NEW i \in I, Announce(i)
  PROVE  RecvInv(I)'
  BY DEF Announce, RecvInv, ReceivesAccounted

LEMMA ReceivesPolled ==
  ASSUME NEW I, RecvInv(I), NEW max \in Nat, PollRecv(max)
  PROVE  RecvInv(I)'
<1> DEFINE k == Len(Polled(max))
<1>1. /\ k \in 0 .. Len(recvCq) /\ Unpolled(max) \in Seq(I)
      /\ Len(Unpolled(max)) = Len(recvCq) - k
  BY PolledLength
<1>2. Len(recvCq) \in Nat
  BY LenProperties DEF RecvInv
<1>3. recvCq' = Unpolled(max) /\ recvs' = recvs - k /\ rq' = rq
  BY DEF PollRecv
<1> HIDE DEF k
<1>4. recvs' \in 0 .. RecvDepth /\ rq' + Len(recvCq') = recvs'
  BY <1>1, <1>2, <1>3, DepthAssumption DEF RecvInv, ReceivesAccounted
<1> QED BY <1>1, <1>3, <1>4 DEF RecvInv, ReceivesAccounted

LEMMA ReceivesPosted ==
  ASSUME NEW I, RecvInv(I), NEW n \in Nat, NEW k \in Nat, PostRecvs(n, k)
  PROVE  RecvInv(I)'
  BY DepthAssumption DEF PostRecvs, RecvRoom, Smaller, RecvInv, ReceivesAccounted

LEMMA ReceiveInvariant == Spec => []RecvInv(Imms)
<1>1. Init => RecvInv(Imms)
  BY DepthAssumption DEF Init, RecvInv, ReceivesAccounted
<1>2. RecvInv(Imms) /\ [Next]_qpVars => RecvInv(Imms)'
  <2> SUFFICES ASSUME RecvInv(Imms), [Next]_qpVars PROVE RecvInv(Imms)'
    OBVIOUS
  <2>1. CASE UNCHANGED recvVars
    BY <2>1 DEF RecvInv, ReceivesAccounted, recvVars
  <2>2. CASE Arrive BY <2>2, ReceiveTaken DEF Arrive
  <2>3. CASE Poll
    <3>1. PICK max \in Nat : PollRecv(max)
      BY <2>3, DepthAssumption DEF Poll
    <3> QED BY <3>1, ReceivesPolled
  <2>4. CASE Repost
    <3>1. PICK n, k \in Nat : PostRecvs(n, k)
      BY <2>4, DepthAssumption DEF Repost
    <3> QED BY <3>1, ReceivesPosted
  <2> QED BY <2>1, <2>2, <2>3, <2>4 DEF Next, Write, Deliver, qpVars
<1> QED BY <1>1, <1>2, PTL DEF Spec

\* No RECEIVE leaks: what the caller believes outstanding is posted or consumed
\* by an announcement waiting to be polled, for every depth and order of calls.
THEOREM ReceivesNeverLeak == Spec => []ReceivesAccounted
<1>1. RecvInv(Imms) => ReceivesAccounted
  BY DEF RecvInv
<1> QED BY <1>1, ReceiveInvariant, PTL

\* The tag of a WRITE that announces itself is a number.
LEMMA AnnouncementTyped ==
  ASSUME HostInvariant, wire # <<>>
  PROVE  Head(wire).tag % ImmMod \in Nat
<1>1. step # "unused"
  BY DEF HostInvariant, Untouched
<1>2. PICK P, K \in NatSeqs : HostAt(P, K)
  BY <1>1 DEF HostInvariant
<1>3. wire \in Seq(Writes)
  BY <1>2 DEF HostAt, WireInv
<1>4. Head(wire).tag \in Nat
  <2>1. Head(wire) \in Writes
    BY <1>3, First
  <2> QED BY <2>1 DEF Writes
<1> QED BY <1>4, Sizes

\* No RECEIVE of the host reader leaks either: what it posts again is what it has polled.
THEOREM HostReceivesNeverLeak == HostSpec => []ReceivesAccounted
<1> DEFINE I == Imms \cup Nat
           Inv == HostInvariant /\ RecvInv(I)
<1>1. HostInit => Inv
  <2>1. HostInit => RecvInv(I)
    <3> SUFFICES ASSUME HostInit PROVE RecvInv(I)
      OBVIOUS
    <3>1. recvCq = <<>> /\ Len(recvCq) = 0 /\ (rq = recvs) /\ rq \in 0 .. RecvDepth
      BY DepthAssumption, EmptySeq DEF HostInit
    <3>2. rq + 0 = recvs /\ rq \in Nat
      BY <3>1, DepthAssumption
    <3> QED BY <3>1, <3>2 DEF RecvInv, ReceivesAccounted
  <2> QED BY <2>1, HostStarts
<1>2. Inv /\ [HostNext]_<<hostVars, qpVars>> => Inv'
  <2> SUFFICES ASSUME Inv, [HostNext]_<<hostVars, qpVars>> PROVE RecvInv(I)'
    BY HostSteps
  <2>1. CASE \E i \in I : Announce(i)
    <3>1. PICK i \in I : Announce(i)
      BY <2>1
    <3> HIDE DEF I
    <3> QED BY <3>1, ReceiveTaken
  <2>2. CASE \E max \in Nat : PollRecv(max)
    <3> HIDE DEF I
    <3> QED BY <2>2, ReceivesPolled
  <2>3. CASE \E n, k \in Nat : PostRecvs(n, k)
    <3> HIDE DEF I
    <3> QED BY <2>3, ReceivesPosted
  <2>4. CASE UNCHANGED recvVars
    BY <2>4 DEF RecvInv, ReceivesAccounted, recvVars
  <2>5. CASE Alone
    <3>1. Arrive => \E i \in I : Announce(i)
      BY DEF Arrive
    <3>2. Poll => \E max \in Nat : PollRecv(max)
      BY DepthAssumption DEF Poll
    <3>3. Repost => \E n, k \in Nat : PostRecvs(n, k)
      BY DepthAssumption DEF Repost
    <3> QED BY <2>1, <2>2, <2>3, <2>4, <2>5, <3>1, <3>2, <3>3 DEF Alone, Next, Write, Deliver
  <2>6. CASE Place
    <3>1. CASE Head(wire).announces
      <4>1. Announce(Head(wire).tag % ImmMod) /\ wire # <<>>
        BY <2>6, <3>1 DEF Place
      <4>2. Head(wire).tag % ImmMod \in I
        BY <4>1, AnnouncementTyped
      <4> QED BY <2>1, <4>1, <4>2
    <3>2. CASE ~Head(wire).announces
      <4>1. UNCHANGED recvVars
        BY <2>6, <3>2 DEF Place, qpVars
      <4> QED BY <2>4, <4>1
    <3> QED BY <3>1, <3>2
  <2>7. TakeImms => \E max \in Nat : PollRecv(max)
    BY DepthAssumption DEF TakeImms
  <2>8. PollCredit => \E n, k \in Nat : PostRecvs(n, k)
    <3> SUFFICES ASSUME PollCredit PROVE \E n, k \in Nat : PostRecvs(n, k)
      OBVIOUS
    <3>1. PostRecvs(RecvDepth, RecvRoom(recvs)) /\ RecvDepth \in Nat
      BY DepthAssumption DEF PollCredit
    <3>2. RecvRoom(recvs) \in Nat
      BY DepthAssumption DEF RecvRoom, RecvInv
    <3> QED BY <3>1, <3>2
  <2>9. Sends \/ Settle \/ DeliverCredit \/ RunKernel \/ NextFrame \/ NextFails \/ WriteCredit
          \/ UNCHANGED <<hostVars, qpVars>> => UNCHANGED recvVars
    BY DEF Sends, SendSeries, TakeCredit, WriteHeader, WriteData, Drain, PollSender, Close, Settle,
           DeliverCredit, RunKernel, NextFrame, NextFails, WriteCredit, qpVars
  <2> QED BY <2>2, <2>3, <2>4, <2>5, <2>6, <2>7, <2>8, <2>9 DEF HostNext, Network, Reads
<1>3. Inv => ReceivesAccounted
  BY DEF RecvInv
<1> QED BY <1>1, <1>2, <1>3, PTL DEF HostSpec

-----------------------------------------------------------------------------
Entry == [value : Values, covers : 0 .. SendDepth]

\* A signal covers at most the whole send queue.
LEMMA EntriesTyped == Spec => [](sq \in Seq(Entry))
<1>1. Init => sq \in Seq(Entry)
  BY DEF Init
<1>2. SendInv(Values) /\ sq \in Seq(Entry) /\ [Next]_qpVars => (sq \in Seq(Entry))'
  <2> SUFFICES ASSUME SendInv(Values), sq \in Seq(Entry), [Next]_qpVars
               PROVE  sq' \in Seq(Entry)
    OBVIOUS
  <2>1. CASE Write
    <3>1. PICK v \in Values : PostWrite(v)
      BY <2>1 DEF Write
    <3> DEFINE w == [value |-> v, covers |-> IF Signals THEN since + 1 ELSE 0]
    <3>2. since + 1 \in 0 .. SendDepth /\ 0 \in 0 .. SendDepth
      BY EveryRange, DepthAssumption DEF SendInv
    <3>3. w \in Entry
      BY <3>2 DEF Entry
    <3>4. sq' = Append(sq, w)
      BY <3>1 DEF PostWrite
    <3> HIDE DEF w
    <3> QED BY <3>3, <3>4, AppendProperties
  <2>2. CASE Deliver
    BY <2>2, HeadTailProperties DEF Deliver, CompleteWrite
  <2>3. CASE Arrive BY <2>3 DEF Arrive, sendVars
  <2>4. CASE Poll   BY <2>4 DEF Poll, PollSend
  <2>5. CASE Repost BY <2>5 DEF Repost, sendVars
  <2>6. CASE UNCHANGED qpVars BY <2>6 DEF qpVars, sendVars
  <2> QED BY <2>1, <2>2, <2>3, <2>4, <2>5, <2>6 DEF Next
<1> QED BY <1>1, <1>2, SendInvariant, PTL DEF Spec

\* The counters of imx_qp_stats stay within the depths the queue pair was created
\* with, whatever its user calls: nothing is ever posted beyond a queue.
THEOREM QueuePairTypes == Spec => []TypeOK
<1>1. SendInv(Values) /\ RecvInv(Imms) /\ sq \in Seq(Entry) => TypeOK
  <2> SUFFICES ASSUME SendInv(Values), RecvInv(Imms), sq \in Seq(Entry) PROVE TypeOK
    OBVIOUS
  <2>1. since \in 0 .. SendDepth
    BY EveryRange, DepthAssumption DEF SendInv
  <2>2. Len(recvCq) \in Nat
    BY LenProperties DEF RecvInv
  <2>3. rq \in 0 .. RecvDepth
    BY <2>2, DepthAssumption DEF RecvInv, ReceivesAccounted
  <2> QED BY <2>1, <2>3 DEF TypeOK, SendInv, RecvInv, Entry
<1> QED BY <1>1, SendInvariant, ReceiveInvariant, EntriesTyped, PTL

-----------------------------------------------------------------------------
(* A source in front of the window: the ZMQ receiver delivers what a sender *)
(* of numbered messages sends, as ImageFeed says.                           *)

MessageSet == [kind : {"start", "image", "end"}, series : Nat, id : Nat]

\* n counts the images of the series that is open at each message: START has number 0, END the
\* number of images before it, and a series is one series until its END.  Nothing is said of a
\* message that finds no series open, nor of an END that is missing.
ImageNumbers(p, n) ==
  /\ n \in [0 .. Len(p) -> Nat]
  /\ \A i \in 1 .. Len(p) :
       /\ p[i].kind = "start" => p[i].id = 0 /\ n[i] = 0
       /\ p[i].kind = "image" => n[i] = n[i - 1] + 1
       /\ p[i].kind = "end" => p[i].id = n[i - 1]
       /\ p[i].kind # "start" /\ i > 1 =>
            p[i - 1].kind = "end" \/ p[i].series = p[i - 1].series

PlansNumbered == \A p \in Plans : p \in Seq(MessageSet) /\ \E n : ImageNumbers(p, n)

\* The messages that went into what is downstream or waits: all but one that was refused.
Taken == IF pc = "failed" THEN got - 1 ELSE got

\* What waits for the next batch: the images that are staged, or the END behind them.
Waiting == IF pendingEnd THEN <<EndItem>> ELSE staging

ZmqTypes ==
  /\ plan \in Seq(MessageSet) /\ sent \in 0 .. Len(plan) /\ got \in 0 .. sent
  /\ pc = "failed" => got > 0
  /\ emitted \in Seq(MessageSet) /\ staging \in Seq(MessageSet)
  /\ seriesId \in Nat /\ images \in Nat
  /\ BatchSize \in Nat \ {0}

\* Nothing is lost, doubled or overtaken.
AsSent == emitted \o Waiting = SubSeq(plan, 1, Taken)

\* The stages of an activation, and what the staging area may hold at each.
Staging ==
  /\ Len(staging) < BatchSize
  /\ \A i \in 1 .. Len(staging) : staging[i].kind = "image" /\ staging[i].series = seriesId
  /\ pendingEnd => staging = <<>> /\ pc # "loop"
  /\ ~active => staging = <<>> /\ ~pendingEnd
  /\ ~ready => emitted = <<>> /\ staging = <<>> /\ ~pendingEnd /\ pc # "loop"

\* An open series is the one of the last message, with as many images.
OpenSeries(n) ==
  active /\ ~pendingEnd =>
    /\ Taken > 0
    /\ plan[Taken].kind # "end" /\ plan[Taken].series = seriesId
    /\ n[Taken] = images

ZmqState(n) == ZmqTypes /\ ImageNumbers(plan, n) /\ AsSent /\ Staging /\ OpenSeries(n)

ZmqInv == \E n : ZmqState(n)

LEMMA MessagesTaken ==
  ASSUME NEW p \in Seq(MessageSet), NEW k \in 0 .. Len(p)
  PROVE  /\ SubSeq(p, 1, k) \in Seq(MessageSet) /\ Len(SubSeq(p, 1, k)) = k
         /\ k < Len(p) => /\ p[k + 1] \in MessageSet
                          /\ SubSeq(p, 1, k + 1) = SubSeq(p, 1, k) \o <<p[k + 1]>>
<1>1. Len(p) \in Nat /\ \A i \in 1 .. k : p[i] \in MessageSet
  <2>1. Len(p) \in Nat
    BY LenProperties
  <2>2. ASSUME NEW i \in 1 .. Len(p) PROVE p[i] \in MessageSet
    BY ElementOfSeq
  <2> QED BY <2>1, <2>2
<1>2. SubSeq(p, 1, k) \in Seq(MessageSet) /\ Len(SubSeq(p, 1, k)) = k
  <2>1. k \in Int /\ (IF 1 <= k THEN k - 1 + 1 ELSE 0) = k
    BY <1>1
  <2>2. SubSeq(p, 1, k) \in Seq(MessageSet)
    BY <1>1, <2>1, SubSeqProperties
  <2>3. Len(SubSeq(p, 1, k)) = (IF 1 <= k THEN k - 1 + 1 ELSE 0)
    BY <1>1, <2>1, SubSeqProperties
  <2> QED BY <2>1, <2>2, <2>3
<1>3. ASSUME k < Len(p)
      PROVE  p[k + 1] \in MessageSet /\ SubSeq(p, 1, k + 1) = SubSeq(p, 1, k) \o <<p[k + 1]>>
  <2>1. 1 \in 1 .. Len(p) /\ k + 1 \in 1 .. Len(p) /\ (k + 1) - 1 = k
    BY <1>1, <1>3
  <2>2. p[k + 1] \in MessageSet
    BY <2>1, ElementOfSeq
  <2>3. SubSeq(p, 1, k + 1) = SubSeq(p, 1, (k + 1) - 1) \o <<p[k + 1]>>
    BY <2>1, SubSeqRecursiveSecond
  <2> QED BY <2>1, <2>2, <2>3
<1> QED BY <1>2, <1>3

\* What comes next downstream, in a prefix of the messages that is long enough.
LEMMA NextDelivered ==
  ASSUME NEW p \in Seq(MessageSet), NEW e \in Seq(MessageSet), NEW items \in Seq(MessageSet),
         NEW j \in 0 .. Len(p), NEW m \in j .. Len(p),
         e \o items = SubSeq(p, 1, j), items # <<>>
  PROVE  /\ Len(items) \in 1 .. (Len(SubSeq(p, 1, m)) - Len(e))
         /\ SubSeq(SubSeq(p, 1, m), Len(e) + 1, Len(e) + Len(items)) = items
<1>1. /\ Len(p) \in Nat /\ Len(e) \in Nat /\ Len(items) \in Nat \ {0}
      /\ j \in Nat /\ m \in Nat /\ j <= m /\ m \in 0 .. Len(p)
  BY LenProperties, EmptySeq
<1>2. e \o items \in Seq(MessageSet) /\ Len(e \o items) = Len(e) + Len(items)
  BY ConcatProperties
<1>3. Len(e) + Len(items) = j /\ Len(SubSeq(p, 1, m)) = m
  BY <1>1, <1>2, MessagesTaken
<1>4. PICK rest \in Seq(MessageSet) : SubSeq(p, 1, m) = (e \o items) \o rest
  <2>1. 1 \in 1 .. Len(p) + 1 /\ j \in (1 - 1) .. Len(p) /\ m \in j .. Len(p)
    BY <1>1
  <2>2. SubSeq(p, 1, j) \o SubSeq(p, j + 1, m) = SubSeq(p, 1, m)
    BY <2>1, ConcatAdjacentSubSeq
  <2>3. SubSeq(p, j + 1, m) \in Seq(MessageSet)
    <3>1. ASSUME NEW i \in (j + 1) .. m PROVE p[i] \in MessageSet
      <4>1. i \in 1 .. Len(p)
        BY <1>1
      <4> QED BY <4>1, ElementOfSeq
    <3>2. j + 1 \in Int /\ m \in Int
      BY <1>1
    <3> QED BY <3>1, <3>2, SubSeqProperties
  <2> QED BY <2>2, <2>3
<1>5. SubSeq((e \o items) \o rest, Len(e) + 1, Len(e) + Len(items))
        = SubSeq(e \o items, Len(e) + 1, Len(e) + Len(items))
  <2>1. /\ Len(e) + 1 \in 1 .. Len(e \o items)
        /\ Len(e) + Len(items) \in 1 .. Len(e \o items)
    BY <1>1, <1>2
  <2> QED BY <1>2, <2>1, SubSeqOfConcat1
<1>6. SubSeq(e \o items, Len(e) + 1, Len(e) + Len(items)) = SubSeq(items, 1, Len(items))
  <2>1. /\ Len(e) + 1 \in Len(e) + 1 .. Len(e) + Len(items)
        /\ Len(e) + Len(items) \in Len(e) + 1 .. Len(e) + Len(items)
        /\ (Len(e) + 1) - Len(e) = 1 /\ (Len(e) + Len(items)) - Len(e) = Len(items)
    BY <1>1
  <2>2. SubSeq(e \o items, Len(e) + 1, Len(e) + Len(items))
          = SubSeq(items, (Len(e) + 1) - Len(e), (Len(e) + Len(items)) - Len(e))
    BY <2>1, SubSeqOfConcat2
  <2> QED BY <2>1, <2>2
<1>7. SubSeq(items, 1, Len(items)) = items
  BY SubSeqFull
<1> QED BY <1>1, <1>3, <1>4, <1>5, <1>6, <1>7

\* A batch that continues what is downstream is a step of ImageFeed.
LEMMA EmissionDelivers ==
  ASSUME ZmqTypes, NEW items \in Seq(MessageSet), items # <<>>, NEW j \in 0 .. sent,
         emitted \o items = SubSeq(plan, 1, j), emitted' = emitted \o items,
         ready, UNCHANGED <<plan, sent, ready>>,
         \/ Len(items) = 1
         \/ /\ Len(items) <= BatchSize
            /\ \A i \in 1 .. Len(items) :
                 items[i].kind = "image" /\ items[i].series = seriesId
  PROVE  Feed!Next
<1> DEFINE q == SubSeq(plan, 1, sent)
<1>1. /\ Len(items) \in 1 .. (Len(q) - Len(emitted))
      /\ SubSeq(q, Len(emitted) + 1, Len(emitted) + Len(items)) = items
  <2>1. /\ plan \in Seq(MessageSet) /\ emitted \in Seq(MessageSet)
        /\ j \in 0 .. Len(plan) /\ sent \in j .. Len(plan)
    <3>1. Len(plan) \in Nat
      BY LenProperties DEF ZmqTypes
    <3> QED BY <3>1 DEF ZmqTypes
  <2> QED BY <2>1, NextDelivered
<1>2. Feed!Message(items)
  <2>1. Len(items) \in Nat /\ Len(items) >= 1 /\ DOMAIN items = 1 .. Len(items)
    BY <1>1, LenProperties
  <2>2. CASE Len(items) = 1
    BY <2>2 DEF Feed!Message
  <2>3. CASE /\ Len(items) <= BatchSize
             /\ \A i \in 1 .. Len(items) :
                  items[i].kind = "image" /\ items[i].series = seriesId
    <3>1. 1 \in 1 .. Len(items)
      BY <2>1
    <3>2. Len(items) \in 1 .. BatchSize
      BY <2>1, <2>3 DEF ZmqTypes
    <3>3. \A i \in DOMAIN items : items[i].kind = "image" /\ items[i].series = items[1].series
      BY <2>1, <2>3, <3>1
    <3> QED BY <3>2, <3>3 DEF Feed!Message
  <2> QED BY <2>2, <2>3
<1>3. /\ Feed!NextItems(Len(items)) = items
      /\ q' = q
  BY <1>1 DEF Feed!NextItems
<1> QED BY <1>1, <1>2, <1>3 DEF Feed!Next, Feed!Deliver

-----------------------------------------------------------------------------
(* The receiver's steps.                                                    *)

\* What a step of the refinement is.
Delivers == Feed!Next \/ UNCHANGED Feed!feedVars

LEMMA ZmqStart ==
  ASSUME PlansNumbered, ReceiverInit
  PROVE  ZmqInv /\ Feed!Init
<1>1. PICK n : ImageNumbers(plan, n)
  BY DEF ReceiverInit, PlansNumbered
<1>2. plan \in Seq(MessageSet) /\ Len(plan) \in Nat
  BY LenProperties DEF ReceiverInit, PlansNumbered
<1>3. SubSeq(plan, 1, 0) = <<>>
  BY <1>2, SubSeqEmpty
<1>4. /\ <<>> \in Seq(MessageSet) /\ Len(<<>>) = 0
      /\ sent = 0 /\ pc = "idle" /\ got = 0 /\ ready = FALSE /\ active = FALSE
      /\ pendingEnd = FALSE /\ seriesId = 0 /\ images = 0 /\ staging = <<>> /\ emitted = <<>>
  BY DEF ReceiverInit
<1>5. BatchSize \in Nat \ {0}
  BY ReceiverAssumption
<1>6. ZmqTypes
  BY <1>2, <1>4, <1>5 DEF ZmqTypes
<1>7. AsSent
  <2>1. <<>> \o <<>> = <<>>
    OBVIOUS
  <2> QED BY <1>3, <1>4, <2>1 DEF AsSent, Waiting, Taken
<1>8. Staging /\ OpenSeries(n)
  BY <1>4, <1>5 DEF Staging, OpenSeries
<1>9. Feed!Init
  BY <1>3, <1>4 DEF Feed!Init
<1> QED BY <1>1, <1>6, <1>7, <1>8, <1>9 DEF ZmqInv, ZmqState

\* The message an activation finds, and what the receiver knows of it.
LEMMA MessageFound ==
  ASSUME NEW n, ZmqState(n), pc = "loop", got < sent
  PROVE  /\ Taken = got /\ ~pendingEnd /\ ready
         /\ got + 1 \in 0 .. sent /\ got \in 0 .. sent
         /\ emitted \o staging = SubSeq(plan, 1, got)
         /\ SubSeq(plan, 1, got + 1) = (emitted \o staging) \o <<Message>>
         /\ Message \in MessageSet
         /\ Message.kind = "start" => Message.id = 0 /\ n[got + 1] = 0
         /\ active /\ Message.kind # "start" => Message.series = seriesId
         /\ active /\ Message.kind = "image" => n[got + 1] = images + 1
         /\ active /\ Message.kind = "end" => Message.id = images
<1>1. /\ Taken = got /\ ~pendingEnd /\ ready /\ Waiting = staging
  BY DEF ZmqState, Staging, Taken, Waiting
<1>2. /\ plan \in Seq(MessageSet) /\ Len(plan) \in Nat
      /\ got \in 0 .. sent /\ sent \in 0 .. Len(plan) /\ images \in Nat
  BY LenProperties DEF ZmqState, ZmqTypes
<1>3. /\ got + 1 \in 0 .. sent /\ got \in 0 .. Len(plan) /\ got < Len(plan)
      /\ got + 1 \in 1 .. Len(plan) /\ (got + 1) - 1 = got
      /\ (got > 0 => got + 1 > 1)
  BY <1>2
<1>4. emitted \o staging = SubSeq(plan, 1, got)
  BY <1>1 DEF ZmqState, AsSent
<1>5. /\ SubSeq(plan, 1, got + 1) = (emitted \o staging) \o <<Message>>
      /\ Message \in MessageSet
  BY <1>2, <1>3, <1>4, MessagesTaken DEF Message
<1>6. /\ Message.kind = "start" => Message.id = 0 /\ n[got + 1] = 0
      /\ Message.kind = "image" => n[got + 1] = n[got] + 1
      /\ Message.kind = "end" => Message.id = n[got]
      /\ Message.kind # "start" /\ got > 0 =>
           plan[got].kind = "end" \/ Message.series = plan[got].series
  BY <1>3 DEF ZmqState, ImageNumbers, Message
<1>7. active => /\ got > 0 /\ plan[got].kind # "end" /\ plan[got].series = seriesId
                /\ n[got] = images
  BY <1>1 DEF ZmqState, OpenSeries
<1> QED BY <1>1, <1>2, <1>3, <1>4, <1>5, <1>6, <1>7

LEMMA RefusalStep ==
  ASSUME NEW n, ZmqState(n), pc = "loop", got < sent, got' = got + 1,
         UNCHANGED <<plan, sent>>, Reject
  PROVE  ZmqState(n)' /\ Delivers
<1>1. /\ pc' = "failed" /\ ready' = ready /\ active' = active /\ pendingEnd' = pendingEnd
      /\ seriesId' = seriesId /\ images' = images /\ staging' = staging /\ emitted' = emitted
      /\ plan' = plan /\ sent' = sent
  BY DEF Reject, flags, outVars
<1>2. Taken = got /\ got' \in 0 .. sent /\ got' > 0 /\ Taken' = got /\ Waiting' = Waiting
  <2>1. got \in Nat
    BY DEF ZmqState, ZmqTypes
  <2>2. Taken = got /\ got + 1 \in 0 .. sent
    BY MessageFound
  <2> QED BY <1>1, <2>1, <2>2 DEF Taken, Waiting, EndItem
<1>3. ZmqTypes'
  BY <1>1, <1>2 DEF ZmqState, ZmqTypes
<1>4. AsSent' /\ Staging' /\ OpenSeries(n)' /\ ImageNumbers(plan, n)'
  BY <1>1, <1>2 DEF ZmqState, AsSent, Staging, OpenSeries
<1>5. UNCHANGED Feed!feedVars
  BY <1>1 DEF Feed!feedVars
<1> QED BY <1>3, <1>4, <1>5 DEF ZmqState, Delivers

LEMMA StartStep ==
  ASSUME NEW n, ZmqState(n), ReceiveStart
  PROVE  ZmqState(n)' /\ Delivers
<1>1. /\ pc = "loop" /\ got < sent /\ Message.kind = "start" /\ got' = got + 1
      /\ plan' = plan /\ sent' = sent
  BY DEF ReceiveStart, Receive
<1>2. CASE active
  <2>1. Reject
    BY <1>2 DEF ReceiveStart
  <2> QED BY <1>1, <2>1, RefusalStep
<1>3. CASE ~active
  <2> DEFINE item == Item("start", Message.series, 0)
  <2>1. /\ active' = TRUE /\ seriesId' = Message.series /\ images' = 0
        /\ emitted' = emitted \o <<item>> /\ staging' = <<>> /\ pc' = "idle"
        /\ ready' = ready /\ pendingEnd' = pendingEnd
    BY <1>3 DEF ReceiveStart, Emit
  <2>2. /\ ~pendingEnd /\ ready /\ got + 1 \in 0 .. sent /\ got \in 0 .. sent
        /\ emitted \o staging = SubSeq(plan, 1, got)
        /\ SubSeq(plan, 1, got + 1) = (emitted \o staging) \o <<Message>>
        /\ Message \in MessageSet /\ Message.id = 0 /\ n[got + 1] = 0
    BY <1>1, MessageFound
  <2>3. item = Message
    BY <1>1, <2>2 DEF Item, MessageSet
  <2>4. staging = <<>> /\ emitted \in Seq(MessageSet) /\ emitted \o staging = emitted
    BY <1>3, ConcatEmptySeq DEF ZmqState, Staging, ZmqTypes
  <2> HIDE DEF item
  <2>5. /\ <<item>> \in Seq(MessageSet) /\ <<item>> # <<>> /\ Len(<<item>>) = 1
        /\ <<>> \in Seq(MessageSet) /\ Len(<<>>) = 0 /\ Message.series \in Nat
    BY <2>2, <2>3 DEF MessageSet
  <2>6. emitted' = SubSeq(plan, 1, got + 1) /\ emitted' \in Seq(MessageSet)
    BY <2>1, <2>2, <2>3, <2>4, <2>5, ConcatProperties
  <2>7. Delivers
    BY <1>1, <2>1, <2>2, <2>5, <2>6, EmissionDelivers DEF Delivers, ZmqState
  <2>8. Taken' = got + 1 /\ Waiting' = <<>>
    BY <1>1, <2>1, <2>2 DEF Taken, Waiting
  <2>9. ZmqTypes'
    BY <1>1, <2>1, <2>2, <2>5, <2>6 DEF ZmqState, ZmqTypes
  <2>10. AsSent'
    BY <1>1, <2>6, <2>8, ConcatEmptySeq DEF AsSent
  <2>11. Staging'
    BY <2>1, <2>2, <2>5 DEF Staging, ZmqState, ZmqTypes
  <2>12. OpenSeries(n)'
    <3>1. got \in Nat /\ plan[got + 1] = Message
      BY <2>2 DEF Message
    <3> QED BY <1>1, <2>1, <2>2, <2>8, <3>1 DEF OpenSeries
  <2> QED BY <1>1, <2>7, <2>9, <2>10, <2>11, <2>12 DEF ZmqState
<1> QED BY <1>2, <1>3

LEMMA ImageStep ==
  ASSUME NEW n, ZmqState(n), ReceiveImage
  PROVE  ZmqState(n)' /\ Delivers
<1>1. /\ pc = "loop" /\ got < sent /\ Message.kind = "image" /\ got' = got + 1
      /\ plan' = plan /\ sent' = sent
  BY DEF ReceiveImage, Receive
<1>2. CASE ~active
  <2>1. Reject
    BY <1>2 DEF ReceiveImage
  <2> QED BY <1>1, <2>1, RefusalStep
<1>3. CASE active
  <2> DEFINE item == Item("image", seriesId, Message.id)
             more == Append(staging, item)
  <2>1. /\ images' = images + 1 /\ ready' = ready /\ active' = active
        /\ pendingEnd' = pendingEnd /\ seriesId' = seriesId
        /\ \/ /\ Len(staging) + 1 = BatchSize
              /\ emitted' = emitted \o more /\ staging' = <<>> /\ pc' = "idle"
           \/ /\ Len(staging) + 1 # BatchSize
              /\ emitted' = emitted /\ staging' = more /\ pc' = pc
    BY <1>3 DEF ReceiveImage, Emit, Staged, BatchFull, outVars
  <2>2. /\ ~pendingEnd /\ ready /\ got + 1 \in 0 .. sent /\ got \in 0 .. sent
        /\ emitted \o staging = SubSeq(plan, 1, got)
        /\ SubSeq(plan, 1, got + 1) = (emitted \o staging) \o <<Message>>
        /\ Message \in MessageSet /\ Message.series = seriesId
        /\ n[got + 1] = images + 1
    BY <1>1, <1>3, MessageFound
  <2>3. item = Message /\ item.kind = "image" /\ item.series = seriesId
    BY <1>1, <2>2 DEF Item, MessageSet
  <2>4. /\ emitted \in Seq(MessageSet) /\ staging \in Seq(MessageSet) /\ Len(staging) \in Nat
        /\ images \in Nat /\ BatchSize \in Nat \ {0} /\ Len(staging) < BatchSize
        /\ \A i \in 1 .. Len(staging) : staging[i].kind = "image" /\ staging[i].series = seriesId
    BY LenProperties DEF ZmqState, ZmqTypes, Staging
  <2>5. item \in MessageSet
    BY <2>2, <2>3
  <2> HIDE DEF item
  <2>6. /\ more \in Seq(MessageSet) /\ more # <<>> /\ Len(more) = Len(staging) + 1
        /\ \A i \in 1 .. Len(staging) : more[i] = staging[i]
        /\ more[Len(staging) + 1] = item
    BY <2>4, <2>5, AppendProperties
  <2>7. more = staging \o <<item>>
    BY <2>4, <2>5, AppendIsConcat
  <2>8. emitted \o more = SubSeq(plan, 1, got + 1)
    <3>1. <<item>> \in Seq(MessageSet)
      BY <2>5
    <3>2. (emitted \o staging) \o <<item>> = emitted \o (staging \o <<item>>)
      BY <2>4, <3>1, ConcatAssociative
    <3> QED BY <2>2, <2>3, <2>7, <3>2
  <2> HIDE DEF more
  <2>9. \A i \in 1 .. Len(more) : more[i].kind = "image" /\ more[i].series = seriesId
    <3> SUFFICES ASSUME NEW i \in 1 .. Len(more)
                 PROVE  more[i].kind = "image" /\ more[i].series = seriesId
      OBVIOUS
    <3>1. CASE i \in 1 .. Len(staging)
      BY <2>4, <2>6, <3>1
    <3>2. CASE i = Len(staging) + 1
      BY <2>3, <2>6, <3>2
    <3> QED BY <2>4, <2>6, <3>1, <3>2
  <2>10. ImageNumbers(plan, n)' /\ <<>> \in Seq(MessageSet) /\ Len(<<>>) = 0
    BY <1>1 DEF ZmqState
  <2>11. OpenSeries(n)'
    <3>1. got \in Nat /\ plan[got + 1] = Message
      BY <2>2 DEF Message
    <3>2. Taken' = got + 1
      BY <1>1, <2>1 DEF Taken
    <3> QED BY <1>1, <2>1, <2>2, <3>1, <3>2 DEF OpenSeries
  <2>12. CASE /\ Len(staging) + 1 = BatchSize
              /\ emitted' = emitted \o more /\ staging' = <<>> /\ pc' = "idle"
    <3>1. Delivers
      <4>1. Len(more) <= BatchSize
        BY <2>4, <2>6, <2>12
      <4> QED BY <1>1, <2>1, <2>2, <2>6, <2>8, <2>9, <2>12, <4>1, EmissionDelivers
              DEF Delivers, ZmqState
    <3>2. emitted' \in Seq(MessageSet)
      BY <2>4, <2>6, <2>12, ConcatProperties
    <3>3. ZmqTypes'
      BY <1>1, <2>1, <2>2, <2>4, <2>10, <2>12, <3>2 DEF ZmqState, ZmqTypes
    <3>4. AsSent'
      <4>1. Waiting' = <<>> /\ Taken' = got + 1
        BY <1>1, <2>1, <2>2, <2>12 DEF Waiting, Taken
      <4> QED BY <1>1, <2>8, <2>12, <3>2, <4>1, ConcatEmptySeq DEF AsSent
    <3>5. Staging'
      BY <1>3, <2>1, <2>2, <2>4, <2>10, <2>12 DEF Staging
    <3> QED BY <2>10, <2>11, <3>1, <3>3, <3>4, <3>5 DEF ZmqState
  <2>13. CASE /\ Len(staging) + 1 # BatchSize
              /\ emitted' = emitted /\ staging' = more /\ pc' = pc
    <3>1. Delivers
      BY <1>1, <2>1, <2>13 DEF Delivers, Feed!feedVars
    <3>2. ZmqTypes'
      BY <1>1, <2>1, <2>2, <2>4, <2>6, <2>13 DEF ZmqState, ZmqTypes
    <3>3. AsSent'
      <4>1. Waiting' = more /\ Taken' = got + 1
        BY <1>1, <2>1, <2>2, <2>13 DEF Waiting, Taken
      <4> QED BY <1>1, <2>8, <2>13, <4>1 DEF AsSent
    <3>4. Staging'
      BY <1>3, <2>1, <2>2, <2>4, <2>6, <2>9, <2>13 DEF Staging
    <3> QED BY <2>10, <2>11, <3>1, <3>2, <3>3, <3>4 DEF ZmqState
  <2> QED BY <2>1, <2>12, <2>13
<1> QED BY <1>2, <1>3

LEMMA EndStep ==
  ASSUME NEW n, ZmqState(n), ReceiveEnd
  PROVE  ZmqState(n)' /\ Delivers
<1>1. /\ pc = "loop" /\ got < sent /\ Message.kind = "end" /\ got' = got + 1
      /\ plan' = plan /\ sent' = sent
  BY DEF ReceiveEnd, Receive
<1>2. CASE ~active
  <2>1. Reject
    BY <1>2 DEF ReceiveEnd
  <2> QED BY <1>1, <2>1, RefusalStep
<1>3. CASE active
  <2> DEFINE item == EndItem
  <2>1. /\ pendingEnd' = (staging # <<>>) /\ active' = (staging # <<>>)
        /\ emitted' = emitted \o (IF staging = <<>> THEN <<item>> ELSE staging)
        /\ staging' = <<>> /\ pc' = "idle"
        /\ ready' = ready /\ seriesId' = seriesId /\ images' = images
    BY <1>3 DEF ReceiveEnd, Emit, EndNow
  <2>2. /\ ~pendingEnd /\ ready /\ got + 1 \in 0 .. sent /\ got \in 0 .. sent
        /\ emitted \o staging = SubSeq(plan, 1, got)
        /\ SubSeq(plan, 1, got + 1) = (emitted \o staging) \o <<Message>>
        /\ Message \in MessageSet /\ Message.series = seriesId /\ Message.id = images
    BY <1>1, <1>3, MessageFound
  <2>3. item = Message /\ item' = item
    BY <1>1, <2>1, <2>2 DEF EndItem, Item, MessageSet
  <2>4. /\ emitted \in Seq(MessageSet) /\ staging \in Seq(MessageSet) /\ Len(staging) \in Nat
        /\ BatchSize \in Nat \ {0} /\ Len(staging) < BatchSize
        /\ \A i \in 1 .. Len(staging) : staging[i].kind = "image" /\ staging[i].series = seriesId
    BY LenProperties DEF ZmqState, ZmqTypes, Staging
  <2>5. item \in MessageSet
    BY <2>2, <2>3
  <2> HIDE DEF item
  <2>6. /\ <<item>> \in Seq(MessageSet) /\ <<item>> # <<>> /\ Len(<<item>>) = 1
        /\ <<>> \in Seq(MessageSet) /\ Len(<<>>) = 0
    BY <2>5
  <2>7. ImageNumbers(plan, n)' /\ Taken' = got + 1
    BY <1>1, <2>1 DEF ZmqState, Taken
  <2>8. emitted' \in Seq(MessageSet)
    BY <2>1, <2>4, <2>6, ConcatProperties
  <2>9. ZmqTypes'
    BY <1>1, <2>1, <2>2, <2>6, <2>8 DEF ZmqState, ZmqTypes
  <2>10. Staging'
    BY <2>1, <2>2, <2>4, <2>6 DEF Staging
  <2>11. OpenSeries(n)'
    BY <2>1 DEF OpenSeries
  <2>12. CASE staging = <<>>
    <3>1. emitted \o staging = emitted
      BY <2>4, <2>12, ConcatEmptySeq
    <3>2. emitted' = SubSeq(plan, 1, got + 1) /\ emitted' = emitted \o <<item>>
      BY <2>1, <2>2, <2>3, <2>12, <3>1
    <3>3. Delivers
      BY <1>1, <2>1, <2>2, <2>6, <3>2, EmissionDelivers DEF Delivers, ZmqState
    <3>4. Waiting' = <<>>
      BY <2>1, <2>12 DEF Waiting
    <3>5. AsSent'
      BY <1>1, <2>7, <2>8, <3>2, <3>4, ConcatEmptySeq DEF AsSent
    <3> QED BY <2>7, <2>9, <2>10, <2>11, <3>3, <3>5 DEF ZmqState
  <2>13. CASE staging # <<>>
    <3>1. emitted' = emitted \o staging
      BY <2>1, <2>13
    <3>2. Delivers
      <4>1. /\ Len(staging) <= BatchSize /\ staging \in Seq(MessageSet) /\ ZmqTypes
            /\ UNCHANGED <<plan, sent, ready>>
        BY <1>1, <2>1, <2>4 DEF ZmqState
      <4>2. Feed!Next
        BY <2>2, <2>4, <2>13, <3>1, <4>1, EmissionDelivers
      <4> QED BY <4>2 DEF Delivers
    <3>3. Waiting' = <<item>>
      BY <2>1, <2>3, <2>13 DEF Waiting, item
    <3>4. AsSent'
      BY <1>1, <2>2, <2>3, <2>7, <3>1, <3>3 DEF AsSent
    <3> QED BY <2>7, <2>9, <2>10, <2>11, <3>2, <3>4 DEF ZmqState
  <2> QED BY <2>12, <2>13
<1> QED BY <1>2, <1>3

\* An END that had to wait goes out by itself.
LEMMA PendingEndStep ==
  ASSUME NEW n, ZmqState(n), EmitPendingEnd
  PROVE  ZmqState(n)' /\ Delivers
<1> DEFINE item == EndItem
<1>1. /\ pc = "idle" /\ pc' = "idle" /\ ready /\ ready' = ready /\ pendingEnd
      /\ pendingEnd' = FALSE /\ active' = FALSE
      /\ emitted' = emitted \o <<item>> /\ staging' = <<>>
      /\ plan' = plan /\ sent' = sent /\ got' = got
      /\ seriesId' = seriesId /\ images' = images
  BY DEF EmitPendingEnd, Activated, Emit
<1>2. item \in MessageSet
  BY DEF ZmqState, ZmqTypes, EndItem, Item, MessageSet
<1>3. /\ Taken = got /\ Taken' = got /\ got \in 0 .. sent
      /\ emitted \o <<item>> = SubSeq(plan, 1, got) /\ Waiting' = <<>>
      /\ emitted \in Seq(MessageSet) /\ BatchSize \in Nat \ {0}
  BY <1>1 DEF ZmqState, ZmqTypes, AsSent, Taken, Waiting
<1> HIDE DEF item
<1>4. /\ <<item>> \in Seq(MessageSet) /\ <<item>> # <<>> /\ Len(<<item>>) = 1
      /\ <<>> \in Seq(MessageSet) /\ Len(<<>>) = 0
  BY <1>2
<1>5. Delivers
  BY <1>1, <1>3, <1>4, EmissionDelivers DEF Delivers, ZmqState
<1>6. emitted' \in Seq(MessageSet)
  BY <1>1, <1>3, <1>4, ConcatProperties
<1>7. ZmqTypes'
  BY <1>1, <1>3, <1>4, <1>6 DEF ZmqState, ZmqTypes
<1>8. AsSent'
  BY <1>1, <1>3, <1>6, ConcatEmptySeq DEF AsSent
<1>9. Staging' /\ OpenSeries(n)' /\ ImageNumbers(plan, n)'
  BY <1>1, <1>3, <1>4 DEF ZmqState, Staging, OpenSeries
<1> QED BY <1>5, <1>7, <1>8, <1>9 DEF ZmqState

LEMMA ReadyStep ==
  ASSUME NEW n, ZmqState(n), EmitReady
  PROVE  ZmqState(n)' /\ Delivers
<1>1. /\ pc = "idle" /\ pc' = "idle" /\ ~ready /\ ready' = TRUE
      /\ emitted' = emitted \o <<>> /\ staging' = <<>>
      /\ plan' = plan /\ sent' = sent /\ got' = got /\ active' = active
      /\ pendingEnd' = pendingEnd /\ seriesId' = seriesId /\ images' = images
  BY DEF EmitReady, Activated, Emit
<1>2. emitted = <<>> /\ staging = <<>> /\ emitted' = <<>>
  BY <1>1 DEF ZmqState, Staging
<1>3. Delivers
  BY <1>1, <1>2 DEF Delivers, Feed!Next, Feed!Announce
<1>4. Waiting' = Waiting /\ Taken' = Taken
  BY <1>1, <1>2 DEF Waiting, Taken, EndItem
<1>5. ZmqTypes' /\ AsSent' /\ Staging' /\ OpenSeries(n)' /\ ImageNumbers(plan, n)'
  BY <1>1, <1>2, <1>4 DEF ZmqState, ZmqTypes, AsSent, Staging, OpenSeries
<1> QED BY <1>3, <1>5 DEF ZmqState

\* The sender's next message.
LEMMA SendStep ==
  ASSUME NEW n, ZmqState(n), SendMessage
  PROVE  ZmqState(n)' /\ Delivers
<1> DEFINE q == SubSeq(plan, 1, sent)
<1>1. /\ sent' = sent + 1 /\ sent < Len(plan) /\ plan' = plan /\ pc' = pc
      /\ got' = got /\ ready' = ready /\ active' = active /\ pendingEnd' = pendingEnd
      /\ seriesId' = seriesId /\ images' = images /\ staging' = staging /\ emitted' = emitted
  BY DEF SendMessage, flags, outVars
<1>2. /\ plan \in Seq(MessageSet) /\ Len(plan) \in Nat
      /\ sent \in 0 .. Len(plan) /\ sent + 1 \in 0 .. Len(plan) /\ got \in 0 .. sent + 1
  BY <1>1, LenProperties DEF ZmqState, ZmqTypes
<1>3. /\ q \in Seq(MessageSet) /\ Len(q) = sent /\ q' \in Seq(MessageSet) /\ Len(q') = sent + 1
      /\ q' = q \o <<plan[sent + 1]>> /\ plan[sent + 1] \in MessageSet
  BY <1>1, <1>2, MessagesTaken
<1>4. SubSeq(q', 1, Len(q)) = q
  <2>1. CASE sent = 0
    <3>1. Len(q) < 1 /\ q = <<>>
      BY <1>2, <1>3, <2>1, EmptySeq
    <3> HIDE DEF q
    <3>2. SubSeq(q', 1, Len(q)) = <<>>
      BY <1>3, <2>1, SubSeqEmpty
    <3> QED BY <3>1, <3>2
  <2>2. CASE sent # 0
    <3>1. 1 \in 1 .. Len(q) /\ Len(q) \in 1 .. Len(q)
      BY <1>2, <1>3, <2>2
    <3>2. <<plan[sent + 1]>> \in Seq(MessageSet)
      BY <1>3
    <3> HIDE DEF q
    <3>3. SubSeq(q \o <<plan[sent + 1]>>, 1, Len(q)) = SubSeq(q, 1, Len(q))
      BY <1>3, <3>1, <3>2, SubSeqOfConcat1
    <3>4. SubSeq(q, 1, Len(q)) = q
      BY <1>3, SubSeqFull
    <3> QED BY <1>3, <3>3, <3>4
  <2> QED BY <2>1, <2>2
<1>5. Delivers
  <2>1. Len(q') > Len(q)
    BY <1>2, <1>3
  <2> QED BY <1>1, <1>4, <2>1 DEF Delivers, Feed!Next, Feed!Produce
<1>6. ZmqTypes'
  BY <1>1, <1>2 DEF ZmqState, ZmqTypes
<1>7. Waiting' = Waiting /\ Taken' = Taken
  BY <1>1 DEF Waiting, Taken, EndItem
<1>8. AsSent' /\ Staging' /\ OpenSeries(n)' /\ ImageNumbers(plan, n)'
  BY <1>1, <1>7 DEF ZmqState, AsSent, Staging, OpenSeries
<1> QED BY <1>5, <1>6, <1>8 DEF ZmqState

\* Steps that touch none of the messages: an activation that begins or ends, a release, a stop.
LEMMA QuietZmqStep ==
  ASSUME NEW n, ZmqState(n),
         \/ Enter \/ Return \/ Release \/ RequestStop \/ Stop
         \/ UNCHANGED receiverVars
  PROVE  ZmqState(n)' /\ Delivers
<1>1. /\ plan' = plan /\ sent' = sent /\ got' = got /\ ready' = ready
      /\ active' = active /\ pendingEnd' = pendingEnd /\ seriesId' = seriesId /\ images' = images
      /\ staging' = staging /\ emitted' = emitted
  BY DEF Enter, Return, Release, RequestStop, Stop, receiverVars, flags,
         outVars
<1>2. /\ pc' # pc => pc # "failed" /\ pc' # "failed"
      /\ pc' = "loop" => pc = "loop" \/ (ready /\ ~pendingEnd)
  BY DEF Enter, Return, Release, RequestStop, Stop, receiverVars, flags,
         outVars, Activated
<1>3. Waiting' = Waiting /\ Taken' = Taken
  BY <1>1, <1>2 DEF Waiting, Taken, EndItem
<1>4. ZmqTypes' /\ AsSent' /\ OpenSeries(n)' /\ ImageNumbers(plan, n)'
  BY <1>1, <1>2, <1>3 DEF ZmqState, ZmqTypes, AsSent, OpenSeries
<1>5. Staging'
  BY <1>1, <1>2 DEF ZmqState, Staging
<1>6. Delivers
  BY <1>1 DEF Delivers, Feed!feedVars
<1> QED BY <1>4, <1>5, <1>6 DEF ZmqState

LEMMA MessageStep ==
  ASSUME NEW n, ZmqState(n), [ReceiverNext]_receiverVars
  PROVE  ZmqState(n)' /\ Delivers
<1>1. CASE EmitReady BY <1>1, ReadyStep
<1>2. CASE EmitPendingEnd BY <1>2, PendingEndStep
<1>3. CASE ReceiveStart BY <1>3, StartStep
<1>4. CASE ReceiveEnd BY <1>4, EndStep
<1>5. CASE ReceiveImage BY <1>5, ImageStep
<1>6. CASE SendMessage BY <1>6, SendStep
<1>7. CASE \/ Enter \/ Return \/ Release \/ RequestStop \/ Stop
           \/ UNCHANGED receiverVars
  BY <1>7, QuietZmqStep
<1> QED BY <1>1, <1>2, <1>3, <1>4, <1>5, <1>6, <1>7 DEF ReceiverNext, Compute

LEMMA ZmqStep ==
  ASSUME ZmqInv, [ReceiverNext]_receiverVars
  PROVE  ZmqInv' /\ Delivers
<1>1. PICK n : ZmqState(n)
  BY DEF ZmqInv
<1>2. ZmqState(n)' /\ Delivers
  BY <1>1, MessageStep
<1> QED BY <1>2 DEF ZmqInv

\* The invariant of the ZMQ receiver: what went downstream and what waits are the sender's
\* messages up to the last one taken, and the series it has open is that message's.
THEOREM MessagesInvariance ==
  ASSUME PlansNumbered
  PROVE  ReceiverSpec => []ZmqInv
<1>1. ReceiverInit => ZmqInv
  BY ZmqStart
<1>2. ZmqInv /\ [ReceiverNext]_receiverVars => ZmqInv'
  BY ZmqStep
<1> QED BY <1>1, <1>2, PTL DEF ReceiverSpec

\* The ZMQ receiver (ZmqRxOp::compute) delivers a sender's messages in order and exactly once,
\* in batches of one series that are never larger than a full one, END behind all images of its
\* series and with their number: whatever the sizes, the window, the sender's messages, when
\* they come and what is refused.
THEOREM MessagesAreDelivered ==
  ASSUME PlansNumbered
  PROVE  ReceiverSpec => ImplementsFeed
<1>1. ReceiverInit => Feed!Init
  BY ZmqStart
<1>2. ZmqInv /\ [ReceiverNext]_receiverVars => [Feed!Next]_(Feed!feedVars)
  BY ZmqStep DEF Delivers
<1> QED BY <1>1, <1>2, MessagesInvariance, PTL DEF ReceiverSpec, ImplementsFeed, Feed!Spec

-----------------------------------------------------------------------------
(* The detector in front of the receiver: the messages are those of a DCU   *)
(* that detector_setup.py and others arm and disarm while they are read.    *)

\* Without a DCU: a plan of the sender's own.
Aside == stage = "shell" /\ calls = MaxCalls /\ state = "na" /\ good = {}

\* What check compares and apply sets.
Settable ==
  {<<"mode", "enabled">>, <<"binning_mode", "2x2">>, <<"ntrigger", Scan>>, <<"nimages", 1>>}
    \cup {<<"frame_time", c.frame_time>> : c \in Calls}

DcuTypes ==
  /\ {"mode", "ntrigger", "nimages"} \subseteq DOMAIN settings
  /\ settings["ntrigger"] \in Nat /\ settings["nimages"] \in Nat
  /\ run \in [series : Nat, left : Nat, per : Nat, sent : Nat, streamed : BOOLEAN]
  /\ stage # "shell" => call \in Calls
  /\ differ \in Seq(Settable) /\ asked \in Nat \ {0}

\* The stream is of the series up to the last one armed, and of that one while it is open.
StreamInv(n) ==
  /\ \A i \in 1 .. Len(plan) : plan[i].series <= run.series
  /\ state = "armed" /\ run.streamed =>
       /\ Len(plan) > 0 /\ plan[Len(plan)].kind # "end" /\ plan[Len(plan)].series = run.series
       /\ n[Len(plan)] = run.sent

\* In p, the messages k + 1 to k + m are the first m of a whole scan of series s, and no others
\* are of s.
ScanAt(p, s, k, m) ==
  \A i \in 1 .. Len(p) : IF i \in (k + 1) .. (k + m) THEN p[i] = WholeScan(s)[i - k] ELSE p[i].series # s

\* The stream has all of a scan, as series s.
Streamed(s) == \E k \in 0 .. Len(plan) : k + Scan + 2 <= Len(plan) /\ ScanAt(plan, s, k, Scan + 2)

\* Parameter j of a check is as it is needed, or the DCU has none.
Fitting(j) ==
  LET n == Setup!Needed(call)[j]
  IN n[1] \in DOMAIN settings => settings[n[1]] = n[2]

\* The detector is set up for a scan.
Chosen == settings["mode"] = "enabled" /\ settings["ntrigger"] = Scan /\ settings["nimages"] = 1

\* A scan is under way, or has come to its end.
Scanning == call.step = "scan" /\ (stage \in {"armed", "scan"} \/ (stage = "disarm" /\ code = 0))

\* What a check has found, and what the arm command of a scan finds.
CheckInv ==
  /\ stage = "check" /\ differ = <<>> =>
       \A j \in 1 .. Len(Setup!Needed(call)) : j < asked => Fitting(j)
  /\ stage = "problems" /\ differ = <<>> => Chosen
  /\ stage = "arm" /\ call.step = "scan" => Chosen

\* The stream ends with what a scan under way has sent.
ScanningInv ==
  Scanning =>
    /\ state = "armed" /\ run.streamed /\ run.per = 1 /\ run.left + run.sent = Scan
    /\ \E k \in 0 .. Len(plan) :
         k + run.sent + 1 = Len(plan) /\ ScanAt(plan, run.series, k, run.sent + 1)
    /\ stage = "disarm" => run.left = 0

\* A series that is over, with all of a scan.
Over(s) == s <= run.series /\ (s = run.series => state # "armed") /\ Streamed(s)

ScannedInv ==
  /\ call.step = "scan" /\ stage = "disarmed" /\ code = 0 => Over(run.series)
  /\ \A s \in good : s \in Nat /\ Over(s)

\* What `scan` knows of parameters and stream at each of its steps.
ScanInv == CheckInv /\ ScanningInv /\ ScannedInv

\* The invariant of an acquisition.
AcquisitionInv ==
  /\ \E n : ZmqState(n) /\ (Aside \/ StreamInv(n))
  /\ Aside \/ (DcuTypes /\ (meddled \/ ScanInv))

\* When `scan` has returned 0, the detector sent one image for every position of the scan, as one
\* series with its START and END, and what is downstream of it is the beginning of that.
ScansWhole ==
  meddled \/ \A s \in good :
    \E k \in 0 .. Len(plan) :
      /\ k + Scan + 2 <= Len(plan) /\ ScanAt(plan, s, k, Scan + 2)
      /\ ScanAt(emitted, s, k, Scan + 2)

\* A message of the DCU is an item of the feed.
LEMMA ItemIs ==
  ASSUME NEW kind \in {"start", "image", "end"}, NEW s \in Nat, NEW id \in Nat
  PROVE  /\ Setup!Message(kind, s, id) = Item(kind, s, id) /\ Item(kind, s, id) \in MessageSet
         /\ Item(kind, s, id).kind = kind /\ Item(kind, s, id).series = s /\ Item(kind, s, id).id = id
BY DEF Setup!Message, Item, MessageSet

\* The messages of a whole scan, one by one.
LEMMA WholeScanIs ==
  ASSUME NEW s \in Nat
  PROVE  /\ WholeScan(s)[1] = Item("start", s, 0)
         /\ \A i \in 1 .. Scan : WholeScan(s)[i + 1] = Item("image", s, i - 1)
         /\ WholeScan(s)[Scan + 2] = Item("end", s, Scan)
<1> DEFINE A == <<Item("start", s, 0)>>
           B == [i \in 1 .. Scan |-> Item("image", s, i - 1)]
           C == <<Item("end", s, Scan)>>
<1>1. Scan \in Nat
  BY AcquisitionAssumption
<1>2. A \in Seq(MessageSet) /\ Len(A) = 1 /\ A[1] = Item("start", s, 0)
  BY ItemIs
<1>3. C \in Seq(MessageSet) /\ Len(C) = 1 /\ C[1] = Item("end", s, Scan)
  BY <1>1, ItemIs
<1>4. B \in Seq(MessageSet) /\ Len(B) = Scan /\ \A i \in 1 .. Scan : B[i] = Item("image", s, i - 1)
  <2>1. \A i \in 1 .. Scan : Item("image", s, i - 1) \in MessageSet
    BY <1>1, ItemIs
  <2>2. B \in [1 .. Scan -> MessageSet]
    BY <2>1
  <2>3. B \in Seq(MessageSet)
    BY <1>1, <2>2, SeqDef
  <2>4. Len(B) = Scan
    BY <1>1, <2>3, LenProperties
  <2> QED BY <2>3, <2>4
<1>5. WholeScan(s) = (A \o B) \o C
  BY DEF WholeScan
<1> HIDE DEF A, B, C
<1>6. /\ A \o B \in Seq(MessageSet) /\ Len(A \o B) = 1 + Scan
      /\ (A \o B)[1] = A[1] /\ \A i \in 1 .. Scan : (A \o B)[i + 1] = B[i]
  <2>1. /\ A \o B \in Seq(MessageSet) /\ Len(A \o B) = Len(A) + Len(B)
        /\ \A i \in 1 .. Len(A) + Len(B) : (A \o B)[i] = IF i <= Len(A) THEN A[i] ELSE B[i - Len(A)]
    BY <1>2, <1>4, ConcatProperties
  <2> QED BY <1>1, <1>2, <1>4, <2>1
<1>7. \A i \in 1 .. Scan + 2 : ((A \o B) \o C)[i] = IF i <= Scan + 1 THEN (A \o B)[i] ELSE C[i - (Scan + 1)]
  <2>1. \A i \in 1 .. Len(A \o B) + Len(C) :
           ((A \o B) \o C)[i] = IF i <= Len(A \o B) THEN (A \o B)[i] ELSE C[i - Len(A \o B)]
    BY <1>3, <1>6, ConcatProperties
  <2>2. Len(A \o B) = Scan + 1 /\ Len(A \o B) + Len(C) = Scan + 2
    BY <1>1, <1>3, <1>6
  <2> QED BY <2>1, <2>2
<1>8. ((A \o B) \o C)[1] = A[1]
  BY <1>1, <1>6, <1>7
<1>9. \A i \in 1 .. Scan : ((A \o B) \o C)[i + 1] = B[i]
  BY <1>1, <1>6, <1>7
<1>10. ((A \o B) \o C)[Scan + 2] = C[1]
  <2>1. Scan + 2 \in 1 .. Scan + 2 /\ ~(Scan + 2 <= Scan + 1) /\ (Scan + 2) - (Scan + 1) = 1
    BY <1>1
  <2> QED BY <1>7, <2>1
<1> QED BY <1>2, <1>3, <1>4, <1>5, <1>8, <1>9, <1>10

\* The stream grows at its end.
LEMMA StreamGrows ==
  ASSUME plan \in Seq(MessageSet), NEW items \in Seq(MessageSet), plan' = plan \o items
  PROVE  /\ plan' \in Seq(MessageSet) /\ Len(plan') = Len(plan) + Len(items)
         /\ Len(plan) \in Nat /\ Len(items) \in Nat
         /\ \A i \in 1 .. Len(plan) : plan'[i] = plan[i]
         /\ \A i \in 1 .. Len(items) : plan'[Len(plan) + i] = items[i]
         /\ \A j \in 0 .. Len(plan) : SubSeq(plan', 1, j) = SubSeq(plan, 1, j)
<1>1. Len(plan) \in Nat /\ Len(items) \in Nat
  BY LenProperties
<1>2. /\ plan' \in Seq(MessageSet) /\ Len(plan') = Len(plan) + Len(items)
      /\ \A i \in 1 .. Len(plan) + Len(items) :
           plan'[i] = IF i <= Len(plan) THEN plan[i] ELSE items[i - Len(plan)]
  BY ConcatProperties
<1>3. ASSUME NEW j \in 0 .. Len(plan) PROVE SubSeq(plan', 1, j) = SubSeq(plan, 1, j)
  <2>1. CASE j = 0
    BY <1>2, <2>1, SubSeqEmpty
  <2>2. CASE j # 0
    <3>1. 1 \in 1 .. Len(plan) /\ j \in 1 .. Len(plan)
      BY <1>1, <2>2
    <3> QED BY <3>1, SubSeqOfConcat1
  <2> QED BY <2>1, <2>2
<1>4. (\A i \in 1 .. Len(plan) : plan'[i] = plan[i]) /\ \A i \in 1 .. Len(items) : plan'[Len(plan) + i] = items[i]
  BY <1>1, <1>2
<1> QED BY <1>1, <1>2, <1>3, <1>4

\* The receiver does not move.
Unread == UNCHANGED <<sent, pc, got, flags, staging, outVars, released, stop>>

\* Messages of series s that go on with the numbers, which are f.
Continues(n, items, f, s) ==
  /\ items \in Seq(MessageSet) /\ f \in [1 .. Len(items) -> Nat] /\ s \in Nat
  /\ \A i \in 1 .. Len(items) :
       /\ items[i].series = s
       /\ items[i].kind = "start" => items[i].id = 0 /\ f[i] = 0
       /\ items[i].kind = "image" => f[i] = (IF i = 1 THEN n[Len(plan)] ELSE f[i - 1]) + 1
       /\ items[i].kind = "end" => items[i].id = IF i = 1 THEN n[Len(plan)] ELSE f[i - 1]
  /\ Len(items) > 0 /\ items[1].kind # "start" /\ Len(plan) > 0 => plan[Len(plan)].series = s

\* What the DCU appends is numbered on, and nothing that was read changes.
LEMMA NumbersGrow ==
  ASSUME NEW n, ZmqState(n), NEW items, NEW f, NEW s, Continues(n, items, f, s),
         plan' = plan \o items, Unread
  PROVE  \E m : /\ ZmqState(m)' /\ UNCHANGED Feed!feedVars
                /\ \A i \in 0 .. Len(plan) : m[i] = n[i]
                /\ \A i \in 1 .. Len(items) : m[Len(plan) + i] = f[i]
<1> USE DEF Continues
<1>1. /\ plan' \in Seq(MessageSet) /\ Len(plan') = Len(plan) + Len(items)
      /\ Len(plan) \in Nat /\ Len(items) \in Nat
      /\ \A i \in 1 .. Len(plan) : plan'[i] = plan[i]
      /\ \A i \in 1 .. Len(items) : plan'[Len(plan) + i] = items[i]
      /\ \A j \in 0 .. Len(plan) : SubSeq(plan', 1, j) = SubSeq(plan, 1, j)
  BY StreamGrows DEF ZmqState, ZmqTypes
<1>2. PICK m : m = [i \in 0 .. (Len(plan) + Len(items)) |-> IF i <= Len(plan) THEN n[i] ELSE f[i - Len(plan)]]
  OBVIOUS
<1>3. n \in [0 .. Len(plan) -> Nat]
  BY DEF ZmqState, ImageNumbers
<1>4. /\ \A i \in 0 .. Len(plan) : m[i] = n[i]
      /\ \A i \in 1 .. Len(items) : m[Len(plan) + i] = f[i]
  BY <1>1, <1>2
<1>5. m \in [0 .. Len(plan') -> Nat]
  <2>1. \A i \in 0 .. (Len(plan) + Len(items)) : m[i] \in Nat
    <3> SUFFICES ASSUME NEW i \in 0 .. (Len(plan) + Len(items)) PROVE m[i] \in Nat
      OBVIOUS
    <3>1. CASE i <= Len(plan)
      <4>1. i \in 0 .. Len(plan)
        BY <1>1, <3>1
      <4>2. n[i] \in Nat
        BY <1>3, <4>1
      <4> QED BY <1>4, <4>1, <4>2
    <3>2. CASE i > Len(plan)
      <4>1. i - Len(plan) \in 1 .. Len(items) /\ i = Len(plan) + (i - Len(plan))
        BY <1>1, <3>2
      <4> QED BY <1>4, <4>1
    <3> QED BY <1>1, <3>1, <3>2
  <2> QED BY <1>1, <1>2, <2>1
<1>6. ImageNumbers(plan', m)
  <2> DEFINE Good(i) == /\ plan'[i].kind = "start" => plan'[i].id = 0 /\ m[i] = 0
                        /\ plan'[i].kind = "image" => m[i] = m[i - 1] + 1
                        /\ plan'[i].kind = "end" => plan'[i].id = m[i - 1]
                        /\ plan'[i].kind # "start" /\ i > 1 =>
                             plan'[i - 1].kind = "end" \/ plan'[i].series = plan'[i - 1].series
  <2>1. ASSUME NEW i \in 1 .. Len(plan) PROVE Good(i)
    <3>1. i \in 0 .. Len(plan) /\ i - 1 \in 0 .. Len(plan) /\ (i > 1 => i - 1 \in 1 .. Len(plan))
      BY <1>1
    <3>2. m[i] = n[i] /\ m[i - 1] = n[i - 1] /\ plan'[i] = plan[i] /\ (i > 1 => plan'[i - 1] = plan[i - 1])
      BY <1>1, <1>4, <3>1
    <3> QED BY <3>2 DEF ZmqState, ImageNumbers
  <2>2. ASSUME NEW j \in 1 .. Len(items) PROVE Good(Len(plan) + j)
    <3>1. plan'[Len(plan) + j] = items[j] /\ m[Len(plan) + j] = f[j]
      BY <1>1, <1>4
    <3>2. m[(Len(plan) + j) - 1] = IF j = 1 THEN n[Len(plan)] ELSE f[j - 1]
      <4>1. CASE j = 1
        BY <1>1, <1>4, <4>1
      <4>2. CASE j # 1
        <5>1. j - 1 \in 1 .. Len(items) /\ (Len(plan) + j) - 1 = Len(plan) + (j - 1)
          BY <1>1, <4>2
        <5> QED BY <1>4, <4>2, <5>1
      <4> QED BY <4>1, <4>2
    <3>3. items[j].kind # "start" /\ Len(plan) + j > 1 => plan'[(Len(plan) + j) - 1].series = s
      <4>1. CASE j = 1
        <5>1. Len(items) > 0
          BY <1>1
        <5> QED BY <1>1, <4>1, <5>1
      <4>2. CASE j # 1
        <5>1. j - 1 \in 1 .. Len(items) /\ (Len(plan) + j) - 1 = Len(plan) + (j - 1)
          BY <1>1, <4>2
        <5> QED BY <1>1, <5>1
      <4> QED BY <4>1, <4>2
    <3> QED BY <3>1, <3>2, <3>3
  <2>3. \A i \in 1 .. Len(plan') : Good(i)
    <3> SUFFICES ASSUME NEW i \in 1 .. Len(plan') PROVE Good(i)
      OBVIOUS
    <3>1. CASE i \in 1 .. Len(plan)
      BY <2>1, <3>1
    <3>2. CASE i \notin 1 .. Len(plan)
      <4>1. i - Len(plan) \in 1 .. Len(items) /\ i = Len(plan) + (i - Len(plan))
        BY <1>1, <3>2
      <4> HIDE DEF Good
      <4> QED BY <2>2, <4>1
    <3> QED BY <3>1, <3>2
  <2> QED BY <1>5, <2>3 DEF ImageNumbers
<1>7. /\ sent' = sent /\ pc' = pc /\ got' = got /\ ready' = ready /\ active' = active
      /\ pendingEnd' = pendingEnd /\ seriesId' = seriesId /\ images' = images
      /\ staging' = staging /\ emitted' = emitted
  BY DEF Unread, flags, outVars
<1>8. sent \in 0 .. Len(plan) /\ got \in 0 .. sent /\ Taken \in 0 .. Len(plan) /\ Taken' = Taken /\ Waiting' = Waiting
  BY <1>1, <1>7 DEF ZmqState, ZmqTypes, Taken, Waiting, EndItem
<1>9. ZmqTypes' /\ AsSent' /\ Staging'
  <2>1. ZmqTypes'
    BY <1>1, <1>7, <1>8 DEF ZmqState, ZmqTypes
  <2>2. AsSent'
    BY <1>1, <1>7, <1>8 DEF ZmqState, AsSent
  <2>3. Staging'
    BY <1>7 DEF ZmqState, Staging
  <2> QED BY <2>1, <2>2, <2>3
<1>10. OpenSeries(m)'
  <2>1. active /\ ~pendingEnd => /\ Taken > 0 /\ Taken \in 1 .. Len(plan)
                                 /\ plan[Taken].kind # "end" /\ plan[Taken].series = seriesId /\ n[Taken] = images
    BY <1>1, <1>8 DEF ZmqState, OpenSeries
  <2> QED BY <1>1, <1>4, <1>7, <1>8, <2>1 DEF OpenSeries
<1>11. UNCHANGED Feed!feedVars
  BY <1>1, <1>7, <1>8 DEF Feed!feedVars
<1>12. ZmqState(m)'
  BY <1>6, <1>9, <1>10 DEF ZmqState
<1> QED BY <1>4, <1>11, <1>12

\* What check asks for: the mode, the triggers and the images of each are among it.
LEMMA NeededIs ==
  ASSUME NEW c
  PROVE  /\ Setup!Needed(c) \in Seq(Settable) /\ Len(Setup!Needed(c)) \in Nat
         /\ \E i, j, k \in 1 .. Len(Setup!Needed(c)) :
              /\ Setup!Needed(c)[i] = <<"mode", "enabled">>
              /\ Setup!Needed(c)[j] = <<"ntrigger", Scan>>
              /\ Setup!Needed(c)[k] = <<"nimages", 1>>
<1> DEFINE A == <<<<"mode", "enabled">>>>
           B == IF c.binned THEN <<<<"binning_mode", "2x2">>>> ELSE <<>>
           C == <<<<"ntrigger", Scan>>, <<"nimages", 1>>>>
<1>1. A \in Seq(Settable) /\ Len(A) = 1 /\ A[1] = <<"mode", "enabled">>
  <2>1. <<"mode", "enabled">> \in Settable
    BY DEF Settable
  <2> QED BY <2>1
<1>2. B \in Seq(Settable) /\ Len(B) \in Nat
  <2>1. <<"binning_mode", "2x2">> \in Settable
    BY DEF Settable
  <2> QED BY <2>1
<1>3. C \in Seq(Settable) /\ Len(C) = 2 /\ C[1] = <<"ntrigger", Scan>> /\ C[2] = <<"nimages", 1>>
  <2>1. <<"ntrigger", Scan>> \in Settable /\ <<"nimages", 1>> \in Settable
    BY DEF Settable
  <2> QED BY <2>1
<1>4. Setup!Needed(c) = (A \o B) \o C
  BY DEF Setup!Needed
<1> HIDE DEF A, B, C
<1>5. /\ A \o B \in Seq(Settable) /\ Len(A \o B) = 1 + Len(B)
      /\ (A \o B)[1] = A[1]
  <2>1. /\ A \o B \in Seq(Settable) /\ Len(A \o B) = Len(A) + Len(B)
        /\ \A i \in 1 .. Len(A) + Len(B) : (A \o B)[i] = IF i <= Len(A) THEN A[i] ELSE B[i - Len(A)]
    BY <1>1, <1>2, ConcatProperties
  <2>2. 1 \in 1 .. Len(A) + Len(B) /\ 1 <= Len(A)
    BY <1>1, <1>2
  <2> QED BY <1>1, <2>1, <2>2
<1> DEFINE D == A \o B
<1>6. D \in Seq(Settable) /\ Len(D) = 1 + Len(B) /\ D[1] = A[1]
  BY <1>5
<1> HIDE DEF D
<1>0. C \in Seq(Settable) /\ D \in Seq(Settable)
  BY <1>3, <1>6
<1>7. /\ D \o C \in Seq(Settable) /\ Len(D \o C) = Len(D) + Len(C)
      /\ \A i \in 1 .. Len(D) + Len(C) : (D \o C)[i] = IF i <= Len(D) THEN D[i] ELSE C[i - Len(D)]
  BY <1>0, ConcatProperties
<1>8. /\ 1 \in 1 .. Len(D) + Len(C) /\ 1 <= Len(D)
      /\ Len(D) + 1 \in 1 .. Len(D) + Len(C) /\ ~(Len(D) + 1 <= Len(D)) /\ (Len(D) + 1) - Len(D) = 1
      /\ Len(D) + 2 \in 1 .. Len(D) + Len(C) /\ ~(Len(D) + 2 <= Len(D)) /\ (Len(D) + 2) - Len(D) = 2
  BY <1>2, <1>3, <1>6
<1>9. /\ (D \o C)[1] = <<"mode", "enabled">> /\ (D \o C)[Len(D) + 1] = <<"ntrigger", Scan>>
      /\ (D \o C)[Len(D) + 2] = <<"nimages", 1>>
  BY <1>1, <1>3, <1>6, <1>7, <1>8
<1>10. Setup!Needed(c) = D \o C
  BY <1>4 DEF D
<1>11. Len(D) + Len(C) \in Nat /\ Len(Setup!Needed(c)) = Len(D) + Len(C)
  BY <1>2, <1>3, <1>6, <1>7, <1>10
<1> DEFINE N == D \o C
<1>12. /\ N \in Seq(Settable) /\ Len(N) \in Nat
       /\ N[1] = <<"mode", "enabled">> /\ N[Len(D) + 1] = <<"ntrigger", Scan>> /\ N[Len(D) + 2] = <<"nimages", 1>>
  BY <1>7, <1>9, <1>10, <1>11
<1>13. 1 \in 1 .. Len(N) /\ Len(D) + 1 \in 1 .. Len(N) /\ Len(D) + 2 \in 1 .. Len(N)
  BY <1>7, <1>8
<1> HIDE DEF N
<1>14. \E i, j, k \in 1 .. Len(N) :
         N[i] = <<"mode", "enabled">> /\ N[j] = <<"ntrigger", Scan>> /\ N[k] = <<"nimages", 1>>
  BY <1>12, <1>13
<1>15. Setup!Needed(c) = N
  BY <1>10 DEF N
<1> QED BY <1>12, <1>14, <1>15, Zenon

\* A request sets its parameter, and of the others only the two times.
LEMMA SetKeeps ==
  ASSUME DcuTypes, NEW param, NEW value, Setup!Set(param, value),
         param \in {"ntrigger", "nimages"} => value \in Nat
  PROVE  /\ {"mode", "ntrigger", "nimages"} \subseteq DOMAIN settings'
         /\ settings'["ntrigger"] \in Nat /\ settings'["nimages"] \in Nat
<1>1. CASE param \notin DOMAIN settings
  <2>1. settings' = settings
    BY <1>1 DEF Setup!Set
  <2> QED BY <2>1 DEF DcuTypes
<1>2. CASE param \in DOMAIN settings
  <2> DEFINE S1 == [settings EXCEPT ![param] = value]
             S2 == [S1 EXCEPT !["frame_time"] = IF param = "count_time" THEN value + Readout
                                                ELSE IF param = "frame_time" THEN value ELSE @]
             S3 == [S2 EXCEPT !["count_time"] = IF param = "frame_time" THEN value - Readout
                                                ELSE IF param = "count_time" THEN value ELSE @]
  <2>1. settings' = S3
    BY <1>2 DEF Setup!Set
  <2>2. DOMAIN S1 = DOMAIN settings /\ \A x \in DOMAIN settings : S1[x] = IF x = param THEN value ELSE settings[x]
    BY DEF DcuTypes
  <2>3. DOMAIN S2 = DOMAIN S1 /\ \A x \in DOMAIN S1 : x # "frame_time" => S2[x] = S1[x]
    BY <2>2 DEF DcuTypes
  <2>4. DOMAIN S3 = DOMAIN S2 /\ \A x \in DOMAIN S2 : x # "count_time" => S3[x] = S2[x]
    BY <2>3
  <2> HIDE DEF S1, S2, S3
  <2>5. /\ DOMAIN settings' = DOMAIN settings
        /\ \A x \in {"mode", "ntrigger", "nimages"} : settings'[x] = IF x = param THEN value ELSE settings[x]
    BY <2>1, <2>2, <2>3, <2>4 DEF DcuTypes
  <2> QED BY <2>5 DEF DcuTypes
<1> QED BY <1>1, <1>2

\* Parameters, commands and requests keep their types.
LEMMA TypesKept ==
  ASSUME DcuTypes, Setup!Next
  PROVE  DcuTypes'
<1> USE DEF DcuTypes
<1>1. ASSUME UNCHANGED settings, run' \in [series : Nat, left : Nat, per : Nat, sent : Nat, streamed : BOOLEAN],
             stage' # "shell" => call' \in Calls, differ' \in Seq(Settable), asked' \in Nat \ {0}
      PROVE  DcuTypes'
  BY <1>1
<1>2. CASE Setup!Trigger
  <2>1. UNCHANGED <<settings, stage, call, differ, asked>>
    BY <1>2 DEF Setup!Trigger, Setup!toolVars
  <2>2. run' \in [series : Nat, left : Nat, per : Nat, sent : Nat, streamed : BOOLEAN]
    <3>1. run.left > 0 /\ run' = [run EXCEPT !.left = run.left - 1, !.sent = run.sent + run.per]
      BY <1>2 DEF Setup!Trigger
    <3>2. run.left - 1 \in Nat /\ run.sent + run.per \in Nat
      BY <3>1
    <3> QED BY <3>1, <3>2
  <2> QED BY <1>1, <2>1, <2>2
<1>3. CASE Setup!Meddle
  <2>1. PICK m \in Meddling : Setup!Set(m[1], m[2])
    BY <1>3 DEF Setup!Meddle
  <2>2. /\ {"mode", "ntrigger", "nimages"} \subseteq DOMAIN settings'
        /\ settings'["ntrigger"] \in Nat /\ settings'["nimages"] \in Nat
    BY <2>1, SetKeeps, AcquisitionAssumption
  <2>3. UNCHANGED <<run, stage, call, differ, asked>>
    BY <1>3 DEF Setup!Meddle, Setup!toolVars
  <2> QED BY <2>2, <2>3
<1>4. CASE Setup!Invoke
  <2>1. UNCHANGED <<settings, run>> /\ call' \in Calls
    BY <1>4 DEF Setup!Invoke, Setup!dcuVars
  <2>2. (differ' = <<>> /\ asked' = 1) \/ UNCHANGED <<differ, asked>>
    BY <1>4 DEF Setup!Invoke, Setup!StartCheck
  <2>3. differ' \in Seq(Settable) /\ asked' \in Nat \ {0}
    <3>1. <<>> \in Seq(Settable) /\ 1 \in Nat \ {0}
      OBVIOUS
    <3>2. CASE differ' = <<>> /\ asked' = 1
      BY <3>1, <3>2
    <3>3. CASE UNCHANGED <<differ, asked>>
      BY <3>3
    <3> QED BY <2>2, <3>2, <3>3
  <2> QED BY <1>1, <2>1, <2>3
<1>5. CASE Setup!Compare
  <2>1. UNCHANGED <<settings, run, stage, call>> /\ asked' = asked + 1 /\ asked <= Len(Setup!Needed(call))
    BY <1>5 DEF Setup!Compare, Setup!dcuVars
  <2>2. asked \in 1 .. Len(Setup!Needed(call)) /\ Setup!Needed(call) \in Seq(Settable)
    BY <2>1, NeededIs
  <2>3. Setup!Needed(call)[asked] \in Settable
    BY <2>2, ElementOfSeq
  <2>4. differ' = differ \/ differ' = Append(differ, Setup!Needed(call)[asked])
    BY <1>5 DEF Setup!Compare
  <2>5. differ' \in Seq(Settable)
    BY <2>3, <2>4, AppendProperties
  <2> QED BY <1>1, <2>1, <2>5
<1>6. CASE Setup!CompareFrameTime
  <2>1. UNCHANGED <<settings, run, call, asked>> /\ call \in Calls
    BY <1>6 DEF Setup!CompareFrameTime, Setup!dcuVars
  <2>2. <<"frame_time", call.frame_time>> \in Settable
    BY <2>1 DEF Settable
  <2>3. differ' = differ \/ differ' = Append(differ, <<"frame_time", call.frame_time>>)
    BY <1>6 DEF Setup!CompareFrameTime
  <2>4. differ' \in Seq(Settable)
    <3> DEFINE d == <<"frame_time", call.frame_time>>
    <3>1. d \in Settable /\ differ \in Seq(Settable) /\ (differ' = differ \/ differ' = Append(differ, d))
      BY <2>2, <2>3
    <3> HIDE DEF d
    <3> QED BY <3>1, AppendProperties
  <2> QED BY <1>1, <2>1, <2>4
<1>7. CASE Setup!Decide
  <2>1. UNCHANGED <<settings, run, call, differ>> /\ stage = "problems" /\ asked' \in {1, asked}
    BY <1>7 DEF Setup!Decide, Setup!dcuVars
  <2> QED BY <1>1, <2>1
<1>8. CASE Setup!Apply
  <2> DEFINE d == differ[asked]
  <2>1. /\ UNCHANGED <<run, call, differ>> /\ asked <= Len(differ) /\ stage # "shell"
        /\ asked' \in {asked, asked + 1}
        /\ \/ settings' = settings
           \/ Setup!Set("count_time", d[2] - Readout)
           \/ Setup!Set(d[1], d[2])
    BY <1>8 DEF Setup!Apply
  <2>2. d \in Settable
    <3>1. asked \in 1 .. Len(differ)
      BY <2>1, LenProperties
    <3> QED BY <3>1, ElementOfSeq
  <2>3. d[1] \in {"ntrigger", "nimages"} => d[2] \in Nat
    BY <2>2, AcquisitionAssumption DEF Settable
  <2> HIDE DEF d
  <2>4. /\ {"mode", "ntrigger", "nimages"} \subseteq DOMAIN settings'
        /\ settings'["ntrigger"] \in Nat /\ settings'["nimages"] \in Nat
    <3>1. CASE settings' = settings
      BY <3>1
    <3>2. CASE Setup!Set("count_time", d[2] - Readout)
      BY <3>2, SetKeeps
    <3>3. CASE Setup!Set(d[1], d[2])
      BY <2>3, <3>3, SetKeeps
    <3> QED BY <2>1, <3>1, <3>2, <3>3
  <2> QED BY <2>1, <2>4
<1>9. CASE Setup!Recheck
  <2>1. UNCHANGED <<settings, run, call>> /\ differ' = <<>> /\ asked' = 1 /\ stage # "shell"
    BY <1>9 DEF Setup!Recheck, Setup!StartCheck, Setup!dcuVars
  <2> QED BY <1>1, <2>1
<1>10. ASSUME Setup!Armed, UNCHANGED <<call, differ, asked>>, stage # "shell" PROVE DcuTypes'
  <2>1. UNCHANGED settings /\ run' \in [series : Nat, left : Nat, per : Nat, sent : Nat, streamed : BOOLEAN]
    BY <1>10 DEF Setup!Armed
  <2> QED BY <1>1, <1>10, <2>1
<1>11. ASSUME Setup!Disarmed, UNCHANGED <<call, differ, asked>>, stage # "shell" PROVE DcuTypes'
  <2>1. UNCHANGED settings /\ run' \in [series : Nat, left : Nat, per : Nat, sent : Nat, streamed : BOOLEAN]
    BY <1>11 DEF Setup!Disarmed
  <2> QED BY <1>1, <1>11, <2>1
<1>12. CASE Setup!Arm
  BY <1>10, <1>12 DEF Setup!Arm
<1>13. CASE Setup!Disarm
  BY <1>11, <1>13 DEF Setup!Disarm
<1>14. CASE Setup!ReplyLost
  BY <1>10, <1>11, <1>14 DEF Setup!ReplyLost
<1>15. CASE Setup!ArmReported \/ Setup!ScanEnds \/ Setup!ScanFails \/ Setup!DisarmReported \/ Setup!Fail
  <2>1. UNCHANGED <<settings, run, call, differ, asked>> /\ stage # "shell"
    BY <1>15 DEF Setup!ArmReported, Setup!ScanEnds, Setup!ScanFails, Setup!DisarmReported, Setup!Fail, Setup!dcuVars
  <2> QED BY <1>1, <2>1
<1> QED BY <1>2, <1>3, <1>4, <1>5, <1>6, <1>7, <1>8, <1>9, <1>12, <1>13, <1>14, <1>15
        DEF Setup!Next, Setup!Detector, Setup!Tool

-----------------------------------------------------------------------------
(* The stream of the detector, as the receiver reads it.                    *)

LEMMA ArmStreams ==
  ASSUME NEW n, ZmqState(n), DcuTypes, StreamInv(n), Setup!Armed, Unread
  PROVE  \E m : ZmqState(m)' /\ StreamInv(m)' /\ Delivers
<1>1. /\ run.series \in Nat /\ run.series + 1 \in Nat
      /\ run'.series = run.series + 1 /\ run'.sent = 0
      /\ plan' = IF run'.streamed THEN Append(plan, Setup!Message("start", run.series + 1, 0)) ELSE plan
  BY DEF DcuTypes, Setup!Armed, Setup!Stream
<1>2. /\ plan \in Seq(MessageSet) /\ Len(plan) \in Nat
      /\ \A i \in 1 .. Len(plan) : plan[i].series \in Nat /\ plan[i].series <= run.series
  <2>1. plan \in Seq(MessageSet) /\ Len(plan) \in Nat
    BY LenProperties DEF ZmqState, ZmqTypes
  <2>2. ASSUME NEW i \in 1 .. Len(plan) PROVE plan[i] \in MessageSet
    BY <2>1, ElementOfSeq
  <2> QED BY <2>1, <2>2 DEF StreamInv, MessageSet
<1>3. CASE run'.streamed
  <2> DEFINE item == Item("start", run.series + 1, 0)
             items == <<item>>
             f == [i \in 1 .. 1 |-> 0]
  <2>1. /\ item = Setup!Message("start", run.series + 1, 0) /\ item \in MessageSet
        /\ item.kind = "start" /\ item.series = run.series + 1 /\ item.id = 0
    BY <1>1, ItemIs
  <2> HIDE DEF item
  <2>2. items \in Seq(MessageSet) /\ Len(items) = 1 /\ items[1] = item
    BY <2>1
  <2>3. plan' = plan \o items
    BY <1>1, <1>2, <1>3, <2>1, AppendIsConcat
  <2>4. f \in [1 .. 1 -> Nat] /\ f[1] = 0
    OBVIOUS
  <2> HIDE DEF f, items
  <2>5. PICK m : /\ ZmqState(m)' /\ UNCHANGED Feed!feedVars
                 /\ \A i \in 0 .. Len(plan) : m[i] = n[i]
                 /\ \A i \in 1 .. Len(items) : m[Len(plan) + i] = f[i]
    <3>1. ASSUME NEW i \in 1 .. Len(items)
          PROVE  /\ items[i].series = run.series + 1
                 /\ items[i].kind = "start" => items[i].id = 0 /\ f[i] = 0
                 /\ items[i].kind = "image" => f[i] = (IF i = 1 THEN n[Len(plan)] ELSE f[i - 1]) + 1
                 /\ items[i].kind = "end" => items[i].id = IF i = 1 THEN n[Len(plan)] ELSE f[i - 1]
      <4>1. i = 1
        BY <2>2
      <4> QED BY <2>1, <2>2, <2>4, <4>1
    <3>2. Len(items) > 0 /\ items[1].kind # "start" /\ Len(plan) > 0 => plan[Len(plan)].series = run.series + 1
      BY <2>1, <2>2
    <3>3. f \in [1 .. Len(items) -> Nat] /\ run.series + 1 \in Nat
      BY <1>1, <2>2, <2>4
    <3>4. Continues(n, items, f, run.series + 1)
      BY <2>2, <3>1, <3>2, <3>3 DEF Continues
    <3> QED BY <2>3, <3>4, NumbersGrow
  <2>6. /\ Len(plan') = Len(plan) + 1 /\ plan'[Len(plan) + 1] = item
        /\ \A i \in 1 .. Len(plan) : plan'[i] = plan[i]
    <3>1. /\ Len(plan') = Len(plan) + Len(items)
          /\ \A i \in 1 .. Len(plan) : plan'[i] = plan[i]
          /\ \A i \in 1 .. Len(items) : plan'[Len(plan) + i] = items[i]
      BY <1>2, <2>2, <2>3, StreamGrows
    <3> QED BY <2>2, <3>1
  <2>7. m[Len(plan) + 1] = 0
    BY <2>2, <2>4, <2>5
  <2>8. StreamInv(m)'
    <3>1. \A i \in 1 .. Len(plan') : plan'[i].series <= run'.series
      BY <1>1, <1>2, <2>1, <2>6
    <3> QED BY <1>1, <1>2, <2>1, <2>6, <2>7, <3>1 DEF StreamInv
  <2> QED BY <2>5, <2>8 DEF Delivers
<1>4. CASE ~run'.streamed
  <2>1. UNCHANGED receiverVars
    BY <1>1, <1>4 DEF Unread, receiverVars
  <2>2. ZmqState(n)' /\ Delivers
    BY <2>1, QuietZmqStep
  <2>3. StreamInv(n)'
    BY <1>1, <1>2, <1>4 DEF StreamInv
  <2> QED BY <2>2, <2>3
<1> QED BY <1>3, <1>4

LEMMA DisarmStreams ==
  ASSUME NEW n, ZmqState(n), DcuTypes, StreamInv(n), Setup!Disarmed, Unread
  PROVE  \E m : ZmqState(m)' /\ StreamInv(m)' /\ Delivers
<1>1. /\ run.series \in Nat /\ run.sent \in Nat
      /\ run'.series = run.series /\ run'.streamed = run.streamed /\ run'.sent = run.sent
  BY DEF DcuTypes, Setup!Disarmed
<1>2. /\ plan \in Seq(MessageSet) /\ Len(plan) \in Nat
      /\ \A i \in 1 .. Len(plan) : plan[i].series \in Nat /\ plan[i].series <= run.series
  <2>1. plan \in Seq(MessageSet) /\ Len(plan) \in Nat
    BY LenProperties DEF ZmqState, ZmqTypes
  <2>2. ASSUME NEW i \in 1 .. Len(plan) PROVE plan[i] \in MessageSet
    BY <2>1, ElementOfSeq
  <2> QED BY <2>1, <2>2 DEF StreamInv, MessageSet
<1>3. CASE state = "armed" /\ run.streamed
  <2> DEFINE item == Item("end", run.series, run.sent)
             items == <<item>>
             f == [i \in 1 .. 1 |-> 0]
  <2>1. /\ item = Setup!Message("end", run.series, run.sent) /\ item \in MessageSet
        /\ item.kind = "end" /\ item.series = run.series /\ item.id = run.sent
    BY <1>1, ItemIs
  <2> HIDE DEF item
  <2>2. items \in Seq(MessageSet) /\ Len(items) = 1 /\ items[1] = item
    BY <2>1
  <2>3. state' = "idle" /\ plan' = plan \o items
    <3>1. state' = "idle" /\ plan' = Append(plan, item)
      BY <1>1, <1>3, <2>1 DEF Setup!Disarmed, Setup!Stream
    <3> QED BY <1>2, <2>1, <3>1, AppendIsConcat
  <2>4. f \in [1 .. 1 -> Nat]
    OBVIOUS
  <2> HIDE DEF f, items
  <2>5. n[Len(plan)] = run.sent /\ plan[Len(plan)].series = run.series
    BY <1>3 DEF StreamInv
  <2>6. PICK m : /\ ZmqState(m)' /\ UNCHANGED Feed!feedVars
                 /\ \A i \in 0 .. Len(plan) : m[i] = n[i]
                 /\ \A i \in 1 .. Len(items) : m[Len(plan) + i] = f[i]
    <3>1. ASSUME NEW i \in 1 .. Len(items)
          PROVE  /\ items[i].series = run.series
                 /\ items[i].kind = "start" => items[i].id = 0 /\ f[i] = 0
                 /\ items[i].kind = "image" => f[i] = (IF i = 1 THEN n[Len(plan)] ELSE f[i - 1]) + 1
                 /\ items[i].kind = "end" => items[i].id = IF i = 1 THEN n[Len(plan)] ELSE f[i - 1]
      <4>1. i = 1
        BY <2>2
      <4> QED BY <2>1, <2>2, <2>5, <4>1
    <3>2. Len(items) > 0 /\ items[1].kind # "start" /\ Len(plan) > 0 => plan[Len(plan)].series = run.series
      BY <2>5
    <3>3. f \in [1 .. Len(items) -> Nat] /\ run.series \in Nat
      BY <1>1, <2>2, <2>4
    <3>4. Continues(n, items, f, run.series)
      BY <2>2, <3>1, <3>2, <3>3 DEF Continues
    <3> QED BY <2>3, <3>4, NumbersGrow
  <2>7. /\ Len(plan') = Len(plan) + 1 /\ plan'[Len(plan) + 1] = item
        /\ \A i \in 1 .. Len(plan) : plan'[i] = plan[i]
    <3>1. /\ Len(plan') = Len(plan) + Len(items)
          /\ \A i \in 1 .. Len(plan) : plan'[i] = plan[i]
          /\ \A i \in 1 .. Len(items) : plan'[Len(plan) + i] = items[i]
      BY <1>2, <2>2, <2>3, StreamGrows
    <3> QED BY <2>2, <3>1
  <2>8. StreamInv(m)'
    <3>1. \A i \in 1 .. Len(plan') : plan'[i].series <= run'.series
      BY <1>1, <1>2, <2>1, <2>7
    <3> QED BY <2>3, <3>1 DEF StreamInv
  <2> QED BY <2>6, <2>8 DEF Delivers
<1>4. CASE ~(state = "armed" /\ run.streamed)
  <2>1. plan' = plan /\ (state' = "armed" => state = "armed")
    BY <1>1, <1>4 DEF Setup!Disarmed, Setup!Stream
  <2>2. UNCHANGED receiverVars
    BY <2>1 DEF Unread, receiverVars
  <2>3. ZmqState(n)' /\ Delivers
    BY <2>2, QuietZmqStep
  <2>4. StreamInv(n)'
    BY <1>1, <1>2, <1>4, <2>1 DEF StreamInv
  <2> QED BY <2>3, <2>4
<1> QED BY <1>3, <1>4

\* The images of one trigger.
Shots == [i \in 1 .. run.per |-> Setup!Message("image", run.series, run.sent + i - 1)]

LEMMA ShotsAre ==
  ASSUME DcuTypes
  PROVE  /\ Shots \in Seq(MessageSet) /\ Len(Shots) = run.per
         /\ \A i \in 1 .. run.per :
              /\ Shots[i] = Item("image", run.series, run.sent + i - 1)
              /\ Shots[i].kind = "image" /\ Shots[i].series = run.series
<1>1. run.per \in Nat /\ run.series \in Nat /\ run.sent \in Nat
  BY DEF DcuTypes
<1>2. ASSUME NEW i \in 1 .. run.per
      PROVE  /\ Shots[i] = Item("image", run.series, run.sent + i - 1) /\ Shots[i] \in MessageSet
             /\ Shots[i].kind = "image" /\ Shots[i].series = run.series
  <2>1. run.sent + i - 1 \in Nat
    BY <1>1
  <2>2. Shots[i] = Setup!Message("image", run.series, run.sent + i - 1)
    BY DEF Shots
  <2> QED BY <1>1, <2>1, <2>2, ItemIs
<1>3. Shots \in [1 .. run.per -> MessageSet]
  <2>1. \A i \in 1 .. run.per : Setup!Message("image", run.series, run.sent + i - 1) \in MessageSet
    BY <1>2 DEF Shots
  <2> QED BY <2>1 DEF Shots
<1>4. Shots \in Seq(MessageSet)
  BY <1>1, <1>3, SeqDef
<1>5. Len(Shots) = run.per
  BY <1>1, <1>3, <1>4, LenProperties
<1> QED BY <1>2, <1>4, <1>5

LEMMA TriggerStreams ==
  ASSUME NEW n, ZmqState(n), DcuTypes, StreamInv(n), Setup!Trigger, Unread
  PROVE  \E m : ZmqState(m)' /\ StreamInv(m)' /\ Delivers
<1>1. /\ run.series \in Nat /\ run.sent \in Nat /\ run.per \in Nat
      /\ run'.series = run.series /\ run'.streamed = run.streamed /\ run'.sent = run.sent + run.per
      /\ state = "armed" /\ state' = "armed"
      /\ plan' = IF run.streamed THEN plan \o Shots ELSE plan
  BY DEF DcuTypes, Setup!Trigger, Shots
<1>2. /\ plan \in Seq(MessageSet) /\ Len(plan) \in Nat
      /\ \A i \in 1 .. Len(plan) : plan[i].series \in Nat /\ plan[i].series <= run.series
  <2>1. plan \in Seq(MessageSet) /\ Len(plan) \in Nat
    BY LenProperties DEF ZmqState, ZmqTypes
  <2>2. ASSUME NEW i \in 1 .. Len(plan) PROVE plan[i] \in MessageSet
    BY <2>1, ElementOfSeq
  <2> QED BY <2>1, <2>2 DEF StreamInv, MessageSet
<1>3. CASE run.streamed
  <2> DEFINE f == [i \in 1 .. Len(Shots) |-> run.sent + i]
  <2>1. /\ Shots \in Seq(MessageSet) /\ Len(Shots) = run.per
        /\ \A i \in 1 .. run.per : Shots[i].kind = "image" /\ Shots[i].series = run.series
    BY ShotsAre
  <2>2. /\ Len(plan) > 0 /\ plan[Len(plan)].kind # "end" /\ plan[Len(plan)].series = run.series
        /\ n[Len(plan)] = run.sent
    BY <1>1, <1>3 DEF StreamInv
  <2>3. f \in [1 .. Len(Shots) -> Nat] /\ \A i \in 1 .. Len(Shots) : f[i] = run.sent + i
    BY <1>1, <2>1
  <2> HIDE DEF f
  <2>4. PICK m : /\ ZmqState(m)' /\ UNCHANGED Feed!feedVars
                 /\ \A i \in 0 .. Len(plan) : m[i] = n[i]
                 /\ \A i \in 1 .. Len(Shots) : m[Len(plan) + i] = f[i]
    <3>1. ASSUME NEW i \in 1 .. Len(Shots)
          PROVE  /\ Shots[i].series = run.series
                 /\ Shots[i].kind = "start" => Shots[i].id = 0 /\ f[i] = 0
                 /\ Shots[i].kind = "image" => f[i] = (IF i = 1 THEN n[Len(plan)] ELSE f[i - 1]) + 1
                 /\ Shots[i].kind = "end" => Shots[i].id = IF i = 1 THEN n[Len(plan)] ELSE f[i - 1]
      <4>1. Shots[i].kind = "image" /\ Shots[i].series = run.series
        BY <2>1
      <4>2. f[i] = (IF i = 1 THEN n[Len(plan)] ELSE f[i - 1]) + 1
        <5>1. CASE i = 1
          BY <2>2, <2>3, <5>1
        <5>2. CASE i # 1
          <6>1. i - 1 \in 1 .. Len(Shots)
            BY <2>1, <1>1, <5>2
          <6>2. f[i] = run.sent + i /\ f[i - 1] = run.sent + (i - 1)
            BY <2>3, <6>1
          <6> QED BY <1>1, <5>2, <6>2
        <5> QED BY <5>1, <5>2
      <4> QED BY <4>1, <4>2
    <3>2. plan' = plan \o Shots
      BY <1>1, <1>3
    <3>3. Len(Shots) > 0 /\ Shots[1].kind # "start" /\ Len(plan) > 0 => plan[Len(plan)].series = run.series
      BY <2>2
    <3>4. Shots \in Seq(MessageSet) /\ f \in [1 .. Len(Shots) -> Nat] /\ run.series \in Nat
      BY <1>1, <2>1, <2>3
    <3>5. Continues(n, Shots, f, run.series)
      BY <3>1, <3>3, <3>4 DEF Continues
    <3> QED BY <3>2, <3>5, NumbersGrow
  <2>5. /\ Len(plan') = Len(plan) + run.per
        /\ \A i \in 1 .. Len(plan) : plan'[i] = plan[i]
        /\ \A i \in 1 .. run.per : plan'[Len(plan) + i] = Shots[i]
    BY <1>1, <1>2, <1>3, <2>1, StreamGrows
  <2>6. ASSUME NEW i \in 1 .. Len(plan') PROVE plan'[i].series <= run'.series
    <3>1. CASE i \in 1 .. Len(plan)
      BY <1>1, <1>2, <2>5, <3>1
    <3>2. CASE i \notin 1 .. Len(plan)
      <4>1. i - Len(plan) \in 1 .. run.per /\ i = Len(plan) + (i - Len(plan))
        BY <1>1, <1>2, <2>5, <3>2
      <4>2. plan'[Len(plan) + (i - Len(plan))].series = run.series
        BY <2>1, <2>5, <4>1
      <4>3. plan'[i].series = run.series
        BY <4>1, <4>2
      <4> QED BY <1>1, <4>3
    <3> QED BY <3>1, <3>2
  <2>7. /\ Len(plan') > 0 /\ plan'[Len(plan')].kind # "end" /\ plan'[Len(plan')].series = run.series
        /\ m[Len(plan')] = run.sent + run.per
    <3>1. CASE run.per = 0
      <4>1. Len(plan') = Len(plan) /\ Len(plan) \in 1 .. Len(plan) /\ Len(plan) \in 0 .. Len(plan)
        BY <1>2, <2>2, <2>5, <3>1
      <4> QED BY <1>1, <2>2, <2>4, <2>5, <3>1, <4>1
    <3>2. CASE run.per # 0
      <4>1. run.per \in 1 .. run.per /\ run.per \in 1 .. Len(Shots)
        BY <1>1, <2>1, <3>2
      <4>2. plan'[Len(plan')] = Shots[run.per] /\ m[Len(plan')] = f[run.per]
        BY <2>4, <2>5, <4>1
      <4>3. Len(plan') > 0
        BY <1>1, <1>2, <2>2, <2>5
      <4> QED BY <2>1, <2>3, <4>1, <4>2, <4>3
    <3> QED BY <3>1, <3>2
  <2>8. StreamInv(m)'
    BY <1>1, <2>6, <2>7 DEF StreamInv
  <2> QED BY <2>4, <2>8 DEF Delivers
<1>4. CASE ~run.streamed
  <2>1. UNCHANGED receiverVars
    BY <1>1, <1>4 DEF Unread, receiverVars
  <2>2. ZmqState(n)' /\ Delivers
    BY <2>1, QuietZmqStep
  <2>3. StreamInv(n)'
    BY <1>1, <1>2, <1>4 DEF StreamInv
  <2> QED BY <2>2, <2>3
<1> QED BY <1>3, <1>4

\* Whatever the tool, the detector and others do, the receiver finds a numbered stream.
LEMMA DetectorStreams ==
  ASSUME NEW n, ZmqState(n), DcuTypes, StreamInv(n), Acquires
  PROVE  \E m : ZmqState(m)' /\ StreamInv(m)' /\ Delivers
<1>1. Setup!Next /\ Unread
  BY DEF Acquires, Unread
<1>2. ASSUME UNCHANGED <<plan, run, state>>
      PROVE  \E m : ZmqState(m)' /\ StreamInv(m)' /\ Delivers
  <2>1. UNCHANGED receiverVars
    BY <1>1, <1>2 DEF Unread, receiverVars
  <2>2. ZmqState(n)' /\ Delivers
    BY <2>1, QuietZmqStep
  <2>3. StreamInv(n)'
    BY <1>2 DEF StreamInv
  <2> QED BY <2>2, <2>3
<1>3. CASE Setup!Trigger
  BY <1>1, <1>3, TriggerStreams
<1>4. CASE Setup!Arm \/ Setup!Disarm \/ Setup!ReplyLost
  <2>1. Setup!Armed \/ Setup!Disarmed
    BY <1>4 DEF Setup!Arm, Setup!Disarm, Setup!ReplyLost
  <2> QED BY <1>1, <2>1, ArmStreams, DisarmStreams
<1>5. CASE \/ Setup!Meddle \/ Setup!Invoke \/ Setup!Compare \/ Setup!CompareFrameTime \/ Setup!Decide
           \/ Setup!Apply \/ Setup!Recheck \/ Setup!ArmReported \/ Setup!ScanEnds \/ Setup!ScanFails
           \/ Setup!DisarmReported \/ Setup!Fail
  <2>1. UNCHANGED <<plan, run, state>>
    BY <1>5 DEF Setup!Meddle, Setup!Invoke, Setup!Compare, Setup!CompareFrameTime, Setup!Decide,
       Setup!Apply, Setup!Recheck, Setup!ArmReported, Setup!ScanEnds, Setup!ScanFails,
       Setup!DisarmReported, Setup!Fail, Setup!dcuVars
  <2> QED BY <1>2, <2>1
<1> QED BY <1>1, <1>3, <1>4, <1>5 DEF Setup!Next, Setup!Detector, Setup!Tool

-----------------------------------------------------------------------------
(* What a scan relies on.                                                   *)

\* The detector is armed as the check has found it.
LEMMA ChecksKept ==
  ASSUME DcuTypes, CheckInv, Setup!Next, ~meddled'
  PROVE  CheckInv'
<1> DEFINE needed == Setup!Needed(call)
<1>1. ASSUME UNCHANGED <<settings, stage, call, asked, differ>> PROVE CheckInv'
  <2>1. \A j : Fitting(j)' = Fitting(j)
    BY <1>1 DEF Fitting, Setup!Needed
  <2>2. Len(needed)' = Len(needed)
    BY <1>1 DEF Setup!Needed
  <2> QED BY <1>1, <2>1, <2>2 DEF CheckInv, Chosen
<1>2. ASSUME stage' \notin {"check", "problems"}, stage' = "arm" => call'.step # "scan"
      PROVE  CheckInv'
  BY <1>2 DEF CheckInv
<1>3. ASSUME Setup!StartCheck PROVE CheckInv'
  <2>1. stage' = "check" /\ asked' = 1
    BY <1>3 DEF Setup!StartCheck
  <2>2. \A j \in 1 .. Len(needed') : ~(j < asked')
    BY <2>1
  <2> QED BY <2>1, <2>2 DEF CheckInv
<1>4. CASE Setup!Trigger
  BY <1>1, <1>4 DEF Setup!Trigger, Setup!toolVars
<1>5. CASE Setup!Meddle
  BY <1>5 DEF Setup!Meddle
<1>6. CASE Setup!Invoke
  <2>1. PICK c \in Calls : /\ call' = c
                           /\ IF c.step \in Setup!Checks THEN Setup!StartCheck ELSE stage' = c.step
    BY <1>6 DEF Setup!Invoke
  <2>2. CASE c.step \in Setup!Checks
    BY <1>3, <2>1, <2>2
  <2>3. CASE c.step \notin Setup!Checks
    <3>1. stage' = c.step /\ c.step \in {"arm", "disarm"}
      BY <2>1, <2>3, AcquisitionAssumption DEF Setup!Checks
    <3> QED BY <1>2, <2>1, <3>1
  <2> QED BY <2>2, <2>3
<1>7. CASE Setup!Compare
  <2>1. /\ UNCHANGED <<settings, stage, call>> /\ stage = "check"
        /\ asked' = asked + 1 /\ asked \in Nat \ {0} /\ asked <= Len(needed)
        /\ differ' = IF /\ needed[asked][1] \in DOMAIN settings
                        /\ settings[needed[asked][1]] # needed[asked][2]
                     THEN Append(differ, needed[asked]) ELSE differ
    BY <1>7 DEF Setup!Compare, Setup!dcuVars, DcuTypes
  <2>2. \A j : Fitting(j)' = Fitting(j)
    BY <2>1 DEF Fitting, Setup!Needed
  <2>3. Len(needed)' = Len(needed) /\ Len(needed) \in Nat /\ needed \in Seq(Settable)
    BY <2>1, NeededIs DEF Setup!Needed
  <2>4. ASSUME differ' = <<>>, NEW j \in 1 .. Len(needed), j < asked + 1 PROVE Fitting(j)
    <3>1. needed[asked] \in Settable /\ differ \in Seq(Settable)
      <4>1. asked \in 1 .. Len(needed)
        BY <2>1, <2>3
      <4> HIDE DEF needed
      <4> QED BY <2>3, <4>1, ElementOfSeq DEF DcuTypes
    <3>2. Append(differ, needed[asked]) # <<>>
      <4> DEFINE d == needed[asked]
      <4>1. d \in Settable /\ differ \in Seq(Settable)
        BY <3>1
      <4> HIDE DEF d
      <4>2. Append(differ, d) # <<>>
        BY <4>1, AppendProperties
      <4> QED BY <4>2 DEF d
    <3>3. differ = <<>> /\ Fitting(asked)
      BY <2>1, <2>4, <3>2 DEF Fitting
    <3>4. CASE j = asked
      BY <3>3, <3>4
    <3>5. CASE j # asked
      <4>1. j < asked
        BY <2>1, <2>3, <2>4, <3>5
      <4> QED BY <2>1, <2>4, <3>3, <4>1 DEF CheckInv
    <3> QED BY <3>4, <3>5
  <2> HIDE DEF needed
  <2>5. stage' = "check" /\ (differ' = <<>> => \A j \in 1 .. Len(needed') : j < asked' => Fitting(j)')
    BY <2>1, <2>2, <2>3, <2>4
  <2> QED BY <2>5 DEF CheckInv, needed
<1>8. CASE Setup!CompareFrameTime
  <2>1. /\ UNCHANGED settings /\ stage = "check" /\ stage' = "problems"
        /\ asked \in Nat \ {0} /\ asked > Len(needed)
        /\ differ' = differ \/ differ' = Append(differ, <<"frame_time", call.frame_time>>)
    BY <1>8 DEF Setup!CompareFrameTime, Setup!dcuVars, DcuTypes
  <2>2. ASSUME differ' = <<>> PROVE Chosen
    <3>1. differ = <<>>
      <4>1. Append(differ, <<"frame_time", call.frame_time>>) # <<>>
        <5> DEFINE d == <<"frame_time", call.frame_time>>
        <5>1. differ \in Seq(Settable) /\ d \in Settable
          BY <2>1 DEF DcuTypes, Settable
        <5> HIDE DEF d
        <5>2. Append(differ, d) # <<>>
          BY <5>1, AppendProperties
        <5> QED BY <5>2 DEF d
      <4> QED BY <2>1, <2>2, <4>1
    <3>2. \A j \in 1 .. Len(needed) : Fitting(j)
      <4>1. Len(needed) \in Nat
        BY NeededIs
      <4> QED BY <2>1, <3>1, <4>1 DEF CheckInv
    <3>3. PICK i, j, k \in 1 .. Len(needed) :
            needed[i] = <<"mode", "enabled">> /\ needed[j] = <<"ntrigger", Scan>> /\ needed[k] = <<"nimages", 1>>
      BY NeededIs
    <3>4. Fitting(i) /\ Fitting(j) /\ Fitting(k)
      BY <3>2
    <3> QED BY <3>3, <3>4 DEF Fitting, Chosen, DcuTypes
  <2> QED BY <2>1, <2>2 DEF CheckInv, Chosen
<1>9. CASE Setup!Decide
  <2>1. /\ UNCHANGED <<settings, call, differ>> /\ stage = "problems"
        /\ \/ stage' \in {"apply", "shell"}
           \/ stage' = "arm" /\ differ = <<>>
    BY <1>9 DEF Setup!Decide, Setup!dcuVars, Setup!Exit
  <2> QED BY <1>2, <2>1 DEF CheckInv, Chosen
<1>10. CASE Setup!Apply
  <2>1. stage' \in {"shell", "count_time", "apply"}
    BY <1>10 DEF Setup!Apply, Setup!Exit
  <2> QED BY <1>2, <2>1
<1>11. CASE Setup!Recheck
  BY <1>3, <1>11 DEF Setup!Recheck
<1>12. CASE \/ Setup!Arm \/ Setup!Disarm \/ Setup!ReplyLost \/ Setup!ArmReported \/ Setup!ScanEnds
            \/ Setup!ScanFails \/ Setup!DisarmReported \/ Setup!Fail
  <2>1. stage' \in {"armed", "disarmed", "shell", "scan", "disarm"}
    BY <1>12 DEF Setup!Arm, Setup!Disarm, Setup!ReplyLost, Setup!ArmReported, Setup!ScanEnds,
       Setup!ScanFails, Setup!DisarmReported, Setup!Fail, Setup!Exit
  <2> QED BY <1>2, <2>1
<1> QED BY <1>4, <1>5, <1>6, <1>7, <1>8, <1>9, <1>10, <1>11, <1>12
        DEF Setup!Next, Setup!Detector, Setup!Tool

\* A stream that grows by other series keeps a scan; one that ends with it grows by its next message.
LEMMA ScanAtGrows ==
  ASSUME plan \in Seq(MessageSet), NEW items \in Seq(MessageSet), plan' = plan \o items,
         NEW s \in Nat, NEW k \in Nat, NEW m \in Nat, k + m <= Len(plan), ScanAt(plan, s, k, m)
  PROVE  /\ (\A i \in 1 .. Len(items) : items[i].series # s) => ScanAt(plan', s, k, m)
         /\ k + m = Len(plan) /\ Len(items) = 1 /\ items[1] = WholeScan(s)[m + 1] =>
              ScanAt(plan', s, k, m + 1) /\ k + (m + 1) = Len(plan')
<1>1. /\ Len(plan') = Len(plan) + Len(items) /\ Len(plan) \in Nat /\ Len(items) \in Nat
      /\ \A i \in 1 .. Len(plan) : plan'[i] = plan[i]
      /\ \A i \in 1 .. Len(items) : plan'[Len(plan) + i] = items[i]
  BY StreamGrows
<1>2. \A i \in 1 .. Len(plan) : IF i \in (k + 1) .. (k + m) THEN plan[i] = WholeScan(s)[i - k] ELSE plan[i].series # s
  BY DEF ScanAt
<1>3. ASSUME \A i \in 1 .. Len(items) : items[i].series # s PROVE ScanAt(plan', s, k, m)
  <2> SUFFICES ASSUME NEW i \in 1 .. Len(plan')
               PROVE  IF i \in (k + 1) .. (k + m) THEN plan'[i] = WholeScan(s)[i - k] ELSE plan'[i].series # s
    BY DEF ScanAt
  <2>1. CASE i \in 1 .. Len(plan)
    BY <1>1, <1>2, <2>1
  <2>2. CASE i \notin 1 .. Len(plan)
    <3>1. /\ i - Len(plan) \in 1 .. Len(items) /\ i = Len(plan) + (i - Len(plan))
          /\ i \notin (k + 1) .. (k + m)
      BY <1>1, <2>2
    <3>2. plan'[Len(plan) + (i - Len(plan))].series # s
      BY <1>1, <1>3, <3>1
    <3> QED BY <3>1, <3>2
  <2> QED BY <2>1, <2>2
<1>4. ASSUME k + m = Len(plan), Len(items) = 1, items[1] = WholeScan(s)[m + 1]
      PROVE  ScanAt(plan', s, k, m + 1) /\ k + (m + 1) = Len(plan')
  <2>1. k + (m + 1) = Len(plan')
    BY <1>1, <1>4
  <2> SUFFICES ASSUME NEW i \in 1 .. Len(plan')
               PROVE  IF i \in (k + 1) .. (k + (m + 1)) THEN plan'[i] = WholeScan(s)[i - k] ELSE plan'[i].series # s
    BY <2>1 DEF ScanAt
  <2>2. CASE i \in 1 .. Len(plan)
    <3>1. i \in (k + 1) .. (k + (m + 1)) <=> i \in (k + 1) .. (k + m)
      BY <1>1, <1>4, <2>2
    <3> QED BY <1>1, <1>2, <2>2, <3>1
  <2>3. CASE i \notin 1 .. Len(plan)
    <3>1. i = Len(plan) + 1 /\ i - k = m + 1 /\ i \in (k + 1) .. (k + (m + 1))
      BY <1>1, <1>4, <2>3
    <3>2. plan'[Len(plan) + 1] = items[1]
      BY <1>1, <1>4
    <3> QED BY <1>4, <3>1, <3>2
  <2> QED BY <2>2, <2>3
<1> QED BY <1>3, <1>4

\* A stream of series up to run.series.
UpTo == /\ plan \in Seq(MessageSet)
        /\ \A i \in 1 .. Len(plan) : plan[i].series <= run.series

\* A scan that is over stays.
LEMMA OverStays ==
  ASSUME DcuTypes, UpTo, NEW items \in Seq(MessageSet), plan' = plan \o items,
         \A i \in 1 .. Len(items) : items[i].series = run'.series,
         \/ run'.series = run.series /\ (items = <<>> \/ state = "armed") /\ (state' = "armed" => state = "armed")
         \/ run'.series = run.series + 1,
         NEW s \in Nat, Over(s)
  PROVE  Over(s)'
<1>1. run.series \in Nat /\ s <= run.series
  BY DEF DcuTypes, Over
<1>2. PICK k \in 0 .. Len(plan) : k + Scan + 2 <= Len(plan) /\ ScanAt(plan, s, k, Scan + 2)
  BY DEF Over, Streamed
<1>3. Len(plan') = Len(plan) + Len(items) /\ Len(plan) \in Nat /\ Len(items) \in Nat
  BY StreamGrows DEF UpTo
<1>4. \A i \in 1 .. Len(items) : items[i].series # s
  <2>1. CASE run'.series = run.series + 1
    BY <1>1, <2>1
  <2>2. CASE run'.series = run.series /\ state = "armed"
    BY <2>2 DEF Over
  <2>3. CASE items = <<>>
    BY <2>3
  <2> QED BY <2>1, <2>2, <2>3
<1>5. Scan \in Nat /\ k \in Nat /\ Scan + 2 \in Nat /\ k + (Scan + 2) <= Len(plan)
  BY <1>2, <1>3, AcquisitionAssumption
<1>6. ScanAt(plan', s, k, Scan + 2)
  BY <1>2, <1>4, <1>5, ScanAtGrows DEF UpTo
<1>7. Streamed(s)'
  <2>1. k \in 0 .. Len(plan') /\ k + Scan + 2 <= Len(plan')
    BY <1>3, <1>5
  <2> QED BY <1>6, <2>1 DEF Streamed, ScanAt, WholeScan, Item
<1>8. s <= run'.series /\ (s = run'.series => state' # "armed")
  BY <1>1 DEF Over
<1> QED BY <1>7, <1>8 DEF Over

\* The stream, its series and the detector stay.
Quiet == UNCHANGED <<plan, run, state>>

LEMMA QuietScan ==
  ASSUME DcuTypes, ScanInv, Setup!Next, ~meddled', Quiet
  PROVE  ScanningInv' /\ ScannedInv'
<1>1. \A s : Over(s)' = Over(s)
  BY DEF Quiet, Over, Streamed, ScanAt, WholeScan, Item
<1>2. ASSUME ~Scanning', stage' # "disarmed", UNCHANGED good PROVE ScanningInv' /\ ScannedInv'
  BY <1>1, <1>2 DEF ScanInv, ScanningInv, ScannedInv
<1>3. ASSUME Scanning, Scanning', stage' = "disarm" => run.left = 0, stage' # "disarmed", UNCHANGED good
      PROVE  ScanningInv' /\ ScannedInv'
  <2>1. ScanningInv'
    <3>1. /\ state' = "armed" /\ run'.streamed /\ run'.per = 1 /\ run'.left + run'.sent = Scan
          /\ \E k \in 0 .. Len(plan') :
               k + run'.sent + 1 = Len(plan') /\ ScanAt(plan', run'.series, k, run'.sent + 1)
          /\ stage' = "disarm" => run'.left = 0
      BY <1>3 DEF ScanInv, ScanningInv, Quiet
    <3> QED BY <3>1 DEF ScanningInv, ScanAt, WholeScan, Item
  <2>2. ScannedInv'
    BY <1>1, <1>3 DEF ScanInv, ScannedInv
  <2> QED BY <2>1, <2>2
<1>4. CASE Setup!Meddle
  BY <1>4 DEF Setup!Meddle
<1>5. CASE Setup!Invoke
  <2>1. PICK c \in Calls : /\ call' = c /\ UNCHANGED good
                           /\ IF c.step \in Setup!Checks THEN Setup!StartCheck ELSE stage' = c.step
    BY <1>5 DEF Setup!Invoke
  <2>2. stage' = "check" \/ (stage' = call'.step /\ call'.step \in {"arm", "disarm"})
    BY <2>1, AcquisitionAssumption DEF Setup!Checks, Setup!StartCheck
  <2> QED BY <1>2, <2>1, <2>2 DEF Scanning
<1>6. CASE Setup!Compare \/ Setup!CompareFrameTime \/ Setup!Decide \/ Setup!Apply \/ Setup!Recheck \/ Setup!Fail
  <2>1. UNCHANGED good /\ stage' \in {"check", "problems", "apply", "shell", "arm", "count_time"}
    BY <1>6 DEF Setup!Compare, Setup!CompareFrameTime, Setup!Decide, Setup!Apply, Setup!Recheck,
       Setup!Fail, Setup!StartCheck, Setup!Exit
  <2> QED BY <1>2, <2>1 DEF Scanning
<1>7. CASE Setup!ArmReported
  <2>1. stage = "armed" /\ stage' \in {"shell", "scan"} /\ UNCHANGED <<call, good>>
    BY <1>7 DEF Setup!ArmReported, Setup!Exit
  <2>2. Scanning' => Scanning
    BY <2>1 DEF Scanning
  <2> QED BY <1>2, <1>3, <2>1, <2>2
<1>8. CASE Setup!ScanEnds
  <2>1. stage = "scan" /\ stage' = "disarm" /\ run.left = 0 /\ UNCHANGED <<call, good>>
    BY <1>8 DEF Setup!ScanEnds, Setup!Scanned
  <2>2. Scanning' => Scanning
    BY <2>1 DEF Scanning
  <2> QED BY <1>2, <1>3, <2>1, <2>2
<1>9. CASE Setup!ScanFails
  <2>1. stage' = "disarm" /\ code' # 0 /\ UNCHANGED good
    BY <1>9 DEF Setup!ScanFails
  <2> QED BY <1>2, <2>1 DEF Scanning
<1>10. CASE Setup!DisarmReported
  <2>1. /\ stage' = "shell" /\ stage = "disarmed" /\ run.series \in Nat
        /\ good' = IF call.step = "scan" /\ code = 0 THEN good \cup {run.series} ELSE good
    BY <1>10 DEF Setup!DisarmReported, Setup!Exit, DcuTypes
  <2>2. \A s \in good' : s \in Nat /\ Over(s)
    BY <2>1 DEF ScanInv, ScannedInv
  <2> QED BY <1>1, <2>1, <2>2 DEF ScanningInv, ScannedInv, Scanning
<1>11. CASE \/ Setup!Trigger \/ Setup!Arm \/ Setup!Disarm \/ Setup!ReplyLost
  <2>1. CASE Setup!Trigger
    <3>1. run'.left = run.left - 1 /\ run.left \in Nat
      BY <2>1 DEF Setup!Trigger, DcuTypes
    <3> QED BY <3>1 DEF Quiet
  <2>2. CASE Setup!Arm \/ (Setup!ReplyLost /\ stage = "arm")
    <3>1. state = "idle" /\ state' = "armed"
      BY <2>2 DEF Setup!Arm, Setup!ReplyLost, Setup!Armed
    <3> QED BY <3>1 DEF Quiet
  <2>3. CASE Setup!Disarm
    <3>1. stage = "disarm" /\ stage' = "disarmed" /\ UNCHANGED <<call, code, good>> /\ state # "armed"
      BY <2>3 DEF Setup!Disarm, Setup!Disarmed, Quiet
    <3>2. ~Scanning
      BY <3>1 DEF ScanInv, ScanningInv
    <3>3. ~(call'.step = "scan" /\ code' = 0)
      BY <3>1, <3>2 DEF Scanning
    <3> QED BY <1>1, <3>1, <3>3 DEF ScanInv, ScanningInv, ScannedInv, Scanning
  <2>4. CASE Setup!ReplyLost /\ stage # "arm"
    <3>1. stage' = "shell" /\ UNCHANGED good
      BY <2>4 DEF Setup!ReplyLost, Setup!Exit
    <3> QED BY <1>2, <3>1 DEF Scanning
  <2> QED BY <1>11, <2>1, <2>2, <2>3, <2>4
<1> QED BY <1>4, <1>5, <1>6, <1>7, <1>8, <1>9, <1>10, <1>11
        DEF Setup!Next, Setup!Detector, Setup!Tool

LEMMA TriggerScan ==
  ASSUME DcuTypes, UpTo, ScanInv, Setup!Trigger
  PROVE  ScanningInv' /\ ScannedInv'
<1> DEFINE items == IF run.streamed THEN Shots ELSE <<>>
<1>1. /\ state = "armed" /\ state' = "armed" /\ run.left > 0
      /\ run' = [run EXCEPT !.left = @ - 1, !.sent = @ + run.per]
      /\ UNCHANGED <<call, stage, code, good>>
      /\ plan' = IF run.streamed THEN plan \o Shots ELSE plan
  BY DEF Setup!Trigger, Setup!toolVars, Shots
<1>2. /\ run.series \in Nat /\ run.left \in Nat /\ run.sent \in Nat /\ run.per \in Nat
      /\ run'.series = run.series /\ run'.streamed = run.streamed /\ run'.per = run.per
      /\ run'.left = run.left - 1 /\ run'.sent = run.sent + run.per
  BY <1>1 DEF DcuTypes
<1>3. /\ items \in Seq(MessageSet) /\ plan' = plan \o items
      /\ \A i \in 1 .. Len(items) : items[i].series = run.series
  <2>1. CASE run.streamed
    BY <1>1, <2>1, ShotsAre
  <2>2. CASE ~run.streamed
    <3>1. <<>> \in Seq(MessageSet) /\ (\A i \in 1 .. Len(<<>>) : FALSE) /\ plan' = plan \o <<>>
      BY <1>1, <2>2, ConcatEmptySeq DEF UpTo
    <3>2. items = <<>>
      BY <2>2
    <3> HIDE DEF items
    <3> QED BY <3>1, <3>2
  <2> QED BY <2>1, <2>2
<1>4. ASSUME NEW s \in Nat, Over(s) PROVE Over(s)'
  <2> HIDE DEF items
  <2> QED BY <1>1, <1>2, <1>3, <1>4, OverStays
<1>5. ScannedInv'
  <2>1. ~(call.step = "scan" /\ stage = "disarmed" /\ code = 0)
    BY <1>1 DEF ScanInv, ScannedInv, Over
  <2>2. \A s \in good : s \in Nat /\ Over(s)'
    BY <1>4 DEF ScanInv, ScannedInv
  <2> QED BY <1>1, <2>1, <2>2 DEF ScannedInv
<1>6. ASSUME Scanning
      PROVE  /\ state' = "armed" /\ run'.streamed /\ run'.per = 1 /\ run'.left + run'.sent = Scan
             /\ \E k \in 0 .. Len(plan') :
                  k + run'.sent + 1 = Len(plan') /\ ScanAt(plan', run'.series, k, run'.sent + 1)
             /\ stage' # "disarm"
  <2>1. /\ run.streamed /\ run.per = 1 /\ run.left + run.sent = Scan
        /\ stage # "disarm"
    BY <1>1, <1>2, <1>6 DEF ScanInv, ScanningInv
  <2>2. PICK k \in 0 .. Len(plan) :
          k + run.sent + 1 = Len(plan) /\ ScanAt(plan, run.series, k, run.sent + 1)
    BY <1>6 DEF ScanInv, ScanningInv
  <2>3. /\ Len(items) = 1 /\ items[1] = Item("image", run.series, run.sent)
    <3>1. run.sent + 1 - 1 = run.sent
      BY <1>2
    <3> QED BY <2>1, <3>1, ShotsAre
  <2>4. Scan \in Nat /\ run.sent + 1 \in 1 .. Scan /\ (run.sent + 1) - 1 = run.sent /\ (run.sent + 1) + 1 \in Nat
    BY <1>1, <1>2, <2>1, AcquisitionAssumption
  <2>5. WholeScan(run.series)[(run.sent + 1) + 1] = Item("image", run.series, run.sent)
    <3>1. WholeScan(run.series)[(run.sent + 1) + 1] = Item("image", run.series, (run.sent + 1) - 1)
      BY <1>2, <2>4, WholeScanIs
    <3> QED BY <2>4, <3>1
  <2>6. Len(plan) \in Nat /\ k \in Nat /\ run.sent + 1 \in Nat
        /\ k + (run.sent + 1) = Len(plan) /\ k + (run.sent + 1) <= Len(plan)
    BY <1>2, <2>2, LenProperties DEF UpTo
  <2> HIDE DEF items
  <2>7. ScanAt(plan', run.series, k, (run.sent + 1) + 1) /\ k + ((run.sent + 1) + 1) = Len(plan')
    <3>1. Len(items) = 1 /\ items[1] = WholeScan(run.series)[(run.sent + 1) + 1]
      BY <2>3, <2>5
    <3> QED BY <1>2, <1>3, <2>2, <2>6, <3>1, ScanAtGrows DEF UpTo
  <2>8. Len(plan') = Len(plan) + 1
    BY <2>6, <2>7
  <2>9. k \in 0 .. Len(plan') /\ k + run'.sent + 1 = Len(plan') /\ run'.sent + 1 = (run.sent + 1) + 1
    BY <1>2, <2>1, <2>6, <2>7, <2>8
  <2>10. \E j \in 0 .. Len(plan') :
           j + run'.sent + 1 = Len(plan') /\ ScanAt(plan', run'.series, j, run'.sent + 1)
    BY <1>2, <2>7, <2>9
  <2>11. run'.left + run'.sent = Scan
    BY <1>2, <2>1
  <2> QED BY <1>1, <1>2, <2>1, <2>10, <2>11
<1>7. ScanningInv'
  <2>1. Scanning' = Scanning
    BY <1>1 DEF Scanning
  <2> QED BY <1>6, <2>1 DEF ScanningInv, ScanAt, WholeScan, Item
<1> QED BY <1>5, <1>7

LEMMA ArmScan ==
  ASSUME DcuTypes, UpTo, ScanInv, stage = "arm", Setup!Armed, UNCHANGED <<call, good>>,
         stage' \in {"armed", "shell"}
  PROVE  ScanningInv' /\ ScannedInv'
<1> DEFINE item == Item("start", run.series + 1, 0)
           items == IF run'.streamed THEN <<item>> ELSE <<>>
<1>1. /\ run.series \in Nat /\ run.series + 1 \in Nat /\ state = "idle" /\ state' = "armed"
      /\ run'.series = run.series + 1 /\ run'.left = settings["ntrigger"] /\ run'.per = settings["nimages"]
      /\ run'.sent = 0 /\ run'.streamed = (settings["mode"] = "enabled")
      /\ plan' = IF run'.streamed THEN Append(plan, Setup!Message("start", run.series + 1, 0)) ELSE plan
  BY DEF DcuTypes, Setup!Armed, Setup!Stream
<1>2. /\ item = Setup!Message("start", run.series + 1, 0) /\ item \in MessageSet
      /\ item.series = run.series + 1
  BY <1>1, ItemIs
<1> HIDE DEF item
<1>3. /\ items \in Seq(MessageSet) /\ plan' = plan \o items
      /\ \A i \in 1 .. Len(items) : items[i].series = run'.series
  <2>1. CASE run'.streamed
    <3>1. <<item>> \in Seq(MessageSet) /\ Len(<<item>>) = 1 /\ <<item>>[1] = item
      BY <1>2
    <3>2. plan' = plan \o <<item>>
      BY <1>1, <1>2, <2>1, AppendIsConcat DEF UpTo
    <3> QED BY <1>1, <1>2, <2>1, <3>1, <3>2
  <2>2. CASE ~run'.streamed
    <3>1. <<>> \in Seq(MessageSet) /\ (\A i \in 1 .. Len(<<>>) : FALSE) /\ plan' = plan \o <<>>
      BY <1>1, <2>2, ConcatEmptySeq DEF UpTo
    <3>2. items = <<>>
      BY <2>2
    <3> HIDE DEF items
    <3> QED BY <3>1, <3>2
  <2> QED BY <2>1, <2>2
<1>4. ASSUME NEW s \in Nat, Over(s) PROVE Over(s)'
  <2> HIDE DEF items
  <2> QED BY <1>1, <1>3, <1>4, OverStays
<1>5. ScannedInv'
  <2>1. \A s \in good : s \in Nat /\ Over(s)'
    BY <1>4 DEF ScanInv, ScannedInv
  <2> QED BY <2>1 DEF ScannedInv
<1>6. ASSUME call.step = "scan"
      PROVE  /\ run'.streamed /\ run'.per = 1 /\ run'.left + run'.sent = Scan
             /\ \E k \in 0 .. Len(plan') :
                  k + run'.sent + 1 = Len(plan') /\ ScanAt(plan', run'.series, k, run'.sent + 1)
  <2>1. Chosen /\ Scan \in Nat
    BY <1>6, AcquisitionAssumption DEF ScanInv, CheckInv
  <2>2. run'.streamed /\ run'.per = 1 /\ run'.left + run'.sent = Scan
    <3>1. settings["mode"] = "enabled" /\ settings["ntrigger"] = Scan /\ settings["nimages"] = 1
      BY <2>1 DEF Chosen
    <3>2. run'.streamed
      BY <1>1, <3>1
    <3>3. run'.per = 1 /\ run'.left = Scan /\ run'.sent = 0
      BY <1>1, <3>1
    <3> QED BY <2>1, <3>2, <3>3
  <2>3. Len(plan) \in Nat /\ 0 \in Nat /\ Len(plan) + 0 = Len(plan) /\ Len(plan) + 0 <= Len(plan)
    BY LenProperties DEF UpTo
  <2>4. ScanAt(plan, run.series + 1, Len(plan), 0)
    <3>1. ASSUME NEW i \in 1 .. Len(plan)
          PROVE  i \notin (Len(plan) + 1) .. (Len(plan) + 0) /\ plan[i].series # run.series + 1
      <4>1. plan[i].series <= run.series /\ plan[i] \in MessageSet
        BY ElementOfSeq DEF UpTo
      <4> QED BY <1>1, <2>3, <4>1 DEF MessageSet
    <3> QED BY <3>1 DEF ScanAt
  <2>5. Len(items) = 1 /\ items[1] = WholeScan(run.series + 1)[0 + 1]
    <3>1. WholeScan(run.series + 1)[0 + 1] = item
      BY <1>1, WholeScanIs DEF item
    <3> QED BY <2>2, <3>1
  <2> HIDE DEF items
  <2>6. ScanAt(plan', run.series + 1, Len(plan), 0 + 1) /\ Len(plan) + (0 + 1) = Len(plan')
    BY <1>1, <1>3, <2>3, <2>4, <2>5, ScanAtGrows DEF UpTo
  <2>7. \E k \in 0 .. Len(plan') :
          k + run'.sent + 1 = Len(plan') /\ ScanAt(plan', run'.series, k, run'.sent + 1)
    <3>1. /\ Len(plan) \in 0 .. Len(plan') /\ Len(plan) + run'.sent + 1 = Len(plan')
          /\ run'.sent + 1 = 0 + 1
      BY <1>1, <2>3, <2>6
    <3> QED BY <1>1, <2>6, <3>1
  <2> QED BY <2>2, <2>7
<1>7. ScanningInv'
  <2>1. Scanning' => call.step = "scan"
    BY DEF Scanning
  <2> QED BY <1>1, <1>6, <2>1 DEF ScanningInv, ScanAt, WholeScan, Item
<1> QED BY <1>5, <1>7

LEMMA DisarmScan ==
  ASSUME DcuTypes, UpTo, ScanInv, stage = "disarm", Setup!Disarmed, UNCHANGED <<call, good>>,
         \/ stage' = "disarmed" /\ UNCHANGED code
         \/ stage' = "shell"
  PROVE  ScanningInv' /\ ScannedInv'
<1> DEFINE item == Item("end", run.series, run.sent)
           items == IF state = "armed" /\ run.streamed THEN <<item>> ELSE <<>>
<1>1. /\ run.series \in Nat /\ run.sent \in Nat /\ run.left \in Nat /\ state' # "armed"
      /\ run'.series = run.series /\ run'.streamed = run.streamed
      /\ plan' = IF state = "armed" /\ run.streamed
                 THEN Append(plan, Setup!Message("end", run.series, run.sent)) ELSE plan
  BY DEF DcuTypes, Setup!Disarmed, Setup!Stream
<1>2. item = Setup!Message("end", run.series, run.sent) /\ item \in MessageSet /\ item.series = run.series
  BY <1>1, ItemIs
<1> HIDE DEF item
<1>3. /\ items \in Seq(MessageSet) /\ plan' = plan \o items
      /\ \A i \in 1 .. Len(items) : items[i].series = run'.series
      /\ items = <<>> \/ state = "armed"
  <2>1. CASE state = "armed" /\ run.streamed
    <3>1. <<item>> \in Seq(MessageSet) /\ Len(<<item>>) = 1 /\ <<item>>[1] = item
      BY <1>2
    <3>2. plan' = plan \o <<item>>
      BY <1>1, <1>2, <2>1, AppendIsConcat DEF UpTo
    <3> QED BY <1>1, <1>2, <2>1, <3>1, <3>2
  <2>2. CASE ~(state = "armed" /\ run.streamed)
    <3>1. <<>> \in Seq(MessageSet) /\ (\A i \in 1 .. Len(<<>>) : FALSE) /\ plan' = plan \o <<>>
      BY <1>1, <2>2, ConcatEmptySeq DEF UpTo
    <3>2. items = <<>>
      BY <2>2
    <3> HIDE DEF items
    <3> QED BY <3>1, <3>2
  <2> QED BY <2>1, <2>2
<1>4. ASSUME NEW s \in Nat, Over(s) PROVE Over(s)'
  <2> HIDE DEF items
  <2> QED BY <1>1, <1>3, <1>4, OverStays
<1>5. ASSUME call.step = "scan", code = 0 PROVE Over(run.series)'
  <2>1. /\ state = "armed" /\ run.streamed /\ run.left + run.sent = Scan /\ run.left = 0
        /\ \E k \in 0 .. Len(plan) :
             k + run.sent + 1 = Len(plan) /\ ScanAt(plan, run.series, k, run.sent + 1)
    BY <1>5 DEF ScanInv, ScanningInv, Scanning
  <2>2. run.sent = Scan /\ Scan \in Nat /\ Scan + 1 \in Nat /\ (Scan + 1) + 1 = Scan + 2
    BY <1>1, <2>1
  <2>3. PICK k \in 0 .. Len(plan) : k + Scan + 1 = Len(plan) /\ ScanAt(plan, run.series, k, Scan + 1)
    BY <2>1, <2>2
  <2>4. Len(plan) \in Nat /\ k \in Nat /\ k + (Scan + 1) = Len(plan) /\ k + (Scan + 1) <= Len(plan)
    BY <2>2, <2>3, LenProperties DEF UpTo
  <2>5. Len(items) = 1 /\ items[1] = WholeScan(run.series)[(Scan + 1) + 1]
    <3>1. WholeScan(run.series)[Scan + 2] = item
      BY <1>1, <2>2, WholeScanIs DEF item
    <3> QED BY <2>1, <2>2, <3>1
  <2> HIDE DEF items
  <2>6. ScanAt(plan', run.series, k, (Scan + 1) + 1) /\ k + ((Scan + 1) + 1) = Len(plan')
    BY <1>1, <1>3, <2>2, <2>3, <2>4, <2>5, ScanAtGrows DEF UpTo
  <2>7. k \in 0 .. Len(plan') /\ k + Scan + 2 <= Len(plan') /\ ScanAt(plan', run.series, k, Scan + 2)
    BY <2>2, <2>4, <2>6
  <2>8. Streamed(run.series)'
    <3>1. ScanAt(plan', run'.series, k, Scan + 2)
      BY <1>1, <2>7
    <3> QED BY <2>7, <3>1 DEF Streamed, ScanAt, WholeScan, Item
  <2> QED BY <1>1, <2>8 DEF Over
<1>6. ScannedInv'
  <2>1. \A s \in good : s \in Nat /\ Over(s)'
    BY <1>4 DEF ScanInv, ScannedInv
  <2> QED BY <1>5, <2>1 DEF ScannedInv
<1>7. ScanningInv'
  BY DEF ScanningInv, Scanning
<1> QED BY <1>6, <1>7

\* Unless other software meddles, `scan` keeps what it knows.
LEMMA ScanKept ==
  ASSUME DcuTypes, UpTo, ScanInv, Setup!Next, ~meddled'
  PROVE  ScanInv'
<1>1. CheckInv'
  BY ChecksKept DEF ScanInv
<1>2. ScanningInv' /\ ScannedInv'
  <2>1. CASE Setup!Trigger
    BY <2>1, TriggerScan
  <2>2. CASE Setup!Arm \/ Setup!Disarm \/ Setup!ReplyLost
    <3>1. /\ UNCHANGED <<call, good>>
          /\ \/ stage = "arm" /\ Setup!Armed /\ stage' \in {"armed", "shell"}
             \/ /\ stage = "disarm" /\ Setup!Disarmed
                /\ (stage' = "disarmed" /\ UNCHANGED code) \/ stage' = "shell"
      BY <2>2 DEF Setup!Arm, Setup!Disarm, Setup!ReplyLost, Setup!Exit
    <3> QED BY <3>1, ArmScan, DisarmScan
  <2>3. CASE \/ Setup!Meddle \/ Setup!Invoke \/ Setup!Compare \/ Setup!CompareFrameTime \/ Setup!Decide
             \/ Setup!Apply \/ Setup!Recheck \/ Setup!ArmReported \/ Setup!ScanEnds \/ Setup!ScanFails
             \/ Setup!DisarmReported \/ Setup!Fail
    <3>1. Quiet
      BY <2>3 DEF Quiet, Setup!Meddle, Setup!Invoke, Setup!Compare, Setup!CompareFrameTime, Setup!Decide,
         Setup!Apply, Setup!Recheck, Setup!ArmReported, Setup!ScanEnds, Setup!ScanFails,
         Setup!DisarmReported, Setup!Fail, Setup!dcuVars
    <3> QED BY <3>1, QuietScan
  <2> QED BY <2>1, <2>2, <2>3 DEF Setup!Next, Setup!Detector, Setup!Tool
<1> QED BY <1>1, <1>2 DEF ScanInv

-----------------------------------------------------------------------------
(* The acquisition.                                                         *)

LEMMA AcquisitionStart ==
  ASSUME PlansNumbered, AcquisitionInit
  PROVE  AcquisitionInv /\ Feed!Init
<1>1. PICK n : ZmqState(n)
  BY ZmqStart DEF AcquisitionInit, ZmqInv
<1>2. /\ stage = "shell" /\ good = {} /\ settings \in Setups /\ state \in {"na", "idle"}
      /\ run = [series |-> 0, left |-> 0, per |-> 0, sent |-> 0, streamed |-> FALSE]
      /\ asked = 1 /\ differ = <<>>
  BY DEF AcquisitionInit, Setup!Init
<1>3. CASE plan = <<>>
  <2>1. Len(plan) = 0
    BY <1>3
  <2>2. StreamInv(n)
    BY <1>2, <2>1 DEF StreamInv
  <2>3. DcuTypes
    BY <1>2, AcquisitionAssumption DEF DcuTypes
  <2>4. ScanInv
    BY <1>2 DEF ScanInv, CheckInv, ScanningInv, ScannedInv, Scanning
  <2> QED BY <1>1, <2>2, <2>3, <2>4, ZmqStart DEF AcquisitionInit, AcquisitionInv
<1>4. CASE plan # <<>>
  <2>1. Aside
    BY <1>2, <1>4 DEF AcquisitionInit, Aside
  <2> QED BY <1>1, <2>1, ZmqStart DEF AcquisitionInit, AcquisitionInv
<1> QED BY <1>3, <1>4

\* Without a DCU nothing is armed.
LEMMA AsideStays ==
  ASSUME Aside, Setup!Next
  PROVE  FALSE
<1>1. MaxCalls \in Nat /\ ~(calls < MaxCalls)
  BY AcquisitionAssumption DEF Aside
<1> QED BY <1>1 DEF Aside, Setup!Next, Setup!Detector, Setup!Tool, Setup!Trigger, Setup!Meddle,
        Setup!Invoke, Setup!Compare, Setup!CompareFrameTime, Setup!Decide, Setup!Apply, Setup!Recheck,
        Setup!Arm, Setup!ArmReported, Setup!ScanEnds, Setup!ScanFails, Setup!Disarm,
        Setup!DisarmReported, Setup!Fail, Setup!ReplyLost

LEMMA MeddledStays ==
  ASSUME Setup!Next, meddled
  PROVE  meddled'
BY DEF Setup!Next, Setup!Detector, Setup!Tool, Setup!Trigger, Setup!Meddle, Setup!Invoke, Setup!Compare,
   Setup!CompareFrameTime, Setup!Decide, Setup!Apply, Setup!Recheck, Setup!Arm, Setup!ArmReported,
   Setup!ScanEnds, Setup!ScanFails, Setup!Disarm, Setup!DisarmReported, Setup!Fail, Setup!ReplyLost

LEMMA AcquisitionStep ==
  ASSUME AcquisitionInv, [AcquisitionNext]_acquisitionVars
  PROVE  AcquisitionInv' /\ Delivers
<1>1. PICK n : ZmqState(n) /\ (Aside \/ StreamInv(n))
  BY DEF AcquisitionInv
<1>2. CASE Acquires
  <2>1. Setup!Next /\ ~Aside
    BY <1>2, AsideStays DEF Acquires
  <2>2. DcuTypes /\ (meddled \/ ScanInv) /\ StreamInv(n)
    BY <1>1, <2>1 DEF AcquisitionInv
  <2>3. PICK m : ZmqState(m)' /\ StreamInv(m)' /\ Delivers
    BY <1>1, <1>2, <2>2, DetectorStreams
  <2>4. DcuTypes'
    BY <2>1, <2>2, TypesKept
  <2>5. meddled' \/ ScanInv'
    <3>1. UpTo
      BY <1>1, <2>2 DEF UpTo, ZmqState, ZmqTypes, StreamInv
    <3> QED BY <2>1, <2>2, <3>1, ScanKept, MeddledStays
  <2> QED BY <2>3, <2>4, <2>5 DEF AcquisitionInv
<1>3. CASE Receives \/ UNCHANGED acquisitionVars
  <2>1. [ReceiverNext]_receiverVars /\ UNCHANGED setupVars
    BY <1>3 DEF Receives, acquisitionVars
  <2>2. ZmqState(n)' /\ Delivers
    BY <1>1, <2>1, MessageStep
  <2>3. UNCHANGED plan
    BY <2>1 DEF ReceiverNext, Compute, EmitReady, EmitPendingEnd, Enter, ReceiveStart, ReceiveEnd,
       ReceiveImage, Receive, Return, SendMessage, Release, RequestStop, Stop, receiverVars
  <2>4. UNCHANGED <<settings, state, run, call, stage, asked, differ, code, calls, good, meddled>>
    BY <2>1 DEF setupVars
  <2>5. Aside' = Aside /\ StreamInv(n)' = StreamInv(n) /\ DcuTypes' = DcuTypes
    BY <2>3, <2>4 DEF Aside, StreamInv, DcuTypes, Settable
  <2>6. ScanInv' = ScanInv
    <3>1. CheckInv' = CheckInv
      <4>1. \A j : Fitting(j)' = Fitting(j)
        BY <2>4 DEF Fitting, Setup!Needed
      <4>2. Len(Setup!Needed(call))' = Len(Setup!Needed(call))
        BY <2>4 DEF Setup!Needed
      <4> QED BY <2>4, <4>1, <4>2 DEF CheckInv, Chosen
    <3>2. ScanningInv' = ScanningInv
      BY <2>3, <2>4 DEF ScanningInv, Scanning, ScanAt, WholeScan, Item
    <3>3. ScannedInv' = ScannedInv
      BY <2>3, <2>4 DEF ScannedInv, Over, Streamed, ScanAt, WholeScan, Item
    <3> QED BY <3>1, <3>2, <3>3 DEF ScanInv
  <2> QED BY <1>1, <2>2, <2>4, <2>5, <2>6 DEF AcquisitionInv
<1> QED BY <1>2, <1>3 DEF AcquisitionNext

\* What was sent downstream is the beginning of the stream.
LEMMA WholeDownstream ==
  ASSUME AcquisitionInv
  PROVE  ScansWhole
<1>1. PICK n : ZmqState(n)
  BY DEF AcquisitionInv
<1>2. /\ plan \in Seq(MessageSet) /\ Len(plan) \in Nat /\ emitted \in Seq(MessageSet) /\ Len(emitted) \in Nat
      /\ Waiting \in Seq(MessageSet) /\ Len(Waiting) \in Nat /\ Taken \in 0 .. Len(plan)
  <2>1. /\ plan \in Seq(MessageSet) /\ emitted \in Seq(MessageSet) /\ staging \in Seq(MessageSet)
        /\ sent \in 0 .. Len(plan) /\ got \in 0 .. sent /\ seriesId \in Nat /\ images \in Nat
        /\ pc = "failed" => got > 0
    BY <1>1 DEF ZmqState, ZmqTypes
  <2>2. EndItem \in MessageSet
    BY <2>1 DEF EndItem, Item, MessageSet
  <2>3. Waiting \in Seq(MessageSet)
    BY <2>1, <2>2 DEF Waiting
  <2>4. Len(plan) \in Nat /\ Len(emitted) \in Nat /\ Len(Waiting) \in Nat
    BY <2>1, <2>3, LenProperties
  <2>5. Taken \in 0 .. Len(plan)
    BY <2>1, <2>4 DEF Taken
  <2> QED BY <2>1, <2>3, <2>4, <2>5
<1>3. Len(emitted) <= Len(plan) /\ \A i \in 1 .. Len(emitted) : emitted[i] = plan[i]
  <2>1. emitted \o Waiting = SubSeq(plan, 1, Taken)
    BY <1>1 DEF ZmqState, AsSent
  <2>2. /\ Len(emitted \o Waiting) = Len(emitted) + Len(Waiting)
        /\ \A i \in 1 .. Len(emitted) : (emitted \o Waiting)[i] = emitted[i]
    <3>1. /\ Len(emitted \o Waiting) = Len(emitted) + Len(Waiting)
          /\ \A i \in 1 .. Len(emitted) + Len(Waiting) :
               (emitted \o Waiting)[i] = IF i <= Len(emitted) THEN emitted[i] ELSE Waiting[i - Len(emitted)]
      BY <1>2, ConcatProperties
    <3> QED BY <1>2, <3>1
  <2>3. /\ Len(SubSeq(plan, 1, Taken)) = Taken
        /\ \A i \in 1 .. Taken : SubSeq(plan, 1, Taken)[i] = plan[i]
    <3>1. Len(SubSeq(plan, 1, Taken)) = Taken
      BY <1>2, MessagesTaken
    <3>2. \A i \in 1 .. Taken : SubSeq(plan, 1, Taken)[i] = plan[i]
      BY <1>2
    <3> QED BY <3>1, <3>2
  <2>4. Len(emitted) <= Taken
    BY <1>2, <2>1, <2>2, <2>3
  <2> QED BY <1>2, <2>1, <2>2, <2>3, <2>4
<1>4. ASSUME NEW s \in good, ~meddled
      PROVE  \E k \in 0 .. Len(plan) :
               k + Scan + 2 <= Len(plan) /\ ScanAt(plan, s, k, Scan + 2) /\ ScanAt(emitted, s, k, Scan + 2)
  <2>1. Streamed(s)
    BY <1>4 DEF AcquisitionInv, Aside, ScanInv, ScannedInv, Over
  <2>2. PICK k \in 0 .. Len(plan) : k + Scan + 2 <= Len(plan) /\ ScanAt(plan, s, k, Scan + 2)
    BY <2>1 DEF Streamed
  <2>3. ScanAt(emitted, s, k, Scan + 2)
    <3>1. ASSUME NEW i \in 1 .. Len(emitted)
          PROVE  IF i \in (k + 1) .. (k + (Scan + 2)) THEN emitted[i] = WholeScan(s)[i - k] ELSE emitted[i].series # s
      <4>1. i \in 1 .. Len(plan) /\ emitted[i] = plan[i]
        BY <1>2, <1>3
      <4> QED BY <2>2, <4>1 DEF ScanAt
    <3> QED BY <3>1 DEF ScanAt
  <2> QED BY <2>2, <2>3
<1> QED BY <1>4 DEF ScansWhole

\* The invariant of an acquisition: the stream is numbered and of the series armed last, and what
\* `scan` has checked, armed, counted and disarmed is so, unless other software meddled.
THEOREM AcquisitionInvariance ==
  ASSUME PlansNumbered
  PROVE  AcquisitionSpec => []AcquisitionInv
<1>1. AcquisitionInit => AcquisitionInv
  BY AcquisitionStart
<1>2. AcquisitionInv /\ [AcquisitionNext]_acquisitionVars => AcquisitionInv'
  BY AcquisitionStep
<1> QED BY <1>1, <1>2, PTL DEF AcquisitionSpec

\* The receiver delivers what a detector sends that detector_setup.py and others arm, disarm and
\* trigger while it is read: in order and exactly once, END with the number of its images, whatever
\* parameters the DCU had, which requests fail and who else sets one.
THEOREM AcquisitionDelivers ==
  ASSUME PlansNumbered
  PROVE  AcquisitionSpec => ImplementsFeed
<1>1. AcquisitionInit => Feed!Init
  BY AcquisitionStart
<1>2. AcquisitionInv /\ [AcquisitionNext]_acquisitionVars => [Feed!Next]_(Feed!feedVars)
  BY AcquisitionStep DEF Delivers
<1> QED BY <1>1, <1>2, AcquisitionInvariance, PTL DEF AcquisitionSpec, ImplementsFeed, Feed!Spec

\* When `scan` returns 0 the series it armed has exactly one image for every position of the scan,
\* between its START and its END, and what the receiver has delivered of it is the beginning of that,
\* whatever parameters the DCU had, was left with by failed invocations or was armed for before
\* (detector_setup.py:12); excepted is other software that sets a parameter behind the check.
THEOREM ScansAreWhole ==
  ASSUME PlansNumbered
  PROVE  AcquisitionSpec => []ScansWhole
BY AcquisitionInvariance, WholeDownstream, PTL

=============================================================================
