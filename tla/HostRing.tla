------------------------------- MODULE HostRing -------------------------------
(***************************************************************************)
(* The imagemux protocol between rdma_sender.py and a user of the dectris   *)
(* package's host reader: FrameReader locates the announced frames, the     *)
(* Dispatcher's kernels copy their images out of the ring behind its back,  *)
(* and CreditTracker says what the sender may overwrite.  The sender keeps  *)
(* its headers and control messages in tables it uses again, which the NIC  *)
(* reads when it carries out a WRITE.  The receiving queue pair is the one  *)
(* of ImxQueuePair; a unit of the ring is FRAME_ALIGN bytes.                *)
(***************************************************************************)
EXTENDS ImxQueuePair, FiniteSetsExt

CONSTANTS
  RingLen,      \* units of the ring
  Frames,       \* images of a series
  RdmaBatch,    \* images of a record
  SeriesCount,  \* --series
  Cuts,         \* values of --cut-after, 0 for none
  SenderDepth,  \* send_depth of the sender's queue pair
  ImmMod        \* 2^32

\* Hello.decode and FrameReader: the ring holds two units at least.
RingFits == RingLen \in Nat /\ RingLen >= 2

\* What fits the ring; a larger batch would wait for its credit until the sender gives up.
BatchFits == 1 + Smaller(RdmaBatch, Frames) <= RingLen

ASSUME RingAssumption ==
  /\ RingFits /\ BatchFits
  /\ Frames \in Nat /\ RdmaBatch \in Nat \ {0} /\ Cuts \subseteq Nat /\ ImmMod \in Nat \ {0}

VARIABLES
  cut, gpuRing,                   \* --cut-after; whether the ring is in GPU memory
  step, next, series,             \* the sender: where it stands, its record, its series
  position, sequence, header,     \* its state
  slots, control,                 \* the tables the NIC reads
  wire, unpolled, credit,         \* its WRITEs under way and completed, its credit word
  ring, unseen,                   \* the ring, and headers the NIC wrote that are not visible yet
  rpc, imms,                      \* the reader: where it stands, announcements it has taken
  readPosition, readSequence,     \* FrameReader
  pending, safe, credited,        \* CreditTracker, and the credit written last
  kernels, received,              \* Dispatcher's kernels not finished; frames handed out
  expired                         \* history: a header became visible too late

senderVars == <<cut, step, next, series, position, sequence, header, slots, control, unpolled>>
readerVars == <<rpc, imms, readPosition, readSequence, pending, safe, credited, expired>>
hostVars == <<senderVars, readerVars, gpuRing, wire, credit, ring, unseen, kernels, received>>

-----------------------------------------------------------------------------
(* Records.                                                                 *)

CeilDiv(a, b) == (a + b - 1) \div b

\* Sender.__init__: two headers for every record.
Slots == 2 * (CeilDiv(Frames, RdmaBatch) + 3)

Control(kind) == [kind |-> kind, first |-> 0, count |-> 0]
Wrap == Control("wrap")

Images(k) == [kind |-> "image", first |-> (k - 1) * RdmaBatch,
              count |-> Smaller(RdmaBatch, Frames - (k - 1) * RdmaBatch)]

\* The records of a series; --cut-after ends the first one in front of the batch that passes it.
Whole == <<Control("start")>> \o [k \in 1 .. CeilDiv(Frames, RdmaBatch) |-> Images(k)]
           \o <<Control("end")>>
Plan == IF cut = 0 \/ cut >= Frames THEN Whole ELSE SubSeq(Whole, 1, 1 + cut \div RdmaBatch)

DataUnits(r) == CASE r.kind = "wrap" -> 0 [] r.kind = "image" -> r.count [] OTHER -> 1

\* frame_span: the header and the padded data.
Span(r) == 1 + DataUnits(r)

Header(r) == [kind |-> r.kind, seq |-> sequence, at |-> position, series |-> series,
              first |-> r.first, count |-> r.count]
NoHeader == [kind |-> "none", seq |-> 0, at |-> 0, series |-> 0, first |-> 0, count |-> 0]

-----------------------------------------------------------------------------
(* The sender.                                                              *)

Offset == position % RingLen
Wraps == Offset + Span(Plan[next]) > RingLen
Record == IF Wraps THEN Wrap ELSE Plan[next]
EndPosition == position + (IF Wraps THEN RingLen - Offset ELSE Span(Record))

Outstanding == Len(wire) + unpolled

\* send_series: its control messages are copied into the table.
SendSeries ==
  /\ step = "open"
  /\ series' = series + 1
  /\ control' = [kind \in {"start", "end"} |-> series + 1]
  /\ next' = 1 /\ step' = "credit"
  /\ UNCHANGED <<readerVars, cut, position, sequence, header, slots, unpolled, gpuRing, wire, credit,
                 ring, unseen, kernels, received, qpVars>>

HasCredit == EndPosition - credit <= RingLen

TakeCredit ==
  /\ step = "credit" /\ HasCredit
  /\ slots' = [slots EXCEPT ![header % Slots] = Header(Record)]
  /\ step' = "header"
  /\ UNCHANGED <<readerVars, cut, next, series, position, sequence, header, control, unpolled,
                 gpuRing, wire, credit, ring, unseen, kernels, received, qpVars>>

HeaderWrite == [from |-> "slots", index |-> header % Slots, to |-> Offset, units |-> 1,
                tag |-> sequence, announces |-> DataUnits(Record) = 0]
DataWrite == [from |-> Record.kind, index |-> Record.first, to |-> Offset + 1,
              units |-> DataUnits(Record), tag |-> sequence, announces |-> TRUE]

\* record: behind its last WRITE the record is done; a wrap marker precedes the record itself.
Advance ==
  /\ header' = header + 1 /\ sequence' = sequence + 1 /\ position' = EndPosition
  /\ IF Wraps THEN step' = "credit" /\ UNCHANGED next
     ELSE /\ next' = next + 1
          /\ step' = IF next < Len(Plan) THEN "credit"
                     ELSE IF Record.kind = "end" THEN "drain" ELSE "done"

Room == Outstanding < SenderDepth

WriteHeader ==
  /\ step = "header" /\ Room
  /\ wire' = Append(wire, HeaderWrite)
  /\ IF HeaderWrite.announces THEN Advance
     ELSE step' = "data" /\ UNCHANGED <<next, position, sequence, header>>
  /\ UNCHANGED <<readerVars, cut, series, slots, control, unpolled, gpuRing, credit, ring, unseen,
                 kernels, received, qpVars>>

WriteData ==
  /\ step = "data" /\ Room
  /\ wire' = Append(wire, DataWrite)
  /\ Advance
  /\ UNCHANGED <<readerVars, cut, series, slots, control, unpolled, gpuRing, credit, ring, unseen,
                 kernels, received, qpVars>>

Drained == Outstanding = 0

\* The end of a series: its WRITEs have completed.
Drain ==
  /\ step = "drain" /\ Drained
  /\ step' = IF cut = 0 /\ series < SeriesCount THEN "open" ELSE "done"
  /\ UNCHANGED <<readerVars, cut, next, series, position, sequence, header, slots, control, unpolled,
                 gpuRing, wire, credit, ring, unseen, kernels, received, qpVars>>

Waits ==
  \/ step = "credit" /\ ~HasCredit
  \/ step \in {"header", "data"} /\ ~Room
  \/ step = "drain" /\ ~Drained

\* wait_for polls its queue pair,
PollSender ==
  /\ Waits /\ unpolled > 0
  /\ unpolled' = 0
  /\ UNCHANGED <<readerVars, cut, step, next, series, position, sequence, header, slots, control,
                 gpuRing, wire, credit, ring, unseen, kernels, received, qpVars>>

\* gives up after its timeout; main closes the queue pair, with what is under way.
Close ==
  /\ step = "done" \/ (Waits /\ unpolled = 0)
  /\ step' = "closed" /\ wire' = <<>>
  /\ UNCHANGED <<readerVars, cut, next, series, position, sequence, header, slots, control, unpolled,
                 gpuRing, credit, ring, unseen, kernels, received, qpVars>>

-----------------------------------------------------------------------------
(* The network.                                                             *)

\* What the NIC reads at the sender for unit i of a WRITE.
Source(w, i) ==
  CASE w.from = "slots" -> slots[w.index]
    [] w.from = "image" -> [tag |-> w.tag, image |-> w.index + i - 1]
    [] OTHER            -> [tag |-> w.tag, message |-> <<w.from, control[w.from]>>]

Written(w, old) ==
  [u \in 0 .. RingLen - 1 |-> IF u - w.to \in 0 .. w.units - 1 THEN Source(w, u - w.to + 1) ELSE old[u]]

\* The oldest WRITE is carried out; in GPU memory a header may become visible only later.
Place ==
  /\ wire # <<>>
  /\ LET w == Head(wire)
     IN /\ \/ ring' = Written(w, ring) /\ UNCHANGED unseen
           \/ /\ gpuRing /\ w.from = "slots"
              /\ unseen' = Append(unseen, [at |-> w.to, what |-> Source(w, 1)])
              /\ UNCHANGED ring
        /\ IF w.announces THEN Announce(w.tag % ImmMod) /\ UNCHANGED sendVars
                          ELSE UNCHANGED qpVars
  /\ wire' = Tail(wire) /\ unpolled' = unpolled + 1
  /\ UNCHANGED <<readerVars, cut, step, next, series, position, sequence, header, slots, control,
                 gpuRing, credit, kernels, received>>

Settle ==
  /\ unseen # <<>>
  /\ ring' = [ring EXCEPT ![Head(unseen).at] = Head(unseen).what]
  /\ unseen' = Tail(unseen)
  /\ UNCHANGED <<senderVars, readerVars, gpuRing, wire, credit, kernels, received, qpVars>>

\* The credit WRITE arrives at the sender.
DeliverCredit ==
  /\ CompleteWrite
  /\ credit' = Head(sq).value
  /\ UNCHANGED <<senderVars, readerVars, gpuRing, wire, ring, unseen, kernels, received, recvVars>>

-----------------------------------------------------------------------------
(* The reader.                                                              *)

TakeImms ==
  /\ rpc = "poll" /\ step # "unused"
  /\ recvCq # <<>> \/ sendCq > 0 \/ pending # <<>>
  /\ imms' = Polled(RecvDepth)
  /\ PollSend /\ PollRecv(RecvDepth)
  /\ rpc' = "next"
  /\ UNCHANGED <<senderVars, readPosition, readSequence, pending, safe, credited, expired, gpuRing,
                 wire, credit, ring, unseen, kernels, received>>

ReadOffset == readPosition % RingLen
Found == ring[ReadOffset]

\* FrameHeader.decode, and the frame that is expected.
Matches ==
  /\ "kind" \in DOMAIN Found /\ Found.kind # "none"
  /\ Found.seq = readSequence /\ Found.at = readPosition

InOrder == Head(imms) = readSequence % ImmMod

FitsRing == Found.kind = "wrap" \/ ReadOffset + Span(Found) <= RingLen

\* CreditTracker.add
Added(to, event) == Append(pending, [position |-> to, event |-> event])

\* Dispatcher.dispatch: a kernel that reads the units of the n-th frame.
Dispatched(n, units) == Append(kernels, [frame |-> n, units |-> units])

\* FrameReader.next: the frame, or None for a wrap marker; a kernel copies its images.
NextFrame ==
  /\ rpc = "next" /\ imms # <<>> /\ InOrder /\ Matches /\ FitsRing
  /\ LET n == Len(received) + 1
         image == Found.kind = "image"
         to == readPosition + (IF Found.kind = "wrap" THEN RingLen - ReadOffset ELSE Span(Found))
         units == ReadOffset + 1 .. ReadOffset + DataUnits(Found)
     IN /\ readPosition' = to
        /\ pending' = Added(to, IF image THEN n ELSE 0)
        /\ IF Found.kind = "wrap" THEN UNCHANGED <<received, kernels>>
           ELSE /\ received' = Append(received, [header |-> Found,
                                   data |-> IF image THEN {} ELSE {ring[u] : u \in units}])
                /\ kernels' = IF image THEN Dispatched(n, units) ELSE kernels
  /\ readSequence' = readSequence + 1
  /\ imms' = Tail(imms)
  /\ UNCHANGED <<senderVars, rpc, safe, credited, expired, gpuRing, wire, credit, ring, unseen, qpVars>>

\* It raises: an announcement out of order, a frame past the end, or a header that is not the
\* expected one within settle_s.
NextFails ==
  /\ rpc = "next" /\ imms # <<>>
  /\ ~(InOrder /\ Matches /\ FitsRing)
  /\ expired' = (InOrder /\ unseen # <<>>)
  /\ rpc' = "failed"
  /\ UNCHANGED <<senderVars, imms, readPosition, readSequence, pending, safe, credited, gpuRing, wire,
                 credit, ring, unseen, kernels, received, qpVars>>

\* The oldest kernel of the Dispatcher's stream runs.
RunKernel ==
  /\ kernels # <<>>
  /\ LET k == Head(kernels)
     IN received' = [received EXCEPT ![k.frame].data = {ring[u] : u \in k.units}]
  /\ kernels' = Tail(kernels)
  /\ UNCHANGED <<senderVars, readerVars, gpuRing, wire, credit, ring, unseen, qpVars>>

\* event.done
Happened(event) == \A i \in DOMAIN kernels : kernels[i].frame # event

\* Mutation: the last work that is done decides.
Finished_Last == {i \in DOMAIN pending : Happened(pending[i].event)}

\* CreditTracker.poll pops the work that is done, in order of position.
Finished == {i \in DOMAIN pending : \A j \in 1 .. i : Happened(pending[j].event)}

\* The RECEIVEs are posted again, then what is safe goes to the sender.
PollCredit ==
  /\ rpc = "next" /\ imms = <<>>
  /\ PostRecvs(RecvDepth, RecvRoom(recvs)) /\ UNCHANGED sendVars
  /\ LET n == IF Finished = {} THEN 0 ELSE Max(Finished)
     IN /\ safe' = IF n = 0 THEN safe ELSE pending[n].position
        /\ pending' = SubSeq(pending, n + 1, Len(pending))
  /\ rpc' = "credit"
  /\ UNCHANGED <<senderVars, imms, readPosition, readSequence, credited, expired, gpuRing, wire, credit,
                 ring, unseen, kernels, received>>

WriteCredit ==
  /\ rpc = "credit"
  /\ IF safe = credited \/ Full THEN UNCHANGED <<credited, qpVars>>
     ELSE PostWrite(safe) /\ credited' = safe /\ UNCHANGED recvVars
  /\ rpc' = "poll"
  /\ UNCHANGED <<senderVars, imms, readPosition, readSequence, pending, safe, expired, gpuRing, wire,
                 credit, ring, unseen, kernels, received>>

-----------------------------------------------------------------------------
(* The ring in use, or a queue pair alone.                                  *)

HostInit ==
  /\ cut \in Cuts /\ gpuRing \in BOOLEAN
  /\ next = 1 /\ series = 0 /\ position = 0 /\ sequence = 0 /\ header = 0
  /\ slots = [i \in 0 .. Slots - 1 |-> NoHeader] /\ control = [kind \in {"start", "end"} |-> 0]
  /\ wire = <<>> /\ unpolled = 0 /\ credit = 0
  /\ ring = [u \in 0 .. RingLen - 1 |-> NoHeader] /\ unseen = <<>>
  /\ rpc = "poll" /\ imms = <<>> /\ readPosition = 0 /\ readSequence = 0
  /\ pending = <<>> /\ safe = 0 /\ credited = 0 /\ kernels = <<>> /\ received = <<>>
  /\ expired = FALSE
  /\ sq = <<>> /\ sendCq = 0 /\ writes = 0 /\ since = 0 /\ recvCq = <<>>
  /\ \/ step = "open" /\ rq = RecvDepth /\ recvs = RecvDepth   \* VerbsConn.connect
     \/ step = "unused" /\ rq = 0 /\ recvs = 0 /\ cut = 0 /\ gpuRing

Sends == SendSeries \/ TakeCredit \/ WriteHeader \/ WriteData \/ Drain \/ PollSender \/ Close
Network == Place \/ Settle \/ DeliverCredit \/ RunKernel
Reads == TakeImms \/ NextFrame \/ NextFails \/ PollCredit \/ WriteCredit

Alone == step = "unused" /\ Next /\ UNCHANGED hostVars

HostNext == Alone \/ Sends \/ Network \/ Reads

HostSpec == HostInit /\ [][HostNext]_<<hostVars, qpVars>>

-----------------------------------------------------------------------------
\* What the records of the connection say, from one series to the next.
RecordAt(n) == Whole[((n - 1) % Len(Whole)) + 1]
SeriesAt(n) == ((n - 1) \div Len(Whole)) + 1

\* The data of a frame, as the sender had it.
Meant(h) ==
  IF h.kind = "image" THEN {[tag |-> h.seq, image |-> h.first + i] : i \in 0 .. h.count - 1}
                      ELSE {[tag |-> h.seq, message |-> <<h.kind, h.series>>]}

\* The n-th frame the reader hands out is the sender's n-th record, and its images, copied by
\* kernels that run later, are those of that record: no header is taken for another one, of an
\* earlier lap or from a table entry used again, no unit is overwritten before it is read
\* (dectris/README.md:74, "GPU readers must finish before credit is returned"), and nothing of
\* a conforming sender is refused, unless a header stays invisible beyond the settle time.
FramesExact ==
  /\ \A n \in DOMAIN received :
       LET f == received[n]
       IN /\ f.header.kind = RecordAt(n).kind /\ f.header.first = RecordAt(n).first
          /\ f.header.count = RecordAt(n).count /\ f.header.series = SeriesAt(n)
          /\ f.data = Meant(f.header) \/ ~Happened(n)
  /\ rpc = "failed" => expired
=============================================================================
