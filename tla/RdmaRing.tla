------------------------------- MODULE RdmaRing -------------------------------
(***************************************************************************)
(* The RDMA path of live4d: a sender writes frames into the receiver's     *)
(* ring, the queue pair announces each one, RdmaRxOp gathers the images    *)
(* into batch tensors on CUDA streams, and the consumed ring position goes *)
(* back to the sender as credit once the GPU reads below it have finished. *)
(*                                                                         *)
(* Ring bytes are counted in cells of 128 bytes (FRAME_ALIGN): a frame is  *)
(* one header cell followed by its data cells.  A logical position p lies  *)
(* in cell p % RingLen.  Every cell holds the frame written to it last.    *)
(***************************************************************************)
EXTENDS Integers, Sequences, SequencesExt, FiniteSets

CONSTANTS
  Plans,        \* what the sender may send: sequences of records, one chosen
  RingLen,      \* ring length in cells
  ControlCells, \* cells of the data of a START or END frame
  StartCells,   \* cells of START data that RdmaRxOp takes (kMaxStartBytes)
  ImageCells,   \* cells of one image
  BatchSize,    \* images in a full output batch
  MaxBatch,     \* announced or uncredited frames RdmaRxOp holds at once
  MaxDeficit,   \* kMaxReceiveDeficit
  WindowCap,    \* capacity of the publication window
  ImmMod,       \* immediates carry the sequence number modulo this (2^32)
  Streams,      \* CUDA streams an activation may be given
  MayStop,      \* whether the session may be asked to stop
  SendDepth, SignalEvery, RecvDepth   \* of the receiver's queue pair

VARIABLES
  \* the sender
  plan, next, pos, seq, credit,
  \* frames on their way, and the ring
  wire, ring,
  \* the receiver's queue pair (ImxQueuePair)
  sq, sendCq, writes, since, rq, recvCq, recvs,
  \* RdmaRxOp
  pc, batch, stream, nextBatch, readyEmitted, control, active, frame,
  readerPos, nextSeq, imms, deficit, credits, safe, sentCredit,
  \* the GPU's pending reads, and the stop request
  gpu, ops, stop,
  \* downstream: the publication window, and everything emitted so far
  released, emitted

senderVars  == <<plan, next, pos, seq>>
sendVars    == <<sq, sendCq, writes, since>>
recvVars    == <<rq, recvCq, recvs>>
netVars     == <<wire, ring, credit, sendVars, recvVars>>
creditVars  == <<credits, safe, sentCredit>>
readVars    == <<readerPos, nextSeq, imms, active, frame>>
outVars     == <<nextBatch, readyEmitted, emitted, released>>
gpuVars     == <<gpu, ops, stop>>
computeVars == <<pc, batch, stream, control, deficit>>
vars == <<senderVars, netVars, creditVars, readVars, outVars, gpuVars, computeVars>>

QP == INSTANCE ImxQueuePair WITH Values <- Nat, Imms <- 0 .. (ImmMod - 1)

Least(a, b) == IF a <= b THEN a ELSE b

-----------------------------------------------------------------------------
(* Frames and the cells they occupy.                                        *)

Record == [kind : {"start", "image", "end"}, series : Nat, id : Nat, n : Nat]

DataCells(r) == IF r.kind = "image" THEN r.n * ImageCells ELSE ControlCells

\* frame_span: header and data, in whole cells.
Span(r) == 1 + DataCells(r)

Offset(p) == p % RingLen

\* A wrap marker at position p: the stream continues at the ring's start.
WrapFrame(p, q) ==
  [kind |-> "wrap", series |-> 0, id |-> 0, n |-> 0, pos |-> p, seq |-> q,
   span |-> RingLen - Offset(p)]

RecordFrame(r, p, q) ==
  [kind |-> r.kind, series |-> r.series, id |-> r.id, n |-> r.n,
   pos |-> p, seq |-> q, span |-> Span(r)]

\* What a cell holds before anything is written to it.
NoFrame == [kind |-> "none", series |-> 0, id |-> 0, n |-> 0, pos |-> 0,
            seq |-> 0, span |-> 0]

\* The cells that positions lo .. hi-1 lie in, and those the sender's RDMA
\* WRITEs for frame f touch (of a wrap marker only the header).
CellsOf(lo, hi) == {Offset(p) : p \in lo .. (hi - 1)}
Cells(f) == CellsOf(f.pos, f.pos + (IF f.kind = "wrap" THEN 1 ELSE f.span))

\* The images of a series up to and with record r.
Counted(r) == IF r.kind = "image" THEN r.id + r.n ELSE 0

\* What send_series makes of a run: series one after the other, each a START, image
\* frames that carry images, numbered from 0 without a gap, and an END with their
\* number unless the sender goes away inside the last.
\* A frame fits the ring: for one that does not, the sender would wait in vain for credit.
Conforming(p) ==
  /\ p \in Seq(Record)
  /\ \A k \in 1 .. Len(p) :
       /\ Span(p[k]) <= RingLen
       /\ IF p[k].kind = "start"
          THEN p[k].n = 0 /\ (k = 1 \/ p[k - 1].kind = "end")
          ELSE k > 1 /\ p[k - 1].kind # "end" /\ p[k].series = p[k - 1].series
       /\ p[k].kind = "image" => p[k].n > 0 /\ p[k].id = Counted(p[k - 1])
       /\ p[k].kind = "end" => p[k].n = Counted(p[k - 1])

\* The ranges of RdmaRxOp's parameters (checked in start()), and a conforming sender, whose
\* metadata is no longer than RdmaRxOp takes (its own buffer would hold four times as much).
ASSUME RingAssumption ==
  /\ RingLen \in Nat \ {0} /\ ImageCells \in Nat \ {0}
  /\ StartCells \in Nat /\ ControlCells \in 1 .. StartCells
  /\ BatchSize \in Nat \ {0} /\ MaxBatch \in Nat /\ ImmMod \in Nat \ {0}
  /\ \A p \in Plans : Conforming(p)

-----------------------------------------------------------------------------
(* The sender (Sender.send_series and its inner record()).                  *)

\* wait_for(lambda: end_pos - self.credit_position() <= ring_len)
HasCredit(end) == end - credit <= RingLen

Fits(r) == Offset(pos) + Span(r) <= RingLen

Post(f) ==
  /\ HasCredit(f.pos + f.span)
  /\ wire' = Append(wire, f)
  /\ pos' = f.pos + f.span
  /\ seq' = seq + 1
  /\ UNCHANGED <<plan, ring, credit, sendVars, recvVars,
                 creditVars, readVars, outVars, gpuVars, computeVars>>

SendRecord ==
  /\ next <= Len(plan)
  /\ Fits(plan[next])
  /\ Post(RecordFrame(plan[next], pos, seq))
  /\ next' = next + 1

SendWrap ==
  /\ next <= Len(plan)
  /\ ~Fits(plan[next])
  /\ Post(WrapFrame(pos, seq))
  /\ UNCHANGED next

-----------------------------------------------------------------------------
(* The network.  Queue pairs are reliable and ordered; a write with         *)
(* immediate waits for a posted RECEIVE (rnr_retry = 7, infinite).          *)

PlaceFrame ==
  /\ wire # <<>>
  /\ LET f == Head(wire) IN
       /\ QP!Announce(f.seq % ImmMod)
       /\ ring' = [c \in DOMAIN ring |-> IF c \in Cells(f) THEN f ELSE ring[c]]
  /\ wire' = Tail(wire)
  /\ UNCHANGED <<senderVars, credit, sendVars, creditVars, readVars, outVars,
                 gpuVars, computeVars>>

PlaceCredit ==
  /\ QP!CompleteWrite
  /\ credit' = Head(sq).value
  /\ UNCHANGED <<senderVars, wire, ring, recvVars, creditVars, readVars, outVars,
                 gpuVars, computeVars>>

-----------------------------------------------------------------------------
(* The GPU.  A read is enqueued on the stream of its activation and covers  *)
(* positions lo..hi-1 for the tensor of batch `to`.  A stream runs in       *)
(* order, different streams in any order, except that a read may wait for   *)
(* an event of another stream.  An event [st, op] has happened when all     *)
(* reads enqueued on st up to number op have finished.                      *)

EventDone(e) == \A g \in gpu : ~(g.st = e.st /\ g.op <= e.op)

AllDone(events) == \A e \in events : EventDone(e)

GpuRead(g) ==
  /\ \A h \in gpu : h.st = g.st => h.op >= g.op
  /\ AllDone(g.after)
  /\ gpu' = gpu \ {g}
  /\ UNCHANGED <<senderVars, netVars, creditVars, readVars, outVars, ops, stop,
                 computeVars>>

-----------------------------------------------------------------------------
(* Credits: poll_credits and retry_credit_write, run at the start of every   *)
(* activation and of every iteration of its loop.                            *)

\* How many credits at the front are backed by finished reads.
DoneCredits ==
  CHOOSE k \in 0 .. Len(credits) :
    /\ \A i \in 1 .. k : AllDone(credits[i].after)
    /\ k < Len(credits) => ~AllDone(credits[k + 1].after)

SafeNow == IF DoneCredits = 0 THEN safe ELSE credits[DoneCredits].pos

\* Mutation: a refused credit write counts as sent.
ServiceCredits_Lost ==
  /\ safe' = SafeNow
  /\ credits' = SubSeq(credits, DoneCredits + 1, Len(credits))
  /\ IF SafeNow > sentCredit
     THEN /\ IF QP!Full THEN UNCHANGED sendVars ELSE QP!PostWrite(SafeNow)
          /\ sentCredit' = SafeNow
     ELSE UNCHANGED <<sendVars, sentCredit>>

\* A credit write refused by a full send queue is retried the next time.
ServiceCredits ==
  /\ safe' = SafeNow
  /\ credits' = SubSeq(credits, DoneCredits + 1, Len(credits))
  /\ IF SafeNow > sentCredit /\ ~QP!Full
     THEN QP!PostWrite(SafeNow) /\ sentCredit' = SafeNow
     ELSE UNCHANGED <<sendVars, sentCredit>>

\* record_credit refuses a position that does not advance.
Advances(position) == credits = <<>> \/ credits[Len(credits)].pos < position

RecordCredit(position, events) ==
  credits' = Append(credits, [pos |-> position, after |-> events])

-----------------------------------------------------------------------------
(* RdmaRxOp::compute.  pc is where the operator is: "idle" between           *)
(* activations, "admit" before the loop, "loop" and "step" at the start of   *)
(* an iteration and after its credit service, "poll" and "repost" inside     *)
(* poll_completions, "emit" behind the loop, "stopped" after stop(), and     *)
(* "rejected" or "starved" when the operator has failed.                     *)

NoControl == [kind |-> "none", series |-> 0, images |-> 0]

Item(kind, series, id) == [kind |-> kind, series |-> series, id |-> id]

Activate ==
  /\ pc = "idle" /\ ~stop
  /\ ServiceCredits
  /\ pc' = "admit"
  /\ UNCHANGED <<senderVars, wire, ring, credit, recvVars, readVars, outVars, gpuVars,
                 batch, stream, control, deficit>>

\* BatchWindow::admits for the next batch id.
Admitted == nextBatch + 1 <= released \/ nextBatch + 1 - released <= WindowCap

WaitForWindow ==
  /\ pc = "admit"
  /\ ~Admitted
  /\ pc' = "idle"
  /\ UNCHANGED <<senderVars, netVars, creditVars, readVars, outVars, gpuVars,
                 batch, stream, control, deficit>>

\* emit_control
EmitControl ==
  /\ nextBatch' = nextBatch + 1
  /\ emitted' = IF control.kind = "ready" THEN emitted
                ELSE Append(emitted, Item(control.kind, control.series, control.images))
  /\ readyEmitted' = (readyEmitted \/ control.kind = "ready")
  /\ control' = NoControl
  /\ pc' = "idle"
  /\ UNCHANGED <<senderVars, netVars, creditVars, readVars, released, gpuVars,
                 batch, stream, deficit>>

\* A control message that ended the previous batch goes out on its own.
EmitPending ==
  /\ pc = "admit"
  /\ Admitted /\ control.kind # "none"
  /\ EmitControl

EnterLoop ==
  /\ pc = "admit"
  /\ Admitted /\ control.kind = "none"
  /\ pc' = "loop"
  /\ batch' = <<>>
  /\ stream' \in Streams
  /\ UNCHANGED <<senderVars, netVars, creditVars, readVars, outVars, gpuVars,
                 control, deficit>>

Iterate ==
  /\ pc = "loop" /\ ~stop
  /\ ServiceCredits
  /\ pc' = "step"
  /\ UNCHANGED <<senderVars, wire, ring, credit, recvVars, readVars, outVars, gpuVars,
                 batch, stream, control, deficit>>

\* Mutation: the read does not wait for the stream that read the frame's start.
ReadWaits_None(f) == {}

\* The events the next read of frame f waits for: the one recorded when the
\* previous activation left f unfinished (cudaStreamWaitEvent).
ReadWaits(f) == f.last

\* The read of `take` images of frame f behind those already used.
ReadOf(f, take) ==
  LET first == f.rec.pos + 1 + f.used * ImageCells IN
  [st |-> stream, op |-> ops + 1, after |-> ReadWaits(f),
   lo |-> first, hi |-> first + take * ImageCells, to |-> nextBatch + 1]

\* Gather images of the current frame.  A frame read to its end is credited
\* behind the event; one that outlives the batch keeps the event.
Gather ==
  /\ pc = "step"
  /\ \E f \in frame :
       LET take  == Least(f.rec.n - f.used, BatchSize - Len(batch))
           event == {[st |-> stream, op |-> ops + 1]}
           ids   == [i \in 1 .. take |-> Item("image", f.rec.series, f.rec.id + f.used + i - 1)]
           onward == IF Len(batch) + take = BatchSize THEN "emit" ELSE "loop"
       IN /\ gpu' = gpu \cup {ReadOf(f, take)}
          /\ ops' = ops + 1
          /\ batch' = batch \o ids
          /\ IF f.used + take < f.rec.n
             THEN /\ frame' = {[f EXCEPT !.used = @ + take, !.last = event]}
                  /\ pc' = onward
                  /\ UNCHANGED credits
             ELSE /\ frame' = {}
                  /\ IF Advances(readerPos)
                     THEN RecordCredit(readerPos, event) /\ pc' = onward
                     ELSE pc' = "rejected" /\ UNCHANGED credits
  /\ UNCHANGED <<senderVars, netVars, safe, sentCredit, readerPos, nextSeq, imms,
                 active, outVars, stop, stream, control, deficit>>

\* A control message ends the batch that is being filled.
BreakForControl ==
  /\ pc = "step"
  /\ frame = {} /\ control.kind # "none"
  /\ pc' = "emit"
  /\ UNCHANGED <<senderVars, netVars, creditVars, readVars, outVars, gpuVars,
                 batch, stream, control, deficit>>

-----------------------------------------------------------------------------
(* read_next_frame: the header at the reader's position must be the one the  *)
(* immediate announces.                                                      *)

HeaderAtReader == ring[Offset(readerPos)]

Announced(h, imm) ==
  /\ imm = nextSeq % ImmMod
  /\ h.kind # "none" /\ h.seq = nextSeq /\ h.pos = readerPos

Legal(h) ==
  /\ h.kind = "wrap"  => Offset(readerPos) # 0
  /\ h.kind # "wrap"  => h.span <= RingLen - Offset(readerPos)
  /\ h.kind = "start" => ~active.on /\ h.span - 1 \in 1 .. StartCells
  /\ h.kind = "end"   => active.on /\ h.series = active.series
  /\ h.kind = "image" => active.on /\ h.series = active.series /\ h.n > 0

\* Mutation: a wrap skips a whole ring.
FrameEnd_WholeRing(h) == readerPos + (IF h.kind = "wrap" THEN RingLen ELSE h.span)

FrameEnd(h) ==
  IF h.kind = "wrap" THEN readerPos + (RingLen - Offset(readerPos))
                     ELSE readerPos + h.span

\* Mutation: image frames are credited when read, too.
CreditedAtOnce_Images(h) == TRUE

\* Everything but an image frame is credited at once, with no event to wait for.
CreditedAtOnce(h) == h.kind # "image"

\* Mutation: START does not reset the image count.
Accept_NoReset(h) ==
  CASE h.kind = "start" ->
         /\ active' = [active EXCEPT !.on = TRUE, !.series = h.series]
         /\ control' = [kind |-> "start", series |-> h.series, images |-> 0]
         /\ UNCHANGED frame
    [] h.kind = "end" ->
         /\ active' = [active EXCEPT !.on = FALSE]
         /\ control' = [kind |-> "end", series |-> active.series, images |-> active.images]
         /\ UNCHANGED frame
    [] h.kind = "image" ->
         /\ active' = [active EXCEPT !.images = @ + h.n]
         /\ frame' = {[rec |-> h, used |-> 0, last |-> {}]}
         /\ UNCHANGED control
    [] OTHER -> UNCHANGED <<active, control, frame>>

\* The effect of a frame on the receiver's series state.
Accept(h) ==
  CASE h.kind = "start" ->
         /\ active' = [on |-> TRUE, series |-> h.series, images |-> 0]
         /\ control' = [kind |-> "start", series |-> h.series, images |-> 0]
         /\ UNCHANGED frame
    [] h.kind = "end" ->
         /\ active' = [active EXCEPT !.on = FALSE]
         /\ control' = [kind |-> "end", series |-> active.series, images |-> active.images]
         /\ UNCHANGED frame
    [] h.kind = "image" ->
         /\ active' = [active EXCEPT !.images = @ + h.n]
         /\ frame' = {[rec |-> h, used |-> 0, last |-> {}]}
         /\ UNCHANGED control
    [] OTHER -> UNCHANGED <<active, control, frame>>

ReadFrame ==
  /\ pc = "step"
  /\ frame = {} /\ control.kind = "none" /\ imms # <<>>
  /\ LET h == HeaderAtReader IN
       IF Announced(h, Head(imms)) /\ Legal(h) /\ (CreditedAtOnce(h) => Advances(FrameEnd(h)))
       THEN /\ Accept(h)
            /\ readerPos' = FrameEnd(h)
            /\ nextSeq' = nextSeq + 1
            /\ IF CreditedAtOnce(h) THEN RecordCredit(FrameEnd(h), {})
                                    ELSE UNCHANGED credits
            /\ pc' = "loop"
       ELSE /\ pc' = "rejected"
            /\ UNCHANGED <<active, control, frame, readerPos, nextSeq, credits>>
  /\ imms' = Tail(imms)
  /\ UNCHANGED <<senderVars, netVars, safe, sentCredit, outVars, gpuVars,
                 batch, stream, deficit>>

-----------------------------------------------------------------------------
(* poll_completions: first replenish RECEIVEs still owed, then drain the     *)
(* send completions and take the announcements there is room for.            *)

NothingToRead == pc = "step" /\ frame = {} /\ control.kind = "none" /\ imms = <<>>

\* repost_recvs: posting may fall short, and then leaves a deficit.
Repost(consumed, onward) ==
  /\ \E k \in 0 .. (consumed + deficit) :
       /\ QP!PostRecvs(consumed + deficit, k)
       /\ deficit' = consumed + deficit - k
  /\ pc' = IF deficit' > MaxDeficit THEN "starved" ELSE onward
  /\ UNCHANGED <<senderVars, wire, ring, credit, sendVars, creditVars, readVars, outVars,
                 gpuVars, batch, stream, control>>

RepostDeficit == NothingToRead /\ deficit > 0 /\ Repost(0, "poll")

RepostConsumed == pc = "repost" /\ Repost(Len(imms), "loop")

\* Announcements beyond this stay in the receive CQ, where they hold RECEIVEs.
Room == MaxBatch - Len(credits)

\* An empty poll ends an activation that has gathered nothing.
AfterEmptyPoll == IF batch = <<>> THEN "idle" ELSE "loop"

PollNoRoom ==
  /\ pc = "poll" \/ (NothingToRead /\ deficit = 0)
  /\ Room <= 0
  /\ pc' = AfterEmptyPoll
  /\ UNCHANGED <<senderVars, netVars, creditVars, readVars, outVars, gpuVars,
                 batch, stream, control, deficit>>

\* The first successful poll makes the operator ready.
Poll ==
  /\ pc = "poll" \/ (NothingToRead /\ deficit = 0)
  /\ Room > 0
  /\ QP!PollSend /\ QP!PollRecv(Room)
  /\ imms' = QP!Polled(Room)
  /\ control' = IF readyEmitted THEN control ELSE [NoControl EXCEPT !.kind = "ready"]
  /\ pc' = IF imms' # <<>> THEN "repost"
           ELSE IF readyEmitted THEN AfterEmptyPoll ELSE "loop"
  /\ UNCHANGED <<senderVars, wire, ring, credit, creditVars, readerPos, nextSeq, active,
                 frame, outVars, gpuVars, batch, stream, deficit>>

-----------------------------------------------------------------------------
(* The end of compute: publish the batch.  A control message that ended it   *)
(* waits for the next activation, unless the batch is empty.                 *)

EmitBatch ==
  /\ pc = "emit" /\ ~stop
  /\ batch # <<>>
  /\ nextBatch' = nextBatch + 1
  /\ emitted' = emitted \o batch
  /\ pc' = "idle"
  /\ batch' = <<>>
  /\ UNCHANGED <<senderVars, netVars, creditVars, readVars, readyEmitted, released,
                 gpuVars, stream, control, deficit>>

EmitControlAtOnce ==
  /\ pc = "emit" /\ ~stop
  /\ batch = <<>>
  /\ EmitControl

-----------------------------------------------------------------------------
(* Stopping, and the downstream consumers.                                  *)

RequestStop ==
  /\ MayStop /\ ~stop
  /\ stop' = TRUE
  /\ UNCHANGED <<senderVars, netVars, creditVars, readVars, outVars, gpu, ops, computeVars>>

\* Mutation: no synchronisation on the way out.
StreamDrained_Not == TRUE

\* StreamSyncOnAbandon waits for the stream this activation enqueued reads on.
StreamDrained == batch = <<>> \/ \A g \in gpu : g.st # stream

\* compute returns without publishing the tensor it was filling.
Abandon ==
  /\ pc \in {"loop", "emit"} /\ stop
  /\ StreamDrained
  /\ pc' = "idle"
  /\ batch' = <<>>
  /\ UNCHANGED <<senderVars, netVars, creditVars, readVars, outVars, gpuVars,
                 stream, control, deficit>>

\* RdmaRxOp::stop: cudaDeviceSynchronize, then clear_state.
DeviceDrained == gpu = {}

StopOperator ==
  /\ pc = "idle" /\ stop
  /\ DeviceDrained
  /\ pc' = "stopped"
  /\ imms' = <<>> /\ credits' = <<>> /\ frame' = {}
  /\ active' = [active EXCEPT !.on = FALSE]
  /\ UNCHANGED <<senderVars, netVars, safe, sentCredit, readerPos, nextSeq,
                 outVars, gpuVars, batch, stream, control, deficit>>

\* Every consumer of the window has released the oldest unreleased batch.
Release ==
  /\ released < nextBatch
  /\ released' = released + 1
  /\ UNCHANGED <<senderVars, netVars, creditVars, readVars, nextBatch, readyEmitted,
                 emitted, gpuVars, computeVars>>

-----------------------------------------------------------------------------
\* VerbsConn.connect posts RecvDepth RECEIVEs before Ready is sent.
Init ==
  /\ plan \in Plans
  /\ next = 1 /\ pos = 0 /\ seq = 0 /\ credit = 0
  /\ wire = <<>> /\ ring = [c \in 0 .. (RingLen - 1) |-> NoFrame]
  /\ sq = <<>> /\ sendCq = 0 /\ writes = 0 /\ since = 0
  /\ rq = RecvDepth /\ recvCq = <<>> /\ recvs = RecvDepth
  /\ pc = "idle" /\ batch = <<>> /\ stream \in Streams
  /\ nextBatch = 0 /\ readyEmitted = FALSE /\ control = NoControl
  /\ active = [on |-> FALSE, series |-> 0, images |-> 0]
  /\ frame = {} /\ readerPos = 0 /\ nextSeq = 0 /\ imms = <<>> /\ deficit = 0
  /\ credits = <<>> /\ safe = 0 /\ sentCredit = 0
  /\ gpu = {} /\ ops = 0 /\ stop = FALSE
  /\ released = 0 /\ emitted = <<>>

Send    == SendRecord \/ SendWrap
Gpu     == \E g \in gpu : GpuRead(g)
Compute == \/ Activate \/ WaitForWindow \/ EmitPending \/ EnterLoop \/ Iterate
           \/ Gather \/ BreakForControl \/ ReadFrame
           \/ RepostDeficit \/ PollNoRoom \/ Poll \/ RepostConsumed
           \/ EmitBatch \/ EmitControlAtOnce \/ Abandon \/ StopOperator

Next == Send \/ PlaceFrame \/ PlaceCredit \/ Gpu \/ Compute \/ RequestStop \/ Release

Spec == Init /\ [][Next]_vars

\* The sender's loop, the network and the GPU make progress, the runtime keeps
\* activating compute (a 100 us clock), and the consumers release what they get.
Fairness ==
  /\ WF_vars(Send) /\ WF_vars(PlaceFrame) /\ WF_vars(PlaceCredit)
  /\ WF_vars(Gpu) /\ WF_vars(Compute) /\ WF_vars(Release)

FairSpec == Spec /\ Fairness

-----------------------------------------------------------------------------
TypeOK ==
  /\ plan \in Plans /\ next \in Nat /\ pos \in Nat /\ seq \in Nat /\ credit \in Nat
  /\ QP!TypeOK
  /\ pc \in {"idle", "admit", "loop", "step", "poll", "repost", "emit", "stopped",
             "rejected", "starved"}
  /\ stream \in Streams
  /\ nextBatch \in Nat /\ readyEmitted \in BOOLEAN /\ stop \in BOOLEAN
  /\ control.kind \in {"none", "ready", "start", "end"}
  /\ active.on \in BOOLEAN /\ active.images \in Nat
  /\ Cardinality(frame) <= 1
  /\ readerPos \in Nat /\ nextSeq \in Nat /\ deficit \in Nat
  /\ safe \in Nat /\ sentCredit \in Nat /\ ops \in Nat /\ released \in 0 .. nextBatch

\* Positions the receiver or the GPU still has to read, as intervals: pending
\* GPU reads, what is left of the current frame, and announced frames.
UnreadFrames == {f \in {ring[c] : c \in DOMAIN ring} : f.kind # "none" /\ f.seq >= nextSeq}

Unread == {<<g.lo, g.hi>> : g \in gpu}
          \cup {<<f.rec.pos + 1 + f.used * ImageCells, f.rec.pos + f.rec.span>> : f \in frame}
          \cup {<<f.pos, f.pos + (IF f.kind = "wrap" THEN 1 ELSE f.span)>> : f \in UnreadFrames}

\* No write the sender has posted touches a ring cell that still has to be read
\* (dectris/README.md: "GPU readers must finish before credit is returned"): the
\* credit really covers every read, on whatever stream it runs.
NoOverwrite ==
  \A w \in Range(wire) : \A u \in Unread :
    Cells(w) \cap CellsOf(u[1], u[2]) = {}

\* A conforming sender's stream is never refused: read_next_frame finds at its
\* own position the very frame the immediate announces, across wraps of the ring
\* and of the immediate.
NeverRejects == pc # "rejected"

\* Shutting down leaves no read behind: the tensor of an abandoned activation is
\* no longer written (every pending read belongs to a published batch or to the
\* one being filled), and nothing reads the ring once the operator has stopped and
\* VerbsConn.close may deregister it.
ShutdownSafe ==
  /\ \A g \in gpu : g.to <= nextBatch \/ (g.to = nextBatch + 1 /\ batch # <<>>)
  /\ pc = "stopped" => gpu = {}

\* Positions travel in order: the sender's credit, the credit written last, the
\* finished reads, the reader and the writer.
CreditChain ==
  /\ credit <= sentCredit /\ sentCredit <= safe
  /\ \A c \in Range(credits) : safe < c.pos /\ c.pos <= readerPos
  /\ readerPos <= pos
  /\ pos - credit <= RingLen

-----------------------------------------------------------------------------
(* What downstream gets is the sender's stream: ImageFeed.                  *)

Items(r) ==
  IF r.kind = "image" THEN [i \in 1 .. r.n |-> Item("image", r.series, r.id + i - 1)]
                      ELSE <<Item(r.kind, r.series, r.n)>>

Produced == FlattenSeq([i \in 1 .. (next - 1) |-> Items(plan[i])])

Feed == INSTANCE ImageFeed WITH
          produced <- Produced, delivered <- emitted, ready <- readyEmitted

\* The output of RdmaRxOp is the sender's series in order, each image once, in
\* batches of at most BatchSize that no series boundary crosses, behind READY,
\* and END carries the number of images sent.
ImplementsFeed == Feed!Spec

\* Whatever the sender writes is read and delivered in the end (a last partial batch is held
\* back until a control frame closes it), unless the run is stopped or the operator has failed
\* for want of RECEIVEs: a full send queue, a closed window, a full ring and a credit that waits
\* for the GPU all resolve.  And a stop ends the operator wherever it finds it: waiting for the
\* window, for announcements with a batch half full, or for the GPU.
AllRead  == next > Len(plan) /\ emitted \o batch = Produced
EndsWell ==
  /\ <>(AllRead \/ stop \/ pc = "starved")
  /\ stop ~> pc \in {"stopped", "starved"}
=============================================================================
