----------------------------- MODULE ZmqReceiver -----------------------------
(***************************************************************************)
(* ZmqRxOp: Stream2 messages come from a ZMQ PULL socket in order; images   *)
(* are staged until a batch is full or END arrives, and every batch waits   *)
(* for the publication window.  A message is one item of ImageFeed.         *)
(***************************************************************************)
EXTENDS Integers, Sequences

CONSTANTS
  Plans,      \* the messages of a sender: sequences of items
  BatchSize,  \* images in a full batch
  WindowCap,  \* capacity of the publication window
  MayStop     \* whether the session may be asked to stop

ASSUME ReceiverAssumption ==
  /\ BatchSize \in Nat \ {0} /\ WindowCap \in Nat \ {0} /\ MayStop \in BOOLEAN
  /\ \A p \in Plans : \A i \in 1 .. Len(p) : p[i].kind \in {"start", "image", "end"}

VARIABLES
  plan, sent,        \* the sender's messages, and how many it has sent
  pc,                \* "idle", in the receive "loop", "failed" or "stopped"
  got,               \* messages received
  ready, active, pendingEnd,
  seriesId, images,    \* metadata_.series_id and series_images_
  staging,           \* images of the batch being filled
  batchId, released, \* batches published, and released downstream
  emitted,           \* items published so far
  stop

flags == <<ready, active, pendingEnd, seriesId, images>>
outVars == <<batchId, emitted>>
receiverVars == <<plan, sent, pc, got, flags, staging, outVars, released, stop>>

Item(kind, s, id) == [kind |-> kind, series |-> s, id |-> id]

-----------------------------------------------------------------------------
\* BatchWindow::admits(batch_id_ + 1)
Admitted == batchId + 1 - released <= WindowCap

\* emit_batch: publishes the staged images, or a message of its own.
Emit(items) ==
  /\ batchId' = batchId + 1
  /\ emitted' = emitted \o items
  /\ staging' = <<>>
  /\ pc' = "idle"

Activated == pc = "idle" /\ ~stop /\ Admitted

EmitReady ==
  /\ Activated /\ ~ready
  /\ ready' = TRUE
  /\ Emit(<<>>)
  /\ UNCHANGED <<plan, sent, got, active, pendingEnd, seriesId, images, released, stop>>

EndItem == Item("end", seriesId, images)

\* An END that found images staged goes out with the next activation.
EmitPendingEnd ==
  /\ Activated /\ ready /\ pendingEnd
  /\ pendingEnd' = FALSE /\ active' = FALSE
  /\ Emit(<<EndItem>>)
  /\ UNCHANGED <<plan, sent, got, ready, seriesId, images, released, stop>>

Enter ==
  /\ Activated /\ ready /\ ~pendingEnd
  /\ pc' = "loop"
  /\ UNCHANGED <<plan, sent, got, flags, staging, outVars, released, stop>>

Message == plan[got + 1]

Receive(kind) ==
  /\ pc = "loop" /\ ~stop
  /\ got < sent
  /\ Message.kind = kind
  /\ got' = got + 1
  /\ UNCHANGED <<plan, sent, released, stop>>

Reject == pc' = "failed" /\ UNCHANGED <<flags, staging, outVars>>

ReceiveStart ==
  /\ Receive("start")
  /\ IF active THEN Reject
     ELSE /\ active' = TRUE /\ seriesId' = Message.series /\ images' = 0
          /\ Emit(<<Item("start", Message.series, 0)>>)
          /\ UNCHANGED <<ready, pendingEnd>>

\* Mutation: END overtakes the images that are staged.
EndNow_Always == TRUE

\* END waits for a batch of its own when images are staged.
EndNow == staging = <<>>

ReceiveEnd ==
  /\ Receive("end")
  /\ IF ~active THEN Reject
     ELSE /\ pendingEnd' = ~EndNow
          /\ active' = ~EndNow
          /\ Emit(IF EndNow THEN <<EndItem>> ELSE staging)
          /\ UNCHANGED <<ready, seriesId, images>>

\* Mutation: the image that completes a batch is not part of it.
Staged_Late(item) == IF Len(staging) + 1 = BatchSize THEN staging ELSE Append(staging, item)

Staged(item) == Append(staging, item)

BatchFull == Len(staging) + 1 = BatchSize

ReceiveImage ==
  /\ Receive("image")
  /\ IF ~active THEN Reject
     ELSE /\ images' = images + 1
          /\ IF BatchFull
             THEN Emit(Staged(Item("image", seriesId, Message.id)))
             ELSE /\ staging' = Staged(Item("image", seriesId, Message.id))
                  /\ UNCHANGED <<pc, outVars>>
          /\ UNCHANGED <<ready, active, pendingEnd, seriesId>>

\* Nothing to receive, or a stop: what is staged stays for the next activation.
\* (The bound on the messages of one activation exceeds a batch and is not met.)
Return ==
  /\ pc = "loop"
  /\ stop \/ got = sent
  /\ pc' = "idle"
  /\ UNCHANGED <<plan, sent, got, flags, staging, outVars, released, stop>>

-----------------------------------------------------------------------------
SendMessage ==
  /\ sent < Len(plan)
  /\ sent' = sent + 1
  /\ UNCHANGED <<plan, pc, got, flags, staging, outVars, released, stop>>

\* DecompressGpuOp releases the oldest batch.
Release ==
  /\ released < batchId
  /\ released' = released + 1
  /\ UNCHANGED <<plan, sent, pc, got, flags, staging, outVars, stop>>

RequestStop ==
  /\ MayStop /\ ~stop
  /\ stop' = TRUE
  /\ UNCHANGED <<plan, sent, pc, got, flags, staging, outVars, released>>

Stop ==
  /\ stop /\ pc = "idle"
  /\ pc' = "stopped"
  /\ UNCHANGED <<plan, sent, got, flags, staging, outVars, released, stop>>

ReceiverInit ==
  /\ plan \in Plans /\ sent = 0
  /\ pc = "idle" /\ got = 0
  /\ ready = FALSE /\ active = FALSE /\ pendingEnd = FALSE /\ seriesId = 0 /\ images = 0
  /\ staging = <<>> /\ batchId = 0 /\ released = 0 /\ emitted = <<>>
  /\ stop = FALSE

Compute == \/ EmitReady \/ EmitPendingEnd \/ Enter
           \/ ReceiveStart \/ ReceiveEnd \/ ReceiveImage \/ Return

ReceiverNext == Compute \/ SendMessage \/ Release \/ RequestStop \/ Stop

ReceiverSpec == ReceiverInit /\ [][ReceiverNext]_receiverVars

-----------------------------------------------------------------------------
ReceiverTypeOK ==
  /\ plan \in Plans /\ sent \in 0 .. Len(plan) /\ got \in 0 .. sent
  /\ pc \in {"idle", "loop", "failed", "stopped"}
  /\ ready \in BOOLEAN /\ active \in BOOLEAN /\ pendingEnd \in BOOLEAN /\ stop \in BOOLEAN
  /\ images \in Nat /\ batchId \in Nat /\ released \in 0 .. batchId
  /\ Len(staging) < BatchSize

\* The messages up to n are START, images and END of one series after the other.
Conforming(n) ==
  \A i \in 1 .. n :
    LET open == i > 1 /\ plan[i - 1].kind # "end"
    IN IF plan[i].kind = "start" THEN ~open ELSE open

Feed == INSTANCE ImageFeed WITH
          produced <- SubSeq(plan, 1, sent), delivered <- emitted

\* What goes downstream is the sender's sequence: START, batches of consecutive
\* images of one series, and END behind the last of them with their number,
\* whatever the receiver is stopped at or refuses.
ImplementsFeed == Feed!Spec

\* All of a conforming sender's messages are delivered, up to a last partial batch,
\* unless the run is stopped.
AllDelivered == <>[](stop \/ ~Conforming(sent) \/ emitted \o staging = plan)
=============================================================================
