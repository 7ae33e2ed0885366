------------------------------- MODULE LiveView -------------------------------
(***************************************************************************)
(* From the publisher to the viewers (streaming/live_stream.py and          *)
(* streaming/web/server.py).  A snapshot goes to the PUB socket, whose      *)
(* subscriber keeps the newest message, and to the FrameStore of the page.  *)
(* A frame is its sequence number and the control revision it was made of.  *)
(***************************************************************************)
EXTENDS Integers, Sequences

CONSTANTS
  Writers,  \* threads that publish
  History,  \* frames the store's budget holds
  SndHwm    \* messages the PUB socket queues

VARIABLES
  store,  \* FrameStore._frames
  next,   \* FrameStore._next
  taken,  \* put: the frame each thread has made and not yet appended
  page,   \* the last frame sent to the page by _get_events
  wire,   \* messages on their way to the subscriber
  remote, \* the newest message the subscriber has read
  sent    \* LivePublisher._seq

viewVars == <<store, next, taken, page, wire, remote, sent>>

NoFrame == [seq |-> -1, rev |-> -1]

ViewInit ==
  /\ store = <<>> /\ next = 0 /\ taken = [t \in Writers |-> NoFrame]
  /\ page = NoFrame /\ wire = <<>> /\ remote = NoFrame /\ sent = 0

-----------------------------------------------------------------------------
Newest == store[Len(store)]

\* send(NOBLOCK): what exceeds the high-water mark is dropped.
Queued(m) == IF Len(wire) = SndHwm THEN wire ELSE Append(wire, m)

\* LivePublisher.publish; FrameStore.put makes a frame of the next number.
Take(t, rev, endpoint) ==
  /\ taken[t] = NoFrame
  /\ IF endpoint THEN wire' = Queued([seq |-> sent, rev |-> rev]) /\ sent' = sent + 1
                 ELSE UNCHANGED <<wire, sent>>
  /\ taken' = [taken EXCEPT ![t] = [seq |-> next, rev |-> rev]]
  /\ UNCHANGED <<store, next, page, remote>>

\* The oldest frames beyond the budget go; the newest is always kept.
Trimmed(frames) ==
  LET keep == IF History > 1 THEN History ELSE 1
  IN IF Len(frames) > keep THEN SubSeq(frames, Len(frames) - keep + 1, Len(frames)) ELSE frames

\* put, under the store's condition
Put(t) ==
  /\ taken[t] # NoFrame
  /\ store' = Trimmed(Append(store, taken[t]))
  /\ next' = next + 1
  /\ taken' = [taken EXCEPT ![t] = NoFrame]
  /\ UNCHANGED <<page, wire, remote, sent>>

\* A thread is interrupted between the two.
Abandon(t) ==
  /\ taken' = [taken EXCEPT ![t] = NoFrame]
  /\ UNCHANGED <<store, next, page, wire, remote, sent>>

-----------------------------------------------------------------------------
\* Mutation: the page is sent a frame it has, and not a newer one.
Fresh_Same == store # <<>> /\ Newest.seq = page.seq + 1

\* wait(after): a frame newer than the page's
Fresh == store # <<>> /\ Newest.seq > page.seq

ShowPage ==
  /\ Fresh
  /\ page' = Newest
  /\ UNCHANGED <<store, next, taken, wire, remote, sent>>

\* LiveSubscriber.recv_latest: CONFLATE keeps the last of the messages that arrived.
RecvLatest ==
  /\ \E n \in 1 .. Len(wire) :
       /\ remote' = wire[n]
       /\ wire' = SubSeq(wire, n + 1, Len(wire))
  /\ UNCHANGED <<store, next, taken, page, sent>>

ViewNext == ShowPage \/ RecvLatest
=============================================================================
