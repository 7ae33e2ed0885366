----------------------------- MODULE ImxQueuePair -----------------------------
(***************************************************************************)
(* The bookkeeping of imxrx.c for one reliable queue pair: the send queue   *)
(* with its batched completions, and the RECEIVEs that announcements of     *)
(* the peer consume.  The network behind it is ordered and loses nothing.   *)
(***************************************************************************)
EXTENDS Integers, Sequences, SequencesExt

CONSTANTS
  SendDepth,    \* send_depth: WRITEs in flight
  SignalEvery,  \* signal_every: a completion is requested every so many WRITEs
  RecvDepth     \* recv_depth: RECEIVEs posted at once

ASSUME DepthAssumption ==
  /\ SendDepth \in Nat \ {0}
  /\ SignalEvery \in Nat \ {0}
  /\ RecvDepth \in Nat \ {0}

VARIABLES
  sq,      \* WRITEs the network has not completed: what they write and cover
  sendCq,  \* WRITEs covered by the completions waiting in the send CQ
  writes,  \* stats.writes_outstanding
  since,   \* since_signal
  rq,      \* RECEIVEs posted and not consumed by the peer
  recvCq,  \* immediates waiting in the receive CQ
  recvs    \* stats.recvs_outstanding

sendVars == <<sq, sendCq, writes, since>>
recvVars == <<rq, recvCq, recvs>>
qpVars   == <<sendVars, recvVars>>

Smaller(a, b) == IF a <= b THEN a ELSE b

-----------------------------------------------------------------------------
(* post_write: a WRITE is signaled every `Every` WRITEs and always when it   *)
(* takes the last slot; a signaled one covers the unsignaled before it.      *)

Every == Smaller(SignalEvery, SendDepth)

Full == writes >= SendDepth

\* Mutation: off by one, and the last slot is not special.
Signals_Late == since + 1 > Every

Signals == since + 1 >= Every \/ writes + 1 >= SendDepth

\* post_write returning 1; when Full it returns 0 and changes nothing.
PostWrite(value) ==
  /\ ~Full
  /\ sq' = Append(sq, [value |-> value, covers |-> IF Signals THEN since + 1 ELSE 0])
  /\ since' = IF Signals THEN 0 ELSE since + 1
  /\ writes' = writes + 1
  /\ UNCHANGED sendCq

\* The network completes the oldest WRITE; only a signaled one tells.
CompleteWrite ==
  /\ sq # <<>>
  /\ sq' = Tail(sq)
  /\ sendCq' = sendCq + Head(sq).covers
  /\ UNCHANGED <<writes, since>>

\* imx_qp_poll drains the send CQ completely...
PollSend ==
  /\ writes' = writes - sendCq
  /\ sendCq' = 0
  /\ UNCHANGED <<sq, since>>

\* ...and takes no more completions from the receive CQ than immediates fit.
Polled(max) == SubSeq(recvCq, 1, Smaller(max, Len(recvCq)))
Unpolled(max) == SubSeq(recvCq, Smaller(max, Len(recvCq)) + 1, Len(recvCq))

\* The peer's WRITE_WITH_IMM consumes a RECEIVE; with none posted it waits.
Announce(imm) ==
  /\ rq > 0
  /\ rq' = rq - 1
  /\ recvCq' = Append(recvCq, imm)
  /\ UNCHANGED recvs

\* Mutation: polled RECEIVEs still count as outstanding.
PollRecv_Kept(max) == recvCq' = Unpolled(max) /\ UNCHANGED <<rq, recvs>>

PollRecv(max) ==
  /\ recvCq' = Unpolled(max)
  /\ recvs' = recvs - Len(Polled(max))
  /\ UNCHANGED rq

\* imx_qp_post_recvs: at most what fits in recv_depth; the verbs call may stop
\* early, after `posted` of them.
RecvRoom(outstanding) == RecvDepth - outstanding

PostRecvs(n, posted) ==
  /\ posted \in 0 .. Smaller(n, RecvRoom(recvs))
  /\ rq' = rq + posted
  /\ recvs' = recvs + posted
  /\ UNCHANGED recvCq

-----------------------------------------------------------------------------
(* The queue pair on its own, used by any caller in any order.              *)

CONSTANTS Values, Imms   \* what is written, what the peer announces

Init ==
  /\ sq = <<>> /\ sendCq = 0 /\ writes = 0 /\ since = 0
  /\ rq = 0 /\ recvCq = <<>> /\ recvs = 0

Write   == \E v \in Values : PostWrite(v) /\ UNCHANGED recvVars
Deliver == CompleteWrite /\ UNCHANGED recvVars
Arrive  == \E i \in Imms : Announce(i) /\ UNCHANGED sendVars
Poll    == \E max \in 0 .. RecvDepth : PollSend /\ PollRecv(max)
Repost  == \E n \in 1 .. RecvDepth, k \in 0 .. RecvDepth :
              PostRecvs(n, k) /\ UNCHANGED sendVars

Next == Write \/ Deliver \/ Arrive \/ Poll \/ Repost

Spec == Init /\ [][Next]_qpVars

-----------------------------------------------------------------------------
TypeOK ==
  /\ sq \in Seq([value : Values, covers : 0 .. SendDepth])
  /\ sendCq \in Nat /\ writes \in 0 .. SendDepth /\ since \in 0 .. SendDepth
  /\ rq \in 0 .. RecvDepth /\ recvs \in 0 .. RecvDepth
  /\ recvCq \in Seq(Imms)

\* Every RECEIVE the caller believes outstanding is either still posted or has
\* been consumed by an announcement that waits to be polled: none leaks, so the
\* peer can only be held up by announcements the caller has not taken.
ReceivesAccounted == rq + Len(recvCq) = recvs

\* Some completion is on its way or waiting.
SignalPending == sendCq > 0 \/ \E i \in DOMAIN sq : sq[i].covers > 0

\* A refused WRITE always has a completion coming, so that retrying it after a
\* poll (as retry_credit_write does) cannot wait forever: the unsignaled WRITEs
\* alone never fill the send queue.
NoWedge == Full => SignalPending
=============================================================================
