-------------------------------- MODULE Session --------------------------------
(***************************************************************************)
(* A connection over RDMA from its first call to its last: the receiver's   *)
(* main thread (app.py main and run, connection.py VerbsConn, imagemux.py   *)
(* TcpConnector), its liveness and watch threads, and the sender's process  *)
(* (tools/rdma_sender.py).  The handshake socket carries Hello, Accept and  *)
(* Ready and then only tells each side that the other has closed it; frames *)
(* are written past it into the ring, which RdmaRing describes.             *)
(***************************************************************************)
EXTENDS Integers, Sequences

CONSTANTS
  Parties,    \* operators that report ready
  Seconds,    \* execute.seconds is set
  MaxFrames   \* bound: frames of a connection

ASSUME SessionAssumption == Parties \in Nat \ {0} /\ Seconds \in BOOLEAN /\ MaxFrames \in Nat

VARIABLES
  receiverAt, \* where the receiver's main thread is
  ring,       \* "none", "allocated" or "registered"
  qp, posted, \* the receiver's queue pair, and RECEIVEs posted on it
  sock,       \* the receiver's socket: "none", "open", "closed"
  session,    \* "none", "running", "stopping", "ended"
  remaining,  \* operators that have not reported ready
  deadline,   \* "none", "set", "passed"
  stopping,   \* a signal has come
  live,       \* the liveness thread: "none", "recv", "over"
  dead,       \* "no", or why it marked the link dead: "peer", "error", "own"
  watch,      \* the watch thread: "none", "wait", "drain", "report", "over"
  closing, senderGone,
  senderAt,   \* where the sender is
  sqp,        \* the sender's queue pair
  written, flight,       \* frames written, and those on their way
  toSender, toReceiver,  \* the socket's two directions; "eof" is last
  net         \* messages of the socket arrive

receiver    == <<receiverAt, ring, qp, posted, sock>>
run         == <<session, remaining, deadline, stopping>>
threads     == <<live, dead, watch, closing, senderGone>>
sender      == <<senderAt, sqp, written, flight>>
wires       == <<toSender, toReceiver, net>>
sessionVars == <<receiver, run, threads, sender, wires>>

SessionInit ==
  /\ receiverAt = "create" /\ ring = "none" /\ qp = "none" /\ posted = FALSE /\ sock = "none"
  /\ session = "none" /\ remaining = Parties /\ deadline = "none" /\ stopping = FALSE
  /\ live = "none" /\ dead = "no" /\ watch = "none" /\ closing = FALSE /\ senderGone = FALSE
  /\ senderAt = "listen" /\ sqp = "none" /\ written = 0 /\ flight = 0
  /\ toSender = <<>> /\ toReceiver = <<>> /\ net = TRUE

\* A message of the socket, and the one that is next.
Says(wire, m) == wire' = Append(wire, m)
Hears(wire, m) == net /\ wire # <<>> /\ Head(wire) = m /\ wire' = Tail(wire)

-----------------------------------------------------------------------------
(* The receiver connects: main, VerbsConn.__init__, TcpConnector.connect     *)

\* A constructor that fails has closed what it made.
Create ==
  /\ receiverAt = "create"
  /\ \/ receiverAt' = "dial" /\ ring' = "registered" /\ qp' = "open"
     \/ receiverAt' = "exit" /\ UNCHANGED <<ring, qp>>
  /\ UNCHANGED <<posted, sock, run, threads, sender, wires>>

Dial ==
  /\ receiverAt = "dial"
  /\ \/ receiverAt' = "hello" /\ sock' = "open"
     \/ receiverAt' = "release" /\ UNCHANGED sock
  /\ UNCHANGED <<ring, qp, posted, run, threads, sender, wires>>

SayHello ==
  /\ receiverAt = "hello"
  /\ Says(toSender, "hello")
  /\ receiverAt' = "accept"
  /\ UNCHANGED <<ring, qp, posted, sock, run, threads, sender, toReceiver, net>>

HearAccept ==
  /\ receiverAt = "accept"
  /\ Hears(toReceiver, "accept")
  /\ receiverAt' = "attach"
  /\ UNCHANGED <<ring, qp, posted, sock, run, threads, sender, toSender, net>>

\* VerbsConn.connect: first the queue pair, then all RECEIVEs
Attach ==
  /\ receiverAt = "attach"
  /\ qp' = "connected"
  /\ receiverAt' = "post"
  /\ UNCHANGED <<ring, posted, sock, run, threads, sender, wires>>

PostRecvs ==
  /\ receiverAt = "post"
  /\ posted' = TRUE
  /\ receiverAt' = "ready"
  /\ UNCHANGED <<ring, qp, sock, run, threads, sender, wires>>

\* Ready, then the Link with its threads
SayReady ==
  /\ receiverAt = "ready"
  /\ Says(toSender, "ready")
  /\ receiverAt' = "build" /\ live' = "recv" /\ watch' = "wait"
  /\ UNCHANGED <<ring, qp, posted, sock, run, dead, closing, senderGone, sender, toReceiver, net>>

\* Any exception of the handshake (a closed or silent sender, verbs that fail) closes the socket.
Abort ==
  /\ receiverAt \in {"hello", "accept", "attach", "post", "ready"}
  /\ Says(toSender, "eof")
  /\ sock' = "closed"
  /\ receiverAt' = "release"
  /\ UNCHANGED <<ring, qp, posted, run, threads, sender, toReceiver, net>>

-----------------------------------------------------------------------------
(* PipelineApp.run                                                           *)

Build ==
  /\ receiverAt = "build"
  /\ \/ receiverAt' = "run" /\ session' = "running"
     \/ receiverAt' = "closing" /\ UNCHANGED session
  /\ UNCHANGED <<ring, qp, posted, sock, remaining, deadline, stopping, threads, sender, wires>>

\* Mutation: the loop forgets the sender.
StopAsked_Local == stopping \/ deadline = "passed"

StopAsked == stopping \/ senderGone \/ deadline = "passed"

\* Mutation: the loop ends with its request.
SessionOver_Asked == session \in {"stopping", "ended"}

SessionOver == session = "ended"

\* One turn of the loop, when session.wait comes back after its 50 ms.
Turn ==
  /\ receiverAt = "run" /\ ~SessionOver
  /\ deadline' = IF remaining = 0 /\ Seconds /\ deadline = "none" THEN "set" ELSE deadline
  /\ session' = IF StopAsked THEN "stopping" ELSE session
  /\ UNCHANGED <<receiver, remaining, stopping, threads, sender, wires>>

LeaveLoop ==
  /\ receiverAt = "run" /\ SessionOver
  /\ receiverAt' = "closing"
  /\ UNCHANGED <<ring, qp, posted, sock, run, threads, sender, wires>>

\* What happens to the loop: the pipeline-ready batch at a party, the clock, a signal, and the
\* runtime's end, by itself (complete or failed) or on request.
Report ==
  /\ session \in {"running", "stopping"} /\ remaining > 0
  /\ remaining' = remaining - 1
  /\ UNCHANGED <<receiver, session, deadline, stopping, threads, sender, wires>>

Pass ==
  /\ deadline = "set"
  /\ deadline' = "passed"
  /\ UNCHANGED <<receiver, session, remaining, stopping, threads, sender, wires>>

Signal ==
  /\ receiverAt = "run" /\ ~stopping
  /\ stopping' = TRUE
  /\ UNCHANGED <<receiver, session, remaining, deadline, threads, sender, wires>>

EndRun ==
  /\ session = "running"
  /\ session' = "ended"
  /\ UNCHANGED <<receiver, remaining, deadline, stopping, threads, sender, wires>>

StopRun ==
  /\ session = "stopping"
  /\ session' = "ended"
  /\ UNCHANGED <<receiver, remaining, deadline, stopping, threads, sender, wires>>

-----------------------------------------------------------------------------
(* The receiver closes: main's finally clauses and VerbsConn.close           *)

\* Mutation: the watch thread is not told.
Announced_Never == closing

Announced == TRUE

SetClosing ==
  /\ receiverAt = "closing"
  /\ closing' = Announced
  /\ receiverAt' = "hangup"
  /\ UNCHANGED <<ring, qp, posted, sock, run, live, dead, watch, senderGone, sender, wires>>

\* A close while the liveness thread is in recv may reach the sender only when the process ends.
HangUp ==
  /\ receiverAt = "hangup"
  /\ sock' = "closed"
  /\ receiverAt' = "release"
  /\ Says(toSender, "eof") \/ UNCHANGED toSender
  /\ UNCHANGED <<ring, qp, posted, run, threads, sender, toReceiver, net>>

\* A signal interrupts these clauses, whose handlers are restored; the outer one still runs.
Interrupt ==
  /\ receiverAt \in {"closing", "hangup"}
  /\ receiverAt' = "release"
  /\ UNCHANGED <<ring, qp, posted, sock, run, threads, sender, wires>>

CloseQp ==
  /\ receiverAt = "release"
  /\ qp' = "closed"
  /\ receiverAt' = "deregister"
  /\ UNCHANGED <<ring, posted, sock, run, threads, sender, wires>>

Deregister ==
  /\ receiverAt = "deregister"
  /\ ring' = "allocated"
  /\ receiverAt' = "free"
  /\ UNCHANGED <<qp, posted, sock, run, threads, sender, wires>>

Free ==
  /\ receiverAt = "free"
  /\ ring' = "none"
  /\ receiverAt' = "exit"
  /\ UNCHANGED <<qp, posted, sock, run, threads, sender, wires>>

\* deviceSynchronize or a signal raises inside verbs.close: what it had not released is left to the
\* end of the process.
CloseFails ==
  /\ receiverAt \in {"release", "deregister", "free"}
  /\ receiverAt' = "exit"
  /\ UNCHANGED <<ring, qp, posted, sock, run, threads, sender, wires>>

HungUp == \E i \in 1 .. Len(toSender) : toSender[i] = "eof"

\* The process ends, and with it its daemon threads, its sockets and what it holds of the NIC.
Exit ==
  /\ receiverAt = "exit"
  /\ receiverAt' = "exited"
  /\ ring' = "none" /\ qp' = IF qp = "none" THEN "none" ELSE "closed"
  /\ live' = "over" /\ watch' = "over"
  /\ toSender' = IF sock = "none" \/ HungUp THEN toSender ELSE Append(toSender, "eof")
  /\ UNCHANGED <<posted, sock, run, dead, closing, senderGone, sender, toReceiver, net>>

-----------------------------------------------------------------------------
(* Liveness._watch and watch_liveness                                        *)

Dies(why) ==
  /\ live = "recv"
  /\ live' = "over" /\ dead' = why
  /\ UNCHANGED <<receiver, run, watch, closing, senderGone, sender>>

SeeEof   == Dies("peer") /\ Hears(toReceiver, "eof") /\ UNCHANGED <<toSender, net>>
SeeError == Dies("error") /\ UNCHANGED wires
SeeOwn   == sock = "closed" /\ Dies("own") /\ UNCHANGED wires

Wake ==
  /\ watch = "wait" /\ dead # "no"
  /\ watch' = IF closing THEN "over" ELSE "drain"
  /\ UNCHANGED <<receiver, run, live, dead, closing, senderGone, sender, wires>>

\* closing.wait(DRAIN_S)
Drain ==
  /\ watch = "drain"
  /\ watch' = IF closing THEN "over" ELSE "report"
  /\ UNCHANGED <<receiver, run, live, dead, closing, senderGone, sender, wires>>

ReportGone ==
  /\ watch = "report"
  /\ senderGone' = TRUE
  /\ watch' = "over"
  /\ UNCHANGED <<receiver, run, live, dead, closing, sender, wires>>

-----------------------------------------------------------------------------
(* The sender: Sender.handshake, send_series and main                        *)

AcceptTcp ==
  /\ senderAt = "listen" /\ sock # "none"
  /\ senderAt' = "hello"
  /\ UNCHANGED <<receiver, run, threads, sqp, written, flight, wires>>

HearHello ==
  /\ senderAt = "hello"
  /\ Hears(toSender, "hello")
  /\ senderAt' = "reply"
  /\ UNCHANGED <<receiver, run, threads, sqp, written, flight, toReceiver, net>>

Reply ==
  /\ senderAt = "reply"
  /\ sqp' = "open"
  /\ Says(toReceiver, "accept")
  /\ senderAt' = "attach"
  /\ UNCHANGED <<receiver, run, threads, written, flight, toSender, net>>

AttachBack ==
  /\ senderAt = "attach"
  /\ sqp' = "connected"
  /\ senderAt' = "ready"
  /\ UNCHANGED <<receiver, run, threads, written, flight, wires>>

HearReady ==
  /\ senderAt = "ready"
  /\ Hears(toSender, "ready")
  /\ senderAt' = "send"
  /\ UNCHANGED <<receiver, run, threads, sqp, written, flight, toReceiver, net>>

\* handshake() raises outside the try that closes the queue pair: `with conn` closes the socket,
\* and the queue pair, if there is one yet, lives until the interpreter ends.
LeaveHandshake ==
  /\ senderAt' = "unwind"
  /\ Says(toReceiver, "eof")

Refuse ==
  /\ senderAt \in {"hello", "reply", "attach", "ready"}
  /\ LeaveHandshake
  /\ sqp' \in IF senderAt = "reply" THEN {sqp, "open"} ELSE {sqp}
  /\ UNCHANGED <<receiver, run, threads, written, flight, toSender, net>>

\* The interpreter ends.
Unwind ==
  /\ senderAt = "unwind"
  /\ senderAt' = "exited"
  /\ sqp' = IF sqp = "none" THEN "none" ELSE "closed"
  /\ UNCHANGED <<receiver, run, threads, written, flight, wires>>

\* The receiver has closed the connection, where the sender reads it.
HearEof ==
  /\ Hears(toSender, "eof")
  /\ \/ senderAt \in {"hello", "ready"} /\ LeaveHandshake
     \/ senderAt = "wait" /\ senderAt' = "close" /\ UNCHANGED toReceiver
  /\ UNCHANGED <<receiver, run, threads, sqp, written, flight, net>>

Write ==
  /\ senderAt = "send" /\ written < MaxFrames
  /\ written' = written + 1 /\ flight' = flight + 1
  /\ UNCHANGED <<receiver, run, threads, senderAt, sqp, wires>>

\* A write is carried out by the receiver's queue pair, or fails and with it those behind it; one
\* that is under way when the sender closes its queue pair may do either.
Place ==
  /\ flight > 0
  /\ \/ qp = "connected" /\ net /\ flight' = flight - 1 /\ UNCHANGED senderAt
     \/ /\ qp # "connected" \/ ~net \/ sqp = "closed"
        /\ flight' = 0
        /\ senderAt' = IF senderAt = "send" THEN "close" ELSE senderAt
  /\ UNCHANGED <<receiver, run, threads, sqp, written, wires>>

\* All series are written and completed; the sender stays connected.
AllSent ==
  /\ senderAt = "send" /\ written = MaxFrames /\ flight = 0
  /\ senderAt' = "wait"
  /\ UNCHANGED <<receiver, run, threads, sqp, written, flight, wires>>

\* --cut-after, a receiver that returns no credit in time, or a socket that fails
Cut ==
  /\ senderAt \in {"send", "wait"}
  /\ senderAt' = "close"
  /\ UNCHANGED <<receiver, run, threads, sqp, written, flight, wires>>

\* The queue pair before the socket
CloseSender ==
  /\ senderAt = "close"
  /\ sqp' = "closed"
  /\ senderAt' = "bye"
  /\ UNCHANGED <<receiver, run, threads, written, flight, wires>>

Bye ==
  /\ senderAt = "bye"
  /\ Says(toReceiver, "eof")
  /\ senderAt' = "exited"
  /\ UNCHANGED <<receiver, run, threads, sqp, written, flight, toSender, net>>

\* The network is lost without a word; neither socket asks for keepalives.
Lose ==
  /\ net
  /\ net' = FALSE
  /\ UNCHANGED <<receiver, run, threads, sender, toSender, toReceiver>>

-----------------------------------------------------------------------------
Connect == Create \/ Dial \/ SayHello \/ HearAccept \/ Attach \/ PostRecvs \/ SayReady
Closes  == SetClosing \/ HangUp \/ CloseQp \/ Deregister \/ Free \/ Exit
Ticks   == Report \/ Pass \/ EndRun
Shake   == HearHello \/ Reply \/ AttachBack \/ HearReady \/ HearEof

SessionNext ==
  \/ Connect \/ Abort \/ Build \/ Turn \/ LeaveLoop \/ Signal \/ StopRun \/ Ticks \/ Closes \/ Interrupt
  \/ SeeEof \/ SeeError \/ SeeOwn \/ Wake \/ Drain \/ ReportGone
  \/ AcceptTcp \/ Shake \/ Refuse \/ Write \/ Place \/ AllSent \/ Cut \/ CloseSender \/ Bye \/ Unwind
  \/ CloseFails \/ Lose

SessionSpec == SessionInit /\ [][SessionNext]_sessionVars

\* Running threads go on, sockets time out and the runtime stops when asked; what ends a run by
\* itself need not come.
SessionFairness ==
  /\ WF_sessionVars(Connect) /\ WF_sessionVars(Abort) /\ WF_sessionVars(Build)
  /\ WF_sessionVars(Turn) /\ WF_sessionVars(LeaveLoop)
  /\ WF_sessionVars(StopRun) /\ WF_sessionVars(Closes)
  /\ WF_sessionVars(SeeEof) /\ WF_sessionVars(Wake) /\ WF_sessionVars(Drain)
  /\ WF_sessionVars(ReportGone)
  /\ WF_sessionVars(AcceptTcp) /\ WF_sessionVars(Shake) /\ WF_sessionVars(Write)
  /\ WF_sessionVars(Place) /\ WF_sessionVars(AllSent)
  /\ WF_sessionVars(CloseSender) /\ WF_sessionVars(Bye) /\ WF_sessionVars(Unwind)

FairSession == SessionSpec /\ SessionFairness

-----------------------------------------------------------------------------
\* A sender that may write, or whose write is under way, finds a ring that is registered and
\* RECEIVEs that are posted, or a queue pair that refuses it (imagemux.py:161, connection.py:57
\* and 66); and the runtime's operators never outlive the queue pair and the ring they were
\* given (app.py:70).
RingReachable ==
  /\ senderAt = "send" \/ flight > 0 => qp = "closed" \/ (qp = "connected" /\ posted /\ ring = "registered")
  /\ qp = "connected" => ring = "registered"
  /\ session \in {"running", "stopping"} => qp = "connected" /\ ring = "registered"

\* The drain interval begins only when nothing more can be posted: a sender that got to write has
\* closed its queue pair before its socket (rdma_sender.py:291), and one that closed its socket
\* with its queue pair still there had left the handshake, and never writes.  Excepted is a
\* socket that fails under a sender that lives; the receiver's own hang-up is never taken for the
\* sender's (connection.py:91).
DrainIsFinal ==
  watch \in {"drain", "report"} \/ senderGone =>
    \/ dead = "error"
    \/ dead = "peer" /\ (sqp = "closed" \/ (senderAt = "unwind" /\ written = 0 /\ flight = 0))

Released == receiverAt = "exited" /\ ring = "none" /\ qp \in {"none", "closed"}

\* A signal, a deadline or the sender's end brings the receiver down, with its ring and its queue
\* pair closed; and a receiver that goes takes a connected sender with it.  Only a network that is
\* lost without a word leaves one side waiting for the other.
EndsTogether ==
  /\ (stopping \/ deadline = "passed") ~> Released
  /\ senderAt = "exited" ~> (Released \/ ~net)
  /\ (receiverAt = "exited" /\ sock # "none") ~> (senderAt = "exited" \/ ~net)
=============================================================================
