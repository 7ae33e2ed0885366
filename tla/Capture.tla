------------------------------- MODULE Capture -------------------------------
(***************************************************************************)
(* Captures of the detector stream.  record_dstream.py writes the messages  *)
(* of one series to a .dstream file until END, a frame limit, an idle       *)
(* timeout, an interrupt or a crash; repeat_dstream.py, refocus_dstream.py, *)
(* npy_to_dstream.py, make_dstream.py and simulate_4dstem.py write further  *)
(* captures; a capture is played by offline.py, by the Python ingest        *)
(* (python_ingest.py) from the file, or by replay_to_zmq.py over a PUSH     *)
(* socket to that ingest.                                                   *)
(*                                                                          *)
(* A message is [type, series, id, frame, odd]: `frame` names the recorded  *)
(* picture, `odd` one that does not have the shape announced.               *)
(***************************************************************************)
EXTENDS Integers, Sequences, FiniteSets, SequencesExt

CONSTANTS
  DetectorStreams,  \* what a detector may send, as sequences of messages
  Setups,           \* how a capture is recorded, rewritten and played
  ScanHeight, ScanWidth,
  BatchFrames,      \* frames of a batch
  Hwm,              \* messages the sockets hold before send blocks
  MaxReceive        \* max_messages of one receive

VARIABLES
  setup,      \* the command lines: [from, frames, cap, idle, rewrite, passes, scan, drift,
              \*   player, max, rounds, wrap], 0 for no limit
  sending,    \* the messages the detector still has to send to the recorder
  tape,       \* complete records of the recording
  torn,       \* what follows them: "no", part of a "header" or of a "payload"
  play,       \* the records of the capture that is played
  stage,      \* "recording", "closed", "playing", "refused"
  feeder,     \* replay_dstream: [next, images, held, ends, open]
  sockets,    \* messages in the sockets
  pushback,   \* ZmqStream._pushback
  hand,       \* messages of the consumer's loop it has not looked at
  collected,  \* frames of the batcher
  series,     \* offline.replay's series_id, 0 before START and after END
  acq,        \* the frames folded into each acquisition's accumulator
  consumer    \* "idle", "running", "done", "failed"

recorderVars == <<sending, tape, torn>>
feederVars == <<feeder, sockets>>
consumerVars == <<pushback, hand, collected, series, acq, consumer>>
playVars == <<setup, recorderVars, play, stage, feederVars, consumerVars>>

Positions == ScanHeight * ScanWidth
Blank == [type |-> "blank", series |-> 0, id |-> 0, frame |-> 0, odd |-> FALSE]
Control(type, s) == [type |-> type, series |-> s, id |-> 0, frame |-> 0, odd |-> FALSE]
Image(s, i, f) == [type |-> "image", series |-> s, id |-> i, frame |-> f, odd |-> FALSE]

\* The members of s at some of its places, in their order.
At(s, places) == FlattenSeq([i \in DOMAIN s |-> IF i \in places THEN <<s[i]>> ELSE <<>>])

Message ==
  [type : {"start", "image", "end"}, series : Nat, id : Nat, frame : Int, odd : BOOLEAN]

\* Sizes, and the command lines' counts, are natural numbers.
CaptureConstants ==
  /\ ScanHeight \in Nat /\ ScanWidth \in Nat /\ MaxReceive \in Nat
  /\ \A s \in DetectorStreams : s \in Seq(Message)
  /\ \A s \in Setups :
       /\ s.from \in {"detector", "make", "convert", "simulate"}
       /\ s.frames \in Nat /\ s.passes \in Nat /\ s.max \in Nat

Images(s) == At(s, {i \in DOMAIN s : s[i].type = "image"})
Controls(s) == SelectSeq(s, LAMBDA m : m.type # "image")
Ids(s) == {s[i].id : i \in DOMAIN s}
FirstOf(s) == IF s = <<>> THEN <<>> ELSE <<Head(s)>>
Streaming == setup.player \in {"zmq", "fast"}
LastOf(s) == IF s = <<>> THEN <<>> ELSE <<Last(s)>>
OfType(s, type) == SelectSeq(s, LAMBDA m : m.type = type)

-----------------------------------------------------------------------------
\* Recording.

PlayInit ==
  /\ setup \in Setups
  /\ sending \in IF setup.from = "detector" THEN DetectorStreams ELSE {<<>>}
  /\ tape = <<>> /\ torn = "no" /\ play = <<>> /\ stage = "recording"
  /\ feeder = [next |-> 1, images |-> 0, held |-> Blank, ends |-> 0, open |-> FALSE]
  /\ sockets = <<>> /\ pushback = <<>> /\ hand = <<>> /\ collected = <<>>
  /\ series = 0 /\ acq = <<>> /\ consumer = "idle"

\* A message is written before it is looked at.
RecordMessage ==
  /\ stage = "recording" /\ sending # <<>>
  /\ tape' = Append(tape, Head(sending))
  /\ sending' = Tail(sending)
  /\ LET over == \/ Head(sending).type = "end"
                 \/ setup.cap > 0 /\ Len(Images(tape')) >= setup.cap
     IN stage' = IF over THEN "closed" ELSE stage
  /\ UNCHANGED <<setup, torn, play, feederVars, consumerVars>>

\* No message for idle_timeout_s.
RecordIdle ==
  /\ stage = "recording" /\ setup.from = "detector" /\ setup.idle
  /\ stage' = "closed"
  /\ UNCHANGED <<setup, recorderVars, play, feederVars, consumerVars>>

\* Ctrl-C closes the file, perhaps between a record's length and its payload; a
\* crash keeps any first part of what was written.
RecordCut ==
  /\ stage = "recording" /\ setup.from = "detector"
  /\ \E n \in 0 .. Len(tape) : tape' = SubSeq(tape, 1, n)
  /\ torn' \in {"no", "header", "payload"}
  /\ stage' = "closed"
  /\ UNCHANGED <<setup, sending, play, feederVars, consumerVars>>

\* The codec's START, images and END of a synthetic capture, all of series 1.
Written(n) ==
  <<Control("start", 1)>> \o [i \in 1 .. n |-> Image(1, i - 1, i - 1)] \o <<Control("end", 1)>>

Made(n) == Written(n)                       \* make_dstream: n random frames
Converted(n) == Written(n)                  \* npy_to_dstream: the frames of an array
Simulated(passes) == Written(passes * Positions)  \* simulate_4dstem: ids run on

Synthesise ==
  /\ stage = "recording" /\ setup.from # "detector"
  /\ tape' = CASE setup.from = "make" -> Made(setup.frames)
               [] setup.from = "convert" -> Converted(setup.frames)
               [] setup.from = "simulate" -> Simulated(setup.frames)
  /\ stage' = "closed"
  /\ UNCHANGED <<setup, sending, torn, play, feederVars, consumerVars>>

\* scan_index: the first and the last record, with a last one that is cut.
ScanIndex ==
  LET records == IF torn = "payload" THEN Append(tape, Blank) ELSE tape
  IN [first |-> FirstOf(records), last |-> LastOf(records)]

\* envelope_type: what does not decode has none.
EnvelopeType(r) == IF r = <<>> \/ r = <<Blank>> THEN "none" ELSE r[1].type

Info == [first |-> EnvelopeType(ScanIndex.first), last |-> EnvelopeType(ScanIndex.last)]

\* iter_records ends before a record that is cut.
IterRecords == tape

-----------------------------------------------------------------------------
\* Rewriting.

Moves == setup.drift # <<0, 0>>
ScanPositions(s) == IF setup.scan THEN Positions ELSE Len(Images(s))

RepeatRefuses(s) ==
  LET images == Images(s)
  IN \/ Controls(s) = <<>> \/ images = <<>>
     \/ Cardinality(Ids(images)) < Len(images)
     \/ \E i \in Ids(images) : i >= ScanPositions(s)
     \/ Moves /\ ~setup.scan

\* Where pass k finds the frame it shows at position p.
SourceOf(p, k) ==
  LET row == (p \div ScanWidth) - (k * setup.drift[1])
      column == (p % ScanWidth) - (k * setup.drift[2])
  IN (row % ScanHeight) * ScanWidth + (column % ScanWidth)

ImageAt(s, q) == Head(SelectSeq(s, LAMBDA m : m.type = "image" /\ m.id = q))

\* The image with its id, a message with its series re-encoded in place.
WithId(m, i) == [m EXCEPT !.id = i]
WithSeries(m, n) == [m EXCEPT !.series = n]

\* pass_messages: the recorded order, or the raster order when the scan drifts.
PassImages(s, k, offset) ==
  LET shown == At([p \in 1 .. Positions |-> p - 1],
                  {p \in 1 .. Positions : SourceOf(p - 1, k) \in Ids(Images(s))})
  IN IF Moves
     THEN [i \in DOMAIN shown |->
             WithId(ImageAt(s, SourceOf(shown[i], k)), shown[i] + offset)]
     ELSE [i \in DOMAIN Images(s) |-> WithId(Images(s)[i], Images(s)[i].id + offset)]

\* numbered: an armed series of its own for every pass.
Numbered(s, k, m) ==
  IF setup.rewrite = "per-pass" THEN WithSeries(m, Head(Controls(s)).series + k) ELSE m

\* Passes 0, 1, ...: START of the first or of each, END of the last or of each.
Looped(s, start, end, pass) ==
  FlattenSeq([j \in 1 .. setup.passes |->
    LET k == j - 1
        each == setup.rewrite \in {"per-pass", "refocus-per-pass"}
        records == (IF each \/ k = 0 THEN start ELSE <<>>) \o pass[k]
                     \o (IF each \/ j = setup.passes THEN end ELSE <<>>)
    IN [i \in DOMAIN records |-> Numbered(s, k, records[i])]])

PassOffset(s, k) == IF setup.rewrite = "one" THEN k * ScanPositions(s) ELSE 0

\* repeat: the first control message is START, the last further one END.
Repeated(s) ==
  Looped(s, FirstOf(Controls(s)), LastOf(Tail(Controls(s))),
         [k \in 0 .. setup.passes - 1 |-> PassImages(s, k, PassOffset(s, k))])

FrameAt(images, p) ==
  LET of == SelectSeq(images, LAMBDA m : m.id = p) IN IF of = <<>> THEN -1 ELSE Last(of).frame

\* refocus: every position in raster order, a zero frame where none was
\* recorded, all images of series 1 (their pixels move, not their positions).
Refocused(s) ==
  LET images == Images(s)
      offset(k) == IF setup.rewrite = "refocus-one" THEN k * Positions ELSE 0
      start == OfType(s, "start")
      end == OfType(s, "end")
      pass(k) == [p \in 1 .. Positions |-> Image(1, p - 1 + offset(k), FrameAt(images, p - 1))]
  IN Looped(s, IF start = <<>> THEN <<Control("start", 1)>> ELSE FirstOf(start),
            IF end = <<>> THEN <<Control("end", 1)>> ELSE LastOf(end),
            [k \in 0 .. setup.passes - 1 |-> pass(k)])

\* _run_npy: the frames of an array, ids in raster order; more frames than
\* positions only with repeated passes.
Array(s) == Images(s)
ArrayRefused(s) == setup.player = "npy" /\ ~setup.wrap /\ Len(Images(s)) > Positions

\* refocus asks the first image for its shape, and the array refuses a later one that it would
\* store at a position of the scan.
RefocusRefuses(s) ==
  LET images == Images(s)
  IN \/ images = <<>>
     \/ \E i \in DOMAIN images : images[i].odd /\ (i = 1 \/ images[i].id < Positions)

RewriteRefuses(s) ==
  CASE setup.rewrite = "none" -> ArrayRefused(s)
    [] setup.rewrite \in {"one", "per-pass"} -> RepeatRefuses(s)
    [] OTHER -> RefocusRefuses(s)

Rewritten(s) ==
  CASE setup.rewrite = "none" -> IF setup.player = "npy" THEN Array(s) ELSE s
    [] setup.rewrite \in {"one", "per-pass"} -> Repeated(s)
    [] OTHER -> Refocused(s)

\* A tool rewrites what it reads of the recording, or the player takes it as it is.
Rewrite ==
  /\ stage = "closed" /\ ~RewriteRefuses(IterRecords)
  /\ play' = Rewritten(IterRecords)
  /\ stage' = "playing"
  /\ feeder' = [feeder EXCEPT !.open = Streaming]
  /\ consumer' = "running"
  /\ acq' = IF setup.player = "offline" THEN <<>> ELSE <<<<>>>>
  /\ hand' = IF feeder'.open THEN <<>> ELSE play'
  /\ UNCHANGED <<setup, recorderVars, sockets, pushback, collected, series>>

Refuse ==
  /\ stage = "closed" /\ RewriteRefuses(IterRecords)
  /\ stage' = "refused"
  /\ UNCHANGED <<setup, recorderVars, play, feederVars, consumerVars>>

-----------------------------------------------------------------------------
\* replay_dstream: a PUSH socket that blocks at its high-water mark.

Put(m) == Len(sockets) < Hwm /\ sockets' = Append(sockets, m)

\* Mutation: END is always held back to the end of the file.
HoldsEnd_Always == TRUE

\* A limit on the images holds END back until the file is read.
HoldsEnd == setup.max > 0

Enough == setup.max > 0 /\ feeder.images >= setup.max

FeedMessage ==
  /\ feeder.open /\ setup.player = "zmq" /\ feeder.next <= Len(play)
  /\ LET m == play[feeder.next]
         next == [feeder EXCEPT !.next = @ + 1]
     IN \/ /\ m.type = "start" /\ Put(m)
           /\ feeder' = next
        \/ /\ m.type = "image" /\ ~Enough /\ Put(m)
           /\ feeder' = [next EXCEPT !.images = @ + 1]
        \/ /\ m.type = "image" /\ Enough
           /\ feeder' = next
           /\ UNCHANGED sockets
        \/ /\ m.type = "end" /\ ~HoldsEnd /\ Put(m)
           /\ feeder' = [next EXCEPT !.ends = @ + 1]
        \/ /\ m.type = "end" /\ HoldsEnd
           /\ feeder' = [next EXCEPT !.held = m]
           /\ UNCHANGED sockets
  /\ UNCHANGED <<setup, recorderVars, play, stage, consumerVars>>

\* --fast: every record as it is.
FeedRaw ==
  /\ feeder.open /\ setup.player = "fast" /\ feeder.next <= Len(play)
  /\ Put(play[feeder.next])
  /\ feeder' = [feeder EXCEPT !.next = @ + 1]
  /\ UNCHANGED <<setup, recorderVars, play, stage, consumerVars>>

\* After the file: the END held back, or an empty message when there was none.
FeedTail ==
  /\ feeder.open /\ feeder.next > Len(play)
  /\ IF setup.player = "zmq" /\ feeder.ends = 0 THEN Put(feeder.held) ELSE UNCHANGED sockets
  /\ feeder' = [feeder EXCEPT !.open = FALSE]
  /\ UNCHANGED <<setup, recorderVars, play, stage, consumerVars>>

-----------------------------------------------------------------------------
\* The consumers.

FirstPart(s) == SubSeq(s, 1, IF Len(s) < MaxReceive THEN Len(s) ELSE MaxReceive)
Beyond(s) == SubSeq(s, MaxReceive + 1, Len(s))

\* ZmqStream.receive: what an earlier acquisition left, before the socket.
Receive ==
  /\ consumer = "running" /\ Streaming /\ hand = <<>>
  /\ IF pushback # <<>>
     THEN /\ hand' = FirstPart(pushback) /\ pushback' = Beyond(pushback)
          /\ UNCHANGED sockets
     ELSE /\ sockets # <<>>
          /\ hand' = FirstPart(sockets) /\ sockets' = Beyond(sockets)
          /\ UNCHANGED pushback
  /\ UNCHANGED <<setup, recorderVars, play, stage, feeder, collected, series, acq, consumer>>

\* BatchSink.feed refuses an id past the scan unless passes repeat it.
Refused(b) == ~setup.wrap /\ \E i \in Ids(b) : i >= Positions

\* offline.replay: START only between series, the rest only within its own.
Disorder(m) ==
  /\ setup.player = "offline"
  /\ IF m.type = "start" THEN series # 0 \/ m.odd ELSE series = 0 \/ m.series # series

\* decode_message: the empty message is no CBOR.
Undecodable(m) == m.type = "blank"

\* _Batcher.push: a frame of another shape or type; the sink refuses the batch
\* the frame fills.
PushRefused(m) == m.odd \/ (Len(collected) + 1 = BatchFrames /\ Refused(Append(collected, m)))

\* What the consumer's loop does not survive.
Raises(m) ==
  \/ Undecodable(m)
  \/ Disorder(m)
  \/ m.type = "image" /\ PushRefused(m)
  \/ m.type = "end" /\ Refused(collected)

Fail ==
  /\ consumer = "running" /\ hand # <<>> /\ Raises(Head(hand))
  /\ consumer' = "failed"
  /\ UNCHANGED <<setup, recorderVars, play, stage, feederVars, pushback, hand, collected, series,
                 acq>>

Folded(b) == [acq EXCEPT ![Len(acq)] = @ \o b]

\* _Batcher.push: a full batch is flushed at once.
Push ==
  /\ consumer = "running" /\ hand # <<>> /\ Head(hand).type = "image" /\ ~Raises(Head(hand))
  /\ LET b == Append(collected, Head(hand))
     IN IF Len(b) = BatchFrames
        THEN collected' = <<>> /\ acq' = Folded(b)
        ELSE collected' = b /\ UNCHANGED acq
  /\ hand' = Tail(hand)
  /\ UNCHANGED <<setup, recorderVars, play, stage, feederVars, pushback, series, consumer>>

\* START: the ingest ignores it, offline.replay starts a series.
TakeStart ==
  /\ consumer = "running" /\ hand # <<>> /\ Head(hand).type = "start" /\ ~Raises(Head(hand))
  /\ hand' = Tail(hand)
  /\ IF setup.player = "offline"
     THEN series' = Head(hand).series /\ acq' = Append(acq, <<>>)
     ELSE UNCHANGED <<series, acq>>
  /\ UNCHANGED <<setup, recorderVars, play, stage, feederVars, pushback, collected, consumer>>

\* Mutation: END discards the rest of what was received with it.
UnreadFirst_Dropped(rest) == pushback

\* unread: what follows END is the next acquisition's, ahead of older pushback.
UnreadFirst(rest) == rest \o pushback

\* END of an acquisition over the socket: the caller's next run follows.
TakeEndOfRound ==
  /\ consumer = "running" /\ Streaming /\ hand # <<>> /\ Head(hand).type = "end"
  /\ ~Raises(Head(hand))
  /\ collected' = <<>>
  /\ pushback' = UnreadFirst(Tail(hand)) /\ hand' = <<>>
  /\ IF Len(acq) < setup.rounds
     THEN acq' = Append(Folded(collected), <<>>) /\ UNCHANGED consumer
     ELSE acq' = Folded(collected) /\ consumer' = "done"
  /\ UNCHANGED <<setup, recorderVars, play, stage, feederVars, series>>

\* END in a file ends the ingest...
TakeEndOfRun ==
  /\ consumer = "running" /\ setup.player = "file" /\ hand # <<>> /\ Head(hand).type = "end"
  /\ ~Raises(Head(hand))
  /\ collected' = <<>> /\ acq' = Folded(collected)
  /\ hand' = Tail(hand)
  /\ consumer' = "done"
  /\ UNCHANGED <<setup, recorderVars, play, stage, feederVars, pushback, series>>

\* ...and a series of offline.replay.
TakeEndOfSeries ==
  /\ consumer = "running" /\ setup.player = "offline" /\ hand # <<>> /\ Head(hand).type = "end"
  /\ ~Raises(Head(hand))
  /\ collected' = <<>> /\ acq' = Folded(collected)
  /\ series' = 0
  /\ hand' = Tail(hand)
  /\ UNCHANGED <<setup, recorderVars, play, stage, feederVars, pushback, consumer>>

\* The end of the file: what is collected is flushed; offline.replay then
\* refuses a recording that ended without END.
EndOfFile ==
  /\ consumer = "running" /\ ~Streaming /\ hand = <<>>
  /\ IF Refused(collected) \/ (setup.player = "offline" /\ series # 0)
     THEN consumer' = "failed"
     ELSE consumer' = "done"
  /\ IF acq = <<>> \/ Refused(collected)
     THEN UNCHANGED <<collected, acq>>
     ELSE collected' = <<>> /\ acq' = Folded(collected)
  /\ UNCHANGED <<setup, recorderVars, play, stage, feederVars, pushback, hand, series>>

\* A batch whose first frame has waited flush_after_s, or a quiet socket.
FlushDue ==
  /\ consumer = "running" /\ collected # <<>>
  /\ (Streaming /\ hand = <<>>) \/ setup.player = "file"
  /\ IF Refused(collected)
     THEN consumer' = "failed" /\ UNCHANGED <<collected, acq>>
     ELSE collected' = <<>> /\ acq' = Folded(collected) /\ UNCHANGED consumer
  /\ UNCHANGED <<setup, recorderVars, play, stage, feederVars, pushback, hand, series>>

-----------------------------------------------------------------------------
Recorder == RecordMessage \/ RecordIdle \/ RecordCut \/ Synthesise
Writer == Rewrite \/ Refuse
Feeder == FeedMessage \/ FeedRaw \/ FeedTail
Consumer ==
  \/ Receive \/ Fail \/ Push \/ TakeStart \/ TakeEndOfRound \/ TakeEndOfRun
  \/ TakeEndOfSeries \/ EndOfFile \/ FlushDue

PlayNext == Recorder \/ Writer \/ Feeder \/ Consumer

\* The detector sends its series; programs that run keep running; nobody has
\* to interrupt a recording.
PlayFairness ==
  /\ WF_playVars(RecordMessage \/ Synthesise) /\ WF_playVars(Writer)
  /\ WF_playVars(Feeder) /\ WF_playVars(Consumer)

PlaySpec == PlayInit /\ [][PlayNext]_playVars /\ PlayFairness

-----------------------------------------------------------------------------
PlayTypeOK ==
  /\ torn \in {"no", "header", "payload"}
  /\ stage \in {"recording", "closed", "playing", "refused"}
  /\ Len(sockets) <= Hwm /\ Len(hand) <= Len(play) + 1 /\ Len(collected) < BatchFrames
  /\ consumer \in {"idle", "running", "done", "failed"}

\* Nothing between the capture and the accumulators is lost, repeated or
\* reordered, whatever is left over from one acquisition to the next.
InOrder ==
  stage = "playing" =>
    LET sent == IF Streaming THEN SubSeq(play, 1, feeder.next - 1) ELSE play
        first == IF setup.player = "zmq" /\ setup.max > 0
                 THEN SubSeq(Images(sent), 1, feeder.images) ELSE Images(sent)
    IN FlattenSeq(acq) \o collected \o Images(hand) \o Images(pushback) \o Images(sockets) = first

-----------------------------------------------------------------------------
\* What a played capture should show.

EachPass == setup.rewrite \in {"per-pass", "refocus-per-pass"}

Passes ==
  LET all == FlattenSeq(acq)
      n == Len(all) \div setup.passes
  IN [k \in 1 .. setup.passes |-> SubSeq(all, (k - 1) * n + 1, k * n)]

\* Where pass k shows recorded frame f.
PlaceIn(pass, f) == CHOOSE p \in 0 .. Positions - 1 :
                      \E i \in DOMAIN pass : pass[i].frame = f /\ pass[i].id % Positions = p

\* Every pass shows every recorded frame once, at its own position in the first
\* and moved on by the drift in each pass after it; passes armed separately are
\* separate acquisitions.
Shown ==
  LET recorded == Images(tape)
      frames == {recorded[i].frame : i \in DOMAIN recorded}
      frame(pass) == SelectSeq(pass, LAMBDA m : m.frame # -1)
  IN /\ acq = IF EachPass THEN Passes ELSE <<FlattenSeq(Passes)>>
     /\ \A k \in 1 .. setup.passes :
          /\ Len(frame(Passes[k])) = Len(recorded)
          /\ {frame(Passes[k])[i].frame : i \in 1 .. Len(recorded)} = frames
     /\ \A f \in frames : PlaceIn(Passes[1], f) = PlaceIn(recorded, f)
     /\ \A k \in 2 .. setup.passes, f \in frames :
          LET p == PlaceIn(Passes[k - 1], f)
              q == PlaceIn(Passes[k], f)
          IN /\ q \div ScanWidth = ((p \div ScanWidth) + setup.drift[1]) % ScanHeight
             /\ q % ScanWidth = ((p % ScanWidth) + setup.drift[2]) % ScanWidth

\* A recording that `info` reports from START to END, with frames as announced
\* and ids of the scan, and command lines that fit it: passes in one series wrap
\* their ids, the ingest reads one series from a file, no limit on the frames.
\* (A recording of another series than 1 does not survive refocus_dstream.py,
\* which numbers the images, and only them, as series 1.)
Playable ==
  /\ stage # "recording"
  /\ Info.first = "start" /\ Info.last = "end"
  /\ \A i \in DOMAIN tape : ~tape[i].odd
  /\ \A i \in Ids(Images(tape)) : i < Positions
  /\ Cardinality(Ids(Images(tape))) = Len(Images(tape)) /\ Images(tape) # <<>>
  /\ setup.rewrite = "none" \/ setup.scan \/ (~Moves /\ Len(Images(tape)) = Positions)
  /\ setup.passes = 1 \/ EachPass \/ setup.wrap
  /\ ~(setup.player = "file" /\ EachPass) /\ setup.max = 0
  /\ setup.rewrite \in {"refocus-one", "refocus-per-pass"} => Head(tape).series = 1

\* Such a recording plays through every tool and player as the detector would
\* have sent it.
PlaysThrough == Playable ~> (consumer = "done" /\ Shown)
=============================================================================
