------------------------------ MODULE MCCapture ------------------------------
(* A scan of 2x2: a full scan out of order, a short one of another number,   *)
(* two in a row, one joined late, one with a frame of another shape.         *)
EXTENDS Capture

MCStreams ==
  LET Scan(s, ids) == <<Control("start", s)>> \o [i \in DOMAIN ids |-> Image(s, ids[i], ids[i])]
                        \o <<Control("end", s)>>
  IN {Scan(1, <<0, 2, 1, 3>>), Scan(5, <<0, 1>>) \o Scan(6, <<0>>), Tail(Scan(1, <<0, 1>>)),
      [Scan(1, <<0, 1, 2>>) EXCEPT ![3].odd = TRUE]}

Plain == [from |-> "detector", frames |-> 0, cap |-> 0, idle |-> FALSE, rewrite |-> "none",
          passes |-> 1, scan |-> FALSE, drift |-> <<0, 0>>, player |-> "offline", max |-> 0,
          rounds |-> 1, wrap |-> FALSE]

MCSetups ==
  LET plain == {[Plain EXCEPT !.player = p, !.idle = TRUE] : p \in {"offline", "file", "zmq", "fast"}}
      one == {[Plain EXCEPT !.rewrite = "one", !.passes = 2, !.wrap = w, !.player = p] :
                w \in BOOLEAN, p \in {"offline", "file"}}
      each == {[Plain EXCEPT !.rewrite = "per-pass", !.passes = 2, !.rounds = 2, !.player = p,
                             !.scan = TRUE, !.drift = d] :
                p \in {"offline", "zmq"}, d \in {<<0, 0>>, <<1, 1>>}}
      refocus == {[Plain EXCEPT !.rewrite = r, !.passes = 2, !.wrap = TRUE, !.scan = TRUE] :
                r \in {"refocus-one", "refocus-per-pass"}}
      written == {[Plain EXCEPT !.from = "make", !.frames = n, !.player = "zmq"] : n \in {4, 5}}
                   \cup {[Plain EXCEPT !.from = "convert", !.frames = n, !.player = "npy"] : n \in {4, 5}}
                   \cup {[Plain EXCEPT !.from = "simulate", !.frames = 2, !.wrap = TRUE, !.player = p] :
                            p \in {"file", "npy"}}
  IN plain \cup one \cup each \cup refocus \cup written
       \cup {[Plain EXCEPT !.cap = 2, !.player = "zmq", !.max = 1],
             [Plain EXCEPT !.rewrite = "per-pass", !.passes = 2, !.player = "zmq", !.max = 3],
             [Plain EXCEPT !.rewrite = "one", !.drift = <<0, 1>>]}
-----------------------------------------------------------------------------
\* What RdmaRingProofs assumes of the streams and the command lines holds of these.
ASSUME CaptureAssumption == CaptureConstants
=============================================================================
