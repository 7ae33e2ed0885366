---------------------------- MODULE ParallaxEngine ----------------------------
(***************************************************************************)
(* The parallax accumulator (algorithms/parallax/engine.py) as operators on *)
(* its state.  An image is the set of frames deposited in it; a frame       *)
(* [s, i, a, g] is image i of series s, with absolute id a, shifted by      *)
(* geometry g.  Pixel values, the readout and pass_average < 1 are left     *)
(* out.                                                                     *)
(***************************************************************************)
EXTENDS Integers, Sequences, SequencesExt, FiniteSets

CONSTANTS
  Rows, Width,  \* scan_shape
  Up,           \* upsampling factor
  Shifts        \* of each geometry: the row shifts of its bright-field pixels

Positions == Rows * Width
Modes     == {"latest", "swap", "reset", "all"}

\* start_series continues the count behind the last pass seen.
NextOffset(acc) == IF acc.last >= 0 THEN (acc.last \div Positions + 1) * Positions ELSE acc.offset

Pos(f)    == f.a % Positions
PassOf(f) == f.a \div Positions

NoId == 2^30

ModeOf(mode) == IF mode = "scan" THEN "all" ELSE mode

\* filed: completed passes are saved (save_passes); done: those completed by the current call.
Build(mode, geo, shape, filed) ==
  [mode |-> ModeOf(mode), wrap |-> mode # "scan", geo |-> geo, shape |-> shape, kind |-> "none",
   offset |-> 0, last |-> -1, start |-> NoId, image |-> {},
   pass |-> -1, closed |-> FALSE, front |-> {}, filed |-> filed, done |-> <<>>]

\* These modes keep the last completed pass, the front, beside the image.
KeepsFront(acc) == acc.mode \in {"reset", "swap"}

Tracks(acc) == KeepsFront(acc) \/ acc.filed

\* images(): the completed pass once there is one.
Completed(acc) == IF acc.front = {} THEN acc.image ELSE UNION {c.frames : c \in acc.front}

-----------------------------------------------------------------------------
(* process: deposit a batch, split at pass boundaries in the modes that      *)
(* track passes.                                                             *)

\* "latest" replaces the frame that a position holds.
Held(acc, frames) ==
  IF acc.mode = "latest" THEN {f \in acc.image : \A g \in frames : Pos(f) # Pos(g)}
                         ELSE acc.image

Begun(acc, frames) == [acc EXCEPT !.start = Min({@} \cup {f.a : f \in frames})]

Deposit(acc, frames) ==
  [Begun(acc, frames) EXCEPT !.image = Held(acc, frames) \cup frames]

\* Frames of a pass already closed: into the completed pass ("swap"), dropped ("reset"), or
\* deposited as usual.
Late(acc, frames) ==
  CASE acc.mode = "swap"  -> [acc EXCEPT !.front = {[c EXCEPT !.frames = @ \cup frames] : c \in @}]
    [] acc.mode = "reset" -> acc
    [] OTHER              -> Deposit(acc, frames)

\* on_pass_complete gets what images() holds then.
ClosePass(acc) ==
  LET now == IF KeepsFront(acc)
             THEN [acc EXCEPT !.front = {[pass |-> acc.pass, frames |-> acc.image]},
                              !.image = {}, !.start = NoId]
             ELSE acc
      pass == [pass |-> acc.pass, frames |-> Completed(now)]
  IN [now EXCEPT !.closed = TRUE, !.done = IF acc.filed THEN Append(@, pass) ELSE @]

\* The first frame of a newer pass closes the current one.
Closes(acc, k) == k > acc.pass /\ acc.pass >= 0 /\ ~acc.closed

OpenPass(acc, k) ==
  IF k <= acc.pass THEN acc
  ELSE [(IF Closes(acc, k) THEN ClosePass(acc) ELSE acc) EXCEPT !.pass = k, !.closed = FALSE]

AcceptPass(acc, k, frames) ==
  LET now == OpenPass(acc, k)
  IN IF k < now.pass \/ now.closed THEN Late(now, frames) ELSE Deposit(now, frames)

FramesOf(acc, s, ids) ==
  LET base == IF acc.wrap THEN acc.offset ELSE 0
  IN {[s |-> s, i |-> i, a |-> i + base, g |-> acc.geo] : i \in ids}

\* _ids: the scan cursor
Moved(acc, frames) == [acc EXCEPT !.last = Max({@} \cup {f.a : f \in frames})]

\* "latest" keeps the raw frames, and refuses another pixel type ...
Unstorable(acc, kind) == acc.mode = "latest" /\ acc.kind \notin {"none", kind}

InPass(frames, k) == {f \in frames : PassOf(f) = k}
FirstPass(frames) == Min({PassOf(f) : f \in frames})
FinalPass(frames) == Max({PassOf(f) : f \in frames})

\* ... after it has moved the cursor, and begun the pass of the first frames.
Refused(acc, frames) ==
  IF Tracks(acc)
  THEN Begun(OpenPass(Moved(acc, frames), FirstPass(frames)), InPass(frames, FirstPass(frames)))
  ELSE Begun(Moved(acc, frames), frames)

\* What pass k of a batch does; without a disk to save it to, the first pass that is completed is
\* the last thing that happens.
TakePass(acc, k, frames, disk) ==
  IF InPass(frames, k) = {} \/ (~disk /\ acc.done # <<>>) THEN acc
  ELSE IF ~disk /\ Closes(acc, k) THEN ClosePass(acc)
  ELSE AcceptPass(acc, k, InPass(frames, k))

\* The passes from lo to hi, one after the other.
TakePasses(acc, lo, hi, frames, disk) ==
  LET taken[k \in (lo - 1) .. hi] ==
        IF k < lo THEN acc ELSE TakePass(taken[k - 1], k, frames, disk)
  IN taken[hi]

\* The frames of one batch
Process(acc, kind, frames, disk) ==
  LET moved == [Moved(acc, frames) EXCEPT !.kind = IF acc.mode = "latest" /\ @ = "none" THEN kind ELSE @]
  IN IF Tracks(acc) THEN TakePasses(moved, FirstPass(frames), FinalPass(frames), frames, disk)
     ELSE Deposit(moved, frames)

-----------------------------------------------------------------------------
StartSeries(acc) == IF acc.wrap THEN [acc EXCEPT !.offset = NextOffset(acc)] ELSE acc

\* A pass whose last position has arrived is closed with its series.
EndSeries(acc) ==
  IF /\ Tracks(acc) /\ acc.pass >= 0 /\ ~acc.closed
     /\ acc.last \div Positions = acc.pass /\ acc.last % Positions = Positions - 1
  THEN ClosePass(acc) ELSE acc

\* Mutation: the completed pass survives a new geometry.
Restarted_Front(acc, geo) == [acc EXCEPT !.geo = geo, !.image = {}, !.start = NoId]

Restarted(acc, geo) == [acc EXCEPT !.geo = geo, !.image = {}, !.start = NoId, !.front = {}]

\* "latest" deposits the frames it holds again, the other modes start over.
SetGeometry(acc, geo) ==
  IF acc.mode = "latest"
  THEN [acc EXCEPT !.geo = geo, !.image = {[f EXCEPT !.g = geo] : f \in @}]
  ELSE Restarted(acc, geo)

-----------------------------------------------------------------------------
(* What is shown and saved.                                                  *)

OutRows == 0 .. (Rows * Up - 1)

\* _sources_from: the scan rows whose shifted deposits land on output row y.
Sources(geo, y) ==
  {k \in 0 .. (Rows - 1) : \E d \in Shifts[geo] : (y - d) % (Rows * Up) = k * Up}

\* _rows_from: the last of them.
RowSource(geo, y) == Max(Sources(geo, y) \cup {-1})

RowsDone(acc) ==
  IF acc.last < 0 \/ acc.last \div Positions # acc.pass THEN 0
  ELSE ((acc.last % Positions) + 1) \div Width

\* Rows that "swap" takes from the current pass.
FromCurrent(acc, y) == RowSource(acc.geo, y) < RowsDone(acc)

\* channels(): the frames behind output row y of the live image.
Shown(acc, y) ==
  IF acc.front = {} \/ (acc.image # {} /\ (acc.mode = "reset" \/ FromCurrent(acc, y)))
  THEN acc.image ELSE Completed(acc)

\* Mutation: the torus wrap of the scan rows is forgotten.
CoveredRows_Flat(acc) ==
  {k \in 0 .. (Rows - 1) : k * Width - acc.start + Width <= acc.last - acc.start + 1}

\* Scan rows received since the image began to fill, in raster order.
CoveredRows(acc) ==
  {k \in 0 .. (Rows - 1) :
     ((k * Width - acc.start) % Positions) + Width <= acc.last - acc.start + 1}

\* complete_rows(): {} when every row is complete, else {<<r0, r1>>}: rows r0 .. r1-1.
CompleteRows(acc) ==
  LET done == {y \in OutRows : Sources(acc.geo, y) \subseteq CoveredRows(acc)}
      runs == {r \in OutRows \X (1 .. Rows * Up) : r[1] < r[2] /\ r[1] .. (r[2] - 1) \subseteq done}
      Better(r, q) == r[2] - r[1] > q[2] - q[1] \/ (r[2] - r[1] = q[2] - q[1] /\ r[1] <= q[1])
  IN IF acc.front # {} /\ (acc.mode = "swap" \/ acc.image = {}) THEN {}
     ELSE IF acc.last < 0 \/ acc.start > acc.last THEN {<<0, 0>>}
     ELSE IF acc.last - acc.start + 1 >= Positions \/ done = OutRows THEN {}
     ELSE IF runs = {} THEN {<<0, 0>>}
     ELSE {CHOOSE r \in runs : \A q \in runs : Better(r, q)}
=============================================================================
