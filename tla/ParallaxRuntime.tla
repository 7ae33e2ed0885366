--------------------------- MODULE ParallaxRuntime ---------------------------
(***************************************************************************)
(* The life of a parallax reconstruction: the runtime and its sink          *)
(* (parallax/runtime.py, ingest/sink.py), fed by ParallaxOp (live) or by a  *)
(* replay (offline.py), tuned through the page (control.py), saved          *)
(* (algorithm.py) and closed.  Two threads: "main" feeds, finishes and      *)
(* closes, "http" is the handler of one POST.  What holds ACC_LOCK is one   *)
(* step, split where another thread reads without it.                       *)
(***************************************************************************)
EXTENDS ParallaxEngine, LiveView

CONSTANTS
  Setups,     \* [live, viewer, endpoint, mode, passes] of a session
  Series,     \* what is recorded or received: [shape, kind, count, batches]
  Changes,    \* the bodies of POST /params: [mode, tune, fault]
  BatchSize,  \* images in a batch
  PendingCap, \* capacity of the queue of QueuedLiveControl
  MaxSeries, MaxUpdates, MaxPreviews, MaxSaveErrors  \* bounds

ASSUME ParallaxAssumption ==
  /\ {Rows, Width, Up} \subseteq Nat \ {0} /\ History \in Nat
  /\ Writers = {"main", "http"}
  /\ \A x \in Setups : x.mode \in Modes \cup {"scan"} /\ {x.live, x.viewer, x.passes} \subseteq BOOLEAN
  /\ \A x \in Series : /\ x.batches \in Seq(SUBSET Nat)
                       /\ \A b \in DOMAIN x.batches : x.batches[b] # {} /\ IsFiniteSet(x.batches[b])

VARIABLES
  setup,
  main,     \* "run", "preview", "tuning", "final", "linger", "stop", "resave", "last", "closed"
  http,     \* "idle", or "publish": between a change and its snapshot
  lock,     \* the thread that holds ACC_LOCK between steps, or "none"
  args,     \* [mode, tune]: what the control may change
  acc,      \* the accumulator of the control and of the sink
  series,   \* the series being received
  at,       \* its batches fed so far
  sink,     \* [seen, frames] of the BatchSink
  rounds, active, revision, savedRev,
  closed,   \* QueuedLiveControl.closed
  pending,  \* its queue
  file,     \* the images saved last: [rev, round, frames]
  movie,    \* the files of completed passes: [pass, frames]
  report,   \* the last completeness report
  log,      \* history: the images fed, [s, b, i] for image i in batch b of series s
  began,    \* history: the log when the image was begun
  torn,     \* history: a change failed after its first half
  rev0,     \* history: the revision when close began
  updates, previews, saveErrors  \* bounded counters

control == <<args, revision>>
history == <<log, began, torn, rev0>>
counters == <<updates, previews, saveErrors>>
series_ == <<series, at, sink, rounds, active>>
saved_ == <<savedRev, file, report>>
queue_ == <<closed, pending>>
vars == <<setup, main, http, lock, control, acc, series_, saved_, movie, queue_, history, counters, viewVars>>

NoAcc    == [Build("all", 1, "none", FALSE) EXCEPT !.mode = "none"]
NoSeries == [shape |-> "none", kind |-> "none", count |-> 0, batches |-> <<>>]
NoFile   == [rev |-> -1, round |-> 0, frames |-> {}]

Free(t) == lock \in {"none", t}
Selectable == IF setup.mode = "scan" THEN {} ELSE Modes   \* LiveControl.modes

\* BatchSink.__init__: a sink per series counts from nothing.
NewSink == [seen |-> {}, frames |-> 0]

\* LiveControl and QueuedLiveControl before the first series: the command line's values, and no
\* accumulator to tune.
ControlInit ==
  /\ args = [mode |-> setup.mode, tune |-> 1]
  /\ acc = NoAcc /\ revision = 0
  /\ closed = FALSE /\ pending = <<>>

Init ==
  /\ setup \in Setups
  /\ main = "run" /\ http = "idle" /\ lock = "none"
  /\ ControlInit
  /\ series = NoSeries /\ at = 0 /\ sink = NewSink
  /\ rounds = 0 /\ active = FALSE /\ savedRev = 0
  /\ file = NoFile /\ report = "none" /\ movie = {}
  /\ log = {} /\ began = {} /\ torn = FALSE /\ rev0 = -1
  /\ updates = 0 /\ previews = 0 /\ saveErrors = 0
  /\ ViewInit

-----------------------------------------------------------------------------
(* ParallaxRuntime.start_series                                              *)

Persistent == args.mode # "scan" /\ acc # NoAcc

\* Mutation: the ids of the next series start at 0 again.
Started_Again(x) == IF Persistent THEN acc ELSE Build(args.mode, args.tune, x.shape, setup.passes)

Started(x) == IF Persistent THEN StartSeries(acc) ELSE Build(args.mode, args.tune, x.shape, setup.passes)

\* A persistent image cannot take another detector shape; "latest" needs room for a batch.
StartRefused(x) ==
  IF Persistent THEN x.shape # acc.shape ELSE args.mode = "latest" /\ BatchSize > Positions

\* An error of the stream ends the session (the operator fails, or the replay raises).
Fail == main' = "stop"

Start ==
  /\ main = "run" /\ ~active /\ Free("main") /\ rounds < MaxSeries
  /\ \E x \in Series :
       IF StartRefused(x)
       THEN Fail /\ UNCHANGED <<acc, series_, log, began>>
       ELSE /\ acc' = Started(x)
            /\ series' = x /\ at' = 0 /\ sink' = NewSink
            /\ rounds' = rounds + 1 /\ active' = TRUE
            /\ began' = IF Persistent THEN began ELSE log
            /\ UNCHANGED <<main, log>>
  /\ UNCHANGED <<setup, http, lock, control, saved_, movie, queue_, torn, rev0, counters, viewVars>>

-----------------------------------------------------------------------------
(* BatchSink.feed                                                            *)

\* Without wrapping, an id beyond the scan is refused before anything changes.
OutsideScan(ids) == ~acc.wrap /\ \E i \in ids : i >= Positions

\* _mark_seen
Marked(ids) == IF acc.wrap THEN {i % Positions : i \in ids} ELSE ids

Logged(frames) == log \cup {[s |-> rounds, b |-> at + 1, i |-> f.i] : f \in frames}

\* save_pass: a file per pass number, and the next accumulator counts from 0 again.  In one call
\* every pass is completed once.
Written(passes) == {m \in movie : \A p \in passes : m.pass # p.pass} \cup passes
Filed(a) == Written(ToSet(a.done))
Spoilt(a) == {m \in movie : m.pass # a.done[1].pass}
Settled(a) == [a EXCEPT !.done = <<>>]

\* A file cannot be written, e.g. on a full disk.
SaveFails == saveErrors < MaxSaveErrors /\ saveErrors' = saveErrors + 1

\* The live operator first applies what the page has queued.
Feed ==
  /\ main = "run" /\ active /\ at < Len(series.batches) /\ pending = <<>> /\ Free("main")
  /\ LET ids     == series.batches[at + 1]
         frames  == FramesOf(acc, rounds, ids)
         whole   == Process(acc, series.kind, frames, TRUE)
         cut     == Process(acc, series.kind, frames, FALSE)
         refused == Refused(acc, frames)
     IN \/ /\ OutsideScan(ids)
           /\ Fail /\ UNCHANGED <<acc, at, sink, log, movie, previews, saveErrors>>
        \/ /\ ~OutsideScan(ids) /\ Unstorable(acc, series.kind)
           /\ Fail /\ acc' = Settled(refused) /\ movie' = Filed(refused)
           /\ UNCHANGED <<at, sink, log, previews, saveErrors>>
        \/ /\ ~OutsideScan(ids) /\ Tracks(acc) /\ cut.done # <<>>
           /\ Unstorable(acc, series.kind) => Closes(acc, FirstPass(frames))
           /\ SaveFails /\ Fail
           /\ acc' = Settled(cut) /\ movie' = Spoilt(cut)
           /\ log' = Logged({f \in frames : PassOf(f) <= cut.pass})
           /\ UNCHANGED <<at, sink, previews>>
        \/ /\ ~OutsideScan(ids) /\ ~Unstorable(acc, series.kind)
           /\ acc' = Settled(whole) /\ movie' = Filed(whole)
           /\ at' = at + 1
           /\ sink' = [seen |-> sink.seen \cup Marked(ids), frames |-> sink.frames + Cardinality(ids)]
           /\ log' = Logged(frames)
           /\ \/ main' = "run" /\ UNCHANGED previews
              \/ /\ previews < MaxPreviews /\ previews' = previews + 1
                 /\ main' = "preview"
           /\ UNCHANGED saveErrors
  /\ UNCHANGED <<setup, http, lock, control, series, rounds, active, saved_, queue_,
                 began, torn, rev0, updates, viewVars>>

-----------------------------------------------------------------------------
(* LiveControl.update: a new mode is built, then the image is retuned        *)

\* A mode that cannot be selected, or "latest" with less room than a batch.
Unselectable(c) ==
  c.mode \notin Selectable \/ (c.mode = "latest" /\ acc # NoAcc /\ BatchSize > Positions)

\* _switch sets the mode before it builds the accumulator for it.
Switch(a, c) ==
  LET set == [a EXCEPT !.args.mode = c.mode]
  IN IF c.mode \in {"keep", a.args.mode} THEN a
     ELSE IF Unselectable(c) THEN [a EXCEPT !.end = "refused"]
     ELSE IF a.acc = NoAcc THEN set
     ELSE IF c.fault = "memory" THEN [set EXCEPT !.end = "crashed"]
     ELSE [set EXCEPT !.acc = Build(c.mode, a.args.tune, a.acc.shape, setup.passes)]

\* Mutation: the running image is not shifted again.
Retune_Later(a, c) == IF a.end = "done" /\ c.tune # 0 THEN [a EXCEPT !.args.tune = c.tune] ELSE a

\* retune: an unknown name changes nothing, a bad value comes behind good ones.
Retune(a, c) ==
  LET set == [a EXCEPT !.args.tune = c.tune]
  IN IF a.end # "done" \/ c.tune = 0 THEN a
     ELSE IF c.fault = "key" THEN [a EXCEPT !.end = "refused"]
     ELSE IF c.fault = "value" THEN [set EXCEPT !.end = "refused"]
     ELSE IF c.fault = "memory" THEN [set EXCEPT !.end = "crashed"]
     ELSE IF a.acc = NoAcc THEN set
     ELSE [set EXCEPT !.acc = SetGeometry(a.acc, c.tune)]

Updated(c) == Retune(Switch([acc |-> acc, args |-> args, end |-> "done"], c), c)

Restarts(a) == a.acc # acc /\ (a.acc.mode # "latest" \/ a.acc.image = {})

\* The step under the lock, up to the snapshot; t publishes if all went well.
Apply(c, Done, Refuse, Crash) ==
  LET a == Updated(c)
  IN /\ acc' = a.acc /\ args' = a.args
     /\ began' = IF Restarts(a) THEN log ELSE began
     /\ torn' = (torn \/ (a.end # "done" /\ c.fault \in {"value", "memory"}))
     /\ CASE a.end = "done"    -> revision' = revision + 1 /\ Done
          [] a.end = "refused" -> revision' = revision /\ Refuse
          [] a.end = "crashed" -> revision' = revision /\ Crash

Post == updates < MaxUpdates /\ updates' = updates + 1 /\ main # "closed" /\ setup.viewer

\* do_POST with a LiveControl: applied by the handler itself.
Update ==
  /\ Post /\ ~setup.live /\ http = "idle" /\ lock = "none"
  /\ \E c \in Changes :
       Apply(c, IF acc' = NoAcc THEN UNCHANGED <<http, lock>> ELSE http' = "publish" /\ lock' = "http",
               UNCHANGED <<http, lock>>, UNCHANGED <<http, lock>>)
  /\ UNCHANGED <<setup, main, series_, saved_, movie, queue_, log, rev0, previews, saveErrors, viewVars>>

Open == ~closed

\* do_POST with a QueuedLiveControl: a bounded queue, refused when full or closed.
Enqueue ==
  /\ Post /\ setup.live /\ Free("http") /\ Open /\ Len(pending) < PendingCap
  /\ \E c \in Changes : pending' = Append(pending, c)
  /\ UNCHANGED <<setup, main, http, lock, control, acc, series_, saved_, movie, closed, history,
                 previews, saveErrors, viewVars>>

\* apply_pending: a refused change is noted, another error ends the operator.
ApplyPending ==
  /\ main = "run" /\ active /\ pending # <<>>
  /\ pending' = Tail(pending)
  /\ Apply(Head(pending), main' = "tuning" /\ lock' = "main",
           UNCHANGED <<main, lock>>, Fail /\ UNCHANGED lock)
  /\ UNCHANGED <<setup, http, series_, saved_, movie, closed, log, rev0, counters, viewVars>>

-----------------------------------------------------------------------------
(* publish_snapshot, which every caller runs under ACC_LOCK                  *)

Publishing(t) == IF t = "main" THEN main \in {"preview", "tuning", "final", "last"}
                 ELSE http = "publish" /\ main # "closed"

\* Mutation: a preview is published without the lock.
MayPublish_Unlocked(t) == (t = "main" /\ main = "preview") \/ Free(t)

MayPublish(t) == Free(t)

TakeFrame(t) ==
  /\ Publishing(t) /\ MayPublish(t)
  /\ Take(t, revision, setup.endpoint)
  /\ lock' = IF lock = "none" THEN t ELSE lock
  /\ UNCHANGED <<setup, main, http, control, acc, series_, saved_, movie, queue_, history, counters>>

\* Mutation: a request that has published keeps the lock.
Released_Main(t) == IF lock = "main" THEN "none" ELSE lock

Released(t) == IF lock = t THEN "none" ELSE lock

\* finish_series ends with the snapshot; a preview or a change goes on.
PutFrame(t) ==
  /\ Publishing(t) /\ taken[t] # NoFrame
  /\ IF setup.viewer THEN Put(t) ELSE Abandon(t)
  /\ lock' = Released(t)
  /\ IF t = "http" THEN http' = "idle" /\ UNCHANGED <<main, savedRev, active>>
     ELSE /\ main' = IF main = "last" THEN "closed" ELSE "run"
          /\ IF main \in {"final", "last"}
             THEN savedRev' = revision /\ active' = FALSE
             ELSE UNCHANGED <<savedRev, active>>
          /\ UNCHANGED http
  /\ UNCHANGED <<setup, control, acc, series, at, sink, rounds, file, report, movie, queue_, history, counters>>

-----------------------------------------------------------------------------
(* finish_series and close                                                   *)

Complete == Cardinality(sink.seen) = Positions /\ (acc.wrap \/ sink.frames = Positions)

Save == file' = [rev |-> revision, round |-> rounds, frames |-> Completed(acc')]

\* ParallaxOp compares END's count with what it fed.
Finish ==
  /\ main = "run" /\ active /\ at = Len(series.batches) /\ pending = <<>> /\ Free("main")
  /\ IF setup.live /\ series.count # sink.frames
     THEN Fail /\ UNCHANGED <<lock, acc, file, report, movie, saveErrors>>
     ELSE LET ended == EndSeries(acc)
          IN /\ acc' = Settled(ended)
             /\ \/ /\ movie' = Filed(ended)
                   /\ report' = IF Complete THEN "complete" ELSE "incomplete"
                   /\ \/ Save /\ main' = "final" /\ lock' = "main" /\ UNCHANGED saveErrors
                      \/ SaveFails /\ Fail /\ UNCHANGED <<lock, file>>
                \/ /\ ended.done # <<>> /\ movie' = Spoilt(ended)
                   /\ SaveFails /\ Fail /\ UNCHANGED <<lock, file, report>>
  /\ UNCHANGED <<setup, http, control, series_, savedRev, queue_, history,
                 updates, previews, viewVars>>

\* The live session stops between batches; a replay is interrupted anywhere.
Interrupt ==
  /\ IF setup.live THEN main = "run" ELSE main \in {"run", "preview", "final", "linger"}
  /\ main' = IF setup.viewer /\ ~setup.live /\ main # "linger" THEN "linger" ELSE "stop"
  /\ lock' = Released("main")
  /\ Abandon("main")
  /\ UNCHANGED <<setup, http, control, acc, series_, saved_, movie, queue_, history, counters>>

\* The recording ends, in the middle of a series or behind its END; the viewer remains.
Exhausted ==
  /\ main = "run" /\ ~setup.live
  /\ IF active \/ ~setup.viewer THEN Fail ELSE main' = "linger"
  /\ UNCHANGED <<setup, http, lock, control, acc, series_, saved_, movie, queue_, history, counters, viewVars>>

\* Mutation: only a revision made while the series ran is saved.
Unsaved_Active == revision # savedRev /\ active

\* Changes made since the last save; read without the lock.
Unsaved == revision # savedRev /\ ~active

CloseReads ==
  /\ main = "stop" /\ ~closed
  /\ closed' = TRUE
  /\ rev0' = revision
  /\ main' = IF Unsaved \/ active THEN "resave" ELSE "closed"
  /\ UNCHANGED <<setup, http, lock, control, acc, series_, saved_, movie, pending,
                 log, began, torn, counters, viewVars>>

\* Under the lock: the tuned image is saved again, or an interrupted series is finished.
\* (Without an accumulator there is nothing to save, and save raises.)
CloseSaves ==
  /\ main = "resave" /\ lock = "none"
  /\ acc' = acc
  /\ \/ /\ active /\ Save
        /\ report' = IF Complete THEN "complete" ELSE "incomplete"
        /\ main' = "last" /\ lock' = "main"
        /\ UNCHANGED <<savedRev, saveErrors>>
     \/ /\ ~active /\ acc # NoAcc /\ Save /\ savedRev' = revision
        /\ main' = "closed" /\ UNCHANGED <<lock, report, saveErrors>>
     \/ /\ SaveFails \/ (acc = NoAcc /\ UNCHANGED saveErrors)
        /\ main' = "closed" /\ UNCHANGED <<lock, savedRev, file, report>>
  /\ UNCHANGED <<setup, http, control, series_, movie, queue_, history, updates, previews, viewVars>>

-----------------------------------------------------------------------------
View ==
  /\ main # "closed" /\ ViewNext
  /\ UNCHANGED <<setup, main, http, lock, control, acc, series_, saved_, movie, queue_, history, counters>>

Next ==
  \/ Start \/ Feed \/ Finish \/ Interrupt \/ Exhausted \/ CloseReads \/ CloseSaves
  \/ Update \/ Enqueue \/ ApplyPending
  \/ \E t \in Writers : TakeFrame(t) \/ PutFrame(t)
  \/ View

\* Threads that have begun go on; the stream, the user and Ctrl-C may stay away.
Fairness ==
  /\ \A t \in Writers : WF_vars(TakeFrame(t)) /\ WF_vars(PutFrame(t))
  /\ WF_vars(CloseReads) /\ WF_vars(CloseSaves)
  /\ WF_vars(View /\ ShowPage)

Spec == Init /\ [][Next]_vars
FairSpec == Spec /\ Fairness

-----------------------------------------------------------------------------
TypeOK ==
  /\ main \in {"run", "preview", "tuning", "final", "linger", "stop", "resave", "last", "closed"}
  /\ http \in {"idle", "publish"} /\ lock \in Writers \cup {"none"}
  /\ acc.mode \in Modes \cup {"none"} /\ Cardinality(acc.front) <= 1
  /\ active => acc # NoAcc

\* The order in which images are fed, and the last of some.
Earlier(d, e) ==
  d.s < e.s \/ (d.s = e.s /\ (d.b < e.b \/ (d.b = e.b /\ d.i < e.i)))
LastOf(some) == CHOOSE e \in some : \A d \in some : ~Earlier(e, d)

\* The images fed since the image was begun, and the positions and passes they belong to.
Since == log \ began
Ids(frames) == {[s |-> f.s, i |-> f.i] : f \in frames}
Pass(e) == [s |-> e.s, k |-> e.i \div Positions]
NewerPass(p, q) == p.s > q.s \/ (p.s = q.s /\ p.k > q.k)
Replaced(e) == \E d \in Since : d.i % Positions = e.i % Positions /\ Earlier(e, d)

\* A batch holds a position at most once, as "latest" assumes (engine.py:537).
OnePerPosition ==
  \A x \in Series : \A b \in DOMAIN x.batches : \A i, j \in x.batches[b] :
    i % Positions = j % Positions => i = j

\* An image behind one of a newer pass is of the pass before that, whose images were arriving
\* when the newer one's came: in its batch, or in the batch before if it holds nothing older.
\* These are a connection's stragglers past the boundary (engine.py:614): "swap" puts every late
\* frame into the completed pass, and would mix it with one that is two passes late.
LateByOnePass ==
  \A x \in Series : \A p, q \in DOMAIN x.batches : p < q =>
    \A i \in x.batches[p], j \in x.batches[q] :
      LET k == j \div Positions
      IN k < i \div Positions =>
           /\ i \div Positions = k + 1
           /\ \/ \E h \in x.batches[p] : h \div Positions = k
              \/ /\ \A h \in x.batches[p] : h \div Positions > k
                 /\ p > 1 /\ \E h \in x.batches[p - 1] : h \div Positions = k

\* An image is what its mode says it is, whatever was switched, retuned or interrupted before:
\* every frame since it was begun ("all"), the newest of each position ("latest"), or those of
\* one pass ("reset", "swap"), where only frames of "reset" that come behind the next pass's are
\* missing, all of them shifted by the geometry that is set (sink.py:75, engine.py:388, 583).
ImagesExact ==
  /\ \A f \in acc.image \cup Completed(acc) : f.g = acc.geo
  /\ acc.mode = "all" => Ids(acc.image) = Ids(Since)
  /\ acc.mode = "latest" => Ids(acc.image) = Ids({e \in Since : ~Replaced(e)})
  /\ KeepsFront(acc) =>
       \A frames \in {acc.image} \cup {c.frames : c \in acc.front} : \A f \in frames :
         /\ [s |-> f.s, i |-> f.i] \in Ids(Since)
         /\ \A g \in frames : Pass(g) = Pass(f)
         /\ \A e \in Since :
              Pass(e) = Pass(f) =>
                \/ [s |-> e.s, i |-> e.i] \in Ids(frames)
                \/ acc.mode = "reset" /\ \E d \in log : Earlier(d, e) /\ NewerPass(Pass(d), Pass(e))

\* The images came in raster order since the image was begun, pass for pass and none behind one of
\* a newer pass; none was refused, and the cursor is on the last of them: a batch that could not be
\* stored, or was split at a pass whose file could not be written, leaves it on an image that is
\* not deposited.  (NoId, 2^62 in the code, is beyond every id.)
Orderly ==
  /\ ~Unstorable(acc, series.kind) /\ acc.last < NoId
  /\ Since # {} => \E f \in acc.image \cup Completed(acc) :
                    f.a = acc.last /\ Ids({f}) = Ids({LastOf(Since)})
  /\ \A e \in Since :
       LET before == {d \in Since : Earlier(d, e)}
           prior  == LastOf(before)
       IN \/ before = {}
          \/ prior.s = e.s /\ prior.i = e.i - 1
          \/ prior.s # e.s /\ e.i = 0 /\ (prior.i + 1) % Positions = 0
  /\ \A e \in Since, d \in log : Earlier(d, e) => ~NewerPass(Pass(d), Pass(e))

\* The image was not begun in the middle of a pass: one that was becomes a completed pass all
\* the same, even an empty one, and is shown as complete.
AtPassStart ==
  KeepsFront(acc) => /\ \A e \in Since : e.i % Positions = 0 \/ \E d \in Since : Earlier(d, e)
                     /\ \A c \in acc.front : c.frames # {}

ClaimedRows(acc_) == LET r == CompleteRows(acc_)
                     IN IF r = {} THEN OutRows ELSE UNION {x[1] .. (x[2] - 1) : x \in r}

\* The rows a viewer is told are complete hold every frame whose shifted pixels land on them,
\* as long as the images arrive in order (engine.py:698; the row-wise choice of "swap", 725).
RowsShownComplete ==
  acc # NoAcc /\ Orderly /\ AtPassStart =>
    \A y \in ClaimedRows(acc) : \A k \in Sources(acc.geo, y) :
      \A p \in (k * Width) .. (k * Width + Width - 1) : \E f \in Shown(acc, y) : Pos(f) = p

\* The arguments, which build the next accumulator and are shown to the user, describe the
\* image, unless a change failed after its first half (control.py:72, 93).
ArgsMatchImage ==
  acc # NoAcc /\ ~torn => acc.geo = args.tune /\ acc.mode = ModeOf(args.mode)

\* Pass p came as a whole since the image was begun: all of its images, with nothing of an older
\* pass behind one of them and nothing of a newer one before.
OfPass(p) == {e \in Since : Pass(e) = p}
CameWhole(p) ==
  /\ Cardinality(Ids(OfPass(p))) = Positions
  /\ \A d \in log, e \in OfPass(p) : /\ NewerPass(Pass(d), p) => Earlier(e, d)
                                     /\ NewerPass(p, Pass(d)) => Earlier(d, e)

\* The images of the last series, and the pass that its last image is of.
Mine == {e \in log : e.s = rounds}
LastPass == Pass(LastOf(Mine))

\* "complete" is every position received, once in a single scan (sink.py:130).
ReportIsTrue ==
  report = "complete" <=>
    /\ \A p \in 0 .. (Positions - 1) : \E e \in Mine : e.i % Positions = p
    /\ acc.wrap \/ Cardinality(Mine) = Positions

\* A scan that came as a whole is what its save holds, and in modes that show one pass only it.
LastPassSaved ==
  Mine # {} /\ CameWhole(LastPass) =>
    /\ file.round = rounds /\ Ids(OfPass(LastPass)) \subseteq Ids(file.frames)
    /\ acc.mode \in {"latest", "reset", "swap"} => Ids(file.frames) = Ids(OfPass(LastPass))

\* A pass that came as a whole has a file of its own in the movie of the session, which holds all
\* of it, and in "reset" and "swap" only it (engine.py:510, 627).  A new mode starts the count of
\* the files again.
PassesFiled ==
  setup.passes /\ saveErrors = 0 =>
    \A p \in {Pass(e) : e \in Since} :
      CameWhole(p) => \E m \in movie : /\ Ids(OfPass(p)) \subseteq Ids(m.frames)
                                      /\ KeepsFront(acc) => Ids(m.frames) = Ids(OfPass(p))

\* When a series is saved, the file holds a scan that came as a whole, the report beside it says
\* "complete" just when everything was received, and its passes have their files (runtime.py:92,
\* engine.py:650, sink.py:130).
ScanSaved == main = "final" => ReportIsTrue /\ LastPassSaved /\ PassesFiled

\* What was tuned before close began is in the files it leaves, unless saving failed
\* (runtime.py:109, 129).
SavedIsTuned ==
  main = "closed" /\ saveErrors = 0 /\ rounds > 0 => file.rev >= rev0

\* The page's frames are numbered without a repetition, the newest is kept, and none shows an
\* older state of the control than the one before it (server.py:109).
StoreOrdered ==
  /\ \A i \in 1 .. Len(store) : \A j \in 1 .. (i - 1) :
       store[j].seq < store[i].seq /\ store[j].rev <= store[i].rev
  /\ store # <<>> => Newest.seq = next - 1

\* A change that was applied gets to the page, unless the process ends first.
ViewCatchesUp ==
  \A r \in 1 .. MaxUpdates :
    (revision = r /\ (http = "publish" \/ main = "tuning")) ~> (page.rev >= r \/ main = "closed")

\* close comes to its end, whatever holds the lock.
CloseEnds == (main = "stop") ~> (main = "closed")
=============================================================================
