------------------------------ MODULE IngestMain ------------------------------
(***************************************************************************)
(* The program around the intake (virtual_detectors/main.py): it loads the  *)
(* masks, runs the pipeline on its own thread (headless) or on a worker     *)
(* behind a window it keeps redrawing, and saves the image at the end.      *)
(***************************************************************************)
EXTENDS IngestPool, FiniteSets

CONSTANT Headless   \* BOOLEAN or one of its values: the --headless runs to look at

VARIABLES
  headless,
  main,    \* "setup", "run" (inline), "show", "join", "report", "open" (window left open), or how it ended
  shown,   \* what the window shows
  saved    \* vbf_result.npy, <<>> before it is written

mainVars == <<headless, main, shown, saved>>
allVars == <<vars, mainVars>>

Over == {"over", "rejected", "failed", "interrupted"}

MainInit ==
  /\ Init
  /\ headless \in Headless /\ main = "setup"
  /\ shown = NoImage /\ saved = <<>>

\* load_mask raises on another shape than the detector's.
Fits(file) == file.present => file.shape = Detector

Setup ==
  /\ main = "setup"
  /\ main' = IF ~Fits(masks.flatfield) \/ ~Fits(masks.deadPx) THEN "failed"
             ELSE IF headless THEN "run" ELSE "show"
  /\ UNCHANGED <<vars, headless, shown, saved>>

\* The threads of the pipeline run until the process ends: they are daemons.
Runs(step) == main \notin Over \cup {"setup"} /\ step /\ UNCHANGED mainVars

WorkerAlive == consumer = "run"

\* LiveImage.update(acc.result())
Show ==
  /\ main = "show" /\ WorkerAlive
  /\ shown' = image
  /\ UNCHANGED <<vars, headless, main, saved>>

\* Ctrl-C: behind a window the first one ends the redrawing, and the worker is waited for.
Interrupt ==
  /\ main \in {"run", "show", "join"}
  /\ main' = IF main = "show" THEN "join" ELSE "interrupted"
  /\ UNCHANGED <<vars, headless, shown, saved>>

StopShowing ==
  /\ main = "show" /\ ~WorkerAlive
  /\ main' = "join"
  /\ UNCHANGED <<vars, headless, shown, saved>>

\* An exception of the pipeline ends the program when it runs inline, and only its thread when
\* it runs behind the window.
Return ==
  /\ main \in {"run", "join"} /\ ~WorkerAlive
  /\ main' = IF headless /\ consumer = "failed" THEN "failed"
             ELSE IF startError THEN "rejected" ELSE "report"
  /\ UNCHANGED <<vars, headless, shown, saved>>

\* report_stats, np.save and the last redraw
Report ==
  /\ main = "report"
  /\ saved' = image
  /\ IF headless THEN main' = "over" /\ UNCHANGED shown
     ELSE main' = "open" /\ shown' = image
  /\ UNCHANGED <<vars, headless>>

CloseWindow ==
  /\ main = "open"
  /\ main' = "over"
  /\ UNCHANGED <<vars, headless, shown, saved>>

MainNext ==
  \/ Setup \/ Show \/ Interrupt \/ StopShowing \/ Return \/ Report \/ CloseWindow
  \/ Runs(Next)

MainFairness ==
  /\ WF_allVars(Setup) /\ WF_allVars(StopShowing) /\ WF_allVars(Return) /\ WF_allVars(Report)
  /\ WF_allVars(Runs(PutChunk)) /\ WF_allVars(Runs(GiveUp)) /\ WF_allVars(Runs(Leave))
  /\ WF_allVars(Runs(Join)) /\ WF_allVars(Runs(Consume))
  /\ \A d \in Decoders :
       /\ WF_allVars(Runs(d \in pool /\ (Build(d) \/ Take(d) \/ Check(d) \/ Emit(d) \/ Count(d))))
       /\ WF_allVars(Runs(d \in pool /\ FindEmpty(d)))

MainSpec == MainInit /\ [][MainNext]_allVars /\ MainFairness

-----------------------------------------------------------------------------
\* The images between START and what has been received last.
Received ==
  {stream[i] : i \in {j \in 1 .. pos : stream[j].kind = "image" /\
                                       \E k \in 1 .. (j - 1) : stream[k].kind = "start"}}

\* Frames of the configured shape, in the form the detectors send and both backends decode.
Regular(m, onGpu) ==
  /\ CpuReads(m) /\ m.shape = Detector
  /\ ~m.dtype.big /\ ~m.dtype.signed /\ m.elem = m.dtype.width
  /\ onGpu => m.algorithm = "bslz4"

\* The weighed count of the good pixels in the disk, from what the detector counted.
Counted(m, files) ==
  LET gain == LoadMask(files.flatfield)
      good == LoadMask(files.deadPx)
  IN SumFunctionOnSet([i \in DOMAIN m.counts |-> m.counts[i] * gain[i]],
                      {i \in DOMAIN m.counts : InDisk(i) /\ good[i] = 1})

\* The saved image of an intake that came to its END without a stop holds, for every image it
\* received and could decode, what the detector counted in the disk, and nothing else; the
\* report counts the same frames.  A stream without a flaw is decoded to the last frame.
\* Excepted are a pool that died, and a chunk put between a decoder's get and its look at
\* _producing_done, which the last decoder to exit leaves in the queue (pipeline.py:270).
SavedWhole ==
  /\ saved # <<>> /\ consumer = "done" /\ ~stop /\ ~overtaken
  /\ \E d \in pool : at[d] # "died"
  =>
  LET kept == {m \in Received : m.id \notin errors}
  IN /\ \A m \in kept : Regular(m, gpu) => saved[m.id] = Counted(m, masks)
     /\ \A i \in DOMAIN saved : saved[i] # 0 => \E m \in kept : m.id = i
     /\ ~gpu => \A m \in kept : CpuReads(m)
     /\ (\A m \in Received : Regular(m, gpu)) => errors = {}
     /\ stats.received = Cardinality(Received)
     /\ stats.decoded = Cardinality(kept) /\ stats.batched = stats.decoded

\* What this asks of a source: its images have ids of their own, and an image of the
\* detector's form is weighed as the detector counted it, on the GPU in any chunk of its
\* stream that the decoder takes.
DistinctIds ==
  \A s \in Streams : \A i, j \in 1 .. Len(s) :
    s[i].kind = "image" /\ s[j].kind = "image" /\ s[i].id = s[j].id => i = j

CodecExact ==
  \A s \in Streams, files \in Masks :
    Fits(files.flatfield) /\ Fits(files.deadPx) =>
    LET images == {i \in 1 .. Len(s) : s[i].kind = "image"}
    IN \A i \in images :
         /\ Regular(s[i], FALSE) =>
              Reduced([p \in 1 .. Area(Detector) |-> CpuPixel(s[i], p)], WeightsOf(files))
                = Counted(s[i], files)
         /\ Regular(s[i], TRUE) => \A first, last \in images :
              /\ Regular(s[first], TRUE) => s[i].size = Area(Detector) * s[first].elem
              /\ s[first].readable /\ s[first].size = Area(Detector) * s[last].elem =>
                   Reduced([p \in 1 .. Area(Detector) |-> GpuPixel(s[i], s[first], s[last].elem, p)],
                           WeightsOf(files)) = Counted(s[i], files)

\* After END, a failed gate or a GPU decoder that was not built, the program saves its image or
\* ends; a pool whose decoders all died may leave the producer before a full queue.
Ends ==
  (ending \/ stop) ~> (main \in Over \cup {"open"} \/ \A d \in pool : at[d] = "died")
=============================================================================
