----------------------------- MODULE SeriesConsumers -----------------------------
(***************************************************************************)
(* The consumers of one run's decoded batches: the ANS encoder in its own   *)
(* partition (AnsEncoder), and the scan and virtual detector operators      *)
(* (VirtualDetector).  Each takes the same batches in its own time; how     *)
(* their edges hold back the publisher is module BatchFlow.                 *)
(***************************************************************************)
EXTENDS AnsEncoder

CONSTANT PositionsDepth

VARIABLES scanned, scanSeries, scanShape, positions, taken, series, counts, image, results, raised

Detector == INSTANCE VirtualDetector

detectorVars == <<scanned, scanSeries, scanShape, positions, taken, series, counts, image, results,
                 raised>>
allVars == <<vars, detectorVars>>

ConsumersInit == Init /\ Detector!Init

\* An operator that raised ends the run for the others.
Encodes == Next /\ ~raised /\ UNCHANGED detectorVars
Detects == Detector!Next /\ at # "failed" /\ UNCHANGED vars

ConsumersNext == Encodes \/ Detects

ConsumersSpec == ConsumersInit /\ [][ConsumersNext]_allVars

-----------------------------------------------------------------------------
ResultsExact == Detector!ResultsExact

Kept == {datasets[i].series : i \in DOMAIN datasets}

\* What the validator asks of a result: the expected images, and no gap.
Validates(r, expected) == r.counts.received = expected /\ r.counts.gaps = 0

Expected(n) ==
  Positions(CHOOSE m \in ToSet(feed) : m.kind = "start" /\ m.series = n)

\* Every series that was begun is encoded at the moment, kept, closed to make room for later
\* ones, or dropped, and only one of these; no more are kept than allowed, and those are the
\* latest.
SeriesAccounted ==
  /\ (Kept \cup closed) \cap dropped = {}
  /\ Keep # 0 => Len(datasets) <= Keep
  /\ \A k \in Kept, c \in closed : c < k
  /\ at = "idle" =>
       {feed[i].series : i \in {j \in 1 .. pos : feed[j].kind = "start"}}
         = Kept \cup closed \cup dropped \cup ({encoder.series} \ {0})

\* The two consumers agree on every series both have finished: the encoder keeps (and later
\* closes, no older one staying) what validates for the detector and drops the rest, once
\* each, whatever became of the series before it; a series with a gap, without END or with too
\* many images is neither kept nor left in memory.
ConsumersAgree ==
  /\ \A i \in DOMAIN results :
       LET r == results[i]
       IN r.series \in Kept \cup closed \cup dropped =>
            (Validates(r, Expected(r.series)) <=> r.series \in Kept \cup closed)
  /\ SeriesAccounted
=============================================================================
