---------------------------- MODULE VirtualDetector ----------------------------
(***************************************************************************)
(* ScanTensorOp and VirtualDetectorOp of processing.py: the first places    *)
(* the images of every decoded batch in the scan, the second joins those    *)
(* positions with the batch, integrates the images into the series' image   *)
(* and counts what it was given.  A pixel of that image is the id of the    *)
(* image integrated there.                                                  *)
(***************************************************************************)
EXTENDS SeriesMessages, SequencesExt, FiniteSetsExt

CONSTANT PositionsDepth   \* capacity of the edge between the operators

VARIABLES
  feed,                \* the batches of a run
  scanned, scanSeries, scanShape,   \* ScanTensorOp: batches taken, open series, its scan
  positions,           \* the edge: PositionedBatch
  taken, series,       \* VirtualDetectorOp: batches taken, the START of the open series
  counts,              \* what it counts of the series
  image,               \* the series' image
  results,
  raised               \* an operator raised: the run is over

scanVars == <<scanned, scanSeries, scanShape>>
detectorVars == <<taken, series, counts, image, results>>
vdVars == <<feed, scanVars, positions, detectorVars, raised>>

NoSeries == [series |-> 0]
Empty == -1
NoCounts == [received |-> 0, placed |-> 0, gaps |-> 0, missing |-> 0, next |-> 0]

-----------------------------------------------------------------------------
\* Mutation: the columns of the configured scan.
Position_Configured(id, scan) == <<id \div ConfiguredScan[2], id % ConfiguredScan[2]>>

Position(id, scan) == <<id \div scan[2], id % scan[2]>>

\* scan_positions: which of the ids are inside the scan, and [row, column] of those.
ScanPositions(ids, scan) ==
  [i \in {j \in DOMAIN ids : ids[j] < Size(scan)} |-> Position(ids[i], scan)]

-----------------------------------------------------------------------------
Init ==
  /\ scanned = 0 /\ scanSeries = 0 /\ scanShape = ConfiguredScan
  /\ positions = <<>>
  /\ taken = 0 /\ series = NoSeries /\ counts = NoCounts /\ image = <<>>
  /\ results = <<>> /\ raised = FALSE

Ids(batch) == IF batch.kind = "images" THEN batch.ids ELSE <<>>

\* ScanTensorOp.compute raises on a boundary out of order.
Misplaced(batch) ==
  IF batch.kind = "start" THEN ParseFails(batch) \/ scanSeries # 0
  ELSE scanSeries # batch.series

\* It retries while the edge is full.
Place ==
  /\ ~raised /\ scanned < Len(feed)
  /\ LET batch == feed[scanned + 1]
         scan == IF batch.kind = "start" THEN ScanOf(batch) ELSE scanShape
     IN \/ /\ Misplaced(batch)
           /\ raised' = TRUE
           /\ UNCHANGED <<scanVars, positions>>
        \/ /\ ~Misplaced(batch) /\ Len(positions) < PositionsDepth
           /\ scanned' = scanned + 1
           /\ scanShape' = scan
           /\ scanSeries' = IF batch.kind = "end" THEN 0 ELSE batch.series
           /\ positions' = Append(positions, [batch |-> scanned + 1,
                                              where |-> ScanPositions(Ids(batch), scan)])
           /\ UNCHANGED raised
  /\ UNCHANGED <<feed, detectorVars>>

-----------------------------------------------------------------------------
\* The batch and the positions that OnAligned joins.
Aligned == taken < Len(feed) /\ positions # <<>>
Batch == feed[taken + 1]
Positioned == Head(positions)

Blank(scan) == [p \in (0 .. scan[1] - 1) \X (0 .. scan[2] - 1) |-> Empty]

\* What VirtualDetectorOp.compute raises on.
Refused ==
  \/ Positioned.batch # taken + 1
  \/ Batch.kind # "start" /\ series.series # Batch.series
  \/ Batch.kind = "images" /\ Batch.shape # series.shape
  \/ Batch.kind = "end" /\ Batch.images # counts.received

Refuse ==
  /\ ~raised /\ Aligned /\ Refused
  /\ raised' = TRUE
  /\ UNCHANGED <<feed, scanVars, positions, detectorVars>>

Joins(kind) ==
  /\ ~raised /\ Aligned /\ ~Refused /\ Batch.kind = kind
  /\ taken' = taken + 1
  /\ positions' = Tail(positions)
  /\ UNCHANGED <<feed, scanVars, raised>>

BeginSeries ==
  /\ Joins("start")
  /\ series' = Batch
  /\ counts' = NoCounts
  /\ image' = Blank(ScanOf(Batch))
  /\ UNCHANGED results

\* The places of a batch behind which its ids jump, and the ids that its steps forward skip.
Jumps(ids) == {i \in 1 .. Len(ids) - 1 : ids[i + 1] - ids[i] # 1}
Skips(ids) == {i \in 1 .. Len(ids) - 1 : ids[i + 1] > ids[i]}
Skipped(ids) == UNION {{i} \X (ids[i] + 1 .. ids[i + 1] - 1) : i \in Skips(ids)}

GapsBefore(ids) == IF Head(ids) # counts.next THEN 1 ELSE 0

Counted(ids, selected) ==
  LET before == Head(ids) - counts.next
  IN [received |-> counts.received + Len(ids),
      placed   |-> counts.placed + Cardinality(selected),
      gaps     |-> counts.gaps + GapsBefore(ids) + Cardinality(Jumps(ids)),
      missing  |-> counts.missing + (IF before > 0 THEN before ELSE 0)
                     + Cardinality(Skipped(ids)),
      next     |-> Last(ids) + 1]

\* virtual_detectors.integrate, scattered by position.
Integrate ==
  /\ Joins("images")
  /\ LET where == Positioned.where
         here(p) == {i \in DOMAIN where : where[i] = p}
     IN /\ counts' = Counted(Batch.ids, DOMAIN where)
        /\ image' = [p \in DOMAIN image |->
                       IF here(p) # {} THEN Batch.ids[Max(here(p))] ELSE image[p]]
  /\ UNCHANGED <<series, results>>

EndSeries ==
  /\ Joins("end")
  /\ results' = Append(results, [series |-> series.series, scan |-> ScanOf(series),
                                 counts |-> counts, image |-> image])
  /\ series' = NoSeries /\ image' = <<>>
  /\ UNCHANGED counts

Next == Place \/ Refuse \/ BeginSeries \/ Integrate \/ EndSeries

-----------------------------------------------------------------------------
\* The images of a series that the feed delivers: where in the feed, and their ids.
Delivered(n) ==
  UNION {{p} \X DOMAIN feed[p].ids :
           p \in {q \in DOMAIN feed : feed[q].kind = "images" /\ feed[q].series = n}}

IdsOf(places) == {feed[d[1]].ids[d[2]] : d \in places}

\* The result of a series is what its images say, whatever series came before: every position
\* of its own scan shows its own image or none, and the counts tell what is missing of the ids
\* up to the last one and in how many gaps (holoscan_basic_ingest.md:304, "Maps are cleared at
\* START ... gap_events reports discontinuities ... missing_images counts forward skips").
ResultsExact ==
  \A i \in DOMAIN results :
    LET r == results[i]
        ids == IdsOf(Delivered(r.series))
        below == IF ids = {} THEN {} ELSE 0 .. Max(ids)
    IN /\ r.counts.received = Cardinality(Delivered(r.series))
       /\ r.counts.placed = Cardinality({id \in ids : id < Size(r.scan)})
       /\ r.counts.missing = Cardinality(below \ ids)
       /\ r.counts.gaps = Cardinality({id \in ids : id # 0 /\ id - 1 \notin ids})
       /\ r.image = [p \in DOMAIN Blank(r.scan) |->
                       LET id == p[1] * r.scan[2] + p[2] IN IF id \in ids THEN id ELSE Empty]
=============================================================================
