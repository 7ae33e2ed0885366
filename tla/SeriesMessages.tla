----------------------------- MODULE SeriesMessages -----------------------------
(***************************************************************************)
(* The messages of a series as the consumers of decoded batches read them   *)
(* (dectris/messages.py).  A START is [kind, series, height, width, images, *)
(* shape]: its number_of_images, the edge of its images, and the scan its   *)
(* header_appendix announces, 0 for a side that is absent.  An image batch  *)
(* is [kind, series, shape, ids], an END [kind, series, images].            *)
(***************************************************************************)
EXTENDS Integers, Sequences

CONSTANTS
  ConfiguredScan,  \* <<scan_height, scan_width>>
  MaxInt           \* the largest int32

\* ScanShape refuses a side that is not positive.
ASSUME ScanAssumption == ConfiguredScan \in (Nat \ {0}) \X (Nat \ {0}) /\ MaxInt \in Nat

\* _announced_scan refuses an announcement that is partial or no positive int32.
AnnouncesBadly(start) ==
  /\ <<start.height, start.width>> # <<0, 0>>
  /\ start.height \notin 1 .. MaxInt \/ start.width \notin 1 .. MaxInt

\* parse_start: the images are 96x96 or 192x192.
Shapes == {96, 192}
ParseFails(start) == start.shape \notin Shapes \/ AnnouncesBadly(start)

\* series.scan, when START announces one.
Announced(start) == start.height # 0

\* "A scan announced in START overrides the configured scan for this series."
ScanOf(start) == IF Announced(start) THEN <<start.height, start.width>> ELSE ConfiguredScan

\* ScanShape.size
Size(scan) == scan[1] * scan[2]
=============================================================================
